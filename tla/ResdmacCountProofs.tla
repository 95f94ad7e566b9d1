--------------------------- MODULE ResdmacCountProofs --------------------------
(***************************************************************************)
(* The count of the FIFO, stepped by CPU_SM for longwords of its own and   *)
(* for SCSI_SM's, for every depth of the FIFO, every transfer and every    *)
(* port of memory:                                                         *)
(*                                                                         *)
(*   1  the direction: both machines work the way DMADIR says, because it  *)
(*      changes only when they have come to rest                           *)
(*   2  the requests: RequestNotSwallowed                                  *)
(*   3  what else is known of a reachable state, and what an edge changes  *)
(*   4  the bytes left to the chip, and the machines at rest               *)
(*   5  CPU_SM at home, and FLUSH                                          *)
(*   6  A1 and the byte pointer                                            *)
(*   7  room for what comes, and something there to go                     *)
(*   8  the pointers go with the count                                     *)
(*   9  CountNeverWraps and PointersAgree                                  *)
(*                                                                         *)
(* 1 and 2 hold whether the driver stops a transfer early or not.  The rest*)
(* needs Whole: a transfer stopped early is flushed with the chip sending, *)
(* and a read that leaves three bytes in its last longword has CPU_SM drain*)
(* a FIFO that is empty.  Either makes the count wrap.                     *)
(***************************************************************************)
EXTENDS ResdmacProofs

-------------------------------------------------------------------------------
(* 1.  The direction.                                                      *)

ToFifo   == {"S2F_1", "S2F_2", "S2F_3", "S2F_4"}       \* a byte from the chip
FromFifo == {"F2S_1", "F2S_2", "F2S_3", "F2S_4"}       \* a byte to the chip
Asking   == {"s1", "s21"}                              \* waiting for the bus

(* The steps of the driver in which DMA is off.                            *)
OffSteps == {"idle", "setup", "addr", "restore"}

(* CPU_SM starts to ask for the bus only with DMA on as it sampled it, in  *)
(* the direction of DMADIR, and lets it go by way of s0 and s20.           *)
LEMMA AskTable ==
  ASSUME NEW s \in CpuStates, NEW i
  PROVE  LET t   == CpuNext(s, i)
             out == CpuOut(s, i)
         IN  /\ t = "s1" => "BREQ" \in out /\ (s = "s1" \/ (s = "s0" /\ i.ena /\ i.dir))
             /\ t = "s21" => s = "s21" \/ (s = "s20" /\ i.ena /\ ~i.dir)
             /\ s = "s21" => "BREQ" \in out
             /\ s \in {"s0", "s20"} /\ ~i.ena => t = s
             /\ t \in DrainStates => s \in DrainStates \/ t = "s1"
             /\ t \in FillStates \ {"s20"} => s \in FillStates \ {"s20"} \/ t = "s21"
<1>1. CASE s \in DrainStates
  BY <1>1 DEF CpuOut, CpuNext, DrainOut, DrainNext, DrainStates, FillStates, If
<1>2. CASE s \in FillStates
  BY <1>2 DEF CpuOut, CpuNext, FillOut, FillNext, DrainStates, FillStates, If
<1>3. CASE s \in {"s0", "letgo"}
  BY <1>3 DEF CpuOut, CpuNext, IdleOut, IdleNext, If, DrainStates, FillStates
<1>4. QED
  BY <1>1, <1>2, <1>3 DEF CpuStates

(* SCSI_SM starts a byte in the direction of DMADIR, on a sampled DREQ,    *)
(* and is through with it four clocks later.                               *)
LEMMA MoveTable ==
  ASSUME NEW s, NEW j
  PROVE  LET t == ScsiNext(s, j)
         IN  /\ t = "S2F_1" => j.dreq /\ j.dir
             /\ t = "F2S_1" => j.dreq /\ ~j.dir
             /\ t = "S2F_2" <=> s = "S2F_1"
             /\ t = "S2F_3" <=> s = "S2F_2"
             /\ t = "S2F_4" <=> s = "S2F_3"
             /\ t = "F2S_2" <=> s = "F2S_1"
             /\ t = "F2S_3" <=> s = "F2S_2"
             /\ t = "F2S_4" <=> s = "F2S_3"
BY DEF ScsiNext, START_S2F, START_F2S

(* The CPU's cycles are the ones of the driver's step, and registers_term  *)
(* counts in them only.                                                    *)
StepInv ==
  /\ CpuAS => reg \in (IF step = "wait" THEN ChipRegs ELSE {RegOf(step)})
  /\ step \in Steps
  /\ TERM_COUNTER \in 0..3
  /\ TERM_COUNTER # 0 => CpuAS
  /\ REG_DSK => TERM_COUNTER = 3
  /\ cpu = "end" /\ reg \notin ChipRegs \cup {"ACR"} => REG_DSK

(* CPU_SM asks for the bus with BREQ, which the CPU sees a clock later.    *)
AskInv ==
  /\ cst = "s1" => BREQ
  /\ edge = "CLK90+" => (brSeen <=> BREQ)

(* DMA has been off for so long that the machines have come to rest: the   *)
(* SCSI side moves no byte, the bus side asks for the bus no more unless   *)
(* the CPU knows of it.                                                    *)
AtRest ==
  /\ ~DMAENA /\ ~cDMAENA /\ ~CDREQ
  /\ sst \notin ToFifo \cup FromFifo
  /\ cst \in Asking => BREQ /\ brSeen

(* How far the SP_DMA cycle has brought them there, by the counter that    *)
(* terminates it: one clock after the other the byte under way comes to    *)
(* its end and the last request for the bus shows.                         *)
Stopping ==
  /\ edge # "CLK90-" \/ TERM_COUNTER > 0 => ~DMAENA
  /\ edge \notin {"CLK90-", "CLK135-"} \/ TERM_COUNTER > 0 => ~CDREQ
  /\ TERM_COUNTER > 1 \/ (TERM_COUNTER = 1 /\ edge # "CLK135+") => ~cDMAENA
  /\ TERM_COUNTER > 0 => sst \notin {"S2F_1", "F2S_1"}
  /\ TERM_COUNTER > 1 => sst \notin {"S2F_2", "F2S_2"}
  /\ TERM_COUNTER > 2 => sst \notin {"S2F_3", "F2S_3"}
  /\ TERM_COUNTER > 1 /\ cst \in Asking => BREQ
  /\ TERM_COUNTER > 2 /\ cst \in Asking => brSeen
  /\ REG_DSK => AtRest

StopInv ==
  /\ step \in OffSteps => AtRest
  /\ step \in OffSteps /\ CpuAS => cst \in {"s0", "s20"}
  /\ step = "halt" /\ CpuAS => Stopping

(* CNTR holds the direction of the transfer from set-up until DMA is off.  *)
DirInv ==
  /\ step \notin {"idle", "setup", "restore"} => (DMADIR <=> xfer.dir)
  /\ step = "setup" /\ CpuAS /\ (edge # "CLK90-" \/ cpu = "end") => (DMADIR <=> xfer.dir)
  /\ cst \in DrainStates => DMADIR
  /\ cst \in FillStates \ {"s20"} => ~DMADIR
  /\ sst \in ToFifo => DMADIR
  /\ sst \in FromFifo => ~DMADIR

(* The driver has not begun at reset.                                      *)
LEMMA StepInit == Init => StepInv
BY DEF Init, RegInit, MachineInit, StepInv, CpuAS, Steps

(* The driver's sequence of register accesses goes on only at the end of a *)
(* cycle.                                                                  *)
LEMMA StepNext == BusInv /\ AccessInv /\ StepInv /\ [Next]_vars => StepInv'
<1> SUFFICES ASSUME BusInv, AccessInv, StepInv, [Next]_vars
             PROVE  StepInv'
  OBVIOUS
<1>1. CASE Clk90Rise
  <2>1. /\ UNCHANGED <<step, cpu, reg>>
        /\ TERM_COUNTER' = IF CYCLE_ACTIVE(Selected) /\ TERM_COUNTER < 3
                           THEN TERM_COUNTER + 1 ELSE TERM_COUNTER
        /\ REG_DSK' <=> REG_DSK \/ (CYCLE_ACTIVE(Selected) /\ TERM_COUNTER = 3)
    BY <1>1 DEF Clk90Rise, RegPosedge90, driverVars, cpuBusVars
  <2>2. CYCLE_ACTIVE(Selected) => CpuAS
    BY DEF CYCLE_ACTIVE, Selected
  <2>3. CpuAS' = CpuAS /\ RegOf(step') = RegOf(step)
    BY <2>1 DEF CpuAS
  <2>4. /\ TERM_COUNTER' \in 0..3
        /\ TERM_COUNTER' # 0 => CpuAS
        /\ REG_DSK' => TERM_COUNTER' = 3
        /\ REG_DSK => REG_DSK'
    <3>1. /\ TERM_COUNTER \in 0..3
          /\ TERM_COUNTER # 0 => CpuAS
          /\ REG_DSK => TERM_COUNTER = 3
      BY DEF StepInv
    <3> HIDE DEF CpuAS, CYCLE_ACTIVE, Selected
    <3>2. QED
      BY <2>1, <2>2, <3>1
  <2>5. QED
    BY <2>1, <2>3, <2>4 DEF StepInv
<1>2. CASE ClkFall
  <2>1. /\ edge = "CLK-"
        /\ AS_O' = PAS
        /\ TERM_COUNTER' = IF AS_I' THEN TERM_COUNTER ELSE 0
        /\ REG_DSK' <=> REG_DSK /\ AS_I'
        /\ CpuBus(OWN, DACK, RegDsack, FE) \/ StartTransfer
    BY <1>2 DEF ClkFall, At, RegNegedge
  <2>2. TERM_COUNTER # 0 => (AS_I' <=> CpuAS')
    <3>1. TERM_COUNTER # 0 => ~AS_O'
      BY <2>1 DEF StepInv, BusInv
    <3>2. QED
      BY <3>1 DEF AS_I
  <2>3. nLS2CPU => reg \in ChipRegs
    BY <2>1 DEF AccessInv, WriteStates, ReadStates, Answering, Answered, BeforeFall, ChipRegs
  <2>4. \/ StartCycle(OWN) \/ SeeDsack(RegDsack) \/ EndCycle(FE)
        \/ cpu = "idle" /\ UNCHANGED cpuBusVars /\ (UNCHANGED step \/ step' \in {"stop", "setup"})
    BY <2>1 DEF CpuBus, Interrupt, CpuRests, StartTransfer, driverVars, cpuBusVars
  <2>5. step' \in Steps
    BY <2>4 DEF StepInv, StartCycle, SeeDsack, EndCycle, driverVars, StepAfter, Steps
  <2>6. CpuAS' => reg' \in (IF step' = "wait" THEN ChipRegs ELSE {RegOf(step')})
    <3>1. CASE StartCycle(OWN)
      BY <3>1 DEF StartCycle, driverVars, ChipRegs
    <3>2. CASE SeeDsack(RegDsack)
      BY <3>2 DEF SeeDsack, driverVars, CpuAS, StepInv
    <3>3. CASE ~CpuAS'
      BY <3>3
    <3>4. QED
      BY <2>4, <3>1, <3>2, <3>3 DEF EndCycle, cpuBusVars, CpuAS
  <2>7. cpu' = "end" /\ reg' \notin ChipRegs \cup {"ACR"} => REG_DSK /\ AS_I'
    <3> SUFFICES ASSUME cpu' = "end", reg' \notin ChipRegs \cup {"ACR"}
                 PROVE  REG_DSK /\ AS_I'
      OBVIOUS
    <3>1. SeeDsack(RegDsack)
      BY <2>4 DEF StartCycle, EndCycle, cpuBusVars
    <3>2. RegDsack /\ reg' = reg
      BY <3>1 DEF SeeDsack
    <3>3. QED
      BY <2>3, <3>2 DEF RegDsack, AS_I, CpuAS
  <2>8. /\ TERM_COUNTER' \in 0..3
        /\ TERM_COUNTER' # 0 => CpuAS'
        /\ REG_DSK' => TERM_COUNTER' = 3
    <3>1. /\ TERM_COUNTER \in 0..3
          /\ REG_DSK => TERM_COUNTER = 3
      BY DEF StepInv
    <3> HIDE DEF AS_I, CpuAS
    <3>2. CASE AS_I'
      BY <2>1, <2>2, <3>1, <3>2
    <3>3. CASE ~AS_I'
      BY <2>1, <3>3
    <3>4. QED
      BY <3>2, <3>3
  <2>9. cpu' = "end" /\ reg' \notin ChipRegs \cup {"ACR"} => REG_DSK'
    BY <2>1, <2>7
  <2>10. QED
    BY <2>5, <2>6, <2>8, <2>9 DEF StepInv
<1>3. CASE ClkRise
  BY <1>3 DEF ClkRise, StepInv, CpuAS, regVars, driverVars, cpuBusVars
<1>4. CASE Clk135Rise
  BY <1>4 DEF Clk135Rise, StepInv, CpuAS, regVars, machineVars, driverVars, cpuBusVars
<1>5. CASE Clk90Fall
  BY <1>5 DEF Clk90Fall, StepInv, CpuAS, RegNegedge90, machineVars, driverVars, cpuBusVars
<1>6. CASE Clk135Fall
  BY <1>6 DEF Clk135Fall, StepInv, CpuAS, regVars, machineVars, driverVars, cpuBusVars
<1>7. CASE UNCHANGED vars
  BY <1>7 DEF vars, StepInv, CpuAS, regVars, machineVars, driverVars, cpuBusVars
<1>8. QED
  BY <1>1, <1>2, <1>3, <1>4, <1>5, <1>6, <1>7 DEF Next

(* CPU_SM asks for nothing at reset.                                       *)
LEMMA AskInit == Init => AskInv
BY DEF Init, CpuInit, MachineInit, AskInv, BREQ

(* CPU_SM asks for the bus in the direction of DMADIR.                     *)
LEMMA AskNext == RequestInv /\ BusInv /\ AskInv /\ [Next]_vars => AskInv'
<1> SUFFICES ASSUME RequestInv, BusInv, AskInv, [Next]_vars
             PROVE  AskInv'
  OBVIOUS
<1>1. CASE Clk90Rise
  <2>1. /\ cst' = CpuNext(cst, CpuIn)
        /\ cout' = CpuRegistered(CpuOut(cst, CpuIn), RIFIFO_o, RDFIFO_o)
        /\ edge' = "CLK135+"
    BY <1>1 DEF Clk90Rise, At, CpuPosedge90
  <2>2. BREQ' <=> "BREQ" \in CpuOut(cst, CpuIn)
    BY <2>1, Registered DEF RequestInv, BREQ
  <2>3. QED
    BY <2>1, <2>2, AskTable DEF AskInv, BusInv
<1>2. CASE ClkRise
  BY <1>2 DEF ClkRise, At, Arbitrate, cpuVars, AskInv, BREQ
<1>3. CASE Clk135Rise
  BY <1>3 DEF Clk135Rise, At, CpuPosedge135, AskInv, BREQ
<1>4. CASE ClkFall
  BY <1>4 DEF ClkFall, At, CpuNegedge, AskInv, BREQ
<1>5. CASE Clk90Fall
  BY <1>5 DEF Clk90Fall, At, cpuVars, AskInv, BREQ
<1>6. CASE Clk135Fall
  BY <1>6 DEF Clk135Fall, At, cpuVars, AskInv, BREQ
<1>7. CASE UNCHANGED vars
  BY <1>7 DEF vars, cpuVars, machineVars, arbiterVars, AskInv, BREQ
<1>8. QED
  BY <1>1, <1>2, <1>3, <1>4, <1>5, <1>6, <1>7 DEF Next

(* Both machines are at rest after reset.                                  *)
LEMMA StopInit == Init => StopInv
BY DEF Init, CpuInit, ScsiInit, RegInit, MachineInit, StopInv, AtRest, CpuAS, ToFifo, FromFifo,
       Asking

(* With no DREQ sampled no byte is started, and the one under way is one   *)
(* clock further.                                                          *)
LEMMA MovesEnd ==
  ASSUME Clk90Rise, ~CDREQ
  PROVE  /\ sst' \notin {"S2F_1", "F2S_1"}
         /\ sst' \in {"S2F_2", "F2S_2"} => sst \in {"S2F_1", "F2S_1"}
         /\ sst' \in {"S2F_3", "F2S_3"} => sst \in {"S2F_2", "F2S_2"}
         /\ sst' \in {"S2F_4", "F2S_4"} => sst \in {"S2F_3", "F2S_3"}
<1>1. sst' = ScsiNext(sst, ScsiIn) /\ ScsiIn.dreq = CDREQ
  BY DEF Clk90Rise, ScsiPosedge90, ScsiIn
<1>2. QED
  BY <1>1, MoveTable

(* With DMA sampled off CPU_SM does not begin to ask for the bus.          *)
LEMMA AsksNoMore ==
  ASSUME RequestInv, BusInv, Clk90Rise, ~cDMAENA
  PROVE  /\ cst' \in Asking => cst \in Asking /\ BREQ'
         /\ cst \in {"s0", "s20"} => cst' = cst
<1>1. /\ cst' = CpuNext(cst, CpuIn)
      /\ cout' = CpuRegistered(CpuOut(cst, CpuIn), RIFIFO_o, RDFIFO_o)
      /\ CpuIn.ena = cDMAENA
  BY DEF Clk90Rise, CpuPosedge90, CpuIn
<1>2. BREQ' <=> "BREQ" \in CpuOut(cst, CpuIn)
  BY <1>1, Registered DEF RequestInv, BREQ
<1>3. cst \in CpuStates
  BY DEF BusInv
<1>4. QED
  BY <1>1, <1>2, <1>3, AskTable DEF Asking

(* Once at rest they stay there until the CPU writes ST_DMA.               *)
LEMMA RestKept ==
  ASSUME RequestInv, BusInv, AskInv, AtRest, [Next]_vars,
         CpuAS => reg # "ST_DMA"
  PROVE  AtRest'
<1>1. CASE Clk90Rise
  <2>1. /\ UNCHANGED <<DMAENA, cDMAENA, CDREQ, brSeen>>
    BY <1>1 DEF Clk90Rise, CpuPosedge90, cpuSyncVars, ScsiPosedge90, scsiSyncVars, RegPosedge90,
                arbiterVars
  <2>2. sst' \notin ToFifo \cup FromFifo
    BY <1>1, MovesEnd DEF AtRest, ToFifo, FromFifo
  <2>3. cst' \in Asking => BREQ' /\ brSeen
    BY <1>1, AsksNoMore DEF AtRest
  <2>4. QED
    BY <2>1, <2>2, <2>3 DEF AtRest
<1>2. CASE ClkRise
  BY <1>2 DEF ClkRise, Arbitrate, cpuVars, cpuSyncVars, scsiVars, scsiSyncVars, regVars, AtRest,
              BREQ
<1>3. CASE Clk135Rise
  BY <1>3 DEF Clk135Rise, CpuPosedge135, ScsiPosedge135, scsiSyncVars, regVars, machineVars,
              arbiterVars, AtRest, BREQ
<1>4. CASE ClkFall
  BY <1>4 DEF ClkFall, CpuNegedge, cpuSyncVars, ScsiNegedge, scsiSyncVars, RegNegedge,
              arbiterVars, AtRest, BREQ
<1>5. CASE Clk90Fall
  <2>1. DMAENA' = NextENA(Selected)
    BY <1>5 DEF Clk90Fall, RegNegedge90
  <2>2. Selected # "ST_DMA"
    BY DEF Selected
  <2>3. ~DMAENA'
    BY <2>1, <2>2 DEF NextENA, AtRest
  <2>4. QED
    BY <1>5, <2>3 DEF Clk90Fall, cpuVars, cpuSyncVars, scsiVars, scsiSyncVars, machineVars,
                      arbiterVars, AtRest, BREQ
<1>6. CASE Clk135Fall
  BY <1>6 DEF Clk135Fall, ScsiNegedge135, DREQ, cpuVars, cpuSyncVars, regVars, machineVars,
              arbiterVars, AtRest, BREQ
<1>7. CASE UNCHANGED vars
  BY <1>7 DEF vars, cpuVars, cpuSyncVars, scsiVars, scsiSyncVars, regVars, machineVars,
              arbiterVars, AtRest, BREQ
<1>8. QED
  BY <1>1, <1>2, <1>3, <1>4, <1>5, <1>6, <1>7 DEF Next

(* The SP_DMA cycle brings them to rest, clock by clock.                   *)
LEMMA StoppingKept ==
  ASSUME RequestInv, BusInv, AskInv, StepInv, step = "halt", CpuAS, Stopping,
         [Next]_vars, ~ClkFall
  PROVE  Stopping'
<1> reg = "SP_DMA" /\ Selected = "SP_DMA"
  BY DEF StepInv, RegOf, Selected
<1>1. CASE Clk90Rise
  <2>1. /\ edge = "CLK90+" /\ edge' = "CLK135+"
        /\ UNCHANGED <<DMAENA, cDMAENA, CDREQ, brSeen>>
        /\ TERM_COUNTER' = IF TERM_COUNTER < 3 THEN TERM_COUNTER + 1 ELSE TERM_COUNTER
        /\ REG_DSK' <=> REG_DSK \/ TERM_COUNTER = 3
    BY <1>1 DEF Clk90Rise, At, CpuPosedge90, cpuSyncVars, ScsiPosedge90, scsiSyncVars,
                RegPosedge90, arbiterVars, CYCLE_ACTIVE, ChipRegs
  <2>2. /\ TERM_COUNTER \in 0..3
        /\ REG_DSK => TERM_COUNTER = 3
    BY DEF StepInv
  <2>3. /\ TERM_COUNTER' > 0
        /\ TERM_COUNTER' > 1 => TERM_COUNTER > 0
        /\ TERM_COUNTER' > 2 => TERM_COUNTER > 1
        /\ REG_DSK' => TERM_COUNTER > 2
    BY <2>1, <2>2
  <2>4. ~DMAENA /\ ~CDREQ
    BY <2>1 DEF Stopping
  <2>5. /\ TERM_COUNTER' > 1 => ~cDMAENA
        /\ TERM_COUNTER' = 1 => edge' = "CLK135+"
    <3>1. TERM_COUNTER > 0 => ~cDMAENA
      BY <2>1, <2>2 DEF Stopping
    <3>2. QED
      BY <2>1, <2>3, <3>1
  <2>6. /\ sst' \notin {"S2F_1", "F2S_1"}
        /\ TERM_COUNTER' > 1 => sst' \notin {"S2F_2", "F2S_2"}
        /\ TERM_COUNTER' > 2 => sst' \notin {"S2F_3", "F2S_3"}
        /\ REG_DSK' => sst' \notin ToFifo \cup FromFifo
    <3>1. /\ TERM_COUNTER' > 1 => sst \notin {"S2F_1", "F2S_1"}
          /\ TERM_COUNTER' > 2 => sst \notin {"S2F_2", "F2S_2"}
          /\ REG_DSK' => sst \notin {"S2F_1", "F2S_1", "S2F_2", "F2S_2", "S2F_3", "F2S_3"}
      <4>1. TERM_COUNTER > 2 => TERM_COUNTER > 1 /\ TERM_COUNTER > 0
        BY <2>2
      <4>2. QED
        BY <2>3, <4>1 DEF Stopping
    <3>2. QED
      BY <1>1, <2>4, <3>1, MovesEnd DEF ToFifo, FromFifo
  <2>7. TERM_COUNTER' > 1 /\ cst' \in Asking => cst \in Asking /\ BREQ'
    BY <1>1, <2>5, AsksNoMore
  <2>8. TERM_COUNTER' > 2 /\ cst' \in Asking => brSeen
    <3>1. TERM_COUNTER' > 2 => TERM_COUNTER' > 1
      BY <2>1, <2>2
    <3>2. QED
      BY <2>1, <2>3, <2>7, <3>1 DEF Stopping, AskInv
  <2>9. REG_DSK' => AtRest'
    <3>1. REG_DSK' => TERM_COUNTER' > 2 /\ TERM_COUNTER' > 1
      BY <2>1, <2>2
    <3>2. QED
      BY <2>1, <2>4, <2>5, <2>6, <2>7, <2>8, <3>1 DEF AtRest
  <2>10. QED
    BY <2>1, <2>4, <2>5, <2>6, <2>7, <2>8, <2>9 DEF Stopping
<1>2. CASE ClkRise
  <2>1. /\ edge = "CLK+" /\ edge' = "CLK90+" /\ brSeen' = BREQ
        /\ UNCHANGED <<cst, cout, sst, DMAENA, cDMAENA, CDREQ, TERM_COUNTER, REG_DSK>>
    BY <1>2 DEF ClkRise, At, Arbitrate, cpuVars, cpuSyncVars, scsiVars, scsiSyncVars, regVars
  <2>2. /\ TERM_COUNTER > 2 => TERM_COUNTER > 1
        /\ BREQ' = BREQ
    BY <2>1 DEF StepInv, BREQ
  <2>3. REG_DSK => AtRest'
    BY <1>2, RestKept DEF Stopping
  <2>4. QED
    BY <2>1, <2>2, <2>3 DEF Stopping
<1>3. CASE Clk135Rise
  <2>1. /\ edge = "CLK135+" /\ edge' = "CLK-" /\ cDMAENA' = DMAENA
        /\ UNCHANGED <<cst, cout, sst, DMAENA, CDREQ, TERM_COUNTER, REG_DSK, brSeen>>
    BY <1>3 DEF Clk135Rise, At, CpuPosedge135, ScsiPosedge135, scsiSyncVars, regVars, machineVars,
                arbiterVars
  <2>2. REG_DSK => AtRest'
    BY <1>3, RestKept DEF Stopping
  <2>3. BREQ' = BREQ
    BY <2>1 DEF BREQ
  <2>4. QED
    BY <2>1, <2>2, <2>3 DEF Stopping
<1>4. CASE Clk90Fall
  <2>1. /\ edge = "CLK90-" /\ edge' = "CLK135-" /\ ~DMAENA'
        /\ UNCHANGED <<cst, cout, sst, cDMAENA, CDREQ, TERM_COUNTER, REG_DSK, brSeen>>
    BY <1>4 DEF Clk90Fall, At, RegNegedge90, NextENA, cpuVars, cpuSyncVars, scsiVars, scsiSyncVars,
                machineVars, arbiterVars
  <2>2. REG_DSK => AtRest'
    BY <1>4, RestKept DEF Stopping
  <2>3. BREQ' = BREQ
    BY <2>1 DEF BREQ
  <2>4. QED
    BY <2>1, <2>2, <2>3 DEF Stopping
<1>5. CASE Clk135Fall
  <2>1. /\ edge = "CLK135-" /\ edge' = "CLK+" /\ CDREQ' = DREQ
        /\ UNCHANGED <<cst, cout, sst, DMAENA, cDMAENA, TERM_COUNTER, REG_DSK, brSeen>>
    BY <1>5 DEF Clk135Fall, At, ScsiNegedge135, cpuVars, cpuSyncVars, regVars, machineVars,
                arbiterVars
  <2>2. REG_DSK => AtRest'
    BY <1>5, RestKept DEF Stopping
  <2>3. ~CDREQ' /\ BREQ' = BREQ
    BY <2>1 DEF Stopping, DREQ, BREQ
  <2>4. QED
    BY <2>1, <2>2, <2>3 DEF Stopping
<1>6. CASE UNCHANGED vars
  BY <1>6 DEF vars, cpuVars, cpuSyncVars, scsiVars, scsiSyncVars, regVars, machineVars,
              arbiterVars, Stopping, AtRest, BREQ
<1>7. QED
  BY <1>1, <1>2, <1>3, <1>4, <1>5, <1>6 DEF Next

(* From SP_DMA to the next set-up the driver does not write ST_DMA.        *)
LEMMA OffRegister ==
  ASSUME StepInv, step \in OffSteps \cup {"halt"}, CpuAS
  PROVE  reg # "ST_DMA"
BY DEF StepInv, OffSteps, RegOf

(* What the CPU does at the falling edge of CLK, as the step goes.         *)
LEMMA CpuSteps ==
  ASSUME ClkFall
  PROVE  \/ cpu = "idle" /\ cpu' = "idle" /\ (UNCHANGED step \/ (step = "wait" /\ step' = "stop")
                                              \/ (step = "idle" /\ step' = "setup"))
         \/ StartCycle(OWN) /\ cpu = "idle" /\ cpu' = "run" /\ UNCHANGED step
         \/ cpu = "run" /\ cpu' \in {"run", "end"} /\ UNCHANGED step
         \/ cpu = "end" /\ cpu' = "idle" /\ (UNCHANGED step \/ step' = StepAfter(step, xfer.dir))
BY DEF ClkFall, CpuBus, Interrupt, StartCycle, SeeDsack, EndCycle, CpuRests, StartTransfer,
       driverVars, cpuBusVars

(* negedge SCLK: the cycle that writes SP_DMA goes on, or ends with both   *)
(* machines at rest.                                                       *)
LEMMA StopClkFall ==
  ASSUME RequestInv, BusInv, AskInv, StepInv, StopInv, ClkFall
  PROVE  StopInv'
<1>1. /\ edge = "CLK-" /\ edge' = "CLK90-" /\ AS_O' = PAS
      /\ TERM_COUNTER' = IF AS_I' THEN TERM_COUNTER ELSE 0
      /\ REG_DSK' <=> REG_DSK /\ AS_I'
      /\ UNCHANGED <<cst, cout, sst, DMAENA, cDMAENA, CDREQ, brSeen, bg>>
  BY DEF ClkFall, At, CpuNegedge, cpuSyncVars, ScsiNegedge, scsiSyncVars, RegNegedge, arbiterVars
<1>2. AtRest => AtRest'
  BY <1>1 DEF AtRest, BREQ
<1>3. step' \in OffSteps => AtRest'
  <2> SUFFICES ASSUME step' \in OffSteps PROVE AtRest
    BY <1>2
  <2>1. CASE step \in OffSteps
    BY <2>1 DEF StopInv
  <2>2. CASE step \notin OffSteps
    <3>1. cpu = "end" /\ step' = StepAfter(step, xfer.dir)
      BY <2>2, CpuSteps DEF OffSteps
    <3>2. step = "halt"
      BY <2>2, <3>1 DEF StepAfter, OffSteps, StepInv, Steps
    <3>3. CpuAS /\ REG_DSK
      BY <3>1, <3>2 DEF StepInv, CpuAS, RegOf, ChipRegs
    <3>4. QED
      BY <3>2, <3>3 DEF StopInv, Stopping
  <2>3. QED
    BY <2>1, <2>2
<1>4. step' \in OffSteps /\ CpuAS' => cst' \in {"s0", "s20"}
  <2> SUFFICES ASSUME step' \in OffSteps, CpuAS' PROVE cst \in {"s0", "s20"}
    BY <1>1
  <2>1. step = step' /\ AtRest
    BY CpuSteps DEF CpuAS, StopInv
  <2>2. CASE CpuAS
    BY <2>1, <2>2 DEF StopInv
  <2>3. CASE ~CpuAS
    <3>1. ~OWN /\ ~brSeen
      BY <2>3, CpuSteps DEF CpuAS, StartCycle, BusFree
    <3>2. QED
      BY <2>1, <3>1 DEF BusInv, NotMaster, AtRest, Asking
  <2>4. QED
    BY <2>2, <2>3
<1>5. step' = "halt" /\ CpuAS' => Stopping'
  <2> SUFFICES ASSUME step' = "halt", CpuAS' PROVE Stopping'
    OBVIOUS
  <2>1. step = "halt"
    BY CpuSteps DEF CpuAS
  <2>2. CASE CpuAS
    <3>1. AS_I' /\ Stopping
      BY <2>1, <2>2 DEF AS_I, StopInv
    <3>2. TERM_COUNTER' = TERM_COUNTER /\ (REG_DSK' <=> REG_DSK) /\ (BREQ' <=> BREQ)
      BY <1>1, <3>1 DEF BREQ
    <3>3. TERM_COUNTER > 0 => ~DMAENA /\ ~CDREQ /\ ~cDMAENA
      <4>1. TERM_COUNTER > 0 => TERM_COUNTER > 1 \/ TERM_COUNTER = 1
        BY DEF StepInv
      <4>2. QED
        BY <1>1, <3>1, <4>1 DEF Stopping
    <3>4. TERM_COUNTER > 1 \/ TERM_COUNTER = 1 => TERM_COUNTER > 0
      BY DEF StepInv
    <3>5. QED
      BY <1>1, <1>2, <3>1, <3>2, <3>3, <3>4 DEF Stopping
  <2>3. CASE ~CpuAS
    <3>1. TERM_COUNTER = 0 /\ ~REG_DSK
      BY <2>3 DEF StepInv
    <3>2. TERM_COUNTER' = 0 /\ ~REG_DSK'
      BY <1>1, <3>1
    <3>3. QED
      BY <1>1, <3>2 DEF Stopping
  <2>4. QED
    BY <2>2, <2>3
<1>6. QED
  BY <1>3, <1>4, <1>5 DEF StopInv

(* Every edge keeps the machines at rest, or on their way there.           *)
LEMMA StopNext ==
  RequestInv /\ BusInv /\ AskInv /\ StepInv /\ StopInv /\ [Next]_vars => StopInv'
<1> SUFFICES ASSUME RequestInv, BusInv, AskInv, StepInv, StopInv, [Next]_vars, ~ClkFall
             PROVE  StopInv'
  BY StopClkFall
<1>1. UNCHANGED <<step, cpu>>
  BY DEF Next, ClkRise, Clk90Rise, Clk135Rise, Clk90Fall, Clk135Fall, vars, machineVars,
         driverVars, cpuBusVars
<1>2. CpuAS' <=> CpuAS
  BY <1>1 DEF CpuAS
<1>3. step \in OffSteps => AtRest'
  BY OffRegister, RestKept DEF StopInv
<1>4. step \in OffSteps /\ CpuAS => cst' \in {"s0", "s20"}
  <2> SUFFICES ASSUME step \in OffSteps, CpuAS PROVE cst' \in {"s0", "s20"}
    OBVIOUS
  <2>1. cst \in {"s0", "s20"} /\ ~cDMAENA
    BY DEF StopInv, AtRest
  <2>2. CASE Clk90Rise
    BY <2>1, <2>2, AsksNoMore
  <2>3. CASE ~Clk90Rise
    BY <2>1, <2>3 DEF Next, ClkRise, Clk135Rise, Clk90Fall, Clk135Fall, vars, cpuVars,
                      CpuPosedge135
  <2>4. QED
    BY <2>2, <2>3
<1>5. step = "halt" /\ CpuAS => Stopping'
  BY StoppingKept DEF StopInv
<1>6. QED
  BY <1>1, <1>2, <1>3, <1>4, <1>5 DEF StopInv

(* The direction is settled at reset.                                      *)
LEMMA DirInit == Init => DirInv
BY DEF Init, CpuInit, ScsiInit, RegInit, MachineInit, DirInv, CpuAS, ToFifo, FromFifo,
       DrainStates, FillStates

(* CNTR changes DMADIR only at set-up and after SP_DMA: between them the   *)
(* driver writes the direction that is there.                              *)
LEMMA DirWrites ==
  ASSUME StepInv, StopInv, DirInv, Clk90Fall
  PROVE  /\ step \notin {"setup", "restore"} => (DMADIR' <=> DMADIR)
         /\ step = "setup" /\ CpuAS => (DMADIR' <=> xfer.dir)
         /\ step \in {"setup", "restore"} /\ CpuAS =>
              cst \in {"s0", "s20"} /\ sst \notin ToFifo \cup FromFifo
         /\ ~CpuAS => (DMADIR' <=> DMADIR)
<1>1. DMADIR' = IF Selected = "CNTR" THEN DirWritten ELSE DMADIR
  BY DEF Clk90Fall, RegNegedge90
<1>2. Selected = "CNTR" => CpuAS /\ step \in {"setup", "stop", "restore"}
  BY DEF Selected, StepInv, RegOf, Steps, ChipRegs
<1>3. step = "setup" /\ CpuAS => Selected = "CNTR"
  BY DEF Selected, StepInv, RegOf
<1>4. step # "restore" => (DirWritten <=> xfer.dir)
  BY DEF DirWritten
<1>5. step = "stop" => (DMADIR <=> xfer.dir)
  BY DEF DirInv
<1>6. step \in {"setup", "restore"} /\ CpuAS =>
        cst \in {"s0", "s20"} /\ sst \notin ToFifo \cup FromFifo
  BY DEF StopInv, AtRest, OffSteps
<1>7. QED
  BY <1>1, <1>2, <1>3, <1>4, <1>5, <1>6

(* DMADIR changes only while both machines are at rest.                    *)
LEMMA DirNext == BusInv /\ StepInv /\ StopInv /\ DirInv /\ [Next]_vars => DirInv'
<1> SUFFICES ASSUME BusInv, StepInv, StopInv, DirInv, [Next]_vars
             PROVE  DirInv'
  OBVIOUS
<1>1. CASE Clk90Rise
  <2>1. /\ cst' = CpuNext(cst, CpuIn) /\ sst' = ScsiNext(sst, ScsiIn)
        /\ edge = "CLK90+" /\ UNCHANGED <<step, xfer, cpu, DMADIR>>
    BY <1>1 DEF Clk90Rise, At, CpuPosedge90, ScsiPosedge90, RegPosedge90, driverVars, cpuBusVars
  <2>2. CpuIn.dir = DMADIR /\ ScsiIn.dir = DMADIR /\ cst \in CpuStates
    BY DEF CpuIn, ScsiIn, BusInv
  <2>3. /\ cst' \in DrainStates => cst \in DrainStates \/ DMADIR
        /\ cst' \in FillStates \ {"s20"} => cst \in FillStates \ {"s20"} \/ ~DMADIR
    BY <2>1, <2>2, AskTable DEF DrainStates, FillStates
  <2>4. /\ sst' \in ToFifo => sst \in ToFifo \/ DMADIR
        /\ sst' \in FromFifo => sst \in FromFifo \/ ~DMADIR
    BY <2>1, <2>2, MoveTable DEF ToFifo, FromFifo
  <2>5. QED
    BY <2>1, <2>3, <2>4 DEF DirInv, CpuAS
<1>2. CASE ClkFall
  <2>1. edge = "CLK-" /\ edge' = "CLK90-" /\ UNCHANGED <<cst, sst, DMADIR>>
    BY <1>2 DEF ClkFall, At, CpuNegedge, ScsiNegedge, RegNegedge
  <2>2. UNCHANGED xfer \/ step' \in {"idle", "setup"}
    BY <1>2 DEF ClkFall, CpuBus, Interrupt, StartCycle, SeeDsack, EndCycle, CpuRests,
                StartTransfer, driverVars
  <2>3. step' \notin {"idle", "setup", "restore"} => (DMADIR <=> xfer.dir)
    <3> SUFFICES ASSUME step' \notin {"idle", "setup", "restore"} PROVE DMADIR <=> xfer.dir
      OBVIOUS
    <3>1. CASE step = "setup"
      BY <2>1, <1>2, <3>1, CpuSteps DEF DirInv, CpuAS
    <3>2. CASE step # "setup"
      BY <1>2, <3>2, CpuSteps DEF DirInv, StepAfter
    <3>3. QED
      BY <3>1, <3>2
  <2>4. step' = "setup" /\ cpu' = "end" => (DMADIR <=> xfer.dir) /\ UNCHANGED xfer
    BY <1>2, <2>1, CpuSteps DEF ClkFall, CpuBus, Interrupt, StartCycle, SeeDsack, EndCycle,
       CpuRests, StartTransfer, driverVars, cpuBusVars, DirInv, CpuAS
  <2>5. QED
    BY <2>1, <2>2, <2>3, <2>4 DEF DirInv
<1>3. CASE Clk90Fall
  <2>1. edge = "CLK90-" /\ UNCHANGED <<cst, sst, step, xfer, cpu>>
    BY <1>3 DEF Clk90Fall, At, cpuVars, scsiVars, machineVars, driverVars, cpuBusVars
  <2>2. QED
    BY <1>3, <2>1, DirWrites DEF DirInv, CpuAS, DrainStates, FillStates
<1>4. CASE ClkRise
  BY <1>4 DEF ClkRise, At, cpuVars, scsiVars, regVars, driverVars, cpuBusVars, DirInv, CpuAS
<1>5. CASE Clk135Rise
  BY <1>5 DEF Clk135Rise, At, CpuPosedge135, ScsiPosedge135, regVars, machineVars, driverVars,
              cpuBusVars, DirInv, CpuAS
<1>6. CASE Clk135Fall
  BY <1>6 DEF Clk135Fall, At, cpuVars, ScsiNegedge135, regVars, machineVars, driverVars,
              cpuBusVars, DirInv, CpuAS
<1>7. CASE UNCHANGED vars
  BY <1>7 DEF vars, cpuVars, scsiVars, regVars, machineVars, driverVars, cpuBusVars, DirInv, CpuAS
<1>8. QED
  BY <1>1, <1>2, <1>3, <1>4, <1>5, <1>6, <1>7 DEF Next

(* The invariants of the direction, together.                              *)
RestInv == StepInv /\ AskInv /\ StopInv /\ DirInv

(* RestInv holds of every reachable state.                                 *)
LEMMA RestInvariant == Spec => []RestInv
<1>1. Init => RestInv
  BY StepInit, AskInit, StopInit, DirInit DEF RestInv
<1>2. RequestInv /\ BusInv /\ AccessInv /\ RestInv /\ [Next]_vars => RestInv'
  BY StepNext, AskNext, StopNext, DirNext DEF RestInv
<1>3. QED
  BY <1>1, <1>2, RequestInvariant, BusInvariant, AccessInvariant, PTL DEF Spec

-------------------------------------------------------------------------------
(* 2.  The requests.                                                       *)

(* CPU_SM steps the count for itself only while it is the master, up for a *)
(* fill and down for a drain.                                              *)
LEMMA OwnSteps ==
  ASSUME NEW s, NEW i
  PROVE  /\ "INCFIFO" \in CpuOut(s, i) => s \in FillStates \ {"s20", "s21", "s35"}
         /\ "DECFIFO" \in CpuOut(s, i) => s \in DrainStates \ {"s1", "s15"}
<1>1. CASE s \in DrainStates
  BY <1>1 DEF CpuOut, DrainOut, DrainStates, FillStates, If, Aligned, OddWord, Partial, Strobes
<1>2. CASE s \in FillStates
  BY <1>2 DEF CpuOut, FillOut, DrainStates, FillStates, If, Fill, FillLow
<1>3. CASE s \notin DrainStates \cup FillStates
  BY <1>3 DEF CpuOut, IdleOut, If, DrainStates, FillStates
<1>4. QED
  BY <1>1, <1>2, <1>3

(* A request of SCSI_SM is never answered by a step CPU_SM makes for a     *)
(* longword of its own: "INCFIFO = (~int_DECFIFO & ~nRIFIFO) | int_INCFIFO"*)
(* (CPU_SM_INTERNALS.v:621) would count the two as one.                    *)
THEOREM RequestNotSwallowedHolds == Spec => []RequestNotSwallowed
<1>1. RequestInv /\ RestInv => RequestNotSwallowed
  <2> SUFFICES ASSUME RequestInv, RestInv
               PROVE  /\ RIFIFO_o => "INCFIFO" \notin CpuOut(cst, CpuIn)
                      /\ RDFIFO_o => "DECFIFO" \notin CpuOut(cst, CpuIn)
    BY DEF RequestNotSwallowed
  <2>1. /\ RIFIFO_o => DMADIR \/ cst = "s15"
        /\ RDFIFO_o => ~DMADIR \/ cst = "s35"
    BY DEF RequestInv, RestInv, DirInv, ToFifo, FromFifo
  <2>2. /\ "INCFIFO" \in CpuOut(cst, CpuIn) => ~DMADIR /\ cst # "s15"
        /\ "DECFIFO" \in CpuOut(cst, CpuIn) => DMADIR /\ cst # "s35"
    BY OwnSteps DEF RestInv, DirInv, DrainStates, FillStates
  <2>3. QED
    BY <2>1, <2>2
<1>2. QED
  BY <1>1, RequestInvariant, RestInvariant, PTL

-------------------------------------------------------------------------------
(* 3.  What else is known, and the edges.                                  *)

(* The offset in its longword of the first byte of a transfer.             *)
First(t) == IF t.a1 THEN 2 ELSE 0

(* What the driver is taken to do: it stops a transfer only when the chip  *)
(* is through with it, and no read leaves three bytes in its last longword *)
(* (or none at all after an odd word).                                     *)
Whole ==
  /\ ~MayAbort
  /\ \A t \in Transfers : t.dir => (First(t) + t.len) % 4 # 3 /\ (t.a1 => t.len # 0)

(* INCFIFO and DECFIFO are out and not counted yet.                        *)
Landing == edge \in {"CLK135+", "CLK-"}

(* The steps of the driver in which no byte moves, and those of them in    *)
(* which the driver waits for what FLUSH has started.                      *)
Still == {"flush", "poll", "cint"} \cup {"halt"} \cup OffSteps
After == {"poll", "cint"}

(* DMA is off as far as the driver has got.                                *)
NotOn == step = "start" /\ ~DMAENA

(* The bytes left to the chip: none from the end of the transfer on, all   *)
(* of them before ST_DMA, and one at least for a DACK or a sampled DREQ.   *)
LeftInv ==
  /\ left <= xfer.len
  /\ DACK <=> sst \in {"S2F_1", "S2F_2", "F2S_1", "F2S_2"}
  /\ DACK => left > 0
  /\ step \in {"idle", "restore", "stop", "halt", "flush", "poll", "cint"} => left = 0
  /\ step \in {"setup", "addr"} \/ NotOn => left = xfer.len
  /\ step # "idle" => xfer \in Transfers
  /\ cDREQ /\ cDMAENA /\ edge # "CLK135+" => left > 0

(* SCSI_SM is at rest, and any step of the count is CPU_SM's own.          *)
Quiet == ~RIFIFO_o /\ ~RDFIFO_o /\ ~CDREQ /\ sst \notin ToFifo \cup FromFifo
OwnStep ==
  Landing => /\ "INCFIFO" \in cout => cst = "s35"
             /\ "DECFIFO" \in cout => cst = "s15"

(* The cycle that writes CNTR at the end brings SCSI_SM to rest, clock by  *)
(* clock: the byte under way is the last.                                  *)
Quieting ==
  /\ edge \notin {"CLK90-", "CLK135-"} \/ TERM_COUNTER > 0 => ~CDREQ
  /\ TERM_COUNTER > 0 => sst \notin {"S2F_1", "F2S_1"}
  /\ TERM_COUNTER > 1 => sst \notin {"S2F_2", "F2S_2"}
  /\ TERM_COUNTER > 2 => sst \notin {"S2F_3", "F2S_3"}
  /\ REG_DSK => Quiet

(* It is at rest when CNTR has been written and the transfer is over, and  *)
(* remains so until ST_DMA.                                                *)
QuietInv ==
  /\ step \in Still \/ NotOn => Quiet /\ OwnStep
  /\ step = "stop" /\ CpuAS => Quieting

(* Where CPU_SM waits for something to do.                                 *)
Home == IF DMADIR THEN "s0" ELSE "s20"

(* DMA is on between ST_DMA and SP_DMA; CPU_SM is at home before and, from *)
(* CINT on, again, with the FIFO of a read empty.                          *)
OnInv ==
  /\ step \in {"wait", "stop", "flush", "poll", "cint"} =>
       DMAENA /\ cDMAENA /\ (DMADIR => cst # "s20")
  /\ step = "start" /\ CpuAS =>
       /\ edge # "CLK90-" \/ TERM_COUNTER > 0 => DMAENA
       /\ TERM_COUNTER > 1 \/ (TERM_COUNTER = 1 /\ edge # "CLK135+") => cDMAENA
       /\ TERM_COUNTER > 1 /\ DMADIR => cst # "s20"
  /\ NotOn => ~cDMAENA
  /\ step \in OffSteps \cup {"halt"} \/ NotOn => cst \in {"s0", "s20"}
  /\ step \in {"cint", "halt"} => cst = Home
  /\ step \in {"flush", "poll", "cint"} \/ (step = "stop" /\ CpuAS /\ TERM_COUNTER > 0) =>
       (~DMADIR => cst = "s20")
  /\ DMADIR /\ step \in {"poll", "cint", "halt"} /\ cst \in {"s0", "letgo"} => COUNT = 0

(* What FLUSH has brought about while the CPU is still in that cycle: the  *)
(* FIFO of a write is reset, and that of a read empty or the bus asked     *)
(* for.                                                                    *)
FlushNow ==
  /\ edge # "CLK90-" \/ TERM_COUNTER > 0 => FLUSHFIFO
  /\ TERM_COUNTER > 1 \/ (TERM_COUNTER = 1 /\ edge # "CLK135+") => cFLUSH
  /\ ~DMADIR =>
       /\ TERM_COUNTER = 2 /\ Landing => COUNT = 0 \/ "RST_FIFO" \in cout
       /\ TERM_COUNTER > 2 \/ (TERM_COUNTER = 2 /\ ~Landing) => COUNT = 0
       /\ TERM_COUNTER > 2 => "STOPFLUSH" \in cout
  /\ DMADIR =>
       /\ TERM_COUNTER > 1 /\ cst = "s0" => COUNT = 0 /\ BYTE_PTR = 0 /\ "STOPFLUSH" \in cout
       /\ TERM_COUNTER > 2 /\ cst = "s1" => brSeen

(* And after it: the CPU is kept off the bus until FLUSHFIFO and its       *)
(* sample are gone, by BR, by BGACK or for want of time.                   *)
Flushing ==
  /\ ~CpuAS
  /\ ~DMADIR => COUNT = 0
  /\ \/ cst = "s1" /\ brSeen
     \/ cst \in DrainStates \ {"s1"}
     \/ /\ cst = "letgo"
        /\ FLUSHFIFO => "STOPFLUSH" \in cout /\ edge \in {"CLK135+", "CLK-", "CLK90-"}
     \/ /\ cst \in {"s0", "s20"} /\ edge # "CLK-"
        /\ FLUSHFIFO => "STOPFLUSH" \in cout /\ edge = "CLK90-"

FlushInv ==
  /\ FLUSHFIFO \/ cFLUSH => (step = "flush" /\ CpuAS) \/ (step \in After /\ Flushing)
  /\ step = "flush" /\ CpuAS => FlushNow
  /\ step \in After => cst # "s21" /\ (cst = "s1" => brSeen)
  /\ step \in After /\ CpuAS => cst \in {"s0", "s20"}
  /\ "STOPFLUSH" \in cout => cst # "s1"
  /\ "RST_FIFO" \in cout =>
       step = "flush" /\ CpuAS /\ ~DMADIR /\ cst = "s20" /\ TERM_COUNTER <= 2

(* A byte the chip has given and the byte pointer does not show yet.       *)
Lag == IF sst = "S2F_3" \/ (sst = "S2F_4" /\ edge \in {"CLK135+", "CLK-", "CLK90-"})
       THEN 1 ELSE 0

(* The first longword of a read is counted, or about to be.                *)
FirstDone == COUNT > 0 \/ RIFIFO_o \/ (Landing /\ "INCFIFO" \in cout)

(* The byte pointer tells how far the chip has got in the longword.        *)
ByteInv ==
  /\ "INCBO" \in sout <=> sst \in {"S2F_4", "F2S_4"}
  /\ sst = "S2F_4" /\ BYTE_PTR = 3 =>
       /\ edge = "CLK135+" => "RIFIFO" \in sout
       /\ edge \in {"CLK-", "CLK90-"} => RIFIFO_o
  /\ DMAENA /\ DMADIR => (First(xfer) + (xfer.len - left)) % 4 = (BYTE_PTR + Lag) % 4
  /\ DMAENA /\ DMADIR /\ A1 /\ ~FirstDone =>
       BYTE_PTR >= 2 /\ xfer.len - left = (BYTE_PTR - 2) + Lag

(* A1 is the address's until the first cycle of ReSDMAC, whose strobe      *)
(* clears it.                                                              *)
A1Inv ==
  /\ step = "addr" /\ CpuAS /\ (edge # "CLK90-" \/ cpu = "end") => (A1 <=> xfer.a1)
  /\ NotOn => (A1 <=> xfer.a1)
  /\ DMAENA /\ A1 => xfer.a1
  /\ cst \in {"s3", "s7", "s11"} => PAS
  /\ PAS /\ edge \in {"CLK135-", "CLK+", "CLK90+"} => ~A1
  /\ cst \in {"s4", "s8", "s12", "s15"} => ~A1

(* A byte or a word is left after the last longword.                       *)
Residue == COUNT = 0 /\ FLUSHFIFO /\ BYTE_PTR \in {1, 2} /\ ~A1

(* There is room for what is on its way into the FIFO, and there is what   *)
(* is on its way out.                                                      *)
RoomInv ==
  /\ Landing /\ "INCFIFO" \in cout =>
       /\ COUNT < DEPTH
       /\ DMADIR => ~RIFIFO_o /\ sst \notin ToFifo
       /\ ~DMADIR => cst = "s35"
  /\ Landing /\ "DECFIFO" \in cout =>
       /\ COUNT > 0
       /\ DMADIR => cst = "s15"
       /\ ~DMADIR => ~RDFIFO_o /\ sst \notin FromFifo
  /\ sst \in ToFifo \/ RIFIFO_o => COUNT < DEPTH
  /\ sst \in FromFifo \/ RDFIFO_o => COUNT > 0
  /\ cst \in FillStates \ {"s20", "s21", "s35"} => COUNT < DEPTH
  /\ cst = "s21" => COUNT = 0 /\ left > 0
  /\ cst \in {"s2", "s3", "s4", "s6", "s7", "s8"} => COUNT > 0
  /\ cst = "s1" => COUNT > 0 \/ Residue

(* The same place in the FIFO.                                             *)
Congruent(x, y) ==
  x = y \/ x + DEPTH = y \/ x = y + DEPTH \/ x = y + DEPTH + DEPTH

(* Edge by edge, what the pointers and the count have in common.           *)
PtrInv ==
  /\ edge = "CLK135+" =>
       Congruent(READ_PTR + Under("INCNO" \in cout \cup sout)
                   + COUNT + Under("INCFIFO" \in cout) + Under(RIFIFO_o \/ "RIFIFO" \in sout),
                 WRITE_PTR + Under("INCNI" \in cout \cup sout) + Under("DECFIFO" \in cout)
                   + Under(RDFIFO_o \/ "RDFIFO" \in sout) + Under(cst = "s35"))
  /\ edge = "CLK-" /\ RST_FIFO => READ_PTR = 0 /\ WRITE_PTR = 0
  /\ edge = "CLK-" /\ ~RST_FIFO =>
       Congruent(READ_PTR + COUNT + Under("INCFIFO" \in cout) + Under(RIFIFO_o),
                 WRITE_PTR + Under("DECFIFO" \in cout) + Under(RDFIFO_o) + Under(cst = "s35"))
  /\ ~Landing => Congruent(READ_PTR + COUNT + Under(RIFIFO_o),
                           WRITE_PTR + Under(RDFIFO_o) + Under(cst = "s35"))

(* What is known of a reachable state already.                             *)
Known ==
  /\ RequestInv /\ BusInv /\ DackInv /\ AccessInv /\ RestInv /\ TypeOK

CountInv ==
  /\ LeftInv /\ QuietInv /\ OnInv /\ FlushInv
  /\ ByteInv /\ A1Inv /\ RoomInv /\ PtrInv

(* What only some of the edges change.                                     *)
bothVars == <<cst, cout, sst, sout>>
fifoSide == <<COUNT, WRITE_PTR, READ_PTR, BYTE_PTR>>
regSide  == <<DMADIR, DMAENA, FLUSHFIFO, A1>>
termSide == <<TERM_COUNTER, REG_DSK>>
hostSide == <<step, xfer, cpu, left>>
syncSide == <<cDMAENA, cDREQ, cFLUSH>>
askSide  == <<RIFIFO_o, RDFIFO_o>>
countVars == <<bothVars, fifoSide, regSide, termSide, hostSide, syncSide, askSide>>

(* posedge SCLK: the arbiter sees BR.                                      *)
LEMMA RiseFrame ==
  ASSUME ClkRise
  PROVE  /\ edge = "CLK+" /\ edge' = "CLK90+" /\ brSeen' = BREQ
         /\ UNCHANGED <<countVars, CDREQ>>
BY DEF ClkRise, At, Arbitrate, cpuVars, cpuSyncVars, scsiVars, scsiSyncVars, scsiReqVars,
       fifoVars, regVars, driverVars, cpuBusVars, countVars, bothVars, fifoSide, regSide,
       termSide, hostSide, syncSide, askSide

(* posedge CLK90: the two machines and registers_term.                     *)
LEMMA Rise90Frame ==
  ASSUME Clk90Rise
  PROVE  /\ edge = "CLK90+" /\ edge' = "CLK135+"
         /\ cst' = CpuNext(cst, CpuIn)
         /\ cout' = CpuRegistered(CpuOut(cst, CpuIn), RIFIFO_o, RDFIFO_o)
         /\ sst' = ScsiNext(sst, ScsiIn)
         /\ sout' = ScsiOut(sst, ScsiIn)
         /\ RIFIFO_o' = (RIFIFO_o /\ "INCFIFO" \notin cout')
         /\ RDFIFO_o' = (RDFIFO_o /\ "DECFIFO" \notin cout')
         /\ TERM_COUNTER' = IF CYCLE_ACTIVE(Selected) /\ TERM_COUNTER < 3
                            THEN TERM_COUNTER + 1 ELSE TERM_COUNTER
         /\ REG_DSK' = (REG_DSK \/ (CYCLE_ACTIVE(Selected) /\ TERM_COUNTER = 3))
         /\ left' = IF DACK /\ ~DACK' /\ left > 0 THEN left - 1 ELSE left
         /\ UNCHANGED <<fifoSide, regSide, syncSide, step, xfer, cpu, CDREQ, brSeen>>
<1>1. ChipStrobes(DACK /\ "DACK" \notin sout', "WE" \in sout, TX_LATCH,
                  "SCSI_CS" \in sout' /\ "SCSI_CS" \notin sout)
  BY DEF Clk90Rise
<1>2. left' = IF DACK /\ ~DACK' /\ left > 0 THEN left - 1 ELSE left
  BY <1>1, Zenon DEF ChipStrobes, DACK
<1>3. QED
  BY <1>2 DEF Clk90Rise, At, CpuPosedge90, cpuSyncVars, ScsiPosedge90, scsiSyncVars,
              FifoPosedge90, RegPosedge90, driverVars, cpuBusVars, arbiterVars, fifoSide, regSide,
              syncSide

(* posedge CLK135: the sampled inputs, the requests and the pointers.      *)
LEMMA Rise135Frame ==
  ASSUME Clk135Rise
  PROVE  /\ edge = "CLK135+" /\ edge' = "CLK-"
         /\ cDMAENA' = DMAENA /\ cDREQ' = DREQ /\ cFLUSH' = FLUSHFIFO
         /\ RIFIFO_o' = ("INCFIFO" \notin cout /\ (RIFIFO_o \/ "RIFIFO" \in sout))
         /\ RDFIFO_o' = ("DECFIFO" \notin cout /\ (RDFIFO_o \/ "RDFIFO" \in sout))
         /\ WRITE_PTR' = IF RST_FIFO THEN 0
                         ELSE IF "INCNI" \in cout \cup sout THEN (WRITE_PTR + 1) % DEPTH
                         ELSE WRITE_PTR
         /\ READ_PTR' = IF RST_FIFO THEN 0
                        ELSE IF "INCNO" \in cout \cup sout THEN (READ_PTR + 1) % DEPTH
                        ELSE READ_PTR
         /\ UNCHANGED <<bothVars, regSide, termSide, hostSide, COUNT, BYTE_PTR, CDREQ, brSeen>>
BY DEF Clk135Rise, At, CpuPosedge135, ScsiPosedge135, scsiSyncVars, FifoPosedge135, regVars,
       machineVars, driverVars, cpuBusVars, arbiterVars, bothVars, regSide, termSide, hostSide

(* negedge SCLK: the count, and the CPU.                                   *)
LEMMA FallFrame ==
  ASSUME ClkFall
  PROVE  /\ edge = "CLK-" /\ edge' = "CLK90-"
         /\ COUNT' = IF RST_FIFO THEN 0
                     ELSE NextCount(COUNT, "INCFIFO" \in cout, "DECFIFO" \in cout)
         /\ TERM_COUNTER' = IF AS_I' THEN TERM_COUNTER ELSE 0
         /\ REG_DSK' = (REG_DSK /\ AS_I')
         /\ AS_O' = PAS
         /\ UNCHANGED <<bothVars, regSide, syncSide, askSide, WRITE_PTR, READ_PTR, BYTE_PTR,
                        CDREQ, brSeen>>
BY DEF ClkFall, At, CpuNegedge, cpuSyncVars, ScsiNegedge, scsiSyncVars, scsiReqVars, FifoNegedge,
       RegNegedge, arbiterVars, bothVars, regSide, syncSide, askSide

(* negedge CLK90: the registers and the byte pointer.                      *)
LEMMA Fall90Frame ==
  ASSUME Clk90Fall
  PROVE  /\ edge = "CLK90-" /\ edge' = "CLK135-"
         /\ DMADIR' = IF Selected = "CNTR" THEN DirWritten ELSE DMADIR
         /\ DMAENA' = NextENA(Selected)
         /\ FLUSHFIFO' = (Selected = "FLUSH" \/ (FLUSHFIFO /\ "STOPFLUSH" \notin cout))
         /\ A1' = IF Selected = "ACR" THEN xfer.a1 ELSE (A1 /\ ~AS_O)
         /\ BYTE_PTR' = IF RST_FIFO THEN (IF A1 THEN 2 ELSE 0)
                        ELSE IF "INCBO" \in sout THEN (BYTE_PTR + 1) % 4 ELSE BYTE_PTR
         /\ UNCHANGED <<bothVars, termSide, hostSide, syncSide, askSide, COUNT, WRITE_PTR,
                        READ_PTR, CDREQ, brSeen>>
BY DEF Clk90Fall, At, RegNegedge90, NextFLUSH, FifoNegedge90, cpuVars, cpuSyncVars, scsiVars,
       scsiSyncVars, scsiReqVars, machineVars, driverVars, cpuBusVars, arbiterVars, bothVars,
       termSide, hostSide, syncSide, askSide

(* negedge CLK135: the sampled DREQ.                                       *)
LEMMA Fall135Frame ==
  ASSUME Clk135Fall
  PROVE  /\ edge = "CLK135-" /\ edge' = "CLK+" /\ CDREQ' = DREQ
         /\ UNCHANGED <<countVars, brSeen>>
BY DEF Clk135Fall, At, ScsiNegedge135, cpuVars, cpuSyncVars, scsiReqVars, fifoVars, regVars,
       machineVars, driverVars, cpuBusVars, arbiterVars, countVars, bothVars, fifoSide, regSide,
       termSide, hostSide, syncSide, askSide

(* A step that is no edge.                                                 *)
LEMMA NoEdgeFrame ==
  ASSUME UNCHANGED vars
  PROVE  UNCHANGED <<countVars, edge, CDREQ, brSeen>>
BY DEF vars, cpuVars, cpuSyncVars, scsiVars, scsiSyncVars, scsiReqVars, fifoVars, regVars,
       machineVars, driverVars, cpuBusVars, arbiterVars, countVars, bothVars, fifoSide, regSide,
       termSide, hostSide, syncSide, askSide

(* What the CPU does with negedge SCLK, and the driver with it.            *)
Rests  == UNCHANGED hostSide
Begins == /\ step = "idle" /\ cpu = "idle" /\ step' = "setup" /\ cpu' = "idle"
          /\ xfer' \in Transfers /\ left' = xfer'.len
Halts  == /\ step = "wait" /\ cpu = "idle" /\ left = 0 /\ step' = "stop"
          /\ UNCHANGED <<xfer, cpu, left>>
Starts == /\ cpu = "idle" /\ cpu' = "run" /\ step # "idle" /\ ~OWN /\ ~brSeen
          /\ UNCHANGED <<step, xfer, left>>
Sees   == /\ cpu = "run" /\ cpu' = "end"
          /\ UNCHANGED <<step, xfer, left>>
Ends   == /\ cpu = "end" /\ cpu' = "idle" /\ step \in Steps
          /\ step \notin {"wait", "addr"} => REG_DSK /\ TERM_COUNTER = 3
          /\ step' = step \/ step' = StepAfter(step, xfer.dir)
          /\ step' = step => step \in {"wait", "poll", "idle"}
          /\ step \in {"wait", "idle"} => step' = step
          /\ UNCHANGED <<xfer, left>>

(* One of these it does.                                                   *)
LEMMA HostMoves ==
  ASSUME Whole, Known, ClkFall
  PROVE  Rests \/ Begins \/ Halts \/ Starts \/ Sees \/ Ends
<1>1. CASE StartTransfer
  <2>1. PICK t \in Transfers : xfer' = t /\ left' = t.len
    BY <1>1 DEF StartTransfer
  <2>2. Begins
    BY <1>1, <2>1 DEF StartTransfer, Begins, cpuBusVars
  <2>3. QED
    BY <2>2
<1>2. CASE Interrupt(DACK)
  <2>1. Halts
    BY <1>2 DEF Interrupt, Halts, Whole, cpuBusVars
  <2>2. QED
    BY <2>1
<1>3. CASE StartCycle(OWN)
  <2>1. Starts
    BY <1>3 DEF StartCycle, BusFree, Starts, driverVars
  <2>2. QED
    BY <2>1
<1>4. CASE SeeDsack(RegDsack)
  <2>1. Rests \/ Sees
    BY <1>4 DEF SeeDsack, Rests, Sees, driverVars, hostSide
  <2>2. QED
    BY <2>1
<1>5. CASE EndCycle(FE)
  <2>1. /\ cpu = "end" /\ cpu' = "idle" /\ UNCHANGED <<xfer, left>>
        /\ step' = IF step = "wait" \/ (step = "poll" /\ ~FE) THEN step
                   ELSE StepAfter(step, xfer.dir)
    BY <1>5 DEF EndCycle
  <2>2. StepInv
    BY DEF Known, RestInv
  <2>3. CpuAS /\ step \in Steps
    BY <2>1, <2>2 DEF StepInv, CpuAS
  <2>4. step \notin {"wait", "addr"} => REG_DSK /\ TERM_COUNTER = 3
    BY <2>1, <2>2, <2>3 DEF StepInv, RegOf, Steps, ChipRegs
  <2>5. IF step = "idle" THEN StepAfter(step, xfer.dir) = "idle"
                         ELSE step # StepAfter(step, xfer.dir)
    BY <2>3 DEF StepAfter, Steps
  <2>6. QED
    BY <2>1, <2>3, <2>4, <2>5 DEF Ends
<1>6. CASE CpuRests
  <2>1. Rests
    BY <1>6 DEF CpuRests, Rests, driverVars, cpuBusVars, hostSide
  <2>2. QED
    BY <2>1
<1>7. QED
  BY <1>1, <1>2, <1>3, <1>4, <1>5, <1>6 DEF ClkFall, CpuBus

-------------------------------------------------------------------------------
(* 4.  The bytes left, and the machines at rest.                           *)

(* What SCSI_SM drives with the four clocks of a byte.                     *)
LEMMA ByteTable ==
  ASSUME NEW s, NEW j
  PROVE  LET t   == ScsiNext(s, j)
             out == ScsiOut(s, j)
         IN  /\ "DACK" \in out <=> t \in {"S2F_1", "S2F_2", "F2S_1", "F2S_2"}
             /\ "INCBO" \in out <=> t \in {"S2F_4", "F2S_4"}
             /\ "INCNI" \in out <=> s = "S2F_3" /\ j.boeq3
             /\ "RIFIFO" \in out <=> s = "S2F_3" /\ j.boeq3
             /\ "INCNO" \in out <=> s = "F2S_3" /\ j.boeq3
             /\ "RDFIFO" \in out <=> s = "F2S_3" /\ j.boeq3
             /\ t = "S2F_1" => j.dreq /\ ~j.full /\ j.dir /\ ~j.ri
             /\ t = "F2S_1" => j.dreq /\ ~j.empty /\ ~j.dir /\ ~j.rd
BY DEF ScsiOut, ScsiNext, LongwordDone, When, START_S2F, START_F2S

(* The chip has nothing to move before the first transfer.                 *)
LEMMA LeftInit == Init => LeftInv
BY DEF Init, CpuInit, ScsiInit, RegInit, MachineInit, LeftInv, NotOn, DACK

(* posedge CLK90: a byte begins or ends.                                   *)
LEMMA LeftRise90 ==
  ASSUME Known, LeftInv, QuietInv, Clk90Rise
  PROVE  LeftInv'
<1>1. /\ edge = "CLK90+" /\ edge' = "CLK135+"
      /\ sst' = ScsiNext(sst, ScsiIn) /\ sout' = ScsiOut(sst, ScsiIn)
      /\ left' = IF DACK /\ ~DACK' /\ left > 0 THEN left - 1 ELSE left
      /\ UNCHANGED <<step, xfer, DMAENA, cDREQ, cDMAENA>>
  BY Rise90Frame DEF regSide, syncSide
<1>2. left \in Nat /\ xfer.len \in Nat
  BY DEF Known, DackInv, TypeOK, MachineTypeOK
<1>3. DACK' <=> sst' \in {"S2F_1", "S2F_2", "F2S_1", "F2S_2"}
  BY <1>1, ByteTable DEF DACK
<1>4. DACK' => left' > 0
  <2> SUFFICES ASSUME DACK' PROVE left > 0
    BY <1>1
  <2>1. CASE DACK
    BY <2>1 DEF LeftInv
  <2>2. CASE ~DACK
    <3>1. CDREQ
      BY <1>1, <2>2, ScsiTable DEF ScsiIn, LeftInv, DACK
    <3>2. QED
      BY <1>1, <2>2, <3>1 DEF Known, DackInv, DREQ
  <2>3. QED
    BY <2>1, <2>2
<1>5. left' <= left /\ left' \in Nat /\ (left = 0 => left' = 0)
  BY <1>1, <1>2
<1>6. step \in {"setup", "addr"} \/ NotOn => ~DACK
  BY DEF LeftInv, QuietInv, Still, OffSteps, Quiet, ToFifo, FromFifo
<1> HIDE DEF DACK
<1>7. QED
  BY <1>1, <1>2, <1>3, <1>4, <1>5, <1>6 DEF LeftInv, NotOn

(* negedge SCLK: the driver begins a transfer, or goes on with it.         *)
LEMMA LeftFall ==
  ASSUME Whole, Known, LeftInv, QuietInv, ClkFall
  PROVE  LeftInv'
<1>1. /\ edge = "CLK-" /\ edge' = "CLK90-"
      /\ UNCHANGED <<sst, sout, DMAENA, cDREQ, cDMAENA>>
  BY FallFrame DEF bothVars, regSide, syncSide
<1>2. left \in Nat /\ xfer.len \in Nat
  BY DEF Known, DackInv, TypeOK, MachineTypeOK
<1>3. DACK' = DACK
  BY <1>1 DEF DACK
<1>4. CASE Begins
  <2>1. ~DACK /\ ~cDMAENA
    <3>1. AtRest
      BY <1>4 DEF Begins, Known, RestInv, StopInv, OffSteps
    <3>2. QED
      BY <3>1 DEF LeftInv, AtRest, ToFifo, FromFifo
  <2>2. xfer'.len \in Nat
    BY <1>4, MachineAssumption DEF Begins
  <2>3. QED
    BY <1>1, <1>3, <1>4, <2>1, <2>2 DEF Begins, LeftInv, NotOn
<1>5. CASE ~Begins
  <2> UNCHANGED <<xfer, left>>
    BY <1>5, HostMoves DEF Rests, Halts, Starts, Sees, Ends, hostSide
  <2>1. CASE step' = step
    BY <1>1, <1>3, <2>1 DEF LeftInv, NotOn
  <2>2. CASE step' # step
    <3>1. \/ step = "wait" /\ step' = "stop" /\ left = 0
          \/ step \in Steps \ {"wait", "idle"} /\ step' = StepAfter(step, xfer.dir)
      BY <1>5, <2>2, HostMoves DEF Rests, Halts, Starts, Sees, Ends, hostSide
    <3>2. CASE step = "wait" /\ step' = "stop" /\ left = 0
      BY <1>1, <1>3, <3>2 DEF LeftInv, NotOn
    <3>3. CASE step \in Steps \ {"wait", "idle"} /\ step' = StepAfter(step, xfer.dir)
      BY <1>1, <1>3, <2>2, <3>3 DEF LeftInv, NotOn, StepAfter, Steps
    <3>4. QED
      BY <3>1, <3>2, <3>3
  <2>3. QED
    BY <2>1, <2>2
<1>6. QED
  BY <1>4, <1>5

(* Which register the driver's step writes with negedge CLK90.             *)
LEMMA RegWrites ==
  ASSUME Known, Clk90Fall
  PROVE  /\ DMAENA' = IF CpuAS /\ step = "start" THEN TRUE
                      ELSE IF CpuAS /\ step \in {"halt", "idle"} THEN FALSE ELSE DMAENA
         /\ FLUSHFIFO' = ((CpuAS /\ step = "flush") \/ (FLUSHFIFO /\ "STOPFLUSH" \notin cout))
         /\ A1' = IF CpuAS /\ step = "addr" THEN xfer.a1 ELSE A1 /\ ~AS_O
         /\ ~(CpuAS /\ step \in {"setup", "restore"}) => (DMADIR' <=> DMADIR)
<1>1. /\ DMADIR' = IF Selected = "CNTR" THEN DirWritten ELSE DMADIR
      /\ DMAENA' = NextENA(Selected)
      /\ FLUSHFIFO' = (Selected = "FLUSH" \/ (FLUSHFIFO /\ "STOPFLUSH" \notin cout))
      /\ A1' = IF Selected = "ACR" THEN xfer.a1 ELSE (A1 /\ ~AS_O)
  BY Fall90Frame
<1>2. StepInv
  BY DEF Known, RestInv
<1>3. step \in Steps
  BY <1>2 DEF StepInv
<1>4. /\ Selected = "ST_DMA" <=> CpuAS /\ step = "start"
      /\ Selected = "SP_DMA" <=> CpuAS /\ step \in {"halt", "idle"}
      /\ Selected = "FLUSH" <=> CpuAS /\ step = "flush"
      /\ Selected = "ACR" <=> CpuAS /\ step = "addr"
  BY <1>2, <1>3 DEF StepInv, Selected, RegOf, Steps, ChipRegs
<1>5. ~(CpuAS /\ step \in {"setup", "restore"}) => (DMADIR' <=> DMADIR)
  BY DirWrites DEF Known, RestInv
<1>6. DMAENA' = IF CpuAS /\ step = "start" THEN TRUE
                ELSE IF CpuAS /\ step \in {"halt", "idle"} THEN FALSE ELSE DMAENA
  BY <1>1, <1>3, <1>4 DEF NextENA
<1>7. QED
  BY <1>1, <1>4, <1>5, <1>6

(* Every edge keeps the bytes left.                                        *)
LEMMA LeftNext ==
  ASSUME Whole, Known, LeftInv, QuietInv, [Next]_vars
  PROVE  LeftInv'
<1>1. CASE Clk90Rise
  BY <1>1, LeftRise90
<1>2. CASE ClkFall
  BY <1>2, LeftFall
<1>3. CASE ClkRise
  BY <1>3, RiseFrame DEF countVars, bothVars, regSide, hostSide, syncSide, LeftInv, NotOn, DACK
<1>4. CASE Clk135Rise
  BY <1>4, Rise135Frame DEF bothVars, regSide, hostSide, LeftInv, NotOn, DACK, DREQ, Known, DackInv
<1>5. CASE Clk90Fall
  <2>1. /\ edge = "CLK90-" /\ UNCHANGED <<sst, sout, step, xfer, left, cDREQ, cDMAENA>>
    BY <1>5, Fall90Frame DEF bothVars, hostSide, syncSide
  <2>2. step = "start" /\ ~DMAENA' => ~DMAENA
    BY <1>5, RegWrites
  <2>3. QED
    BY <2>1, <2>2 DEF LeftInv, NotOn, DACK
<1>6. CASE Clk135Fall
  BY <1>6, Fall135Frame DEF countVars, bothVars, regSide, hostSide, syncSide, LeftInv, NotOn, DACK
<1>7. CASE UNCHANGED vars
  BY <1>7, NoEdgeFrame DEF countVars, bothVars, regSide, hostSide, syncSide, LeftInv, NotOn, DACK
<1>8. QED
  BY <1>1, <1>2, <1>3, <1>4, <1>5, <1>6, <1>7 DEF Next

(* While the CPU has the bus no request of SCSI_SM outlasts its byte.      *)
LEMMA NoRequest ==
  ASSUME Known', CpuAS', sst' \notin ToFifo \cup FromFifo
  PROVE  ~RIFIFO_o' /\ ~RDFIFO_o'
<1>1. RequestInv' /\ BusInv'
  BY DEF Known
<1>2. cst' \notin {"s15", "s35"}
  BY <1>1 DEF BusInv, NotMaster
<1>3. QED
  BY <1>1, <1>2 DEF RequestInv, ToFifo, FromFifo

(* registers_term counts one clock after the other.                        *)
LEMMA TermRise90 ==
  ASSUME Known, Clk90Rise
  PROVE  /\ TERM_COUNTER \in 0..3 /\ TERM_COUNTER' \in 0..3
         /\ TERM_COUNTER' > 1 => TERM_COUNTER > 0
         /\ TERM_COUNTER' > 2 => TERM_COUNTER > 1
         /\ REG_DSK' => TERM_COUNTER > 2
         /\ CpuAS /\ step \notin {"wait", "addr"} => TERM_COUNTER' > 0
         /\ ~CpuAS => TERM_COUNTER' = 0 /\ ~REG_DSK'
         /\ REG_DSK => TERM_COUNTER = 3
<1>1. /\ TERM_COUNTER' = IF CYCLE_ACTIVE(Selected) /\ TERM_COUNTER < 3
                         THEN TERM_COUNTER + 1 ELSE TERM_COUNTER
      /\ REG_DSK' = (REG_DSK \/ (CYCLE_ACTIVE(Selected) /\ TERM_COUNTER = 3))
  BY Rise90Frame
<1>2. StepInv
  BY DEF Known, RestInv
<1>3. /\ TERM_COUNTER \in 0..3
      /\ TERM_COUNTER # 0 => CpuAS
      /\ REG_DSK => TERM_COUNTER = 3
  BY <1>2 DEF StepInv
<1>4. /\ CYCLE_ACTIVE(Selected) => CpuAS
      /\ CpuAS /\ step \notin {"wait", "addr"} => CYCLE_ACTIVE(Selected)
  BY <1>2 DEF StepInv, CYCLE_ACTIVE, Selected, RegOf, ChipRegs
<1>5. REG_DSK' => REG_DSK \/ (CpuAS /\ TERM_COUNTER = 3)
  BY <1>1, <1>4
<1>6. TERM_COUNTER' = TERM_COUNTER \/ (CpuAS /\ TERM_COUNTER < 3 /\ TERM_COUNTER' = TERM_COUNTER + 1)
  BY <1>1, <1>4
<1>7. CpuAS /\ step \notin {"wait", "addr"} /\ TERM_COUNTER < 3 => TERM_COUNTER' = TERM_COUNTER + 1
  BY <1>1, <1>4
<1>8. QED
  BY <1>3, <1>5, <1>6, <1>7

(* It is cleared between two cycles.                                       *)
LEMMA TermFall ==
  ASSUME Known, ClkFall, CpuAS'
  PROVE  /\ TERM_COUNTER' = TERM_COUNTER /\ REG_DSK' = REG_DSK
         /\ ~CpuAS => TERM_COUNTER = 0 /\ ~REG_DSK
         /\ TERM_COUNTER \in 0..3
         /\ REG_DSK => TERM_COUNTER = 3
<1>1. StepInv
  BY DEF Known, RestInv
<1>2. AS_I'
  BY DEF AS_I
<1>3. /\ TERM_COUNTER' = IF AS_I' THEN TERM_COUNTER ELSE 0
      /\ REG_DSK' = (REG_DSK /\ AS_I')
  BY FallFrame
<1>4. REG_DSK \in BOOLEAN
  BY DEF Known, TypeOK, RegTypeOK
<1>5. QED
  BY <1>1, <1>2, <1>3, <1>4 DEF StepInv

(* SCSI_SM is at rest after reset.                                         *)
LEMMA QuietInit == Init => QuietInv
BY DEF Init, CpuInit, ScsiInit, MachineInit, QuietInv, Quiet, OwnStep, ToFifo, FromFifo, CpuAS

(* With no DREQ to be sampled SCSI_SM stays at rest.                       *)
LEMMA QuietKept ==
  ASSUME Known, Quiet, OwnStep, ~DREQ, [Next]_vars
  PROVE  Quiet' /\ OwnStep'
<1>1. CASE Clk90Rise
  <2>1. sst' \notin ToFifo \cup FromFifo
    BY <1>1, MovesEnd DEF Quiet, ToFifo, FromFifo
  <2>2. Quiet'
    <3>1. CDREQ' = CDREQ /\ (RIFIFO_o' => RIFIFO_o) /\ (RDFIFO_o' => RDFIFO_o)
      BY <1>1, Rise90Frame
    <3>2. QED
      BY <2>1, <3>1 DEF Quiet
  <2>3. /\ cst' = CpuNext(cst, CpuIn)
        /\ cout' = CpuRegistered(CpuOut(cst, CpuIn), RIFIFO_o, RDFIFO_o)
        /\ ~RIFIFO_o /\ ~RDFIFO_o
        /\ RIFIFO_o \in BOOLEAN /\ RDFIFO_o \in BOOLEAN
    BY <1>1, Rise90Frame DEF Quiet, Known, RequestInv
  <2>4. OwnStep'
    BY <2>3, Registered, CountStates DEF OwnStep
  <2>5. QED
    BY <2>2, <2>4
<1>2. CASE Clk135Rise
  <2>1. "RIFIFO" \notin sout /\ "RDFIFO" \notin sout
    BY DEF Known, RequestInv, Quiet, ToFifo, FromFifo
  <2>2. /\ UNCHANGED <<cst, cout, sst, CDREQ>> /\ edge = "CLK135+"
        /\ RIFIFO_o' => RIFIFO_o \/ "RIFIFO" \in sout
        /\ RDFIFO_o' => RDFIFO_o \/ "RDFIFO" \in sout
    BY <1>2, Rise135Frame DEF bothVars
  <2>3. QED
    BY <2>1, <2>2 DEF Quiet, OwnStep, Landing
<1>3. CASE ClkRise
  BY <1>3, RiseFrame DEF countVars, bothVars, askSide, Quiet, OwnStep, Landing
<1>4. CASE ClkFall
  BY <1>4, FallFrame DEF bothVars, askSide, Quiet, OwnStep, Landing
<1>5. CASE Clk90Fall
  BY <1>5, Fall90Frame DEF bothVars, askSide, Quiet, OwnStep, Landing
<1>6. CASE Clk135Fall
  BY <1>6, Fall135Frame DEF countVars, bothVars, askSide, Quiet, OwnStep, Landing
<1>7. CASE UNCHANGED vars
  BY <1>7, NoEdgeFrame DEF countVars, bothVars, askSide, Quiet, OwnStep, Landing
<1>8. QED
  BY <1>1, <1>2, <1>3, <1>4, <1>5, <1>6, <1>7 DEF Next

(* There is no DREQ to be sampled once the transfer is over, nor before it *)
(* begins.                                                                 *)
LEMMA NoDreq ==
  ASSUME Known, LeftInv, step \in Still \cup {"stop"} \/ NotOn
  PROVE  ~DREQ
<1>1. step \in {"setup", "addr"} => ~DMAENA
  BY DEF Known, RestInv, StopInv, AtRest, OffSteps
<1>2. QED
  BY <1>1 DEF Known, DackInv, LeftInv, DREQ, Still, OffSteps, NotOn

(* So it goes on while the cycle lasts.                                    *)
LEMMA QuietingKept ==
  ASSUME Known, Known', LeftInv, step = "stop", step' = "stop", CpuAS, CpuAS', Quieting, [Next]_vars
  PROVE  Quieting'
<1>1. ~DREQ
  BY NoDreq
<1>2. CASE Clk90Rise
  <2>1. edge = "CLK90+" /\ CDREQ' = CDREQ
    BY <1>2, Rise90Frame
  <2>2. ~CDREQ
    BY <2>1 DEF Quieting
  <2>3. /\ TERM_COUNTER' > 1 => sst' \notin {"S2F_2", "F2S_2"}
        /\ TERM_COUNTER' > 2 => sst' \notin {"S2F_3", "F2S_3"}
        /\ REG_DSK' => sst' \notin ToFifo \cup FromFifo
    <3>1. /\ TERM_COUNTER' > 1 => sst \notin {"S2F_1", "F2S_1"}
          /\ TERM_COUNTER' > 2 => sst \notin {"S2F_1", "F2S_1", "S2F_2", "F2S_2"}
          /\ REG_DSK' => sst \notin {"S2F_1", "F2S_1", "S2F_2", "F2S_2", "S2F_3", "F2S_3"}
      <4>1. TERM_COUNTER > 2 => TERM_COUNTER > 1
        BY <1>2, TermRise90
      <4>2. TERM_COUNTER > 1 => TERM_COUNTER > 0
        BY <1>2, TermRise90
      <4>3. QED
        BY <1>2, <4>1, <4>2, TermRise90 DEF Quieting
    <3>2. QED
      BY <1>2, <2>2, <3>1, MovesEnd DEF ToFifo, FromFifo
  <2>4. REG_DSK' => Quiet'
    BY <2>1, <2>2, <2>3, NoRequest DEF Quiet
  <2>5. QED
    BY <1>2, <2>1, <2>2, <2>3, <2>4, MovesEnd DEF Quieting
<1>3. CASE ClkFall
  BY <1>3, FallFrame, TermFall DEF bothVars, askSide, Quieting, Quiet
<1>4. CASE Clk135Rise
  <2>1. /\ UNCHANGED <<sst, CDREQ, TERM_COUNTER, REG_DSK>> /\ edge = "CLK135+"
    BY <1>4, Rise135Frame DEF bothVars, termSide
  <2>2. REG_DSK' => Quiet'
    BY <2>1, NoRequest DEF Quieting, Quiet
  <2>3. QED
    BY <2>1, <2>2 DEF Quieting
<1>5. CASE ClkRise
  BY <1>5, RiseFrame DEF countVars, bothVars, askSide, termSide, Quieting, Quiet
<1>6. CASE Clk90Fall
  BY <1>6, Fall90Frame DEF bothVars, askSide, termSide, Quieting, Quiet
<1>7. CASE Clk135Fall
  BY <1>1, <1>7, Fall135Frame DEF countVars, bothVars, askSide, termSide, Quieting, Quiet
<1>8. CASE UNCHANGED vars
  BY <1>8, NoEdgeFrame DEF countVars, bothVars, askSide, termSide, Quieting, Quiet
<1>9. QED
  BY <1>2, <1>3, <1>4, <1>5, <1>6, <1>7, <1>8 DEF Next

(* But at negedge SCLK the driver stays where it is.                       *)
LEMMA HostStays ==
  ASSUME [Next]_vars, ~ClkFall
  PROVE  UNCHANGED <<step, xfer, cpu>>
BY DEF Next, ClkRise, Clk90Rise, Clk135Rise, Clk90Fall, Clk135Fall, vars, machineVars,
       driverVars, cpuBusVars

(* Every edge keeps SCSI_SM at rest, or on its way there.                  *)
LEMMA QuietNext ==
  ASSUME Whole, Known, Known', LeftInv, QuietInv, [Next]_vars
  PROVE  QuietInv'
<1>1. step' \in Still \/ NotOn' => Quiet' /\ OwnStep'
  <2>1. CASE step \in Still \/ NotOn
    BY <2>1, QuietKept, NoDreq DEF QuietInv
  <2>2. CASE ~(step \in Still \/ NotOn)
    <3> SUFFICES ASSUME step' \in Still \/ NotOn' PROVE Quiet' /\ OwnStep'
      OBVIOUS
    <3>1. ClkFall
      <4> SUFFICES ASSUME ~ClkFall PROVE FALSE
        OBVIOUS
      <4>1. step' = step
        BY HostStays
      <4>2. step = "start" /\ DMAENA /\ ~DMAENA'
        BY <2>2, <4>1 DEF NotOn
      <4>3. Clk90Fall
        BY <4>2, RiseFrame, Rise90Frame, Rise135Frame, Fall135Frame, NoEdgeFrame
           DEF Next, countVars, regSide
      <4>4. QED
        BY <4>2, <4>3, RegWrites
    <3>2. Ends /\ step = "stop"
      BY <2>2, <3>1, HostMoves, FallFrame DEF Rests, Begins, Halts, Starts, Sees, Ends, hostSide,
         StepAfter, Still, OffSteps, NotOn, Steps, regSide
    <3>3. Quiet /\ REG_DSK
      BY <3>2 DEF Ends, QuietInv, Quieting, CpuAS
    <3>4. QED
      BY <3>1, <3>3, FallFrame DEF bothVars, askSide, Quiet, OwnStep, Landing
  <2>3. QED
    BY <2>1, <2>2
<1>2. step' = "stop" /\ CpuAS' => Quieting'
  <2> SUFFICES ASSUME step' = "stop", CpuAS' PROVE Quieting'
    OBVIOUS
  <2>1. CASE step = "stop" /\ CpuAS
    BY <2>1, QuietingKept DEF QuietInv
  <2>2. CASE ~(step = "stop" /\ CpuAS)
    <3>1. ClkFall
      BY <2>2, HostStays DEF CpuAS
    <3>2. ~CpuAS
      BY <2>2, <3>1, HostMoves DEF Rests, Begins, Halts, Starts, Sees, Ends, hostSide, CpuAS
    <3>3. TERM_COUNTER' = 0 /\ ~REG_DSK' /\ edge' = "CLK90-"
      BY <3>1, <3>2, TermFall, FallFrame
    <3>4. QED
      BY <3>3 DEF Quieting
  <2>3. QED
    BY <2>1, <2>2
<1>3. QED
  BY <1>1, <1>2 DEF QuietInv

-------------------------------------------------------------------------------
(* 5.  CPU_SM at home, and FLUSH.                                          *)

(* How CPU_SM leaves the states in which it waits, and comes to them.      *)
LEMMA HomeTable ==
  ASSUME NEW s \in CpuStates, NEW i
  PROVE  LET t == CpuNext(s, i)
         IN  /\ s = "s0" => t = IF ~i.ena THEN "s0"
                                ELSE IF ~i.dir THEN "s20"
                                ELSE IF DrainDue(i) THEN "s1" ELSE "s0"
             /\ s = "s20" => t = IF i.ena /\ i.dir THEN "s0"
                                 ELSE IF i.ena /\ i.empty /\ i.dreq THEN "s21" ELSE "s20"
             /\ s = "letgo" => t = "s0"
             /\ t = "s0" => s \in {"s0", "s20", "letgo"}
             /\ t = "s20" => s \in {"s0", "s20"}
             /\ t = "letgo" => (s = "s15" /\ i.empty /\ ~i.last) \/ (s = "s35" /\ i.full)
             /\ t = "s1" => s \in {"s0", "s1"}
<1>1. CASE s \in DrainStates
  BY <1>1 DEF CpuNext, DrainNext, DrainStates, FillStates
<1>2. CASE s \in FillStates
  BY <1>2 DEF CpuNext, FillNext, DrainStates, FillStates
<1>3. CASE s \in {"s0", "letgo"}
  BY <1>3 DEF CpuNext, IdleNext, DrainStates, FillStates
<1>4. QED
  BY <1>1, <1>2, <1>3 DEF CpuStates

(* The same of an edge, by what the machine has sampled.                   *)
LEMMA HomeRise90 ==
  ASSUME Known, Clk90Rise
  PROVE  /\ cst = "s0" => cst' = IF ~cDMAENA THEN "s0"
                                 ELSE IF ~DMADIR THEN "s20"
                                 ELSE IF FIFOFULL \/ (cFLUSH /\ (~FIFOEMPTY \/ LASTWORD))
                                 THEN "s1" ELSE "s0"
         /\ cst = "s20" => cst' = IF cDMAENA /\ DMADIR THEN "s0"
                                  ELSE IF cDMAENA /\ FIFOEMPTY /\ cDREQ THEN "s21" ELSE "s20"
         /\ cst = "letgo" => cst' = "s0"
         /\ cst' = "s0" => cst \in {"s0", "s20", "letgo"}
         /\ cst' = "s20" => cst \in {"s0", "s20"}
         /\ cst' = "letgo" => (cst = "s15" /\ FIFOEMPTY /\ ~LASTWORD) \/ (cst = "s35" /\ FIFOFULL)
         /\ cst' = "s1" => cst \in {"s0", "s1"}
<1>1. cst' = CpuNext(cst, CpuIn) /\ cst \in CpuStates
  BY Rise90Frame DEF Known, BusInv
<1>2. /\ CpuIn.ena = cDMAENA /\ CpuIn.dir = DMADIR /\ CpuIn.empty = FIFOEMPTY
      /\ CpuIn.dreq = cDREQ /\ CpuIn.last = LASTWORD /\ CpuIn.full = FIFOFULL
      /\ DrainDue(CpuIn) <=> FIFOFULL \/ (cFLUSH /\ (~FIFOEMPTY \/ LASTWORD))
  BY DEF CpuIn, DrainDue
<1>3. QED
  BY <1>1, <1>2, HomeTable

(* Once the transfer is over CPU_SM does not leave home with an empty FIFO *)
(* and no flush.                                                           *)
LEMMA HomeKept ==
  ASSUME Known, LeftInv, Clk90Rise, step \in Still, cst = Home,
         DMADIR => COUNT = 0 /\ ~(cFLUSH /\ LASTWORD)
  PROVE  cst' = Home'
<1>1. edge = "CLK90+" /\ DMADIR' = DMADIR
  BY Rise90Frame DEF regSide
<1>2. CASE DMADIR
  <2>1. FIFOEMPTY /\ ~FIFOFULL
    BY <1>2, DepthType DEF FIFOEMPTY, FIFOFULL
  <2>2. QED
    BY <1>1, <1>2, <2>1, HomeRise90 DEF Home
<1>3. CASE ~DMADIR
  <2>1. ~(cDREQ /\ cDMAENA)
    <3>1. step \in OffSteps => ~cDMAENA
      BY DEF Known, RestInv, StopInv, AtRest
    <3>2. step \notin OffSteps => left = 0
      BY DEF Still, LeftInv
    <3>3. QED
      BY <1>1, <3>1, <3>2 DEF LeftInv
  <2>2. QED
    BY <1>1, <1>3, <2>1, HomeRise90 DEF Home
<1>4. QED
  BY <1>2, <1>3

(* CPU_SM waits, with DMA off, after reset.                                *)
LEMMA OnInit == Init => OnInv
BY DEF Init, CpuInit, FifoInit, RegInit, MachineInit, OnInv, NotOn, OffSteps, CpuAS

(* posedge CLK90: CPU_SM stays at home or comes back to it.                *)
LEMMA OnRise90 ==
  ASSUME Known, LeftInv, OnInv, FlushInv, RoomInv, Clk90Rise
  PROVE  OnInv'
<1>1. /\ edge = "CLK90+" /\ edge' = "CLK135+"
      /\ UNCHANGED <<COUNT, DMADIR, DMAENA, cDMAENA, step, cpu>>
  BY Rise90Frame DEF fifoSide, regSide, syncSide
<1>2. CpuAS' = CpuAS /\ NotOn' = NotOn
  BY <1>1 DEF CpuAS, NotOn
<1>3. step \in {"wait", "stop", "flush", "poll", "cint"} =>
        DMAENA /\ cDMAENA /\ (DMADIR => cst' # "s20")
  BY HomeRise90 DEF OnInv
<1>4. step = "start" /\ CpuAS =>
        /\ DMAENA
        /\ TERM_COUNTER' > 1 => cDMAENA
        /\ TERM_COUNTER' > 1 /\ DMADIR => cst' # "s20"
  <2> SUFFICES ASSUME step = "start", CpuAS
               PROVE  DMAENA /\ (TERM_COUNTER' > 1 => cDMAENA /\ (DMADIR => cst' # "s20"))
    OBVIOUS
  <2>1. DMAENA
    BY <1>1 DEF OnInv
  <2>2. TERM_COUNTER' > 1 => cDMAENA
    <3>1. TERM_COUNTER > 0 => TERM_COUNTER > 1 \/ TERM_COUNTER = 1
      BY TermRise90
    <3>2. QED
      BY <1>1, <3>1, TermRise90 DEF OnInv
  <2>3. QED
    BY <2>1, <2>2, HomeRise90
<1>5. NotOn => ~cDMAENA
  BY DEF OnInv
<1>6. step \in {"cint", "halt"} => cst' = Home'
  <2> SUFFICES ASSUME step \in {"cint", "halt"} PROVE cst' = Home'
    OBVIOUS
  <2>1. cst = Home
    BY DEF OnInv
  <2>2. DMADIR => COUNT = 0
    BY <2>1 DEF OnInv, Home
  <2>3. DMADIR => ~(cFLUSH /\ LASTWORD)
    BY <1>1, <2>1 DEF FlushInv, Flushing, After, LASTWORD, Home, DrainStates
  <2>4. QED
    BY <2>1, <2>2, <2>3, HomeKept DEF Still
<1>7. step \in OffSteps \cup {"halt"} \/ NotOn => cst' \in {"s0", "s20"}
  <2>1. CASE step = "halt"
    BY <1>6, <2>1 DEF Home
  <2>2. CASE step \in OffSteps \/ NotOn
    <3>1. ~cDMAENA /\ cst \in {"s0", "s20"}
      BY <2>2 DEF OnInv, Known, RestInv, StopInv, AtRest
    <3>2. QED
      BY <3>1, HomeRise90
  <2>3. QED
    BY <2>1, <2>2
<1>8. step \in {"flush", "poll", "cint"} => (~DMADIR => cst' = "s20")
  <2> SUFFICES ASSUME step \in {"flush", "poll", "cint"}, ~DMADIR PROVE cst' = "s20"
    OBVIOUS
  <2>1. cst = Home
    BY DEF OnInv, Home
  <2>2. QED
    BY <1>1, <2>1, HomeKept DEF Still, Home
<1>9. step = "stop" /\ CpuAS => (~DMADIR => cst' = "s20")
  <2> SUFFICES ASSUME step = "stop", CpuAS, ~DMADIR PROVE cst' = "s20"
    OBVIOUS
  <2>1. left = 0 /\ cDMAENA
    BY DEF LeftInv, OnInv
  <2>2. cst \in {"s0", "s20"}
    <3>1. cst \in NotMaster /\ cst # "s1"
      BY DEF Known, BusInv, RestInv, DirInv, DrainStates
    <3>2. cst # "s21"
      BY <2>1 DEF RoomInv
    <3>3. QED
      BY <3>1, <3>2 DEF NotMaster
  <2>3. ~cDREQ
    BY <1>1, <2>1 DEF LeftInv
  <2>4. QED
    BY <2>1, <2>2, <2>3, HomeRise90
<1>10. DMADIR /\ step \in {"poll", "cint", "halt"} /\ cst' \in {"s0", "letgo"} => COUNT = 0
  <2> SUFFICES ASSUME DMADIR, step \in {"poll", "cint", "halt"}, cst' \in {"s0", "letgo"}
               PROVE  COUNT = 0
    OBVIOUS
  <2>1. cst \in {"s0", "letgo"} \/ (cst = "s15" /\ FIFOEMPTY)
    <3>1. cst # "s35" /\ cst # "s20"
      BY DEF OnInv, Home, Known, RestInv, DirInv, FillStates
    <3>2. QED
      BY <3>1, HomeRise90
  <2>2. QED
    BY <2>1 DEF OnInv, FIFOEMPTY
<1>11. QED
  BY <1>1, <1>2, <1>3, <1>4, <1>5, <1>6, <1>7, <1>8, <1>9, <1>10 DEF OnInv

(* negedge SCLK: the driver's next step finds CPU_SM where it should be.   *)
LEMMA OnFall ==
  ASSUME Whole, Known, LeftInv, QuietInv, OnInv, FlushInv, ClkFall
  PROVE  OnInv'
<1>1. /\ edge = "CLK-" /\ edge' = "CLK90-"
      /\ UNCHANGED <<cst, DMADIR, DMAENA, cDMAENA>>
  BY FallFrame DEF bothVars, regSide, syncSide
<1>2. \/ step' = step
      \/ step = "idle" /\ step' = "setup"
      \/ step = "wait" /\ step' = "stop"
      \/ /\ CpuAS /\ ~CpuAS' /\ step \in Steps \ {"wait", "idle"} /\ step' = StepAfter(step, xfer.dir)
         /\ step # "addr" => REG_DSK /\ TERM_COUNTER = 3
  BY HostMoves DEF Rests, Begins, Halts, Starts, Sees, Ends, hostSide, CpuAS
<1>3. /\ CpuAS' /\ CpuAS => TERM_COUNTER' = TERM_COUNTER
      /\ CpuAS' /\ ~CpuAS => TERM_COUNTER' = 0
      /\ CpuAS' => step' = step
      /\ TERM_COUNTER \in 0..3
  <2>1. CpuAS' => step' = step
    BY HostMoves DEF Rests, Begins, Halts, Starts, Sees, Ends, hostSide, CpuAS
  <2>2. TERM_COUNTER \in 0..3
    BY DEF Known, TypeOK, RegTypeOK
  <2>3. QED
    BY <2>1, <2>2, TermFall
<1>4. step \notin {"idle", "setup", "restore"} => (DMADIR <=> xfer.dir)
  BY DEF Known, RestInv, DirInv

<1>5. step' \in {"wait", "stop", "flush", "poll", "cint"} =>
        DMAENA /\ cDMAENA /\ (DMADIR => cst # "s20")
  <2>1. CASE step = "start" /\ step' = "wait"
    <3>1. CpuAS /\ TERM_COUNTER > 1
      BY <1>2, <1>3, <2>1
    <3>2. QED
      BY <1>1, <2>1, <3>1 DEF OnInv
  <2>2. CASE step \in {"wait", "stop", "flush", "poll", "cint"}
    BY <2>2 DEF OnInv
  <2>3. QED
    BY <1>2, <2>1, <2>2 DEF StepAfter, Steps
<1>6. step' = "start" /\ CpuAS' =>
        /\ TERM_COUNTER' > 0 => DMAENA
        /\ TERM_COUNTER' > 1 \/ TERM_COUNTER' = 1 => cDMAENA
        /\ TERM_COUNTER' > 1 /\ DMADIR => cst # "s20"
  <2>1. TERM_COUNTER > 0 => TERM_COUNTER > 1 \/ TERM_COUNTER = 1
    BY <1>3
  <2>2. QED
    BY <1>1, <1>3, <2>1 DEF OnInv
<1>7. NotOn' => NotOn \/ step = "addr"
  BY <1>1, <1>2 DEF NotOn, StepAfter, Steps
<1>8. NotOn' => ~cDMAENA
  BY <1>7 DEF OnInv, Known, RestInv, StopInv, AtRest, OffSteps
<1>9. step' \in {"cint", "halt"} => cst = Home
  <2>1. CASE step \in {"cint", "halt"}
    BY <2>1 DEF OnInv
  <2>2. CASE step \notin {"cint", "halt"}
    <3> SUFFICES ASSUME step' \in {"cint", "halt"} PROVE cst = Home
      OBVIOUS
    <3>1. /\ CpuAS /\ TERM_COUNTER = 3
          /\ step = "poll" \/ (step \in {"stop", "flush"} /\ ~DMADIR)
      BY <1>2, <1>4, <2>2 DEF StepAfter, Steps
    <3>2. CASE step = "poll"
      BY <3>1, <3>2 DEF OnInv, FlushInv, After, Home
    <3>3. CASE step \in {"stop", "flush"} /\ ~DMADIR
      BY <1>3, <3>1, <3>3 DEF OnInv, Home
    <3>4. QED
      BY <3>1, <3>2, <3>3
  <2>3. QED
    BY <2>1, <2>2
<1>10. step' \in OffSteps \cup {"halt"} \/ NotOn' => cst \in {"s0", "s20"}
  <2>1. step' \in OffSteps \cup {"halt"} => step \in OffSteps \cup {"cint", "halt"}
    BY <1>2 DEF StepAfter, Steps, OffSteps
  <2>2. QED
    BY <1>7, <2>1 DEF OnInv, Home, OffSteps
<1>11. step' \in {"flush", "poll", "cint"} \/ (step' = "stop" /\ CpuAS' /\ TERM_COUNTER' > 0) =>
         (~DMADIR => cst = "s20")
  <2>1. CASE step \in {"flush", "poll", "cint"}
    BY <1>2, <2>1 DEF OnInv, StepAfter, Steps
  <2>2. CASE step = "stop"
    BY <1>2, <1>3, <2>2 DEF OnInv
  <2>3. CASE step \notin {"flush", "poll", "cint", "stop"}
    BY <1>2, <1>3, <2>3 DEF StepAfter, Steps
  <2>4. QED
    BY <2>1, <2>2, <2>3
<1>12. DMADIR /\ step' \in {"poll", "cint", "halt"} /\ cst \in {"s0", "letgo"} => COUNT' = 0
  <2> SUFFICES ASSUME DMADIR, step' \in {"poll", "cint", "halt"}, cst \in {"s0", "letgo"}
               PROVE  COUNT' = 0
    OBVIOUS
  <2>1. step \in {"flush", "poll", "cint", "halt"}
    BY <1>2, <1>4 DEF StepAfter, Steps
  <2>2. COUNT = 0
    <3>1. CASE step = "flush"
      <4>1. CpuAS /\ TERM_COUNTER = 3
        BY <1>2, <3>1
      <4>2. cst = "s0"
        BY <4>1 DEF Known, BusInv, NotMaster
      <4>3. QED
        BY <3>1, <4>1, <4>2 DEF FlushInv, FlushNow
    <3>2. CASE step # "flush"
      BY <2>1, <3>2 DEF OnInv
    <3>3. QED
      BY <3>1, <3>2
  <2>3. "INCFIFO" \notin cout /\ "DECFIFO" \notin cout
    BY <1>1, <2>1 DEF QuietInv, Still, OwnStep, Landing
  <2>4. QED
    BY <2>2, <2>3, FallFrame DEF NextCount
<1>13. Home' = Home
  BY <1>1 DEF Home
<1>14. QED
  BY <1>1, <1>5, <1>6, <1>8, <1>9, <1>10, <1>11, <1>12, <1>13 DEF OnInv

(* Every edge keeps CPU_SM where the driver's step finds it.               *)
LEMMA OnNext ==
  ASSUME Whole, Known, LeftInv, QuietInv, OnInv, FlushInv, RoomInv, [Next]_vars
  PROVE  OnInv'
<1>1. CASE Clk90Rise
  BY <1>1, OnRise90
<1>2. CASE ClkFall
  BY <1>2, OnFall
<1>3. CASE ClkRise
  BY <1>3, RiseFrame DEF countVars, bothVars, fifoSide, regSide, termSide, hostSide, syncSide,
                         OnInv, NotOn, Home, CpuAS
<1>4. CASE Clk135Rise
  <2>1. /\ edge = "CLK135+" /\ edge' = "CLK-" /\ cDMAENA' = DMAENA
        /\ UNCHANGED <<cst, COUNT, DMADIR, DMAENA, TERM_COUNTER, step, cpu>>
    BY <1>4, Rise135Frame DEF bothVars, regSide, termSide, hostSide
  <2>2. TERM_COUNTER > 1 \/ TERM_COUNTER = 1 => TERM_COUNTER > 0
    BY DEF Known, TypeOK, RegTypeOK
  <2>3. QED
    BY <2>1, <2>2 DEF OnInv, NotOn, Home, CpuAS
<1>5. CASE Clk90Fall
  <2>1. /\ edge = "CLK90-" /\ UNCHANGED <<cst, COUNT, cDMAENA, TERM_COUNTER, step, cpu>>
    BY <1>5, Fall90Frame DEF bothVars, termSide, hostSide, syncSide
  <2>2. /\ step \notin {"start", "halt", "idle"} => DMAENA' = DMAENA
        /\ step = "start" => (CpuAS => DMAENA') /\ (~DMAENA' => ~DMAENA)
        /\ step \notin {"setup", "restore"} => (DMADIR' <=> DMADIR)
    BY <1>5, RegWrites
  <2>3. DMADIR \in BOOLEAN /\ DMADIR' \in BOOLEAN
    BY <1>5, Fall90Frame DEF Known, TypeOK, RegTypeOK, MachineTypeOK, DirWritten
  <2>4. step \notin {"setup", "restore"} => DMADIR' = DMADIR
    BY <2>2, <2>3
  <2>5. QED
    BY <2>1, <2>2, <2>4 DEF OnInv, NotOn, Home, CpuAS, OffSteps
<1>6. CASE Clk135Fall
  BY <1>6, Fall135Frame DEF countVars, bothVars, fifoSide, regSide, termSide, hostSide, syncSide,
                            OnInv, NotOn, Home, CpuAS
<1>7. CASE UNCHANGED vars
  BY <1>7, NoEdgeFrame DEF countVars, bothVars, fifoSide, regSide, termSide, hostSide, syncSide,
                           OnInv, NotOn, Home, CpuAS
<1>8. QED
  BY <1>1, <1>2, <1>3, <1>4, <1>5, <1>6, <1>7 DEF Next

(* STOPFLUSH and RST_FIFO, which no request of SCSI_SM touches.            *)
LEMMA FlushTable ==
  ASSUME NEW s \in CpuStates, NEW i
  PROVE  LET t   == CpuNext(s, i)
             out == CpuOut(s, i)
         IN  /\ "STOPFLUSH" \in out => t # "s1"
             /\ "RST_FIFO" \in out <=>
                  s = "s20" /\ i.flush /\ ~i.empty /\ i.ena /\ ~i.dir /\ ~i.dreq
             /\ s = "s20" /\ i.flush /\ ~i.full /\ i.empty /\ i.ena /\ ~i.dir =>
                  "STOPFLUSH" \in out
             /\ s = "s0" /\ i.ena /\ i.dir /\ i.flush /\ ~DrainDue(i) => "STOPFLUSH" \in out
             /\ s = "s15" /\ t = "letgo" => "STOPFLUSH" \in out
             /\ s \in DrainStates => t \in DrainStates \cup {"letgo"}
<1>1. CASE s \in DrainStates
  BY <1>1 DEF CpuOut, CpuNext, DrainOut, DrainNext, DrainStates, FillStates, If, Granted,
              Aligned, OddWord, Partial, Strobes
<1>2. CASE s \in FillStates
  BY <1>2 DEF CpuOut, CpuNext, FillOut, FillNext, DrainStates, FillStates, If, Fill, FillLow
<1>3. CASE s \in {"s0", "letgo"}
  BY <1>3 DEF CpuOut, CpuNext, IdleOut, IdleNext, If, DrainStates, FillStates
<1>4. QED
  BY <1>1, <1>2, <1>3 DEF CpuStates

(* The same of an edge, by what the machine has sampled.                   *)
LEMMA FlushRise90Out ==
  ASSUME Known, Clk90Rise
  PROVE  /\ "STOPFLUSH" \in cout' => cst' # "s1"
         /\ "RST_FIFO" \in cout' <=>
              cst = "s20" /\ cFLUSH /\ ~FIFOEMPTY /\ cDMAENA /\ ~DMADIR /\ ~cDREQ
         /\ cst = "s20" /\ cFLUSH /\ ~FIFOFULL /\ FIFOEMPTY /\ cDMAENA /\ ~DMADIR =>
              "STOPFLUSH" \in cout'
         /\ cst = "s0" /\ cDMAENA /\ DMADIR /\ cFLUSH /\ ~FIFOFULL /\ FIFOEMPTY /\ ~LASTWORD =>
              "STOPFLUSH" \in cout'
         /\ cst = "s15" /\ cst' = "letgo" => "STOPFLUSH" \in cout'
         /\ cst \in DrainStates => cst' \in DrainStates \cup {"letgo"}
<1>1. /\ cst' = CpuNext(cst, CpuIn) /\ cst \in CpuStates
      /\ cout' = CpuRegistered(CpuOut(cst, CpuIn), RIFIFO_o, RDFIFO_o)
      /\ RIFIFO_o \in BOOLEAN /\ RDFIFO_o \in BOOLEAN
  BY Rise90Frame DEF Known, BusInv, RequestInv
<1>2. /\ "STOPFLUSH" \in cout' <=> "STOPFLUSH" \in CpuOut(cst, CpuIn)
      /\ "RST_FIFO" \in cout' <=> "RST_FIFO" \in CpuOut(cst, CpuIn)
  BY <1>1, Registered
<1>3. /\ CpuIn.ena = cDMAENA /\ CpuIn.dir = DMADIR /\ CpuIn.empty = FIFOEMPTY
      /\ CpuIn.dreq = cDREQ /\ CpuIn.last = LASTWORD /\ CpuIn.full = FIFOFULL
      /\ CpuIn.flush = cFLUSH
      /\ FIFOEMPTY /\ ~FIFOFULL /\ ~LASTWORD => ~DrainDue(CpuIn)
  BY DEF CpuIn, DrainDue
<1>4. QED
  BY <1>1, <1>2, <1>3, FlushTable

(* Nothing is flushed after reset.                                         *)
LEMMA FlushInit == Init => FlushInv
BY DEF Init, CpuInit, RegInit, MachineInit, FlushInv, After

(* Once the transfer is over, CPU_SM is at home if it is not draining.     *)
LEMMA AtHome ==
  ASSUME OnInv, step \in {"flush"} \cup After, cst \in {"s0", "s20"}
  PROVE  cst = Home
BY DEF OnInv, After, Home

(* posedge CLK90: while the CPU writes FLUSH, CPU_SM starts on it.         *)
LEMMA FlushNowRise90 ==
  ASSUME Known, LeftInv, OnInv, FlushInv, step = "flush", CpuAS, Clk90Rise
  PROVE  FlushNow'
<1>1. /\ edge = "CLK90+" /\ edge' = "CLK135+"
      /\ UNCHANGED <<COUNT, BYTE_PTR, DMADIR, FLUSHFIFO, cFLUSH, brSeen>>
  BY Rise90Frame DEF fifoSide, regSide, syncSide
<1>2. FLUSHFIFO /\ cDMAENA
  BY <1>1 DEF FlushInv, FlushNow, OnInv
<1>3. TERM_COUNTER' > 1 => cFLUSH
  <2>1. TERM_COUNTER > 0 => TERM_COUNTER > 1 \/ TERM_COUNTER = 1
    BY TermRise90
  <2>2. QED
    BY <1>1, <2>1, TermRise90 DEF FlushInv, FlushNow
<1>4. TERM_COUNTER' \in 0..3 /\ (TERM_COUNTER > 1 => TERM_COUNTER > 2 \/ TERM_COUNTER = 2)
  BY TermRise90
<1>5. FIFOEMPTY => ~FIFOFULL
  BY DepthType DEF FIFOEMPTY, FIFOFULL
<1>6. ASSUME ~DMADIR
      PROVE  /\ TERM_COUNTER' = 2 => COUNT = 0 \/ "RST_FIFO" \in cout'
             /\ TERM_COUNTER' > 2 => COUNT = 0 /\ "STOPFLUSH" \in cout'
  <2>1. cst = "s20"
    BY <1>6 DEF OnInv
  <2>2. ~cDREQ
    BY <1>1, <1>2 DEF LeftInv
  <2>3. TERM_COUNTER' > 2 => COUNT = 0
    BY <1>1, <1>4, <1>6, TermRise90 DEF FlushInv, FlushNow, Landing
  <2>4. TERM_COUNTER' = 2 \/ TERM_COUNTER' > 2 => TERM_COUNTER' > 1
    BY <1>4
  <2>5. QED
    BY <1>2, <1>3, <1>5, <1>6, <2>1, <2>2, <2>3, <2>4, FlushRise90Out DEF FIFOEMPTY
<1>7. ASSUME DMADIR, TERM_COUNTER' > 1, cst' = "s0"
      PROVE  COUNT = 0 /\ BYTE_PTR = 0 /\ "STOPFLUSH" \in cout'
  <2>1. cst = "s0"
    BY <1>7, HomeRise90 DEF OnInv, Known, BusInv, NotMaster
  <2>2. FIFOEMPTY /\ ~FIFOFULL /\ ~LASTWORD
    BY <1>2, <1>3, <1>7, <2>1, HomeRise90
  <2>3. QED
    BY <1>2, <1>3, <1>7, <2>1, <2>2, FlushRise90Out DEF FIFOEMPTY, LASTWORD, BOEQ0
<1>8. ASSUME DMADIR, TERM_COUNTER' > 2, cst' = "s1"
      PROVE  brSeen
  <2>1. TERM_COUNTER > 1
    BY <1>8, TermRise90
  <2>2. cst # "s0"
    <3> SUFFICES ASSUME cst = "s0" PROVE FALSE
      OBVIOUS
    <3>1. COUNT = 0 /\ BYTE_PTR = 0
      BY <1>8, <2>1 DEF FlushInv, FlushNow
    <3>2. FIFOEMPTY /\ ~FIFOFULL /\ ~LASTWORD
      BY <1>5, <3>1 DEF FIFOEMPTY, LASTWORD, BOEQ0
    <3>3. QED
      BY <1>8, <3>2, HomeRise90
  <2>3. cst = "s1"
    BY <1>8, <2>2, HomeRise90
  <2>4. QED
    BY <1>1, <2>3 DEF Known, RestInv, AskInv
<1>9. QED
  BY <1>1, <1>2, <1>3, <1>4, <1>6, <1>7, <1>8 DEF FlushNow, Landing

(* posedge CLK90: once FLUSH is written, CPU_SM at home stays there.       *)
LEMMA AfterRise90 ==
  ASSUME Known, LeftInv, OnInv, FlushInv, step \in After, cst \in {"s0", "s20"}, Clk90Rise
  PROVE  cst' = Home'
<1>1. cst = Home /\ edge = "CLK90+"
  BY AtHome, Rise90Frame
<1>2. DMADIR => COUNT = 0
  BY <1>1 DEF OnInv, Home, After
<1>3. cFLUSH /\ DMADIR => ~LASTWORD
  BY <1>1 DEF FlushInv, Flushing, Home, After, LASTWORD, DrainStates
<1>4. step \in Still
  BY DEF After, Still
<1>5. QED
  BY <1>1, <1>2, <1>3, <1>4, HomeKept

(* posedge CLK90: CPU_SM goes on with the flush.                           *)
LEMMA FlushRise90 ==
  ASSUME Known, LeftInv, OnInv, FlushInv, Clk90Rise
  PROVE  FlushInv'
<1>1. /\ edge = "CLK90+" /\ edge' = "CLK135+"
      /\ UNCHANGED <<COUNT, DMADIR, FLUSHFIFO, cFLUSH, brSeen, step, cpu>>
  BY Rise90Frame DEF fifoSide, regSide, syncSide
<1>2. CpuAS' = CpuAS
  BY <1>1 DEF CpuAS
<1>3. ASSUME step \in After, Flushing PROVE Flushing'
  <2>1. CASE cst \in DrainStates
    <3>1. cst' \in DrainStates \cup {"letgo"} /\ (cst' = "s1" => cst = "s1" /\ brSeen)
      BY <1>3, <2>1, FlushRise90Out, HomeRise90 DEF FlushInv, DrainStates
    <3>2. cst' = "letgo" => "STOPFLUSH" \in cout'
      BY <2>1, FlushRise90Out, HomeRise90 DEF DrainStates
    <3>3. QED
      BY <1>1, <1>2, <1>3, <3>1, <3>2 DEF Flushing
  <2>2. CASE cst = "letgo"
    <3>1. ~FLUSHFIFO
      BY <1>1, <1>3, <2>2 DEF Flushing, DrainStates
    <3>2. cst' = "s0"
      BY <2>2, HomeRise90
    <3>3. QED
      BY <1>1, <1>2, <1>3, <3>1, <3>2 DEF Flushing
  <2>3. CASE cst \in {"s0", "s20"}
    <3>1. ~FLUSHFIFO
      BY <1>1, <1>3, <2>3 DEF Flushing, DrainStates
    <3>2. cst' \in {"s0", "s20"}
      BY <1>3, <2>3, AfterRise90 DEF Home
    <3>3. QED
      BY <1>1, <1>2, <1>3, <3>1, <3>2 DEF Flushing
  <2>4. QED
    BY <1>3, <2>1, <2>2, <2>3 DEF Flushing, DrainStates
<1>4. step = "flush" /\ CpuAS => FlushNow'
  BY FlushNowRise90
<1>5. step \in After => cst' # "s21" /\ (cst' = "s1" => brSeen)
  <2> SUFFICES ASSUME step \in After PROVE cst' # "s21" /\ (cst' = "s1" => brSeen)
    OBVIOUS
  <2>1. CASE cst \in {"s0", "s20"}
    BY <2>1, AfterRise90 DEF Home
  <2>2. CASE cst \notin {"s0", "s20"}
    <3>1. cst # "s21" /\ (cst = "s1" => brSeen)
      BY DEF FlushInv
    <3>2. cst' = CpuNext(cst, CpuIn) /\ cst \in CpuStates
      BY Rise90Frame DEF Known, BusInv
    <3>3. QED
      BY <2>2, <3>1, <3>2, AskTable
  <2>3. QED
    BY <2>1, <2>2
<1>6. step \in After /\ CpuAS => cst' \in {"s0", "s20"}
  BY AfterRise90 DEF FlushInv, Home
<1>7. "STOPFLUSH" \in cout' => cst' # "s1"
  BY FlushRise90Out
<1>8. ASSUME "RST_FIFO" \in cout'
      PROVE  step = "flush" /\ CpuAS /\ ~DMADIR /\ cst' = "s20" /\ TERM_COUNTER' <= 2
  <2>1. cst = "s20" /\ cFLUSH /\ ~FIFOEMPTY /\ ~DMADIR
    BY <1>8, FlushRise90Out
  <2>2. step = "flush" /\ CpuAS
    BY <2>1 DEF FlushInv, Flushing, FIFOEMPTY
  <2>3. cst' = "s20"
    BY <2>1, HomeRise90
  <2>4. ~(TERM_COUNTER' > 2)
    <3>1. TERM_COUNTER > 1 => TERM_COUNTER > 2 \/ TERM_COUNTER = 2
      BY TermRise90
    <3>2. QED
      BY <1>1, <2>1, <2>2, <3>1, TermRise90 DEF FlushInv, FlushNow, FIFOEMPTY, Landing
  <2>5. TERM_COUNTER' \in 0..3
    BY TermRise90
  <2>6. QED
    BY <2>1, <2>2, <2>3, <2>4, <2>5
<1>9. QED
  BY <1>1, <1>2, <1>3, <1>4, <1>5, <1>6, <1>7, <1>8 DEF FlushInv

(* negedge SCLK, in the cycle that writes FLUSH or after it: nothing is    *)
(* counted for a longword of the transfer any more.                        *)
LEMMA CountFall ==
  ASSUME QuietInv, step \in Still \/ NotOn, cst \notin {"s15", "s35"}, ClkFall
  PROVE  COUNT' = IF RST_FIFO THEN 0 ELSE COUNT
<1>1. "INCFIFO" \notin cout /\ "DECFIFO" \notin cout
  BY FallFrame DEF QuietInv, OwnStep, Landing
<1>2. QED
  BY <1>1, FallFrame DEF NextCount

(* negedge SCLK: the cycle that has written FLUSH ends.                    *)
LEMMA FlushEnds ==
  ASSUME Known, QuietInv, OnInv, FlushInv, ClkFall, step = "flush", Ends
  PROVE  /\ step' \in After /\ Flushing'
         /\ cst' # "s21" /\ (cst' = "s1" => brSeen')
<1>1. /\ edge = "CLK-" /\ edge' = "CLK90-"
      /\ UNCHANGED <<cst, cout, DMADIR, FLUSHFIFO, cFLUSH, brSeen>>
  BY FallFrame DEF bothVars, regSide, syncSide
<1>2. CpuAS /\ ~CpuAS' /\ TERM_COUNTER = 3 /\ step' \in After
  BY DEF Ends, CpuAS, StepAfter, After
<1>3. TERM_COUNTER > 1 /\ TERM_COUNTER > 2
  BY <1>2
<1>4. FlushNow
  BY <1>2 DEF FlushInv
<1>5. cst \in NotMaster
  BY <1>2 DEF Known, BusInv
<1>6. DMADIR \in BOOLEAN
  BY DEF Known, TypeOK, RegTypeOK
<1>7. CASE DMADIR
  <2>1. cst \in {"s0", "s1"}
    BY <1>5, <1>7 DEF NotMaster, OnInv, Known, RestInv, DirInv, FillStates
  <2>2. QED
    BY <1>1, <1>2, <1>3, <1>4, <1>7, <2>1 DEF FlushNow, Flushing
<1>8. CASE ~DMADIR
  <2>1. cst = "s20"
    BY <1>8 DEF OnInv
  <2>2. COUNT' = 0
    BY <1>3, <1>4, <1>8, <2>1, CountFall DEF FlushNow, Still
  <2>3. QED
    BY <1>1, <1>2, <1>3, <1>4, <1>8, <2>1, <2>2 DEF FlushNow, Flushing
<1>9. QED
  BY <1>6, <1>7, <1>8

(* negedge SCLK: and afterwards the CPU starts no cycle, while it lasts.   *)
LEMMA FlushGoesOn ==
  ASSUME Whole, Known, QuietInv, FlushInv, ClkFall, step \in After, Flushing
  PROVE  step' = step /\ Flushing'
<1>1. /\ edge = "CLK-" /\ edge' = "CLK90-"
      /\ UNCHANGED <<cst, cout, DMADIR, FLUSHFIFO, cFLUSH, brSeen>>
  BY FallFrame DEF bothVars, regSide, syncSide
<1>2. ~CpuAS
  BY DEF Flushing
<1>3. cst \in DrainStates \cup {"letgo"} /\ (cst = "s1" => brSeen)
  BY <1>1 DEF Flushing, DrainStates
<1>4. OWN \/ brSeen
  BY <1>3 DEF Known, BusInv, NotMaster, DrainStates
<1>5. Rests
  BY <1>2, <1>4, HostMoves DEF Begins, Halts, Starts, Sees, Ends, CpuAS, After
<1>6. UNCHANGED <<step, cpu>>
  BY <1>5 DEF Rests, hostSide
<1>7. ~DMADIR => COUNT' = 0
  <2>1. ~DMADIR => cst = "letgo" /\ COUNT = 0
    BY <1>3 DEF Flushing, Known, RestInv, DirInv
  <2>2. QED
    BY <2>1, CountFall DEF After, Still
<1>8. QED
  BY <1>1, <1>2, <1>3, <1>6, <1>7 DEF Flushing, CpuAS

(* negedge SCLK: the flush outlasts the cycle that started it.             *)
LEMMA FlushFall ==
  ASSUME Whole, Known, LeftInv, QuietInv, OnInv, FlushInv, ClkFall
  PROVE  FlushInv'
<1>1. /\ edge = "CLK-" /\ edge' = "CLK90-"
      /\ UNCHANGED <<cst, cout, DMADIR, FLUSHFIFO, cFLUSH, brSeen, BYTE_PTR>>
  BY FallFrame DEF bothVars, regSide, syncSide
<1>2. TERM_COUNTER \in 0..3
  BY DEF Known, TypeOK, RegTypeOK
<1>3. CpuAS' => step' = step /\ (~CpuAS => Starts)
  BY HostMoves DEF Rests, Begins, Halts, Starts, Sees, Ends, hostSide, CpuAS
<1>4. CpuAS /\ ~CpuAS' => Ends
  BY HostMoves DEF Rests, Begins, Halts, Starts, Sees, Ends, hostSide, CpuAS
<1>5. FLUSHFIFO \/ cFLUSH => (step' = "flush" /\ CpuAS') \/ (step' \in After /\ Flushing')
  <2>1. CASE step = "flush" /\ CpuAS
    BY <1>3, <1>4, <2>1, FlushEnds
  <2>2. CASE step \in After /\ Flushing
    BY <2>2, FlushGoesOn
  <2>3. QED
    BY <2>1, <2>2 DEF FlushInv
<1>6. ASSUME step' = "flush", CpuAS' PROVE FlushNow'
  <2>1. step = "flush"
    BY <1>3, <1>6
  <2>2. CASE CpuAS
    <3>1. TERM_COUNTER' = TERM_COUNTER /\ FlushNow
      BY <1>6, <2>1, <2>2, TermFall DEF FlushInv
    <3>2. cst \notin {"s15", "s35"}
      BY <2>2 DEF Known, BusInv, NotMaster
    <3>3. COUNT' = IF RST_FIFO THEN 0 ELSE COUNT
      BY <2>1, <3>2, CountFall DEF Still
    <3>4. ~DMADIR => /\ TERM_COUNTER = 2 => COUNT' = 0
                     /\ TERM_COUNTER > 2 => COUNT' = 0
      BY <1>1, <3>1, <3>3 DEF FlushNow, Landing, RST_FIFO
    <3>5. COUNT = 0 => COUNT' = 0
      BY <3>3
    <3>6. QED
      BY <1>1, <3>1, <3>4, <3>5 DEF FlushNow, Landing
  <2>3. CASE ~CpuAS
    <3>1. TERM_COUNTER' = 0
      BY <1>6, <2>3, TermFall
    <3>2. QED
      BY <1>1, <3>1 DEF FlushNow
  <2>4. QED
    BY <2>2, <2>3
<1>7. step' \in After => cst # "s21" /\ (cst = "s1" => brSeen)
  <2>1. CASE step \in After
    BY <2>1 DEF FlushInv
  <2>2. CASE step = "flush" /\ Ends
    BY <1>1, <2>2, FlushEnds
  <2>3. CASE step = "stop" /\ Ends
    <3> SUFFICES ASSUME step' \in After PROVE cst = "s20"
      OBVIOUS
    <3>1. CpuAS /\ TERM_COUNTER > 0 /\ ~xfer.dir
      BY <2>3 DEF Ends, CpuAS, StepAfter, After
    <3>2. ~DMADIR
      BY <2>3, <3>1 DEF Known, RestInv, DirInv
    <3>3. QED
      BY <2>3, <3>1, <3>2 DEF OnInv
  <2>4. step' \in After => step \in After \/ (step \in {"flush", "stop"} /\ Ends)
    BY HostMoves DEF Rests, Begins, Halts, Starts, Sees, Ends, hostSide, StepAfter, After, Steps
  <2>5. QED
    BY <2>1, <2>2, <2>3, <2>4
<1>8. ASSUME step' \in After, CpuAS' PROVE cst \in {"s0", "s20"}
  <2>1. CASE CpuAS
    BY <1>3, <1>8, <2>1 DEF FlushInv
  <2>2. CASE ~CpuAS
    <3>1. step \in After /\ ~OWN /\ ~brSeen
      BY <1>3, <1>8, <2>2 DEF Starts
    <3>2. QED
      BY <3>1 DEF FlushInv, Known, BusInv, NotMaster
  <2>3. QED
    BY <2>1, <2>2
<1>9. ASSUME "RST_FIFO" \in cout
       PROVE  step' = "flush" /\ CpuAS' /\ ~DMADIR /\ cst = "s20" /\ TERM_COUNTER' <= 2
  <2>1. step = "flush" /\ CpuAS /\ ~DMADIR /\ cst = "s20" /\ TERM_COUNTER <= 2
    BY <1>9 DEF FlushInv
  <2>2. ~Ends
    BY <2>1 DEF Ends
  <2>3. CpuAS'
    BY <1>4, <2>1, <2>2
  <2>4. QED
    BY <1>3, <2>1, <2>3, TermFall
<1>10. QED
  BY <1>1, <1>5, <1>6, <1>7, <1>8, <1>9 DEF FlushInv

(* negedge CLK90: FLUSHFIFO rises with the cycle and falls with STOPFLUSH. *)
LEMMA FlushFall90 ==
  ASSUME Known, QuietInv, OnInv, FlushInv, ByteInv, Clk90Fall
  PROVE  FlushInv'
<1>1. /\ edge = "CLK90-" /\ edge' = "CLK135-"
      /\ UNCHANGED <<cst, cout, sst, sout, COUNT, cFLUSH, brSeen, step, cpu, TERM_COUNTER>>
      /\ BYTE_PTR' = IF RST_FIFO THEN (IF A1 THEN 2 ELSE 0)
                     ELSE IF "INCBO" \in sout THEN (BYTE_PTR + 1) % 4 ELSE BYTE_PTR
  BY Fall90Frame DEF bothVars, termSide, hostSide, syncSide
<1>2. /\ FLUSHFIFO' = ((CpuAS /\ step = "flush") \/ (FLUSHFIFO /\ "STOPFLUSH" \notin cout))
      /\ step \in {"flush", "poll", "cint"} => (DMADIR' <=> DMADIR)
  BY RegWrites
<1>3. CpuAS' = CpuAS
  BY <1>1 DEF CpuAS
<1>4. step = "flush" /\ DMADIR /\ BYTE_PTR = 0 => BYTE_PTR' = 0
  <2>1. step = "flush" /\ DMADIR => ~RST_FIFO
    BY DEF OnInv, FlushInv, RST_FIFO
  <2>2. step = "flush" => "INCBO" \notin sout
    BY DEF QuietInv, Still, Quiet, ByteInv, ToFifo, FromFifo
  <2>3. QED
    BY <1>1, <2>1, <2>2
<1>5. step = "flush" /\ CpuAS => FlushNow'
  BY <1>1, <1>2, <1>4 DEF FlushInv, FlushNow, Landing
<1>6. FLUSHFIFO' \/ cFLUSH => (step = "flush" /\ CpuAS) \/ (step \in After /\ Flushing')
  <2> SUFFICES ASSUME FLUSHFIFO' \/ cFLUSH, ~(step = "flush" /\ CpuAS)
               PROVE  step \in After /\ Flushing'
    OBVIOUS
  <2>1. step \in After /\ Flushing
    BY <1>2 DEF FlushInv
  <2>2. QED
    BY <1>1, <1>2, <1>3, <2>1 DEF Flushing, After
<1>7. "RST_FIFO" \in cout => ~DMADIR'
  BY <1>2 DEF FlushInv
<1>8. QED
  BY <1>1, <1>3, <1>5, <1>6, <1>7 DEF FlushInv

(* Every edge keeps what FLUSH has started going.                          *)
LEMMA FlushNext ==
  ASSUME Whole, Known, LeftInv, QuietInv, OnInv, FlushInv, ByteInv, [Next]_vars
  PROVE  FlushInv'
<1>1. CASE Clk90Rise
  BY <1>1, FlushRise90
<1>2. CASE ClkFall
  BY <1>2, FlushFall
<1>3. CASE Clk90Fall
  BY <1>3, FlushFall90
<1>4. CASE ClkRise
  <2>1. /\ edge = "CLK+" /\ edge' = "CLK90+" /\ brSeen' = BREQ
        /\ UNCHANGED <<cst, cout, COUNT, BYTE_PTR, DMADIR, FLUSHFIFO, cFLUSH, step, cpu, TERM_COUNTER>>
    BY <1>4, RiseFrame DEF countVars, bothVars, fifoSide, regSide, termSide, hostSide, syncSide
  <2>2. cst = "s1" => BREQ
    BY DEF Known, RestInv, AskInv
  <2> HIDE DEF BREQ
  <2>3. Flushing => Flushing'
    BY <2>1, <2>2 DEF Flushing, CpuAS
  <2>4. FlushNow => FlushNow'
    BY <2>1, <2>2 DEF FlushNow, Landing
  <2>5. QED
    BY <2>1, <2>2, <2>3, <2>4 DEF FlushInv, CpuAS
<1>5. CASE Clk135Rise
  <2>1. /\ edge = "CLK135+" /\ edge' = "CLK-" /\ cFLUSH' = FLUSHFIFO
        /\ UNCHANGED <<cst, cout, COUNT, BYTE_PTR, DMADIR, FLUSHFIFO, step, cpu, TERM_COUNTER, brSeen>>
    BY <1>5, Rise135Frame DEF bothVars, regSide, termSide, hostSide
  <2>2. Flushing /\ FLUSHFIFO => Flushing'
    BY <2>1 DEF Flushing, CpuAS, DrainStates
  <2>3. FlushNow => FlushNow'
    BY <2>1 DEF FlushNow, Landing
  <2>4. QED
    BY <2>1, <2>2, <2>3 DEF FlushInv, CpuAS
<1>6. CASE Clk135Fall
  <2>1. /\ edge = "CLK135-" /\ edge' = "CLK+"
        /\ UNCHANGED <<cst, cout, COUNT, BYTE_PTR, DMADIR, FLUSHFIFO, cFLUSH, step, cpu, TERM_COUNTER,
                       brSeen>>
    BY <1>6, Fall135Frame DEF countVars, bothVars, fifoSide, regSide, termSide, hostSide, syncSide
  <2>2. QED
    BY <2>1 DEF FlushInv, Flushing, FlushNow, CpuAS, Landing
<1>7. CASE UNCHANGED vars
  BY <1>7, NoEdgeFrame DEF countVars, bothVars, fifoSide, regSide, termSide, hostSide, syncSide,
                           FlushInv, Flushing, FlushNow, CpuAS, Landing
<1>8. QED
  BY <1>1, <1>2, <1>3, <1>4, <1>5, <1>6, <1>7 DEF Next

-------------------------------------------------------------------------------
(* 6.  A1 and the byte pointer.                                            *)

(* The address strobe of a cycle shows before its answer is looked for.    *)
LEMMA StrobeTable ==
  ASSUME NEW s \in CpuStates, NEW i
  PROVE  LET t == CpuNext(s, i)
         IN  /\ t \in {"s3", "s7", "s11"} => "PAS" \in CpuOut(s, i)
             /\ t \in {"s4", "s8", "s12", "s15"} => s \in {"s3", "s4", "s7", "s8", "s11", "s12"}
<1>1. CASE s \in DrainStates
  BY <1>1 DEF CpuOut, CpuNext, DrainOut, DrainNext, DrainStates, FillStates, If
<1>2. CASE s \in FillStates
  BY <1>2 DEF CpuNext, FillNext, DrainStates, FillStates
<1>3. CASE s \in {"s0", "letgo"}
  BY <1>3 DEF CpuNext, IdleNext, DrainStates, FillStates
<1>4. QED
  BY <1>1, <1>2, <1>3 DEF CpuStates

(* A1 is no address's after reset, and DMA is off.                         *)
LEMMA A1Init == Init => A1Inv
BY DEF Init, CpuInit, RegInit, MachineInit, A1Inv, NotOn, PAS

(* Every edge keeps A1 what the address and the strobe have made of it.    *)
LEMMA A1Next ==
  ASSUME Whole, Known, OnInv, A1Inv, [Next]_vars
  PROVE  A1Inv'
<1>1. CASE Clk90Rise
  <2>1. /\ edge = "CLK90+" /\ edge' = "CLK135+"
        /\ cst' = CpuNext(cst, CpuIn)
        /\ cout' = CpuRegistered(CpuOut(cst, CpuIn), RIFIFO_o, RDFIFO_o)
        /\ UNCHANGED <<step, xfer, cpu, DMAENA, A1>>
    BY <1>1, Rise90Frame DEF regSide
  <2>2. cst \in CpuStates /\ RIFIFO_o \in BOOLEAN /\ RDFIFO_o \in BOOLEAN
    BY DEF Known, BusInv, RequestInv
  <2>3. PAS' <=> "PAS" \in CpuOut(cst, CpuIn)
    BY <2>1, <2>2, Registered DEF PAS
  <2>4. cst' \in {"s3", "s7", "s11"} => PAS'
    BY <2>1, <2>2, <2>3, StrobeTable
  <2>5. cst' \in {"s4", "s8", "s12", "s15"} => ~A1
    BY <2>1, <2>2, StrobeTable DEF A1Inv
  <2> HIDE DEF PAS
  <2>6. QED
    BY <2>1, <2>4, <2>5 DEF A1Inv, NotOn, CpuAS
<1>2. CASE ClkFall
  <2>1. /\ edge = "CLK-" /\ edge' = "CLK90-"
        /\ UNCHANGED <<cst, cout, DMAENA, A1>>
    BY <1>2, FallFrame DEF bothVars, regSide
  <2>2. CASE Begins
    <3>1. ~DMAENA
      BY <2>2 DEF Begins, Known, RestInv, StopInv, AtRest, OffSteps
    <3>2. QED
      BY <2>1, <2>2, <3>1 DEF Begins, A1Inv, NotOn, CpuAS, PAS
  <2>3. CASE ~Begins
    <3>1. xfer' = xfer
      BY <1>2, <2>3, HostMoves DEF Rests, Halts, Starts, Sees, Ends, hostSide
    <3>2. step' = "addr" /\ cpu' = "end" => step = "addr" /\ CpuAS
      BY <1>2, <2>3, HostMoves DEF Rests, Halts, Starts, Sees, Ends, hostSide, CpuAS
    <3>3. step' = "start" => step = "start" \/ (step = "addr" /\ CpuAS)
      BY <1>2, <2>3, HostMoves DEF Rests, Halts, Starts, Sees, Ends, hostSide, CpuAS, StepAfter,
                                   Steps
    <3>4. QED
      BY <2>1, <3>1, <3>2, <3>3 DEF A1Inv, NotOn, CpuAS, PAS
  <2>4. QED
    BY <2>2, <2>3
<1>3. CASE Clk90Fall
  <2>1. /\ edge = "CLK90-" /\ edge' = "CLK135-"
        /\ UNCHANGED <<cst, cout, step, xfer, cpu>>
    BY <1>3, Fall90Frame DEF bothVars, hostSide
  <2>2. /\ DMAENA' = IF CpuAS /\ step = "start" THEN TRUE
                     ELSE IF CpuAS /\ step \in {"halt", "idle"} THEN FALSE ELSE DMAENA
        /\ A1' = IF CpuAS /\ step = "addr" THEN xfer.a1 ELSE A1 /\ ~AS_O
    BY <1>3, RegWrites
  <2>3. /\ AS_O <=> PAS
        /\ AS_O \/ cst \notin NotMaster => ~CpuAS
        /\ AS_O => cst \notin NotMaster
    BY <2>1 DEF Known, BusInv
  <2>4. NotOn => ~AS_O
    BY <2>3 DEF OnInv, NotMaster
  <2>5. step = "addr" /\ CpuAS => (A1' <=> xfer.a1)
    BY <2>2
  <2>6. NotOn' => (A1' <=> xfer.a1)
    <3>1. NotOn' => NotOn
      BY <2>1, <2>2 DEF NotOn
    <3>2. step = "start" => (A1' <=> A1 /\ ~AS_O)
      BY <2>2
    <3>3. QED
      BY <2>4, <3>1, <3>2 DEF A1Inv, NotOn
  <2>7. A1' => (CpuAS /\ step = "addr" /\ xfer.a1) \/ (A1 /\ ~AS_O)
    BY <2>2
  <2>8. DMAENA' /\ A1' => xfer.a1
    <3>1. DMAENA' => DMAENA \/ step = "start"
      BY <2>2
    <3>2. QED
      BY <2>7, <3>1 DEF A1Inv, NotOn
  <2>9. PAS => ~A1'
    BY <2>3, <2>7
  <2>10. cst \in {"s4", "s8", "s12", "s15"} => ~A1'
    BY <2>3, <2>7 DEF A1Inv, NotMaster
  <2>11. QED
    BY <2>1, <2>5, <2>6, <2>8, <2>9, <2>10 DEF A1Inv, PAS, CpuAS
<1>4. CASE ClkRise
  BY <1>4, RiseFrame DEF countVars, bothVars, regSide, hostSide, A1Inv, NotOn, PAS, CpuAS
<1>5. CASE Clk135Rise
  BY <1>5, Rise135Frame DEF bothVars, regSide, hostSide, A1Inv, NotOn, PAS, CpuAS
<1>6. CASE Clk135Fall
  BY <1>6, Fall135Frame DEF countVars, bothVars, regSide, hostSide, A1Inv, NotOn, PAS, CpuAS
<1>7. CASE UNCHANGED vars
  BY <1>7, NoEdgeFrame DEF countVars, bothVars, regSide, hostSide, A1Inv, NotOn, PAS, CpuAS
<1>8. QED
  BY <1>1, <1>2, <1>3, <1>4, <1>5, <1>6, <1>7 DEF Next

(* A byte leaves the chip with the last clock of its DACK.                 *)
LEMMA ByteRise90 ==
  ASSUME Known, LeftInv, DMADIR, Clk90Rise
  PROVE  \/ left' = left /\ Lag' = Lag
         \/ left > 0 /\ left' = left - 1 /\ Lag = 0 /\ Lag' = 1
<1>1. /\ edge = "CLK90+" /\ edge' = "CLK135+"
      /\ sst' = ScsiNext(sst, ScsiIn) /\ sout' = ScsiOut(sst, ScsiIn)
      /\ left' = IF DACK /\ ~DACK' /\ left > 0 THEN left - 1 ELSE left
  BY Rise90Frame
<1>2. sst \notin FromFifo
  BY DEF Known, RestInv, DirInv
<1>3. DACK' <=> sst' \in {"S2F_1", "S2F_2", "F2S_1", "F2S_2"}
  BY <1>1, ByteTable DEF DACK
<1>4. DACK <=> sst \in {"S2F_1", "S2F_2"}
  BY <1>2 DEF LeftInv, FromFifo
<1>5. /\ sst' = "S2F_2" <=> sst = "S2F_1"
      /\ sst' = "S2F_3" <=> sst = "S2F_2"
      /\ sst' = "S2F_4" <=> sst = "S2F_3"
  BY <1>1, MoveTable
<1>6. DACK => left > 0
  BY DEF LeftInv
<1>7. CASE sst = "S2F_2"
  <2>1. left' = left - 1 /\ left > 0
    BY <1>1, <1>3, <1>4, <1>5, <1>6, <1>7
  <2>2. Lag = 0 /\ Lag' = 1
    BY <1>1, <1>5, <1>7 DEF Lag
  <2>3. QED
    BY <2>1, <2>2
<1>8. CASE sst # "S2F_2"
  <2>1. left' = left
    BY <1>1, <1>3, <1>4, <1>5, <1>8
  <2>2. Lag' = Lag
    BY <1>1, <1>5, <1>8 DEF Lag
  <2>3. QED
    BY <2>1, <2>2
<1>9. QED
  BY <1>7, <1>8

(* One further modulo four, on both sides.                                 *)
LEMMA OneFurther ==
  ASSUME NEW a \in Nat, NEW b \in Nat, a % 4 = b % 4
  PROVE  (a + 1) % 4 = (b + 1) % 4
BY SMT

(* DMA is off after reset, and no byte under way.                          *)
LEMMA ByteInit == Init => ByteInv
BY DEF Init, ScsiInit, RegInit, ByteInv

(* posedge CLK90: the chip's byte is counted off before the byte pointer   *)
(* shows it.                                                               *)
LEMMA ByteClk90Rise ==
  ASSUME Known, LeftInv, ByteInv, Clk90Rise
  PROVE  ByteInv'
<1>1. /\ edge = "CLK90+" /\ edge' = "CLK135+"
      /\ sst' = ScsiNext(sst, ScsiIn) /\ sout' = ScsiOut(sst, ScsiIn)
      /\ UNCHANGED <<COUNT, BYTE_PTR, DMADIR, DMAENA, A1, xfer>>
      /\ RIFIFO_o' = (RIFIFO_o /\ "INCFIFO" \notin cout')
  BY Rise90Frame DEF fifoSide, regSide
<1>2. "INCBO" \in sout' <=> sst' \in {"S2F_4", "F2S_4"}
  BY <1>1, ByteTable
<1>3. sst' = "S2F_4" /\ BYTE_PTR = 3 => "RIFIFO" \in sout'
  <2>1. ScsiIn.boeq3 = (BYTE_PTR = 3)
    BY DEF ScsiIn, BOEQ3
  <2>2. QED
    BY <1>1, <2>1, ByteTable, MoveTable
<1>4. FirstDone => FirstDone'
  BY <1>1 DEF FirstDone, Landing
<1>5. /\ left \in Nat /\ xfer.len \in Nat /\ left <= xfer.len /\ BYTE_PTR \in 0..3
      /\ First(xfer) \in Nat /\ Lag \in {0, 1}
  BY DEF LeftInv, Known, DackInv, TypeOK, MachineTypeOK, FifoTypeOK, First, Lag
<1>6. ASSUME DMAENA, DMADIR
      PROVE  /\ (First(xfer) + (xfer.len - left')) % 4 = (BYTE_PTR + Lag') % 4
             /\ A1 /\ ~FirstDone' => BYTE_PTR >= 2 /\ xfer.len - left' = (BYTE_PTR - 2) + Lag'
  <2>1. /\ (First(xfer) + (xfer.len - left)) % 4 = (BYTE_PTR + Lag) % 4
        /\ A1 /\ ~FirstDone => BYTE_PTR >= 2 /\ xfer.len - left = (BYTE_PTR - 2) + Lag
    BY <1>6 DEF ByteInv
  <2> HIDE DEF Lag, First, FirstDone
  <2>2. CASE left' = left /\ Lag' = Lag
    BY <1>4, <2>1, <2>2
  <2>3. CASE left > 0 /\ left' = left - 1 /\ Lag = 0 /\ Lag' = 1
    <3>1. First(xfer) + (xfer.len - left') = (First(xfer) + (xfer.len - left)) + 1
      BY <1>5, <2>3
    <3>2. /\ First(xfer) + (xfer.len - left) \in Nat /\ BYTE_PTR + Lag \in Nat
          /\ BYTE_PTR + Lag' = (BYTE_PTR + Lag) + 1
      BY <1>5, <2>3
    <3>3. (First(xfer) + (xfer.len - left')) % 4 = (BYTE_PTR + Lag') % 4
      BY <2>1, <3>1, <3>2, OneFurther
    <3>4. QED
      BY <1>4, <1>5, <2>1, <2>3, <3>3
  <2>4. QED
    BY <1>6, <2>2, <2>3, ByteRise90
<1>7. First(xfer)' = First(xfer)
  BY <1>1 DEF First
<1> HIDE DEF Lag, First, FirstDone
<1>8. QED
  BY <1>1, <1>2, <1>3, <1>6, <1>7 DEF ByteInv

(* negedge SCLK: the first longword, once counted, remains so while A1     *)
(* stands.                                                                 *)
LEMMA FirstDoneFall ==
  ASSUME Known, FlushInv, A1Inv, RoomInv, DMAENA, DMADIR, A1, FirstDone, ClkFall
  PROVE  FirstDone'
<1>1. /\ edge = "CLK-" /\ RIFIFO_o' = RIFIFO_o
      /\ COUNT' = IF RST_FIFO THEN 0
                  ELSE NextCount(COUNT, "INCFIFO" \in cout, "DECFIFO" \in cout)
  BY FallFrame DEF askSide
<1>2. ~RST_FIFO
  BY DEF FlushInv, RST_FIFO
<1>3. "DECFIFO" \notin cout
  BY <1>1 DEF RoomInv, Landing, A1Inv
<1>4. COUNT \in 0..DEPTH /\ DEPTH \in Nat
  BY DepthType DEF Known, TypeOK, FifoTypeOK
<1>5. "INCFIFO" \in cout => COUNT < DEPTH
  BY <1>1 DEF RoomInv, Landing
<1>6. COUNT' = IF "INCFIFO" \in cout THEN COUNT + 1 ELSE COUNT
  BY <1>1, <1>2, <1>3, <1>4, <1>5 DEF NextCount
<1>7. QED
  BY <1>1, <1>4, <1>6 DEF FirstDone

(* negedge SCLK: no byte moves.                                            *)
LEMMA ByteClkFall ==
  ASSUME Whole, Known, FlushInv, A1Inv, RoomInv, ByteInv, ClkFall
  PROVE  ByteInv'
<1>1. /\ edge = "CLK-" /\ edge' = "CLK90-"
      /\ UNCHANGED <<sst, sout, BYTE_PTR, RIFIFO_o, DMADIR, DMAENA, A1>>
  BY FallFrame DEF bothVars, regSide, askSide
<1>2. Lag' = Lag
  BY <1>1 DEF Lag
<1>3. CASE Begins
  <2>1. ~DMAENA
    BY <1>3 DEF Begins, Known, RestInv, StopInv, AtRest, OffSteps
  <2>2. QED
    BY <1>1, <2>1 DEF ByteInv
<1>4. CASE ~Begins
  <2>1. UNCHANGED <<xfer, left>>
    BY <1>4, HostMoves DEF Rests, Halts, Starts, Sees, Ends, hostSide
  <2>2. First(xfer)' = First(xfer)
    BY <2>1 DEF First
  <2>3. DMAENA /\ DMADIR /\ A1 /\ ~FirstDone' => ~FirstDone
    BY FirstDoneFall
  <2> HIDE DEF Lag, First, FirstDone
  <2>4. QED
    BY <1>1, <1>2, <2>1, <2>2, <2>3 DEF ByteInv
<1>5. QED
  BY <1>3, <1>4

(* posedge CLK135: the last byte of a longword asks for the count.         *)
LEMMA ByteClk135Rise ==
  ASSUME Known, RoomInv, ByteInv, Clk135Rise
  PROVE  ByteInv'
<1>1. /\ edge = "CLK135+" /\ edge' = "CLK-"
      /\ RIFIFO_o' = ("INCFIFO" \notin cout /\ (RIFIFO_o \/ "RIFIFO" \in sout))
      /\ UNCHANGED <<sst, sout, cout, COUNT, BYTE_PTR, DMADIR, DMAENA, A1, xfer, left>>
  BY Rise135Frame DEF bothVars, regSide, hostSide
<1>2. Lag' = Lag /\ First(xfer)' = First(xfer)
  BY <1>1 DEF Lag, First
<1>3. FirstDone => FirstDone'
  BY <1>1 DEF FirstDone, Landing
<1>4. sst = "S2F_4" => "INCFIFO" \notin cout
  <2>1. sst = "S2F_4" => DMADIR
    BY DEF Known, RestInv, DirInv, ToFifo
  <2>2. QED
    BY <1>1, <2>1 DEF RoomInv, Landing, ToFifo
<1>5. sst = "S2F_4" /\ BYTE_PTR = 3 => RIFIFO_o'
  BY <1>1, <1>4 DEF ByteInv
<1> HIDE DEF Lag, First, FirstDone
<1>6. QED
  BY <1>1, <1>2, <1>3, <1>5 DEF ByteInv

(* negedge CLK90: the byte pointer follows the byte, or is loaded with A1. *)
LEMMA ByteClk90Fall ==
  ASSUME Known, LeftInv, QuietInv, FlushInv, A1Inv, ByteInv, Clk90Fall
  PROVE  ByteInv'
<1>1. /\ edge = "CLK90-" /\ edge' = "CLK135-"
      /\ UNCHANGED <<sst, sout, RIFIFO_o, COUNT, step, xfer, left>>
      /\ BYTE_PTR' = IF RST_FIFO THEN (IF A1 THEN 2 ELSE 0)
                     ELSE IF "INCBO" \in sout THEN (BYTE_PTR + 1) % 4 ELSE BYTE_PTR
  BY Fall90Frame DEF bothVars, hostSide, askSide
<1>2. /\ DMAENA' = IF CpuAS /\ step = "start" THEN TRUE
                   ELSE IF CpuAS /\ step \in {"halt", "idle"} THEN FALSE ELSE DMAENA
      /\ A1' = IF CpuAS /\ step = "addr" THEN xfer.a1 ELSE A1 /\ ~AS_O
      /\ ~(CpuAS /\ step \in {"setup", "restore"}) => (DMADIR' <=> DMADIR)
  BY RegWrites
<1>3. step \in {"setup", "restore", "addr"} => ~DMAENA
  BY DEF Known, RestInv, StopInv, AtRest, OffSteps
<1>4. First(xfer)' = First(xfer)
  BY <1>1 DEF First
<1>5. /\ left \in Nat /\ xfer.len \in Nat /\ BYTE_PTR \in 0..3 /\ First(xfer) \in Nat
  BY DEF Known, DackInv, TypeOK, MachineTypeOK, FifoTypeOK, First
<1>6. ASSUME DMAENA', DMADIR', DMAENA
      PROVE  /\ (First(xfer) + (xfer.len - left)) % 4 = (BYTE_PTR' + Lag') % 4
             /\ A1' /\ ~FirstDone' => BYTE_PTR' >= 2 /\ xfer.len - left = (BYTE_PTR' - 2) + Lag'
  <2>1. DMADIR /\ (A1' => A1)
    BY <1>2, <1>3, <1>6
  <2>2. ~RST_FIFO
    BY <1>6, <2>1 DEF FlushInv, RST_FIFO
  <2>3. "INCBO" \in sout <=> sst = "S2F_4"
    BY <2>1 DEF ByteInv, Known, RestInv, DirInv, FromFifo
  <2>4. FirstDone' = FirstDone
    BY <1>1 DEF FirstDone, Landing
  <2>5. /\ (First(xfer) + (xfer.len - left)) % 4 = (BYTE_PTR + Lag) % 4
        /\ A1 /\ ~FirstDone => BYTE_PTR >= 2 /\ xfer.len - left = (BYTE_PTR - 2) + Lag
    BY <1>6, <2>1 DEF ByteInv
  <2>6. CASE sst = "S2F_4"
    <3>1. Lag = 1 /\ Lag' = 0 /\ BYTE_PTR' = IF BYTE_PTR = 3 THEN 0 ELSE BYTE_PTR + 1
      BY <1>1, <1>5, <2>2, <2>3, <2>6 DEF Lag
    <3>2. BYTE_PTR = 3 => FirstDone
      BY <1>1, <2>6 DEF ByteInv, FirstDone
    <3> HIDE DEF Lag, First, FirstDone
    <3>3. (BYTE_PTR + Lag) % 4 = (BYTE_PTR' + Lag') % 4
      BY <1>5, <3>1
    <3>4. ASSUME A1', ~FirstDone'
          PROVE  BYTE_PTR' >= 2 /\ xfer.len - left = (BYTE_PTR' - 2) + Lag'
      <4>1. BYTE_PTR >= 2 /\ xfer.len - left = (BYTE_PTR - 2) + Lag /\ BYTE_PTR # 3
        BY <2>1, <2>4, <2>5, <3>2, <3>4
      <4>2. QED
        BY <1>5, <3>1, <4>1
    <3>5. QED
      BY <2>5, <3>3, <3>4
  <2>7. CASE sst # "S2F_4"
    <3>1. Lag' = Lag /\ BYTE_PTR' = BYTE_PTR
      BY <1>1, <2>2, <2>3, <2>7 DEF Lag
    <3> HIDE DEF Lag, First, FirstDone
    <3>2. QED
      BY <2>1, <2>4, <2>5, <3>1
  <2>8. QED
    BY <2>6, <2>7
<1>7. ASSUME DMAENA', ~DMAENA
      PROVE  /\ (First(xfer) + (xfer.len - left)) % 4 = (BYTE_PTR' + Lag') % 4
             /\ A1' => BYTE_PTR' >= 2 /\ xfer.len - left = (BYTE_PTR' - 2) + Lag'
  <2>1. NotOn /\ step = "start"
    BY <1>2, <1>7 DEF NotOn
  <2>2. left = xfer.len /\ (A1 <=> xfer.a1) /\ Quiet
    BY <2>1 DEF LeftInv, A1Inv, QuietInv
  <2>3. Lag' = 0
    BY <1>1, <2>2 DEF Quiet, ToFifo, Lag
  <2>4. BYTE_PTR' = First(xfer) /\ (A1' => BYTE_PTR' = 2)
    BY <1>1, <1>2, <1>7, <2>1, <2>2 DEF RST_FIFO, First
  <2> HIDE DEF Lag, First
  <2>5. xfer.len - left = 0
    BY <1>5, <2>2
  <2>6. QED
    BY <1>5, <2>3, <2>4, <2>5
<1> HIDE DEF Lag, First, FirstDone
<1>8. QED
  BY <1>1, <1>4, <1>6, <1>7 DEF ByteInv

(* Every edge keeps the byte pointer with the chip.                        *)
LEMMA ByteNext ==
  ASSUME Whole, Known, LeftInv, QuietInv, FlushInv, A1Inv, RoomInv, ByteInv, [Next]_vars
  PROVE  ByteInv'
<1>1. CASE Clk90Rise
  BY <1>1, ByteClk90Rise
<1>2. CASE ClkFall
  BY <1>2, ByteClkFall
<1>3. CASE Clk135Rise
  BY <1>3, ByteClk135Rise
<1>4. CASE Clk90Fall
  BY <1>4, ByteClk90Fall
<1>5. CASE ClkRise
  BY <1>5, RiseFrame DEF countVars, bothVars, fifoSide, regSide, hostSide, askSide, ByteInv, Lag,
                         First, FirstDone, Landing
<1>6. CASE Clk135Fall
  BY <1>6, Fall135Frame DEF countVars, bothVars, fifoSide, regSide, hostSide, askSide, ByteInv, Lag,
                            First, FirstDone, Landing
<1>7. CASE UNCHANGED vars
  BY <1>7, NoEdgeFrame DEF countVars, bothVars, fifoSide, regSide, hostSide, askSide, ByteInv, Lag,
                           First, FirstDone, Landing
<1>8. QED
  BY <1>1, <1>2, <1>3, <1>4, <1>5, <1>6, <1>7 DEF Next

-------------------------------------------------------------------------------
(* 7.  Room.                                                               *)

(* CPU_SM takes a longword from the FIFO, or begins to, only in these.     *)
LEMMA RoomTable ==
  ASSUME NEW s \in CpuStates, NEW i
  PROVE  LET t == CpuNext(s, i)
         IN  /\ "DECFIFO" \in CpuOut(s, i) => s \in {"s3", "s4", "s7", "s8"}
             /\ t \in FillStates \ {"s20", "s21", "s35"} =>
                  s \in FillStates \ {"s20", "s35"} \/ (s = "s35" /\ ~i.full)
             /\ t \in {"s2", "s3", "s4", "s6", "s7", "s8"} =>
                  \/ s \in {"s2", "s3", "s4", "s6", "s7", "s8"}
                  \/ s = "s1" /\ (i.a1 \/ ~i.last \/ i.boeq3)
                  \/ s = "s15" /\ (~i.empty \/ (i.last /\ i.boeq3))
<1>1. CASE s \in DrainStates
  BY <1>1 DEF CpuOut, CpuNext, DrainOut, DrainNext, DrainStates, FillStates, If, Aligned, OddWord,
              Partial, Strobes
<1>2. CASE s \in FillStates
  BY <1>2 DEF CpuOut, CpuNext, FillOut, FillNext, DrainStates, FillStates, If, Fill, FillLow
<1>3. CASE s \in {"s0", "letgo"}
  BY <1>3 DEF CpuOut, CpuNext, IdleOut, IdleNext, If, DrainStates, FillStates
<1>4. QED
  BY <1>1, <1>2, <1>3 DEF CpuStates

(* The FIFO is held in reset only with both machines at rest.              *)
LEMMA ResetQuiet ==
  ASSUME Known, QuietInv, OnInv, FlushInv, RST_FIFO
  PROVE  /\ Quiet /\ cst \in {"s0", "s20"}
         /\ Landing => "INCFIFO" \notin cout /\ "DECFIFO" \notin cout
<1>1. step \in Still \/ NotOn
  BY DEF RST_FIFO, OnInv, FlushInv, Known, RestInv, StepInv, Steps, Still, OffSteps, NotOn
<1>2. cst \in {"s0", "s20"}
  BY DEF RST_FIFO, OnInv, FlushInv, Known, RestInv, StepInv, Steps, OffSteps, NotOn
<1>3. QED
  BY <1>1, <1>2 DEF QuietInv, OwnStep

(* The requests of SCSI_SM go in the direction of DMADIR.                  *)
LEMMA RequestDir ==
  ASSUME Known
  PROVE  /\ RIFIFO_o \/ sst \in ToFifo => DMADIR
         /\ RDFIFO_o \/ sst \in FromFifo => ~DMADIR
         /\ cst \in DrainStates => DMADIR
         /\ cst \in FillStates \ {"s20"} => ~DMADIR
BY DEF Known, RequestInv, RestInv, DirInv, ToFifo, FromFifo, DrainStates, FillStates

(* At the flush of a read the chip is through with it, so that the byte    *)
(* pointer tells how the transfer ends.                                    *)
LEMMA FlushBytes ==
  ASSUME Whole, Known, LeftInv, QuietInv, OnInv, FlushInv, ByteInv, A1Inv, FLUSHFIFO, DMADIR
  PROVE  /\ BYTE_PTR # 3
         /\ COUNT = 0 /\ BYTE_PTR # 0 /\ ~Landing => ~A1
<1>1. step \in {"flush", "poll", "cint"}
  BY DEF FlushInv, After
<1>2. /\ left = 0 /\ xfer \in Transfers /\ xfer.dir
      /\ DMAENA /\ Quiet
  BY <1>1 DEF LeftInv, OnInv, QuietInv, Still, Known, RestInv, DirInv
<1>3. Lag = 0
  BY <1>2 DEF Lag, Quiet, ToFifo
<1>4. BYTE_PTR \in 0..3 /\ First(xfer) \in Nat /\ xfer.len \in Nat
  BY DEF Known, TypeOK, FifoTypeOK, MachineTypeOK, First
<1>5. (First(xfer) + xfer.len) % 4 # 3 /\ (xfer.a1 => xfer.len # 0)
  BY <1>2 DEF Whole
<1>6. /\ (First(xfer) + (xfer.len - left)) % 4 = (BYTE_PTR + Lag) % 4
      /\ A1 /\ ~FirstDone => BYTE_PTR >= 2 /\ xfer.len - left = (BYTE_PTR - 2) + Lag
      /\ A1 => xfer.a1
  BY <1>2 DEF ByteInv, A1Inv
<1>7. COUNT = 0 /\ ~Landing => ~FirstDone
  BY <1>2 DEF FirstDone, Quiet
<1> HIDE DEF Lag, First, FirstDone
<1>8. (First(xfer) + xfer.len) % 4 = BYTE_PTR
  BY <1>2, <1>3, <1>4, <1>6
<1>9. BYTE_PTR # 3
  BY <1>5, <1>8
<1>10. A1 /\ ~FirstDone => BYTE_PTR >= 2 /\ xfer.len = BYTE_PTR - 2 /\ xfer.len # 0
  BY <1>2, <1>3, <1>4, <1>5, <1>6
<1>11. ~(A1 /\ ~FirstDone)
  BY <1>4, <1>9, <1>10
<1>12. QED
  BY <1>7, <1>9, <1>11

(* There is room in the FIFO after reset.                                  *)
LEMMA RoomInit == Init => RoomInv
BY DEF Init, CpuInit, ScsiInit, RoomInv, ToFifo, FromFifo, FillStates

(* posedge CLK90: INCFIFO and DECFIFO, for a longword of CPU_SM's own or   *)
(* for a request of SCSI_SM.                                               *)
LEMMA StepRise90 ==
  ASSUME Known, RoomInv, Clk90Rise
  PROVE  /\ "INCFIFO" \in cout' =>
              /\ COUNT < DEPTH
              /\ DMADIR => ~RIFIFO_o' /\ sst' \notin ToFifo
              /\ ~DMADIR => cst' = "s35"
         /\ "DECFIFO" \in cout' =>
              /\ COUNT > 0
              /\ DMADIR => cst' = "s15"
              /\ ~DMADIR => ~RDFIFO_o' /\ sst' \notin FromFifo
<1> DEFINE out == CpuOut(cst, CpuIn)
<1>1. /\ cst' = CpuNext(cst, CpuIn)
      /\ cout' = CpuRegistered(out, RIFIFO_o, RDFIFO_o)
      /\ sst' = ScsiNext(sst, ScsiIn)
      /\ RIFIFO_o' = (RIFIFO_o /\ "INCFIFO" \notin cout')
      /\ RDFIFO_o' = (RDFIFO_o /\ "DECFIFO" \notin cout')
  BY Rise90Frame
<1>2. cst \in CpuStates /\ RIFIFO_o \in BOOLEAN /\ RDFIFO_o \in BOOLEAN
  BY DEF Known, BusInv, RequestInv
<1>3. /\ "INCFIFO" \in cout' => "INCFIFO" \in out \/ RIFIFO_o
      /\ "DECFIFO" \in cout' => "DECFIFO" \in out \/ RDFIFO_o
  BY <1>1, <1>2, Registered
<1>4. "INCFIFO" \in out => COUNT < DEPTH /\ ~DMADIR /\ cst' = "s35"
  <2>1. "INCFIFO" \in out => cst \in FillStates \ {"s20", "s21", "s35"} /\ cst' = "s35"
    BY <1>1, OwnSteps, CountStates
  <2>2. QED
    BY <2>1, RequestDir DEF RoomInv
<1>5. "DECFIFO" \in out => COUNT > 0 /\ DMADIR /\ cst' = "s15"
  <2>1. "DECFIFO" \in out => cst \in {"s3", "s4", "s7", "s8"} /\ cst' = "s15"
    BY <1>1, <1>2, RoomTable, CountStates
  <2>2. QED
    BY <2>1, RequestDir DEF RoomInv, DrainStates
<1>6. RIFIFO_o => COUNT < DEPTH /\ DMADIR /\ sst' \notin ToFifo
  <2>1. RIFIFO_o => COUNT < DEPTH /\ DMADIR
    BY RequestDir DEF RoomInv
  <2>2. RIFIFO_o => sst \in {"S2F_4", "IDLE_DMA_RD"}
    BY DEF Known, RequestInv
  <2>3. RIFIFO_o => sst' # "S2F_1"
    BY <1>1, ByteTable DEF ScsiIn
  <2>4. QED
    BY <1>1, <2>1, <2>2, <2>3, MoveTable DEF ToFifo
<1>7. RDFIFO_o => COUNT > 0 /\ ~DMADIR /\ sst' \notin FromFifo
  <2>1. RDFIFO_o => COUNT > 0 /\ ~DMADIR
    BY RequestDir DEF RoomInv
  <2>2. RDFIFO_o => sst \in {"F2S_4", "IDLE_DMA_WR"}
    BY DEF Known, RequestInv
  <2>3. RDFIFO_o => sst' # "F2S_1"
    BY <1>1, ByteTable DEF ScsiIn
  <2>4. QED
    BY <1>1, <2>1, <2>2, <2>3, MoveTable DEF FromFifo
<1> HIDE DEF out
<1>8. QED
  BY <1>1, <1>3, <1>4, <1>5, <1>6, <1>7

(* posedge CLK90: CPU_SM begins a cycle only for a longword that is there, *)
(* or for what is left after the last.                                     *)
LEMMA RoomRise90 ==
  ASSUME Whole, Known, LeftInv, QuietInv, OnInv, FlushInv, ByteInv, A1Inv, RoomInv, Clk90Rise
  PROVE  RoomInv'
<1>1. /\ edge = "CLK90+" /\ edge' = "CLK135+"
      /\ cst' = CpuNext(cst, CpuIn)
      /\ sst' = ScsiNext(sst, ScsiIn)
      /\ RIFIFO_o' = (RIFIFO_o /\ "INCFIFO" \notin cout')
      /\ RDFIFO_o' = (RDFIFO_o /\ "DECFIFO" \notin cout')
      /\ left' = IF DACK /\ ~DACK' /\ left > 0 THEN left - 1 ELSE left
      /\ UNCHANGED <<COUNT, BYTE_PTR, DMADIR, FLUSHFIFO, A1>>
  BY Rise90Frame DEF fifoSide, regSide
<1>2. /\ cst \in CpuStates /\ COUNT \in 0..DEPTH /\ DEPTH \in Nat /\ DEPTH >= 2
      /\ BYTE_PTR \in 0..3
  BY DepthType DEF Known, BusInv, TypeOK, FifoTypeOK
<1>3. /\ CpuIn.full = (COUNT = DEPTH) /\ CpuIn.empty = (COUNT = 0)
      /\ CpuIn.a1 = A1 /\ CpuIn.last = LASTWORD /\ CpuIn.boeq3 = (BYTE_PTR = 3)
      /\ ScsiIn.full = (COUNT = DEPTH) /\ ScsiIn.empty = (COUNT = 0)
  BY DEF CpuIn, ScsiIn, FIFOFULL, FIFOEMPTY, BOEQ3
<1>4. sst' \in ToFifo \/ RIFIFO_o' => COUNT < DEPTH
  <2>1. sst' \in ToFifo => sst \in ToFifo \/ sst' = "S2F_1"
    BY <1>1, MoveTable DEF ToFifo
  <2>2. sst' = "S2F_1" => COUNT # DEPTH
    BY <1>1, <1>3, ByteTable
  <2>3. sst' = "S2F_1" => COUNT < DEPTH
    BY <1>2, <2>2
  <2>4. RIFIFO_o' => RIFIFO_o
    BY <1>1
  <2>5. QED
    BY <2>1, <2>3, <2>4 DEF RoomInv
<1>5. sst' \in FromFifo \/ RDFIFO_o' => COUNT > 0
  <2>1. sst' \in FromFifo => sst \in FromFifo \/ sst' = "F2S_1"
    BY <1>1, MoveTable DEF FromFifo
  <2>2. sst' = "F2S_1" => COUNT # 0
    BY <1>1, <1>3, ByteTable
  <2>3. sst' = "F2S_1" => COUNT > 0
    BY <1>2, <2>2
  <2>4. RDFIFO_o' => RDFIFO_o
    BY <1>1
  <2>5. QED
    BY <2>1, <2>3, <2>4 DEF RoomInv
<1>6. cst' \in FillStates \ {"s20", "s21", "s35"} => COUNT < DEPTH
  <2>1. cst' \in FillStates \ {"s20", "s21", "s35"} =>
          cst \in FillStates \ {"s20", "s35"} \/ COUNT # DEPTH
    BY <1>1, <1>2, <1>3, RoomTable
  <2>2. QED
    BY <1>2, <2>1 DEF RoomInv
<1>7. cst' = "s21" => COUNT = 0 /\ left' > 0
  <2> SUFFICES ASSUME cst' = "s21" PROVE COUNT = 0 /\ left' > 0
    OBVIOUS
  <2>1. ~DMADIR
    BY <1>1, <1>2, AskTable, RequestDir DEF CpuIn, FillStates
  <2>2. COUNT = 0 /\ left > 0
    <3>1. CASE cst = "s21"
      BY <3>1 DEF RoomInv
    <3>2. CASE cst = "s20"
      <4>1. cDMAENA /\ FIFOEMPTY /\ cDREQ
        BY <2>1, <3>2, HomeRise90
      <4>2. QED
        BY <1>1, <4>1 DEF LeftInv, FIFOEMPTY
    <3>3. QED
      BY <1>1, <1>2, <3>1, <3>2, AskTable
  <2>3. ~DACK
    BY <2>1, <2>2, RequestDir DEF LeftInv, RoomInv, ToFifo, FromFifo
  <2>4. QED
    BY <1>1, <2>2, <2>3
<1>8. cst' \in {"s2", "s3", "s4", "s6", "s7", "s8"} => COUNT > 0
  <2> SUFFICES ASSUME cst' \in {"s2", "s3", "s4", "s6", "s7", "s8"} PROVE COUNT > 0
    OBVIOUS
  <2>1. CASE cst \in {"s2", "s3", "s4", "s6", "s7", "s8"}
    BY <2>1 DEF RoomInv
  <2>2. CASE cst = "s1" /\ (A1 \/ ~LASTWORD \/ BYTE_PTR = 3)
    <3>1. ~Residue
      BY <2>2 DEF Residue, LASTWORD, BOEQ0, FIFOEMPTY
    <3>2. QED
      BY <2>2, <3>1 DEF RoomInv
  <2>3. CASE cst = "s15" /\ LASTWORD /\ BYTE_PTR = 3
    BY <2>3, FlushBytes, RequestDir DEF LASTWORD, DrainStates
  <2>4. CASE COUNT # 0
    BY <1>2, <2>4
  <2>5. QED
    BY <1>1, <1>2, <1>3, <2>1, <2>2, <2>3, <2>4, RoomTable
<1>9. cst' = "s1" => COUNT > 0 \/ Residue'
  <2> SUFFICES ASSUME cst' = "s1", COUNT = 0 PROVE Residue
    BY <1>1, <1>2 DEF Residue
  <2>1. CASE cst = "s1"
    BY <1>2, <2>1 DEF RoomInv
  <2>2. CASE cst = "s0"
    <3>1. DMADIR /\ LASTWORD
      BY <1>2, <2>2, HomeRise90 DEF FIFOFULL, FIFOEMPTY
    <3>2. BYTE_PTR # 3 /\ ~A1
      BY <1>1, <3>1, FlushBytes DEF LASTWORD, BOEQ0, Landing
    <3>3. QED
      BY <1>2, <3>1, <3>2 DEF Residue, LASTWORD, BOEQ0
  <2>3. QED
    BY <2>1, <2>2, HomeRise90
<1>10. RoomInv' <=>
         /\ "INCFIFO" \in cout' =>
              /\ COUNT < DEPTH
              /\ DMADIR => ~RIFIFO_o' /\ sst' \notin ToFifo
              /\ ~DMADIR => cst' = "s35"
         /\ "DECFIFO" \in cout' =>
              /\ COUNT > 0
              /\ DMADIR => cst' = "s15"
              /\ ~DMADIR => ~RDFIFO_o' /\ sst' \notin FromFifo
         /\ sst' \in ToFifo \/ RIFIFO_o' => COUNT < DEPTH
         /\ sst' \in FromFifo \/ RDFIFO_o' => COUNT > 0
         /\ cst' \in FillStates \ {"s20", "s21", "s35"} => COUNT < DEPTH
         /\ cst' = "s21" => COUNT = 0 /\ left' > 0
         /\ cst' \in {"s2", "s3", "s4", "s6", "s7", "s8"} => COUNT > 0
         /\ cst' = "s1" => COUNT > 0 \/ Residue'
  BY <1>1 DEF RoomInv, Landing
<1>11. QED
  BY <1>4, <1>5, <1>6, <1>7, <1>8, <1>9, <1>10, StepRise90

(* negedge SCLK: the count does not wrap.                                  *)
LEMMA CountSteps ==
  ASSUME Known, RoomInv, ClkFall, ~RST_FIFO
  PROVE  /\ "DECFIFO" \in cout => COUNT' = COUNT - 1 /\ COUNT > 0 /\ "INCFIFO" \notin cout
         /\ "INCFIFO" \in cout => COUNT' = COUNT + 1 /\ COUNT < DEPTH
         /\ "INCFIFO" \notin cout /\ "DECFIFO" \notin cout => COUNT' = COUNT
<1>1. edge = "CLK-" /\ COUNT' = NextCount(COUNT, "INCFIFO" \in cout, "DECFIFO" \in cout)
  BY FallFrame
<1>2. COUNT \in 0..DEPTH /\ DEPTH \in Nat
  BY DepthType DEF Known, TypeOK, FifoTypeOK
<1>3. /\ "INCFIFO" \in cout => COUNT < DEPTH
      /\ "DECFIFO" \in cout => COUNT > 0
  BY <1>1 DEF RoomInv, Landing
<1>4. ~("INCFIFO" \in cout /\ "DECFIFO" \in cout)
  BY DEF Known, RequestInv, CountOneWay
<1>5. QED
  BY <1>1, <1>2, <1>3, <1>4 DEF NextCount

(* negedge SCLK: a longword has come in where there was room, or gone.     *)
LEMMA RoomFall ==
  ASSUME Whole, Known, QuietInv, OnInv, FlushInv, RoomInv, ClkFall
  PROVE  RoomInv'
<1>1. /\ edge = "CLK-" /\ edge' = "CLK90-"
      /\ UNCHANGED <<cst, cout, sst, DMADIR, FLUSHFIFO, A1, BYTE_PTR, RIFIFO_o, RDFIFO_o>>
      /\ COUNT' = IF RST_FIFO THEN 0
                  ELSE NextCount(COUNT, "INCFIFO" \in cout, "DECFIFO" \in cout)
  BY FallFrame DEF bothVars, regSide, askSide
<1>2. /\ cst \in CpuStates /\ COUNT \in 0..DEPTH /\ DEPTH \in Nat /\ DEPTH >= 2
  BY DepthType DEF Known, BusInv, TypeOK, FifoTypeOK
<1>3. cst \in {"s0", "s20"} \/ left' = left
  <2>1. Begins => cst \in {"s0", "s20"}
    BY DEF Begins, OnInv, OffSteps
  <2>2. ~Begins => left' = left
    BY HostMoves DEF Rests, Halts, Starts, Sees, Ends, hostSide
  <2>3. QED
    BY <2>1, <2>2
<1>4. COUNT' = COUNT /\ Residue => Residue'
  BY <1>1 DEF Residue
<1>5. DMADIR \in BOOLEAN
  BY DEF Known, TypeOK, RegTypeOK
<1>6. CASE RST_FIFO
  <2>1. COUNT' = 0 /\ Quiet /\ cst \in {"s0", "s20"}
    BY <1>1, <1>6, ResetQuiet
  <2>2. QED
    BY <1>1, <2>1 DEF RoomInv, Quiet, Landing, FillStates
<1>7. CASE ~RST_FIFO /\ "DECFIFO" \in cout
  <2>1. COUNT' = COUNT - 1 /\ COUNT > 0
    BY <1>7, CountSteps
  <2>2. COUNT' < DEPTH
    BY <1>2, <2>1
  <2>3. CASE DMADIR
    <3>1. cst = "s15" /\ sst \notin FromFifo /\ ~RDFIFO_o
      BY <1>1, <1>7, <2>3, RequestDir DEF RoomInv, Landing
    <3>2. QED
      BY <1>1, <2>2, <3>1 DEF RoomInv, Landing, FillStates
  <2>4. CASE ~DMADIR
    <3>1. /\ cst \notin DrainStates /\ cst # "s21" /\ ~RDFIFO_o /\ sst \notin FromFifo
      BY <1>1, <1>2, <1>7, <2>1, <2>4, RequestDir DEF RoomInv, Landing
    <3>2. QED
      BY <1>1, <2>2, <3>1 DEF RoomInv, Landing, DrainStates
  <2>5. QED
    BY <1>5, <2>3, <2>4
<1>8. CASE ~RST_FIFO /\ "INCFIFO" \in cout
  <2>1. COUNT' = COUNT + 1 /\ COUNT < DEPTH
    BY <1>8, CountSteps
  <2>2. COUNT' > 0
    BY <1>2, <2>1
  <2>3. CASE DMADIR
    <3>1. /\ ~RIFIFO_o /\ sst \notin ToFifo /\ cst \notin FillStates \ {"s20"}
      BY <1>1, <1>8, <2>3, RequestDir DEF RoomInv, Landing
    <3>2. QED
      BY <1>1, <2>2, <3>1 DEF RoomInv, Landing, FillStates
  <2>4. CASE ~DMADIR
    <3>1. cst = "s35" /\ ~RIFIFO_o /\ sst \notin ToFifo
      BY <1>1, <1>8, <2>4, RequestDir DEF RoomInv, Landing
    <3>2. QED
      BY <1>1, <2>2, <3>1 DEF RoomInv, Landing
  <2>5. QED
    BY <1>5, <2>3, <2>4
<1>9. CASE ~RST_FIFO /\ "INCFIFO" \notin cout /\ "DECFIFO" \notin cout
  <2>1. COUNT' = COUNT
    BY <1>9, CountSteps
  <2>2. QED
    BY <1>1, <1>3, <1>4, <2>1 DEF RoomInv, Landing
<1>10. QED
  BY <1>6, <1>7, <1>8, <1>9

(* negedge CLK90: what is left stays until it is on its way.               *)
LEMMA RoomFall90 ==
  ASSUME Known, QuietInv, OnInv, FlushInv, ByteInv, RoomInv, Clk90Fall
  PROVE  RoomInv'
<1>1. /\ edge = "CLK90-" /\ edge' = "CLK135-"
      /\ UNCHANGED <<cst, cout, sst, sout, COUNT, left, RIFIFO_o, RDFIFO_o>>
      /\ FLUSHFIFO' = (Selected = "FLUSH" \/ (FLUSHFIFO /\ "STOPFLUSH" \notin cout))
      /\ BYTE_PTR' = IF RST_FIFO THEN (IF A1 THEN 2 ELSE 0)
                     ELSE IF "INCBO" \in sout THEN (BYTE_PTR + 1) % 4 ELSE BYTE_PTR
  BY Fall90Frame DEF bothVars, hostSide, askSide
<1>2. ASSUME cst = "s1", Residue PROVE Residue'
  <2>1. step \in {"flush", "poll", "cint"}
    BY <1>2 DEF Residue, FlushInv, After
  <2>2. FLUSHFIFO' /\ ~A1'
    BY <1>1, <1>2, <2>1, RegWrites DEF FlushInv, Residue
  <2>3. ~RST_FIFO
    BY <1>2, ResetQuiet
  <2>4. "INCBO" \notin sout
    BY <2>1 DEF QuietInv, Still, Quiet, ByteInv, ToFifo, FromFifo
  <2>5. QED
    BY <1>1, <1>2, <2>2, <2>3, <2>4 DEF Residue
<1>3. QED
  BY <1>1, <1>2 DEF RoomInv, Landing

(* Every edge leaves the room that is needed.                              *)
LEMMA RoomNext ==
  ASSUME Whole, Known, LeftInv, QuietInv, OnInv, FlushInv, ByteInv, A1Inv, RoomInv, [Next]_vars
  PROVE  RoomInv'
<1>1. CASE Clk90Rise
  BY <1>1, RoomRise90
<1>2. CASE ClkFall
  BY <1>2, RoomFall
<1>3. CASE Clk90Fall
  BY <1>3, RoomFall90
<1>4. CASE Clk135Rise
  <2>1. /\ edge = "CLK135+" /\ edge' = "CLK-"
        /\ RIFIFO_o' => "INCFIFO" \notin cout /\ (RIFIFO_o \/ "RIFIFO" \in sout)
        /\ RDFIFO_o' => "DECFIFO" \notin cout /\ (RDFIFO_o \/ "RDFIFO" \in sout)
        /\ UNCHANGED <<cst, cout, sst, COUNT, BYTE_PTR, DMADIR, FLUSHFIFO, A1, left>>
    BY <1>4, Rise135Frame DEF bothVars, regSide, hostSide
  <2>2. /\ "RIFIFO" \in sout => sst \in ToFifo
        /\ "RDFIFO" \in sout => sst \in FromFifo
    BY DEF Known, RequestInv, ToFifo, FromFifo
  <2>3. QED
    BY <2>1, <2>2 DEF RoomInv, Residue, Landing
<1>5. CASE ClkRise
  BY <1>5, RiseFrame DEF countVars, bothVars, fifoSide, regSide, hostSide, askSide, RoomInv, Residue,
                         Landing
<1>6. CASE Clk135Fall
  BY <1>6, Fall135Frame DEF countVars, bothVars, fifoSide, regSide, hostSide, askSide, RoomInv,
                            Residue, Landing
<1>7. CASE UNCHANGED vars
  BY <1>7, NoEdgeFrame DEF countVars, bothVars, fifoSide, regSide, hostSide, askSide, RoomInv,
                           Residue, Landing
<1>8. QED
  BY <1>1, <1>2, <1>3, <1>4, <1>5, <1>6, <1>7 DEF Next

-------------------------------------------------------------------------------
(* 8.  The pointers.                                                       *)

(* CPU_SM's pointers: it steps next-in a clock after INCFIFO, in s35, and  *)
(* next-out with DECFIFO.                                                  *)
LEMMA PtrTable ==
  ASSUME NEW s \in CpuStates, NEW i
  PROVE  LET out == CpuOut(s, i)
         IN  /\ "INCNI" \in out <=> s = "s35"
             /\ "INCNO" \notin out
             /\ "INCFIFO" \in out <=> CpuNext(s, i) = "s35"
<1>1. CASE s \in DrainStates
  BY <1>1 DEF CpuOut, CpuNext, DrainOut, DrainNext, DrainStates, FillStates, If, Aligned, OddWord,
              Partial, Strobes
<1>2. CASE s \in FillStates
  BY <1>2 DEF CpuOut, CpuNext, FillOut, FillNext, DrainStates, FillStates, If, Fill, FillLow,
              Port32, Port16, Waiting
<1>3. CASE s \in {"s0", "letgo"}
  BY <1>3 DEF CpuOut, CpuNext, IdleOut, IdleNext, If, DrainStates, FillStates
<1>4. QED
  BY <1>1, <1>2, <1>3 DEF CpuStates

(* The same of an edge, with what SCSI_SM asks for.                        *)
LEMMA PtrRise90Out ==
  ASSUME Known, Clk90Rise
  PROVE  /\ cst' = "s35" => ~DMADIR
         /\ DMADIR =>
              /\ "INCFIFO" \in cout' <=> RIFIFO_o /\ "DECFIFO" \notin cout'
              /\ "INCNI" \in cout' \cup sout' <=> "RIFIFO" \in sout'
              /\ "INCNO" \in cout' \cup sout' <=> "DECFIFO" \in cout'
              /\ "RDFIFO" \notin sout' /\ ~RDFIFO_o
              /\ "RIFIFO" \in sout' => ~RIFIFO_o
         /\ ~DMADIR =>
              /\ "DECFIFO" \in cout' <=> RDFIFO_o /\ "INCFIFO" \notin cout'
              /\ "INCNO" \in cout' \cup sout' <=> "RDFIFO" \in sout'
              /\ "INCNI" \in cout' \cup sout' <=> cst = "s35"
              /\ "INCFIFO" \in cout' <=> cst' = "s35"
              /\ "RIFIFO" \notin sout' /\ ~RIFIFO_o
              /\ "RDFIFO" \in sout' => ~RDFIFO_o
<1> DEFINE out == CpuOut(cst, CpuIn)
<1>1. /\ edge = "CLK90+"
      /\ cst' = CpuNext(cst, CpuIn)
      /\ cout' = CpuRegistered(out, RIFIFO_o, RDFIFO_o)
      /\ sst' = ScsiNext(sst, ScsiIn)
      /\ sout' = ScsiOut(sst, ScsiIn)
  BY Rise90Frame
<1>2. cst \in CpuStates /\ RIFIFO_o \in BOOLEAN /\ RDFIFO_o \in BOOLEAN
  BY DEF Known, BusInv, RequestInv
<1>3. /\ "INCFIFO" \in cout' <=> "INCFIFO" \in out \/ (RIFIFO_o /\ "DECFIFO" \notin out)
      /\ "DECFIFO" \in cout' <=> "DECFIFO" \in out \/ (RDFIFO_o /\ "INCFIFO" \notin out)
      /\ "INCNI" \in cout' <=> "INCNI" \in out
      /\ "INCNO" \in cout' <=> "INCNO" \in out \/ "DECFIFO" \in out
  <2>1. "INCNO" \in cout' <=> "INCNO" \in out \/ "DECFIFO" \in out
    BY <1>1 DEF CpuRegistered, If
  <2> HIDE DEF out
  <2>2. QED
    BY <1>1, <1>2, <2>1, Registered
<1>4. /\ "INCNI" \in out <=> cst = "s35"
      /\ "INCNO" \notin out
      /\ "INCFIFO" \in out <=> cst' = "s35"
  BY <1>1, <1>2, PtrTable
<1>5. /\ "INCFIFO" \in out => ~DMADIR
      /\ "DECFIFO" \in out => DMADIR
  BY OwnSteps, RequestDir DEF FillStates, DrainStates
<1>6. /\ "INCNI" \in sout' <=> "RIFIFO" \in sout'
      /\ "INCNO" \in sout' <=> "RDFIFO" \in sout'
      /\ "RIFIFO" \in sout' => sst = "S2F_3"
      /\ "RDFIFO" \in sout' => sst = "F2S_3"
  BY <1>1, ByteTable
<1>7. /\ sst = "S2F_3" => DMADIR /\ ~RIFIFO_o
      /\ sst = "F2S_3" => ~DMADIR /\ ~RDFIFO_o
      /\ RIFIFO_o => DMADIR
      /\ RDFIFO_o => ~DMADIR
      /\ cst = "s35" => ~DMADIR
  BY RequestDir DEF Known, RequestInv, ToFifo, FromFifo, FillStates
<1> HIDE DEF out
<1>8. QED
  BY <1>3, <1>4, <1>5, <1>6, <1>7

(* The pointers and the count are at zero after reset.                     *)
LEMMA PtrInit == Init => PtrInv
BY DEF Init, CpuInit, ScsiInit, FifoInit, PtrInv, Landing, Under, Congruent

(* As much on both sides.                                                  *)
LEMMA Shifted ==
  ASSUME NEW x \in Int, NEW y \in Int, NEW d \in Int, Congruent(x, y)
  PROVE  Congruent(x + d, y + d)
BY DepthType DEF Congruent

(* posedge CLK90: every step of a pointer or of the count that comes out   *)
(* has its counterpart.                                                    *)
LEMMA PtrRise90 ==
  ASSUME Known, PtrInv, Clk90Rise
  PROVE  PtrInv'
<1>1. /\ edge = "CLK90+" /\ edge' = "CLK135+"
      /\ RIFIFO_o' = (RIFIFO_o /\ "INCFIFO" \notin cout')
      /\ RDFIFO_o' = (RDFIFO_o /\ "DECFIFO" \notin cout')
      /\ UNCHANGED <<COUNT, READ_PTR, WRITE_PTR, DMADIR>>
  BY Rise90Frame DEF fifoSide, regSide
<1>2. /\ COUNT \in Nat /\ READ_PTR \in Nat /\ WRITE_PTR \in Nat
      /\ RIFIFO_o \in BOOLEAN /\ RDFIFO_o \in BOOLEAN /\ DMADIR \in BOOLEAN
  BY DepthType DEF Known, TypeOK, FifoTypeOK, ScsiTypeOK, RegTypeOK
<1> DEFINE x  == READ_PTR + COUNT + Under(RIFIFO_o)
           y  == WRITE_PTR + Under(RDFIFO_o) + Under(cst = "s35")
           x1 == READ_PTR + Under("INCNO" \in cout' \cup sout')
                   + COUNT + Under("INCFIFO" \in cout') + Under(RIFIFO_o' \/ "RIFIFO" \in sout')
           y1 == WRITE_PTR + Under("INCNI" \in cout' \cup sout') + Under("DECFIFO" \in cout')
                   + Under(RDFIFO_o' \/ "RDFIFO" \in sout') + Under(cst' = "s35")
<1>3. Congruent(x, y)
  BY <1>1 DEF PtrInv, Landing
<1>4. x \in Int /\ y \in Int
  BY <1>2 DEF Under
<1>5. PtrInv' <=> Congruent(x1, y1)
  <2> HIDE DEF Under, Congruent
  <2>1. PtrInv' <=>
          Congruent(READ_PTR' + Under("INCNO" \in cout' \cup sout')
                      + COUNT' + Under("INCFIFO" \in cout') + Under(RIFIFO_o' \/ "RIFIFO" \in sout'),
                    WRITE_PTR' + Under("INCNI" \in cout' \cup sout') + Under("DECFIFO" \in cout')
                      + Under(RDFIFO_o' \/ "RDFIFO" \in sout') + Under(cst' = "s35"))
    BY <1>1 DEF PtrInv, Landing, Under, Congruent
  <2>2. QED
    BY <1>1, <2>1
<1>6. \E d \in Int : x1 = x + d /\ y1 = y + d
  <2>1. CASE DMADIR
    <3>1. /\ Under("INCNO" \in cout' \cup sout') = Under("DECFIFO" \in cout')
          /\ Under("INCNI" \in cout' \cup sout') = Under("RIFIFO" \in sout')
          /\ Under(RDFIFO_o' \/ "RDFIFO" \in sout') = 0 /\ Under(RDFIFO_o) = 0
          /\ Under(cst' = "s35") = 0 /\ Under(cst = "s35") = 0
      BY <1>1, <1>2, <2>1, PtrRise90Out, RequestDir DEF Under, FillStates
    <3>2. Under("INCFIFO" \in cout') + Under(RIFIFO_o' \/ "RIFIFO" \in sout')
            = Under(RIFIFO_o) + Under("RIFIFO" \in sout')
      BY <1>1, <1>2, <2>1, PtrRise90Out DEF Under
    <3>3. /\ Under("DECFIFO" \in cout') \in Int /\ Under("RIFIFO" \in sout') \in Int
          /\ Under("INCFIFO" \in cout') \in Int /\ Under(RIFIFO_o' \/ "RIFIFO" \in sout') \in Int
          /\ Under(RIFIFO_o) \in Int
      BY DEF Under
    <3> HIDE DEF Under
    <3>4. LET d == Under("DECFIFO" \in cout') + Under("RIFIFO" \in sout')
          IN  d \in Int /\ x1 = x + d /\ y1 = y + d
      BY <1>2, <3>1, <3>2, <3>3
    <3>5. QED
      BY <3>4
  <2>2. CASE ~DMADIR
    <3>1. /\ Under("INCNO" \in cout' \cup sout') = Under("RDFIFO" \in sout')
          /\ Under("INCNI" \in cout' \cup sout') = Under(cst = "s35")
          /\ Under(RIFIFO_o' \/ "RIFIFO" \in sout') = 0 /\ Under(RIFIFO_o) = 0
          /\ Under(cst' = "s35") = Under("INCFIFO" \in cout')
      BY <1>1, <1>2, <2>2, PtrRise90Out DEF Under
    <3>2. Under("DECFIFO" \in cout') + Under(RDFIFO_o' \/ "RDFIFO" \in sout')
            = Under(RDFIFO_o) + Under("RDFIFO" \in sout')
      BY <1>1, <1>2, <2>2, PtrRise90Out DEF Under
    <3>3. /\ Under("DECFIFO" \in cout') \in Int /\ Under("RDFIFO" \in sout') \in Int
          /\ Under("INCFIFO" \in cout') \in Int /\ Under(RDFIFO_o' \/ "RDFIFO" \in sout') \in Int
          /\ Under(RDFIFO_o) \in Int /\ Under(cst = "s35") \in Int
      BY DEF Under
    <3> HIDE DEF Under
    <3>4. LET d == Under("INCFIFO" \in cout') + Under("RDFIFO" \in sout')
          IN  d \in Int /\ x1 = x + d /\ y1 = y + d
      BY <1>2, <3>1, <3>2, <3>3
    <3>5. QED
      BY <3>4
  <2>3. QED
    BY <1>2, <2>1, <2>2
<1> HIDE DEF x, y, x1, y1
<1>7. QED
  BY <1>3, <1>4, <1>5, <1>6, Shifted

(* A pointer wraps at the end of the buffer.                               *)
LEMMA Wraps ==
  ASSUME NEW p \in 0..(DEPTH - 1)
  PROVE  /\ (p + 1) % DEPTH \in 0..(DEPTH - 1)
         /\ (p + 1) % DEPTH = p + 1 \/ (p + 1) % DEPTH = p + 1 - DEPTH
BY DepthType

(* Between these bounds a wrap leaves two places the same.                 *)
LEMMA WrapCongruent ==
  ASSUME NEW x \in Int, NEW y \in Int, Congruent(x, y),
         NEW u \in 0..(DEPTH + DEPTH - 1), NEW v \in 0..(DEPTH + 1),
         u = x \/ u = x - DEPTH, v = y \/ v = y - DEPTH
  PROVE  Congruent(u, v)
BY DepthType DEF Congruent

(* posedge CLK135: the pointers move, and the requests are there.          *)
LEMMA PtrRise135 ==
  ASSUME Known, QuietInv, OnInv, FlushInv, RoomInv, PtrInv, Clk135Rise
  PROVE  PtrInv'
<1>1. /\ edge = "CLK135+" /\ edge' = "CLK-"
      /\ RIFIFO_o' = ("INCFIFO" \notin cout /\ (RIFIFO_o \/ "RIFIFO" \in sout))
      /\ RDFIFO_o' = ("DECFIFO" \notin cout /\ (RDFIFO_o \/ "RDFIFO" \in sout))
      /\ WRITE_PTR' = IF RST_FIFO THEN 0
                      ELSE IF "INCNI" \in cout \cup sout THEN (WRITE_PTR + 1) % DEPTH
                      ELSE WRITE_PTR
      /\ READ_PTR' = IF RST_FIFO THEN 0
                     ELSE IF "INCNO" \in cout \cup sout THEN (READ_PTR + 1) % DEPTH
                     ELSE READ_PTR
      /\ UNCHANGED <<cst, cout, COUNT, DMAENA>>
  BY Rise135Frame DEF bothVars, regSide
<1>2. RST_FIFO' = RST_FIFO
  BY <1>1 DEF RST_FIFO
<1>3. /\ COUNT \in 0..DEPTH /\ READ_PTR \in 0..(DEPTH - 1) /\ WRITE_PTR \in 0..(DEPTH - 1)
      /\ DEPTH \in Nat /\ DEPTH >= 2
  BY DepthType DEF Known, TypeOK, FifoTypeOK
<1>4. CASE RST_FIFO
  BY <1>1, <1>2, <1>4 DEF PtrInv, Landing
<1>5. CASE ~RST_FIFO
  <2> DEFINE x == READ_PTR + Under("INCNO" \in cout \cup sout)
                    + COUNT + Under("INCFIFO" \in cout) + Under(RIFIFO_o \/ "RIFIFO" \in sout)
             y == WRITE_PTR + Under("INCNI" \in cout \cup sout) + Under("DECFIFO" \in cout)
                    + Under(RDFIFO_o \/ "RDFIFO" \in sout) + Under(cst = "s35")
             u == READ_PTR' + COUNT + Under("INCFIFO" \in cout) + Under(RIFIFO_o')
             v == WRITE_PTR' + Under("DECFIFO" \in cout) + Under(RDFIFO_o') + Under(cst = "s35")
  <2>1. Congruent(x, y)
    BY <1>1 DEF PtrInv
  <2>2. /\ RIFIFO_o \/ "RIFIFO" \in sout => COUNT < DEPTH /\ "INCFIFO" \notin cout
        /\ RDFIFO_o \/ "RDFIFO" \in sout => "DECFIFO" \notin cout
        /\ "INCFIFO" \in cout => COUNT < DEPTH
    <3>1. /\ "RIFIFO" \in sout => sst \in ToFifo
          /\ "RDFIFO" \in sout => sst \in FromFifo
      BY DEF Known, RequestInv, ToFifo, FromFifo
    <3>2. QED
      BY <1>1, <3>1, RequestDir DEF RoomInv, Landing
  <2>3. /\ RIFIFO_o' = (RIFIFO_o \/ "RIFIFO" \in sout)
        /\ RDFIFO_o' = (RDFIFO_o \/ "RDFIFO" \in sout)
    BY <1>1, <2>2
  <2>4. /\ READ_PTR' \in 0..(DEPTH - 1) /\ WRITE_PTR' \in 0..(DEPTH - 1)
        /\ \/ READ_PTR' = READ_PTR + Under("INCNO" \in cout \cup sout)
           \/ READ_PTR' = READ_PTR + Under("INCNO" \in cout \cup sout) - DEPTH
        /\ \/ WRITE_PTR' = WRITE_PTR + Under("INCNI" \in cout \cup sout)
           \/ WRITE_PTR' = WRITE_PTR + Under("INCNI" \in cout \cup sout) - DEPTH
    BY <1>1, <1>3, <1>5, Wraps DEF Under
  <2>5. /\ Under("INCNO" \in cout \cup sout) \in {0, 1} /\ Under("INCNI" \in cout \cup sout) \in {0, 1}
        /\ Under("DECFIFO" \in cout) \in {0, 1} /\ Under(RDFIFO_o') \in {0, 1}
        /\ Under("INCFIFO" \in cout) \in {0, 1} /\ Under(RIFIFO_o') \in {0, 1}
        /\ Under(cst = "s35") \in {0, 1}
    BY DEF Under
  <2>6. /\ COUNT + Under("INCFIFO" \in cout) + Under(RIFIFO_o') <= DEPTH
        /\ Under("DECFIFO" \in cout) + Under(RDFIFO_o') <= 1
    <3>1. ~("INCFIFO" \in cout /\ RIFIFO_o') /\ ~("DECFIFO" \in cout /\ RDFIFO_o')
      BY <1>1
    <3>2. CASE "INCFIFO" \in cout \/ RIFIFO_o'
      <4>1. COUNT < DEPTH
        <5>1. CASE "INCFIFO" \in cout
          BY <2>2, <5>1
        <5>2. CASE RIFIFO_o'
          BY <2>2, <2>3, <5>2
        <5>3. QED
          BY <3>2, <5>1, <5>2
      <4>2. Under("INCFIFO" \in cout) + Under(RIFIFO_o') = 1
        BY <3>1, <3>2 DEF Under
      <4>3. Under("DECFIFO" \in cout) + Under(RDFIFO_o') <= 1
        BY <3>1 DEF Under
      <4> HIDE DEF Under
      <4>4. QED
        BY <1>3, <2>5, <4>1, <4>2, <4>3
    <3>3. CASE ~("INCFIFO" \in cout \/ RIFIFO_o')
      BY <1>3, <3>1, <3>3 DEF Under
    <3>4. QED
      BY <3>2, <3>3
  <2>7. /\ Under(RIFIFO_o \/ "RIFIFO" \in sout) = Under(RIFIFO_o')
        /\ Under(RDFIFO_o \/ "RDFIFO" \in sout) = Under(RDFIFO_o')
    BY <2>3
  <2>8. /\ x \in Int /\ y \in Int
        /\ u \in 0..(DEPTH + DEPTH - 1) /\ v \in 0..(DEPTH + 1)
        /\ u = x \/ u = x - DEPTH
        /\ v = y \/ v = y - DEPTH
    <3> HIDE DEF Under
    <3>1. QED
      BY <1>3, <2>4, <2>5, <2>6, <2>7
  <2>9. Congruent(u, v)
    <3> HIDE DEF x, y, u, v
    <3>1. QED
      BY <2>1, <2>8, WrapCongruent
  <2>10. QED
    BY <1>1, <1>2, <1>5, <2>9 DEF PtrInv, Landing
<1>6. QED
  BY <1>4, <1>5

(* negedge SCLK: the longwords that have moved are counted.                *)
LEMMA PtrFall ==
  ASSUME Known, QuietInv, OnInv, FlushInv, RoomInv, PtrInv, ClkFall
  PROVE  PtrInv'
<1>1. /\ edge = "CLK-" /\ edge' = "CLK90-"
      /\ UNCHANGED <<cst, cout, READ_PTR, WRITE_PTR, RIFIFO_o, RDFIFO_o>>
      /\ COUNT' = IF RST_FIFO THEN 0
                  ELSE NextCount(COUNT, "INCFIFO" \in cout, "DECFIFO" \in cout)
  BY FallFrame DEF bothVars, askSide
<1>2. /\ COUNT \in 0..DEPTH /\ READ_PTR \in 0..(DEPTH - 1) /\ WRITE_PTR \in 0..(DEPTH - 1)
      /\ DEPTH \in Nat /\ DEPTH >= 2
  BY DepthType DEF Known, TypeOK, FifoTypeOK
<1>3. PtrInv' <=> Congruent(READ_PTR + COUNT' + Under(RIFIFO_o),
                            WRITE_PTR + Under(RDFIFO_o) + Under(cst = "s35"))
  BY <1>1 DEF PtrInv, Landing
<1>4. CASE RST_FIFO
  <2>1. /\ COUNT' = 0 /\ READ_PTR = 0 /\ WRITE_PTR = 0
        /\ ~RIFIFO_o /\ ~RDFIFO_o /\ cst # "s35"
    BY <1>1, <1>4, ResetQuiet DEF PtrInv, Quiet
  <2>2. QED
    BY <1>3, <2>1 DEF Congruent, Under
<1>5. CASE ~RST_FIFO
  <2>1. Congruent(READ_PTR + COUNT + Under("INCFIFO" \in cout) + Under(RIFIFO_o),
                  WRITE_PTR + Under("DECFIFO" \in cout) + Under(RDFIFO_o) + Under(cst = "s35"))
    BY <1>1, <1>5 DEF PtrInv
  <2>2. COUNT' = COUNT + Under("INCFIFO" \in cout) - Under("DECFIFO" \in cout)
    BY <1>2, <1>5, CountSteps DEF Under
  <2>3. /\ Under("INCFIFO" \in cout) \in Int /\ Under("DECFIFO" \in cout) \in Int
        /\ Under(RIFIFO_o) \in Int /\ Under(RDFIFO_o) \in Int /\ Under(cst = "s35") \in Int
    BY DEF Under
  <2> DEFINE x == READ_PTR + COUNT + Under("INCFIFO" \in cout) + Under(RIFIFO_o)
             y == WRITE_PTR + Under("DECFIFO" \in cout) + Under(RDFIFO_o) + Under(cst = "s35")
             d == -Under("DECFIFO" \in cout)
  <2>4. /\ x \in Int /\ y \in Int /\ d \in Int
        /\ READ_PTR + COUNT' + Under(RIFIFO_o) = x + d
        /\ WRITE_PTR + Under(RDFIFO_o) + Under(cst = "s35") = y + d
    <3> HIDE DEF Under
    <3>1. QED
      BY <1>2, <2>2, <2>3
  <2>5. Congruent(x + d, y + d)
    <3> HIDE DEF x, y, d
    <3>1. QED
      BY <2>1, <2>4, Shifted DEF x, y
  <2>6. QED
    BY <1>3, <2>4, <2>5
<1>6. QED
  BY <1>4, <1>5

(* Every edge keeps the pointers and the count together.                   *)
LEMMA PtrNext ==
  ASSUME Known, QuietInv, OnInv, FlushInv, RoomInv, PtrInv, [Next]_vars
  PROVE  PtrInv'
<1>1. CASE Clk90Rise
  BY <1>1, PtrRise90
<1>2. CASE Clk135Rise
  BY <1>2, PtrRise135
<1>3. CASE ClkFall
  BY <1>3, PtrFall
<1>4. CASE ClkRise
  BY <1>4, RiseFrame DEF countVars, bothVars, fifoSide, askSide, PtrInv, Landing
<1>5. CASE Clk90Fall
  BY <1>5, Fall90Frame DEF bothVars, fifoSide, askSide, PtrInv, Landing
<1>6. CASE Clk135Fall
  BY <1>6, Fall135Frame DEF countVars, bothVars, fifoSide, askSide, PtrInv, Landing
<1>7. CASE UNCHANGED vars
  BY <1>7, NoEdgeFrame DEF countVars, bothVars, fifoSide, regSide, askSide, PtrInv, Landing, RST_FIFO
<1>8. QED
  BY <1>1, <1>2, <1>3, <1>4, <1>5, <1>6, <1>7 DEF Next

-------------------------------------------------------------------------------
(* 9.  The theorems.                                                       *)

(* A tail of the buffer wraps once at most.                                *)
LEMMA WrapOnce ==
  ASSUME NEW x \in 0..(DEPTH + DEPTH - 1)
  PROVE  /\ x < DEPTH => x % DEPTH = x
         /\ x >= DEPTH => x % DEPTH = x - DEPTH
BY DepthType

(* Two positions of the same place are the same modulo the depth.          *)
LEMMA SamePlace ==
  ASSUME NEW x \in 0..(DEPTH + DEPTH - 1), NEW y \in 0..(DEPTH + 1), Congruent(x, y)
  PROVE  x % DEPTH = y % DEPTH
<1>1. y \in 0..(DEPTH + DEPTH - 1)
  BY DepthType
<1>2. /\ x < DEPTH => x % DEPTH = x
      /\ x >= DEPTH => x % DEPTH = x - DEPTH
  BY WrapOnce
<1>3. /\ y < DEPTH => y % DEPTH = y
      /\ y >= DEPTH => y % DEPTH = y - DEPTH
  BY <1>1, WrapOnce
<1>4. x = y \/ x = y + DEPTH \/ y = x + DEPTH
  BY <1>1, DepthType DEF Congruent
<1>5. CASE x = y
  BY <1>5
<1>6. CASE x = y + DEPTH
  BY <1>1, <1>2, <1>3, <1>6, DepthType
<1>7. CASE y = x + DEPTH
  BY <1>1, <1>2, <1>3, <1>7, DepthType
<1>8. QED
  BY <1>4, <1>5, <1>6, <1>7

(* What is known already is known of every reachable state.                *)
LEMMA KnownInvariant == Spec => []Known
<1>1. RequestInv /\ BusInv /\ DackInv /\ AccessInv /\ RestInv /\ TypeOK => Known
  BY DEF Known
<1>2. QED
  BY <1>1, DackInit, DackNext, RequestInvariant, BusInvariant, AccessInvariant, RestInvariant,
     TypesHold, PTL DEF Spec

(* The count, the pointers and what they rest on, step by step.            *)
LEMMA CountInvariant == Whole => (Spec => []CountInv)
<1>1. Init => CountInv
  BY LeftInit, QuietInit, OnInit, FlushInit, ByteInit, A1Init, RoomInit, PtrInit DEF CountInv
<1>2. ASSUME Whole
      PROVE  Known /\ Known' /\ CountInv /\ [Next]_vars => CountInv'
  BY <1>2, LeftNext, QuietNext, OnNext, FlushNext, ByteNext, A1Next, RoomNext, PtrNext
     DEF CountInv
<1>3. SUFFICES ASSUME Whole PROVE Spec => []CountInv
  OBVIOUS
<1>4. Known /\ Known' /\ CountInv /\ [Next]_vars => CountInv'
  BY <1>2, <1>3
<1>5. QED
  BY <1>1, <1>4, KnownInvariant, PTL DEF Spec

(* No INCFIFO of a full FIFO and no DECFIFO of an empty one reaches        *)
(* fifo_full_empty_ctr.v, whose count would wrap without a sign of it:     *)
(* a full FIFO is asked for no more, by either machine, and a longword     *)
(* that is on its way in or out has room or is there.                      *)
THEOREM CountNeverWrapsHolds == Whole => (Spec => []CountNeverWraps)
<1>1. SUFFICES ASSUME Whole PROVE Spec => []CountNeverWraps
  OBVIOUS
<1>2. Known /\ CountInv => CountNeverWraps
  <2>1. COUNT \in 0..DEPTH /\ DEPTH \in Nat => (COUNT < DEPTH => COUNT # DEPTH)
    BY SMT
  <2>2. COUNT \in 0..DEPTH => (COUNT > 0 => COUNT # 0)
    BY SMT
  <2>3. QED
    BY <2>1, <2>2, DepthType
       DEF Known, TypeOK, FifoTypeOK, CountInv, RoomInv, Landing, CountNeverWraps, FIFOFULL,
           FIFOEMPTY
<1>3. QED
  BY <1>1, <1>2, KnownInvariant, CountInvariant, PTL

(* The count and the two pointers, stepped by three signals at different   *)
(* edges, tell of the same longwords: READ_PTR and the count make up       *)
(* WRITE_PTR modulo the depth once the steps under way are counted.        *)
THEOREM PointersAgreeHolds == Whole => (Spec => []PointersAgree)
<1>1. SUFFICES ASSUME Whole PROVE Spec => []PointersAgree
  OBVIOUS
<1>2. Known /\ CountInv => PointersAgree
  <2> DEFINE x == READ_PTR + COUNT + Under(RIFIFO_o)
             y == WRITE_PTR + Under(RDFIFO_o) + Under(cst = "s35")
  <2> SUFFICES ASSUME Known, CountInv, edge = "CLK90-", ~RST_FIFO
               PROVE  x % DEPTH = y % DEPTH
    BY DEF PointersAgree
  <2>1. Congruent(x, y)
    BY DEF CountInv, PtrInv, Landing
  <2>2. /\ COUNT \in 0..DEPTH /\ READ_PTR \in 0..(DEPTH - 1) /\ WRITE_PTR \in 0..(DEPTH - 1)
        /\ DEPTH \in Nat /\ DEPTH >= 2
    BY DepthType DEF Known, TypeOK, FifoTypeOK
  <2>3. /\ Under(RIFIFO_o) \in {0, 1} /\ Under(RDFIFO_o) \in {0, 1}
        /\ Under(cst = "s35") \in {0, 1}
    BY DEF Under
  <2>4. COUNT + Under(RIFIFO_o) <= DEPTH
    <3>1. CASE RIFIFO_o
      <4>1. COUNT < DEPTH
        BY <3>1 DEF CountInv, RoomInv
      <4>2. QED
        BY <2>2, <3>1, <4>1 DEF Under
    <3>2. CASE ~RIFIFO_o
      BY <2>2, <3>2 DEF Under
    <3>3. QED
      BY <3>1, <3>2
  <2>5. x \in 0..(DEPTH + DEPTH - 1) /\ y \in 0..(DEPTH + 1)
    <3> HIDE DEF Under
    <3>1. QED
      BY <2>2, <2>3, <2>4
  <2> HIDE DEF x, y
  <2>6. QED
    BY <2>1, <2>5, SamePlace
<1>3. QED
  BY <1>1, <1>2, KnownInvariant, CountInvariant, PTL
===============================================================================
