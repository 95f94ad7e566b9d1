----------------------------- MODULE ResdmacProofs ----------------------------
(***************************************************************************)
(* What holds of ReSDMAC for every depth of its FIFO, every transfer and   *)
(* every port of memory, while the chip and the driver do what they like:  *)
(*                                                                         *)
(*   1  the two state machines: what their tables hold                     *)
(*   2  the FIFO count requests: CountOneWay, RequestNotOverrun            *)
(*   3  the bus: OneMaster                                                 *)
(*   4  the SCSI port: DackAnswersDreq                                     *)
(*   5  types: TypeOK                                                      *)
(*   6  an access of the CPU to the chip, from AS to DSACK: ChipAccessOnce,*)
(*      ChipGetsCpuByte                                                    *)
(*   7  the memory cycles: CyclesAnswered                                  *)
(***************************************************************************)
EXTENDS Resdmac, SequenceTheorems, TLAPS

-------------------------------------------------------------------------------
(* 1.  The tables of the state machines, for any inputs.                   *)

(* CPU_SM decrements the count only with a cycle that goes to s15, and     *)
(* increments it only with one that goes to s35.                           *)
LEMMA CountStates ==
  ASSUME NEW s, NEW i
  PROVE  /\ "DECFIFO" \in CpuOut(s, i) => CpuNext(s, i) = "s15"
         /\ "INCFIFO" \in CpuOut(s, i) => CpuNext(s, i) = "s35"
<1>1. CASE s \in DrainStates
  BY <1>1 DEF CpuOut, CpuNext, DrainOut, DrainNext, DrainStates, FillStates, If,
              Aligned, OddWord, Partial, Strobes, Port32, Port16, Waiting
<1>2. CASE s \in FillStates
  BY <1>2 DEF CpuOut, CpuNext, FillOut, FillNext, DrainStates, FillStates, If,
              Fill, FillLow, Port32, Port16, Waiting
<1>3. CASE s \notin DrainStates \cup FillStates
  BY <1>3 DEF CpuOut, IdleOut, If, DrainStates, FillStates
<1>4. QED
  BY <1>1, <1>2, <1>3

(* Where it decides what to do next, it steps neither.                     *)
LEMMA NoCountStates ==
  ASSUME NEW i
  PROVE  /\ {"INCFIFO", "DECFIFO"} \cap CpuOut("s15", i) = {}
         /\ {"INCFIFO", "DECFIFO"} \cap CpuOut("s35", i) = {}
BY DEF CpuOut, DrainOut, FillOut, DrainStates, FillStates, Aligned, Partial, Fill, If

(* What CpuRegistered adds to the outputs of the table.                    *)
LEMMA Registered ==
  ASSUME NEW out, NEW ri \in BOOLEAN, NEW rd \in BOOLEAN
  PROVE  /\ "INCFIFO" \in CpuRegistered(out, ri, rd)
              <=> "INCFIFO" \in out \/ (ri /\ "DECFIFO" \notin out)
         /\ "DECFIFO" \in CpuRegistered(out, ri, rd)
              <=> "DECFIFO" \in out \/ (rd /\ "INCFIFO" \notin out)
         /\ \A x : x \notin {"INCFIFO", "DECFIFO", "INCNO"} =>
              (x \in CpuRegistered(out, ri, rd) <=> x \in out)
BY DEF CpuRegistered, If

(* SCSI_SM asks for the count in the last state of a byte, and starts a    *)
(* byte only on a request.                                                 *)
LEMMA ScsiTable ==
  ASSUME NEW s, NEW j
  PROVE  /\ "RIFIFO" \in ScsiOut(s, j) => ScsiNext(s, j) = "S2F_4"
         /\ "RDFIFO" \in ScsiOut(s, j) => ScsiNext(s, j) = "F2S_4"
         /\ ScsiNext(s, j) \in {"S2F_1", "F2S_1"} => "DACK" \in ScsiOut(s, j)
         /\ "DACK" \in ScsiOut(s, j) => s \in {"S2F_1", "F2S_1"} \/ j.dreq
         /\ ScsiNext("S2F_4", j) = "IDLE_DMA_RD"
         /\ ScsiNext("F2S_4", j) = "IDLE_DMA_WR"
BY DEF ScsiOut, ScsiNext, LongwordDone, When, START_S2F, START_F2S

-------------------------------------------------------------------------------
(* 2.  The FIFO count requests.                                            *)

(* A request is raised in the last state of a byte and is pending no       *)
(* longer than that, unless CPU_SM steps the count the other way in that   *)
(* very clock: then it is answered in the next, from s15 or s35, where     *)
(* CPU_SM steps nothing itself.  So the next byte, four clocks away, never *)
(* finds one pending, and there are never two.                             *)
RequestInv ==
  /\ RIFIFO_o \in BOOLEAN /\ RDFIFO_o \in BOOLEAN
  /\ "RIFIFO" \in sout => sst = "S2F_4"
  /\ "RDFIFO" \in sout => sst = "F2S_4"
  /\ RIFIFO_o => \/ sst = "S2F_4" /\ edge # "CLK135+"
                 \/ sst = "IDLE_DMA_RD" /\ cst = "s15"
  /\ RDFIFO_o => \/ sst = "F2S_4" /\ edge # "CLK135+"
                 \/ sst = "IDLE_DMA_WR" /\ cst = "s35"
  /\ CountOneWay

(* Reset leaves no request of either kind.                                 *)
LEMMA RequestInit == Init => RequestInv
BY DEF Init, CpuInit, ScsiInit, RequestInv, CountOneWay

(* Every edge keeps the requests of SCSI_SM apart from their answers.      *)
LEMMA RequestNext == RequestInv /\ [Next]_vars => RequestInv'
<1> SUFFICES ASSUME RequestInv, [Next]_vars
             PROVE  RequestInv'
  OBVIOUS
<1>1. CASE Clk90Rise
  <2> DEFINE out == CpuOut(cst, CpuIn)
  <2>1. /\ cst' = CpuNext(cst, CpuIn)
        /\ cout' = CpuRegistered(out, RIFIFO_o, RDFIFO_o)
        /\ sst' = ScsiNext(sst, ScsiIn)
        /\ sout' = ScsiOut(sst, ScsiIn)
        /\ RIFIFO_o' = (RIFIFO_o /\ "INCFIFO" \notin cout')
        /\ RDFIFO_o' = (RDFIFO_o /\ "DECFIFO" \notin cout')
        /\ edge' = "CLK135+"
    BY <1>1 DEF Clk90Rise, At, CpuPosedge90, ScsiPosedge90
  <2>2. /\ "INCFIFO" \in cout' <=> "INCFIFO" \in out \/ (RIFIFO_o /\ "DECFIFO" \notin out)
        /\ "DECFIFO" \in cout' <=> "DECFIFO" \in out \/ (RDFIFO_o /\ "INCFIFO" \notin out)
    BY <2>1, Registered DEF RequestInv
  <2>3. ~({"INCFIFO", "DECFIFO"} \subseteq out)
    BY CountStates
  <2>4. CountOneWay'
    BY <2>2, <2>3 DEF RequestInv, CountOneWay
  <2>5. RIFIFO_o' => sst' = "IDLE_DMA_RD" /\ cst' = "s15"
    <3> SUFFICES ASSUME RIFIFO_o, "INCFIFO" \notin cout'
                 PROVE  sst' = "IDLE_DMA_RD" /\ cst' = "s15"
      BY <2>1
    <3>1. "DECFIFO" \in out
      BY <2>2
    <3>2. cst # "s15" /\ cst' = "s15"
      BY <2>1, <3>1, CountStates, NoCountStates
    <3>3. sst = "S2F_4"
      BY <3>2 DEF RequestInv
    <3>4. QED
      BY <2>1, <3>2, <3>3, ScsiTable
  <2>6. RDFIFO_o' => sst' = "IDLE_DMA_WR" /\ cst' = "s35"
    <3> SUFFICES ASSUME RDFIFO_o, "DECFIFO" \notin cout'
                 PROVE  sst' = "IDLE_DMA_WR" /\ cst' = "s35"
      BY <2>1
    <3>1. "INCFIFO" \in out
      BY <2>2
    <3>2. cst # "s35" /\ cst' = "s35"
      BY <2>1, <3>1, CountStates, NoCountStates
    <3>3. sst = "F2S_4"
      BY <3>2 DEF RequestInv
    <3>4. QED
      BY <2>1, <3>2, <3>3, ScsiTable
  <2>7. QED
    BY <2>1, <2>4, <2>5, <2>6, ScsiTable DEF RequestInv
<1>2. CASE Clk135Rise
  BY <1>2 DEF Clk135Rise, At, CpuPosedge135, ScsiPosedge135, RequestInv, CountOneWay
<1>3. CASE ClkRise
  BY <1>3 DEF ClkRise, At, cpuVars, scsiVars, scsiReqVars, RequestInv, CountOneWay
<1>4. CASE ClkFall
  BY <1>4 DEF ClkFall, At, CpuNegedge, ScsiNegedge, scsiReqVars, RequestInv, CountOneWay
<1>5. CASE Clk90Fall
  BY <1>5 DEF Clk90Fall, At, cpuVars, scsiVars, scsiReqVars, RequestInv, CountOneWay
<1>6. CASE Clk135Fall
  BY <1>6 DEF Clk135Fall, At, cpuVars, ScsiNegedge135, scsiReqVars, RequestInv, CountOneWay
<1>7. CASE UNCHANGED vars
  BY <1>7 DEF vars, cpuVars, scsiVars, scsiReqVars, RequestInv, CountOneWay
<1>8. QED
  BY <1>1, <1>2, <1>3, <1>4, <1>5, <1>6, <1>7 DEF Next

(* RequestInv holds of every reachable state.                              *)
LEMMA RequestInvariant == Spec => []RequestInv
BY RequestInit, RequestNext, PTL DEF Spec

(* "Keeps the 2 state machines from inc'ing & dec'ing the counter at the   *)
(* same time" (CPU_SM_INTERNALS.v:620): INCFIFO and DECFIFO are never      *)
(* registered together, whatever the memory, the chip and the CPU do.      *)
THEOREM CountOneWayHolds == Spec => []CountOneWay
<1>1. RequestInv => CountOneWay
  BY DEF RequestInv
<1>2. QED
  BY <1>1, RequestInvariant, PTL

(* SCSI_SM never raises RIFIFO or RDFIFO over a request of the same kind   *)
(* that CPU_SM has not answered (SCSI_SM.v:161): none is lost that way.    *)
THEOREM RequestNotOverrunHolds == Spec => []RequestNotOverrun
<1>1. RequestInv => RequestNotOverrun
  BY DEF RequestInv, RequestNotOverrun
<1>2. QED
  BY <1>1, RequestInvariant, PTL

-------------------------------------------------------------------------------
(* 3.  The bus.                                                            *)

NotMaster == {"s0", "s1", "s20", "s21"}

(* CPU_SM holds BGACK from the state after its grant up to letgo, and has  *)
(* dropped its strobes when it gets there.                                 *)
LEMMA MasterTable ==
  ASSUME NEW s \in CpuStates, NEW i
  PROVE  LET out == CpuOut(s, i)
             t   == CpuNext(s, i)
         IN  /\ "BGACK" \in out <=> t \notin NotMaster
             /\ "PAS" \in out => "BGACK" \in out /\ t # "letgo"
             /\ s \in NotMaster /\ "BGACK" \in out => Granted(i)
<1>1. CASE s \in DrainStates
  BY <1>1 DEF CpuOut, CpuNext, DrainOut, DrainNext, DrainStates, FillStates, If,
              Aligned, OddWord, Partial, Strobes, Port32, Port16, Waiting, NotMaster
<1>2. CASE s \in FillStates
  BY <1>2 DEF CpuOut, CpuNext, FillOut, FillNext, DrainStates, FillStates, If,
              Fill, FillLow, Port32, Port16, Waiting, NotMaster
<1>3. CASE s \in {"s0", "letgo"}
  BY <1>3 DEF CpuOut, CpuNext, IdleOut, IdleNext, If, DrainStates, FillStates, NotMaster
<1>4. QED
  BY <1>1, <1>2, <1>3 DEF CpuStates

(* The grant CPU_SM acts on was sampled with no cycle on the bus, and the  *)
(* CPU starts none after it has granted the bus: so the sample is still    *)
(* good a clock later, when it is used.                                    *)
BusInv ==
  /\ cst \in CpuStates
  /\ OWN <=> cst \notin NotMaster
  /\ PAS => OWN /\ cst # "letgo"
  /\ edge \in {"CLK90-", "CLK135-", "CLK+", "CLK90+"} => (AS_O <=> PAS)
  /\ AS_O => OWN
  /\ edge = "CLK-" => (cBGRANT <=> bg)
  /\ cBGRANT /\ cCYCLEDONE => ~CpuAS
  /\ OWN => ~CpuAS

(* Nobody is master after reset but the CPU.                               *)
LEMMA BusInit == Init => BusInv
BY DEF Init, CpuInit, MachineInit, BusInv, OWN, PAS, CpuAS, NotMaster, CpuStates

(* next_state is one of the states of CPU_SM.                              *)
LEMMA NextStates ==
  ASSUME NEW s \in CpuStates, NEW i
  PROVE  CpuNext(s, i) \in CpuStates
<1>1. CASE s \in DrainStates
  BY <1>1 DEF CpuNext, DrainNext, DrainStates, FillStates, CpuStates
<1>2. CASE s \in FillStates
  BY <1>2 DEF CpuNext, FillNext, DrainStates, FillStates, CpuStates
<1>3. CASE s \in {"s0", "letgo"}
  BY <1>3 DEF CpuNext, IdleNext, DrainStates, FillStates, CpuStates
<1>4. QED
  BY <1>1, <1>2, <1>3 DEF CpuStates

(* The CPU starts a cycle only with the bus neither granted nor owned.     *)
LEMMA CpuStarts ==
  ASSUME NEW own, NEW dack, NEW dsack, NEW fe,
         CpuBus(own, dack, dsack, fe) \/ StartTransfer
  PROVE  ~CpuAS /\ CpuAS' => ~own /\ ~bg
BY DEF CpuBus, Interrupt, StartCycle, SeeDsack, EndCycle, CpuRests, StartTransfer,
       BusFree, CpuAS, cpuBusVars

(* Every edge keeps the mastership of the bus with one party.              *)
LEMMA BusNext == RequestInv /\ BusInv /\ [Next]_vars => BusInv'
<1> SUFFICES ASSUME RequestInv, BusInv, [Next]_vars
             PROVE  BusInv'
  OBVIOUS
<1>1. CASE Clk90Rise
  <2> DEFINE out == CpuOut(cst, CpuIn)
  <2>1. /\ cst' = CpuNext(cst, CpuIn)
        /\ cout' = CpuRegistered(out, RIFIFO_o, RDFIFO_o)
        /\ edge = "CLK90+" /\ edge' = "CLK135+"
        /\ UNCHANGED <<AS_O, cBGRANT, cCYCLEDONE, cpu, bg>>
    BY <1>1 DEF Clk90Rise, At, CpuPosedge90, cpuSyncVars, pinVars, cpuBusVars, arbiterVars
  <2>2. /\ OWN' <=> "BGACK" \in out
        /\ PAS' <=> "PAS" \in out
    BY <2>1, Registered DEF RequestInv, OWN, PAS
  <2>3. /\ "BGACK" \in out <=> cst' \notin NotMaster
        /\ "PAS" \in out => "BGACK" \in out /\ cst' # "letgo"
        /\ cst \in NotMaster /\ "BGACK" \in out => Granted(CpuIn)
        /\ cst' \in CpuStates
    BY <2>1, MasterTable, NextStates DEF BusInv
  <2>4. OWN' => ~CpuAS'
    <3>1. CASE cst \in NotMaster
      BY <3>1, <2>1, <2>2, <2>3 DEF BusInv, Granted, CpuIn, CpuAS
    <3>2. CASE cst \notin NotMaster
      BY <3>2, <2>1 DEF BusInv, CpuAS
    <3>3. QED
      BY <3>1, <3>2
  <2>5. AS_O' => OWN'
    <3> SUFFICES ASSUME AS_O
                 PROVE  "BGACK" \in out
      BY <2>1, <2>2
    <3>1. cst \notin NotMaster /\ cst # "letgo"
      BY <2>1 DEF BusInv
    <3>2. CpuNext(cst, CpuIn) \notin NotMaster
      BY <3>1 DEF BusInv, CpuNext, DrainNext, FillNext, CpuStates, DrainStates, FillStates,
                  NotMaster, Granted
    <3>3. QED
      BY <3>2, <2>1, <2>3
  <2>6. QED
    BY <2>1, <2>2, <2>3, <2>4, <2>5 DEF BusInv, CpuAS
<1>2. CASE Clk135Rise
  <2>1. /\ cCYCLEDONE' = CYCLEDONE /\ cBGRANT' = bg
        /\ edge' = "CLK-"
        /\ UNCHANGED <<cst, cout, AS_O, cpu, bg>>
    BY <1>2 DEF Clk135Rise, At, CpuPosedge135, pinVars, machineVars, cpuBusVars, arbiterVars
  <2>2. cCYCLEDONE' => ~CpuAS'
    BY <2>1 DEF CYCLEDONE, AS_I, CpuAS
  <2>3. QED
    BY <2>1, <2>2 DEF BusInv, OWN, PAS, CpuAS
<1>3. CASE ClkFall
  <2>1. /\ edge = "CLK-" /\ edge' = "CLK90-"
        /\ AS_O' = PAS
        /\ UNCHANGED <<cst, cout, cBGRANT, cCYCLEDONE, bg>>
    BY <1>3 DEF ClkFall, At, CpuNegedge, cpuSyncVars, arbiterVars
  <2>2. ~CpuAS /\ CpuAS' => ~OWN /\ ~bg
    BY <1>3, CpuStarts DEF ClkFall
  <2>3. QED
    BY <2>1, <2>2 DEF BusInv, OWN, PAS
<1>4. CASE ClkRise
  BY <1>4 DEF ClkRise, At, cpuVars, cpuSyncVars, pinVars, cpuBusVars, BusInv, OWN, PAS, CpuAS
<1>5. CASE Clk90Fall
  BY <1>5 DEF Clk90Fall, At, cpuVars, cpuSyncVars, pinVars, machineVars, cpuBusVars,
              arbiterVars, BusInv, OWN, PAS, CpuAS
<1>6. CASE Clk135Fall
  BY <1>6 DEF Clk135Fall, At, cpuVars, cpuSyncVars, pinVars, machineVars, cpuBusVars,
              arbiterVars, BusInv, OWN, PAS, CpuAS
<1>7. CASE UNCHANGED vars
  BY <1>7 DEF vars, cpuVars, cpuSyncVars, pinVars, machineVars, cpuBusVars,
              arbiterVars, BusInv, OWN, PAS, CpuAS
<1>8. QED
  BY <1>1, <1>2, <1>3, <1>4, <1>5, <1>6, <1>7 DEF Next

(* There is one bus master at a time: ReSDMAC drives its address strobe    *)
(* under BGACK only, and takes the bus (OWN, RESDMAC.v:191) only when the  *)
(* cycle of the CPU it sampled as done (CPU_SM.v:210) has no successor.    *)
THEOREM OneMasterHolds == Spec => []OneMaster
<1>1. BusInv => OneMaster
  BY DEF BusInv, OneMaster
<1>2. QED
  BY <1>1, BusInit, BusNext, RequestInvariant, PTL DEF Spec

-------------------------------------------------------------------------------
(* 4.  The SCSI port.                                                      *)

(* The sample of DREQ that starts a byte is good when it is used: the chip *)
(* keeps a request until it is answered, and DMAENA changes at another     *)
(* edge.                                                                   *)
DackInv ==
  /\ left \in Nat
  /\ dreq => left > 0
  /\ sst \in {"S2F_1", "F2S_1"} => DACK
  /\ edge \in {"CLK+", "CLK90+"} /\ CDREQ /\ ~DACK => DREQ

(* DACK is not given at reset.                                             *)
LEMMA DackInit == Init => DackInv
BY DEF Init, ScsiInit, MachineInit, DackInv

(* Every edge keeps DACK an answer to a DREQ.                              *)
LEMMA DackNext == DackInv /\ [Next]_vars => DackInv'
<1> SUFFICES ASSUME DackInv, [Next]_vars
             PROVE  DackInv'
  OBVIOUS
<1>1. CASE ClkRise
  BY <1>1 DEF ClkRise, At, ChipRequests, scsiVars, scsiSyncVars, regVars, DackInv, DACK, DREQ
<1>2. CASE Clk90Rise
  <2>1. /\ sst' = ScsiNext(sst, ScsiIn)
        /\ sout' = ScsiOut(sst, ScsiIn)
        /\ edge' = "CLK135+"
    BY <1>2 DEF Clk90Rise, At, ScsiPosedge90
  <2>2. ChipStrobes(DACK /\ "DACK" \notin sout', "WE" \in sout, TX_LATCH,
                     "SCSI_CS" \in sout' /\ "SCSI_CS" \notin sout)
    BY <1>2 DEF Clk90Rise
  <2>3. /\ left' = IF DACK /\ "DACK" \notin sout' /\ left > 0 THEN left - 1 ELSE left
        /\ dreq' => dreq /\ ~(DACK /\ "DACK" \notin sout' /\ left <= 1)
    BY <2>2, Zenon DEF ChipStrobes
  <2>4. left' \in Nat /\ (dreq' => left' > 0)
    BY <2>3 DEF DackInv
  <2>5. sst' \in {"S2F_1", "F2S_1"} => DACK'
    BY <2>1, ScsiTable DEF DACK
  <2>6. QED
    BY <2>1, <2>4, <2>5 DEF DackInv
<1>3. CASE Clk135Rise
  BY <1>3 DEF Clk135Rise, At, ScsiPosedge135, machineVars, DackInv, DACK
<1>4. CASE ClkFall
  <2>1. UNCHANGED <<sst, sout>> /\ edge' = "CLK90-"
    BY <1>4 DEF ClkFall, At, ScsiNegedge
  <2>2. UNCHANGED <<dreq, left>> \/ (dreq' = FALSE /\ left' \in Nat)
    BY <1>4, MachineAssumption DEF ClkFall, CpuBus, Interrupt, StartCycle, SeeDsack, EndCycle,
         CpuRests, StartTransfer
  <2>3. QED
    BY <2>1, <2>2 DEF DackInv, DACK
<1>5. CASE Clk90Fall
  BY <1>5 DEF Clk90Fall, At, scsiVars, machineVars, DackInv, DACK
<1>6. CASE Clk135Fall
  BY <1>6 DEF Clk135Fall, At, ScsiNegedge135, regVars, machineVars, DackInv, DACK, DREQ
<1>7. CASE UNCHANGED vars
  BY <1>7 DEF vars, scsiVars, scsiSyncVars, regVars, machineVars, DackInv, DACK, DREQ
<1>8. QED
  BY <1>1, <1>2, <1>3, <1>4, <1>5, <1>6, <1>7 DEF Next

(* DACK is raised only to a DREQ that is still there, with DMA enabled and *)
(* a byte left to move, although SCSI_SM decides on a sample of DREQ half  *)
(* a clock old (SCSI_SM.v:115).                                            *)
THEOREM DackAnswersDreqHolds == Spec => DackAnswersDreq
<1>1. DackInv /\ [Next]_vars => [~DACK /\ "DACK" \in sout' => DREQ /\ left > 0]_vars
  <2> SUFFICES ASSUME DackInv, [Next]_vars, ~DACK, "DACK" \in sout'
               PROVE  DREQ /\ left > 0
    OBVIOUS
  <2>1. CASE Clk90Rise
    <3>1. edge = "CLK90+" /\ sout' = ScsiOut(sst, ScsiIn)
      BY <2>1 DEF Clk90Rise, At, ScsiPosedge90
    <3>2. CDREQ
      BY <3>1, ScsiTable DEF DackInv, ScsiIn
    <3>3. QED
      BY <3>1, <3>2 DEF DackInv, DREQ
  <2>2. CASE sout' = sout
    BY <2>2 DEF DACK
  <2>3. QED
    BY <2>1, <2>2 DEF Next, ClkRise, Clk135Rise, ClkFall, Clk90Fall, Clk135Fall, vars,
         scsiVars, ScsiPosedge135, ScsiNegedge, ScsiNegedge135
<1>2. QED
  BY <1>1, DackInit, DackNext, PTL DEF Spec, DackAnswersDreq

-------------------------------------------------------------------------------
(* 5.  Types.                                                              *)

(* The outputs the machines drive are outputs they have.                   *)
LEMMA OutputTypes ==
  /\ \A s, i : CpuOut(s, i) \subseteq CpuOutputs
  /\ \A out, ri, rd : out \subseteq CpuOutputs => CpuRegistered(out, ri, rd) \subseteq CpuOutputs
  /\ \A s, j : ScsiOut(s, j) \subseteq ScsiOutputs
  /\ \A s, j : ScsiNext(s, j) \in ScsiStates
<1>1. ASSUME NEW s, NEW i PROVE CpuOut(s, i) \subseteq CpuOutputs
  <2>1. CASE s \in DrainStates
    BY <2>1 DEF CpuOut, DrainOut, DrainStates, FillStates, CpuOutputs, If,
                Aligned, OddWord, Partial, Strobes
  <2>2. CASE s \in FillStates
    BY <2>2 DEF CpuOut, FillOut, DrainStates, FillStates, CpuOutputs, If, Fill, FillLow
  <2>3. CASE s \notin DrainStates \cup FillStates
    BY <2>3 DEF CpuOut, IdleOut, CpuOutputs, If, DrainStates, FillStates
  <2>4. QED
    BY <2>1, <2>2, <2>3
<1>2. ASSUME NEW out, NEW ri, NEW rd, out \subseteq CpuOutputs
      PROVE  CpuRegistered(out, ri, rd) \subseteq CpuOutputs
  BY <1>2 DEF CpuRegistered, CpuOutputs, If
<1>3. ASSUME NEW s, NEW j PROVE ScsiOut(s, j) \subseteq ScsiOutputs
  BY DEF ScsiOut, LongwordDone, ScsiOutputs, When
<1>4. ASSUME NEW s, NEW j PROVE ScsiNext(s, j) \in ScsiStates
  BY DEF ScsiNext, ScsiStates
<1>5. QED
  BY <1>1, <1>2, <1>3, <1>4

(* A memory cycle stays inside the port: no lane beyond D0 is asked for.   *)
LEMMA CycleInPort ==
  ASSUME TypeOK, NEW toMemory, NEW size1
  PROVE  /\ MemOffset(toMemory) \in 0..3
         /\ CycleBytes(toMemory, size1) \in Nat
         /\ MemOffset(toMemory) + CycleBytes(toMemory, size1) <= 4
<1> DEFINE pos == (IF xfer.a1 THEN 2 ELSE 0) + (IF toMemory THEN Len(sink) ELSE mpos)
<1>1. pos \in Nat
  <2>1. sink \in Seq(Int \cup {CpuByte}) /\ mpos \in Nat
    BY DEF TypeOK, MachineTypeOK
  <2>2. Len(sink) \in Nat
    BY <2>1, LenProperties
  <2>3. (IF xfer.a1 THEN 2 ELSE 0) \in Nat /\ (IF toMemory THEN Len(sink) ELSE mpos) \in Nat
    BY <2>1, <2>2
  <2>4. QED
    BY <2>3
<1>2. /\ Width \in {2, 4}
      /\ MemOffset(toMemory) = pos % Width
  BY DEF Width, MemOffset
<1> HIDE DEF pos
<1>3. pos % 2 \in 0..1 /\ pos % 4 \in 0..3
  BY <1>1
<1>4. MemOffset(toMemory) \in 0..(Width - 1)
  BY <1>2, <1>3
<1>5. QED
  BY <1>2, <1>4 DEF CycleBytes

(* The longwords on the buses hold bytes of the transfer or nothing.       *)
LEMMA PathTypes ==
  ASSUME TypeOK
  PROVE  /\ FIFO_OD \in [Lanes -> Int]
         /\ DATA_IO \in [Lanes -> Int]
         /\ FIFO_ID \in [Lanes -> Int]
         /\ \A out, s2cpu : DATA_O(out, s2cpu) \in [Lanes -> Int]
<1> USE DEF Lanes
<1>1. FIFO_OD \in [Lanes -> Int]
  BY DEF TypeOK, FifoTypeOK, FIFO_OD
<1>2. ASSUME NEW out, NEW s2cpu PROVE DATA_O(out, s2cpu) \in [Lanes -> Int]
  BY DEF DATA_O, None, Half, TypeOK, PathTypeOK
<1>3. DATA_IO \in [Lanes -> Int]
  <2>1. mpos \in Nat
    BY DEF TypeOK, MachineTypeOK
  <2>2. ASSUME NEW size1 PROVE MemData(size1) \in [Lanes -> Int]
    <3>1. MemOffset(FALSE) \in 0..3 /\ CycleBytes(FALSE, size1) \in Nat
      BY CycleInPort, Zenon
    <3>2. PICK off \in 0..3, n \in Nat :
             MemData(size1) = [l \in 1..4 |-> LET k == l - off
                                             IN  IF k \in 1..n THEN mpos + k ELSE 0]
      BY <3>1, Zenon DEF MemData
    <3>3. QED
      BY <2>1, <3>2
  <2>3. DATA_O(cout, "S2CPU" \in sout) \in [Lanes -> Int]
    BY <1>2
  <2>4. (IF AS_O /\ term # "none" /\ ~DMADIR THEN MemData("SIZE1" \in cout) ELSE Zero)
          \in [Lanes -> Int]
    BY <2>2 DEF Zero
  <2>5. QED
    BY <2>3, <2>4 DEF DATA_IO
<1>4. FIFO_ID \in [Lanes -> Int]
  <2>1. ChipByte \in Nat
    BY DEF ChipByte, TypeOK, MachineTypeOK
  <2>2. CPU_OD(cout, "CPU2S" \in sout, DATA_IO) \in [Lanes -> Int]
    BY <1>3 DEF CPU_OD, None, Half, TypeOK, PathTypeOK
  <2>3. QED
    BY <2>1, <2>2 DEF FIFO_ID
<1>5. QED
  BY <1>1, <1>2, <1>3, <1>4

(* The FIFO has at least two longwords.                                    *)
LEMMA DepthType == DEPTH \in Nat /\ DEPTH >= 2
<1>1. DEPTH \in Nat \ {0, 1}
  BY DepthAssumption, Zenon
<1>2. QED
  BY <1>1

(* Reset gives every register a value of its type.                         *)
LEMMA TypeInit == Init => TypeOK
<1> SUFFICES ASSUME Init PROVE TypeOK
  OBVIOUS
<1>1. CpuTypeOK /\ ScsiTypeOK
  BY DEF Init, CpuInit, ScsiInit, CpuTypeOK, ScsiTypeOK, CpuStates, ScsiStates
<1>2. FifoTypeOK(Int)
  BY DepthType DEF Init, FifoInit, FifoTypeOK, Zero
<1>3. RegTypeOK /\ PathTypeOK
  <2>1. 0 \in 0..3 /\ 0 \in Int /\ None \in [Half -> Int]
    BY DEF None
  <2>2. QED
    BY <2>1, Zenon DEF Init, RegInit, RegTypeOK, PathInit, PathTypeOK
<1>4. MachineTypeOK(Int \cup {CpuByte})
  <2>1. sink \in Seq(Int \cup {CpuByte})
    BY EmptySeq DEF Init, MachineInit
  <2>2. port \in {"sterm", "d32", "d16"}
    BY MachineAssumption DEF Init, MachineInit
  <2>3. 0 \in 0..2 /\ 0 \in Nat /\ xfer \in [dir : BOOLEAN, a1 : BOOLEAN, len : Nat]
    BY DEF Init, MachineInit
  <2>4. QED
    BY <2>1, <2>2, <2>3, Zenon DEF Init, MachineInit, MachineTypeOK, Steps
<1>5. QED
  BY <1>1, <1>2, <1>3, <1>4 DEF Init, TypeOK, Edges

(* The bytes memory takes in a cycle, for MemCycleEnds.                    *)
LEMMA CycleTypes ==
  ASSUME TypeOK, NEW over, NEW toMemory, NEW size1, NEW data \in [Lanes -> Int],
         MemCycleEnds(over, toMemory, size1, data)
  PROVE  sink' \in Seq(Int \cup {CpuByte}) /\ mpos' \in Nat
<1> DEFINE n     == CycleBytes(toMemory, size1)
           taken == [k \in 1..n |-> data[MemOffset(TRUE) + k]]
<1>1. sink' = (IF over /\ toMemory THEN sink \o taken ELSE sink)
  BY DEF MemCycleEnds
<1>2. mpos' = (IF over /\ ~toMemory /\ mpos + n <= MemBytes THEN mpos + n ELSE mpos)
  BY DEF MemCycleEnds
<1>3. sink \in Seq(Int \cup {CpuByte}) /\ mpos \in Nat
  BY DEF TypeOK, MachineTypeOK
<1>4. n \in Nat
  BY CycleInPort
<1>5. ASSUME toMemory PROVE taken \in Seq(Int \cup {CpuByte})
  <2>1. MemOffset(TRUE) = MemOffset(toMemory)
    BY <1>5 DEF MemOffset
  <2>2. PICK off \in 0..3 : off + n <= 4 /\ taken = [k \in 1..n |-> data[off + k]]
    BY <2>1, CycleInPort, Zenon
  <2> HIDE DEF n, taken
  <2>3. taken \in [1..n -> Int \cup {CpuByte}]
    BY <1>4, <2>2 DEF Lanes
  <2>4. QED
    BY <1>4, <2>3, SeqDef
<1> HIDE DEF n, taken
<1>6. sink' \in Seq(Int \cup {CpuByte})
  BY <1>1, <1>3, <1>5, ConcatProperties
<1>7. mpos' \in Nat
  BY <1>2, <1>3, <1>4
<1>8. QED
  BY <1>6, <1>7

(* The types of the machine around the chip depend on its own variables.   *)
LEMMA MachineSame ==
  ASSUME MachineTypeOK(Int \cup {CpuByte}), UNCHANGED machineVars
  PROVE  MachineTypeOK(Int \cup {CpuByte})'
<1>1. /\ UNCHANGED <<step, xfer, cpu, reg, brSeen, bg>>
      /\ UNCHANGED <<port, term, mpos, dreq, left, sink, strobes>>
  BY DEF machineVars, driverVars, cpuBusVars, arbiterVars
<1>2. QED
  BY <1>1 DEF MachineTypeOK

(* One lemma for each component that an edge changes.                      *)
LEMMA ClkRiseTypes == TypeOK /\ ClkRise => TypeOK'
<1> SUFFICES ASSUME TypeOK, ClkRise PROVE TypeOK'
  OBVIOUS
<1>1. PathTypeOK'
  <2>1. UD_LATCH' \in [Half -> Int] /\ LD_LATCH' \in [Half -> Int]
    BY PathTypes DEF ClkRise, PathPosedge, TypeOK, PathTypeOK, Half, Lanes
  <2>2. QED
    BY <2>1, Zenon DEF ClkRise, PathPosedge, TypeOK, PathTypeOK
<1>2. MachineTypeOK(Int \cup {CpuByte})'
  <2>1. brSeen' \in BOOLEAN /\ bg' \in BOOLEAN
    <3>1. brSeen' \in BOOLEAN
      BY DEF ClkRise, Arbitrate, BREQ
    <3>2. bg' \in BOOLEAN
      BY Zenon DEF ClkRise, Arbitrate, TypeOK, MachineTypeOK
    <3>3. QED
      BY <3>1, <3>2
  <2>2. term' \in {"none", "sterm", "d32", "d16"}
    BY DEF ClkRise, MemResponds, TypeOK, MachineTypeOK
  <2>3. dreq' \in BOOLEAN
    BY DEF ClkRise, ChipRequests, TypeOK, MachineTypeOK
  <2>4. QED
    BY <2>1, <2>2, <2>3, Zenon DEF ClkRise, driverVars, cpuBusVars, TypeOK, MachineTypeOK
<1>3. CpuTypeOK'
  BY Zenon DEF ClkRise, cpuVars, cpuSyncVars, CpuTypeOK, TypeOK
<1>4. ScsiTypeOK'
  BY Zenon DEF ClkRise, scsiVars, scsiSyncVars, scsiReqVars, ScsiTypeOK, TypeOK
<1>5. FifoTypeOK(Int)' /\ RegTypeOK'
  BY Zenon DEF ClkRise, fifoVars, FifoTypeOK, regVars, RegTypeOK, TypeOK
<1>6. QED
  BY <1>1, <1>2, <1>3, <1>4, <1>5, Zenon DEF ClkRise, At, pinVars, Edges, TypeOK

(* The types, edge by edge: posedge CLK90.                                 *)
LEMMA Clk90RiseTypes == TypeOK /\ Clk90Rise => TypeOK'
<1> SUFFICES ASSUME TypeOK, Clk90Rise PROVE TypeOK'
  OBVIOUS
<1>1. CpuTypeOK'
  <2>1. cst' \in CpuStates
    BY NextStates DEF Clk90Rise, CpuPosedge90, TypeOK, CpuTypeOK
  <2>2. cout' \subseteq CpuOutputs
    BY OutputTypes, Zenon DEF Clk90Rise, CpuPosedge90
  <2>3. QED
    BY <2>1, <2>2, Zenon DEF Clk90Rise, CpuPosedge90, cpuSyncVars, TypeOK, CpuTypeOK
<1>2. ScsiTypeOK'
  BY OutputTypes, Zenon DEF Clk90Rise, ScsiPosedge90, scsiSyncVars, TypeOK, ScsiTypeOK
<1>3. FifoTypeOK(Int)'
  <2>1. \A lanes : Stored(lanes, FIFO_ID) \in [0..(DEPTH - 1) -> [Lanes -> Int]]
    BY PathTypes DEF Stored, TypeOK, FifoTypeOK, Lanes
  <2>2. [p \in 0..(DEPTH - 1) |-> Zero] \in [0..(DEPTH - 1) -> [Lanes -> Int]]
    BY DEF Zero
  <2>3. QED
    BY <2>1, <2>2, Zenon DEF Clk90Rise, FifoPosedge90, TypeOK, FifoTypeOK
<1>4. RegTypeOK'
  <2>1. TERM_COUNTER' \in 0..3
    BY DEF Clk90Rise, RegPosedge90, TypeOK, RegTypeOK
  <2>2. QED
    BY <2>1, Zenon DEF Clk90Rise, RegPosedge90, TypeOK, RegTypeOK
<1>5. PathTypeOK'
  BY Zenon DEF Clk90Rise, PathPosedge90, TypeOK, PathTypeOK
<1>6. MachineTypeOK(Int \cup {CpuByte})'
  <2>1. PICK over, toChip, sel :
          /\ left' = IF over /\ left > 0 THEN left - 1 ELSE left
          /\ sink' = IF over /\ toChip THEN Append(sink, TX_LATCH) ELSE sink
          /\ strobes' = IF sel /\ strobes < 2 THEN strobes + 1 ELSE strobes
    BY Zenon DEF Clk90Rise, ChipStrobes
  <2>2. /\ left \in Nat
        /\ sink \in Seq(Int \cup {CpuByte})
        /\ strobes \in 0..2
        /\ TX_LATCH \in Int \cup {CpuByte}
    BY Zenon DEF TypeOK, MachineTypeOK, PathTypeOK
  <2>3. left' \in Nat /\ strobes' \in 0..2
    BY <2>1, <2>2
  <2>4. sink' \in Seq(Int \cup {CpuByte})
    BY <2>1, <2>2, AppendProperties
  <2>5. dreq' \in BOOLEAN
    BY Zenon DEF Clk90Rise, ChipStrobes
  <2>6. QED
    BY <2>3, <2>4, <2>5, ZenonT(30) DEF Clk90Rise, driverVars, cpuBusVars, arbiterVars, TypeOK,
         MachineTypeOK
<1>7. QED
  BY <1>1, <1>2, <1>3, <1>4, <1>5, <1>6, Zenon DEF Clk90Rise, At, pinVars, Edges, TypeOK

(* posedge CLK135.                                                         *)
LEMMA Clk135RiseTypes == TypeOK /\ Clk135Rise => TypeOK'
<1> SUFFICES ASSUME TypeOK, Clk135Rise PROVE TypeOK'
  OBVIOUS
<1>1. CpuTypeOK'
  BY Zenon DEF Clk135Rise, CpuPosedge135, DREQ, CYCLEDONE, TypeOK, CpuTypeOK, MachineTypeOK,
       RegTypeOK
<1>2. ScsiTypeOK'
  BY Zenon DEF Clk135Rise, ScsiPosedge135, scsiSyncVars, TypeOK, ScsiTypeOK
<1>3. FifoTypeOK(Int)'
  <2>1. \A p \in 0..(DEPTH - 1) : (p + 1) % DEPTH \in 0..(DEPTH - 1)
    BY DepthType
  <2>2. 0 \in 0..(DEPTH - 1)
    BY DepthType
  <2>3. QED
    BY <2>1, <2>2, Zenon DEF Clk135Rise, FifoPosedge135, TypeOK, FifoTypeOK
<1>4. RegTypeOK' /\ PathTypeOK'
  BY Zenon DEF Clk135Rise, regVars, pathVars, RegTypeOK, PathTypeOK, TypeOK
<1>5. MachineTypeOK(Int \cup {CpuByte})'
  BY MachineSame, Zenon DEF Clk135Rise, TypeOK
<1>6. QED
  BY <1>1, <1>2, <1>3, <1>4, <1>5, Zenon DEF Clk135Rise, At, pinVars, Edges, TypeOK

(* negedge SCLK.                                                           *)
LEMMA ClkFallTypes == TypeOK /\ ClkFall => TypeOK'
<1> SUFFICES ASSUME TypeOK, ClkFall PROVE TypeOK'
  OBVIOUS
<1>1. CpuTypeOK'
  BY Zenon DEF ClkFall, CpuNegedge, cpuSyncVars, TypeOK, CpuTypeOK
<1>2. ScsiTypeOK'
  BY Zenon DEF ClkFall, ScsiNegedge, scsiSyncVars, scsiReqVars, TypeOK, ScsiTypeOK
<1>3. FifoTypeOK(Int)'
  <2>1. \A inc, dec : NextCount(COUNT, inc, dec) \in 0..DEPTH
    BY DepthType DEF NextCount, TypeOK, FifoTypeOK
  <2>2. 0 \in 0..DEPTH
    BY DepthType
  <2>3. QED
    BY <2>1, <2>2, Zenon DEF ClkFall, FifoNegedge, TypeOK, FifoTypeOK
<1>4. RegTypeOK'
  <2>1. 0 \in 0..3
    OBVIOUS
  <2>2. QED
    BY <2>1, Zenon DEF ClkFall, RegNegedge, TypeOK, RegTypeOK
<1>5. PathTypeOK'
  BY Zenon DEF ClkFall, PathNegedge, TypeOK, PathTypeOK
<1>6. MachineTypeOK(Int \cup {CpuByte})'
  <2>1. CASE StartTransfer
    <3>1. xfer' \in [dir : BOOLEAN, a1 : BOOLEAN, len : Nat] /\ left' \in Nat
      <4>1. PICK t \in Transfers : xfer' = t /\ left' = t.len
        BY <2>1 DEF StartTransfer
      <4>2. t \in [dir : BOOLEAN, a1 : BOOLEAN, len : Nat]
        BY MachineAssumption
      <4>3. QED
        BY <4>1, <4>2
    <3>2. port' \in {"sterm", "d32", "d16"}
      BY <2>1, MachineAssumption DEF StartTransfer
    <3>3. mpos' \in Nat /\ sink' \in Seq(Int \cup {CpuByte})
      BY <2>1, EmptySeq DEF StartTransfer
    <3>4. QED
      BY <2>1, <3>1, <3>2, <3>3, Zenon DEF StartTransfer, ClkFall, cpuBusVars, arbiterVars,
           Steps, TypeOK, MachineTypeOK
  <2>2. CASE ~StartTransfer
    <3>1. /\ CpuBus(OWN, DACK, RegDsack, FE)
          /\ MemCycleEnds(AS_O /\ ~PAS /\ term # "none", DMADIR, "SIZE1" \in cout,
                          DATA_O(cout, "S2CPU" \in sout))
      BY <2>2, Zenon DEF ClkFall
    <3>2. sink' \in Seq(Int \cup {CpuByte}) /\ mpos' \in Nat
      BY <3>1, PathTypes, CycleTypes, Zenon
    <3>3. /\ step' \in Steps
          /\ cpu' \in {"idle", "run", "end"}
          /\ reg' \in {"none", "CNTR", "ACR", "ST_DMA", "FLUSH", "ISTR", "CINT", "SP_DMA",
                       "WD_RD", "WD_WR"}
          /\ strobes' \in 0..2
      BY <3>1 DEF CpuBus, Interrupt, StartCycle, SeeDsack, EndCycle, CpuRests, StepAfter, RegOf,
           Steps, driverVars, cpuBusVars, TypeOK, MachineTypeOK
    <3>4. UNCHANGED <<xfer, port, dreq, left>>
      BY <3>1, Zenon DEF CpuBus, Interrupt, StartCycle, SeeDsack, EndCycle, CpuRests, driverVars
    <3>5. QED
      BY <3>2, <3>3, <3>4, Zenon DEF ClkFall, arbiterVars, TypeOK, MachineTypeOK
  <2>3. QED
    BY <2>1, <2>2
<1>7. /\ AS_O' \in BOOLEAN /\ DS_O' \in BOOLEAN /\ LLW' \in BOOLEAN /\ LHW' \in BOOLEAN
      /\ edge' \in Edges
  BY DEF ClkFall, At, PAS, Edges
<1>8. QED
  BY <1>1, <1>2, <1>3, <1>4, <1>5, <1>6, <1>7, Zenon DEF TypeOK

(* negedge CLK90.                                                          *)
LEMMA Clk90FallTypes == TypeOK /\ Clk90Fall => TypeOK'
<1> SUFFICES ASSUME TypeOK, Clk90Fall PROVE TypeOK'
  OBVIOUS
<1>1. CpuTypeOK' /\ ScsiTypeOK'
  BY ZenonT(30) DEF Clk90Fall, cpuVars, cpuSyncVars, scsiVars, scsiSyncVars, scsiReqVars,
       CpuTypeOK, ScsiTypeOK, TypeOK
<1>2. FifoTypeOK(Int)'
  <2>1. /\ \A b \in 0..3 : (b + 1) % 4 \in 0..3
        /\ 0 \in 0..3 /\ 2 \in 0..3
    OBVIOUS
  <2>2. QED
    BY <2>1, Zenon DEF Clk90Fall, FifoNegedge90, TypeOK, FifoTypeOK
<1>3. RegTypeOK'
  <2>1. DirWritten \in BOOLEAN /\ xfer.a1 \in BOOLEAN
    BY DEF DirWritten, TypeOK, MachineTypeOK
  <2>2. QED
    BY <2>1, Zenon DEF Clk90Fall, RegNegedge90, NextENA, NextFLUSH, FIFOEMPTY, TypeOK, RegTypeOK
<1>4. PathTypeOK'
  <2>1. [l \in Half |-> DATA_IO[l]] \in [Half -> Int]
    BY PathTypes DEF Half, Lanes
  <2>2. QED
    BY <2>1, Zenon DEF Clk90Fall, PathNegedge90, TypeOK, PathTypeOK
<1>5. MachineTypeOK(Int \cup {CpuByte})'
  BY MachineSame, Zenon DEF Clk90Fall, TypeOK
<1>6. QED
  BY <1>1, <1>2, <1>3, <1>4, <1>5, Zenon DEF Clk90Fall, At, pinVars, Edges, TypeOK

(* negedge CLK135.                                                         *)
LEMMA Clk135FallTypes == TypeOK /\ Clk135Fall => TypeOK'
<1> SUFFICES ASSUME TypeOK, Clk135Fall PROVE TypeOK'
  OBVIOUS
<1>1. CpuTypeOK'
  BY Zenon DEF Clk135Fall, cpuVars, cpuSyncVars, CpuTypeOK, TypeOK
<1>2. ScsiTypeOK'
  <2>1. WDREGREQ \in BOOLEAN /\ DREQ \in BOOLEAN
    BY DEF WDREGREQ, DREQ
  <2>2. QED
    BY <2>1, Zenon DEF Clk135Fall, ScsiNegedge135, scsiReqVars, TypeOK, ScsiTypeOK
<1>3. PathTypeOK'
  <2>1. FIFO_OD[BYTE_PTR + 1] \in Int
    <3>1. FIFO_OD \in [Lanes -> Int] /\ BYTE_PTR \in 0..3
      BY PathTypes, Zenon DEF TypeOK, FifoTypeOK
    <3>2. QED
      BY <3>1 DEF Lanes
  <2>2. \A a, b : SCSI_DATA_TX(a, b, FIFO_OD, BYTE_PTR) \in Int \cup {CpuByte}
    BY <2>1 DEF SCSI_DATA_TX
  <2>3. QED
    BY <2>2, Zenon DEF Clk135Fall, PathNegedge135, TypeOK, PathTypeOK
<1>4. FifoTypeOK(Int)' /\ RegTypeOK'
  BY Zenon DEF Clk135Fall, fifoVars, FifoTypeOK, regVars, RegTypeOK, TypeOK
<1>5. MachineTypeOK(Int \cup {CpuByte})'
  BY MachineSame, Zenon DEF Clk135Fall, TypeOK
<1>6. QED
  BY <1>1, <1>2, <1>3, <1>4, <1>5, Zenon DEF Clk135Fall, At, pinVars, Edges, TypeOK

(* And no edge at all.                                                     *)
LEMMA StutterTypes == TypeOK /\ UNCHANGED vars => TypeOK'
<1> SUFFICES ASSUME TypeOK, UNCHANGED vars PROVE TypeOK'
  OBVIOUS
<1>1. CpuTypeOK' /\ ScsiTypeOK'
  BY ZenonT(30) DEF vars, cpuVars, cpuSyncVars, scsiVars, scsiSyncVars, scsiReqVars, CpuTypeOK,
       ScsiTypeOK, TypeOK
<1>2. FifoTypeOK(Int)' /\ RegTypeOK' /\ PathTypeOK'
  BY Zenon DEF vars, fifoVars, regVars, pathVars, FifoTypeOK, RegTypeOK, PathTypeOK, TypeOK
<1>3. MachineTypeOK(Int \cup {CpuByte})'
  BY MachineSame, Zenon DEF vars, TypeOK
<1>4. QED
  BY <1>1, <1>2, <1>3, Zenon DEF vars, pinVars, Edges, TypeOK

(* The registers stay in their range and the pointers in the FIFO: the     *)
(* counter never passes DEPTH whatever steps it, and a memory cycle never  *)
(* takes a lane beyond the longword.                                       *)
THEOREM TypesHold == Spec => []TypeOK
<1>1. TypeOK /\ [Next]_vars => TypeOK'
  BY ClkRiseTypes, Clk90RiseTypes, Clk135RiseTypes, ClkFallTypes, Clk90FallTypes,
     Clk135FallTypes, StutterTypes, Zenon DEF Next
<1>2. QED
  BY TypeInit, <1>1, PTL DEF Spec

-------------------------------------------------------------------------------
(* 6.  An access from AS to DSACK.                                         *)

WriteStates == {"C2S_1", "C2S_2", "C2S_3"}
ReadStates  == {"S2C_1", "S2C_2", "S2C_3", "S2C_4"}
Answering   == {"C2S_3", "S2C_4"}              \* where DSACK is pulsed
Answered    == {"C2S_4", "S2C_5"}              \* the clock after
BeforeFall  == {"CLK135+", "CLK-"}

(* The CPU is at a register of the chip.                                   *)
AtChip == CpuAS /\ reg \in ChipRegs

(* The order of the states of an access, and what each clock of it drives. *)
LEMMA AccessTable ==
  ASSUME NEW s, NEW j
  PROVE  LET t   == ScsiNext(s, j)
             out == ScsiOut(s, j)
         IN  /\ t \in WriteStates <=> (s = "CPUREQ" /\ ~j.rw) \/ s \in {"C2S_1", "C2S_2"}
             /\ t \in ReadStates  <=> (s = "CPUREQ" /\ j.rw) \/ s \in {"S2C_1", "S2C_2", "S2C_3"}
             /\ t = "C2S_3" <=> s = "C2S_2"
             /\ t = "S2C_4" <=> s = "S2C_3"
             /\ t = "C2S_4" <=> s = "C2S_3"
             /\ t = "S2C_5" <=> s = "S2C_4"
             /\ t = "CPUREQ" => j.req /\ s \in {"IDLE_DMA_RD", "IDLE_DMA_WR"}
             /\ "SCSI_CS" \in out <=> t \in WriteStates \cup ReadStates \cup Answered
             /\ t \in WriteStates => {"WE", "CPU2S"} \subseteq out /\ "F2S" \notin out
             /\ {"SCSI_CS", "WE"} \subseteq out => t \in WriteStates
             /\ t \in ReadStates \cup {"S2C_5"} => {"RE", "S2CPU"} \subseteq out
BY DEF ScsiOut, ScsiNext, LongwordDone, When, WriteStates, ReadStates, Answered

(* What SCSI_SM drives in each state of an access.                         *)
AccessOutputs ==
  /\ "SCSI_CS" \in sout <=> sst \in WriteStates \cup ReadStates \cup Answered
  /\ sst \in WriteStates => {"WE", "CPU2S"} \subseteq sout /\ "F2S" \notin sout
  /\ {"SCSI_CS", "WE"} \subseteq sout => sst \in WriteStates
  /\ sst \in ReadStates \cup {"S2C_5"} => {"RE", "S2CPU"} \subseteq sout

(* In step: SCSI_SM is in a state of an access only while the CPU is in    *)
(* that cycle and has not seen DSACK; DSACK is up from CLK135+ of C2S_3 or *)
(* S2C_4 to CLK135+ of the next; and SCSI_SM is back where it can start an *)
(* access only when the request of the last one is gone.                   *)
AccessInv ==
  /\ AccessOutputs
  /\ sst \in WriteStates => reg = "WD_WR"
  /\ sst \in ReadStates  => reg = "WD_RD"
  /\ sst = "CPUREQ" => cpu = "run" /\ reg \in {"WD_RD", "WD_WR"} /\ strobes = 0
  /\ sst \in (WriteStates \cup ReadStates) \ Answering => cpu = "run"
  /\ sst \in Answering =>
       /\ cpu = IF edge \in BeforeFall THEN "run" ELSE "end"
       /\ nLS2CPU <=> edge # "CLK135+"
       /\ sst = "S2C_4" /\ edge \notin BeforeFall => RX_LATCH
  /\ sst \in Answered =>
       /\ cpu = IF edge \in BeforeFall THEN "end" ELSE "idle"
       /\ nLS2CPU <=> edge = "CLK135+"
       /\ edge \in BeforeFall =>
            reg = IF sst = "C2S_4" THEN "WD_WR" ELSE "WD_RD"
       /\ sst = "S2C_5" /\ edge \in BeforeFall => RX_LATCH
  /\ sst \in WriteStates \cup ReadStates \/ (sst \in Answered /\ edge \in BeforeFall) =>
       strobes = 1
  /\ sst \notin Answering \cup Answered => ~nLS2CPU
  /\ sst \notin WriteStates \cup ReadStates \cup Answered /\ AtChip =>
       cpu = "run" /\ strobes = 0
  /\ edge \in {"CLK+", "CLK90+"} /\ CCPUREQ => AtChip
  /\ edge \in {"CLK+", "CLK90+"} /\ sst \in WriteStates => TX_LATCH = CpuByte
  /\ REG_DSK => CpuAS /\ reg \notin ChipRegs

(* No access of the CPU is under way after reset.                          *)
LEMMA AccessInit == Init => AccessInv
BY DEF Init, ScsiInit, RegInit, MachineInit, AccessInv, AccessOutputs, AtChip, CpuAS,
       WriteStates, ReadStates, Answering, Answered, ChipRegs

(* The steps that change nothing an access depends on but the edge.        *)
accessVars == <<sst, sout, cpu, reg, strobes, nLS2CPU, RX_LATCH, REG_DSK>>

(* Edges that touch neither SCSI_SM nor the cycle of the CPU.              *)
LEMMA AccessKept ==
  ASSUME AccessInv, UNCHANGED accessVars,
         edge \notin {"CLK135+", "CLK-"}, edge' \notin {"CLK135+", "CLK-"},
         edge' \in {"CLK+", "CLK90+"} /\ CCPUREQ' => AtChip,
         edge' \in {"CLK+", "CLK90+"} /\ sst \in WriteStates => TX_LATCH' = CpuByte
  PROVE  AccessInv'
BY DEF AccessInv, AccessOutputs, accessVars, AtChip, CpuAS, BeforeFall

(* posedge CLK90: SCSI_SM's outputs and the termination counter.           *)
LEMMA AccessClk90Rise == AccessInv /\ Clk90Rise => AccessInv'
<1> SUFFICES ASSUME AccessInv, Clk90Rise PROVE AccessInv'
  OBVIOUS
<1> DEFINE selected == "SCSI_CS" \in sout' /\ "SCSI_CS" \notin sout
<1>1. /\ edge = "CLK90+" /\ edge' = "CLK135+"
      /\ sst' = ScsiNext(sst, ScsiIn) /\ sout' = ScsiOut(sst, ScsiIn)
      /\ UNCHANGED <<cpu, reg, nLS2CPU>>
  BY DEF Clk90Rise, At, ScsiPosedge90, cpuBusVars
<1>2. /\ ScsiIn.req = CCPUREQ
      /\ ScsiIn.rw = (reg = "WD_RD")
  BY DEF ScsiIn
<1>3. strobes' = IF selected /\ strobes < 2 THEN strobes + 1 ELSE strobes
  BY Zenon DEF Clk90Rise, ChipStrobes
<1>4. RX_LATCH' = (RX_LATCH /\ "S2CPU" \in sout')
  BY DEF Clk90Rise, PathPosedge90
<1>5. REG_DSK' => REG_DSK \/ (CpuAS /\ reg \notin ChipRegs)
  BY DEF Clk90Rise, RegPosedge90, CYCLE_ACTIVE, Selected
<1>6. AccessOutputs'
  BY <1>1, AccessTable DEF AccessOutputs
<1>7. sst' = "CPUREQ" => AtChip /\ cpu = "run" /\ strobes = 0
  <2> SUFFICES ASSUME sst' = "CPUREQ" PROVE AtChip /\ cpu = "run" /\ strobes = 0
    OBVIOUS
  <2>1. CCPUREQ /\ sst \in {"IDLE_DMA_RD", "IDLE_DMA_WR"}
    BY <1>1, <1>2, AccessTable
  <2>2. AtChip
    BY <1>1, <2>1 DEF AccessInv
  <2>3. QED
    BY <2>1, <2>2 DEF AccessInv, WriteStates, ReadStates, Answered
<1>8. edge \notin BeforeFall /\ edge' \in BeforeFall /\ edge' \notin {"CLK+", "CLK90+"}
  BY <1>1 DEF BeforeFall
<1>9. CASE sst \in (WriteStates \cup ReadStates) \ Answering
  <2>1. /\ sst' \in WriteStates => sst \in WriteStates
        /\ sst' \in ReadStates => sst \in ReadStates
        /\ sst' \in WriteStates \cup ReadStates
        /\ "SCSI_CS" \in sout
    BY <1>1, <1>9, AccessTable DEF AccessInv, AccessOutputs, WriteStates, ReadStates, Answering
  <2>2. /\ cpu = "run" /\ strobes' = 1 /\ ~nLS2CPU
        /\ sst' \in WriteStates => reg = "WD_WR"
        /\ sst' \in ReadStates => reg = "WD_RD"
        /\ sst' \notin Answered /\ sst' # "CPUREQ"
    BY <1>3, <1>9, <2>1 DEF AccessInv, WriteStates, ReadStates, Answering, Answered
  <2>3. QED
    BY <1>1, <1>5, <1>6, <1>8, <2>1, <2>2
       DEF AccessInv, CpuAS, AtChip, Answering, Answered, WriteStates, ReadStates, ChipRegs
<1>10. CASE sst = "CPUREQ"
  <2>1. /\ sst' \in WriteStates <=> reg = "WD_WR"
        /\ sst' \in ReadStates <=> reg = "WD_RD"
        /\ sst' \in (WriteStates \cup ReadStates) \ Answering
    <3>1. sst' = IF ScsiIn.rw THEN "S2C_1" ELSE "C2S_1"
      BY <1>1, <1>10 DEF ScsiNext
    <3>2. reg \in {"WD_RD", "WD_WR"}
      BY <1>10 DEF AccessInv
    <3>3. QED
      BY <1>2, <3>1, <3>2 DEF WriteStates, ReadStates, Answering
  <2>2. selected
    BY <1>1, <1>10, <2>1, AccessTable DEF AccessInv, AccessOutputs, WriteStates, ReadStates,
       Answered
  <2>3. strobes' = 1 /\ cpu = "run" /\ ~nLS2CPU
    BY <1>3, <1>10, <2>2 DEF AccessInv, WriteStates, ReadStates, Answering, Answered
  <2>4. QED
    BY <1>1, <1>5, <1>6, <1>8, <2>1, <2>3
       DEF AccessInv, CpuAS, AtChip, Answering, Answered, WriteStates, ReadStates, ChipRegs
<1>11. CASE sst \in Answering
  <2>1. /\ sst' \in Answered
        /\ sst' = "C2S_4" <=> sst = "C2S_3"
        /\ "SCSI_CS" \in sout
        /\ sst' = "S2C_5" => "S2CPU" \in sout'
    BY <1>1, <1>11, AccessTable DEF AccessInv, AccessOutputs, WriteStates, ReadStates,
       Answering, Answered
  <2>2. /\ cpu = "end" /\ strobes' = 1 /\ nLS2CPU
        /\ reg = IF sst' = "C2S_4" THEN "WD_WR" ELSE "WD_RD"
        /\ sst' = "S2C_5" => RX_LATCH'
    BY <1>1, <1>3, <1>4, <1>8, <1>11, <2>1 DEF AccessInv, WriteStates, ReadStates,
       Answering, Answered
  <2>3. QED
    BY <1>1, <1>5, <1>6, <1>8, <2>1, <2>2
       DEF AccessInv, CpuAS, AtChip, Answering, Answered, WriteStates, ReadStates, ChipRegs
<1>12. CASE sst \notin WriteStates \cup ReadStates \cup {"CPUREQ"}
  <2>1. sst' \notin WriteStates \cup ReadStates \cup Answered
    BY <1>1, <1>12, AccessTable DEF WriteStates, ReadStates, Answered
  <2>2. ~nLS2CPU
    <3>1. edge # "CLK135+" /\ sst \notin Answering
      BY <1>1, <1>12 DEF Answering, WriteStates, ReadStates
    <3>2. QED
      BY <3>1 DEF AccessInv
  <2>3. strobes' = strobes
    BY <1>1, <1>3, <2>1, AccessTable
  <2>4. AtChip => cpu = "run" /\ strobes = 0
    BY <1>8, <1>12, <2>1 DEF AccessInv, AtChip, CpuAS, Answered, WriteStates, ReadStates
  <2>5. QED
    BY <1>1, <1>5, <1>6, <1>7, <1>8, <2>1, <2>2, <2>3, <2>4
       DEF AccessInv, CpuAS, AtChip, Answering, Answered, WriteStates, ReadStates, ChipRegs
<1>13. QED
  BY <1>9, <1>10, <1>11, <1>12

(* posedge CLK135: DSACK is given.                                         *)
LEMMA AccessClk135Rise == AccessInv /\ Clk135Rise => AccessInv'
<1> SUFFICES ASSUME AccessInv, Clk135Rise PROVE AccessInv'
  OBVIOUS
<1>1. /\ edge = "CLK135+" /\ edge' = "CLK-"
      /\ nLS2CPU' = (AS_I /\ ~nLS2CPU /\ sst \in Answering)
      /\ UNCHANGED <<sst, sout, cpu, reg, strobes, RX_LATCH, REG_DSK>>
  BY DEF Clk135Rise, At, ScsiPosedge135, SET_DSACK, Answering, machineVars, cpuBusVars,
         pathVars, regVars
<1>2. QED
  BY <1>1 DEF AccessInv, AccessOutputs, AtChip, CpuAS, AS_I, BeforeFall, Answering, Answered,
              WriteStates, ReadStates

(* negedge SCLK: the CPU starts, samples and ends its cycles.              *)
LEMMA AccessClkFall == BusInv /\ AccessInv /\ ClkFall => AccessInv'
<1> SUFFICES ASSUME BusInv, AccessInv, ClkFall PROVE AccessInv'
  OBVIOUS
<1>1. /\ edge = "CLK-" /\ edge' = "CLK90-"
      /\ AS_O' = PAS
      /\ nLS2CPU' = (nLS2CPU /\ AS_I')
      /\ REG_DSK' = (REG_DSK /\ AS_I')
      /\ RX_LATCH' = ("S2CPU" \in sout /\ IF ~nLS2CPU THEN RX_LATCH
                                           ELSE {"SCSI_CS", "RE"} \subseteq sout)
      /\ UNCHANGED <<sst, sout>>
  BY DEF ClkFall, At, ScsiNegedge, RegNegedge, PathNegedge
<1>2. CpuBus(OWN, DACK, RegDsack, FE) \/ StartTransfer
  BY DEF ClkFall
<1>3. REG_DSK' => CpuAS'
  BY <1>1, <1>2 DEF BusInv, AccessInv, AS_I, CpuAS, CpuBus, Interrupt, StartCycle, SeeDsack,
                    EndCycle, CpuRests, StartTransfer, cpuBusVars
<1>4. RegDsack <=> REG_DSK \/ (sst \in Answering)
  BY <1>1 DEF AccessInv, RegDsack, Answering, Answered
<1>5. QED
  BY <1>1, <1>2, <1>3, <1>4
     DEF AccessInv, AccessOutputs, AtChip, CpuAS, AS_I, BeforeFall, WriteStates, ReadStates,
         Answering, Answered, ChipRegs,
         CpuBus, Interrupt, StartCycle, SeeDsack, EndCycle, CpuRests, StartTransfer, cpuBusVars

(* Every edge keeps the access in step with its cycle.                     *)
LEMMA AccessNext == BusInv /\ AccessInv /\ [Next]_vars => AccessInv'
<1> SUFFICES ASSUME BusInv, AccessInv, [Next]_vars
             PROVE  AccessInv'
  OBVIOUS
<1>1. CASE ClkRise
  <2>1. /\ edge = "CLK+" /\ edge' = "CLK90+"
        /\ UNCHANGED accessVars /\ UNCHANGED <<CCPUREQ, TX_LATCH>>
    BY <1>1 DEF ClkRise, At, scsiVars, scsiSyncVars, cpuBusVars, regVars, PathPosedge, accessVars
  <2>2. QED
    BY <2>1, AccessKept DEF AccessInv
<1>2. CASE Clk90Fall
  <2>1. /\ edge = "CLK90-" /\ edge' = "CLK135-"
        /\ UNCHANGED accessVars
    BY <1>2 DEF Clk90Fall, At, scsiVars, machineVars, cpuBusVars, RegNegedge90, PathNegedge90,
                accessVars
  <2>2. QED
    BY <2>1, AccessKept
<1>3. CASE Clk135Fall
  <2>1. /\ edge = "CLK135-" /\ edge' = "CLK+"
        /\ CCPUREQ' = WDREGREQ
        /\ TX_LATCH' = SCSI_DATA_TX("CPU2S" \in sout, "F2S" \in sout, FIFO_OD, BYTE_PTR)
        /\ UNCHANGED accessVars
    BY <1>3 DEF Clk135Fall, At, ScsiNegedge135, PathNegedge135, machineVars, cpuBusVars, regVars,
                accessVars
  <2>2. WDREGREQ => AtChip
    BY DEF WDREGREQ, Selected, ChipRegs, AtChip
  <2>3. sst \in WriteStates => TX_LATCH' = CpuByte
    BY <2>1 DEF AccessInv, AccessOutputs, SCSI_DATA_TX
  <2>4. QED
    BY <2>1, <2>2, <2>3, AccessKept
<1>4. CASE UNCHANGED vars
  BY <1>4 DEF vars, scsiVars, scsiSyncVars, machineVars, cpuBusVars, regVars, pathVars,
              AccessInv, AccessOutputs, AtChip, CpuAS
<1>5. QED
  BY <1>1, <1>2, <1>3, <1>4, AccessClk90Rise, AccessClk135Rise, AccessClkFall DEF Next

(* BusInv holds of every reachable state.                                  *)
LEMMA BusInvariant == Spec => []BusInv
BY BusInit, BusNext, RequestInvariant, PTL DEF Spec

(* And so does AccessInv.                                                  *)
LEMMA AccessInvariant == Spec => []AccessInv
BY AccessInit, AccessNext, BusInvariant, PTL DEF Spec

(* Each access of the CPU to a register of the WD33C93 makes one strobe of *)
(* the chip and a read has latched the chip's byte when the CPU takes it,  *)
(* although DSACK is a pulse of one clock (SCSI_SM.v:175) and SCSI_SM does *)
(* not wait for AS.                                                        *)
THEOREM ChipAccessOnceHolds == Spec => []ChipAccessOnce
<1>1. AccessInv => ChipAccessOnce
  <2> SUFFICES ASSUME AccessInv, edge = "CLK-", cpu = "end", reg \in ChipRegs
               PROVE  strobes = 1 /\ (reg = "WD_RD" => RX_LATCH /\ "S2CPU" \in sout)
    BY DEF ChipAccessOnce
  <2>1. sst \in Answered
    BY DEF AccessInv, AtChip, CpuAS, WriteStates, ReadStates, Answering, Answered, BeforeFall
  <2>2. reg = IF sst = "C2S_4" THEN "WD_WR" ELSE "WD_RD"
    BY <2>1 DEF AccessInv, BeforeFall
  <2>3. QED
    BY <2>1, <2>2 DEF AccessInv, AccessOutputs, Answered, BeforeFall
<1>2. QED
  BY <1>1, AccessInvariant, PTL

(* When the write strobe of the chip ends the CPU is still in its cycle    *)
(* and its byte is the one on the SCSI bus: WE is negated with C2S_3, where*)
(* DSACK is given, and the CPU leaves its cycle at the earliest at the     *)
(* falling edge after that.                                                *)
THEOREM ChipGetsCpuByteHolds == Spec => ChipGetsCpuByte
<1>1. AccessInv /\ [Next]_vars =>
        [{"SCSI_CS", "WE"} \subseteq sout /\ "WE" \notin sout' =>
           cpu # "idle" /\ reg = "WD_WR" /\ TX_LATCH = CpuByte]_vars
  <2> SUFFICES ASSUME AccessInv, Next, {"SCSI_CS", "WE"} \subseteq sout, "WE" \notin sout'
               PROVE  cpu # "idle" /\ reg = "WD_WR" /\ TX_LATCH = CpuByte
    OBVIOUS
  <2>1. edge = "CLK90+"
    BY DEF Next, ClkRise, Clk90Rise, Clk135Rise, ClkFall, Clk90Fall, Clk135Fall, At, scsiVars,
           ScsiPosedge135, ScsiNegedge, ScsiNegedge135
  <2>2. sst \in WriteStates
    BY DEF AccessInv, AccessOutputs
  <2>3. QED
    BY <2>1, <2>2 DEF AccessInv, WriteStates, ReadStates, Answering, BeforeFall
<1>2. QED
  BY <1>1, AccessInvariant, PTL DEF Spec, ChipGetsCpuByte

-------------------------------------------------------------------------------
(* 7.  The memory cycles.                                                  *)

(* Where CPU_SM goes when it asserts PAS, or keeps it.                     *)
PasStates == {"s3", "s4", "s7", "s8", "s11", "s12",
              "s23", "s24", "s27", "s28", "s31", "s32"}

(* From there it negates PAS only on an acknowledge.                       *)
LEMMA CycleTable ==
  ASSUME NEW s \in CpuStates, NEW i
  PROVE  /\ "PAS" \in CpuOut(s, i) => CpuNext(s, i) \in PasStates
         /\ s \in PasStates /\ "PAS" \notin CpuOut(s, i) => i.sterm \/ i.dsack
<1>1. CASE s \in DrainStates
  BY <1>1 DEF CpuOut, CpuNext, DrainOut, DrainNext, DrainStates, FillStates, If, PasStates,
              Aligned, OddWord, Partial, Strobes, Port32, Port16, Waiting
<1>2. CASE s \in FillStates
  BY <1>2 DEF CpuOut, CpuNext, FillOut, FillNext, DrainStates, FillStates, If, PasStates,
              Fill, FillLow, Port32, Port16, Waiting
<1>3. CASE s \in {"s0", "letgo"}
  BY <1>3 DEF CpuOut, CpuNext, IdleOut, If, DrainStates, FillStates, PasStates
<1>4. QED
  BY <1>1, <1>2, <1>3 DEF CpuStates

(* Memory answers only while the strobe is low and keeps its answer until  *)
(* the strobe is negated; a latched DSACK is that answer, for the only     *)
(* other source of DSACK is a cycle of the CPU.                            *)
CycleInv ==
  /\ PAS => cst \in PasStates
  /\ edge \in {"CLK90+", "CLK135+", "CLK-"} /\ ~AS_O => term = "none"
  /\ edge \in BeforeFall /\ AS_O /\ ~PAS => term # "none"
  /\ AS_O /\ DSACK => term # "none"

(* ReSDMAC starts no cycle at reset.                                       *)
LEMMA CycleInit == Init => CycleInv
BY DEF Init, CpuInit, CycleInv, PAS

(* While ReSDMAC owns the bus nobody drives DSACK but memory.              *)
LEMMA OwnerDsack ==
  ASSUME BusInv, AccessInv, edge = "CLK-", OWN
  PROVE  ~RegDsack /\ ~CpuAS
<1>1. ~CpuAS
  BY DEF BusInv
<1>2. ~REG_DSK
  BY <1>1 DEF AccessInv
<1>3. ~nLS2CPU
  BY <1>1 DEF AccessInv, CpuAS, BeforeFall
<1>4. QED
  BY <1>1, <1>2, <1>3 DEF RegDsack

(* Every edge keeps a cycle of ReSDMAC open until memory answers.          *)
LEMMA CycleNext == RequestInv /\ BusInv /\ AccessInv /\ CycleInv /\ [Next]_vars => CycleInv'
<1> SUFFICES ASSUME RequestInv, BusInv, AccessInv, CycleInv, [Next]_vars
             PROVE  CycleInv'
  OBVIOUS
<1>1. CASE ClkRise
  <2>1. /\ edge' = "CLK90+"
        /\ term' \in (IF ~AS_O THEN {"none"}
                      ELSE IF term = "none" THEN {"none", port} ELSE {term})
        /\ UNCHANGED <<cst, cout, AS_O, DSACK>>
    BY <1>1 DEF ClkRise, At, MemResponds, pinVars, cpuVars
  <2>2. QED
    BY <2>1 DEF CycleInv, PAS, BeforeFall
<1>2. CASE Clk90Rise
  <2>1. /\ cst' = CpuNext(cst, CpuIn)
        /\ cout' = CpuRegistered(CpuOut(cst, CpuIn), RIFIFO_o, RDFIFO_o)
        /\ edge = "CLK90+" /\ edge' = "CLK135+"
        /\ UNCHANGED <<AS_O, DSACK, term>>
    BY <1>2 DEF Clk90Rise, At, CpuPosedge90, pinVars
  <2>2. PAS' <=> "PAS" \in CpuOut(cst, CpuIn)
    BY <2>1, Registered DEF RequestInv, PAS
  <2>3. PAS' => cst' \in PasStates
    BY <2>1, <2>2, CycleTable DEF BusInv
  <2>4. AS_O /\ ~PAS' => term # "none"
    <3> SUFFICES ASSUME AS_O, "PAS" \notin CpuOut(cst, CpuIn) PROVE term # "none"
      BY <2>2
    <3>1. cst \in PasStates /\ cst \in CpuStates
      BY <2>1 DEF BusInv, CycleInv
    <3>2. CpuIn.sterm \/ CpuIn.dsack
      BY <3>1, CycleTable
    <3>3. STERM \/ DSACK
      BY <3>2 DEF CpuIn
    <3>4. QED
      BY <3>3 DEF STERM, CycleInv
  <2>5. QED
    BY <2>1, <2>3, <2>4 DEF CycleInv
<1>3. CASE Clk135Rise
  BY <1>3 DEF Clk135Rise, At, CpuPosedge135, pinVars, machineVars, CycleInv, PAS, BeforeFall
<1>4. CASE ClkFall
  <2>1. /\ edge = "CLK-" /\ edge' = "CLK90-"
        /\ AS_O' = PAS
        /\ DSACK' = (AS_I /\ AS_I' /\ (DSACK0 \/ DSACK1))
        /\ UNCHANGED <<cst, cout, term>>
    BY <1>4 DEF ClkFall, At, CpuNegedge
  <2>2. AS_O' /\ DSACK' => term # "none"
    <3> SUFFICES ASSUME PAS, AS_I, DSACK0 \/ DSACK1 PROVE term # "none"
      BY <2>1
    <3>1. OWN
      BY DEF BusInv
    <3>2. ~RegDsack
      BY <2>1, <3>1, OwnerDsack
    <3>3. QED
      BY <3>2 DEF DSACK0, DSACK1
  <2>3. QED
    BY <2>1, <2>2 DEF CycleInv, PAS, BeforeFall
<1>5. CASE Clk90Fall
  BY <1>5 DEF Clk90Fall, At, cpuVars, pinVars, machineVars, CycleInv, PAS, BeforeFall
<1>6. CASE Clk135Fall
  BY <1>6 DEF Clk135Fall, At, cpuVars, pinVars, machineVars, CycleInv, PAS, BeforeFall
<1>7. CASE UNCHANGED vars
  BY <1>7 DEF vars, cpuVars, pinVars, machineVars, CycleInv, PAS
<1>8. QED
  BY <1>1, <1>2, <1>3, <1>4, <1>5, <1>6, <1>7 DEF Next

(* CycleInv holds of every reachable state.                                *)
LEMMA CycleInvariant == Spec => []CycleInv
BY CycleInit, CycleNext, RequestInvariant, BusInvariant, AccessInvariant, PTL DEF Spec

(* Every cycle of ReSDMAC lasts until memory answers it, on any port, and  *)
(* it starts none with the answer to an earlier one still on the lines or  *)
(* in DSACK_LATCHED_ (CPU_SM.v:204), the CPU's accesses to its registers   *)
(* included.                                                               *)
THEOREM CyclesAnsweredHolds == Spec => CyclesAnswered
<1>1. BusInv /\ AccessInv /\ CycleInv /\ [Next]_vars =>
        [/\ AS_O /\ ~AS_O' => term # "none"
         /\ ~AS_O /\ AS_O' => term = "none" /\ ~DSACK']_vars
  <2> SUFFICES ASSUME BusInv, AccessInv, CycleInv, Next, AS_O # AS_O'
               PROVE  /\ AS_O /\ ~AS_O' => term # "none"
                      /\ ~AS_O /\ AS_O' => term = "none" /\ ~DSACK'
    OBVIOUS
  <2>1. ClkFall
    BY DEF Next, ClkRise, Clk90Rise, Clk135Rise, Clk90Fall, Clk135Fall, pinVars
  <2>2. /\ edge = "CLK-"
        /\ AS_O' = PAS
        /\ DSACK' = (AS_I /\ AS_I' /\ (DSACK0 \/ DSACK1))
    BY <2>1 DEF ClkFall, At, CpuNegedge
  <2>3. PAS => ~CpuAS
    BY DEF BusInv
  <2>4. QED
    BY <2>2, <2>3 DEF CycleInv, BeforeFall, AS_I
<1>2. QED
  BY <1>1, BusInvariant, AccessInvariant, CycleInvariant, PTL DEF Spec, CyclesAnswered
===============================================================================
