--------------------------- MODULE ResdmacFlushProofs --------------------------
(***************************************************************************)
(* What becomes of the data when the driver flushes the FIFO, for every    *)
(* depth, every port and every set of transfers that are Whole:            *)
(*                                                                         *)
(*   1  the end of FLUSHFIFO: FlushNotDropped                              *)
(*   2  the cycles that write to memory                                    *)
(*   3  how far memory has got: FlushWritesWhatRemains                     *)
(***************************************************************************)
EXTENDS ResdmacCountProofs

-------------------------------------------------------------------------------
(* 1.  The end of FLUSHFIFO.                                               *)

Past == {"CLK135+", "CLK-", "CLK90-"}

(* STOPFLUSH finds nothing counted or about to be; out of s0, it finds no  *)
(* partial longword either.                                                *)
DropInv ==
  FLUSHFIFO /\ "STOPFLUSH" \in cout /\ edge \in Past =>
    /\ COUNT = 0 /\ "INCFIFO" \notin cout /\ "DECFIFO" \notin cout
    /\ DMADIR => OWN \/ BYTE_PTR = 0

(* A write has the longword that the byte pointer is in, or it is coming,  *)
(* or the FIFO is being reset.                                             *)
PartInv ==
  /\ NotOn /\ edge = "CLK90-" => COUNT = 0
  /\ DMAENA /\ ~DMADIR =>
       /\ RDFIFO_o => BYTE_PTR = IF sst = "F2S_4" /\ edge \in {"CLK-", "CLK90-"} THEN 3 ELSE 0
       /\ "RDFIFO" \in sout /\ edge = "CLK135+" => BYTE_PTR = 3
       /\ Landing /\ "DECFIFO" \in cout => BYTE_PTR = 0
       /\ \/ BYTE_PTR = 0 \/ A1 \/ COUNT > 0
          \/ cst \in FillStates \ {"s20", "s21"}
          \/ RST_FIFO /\ edge \in Past

(* STOPFLUSH says that the FIFO is empty, and comes with no step of the    *)
(* count.                                                                  *)
LEMMA StopTable ==
  ASSUME NEW s \in CpuStates, NEW i, i.last => i.empty, "STOPFLUSH" \in CpuOut(s, i)
  PROVE  /\ i.empty
         /\ "INCFIFO" \notin CpuOut(s, i) /\ "DECFIFO" \notin CpuOut(s, i)
         /\ i.dir /\ "BGACK" \notin CpuOut(s, i) => ~i.last
<1>1. CASE s \in DrainStates
  BY <1>1 DEF CpuOut, DrainOut, DrainStates, FillStates, If, Aligned, OddWord, Partial, Strobes
<1>2. CASE s \in FillStates
  BY <1>2 DEF CpuOut, FillOut, DrainStates, FillStates, If, Fill, FillLow
<1>3. CASE s \in {"s0", "letgo"}
  BY <1>3 DEF CpuOut, IdleOut, If, DrainStates, FillStates, DrainDue
<1>4. QED
  BY <1>1, <1>2, <1>3 DEF CpuStates

(* Nothing is dropped at reset.                                            *)
LEMMA DropInit == Init => DropInv
BY DEF Init, CpuInit, RegInit, DropInv

(* posedge CLK90: STOPFLUSH is registered.                                 *)
LEMMA DropRise90 ==
  ASSUME Known, QuietInv, FlushInv, Clk90Rise
  PROVE  DropInv'
<1>1. /\ cst' = CpuNext(cst, CpuIn) /\ cst \in CpuStates
      /\ cout' = CpuRegistered(CpuOut(cst, CpuIn), RIFIFO_o, RDFIFO_o)
      /\ RIFIFO_o \in BOOLEAN /\ RDFIFO_o \in BOOLEAN
      /\ UNCHANGED <<COUNT, BYTE_PTR, FLUSHFIFO, DMADIR>>
  BY Rise90Frame DEF Known, BusInv, RequestInv, fifoSide, regSide
<1> SUFFICES ASSUME FLUSHFIFO, "STOPFLUSH" \in cout'
             PROVE  /\ COUNT = 0 /\ "INCFIFO" \notin cout' /\ "DECFIFO" \notin cout'
                    /\ DMADIR => "BGACK" \in cout' \/ BYTE_PTR = 0
  BY <1>1 DEF DropInv, OWN
<1>2. ~RIFIFO_o /\ ~RDFIFO_o
  BY DEF FlushInv, After, QuietInv, Still, Quiet
<1>3. cout' = CpuOut(cst, CpuIn) \cup If("DECFIFO" \in CpuOut(cst, CpuIn), {"INCNO"})
  BY <1>1, <1>2 DEF CpuRegistered, If
<1>4. /\ CpuIn.last = LASTWORD /\ CpuIn.empty = FIFOEMPTY /\ CpuIn.dir = DMADIR
      /\ LASTWORD => FIFOEMPTY
  BY DEF CpuIn, LASTWORD
<1>5. "STOPFLUSH" \in CpuOut(cst, CpuIn)
  BY <1>3 DEF If
<1>6. /\ FIFOEMPTY
      /\ "INCFIFO" \notin CpuOut(cst, CpuIn) /\ "DECFIFO" \notin CpuOut(cst, CpuIn)
      /\ DMADIR /\ "BGACK" \notin CpuOut(cst, CpuIn) => ~LASTWORD
  BY <1>1, <1>4, <1>5, StopTable
<1>7. QED
  BY <1>3, <1>6 DEF If, LASTWORD, FIFOEMPTY, BOEQ0

(* Every edge keeps it so until FLUSHFIFO is gone.                         *)
LEMMA DropNext ==
  ASSUME Known, QuietInv, FlushInv, DropInv, [Next]_vars
  PROVE  DropInv'
<1>1. CASE Clk90Rise
  BY <1>1, DropRise90
<1>2. CASE ClkFall
  <2>1. /\ edge = "CLK-" /\ UNCHANGED <<cout, FLUSHFIFO, DMADIR, BYTE_PTR>>
        /\ COUNT' = IF RST_FIFO THEN 0
                    ELSE NextCount(COUNT, "INCFIFO" \in cout, "DECFIFO" \in cout)
    BY <1>2, FallFrame DEF bothVars, regSide
  <2>2. QED
    BY <2>1 DEF DropInv, Past, NextCount, OWN
<1>3. CASE Clk90Fall
  BY <1>3, Fall90Frame DEF DropInv, Past
<1>4. CASE ClkRise
  BY <1>4, RiseFrame DEF DropInv, Past
<1>5. CASE Clk135Rise
  BY <1>5, Rise135Frame DEF bothVars, regSide, DropInv, Past, OWN
<1>6. CASE Clk135Fall
  BY <1>6, Fall135Frame DEF DropInv, Past
<1>7. CASE UNCHANGED vars
  BY <1>7, NoEdgeFrame DEF countVars, bothVars, fifoSide, regSide, DropInv, OWN
<1>8. QED
  BY <1>1, <1>2, <1>3, <1>4, <1>5, <1>6, <1>7 DEF Next

(* CPU_SM stops filling when the FIFO is full.                             *)
LEMMA FillTable ==
  ASSUME NEW s \in FillStates \ {"s20", "s21"}, NEW i
  PROVE  CpuNext(s, i) \in FillStates \ {"s20", "s21"} \/ i.full
BY DEF CpuNext, FillNext, DrainStates, FillStates

(* Nothing is filled at reset.                                             *)
LEMMA PartInit == Init => PartInv
BY DEF Init, RegInit, FifoInit, PartInv

(* posedge CLK90: the last byte of a longword is on its way to the chip,   *)
(* or the longword is gone for CPU_SM, too.                                *)
LEMMA PartRise90 ==
  ASSUME Known, PartInv, Clk90Rise
  PROVE  PartInv'
<1>1. /\ edge = "CLK90+" /\ edge' = "CLK135+"
      /\ cst' = CpuNext(cst, CpuIn) /\ cst \in CpuStates
      /\ cout' = CpuRegistered(CpuOut(cst, CpuIn), RIFIFO_o, RDFIFO_o)
      /\ sst' = ScsiNext(sst, ScsiIn) /\ sout' = ScsiOut(sst, ScsiIn)
      /\ RDFIFO_o' = (RDFIFO_o /\ "DECFIFO" \notin cout')
      /\ UNCHANGED <<COUNT, BYTE_PTR, DMADIR, DMAENA, A1>>
  BY Rise90Frame DEF Known, BusInv, fifoSide, regSide
<1> SUFFICES ASSUME DMAENA, ~DMADIR
             PROVE  /\ RDFIFO_o' => BYTE_PTR = 0
                    /\ "RDFIFO" \in sout' => BYTE_PTR = 3
                    /\ "DECFIFO" \in cout' => BYTE_PTR = 0
                    /\ \/ BYTE_PTR = 0 \/ A1 \/ COUNT > 0
                       \/ cst' \in FillStates \ {"s20", "s21"}
  BY <1>1 DEF PartInv
<1>2. RDFIFO_o => BYTE_PTR = 0
  BY <1>1 DEF PartInv
<1>3. "RDFIFO" \in sout' => BYTE_PTR = 3
  <2>1. ScsiIn.boeq3 = (BYTE_PTR = 3)
    BY DEF ScsiIn, BOEQ3
  <2>2. QED
    BY <1>1, <2>1, ByteTable
<1>4. "DECFIFO" \in cout' => BYTE_PTR = 0
  <2>1. "DECFIFO" \in cout' => "DECFIFO" \in CpuOut(cst, CpuIn) \/ RDFIFO_o
    BY <1>1, Registered DEF Known, RequestInv
  <2>2. "DECFIFO" \notin CpuOut(cst, CpuIn)
    BY OwnSteps, RequestDir
  <2>3. QED
    BY <1>2, <2>1, <2>2
<1>5. cst \in FillStates \ {"s20", "s21"} =>
        cst' \in FillStates \ {"s20", "s21"} \/ COUNT > 0
  <2>1. CpuIn.full = FIFOFULL
    BY DEF CpuIn
  <2>2. FIFOFULL => COUNT > 0
    BY DepthType DEF FIFOFULL
  <2>3. QED
    BY <1>1, <2>1, <2>2, FillTable
<1>6. QED
  BY <1>1, <1>2, <1>3, <1>4, <1>5 DEF PartInv, Past

(* negedge SCLK: the count goes down when the byte pointer has left the    *)
(* longword.                                                               *)
LEMMA PartFall ==
  ASSUME Known, RoomInv, PartInv, ClkFall
  PROVE  PartInv'
<1>1. /\ edge = "CLK-" /\ edge' = "CLK90-"
      /\ UNCHANGED <<cst, cout, sst, sout, DMADIR, DMAENA, A1, BYTE_PTR, RDFIFO_o>>
      /\ COUNT' = IF RST_FIFO THEN 0
                  ELSE NextCount(COUNT, "INCFIFO" \in cout, "DECFIFO" \in cout)
  BY FallFrame DEF bothVars, regSide, askSide
<1>2. RST_FIFO' = RST_FIFO
  BY <1>1 DEF RST_FIFO
<1>3. NotOn' => COUNT' = 0
  BY <1>1 DEF NotOn, RST_FIFO
<1>4. ASSUME DMAENA, ~DMADIR
      PROVE  \/ BYTE_PTR = 0 \/ A1 \/ COUNT' > 0
             \/ cst \in FillStates \ {"s20", "s21"} \/ RST_FIFO
  <2> SUFFICES ASSUME ~RST_FIFO, COUNT > 0, BYTE_PTR # 0
               PROVE  COUNT' > 0
    BY <1>4 DEF PartInv
  <2>1. "DECFIFO" \notin cout
    BY <1>1, <1>4 DEF PartInv, Landing
  <2>2. COUNT' = COUNT \/ COUNT' = COUNT + 1
    BY <2>1, CountSteps
  <2>3. COUNT \in Nat
    BY DepthType DEF Known, TypeOK, FifoTypeOK
  <2>4. QED
    BY <2>2, <2>3
<1>5. QED
  BY <1>1, <1>2, <1>3, <1>4 DEF PartInv, Landing, Past

(* negedge CLK90: the byte pointer moves within a longword that is there,  *)
(* and A1 falls in a cycle.                                                *)
LEMMA PartFall90 ==
  ASSUME Known, QuietInv, OnInv, FlushInv, ByteInv, RoomInv, PartInv, Clk90Fall
  PROVE  PartInv'
<1>1. /\ edge = "CLK90-" /\ edge' = "CLK135-"
      /\ UNCHANGED <<cst, cout, sst, sout, COUNT, RDFIFO_o>>
      /\ BYTE_PTR' = IF RST_FIFO THEN (IF A1 THEN 2 ELSE 0)
                     ELSE IF "INCBO" \in sout THEN (BYTE_PTR + 1) % 4 ELSE BYTE_PTR
  BY Fall90Frame DEF bothVars, askSide
<1> SUFFICES ASSUME DMAENA', ~DMADIR'
             PROVE  /\ RDFIFO_o => BYTE_PTR' = 0
                    /\ \/ BYTE_PTR' = 0 \/ A1' \/ COUNT > 0
                       \/ cst \in FillStates \ {"s20", "s21"}
  BY <1>1 DEF PartInv, Landing
<1>2. /\ DMAENA \/ NotOn
      /\ ~DMADIR
      /\ A1' = (A1 /\ ~AS_O)
  <2>1. DMAENA => step \notin OffSteps
    BY DEF Known, RestInv, StopInv, AtRest
  <2>2. ~(CpuAS /\ step \in OffSteps)
    BY <2>1, RegWrites DEF OffSteps
  <2>3. QED
    BY <2>2, RegWrites DEF NotOn, OffSteps
<1>3. AS_O => cst \in FillStates \ {"s20", "s21"}
  <2>1. AS_O => PAS /\ cst \notin NotMaster /\ cst # "letgo" /\ cst \in CpuStates
    BY <1>1 DEF Known, BusInv
  <2>2. QED
    BY <1>2, <2>1, RequestDir DEF NotMaster, CpuStates
<1>4. CASE RST_FIFO
  <2>1. Quiet /\ cst \in {"s0", "s20"}
    BY <1>4, ResetQuiet
  <2>2. ~AS_O
    BY <1>3, <2>1 DEF FillStates
  <2>3. QED
    BY <1>1, <1>2, <1>4, <2>1, <2>2 DEF Quiet
<1>5. CASE ~RST_FIFO
  <2>1. DMAENA
    BY <1>5 DEF RST_FIFO
  <2>2. CASE "INCBO" \in sout
    <3>1. sst = "F2S_4"
      BY <1>2, <2>2, RequestDir DEF ByteInv, ToFifo
    <3>2. COUNT > 0
      BY <3>1 DEF RoomInv, FromFifo
    <3>3. RDFIFO_o => BYTE_PTR = 3
      BY <1>1, <1>2, <2>1, <3>1 DEF PartInv
    <3>4. QED
      BY <1>1, <1>5, <2>2, <3>2, <3>3
  <2>3. CASE "INCBO" \notin sout
    <3>1. sst # "F2S_4"
      BY <2>3 DEF ByteInv
    <3>2. BYTE_PTR' = BYTE_PTR
      BY <1>1, <1>5, <2>3
    <3>3. QED
      BY <1>1, <1>2, <1>3, <1>5, <2>1, <3>1, <3>2 DEF PartInv
  <2>4. QED
    BY <2>2, <2>3
<1>6. QED
  BY <1>4, <1>5

(* Every edge keeps a write's longword.                                    *)
LEMMA PartNext ==
  ASSUME Known, QuietInv, OnInv, FlushInv, ByteInv, RoomInv, PartInv, [Next]_vars
  PROVE  PartInv'
<1>1. CASE Clk90Rise
  BY <1>1, PartRise90
<1>2. CASE ClkFall
  BY <1>2, PartFall
<1>3. CASE Clk90Fall
  BY <1>3, PartFall90
<1>4. CASE ClkRise
  BY <1>4, RiseFrame DEF countVars, bothVars, fifoSide, regSide, hostSide, askSide, PartInv, Past,
                         Landing, NotOn, RST_FIFO
<1>5. CASE Clk135Rise
  <2>1. /\ edge = "CLK135+" /\ edge' = "CLK-"
        /\ RDFIFO_o' = ("DECFIFO" \notin cout /\ (RDFIFO_o \/ "RDFIFO" \in sout))
        /\ UNCHANGED <<cst, cout, sst, sout, DMADIR, DMAENA, A1, BYTE_PTR, COUNT, step>>
    BY <1>5, Rise135Frame DEF bothVars, regSide, hostSide
  <2>2. /\ "RDFIFO" \in sout => sst = "F2S_4"
        /\ RDFIFO_o => sst # "F2S_4"
    BY <2>1 DEF Known, RequestInv
  <2>3. RST_FIFO' = RST_FIFO
    BY <2>1 DEF RST_FIFO
  <2>4. QED
    BY <2>1, <2>2, <2>3 DEF PartInv, Past, Landing
<1>6. CASE Clk135Fall
  BY <1>6, Fall135Frame DEF countVars, bothVars, fifoSide, regSide, hostSide, askSide, PartInv,
                            Past, Landing, NotOn, RST_FIFO
<1>7. CASE UNCHANGED vars
  BY <1>7, NoEdgeFrame DEF countVars, bothVars, fifoSide, regSide, hostSide, askSide, PartInv,
                           Past, Landing, NotOn, RST_FIFO
<1>8. QED
  BY <1>1, <1>2, <1>3, <1>4, <1>5, <1>6, <1>7 DEF Next

(* DropInv and PartInv, step by step.                                      *)
LEMMA DropInvariant == Whole => (Spec => [](DropInv /\ PartInv))
<1>1. SUFFICES ASSUME Whole PROVE Spec => [](DropInv /\ PartInv)
  OBVIOUS
<1>2. Known /\ CountInv /\ DropInv /\ PartInv /\ [Next]_vars => DropInv' /\ PartInv'
  BY DropNext, PartNext DEF CountInv
<1>3. QED
  BY <1>1, <1>2, DropInit, PartInit, KnownInvariant, CountInvariant, PTL DEF Spec

(* FLUSHFIFO is not dropped over data: when it falls nothing is counted or *)
(* about to be, and a last partial longword is on its way to memory; of a  *)
(* write no request is left to step the counter of the empty FIFO.         *)
THEOREM FlushNotDroppedHolds == Whole => (Spec => FlushNotDropped)
<1>1. SUFFICES ASSUME Whole PROVE Spec => FlushNotDropped
  OBVIOUS
<1>2. ASSUME Known, CountInv, DropInv, PartInv, Next, DMAENA, FLUSHFIFO, ~FLUSHFIFO'
      PROVE  /\ FIFOEMPTY /\ ~RIFIFO_o /\ ~RDFIFO_o
             /\ {"INCFIFO", "DECFIFO"} \cap cout = {}
             /\ BOEQ0 \/ A1 \/ (DMADIR /\ OWN)
  <2>1. Clk90Fall
    BY <1>2, RiseFrame, Rise90Frame, Rise135Frame, FallFrame, Fall135Frame
       DEF Next, countVars, regSide
  <2>2. edge = "CLK90-" /\ "STOPFLUSH" \in cout /\ ~(CpuAS /\ step = "flush")
    BY <1>2, <2>1, Fall90Frame, RegWrites
  <2>3. step \in After /\ Flushing
    BY <1>2, <2>2 DEF CountInv, FlushInv
  <2>4. Quiet
    BY <1>2, <2>3 DEF CountInv, QuietInv, After, Still
  <2>5. /\ COUNT = 0 /\ "INCFIFO" \notin cout /\ "DECFIFO" \notin cout
        /\ DMADIR => OWN \/ BYTE_PTR = 0
    BY <1>2, <2>2 DEF DropInv, Past
  <2>6. ~DMADIR => BYTE_PTR = 0 \/ A1
    <3>1. ~RST_FIFO
      BY <1>2, <2>3 DEF CountInv, FlushInv, RST_FIFO, Flushing, After
    <3>2. cst \notin FillStates \ {"s20", "s21"}
      BY <2>3 DEF Flushing, DrainStates, FillStates
    <3>3. QED
      BY <1>2, <2>5, <3>1, <3>2 DEF PartInv
  <2>7. QED
    BY <2>4, <2>5, <2>6 DEF Quiet, FIFOEMPTY, BOEQ0
<1>3. Known /\ CountInv /\ DropInv /\ PartInv /\ [Next]_vars =>
        [DMAENA /\ FLUSHFIFO /\ ~FLUSHFIFO' =>
           /\ FIFOEMPTY /\ ~RIFIFO_o /\ ~RDFIFO_o
           /\ {"INCFIFO", "DECFIFO"} \cap cout = {}
           /\ BOEQ0 \/ A1 \/ (DMADIR /\ OWN)]_vars
  BY <1>2
<1>4. QED
  BY <1>1, <1>3, KnownInvariant, CountInvariant, DropInvariant, PTL DEF Spec, FlushNotDropped

-------------------------------------------------------------------------------
(* 2.  The cycles that write to memory.                                    *)

(* A cycle is answered by the port of this transfer; CPU_SM keeps PAS      *)
(* while it waits; and WE with DACK is a byte for the chip.                *)
PortInv ==
  /\ term \in {"none", port}
  /\ cst \in {"s4", "s8", "s12"} => PAS
  /\ DACK => ("WE" \in sout <=> sst \in FromFifo)

(* An acknowledge by a port of 16 or 32 bits ends the wait.                *)
LEMMA WaitTable ==
  ASSUME NEW s \in CpuStates, NEW i, CpuNext(s, i) \in {"s4", "s8", "s12"},
         s \in {"s4", "s8", "s12"} /\ i.dsack => i.sterm \/ i.d1
  PROVE  "PAS" \in CpuOut(s, i)
<1>1. CASE s \in DrainStates
  BY <1>1 DEF CpuOut, CpuNext, DrainOut, DrainNext, DrainStates, FillStates, If, Aligned, OddWord,
              Partial, Strobes, Port32, Port16, Waiting
<1>2. CASE s \in FillStates
  BY <1>2 DEF CpuNext, FillNext, DrainStates, FillStates
<1>3. CASE s \in {"s0", "letgo"}
  BY <1>3 DEF CpuNext, IdleNext, DrainStates, FillStates
<1>4. QED
  BY <1>1, <1>2, <1>3 DEF CpuStates

(* Of the two kinds of byte the one for the chip has WE.                   *)
LEMMA WriteTable ==
  ASSUME NEW s, NEW j, "DACK" \in ScsiOut(s, j)
  PROVE  "WE" \in ScsiOut(s, j) <=> ScsiNext(s, j) \in FromFifo
BY DEF ScsiOut, ScsiNext, LongwordDone, When, START_S2F, START_F2S, FromFifo

(* No cycle is under way at reset.                                         *)
LEMMA PortInit == Init => PortInv
BY DEF Init, CpuInit, ScsiInit, MachineInit, PortInv, DACK

(* Before posedge CLK90 the answer on the bus of ReSDMAC is memory's.      *)
LEMMA Answer ==
  ASSUME Known, CycleInv, PortInv, edge = "CLK90+"
  PROVE  /\ OWN => ~RegDsack
         /\ STERM => term = "sterm"
         /\ OWN => (DSACK0 <=> term = "d32") /\ (DSACK1 <=> term \in {"d32", "d16"})
         /\ PAS /\ DSACK => STERM \/ DSACK1
         /\ AS_O <=> PAS
<1>1. OWN => ~RegDsack
  <2>1. OWN => cpu = "idle"
    BY DEF Known, BusInv, CpuAS
  <2>2. cpu = "idle" => ~REG_DSK /\ ~nLS2CPU
    BY DEF Known, AccessInv, CpuAS, Answering, Answered, BeforeFall
  <2>3. QED
    BY <2>1, <2>2 DEF RegDsack
<1>2. AS_O <=> PAS
  BY DEF Known, BusInv
<1>3. PAS /\ DSACK => STERM \/ DSACK1
  <2>1. PAS /\ DSACK => term # "none"
    BY <1>2 DEF CycleInv
  <2>2. term \in {"none", "sterm", "d32", "d16"}
    BY DEF Known, TypeOK, MachineTypeOK
  <2>3. QED
    BY <2>1, <2>2 DEF STERM, DSACK1
<1>4. QED
  BY <1>1, <1>2, <1>3 DEF STERM, DSACK0, DSACK1

(* Every edge keeps the port and the strobe.                               *)
LEMMA PortNext ==
  ASSUME Known, CycleInv, PortInv, [Next]_vars
  PROVE  PortInv'
<1>1. CASE Clk90Rise
  <2>1. /\ edge = "CLK90+" /\ cst' = CpuNext(cst, CpuIn) /\ cst \in CpuStates
        /\ cout' = CpuRegistered(CpuOut(cst, CpuIn), RIFIFO_o, RDFIFO_o)
        /\ RIFIFO_o \in BOOLEAN /\ RDFIFO_o \in BOOLEAN
        /\ sst' = ScsiNext(sst, ScsiIn) /\ sout' = ScsiOut(sst, ScsiIn)
        /\ UNCHANGED <<term, port>>
    BY <1>1, Rise90Frame DEF Known, BusInv, RequestInv, Clk90Rise, driverVars
  <2>2. CpuIn.dsack = DSACK /\ CpuIn.sterm = STERM /\ CpuIn.d1 = DSACK1
    BY DEF CpuIn
  <2>3. cst' \in {"s4", "s8", "s12"} => PAS'
    <3>1. cst \in {"s4", "s8", "s12"} /\ DSACK => STERM \/ DSACK1
      BY <2>1, Answer DEF PortInv
    <3>2. cst' \in {"s4", "s8", "s12"} => "PAS" \in CpuOut(cst, CpuIn)
      BY <2>1, <2>2, <3>1, WaitTable
    <3>3. QED
      BY <2>1, <3>2, Registered DEF PAS
  <2>4. DACK' => ("WE" \in sout' <=> sst' \in FromFifo)
    BY <2>1, WriteTable DEF DACK
  <2>5. QED
    BY <2>1, <2>3, <2>4 DEF PortInv
<1>2. CASE ClkFall
  <2>1. UNCHANGED <<cst, cout, sst, sout, term>> /\ edge = "CLK-"
    BY <1>2, FallFrame DEF bothVars, ClkFall
  <2>2. port' = port \/ term = "none"
    <3>1. StartTransfer /\ ~AS_O => term = "none"
      BY <2>1 DEF CycleInv
    <3>2. CpuBus(OWN, DACK, RegDsack, FE) => port' = port
      BY DEF CpuBus, Interrupt, StartCycle, SeeDsack, EndCycle, CpuRests, driverVars
    <3>3. QED
      BY <1>2, <3>1, <3>2 DEF ClkFall
  <2>3. QED
    BY <2>1, <2>2 DEF PortInv, PAS, DACK
<1>3. CASE Clk90Fall
  BY <1>3, Fall90Frame DEF Clk90Fall, machineVars, driverVars, bothVars, PortInv, PAS, DACK
<1>4. CASE ClkRise
  BY <1>4, RiseFrame DEF ClkRise, MemResponds, driverVars, countVars, bothVars, PortInv, PAS, DACK
<1>5. CASE Clk135Rise
  BY <1>5, Rise135Frame DEF Clk135Rise, machineVars, driverVars, bothVars, PortInv, PAS, DACK
<1>6. CASE Clk135Fall
  BY <1>6, Fall135Frame DEF Clk135Fall, machineVars, driverVars, countVars, bothVars, PortInv, PAS,
                            DACK
<1>7. CASE UNCHANGED vars
  BY <1>7, NoEdgeFrame DEF vars, machineVars, driverVars, countVars, bothVars, PortInv, PAS, DACK
<1>8. QED
  BY <1>1, <1>2, <1>3, <1>4, <1>5, <1>6, <1>7 DEF Next

-------------------------------------------------------------------------------
(* 3.  How far memory has got.                                             *)

(* The bytes of the cycle that is ending, where memory is after it, and    *)
(* whether that is the middle of a longword (2) or its end (0).            *)
Put   == IF Landing /\ AS_O /\ ~PAS THEN CycleBytes(TRUE, "SIZE1" \in cout) ELSE 0
Place == First(xfer) + Len(sink) + Put
Odd   == Place % 4

(* The longwords SCSI_SM has filled and the byte pointer has left, and     *)
(* CPU_SM has not emptied.                                                 *)
Wrapping == sst = "S2F_4" /\ BYTE_PTR = 3 /\ edge \in {"CLK-", "CLK90-"}
Held == COUNT + Under(Landing /\ "INCFIFO" \in cout) + Under(RIFIFO_o)
          - Under(Landing /\ "DECFIFO" \in cout) - Under(Wrapping)

(* The partial longword at the end has been written, or is being: the      *)
(* flush is over for CPU_SM.                                               *)
Done ==
  /\ COUNT = 0 /\ BYTE_PTR \in {1, 2} /\ step \in After \cup {"halt"}
  /\ FLUSHFIFO => "STOPFLUSH" \in cout /\ cst \in {"s10", "s11"} /\ edge \in Past
  /\ cFLUSH => cst \in {"s10", "s11"} \/ (cst \in {"s12", "s15"} /\ edge = "CLK135+")

(* What the chip has given is in memory, in the FIFO, or in the longword   *)
(* the byte pointer is in; memory is half a longword further when it takes *)
(* the longword in two words, began at an odd word, or got the last word.  *)
DrainInv ==
  /\ "RIFIFO" \in sout /\ edge = "CLK135+" => BYTE_PTR = 3
  /\ DMAENA /\ DMADIR =>
       /\ Odd \in {0, 2}
       /\ First(xfer) + (xfer.len - left) + Odd = BYTE_PTR + Lag + 4 * Held + Place
       /\ A1 => First(xfer) = 2 /\ Place = 2 /\ cst \in {"s0", "s1", "s6", "s7", "s20"}
       /\ cst \in {"s6", "s7", "s8"} => Odd = 2
       /\ Odd = 2 => \/ A1 \/ cst \in {"s6", "s7", "s8"}
                     \/ (cst \in {"s0", "s15", "letgo"} /\ Done)
       /\ cst \in {"s10", "s11", "s12"} => Done

(* Before the transfer memory has got nothing, and in a write the chip has *)
(* what is not left to it.                                                 *)
SinkInv ==
  /\ step \in {"setup", "addr"} \/ NotOn => sink = <<>>
  /\ ~xfer.dir => Len(sink) = xfer.len - left
  /\ xfer.dir /\ ~DMAENA => Len(sink) <= xfer.len + 1

(* The strobe of a drain is low in these.                                  *)
Strobing == {"s3", "s4", "s7", "s8", "s11", "s12"}

(* What CPU_SM puts out when it ends a cycle, and where it goes.           *)
LEMMA EndTable ==
  ASSUME NEW s \in Strobing, NEW i, i.dsack => i.sterm \/ i.d1,
         "PAS" \notin CpuOut(s, i)
  PROVE  LET t   == CpuNext(s, i)
             out == CpuOut(s, i)
         IN  /\ s \in {"s3", "s4"} /\ t = "s15" =>
                  "DECFIFO" \in out /\ "SIZE1" \notin out /\ (i.sterm \/ i.d0)
             /\ s \in {"s3", "s4"} /\ t # "s15" =>
                  s = "s4" /\ t = "s6" /\ "DECFIFO" \notin out /\ "SIZE1" \notin out
                    /\ i.d1 /\ ~i.d0
             /\ s \in {"s7", "s8"} => t = "s15" /\ "DECFIFO" \in out /\ "SIZE1" \in out
             /\ s \in {"s11", "s12"} => t = "s15" /\ "DECFIFO" \notin out /\ "SIZE1" \in out
BY DEF Strobing, CpuOut, CpuNext, DrainOut, DrainNext, DrainStates, FillStates, If, Aligned,
       OddWord, Partial, Strobes, Port32, Port16, Waiting

(* Where it goes otherwise.                                                *)
LEMMA MoveOnTable ==
  ASSUME NEW s \in DrainStates \cup {"s0", "letgo", "s20"}, NEW i, i.dir,
         s \in Strobing => "PAS" \in CpuOut(s, i)
  PROVE  LET t   == CpuNext(s, i)
             out == CpuOut(s, i)
         IN  /\ "DECFIFO" \notin out
             /\ t \in DrainStates \cup {"s0", "letgo", "s20"}
             /\ t = "s0" => s \in {"s0", "letgo", "s20"}
             /\ t = "letgo" => s = "s15"
             /\ t = "s20" => s = "s20"
             /\ t = "s1" => s = "s1" \/ (s = "s0" /\ DrainDue(i))
             /\ t = "s2" => s = "s1" /\ ~i.a1
             /\ t = "s3" => s = "s2" \/ (s = "s15" /\ (~i.empty \/ i.last))
             /\ t = "s4" => s \in {"s3", "s4"}
             /\ t = "s6" => s = "s1" /\ i.a1
             /\ t = "s7" => s = "s6"
             /\ t = "s8" => s \in {"s7", "s8"}
             /\ t = "s10" => s = "s1" /\ ~i.a1 /\ i.last /\ ~i.boeq3 /\ "STOPFLUSH" \in out
             /\ t = "s11" => \/ s = "s10"
                             \/ s = "s15" /\ i.empty /\ i.last /\ ~i.boeq3 /\ "STOPFLUSH" \in out
             /\ t = "s12" => s \in {"s11", "s12"}
             /\ t # "s15"
<1>1. CASE s \in Strobing
  <2>1. CASE s \in {"s3", "s4"}
    BY <2>1 DEF Strobing, CpuOut, CpuNext, DrainOut, DrainNext, DrainStates, FillStates, If,
                Aligned, OddWord, Partial, Strobes, Port32, Port16, Waiting
  <2>2. CASE s \in {"s7", "s8"}
    BY <2>2 DEF Strobing, CpuOut, CpuNext, DrainOut, DrainNext, DrainStates, FillStates, If,
                Aligned, OddWord, Partial, Strobes, Port32, Port16, Waiting
  <2>3. CASE s \in {"s11", "s12"}
    BY <2>3 DEF Strobing, CpuOut, CpuNext, DrainOut, DrainNext, DrainStates, FillStates, If,
                Aligned, OddWord, Partial, Strobes, Port32, Port16, Waiting
  <2>4. QED
    BY <1>1, <2>1, <2>2, <2>3 DEF Strobing
<1>2. CASE s \in {"s1", "s2", "s6", "s10", "s15"}
  BY <1>2 DEF Strobing, CpuOut, CpuNext, DrainOut, DrainNext, DrainStates, FillStates, If, Aligned,
              OddWord, Partial, Strobes
<1>3. CASE s \in {"s0", "letgo", "s20"}
  BY <1>3 DEF CpuOut, CpuNext, IdleOut, IdleNext, FillOut, FillNext, If, DrainStates, FillStates
<1>4. QED
  BY <1>1, <1>2, <1>3 DEF DrainStates, Strobing

(* The bytes of a cycle: all the port has of the longword, or a word.      *)
LEMMA Sized ==
  ASSUME NEW asked \in {2, 4}, NEW width \in {2, 4}, NEW pos \in Nat,
         NEW off, off = pos % width, pos % 4 = 0 \/ (asked = 2 /\ pos % 4 = 2)
  PROVE  (IF asked < width - off THEN asked ELSE width - off)
            = IF asked = 2 \/ width = 2 THEN 2 ELSE 4
<1>1. pos % 2 = 0
  OBVIOUS
<1>2. width = 2 => off = 0
  BY <1>1
<1>3. width = 4 => off = pos % 4
  OBVIOUS
<1>4. QED
  BY <1>2, <1>3

(* So many of a cycle of a drain that begins where a word or a longword    *)
(* does.                                                                   *)
LEMMA CycleSize ==
  ASSUME TypeOK, NEW size1 \in BOOLEAN,
         (First(xfer) + Len(sink)) % 4 = 0 \/ (size1 /\ (First(xfer) + Len(sink)) % 4 = 2)
  PROVE  CycleBytes(TRUE, size1) = IF size1 \/ port = "d16" THEN 2 ELSE 4
<1> DEFINE pos   == First(xfer) + Len(sink)
           asked == IF size1 THEN 2 ELSE 4
           width == Width
           off   == MemOffset(TRUE)
<1>1. pos \in Nat
  <2>1. Len(sink) \in Nat
    BY LenProperties DEF TypeOK, MachineTypeOK
  <2>2. QED
    BY <2>1 DEF First
<1>2. pos % 4 = 0 \/ (asked = 2 /\ pos % 4 = 2)
  OBVIOUS
<1>3. off = pos % width
  BY Zenon DEF MemOffset, First
<1>4. CycleBytes(TRUE, size1) = IF asked < width - off THEN asked ELSE width - off
  BY Zenon DEF CycleBytes
<1>5. width \in {2, 4} /\ (width = 2 <=> port = "d16")
  BY DEF Width
<1>6. asked \in {2, 4} /\ (asked = 2 <=> size1)
  OBVIOUS
<1> HIDE DEF pos, asked, width, off
<1>7. (IF asked < width - off THEN asked ELSE width - off)
         = IF asked = 2 \/ width = 2 THEN 2 ELSE 4
  BY <1>1, <1>2, <1>3, <1>5, <1>6, Sized
<1>8. QED
  BY <1>4, <1>5, <1>6, <1>7, Zenon

(* posedge CLK90 of a drain: a cycle ends with these bytes, and DECFIFO    *)
(* with the last of a longword.                                            *)
LEMMA CycleRise90 ==
  ASSUME Known, CycleInv, PortInv, A1Inv, DrainInv, DMAENA, DMADIR, Clk90Rise
  PROVE  /\ UNCHANGED sink /\ Put = 0
         /\ \/ /\ Put' = 0 /\ "DECFIFO" \notin cout'
               /\ cst \in Strobing => "PAS" \in CpuOut(cst, CpuIn)
            \/ Put' = 4 /\ cst \in {"s3", "s4"} /\ cst' = "s15" /\ "DECFIFO" \in cout'
            \/ Put' = 2 /\ cst = "s4" /\ cst' = "s6" /\ "DECFIFO" \notin cout'
            \/ Put' = 2 /\ cst \in {"s7", "s8"} /\ cst' = "s15" /\ "DECFIFO" \in cout'
            \/ Put' = 2 /\ cst \in {"s11", "s12"} /\ cst' = "s15" /\ "DECFIFO" \notin cout'
<1> DEFINE out == CpuOut(cst, CpuIn)
           size1 == "SIZE1" \in cout'
<1>1. /\ edge = "CLK90+" /\ edge' = "CLK135+"
      /\ cst' = CpuNext(cst, CpuIn)
      /\ cout' = CpuRegistered(out, RIFIFO_o, RDFIFO_o)
      /\ UNCHANGED <<AS_O, xfer, port>>
  BY Rise90Frame DEF Clk90Rise, driverVars, pinVars
<1>2. UNCHANGED sink
  <2>1. ChipStrobes(DACK /\ "DACK" \notin sout', "WE" \in sout, TX_LATCH,
                    "SCSI_CS" \in sout' /\ "SCSI_CS" \notin sout)
    BY DEF Clk90Rise
  <2>2. DACK => "WE" \notin sout
    BY RequestDir DEF PortInv
  <2>3. QED
    BY <2>1, <2>2, Zenon DEF ChipStrobes, DACK
<1>3. /\ cst \in CpuStates \ (FillStates \ {"s20"})
      /\ RIFIFO_o \in BOOLEAN /\ RDFIFO_o \in BOOLEAN /\ ~RDFIFO_o
  BY RequestDir DEF Known, BusInv, RequestInv
<1>4. /\ PAS' <=> "PAS" \in out
      /\ size1 <=> "SIZE1" \in out
      /\ "DECFIFO" \in cout' <=> "DECFIFO" \in out
  <2> HIDE DEF out
  <2>1. QED
    BY <1>1, <1>3, Registered DEF PAS
<1>5. AS_O <=> cst \in Strobing
  <2>1. AS_O <=> PAS
    BY <1>1, Answer
  <2>2. PAS => cst \in Strobing
    BY <1>3 DEF CycleInv, PasStates, Strobing, FillStates
  <2>3. cst \in Strobing => PAS
    BY DEF A1Inv, PortInv, Strobing
  <2>4. QED
    BY <2>1, <2>2, <2>3
<1>6. Put = 0
  BY <1>1 DEF Put, Landing
<1>7. Put' = IF AS_O /\ ~PAS' THEN CycleBytes(TRUE, size1) ELSE 0
  BY <1>1, <1>2, Zenon DEF Put, Landing, CycleBytes, MemOffset, Width
<1>8. CASE cst \in Strobing /\ "PAS" \notin out
  <2>1. Put' = CycleBytes(TRUE, size1)
    BY <1>4, <1>5, <1>7, <1>8
  <2>2. PAS /\ OWN
    BY <1>1, <1>5, <1>8, Answer DEF Known, BusInv
  <2>3. /\ CpuIn.dsack => CpuIn.sterm \/ CpuIn.d1
        /\ CpuIn.sterm <=> term = "sterm"
        /\ CpuIn.d0 <=> term = "d32"
        /\ CpuIn.d1 <=> term \in {"d32", "d16"}
    BY <1>1, <2>2, Answer DEF CpuIn, STERM
  <2>4. term \in {"none", port}
    BY DEF PortInv
  <2> DEFINE t == CpuNext(cst, CpuIn)
  <2>5. /\ cst \in {"s3", "s4"} /\ t = "s15" =>
             "DECFIFO" \in out /\ "SIZE1" \notin out /\ (CpuIn.sterm \/ CpuIn.d0)
        /\ cst \in {"s3", "s4"} /\ t # "s15" =>
             cst = "s4" /\ t = "s6" /\ "DECFIFO" \notin out /\ "SIZE1" \notin out
               /\ CpuIn.d1 /\ ~CpuIn.d0
        /\ cst \in {"s7", "s8"} => t = "s15" /\ "DECFIFO" \in out /\ "SIZE1" \in out
        /\ cst \in {"s11", "s12"} => t = "s15" /\ "DECFIFO" \notin out /\ "SIZE1" \in out
    BY <1>8, <2>3, EndTable
  <2>6. t = cst'
    BY <1>1
  <2> HIDE DEF out, t, size1
  <2>7. Place = First(xfer) + Len(sink)
    <3>1. First(xfer) \in Nat /\ Len(sink) \in Nat
      BY LenProperties DEF Known, TypeOK, MachineTypeOK, First
    <3> HIDE DEF First
    <3>2. QED
      BY <1>6, <3>1 DEF Place
  <2>8. /\ Odd \in {0, 2}
        /\ Odd = 2 => cst \notin {"s3", "s4", "s11", "s12"}
    BY DEF DrainInv, A1Inv
  <2>9. CycleBytes(TRUE, size1) = IF size1 \/ port = "d16" THEN 2 ELSE 4
    <3>1. Odd = 0 \/ (size1 /\ Odd = 2)
      BY <1>4, <1>8, <2>5, <2>8 DEF Strobing
    <3>2. size1 \in BOOLEAN
      BY DEF size1
    <3>3. QED
      BY <2>7, <3>1, <3>2, CycleSize DEF Odd, Known
  <2>10. CASE cst \in {"s3", "s4"} /\ t = "s15"
    <3>1. ~size1 /\ port # "d16"
      BY <1>4, <2>3, <2>4, <2>5, <2>10
    <3>2. QED
      BY <1>2, <1>4, <1>6, <2>1, <2>5, <2>6, <2>9, <2>10, <3>1
  <2>11. CASE cst \in {"s3", "s4"} /\ t # "s15"
    <3>1. port = "d16"
      BY <2>3, <2>4, <2>5, <2>11
    <3>2. QED
      BY <1>2, <1>4, <1>6, <2>1, <2>5, <2>6, <2>9, <2>11, <3>1
  <2>12. CASE cst \in {"s7", "s8", "s11", "s12"}
    BY <1>2, <1>4, <1>6, <2>1, <2>5, <2>6, <2>9, <2>12
  <2>13. QED
    BY <1>8, <2>10, <2>11, <2>12 DEF Strobing
<1>9. CASE ~(cst \in Strobing /\ "PAS" \notin out)
  <2>1. Put' = 0
    BY <1>4, <1>5, <1>7, <1>9
  <2>2. "DECFIFO" \notin out
    <3>1. cst \in DrainStates \cup {"s0", "letgo", "s20"}
      BY <1>3 DEF CpuStates
    <3>2. CpuIn.dir
      BY DEF CpuIn
    <3>3. QED
      BY <1>9, <3>1, <3>2, MoveOnTable
  <2>3. QED
    BY <1>2, <1>4, <1>6, <1>9, <2>1, <2>2
<1>10. QED
  BY <1>8, <1>9

(* A word or a longword further.                                           *)
LEMMA Further ==
  ASSUME NEW p \in Nat, p % 4 \in {0, 2}
  PROVE  (p + 4) % 4 = p % 4 /\ (p + 2) % 4 = 2 - (p % 4)
OBVIOUS

(* posedge CLK90: a longword that is asked for is one that is counted.     *)
LEMMA HeldRise90 ==
  ASSUME Known, DMADIR, Clk90Rise
  PROVE  Held' = Held - Under("DECFIFO" \in cout')
<1>1. /\ edge = "CLK90+" /\ edge' = "CLK135+" /\ COUNT' = COUNT
      /\ RIFIFO_o' = (RIFIFO_o /\ "INCFIFO" \notin cout')
  BY Rise90Frame DEF fifoSide
<1>2. COUNT \in Nat /\ RIFIFO_o \in BOOLEAN
  BY DepthType DEF Known, RequestInv, TypeOK, FifoTypeOK
<1>3. "INCFIFO" \in cout' <=> RIFIFO_o /\ "DECFIFO" \notin cout'
  BY PtrRise90Out
<1>4. Held = COUNT + Under(RIFIFO_o)
  BY <1>1, <1>2 DEF Held, Landing, Wrapping, Under
<1>5. Held' = COUNT + Under("INCFIFO" \in cout') + Under(RIFIFO_o')
                - Under("DECFIFO" \in cout')
  BY <1>1, <1>2 DEF Held, Landing, Wrapping, Under
<1>6. Under("INCFIFO" \in cout') + Under(RIFIFO_o') = Under(RIFIFO_o)
  <2>1. RIFIFO_o' <=> RIFIFO_o /\ "INCFIFO" \notin cout'
    BY <1>1
  <2>2. "INCFIFO" \in cout' => RIFIFO_o
    BY <1>3
  <2>3. CASE "INCFIFO" \in cout'
    BY <2>1, <2>2, <2>3 DEF Under
  <2>4. CASE "INCFIFO" \notin cout'
    BY <2>1, <2>4 DEF Under
  <2>5. QED
    BY <2>3, <2>4
<1>7. /\ Under("INCFIFO" \in cout') \in Int /\ Under(RIFIFO_o') \in Int
      /\ Under(RIFIFO_o) \in Int /\ Under("DECFIFO" \in cout') \in Int
  BY DEF Under
<1> HIDE DEF Under, Held
<1>8. QED
  BY <1>2, <1>4, <1>5, <1>6, <1>7

(* posedge CLK90 of a drain without the end of a cycle: what CPU_SM does   *)
(* next agrees with the place memory has got to.                           *)
LEMMA PlaceKept ==
  ASSUME Known, CountInv, DrainInv, DMAENA, DMADIR, Clk90Rise,
         cst \in Strobing => "PAS" \in CpuOut(cst, CpuIn)
  PROVE  /\ A1 => cst' \in {"s0", "s1", "s6", "s7", "s20"}
         /\ cst' \in {"s6", "s7", "s8"} => Odd = 2
         /\ Odd = 2 => \/ A1 \/ cst' \in {"s6", "s7", "s8"}
                       \/ (cst' \in {"s0", "s15", "letgo"} /\ Done')
         /\ cst' \in {"s10", "s11", "s12"} => Done'
<1> DEFINE out == CpuOut(cst, CpuIn)
           t   == CpuNext(cst, CpuIn)
<1>1. /\ edge = "CLK90+" /\ edge' = "CLK135+" /\ cst' = t
      /\ cout' = CpuRegistered(out, RIFIFO_o, RDFIFO_o)
      /\ UNCHANGED <<COUNT, BYTE_PTR, step, FLUSHFIFO, cFLUSH>>
  BY Rise90Frame DEF fifoSide, regSide, syncSide
<1>2. /\ cst \in DrainStates \cup {"s0", "letgo", "s20"} /\ cst \in CpuStates
      /\ RIFIFO_o \in BOOLEAN /\ RDFIFO_o \in BOOLEAN
  BY RequestDir DEF Known, BusInv, RequestInv, CpuStates
<1>3. /\ CpuIn.dir /\ CpuIn.a1 = A1 /\ CpuIn.last = LASTWORD /\ CpuIn.empty = (COUNT = 0)
      /\ CpuIn.boeq3 = (BYTE_PTR = 3)
      /\ DrainDue(CpuIn) => COUNT = DEPTH \/ cFLUSH
  BY DEF CpuIn, FIFOEMPTY, FIFOFULL, BOEQ3, DrainDue
<1>4. "STOPFLUSH" \in cout' <=> "STOPFLUSH" \in out
  <2> HIDE DEF out
  <2>1. QED
    BY <1>1, <1>2, Registered
<1>5. /\ t \in DrainStates \cup {"s0", "letgo", "s20"}
      /\ t = "s0" => cst \in {"s0", "letgo", "s20"}
      /\ t = "letgo" => cst = "s15"
      /\ t = "s20" => cst = "s20"
      /\ t = "s1" => cst = "s1" \/ (cst = "s0" /\ (COUNT = DEPTH \/ cFLUSH))
      /\ t = "s2" => cst = "s1" /\ ~A1
      /\ t = "s3" => cst = "s2" \/ (cst = "s15" /\ (COUNT # 0 \/ LASTWORD))
      /\ t = "s4" => cst \in {"s3", "s4"}
      /\ t = "s6" => cst = "s1" /\ A1
      /\ t = "s7" => cst = "s6"
      /\ t = "s8" => cst \in {"s7", "s8"}
      /\ t = "s10" => cst = "s1" /\ ~A1 /\ LASTWORD /\ BYTE_PTR # 3 /\ "STOPFLUSH" \in cout'
      /\ t = "s11" => \/ cst = "s10"
                      \/ cst = "s15" /\ LASTWORD /\ BYTE_PTR # 3 /\ "STOPFLUSH" \in cout'
      /\ t = "s12" => cst \in {"s11", "s12"}
      /\ t # "s15"
  BY <1>2, <1>3, <1>4, MoveOnTable
<1>6. LASTWORD => FLUSHFIFO /\ COUNT = 0 /\ BYTE_PTR # 0
  BY DEF LASTWORD, BOEQ0, FIFOEMPTY
<1>7. BYTE_PTR \in 0..3 /\ DEPTH # 0
  BY DepthType DEF Known, TypeOK, FifoTypeOK
<1>8. /\ A1 => Odd = 2 /\ cst \in {"s0", "s1", "s6", "s7", "s20"}
      /\ cst \in {"s6", "s7", "s8"} => Odd = 2
      /\ Odd = 2 => \/ A1 \/ cst \in {"s6", "s7", "s8"}
                    \/ (cst \in {"s0", "s15", "letgo"} /\ Done)
      /\ cst \in {"s10", "s11", "s12"} => Done
  BY DEF DrainInv, Odd
<1>9. ~(A1 /\ cst = "s7")
  BY <1>1 DEF CountInv, A1Inv
<1>10. Done => COUNT = 0 /\ BYTE_PTR \in {1, 2} /\ step \in After \cup {"halt"} /\ ~FLUSHFIFO
  BY <1>1 DEF Done, Past
<1>11. Done /\ cFLUSH => cst \in {"s10", "s11"}
  BY <1>1 DEF Done
<1>12. (cst = "s1" /\ t = "s10") \/ cst = "s15" => ~CpuAS
  <2>1. (cst = "s1" /\ t = "s10") => Granted(CpuIn)
    BY <1>2, MasterTable DEF NotMaster
  <2>2. Granted(CpuIn) => ~CpuAS
    BY DEF Granted, CpuIn, Known, BusInv
  <2>3. cst = "s15" => ~CpuAS
    BY DEF Known, BusInv, NotMaster
  <2>4. QED
    BY <2>1, <2>2, <2>3
<1>13. FLUSHFIFO => (step = "flush" /\ CpuAS) \/ step \in After
  BY DEF CountInv, FlushInv
<1> HIDE DEF out, t, Odd
<1>14. Done' <=>
         /\ COUNT = 0 /\ BYTE_PTR \in {1, 2} /\ step \in After \cup {"halt"}
         /\ FLUSHFIFO => "STOPFLUSH" \in cout' /\ cst' \in {"s10", "s11"}
         /\ cFLUSH => cst' \in {"s10", "s11", "s12", "s15"}
  BY <1>1 DEF Done, Past
<1>15. cst' \in {"s10", "s11", "s12"} => Done'
  <2>1. CASE cst' = "s10" \/ (cst' = "s11" /\ cst = "s15")
    BY <1>1, <1>5, <1>6, <1>7, <1>12, <1>13, <1>14, <2>1
  <2>2. CASE (cst' = "s11" /\ cst = "s10") \/ cst' = "s12"
    BY <1>1, <1>5, <1>8, <1>10, <1>11, <1>14, <2>2
  <2>3. QED
    BY <1>1, <1>5, <2>1, <2>2
<1>16. A1 => cst' \in {"s0", "s1", "s6", "s7", "s20"}
  BY <1>1, <1>5, <1>8, <1>9 DEF DrainStates
<1>17. cst' \in {"s6", "s7", "s8"} => Odd = 2
  BY <1>1, <1>5, <1>8
<1>18. ASSUME Odd = 2, ~A1, cst' \notin {"s6", "s7", "s8"}
       PROVE  cst' \in {"s0", "s15", "letgo"} /\ Done'
  <2>1. CASE cst \in {"s6", "s7", "s8"}
    BY <1>1, <1>5, <1>18, <2>1 DEF DrainStates
  <2>2. CASE cst \in {"s0", "s15", "letgo"} /\ Done
    <3>1. cst' \in {"s0", "letgo"}
      BY <1>1, <1>5, <1>6, <1>7, <1>10, <1>11, <1>18, <2>2 DEF DrainStates
    <3>2. QED
      BY <1>10, <1>11, <1>14, <2>2, <3>1
  <2>3. QED
    BY <1>8, <1>18, <2>1, <2>2
<1>19. QED
  BY <1>15, <1>16, <1>17, <1>18

(* What the places and the longwords are counted in.                       *)
LEMMA DrainTypes ==
  ASSUME Known, LeftInv
  PROVE  /\ First(xfer) \in {0, 2} /\ Len(sink) \in Nat /\ Put \in Nat /\ Place \in Nat
         /\ left \in Nat /\ xfer.len \in Nat /\ left <= xfer.len
         /\ BYTE_PTR \in 0..3 /\ Lag \in {0, 1} /\ Held \in Int /\ COUNT \in Nat
<1>1. /\ First(xfer) \in {0, 2} /\ Len(sink) \in Nat
      /\ left \in Nat /\ xfer.len \in Nat /\ left <= xfer.len
      /\ BYTE_PTR \in 0..3 /\ Lag \in {0, 1} /\ COUNT \in Nat
  BY LenProperties, DepthType DEF Known, LeftInv, DackInv, TypeOK, MachineTypeOK, FifoTypeOK, First,
                                  Lag
<1>2. Put \in Nat
  BY CycleInPort, Zenon DEF Put, Known
<1>3. Held \in Int
  <2>1. \A b : Under(b) \in Int
    BY DEF Under
  <2> HIDE DEF Under
  <2>2. QED
    BY <1>1, <2>1 DEF Held
<1> HIDE DEF First, Put, Held, Lag
<1>4. Place \in Nat
  BY <1>1, <1>2 DEF Place
<1>5. QED
  BY <1>1, <1>2, <1>3, <1>4

(* posedge CLK90: the chip has given a byte more, or memory gets a cycle's.*)
LEMMA DrainRise90 ==
  ASSUME Known, CycleInv, PortInv, CountInv, DrainInv, Clk90Rise
  PROVE  DrainInv'
<1>1. /\ edge = "CLK90+" /\ edge' = "CLK135+" /\ sout' = ScsiOut(sst, ScsiIn)
      /\ UNCHANGED <<BYTE_PTR, DMADIR, DMAENA, A1, step, xfer, COUNT, FLUSHFIFO, cFLUSH>>
  BY Rise90Frame DEF fifoSide, regSide, syncSide
<1>2. "RIFIFO" \in sout' => BYTE_PTR' = 3
  <2>1. ScsiIn.boeq3 = (BYTE_PTR = 3)
    BY DEF ScsiIn, BOEQ3
  <2>2. QED
    BY <1>1, <2>1, ByteTable
<1> SUFFICES ASSUME DMAENA, DMADIR
             PROVE  /\ Odd' \in {0, 2}
                    /\ First(xfer)' + (xfer.len' - left') + Odd'
                          = BYTE_PTR' + Lag' + 4 * Held' + Place'
                    /\ A1 => First(xfer)' = 2 /\ Place' = 2
                               /\ cst' \in {"s0", "s1", "s6", "s7", "s20"}
                    /\ cst' \in {"s6", "s7", "s8"} => Odd' = 2
                    /\ Odd' = 2 => \/ A1 \/ cst' \in {"s6", "s7", "s8"}
                                   \/ (cst' \in {"s0", "s15", "letgo"} /\ Done')
                    /\ cst' \in {"s10", "s11", "s12"} => Done'
  BY <1>1, <1>2 DEF DrainInv
<1>3. First(xfer)' = First(xfer) /\ xfer.len' = xfer.len
  BY <1>1 DEF First
<1>4. /\ First(xfer) \in {0, 2} /\ Len(sink) \in Nat /\ Put \in Nat /\ Place \in Nat
      /\ left \in Nat /\ xfer.len \in Nat /\ left <= xfer.len
      /\ BYTE_PTR \in 0..3 /\ Lag \in {0, 1} /\ Held \in Int
  BY DrainTypes DEF CountInv
<1>5. \/ left' = left /\ Lag' = Lag
      \/ left > 0 /\ left' = left - 1 /\ Lag = 0 /\ Lag' = 1
  BY ByteRise90 DEF CountInv
<1>6. Held' = Held - Under("DECFIFO" \in cout')
  BY HeldRise90
<1>7. UNCHANGED sink /\ Put = 0
  BY CycleRise90 DEF CountInv
<1>8. /\ Odd \in {0, 2}
      /\ First(xfer) + (xfer.len - left) + Odd = BYTE_PTR + Lag + 4 * Held + Place
      /\ A1 => First(xfer) = 2 /\ Place = 2 /\ cst \in {"s0", "s1", "s6", "s7", "s20"}
      /\ cst \in {"s6", "s7", "s8"} => Odd = 2
      /\ Odd = 2 => cst \notin {"s3", "s4", "s11", "s12"}
      /\ cst \in {"s10", "s11", "s12"} => Done
  BY DEF DrainInv, CountInv, A1Inv
<1>9. ASSUME NEW n \in {0, 2, 4}, Put' = n PROVE Place' = Place + n
  <2> HIDE DEF First, Put
  <2>1. Place = First(xfer) + Len(sink) + Put /\ Place' = First(xfer)' + Len(sink') + Put'
    BY DEF Place
  <2>2. QED
    BY <1>3, <1>4, <1>7, <1>9, <2>1
<1>10. ASSUME NEW n \in {0, 2, 4}, Put' = n
       PROVE  Odd' = IF n = 2 THEN 2 - Odd ELSE Odd
  <2>1. Odd = Place % 4 /\ Odd' = Place' % 4
    BY DEF Odd
  <2>2. Place' = Place + n
    BY <1>9, <1>10
  <2> HIDE DEF Place, Put, Odd
  <2>3. n = 0 => Place' = Place
    BY <1>4, <2>2
  <2>4. QED
    BY <1>4, <1>8, <2>1, <2>2, <2>3, Further
<1>11. ASSUME NEW n \in {0, 2, 4}, NEW d \in {0, 1}, Put' = n,
              Under("DECFIFO" \in cout') = d, Odd' = Odd + n - 4 * d
       PROVE  First(xfer)' + (xfer.len' - left') + Odd'
                = BYTE_PTR' + Lag' + 4 * Held' + Place'
  <2>1. Place' = Place + n
    BY <1>9, <1>11
  <2>2. Held' = Held - d
    BY <1>6, <1>11
  <2>3. First(xfer) + (xfer.len - left') + Odd = BYTE_PTR + Lag' + 4 * Held + Place
    <3> HIDE DEF First, Place, Odd, Held, Lag
    <3>1. CASE left' = left /\ Lag' = Lag
      BY <1>8, <3>1
    <3>2. CASE left > 0 /\ left' = left - 1 /\ Lag = 0 /\ Lag' = 1
      <4>1. First(xfer) + (xfer.len - left') = First(xfer) + (xfer.len - left) + 1
        BY <1>4, <3>2
      <4>2. QED
        BY <1>4, <1>8, <3>2, <4>1, SMTT(30)
    <3>3. QED
      BY <1>5, <3>1, <3>2
  <2>4. left' \in Nat /\ Lag' \in {0, 1} /\ BYTE_PTR' = BYTE_PTR
    BY <1>1, <1>4, <1>5
  <2> HIDE DEF First, Place, Odd, Held, Lag
  <2>5. First(xfer)' + (xfer.len' - left') = First(xfer) + (xfer.len - left')
    BY <1>3
  <2> DEFINE x == First(xfer) + (xfer.len - left')
  <2>6. x \in Int
    BY <1>4, <2>4
  <2>7. x + Odd = BYTE_PTR + Lag' + 4 * Held + Place
    BY <2>3
  <2> HIDE DEF x
  <2>8. x + Odd' = BYTE_PTR' + Lag' + 4 * Held' + Place'
    <3>1. /\ Odd \in Int /\ BYTE_PTR \in Int /\ Lag' \in Int /\ Place \in Int
          /\ n \in Int /\ d \in Int
      BY <1>4, <1>8, <2>4
    <3>2. 4 * Held' = 4 * Held - 4 * d
      BY <1>4, <2>2, <3>1
    <3>3. x + (Odd + n - 4 * d) = BYTE_PTR + Lag' + (4 * Held - 4 * d) + (Place + n)
      <4> DEFINE r == BYTE_PTR + Lag'
                 q == 4 * Held
                 e == 4 * d
      <4>1. r \in Int /\ q \in Int /\ e \in Int
        BY <1>4, <3>1
      <4>2. x + Odd = r + q + Place
        BY <2>7
      <4> HIDE DEF r, q, e
      <4>3. x + (Odd + n - e) = r + (q - e) + (Place + n)
        BY <2>6, <3>1, <4>1, <4>2
      <4>4. QED
        BY <4>3 DEF r, q, e
    <3>4. Odd' = Odd + n - 4 * d
      BY <1>11
    <3>5. QED
      BY <2>1, <2>4, <3>2, <3>3, <3>4
  <2>9. QED
    BY <2>5, <2>8 DEF x
<1>12. CASE Put' = 0 /\ "DECFIFO" \notin cout' /\ (cst \in Strobing => "PAS" \in CpuOut(cst, CpuIn))
  <2>1. Odd' = Odd /\ Under("DECFIFO" \in cout') = 0
    BY <1>10, <1>12 DEF Under
  <2>2. Place' = Place
    BY <1>4, <1>9, <1>12
  <2>3. First(xfer)' + (xfer.len' - left') + Odd' = BYTE_PTR' + Lag' + 4 * Held' + Place'
    BY <1>8, <1>11, <1>12, <2>1
  <2>4. /\ A1 => cst' \in {"s0", "s1", "s6", "s7", "s20"}
        /\ cst' \in {"s6", "s7", "s8"} => Odd = 2
        /\ Odd = 2 => \/ A1 \/ cst' \in {"s6", "s7", "s8"}
                      \/ (cst' \in {"s0", "s15", "letgo"} /\ Done')
        /\ cst' \in {"s10", "s11", "s12"} => Done'
    BY <1>12, PlaceKept
  <2> HIDE DEF First, Put, Place, Odd, Held, Lag, Done
  <2>5. QED
    BY <1>3, <1>8, <2>1, <2>2, <2>3, <2>4
<1>13. CASE Put' = 4 /\ cst \in {"s3", "s4"} /\ cst' = "s15" /\ "DECFIFO" \in cout'
  <2>1. Odd = 0 /\ Odd' = 0 /\ Under("DECFIFO" \in cout') = 1 /\ ~A1
    BY <1>8, <1>10, <1>13 DEF Under
  <2>2. First(xfer)' + (xfer.len' - left') + Odd' = BYTE_PTR' + Lag' + 4 * Held' + Place'
    BY <1>11, <1>13, <2>1
  <2> HIDE DEF First, Put, Place, Odd, Held, Lag, Done
  <2>3. QED
    BY <1>13, <2>1, <2>2
<1>14. CASE Put' = 2 /\ cst = "s4" /\ cst' = "s6" /\ "DECFIFO" \notin cout'
  <2>1. Odd = 0 /\ Odd' = 2 /\ Under("DECFIFO" \in cout') = 0 /\ ~A1
    BY <1>8, <1>10, <1>14 DEF Under
  <2>2. First(xfer)' + (xfer.len' - left') + Odd' = BYTE_PTR' + Lag' + 4 * Held' + Place'
    BY <1>11, <1>14, <2>1
  <2> HIDE DEF First, Put, Place, Odd, Held, Lag, Done
  <2>3. QED
    BY <1>14, <2>1, <2>2
<1>15. CASE Put' = 2 /\ cst \in {"s7", "s8"} /\ cst' = "s15" /\ "DECFIFO" \in cout'
  <2>1. Odd = 2 /\ Odd' = 0 /\ Under("DECFIFO" \in cout') = 1
    BY <1>8, <1>10, <1>15 DEF Under
  <2>2. First(xfer)' + (xfer.len' - left') + Odd' = BYTE_PTR' + Lag' + 4 * Held' + Place'
    BY <1>11, <1>15, <2>1
  <2>3. ~A1
    BY <1>1, <1>15 DEF CountInv, A1Inv, PortInv
  <2> HIDE DEF First, Put, Place, Odd, Held, Lag, Done
  <2>4. QED
    BY <1>15, <2>1, <2>2, <2>3
<1>16. CASE Put' = 2 /\ cst \in {"s11", "s12"} /\ cst' = "s15" /\ "DECFIFO" \notin cout'
  <2>1. Odd = 0 /\ Odd' = 2 /\ Under("DECFIFO" \in cout') = 0 /\ ~A1
    BY <1>8, <1>10, <1>16 DEF Under
  <2>2. First(xfer)' + (xfer.len' - left') + Odd' = BYTE_PTR' + Lag' + 4 * Held' + Place'
    BY <1>11, <1>16, <2>1
  <2>3. Done'
    BY <1>1, <1>8, <1>16 DEF Done, Past
  <2> HIDE DEF First, Put, Place, Odd, Held, Lag, Done
  <2>4. QED
    BY <1>16, <2>1, <2>2, <2>3
<1>17. QED
  BY <1>12, <1>13, <1>14, <1>15, <1>16, CycleRise90 DEF CountInv

(* A function of the first numbers is a sequence as long.                  *)
LEMMA AsSequence ==
  ASSUME NEW n \in Nat, NEW T, NEW f \in [1..n -> T]
  PROVE  f \in Seq(T) /\ Len(f) = n
<1>1. f \in Seq(T)
  BY SeqDef
<1>2. Len(f) \in Nat /\ DOMAIN f = 1..Len(f)
  BY <1>1, LenProperties
<1>3. 1..n = 1..Len(f)
  BY <1>2
<1>4. QED
  BY <1>1, <1>2, <1>3

(* negedge SCLK: memory takes the bytes of the cycle that ends, if it is a *)
(* drain.                                                                  *)
LEMMA SinkFall ==
  ASSUME Known, CycleInv, ClkFall, ~Begins
  PROVE  /\ DMADIR => Len(sink') = Len(sink) + Put
         /\ ~DMADIR \/ ~AS_O => sink' = sink
         /\ Put' = 0 /\ UNCHANGED <<xfer, left>>
<1> DEFINE over  == AS_O /\ ~PAS /\ term # "none"
           size1 == "SIZE1" \in cout
           data  == DATA_O(cout, "S2CPU" \in sout)
           n     == CycleBytes(DMADIR, size1)
           taken == [k \in 1..n |-> data[MemOffset(TRUE) + k]]
<1>1. /\ edge = "CLK-" /\ edge' = "CLK90-"
      /\ CpuBus(OWN, DACK, RegDsack, FE) /\ MemCycleEnds(over, DMADIR, size1, data)
  <2>1. ~StartTransfer
    BY DEF StartTransfer, Begins, cpuBusVars
  <2>2. QED
    BY <2>1 DEF ClkFall, At
<1>2. Put' = 0
  BY <1>1 DEF Put, Landing
<1>3. UNCHANGED <<xfer, left>>
  BY <1>1 DEF CpuBus, Interrupt, StartCycle, SeeDsack, EndCycle, CpuRests, driverVars
<1>4. sink' = IF over /\ DMADIR THEN sink \o taken ELSE sink
  BY <1>1, Zenon DEF MemCycleEnds
<1>5. ASSUME DMADIR PROVE Len(sink') = Len(sink) + Put
  <2>1. Put = IF over THEN n ELSE 0
    <3>1. AS_O /\ ~PAS => term # "none"
      BY <1>1 DEF CycleInv, BeforeFall
    <3>2. CycleBytes(TRUE, size1) = n
      <4>1. DMADIR = TRUE
        BY <1>5 DEF Known, TypeOK, RegTypeOK
      <4>2. QED
        BY <4>1, Zenon
    <3> HIDE DEF n, size1
    <3>3. Put = IF AS_O /\ ~PAS THEN CycleBytes(TRUE, size1) ELSE 0
      BY <1>1 DEF Put, Landing, size1
    <3>4. QED
      BY <3>1, <3>2, <3>3
  <2>2. sink \in Seq(Int \cup {CpuByte}) /\ n \in Nat
    BY CycleInPort, Zenon DEF Known, TypeOK, MachineTypeOK
  <2> HIDE DEF over, n, data
  <2>3. taken \in Seq({data[MemOffset(TRUE) + k] : k \in 1..n}) /\ Len(taken) = n
    <3>1. taken \in [1..n -> {data[MemOffset(TRUE) + k] : k \in 1..n}]
      OBVIOUS
    <3> HIDE DEF taken
    <3>2. QED
      BY <2>2, <3>1, AsSequence
  <2> HIDE DEF taken
  <2>4. Len(sink \o taken) = Len(sink) + n
    BY <2>2, <2>3, ConcatProperties
  <2>5. QED
    BY <1>4, <1>5, <2>1, <2>2, <2>4
<1>6. ~DMADIR \/ ~AS_O => sink' = sink
  BY <1>4
<1>7. QED
  BY <1>2, <1>3, <1>5, <1>6

(* negedge SCLK: what has landed is counted.                               *)
LEMMA HeldFall ==
  ASSUME Known, RoomInv, ClkFall, ~RST_FIFO
  PROVE  Held' = Held
<1>1. /\ edge = "CLK-" /\ edge' = "CLK90-"
      /\ UNCHANGED <<sst, BYTE_PTR, RIFIFO_o>>
  BY FallFrame DEF bothVars, askSide
<1>2. COUNT \in Nat
  BY DepthType DEF Known, TypeOK, FifoTypeOK
<1>3. /\ "DECFIFO" \in cout => COUNT' = COUNT - 1 /\ "INCFIFO" \notin cout
      /\ "INCFIFO" \in cout => COUNT' = COUNT + 1
      /\ "INCFIFO" \notin cout /\ "DECFIFO" \notin cout => COUNT' = COUNT
  BY CountSteps
<1>4. Wrapping' = Wrapping
  BY <1>1 DEF Wrapping
<1> DEFINE r == Under(RIFIFO_o)
           w == Under(Wrapping)
<1>5. r \in Int /\ w \in Int
  BY DEF Under
<1>6. Held = COUNT + Under("INCFIFO" \in cout) + r - Under("DECFIFO" \in cout) - w
  BY <1>1 DEF Held, Landing, Under
<1>7. Held' = COUNT' + r - w
  BY <1>1, <1>2, <1>3, <1>4, <1>5 DEF Held, Landing, Under
<1> HIDE DEF r, w, Held
<1>8. QED
  BY <1>2, <1>3, <1>5, <1>6, <1>7 DEF Under

(* negedge SCLK: memory has taken the bytes and the count its step.        *)
LEMMA DrainFall ==
  ASSUME Whole, Known, CycleInv, CountInv, DrainInv, ClkFall
  PROVE  DrainInv'
<1>1. /\ edge = "CLK-" /\ edge' = "CLK90-"
      /\ UNCHANGED <<cst, cout, sst, sout, DMADIR, DMAENA, A1, FLUSHFIFO, cFLUSH, BYTE_PTR>>
  BY FallFrame DEF bothVars, regSide, syncSide
<1> SUFFICES ASSUME DMAENA, DMADIR
             PROVE  /\ Odd' \in {0, 2}
                    /\ First(xfer)' + (xfer.len' - left') + Odd'
                          = BYTE_PTR' + Lag' + 4 * Held' + Place'
                    /\ A1 => First(xfer)' = 2 /\ Place' = 2
                               /\ cst \in {"s0", "s1", "s6", "s7", "s20"}
                    /\ cst \in {"s6", "s7", "s8"} => Odd' = 2
                    /\ Odd' = 2 => \/ A1 \/ cst \in {"s6", "s7", "s8"}
                                   \/ (cst \in {"s0", "s15", "letgo"} /\ Done')
                    /\ cst \in {"s10", "s11", "s12"} => Done'
  BY <1>1 DEF DrainInv
<1>2. ~Begins
  BY DEF Begins, Known, RestInv, StopInv, AtRest, OffSteps
<1>3. ~RST_FIFO
  BY DEF RST_FIFO, CountInv, FlushInv
<1>4. UNCHANGED <<xfer, left>> /\ Len(sink') = Len(sink) + Put /\ Put' = 0
  BY <1>2, SinkFall
<1>5. /\ First(xfer) \in {0, 2} /\ Len(sink) \in Nat /\ Put \in Nat /\ COUNT \in Nat
  BY DrainTypes DEF CountInv
<1>6. First(xfer)' = First(xfer) /\ Lag' = Lag
  BY <1>1, <1>4 DEF First, Lag
<1>7. Place' = Place
  <2> HIDE DEF First, Put
  <2>1. Place' = First(xfer)' + Len(sink') + Put'
    BY DEF Place
  <2>2. Place = First(xfer) + Len(sink) + Put
    BY DEF Place
  <2>3. QED
    BY <1>4, <1>5, <1>6, <2>1, <2>2
<1>8. Odd' = Odd
  BY <1>7 DEF Odd
<1>9. Held' = Held
  BY <1>3, HeldFall DEF CountInv
<1>10. Done => Done'
  <2> SUFFICES ASSUME Done PROVE Done'
    OBVIOUS
  <2>1. COUNT = 0 /\ BYTE_PTR \in {1, 2} /\ step \in After \cup {"halt"}
    BY DEF Done
  <2>2. OwnStep
    BY <2>1 DEF CountInv, QuietInv, After, Still
  <2>3. "INCFIFO" \notin cout /\ "DECFIFO" \notin cout
    BY <1>1, <2>1, <2>2, RequestDir DEF OwnStep, Landing, FillStates, CountInv, RoomInv
  <2>4. COUNT' = 0
    BY <1>3, <2>1, <2>3, CountSteps DEF CountInv
  <2>5. step' \in After \cup {"halt"}
    <3>1. step = "halt" => ~REG_DSK
      BY DEF Known, RestInv, StopInv, Stopping, AtRest, StepInv, AccessInv
    <3>2. Rests \/ Halts \/ Starts \/ Sees \/ Ends
      BY <1>2, HostMoves
    <3>3. step' = step \/ Ends
      BY <2>1, <3>2 DEF Rests, Halts, Starts, Sees, hostSide, After
    <3>4. Ends => step # "halt" /\ (step' = step \/ step' = StepAfter(step, xfer.dir))
      BY <3>1 DEF Ends
    <3>5. QED
      BY <2>1, <3>3, <3>4 DEF After, StepAfter
  <2>6. cFLUSH => cst \in {"s10", "s11"}
    BY <1>1 DEF Done
  <2>7. QED
    BY <1>1, <2>1, <2>4, <2>5, <2>6 DEF Done, Past
<1> HIDE DEF First, Place, Odd, Held, Lag, Done
<1>11. QED
  BY <1>1, <1>4, <1>6, <1>7, <1>8, <1>9, <1>10 DEF DrainInv

(* posedge CLK135: the request of the longword the byte pointer leaves.    *)
LEMMA HeldRise135 ==
  ASSUME Known, CountInv, DrainInv, DMADIR, Clk135Rise
  PROVE  Held' = Held
<1>1. /\ edge = "CLK135+" /\ edge' = "CLK-"
      /\ RIFIFO_o' = ("INCFIFO" \notin cout /\ (RIFIFO_o \/ "RIFIFO" \in sout))
      /\ UNCHANGED <<cout, sst, BYTE_PTR, COUNT>>
  BY Rise135Frame DEF bothVars
<1>2. COUNT \in Nat /\ RIFIFO_o \in BOOLEAN
  BY DepthType DEF Known, RequestInv, TypeOK, FifoTypeOK
<1> DEFINE i == Under("INCFIFO" \in cout)
           d == Under("DECFIFO" \in cout)
<1>3. i \in Int /\ d \in Int
  BY DEF Under
<1>4. Held = COUNT + i + Under(RIFIFO_o) - d - Under(FALSE)
  BY <1>1 DEF Held, Landing, Wrapping, Under
<1>5. Wrapping' <=> sst = "S2F_4" /\ BYTE_PTR = 3
  BY <1>1 DEF Wrapping
<1>6. Held' = COUNT + i + Under(RIFIFO_o') - d - Under(Wrapping')
  BY <1>1, <1>2, <1>3 DEF Held, Landing, Under
<1>7. CASE "RIFIFO" \in sout
  <2>1. sst = "S2F_4" /\ BYTE_PTR = 3 /\ ~RIFIFO_o
    BY <1>1, <1>7 DEF Known, RequestInv, DrainInv
  <2>2. "INCFIFO" \notin cout
    BY <1>1, <2>1 DEF CountInv, RoomInv, Landing, ToFifo
  <2>3. RIFIFO_o' /\ Wrapping'
    BY <1>1, <1>5, <1>7, <2>1, <2>2
  <2> HIDE DEF i, d, Wrapping, Held
  <2>4. QED
    BY <1>2, <1>3, <1>4, <1>6, <2>1, <2>3 DEF Under
<1>8. CASE "RIFIFO" \notin sout
  <2>1. ~Wrapping'
    BY <1>1, <1>5, <1>8 DEF CountInv, ByteInv
  <2>2. RIFIFO_o => "INCFIFO" \notin cout
    BY <1>1 DEF CountInv, RoomInv, Landing
  <2>3. RIFIFO_o' <=> RIFIFO_o
    BY <1>1, <1>8, <2>2
  <2> HIDE DEF i, d, Wrapping, Held
  <2>4. QED
    BY <1>2, <1>3, <1>4, <1>6, <2>1, <2>3 DEF Under
<1>9. QED
  BY <1>7, <1>8

(* posedge CLK135: the sample of FLUSHFIFO ends with it.                   *)
LEMMA DrainRise135 ==
  ASSUME Known, CountInv, DrainInv, Clk135Rise
  PROVE  DrainInv'
<1>1. /\ edge = "CLK135+" /\ edge' = "CLK-" /\ cFLUSH' = FLUSHFIFO
      /\ UNCHANGED <<cst, cout, sst, sout, DMADIR, DMAENA, A1, FLUSHFIFO, BYTE_PTR, COUNT,
                     step, xfer, left>>
  BY Rise135Frame DEF bothVars, regSide, hostSide
<1>2. UNCHANGED <<AS_O, sink, port>>
  BY DEF Clk135Rise, pinVars, machineVars, driverVars
<1>3. Put' = Put /\ Place' = Place /\ Odd' = Odd /\ Lag' = Lag /\ First(xfer)' = First(xfer)
  <2>1. Put' = Put
    BY <1>1, <1>2, Zenon DEF Put, Landing, PAS, CycleBytes, MemOffset, Width
  <2>2. First(xfer)' = First(xfer) /\ Lag' = Lag
    BY <1>1 DEF First, Lag
  <2> HIDE DEF Put, First
  <2>3. Place' = Place
    BY <1>2, <2>1, <2>2 DEF Place
  <2> HIDE DEF Place
  <2>4. QED
    BY <2>1, <2>2, <2>3 DEF Odd
<1>4. DMADIR => Held' = Held
  BY HeldRise135
<1>5. Done => Done'
  BY <1>1 DEF Done, Past
<1> HIDE DEF First, Put, Place, Odd, Held, Lag, Done
<1>6. QED
  BY <1>1, <1>3, <1>4, <1>5 DEF DrainInv

(* negedge CLK90: the byte pointer takes up the byte that lagged.          *)
LEMMA HeldFall90 ==
  ASSUME Known, CountInv, DMADIR, ~RST_FIFO, Clk90Fall
  PROVE  BYTE_PTR' + Lag' + 4 * Held' = BYTE_PTR + Lag + 4 * Held
<1>1. /\ edge = "CLK90-" /\ edge' = "CLK135-"
      /\ UNCHANGED <<sst, sout, cout, COUNT, RIFIFO_o>>
      /\ BYTE_PTR' = IF "INCBO" \in sout THEN (BYTE_PTR + 1) % 4 ELSE BYTE_PTR
  BY Fall90Frame DEF bothVars, askSide
<1>2. COUNT \in Nat /\ BYTE_PTR \in 0..3
  BY DepthType DEF Known, TypeOK, FifoTypeOK
<1>3. "INCBO" \in sout <=> sst = "S2F_4"
  BY RequestDir DEF CountInv, ByteInv, FromFifo
<1> DEFINE r == Under(RIFIFO_o)
           n == COUNT + r
<1>4. r \in Int
  BY DEF Under
<1>5. Held = n - Under(Wrapping)
  BY <1>1, <1>2, <1>4 DEF Held, Landing, Under
<1>6. Held' = n
  BY <1>1, <1>2, <1>4 DEF Held, Landing, Wrapping, Under
<1>7. n \in Int
  BY <1>2, <1>4
<1> HIDE DEF n, r
<1>8. CASE sst = "S2F_4"
  <2>1. /\ Lag = 1 /\ Lag' = 0
        /\ BYTE_PTR' = IF BYTE_PTR = 3 THEN 0 ELSE BYTE_PTR + 1
        /\ Wrapping <=> BYTE_PTR = 3
    BY <1>1, <1>2, <1>3, <1>8 DEF Lag, Wrapping
  <2> HIDE DEF Lag, Wrapping, Held
  <2>2. CASE BYTE_PTR = 3
    <3>1. Held = n - 1
      BY <1>5, <2>1, <2>2 DEF Under
    <3>2. QED
      BY <1>6, <1>7, <2>1, <2>2, <3>1
  <2>3. CASE BYTE_PTR # 3
    <3>1. Held = n
      BY <1>5, <1>7, <2>1, <2>3 DEF Under
    <3>2. QED
      BY <1>2, <1>6, <1>7, <2>1, <2>3, <3>1
  <2>4. QED
    BY <2>2, <2>3
<1>9. CASE sst # "S2F_4"
  <2>1. Lag = Lag' /\ BYTE_PTR' = BYTE_PTR /\ ~Wrapping
    BY <1>1, <1>3, <1>9 DEF Lag, Wrapping
  <2> HIDE DEF Lag, Wrapping, Held
  <2>2. Held = n
    BY <1>5, <1>7, <2>1 DEF Under
  <2>3. QED
    BY <1>6, <2>1, <2>2
<1>10. QED
  BY <1>8, <1>9

(* negedge CLK90: FLUSHFIFO falls, or DMA comes on with A1 in the byte     *)
(* pointer.                                                                *)
LEMMA DrainFall90 ==
  ASSUME Known, CycleInv, CountInv, PartInv, DrainInv, SinkInv, Clk90Fall
  PROVE  DrainInv'
<1>1. /\ edge = "CLK90-" /\ edge' = "CLK135-"
      /\ UNCHANGED <<cst, cout, sst, sout, COUNT, RIFIFO_o, cFLUSH, step, xfer, left>>
      /\ BYTE_PTR' = IF RST_FIFO THEN (IF A1 THEN 2 ELSE 0)
                     ELSE IF "INCBO" \in sout THEN (BYTE_PTR + 1) % 4 ELSE BYTE_PTR
  BY Fall90Frame DEF bothVars, syncSide, hostSide, askSide
<1>2. /\ DMAENA' = IF CpuAS /\ step = "start" THEN TRUE
                   ELSE IF CpuAS /\ step \in {"halt", "idle"} THEN FALSE ELSE DMAENA
      /\ FLUSHFIFO' = ((CpuAS /\ step = "flush") \/ (FLUSHFIFO /\ "STOPFLUSH" \notin cout))
      /\ A1' = IF CpuAS /\ step = "addr" THEN xfer.a1 ELSE A1 /\ ~AS_O
      /\ ~(CpuAS /\ step \in {"setup", "restore"}) => (DMADIR' <=> DMADIR)
  BY RegWrites
<1>3. step \in OffSteps => ~DMAENA
  BY DEF Known, RestInv, StopInv, AtRest
<1>4. UNCHANGED sink
  BY DEF Clk90Fall, machineVars
<1>5. /\ First(xfer) \in {0, 2} /\ Len(sink) \in Nat /\ left \in Nat /\ xfer.len \in Nat
      /\ BYTE_PTR \in 0..3 /\ Lag \in {0, 1} /\ Held \in Int /\ Place \in Nat
  BY DrainTypes DEF CountInv
<1>6. First(xfer)' = First(xfer) /\ Put = 0 /\ Put' = 0
  BY <1>1 DEF First, Put, Landing
<1>7. Place = First(xfer) + Len(sink) /\ Place' = Place
  <2> HIDE DEF First, Put
  <2>1. QED
    BY <1>4, <1>5, <1>6 DEF Place
<1>8. Odd' = Odd
  BY <1>7 DEF Odd
<1>9. AS_O => cst \in PasStates
  BY <1>1 DEF CycleInv, Known, BusInv
<1> SUFFICES ASSUME DMAENA', DMADIR'
             PROVE  /\ Odd' \in {0, 2}
                    /\ First(xfer)' + (xfer.len' - left') + Odd'
                          = BYTE_PTR' + Lag' + 4 * Held' + Place'
                    /\ A1' => First(xfer)' = 2 /\ Place' = 2
                                /\ cst \in {"s0", "s1", "s6", "s7", "s20"}
                    /\ cst \in {"s6", "s7", "s8"} => Odd' = 2
                    /\ Odd' = 2 => \/ A1' \/ cst \in {"s6", "s7", "s8"}
                                   \/ (cst \in {"s0", "s15", "letgo"} /\ Done')
                    /\ cst \in {"s10", "s11", "s12"} => Done'
  BY <1>1 DEF DrainInv
<1>10. CASE DMAENA
  <2>1. DMADIR /\ A1' = (A1 /\ ~AS_O)
    BY <1>2, <1>3, <1>10 DEF OffSteps
  <2>2. ~RST_FIFO
    BY <1>10, <2>1 DEF RST_FIFO, CountInv, FlushInv
  <2>3. BYTE_PTR' + Lag' + 4 * Held' = BYTE_PTR + Lag + 4 * Held
    BY <2>1, <2>2, HeldFall90
  <2>4. Done => Done'
    <3> SUFFICES ASSUME Done PROVE Done'
      OBVIOUS
    <3>1. /\ COUNT = 0 /\ BYTE_PTR \in {1, 2} /\ step \in After \cup {"halt"}
          /\ FLUSHFIFO => "STOPFLUSH" \in cout
          /\ cFLUSH => cst \in {"s10", "s11"}
      BY <1>1 DEF Done
    <3>2. "INCBO" \notin sout
      BY <3>1 DEF CountInv, QuietInv, ByteInv, Quiet, After, Still, ToFifo, FromFifo
    <3>3. ~FLUSHFIFO'
      BY <1>2, <3>1 DEF After
    <3>4. QED
      BY <1>1, <2>2, <3>1, <3>2, <3>3 DEF Done
  <2>5. A1 /\ ~A1' => cst \in {"s6", "s7", "s8"}
    BY <1>9, <1>10, <2>1 DEF DrainInv, PasStates
  <2>6. First(xfer) + (xfer.len - left) + Odd = BYTE_PTR + Lag + 4 * Held + Place
    BY <1>10, <2>1 DEF DrainInv
  <2>7. First(xfer)' + (xfer.len' - left') + Odd' = BYTE_PTR' + Lag' + 4 * Held' + Place'
    <3> HIDE DEF First, Place, Odd, Held, Lag
    <3>1. QED
      BY <1>1, <1>6, <1>7, <1>8, <2>3, <2>6
  <2> HIDE DEF First, Place, Odd, Held, Lag, Done
  <2>8. QED
    BY <1>1, <1>6, <1>7, <1>8, <1>10, <2>1, <2>4, <2>5, <2>7 DEF DrainInv
<1>11. CASE ~DMAENA
  <2>1. NotOn /\ CpuAS /\ step = "start" /\ RST_FIFO
    BY <1>2, <1>11 DEF NotOn, RST_FIFO
  <2>2. /\ Quiet /\ COUNT = 0 /\ sink = <<>> /\ left = xfer.len /\ (A1 <=> xfer.a1)
        /\ cst \in {"s0", "s20"}
    BY <1>1, <2>1 DEF CountInv, QuietInv, PartInv, SinkInv, LeftInv, A1Inv, OnInv
  <2>3. A1' <=> A1
    BY <1>2, <1>9, <2>1, <2>2 DEF PasStates
  <2>4. /\ BYTE_PTR' = First(xfer) /\ (A1 <=> First(xfer) = 2)
        /\ Lag' = 0
    BY <1>1, <2>1, <2>2 DEF First, Lag, Quiet, ToFifo
  <2>5. Held' = 0
    <3>1. COUNT' = 0 /\ RIFIFO_o' = FALSE /\ ~Landing' /\ Wrapping' = FALSE
      BY <1>1, <2>2 DEF Quiet, Known, RequestInv, Landing, Wrapping
    <3>2. QED
      BY <3>1 DEF Held, Under
  <2>6. Place = First(xfer)
    BY <1>5, <1>7, <2>2
  <2> HIDE DEF First, Place, Held, Lag, Done
  <2>7. Odd' = First(xfer)
    BY <1>5, <1>8, <2>6 DEF Odd
  <2> HIDE DEF Odd
  <2>8. First(xfer)' + (xfer.len' - left') + Odd' = BYTE_PTR' + Lag' + 4 * Held' + Place'
    <3>1. xfer.len' - left' = 0
      BY <1>1, <1>5, <2>2
    <3> DEFINE f == First(xfer)
    <3>2. f \in Int
      BY <1>5
    <3>3. First(xfer)' = f /\ BYTE_PTR' = f /\ Place' = f /\ Odd' = f
      BY <1>6, <1>7, <2>4, <2>6, <2>7
    <3> HIDE DEF f
    <3>4. First(xfer)' + (xfer.len' - left') + Odd' = f + f
      BY <3>1, <3>2, <3>3
    <3>5. BYTE_PTR' + Lag' + 4 * Held' + Place' = f + f
      BY <2>4, <2>5, <3>2, <3>3
    <3>6. QED
      BY <3>4, <3>5
  <2>9. QED
    BY <1>5, <1>6, <1>7, <2>2, <2>3, <2>4, <2>6, <2>7, <2>8
<1>12. QED
  BY <1>10, <1>11

(* The other edges have nothing to do with it.                             *)
LEMMA DrainKept ==
  ASSUME DrainInv, UNCHANGED <<countVars, AS_O, sink, port>>,
         UNCHANGED edge \/ (edge \notin Past /\ edge' \notin Past)
  PROVE  DrainInv'
<1>1. /\ UNCHANGED <<cst, cout, sst, sout, DMADIR, DMAENA, A1, FLUSHFIFO, BYTE_PTR, COUNT>>
      /\ UNCHANGED <<step, xfer, left, cFLUSH, RIFIFO_o>>
  BY DEF countVars, bothVars, fifoSide, regSide, hostSide, syncSide, askSide
<1>2. First(xfer)' = First(xfer) /\ (Done => Done')
  BY <1>1 DEF First, Done, Past
<1>3. Landing' = Landing /\ Wrapping' = Wrapping /\ Lag' = Lag
  BY <1>1 DEF Landing, Wrapping, Lag, Past
<1>4. Put' = Put
  BY <1>1, <1>3, Zenon DEF Put, PAS, CycleBytes, MemOffset, Width
<1>5. Held' = Held
  BY <1>1, <1>3 DEF Held
<1>6. Place' = Place
  BY <1>2, <1>4 DEF Place
<1>7. Odd' = Odd
  BY <1>6 DEF Odd
<1> HIDE DEF First, Put, Place, Odd, Held, Lag, Done
<1>8. "RIFIFO" \in sout' /\ edge' = "CLK135+" => BYTE_PTR' = 3
  BY <1>1 DEF DrainInv, Past
<1>9. First(xfer)' + (xfer.len' - left') + Odd' = First(xfer) + (xfer.len - left) + Odd
  BY <1>1, <1>2, <1>7
<1>10. QED
  BY <1>1, <1>2, <1>3, <1>5, <1>6, <1>7, <1>8, <1>9 DEF DrainInv

(* Memory gets no more than the chip has given and what the flush of a     *)
(* partial longword adds to it.                                            *)
LEMMA Bound ==
  ASSUME Known, CountInv, DrainInv, DMAENA, DMADIR
  PROVE  Len(sink) + Put <= xfer.len + 1
<1>1. /\ First(xfer) \in {0, 2} /\ Len(sink) \in Nat /\ Put \in Nat /\ Place \in Nat
      /\ left \in Nat /\ xfer.len \in Nat /\ left <= xfer.len
      /\ BYTE_PTR \in 0..3 /\ Lag \in {0, 1} /\ Held \in Int /\ COUNT \in Nat
  BY DrainTypes DEF CountInv
<1>2. /\ Odd \in {0, 2}
      /\ First(xfer) + (xfer.len - left) + Odd = BYTE_PTR + Lag + 4 * Held + Place
      /\ A1 => First(xfer) = 2 /\ Place = 2
      /\ Odd = 2 => A1 \/ cst \in {"s6", "s7", "s8"} \/ Done
  BY DEF DrainInv
<1>3. Held >= IF cst \in {"s6", "s7", "s8"} THEN 1 ELSE 0
  <2> DEFINE i == Under(Landing /\ "INCFIFO" \in cout)
             d == Under(Landing /\ "DECFIFO" \in cout)
             r == Under(RIFIFO_o)
             w == Under(Wrapping)
  <2>1. i \in {0, 1}
    BY DEF Under
  <2>2. Wrapping => RIFIFO_o
    BY DEF Wrapping, CountInv, ByteInv
  <2>3. r >= w /\ r \in Int /\ w \in Int
    BY <2>2 DEF Under
  <2>4. Landing /\ "DECFIFO" \in cout => COUNT > 0 /\ cst = "s15"
    BY DEF CountInv, RoomInv
  <2>5. cst \in {"s6", "s7", "s8"} => COUNT > 0
    BY DEF CountInv, RoomInv
  <2>6. d = 0 \/ (d = 1 /\ COUNT > 0 /\ cst = "s15")
    BY <2>4 DEF Under
  <2>7. Held = COUNT + i + r - d - w
    BY DEF Held
  <2> HIDE DEF i, d, r, w, Held
  <2>8. QED
    BY <1>1, <2>1, <2>3, <2>5, <2>6, <2>7
<1>4. Place = First(xfer) + Len(sink) + Put
  BY DEF Place
<1>5. Done => BYTE_PTR >= 1
  BY DEF Done
<1> HIDE DEF First, Put, Place, Odd, Held, Lag, Done
<1> DEFINE p == Len(sink) + Put
           q == 4 * Held
           x == xfer.len - left
<1>6. /\ p \in Nat /\ q \in Int /\ x \in Int /\ x <= xfer.len
      /\ q >= 0 /\ (cst \in {"s6", "s7", "s8"} => q >= 4)
  BY <1>1, <1>3
<1>7. x + Odd = BYTE_PTR + Lag + q + p
  <2>1. Place = First(xfer) + p
    BY <1>1, <1>4
  <2>2. First(xfer) + x + Odd = BYTE_PTR + Lag + q + Place
    BY <1>2
  <2> DEFINE f == First(xfer)
             r == BYTE_PTR + Lag
  <2>3. f \in Int /\ r \in Int /\ Odd \in Int /\ Place = f + p /\ f + x + Odd = r + q + Place
    BY <1>1, <1>2, <2>1, <2>2
  <2> HIDE DEF p, q, x, f, r
  <2>4. x + Odd = r + q + p
    BY <1>6, <2>3
  <2>5. QED
    BY <2>4 DEF r
<1>8. A1 => p = 0
  BY <1>1, <1>2, <1>4
<1> HIDE DEF p, q, x
<1>9. p <= xfer.len + 1
  <2>1. CASE Odd = 0
    BY <1>1, <1>6, <1>7, <2>1
  <2>2. CASE A1
    BY <1>1, <1>8, <2>2
  <2>3. CASE Odd = 2 /\ cst \in {"s6", "s7", "s8"}
    BY <1>1, <1>6, <1>7, <2>3
  <2>4. CASE Odd = 2 /\ Done
    BY <1>1, <1>5, <1>6, <1>7, <2>4
  <2>5. QED
    BY <1>2, <2>1, <2>2, <2>3, <2>4
<1>10. QED
  BY <1>9 DEF p

(* A cycle of ReSDMAC has DMA on, in the direction of the transfer.        *)
LEMMA StrobeOn ==
  ASSUME Known, OnInv, AS_O
  PROVE  DMAENA /\ (DMADIR <=> xfer.dir) /\ step \notin {"setup", "addr"} /\ ~NotOn
<1>1. cst \notin {"s0", "s20"}
  BY DEF Known, BusInv, NotMaster
<1>2. step \notin OffSteps \cup {"halt"} /\ ~NotOn
  BY <1>1 DEF OnInv
<1>3. DMADIR <=> xfer.dir
  BY <1>2 DEF Known, RestInv, DirInv, OffSteps
<1>4. DMAENA
  BY <1>2 DEF OnInv, NotOn, Known, RestInv, StepInv, Steps, OffSteps
<1>5. QED
  BY <1>2, <1>3, <1>4 DEF OffSteps

(* Nothing has been got at reset.                                          *)
LEMMA SinkInit == Init => SinkInv
BY DEF Init, MachineInit, SinkInv

(* posedge CLK90: the chip has got its byte.                               *)
LEMMA SinkRise90 ==
  ASSUME Known, PortInv, CountInv, SinkInv, Clk90Rise
  PROVE  SinkInv'
<1>1. /\ left' = IF DACK /\ ~DACK' /\ left > 0 THEN left - 1 ELSE left
      /\ UNCHANGED <<step, xfer, DMAENA>>
  BY Rise90Frame DEF regSide
<1>2. ChipStrobes(DACK /\ "DACK" \notin sout', "WE" \in sout, TX_LATCH,
                  "SCSI_CS" \in sout' /\ "SCSI_CS" \notin sout)
  BY DEF Clk90Rise
<1>3. sink' = IF (DACK /\ "DACK" \notin sout') /\ "WE" \in sout THEN Append(sink, TX_LATCH)
              ELSE sink
  BY <1>2, Zenon DEF ChipStrobes
<1>4. DACK => left > 0 /\ step \notin {"setup", "addr"} /\ ~NotOn
  BY DEF CountInv, LeftInv, QuietInv, Quiet, ToFifo, FromFifo, Still, OffSteps
<1>5. DACK => ("WE" \in sout <=> ~xfer.dir)
  <2> SUFFICES ASSUME DACK PROVE "WE" \in sout <=> ~xfer.dir
    OBVIOUS
  <2>1. sst \in ToFifo \cup FromFifo
    BY DEF CountInv, LeftInv, ToFifo, FromFifo
  <2>2. step \notin OffSteps
    BY <2>1 DEF Known, RestInv, StopInv, AtRest
  <2>3. DMADIR <=> xfer.dir
    BY <2>2 DEF Known, RestInv, DirInv, OffSteps
  <2>4. sst \in FromFifo <=> ~DMADIR
    BY <2>1, RequestDir
  <2>5. QED
    BY <2>3, <2>4 DEF PortInv
<1>6. sink \in Seq(Int \cup {CpuByte}) /\ left \in Nat /\ xfer.len \in Nat
  BY DEF Known, DackInv, TypeOK, MachineTypeOK
<1>7. CASE DACK /\ "DACK" \notin sout' /\ "WE" \in sout
  <2>1. sink' = Append(sink, TX_LATCH) /\ left' = left - 1 /\ ~xfer.dir
    BY <1>1, <1>3, <1>4, <1>5, <1>7 DEF DACK
  <2>2. Len(sink') = Len(sink) + 1 /\ Len(sink) \in Nat
    BY <1>6, <2>1, LenProperties
  <2>3. Len(sink) = xfer.len - left
    BY <2>1 DEF SinkInv
  <2>4. Len(sink') = xfer.len - left'
    <3>1. left' = left - 1
      BY <2>1
    <3>2. QED
      BY <1>6, <2>2, <2>3, <3>1
  <2>5. NotOn' = NotOn
    BY <1>1 DEF NotOn
  <2>6. QED
    BY <1>1, <1>4, <1>7, <2>1, <2>4, <2>5 DEF SinkInv
<1>8. CASE ~(DACK /\ "DACK" \notin sout' /\ "WE" \in sout)
  <2>1. sink' = sink
    BY <1>3, <1>8
  <2>2. left' = left \/ xfer.dir
    BY <1>1, <1>5, <1>8 DEF DACK
  <2>3. NotOn' = NotOn
    BY <1>1 DEF NotOn
  <2>4. QED
    BY <1>1, <2>1, <2>2, <2>3 DEF SinkInv
<1>9. QED
  BY <1>7, <1>8

(* negedge SCLK: a transfer begins, or memory gets the bytes of a cycle.   *)
LEMMA SinkFalls ==
  ASSUME Whole, Known, CycleInv, CountInv, SinkInv, ClkFall
  PROVE  SinkInv'
<1>1. UNCHANGED DMAENA
  BY FallFrame DEF regSide
<1>2. CASE Begins
  <2>1. StartTransfer
    BY <1>2 DEF Begins, ClkFall, CpuBus, Interrupt, StartCycle, SeeDsack, EndCycle, CpuRests,
                driverVars
  <2>2. sink' = <<>> /\ left' = xfer'.len /\ xfer' \in Transfers
    BY <1>2, <2>1 DEF StartTransfer, Begins
  <2>3. xfer'.len \in Nat
    BY <2>2, MachineAssumption
  <2>4. Len(sink') = 0
    BY <2>2
  <2>5. QED
    BY <2>2, <2>3, <2>4 DEF SinkInv
<1>3. CASE ~Begins
  <2>1. /\ ~DMADIR \/ ~AS_O => sink' = sink
        /\ UNCHANGED <<xfer, left>>
    BY <1>3, SinkFall
  <2>2. AS_O => DMAENA /\ (DMADIR <=> xfer.dir) /\ step \notin {"setup", "addr"} /\ ~NotOn
    BY StrobeOn DEF CountInv
  <2>3. step' \in {"setup", "addr"} \/ NotOn' => step \in {"setup", "addr"} \/ NotOn
    <3>1. Rests \/ Halts \/ Starts \/ Sees \/ Ends
      BY <1>3, HostMoves
    <3>2. step' = step \/ step' = "stop" \/ (step \in Steps /\ step' = StepAfter(step, xfer.dir))
      BY <3>1 DEF Rests, Halts, Starts, Sees, Ends, hostSide
    <3>3. CASE step' = step
      BY <1>1, <3>3 DEF NotOn
    <3>4. CASE step \in Steps /\ step' = StepAfter(step, xfer.dir)
      BY <3>4 DEF NotOn, Steps, StepAfter
    <3>5. CASE step' = "stop"
      BY <3>5 DEF NotOn
    <3>6. QED
      BY <3>2, <3>3, <3>4, <3>5
  <2>4. QED
    BY <1>1, <2>1, <2>2, <2>3 DEF SinkInv
<1>4. QED
  BY <1>2, <1>3

(* Every edge keeps what has been got within bounds.                       *)
LEMMA SinkNext ==
  ASSUME Whole, Known, CycleInv, PortInv, CountInv, DrainInv, SinkInv, [Next]_vars
  PROVE  SinkInv'
<1>1. CASE Clk90Rise
  BY <1>1, SinkRise90
<1>2. CASE ClkFall
  BY <1>2, SinkFalls
<1>3. CASE Clk90Fall
  <2>1. UNCHANGED <<step, xfer, left, sink>>
    BY <1>3 DEF Clk90Fall, machineVars, driverVars
  <2>2. /\ ~DMAENA' => ~DMAENA \/ (CpuAS /\ step \in {"halt", "idle"})
        /\ CpuAS /\ step = "start" => DMAENA'
        /\ step \notin {"start", "halt", "idle"} \/ ~CpuAS => DMAENA' = DMAENA
    BY <1>3, RegWrites
  <2>3. NotOn' => NotOn
    BY <2>1, <2>2 DEF NotOn
  <2>4. ASSUME DMAENA, ~DMAENA', xfer.dir PROVE Len(sink) <= xfer.len + 1
    <3>1. step = "halt"
      BY <2>2, <2>4 DEF Known, RestInv, StopInv, AtRest, OffSteps
    <3>2. DMADIR
      BY <2>4, <3>1 DEF Known, RestInv, DirInv
    <3>3. Len(sink) + Put <= xfer.len + 1
      BY <2>4, <3>2, Bound
    <3>4. Len(sink) \in Nat /\ Put \in Nat /\ xfer.len \in Nat
      BY DrainTypes DEF CountInv
    <3> HIDE DEF Put
    <3>5. QED
      BY <3>3, <3>4
  <2>5. QED
    BY <2>1, <2>3, <2>4 DEF SinkInv
<1>4. CASE ClkRise
  BY <1>4, RiseFrame DEF ClkRise, driverVars, countVars, regSide, hostSide, SinkInv, NotOn
<1>5. CASE Clk135Rise
  BY <1>5, Rise135Frame DEF Clk135Rise, machineVars, regSide, hostSide, SinkInv, NotOn
<1>6. CASE Clk135Fall
  BY <1>6, Fall135Frame DEF Clk135Fall, machineVars, countVars, regSide, hostSide, SinkInv, NotOn
<1>7. CASE UNCHANGED vars
  BY <1>7, NoEdgeFrame DEF vars, machineVars, countVars, regSide, hostSide, SinkInv, NotOn
<1>8. QED
  BY <1>1, <1>2, <1>3, <1>4, <1>5, <1>6, <1>7 DEF Next

(* A drain has not begun at reset.                                         *)
LEMMA DrainInit == Init => DrainInv
BY DEF Init, CpuInit, ScsiInit, RegInit, DrainInv

(* Every edge keeps the place memory has got to.                           *)
LEMMA PlaceNext ==
  ASSUME Whole, Known, CycleInv, PortInv, CountInv, PartInv, DrainInv, SinkInv, [Next]_vars
  PROVE  DrainInv'
<1>1. CASE Clk90Rise
  BY <1>1, DrainRise90
<1>2. CASE ClkFall
  BY <1>2, DrainFall
<1>3. CASE Clk90Fall
  BY <1>3, DrainFall90
<1>4. CASE Clk135Rise
  BY <1>4, DrainRise135
<1>5. CASE ClkRise
  <2>1. UNCHANGED <<countVars, AS_O, sink, port>> /\ edge \notin Past /\ edge' \notin Past
    BY <1>5, RiseFrame DEF ClkRise, pinVars, driverVars, Past
  <2>2. QED
    BY <2>1, DrainKept
<1>6. CASE Clk135Fall
  <2>1. UNCHANGED <<countVars, AS_O, sink, port>> /\ edge \notin Past /\ edge' \notin Past
    BY <1>6, Fall135Frame DEF Clk135Fall, pinVars, machineVars, driverVars, Past
  <2>2. QED
    BY <2>1, DrainKept
<1>7. CASE UNCHANGED vars
  <2>1. UNCHANGED <<countVars, AS_O, sink, port, edge>>
    BY <1>7, NoEdgeFrame DEF vars, pinVars, machineVars, driverVars
  <2>2. QED
    BY <2>1, DrainKept
<1>8. QED
  BY <1>1, <1>2, <1>3, <1>4, <1>5, <1>6, <1>7 DEF Next

(* PortInv, DrainInv and SinkInv, step by step.                            *)
LEMMA PlaceInvariant == Whole => (Spec => [](PortInv /\ DrainInv /\ SinkInv))
<1>1. SUFFICES ASSUME Whole PROVE Spec => [](PortInv /\ DrainInv /\ SinkInv)
  OBVIOUS
<1>2. Known /\ CycleInv /\ CountInv /\ PartInv /\ PortInv /\ DrainInv /\ SinkInv /\ [Next]_vars =>
        PortInv' /\ DrainInv' /\ SinkInv'
  BY <1>1, PortNext, PlaceNext, SinkNext
<1>3. QED
  BY <1>1, <1>2, PortInit, DrainInit, SinkInit, KnownInvariant, CycleInvariant, CountInvariant,
     DropInvariant, PTL DEF Spec

(* Memory gets the bytes of a read and, when they end in the middle of a   *)
(* word, one more: the flush writes what remains in the FIFO and nothing   *)
(* else.  The chip gets no byte too many.                                  *)
THEOREM FlushWritesWhatRemainsHolds == Whole => (Spec => []FlushWritesWhatRemains)
<1>1. SUFFICES ASSUME Whole PROVE Spec => []FlushWritesWhatRemains
  OBVIOUS
<1>2. ASSUME Known, CountInv, DrainInv, SinkInv PROVE FlushWritesWhatRemains
  <2>1. /\ Len(sink) \in Nat /\ Put \in Nat /\ left \in Nat /\ xfer.len \in Nat
    BY <1>2, DrainTypes DEF CountInv
  <2>2. CASE ~xfer.dir
    <3>1. Len(sink) = xfer.len - left
      BY <1>2, <2>2 DEF SinkInv
    <3>2. QED
      BY <2>1, <3>1 DEF FlushWritesWhatRemains
  <2>3. CASE xfer.dir /\ ~DMAENA
    BY <1>2, <2>3 DEF SinkInv, FlushWritesWhatRemains
  <2>4. CASE xfer.dir /\ DMAENA
    <3>1. DMADIR
      BY <1>2, <2>4 DEF Known, RestInv, StopInv, AtRest, DirInv, OffSteps
    <3>2. Len(sink) + Put <= xfer.len + 1
      BY <1>2, <2>4, <3>1, Bound
    <3> HIDE DEF Put
    <3>3. QED
      BY <2>1, <3>2 DEF FlushWritesWhatRemains
  <2>5. QED
    BY <2>2, <2>3, <2>4
<1>3. QED
  BY <1>1, <1>2, KnownInvariant, CountInvariant, PlaceInvariant, PTL DEF Spec
===============================================================================
