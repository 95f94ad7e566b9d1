-------------------------------- MODULE Resdmac -------------------------------
(***************************************************************************)
(* ReSDMAC (RTL/RESDMAC.v) in its machine.  The registers of the design    *)
(* are clocked by six edges of SCLK and of its shifted copies CLK90 and    *)
(* CLK135; a period of the clock is these six steps in order, and every    *)
(* always block of the design belongs to one of them:                      *)
(*                                                                         *)
(*   CLK+     output latch            CLK-     AS, LLW, LHW, COUNT, DSACK  *)
(*   CLK90+   both state machines,    CLK90-   registers, byte pointer     *)
(*            their outputs, BUFFER                                        *)
(*   CLK135+  clocked inputs of       CLK135-  clocked inputs of SCSI_SM   *)
(*            CPU_SM, pointers                                             *)
(*                                                                         *)
(* The machine changes the signals the design samples at CLK+ (memory,     *)
(* arbiter, chip) and at CLK- (the CPU): each of them is sampled at one    *)
(* edge after that, so an earlier or later change is one of these.         *)
(***************************************************************************)
EXTENDS Integers, CPU_SM, SCSI_SM, Fifo, Registers, Datapath, Machine

VARIABLES
  edge,       \* the edge of the clock that comes next
  AS_O,       \* ReSDMAC drives its address strobe
  DS_O,
  LLW,        \* the word strobes of the FIFO
  LHW

pinVars == <<AS_O, DS_O, LLW, LHW>>
vars    == <<edge, pinVars, cpuVars, scsiVars, fifoVars, regVars, pathVars, machineVars>>

Edges == {"CLK+", "CLK90+", "CLK135+", "CLK-", "CLK90-", "CLK135-"}

-------------------------------------------------------------------------------
(* The wires.                                                              *)

OWN  == "BGACK" \in cout
BREQ == "BREQ" \in cout
PAS  == "PAS" \in cout
DACK == "DACK" \in sout
S2F  == "S2F" \in sout

(* AS as ReSDMAC sees it: its own or the CPU's.                            *)
AS_I == AS_O \/ CpuAS

(* dsack_int, and the lines DSACK0, DSACK1 and STERM.                      *)
RegDsack == REG_DSK \/ nLS2CPU
DSACK0   == RegDsack \/ term = "d32"
DSACK1   == RegDsack \/ term \in {"d32", "d16"}
STERM    == term = "sterm"

CYCLEDONE == ~OWN /\ ~AS_I /\ ~DSACK0 /\ ~DSACK1 /\ ~STERM
Mutant_NoResidue == FLUSHFIFO /\ FIFOEMPTY
LASTWORD  == ~BOEQ0 /\ FLUSHFIFO /\ FIFOEMPTY
RST_FIFO  == ~DMAENA \/ "RST_FIFO" \in cout
DREQ      == DMAENA /\ dreq
WDREGREQ  == Selected \in ChipRegs

CpuIn ==
  [bg |-> cBGRANT, done |-> cCYCLEDONE, a1 |-> A1, last |-> LASTWORD, boeq3 |-> BOEQ3,
   ena |-> cDMAENA, dreq |-> cDREQ, flush |-> cFLUSH, dir |-> DMADIR,
   full |-> FIFOFULL, empty |-> FIFOEMPTY, sterm |-> STERM, d0 |-> DSACK0,
   d1 |-> DSACK1, dsack |-> DSACK]

ScsiIn ==
  [req |-> CCPUREQ, dreq |-> CDREQ, ack |-> CDSACK, ri |-> RIFIFO_o, rd |-> RDFIFO_o,
   dir |-> DMADIR, rw |-> reg = "WD_RD", boeq3 |-> BOEQ3,
   full |-> FIFOFULL, empty |-> FIFOEMPTY]

(* DATA_IO, which is DATA_I: whenever ReSDMAC owns the bus it drives DATA_O *)
(* on these lines, in both directions, so memory that answers a read does  *)
(* not have them alone.                                                    *)
DATA_IO ==
  LET own == DATA_O(cout, "S2CPU" \in sout)
      mem == IF AS_O /\ term # "none" /\ ~DMADIR THEN MemData("SIZE1" \in cout) ELSE Zero
  IN  [l \in Lanes |-> IF ~OWN THEN mem[l] ELSE IF mem[l] # 0 THEN -mem[l] ELSE own[l]]

(* LBYTE and FIFO_ID.                                                      *)
LBYTE   == DACK /\ "RE" \in sout
FIFO_ID == IF S2F THEN [l \in Lanes |-> IF LBYTE THEN ChipByte ELSE 0]
           ELSE CPU_OD(cout, "CPU2S" \in sout, DATA_IO)

-------------------------------------------------------------------------------
(* The edges.                                                              *)

At(now, next) == edge = now /\ edge' = next

ClkRise ==
  /\ At("CLK+", "CLK90+")
  /\ PathPosedge(PAS, FIFO_OD)
  /\ Arbitrate(BREQ, OWN)
  /\ MemResponds(AS_O)
  /\ ChipRequests(DACK)
  /\ UNCHANGED <<pinVars, cpuVars, scsiVars, fifoVars, regVars, driverVars,
                 cpuBusVars, mpos, left, sink, strobes>>

Clk90Rise ==
  /\ At("CLK90+", "CLK135+")
  /\ CpuPosedge90(CpuIn, RIFIFO_o, RDFIFO_o)
  /\ ScsiPosedge90(ScsiIn, "INCFIFO" \in cout', "DECFIFO" \in cout')
  /\ FifoPosedge90(RST_FIFO, LHW, LLW, LBYTE, FIFO_ID)
  /\ RegPosedge90(Selected)
  /\ PathPosedge90("S2CPU" \in sout')
  /\ ChipStrobes(DACK /\ "DACK" \notin sout', "WE" \in sout, TX_LATCH,
                 "SCSI_CS" \in sout' /\ "SCSI_CS" \notin sout)
  /\ UNCHANGED <<pinVars, driverVars, cpuBusVars, arbiterVars, term, mpos>>

Clk135Rise ==
  /\ At("CLK135+", "CLK-")
  /\ CpuPosedge135(bg, DMAENA, DREQ, FLUSHFIFO, CYCLEDONE)
  /\ ScsiPosedge135("INCFIFO" \in cout, "DECFIFO" \in cout, AS_I)
  /\ FifoPosedge135(RST_FIFO, "INCNI" \in cout \cup sout, "INCNO" \in cout \cup sout)
  /\ UNCHANGED <<pinVars, regVars, pathVars, machineVars>>

(* Of its own cycle the bus sees AS fall with this edge and rise with it;  *)
(* so it does of the CPU's.                                                *)
ClkFall ==
  /\ At("CLK-", "CLK90-")
  /\ AS_O' = PAS
  /\ DS_O' = ("PDS" \in cout)
  /\ LLW' = ("PLLW" \in cout)
  /\ LHW' = ("PLHW" \in cout)
  /\ \/ /\ CpuBus(OWN, DACK, RegDsack, FE)
        /\ MemCycleEnds(AS_O /\ ~PAS /\ term # "none", DMADIR, "SIZE1" \in cout,
                        DATA_O(cout, "S2CPU" \in sout))
     \/ StartTransfer /\ ~AS_O
  /\ CpuNegedge(AS_I /\ AS_I', DSACK0 \/ DSACK1)
  /\ ScsiNegedge(AS_I')
  /\ FifoNegedge(RST_FIFO, "INCFIFO" \in cout, "DECFIFO" \in cout)
  /\ RegNegedge(AS_I')
  /\ PathNegedge("S2CPU" \in sout, ~nLS2CPU, {"SCSI_CS", "RE"} \subseteq sout)
  /\ UNCHANGED <<arbiterVars, term>>

Clk90Fall ==
  /\ At("CLK90-", "CLK135-")
  /\ RegNegedge90(Selected, DirWritten, xfer.a1, AS_O, "STOPFLUSH" \in cout, FIFOEMPTY)
  /\ FifoNegedge90(RST_FIFO, A1, "INCBO" \in sout)
  /\ PathNegedge90(DS_O, DATA_IO)
  /\ UNCHANGED <<pinVars, cpuVars, scsiVars, machineVars>>

Clk135Fall ==
  /\ At("CLK135-", "CLK+")
  /\ ScsiNegedge135(WDREGREQ, DREQ)
  /\ PathNegedge135("CPU2S" \in sout, "F2S" \in sout, FIFO_OD, BYTE_PTR)
  /\ UNCHANGED <<pinVars, cpuVars, fifoVars, regVars, machineVars>>

Init ==
  /\ edge = "CLK+"
  /\ AS_O = FALSE /\ DS_O = FALSE /\ LLW = FALSE /\ LHW = FALSE
  /\ CpuInit /\ ScsiInit /\ FifoInit /\ RegInit /\ PathInit /\ MachineInit

Next == ClkRise \/ Clk90Rise \/ Clk135Rise \/ ClkFall \/ Clk90Fall \/ Clk135Fall

Spec == Init /\ [][Next]_vars

-------------------------------------------------------------------------------
(* Types.  Byte 0 is whatever is not a byte of the transfer, byte -k what  *)
(* is left of byte k where two drove the lane.                             *)

TypeOK ==
  /\ edge \in Edges
  /\ AS_O \in BOOLEAN /\ DS_O \in BOOLEAN /\ LLW \in BOOLEAN /\ LHW \in BOOLEAN
  /\ CpuTypeOK
  /\ ScsiTypeOK
  /\ FifoTypeOK(Int)
  /\ RegTypeOK
  /\ PathTypeOK
  /\ MachineTypeOK(Int \cup {CpuByte})

-------------------------------------------------------------------------------
(* The FIFO and its two clients.                                           *)

(* "Keeps the 2 state machines from inc'ing & dec'ing the counter at the   *)
(* same time" (CPU_SM_INTERNALS.v:620): the counter would lose the INC.    *)
CountOneWay == ~({"INCFIFO", "DECFIFO"} \subseteq cout)

(* SCSI_SM never raises a request over one that is still pending: the two  *)
(* would be counted as one.                                                *)
RequestNotOverrun ==
  edge = "CLK135+" =>
    /\ "RIFIFO" \in sout => ~RIFIFO_o
    /\ "RDFIFO" \in sout => ~RDFIFO_o

(* Nor is a pending request answered by a step CPU_SM makes for a longword *)
(* of its own: INCFIFO and DECFIFO clear the request whatever they are for.*)
RequestNotSwallowed ==
  edge = "CLK90+" =>
    /\ RIFIFO_o => "INCFIFO" \notin CpuOut(cst, CpuIn)
    /\ RDFIFO_o => "DECFIFO" \notin CpuOut(cst, CpuIn)

(* The counter never wraps: no INCFIFO of a full FIFO, no DECFIFO of an    *)
(* empty one, which fifo_full_empty_ctr.v would carry out.                 *)
CountNeverWraps ==
  edge = "CLK-" /\ ~RST_FIFO =>
    /\ "INCFIFO" \in cout => ~FIFOFULL
    /\ "DECFIFO" \in cout => ~FIFOEMPTY

(* The counter and the two pointers, stepped by three different signals at *)
(* different edges by two machines, tell of the same longwords once the    *)
(* steps under way are counted.                                            *)
Under(cond) == IF cond THEN 1 ELSE 0
PointersAgree ==
  edge = "CLK90-" /\ ~RST_FIFO =>
    (READ_PTR + COUNT + Under(RIFIFO_o)) % DEPTH
      = (WRITE_PTR + Under(RDFIFO_o) + Under(cst = "s35")) % DEPTH

(* Over the transfer: what the receiver gets is what the sender sent, in   *)
(* order and complete when the driver is done (Stream!Spec).  For a read   *)
(* (to memory) that is the bytes themselves.  For a write it is which byte *)
(* comes in which place, and nothing of its value: see MemoryReachesChip.  *)
Taken  == IF xfer.dir THEN xfer.len - left ELSE mpos
Numbered(k) == IF ~xfer.dir /\ sink[k] = -k THEN k ELSE sink[k]
Got    == [k \in 1..(IF Len(sink) <= xfer.len THEN Len(sink) ELSE xfer.len) |-> Numbered(k)]
Stream == INSTANCE DmaStream WITH Capacity <- 4 * DEPTH, active <- step # "idle",
                                  size <- xfer.len, taken <- Taken, got <- Got
StreamSpec == Stream!Spec

(* "Data is transferred between Amiga system memory and a peripheral       *)
(* device" (SDMAC.md:57): the chip is given the bytes memory drove.        *)
MemoryReachesChip ==
  ~xfer.dir => \A k \in 1..Len(sink) : k <= xfer.len => sink[k] = k

(* A flush pads the last byte to a word and writes nothing else: "flush    *)
(* what remains in the internal 4 longword FIFO" (SDMAC.md:301).           *)
FlushWritesWhatRemains == Len(sink) <= xfer.len + 1

(* FLUSHFIFO is not dropped over data: when it falls nothing is counted or *)
(* about to be, and a last partial longword is on its way to memory.  For  *)
(* a write the FIFO has been emptied, with the byte pointer at a longword  *)
(* (or where A1 put it, before the first cycle) and no request left to     *)
(* step the counter of the empty FIFO.                                     *)
FlushNotDropped ==
  [][DMAENA /\ FLUSHFIFO /\ ~FLUSHFIFO' =>
       /\ FIFOEMPTY /\ ~RIFIFO_o /\ ~RDFIFO_o
       /\ {"INCFIFO", "DECFIFO"} \cap cout = {}
       /\ BOEQ0 \/ A1 \/ (DMADIR /\ OWN)]_vars

-------------------------------------------------------------------------------
(* The CPU bus.                                                            *)

(* One bus master at a time: the grant is used only once the CPU's cycle   *)
(* is over, and the address strobe is driven only under BGACK.             *)
OneMaster == (AS_O => OWN) /\ ~(OWN /\ CpuAS)

(* Every cycle of ReSDMAC runs until memory answers it, and it starts none *)
(* with the answer to the one before still latched or on the lines.        *)
CyclesAnswered ==
  [][/\ AS_O /\ ~AS_O' => term # "none"
     /\ ~AS_O /\ AS_O' => term = "none" /\ ~DSACK']_vars

-------------------------------------------------------------------------------
(* The SCSI port.                                                          *)

(* DACK answers a DREQ that is still there, with DMA on: the request was   *)
(* sampled a clock before and the chip has no byte to spare.               *)
DackAnswersDreq == [][~DACK /\ "DACK" \in sout' => DREQ /\ left > 0]_vars

(* Each access of the CPU to a WD33C93 register makes one strobe of the    *)
(* chip (its register pointer advances with each) although DSACK is a      *)
(* one-clock pulse and the state machine does not wait for AS; and a read  *)
(* gets the byte the chip drove.                                           *)
ChipAccessOnce ==
  edge = "CLK-" /\ cpu = "end" /\ reg \in ChipRegs =>
    /\ strobes = 1
    /\ reg = "WD_RD" => RX_LATCH /\ "S2CPU" \in sout

(* A strobe of the chip belongs to the CPU's access: when a write strobe   *)
(* ends, the CPU still drives the bus and its byte is on the SCSI bus.     *)
ChipGetsCpuByte ==
  [][{"SCSI_CS", "WE"} \subseteq sout /\ "WE" \notin sout' =>
       cpu # "idle" /\ reg = "WD_WR" /\ TX_LATCH = CpuByte]_vars

-------------------------------------------------------------------------------
(* Fairness: the clock runs; the arbiter grants a bus that is asked for;   *)
(* memory answers; the chip requests the bytes it has to move; RAMSEY ends *)
(* an ACR cycle; and the driver takes its next step.  Each can happen at   *)
(* one edge only, so it is disabled in between and weak fairness would not *)
(* oblige it.                                                              *)
Fairness ==
  /\ WF_vars(Next)
  /\ SF_vars(ClkRise /\ ~bg /\ bg')
  /\ SF_vars(ClkRise /\ term' # "none" /\ term = "none")
  /\ SF_vars(ClkRise /\ ~dreq /\ dreq')
  /\ SF_vars(ClkFall /\ cpu = "run" /\ cpu' = "end")
  /\ SF_vars(ClkFall /\ StartCycle(OWN))
  /\ SF_vars(ClkFall /\ Interrupt(DACK))

FairSpec == Spec /\ Fairness

(* The driver finishes every transfer it starts, so the FIFO drains and    *)
(* fills, the flush ends and FE is set; unless the CPU accesses the chip   *)
(* again and again, which has priority over the bytes of the transfer.     *)
TransferCompletes == <>[]~WDREGREQ => (step # "idle" ~> step = "idle")

(* The bus is given back.                                                  *)
BusReleased == OWN ~> ~OWN

(* A flush comes to an end, and so does every access of the CPU.           *)
FlushCompletes   == FLUSHFIFO ~> ~FLUSHFIFO
AccessTerminates == CpuAS ~> ~CpuAS

(* "Any write/read to the STOP DMA location will cause the SDMAC to abort  *)
(* execution" (SDMAC.md:397).                                              *)
StopAborts == ~DMAENA ~> ~OWN
===============================================================================
