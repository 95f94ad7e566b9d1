-------------------------------- MODULE SCSI_SM -------------------------------
(***************************************************************************)
(* The SCSI-side state machine (RTL/SCSI_SM): it moves one byte between    *)
(* the WD33C93 and the FIFO for each DREQ, runs the CPU's accesses to the  *)
(* WD33C93 registers, and asks CPU_SM to step the FIFO count.              *)
(***************************************************************************)
EXTENDS Naturals

VARIABLES
  sst,        \* state register
  sout,       \* registered outputs that are asserted
  CCPUREQ,    \* clocked inputs (negedge CLK135)
  CDREQ,
  CDSACK,
  RIFIFO_o,   \* the FIFO must be incremented: pending until INCFIFO
  RDFIFO_o,   \* the FIFO must be decremented: pending until DECFIFO
  nLS2CPU     \* the one-clock pulse that ends the CPU's access

scsiSyncVars == <<CCPUREQ, CDREQ, CDSACK>>
scsiReqVars  == <<RIFIFO_o, RDFIFO_o>>
scsiVars     == <<sst, sout, scsiSyncVars, scsiReqVars, nLS2CPU>>

ScsiStates ==
  {"IDLE_DMA_RD", "IDLE_DMA_WR", "CPUREQ",
   "C2S_1", "C2S_2", "C2S_3", "C2S_4", "C2S_5",
   "S2C_1", "S2C_2", "S2C_3", "S2C_4", "S2C_5", "S2C_6",
   "F2S_1", "F2S_2", "F2S_3", "F2S_4",
   "S2F_1", "S2F_2", "S2F_3", "S2F_4"}

ScsiOutputs ==
  {"DACK", "RE", "WE", "SCSI_CS", "S2F", "F2S", "S2CPU", "CPU2S",
   "INCBO", "INCNI", "INCNO", "RIFIFO", "RDFIFO"}

(* The inputs j of one evaluation: req dreq ack (the clocked CPUREQ, DREQ  *)
(* and DSACK), ri rd (RIFIFO_o, RDFIFO_o), dir rw boeq3 full empty.        *)
Mutant_NotFull(j) == j.dreq /\ j.dir /\ ~j.req /\ ~j.ri
START_S2F(j) == j.dreq /\ ~j.full /\ j.dir /\ ~j.req /\ ~j.ri
Mutant_NotEmpty(j) == j.dreq /\ ~j.dir /\ ~j.req /\ ~j.rd
Mutant_Unasked(j)  == ~j.empty /\ ~j.dir /\ ~j.req /\ ~j.rd
START_F2S(j) == j.dreq /\ ~j.empty /\ ~j.dir /\ ~j.req /\ ~j.rd

(* The case over state_reg.                                                *)
ScsiNext(s, j) ==
  CASE s = "IDLE_DMA_RD" -> IF START_S2F(j) THEN "S2F_1"
                            ELSE IF j.req THEN "CPUREQ"
                            ELSE IF ~j.dir THEN "IDLE_DMA_WR" ELSE "IDLE_DMA_RD"
    [] s = "IDLE_DMA_WR" -> IF START_F2S(j) THEN "F2S_1"
                            ELSE IF j.req THEN "CPUREQ" ELSE "IDLE_DMA_RD"
    [] s = "CPUREQ" -> IF j.rw THEN "S2C_1" ELSE "C2S_1"
    [] s = "C2S_1"  -> "C2S_2"
    [] s = "C2S_2"  -> "C2S_3"
    [] s = "C2S_3"  -> "C2S_4"
    [] s = "C2S_4"  -> "C2S_5"
    [] s = "C2S_5"  -> IF j.ack THEN "C2S_5" ELSE "IDLE_DMA_RD"
    [] s = "S2C_1"  -> "S2C_2"
    [] s = "S2C_2"  -> "S2C_3"
    [] s = "S2C_3"  -> "S2C_4"
    [] s = "S2C_4"  -> "S2C_5"
    [] s = "S2C_5"  -> "S2C_6"
    [] s = "S2C_6"  -> IF j.ack THEN "S2C_6" ELSE "IDLE_DMA_RD"
    [] s = "F2S_1"  -> "F2S_2"
    [] s = "F2S_2"  -> "F2S_3"
    [] s = "F2S_3"  -> "F2S_4"
    [] s = "F2S_4"  -> "IDLE_DMA_WR"
    [] s = "S2F_1"  -> "S2F_2"
    [] s = "S2F_2"  -> "S2F_3"
    [] s = "S2F_3"  -> "S2F_4"
    [] OTHER        -> "IDLE_DMA_RD"                                \* S2F_4

When(cond, outs) == IF cond THEN outs ELSE {}

(* With the fourth byte of a longword the FIFO moves on: the SCSI side's   *)
(* pointer at once, the count when CPU_SM gets to it.  The mutants ask for *)
(* the count twice, and leave the pointer alone.                           *)
Mutant_AskTwice(s, j) ==
  When(j.boeq3 /\ s = "F2S_3", {"INCNO"}) \cup When(j.boeq3 /\ s = "S2F_3", {"INCNI"})
    \cup When(j.boeq3 /\ s \in {"F2S_2", "F2S_3"}, {"RDFIFO"})
    \cup When(j.boeq3 /\ s \in {"S2F_2", "S2F_3"}, {"RIFIFO"})

Mutant_CountOnly(s, j) ==
  When(j.boeq3 /\ s = "F2S_3", {"RDFIFO"}) \cup When(j.boeq3 /\ s = "S2F_3", {"RIFIFO"})

LongwordDone(s, j) ==
  When(j.boeq3 /\ s = "F2S_3", {"INCNO", "RDFIFO"})
    \cup When(j.boeq3 /\ s = "S2F_3", {"INCNI", "RIFIFO"})

(* The combinational outputs, SET_DSACK apart.                             *)
ScsiOut(s, j) ==
  LongwordDone(s, j) \cup
  CASE s = "IDLE_DMA_RD" -> When(START_S2F(j), {"DACK", "RE", "S2F"})
    [] s = "IDLE_DMA_WR" -> When(START_F2S(j), {"DACK", "WE", "F2S"})
    [] s = "CPUREQ" -> {"SCSI_CS"} \cup (IF j.rw THEN {"RE", "S2CPU"} ELSE {"WE", "CPU2S"})
    [] s \in {"C2S_1", "C2S_2"} -> {"SCSI_CS", "CPU2S", "WE"}
    [] s = "C2S_3" -> {"SCSI_CS", "CPU2S"}
    [] s \in {"S2C_1", "S2C_2", "S2C_3", "S2C_4"} -> {"SCSI_CS", "S2CPU", "RE"}
    [] s \in {"S2C_5", "S2C_6"} -> {"S2CPU"}
    [] s = "F2S_1" -> {"DACK", "WE", "F2S"}
    [] s = "F2S_2" -> {"F2S"}
    [] s = "F2S_3" -> {"F2S", "INCBO"}
    [] s = "S2F_1" -> {"DACK", "RE", "S2F"}
    [] s = "S2F_2" -> {"S2F"}
    [] s = "S2F_3" -> {"S2F", "INCBO"}
    [] OTHER       -> {}

(* The mutants end a write before its strobe, a read after its, and a read *)
(* never.                                                                  *)
Mutant_Early  == sst \in {"C2S_1", "S2C_4"}
Mutant_Late   == sst \in {"C2S_3", "S2C_6"}
Mutant_NoRead == sst = "C2S_3"
SET_DSACK == sst \in {"C2S_3", "S2C_4"}

-------------------------------------------------------------------------------

ScsiInit ==
  /\ sst = "IDLE_DMA_RD"
  /\ sout = {}
  /\ CCPUREQ = FALSE
  /\ CDREQ = FALSE
  /\ CDSACK = FALSE
  /\ RIFIFO_o = FALSE
  /\ RDFIFO_o = FALSE
  /\ nLS2CPU = FALSE

(* posedge CLK90: the state and the registered outputs.  INCFIFO and       *)
(* DECFIFO, which rise at this edge, clear the requests they answer.       *)
ScsiPosedge90(j, incfifo, decfifo) ==
  /\ sst' = ScsiNext(sst, j)
  /\ sout' = ScsiOut(sst, j)
  /\ RIFIFO_o' = (RIFIFO_o /\ ~incfifo)
  /\ RDFIFO_o' = (RDFIFO_o /\ ~decfifo)
  /\ UNCHANGED <<scsiSyncVars, nLS2CPU>>

(* posedge CLK135: new requests, and the DSACK pulse.                      *)
ScsiPosedge135(incfifo, decfifo, strobed) ==
  /\ RIFIFO_o' = (~incfifo /\ (RIFIFO_o \/ "RIFIFO" \in sout))
  /\ RDFIFO_o' = (~decfifo /\ (RDFIFO_o \/ "RDFIFO" \in sout))
  /\ nLS2CPU' = (strobed /\ ~nLS2CPU /\ SET_DSACK)
  /\ UNCHANGED <<sst, sout, scsiSyncVars>>

(* posedge AS_ (with negedge CLK): the DSACK pulse is cut short.           *)
ScsiNegedge(strobed) ==
  /\ nLS2CPU' = (nLS2CPU /\ strobed)
  /\ UNCHANGED <<sst, sout, scsiSyncVars, scsiReqVars>>

(* negedge CLK135: the clocked inputs.                                     *)
ScsiNegedge135(cpureq, dreq) ==
  /\ CCPUREQ' = cpureq
  /\ CDREQ' = dreq
  /\ CDSACK' = nLS2CPU
  /\ UNCHANGED <<sst, sout, scsiReqVars, nLS2CPU>>

ScsiTypeOK ==
  /\ sst \in ScsiStates
  /\ sout \subseteq ScsiOutputs
  /\ CCPUREQ \in BOOLEAN
  /\ CDREQ \in BOOLEAN
  /\ CDSACK \in BOOLEAN
  /\ RIFIFO_o \in BOOLEAN
  /\ RDFIFO_o \in BOOLEAN
  /\ nLS2CPU \in BOOLEAN
===============================================================================
