------------------------------- MODULE Registers ------------------------------
(***************************************************************************)
(* The DMA side of the register block (RTL/Registers): the strobes ST_DMA, *)
(* SP_DMA and FLUSH, the direction bit of CNTR, A1 captured from RAMSEY's  *)
(* ACR, the FE flag of ISTR, and the counter that terminates an access.    *)
(*                                                                         *)
(* sel is the register the CPU is addressing while its AS is low, or       *)
(* "none": the outputs of addr_decoder.  A strobe register acts on a read  *)
(* as on a write.                                                          *)
(***************************************************************************)
EXTENDS Naturals

VARIABLES
  DMADIR,       \* TRUE: from the SCSI chip to memory
  DMAENA,
  FLUSHFIFO,
  A1,
  FE,           \* ISTR's FE flag as latched while ISTR is read
  TERM_COUNTER,
  REG_DSK

regVars == <<DMADIR, DMAENA, FLUSHFIFO, A1, FE, TERM_COUNTER, REG_DSK>>

ChipRegs == {"WD_RD", "WD_WR"}                        \* WDREGREQ
Selects  == ChipRegs \cup
  {"none", "CNTR", "ACR", "ST_DMA", "FLUSH", "ISTR", "CINT", "SP_DMA"}

(* CYCLE_ACTIVE: the WD33C93 and the ACR are terminated by others.         *)
CYCLE_ACTIVE(sel) == sel \notin ChipRegs \cup {"none", "ACR"}

(* registers_cntr: a CNTR write before ST_DMA before SP_DMA.               *)
NextENA(sel) ==
  CASE sel = "ST_DMA" -> TRUE
    [] sel = "SP_DMA" -> FALSE
    [] OTHER          -> DMAENA

(* FLUSHFIFO: a FLUSH strobe that is still active outlasts STOPFLUSH.      *)
NextFLUSH(sel, stopflush) == sel = "FLUSH" \/ (FLUSHFIFO /\ ~stopflush)

-------------------------------------------------------------------------------

RegInit ==
  /\ DMADIR = TRUE
  /\ DMAENA = FALSE
  /\ FLUSHFIFO = FALSE
  /\ A1 = TRUE
  /\ FE = TRUE
  /\ TERM_COUNTER = 0
  /\ REG_DSK = FALSE

(* posedge CLK90: registers_term counts the access down to its DSACK.      *)
RegPosedge90(sel) ==
  /\ TERM_COUNTER' = IF CYCLE_ACTIVE(sel) /\ TERM_COUNTER < 3
                     THEN TERM_COUNTER + 1 ELSE TERM_COUNTER
  /\ REG_DSK' = (REG_DSK \/ (CYCLE_ACTIVE(sel) /\ TERM_COUNTER = 3))
  /\ UNCHANGED <<DMADIR, DMAENA, FLUSHFIFO, A1, FE>>

(* posedge AS_ (with negedge CLK): the counter and the DSACK are cleared.  *)
RegNegedge(strobed) ==
  /\ TERM_COUNTER' = IF strobed THEN TERM_COUNTER ELSE 0
  /\ REG_DSK' = (REG_DSK /\ strobed)
  /\ UNCHANGED <<DMADIR, DMAENA, FLUSHFIFO, A1, FE>>

(* negedge CLK90: the registers.  dirIn and a1 are the bits the CPU writes *)
(* to CNTR and ACR; aso is the address strobe of CPU_SM.                   *)
RegNegedge90(sel, dirIn, a1, aso, stopflush, empty) ==
  /\ DMADIR' = IF sel = "CNTR" THEN dirIn ELSE DMADIR
  /\ DMAENA' = NextENA(sel)
  /\ FLUSHFIFO' = NextFLUSH(sel, stopflush)
  /\ A1' = IF sel = "ACR" THEN a1 ELSE (A1 /\ ~aso)
  /\ FE' = IF sel = "ISTR" THEN empty ELSE FE
  /\ UNCHANGED <<TERM_COUNTER, REG_DSK>>

RegTypeOK ==
  /\ DMADIR \in BOOLEAN
  /\ DMAENA \in BOOLEAN
  /\ FLUSHFIFO \in BOOLEAN
  /\ A1 \in BOOLEAN
  /\ FE \in BOOLEAN
  /\ TERM_COUNTER \in 0..3
  /\ REG_DSK \in BOOLEAN
===============================================================================
