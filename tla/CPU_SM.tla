-------------------------------- MODULE CPU_SM --------------------------------
(***************************************************************************)
(* The bus-side state machine (RTL/CPU_SM): it asks the 68030 for the bus, *)
(* runs the memory cycles that drain or fill the FIFO and acknowledges the *)
(* FIFO count requests of the SCSI-side machine.                           *)
(*                                                                         *)
(* A signal is a Boolean, TRUE when asserted whatever its polarity on the  *)
(* pin.  The registered outputs that are asserted are the set cout.        *)
(***************************************************************************)
EXTENDS Naturals

VARIABLES
  cst,        \* state register
  cout,       \* registered outputs that are asserted
  cBGRANT,    \* clocked inputs (posedge CLK135)
  cDMAENA,
  cDREQ,
  cFLUSH,
  cCYCLEDONE,
  DSACK       \* DSACK_LATCHED_: either DSACKx was low on a falling CLK

cpuSyncVars == <<cBGRANT, cDMAENA, cDREQ, cFLUSH, cCYCLEDONE>>
cpuVars     == <<cst, cout, cpuSyncVars, DSACK>>

CpuOutputs ==
  {"BREQ", "BGACK", "PAS", "PDS", "SIZE1", "F2CPUL", "F2CPUH", "BRIDGEOUT",
   "BRIDGEIN", "DIEL", "DIEH", "PLLW", "PLHW", "INCFIFO", "DECFIFO", "INCNI",
   "INCNO", "STOPFLUSH", "RST_FIFO"}

(* The inputs i of one evaluation of the machine:                          *)
(*   bg done   BGRANT, CYCLEDONE       last boeq3  LASTWORD, BOEQ3         *)
(*   ena dreq flush                    the clocked DMAENA, DREQ, FLUSHFIFO *)
(*   dir a1    DMADIR, A1              full empty  FIFOFULL, FIFOEMPTY     *)
(*   sterm d0 d1                       STERM, DSACK0, DSACK1 as on the bus *)
(*   dsack     the latched DSACK                                           *)

(* The casex over {nSTERM, DSACK, nDSACK1, nDSACK0}.                       *)
Port32(i)  == i.sterm \/ (i.dsack /\ i.d1 /\ i.d0)
Mutant_Swapped(i) == ~i.sterm /\ i.dsack /\ i.d0 /\ ~i.d1
Port16(i)  == ~i.sterm /\ i.dsack /\ i.d1 /\ ~i.d0
Mutant_NeverWaits(i) == ~i.sterm /\ i.dsack
Waiting(i) == ~i.sterm /\ ~i.dsack

Mutant_GrantOnly(i) == i.bg
Mutant_Polarity(i)  == i.bg /\ ~i.done
Granted(i)  == i.bg /\ i.done
Mutant_FullOnly(i) == i.full \/ (i.flush /\ i.last)
DrainDue(i) == \/ i.full
               \/ i.flush /\ ~i.empty
               \/ i.flush /\ i.last

DrainStates == {"s1", "s2", "s3", "s4", "s6", "s7", "s8", "s10", "s11", "s12", "s15"}
FillStates  == {"s20", "s21", "s22", "s23", "s24", "s26", "s27", "s28", "s30", "s31",
                "s32", "s33", "s34", "s35"}

CpuStates   == DrainStates \cup FillStates \cup {"s0", "letgo"}

(* next_state while the FIFO is drained to memory.                         *)
DrainNext(s, i) ==
  CASE s = "s1"  -> IF ~Granted(i) THEN "s1"
                    ELSE IF i.a1 THEN "s6"
                    ELSE IF i.last /\ ~i.boeq3 THEN "s10" ELSE "s2"
    [] s = "s2"  -> "s3"
    [] s = "s3"  -> IF i.sterm THEN "s15" ELSE "s4"
    [] s = "s4"  -> IF Port32(i) THEN "s15"
                    ELSE IF Port16(i) THEN "s6" ELSE "s4"
    [] s = "s6"  -> "s7"
    [] s = "s7"  -> IF i.sterm THEN "s15" ELSE "s8"
    [] s = "s8"  -> IF Port32(i) \/ Port16(i) THEN "s15" ELSE "s8"
    [] s = "s10" -> "s11"
    [] s = "s11" -> IF i.sterm THEN "s15" ELSE "s12"
    [] s = "s12" -> IF Port32(i) \/ Port16(i) THEN "s15" ELSE "s12"
    [] OTHER     -> IF ~i.empty THEN "s3"                           \* s15
                    ELSE IF ~i.last THEN "letgo"
                    ELSE IF i.boeq3 THEN "s3" ELSE "s11"

(* next_state while the FIFO is filled from memory.                        *)
FillNext(s, i) ==
  CASE s = "s20" -> IF i.ena /\ i.dir THEN "s0"
                    ELSE IF i.ena /\ i.empty /\ i.dreq THEN "s21" ELSE "s20"
    [] s = "s21" -> IF ~Granted(i) THEN "s21"
                    ELSE IF i.a1 THEN "s30" ELSE "s22"
    [] s = "s22" -> "s23"
    [] s = "s23" -> IF i.sterm THEN "s35" ELSE "s24"
    [] s = "s24" -> IF Port32(i) THEN "s35"
                    ELSE IF Port16(i) THEN "s26" ELSE "s24"
    [] s = "s26" -> "s27"
    [] s = "s27" -> "s28"
    [] s = "s28" -> IF i.dsack THEN "s35" ELSE "s28"
    [] s = "s30" -> "s31"
    [] s = "s31" -> IF i.sterm THEN "s35" ELSE "s32"
    [] s = "s32" -> IF Port32(i) THEN "s35"
                    ELSE IF Port16(i) THEN "s33" ELSE "s32"
    [] s = "s33" -> "s34"
    [] s = "s34" -> "s35"
    [] OTHER     -> IF i.full THEN "letgo" ELSE "s23"               \* s35

IdleNext(i) == IF ~i.ena THEN "s0"
               ELSE IF ~i.dir THEN "s20"
               ELSE IF DrainDue(i) THEN "s1" ELSE "s0"

(* next_state.  The mutant does not look at the FIFO after a cycle.        *)
Mutant_NoLetgo(s, i) ==
  CASE s = "s0"  -> IdleNext(i)
    [] s = "s15" -> "s3"
    [] s = "s35" -> "s23"
    [] s \in DrainStates \ {"s15"} -> DrainNext(s, i)
    [] s \in FillStates \ {"s35"}  -> FillNext(s, i)
    [] OTHER -> "s0"

CpuNext(s, i) ==
  CASE s = "s0" -> IdleNext(i)
    [] s \in DrainStates -> DrainNext(s, i)
    [] s \in FillStates  -> FillNext(s, i)
    [] OTHER -> "s0"                                                \* letgo

If(cond, outs) == IF cond THEN outs ELSE {}

(* The outputs of one kind of memory cycle: the data path it drives, and   *)
(* the strobes while it lasts or the FIFO step that ends it.               *)
Aligned == {"BGACK", "F2CPUH", "F2CPUL"}
OddWord == {"BGACK", "BRIDGEOUT", "F2CPUL", "SIZE1"}
Partial == {"BGACK", "F2CPUH", "F2CPUL", "SIZE1"}
Fill    == {"PAS", "PDS", "PLHW", "PLLW"}
FillLow == {"PAS", "PDS", "PLLW"}
Strobes == {"PAS", "PDS"}

(* The combinational outputs.  int_INCFIFO and int_DECFIFO are INCFIFO and *)
(* DECFIFO here; CpuRegistered adds the requests of the SCSI side to them. *)
DrainOut(s, i) ==
  CASE s = "s1"  -> {"BREQ"} \cup If(Granted(i), {"BGACK"})
                      \cup If(Granted(i) /\ ~i.a1 /\ i.last, {"STOPFLUSH"})
    [] s = "s2"  -> Aligned \cup {"PAS"}
    [] s = "s3"  -> Aligned \cup (IF i.sterm THEN {"DECFIFO"} ELSE Strobes)
    [] s = "s4"  -> Aligned \cup If(Port32(i), {"DECFIFO"}) \cup If(Waiting(i), Strobes)
    [] s = "s6"  -> OddWord \cup {"PAS"}
    [] s = "s7"  -> OddWord \cup (IF i.sterm THEN {"DECFIFO"} ELSE Strobes)
    [] s = "s8"  -> OddWord \cup If(Port32(i) \/ Port16(i), {"DECFIFO"})
                      \cup If(Waiting(i), Strobes)
    [] s = "s10" -> Partial \cup {"PAS"}
    [] s = "s11" -> Partial \cup If(~i.sterm, Strobes)
    [] s = "s12" -> Partial \cup If(Waiting(i), Strobes)
    [] OTHER     -> IF ~i.empty THEN Aligned \cup {"PAS"}           \* s15
                    ELSE IF ~i.last THEN {"BGACK", "STOPFLUSH"}
                    ELSE (IF i.boeq3 THEN Aligned ELSE Partial) \cup {"PAS", "STOPFLUSH"}

FillOut(s, i) ==
  CASE s = "s20" -> If(i.flush /\ ~i.empty /\ i.ena /\ ~i.dir /\ ~i.dreq, {"RST_FIFO"})
                      \cup If(i.flush /\ ~i.full /\ i.empty /\ i.ena /\ ~i.dir, {"STOPFLUSH"})
    [] s = "s21" -> {"BREQ"} \cup If(Granted(i), {"BGACK"})
    [] s = "s22" -> {"BGACK", "DIEH", "DIEL"} \cup Fill
    [] s = "s23" -> {"BGACK", "DIEH", "DIEL"} \cup (IF i.sterm THEN {"INCFIFO"} ELSE Fill)
    [] s = "s24" -> {"BGACK", "DIEH"} \cup If(Waiting(i), Fill \cup {"DIEL"})
                      \cup If(Port32(i), {"INCFIFO", "DIEL"})
    [] s \in {"s26", "s27"} -> {"BGACK", "SIZE1", "DIEH", "BRIDGEIN"} \cup FillLow
    [] s = "s28" -> {"BGACK", "SIZE1", "DIEH", "BRIDGEIN"}
                      \cup (IF i.dsack THEN {"INCFIFO"} ELSE FillLow)
    [] s = "s30" -> {"BGACK", "SIZE1", "DIEH", "DIEL"} \cup FillLow
    [] s = "s31" -> {"BGACK", "SIZE1", "DIEH", "DIEL"}
                      \cup (IF i.sterm THEN {"INCFIFO"} ELSE FillLow)
    [] s = "s32" -> {"BGACK", "SIZE1"} \cup If(Waiting(i), FillLow \cup {"DIEH", "DIEL"})
                      \cup If(Port32(i), {"INCFIFO", "DIEH", "DIEL"}) \cup If(Port16(i), {"PLLW"})
    [] s = "s33" -> {"BGACK", "PLLW", "BRIDGEIN"}
    [] s = "s34" -> {"BGACK", "BRIDGEIN", "INCFIFO"}
    [] OTHER     -> {"BGACK", "INCNI"} \cup If(~i.full, Fill \cup {"DIEL", "DIEH"})  \* s35

IdleOut(i) == If(i.ena /\ i.dir /\ DrainDue(i), {"BREQ"})
                \cup If(i.ena /\ i.dir /\ i.flush /\ ~DrainDue(i), {"STOPFLUSH"})

(* The mutants step the counter the wrong way after a synchronous cycle,   *)
(* and drop the flush with data in the FIFO.                               *)
Mutant_WrongWay(s, i) ==
  CASE s = "s0" -> IdleOut(i)
    [] s = "s23" /\ i.sterm -> {"BGACK", "DIEH", "DIEL", "DECFIFO"}
    [] s \in DrainStates -> DrainOut(s, i)
    [] s \in FillStates /\ ~(s = "s23" /\ i.sterm) -> FillOut(s, i)
    [] OTHER -> {}

Mutant_StopsFlush(s, i) ==
  CASE s = "s0" -> IdleOut(i)
    [] s \in DrainStates -> DrainOut(s, [i EXCEPT !.last = (s = "s1")])
    [] s \in FillStates  -> FillOut(s, [i EXCEPT !.empty = TRUE])
    [] OTHER -> {}

CpuOut(s, i) ==
  CASE s = "s0" -> IdleOut(i)
    [] s \in DrainStates -> DrainOut(s, i)
    [] s \in FillStates  -> FillOut(s, i)
    [] OTHER -> {}                                                  \* letgo

(* INCFIFO, DECFIFO and INCNO: a request ri or rd of the SCSI side is      *)
(* passed on unless the machine itself steps the counter the other way.    *)
(* The mutants pass it on regardless, and take INCNO for DECFIFO ("Remove  *)
(* INCNO output because it is the same as DECFIFO",                        *)
(* CPU_SM_INTERNALS.v:624).                                                *)
Mutant_BothWays(out, ri, rd) ==
  out \cup If(ri, {"INCFIFO"}) \cup If(rd, {"DECFIFO"})
      \cup If("DECFIFO" \in out, {"INCNO"})

Mutant_INCNO(out, ri, rd) ==
  out \cup If(ri /\ "DECFIFO" \notin out, {"INCFIFO"})
      \cup If(rd /\ "INCFIFO" \notin out, {"DECFIFO"})
      \cup If("DECFIFO" \in out \/ rd, {"INCNO"})

CpuRegistered(out, ri, rd) ==
  out \cup If(ri /\ "DECFIFO" \notin out, {"INCFIFO"})
      \cup If(rd /\ "INCFIFO" \notin out, {"DECFIFO"})
      \cup If("DECFIFO" \in out, {"INCNO"})

-------------------------------------------------------------------------------

CpuInit ==
  /\ cst = "s0"
  /\ cout = {}
  /\ cBGRANT = FALSE
  /\ cDMAENA = FALSE
  /\ cDREQ = FALSE
  /\ cFLUSH = FALSE
  /\ cCYCLEDONE = FALSE
  /\ DSACK = FALSE

(* posedge CLK90: the state and the registered outputs.                    *)
CpuPosedge90(i, ri, rd) ==
  /\ cst' = CpuNext(cst, i)
  /\ cout' = CpuRegistered(CpuOut(cst, i), ri, rd)
  /\ UNCHANGED <<cpuSyncVars, DSACK>>

(* posedge CLK135: the clocked inputs.                                     *)
CpuPosedge135(bgrant, dmaena, dreq, flushfifo, cycledone) ==
  /\ cBGRANT' = bgrant
  /\ cDMAENA' = dmaena
  /\ cDREQ' = dreq
  /\ cFLUSH' = flushfifo
  /\ cCYCLEDONE' = cycledone
  /\ UNCHANGED <<cst, cout, DSACK>>

(* negedge CLK: DSACK_LATCHED_, held at "none" while AS is high.           *)
CpuNegedge(strobed, anyDsack) ==
  /\ DSACK' = (strobed /\ anyDsack)
  /\ UNCHANGED <<cst, cout, cpuSyncVars>>

CpuTypeOK ==
  /\ cst \in CpuStates
  /\ cout \subseteq CpuOutputs
  /\ cBGRANT \in BOOLEAN
  /\ cDMAENA \in BOOLEAN
  /\ cDREQ \in BOOLEAN
  /\ cFLUSH \in BOOLEAN
  /\ cCYCLEDONE \in BOOLEAN
  /\ DSACK \in BOOLEAN
===============================================================================
