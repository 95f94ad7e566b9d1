--------------------------------- MODULE Fifo ---------------------------------
(***************************************************************************)
(* The FIFO (RTL/FIFO): DEPTH longwords of four byte lanes, a next-in and  *)
(* a next-out pointer, a longword counter and the byte pointer of the      *)
(* SCSI side.  The counter is told apart from the pointers: nothing in the *)
(* FIFO keeps the three consistent, its two clients do.                    *)
(***************************************************************************)
EXTENDS Naturals

CONSTANT DEPTH                  \* parameter DEPTH, 8 in the code

(* The pointers are $clog2(DEPTH) bits wide and wrap at a power of two.    *)
ASSUME DepthAssumption == DEPTH \in Nat \ {0, 1} /\ \E n \in 1..DEPTH : DEPTH = 2^n

VARIABLES
  COUNT,      \* longwords in the FIFO
  WRITE_PTR,
  READ_PTR,
  BYTE_PTR,
  BUFFER

fifoVars == <<COUNT, WRITE_PTR, READ_PTR, BYTE_PTR, BUFFER>>

Lanes == 1..4                   \* D31-24 first
Zero  == [l \in Lanes |-> 0]

FIFOFULL  == COUNT = DEPTH
FIFOEMPTY == COUNT = 0
BOEQ0     == BYTE_PTR = 0
BOEQ3     == BYTE_PTR = 3
FIFO_OD   == BUFFER[READ_PTR]

(* fifo__full_empty_ctr: an increment of a full FIFO and a decrement of an *)
(* empty one wrap, and of two assignments in one clock the last one holds. *)
NextCount(n, inc, dec) ==
  IF dec THEN (IF n = 0 THEN DEPTH ELSE n - 1)
  ELSE IF inc THEN (IF n = DEPTH THEN 0 ELSE n + 1)
  ELSE n

(* The lanes of fifo_write_strobes.                                        *)
WriteLanes(lhword, llword, lbyte) ==
  {l \in Lanes : \/ lhword /\ l \in {1, 2}
                 \/ llword /\ l \in {3, 4}
                 \/ lbyte /\ l = BYTE_PTR + 1}

Stored(lanes, data) ==
  [BUFFER EXCEPT ![WRITE_PTR] = [l \in Lanes |-> IF l \in lanes THEN data[l] ELSE @[l]]]

-------------------------------------------------------------------------------

(* The state a reset leaves behind: DMAENA low holds the FIFO in reset and *)
(* A1, high after a reset, is in the byte pointer.                         *)
FifoInit ==
  /\ COUNT = 0
  /\ WRITE_PTR = 0
  /\ READ_PTR = 0
  /\ BYTE_PTR = 2
  /\ BUFFER = [p \in 0..(DEPTH - 1) |-> Zero]

(* posedge CLK90: the buffer.                                              *)
FifoPosedge90(rst, lhword, llword, lbyte, data) ==
  /\ BUFFER' = IF rst THEN [p \in 0..(DEPTH - 1) |-> Zero]
               ELSE Stored(WriteLanes(lhword, llword, lbyte), data)
  /\ UNCHANGED <<COUNT, WRITE_PTR, READ_PTR, BYTE_PTR>>

(* posedge CLK135: the two pointers.  The mutant's do not wrap.            *)
Mutant_NoWrap(rst, incni, incno) ==
  /\ WRITE_PTR' = IF rst THEN 0 ELSE IF incni THEN WRITE_PTR + 1 ELSE WRITE_PTR
  /\ READ_PTR' = IF rst THEN 0 ELSE IF incno THEN READ_PTR + 1 ELSE READ_PTR
  /\ UNCHANGED <<COUNT, BYTE_PTR, BUFFER>>

FifoPosedge135(rst, incni, incno) ==
  /\ WRITE_PTR' = IF rst THEN 0 ELSE IF incni THEN (WRITE_PTR + 1) % DEPTH ELSE WRITE_PTR
  /\ READ_PTR' = IF rst THEN 0 ELSE IF incno THEN (READ_PTR + 1) % DEPTH ELSE READ_PTR
  /\ UNCHANGED <<COUNT, BYTE_PTR, BUFFER>>

(* negedge CLK: the longword counter.                                      *)
FifoNegedge(rst, inc, dec) ==
  /\ COUNT' = IF rst THEN 0 ELSE NextCount(COUNT, inc, dec)
  /\ UNCHANGED <<WRITE_PTR, READ_PTR, BYTE_PTR, BUFFER>>

(* negedge CLK90: the byte pointer, loaded with {A1, 0}.                   *)
FifoNegedge90(rst, a1, incbo) ==
  /\ BYTE_PTR' = IF rst THEN (IF a1 THEN 2 ELSE 0)
                 ELSE IF incbo THEN (BYTE_PTR + 1) % 4 ELSE BYTE_PTR
  /\ UNCHANGED <<COUNT, WRITE_PTR, READ_PTR, BUFFER>>

(* Byte is what a lane can hold.                                           *)
FifoTypeOK(Byte) ==
  /\ COUNT \in 0..DEPTH
  /\ WRITE_PTR \in 0..(DEPTH - 1)
  /\ READ_PTR \in 0..(DEPTH - 1)
  /\ BYTE_PTR \in 0..3
  /\ BUFFER \in [0..(DEPTH - 1) -> [Lanes -> Byte]]
===============================================================================
