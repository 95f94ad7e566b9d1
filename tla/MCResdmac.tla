------------------------------- MODULE MCResdmac ------------------------------
(***************************************************************************)
(* Transfers for the model checker: short ones, aligned to a longword or   *)
(* not, of every length around the longwords and the size of the FIFO.     *)
(***************************************************************************)
EXTENDS Resdmac

Transfer(dir, a1, lens) == [dir : {dir}, a1 : {a1}, len : lens]

(* Reads that do not end with three bytes in their last longword: what     *)
(* becomes of the others is the run three_bytes_left.  (An empty read to   *)
(* an odd word is left out for the same reason: the byte pointer starts at *)
(* the second word, and the flush takes that for a residue.)               *)
AlignedReads == Transfer(TRUE, FALSE, {0, 1, 2, 4, 6, 8, 9, 12})
OddReads     == Transfer(TRUE, TRUE, {2, 3, 4, 7, 10})
ThreeLeft    == Transfer(TRUE, FALSE, {3, 7})

Reads  == AlignedReads \cup OddReads
Writes == Transfer(FALSE, FALSE, {0, 1, 2, 3, 9}) \cup Transfer(FALSE, TRUE, {1, 3, 6})

ReadsAndWrites == Reads \cup Writes

(* Longer than the FIFO of the code, 32 bytes; short enough for the CPU to *)
(* meet both ends of a transfer; and flushed with little or nothing in it. *)
LongTransfers == Transfer(TRUE, FALSE, {38}) \cup Transfer(FALSE, TRUE, {38})
DeepTransfers ==
  LongTransfers \cup Transfer(TRUE, FALSE, {5}) \cup Transfer(FALSE, TRUE, {5})
  \cup Transfer(FALSE, FALSE, {0, 2, 3})

LiveTransfers == Transfer(TRUE, FALSE, {6}) \cup Transfer(FALSE, TRUE, {3})
Stopped       == Transfer(FALSE, FALSE, {4})
SmallWrites   == Transfer(FALSE, FALSE, {2, 4})
===============================================================================
