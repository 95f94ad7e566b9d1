------------------------------- MODULE DmaStream ------------------------------
(***************************************************************************)
(* What a DMA engine promises: the bytes of a transfer, numbered from 1 by *)
(* the sender, reach the receiver in order, none lost, none twice, at most *)
(* Capacity of them under way; and a transfer is over only when it is      *)
(* complete.                                                               *)
(***************************************************************************)
EXTENDS Naturals, Sequences

CONSTANT Capacity

VARIABLES
  active,   \* a transfer is under way
  size,     \* its length in bytes
  taken,    \* bytes taken from the sender; memory may be read past the end
  got       \* the bytes the receiver has of it

Init == active = FALSE /\ size = 0 /\ taken = 0 /\ got = <<>>

Begin ==
  /\ ~active /\ active'
  /\ size' \in Nat
  /\ taken' = 0 /\ got' = <<>>

Take ==
  /\ active
  /\ taken' \in (taken + 1)..(Len(got) + Capacity)
  /\ UNCHANGED <<active, size, got>>

Give ==
  /\ active
  /\ Len(got') \in (Len(got) + 1)..size
  /\ Len(got') <= taken
  /\ got' = [k \in 1..Len(got') |-> IF k <= Len(got) THEN got[k] ELSE k]
  /\ UNCHANGED <<active, size, taken>>

End ==
  /\ active /\ ~active'
  /\ Len(got) = size
  /\ UNCHANGED <<size, taken, got>>

Next == Begin \/ Take \/ Give \/ End

Spec == Init /\ [][Next]_<<active, size, taken, got>>
===============================================================================
