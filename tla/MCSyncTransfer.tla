----------------------------- MODULE MCSyncTransfer ----------------------------
(***************************************************************************)
(* The clocks the driver's documentation names, with 11, which is in no    *)
(* range of set_clk_freq, and the codes on both sides of every period one  *)
(* of them can do.                                                         *)
(***************************************************************************)
EXTENDS SyncTransfer

AllClocks == 8..20
SomePeriods == {-1, 251}
EdgeCodes ==
  {0, 255} \cup {code \in 0..255 : \E f \in AllClocks, x \in 0..7 :
                   calc_sx_table(f)[x] \in {4 * code, 4 * code - 4}}
===============================================================================
