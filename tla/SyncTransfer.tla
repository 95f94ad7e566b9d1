------------------------------ MODULE SyncTransfer -----------------------------
(***************************************************************************)
(* The periods of synchronous transfers: the table of the periods the      *)
(* WD33C93 can do with its clock, the SDTR codes the driver sends, and the *)
(* register it sets from the codes it gets.  A negotiation is one action.  *)
(* The clock of the chip and what the driver was told of it are two things.*)
(***************************************************************************)
EXTENDS Integers

CONSTANTS
  Clocks,   \* the input clocks the chip may have, in MHz
  Periods,  \* the period: settings tried (-1: no number), in ns
  Codes,    \* the period codes a target may answer with
  Offsets   \* the offsets of the targets

ASSUME SyncAssumption ==
  /\ Clocks \subseteq 8..20
  /\ Periods \subseteq Nat \cup {-1}
  /\ Codes \subseteq 0..255
  /\ Offsets \subseteq 0..255

VARIABLES
  clock,          \* the input clock of the chip
  given,          \* what set_clk_freq was last called with: a code or a number
  sx_table,       \* hostdata->sx_table
  fast,           \* hostdata->fast
  default_sx_per, \* hostdata->default_sx_per
  sent,           \* the two bytes of the driver's SDTR
  target,         \* the two bytes the target agrees to
  sync_xfer       \* the register, a record of its fields

vars == <<clock, given, sx_table, fast, default_sx_per, sent, target, sync_xfer>>

OPTIMUM_SX_OFF == 12
DEFAULT_SX_PER == 376

(* WD33C93_FS_*: the divisor of the clock, two for FS_8_10.                *)
FS_8_10  == 0
FS_12_15 == 64
FS_16_20 == 128

(* hostdata->clock_freq and the frequency the table is made for: the       *)
(* lowest of the range where only the range is known.  An argument that    *)
(* makes no sense is taken for FS_8_10.                                    *)
set_clk_freq(freq) ==
  CASE freq \in 8..10  -> [fs |-> FS_8_10,  mhz |-> freq]
    [] freq \in 12..15 -> [fs |-> FS_12_15, mhz |-> freq]
    [] freq \in 16..20 -> [fs |-> FS_16_20, mhz |-> freq]
    [] freq = FS_12_15 -> [fs |-> FS_12_15, mhz |-> 12]
    [] freq = FS_16_20 -> [fs |-> FS_16_20, mhz |-> 16]
    [] OTHER           -> [fs |-> FS_8_10,  mhz |-> 8]

clock_freq == set_clk_freq(given).fs
mhz        == set_clk_freq(given).mhz

(* What a board passes to wd33c93_init: the range of its clock (a3000.c),  *)
(* or the number (WD33C93_FS_MHZ).                                         *)
BoardArgs == {set_clk_freq(clock).fs, clock}

round_4(x) ==
  CASE x % 4 = 1 -> x - 1 [] x % 4 = 2 -> x + 2 [] x % 4 = 3 -> x + 1 [] OTHER -> x

Divisor(f) == IF f < 11 THEN 2 ELSE IF f < 16 THEN 3 ELSE 4

(* sx_table[0..7].period_ns; entry x stands for x + 1 cycles of the chip.  *)
calc_sx_table(f) ==
  LET d == ((100000 * Divisor(f)) \div 2) \div f
  IN [x \in 0..7 |-> IF x = 0 THEN 1 ELSE round_4(((x + 1) * d) \div 100)]

Mutant_StepUp(period, table) ==
  LET fits == {x \in 1..7 : period < table[x] /\ period >= table[x - 1]}
  IN IF fits = {} THEN 7 ELSE CHOOSE x \in fits : \A y \in fits : x <= y
round_period(period, table) ==
  LET fits == {x \in 1..7 : period <= table[x] /\ period > table[x - 1]}
  IN IF fits = {} THEN 7 ELSE CHOOSE x \in fits : \A y \in fits : x <= y

(* The register: cycles per transfer, offset and STR_FSS, which halves the *)
(* cycles.                                                                 *)
Mutant_NotDoubled(period, offset, fst, table) ==
  [cycles |-> round_period(period * 4, table) + 1,
   offset |-> IF offset < OPTIMUM_SX_OFF THEN offset ELSE OPTIMUM_SX_OFF,
   fss    |-> offset # 0 /\ fst]
Mutant_FifoSize(period, offset, fst, table) ==
  [cycles |-> round_period(period * 4 * (IF offset # 0 /\ fst THEN 2 ELSE 1), table) + 1,
   offset |-> IF offset = 0 THEN 0 ELSE OPTIMUM_SX_OFF,
   fss    |-> offset # 0 /\ fst]
calc_sync_xfer(period, offset, fst, table) ==
  LET fss == offset # 0 /\ fst
      ns  == period * 4 * (IF fss THEN 2 ELSE 1)
  IN [cycles |-> round_period(ns, table) + 1,
      offset |-> IF offset < OPTIMUM_SX_OFF THEN offset ELSE OPTIMUM_SX_OFF,
      fss    |-> fss]

calc_sync_msg(period, offset, fst) ==
  <<(period \div 4) \div (IF offset # 0 /\ fst THEN 2 ELSE 1), offset>>

-----------------------------------------------------------------------------
Async == calc_sync_xfer(default_sx_per \div 4, 0, FALSE, sx_table)

(* wd33c93_init, with or without clock:, fast: and period:.  What clock:   *)
(* gives is the clock; the register is computed before it is looked at.    *)
Init ==
  /\ clock \in Clocks
  /\ \E arg \in BoardArgs :
       /\ given \in {arg, clock}
       /\ sync_xfer = calc_sync_xfer(DEFAULT_SX_PER \div 4, 0, FALSE,
                                     calc_sx_table(set_clk_freq(arg).mhz))
  /\ sx_table = calc_sx_table(mhz)
  /\ fast \in {FALSE, clock_freq = FS_16_20}
  /\ default_sx_per \in {DEFAULT_SX_PER} \cup
       {sx_table[IF ns = -1 THEN 7 ELSE round_period(ns, sx_table)] : ns \in Periods}
  /\ sent = <<0, 0>>
  /\ target = <<0, 0>>

(* The driver's SDTR, for synchronous transfers or (no_sync) against them, *)
(* answered by the target with no shorter period and no larger offset.     *)
Asks(no_sync) ==
  sent' = IF no_sync THEN calc_sync_msg(default_sx_per, 0, FALSE)
          ELSE calc_sync_msg(sx_table[1], OPTIMUM_SX_OFF, fast)
Answered(code, off) ==
  /\ code >= sent'[1] /\ off <= sent'[2]
  /\ target' = <<code, off>>
  /\ sync_xfer' = IF off # 0 THEN calc_sync_xfer(code, off, fast, sx_table)
                  ELSE IF code # 0 THEN calc_sync_xfer(code, off, FALSE, sx_table)
                  ELSE Async
  /\ UNCHANGED <<clock, given, sx_table, fast, default_sx_per>>
Negotiate ==
  \E no_sync \in BOOLEAN, code \in Codes, off \in Offsets :
    Asks(no_sync) /\ Answered(code, off)

(* A MESSAGE_REJECT, or the target's own SDTR, which the driver answers    *)
(* with an offset of 0: asynchronous transfers.                            *)
Refused ==
  /\ Asks(FALSE) \/ sent' = calc_sync_msg(default_sx_per, 0, FALSE)
  /\ target' = <<sent'[1], 0>>
  /\ sync_xfer' = Async
  /\ UNCHANGED <<clock, given, sx_table, fast, default_sx_per>>

(* wd33c93_write_info: period: and fast:.                                  *)
Set ==
  /\ \/ \E ns \in Periods \ {-1} :
          default_sx_per' = sx_table[round_period(ns, sx_table)] /\ UNCHANGED fast
     \/ fast' = ~fast /\ UNCHANGED default_sx_per
  /\ UNCHANGED <<clock, given, sx_table, sent, target, sync_xfer>>

Next == Negotiate \/ Refused \/ Set

Spec == Init /\ [][Next]_vars

-----------------------------------------------------------------------------
(* A period of the chip, in 1/clock ns: cycles of the input clock divided  *)
(* as clock_freq says, half of them with STR_FSS, which is only effective  *)
(* with divisor 4.                                                         *)
ChipDivisor == 2 + clock_freq \div 64
Period(r) ==
  (r.cycles * ChipDivisor * 500) \div (IF r.fss /\ clock_freq = FS_16_20 THEN 2 ELSE 1)

(* The period the target agreed to, less the 2 ns the table loses when it  *)
(* is rounded to SDTR codes, where its slowest entry is slow enough.       *)
Reachable == sx_table[7] >= 4 * target[1] * (IF sync_xfer.fss THEN 2 ELSE 1)
Agreed    == (4 * target[1] - 2) * clock

(* Where it can be slow enough, the chip is not faster than the target     *)
(* agreed if the driver was given the number of its clock, and at most a   *)
(* quarter faster if the driver knows the range only ("it might be         *)
(* desirable to adjust the transfer periods closer to the really attached, *)
(* possibly 25% higher, input-clock", wd33c93.c:1838).  11 MHz is in no    *)
(* range: it is taken for 8, the chip is faster by 3/11 and no more.       *)
InARange == clock \in 8..10 \cup 12..15 \cup 16..20
NotFasterIfReachable ==
  Reachable /\ target[2] # 0 =>
    /\ given = clock /\ InARange => Period(sync_xfer) >= Agreed
    /\ InARange => 5 * Period(sync_xfer) >= 4 * Agreed
    /\ 11 * Period(sync_xfer) >= 8 * Agreed

(* Nor is it slower than it need be: a cycle less would be faster than     *)
(* agreed.  (With fast: and another divisor than 4 it is twice as slow.)   *)
NoStepWasted ==
  target[2] # 0 /\ sync_xfer.cycles > 2 /\ (sync_xfer.fss => clock_freq = FS_16_20) =>
    Period([sync_xfer EXCEPT !.cycles = @ - 1]) < 4 * target[1] * clock

(* No more bytes are sent ahead than the target takes, and none at all by  *)
(* a driver or a target that wants asynchronous transfers.                 *)
OffsetAgreed == sync_xfer.offset <= target[2] /\ (target[2] = 0 => ~sync_xfer.fss)
===============================================================================
