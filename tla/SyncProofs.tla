------------------------------- MODULE SyncProofs ------------------------------
(***************************************************************************)
(* The periods of synchronous transfers for every clock in the ranges of   *)
(* the driver (told to it as a range or as a number), every code and       *)
(* offset a target may answer with, and every order of negotiations and    *)
(* settings:                                                               *)
(*                                                                         *)
(*   1  round_period and the table it works on                             *)
(*   2  the register: OffsetAgreed, NotFasterIfReachable, NoStepWasted     *)
(***************************************************************************)
EXTENDS SyncTransfer, TLAPS

-------------------------------------------------------------------------------
(* 1.  round_period and the table.                                         *)

Frequencies == 8..10 \cup 12..20

(* set_clk_freq makes one of these of any number it is called with.        *)
LEMMA Frequency == \A freq \in Int : set_clk_freq(freq).mhz \in Frequencies
BY DEF set_clk_freq, Frequencies

(* A nonempty set of entries has a first one, which round_period takes.    *)
LEMMA FirstEntry ==
  ASSUME NEW S \in SUBSET (1..7), S # {}
  PROVE  \E x \in S : \A y \in S : x <= y
<1>1. \A y \in S : y \in {1, 2, 3, 4, 5, 6, 7}
  OBVIOUS
<1>2. CASE 1 \in S
  BY <1>1, <1>2
<1>3. CASE 1 \notin S /\ 2 \in S
  BY <1>1, <1>3
<1>4. CASE 1 \notin S /\ 2 \notin S /\ 3 \in S
  BY <1>1, <1>4
<1>5. CASE 1 \notin S /\ 2 \notin S /\ 3 \notin S /\ 4 \in S
  BY <1>1, <1>5
<1>6. CASE S \cap {1, 2, 3, 4} = {} /\ 5 \in S
  BY <1>1, <1>6
<1>7. CASE S \cap {1, 2, 3, 4, 5} = {} /\ 6 \in S
  BY <1>1, <1>7
<1>8. CASE S \cap {1, 2, 3, 4, 5, 6} = {}
  <2>1. PICK y \in S : TRUE
    OBVIOUS
  <2>2. \A z \in S : z = 7
    BY <1>1, <1>8
  <2>3. QED
    BY <2>1, <2>2
<1>9. QED
  BY <1>2, <1>3, <1>4, <1>5, <1>6, <1>7, <1>8

(* The entry taken is no faster than the period where the table has one    *)
(* that is not, and the entry before it is faster.                         *)
LEMMA RoundPeriod ==
  ASSUME NEW ns \in Nat, NEW table \in [0..7 -> Nat], table[0] = 1
  PROVE  LET x == round_period(ns, table)
         IN  /\ x \in 1..7
             /\ ns <= table[7] => ns <= table[x]
             /\ ns > 1 => ns > table[x - 1]
<1> DEFINE fits == {x \in 1..7 : ns <= table[x] /\ ns > table[x - 1]}
           x    == round_period(ns, table)
<1>1. CASE fits = {}
  <2>1. x = 7
    BY <1>1 DEF round_period
  <2>2. \A y \in 1..7 : ~(ns <= table[y] /\ ns > table[y - 1])
    BY <1>1
  <2>3. /\ table[0] \in Nat /\ table[1] \in Nat /\ table[2] \in Nat /\ table[3] \in Nat
        /\ table[4] \in Nat /\ table[5] \in Nat /\ table[6] \in Nat /\ table[7] \in Nat
    OBVIOUS
  <2>4. /\ ~(ns <= table[1] /\ ns > table[0]) /\ ~(ns <= table[2] /\ ns > table[1])
        /\ ~(ns <= table[3] /\ ns > table[2]) /\ ~(ns <= table[4] /\ ns > table[3])
        /\ ~(ns <= table[5] /\ ns > table[4]) /\ ~(ns <= table[6] /\ ns > table[5])
        /\ ~(ns <= table[7] /\ ns > table[6])
    BY <2>2
  <2>5. ns > 1 => ns > table[6]
    <3> HIDE DEF fits, x
    <3>1. QED
      BY <2>3, <2>4
  <2>6. QED
    BY <2>1, <2>5
<1>2. CASE fits # {}
  <2>1. PICK y \in fits : \A z \in fits : y <= z
    BY <1>2, FirstEntry
  <2>2. x = CHOOSE z \in fits : \A w \in fits : z <= w
    BY <1>2 DEF round_period
  <2>3. x \in fits
    BY <2>1, <2>2
  <2>4. QED
    BY <2>3
<1>3. QED
  BY <1>1, <1>2

(* round_4 rounds to a multiple of four, by at most two up or one down.    *)
LEMMA Round4 ==
  ASSUME NEW q \in Nat
  PROVE  round_4(q) \in Nat /\ round_4(q) % 4 = 0 /\ q - 1 <= round_4(q) /\ round_4(q) <= q + 2
BY DEF round_4

(* A table entry is the time of its cycles to within the 2 ns by which     *)
(* round_4 raises it and the few it may fall short of it.                  *)
LEMMA Entry ==
  ASSUME NEW f \in Frequencies, NEW x \in 1..7
  PROVE  LET ns    == calc_sx_table(f)[x]
             exact == (x + 1) * Divisor(f) * 500
         IN  /\ ns \in Nat /\ ns % 4 = 0
             /\ (ns - 2) * f <= exact
             /\ exact < (ns + 4) * f
<1> DEFINE d == ((100000 * Divisor(f)) \div 2) \div f
           q == ((x + 1) * d) \div 100
           ns == calc_sx_table(f)[x]
<1>1. ns = round_4(q)
  BY DEF calc_sx_table
<1>2. Divisor(f) \in {2, 3, 4} /\ f \in Nat
  BY DEF Divisor, Frequencies
<1>3. /\ d \in Nat
      /\ d * f <= 50000 * Divisor(f)
      /\ 50000 * Divisor(f) < d * f + f
  <2>1. /\ f = 8 \/ f = 9 \/ f = 10 \/ f = 12 \/ f = 13 \/ f = 14 \/ f = 15 \/ f = 16
           \/ f = 17 \/ f = 18 \/ f = 19 \/ f = 20
        /\ (100000 * Divisor(f)) \div 2 = 50000 * Divisor(f)
    BY <1>2 DEF Frequencies
  <2>2. QED
    BY <1>2, <2>1
<1>4. q \in Nat /\ 100 * q <= (x + 1) * d /\ (x + 1) * d < 100 * q + 100
  <2> HIDE DEF d
  <2>1. (x + 1) * d \in Nat
    BY <1>3
  <2>2. QED
    BY <2>1
<1> HIDE DEF d, q, ns
<1>5. ns \in Nat /\ ns % 4 = 0 /\ q - 1 <= ns /\ ns <= q + 2
  BY <1>1, <1>4, Round4
<1>6. (ns - 2) * f <= (x + 1) * Divisor(f) * 500
  <2>1. 100 * (q * f) <= (x + 1) * (d * f)
    BY <1>2, <1>3, <1>4
  <2>2. (x + 1) * (d * f) <= (x + 1) * (50000 * Divisor(f))
    BY <1>2, <1>3
  <2>3. (ns - 2) * f <= q * f
    BY <1>2, <1>4, <1>5
  <2>4. QED
    BY <1>2, <1>3, <1>4, <1>5, <2>1, <2>2, <2>3
<1>7. (x + 1) * Divisor(f) * 500 < (ns + 4) * f
  <2>1. (x + 1) * (50000 * Divisor(f)) < (x + 1) * (d * f) + 8 * f
    BY <1>2, <1>3
  <2>2. (x + 1) * (d * f) <= (100 * q + 100) * f
    BY <1>2, <1>3, <1>4
  <2>3. (q + 3) * f <= (ns + 4) * f
    BY <1>2, <1>4, <1>5
  <2>4. QED
    BY <1>2, <1>3, <1>4, <1>5, <2>1, <2>2, <2>3
<1>8. QED
  BY <1>5, <1>6, <1>7 DEF ns

-------------------------------------------------------------------------------
(* 2.  The register.                                                       *)

(* The table is that of the clock; an asynchronous target is sent to       *)
(* asynchronously, and for a synchronous one the register holds what its   *)
(* period and offset make it, with fast: as it was when they were agreed.  *)
SyncInv ==
  /\ clock \in Clocks
  /\ given \in BoardArgs
  /\ sx_table = calc_sx_table(mhz)
  /\ fast \in BOOLEAN
  /\ target[2] \in Nat
  /\ target[2] = 0 => sync_xfer.offset = 0 /\ ~sync_xfer.fss
  /\ target[2] # 0 =>
       /\ target[1] \in Nat \ {0}
       /\ \E fst \in BOOLEAN :
            sync_xfer = calc_sync_xfer(target[1], target[2], fst, sx_table)

(* What the driver makes of the clock it was told: a frequency of the same *)
(* range that is no higher, the clock itself where it was given the        *)
(* number, and at least four fifths of it, unless the clock is 11 MHz,     *)
(* which belongs to no range and of which it makes 8.                      *)
LEMMA ClockTold ==
  ASSUME clock \in Clocks, given \in BoardArgs
  PROVE  /\ clock \in 8..20
         /\ mhz \in Frequencies
         /\ ChipDivisor = Divisor(mhz)
         /\ mhz <= clock
         /\ clock # 11 /\ given = clock => mhz = clock
         /\ clock # 11 => 4 * clock <= 5 * mhz
         /\ 8 * clock <= 11 * mhz
<1> USE DEF FS_8_10, FS_12_15, FS_16_20
<1>1. clock \in 8..20
  BY SyncAssumption
<1>2. given = clock \/ given = set_clk_freq(clock).fs
  BY DEF BoardArgs
<1>3. CASE clock \in 8..10
  <2>1. given \in {FS_8_10, clock}
    BY <1>2, <1>3 DEF set_clk_freq
  <2>2. clock_freq = FS_8_10 /\ mhz = IF given = clock THEN clock ELSE 8
    BY <1>3, <2>1 DEF set_clk_freq, clock_freq, mhz
  <2>3. QED
    BY <1>3, <2>2 DEF ChipDivisor, Divisor, Frequencies
<1>4. CASE clock = 11
  <2>1. given \in {FS_8_10, 11}
    BY <1>2, <1>4 DEF set_clk_freq
  <2>2. clock_freq = FS_8_10 /\ mhz = 8
    BY <1>4, <2>1 DEF set_clk_freq, clock_freq, mhz
  <2>3. QED
    BY <1>4, <2>2 DEF ChipDivisor, Divisor, Frequencies
<1>5. CASE clock \in 12..15
  <2>1. given \in {FS_12_15, clock}
    BY <1>2, <1>5 DEF set_clk_freq
  <2>2. clock_freq = FS_12_15 /\ mhz = IF given = clock THEN clock ELSE 12
    BY <1>5, <2>1 DEF set_clk_freq, clock_freq, mhz
  <2>3. QED
    BY <1>5, <2>2 DEF ChipDivisor, Divisor, Frequencies
<1>6. CASE clock \in 16..20
  <2>1. given \in {FS_16_20, clock}
    BY <1>2, <1>6 DEF set_clk_freq
  <2>2. clock_freq = FS_16_20 /\ mhz = IF given = clock THEN clock ELSE 16
    BY <1>6, <2>1 DEF set_clk_freq, clock_freq, mhz
  <2>3. QED
    BY <1>6, <2>2 DEF ChipDivisor, Divisor, Frequencies
<1>7. QED
  BY <1>1, <1>3, <1>4, <1>5, <1>6

(* What calc_sx_table builds from the frequency.                           *)
LEMMA Table ==
  ASSUME NEW f \in Frequencies
  PROVE  /\ calc_sx_table(f) \in [0..7 -> Nat]
         /\ calc_sx_table(f)[0] = 1
         /\ calc_sx_table(f)[1] >= 8
<1> DEFINE table == calc_sx_table(f)
<1>1. table = [x \in 0..7 |-> table[x]] /\ table[0] = 1
  BY DEF calc_sx_table
<1>2. \A x \in 1..7 : table[x] \in Nat
  BY Entry
<1>3. table[1] >= 8
  <2>1. table[1] \in Nat /\ (1 + 1) * Divisor(f) * 500 < (table[1] + 4) * f
    BY Entry
  <2>2. Divisor(f) \in {2, 3, 4} /\ f \in Nat /\ f > 0 /\ f <= 20
    BY DEF Divisor, Frequencies
  <2> HIDE DEF table
  <2>3. 2000 < (table[1] + 4) * f
    BY <2>1, <2>2
  <2>4. CASE table[1] < 8
    <3>1. (table[1] + 4) * f <= 12 * f
      BY <2>1, <2>2, <2>4
    <3>2. QED
      BY <2>1, <2>2, <2>3, <3>1
  <2>5. QED
    BY <2>1, <2>4
<1>4. table \in [0..7 -> Nat]
  <2> HIDE DEF table
  <2>1. \A x \in 0..7 : table[x] \in Nat
    BY <1>1, <1>2
  <2>2. QED
    BY <1>1, <2>1
<1>5. QED
  BY <1>1, <1>3, <1>4

(* A register for an offset of 0.                                          *)
LEMMA Asynchronous ==
  ASSUME NEW period, NEW fst, NEW table
  PROVE  LET r == calc_sync_xfer(period, 0, fst, table)
         IN  r.offset = 0 /\ ~r.fss
<1> DEFINE fss == 0 # 0 /\ fst
           c == round_period(period * 4 * (IF fss THEN 2 ELSE 1), table) + 1
           off == IF 0 < OPTIMUM_SX_OFF THEN 0 ELSE OPTIMUM_SX_OFF
<1>1. calc_sync_xfer(period, 0, fst, table) = [cycles |-> c, offset |-> off, fss |-> fss]
  BY Zenon DEF calc_sync_xfer
<1>2. off = 0 /\ ~fss
  BY DEF OPTIMUM_SX_OFF
<1> HIDE DEF c, off, fss
<1>3. QED
  BY <1>1, <1>2

(* After wd33c93_init no target has a period.                              *)
LEMMA SyncInit == Init => SyncInv
<1> SUFFICES ASSUME Init PROVE SyncInv
  OBVIOUS
<1>1. clock \in Clocks /\ given \in BoardArgs
  BY DEF Init, BoardArgs
<1>2. target[2] = 0 /\ fast \in BOOLEAN /\ sx_table = calc_sx_table(mhz)
  BY DEF Init
<1>3. sync_xfer.offset = 0 /\ ~sync_xfer.fss
  <2>1. \E table : sync_xfer = calc_sync_xfer(DEFAULT_SX_PER \div 4, 0, FALSE, table)
    BY Zenon DEF Init
  <2>2. QED
    BY <2>1, Asynchronous
<1>4. QED
  BY <1>1, <1>2, <1>3 DEF SyncInv

(* The driver asks for the fastest period of the table, which is not 0.    *)
LEMMA AskedPeriod ==
  ASSUME SyncInv, NEW no_sync \in BOOLEAN, Asks(no_sync)
  PROVE  /\ sent'[2] # 0 => sent'[1] \in Nat \ {0}
         /\ sent'[2] \in Nat
<1>1. CASE no_sync
  BY <1>1 DEF Asks, calc_sync_msg
<1>2. CASE ~no_sync
  <2>1. sent' = <<(sx_table[1] \div 4) \div (IF fast THEN 2 ELSE 1), OPTIMUM_SX_OFF>>
    BY <1>2 DEF Asks, calc_sync_msg, OPTIMUM_SX_OFF
  <2>2. sx_table[1] \in Nat /\ sx_table[1] >= 8
    BY Table, ClockTold DEF SyncInv
  <2>3. QED
    BY <2>1, <2>2 DEF OPTIMUM_SX_OFF
<1>3. QED
  BY <1>1, <1>2

(* A message, a setting or a reset leaves each register as the answer of   *)
(* its target asks.                                                        *)
LEMMA SyncNext == SyncInv /\ [Next]_vars => SyncInv'
<1> SUFFICES ASSUME SyncInv, [Next]_vars
             PROVE  SyncInv'
  OBVIOUS
<1>1. ASSUME NEW no_sync \in BOOLEAN, NEW code \in Codes, NEW off \in Offsets,
             Asks(no_sync), Answered(code, off)
      PROVE  SyncInv'
  <2>1. /\ target' = <<code, off>>
        /\ code >= sent'[1] /\ off <= sent'[2]
        /\ sync_xfer' = IF off # 0 THEN calc_sync_xfer(code, off, fast, sx_table)
                        ELSE IF code # 0 THEN calc_sync_xfer(code, off, FALSE, sx_table)
                        ELSE Async
        /\ UNCHANGED <<clock, given, sx_table, fast>>
    BY <1>1 DEF Answered
  <2>2. code \in Nat /\ off \in Nat
    BY SyncAssumption
  <2>3. off = 0 => sync_xfer'.offset = 0 /\ ~sync_xfer'.fss
    BY <2>1, Asynchronous DEF Async
  <2>4. off # 0 => code # 0
    BY <1>1, <2>1, <2>2, AskedPeriod
  <2>5. QED
    BY <2>1, <2>2, <2>3, <2>4 DEF SyncInv, BoardArgs, mhz
<1>2. CASE Refused
  <2>1. /\ target'[2] = 0 /\ sync_xfer' = Async /\ UNCHANGED <<clock, given, sx_table, fast>>
    BY <1>2 DEF Refused
  <2>2. sync_xfer'.offset = 0 /\ ~sync_xfer'.fss
    BY <2>1, Asynchronous DEF Async
  <2>3. QED
    BY <2>1, <2>2 DEF SyncInv, BoardArgs, mhz
<1>3. CASE Set
  BY <1>3 DEF Set, SyncInv, BoardArgs, mhz
<1>4. CASE UNCHANGED vars
  BY <1>4 DEF vars, SyncInv, BoardArgs, mhz
<1>5. QED
  BY <1>1, <1>2, <1>3, <1>4 DEF Next, Negotiate

(* SyncInv holds of every reachable state.                                 *)
LEMMA SyncInvariant == Spec => []SyncInv
BY SyncInit, SyncNext, PTL DEF Spec

(* The chip never sends more bytes ahead of their acknowledge than the     *)
(* target takes, and none to a target that agreed to asynchronous          *)
(* transfers, whatever it answered before (calc_sync_xfer, wd33c93.c:326). *)
THEOREM OffsetAgreedHolds == Spec => []OffsetAgreed
<1>1. SyncInv => OffsetAgreed
  BY DEF SyncInv, OffsetAgreed, calc_sync_xfer, OPTIMUM_SX_OFF
<1>2. QED
  BY <1>1, SyncInvariant, PTL

(* What SyncInv says of the register of a synchronous target, in numbers.  *)
LEMMA Register ==
  ASSUME SyncInv, target[2] # 0
  PROVE  \E x \in 1..7, half \in {1, 2} :
           LET ns    == target[1] * 4 * half
               exact == (x + 1) * Divisor(mhz) * 500
           IN  /\ sync_xfer.cycles = x + 1
               /\ sync_xfer.fss <=> half = 2
               /\ ns <= sx_table[7] => (ns - 2) * mhz <= exact
               /\ x > 1 => x * Divisor(mhz) * 500 < ns * mhz
<1>1. PICK fst \in BOOLEAN : sync_xfer = calc_sync_xfer(target[1], target[2], fst, sx_table)
  BY DEF SyncInv
<1> DEFINE half == IF fst THEN 2 ELSE 1
           ns   == target[1] * 4 * half
           x    == round_period(ns, sx_table)
           D    == Divisor(mhz) * 500
<1>2. sync_xfer.cycles = x + 1 /\ (sync_xfer.fss <=> half = 2)
  BY <1>1 DEF calc_sync_xfer
<1>3. ns \in Nat /\ ns > 1 /\ ns % 4 = 0 /\ half \in {1, 2}
  BY DEF SyncInv
<1>4. /\ sx_table \in [0..7 -> Nat] /\ sx_table[0] = 1
      /\ mhz \in Frequencies /\ sx_table = calc_sx_table(mhz)
      /\ mhz \in Nat /\ D \in Nat
  BY Table, ClockTold DEF SyncInv, Frequencies, Divisor
<1> HIDE DEF ns, half
<1>5. /\ x \in 1..7
      /\ ns <= sx_table[7] => ns <= sx_table[x]
      /\ ns > sx_table[x - 1]
  BY <1>3, <1>4, RoundPeriod
<1> HIDE DEF x
<1>6. ns <= sx_table[7] => (ns - 2) * mhz <= (x + 1) * D
  <2>1. sx_table[x] \in Nat /\ (sx_table[x] - 2) * mhz <= (x + 1) * Divisor(mhz) * 500
    BY <1>4, <1>5, Entry
  <2>2. (x + 1) * Divisor(mhz) * 500 = (x + 1) * D
    BY <1>4, <1>5 DEF Frequencies, Divisor
  <2> HIDE DEF D
  <2>3. ns <= sx_table[7] => (ns - 2) * mhz <= (sx_table[x] - 2) * mhz
    BY <1>3, <1>4, <1>5, <2>1
  <2>4. QED
    BY <1>3, <1>4, <1>5, <2>1, <2>2, <2>3
<1>7. x > 1 => x * D < ns * mhz
  <2> SUFFICES ASSUME x > 1 PROVE x * D < ns * mhz
    OBVIOUS
  <2>1. x - 1 \in 1..7 /\ (x - 1) + 1 = x
    BY <1>5
  <2>2. /\ sx_table[x - 1] \in Nat /\ sx_table[x - 1] % 4 = 0
        /\ x * Divisor(mhz) * 500 < (sx_table[x - 1] + 4) * mhz
    BY <1>4, <2>1, Entry
  <2>3. sx_table[x - 1] + 4 <= ns
    BY <1>3, <1>5, <2>2
  <2>4. (sx_table[x - 1] + 4) * mhz <= ns * mhz
    BY <1>3, <1>4, <2>2, <2>3
  <2>5. x * Divisor(mhz) * 500 = x * D
    BY <1>4, <1>5 DEF Frequencies, Divisor
  <2> HIDE DEF D
  <2>6. QED
    BY <1>3, <1>4, <1>5, <2>2, <2>4, <2>5
<1>8. /\ (x + 1) * D = (x + 1) * Divisor(mhz) * 500
      /\ x * D = x * Divisor(mhz) * 500
  BY <1>4, <1>5 DEF Frequencies, Divisor
<1>9. QED
  BY <1>2, <1>3, <1>5, <1>6, <1>7, <1>8 DEF ns

(* Halving a bound for fast: keeps the comparison.                         *)
LEMMA Halves ==
  ASSUME NEW e \in Nat, NEW n \in Nat, NEW half \in {1, 2}
  PROVE  /\ half * n <= e => n <= e \div half
         /\ e < half * n => e \div half < n
OBVIOUS

(* By the table it works with the chip sends no more than 2 ns faster than *)
(* agreed, for as far as STR_FSS is effective it is allowed for.           *)
LEMMA TableKept ==
  ASSUME SyncInv, Reachable, target[2] # 0
  PROVE  Period(sync_xfer) \in Nat /\ Period(sync_xfer) >= (4 * target[1] - 2) * mhz
<1>1. PICK x \in 1..7, half \in {1, 2} :
        /\ sync_xfer.cycles = x + 1
        /\ sync_xfer.fss <=> half = 2
        /\ target[1] * 4 * half <= sx_table[7] =>
             (target[1] * 4 * half - 2) * mhz <= (x + 1) * Divisor(mhz) * 500
  BY Register
<1>2. /\ target[1] \in Nat \ {0} /\ mhz \in Nat
      /\ Divisor(mhz) \in {2, 3, 4} /\ ChipDivisor = Divisor(mhz)
  BY ClockTold DEF SyncInv, Frequencies, Divisor
<1> DEFINE e == (x + 1) * Divisor(mhz) * 500
           t == target[1]
           h == IF sync_xfer.fss /\ clock_freq = FS_16_20 THEN 2 ELSE 1
<1>3. half = (IF sync_xfer.fss THEN 2 ELSE 1) /\ h \in 1..half
  BY <1>1
<1>4. (t * 4 * half - 2) * mhz <= e /\ e \in Nat
  <2>1. sx_table[7] >= 4 * t * half
    BY <1>3 DEF Reachable
  <2>2. 4 * t * half = t * 4 * half
    BY <1>2
  <2>3. t * 4 * half <= sx_table[7]
    BY <2>1, <2>2
  <2>4. QED
    BY <1>1, <1>2, <2>3
<1>5. Period(sync_xfer) = e \div h
  BY <1>1, <1>2 DEF Period
<1> HIDE DEF e, t, h
<1>6. (4 * t - 2) * mhz \in Nat /\ h * ((4 * t - 2) * mhz) <= e
  <2>1. CASE half = 1
    BY <1>2, <1>3, <1>4, <2>1 DEF t
  <2>2. CASE half = 2
    <3>1. (t * 8 - 2) * mhz <= e /\ t \in Nat \ {0} /\ h \in {1, 2}
      BY <1>2, <1>3, <1>4, <2>2 DEF t
    <3>2. 2 * ((4 * t - 2) * mhz) = (t * 8 - 4) * mhz
      BY <1>2, <3>1
    <3>3. (t * 8 - 4) * mhz <= (t * 8 - 2) * mhz
      BY <1>2, <3>1
    <3>4. (4 * t - 2) * mhz \in Nat
      BY <1>2, <3>1
    <3>5. h * ((4 * t - 2) * mhz) <= 2 * ((4 * t - 2) * mhz)
      BY <3>1, <3>4
    <3>6. QED
      BY <1>2, <1>4, <3>1, <3>2, <3>3, <3>4, <3>5
  <2>3. QED
    BY <2>1, <2>2
<1>7. h \in {1, 2}
  BY DEF h
<1>8. Period(sync_xfer) \in Nat
  BY <1>4, <1>5, <1>7
<1>9. QED
  BY <1>4, <1>5, <1>6, <1>7, <1>8, Halves DEF t

(* Where its slowest setting is slow enough, a chip whose clock is in one  *)
(* of the ranges 8-10, 12-15 and 16-20 MHz sends no more than 2 ns faster  *)
(* than agreed if the driver was given its clock, and no more than a       *)
(* quarter faster if it knows the range only; with 11 MHz, of which        *)
(* set_clk_freq makes 8, by 3/11 and no more.  It holds of every code,     *)
(* offset and setting of fast:, with the rounding of the table down to     *)
(* cycles and up to SDTR codes (calc_sx_table, wd33c93.c:1863,             *)
(* set_clk_freq, :1890, and round_period, :309).                           *)
THEOREM NotFasterIfReachableHolds == Spec => []NotFasterIfReachable
<1>1. SyncInv => NotFasterIfReachable
  <2> DEFINE n == 4 * target[1] - 2
             p == Period(sync_xfer)
  <2> SUFFICES ASSUME SyncInv, Reachable, target[2] # 0
               PROVE  /\ given = clock /\ clock # 11 => p >= Agreed
                      /\ clock # 11 => 5 * p >= 4 * Agreed
                      /\ 11 * p >= 8 * Agreed
    <3>1. InARange => clock # 11
      BY DEF InARange
    <3>2. QED
      BY <3>1 DEF NotFasterIfReachable
  <2>1. /\ clock \in Nat /\ mhz \in Nat /\ target[1] \in Nat \ {0}
        /\ given = clock /\ clock # 11 => mhz = clock
        /\ clock # 11 => 4 * clock <= 5 * mhz
        /\ 8 * clock <= 11 * mhz
    BY ClockTold DEF SyncInv, Frequencies
  <2>2. p \in Nat /\ p >= n * mhz
    BY TableKept
  <2>3. n \in Nat
    BY <2>1
  <2>4. Agreed = n * clock
    BY DEF Agreed
  <2> HIDE DEF n, p
  <2>5. ASSUME NEW a \in Nat, NEW b \in Nat, a * clock <= b * mhz
        PROVE  b * p >= a * Agreed
    <3>1. n * (a * clock) <= n * (b * mhz)
      <4>1. a * clock \in Nat /\ b * mhz \in Nat
        BY <2>1
      <4>2. QED
        BY <2>3, <2>5, <4>1
    <3>2. a * (n * clock) = n * (a * clock) /\ b * (n * mhz) = n * (b * mhz)
      BY <2>1, <2>3
    <3>3. n * mhz \in Nat /\ n * clock \in Nat
      BY <2>1, <2>3
    <3>4. b * p >= b * (n * mhz)
      BY <2>2, <3>3
    <3>5. b * p \in Nat /\ b * (n * mhz) \in Nat /\ a * (n * clock) \in Nat
      BY <2>2, <3>3
    <3>6. QED
      BY <2>4, <3>1, <3>2, <3>4, <3>5
  <2>6. QED
    BY <2>1, <2>2, <2>4, <2>5
<1>2. QED
  BY <1>1, SyncInvariant, PTL

(* Nor does it send slower than it need: with a cycle less it would be     *)
(* faster than agreed, on every clock and for every answer, if fast: is    *)
(* not used with a divisor that makes STR_FSS ineffective.                 *)
THEOREM NoStepWastedHolds == Spec => []NoStepWasted
<1>1. SyncInv => NoStepWasted
  <2> DEFINE r == [sync_xfer EXCEPT !.cycles = @ - 1]
             t == target[1]
  <2> SUFFICES ASSUME SyncInv, target[2] # 0, sync_xfer.cycles > 2,
                      sync_xfer.fss => clock_freq = FS_16_20
               PROVE  Period(r) < 4 * t * clock
    BY DEF NoStepWasted
  <2>1. PICK x \in 1..7, half \in {1, 2} :
          /\ sync_xfer.cycles = x + 1
          /\ sync_xfer.fss <=> half = 2
          /\ x > 1 => x * Divisor(mhz) * 500 < t * 4 * half * mhz
    BY Register
  <2>2. /\ t \in Nat /\ mhz \in Nat /\ clock \in Nat /\ mhz <= clock
        /\ Divisor(mhz) \in {2, 3, 4} /\ ChipDivisor = Divisor(mhz)
    BY ClockTold DEF SyncInv, Frequencies, Divisor
  <2>3. r.cycles = x /\ r.fss = sync_xfer.fss
    <3>1. PICK period, offset, fst : sync_xfer = calc_sync_xfer(period, offset, fst, sx_table)
      BY DEF SyncInv
    <3>2. r.cycles = sync_xfer.cycles - 1 /\ r.fss = sync_xfer.fss
      BY <3>1 DEF calc_sync_xfer
    <3>3. QED
      BY <2>1, <3>2
  <2> DEFINE e == x * Divisor(mhz) * 500
  <2>4. Period(r) = e \div half
    BY <2>1, <2>2, <2>3 DEF Period
  <2>5. e \in Nat /\ e < t * 4 * half * mhz
    BY <2>1, <2>2
  <2>6. t * 4 * half * mhz = half * (4 * t * mhz) /\ 4 * t * mhz \in Nat
    BY <2>2
  <2>7. 4 * t * mhz <= 4 * t * clock /\ 4 * t * clock \in Nat
    <3>1. t * mhz <= t * clock /\ t * mhz \in Nat /\ t * clock \in Nat
      BY <2>2
    <3>2. QED
      BY <2>2, <3>1
  <2> HIDE DEF e, t, r
  <2>8. Period(r) < 4 * t * mhz
    BY <2>4, <2>5, <2>6, Halves
  <2>9. Period(r) \in Nat
    BY <2>4, <2>5
  <2>10. QED
    BY <2>6, <2>7, <2>8, <2>9
<1>2. QED
  BY <1>1, SyncInvariant, PTL
===============================================================================
