-------------------------------- MODULE HostBooks ------------------------------
(***************************************************************************)
(* What the driver's books say of the commands, for every set of commands  *)
(* and every machine.  In three parts:                                     *)
(*                                                                         *)
(*   1  queues                                                             *)
(*   2  the invariants                                                     *)
(*   3  types                                                              *)
(***************************************************************************)
EXTENDS ScsiHost, FiniteSetTheorems, SequenceTheorems, WellFoundedInduction,
        TLAPS

-------------------------------------------------------------------------------
(* 1.  Queues without repetitions.                                         *)

Distinct(q) == \A i, j \in DOMAIN q : q[i] = q[j] => i = j

(* The least of a set of places: the loops of the driver that search a     *)
(* queue stop at the first command that will do.                           *)
LEMMA Least ==
  ASSUME NEW n \in Nat, NEW S \in SUBSET (1..n), S # {}
  PROVE  Min(S) \in S /\ \A y \in S : Min(S) <= y
<1> DEFINE Upto(i) == {j \in 1..n : j <= i}
           T == {Upto(i) : i \in S}
<1>1. IsWellFoundedOn(StrictSubsetOrdering(1..n), FiniteSubsetsOf(1..n))
  BY FS_Interval, FS_StrictSubsetOrderingWellFounded, FS_FiniteSubsetsOfFinite
<1>2. T \subseteq FiniteSubsetsOf(1..n) /\ T # {}
  <2>1. IsFiniteSet(1..n) BY FS_Interval
  <2>2. ASSUME NEW X \in T PROVE X \in SUBSET (1..n) /\ IsFiniteSet(X)
    BY <2>1, FS_Subset
  <2> QED BY <2>2 DEF FiniteSubsetsOf
<1>3. PICK X \in T : \A Y \in T : <<Y, X>> \notin StrictSubsetOrdering(1..n)
  BY <1>1, <1>2, WFMin, Zenon
<1>4. PICK x \in S : X = Upto(x)
  OBVIOUS
<1>5. ASSUME NEW y \in S
      PROVE  x <= y
  <2>1. SUFFICES ASSUME y < x
                 PROVE  FALSE
    OBVIOUS
  <2>2. Upto(y) \subseteq Upto(x) /\ Upto(y) # Upto(x)
    <3>1. x \in Upto(x) /\ x \notin Upto(y)
      BY <2>1
    <3>2. \A j \in 1..n : j <= y => j <= x
      BY <2>1
    <3> QED
      BY <3>1, <3>2
  <2>3. Upto(y) \in T /\ Upto(y) \in SUBSET (1..n) /\ Upto(x) \in SUBSET (1..n)
    OBVIOUS
  <2> HIDE DEF Upto, T
  <2>4. <<Upto(y), Upto(x)>> \in StrictSubsetOrdering(1..n)
    BY <2>2, <2>3 DEF StrictSubsetOrdering
  <2> QED
    BY <1>3, <1>4, <2>3, <2>4
<1>6. QED
  BY <1>5 DEF Min

(* A search finds nothing, or a command that was wanted.                   *)
LEMMA Found ==
  ASSUME NEW q \in Seq(Cmds), NEW wanted
  PROVE  \/ First(q, wanted) = 0 /\ \A i \in DOMAIN q : q[i] \notin wanted
         \/ First(q, wanted) \in DOMAIN q /\ q[First(q, wanted)] \in wanted
<1> DEFINE places == {i \in DOMAIN q : q[i] \in wanted}
<1>1. DOMAIN q = 1..Len(q) /\ Len(q) \in Nat
  OBVIOUS
<1>2. CASE places = {}
  BY <1>2 DEF First
<1>3. CASE places # {}
  <2>1. Min(places) \in places
    BY <1>1, <1>3, Least
  <2> QED
    BY <1>3, <2>1 DEF First
<1> QED
  BY <1>2, <1>3

(* A command put at the end of a queue it is not in, or before its head.   *)
LEMMA Put ==
  ASSUME NEW q \in Seq(Cmds), NEW c \in Cmds, Distinct(q), c \notin ToSet(q)
  PROVE  /\ Append(q, c) \in Seq(Cmds) /\ Distinct(Append(q, c))
         /\ ToSet(Append(q, c)) = ToSet(q) \cup {c}
         /\ <<c>> \o q \in Seq(Cmds) /\ Distinct(<<c>> \o q)
         /\ ToSet(<<c>> \o q) = ToSet(q) \cup {c}
         /\ <<c>> \o q # <<>> /\ Head(<<c>> \o q) = c
         /\ Len(<<c>> \o q) = Len(q) + 1
<1> DEFINE a == Append(q, c)
           b == <<c>> \o q
<1>1. /\ a \in Seq(Cmds) /\ Len(a) = Len(q) + 1
      /\ \A i \in 1..Len(q) + 1 : a[i] = IF i <= Len(q) THEN q[i] ELSE c
  BY AppendProperties
<1>2. /\ b \in Seq(Cmds) /\ Len(b) = Len(q) + 1
      /\ \A i \in 1..Len(q) + 1 : b[i] = IF i = 1 THEN c ELSE q[i - 1]
  BY ConcatProperties
<1>3. DOMAIN q = 1..Len(q) /\ \A i \in 1..Len(q) : q[i] # c
  BY DEF ToSet
<1>4. Distinct(a)
  BY <1>1, <1>3 DEF Distinct
<1>5. Distinct(b)
  <2> SUFFICES ASSUME NEW i \in DOMAIN b, NEW j \in DOMAIN b, b[i] = b[j]
               PROVE  i = j
    BY DEF Distinct
  <2> HIDE DEF b
  <2>1. DOMAIN b = 1..Len(q) + 1
    BY <1>2
  <2>2. i # 1 => i - 1 \in 1..Len(q)
    BY <2>1
  <2>3. j # 1 => j - 1 \in 1..Len(q)
    BY <2>1
  <2> QED
    BY <1>2, <1>3, <2>1, <2>2, <2>3 DEF Distinct
<1>6. ToSet(a) = ToSet(q) \cup {c}
  <2>1. \A i \in 1..Len(q) : a[i] = q[i]
    BY <1>1
  <2>2. a[Len(q) + 1] = c /\ DOMAIN a = 1..Len(q) + 1
    BY <1>1
  <2> QED
    BY <1>1, <1>3, <2>1, <2>2 DEF ToSet
<1>7. ToSet(b) = ToSet(q) \cup {c}
  <2> HIDE DEF b
  <2>1. \A i \in 1..Len(q) : b[i + 1] = q[i] /\ i + 1 \in 1..Len(q) + 1
    BY <1>2
  <2>2. b[1] = c /\ DOMAIN b = 1..Len(q) + 1
    BY <1>2
  <2>3. \A i \in 2..Len(q) + 1 : b[i] = q[i - 1] /\ i - 1 \in 1..Len(q)
    BY <1>2
  <2>4. ASSUME NEW x \in ToSet(b)
        PROVE  x \in ToSet(q) \cup {c}
    <3>1. PICK i \in 1..Len(q) + 1 : x = b[i]
      BY <2>2 DEF ToSet
    <3> QED
      BY <1>3, <2>2, <2>3, <3>1 DEF ToSet
  <2>5. ASSUME NEW x \in ToSet(q)
        PROVE  x \in ToSet(b)
    <3>1. PICK i \in 1..Len(q) : x = q[i]
      BY <1>3 DEF ToSet
    <3> QED
      BY <2>1, <2>2, <3>1 DEF ToSet
  <2>6. c \in ToSet(b)
    BY <2>2 DEF ToSet
  <2> QED
    BY <2>4, <2>5, <2>6
<1>8. b # <<>> /\ Head(b) = c
  BY <1>2
<1> QED
  BY <1>1, <1>2, <1>4, <1>5, <1>6, <1>7, <1>8

(* What the driver does with its queues leaves queues of commands: a       *)
(* command put at the end (queuecommand), put at the head, or taken out.   *)
LEMMA QueueTypes ==
  ASSUME NEW q \in Seq(Cmds)
  PROVE  /\ \A c \in Cmds : Append(q, c) \in Seq(Cmds) /\ <<c>> \o q \in Seq(Cmds)
         /\ \A i \in DOMAIN q : RemoveAt(q, i) \in Seq(Cmds) /\ q[i] \in Cmds
<1>1. ASSUME NEW c \in Cmds
      PROVE  Append(q, c) \in Seq(Cmds) /\ <<c>> \o q \in Seq(Cmds)
  <2>1. <<c>> \in Seq(Cmds)
    OBVIOUS
  <2> QED
    BY <2>1, AppendProperties, ConcatProperties
<1>2. ASSUME NEW i \in DOMAIN q
      PROVE  RemoveAt(q, i) \in Seq(Cmds) /\ q[i] \in Cmds
  <2>1. SubSeq(q, 1, i - 1) \in Seq(Cmds)
    BY SubSeqProperties
  <2>2. SubSeq(q, i + 1, Len(q)) \in Seq(Cmds)
    <3>1. \A j \in i + 1..Len(q) : q[j] \in Cmds
      OBVIOUS
    <3> QED
      BY <3>1, SubSeqProperties
  <2> QED
    BY <2>1, <2>2, ConcatProperties DEF RemoveAt
<1> QED
  BY <1>1, <1>2

(* A command taken out of a queue.                                         *)
LEMMA Taken ==
  ASSUME NEW q \in Seq(Cmds), NEW i \in DOMAIN q, Distinct(q)
  PROVE  /\ RemoveAt(q, i) \in Seq(Cmds) /\ Distinct(RemoveAt(q, i))
         /\ ToSet(RemoveAt(q, i)) = ToSet(q) \ {q[i]}
         /\ q[i] \in ToSet(q) /\ q[i] \in Cmds
<1> DEFINE r == RemoveAt(q, i)
           l == SubSeq(q, 1, i - 1)
           m == SubSeq(q, i + 1, Len(q))
<1>1. /\ l \in Seq(Cmds) /\ Len(l) = i - 1
      /\ \A j \in 1..i - 1 : l[j] = q[j]
  BY SubSeqProperties
<1>2. /\ m \in Seq(Cmds) /\ Len(m) = Len(q) - i
      /\ \A j \in 1..Len(q) - i : m[j] = q[j + i]
  <2>1. Len(q) \in Nat /\ DOMAIN q = 1..Len(q) /\ \A j \in i + 1..Len(q) : q[j] \in Cmds
    OBVIOUS
  <2>2. /\ m \in Seq(Cmds)
        /\ Len(m) = IF i + 1 <= Len(q) THEN Len(q) - (i + 1) + 1 ELSE 0
        /\ \A j \in 1..Len(q) - (i + 1) + 1 : m[j] = q[i + 1 + j - 1]
    BY <2>1, SubSeqProperties
  <2> QED
    BY <2>1, <2>2
<1> HIDE DEF l, m
<1>3. r = l \o m
  BY DEF RemoveAt, l, m
<1>4. /\ l \o m \in Seq(Cmds) /\ Len(l \o m) = Len(l) + Len(m)
      /\ \A j \in 1..Len(l) + Len(m) :
           (l \o m)[j] = IF j <= Len(l) THEN l[j] ELSE m[j - Len(l)]
  BY <1>1, <1>2, ConcatProperties, Zenon
<1>5. r \in Seq(Cmds) /\ Len(r) = Len(q) - 1
  BY <1>1, <1>2, <1>3, <1>4
<1>6. \A j \in 1..Len(q) - 1 : r[j] = IF j < i THEN q[j] ELSE q[j + 1]
  <2> SUFFICES ASSUME NEW j \in 1..Len(q) - 1
               PROVE  r[j] = IF j < i THEN q[j] ELSE q[j + 1]
    OBVIOUS
  <2>1. (l \o m)[j] = IF j <= Len(l) THEN l[j] ELSE m[j - Len(l)]
    BY <1>1, <1>2, <1>4
  <2>2. r = l \o m
    BY <1>3
  <2>3. CASE j < i
    BY <1>1, <2>1, <2>2, <2>3
  <2>4. CASE j >= i
    <3> DEFINE k == j - (i - 1)
    <3>1. k \in 1..Len(q) - i /\ k + i = j + 1 /\ j > i - 1
      BY <2>4
    <3>2. m[k] = q[k + i]
      BY <1>2, <3>1
    <3>3. (l \o m)[j] = m[k]
      BY <1>1, <2>1, <3>1
    <3> QED
      BY <2>2, <2>4, <3>1, <3>2, <3>3
  <2> QED
    BY <2>3, <2>4
<1> HIDE DEF r
<1>7. DOMAIN r = 1..Len(q) - 1 /\ DOMAIN q = 1..Len(q) /\ Len(q) \in Nat
  BY <1>5
<1> DEFINE from(j) == IF j < i THEN j ELSE j + 1
<1>8. \A j \in DOMAIN r : from(j) \in DOMAIN q /\ from(j) # i /\ r[j] = q[from(j)]
  BY <1>6, <1>7
<1>9. Distinct(r)
  BY <1>7, <1>8 DEF Distinct
<1>10. \A j \in DOMAIN q : j # i => \E k \in DOMAIN r : from(k) = j
  <2> SUFFICES ASSUME NEW j \in DOMAIN q, j # i
               PROVE  \E k \in DOMAIN r : from(k) = j
    OBVIOUS
  <2>1. CASE j < i
    BY <1>7, <2>1
  <2>2. CASE j > i
    <3>1. j - 1 \in DOMAIN r /\ from(j - 1) = j
      BY <1>7, <2>2
    <3> QED
      BY <3>1
  <2> QED
    BY <1>7, <2>1, <2>2
<1> HIDE DEF from
<1>11. ToSet(r) = ToSet(q) \ {q[i]}
  BY <1>8, <1>10 DEF ToSet, Distinct
<1>12. q[i] \in ToSet(q) /\ q[i] \in Cmds
  BY <1>7 DEF ToSet
<1> QED
  BY <1>5, <1>9, <1>11, <1>12 DEF r

-------------------------------------------------------------------------------
(* 2.  The invariants.                                                     *)

(* The messages the driver sends.                                          *)
OutMessages ==
  [msg : {"IDENTIFY"}, lun : 0..7, disc : BOOLEAN] \cup [msg : {"SDTR"}, off : {0, OPTIMUM_SX_OFF}]
  \cup [msg : {"NOP", "MESSAGE_REJECT", "WDTR"}]

Ints ==
  {"none", "SELECT", "TIMEOUT", "RESEL_AM", "MSGIN", "SEL_XFER_DONE", "DISC", "SDP",
   "UNEXP_DISC", "ABORT"} \cup Phases
Steps == {"idle", "select", "command", "exec", "data", "status", "complete", "away", "disc"}

Chips ==
  [cmd : {"none", "select", "level2", "info"}, int : Ints,
   phs : Nat, xph : {"none"} \cup Phases, quiet : BOOLEAN, ack : BOOLEAN, atn : BOOLEAN,
   count : Nat, id : 0..6, lun : Nat, dpd : BOOLEAN, er : BOOLEAN,
   sync : {"async", "sync"}, polled : BOOLEAN, cdb : Cmds \cup {NULL},
   out : Seq(OutMessages), byte : Nat]
Units ==
  [ph : Steps, cmd : Cmds \cup {NULL}, msgs : Seq(Nat), pos : Nat, saved : Nat,
   disc : BOOLEAN, st : Nat, odd : BOOLEAN, pend : {"none", "offered", "async", "sync"}]
Hosts ==
  [input_Q : Seq(Cmds), selecting : Cmds \cup {NULL}, connected : Cmds \cup {NULL},
   disconnected_Q : Seq(Cmds), busy : SUBSET Nexus,
   state : {"S_UNCONNECTED", "S_SELECTING", "S_RUNNING_LEVEL2", "S_CONNECTED",
            "S_PRE_TMP_DISC", "S_PRE_CMP_DISC"},
   dma : {"D_DMA_OFF", "D_DMA_RUNNING"}, level2 : {setup.level2},
   disconnect : 0..2, no_dma : BOOLEAN, no_sync : SUBSET (0..6), incoming_msg : Seq(Nat),
   outgoing_msg : Seq(OutMessages), bounce : BOOLEAN,
   sync_xfer : [Ids -> {"async", "sync"}],
   sync_stat : [Ids -> {"SS_UNSET", "SS_FIRST", "SS_WAITING", "SS_SET"}]]
Pointers == [phase : BOOLEAN, Status : Nat, ptr : Nat, left : Nat, more : Nat]

Dmas == [cmd : Cmds \cup {NULL}, at : Nat, via : {"direct", "bounce", "fail"}]
Events == [csr : Ints, phs : Nat, src : Nexus \cup {NULL}]
AbortStates ==
  [at : {"none", "find", "flush", "finish", "check", "start"}, cmd : Cmds \cup {NULL},
   ok : BOOLEAN]
Results ==
  [host : {"none", "DID_OK", "DID_ERROR", "DID_NO_CONNECT", "DID_ABORT", "DID_RESET"},
   status : Nat]
Requests == [st : {"free", "queued", "done", "aborting", "failed"}, res : Results]

BusTypes == chip \in Chips /\ bus \in Nexus \cup {NULL} /\ tg \in [Nexus -> Units]
PointersOk == scp \in [Cmds -> Pointers] /\ \A x \in Cmds : scp[x].more <= Attr[x].nbufs
HostTypes ==
  /\ hd \in Hosts /\ PointersOk /\ engine \in Dmas /\ sr \in Events /\ eh \in AbortStates
  /\ pc \in {"idle", "execute", "handle", "pio", "sent", "status", "message"}
Types == setup \in Setups /\ BusTypes /\ HostTypes /\ req \in [Cmds -> Requests]

(* The books: a command is in one queue at most, once, or being selected,  *)
(* or connected; busy[] says which units have one; and the mid-layer waits *)
(* for exactly the commands that are in one of these places, but for those *)
(* it has given up.                                                        *)
Held == Queued \cup Started
WaitedFor ==
  \A x \in Cmds : /\ req[x].st = "queued" => x \in Held
                  /\ req[x].st \in {"free", "done"} => x \notin Held
Books ==
  /\ Distinct(hd.input_Q) /\ Distinct(hd.disconnected_Q)
  /\ Queued \cap Away = {}
  /\ hd.selecting \notin Queued \cup Away /\ hd.connected \notin Queued \cup Away
  /\ hd.selecting # NULL => hd.selecting # hd.connected
  /\ OneCommandPerUnit /\ WaitedFor

(* An abort under way.                                                     *)
AbortInv ==
  /\ eh.at # "none" => pc = "idle" /\ eh.cmd \in Cmds /\ req[eh.cmd].st = "aborting"
  /\ eh.at \in {"flush", "finish"} => hd.connected = eh.cmd /\ hd.dma = "D_DMA_OFF"
  /\ eh.at = "finish" => chip.cmd = "none"
  /\ eh.at = "start" => hd.selecting = NULL /\ hd.connected = NULL
  /\ eh.ok => eh.at \in {"check", "start"} /\ eh.cmd \notin Held

(* What the chip has reported, until the driver has handled it.            *)
Pending(csr) == chip.int = csr \/ (pc = "handle" /\ sr.csr = csr)
InDriver == pc \notin {"idle", "execute"}

(* An interrupt has ended the chip's command, and the phase it reports     *)
(* lasts until the driver has seen to it: only a target about to move data *)
(* or to take a message can leave the bus before that.                     *)
ChipInv ==
  /\ chip.int # "none" => chip.cmd = "none"
  /\ pc = "handle" => /\ chip.cmd = "none"
                      /\ chip.int \notin {"MSGIN", "SDP", "SEL_XFER_DONE", "ABORT"}
  /\ InDriver => /\ chip.cmd \in {"none", "info"}
                 /\ chip.int \notin {"SELECT", "TIMEOUT"}
  /\ bus = NULL => ~chip.ack
  /\ chip.int \in {"SDP", "RESEL_AM", "MSGIN"} => bus # NULL /\ chip.ack
  /\ pc = "handle" /\ sr.csr \in {"SDP", "RESEL_AM"} =>
       chip.int = "none" /\ bus # NULL /\ chip.ack
  /\ chip.int \in Phases => Phase = chip.int /\ chip.quiet
  /\ pc = "handle" /\ sr.csr \in Phases =>
       \/ chip.int = "none" /\ Phase = sr.csr /\ chip.quiet
       \/ chip.int # "none" /\ sr.csr \in {"DATA_IN", "DATA_OUT", "MESS_OUT"}
  /\ pc = "status" =>
       \/ /\ chip.int = "none" /\ chip.cmd = "info"
          /\ chip.xph = "STATUS" /\ Phase = "STATUS"
       \/ chip.int \in {"none", "MESS_IN"} /\ chip.cmd = "none" /\ Phase = "MESS_IN"
  /\ pc = "message" =>
       \/ /\ chip.int = "none" /\ chip.cmd = "info"
          /\ chip.xph = "MESS_IN" /\ Phase = "MESS_IN"
       \/ chip.int = "MSGIN"
  /\ chip.int = "MSGIN" => pc = "message"
  /\ chip.cmd = "info" /\ chip.xph = "MESS_IN" => pc = "message"

(* A selection is of the command the driver thinks it is of, and the       *)
(* IDENTIFY that follows it goes to that command's target.                 *)
Selects ==
  chip.cmd = "select" =>
    /\ hd.selecting # NULL /\ hd.connected = NULL /\ hd.state = "S_SELECTING"
    /\ <<chip.id, chip.lun>> = NexusOf(hd.selecting)
SelectsToTransfer ==
  chip.cmd = "level2" /\ bus = NULL =>
    /\ hd.connected # NULL /\ hd.state = "S_RUNNING_LEVEL2"
    /\ <<chip.id, chip.lun>> = NexusOf(hd.connected)
SelectTold ==
  Pending("SELECT") =>
    /\ hd.selecting # NULL /\ hd.connected = NULL
    /\ bus = NexusOf(hd.selecting) /\ tg[bus].ph = "select" /\ tg[bus].msgs = <<>>
    /\ chip.atn /\ ~chip.ack
TimeoutTold ==
  Pending("TIMEOUT") =>
    IF hd.state = "S_RUNNING_LEVEL2" THEN hd.connected # NULL
    ELSE hd.selecting # NULL /\ hd.connected = NULL
Identifies(msgs) == msgs # <<>> /\ msgs[1].msg = "IDENTIFY"
IdentifyDue ==
  chip.atn /\ ~Pending("SELECT") /\ Identifies(hd.outgoing_msg) =>
    /\ bus # NULL /\ tg[bus].ph = "select" /\ tg[bus].msgs = <<>>
    /\ <<bus[1], hd.outgoing_msg[1].lun>> \in Nexus
IdentifySent ==
  chip.cmd = "info" /\ chip.xph = "MESS_OUT" =>
    /\ pc = "sent" /\ hd.outgoing_msg = <<>> /\ chip.out # <<>>
    /\ chip.out[1].msg = "IDENTIFY" =>
         bus # NULL /\ <<bus[1], chip.out[1].lun>> \in Nexus
SelectInv ==
  Selects /\ SelectsToTransfer /\ SelectTold /\ TimeoutTold /\ IdentifyDue /\ IdentifySent

(* The DMA, and the programmed loop, are at work for the connected command *)
(* only, and with no more to move than its buffer holds.                   *)
DmaInv ==
  /\ hd.dma = "D_DMA_RUNNING" => /\ ~InDriver /\ hd.connected # NULL
                                 /\ chip.count <= scp[hd.connected].left
  /\ engine.cmd # NULL => hd.dma = "D_DMA_RUNNING" /\ engine.cmd = hd.connected
  /\ pc = "pio" => hd.connected # NULL /\ chip.count <= scp[hd.connected].left
  /\ pc \in {"status", "message"} => hd.connected # NULL

-------------------------------------------------------------------------------
(* 3.  Types.                                                              *)

(* The phase is one of the bus's, or none.                                 *)
LEMMA PhaseType == Phase \in {"none"} \cup Phases
BY DEF Phase, Phases

(* The interrupts the chip's registers can show.                           *)
LEMMA EventTypes ==
  /\ "none" \in Ints /\ "SELECT" \in Ints /\ "TIMEOUT" \in Ints /\ "RESEL_AM" \in Ints
  /\ "MSGIN" \in Ints /\ "SEL_XFER_DONE" \in Ints /\ "DISC" \in Ints /\ "SDP" \in Ints
  /\ "UNEXP_DISC" \in Ints /\ "ABORT" \in Ints /\ Phases \subseteq Ints
BY DEF Ints

(* One field of a record at a time.                                        *)
LEMMA ChipFields ==
  ASSUME NEW ch \in Chips
  PROVE  /\ \A v \in {"none", "select", "level2", "info"} : [ch EXCEPT !.cmd = v] \in Chips
         /\ \A v \in {"none"} \cup Phases : [ch EXCEPT !.xph = v] \in Chips
         /\ \A v \in Nat : [ch EXCEPT !.phs = v] \in Chips /\ [ch EXCEPT !.count = v] \in Chips
         /\ \A v \in BOOLEAN : /\ [ch EXCEPT !.quiet = v] \in Chips
                               /\ [ch EXCEPT !.ack = v] \in Chips
                               /\ [ch EXCEPT !.atn = v] \in Chips
         /\ \A v \in Ints : [ch EXCEPT !.int = v] \in Chips
<1>1. \A v \in {"none", "select", "level2", "info"} : [ch EXCEPT !.cmd = v] \in Chips
  BY DEF Chips
<1>2. \A v \in {"none"} \cup Phases : [ch EXCEPT !.xph = v] \in Chips
  BY DEF Chips
<1>3. \A v \in Nat : [ch EXCEPT !.phs = v] \in Chips /\ [ch EXCEPT !.count = v] \in Chips
  BY DEF Chips
<1>4. \A v \in BOOLEAN : /\ [ch EXCEPT !.quiet = v] \in Chips
                         /\ [ch EXCEPT !.ack = v] \in Chips
                         /\ [ch EXCEPT !.atn = v] \in Chips
  BY DEF Chips
<1>5. \A v \in Ints : [ch EXCEPT !.int = v] \in Chips
  BY DEF Chips
<1> QED
  BY <1>1, <1>2, <1>3, <1>4, <1>5
(* The fields of the chip's registers as the driver reads them.            *)
LEMMA ChipTypes ==
  ASSUME NEW ch \in Chips
  PROVE  /\ ch.cmd \in {"none", "select", "level2", "info"}
         /\ ch.int \in Ints
         /\ ch.xph \in {"none"} \cup Phases
         /\ ch.phs \in Nat /\ ch.count \in Nat /\ ch.lun \in Nat /\ ch.byte \in Nat
         /\ ch.quiet \in BOOLEAN /\ ch.ack \in BOOLEAN /\ ch.atn \in BOOLEAN
         /\ ch.dpd \in BOOLEAN /\ ch.er \in BOOLEAN /\ ch.polled \in BOOLEAN
         /\ ch.id \in 0..6 /\ ch.sync \in {"async", "sync"}
         /\ ch.cdb \in Cmds \cup {NULL} /\ ch.out \in Seq(OutMessages)
BY DEF Chips
(* A unit with one of its fields written is a unit.                        *)
LEMMA UnitFields ==
  ASSUME NEW u \in Units
  PROVE  /\ \A v \in Steps : [u EXCEPT !.ph = v] \in Units
         /\ \A v \in Cmds \cup {NULL} : [u EXCEPT !.cmd = v] \in Units
         /\ \A v \in Seq(Nat) : [u EXCEPT !.msgs = v] \in Units
         /\ \A v \in Nat : /\ [u EXCEPT !.pos = v] \in Units
                           /\ [u EXCEPT !.saved = v] \in Units
                           /\ [u EXCEPT !.st = v] \in Units
         /\ \A v \in BOOLEAN : /\ [u EXCEPT !.disc = v] \in Units
                               /\ [u EXCEPT !.odd = v] \in Units
         /\ \A v \in {"none", "offered", "async", "sync"} : [u EXCEPT !.pend = v] \in Units
BY DEF Units
(* The fields of a unit.                                                   *)
LEMMA UnitTypes ==
  ASSUME NEW u \in Units
  PROVE  /\ u.ph \in Steps /\ u.cmd \in Cmds \cup {NULL} /\ u.msgs \in Seq(Nat)
         /\ u.pos \in Nat /\ u.saved \in Nat /\ u.st \in Nat
         /\ u.disc \in BOOLEAN /\ u.odd \in BOOLEAN
         /\ u.pend \in {"none", "offered", "async", "sync"}
BY DEF Units
(* A unit that serves no command.                                          *)
LEMMA IdleType == Idle \in Units
BY DEF Units, Idle, Steps, GOOD

(* The commands the driver gives the chip.                                 *)
LEMMA CommandTypes ==
  ASSUME NEW ch \in Chips
  PROVE  /\ SelAtn(ch) \in Chips
         /\ \A n \in Nat : SelAtnXfer(ch, n) \in Chips
         /\ NegateAck(ch) \in Chips
         /\ AssertAtn(ch) \in Chips
         /\ AbortCmd(ch) \in Chips
         /\ TransInfo(ch) \in Chips
<1>1. SelAtn(ch) \in Chips
  BY ChipFields DEF SelAtn, Issue
<1>2. \A n \in Nat : SelAtnXfer(ch, n) \in Chips
  BY ChipFields DEF SelAtnXfer, Issue
<1>3. NegateAck(ch) \in Chips
  BY ChipFields DEF NegateAck, Issue
<1>4. AssertAtn(ch) \in Chips
  BY ChipFields DEF AssertAtn, Issue
<1>5. AbortCmd(ch) \in Chips
  BY ChipFields, EventTypes DEF AbortCmd, Issue
<1>6. TransInfo(ch) \in Chips
  BY PhaseType, ChipFields DEF TransInfo, Issue
<1> QED
  BY <1>1, <1>2, <1>3, <1>4, <1>5, <1>6

(* A selection is answered by a unit of one of the commands.               *)
LEMMA SelectedTypes ==
  ASSUME BusTypes, Selected, <<chip.id, chip.lun>> \in Nexus
  PROVE  BusTypes'
<1>1. chip' \in Chips
  <2>1. CASE chip.cmd = "select"
    <3> DEFINE c == [chip EXCEPT !.cmd = "none", !.int = "SELECT"]
    <3>1. c \in Chips
      BY EventTypes, ChipFields DEF BusTypes
    <3>2. chip' = [c EXCEPT !.atn = TRUE]
      BY <2>1 DEF Selected
    <3> QED
      BY <3>1, <3>2, ChipFields
  <2>2. CASE chip.cmd # "select"
    BY <2>2 DEF Selected, BusTypes, Chips
  <2> QED
    BY <2>1, <2>2
<1>2. {"select", "command"} \subseteq Steps
  BY DEF Steps
<1>3. [Idle EXCEPT !.ph = "select"] \in Units
  BY <1>2, UnitFields, IdleType
<1>4. [Idle EXCEPT !.ph = "command", !.disc = chip.er] \in Units
  BY <1>2, UnitFields, IdleType, ChipTypes DEF BusTypes
<1> QED
  BY <1>1, <1>3, <1>4 DEF Selected, BusTypes

(* The phases that are served one byte, or some data, at a time.           *)
LEMMA ByteTypes ==
  ASSUME BusTypes, TakeByte
  PROVE  BusTypes'
<1> DEFINE t == tg[bus]
           b == Head(t.msgs)
           u == [t EXCEPT !.msgs = Tail(t.msgs)]
           v == [u EXCEPT !.saved = IF t.msgs[1] = SAVE_POINTERS[1] /\ t.ph = "away"
                                    THEN t.pos ELSE @]
           w == [v EXCEPT !.pend = IF Len(t.msgs) = 1 /\ @ # "offered" THEN "none" ELSE @]
<1>1. bus \in Nexus /\ t \in Units
  BY DEF BusTypes, TakeByte, Ready
<1>2. t.msgs \in Seq(Nat) /\ t.msgs # <<>>
  BY <1>1, UnitTypes DEF TakeByte, Ready, Phase
<1>3. b \in Nat /\ Tail(t.msgs) \in Seq(Nat)
  BY <1>2
<1>4. chip' \in Chips
  <2>1. chip' = [chip EXCEPT !.cmd = "none", !.int = "MSGIN", !.ack = TRUE, !.byte = b]
    BY DEF TakeByte
  <2> HIDE DEF b
  <2> QED
    BY <1>3, <2>1 DEF BusTypes, Chips, Ints
<1>5. u \in Units
  BY <1>1, <1>3, UnitFields
<1>6. v \in Units
  BY <1>1, <1>5, UnitFields, UnitTypes
<1>7. w \in Units
  BY <1>6, UnitFields, UnitTypes
<1>8. tg' = [tg EXCEPT ![bus] = w]
  BY <1>1 DEF TakeByte, BusTypes
<1> QED
  BY <1>1, <1>4, <1>7, <1>8 DEF BusTypes, TakeByte

(* A chip that runs Select-and-Transfer takes the messages it knows by     *)
(* itself; the types are kept.                                             *)
LEMMA Level2Types ==
  ASSUME BusTypes, Level2Message
  PROVE  BusTypes'
<1> DEFINE t == tg[bus]
<1>1. bus \in Nexus /\ t \in Units
  BY DEF BusTypes, Level2Message, Ready
<1>2. t.msgs \in Seq(Nat) /\ t.msgs # <<>>
  BY <1>1, UnitTypes DEF Level2Message, Ready, Phase
<1>3. chip' \in Chips
  <2> DEFINE c(i, n) == [chip EXCEPT !.cmd = "none", !.int = i, !.phs = n]
  <2>1. \A i \in Ints, n \in Nat : c(i, n) \in Chips
    BY ChipFields DEF BusTypes
  <2>2. \/ chip' = c("SEL_XFER_DONE", \h60)
        \/ chip' = c("DISC", \h43)
        \/ chip' = [c("SDP", \h41) EXCEPT !.ack = TRUE]
    BY DEF Level2Message
  <2> HIDE DEF c
  <2>3. /\ c("SEL_XFER_DONE", \h60) \in Chips /\ c("DISC", \h43) \in Chips
        /\ c("SDP", \h41) \in Chips
    BY <2>1, EventTypes
  <2> QED
    BY <2>2, <2>3, ChipFields
<1>4. bus' \in Nexus \cup {NULL}
  BY <1>1 DEF Level2Message
<1>5. tg' \in [Nexus -> Units]
  <2>1. CASE t.msgs = COMMAND_COMPLETE
    <3>1. tg' = [tg EXCEPT ![bus] = Idle]
      BY <2>1 DEF Level2Message, COMMAND_COMPLETE, DISCONNECT
    <3> QED
      BY <1>1, <3>1, IdleType DEF BusTypes
  <2>2. CASE t.msgs # COMMAND_COMPLETE /\ t.msgs = DISCONNECT
    <3>1. tg' = [tg EXCEPT ![bus] = [t EXCEPT !.msgs = <<>>, !.ph = "disc"]]
      BY <2>2, <1>1 DEF Level2Message, BusTypes
    <3>2. "disc" \in Steps /\ <<>> \in Seq(Nat)
      BY DEF Steps
    <3>3. [t EXCEPT !.msgs = <<>>, !.ph = "disc"] \in Units
      BY <1>1, <3>2, UnitFields
    <3> QED
      BY <1>1, <3>1, <3>3 DEF BusTypes
  <2>3. CASE t.msgs # COMMAND_COMPLETE /\ t.msgs # DISCONNECT
    <3>1. tg' = [tg EXCEPT ![bus] = [t EXCEPT !.msgs = Tail(@), !.saved = t.pos]]
      BY <2>3, <1>1 DEF Level2Message, BusTypes
    <3>2. Tail(t.msgs) \in Seq(Nat) /\ t.pos \in Nat
      BY <1>1, <1>2, UnitTypes
    <3>3. [t EXCEPT !.msgs = Tail(@), !.saved = t.pos] \in Units
      BY <1>1, <3>2, UnitFields
    <3> QED
      BY <1>1, <3>1, <3>3 DEF BusTypes
  <2> QED
    BY <2>1, <2>2, <2>3
<1> QED
  BY <1>3, <1>4, <1>5 DEF BusTypes

(* The target gives its status, to the driver or to Select-and-Transfer.   *)
LEMMA StatusTypes ==
  ASSUME BusTypes, TakeStatus
  PROVE  BusTypes'
<1> DEFINE t == tg[bus]
           st == t.st
<1>1. bus \in Nexus /\ t \in Units /\ st \in Nat
  BY UnitTypes DEF BusTypes, TakeStatus, Ready
<1>2. chip' \in Chips
  <2>1. chip' = IF chip.cmd = "level2" THEN [chip EXCEPT !.phs = \h50, !.lun = st]
                ELSE [chip EXCEPT !.cmd = "none", !.byte = st]
    BY DEF TakeStatus
  <2> HIDE DEF st
  <2> QED
    BY <1>1, <2>1 DEF BusTypes, Chips
<1>3. "complete" \in Steps /\ COMMAND_COMPLETE \in Seq(Nat)
  BY DEF Steps, COMMAND_COMPLETE
<1>4. [t EXCEPT !.ph = "complete", !.msgs = COMMAND_COMPLETE] \in Units
  BY <1>1, <1>3, UnitFields
<1>5. tg' = [tg EXCEPT ![bus] = [t EXCEPT !.ph = "complete", !.msgs = COMMAND_COMPLETE]]
  BY <1>1 DEF TakeStatus, BusTypes
<1> QED
  BY <1>1, <1>2, <1>4, <1>5 DEF BusTypes, TakeStatus

(* The target takes the command block.                                     *)
LEMMA CommandPhaseTypes ==
  ASSUME BusTypes, TakeCommand
  PROVE  BusTypes'
<1> DEFINE t == tg[bus]
           u == [t EXCEPT !.ph = "exec", !.cmd = chip.cdb]
<1>1. bus \in Nexus /\ t \in Units /\ chip.cdb \in Cmds \cup {NULL}
  BY ChipTypes DEF BusTypes, TakeCommand, Ready
<1>2. chip' \in Chips
  BY DEF BusTypes, TakeCommand, Chips
<1>3. "exec" \in Steps
  BY DEF Steps
<1>4. u \in Units
  BY <1>1, <1>3, UnitFields
<1>5. tg' = [tg EXCEPT ![bus] = u]
  BY <1>1 DEF TakeCommand, BusTypes
<1> QED
  BY <1>1, <1>2, <1>4, <1>5 DEF BusTypes, TakeCommand

(* Data pass, k units at a time.                                           *)
LEMMA DataTypes ==
  ASSUME BusTypes, NEW k \in 1..chip.count, MoveData(k)
  PROVE  BusTypes'
<1> DEFINE t == tg[bus]
<1>1. bus \in Nexus /\ t \in Units /\ chip.count \in Nat
  BY ChipTypes DEF BusTypes, MoveData, Ready
<1>2. chip.count - k \in Nat /\ k \in Nat /\ t.pos + k \in Nat
  BY <1>1, UnitTypes
<1>3. chip' \in Chips
  <2> DEFINE n == chip.count - k
             p == IF chip.cmd = "level2" THEN \h46 ELSE chip.phs
             c == IF chip.cmd = "info" /\ k = chip.count THEN "none" ELSE chip.cmd
  <2>1. chip' = [chip EXCEPT !.count = n, !.phs = p, !.cmd = c]
    BY DEF MoveData
  <2>2. n \in Nat /\ p \in Nat /\ c \in {"none", "select", "level2", "info"}
    <3>1. \h46 \in Nat
      OBVIOUS
    <3>2. chip.phs \in Nat /\ chip.cmd \in {"none", "select", "level2", "info"}
      BY DEF BusTypes, Chips
    <3> QED
      BY <1>2, <3>1, <3>2
  <2>3. chip \in Chips
    BY DEF BusTypes
  <2> HIDE DEF n, p, c
  <2> QED
    BY <2>1, <2>2, <2>3 DEF Chips
<1>4. PICK ph \in {"data", "exec"} :
        tg' = [tg EXCEPT ![bus].pos = @ + k, ![bus].ph = ph]
  BY DEF MoveData
<1>5. {"data", "exec"} \subseteq Steps
  BY DEF Steps
<1>6. [t EXCEPT !.pos = @ + k, !.ph = ph] \in Units
  BY <1>1, <1>2, <1>5, UnitFields
<1>7. tg' = [tg EXCEPT ![bus] = [t EXCEPT !.pos = @ + k, !.ph = ph]]
  BY <1>1, <1>4 DEF BusTypes
<1> QED
  BY <1>1, <1>3, <1>6, <1>7 DEF BusTypes, MoveData

(* What the targets do.                                                    *)
LEMMA TargetTypes ==
  ASSUME BusTypes, TargetSteps
  PROVE  BusTypes'
<1> DEFINE t == tg[bus]
<1>1. bus \in Nexus /\ t \in Units /\ UNCHANGED <<chip, bus>>
  BY DEF BusTypes, TargetSteps, StartData, GiveStatus, StartDisconnect, Quirk, Free
<1>2. SUFFICES \E u \in Units : tg' = [tg EXCEPT ![bus] = u]
  BY <1>1 DEF BusTypes
<1>3. CASE StartData
  <2>1. tg' = [tg EXCEPT ![bus] = [t EXCEPT !.ph = "data"]] /\ "data" \in Steps
    BY <1>1, <1>3 DEF StartData, BusTypes, Steps
  <2> QED
    BY <1>1, <2>1, UnitFields
<1>4. CASE \E st \in {GOOD, CHECK} : GiveStatus(st)
  <2>1. PICK st \in {GOOD, CHECK} : GiveStatus(st)
    BY <1>4
  <2>2. tg' = [tg EXCEPT ![bus] = [t EXCEPT !.ph = "status", !.st = st]] /\ "status" \in Steps
    BY <1>1, <2>1 DEF GiveStatus, BusTypes, Steps
  <2>3. st \in Nat
    BY DEF GOOD, CHECK
  <2> QED
    BY <1>1, <2>2, <2>3, UnitFields
<1>5. CASE StartDisconnect
  <2> DEFINE m == (IF t.pos # t.saved THEN SAVE_POINTERS ELSE <<>>) \o DISCONNECT
  <2>1. tg' = [tg EXCEPT ![bus] = [t EXCEPT !.ph = "away", !.msgs = m]] /\ "away" \in Steps
    BY <1>1, <1>5 DEF StartDisconnect, BusTypes, Steps
  <2>2. m \in Seq(Nat)
    BY DEF SAVE_POINTERS, DISCONNECT
  <2> HIDE DEF m
  <2> QED
    BY <1>1, <2>1, <2>2, UnitFields
<1>6. CASE Quirk
  <2>1. /\ SDTR(12) \in Seq(Nat) /\ WDTR \in Seq(Nat) /\ OtherExtended \in Seq(Nat)
        /\ UnknownMessage \in Seq(Nat) /\ RESTORE_POINTERS \in Seq(Nat)
    BY DEF SDTR, WDTR, OtherExtended, UnknownMessage, RESTORE_POINTERS
  <2>2. ASSUME NEW m \in Seq(Nat), tg' = [tg EXCEPT ![bus].msgs = m, ![bus].odd = TRUE]
        PROVE  \E u \in Units : tg' = [tg EXCEPT ![bus] = u]
    <3>1. tg' = [tg EXCEPT ![bus] = [t EXCEPT !.msgs = m, !.odd = TRUE]]
      BY <1>1, <2>2 DEF BusTypes
    <3> QED
      BY <1>1, <3>1, UnitFields
  <2>3. ASSUME tg' = [tg EXCEPT ![bus].msgs = SDTR(12), ![bus].odd = TRUE, ![bus].pend = "offered"]
        PROVE  \E u \in Units : tg' = [tg EXCEPT ![bus] = u]
    <3>1. tg' = [tg EXCEPT ![bus] = [t EXCEPT !.msgs = SDTR(12), !.odd = TRUE, !.pend = "offered"]]
      BY <1>1, <2>3 DEF BusTypes
    <3> QED
      BY <1>1, <2>1, <3>1, UnitFields
  <2>4. ASSUME tg' = [tg EXCEPT ![bus].msgs = RESTORE_POINTERS, ![bus].odd = TRUE,
                                ![bus].pos = t.saved]
        PROVE  \E u \in Units : tg' = [tg EXCEPT ![bus] = u]
    <3>1. tg' = [tg EXCEPT ![bus] = [t EXCEPT !.msgs = RESTORE_POINTERS, !.odd = TRUE,
                                              !.pos = t.saved]]
      BY <1>1, <2>4 DEF BusTypes
    <3> QED
      BY <1>1, <2>1, <3>1, UnitFields, UnitTypes
  <2> QED
    BY <1>6, <2>1, <2>2, <2>3, <2>4 DEF Quirk
<1> QED
  BY <1>3, <1>4, <1>5, <1>6 DEF TargetSteps

(* Messages are taken by the unit that is connected, or by the one an      *)
(* IDENTIFY names.                                                         *)
LEMMA MessageTypes ==
  ASSUME BusTypes, HostTypes, SelectInv, TakeMessages
  PROVE  BusTypes'
<1> DEFINE ms    == chip.out
           sdtr  == {m.off : m \in {x \in ToSet(ms) : x.msg = "SDTR"}}
           first == ms[1]
           n     == IF first.msg = "IDENTIFY" THEN <<bus[1], first.lun>> ELSE bus
           t     == IF first.msg = "IDENTIFY"
                    THEN [tg[bus] EXCEPT !.ph = "command", !.disc = first.disc]
                    ELSE tg[bus]
           own   == t.pend = "offered"
           off   == CHOOSE x \in sdtr : TRUE
           mode  == IF off > 0 THEN "sync" ELSE "async"
           u(a)  == IF own THEN [t EXCEPT !.pend = "none"]
                    ELSE IF sdtr = {} \/ a = "mute" THEN t
                    ELSE IF a = "agree" THEN [t EXCEPT !.msgs = SDTR(off), !.pend = mode]
                    ELSE [t EXCEPT !.msgs = MESSAGE_REJECT, !.pend = "async"]
<1>1. /\ bus \in Nexus /\ tg[bus] \in Units /\ chip \in Chips
      /\ chip.cmd = "info" /\ chip.xph = "MESS_OUT"
  BY DEF BusTypes, TakeMessages, Ready, Expected, DataGoesOn
<1>2. ms \in Seq(OutMessages) /\ ms # <<>> /\ (first.msg = "IDENTIFY" => n \in Nexus)
  BY <1>1, ChipTypes DEF SelectInv, IdentifySent
<1>3. first \in OutMessages /\ n \in Nexus
  BY <1>1, <1>2
<1>4. first.msg = "IDENTIFY" => first.disc \in BOOLEAN
  BY <1>3 DEF OutMessages
<1>5. t \in Units
  <2>1. "command" \in Steps
    BY DEF Steps
  <2> HIDE DEF first
  <2> QED
    BY <1>1, <1>4, <2>1, UnitFields
<1>6. \A x \in sdtr : x \in Nat
  <2>1. \A x \in ToSet(ms) : x \in OutMessages
    BY <1>2 DEF ToSet
  <2>2. \A x \in OutMessages : x.msg = "SDTR" => x.off \in Nat
    BY DEF OutMessages, OPTIMUM_SX_OFF
  <2> QED
    BY <2>1, <2>2
<1>7. sdtr # {} => off \in Nat
  BY <1>6
<1>8. PICK a \in {"agree", "reject", "early", "mute"} :
        /\ bus' = n
        /\ tg' = [tg EXCEPT ![bus] = Idle, ![n] = u(a)]
        /\ chip' = IF a = "early" THEN [chip EXCEPT !.cmd = "none", !.count = 1]
                   ELSE [chip EXCEPT !.cmd = "none", !.count = 0, !.atn = FALSE, !.out = <<>>]
  <2> HIDE DEF sdtr, off
  <2> QED
    BY DEF TakeMessages, Answers, sdtr, off
<1>9. chip' \in Chips
  BY <1>1, <1>8, EmptySeq DEF Chips
<1>10. u(a) \in Units
  <2>1. mode \in {"none", "offered", "async", "sync"}
    OBVIOUS
  <2>2. sdtr # {} => SDTR(off) \in Seq(Nat)
    BY <1>7 DEF SDTR
  <2>3. MESSAGE_REJECT \in Seq(Nat)
    BY DEF MESSAGE_REJECT
  <2> HIDE DEF t, sdtr, off, mode
  <2>4. [t EXCEPT !.pend = "none"] \in Units
    BY <1>5, UnitFields
  <2>5. [t EXCEPT !.msgs = MESSAGE_REJECT, !.pend = "async"] \in Units
    BY <1>5, <2>3, UnitFields
  <2>6. sdtr # {} => [t EXCEPT !.msgs = SDTR(off), !.pend = mode] \in Units
    BY <1>5, <2>1, <2>2, UnitFields
  <2> QED
    BY <1>5, <2>4, <2>5, <2>6
<1> HIDE DEF u, n
<1> QED
  BY <1>1, <1>3, <1>8, <1>9, <1>10, IdleType DEF BusTypes

(* What the targets and the chip do keeps the types.                       *)
LEMMA BusTypesKept ==
  ASSUME BusTypes, HostTypes, SelectInv, BusSteps
  PROVE  BusTypes'
<1>1. CASE Selected
  <2>1. <<chip.id, chip.lun>> \in Nexus
    BY <1>1 DEF Selected, SelectInv, Selects, SelectsToTransfer, HostTypes, Hosts, Nexus
  <2> QED
    BY <1>1, <2>1, SelectedTypes
<1>2. CASE ReportPhase
  BY <1>2, PhaseType DEF ReportPhase, Chips, Ints, BusTypes
<1>3. CASE ReleaseBus
  <2> DEFINE t == tg[bus]
             u == IF t.ph = "away" THEN [t EXCEPT !.ph = "disc"] ELSE Idle
  <2>1. bus \in Nexus /\ t \in Units /\ "disc" \in Steps
    BY <1>3 DEF ReleaseBus, BusTypes, Steps
  <2>2. chip' \in Chips
    BY <1>3, EventTypes DEF ReleaseBus, BusTypes, Chips
  <2>3. u \in Units
    BY <2>1, UnitFields, IdleType
  <2>4. tg' = [tg EXCEPT ![bus] = u]
    BY <1>3, <2>1 DEF ReleaseBus, BusTypes
  <2> QED
    BY <1>3, <2>1, <2>2, <2>3, <2>4 DEF BusTypes, ReleaseBus
<1>4. CASE SelectionTimeout
  BY <1>4, EventTypes DEF SelectionTimeout, Chips, BusTypes
<1>5. CASE Drop
  <2>1. bus \in Nexus
    BY <1>5 DEF Drop, BusTypes
  <2>2. chip' \in Chips
    BY <1>5, EventTypes DEF Drop, BusTypes, Chips
  <2> QED
    BY <1>5, <2>1, <2>2, IdleType DEF BusTypes, Drop
<1>6. CASE \E n \in Nexus : Reselect(n)
  <2>1. PICK n \in Nexus : Reselect(n)
    BY <1>6
  <2>2. chip' \in Chips
    BY <2>1, EventTypes DEF Reselect, BusTypes, Chips
  <2>3. tg' = [tg EXCEPT ![n] = [tg[n] EXCEPT !.ph = "exec"]] /\ "exec" \in Steps
    BY <2>1 DEF Reselect, BusTypes, Steps
  <2>4. [tg[n] EXCEPT !.ph = "exec"] \in Units
    BY <2>3, UnitFields DEF BusTypes
  <2> QED
    BY <2>1, <2>2, <2>3, <2>4 DEF BusTypes, Reselect
<1> QED
  BY <1>1, <1>2, <1>3, <1>4, <1>5, <1>6, CommandPhaseTypes, MessageTypes, StatusTypes, ByteTypes,
     Level2Types, TargetTypes DEF BusSteps, ChipSteps

(* The same for struct WD33C93_hostdata.                                   *)
LEMMA HostFields ==
  ASSUME NEW h \in Hosts
  PROVE  /\ \A v \in Seq(Cmds) : /\ [h EXCEPT !.input_Q = v] \in Hosts
                                 /\ [h EXCEPT !.disconnected_Q = v] \in Hosts
         /\ \A v \in Cmds \cup {NULL} : /\ [h EXCEPT !.selecting = v] \in Hosts
                                        /\ [h EXCEPT !.connected = v] \in Hosts
         /\ \A v \in SUBSET Nexus : [h EXCEPT !.busy = v] \in Hosts
         /\ \A v \in {"S_UNCONNECTED", "S_SELECTING", "S_RUNNING_LEVEL2", "S_CONNECTED",
                      "S_PRE_TMP_DISC", "S_PRE_CMP_DISC"} : [h EXCEPT !.state = v] \in Hosts
         /\ \A v \in {"D_DMA_OFF", "D_DMA_RUNNING"} : [h EXCEPT !.dma = v] \in Hosts
         /\ \A v \in BOOLEAN : /\ [h EXCEPT !.bounce = v] \in Hosts
                               /\ [h EXCEPT !.no_dma = v] \in Hosts
         /\ \A v \in 0..2 : [h EXCEPT !.disconnect = v] \in Hosts
         /\ \A v \in SUBSET (0..6) : [h EXCEPT !.no_sync = v] \in Hosts
         /\ \A v \in Seq(Nat) : [h EXCEPT !.incoming_msg = v] \in Hosts
         /\ \A v \in Seq(OutMessages) : [h EXCEPT !.outgoing_msg = v] \in Hosts
         /\ \A v \in [Ids -> {"async", "sync"}] : [h EXCEPT !.sync_xfer = v] \in Hosts
         /\ \A v \in [Ids -> {"SS_UNSET", "SS_FIRST", "SS_WAITING", "SS_SET"}] :
              [h EXCEPT !.sync_stat = v] \in Hosts
<1> USE DEF Hosts
<1>1. \A v \in Seq(Cmds) : /\ [h EXCEPT !.input_Q = v] \in Hosts
                           /\ [h EXCEPT !.disconnected_Q = v] \in Hosts
  OBVIOUS
<1>2. \A v \in Cmds \cup {NULL} : /\ [h EXCEPT !.selecting = v] \in Hosts
                                  /\ [h EXCEPT !.connected = v] \in Hosts
  OBVIOUS
<1>3. \A v \in SUBSET Nexus : [h EXCEPT !.busy = v] \in Hosts
  OBVIOUS
<1>4. \A v \in {"S_UNCONNECTED", "S_SELECTING", "S_RUNNING_LEVEL2", "S_CONNECTED",
                "S_PRE_TMP_DISC", "S_PRE_CMP_DISC"} : [h EXCEPT !.state = v] \in Hosts
  OBVIOUS
<1>5. \A v \in {"D_DMA_OFF", "D_DMA_RUNNING"} : [h EXCEPT !.dma = v] \in Hosts
  OBVIOUS
<1>6. \A v \in BOOLEAN : [h EXCEPT !.bounce = v] \in Hosts /\ [h EXCEPT !.no_dma = v] \in Hosts
  OBVIOUS
<1>7. \A v \in 0..2 : [h EXCEPT !.disconnect = v] \in Hosts
  OBVIOUS
<1>8. \A v \in SUBSET (0..6) : [h EXCEPT !.no_sync = v] \in Hosts
  OBVIOUS
<1>9. \A v \in Seq(Nat) : [h EXCEPT !.incoming_msg = v] \in Hosts
  OBVIOUS
<1>10. \A v \in Seq(OutMessages) : [h EXCEPT !.outgoing_msg = v] \in Hosts
  OBVIOUS
<1>11. \A v \in [Ids -> {"async", "sync"}] : [h EXCEPT !.sync_xfer = v] \in Hosts
  OBVIOUS
<1>12. \A v \in [Ids -> {"SS_UNSET", "SS_FIRST", "SS_WAITING", "SS_SET"}] :
         [h EXCEPT !.sync_stat = v] \in Hosts
  OBVIOUS
<1> HIDE DEF Hosts
<1> QED
  BY <1>1, <1>2, <1>3, <1>4, <1>5, <1>6, <1>7, <1>8, <1>9, <1>10, <1>11, <1>12
(* The fields of struct WD33C93_hostdata.                                  *)
LEMMA HostFieldTypes ==
  ASSUME NEW h \in Hosts
  PROVE  /\ h.input_Q \in Seq(Cmds) /\ h.disconnected_Q \in Seq(Cmds)
         /\ h.selecting \in Cmds \cup {NULL} /\ h.connected \in Cmds \cup {NULL}
         /\ h.busy \in SUBSET Nexus
         /\ h.state \in {"S_UNCONNECTED", "S_SELECTING", "S_RUNNING_LEVEL2", "S_CONNECTED",
                         "S_PRE_TMP_DISC", "S_PRE_CMP_DISC"}
         /\ h.dma \in {"D_DMA_OFF", "D_DMA_RUNNING"}
         /\ h.level2 = setup.level2 /\ h.bounce \in BOOLEAN /\ h.no_dma \in BOOLEAN
         /\ h.disconnect \in 0..2
         /\ h.no_sync \in SUBSET (0..6) /\ h.incoming_msg \in Seq(Nat)
         /\ h.outgoing_msg \in Seq(OutMessages)
         /\ h.sync_xfer \in [Ids -> {"async", "sync"}]
         /\ h.sync_stat \in [Ids -> {"SS_UNSET", "SS_FIRST", "SS_WAITING", "SS_SET"}]
BY DEF Hosts

(* What the driver makes of it at the end of a connection, for a           *)
(* reselection and for a DMA.                                              *)
LEMMA HostUpdates ==
  ASSUME NEW h \in Hosts
  PROVE  /\ \A c \in Cmds : /\ Unconnected(h, c) \in Hosts
                            /\ Disconnected(h, c) \in Hosts
                            /\ Requeued(h, c) \in Hosts
         /\ Connected(h) \in Hosts
         /\ \A b \in BOOLEAN : DmaStop(h, b) \in Hosts
         /\ \A via \in {"direct", "bounce", "fail"} : DmaSetup(h, via) \in Hosts
         /\ PutBackLoser(h) \in Hosts
<1>1. \A c \in Cmds : Unconnected(h, c) \in Hosts
  BY HostFields, HostFieldTypes DEF Unconnected
<1>2. ASSUME NEW c \in Cmds
      PROVE  Disconnected(h, c) \in Hosts
  <2>1. <<c>> \o h.disconnected_Q \in Seq(Cmds)
    BY HostFieldTypes, QueueTypes
  <2> QED
    BY <2>1, HostFields DEF Disconnected
<1>3. ASSUME NEW g \in Hosts, NEW d \in Cmds
      PROVE  Requeued(g, d) \in Hosts
  <2>1. <<d>> \o g.input_Q \in Seq(Cmds) /\ g.busy \ {NexusOf(d)} \in SUBSET Nexus
    BY HostFieldTypes, QueueTypes
  <2> QED
    BY <2>1, HostFields DEF Requeued
<1>4. Connected(h) \in Hosts
  BY HostFields, HostFieldTypes DEF Connected
<1>5. \A b \in BOOLEAN : DmaStop(h, b) \in Hosts
  BY HostFields, HostFieldTypes DEF DmaStop
<1>6. \A via \in {"direct", "bounce", "fail"} : DmaSetup(h, via) \in Hosts
  BY HostFields, HostFieldTypes DEF DmaSetup
<1>7. PutBackLoser(h) \in Hosts
  <2>1. [h EXCEPT !.selecting = NULL] \in Hosts
    BY HostFields
  <2> QED
    BY <1>3, <2>1, HostFieldTypes DEF PutBackLoser
<1> QED
  BY <1>1, <1>2, <1>3, <1>4, <1>5, <1>6, <1>7

(* Commands, machines and the mid-layer's requests.                        *)
LEMMA AttrTypes ==
  ASSUME NEW c \in Cmds
  PROVE  /\ Attr[c].id \in 0..6 /\ Attr[c].lun \in 0..7 /\ Attr[c].in \in BOOLEAN
         /\ Attr[c].nbufs \in Nat /\ Attr[c].blen \in Nat
         /\ Attr[c].sense \in BOOLEAN /\ Attr[c].tape \in BOOLEAN
         /\ NexusOf(c) \in Nexus /\ Attr[c].id \in Ids /\ c # NULL
BY BusAssumption DEF NexusOf, Nexus, Ids

(* The parameters of a machine.                                            *)
LEMMA SetupTypes ==
  ASSUME setup \in Setups
  PROVE  /\ setup.level2 \in 0..7 /\ setup.disconnect \in 0..2 /\ setup.no_sync \subseteq 0..6
         /\ setup.ways \subseteq {"direct", "bounce", "fail"} /\ setup.timeouts \subseteq Cmds
         /\ setup.settings \subseteq {"never", "always", "nodma", "resync", "nosync"}
         /\ setup.cmds \subseteq Cmds
BY BusAssumption, DriverAssumption

(* The fields of SCp, and SCp with one of them written.                    *)
LEMMA PointerTypes ==
  ASSUME NEW p \in Pointers
  PROVE  /\ \A v \in Nat : /\ [p EXCEPT !.Status = v] \in Pointers
                           /\ [p EXCEPT !.left = v] \in Pointers
                           /\ [p EXCEPT !.ptr = v] \in Pointers
                           /\ [p EXCEPT !.more = v] \in Pointers
         /\ \A v \in BOOLEAN : [p EXCEPT !.phase = v] \in Pointers
         /\ p.Status \in Nat /\ p.left \in Nat /\ p.ptr \in Nat /\ p.more \in Nat
         /\ p.phase \in BOOLEAN
BY DEF Pointers

(* SCp when a command is queued (queuecommand fills it in).                *)
LEMMA FreshTypes ==
  ASSUME NEW c \in Cmds
  PROVE  FreshSCp(c) \in Pointers /\ FreshSCp(c).more <= Attr[c].nbufs
<1> DEFINE n == Attr[c].nbufs
           b == Attr[c].blen
           m == IF n = 0 THEN 0 ELSE n - 1
<1>1. n \in Nat /\ b \in Nat /\ m \in Nat /\ m <= n
  BY AttrTypes
<1>2. FreshSCp(c) = [phase |-> FALSE, Status |-> ILLEGAL, ptr |-> 0, left |-> b, more |-> m]
  BY DEF FreshSCp
<1> HIDE DEF m, n, b
<1>3. FreshSCp(c) \in Pointers /\ FreshSCp(c).more <= n
  BY <1>1, <1>2 DEF Pointers, ILLEGAL
<1> QED
  BY <1>3 DEF n

(* SCp when a command is queued, when a transfer has stopped, and when it  *)
(* goes on with another buffer.                                            *)
LEMMA PointerUpdates ==
  ASSUME Types, NEW c \in Cmds
  PROVE  /\ FreshSCp(c) \in Pointers /\ FreshSCp(c).more <= Attr[c].nbufs
         /\ chip.count <= scp[c].left => /\ Moved(c) \in Pointers
                                         /\ Moved(c).more = scp[c].more
         /\ NextBuffer(c) \in Pointers /\ NextBuffer(c).more <= Attr[c].nbufs
<1> DEFINE n == Attr[c].nbufs
           b == Attr[c].blen
<1>1. n \in Nat /\ b \in Nat /\ (n = 0 <=> b = 0)
  BY BusAssumption, AttrTypes
<1>2. scp[c] \in Pointers /\ scp[c].more <= n /\ chip.count \in Nat
  BY ChipTypes DEF Types, HostTypes, PointersOk, BusTypes
<1>3. /\ scp[c].Status \in Nat /\ scp[c].left \in Nat /\ scp[c].ptr \in Nat
      /\ scp[c].more \in Nat /\ scp[c].phase \in BOOLEAN
  BY <1>2, PointerTypes
<1>4. FreshSCp(c) \in Pointers /\ FreshSCp(c).more <= n
  BY FreshTypes
<1>5. ASSUME chip.count <= scp[c].left
      PROVE  Moved(c) \in Pointers /\ Moved(c).more = scp[c].more
  <2> DEFINE p == scp[c].ptr + scp[c].left - chip.count
             s == [scp[c] EXCEPT !.left = chip.count]
  <2>1. p \in Nat
    BY <1>2, <1>3, <1>5
  <2>2. s \in Pointers /\ s.more = scp[c].more /\ s.ptr = scp[c].ptr
    BY <1>2, PointerTypes DEF Pointers
  <2>3. Moved(c) = [s EXCEPT !.ptr = p]
    BY <2>2 DEF Moved
  <2> HIDE DEF p, s
  <2>4. [s EXCEPT !.ptr = p] \in Pointers /\ [s EXCEPT !.ptr = p].more = s.more
    BY <2>1, <2>2, PointerTypes DEF Pointers
  <2> QED
    BY <2>2, <2>3, <2>4
<1>6. NextBuffer(c) \in Pointers /\ NextBuffer(c).more <= n
  <2>1. CASE ~(scp[c].left = 0 /\ scp[c].more > 0)
    BY <1>2, <2>1 DEF NextBuffer
  <2>2. CASE scp[c].left = 0 /\ scp[c].more > 0
    <3> DEFINE m == scp[c].more - 1
               k == n - scp[c].more
               p == k * b
               s == [scp[c] EXCEPT !.left = b]
               r == [s EXCEPT !.more = m]
    <3>1. m \in Nat /\ m <= n /\ k \in Nat
      BY <1>1, <1>2, <1>3, <2>2
    <3>2. p \in Nat
      <4> HIDE DEF k
      <4> QED
        BY <1>1, <3>1
    <3>3. s \in Pointers
      BY <1>1, <1>2, PointerTypes
    <3>4. r \in Pointers /\ r.more = m
      BY <3>1, <3>3, PointerTypes DEF Pointers
    <3>5. NextBuffer(c) = [r EXCEPT !.ptr = p]
      BY <2>2, <1>2 DEF NextBuffer, Pointers
    <3> HIDE DEF p, r
    <3>6. [r EXCEPT !.ptr = p] \in Pointers /\ [r EXCEPT !.ptr = p].more = r.more
      BY <3>2, <3>4, PointerTypes DEF Pointers
    <3> QED
      BY <3>1, <3>4, <3>5, <3>6
  <2> QED
    BY <2>1, <2>2
<1> QED
  BY <1>4, <1>5, <1>6

(* wd33c93_execute, once it has found a command to start.                  *)
LEMMA StartTypes ==
  ASSUME Types, Start, Runnable # 0
  PROVE  /\ chip' \in Chips /\ hd' \in Hosts
         /\ scp' \in [Cmds -> Pointers] /\ \A x \in Cmds : scp'[x].more = scp[x].more
         /\ engine' \in Dmas
<1> DEFINE q    == hd.input_Q
           c    == q[Runnable]
           rest == RemoveAt(q, Runnable)
           er   == AllowDisconnect(c, rest)
           h    == [hd EXCEPT !.input_Q = rest, !.busy = @ \cup {NexusOf(c)}]
           ch   == [chip EXCEPT !.id = Attr[c].id, !.lun = Attr[c].lun, !.dpd = Attr[c].in,
                                !.er = er, !.sync = hd.sync_xfer[Attr[c].id]]
           ready == [h EXCEPT !.connected = c, !.state = "S_RUNNING_LEVEL2"]
<1>1. /\ hd \in Hosts /\ chip \in Chips /\ scp \in [Cmds -> Pointers] /\ q \in Seq(Cmds)
      /\ setup \in Setups /\ DmaWays \subseteq {"direct", "bounce", "fail"}
      /\ engine \in Dmas
  BY HostFieldTypes, SetupTypes DEF Types, HostTypes, PointersOk, BusTypes, DmaWays
<1>2. Runnable \in DOMAIN q
  BY <1>1, Found DEF Runnable
<1>3. c \in Cmds /\ rest \in Seq(Cmds)
  BY <1>1, <1>2, QueueTypes
<1>4. er \in BOOLEAN
  BY DEF AllowDisconnect
<1>5. h \in Hosts
  <2> HIDE DEF c, rest
  <2>1. hd.busy \cup {NexusOf(c)} \in SUBSET Nexus
    BY <1>1, <1>3, AttrTypes, HostFieldTypes
  <2> QED
    BY <1>1, <1>3, <2>1, HostFields
<1>6. ch \in Chips
  <2> DEFINE id == Attr[c].id
             lun == Attr[c].lun
             in == Attr[c].in
             sync == hd.sync_xfer[Attr[c].id]
  <2>1. id \in 0..6 /\ lun \in Nat /\ in \in BOOLEAN
    <3> HIDE DEF c
    <3>1. 0..7 \subseteq Nat
      OBVIOUS
    <3> QED
      BY <1>3, <3>1, AttrTypes
  <2>2. sync \in {"async", "sync"}
    <3> HIDE DEF c
    <3> QED
      BY <1>1, <1>3, AttrTypes, HostFieldTypes
  <2> HIDE DEF id, lun, in, sync, er
  <2>3. [chip EXCEPT !.id = id, !.lun = lun, !.dpd = in, !.er = er, !.sync = sync] \in Chips
    BY <1>1, <1>4, <2>1, <2>2 DEF Chips
  <2> QED
    BY <2>3 DEF id, lun, in, sync
<1>7. /\ scp' \in [Cmds -> Pointers]
      /\ \A x \in Cmds : scp'[x].more = scp[x].more
  <2>1. scp' = [x \in Cmds |->
           IF x = c THEN [scp[x] EXCEPT !.phase = er]
           ELSE [scp[x] EXCEPT !.phase =
                   @ \/ (x \in ToSet(rest) /\ MakesOthersDisconnectable(c, rest))]]
    BY DEF Start
  <2> HIDE DEF c, rest, er
  <2>2. SUFFICES ASSUME NEW x \in Cmds
                 PROVE  scp'[x] \in Pointers /\ scp'[x].more = scp[x].more
    BY <2>1
  <2>3. \E v \in BOOLEAN : scp'[x] = [scp[x] EXCEPT !.phase = v]
    BY <1>4, <2>1
  <2> QED
    BY <1>1, <2>3, PointerTypes DEF Pointers
<1>8. StartSelect(c, h, ch) \/ StartLevel2(c, h, ch)
  BY DEF Start
<1> HIDE DEF h, ch, c, rest, er
<1>9. NoCount(ch) \in Chips
  BY <1>6, ChipFields DEF NoCount
<1>10. CASE StartSelect(c, h, ch)
  <2>1. chip' \in Chips /\ engine' = engine
    BY <1>9, <1>10, CommandTypes DEF StartSelect
  <2> DEFINE id == Attr[c].id
             v == IF h.sync_stat[id] = "SS_UNSET" THEN "SS_FIRST" ELSE h.sync_stat[id]
             g == [h EXCEPT !.selecting = c, !.state = "S_SELECTING"]
             f == [h.sync_stat EXCEPT ![id] = v]
  <2>2. g \in Hosts
    BY <1>3, <1>5, HostFields
  <2>3. f \in [Ids -> {"SS_UNSET", "SS_FIRST", "SS_WAITING", "SS_SET"}]
    BY <1>3, <1>5, AttrTypes, HostFieldTypes
  <2>4. hd' = [g EXCEPT !.sync_stat = f]
    BY <1>10, <1>5 DEF StartSelect, Hosts
  <2> HIDE DEF g, f
  <2>5. hd' \in Hosts
    BY <2>2, <2>3, <2>4, HostFields
  <2> QED
    BY <1>1, <1>7, <2>1, <2>5
<1>11. CASE StartLevel2(c, h, ch)
  <2>1. ready \in Hosts
    BY <1>3, <1>5, HostFields
  <2> HIDE DEF ready
  <2> DEFINE k == [NoCount(ch) EXCEPT !.cdb = c]
             left == scp[c].left
             m == [ch EXCEPT !.count = left, !.cdb = c, !.polled = FALSE]
  <2>2. k \in Chips
    BY <1>3, <1>9 DEF Chips
  <2>3. left \in Nat /\ scp[c].ptr \in Nat
    BY <1>1, <1>3, PointerTypes
  <2>4. m \in Chips
    <3> HIDE DEF left
    <3> QED
      BY <1>3, <1>6, <2>3 DEF Chips
  <2> HIDE DEF k, m
  <2>5. \/ hd' = ready /\ chip' = SelAtnXfer(k, 0) /\ UNCHANGED engine
        \/ \E via \in Ways(c) :
             /\ hd' = DmaSetup(ready, via) /\ engine' = EngineFor(c, scp[c].ptr, via)
             /\ chip' \in {SelAtnXfer(k, 0), SelAtnXfer(m, 0)}
    BY <1>11 DEF StartLevel2, ready, k, m
  <2>6. chip' \in Chips
    BY <2>2, <2>4, <2>5, CommandTypes
  <2>7. Ways(c) \subseteq {"direct", "bounce", "fail"}
    BY <1>1 DEF Ways
  <2>8. hd' \in Hosts
    BY <1>3, <2>1, <2>5, <2>7, HostUpdates
  <2>9. engine' \in Dmas
    BY <1>1, <1>3, <2>3, <2>5, <2>7 DEF EngineFor, EngineOff, Dmas
  <2> QED
    BY <1>7, <2>6, <2>8, <2>9
<1> QED
  BY <1>8, <1>10, <1>11

(* A step keeps the types when what it writes has them.                    *)
LEMMA TypesStep ==
  ASSUME Types, UNCHANGED setup, chip' \in Chips, bus' \in Nexus \cup {NULL},
         tg' \in [Nexus -> Units], hd' \in Hosts, PointersOk', engine' \in Dmas,
         sr' \in Events, eh' \in AbortStates, req' \in [Cmds -> Requests],
         pc' \in {"idle", "execute", "handle", "pio", "sent", "status", "message"}
  PROVE  Types'
<1>1. Hosts' = Hosts
  BY DEF Hosts
<1> QED
  BY <1>1 DEF Types, BusTypes, HostTypes

(* The result of a command has its type, whatever becomes of it.           *)
LEMMA ResultTypes ==
  ASSUME Types, NEW c, NEW res \in Results
  PROVE  ScsiDone(c, res) => req' \in [Cmds -> Requests]
<1>1. [st |-> "done", res |-> res] \in Requests
  BY DEF Requests
<1>2. req \in [Cmds -> Requests]
  BY DEF Types
<1> QED
  BY <1>1, <1>2 DEF ScsiDone

(* The results wd33c93_intr and wd33c93_abort put into cmd->result.        *)
LEMMA FinishedTypes ==
  ASSUME NEW c, NEW n \in Nat
  PROVE  /\ Finished(c, n) \in Results
         /\ Result("DID_NO_CONNECT", GOOD) \in Results /\ Result("DID_ABORT", GOOD) \in Results
         /\ Result("DID_RESET", GOOD) \in Results /\ NoResult \in Results
BY DEF Finished, Result, NoResult, Results, GOOD, NONE

(* SCp after a step that writes it for one command.                        *)
LEMMA PointersStep ==
  ASSUME PointersOk, NEW c \in Cmds, NEW p \in Pointers, p.more <= Attr[c].nbufs,
         scp' = [scp EXCEPT ![c] = p]
  PROVE  PointersOk'
<1>1. scp' \in [Cmds -> Pointers]
  BY DEF PointersOk
<1>2. ASSUME NEW x \in Cmds
      PROVE  scp'[x].more <= Attr[x].nbufs
  BY DEF PointersOk
<1> QED
  BY <1>1, <1>2 DEF PointersOk

(* The cases of the interrupt handler.                                     *)
LEMMA HandleTypes ==
  ASSUME Types, SelectInv, DmaInv, HandleInterrupt, UNCHANGED setup
  PROVE  Types'
<1>1. /\ hd \in Hosts /\ chip \in Chips /\ PointersOk /\ engine \in Dmas /\ eh \in AbortStates
      /\ req \in [Cmds -> Requests] /\ sr \in Events /\ setup \in Setups
      /\ hd.input_Q \in Seq(Cmds) /\ hd.disconnected_Q \in Seq(Cmds)
      /\ hd.selecting \in Cmds \cup {NULL} /\ hd.connected \in Cmds \cup {NULL}
      /\ DmaWays \subseteq {"direct", "bounce", "fail"}
  BY HostFieldTypes, SetupTypes DEF Types, HostTypes, BusTypes, DmaWays
<1>2. UNCHANGED <<sr, eh, bus, tg>>
  BY DEF HandleInterrupt, OnTimeout, OnSelect, OnData, OnCommand, OnMessageOut, OnStatus,
         OnMessageIn, OnSelXferDone, OnUnexpDisc, AlreadyDisconnected, OnDisc, OnSdp,
         OnReselect, OnStrayReselect, Rest, targetVars
<1>3. bus \in Nexus \cup {NULL} /\ tg \in [Nexus -> Units]
  BY DEF Types, BusTypes
<1>4. SUFFICES /\ chip' \in Chips /\ hd' \in Hosts /\ PointersOk' /\ engine' \in Dmas
               /\ req' \in [Cmds -> Requests]
               /\ pc' \in {"idle", "execute", "handle", "pio", "sent", "status", "message"}
  BY <1>1, <1>2, <1>3, TypesStep, Zenon
<1>5. \A x \in Cmds : /\ scp[x] \in Pointers /\ scp[x].Status \in Nat /\ scp[x].left \in Nat
                      /\ scp[x].more <= Attr[x].nbufs /\ scp[x].phase \in BOOLEAN
  BY <1>1, PointerTypes DEF PointersOk
<1>6. UNCHANGED scp => PointersOk'
  BY <1>1 DEF PointersOk
<1>7. EnableReselection \in Chips
  BY <1>1 DEF EnableReselection, Chips
<1>10. CASE OnTimeout
  <2>1. UNCHANGED <<scp, engine, chip>> /\ pc' = "execute"
    BY <1>10 DEF OnTimeout, Restart
  <2>2. PICK c \in {hd.connected, hd.selecting} :
          /\ ScsiDone(c, Result("DID_NO_CONNECT", GOOD))
          /\ LET h == [hd EXCEPT !.busy = @ \ {NexusOf(c)}, !.state = "S_UNCONNECTED"]
             IN hd' \in {[h EXCEPT !.connected = NULL], [h EXCEPT !.selecting = NULL]}
    BY <1>10 DEF OnTimeout
  <2>3. req' \in [Cmds -> Requests]
    BY <2>2, ResultTypes, FinishedTypes
  <2> DEFINE g == [hd EXCEPT !.busy = @ \ {NexusOf(c)}]
             h == [g EXCEPT !.state = "S_UNCONNECTED"]
  <2>4. hd.busy \ {NexusOf(c)} \in SUBSET Nexus
    BY <1>1, HostFieldTypes
  <2>5. g \in Hosts
    BY <1>1, <2>4, HostFields
  <2>6. h \in Hosts
    BY <2>5, HostFields
  <2>7. hd' \in {[h EXCEPT !.connected = NULL], [h EXCEPT !.selecting = NULL]}
    BY <2>2
  <2> HIDE DEF h
  <2>8. [h EXCEPT !.connected = NULL] \in Hosts /\ [h EXCEPT !.selecting = NULL] \in Hosts
    BY <2>6, HostFields
  <2> QED
    BY <1>1, <1>6, <2>1, <2>3, <2>7, <2>8
<1>11. CASE OnSelect
  <2> DEFINE c  == hd.selecting
             id == Attr[c].id
             first == hd.sync_stat[id] = "SS_FIRST"
             off == IF id \in hd.no_sync THEN 0 ELSE OPTIMUM_SX_OFF
             out == <<Identify(c)>> \o IF first THEN <<Sdtr(off)>> ELSE <<>>
             f   == [hd.sync_stat EXCEPT ![id] = IF first THEN "SS_WAITING" ELSE @]
             g   == [hd EXCEPT !.connected = c, !.selecting = NULL, !.state = "S_CONNECTED"]
  <2>1. UNCHANGED <<scp, engine, chip, req>> /\ pc' = "idle"
    BY <1>11 DEF OnSelect
  <2>2. c \in Cmds /\ id \in Ids
    BY <1>1, <1>11, AttrTypes DEF SelectInv, SelectTold, Pending, OnSelect, Case
  <2>3. Identify(c) \in OutMessages
    <3>1. Attr[c].lun \in 0..7
      BY <2>2, AttrTypes
    <3> HIDE DEF c
    <3> QED
      BY <1>5, <2>2, <3>1 DEF Identify, OutMessages
  <2>4. Sdtr(off) \in OutMessages
    BY DEF Sdtr, OutMessages, OPTIMUM_SX_OFF
  <2>5. out \in Seq(OutMessages)
    <3> HIDE DEF c, off
    <3> QED
      BY <2>3, <2>4
  <2>6. f \in [Ids -> {"SS_UNSET", "SS_FIRST", "SS_WAITING", "SS_SET"}]
    BY <1>1, <2>2, HostFieldTypes
  <2>7. g \in Hosts
    BY <1>1, <2>2, HostFields
  <2>8. hd' = [g EXCEPT !.outgoing_msg = out, !.sync_stat = f]
    <3>1. hd' = [hd EXCEPT !.connected = c, !.selecting = NULL, !.state = "S_CONNECTED",
                   !.outgoing_msg = out, !.sync_stat[id] = IF first THEN "SS_WAITING" ELSE @]
      BY <1>11 DEF OnSelect
    <3> HIDE DEF c, out
    <3> QED
      BY <1>1, <3>1 DEF Hosts
  <2> HIDE DEF g, out, f
  <2>9. hd' \in Hosts
    BY <2>5, <2>6, <2>7, <2>8, HostFields
  <2> QED
    BY <1>1, <1>6, <2>1, <2>9
<1>12. CASE OnData
  <2> DEFINE c == hd.connected
             s == NextBuffer(c)
             sync == hd.sync_xfer[Attr[c].id]
  <2>1. c \in Cmds /\ scp' = [scp EXCEPT ![c] = s] /\ UNCHANGED req
    BY <1>1, <1>12 DEF OnData, CommandCase
  <2>2. s \in Pointers /\ s.more <= Attr[c].nbufs /\ s.left \in Nat /\ s.ptr \in Nat
    BY <2>1, PointerUpdates, PointerTypes
  <2>3. PointersOk'
    BY <1>1, <2>1, <2>2, PointersStep
  <2>4. sync \in {"async", "sync"}
    BY <1>1, <2>1, AttrTypes, HostFieldTypes
  <2>5. CASE TransferNothing
    BY <1>1, <2>1, <2>3, <2>5, HostUpdates DEF TransferNothing
  <2>6. CASE TransferByPio(c, s)
    <3> DEFINE ch == [chip EXCEPT !.sync = sync, !.polled = TRUE, !.count = s.left]
               h  == [hd EXCEPT !.bounce = @ /\ hd.no_dma]
    <3>1. ch \in Chips
      BY <1>1, <2>2, <2>4 DEF Chips
    <3>2. h \in Hosts
      BY <1>1, HostFields, HostFieldTypes
    <3>3. chip' = TransInfo(ch) /\ hd' = Connected(h) /\ pc' = "pio" /\ UNCHANGED engine
      BY <2>6 DEF TransferByPio
    <3> HIDE DEF ch, h
    <3> QED
      BY <1>1, <2>1, <2>3, <3>1, <3>2, <3>3, CommandTypes, HostUpdates
  <2>7. ASSUME NEW via \in DmaWays \ {"fail"}, TransferByDma(c, s, via)
        PROVE  /\ chip' \in Chips /\ hd' \in Hosts /\ engine' \in Dmas /\ pc' = "idle"
    <3> DEFINE ch == [chip EXCEPT !.sync = sync, !.polled = FALSE, !.count = s.left]
               h  == DmaSetup(hd, via)
    <3>1. ch \in Chips
      BY <1>1, <2>2, <2>4 DEF Chips
    <3>2. h \in Hosts
      BY <1>1, <2>1, HostUpdates
    <3>3. /\ engine' = EngineFor(c, s.ptr, via) /\ pc' = "idle"
          /\ chip' \in {SelAtnXfer(ch, \h45), TransInfo(ch)}
          /\ hd' \in {[h EXCEPT !.state = "S_RUNNING_LEVEL2"], Connected(h)}
      BY <2>7 DEF TransferByDma
    <3>4. engine' \in Dmas
      <4> HIDE DEF s
      <4> QED
        BY <1>1, <2>1, <2>2, <3>3 DEF EngineFor, EngineOff, Dmas
    <3> HIDE DEF ch, h
    <3>5. chip' \in Chips
      BY <3>1, <3>3, CommandTypes
    <3>6. hd' \in Hosts
      BY <2>1, <3>2, <3>3, HostUpdates, HostFields
    <3> QED
      BY <3>3, <3>4, <3>5, <3>6
  <2>8. TransferNothing \/ TransferByPio(c, s)
        \/ \E via \in DmaWays \ {"fail"} : TransferByDma(c, s, via)
    BY <1>12 DEF OnData
  <2> HIDE DEF c, s
  <2> QED
    BY <1>1, <2>1, <2>3, <2>5, <2>6, <2>7, <2>8
<1>13. CASE OnCommand
  <2> DEFINE c == hd.connected
             ch == [chip EXCEPT !.polled = TRUE, !.count = 1, !.cdb = c]
  <2>1. ch \in Chips
    <3> HIDE DEF c
    <3>1. c \in Cmds \cup {NULL}
      BY <1>1 DEF c
    <3> QED
      BY <1>1, <3>1 DEF Chips
  <2>2. /\ chip' = TransInfo(ch) /\ hd' = [hd EXCEPT !.state = "S_CONNECTED"]
        /\ pc' = "sent" /\ UNCHANGED <<scp, engine, req>>
    BY <1>13 DEF OnCommand
  <2> QED
    BY <1>1, <1>6, <2>1, <2>2, CommandTypes, HostFields
<1>14. CASE OnMessageOut
  <2> DEFINE out == IF hd.outgoing_msg = <<>> THEN <<Plain("NOP")>> ELSE hd.outgoing_msg
             n == Len(out)
             ch == [chip EXCEPT !.polled = TRUE, !.count = n, !.out = out]
             h  == [hd EXCEPT !.outgoing_msg = <<>>, !.state = "S_CONNECTED"]
  <2>1. out \in Seq(OutMessages) /\ n \in Nat
    <3>1. Plain("NOP") \in OutMessages /\ hd.outgoing_msg \in Seq(OutMessages)
      BY <1>1, HostFieldTypes DEF Plain, OutMessages
    <3> QED
      BY <3>1
  <2> HIDE DEF out, n
  <2>2. ch \in Chips
    BY <1>1, <2>1 DEF Chips
  <2>3. h \in Hosts
    <3>1. <<>> \in Seq(OutMessages)
      OBVIOUS
    <3> QED
      BY <1>1, <3>1, HostFields
  <2>4. /\ chip' = TransInfo(ch) /\ hd' = h
        /\ pc' = "sent" /\ UNCHANGED <<scp, engine, req>>
    BY <1>14 DEF OnMessageOut, out, n
  <2> QED
    BY <1>1, <1>6, <2>2, <2>3, <2>4, CommandTypes
<1>15. CASE OnStatus \/ OnMessageIn
  <2> DEFINE ch == [chip EXCEPT !.polled = TRUE]
  <2>1. ch \in Chips
    BY <1>1 DEF Chips
  <2>2. chip' = TransInfo(ch) /\ pc' \in {"status", "message"} /\ UNCHANGED <<hd, scp, engine, req>>
    BY <1>15 DEF OnStatus, OnMessageIn, ReadByte
  <2> QED
    BY <1>1, <1>6, <2>1, <2>2, CommandTypes
<1>16. CASE OnSelXferDone
  <2> DEFINE c == hd.connected
             status == IF scp[c].Status = ILLEGAL THEN chip.lun ELSE scp[c].Status
  <2>1. /\ c \in Cmds /\ chip' = EnableReselection /\ pc' = "execute" /\ UNCHANGED engine
        /\ hd' = Unconnected(hd, c) /\ ScsiDone(c, Finished(c, status))
        /\ scp' = [scp EXCEPT ![c].Status = status]
    BY <1>1, <1>16 DEF OnSelXferDone, CommandCase, Restart
  <2>2. status \in Nat
    BY <1>1, <1>5, <2>1, ChipTypes
  <2> HIDE DEF status
  <2>3. PointersOk'
    <3>1. /\ [scp[c] EXCEPT !.Status = status] \in Pointers
          /\ [scp[c] EXCEPT !.Status = status].more = scp[c].more
      BY <1>5, <2>1, <2>2, PointerTypes DEF Pointers
    <3>2. scp' = [scp EXCEPT ![c] = [scp[c] EXCEPT !.Status = status]]
      BY <2>1
    <3> QED
      BY <1>1, <1>5, <2>1, <3>1, <3>2, PointersStep
  <2> QED
    BY <1>1, <1>7, <2>1, <2>2, <2>3, ResultTypes, FinishedTypes, HostUpdates
<1>17. CASE OnUnexpDisc
  <2> DEFINE c == hd.connected
  <2>1. /\ c \in Cmds /\ chip' = EnableReselection /\ pc' = "execute" /\ UNCHANGED <<scp, engine>>
        /\ hd' = Unconnected(hd, c) /\ ScsiDone(c, Finished(c, scp[c].Status))
    BY <1>1, <1>17 DEF OnUnexpDisc, CommandCase, Restart
  <2>2. req' \in [Cmds -> Requests]
    BY <1>5, <2>1, ResultTypes, FinishedTypes
  <2> QED
    BY <1>1, <1>6, <1>7, <2>1, <2>2, HostUpdates
<1>18. CASE AlreadyDisconnected
  BY <1>1, <1>6, <1>7, <1>18, HostFields DEF AlreadyDisconnected
<1>19. CASE OnDisc
  <2> DEFINE c == hd.connected
             state == IF c = NULL THEN "S_UNCONNECTED" ELSE hd.state
  <2>1. /\ chip' = EnableReselection /\ pc' = "execute" /\ UNCHANGED <<scp, engine>>
        /\ hd' = IF state = "S_PRE_CMP_DISC" THEN Unconnected(hd, c)
                 ELSE IF state \in {"S_PRE_TMP_DISC", "S_RUNNING_LEVEL2"} THEN Disconnected(hd, c)
                 ELSE [hd EXCEPT !.state = "S_UNCONNECTED"]
        /\ IF state = "S_PRE_CMP_DISC" THEN ScsiDone(c, Finished(c, scp[c].Status))
           ELSE UNCHANGED req
    BY <1>19 DEF OnDisc, Restart
  <2>2. c = NULL => state = "S_UNCONNECTED"
    OBVIOUS
  <2>3. c # NULL => c \in Cmds
    BY <1>1
  <2> HIDE DEF c, state
  <2>4. hd' \in Hosts
    BY <1>1, <2>1, <2>2, <2>3, HostUpdates, HostFields
  <2>5. req' \in [Cmds -> Requests]
    BY <1>1, <1>5, <2>1, <2>2, <2>3, ResultTypes, FinishedTypes
  <2> QED
    BY <1>1, <1>6, <1>7, <2>1, <2>4, <2>5
<1>20. CASE OnSdp
  BY <1>1, <1>6, <1>20, HostFields, CommandTypes DEF OnSdp
<1>21. CASE OnReselect
  <2> DEFINE c  == hd.disconnected_Q[Reconnecting]
             q  == RemoveAt(hd.disconnected_Q, Reconnecting)
             l  == PutBackLoser(hd)
             h  == [l EXCEPT !.connected = c, !.disconnected_Q = q]
             id == Attr[c].id
             in == Attr[c].in
             ch == [chip EXCEPT !.id = id, !.dpd = in]
  <2>1. Reconnecting \in DOMAIN hd.disconnected_Q
    BY <1>1, <1>21, Found DEF OnReselect, Reconnecting
  <2>2. c \in Cmds /\ q \in Seq(Cmds)
    BY <1>1, <2>1, QueueTypes
  <2>3. l \in Hosts
    BY <1>1, <2>2, HostUpdates
  <2>4. h \in Hosts
    <3> HIDE DEF c, q, l
    <3> QED
      BY <2>2, <2>3, HostFields
  <2>5. ch \in Chips
    <3>1. id \in 0..6 /\ in \in BOOLEAN
      BY <2>2, AttrTypes
    <3> HIDE DEF id, in
    <3> QED
      BY <1>1, <3>1 DEF Chips
  <2>6. NoCount(ch) \in Chips
    BY <2>5, ChipFields DEF NoCount
  <2>7. l.disconnected_Q = hd.disconnected_Q
    BY <1>1 DEF PutBackLoser, Requeued, Hosts
  <2>8. /\ hd' \in {[h EXCEPT !.state = "S_RUNNING_LEVEL2"], [h EXCEPT !.state = "S_CONNECTED"]}
        /\ chip' \in {SelAtnXfer(NoCount(ch), \h45), NegateAck(ch)}
        /\ pc' = "idle" /\ UNCHANGED <<scp, engine, req>>
    <3>1. [PutBackLoser(hd) EXCEPT !.connected = hd.disconnected_Q[Reconnecting],
             !.disconnected_Q = RemoveAt(@, Reconnecting)] = h
      BY <2>3, <2>7 DEF Hosts
    <3>2. ch = [chip EXCEPT !.id = Attr[hd.disconnected_Q[Reconnecting]].id,
                            !.dpd = Attr[hd.disconnected_Q[Reconnecting]].in]
      OBVIOUS
    <3> HIDE DEF h, ch
    <3> QED
      BY <1>21, <3>1, <3>2 DEF OnReselect
  <2> HIDE DEF h, ch
  <2>9. hd' \in Hosts
    BY <2>4, <2>8, HostFields
  <2>10. chip' \in Chips
    BY <2>5, <2>6, <2>8, CommandTypes
  <2> QED
    BY <1>1, <1>6, <2>8, <2>9, <2>10
<1>22. CASE OnStrayReselect
  <2>1. /\ hd' = PutBackLoser(hd) /\ chip' \in {NegateAck(chip), chip}
        /\ pc' = "idle" /\ UNCHANGED <<scp, engine, req>>
    BY <1>22 DEF OnStrayReselect
  <2>2. PutBackLoser(hd) \in Hosts
    BY <1>1, HostUpdates
  <2> QED
    BY <1>1, <1>6, <2>1, <2>2, CommandTypes
<1> QED
  BY <1>10, <1>11, <1>12, <1>13, <1>14, <1>15, <1>16, <1>17, <1>18, <1>19, <1>20, <1>21, <1>22
     DEF HandleInterrupt

(* The ends of what the driver polls for.                                  *)
LEMMA PollTypes ==
  ASSUME Types, DmaInv, PollEnds, UNCHANGED setup
  PROVE  Types'
<1>1. /\ hd \in Hosts /\ chip \in Chips /\ PointersOk /\ engine \in Dmas /\ eh \in AbortStates
      /\ req \in [Cmds -> Requests] /\ sr \in Events
      /\ bus \in Nexus \cup {NULL} /\ tg \in [Nexus -> Units]
      /\ hd.connected \in Cmds \cup {NULL} /\ hd.incoming_msg \in Seq(Nat)
      /\ chip.byte \in Nat /\ chip.count \in Nat
  BY HostFieldTypes, ChipTypes DEF Types, HostTypes, BusTypes
<1>2. UNCHANGED <<sr, eh, bus, tg, engine, req>> /\ pc' = "idle"
  BY DEF PollEnds, PioDone, SentDone, StatusRead, MessageRead, OnComplete, OnSave,
         OnDisconnect, OnRestore, OnReject, OnUnknown, OnExtendedByte, OnSdtr, OnWdtr,
         OnOtherExtended, Rest, targetVars
<1>3. SUFFICES chip' \in Chips /\ hd' \in Hosts /\ PointersOk'
  BY <1>1, <1>2, TypesStep, Zenon
<1>4. UNCHANGED scp => PointersOk'
  BY <1>1 DEF PointersOk
<1>5. \A x \in Cmds : scp[x] \in Pointers /\ scp[x].more <= Attr[x].nbufs
  BY <1>1 DEF PointersOk
<1>6. Cleared \in Chips
  BY <1>1, ChipFields, EventTypes DEF Cleared
<1>7. /\ NegateAck(Cleared) \in Chips /\ NegateAck(AssertAtn(Cleared)) \in Chips
      /\ SelAtnXfer(Cleared, \h50) \in Chips /\ SelAtnXfer(Cleared, \h45) \in Chips
  BY <1>6, CommandTypes
<1>8. pc \in {"pio", "status", "message"} => hd.connected \in Cmds
  BY <1>1 DEF DmaInv
<1>9. <<>> \in Seq(Nat)
  OBVIOUS
<1>10. CASE PioDone
  <2>1. scp' = [scp EXCEPT ![hd.connected] = Moved(hd.connected)] /\ UNCHANGED <<hd, chip>>
    BY <1>10 DEF PioDone
  <2>2. pc = "pio" /\ hd.connected \in Cmds /\ chip.count <= scp[hd.connected].left
    BY <1>8, <1>10 DEF PioDone, DmaInv
  <2>3. Moved(hd.connected) \in Pointers /\ Moved(hd.connected).more <= Attr[hd.connected].nbufs
    BY <1>5, <2>2, PointerUpdates
  <2> QED
    BY <1>1, <2>1, <2>2, <2>3, PointersStep
<1>11. CASE SentDone
  BY <1>1, <1>4, <1>11 DEF SentDone
<1>12. CASE StatusRead
  <2> DEFINE c == hd.connected
             b == chip.byte
  <2>1. /\ c \in Cmds /\ scp' = [scp EXCEPT ![c].Status = b]
        /\ chip' \in {SelAtnXfer(Cleared, \h50), chip}
        /\ hd' \in {[hd EXCEPT !.state = "S_RUNNING_LEVEL2"], [hd EXCEPT !.state = "S_CONNECTED"]}
    BY <1>8, <1>12 DEF StatusRead
  <2>2. b \in Nat
    BY <1>1
  <2> HIDE DEF b
  <2>3. PointersOk'
    <3>1. /\ [scp[c] EXCEPT !.Status = b] \in Pointers
          /\ [scp[c] EXCEPT !.Status = b].more = scp[c].more
      BY <1>5, <2>1, <2>2, PointerTypes DEF Pointers
    <3>2. scp' = [scp EXCEPT ![c] = [scp[c] EXCEPT !.Status = b]]
      BY <2>1
    <3> QED
      BY <1>1, <1>5, <2>1, <3>1, <3>2, PointersStep
  <2>4. hd' \in Hosts
    BY <1>1, <2>1, HostFields
  <2> QED
    BY <1>1, <1>7, <2>1, <2>3, <2>4
<1>13. CASE \E m, state : MessageRead(Is(m) /\ state \in {"S_CONNECTED", "S_PRE_TMP_DISC",
                                                     "S_PRE_CMP_DISC"} /\ Accept(state))
  <2>1. PICK state \in {"S_CONNECTED", "S_PRE_TMP_DISC", "S_PRE_CMP_DISC"} :
          chip' = NegateAck(Cleared) /\ hd' = [hd EXCEPT !.state = state] /\ UNCHANGED scp
    BY <1>13 DEF MessageRead, Accept
  <2> QED
    BY <1>1, <1>4, <1>7, <2>1, HostFields
<1>14. CASE OnRestore
  <2>1. /\ chip' \in {SelAtnXfer(Cleared, \h45), NegateAck(Cleared)} /\ UNCHANGED scp
        /\ hd' \in {[hd EXCEPT !.state = "S_RUNNING_LEVEL2"], [hd EXCEPT !.state = "S_CONNECTED"]}
    BY <1>14 DEF OnRestore, MessageRead, Accept
  <2>2. hd' \in Hosts
    BY <1>1, <2>1, HostFields
  <2> QED
    BY <1>4, <1>7, <2>1, <2>2
<1>15. CASE OnReject
  <2> DEFINE id == Attr[hd.connected].id
             w  == hd.sync_stat[id] = "SS_WAITING"
             f  == [hd.sync_stat EXCEPT ![id] = IF w THEN "SS_SET" ELSE @]
             x  == [hd.sync_xfer EXCEPT ![id] = IF w THEN "async" ELSE @]
             h  == [hd EXCEPT !.state = "S_CONNECTED"]
  <2>1. id \in Ids
    BY <1>8, <1>15, AttrTypes DEF OnReject, MessageRead
  <2>2. /\ f \in [Ids -> {"SS_UNSET", "SS_FIRST", "SS_WAITING", "SS_SET"}]
        /\ x \in [Ids -> {"async", "sync"}]
    BY <1>1, <2>1, HostFieldTypes
  <2>3. chip' = NegateAck(Cleared) /\ UNCHANGED scp /\ hd' = [h EXCEPT !.sync_stat = f, !.sync_xfer = x]
    <3>1. /\ chip' = NegateAck(Cleared) /\ UNCHANGED scp
          /\ hd' = [hd EXCEPT !.state = "S_CONNECTED",
                      !.sync_stat[id] = IF w THEN "SS_SET" ELSE @,
                      !.sync_xfer[id] = IF w THEN "async" ELSE @]
      BY <1>15 DEF OnReject, MessageRead
    <3> QED
      BY <1>1, <3>1 DEF Hosts
  <2>4. h \in Hosts
    BY <1>1, HostFields
  <2> HIDE DEF f, x, h
  <2>5. hd' \in Hosts
    BY <2>2, <2>3, <2>4, HostFields
  <2> QED
    BY <1>4, <1>7, <2>3, <2>5
<1>16. ASSUME NEW m \in OutMessages, Answer(m), UNCHANGED scp
       PROVE  chip' \in Chips /\ hd' \in Hosts /\ PointersOk'
  <2>1. <<m>> \in Seq(OutMessages)
    OBVIOUS
  <2>2. [hd EXCEPT !.outgoing_msg = <<m>>, !.state = "S_CONNECTED", !.incoming_msg = <<>>] \in Hosts
    BY <1>1, <1>9, <2>1, HostFields
  <2> QED
    BY <1>4, <1>7, <1>16, <2>2 DEF Answer
<1>17. CASE OnUnknown \/ OnWdtr \/ OnOtherExtended
  <2>1. Plain("MESSAGE_REJECT") \in OutMessages /\ Plain("WDTR") \in OutMessages
    BY DEF Plain, OutMessages
  <2>2. /\ Answer(Plain("MESSAGE_REJECT")) \/ Answer(Plain("WDTR"))
        /\ UNCHANGED scp
    BY <1>17 DEF OnUnknown, OnWdtr, OnOtherExtended, MessageRead
  <2> QED
    BY <1>16, <2>1, <2>2
<1>18. CASE OnExtendedByte
  <2>1. /\ chip' = NegateAck(Cleared) /\ UNCHANGED scp
        /\ hd' = [hd EXCEPT !.incoming_msg = Incoming, !.state = "S_CONNECTED"]
    BY <1>18 DEF OnExtendedByte, MessageRead
  <2>2. Incoming \in Seq(Nat)
    BY <1>1 DEF Incoming
  <2>3. hd' \in Hosts
    BY <1>1, <2>1, <2>2, HostFields
  <2> QED
    BY <1>4, <1>7, <2>1, <2>3
<1>19. CASE OnSdtr
  <2> DEFINE id == Attr[hd.connected].id
             Set(h, m) == [h EXCEPT !.sync_xfer[id] = m, !.sync_stat[id] = "SS_SET",
                                    !.incoming_msg = <<>>, !.state = "S_CONNECTED"]
             out == <<Sdtr(0)>>
             g  == [hd EXCEPT !.outgoing_msg = out]
  <2>1. id \in Ids
    BY <1>8, <1>19, AttrTypes DEF OnSdtr, MessageRead
  <2>2. \/ chip' = NegateAck(Cleared) /\ \E m \in {"sync", "async"} : hd' = Set(hd, m)
        \/ chip' = NegateAck(AssertAtn(Cleared)) /\ hd' = Set(g, "async")
    BY <1>19 DEF OnSdtr, MessageRead
  <2>3. UNCHANGED scp
    BY <1>19 DEF OnSdtr, MessageRead
  <2>4. out \in Seq(OutMessages)
    <3>1. Sdtr(0) \in OutMessages
      BY DEF Sdtr, OutMessages
    <3> QED
      BY <3>1
  <2> HIDE DEF out
  <2>5. g \in Hosts
    BY <1>1, <2>4, HostFields
  <2>6. ASSUME NEW h \in Hosts, NEW m \in {"sync", "async"}
        PROVE  Set(h, m) \in Hosts
    <3> DEFINE x == [h.sync_xfer EXCEPT ![id] = m]
               f == [h.sync_stat EXCEPT ![id] = "SS_SET"]
               k == [h EXCEPT !.incoming_msg = <<>>, !.state = "S_CONNECTED"]
    <3>1. /\ f \in [Ids -> {"SS_UNSET", "SS_FIRST", "SS_WAITING", "SS_SET"}]
          /\ x \in [Ids -> {"async", "sync"}]
      BY <2>1, HostFieldTypes
    <3>2. k \in Hosts
      BY <1>9, HostFields
    <3>3. Set(h, m) = [k EXCEPT !.sync_xfer = x, !.sync_stat = f]
      <4> HIDE DEF id
      <4> QED
        BY DEF Hosts
    <3> HIDE DEF x, f, k, Set
    <3>4. [k EXCEPT !.sync_xfer = x, !.sync_stat = f] \in Hosts
      BY <3>1, <3>2, HostFields
    <3> QED
      BY <3>3, <3>4
  <2> HIDE DEF g, Set
  <2>7. hd' \in Hosts
    BY <1>1, <2>2, <2>5, <2>6
  <2> QED
    BY <1>4, <1>7, <2>2, <2>3, <2>7
<1>20. OnComplete \/ OnSave \/ OnDisconnect =>
         \E m, state : MessageRead(Is(m) /\ state \in {"S_CONNECTED", "S_PRE_TMP_DISC",
                                                  "S_PRE_CMP_DISC"} /\ Accept(state))
  BY DEF OnComplete, OnSave, OnDisconnect, MessageRead
<1> QED
  BY <1>10, <1>11, <1>12, <1>13, <1>14, <1>15, <1>17, <1>18, <1>19, <1>20 DEF PollEnds

(* The steps of an abort.                                                  *)
LEMMA AbortTypes ==
  ASSUME Types, AbortInv, AbortSteps, UNCHANGED setup
  PROVE  Types'
<1>1. /\ hd \in Hosts /\ chip \in Chips /\ PointersOk /\ engine \in Dmas /\ eh \in AbortStates
      /\ req \in [Cmds -> Requests] /\ sr \in Events
      /\ bus \in Nexus \cup {NULL} /\ tg \in [Nexus -> Units]
      /\ hd.connected \in Cmds \cup {NULL} /\ hd.input_Q \in Seq(Cmds)
      /\ pc \in {"idle", "execute", "handle", "pio", "sent", "status", "message"}
  BY HostFieldTypes, ChipTypes DEF Types, HostTypes, BusTypes
<1>2. eh.cmd \in Cmds /\ UNCHANGED <<pc, sr>>
  BY DEF AbortSteps, AbortQueued, AbortConnected, AbortFlush, AbortFinish, AbortDisconnected,
         AbortUnknown, AbortChecks, AbortStarts, Aborting, AbortInv
<1>3. UNCHANGED scp => PointersOk'
  BY <1>1 DEF PointersOk
<1>4. Cleared \in Chips
  BY <1>1, ChipFields, EventTypes DEF Cleared
<1>5. EngineOff \in Dmas
  BY DEF EngineOff, Dmas
<1>6. \A b \in BOOLEAN : AbortReturns(b) => req' \in [Cmds -> Requests] /\ eh' \in AbortStates
  <2>1. [st |-> "done", res |-> Result("DID_ABORT", GOOD)] \in Requests
    BY FinishedTypes DEF Requests
  <2>2. req[eh.cmd] \in Requests
    BY <1>1, <1>2
  <2>3. [req[eh.cmd] EXCEPT !.st = "failed"] \in Requests
    BY <2>2 DEF Requests
  <2>4. NotAborting \in AbortStates
    BY DEF NotAborting, AbortStates
  <2> QED
    BY <1>1, <1>2, <2>1, <2>3, <2>4 DEF AbortReturns
<1>7. /\ \A a \in {"flush", "finish", "check", "start"} : [eh EXCEPT !.at = a] \in AbortStates
      /\ [eh EXCEPT !.at = "check", !.ok = TRUE] \in AbortStates
      /\ eh.ok \in BOOLEAN
  BY <1>1 DEF AbortStates
<1>8. SUFFICES /\ chip' \in Chips /\ hd' \in Hosts /\ PointersOk' /\ engine' \in Dmas
               /\ req' \in [Cmds -> Requests] /\ eh' \in AbortStates
               /\ bus' \in Nexus \cup {NULL} /\ tg' \in [Nexus -> Units]
  BY <1>1, <1>2, TypesStep, Zenon
<1>10. CASE AbortQueued
  <2> DEFINE i == First(hd.input_Q, {eh.cmd})
  <2>1. i \in DOMAIN hd.input_Q
    BY <1>1, <1>10, Found DEF AbortQueued, ToSet
  <2>2. RemoveAt(hd.input_Q, i) \in Seq(Cmds)
    BY <1>1, <2>1, QueueTypes
  <2>3. hd' = [hd EXCEPT !.input_Q = RemoveAt(hd.input_Q, i)]
    BY <1>10 DEF AbortQueued
  <2>4. AbortReturns(TRUE) /\ UNCHANGED <<scp, engine, busVars>>
    BY <1>10 DEF AbortQueued
  <2> HIDE DEF i
  <2>5. hd' \in Hosts
    BY <1>1, <2>2, <2>3, HostFields
  <2> QED
    BY <1>1, <1>3, <1>6, <2>4, <2>5 DEF busVars
<1>11. CASE AbortConnected
  <2>1. /\ AbortStopsDma /\ chip' = AbortCmd([chip EXCEPT !.polled = TRUE])
        /\ eh' = [eh EXCEPT !.at = "flush"] /\ UNCHANGED <<scp, req, targetVars>>
    BY <1>11 DEF AbortConnected
  <2>2. [chip EXCEPT !.polled = TRUE] \in Chips
    BY <1>1 DEF Chips
  <2>3. chip' \in Chips
    BY <2>1, <2>2, CommandTypes
  <2>4. hd' \in Hosts /\ engine' \in Dmas
    BY <1>1, <1>5, <2>1, HostUpdates DEF AbortStopsDma
  <2> QED
    BY <1>1, <1>3, <1>7, <2>1, <2>3, <2>4 DEF targetVars
<1>12. CASE AbortFlush
  <2>1. chip' = [chip EXCEPT !.int = "none", !.cmd = "none", !.ack = FALSE, !.atn = FALSE]
    BY <1>12 DEF AbortFlush
  <2>2. chip' \in Chips
    BY <1>1, <2>1, ChipFields, EventTypes
  <2>3. bus' = NULL /\ tg' = IF bus = NULL THEN tg ELSE [tg EXCEPT ![bus] = Idle]
    BY <1>12 DEF AbortFlush
  <2> QED
    BY <1>1, <1>3, <1>7, <1>12, <2>2, <2>3, IdleType DEF AbortFlush
<1>13. CASE AbortFinish
  BY <1>1, <1>2, <1>3, <1>4, <1>7, <1>13, HostUpdates DEF AbortFinish, targetVars
<1>14. CASE AbortDisconnected
  BY <1>1, <1>3, <1>6, <1>14 DEF AbortDisconnected, busVars
<1>15. CASE AbortUnknown
  BY <1>1, <1>3, <1>7, <1>15 DEF AbortUnknown, busVars
<1>16. CASE AbortChecks
  BY <1>1, <1>3, <1>6, <1>7, <1>16 DEF AbortChecks, busVars
<1>17. CASE AbortStarts
  <2>1. PointersOk'
    BY <1>1, <1>17, StartTypes DEF AbortStarts, PointersOk
  <2> QED
    BY <1>1, <1>6, <1>7, <1>17, <2>1, StartTypes DEF AbortStarts, targetVars
<1> QED
  BY <1>10, <1>11, <1>12, <1>13, <1>14, <1>15, <1>16, <1>17 DEF AbortSteps

(* Every step of the driver, the mid-layer, the chip and the targets keeps *)
(* the types, given what the chip, the books and the DMA keep.             *)
LEMMA TypesKept ==
  ASSUME Types, SelectInv, DmaInv, AbortInv, [Next]_vars
  PROVE  Types'
<1>1. /\ hd \in Hosts /\ chip \in Chips /\ PointersOk /\ engine \in Dmas /\ eh \in AbortStates
      /\ req \in [Cmds -> Requests] /\ sr \in Events /\ setup \in Setups
      /\ bus \in Nexus \cup {NULL} /\ tg \in [Nexus -> Units]
      /\ hd.connected \in Cmds \cup {NULL} /\ hd.input_Q \in Seq(Cmds)
      /\ pc \in {"idle", "execute", "handle", "pio", "sent", "status", "message"}
  BY HostFieldTypes, ChipTypes DEF Types, HostTypes, BusTypes
<1>2. UNCHANGED setup
  BY DEF Next, vars
<1>3. UNCHANGED scp => PointersOk'
  BY <1>1 DEF PointersOk
<1>4. EngineOff \in Dmas /\ NotAborting \in AbortStates
  BY DEF EngineOff, Dmas, NotAborting, AbortStates
<1>5. \A x \in Cmds : scp[x] \in Pointers /\ scp[x].more <= Attr[x].nbufs
  BY <1>1 DEF PointersOk
<1>6. ASSUME UNCHANGED vars
      PROVE  Types'
  <2>1. UNCHANGED <<hd, chip, scp, engine, eh, req, sr, bus, tg, pc>>
    BY <1>6 DEF vars, driverVars, busVars
  <2> QED
    BY <1>1, <1>2, <1>3, <2>1, TypesStep, Zenon
<1>7. ASSUME NEW c \in Cmds, Queue(c)
      PROVE  Types'
  <2>1. /\ UNCHANGED <<engine, sr, eh, chip, bus, tg>> /\ pc' = "execute"
        /\ hd' = [hd EXCEPT !.input_Q = IF Attr[c].sense THEN <<c>> \o @ ELSE Append(@, c)]
        /\ req' = [req EXCEPT ![c] = [st |-> "queued", res |-> NoResult]]
        /\ scp' = [scp EXCEPT ![c] = FreshSCp(c)]
    BY <1>7 DEF Queue, QueueCommand
  <2>2. hd' \in Hosts
    BY <1>1, <2>1, QueueTypes, HostFields
  <2>3. PointersOk'
    BY <1>1, <2>1, PointerUpdates, PointersStep
  <2>4. req' \in [Cmds -> Requests]
    <3>1. NoResult \in Results
      BY FinishedTypes
    <3>2. [st |-> "queued", res |-> NoResult] \in Requests
      BY <3>1 DEF Requests
    <3> QED
      BY <1>1, <2>1, <3>2
  <2> QED
    BY <1>1, <1>2, <2>1, <2>2, <2>3, <2>4, TypesStep
<1>8. ASSUME NEW c \in Cmds, TimesOut(c)
      PROVE  Types'
  <2>1. UNCHANGED <<hd, scp, engine, pc, sr, eh, chip, bus, tg>>
    BY <1>8 DEF TimesOut, busVars
  <2>2. req' \in [Cmds -> Requests]
    <3>1. req[c] \in Requests
      BY <1>1
    <3>2. [req[c] EXCEPT !.st = "aborting"] \in Requests
      BY <3>1 DEF Requests
    <3>3. req' = [req EXCEPT ![c] = [req[c] EXCEPT !.st = "aborting"]]
      BY <1>1, <1>8 DEF TimesOut
    <3> QED
      BY <1>1, <3>2, <3>3
  <2> QED
    BY <1>1, <1>2, <1>3, <2>1, <2>2, TypesStep
<1>9. ASSUME NEW c \in Cmds, Abort(c)
      PROVE  Types'
  <2>1. UNCHANGED <<hd, scp, engine, pc, sr, req, chip, bus, tg>>
    BY <1>9 DEF Abort, busVars
  <2>2. eh' \in AbortStates
    BY <1>9 DEF Abort, AbortStates
  <2> QED
    BY <1>1, <1>2, <1>3, <2>1, <2>2, TypesStep
<1>10. CASE Execute
  <2>1. UNCHANGED <<sr, req, eh, bus, tg>> /\ pc' = "idle"
    BY <1>10 DEF Execute, targetVars
  <2>2. CASE CannotStart
    BY <1>1, <1>2, <1>3, <1>10, <2>1, <2>2, TypesStep DEF Execute
  <2>3. CASE ~CannotStart
    <3>1. Start /\ Runnable # 0
      BY <1>10, <2>3 DEF Execute, CannotStart
    <3>2. PointersOk'
      BY <1>1, <3>1, StartTypes DEF PointersOk
    <3> QED
      BY <1>1, <1>2, <2>1, <3>1, <3>2, StartTypes, TypesStep
  <2> QED
    BY <2>2, <2>3
<1>11. CASE Interrupt
  <2>1. UNCHANGED <<req, eh, bus, tg>> /\ pc' = "handle"
    BY <1>11 DEF Interrupt, targetVars
  <2>2. chip' \in Chips
    BY <1>1, <1>11, ChipFields, EventTypes DEF Interrupt
  <2>3. sr' \in Events
    BY <1>1, <1>11, ChipTypes DEF Interrupt, Events
  <2>4. CASE hd.dma = "D_DMA_RUNNING"
    <3> DEFINE c == hd.connected
    <3>1. c \in Cmds /\ chip.count <= scp[c].left
      BY <1>1, <2>4 DEF DmaInv
    <3>2. hd' = DmaStop(hd, TRUE) /\ engine' = EngineOff /\ scp' = [scp EXCEPT ![c] = Moved(c)]
      BY <1>11, <2>4 DEF Interrupt
    <3>3. Moved(c) \in Pointers /\ Moved(c).more <= Attr[c].nbufs
      BY <1>5, <3>1, PointerUpdates
    <3>4. PointersOk'
      BY <1>1, <3>1, <3>2, <3>3, PointersStep
    <3> QED
      BY <1>1, <1>2, <1>4, <2>1, <2>2, <2>3, <3>2, <3>4, HostUpdates, TypesStep
  <2>5. CASE hd.dma # "D_DMA_RUNNING"
    BY <1>1, <1>2, <1>3, <1>11, <2>1, <2>2, <2>3, <2>5, TypesStep DEF Interrupt
  <2> QED
    BY <2>4, <2>5
<1>12. CASE HostReset
  <2>1. /\ UNCHANGED <<scp, pc, sr, eh>> /\ hd' = Forgotten(hd) /\ engine' = EngineOff
        /\ chip' = ChipReset /\ bus' = NULL
        /\ tg' = IF bus = NULL THEN tg ELSE [tg EXCEPT ![bus] = Idle]
    BY <1>12 DEF HostReset
  <2>2. req' \in [Cmds -> Requests]
    <3>1. [st |-> "done", res |-> Result("DID_RESET", GOOD)] \in Requests
      BY FinishedTypes DEF Requests
    <3> QED
      BY <1>1, <1>12, <3>1 DEF HostReset
  <2>3. ChipReset \in Chips
    BY EventTypes DEF ChipReset, Chips
  <2>4. hd' \in Hosts
    <3> DEFINE f == [i \in Ids |-> "async"]
               g == [i \in Ids |-> "SS_UNSET"]
    <3>1. f \in [Ids -> {"async", "sync"}]
          /\ g \in [Ids -> {"SS_UNSET", "SS_FIRST", "SS_WAITING", "SS_SET"}]
      OBVIOUS
    <3>2. {} \in SUBSET Nexus /\ <<>> \in Seq(Cmds) /\ <<>> \in Seq(Nat) /\ <<>> \in Seq(OutMessages)
      OBVIOUS
    <3> HIDE DEF f, g
    <3>3. [hd EXCEPT !.input_Q = <<>>, !.selecting = NULL, !.connected = NULL, !.busy = {},
             !.disconnected_Q = <<>>, !.state = "S_UNCONNECTED", !.dma = "D_DMA_OFF",
             !.incoming_msg = <<>>, !.outgoing_msg = <<>>, !.sync_xfer = f,
             !.sync_stat = g] \in Hosts
      BY <1>1, <3>1, <3>2 DEF Hosts
    <3> QED
      BY <2>1, <3>3 DEF Forgotten, f, g
  <2>5. tg' \in [Nexus -> Units]
    BY <1>1, <2>1, IdleType
  <2> QED
    BY <1>1, <1>2, <1>3, <1>4, <2>1, <2>2, <2>3, <2>4, <2>5, TypesStep
<1>13. CASE WriteInfo
  <2>1. UNCHANGED <<scp, engine, pc, sr, req, eh, chip, bus, tg>>
    BY <1>13 DEF WriteInfo, busVars
  <2>2. ASSUME NEW h \in Hosts, NEW i \in Ids
        PROVE  Resync(h, {i}) \in Hosts
    <3>1. [j \in Ids |-> IF j \in {i} THEN "SS_UNSET" ELSE h.sync_stat[j]]
             \in [Ids -> {"SS_UNSET", "SS_FIRST", "SS_WAITING", "SS_SET"}]
      BY HostFieldTypes
    <3> QED
      BY <3>1, HostFields DEF Resync
  <2>3. Ids \subseteq 0..6
    BY AttrTypes DEF Ids
  <2>4. \/ hd' \in {[hd EXCEPT !.disconnect = DIS_NEVER], [hd EXCEPT !.disconnect = DIS_ALWAYS],
                    [hd EXCEPT !.no_dma = ~@]}
        \/ \E i \in Ids : hd' = Resync(hd, {i})
        \/ \E i \in Ids : hd' = Resync([hd EXCEPT !.no_sync = (@ \ {i}) \cup ({i} \ @)], {i})
    BY <1>13 DEF WriteInfo
  <2>5. ASSUME NEW i \in Ids
        PROVE  [hd EXCEPT !.no_sync = (@ \ {i}) \cup ({i} \ @)] \in Hosts
    <3>1. (hd.no_sync \ {i}) \cup ({i} \ hd.no_sync) \in SUBSET (0..6)
      BY <1>1, <2>3, HostFieldTypes
    <3> QED
      BY <1>1, <3>1, HostFields
  <2>6. [hd EXCEPT !.no_dma = ~@] \in Hosts
    BY <1>1, HostFields, HostFieldTypes
  <2>7. \A d \in {DIS_NEVER, DIS_ALWAYS} : [hd EXCEPT !.disconnect = d] \in Hosts
    <3>1. {DIS_NEVER, DIS_ALWAYS} \subseteq 0..2
      BY DEF DIS_NEVER, DIS_ALWAYS
    <3> QED
      BY <1>1, <3>1, HostFields
  <2>8. hd' \in Hosts
    BY <1>1, <2>2, <2>4, <2>5, <2>6, <2>7
  <2> QED
    BY <1>1, <1>2, <1>3, <2>1, <2>8, TypesStep
<1>14. CASE BusSteps
  <2>1. UNCHANGED <<hd, scp, engine, pc, sr, eh, req>>
    BY <1>14 DEF BusSteps, driverVars
  <2>2. BusTypes'
    BY <1>14, BusTypesKept DEF Types
  <2> QED
    BY <1>1, <1>2, <1>3, <2>1, <2>2, TypesStep DEF BusTypes
<1>15. CASE DataSteps
  <2>1. PICK k \in 1..chip.count : DmaMoves(k) \/ PioMoves(k)
    BY <1>15 DEF DataSteps
  <2>2. UNCHANGED <<hd, scp, pc, sr, eh, req>> /\ MoveData(k)
    BY <2>1 DEF DmaMoves, PioMoves, driverVars
  <2>3. BusTypes'
    BY <2>2, DataTypes DEF Types
  <2>4. engine' \in Dmas
    <3>1. engine' = engine \/ engine' = [engine EXCEPT !.at = @ + k]
      BY <2>1 DEF DmaMoves, PioMoves, driverVars
    <3>2. k \in Nat /\ engine.at \in Nat
      BY <1>1 DEF Dmas
    <3>3. engine.at + k \in Nat
      BY <3>2
    <3> QED
      BY <1>1, <3>1, <3>3 DEF Dmas
  <2> QED
    BY <1>1, <1>2, <1>3, <2>2, <2>3, <2>4, TypesStep DEF BusTypes
<1> QED
  BY <1>2, <1>6, <1>7, <1>8, <1>9, <1>10, <1>11, <1>12, <1>13, <1>14, <1>15,
     HandleTypes, PollTypes, AbortTypes DEF Next
===============================================================================
