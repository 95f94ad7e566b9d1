------------------------------ MODULE HostTheorems -----------------------------
(***************************************************************************)
(* What the driver does for every set of commands, every machine and every *)
(* setting.  The invariant Base of HostProofs holds of every behaviour in  *)
(* which the driver knows the commands that come back to it (Known), and   *)
(* so of every behaviour of a machine whose targets stay (Staying) or on   *)
(* which no command times out (Calm); the properties that the runs check   *)
(* of the driver follow from it.                                           *)
(***************************************************************************)
EXTENDS HostTargets

-------------------------------------------------------------------------------
(* 1.  The start.                                                          *)

(* Nothing is queued, connected, selected or moving when the driver has    *)
(* been initialised.                                                       *)
LEMMA InitTypes ==
  ASSUME Init
  PROVE  Types
<1>1. setup \in Setups /\ DriverAssumption /\ BusAssumption
  BY DriverAssumption, BusAssumption DEF Init, BusInit
<1>2. chip \in Chips
  BY DEF Init, BusInit, ChipReset, Chips, Ints
<1>3. tg \in [Nexus -> Units] /\ bus \in Nexus \cup {NULL}
  BY IdleType DEF Init, BusInit
<1>4. hd \in Hosts
  <2> DEFINE x == [i \in Ids |-> "async"]
             s == [i \in Ids |-> IF setup.settled THEN "SS_SET" ELSE "SS_UNSET"]
  <2>1. /\ x \in [Ids -> {"async", "sync"}]
        /\ s \in [Ids -> {"SS_UNSET", "SS_FIRST", "SS_WAITING", "SS_SET"}]
    OBVIOUS
  <2>2. hd = [input_Q |-> <<>>, selecting |-> NULL, connected |-> NULL, disconnected_Q |-> <<>>,
              busy |-> {}, state |-> "S_UNCONNECTED", dma |-> "D_DMA_OFF",
              level2 |-> setup.level2, disconnect |-> setup.disconnect, no_dma |-> FALSE,
              no_sync |-> setup.no_sync,
              incoming_msg |-> <<>>, outgoing_msg |-> <<>>, bounce |-> FALSE,
              sync_xfer |-> x, sync_stat |-> s]
    BY DEF Init, DriverInit, HostInit
  <2>3. setup.disconnect \in 0..2 /\ setup.no_sync \subseteq 0..6
    BY <1>1 DEF DriverAssumption
  <2> HIDE DEF x, s
  <2> QED
    BY <2>1, <2>2, <2>3 DEF Hosts
<1>5. PointersOk
  <2>1. \A c \in Cmds : FreshSCp(c) \in Pointers /\ FreshSCp(c).more <= Attr[c].nbufs
    BY FreshTypes
  <2> QED
    BY <2>1 DEF Init, DriverInit, PointersOk
<1>6. engine \in Dmas /\ sr \in Events /\ eh \in AbortStates /\ pc = "idle"
  BY DEF Init, DriverInit, EngineOff, NotAborting, Dmas, Events, AbortStates, Ints
<1>7. req \in [Cmds -> Requests]
  <2>1. NoResult \in Results
    BY FinishedTypes
  <2> QED
    BY <2>1 DEF Init, DriverInit, Requests
<1> QED
  BY <1>1, <1>2, <1>3, <1>4, <1>5, <1>6, <1>7 DEF Types, BusTypes, HostTypes

(* wd33c93_init leaves empty queues, a chip at rest and no DMA.            *)
LEMMA InitBase ==
  ASSUME Init
  PROVE  Base
<1>1. Types
  BY InitTypes
<1>2. /\ hd.input_Q = <<>> /\ hd.disconnected_Q = <<>> /\ hd.busy = {} /\ hd.selecting = NULL
      /\ hd.connected = NULL /\ hd.dma = "D_DMA_OFF" /\ hd.outgoing_msg = <<>>
      /\ pc = "idle" /\ eh.at = "none" /\ eh.ok = FALSE /\ engine.cmd = NULL
      /\ chip.cmd = "none" /\ chip.int = "none" /\ chip.atn = FALSE /\ chip.ack = FALSE
  BY DEF Init, BusInit, DriverInit, HostInit, NotAborting, EngineOff, ChipReset
<1>3. Books
  <2>1. Queued = {} /\ Away = {} /\ Started = {} /\ Held = {}
    BY <1>2 DEF Queued, Away, Started, Held, ToSet
  <2>2. \A x \in Cmds : req[x].st = "free"
    BY DEF Init, DriverInit
  <2>3. OneCommandPerUnit /\ WaitedFor
    BY <1>2, <2>1, <2>2 DEF OneCommandPerUnit, WaitedFor
  <2>4. Distinct(hd.input_Q) /\ Distinct(hd.disconnected_Q)
    BY <1>2 DEF Distinct
  <2> QED
    BY <1>2, <2>1, <2>3, <2>4 DEF Books
<1>4. AbortInv /\ ChipInv /\ DmaInv
  BY <1>2 DEF AbortInv, ChipInv, DmaInv, InDriver, Phases
<1>5. SelectInv
  BY <1>2 DEF SelectInv, Selects, SelectsToTransfer, SelectTold, TimeoutTold, IdentifyDue,
     IdentifySent, Pending, Identifies
<1> QED
  BY <1>1, <1>3, <1>4, <1>5 DEF Base

(* The invariants of the targets that stay.                                *)
LEMMA StaysHolds == Spec /\ Staying => [](Base /\ StayInv)
<1>1. Init /\ Staying => Base /\ StayInv
  BY InitBase, StayInit
<1>2. Base /\ StayInv /\ Staying /\ [Next]_vars => (Base /\ StayInv)'
  BY BaseKept, StayKept, StayKnown
<1>3. Staying /\ [Next]_vars => Staying'
  BY DEF Staying, Next, vars
<1> QED
  BY <1>1, <1>2, <1>3, PTL DEF Spec

(* And what wd33c93_abort leaves of a command on such a machine.           *)
LEMMA OverHolds == Spec /\ Staying => [](Base /\ OverInv)
<1>1. Init => OverInv
  BY OverInit
<1>2. Base /\ StayInv /\ OverInv /\ [Next]_vars => OverInv'
  BY OverKept
<1> QED
  BY <1>1, <1>2, StaysHolds, PTL DEF Spec

(* Those of the commands that do not time out.                             *)
LEMMA CalmHolds == Spec /\ Calm => [](Base /\ CalmInv)
<1>1. Init => Base /\ CalmInv
  BY InitBase, CalmInit
<1>2. Base /\ CalmInv /\ Calm /\ [Next]_vars => (Base /\ CalmInv)'
  BY BaseKept, CalmKept, CalmKnown
<1>3. Calm /\ [Next]_vars => Calm'
  BY DEF Calm, Next, vars
<1> QED
  BY <1>1, <1>2, <1>3, PTL DEF Spec

(* No target comes back that the driver does not know, or before it has    *)
(* put the command it was connecting aside: with disconnect:0, whatever    *)
(* else the settings are and whatever is aborted or reset, for no unit     *)
(* leaves the bus with a command; with level2:1 or more on a machine on    *)
(* which no command times out, for the driver and the units that are away  *)
(* agree on their commands, whatever the targets do.                       *)
THEOREM KnownHolds == Spec /\ (Staying \/ Calm) => []Known
<1>1. Base /\ StayInv => Known
  BY StayKnown
<1>2. Base /\ CalmInv => Known
  BY CalmKnown
<1> QED
  BY <1>1, <1>2, StaysHolds, CalmHolds, PTL

(* The behaviours in which the driver can know what comes back to it.      *)
Understood == Staying \/ Calm \/ []Known

(* The invariant holds of every one of them.                               *)
THEOREM BaseHolds == Spec /\ Understood => []Base
<1>1. Init => Base
  BY InitBase
<1>2. Base /\ Known /\ [Next]_vars => Base'
  BY BaseKept
<1>3. Spec /\ Understood => []Known
  BY KnownHolds, PTL DEF Understood
<1> QED
  BY <1>1, <1>2, <1>3, PTL DEF Spec

-------------------------------------------------------------------------------
(* 2.  What follows from it.                                               *)

(* A command has one place in a queue it is in, and none in another.       *)
LEMMA Counts ==
  ASSUME NEW q \in Seq(Cmds), Distinct(q), NEW x
  PROVE  Count(q, x) = IF x \in ToSet(q) THEN 1 ELSE 0
<1> DEFINE P == {i \in DOMAIN q : q[i] = x}
<1>1. CASE x \in ToSet(q)
  <2>1. PICK i \in DOMAIN q : q[i] = x
    BY <1>1 DEF ToSet
  <2>2. P = {i}
    BY <2>1 DEF Distinct
  <2>3. Cardinality({i}) = 1
    BY FS_Singleton
  <2> QED
    BY <1>1, <2>2, <2>3 DEF Count
<1>2. CASE x \notin ToSet(q)
  <2>1. P = {}
    BY <1>2 DEF ToSet
  <2>2. Cardinality({}) = 0
    BY FS_EmptySet
  <2> QED
    BY <1>2, <2>1, <2>2 DEF Count
<1> QED
  BY <1>1, <1>2

(* The mid-layer waits for a command, and it is in one place; it does not, *)
(* and it is in none.                                                      *)
LEMMA BooksSay ==
  ASSUME Base
  PROVE  NoCommandLost /\ OneCommandPerUnit
<1>1. /\ Books /\ hd.input_Q \in Seq(Cmds) /\ hd.disconnected_Q \in Seq(Cmds)
  BY HostFieldTypes DEF Base, Types, HostTypes
<1>2. ASSUME NEW x \in Cmds
      PROVE  /\ Count(hd.input_Q, x) = IF x \in Queued THEN 1 ELSE 0
             /\ Count(hd.disconnected_Q, x) = IF x \in Away THEN 1 ELSE 0
  BY <1>1, Counts DEF Books, Queued, Away
<1>3. ASSUME NEW x \in Cmds
      PROVE  /\ x \in Held => Places(x) = 1
             /\ x \notin Held => Places(x) = 0
  <2> DEFINE q == Count(hd.input_Q, x)
             d == Count(hd.disconnected_Q, x)
             s == IF hd.selecting = x THEN 1 ELSE 0
             c == IF hd.connected = x THEN 1 ELSE 0
  <2>1. /\ q = (IF x \in Queued THEN 1 ELSE 0) /\ d = (IF x \in Away THEN 1 ELSE 0)
        /\ Places(x) = q + d + s + c /\ x # NULL
    BY <1>2, AttrTypes DEF Places
  <2>2. /\ x \in Held <=> x \in Queued \/ x \in Away \/ hd.selecting = x \/ hd.connected = x
        /\ ~(x \in Queued /\ x \in Away)
        /\ x \in Queued \cup Away => hd.selecting # x /\ hd.connected # x
        /\ ~(hd.selecting = x /\ hd.connected = x)
    BY <1>1, <2>1 DEF Books, Held, Started
  <2> HIDE DEF q, d
  <2> QED
    BY <2>1, <2>2
<1>4. NoCommandLost
  <2>1. WaitedFor
    BY <1>1 DEF Books
  <2>2. ASSUME NEW x \in Cmds
        PROVE  /\ req[x].st = "queued" => Places(x) = 1
               /\ req[x].st \in {"free", "done"} => Places(x) = 0
    <3>1. /\ req[x].st = "queued" => x \in Held
          /\ req[x].st \in {"free", "done"} => x \notin Held
      BY <2>1 DEF WaitedFor
    <3> QED
      BY <1>3, <3>1
  <2> QED
    BY <2>2 DEF NoCommandLost
<1> QED
  BY <1>1, <1>4 DEF Books

(* No path of the interrupt handler or of an abort loses a command, or     *)
(* keeps one the mid-layer has been given back.                            *)
THEOREM NoCommandLostHolds == Spec /\ Understood => []NoCommandLost
<1>1. Base => NoCommandLost
  BY BooksSay
<1> QED
  BY <1>1, BaseHolds, PTL

(* busy[] marks the units of the commands started, one each.               *)
THEOREM OneCommandPerUnitHolds == Spec /\ Understood => []OneCommandPerUnit
<1>1. Base => OneCommandPerUnit
  BY BooksSay
<1> QED
  BY <1>1, BaseHolds, PTL

(* The A3000's DMA runs for no command the mid-layer has been given back,  *)
(* whether it ended, was aborted or was reset.                             *)
THEOREM NoDmaAfterReturnHolds == Spec /\ Understood => []NoDmaAfterReturn
<1>1. Base => NoDmaAfterReturn
  <2> SUFFICES ASSUME Base, engine.cmd # NULL
               PROVE  req[engine.cmd].st \notin {"free", "done"}
    BY DEF NoDmaAfterReturn
  <2>1. engine.cmd = hd.connected /\ engine.cmd \in Cmds
    BY DEF Base, DmaInv, Types, HostTypes, Dmas
  <2>2. engine.cmd \in Held
    BY <2>1 DEF Held, Started
  <2> QED
    BY <2>1, <2>2 DEF Base, Books, WaitedFor
<1> QED
  BY <1>1, BaseHolds, PTL

(* The driver waits for the reselection of no command it has returned.     *)
THEOREM AwayIsOwnedHolds == Spec /\ Understood => []AwayIsOwned
<1>1. Base => AwayIsOwned
  <2> SUFFICES ASSUME Base, NEW x \in Away
               PROVE  req[x].st \notin {"free", "done"}
    BY DEF AwayIsOwned
  <2>1. x \in Cmds /\ x \in Held
    BY OfCommands DEF Base, Held, Started
  <2> QED
    BY <2>1 DEF Base, Books, WaitedFor
<1> QED
  BY <1>1, BaseHolds, PTL

(* A command in input_Q has not reached its target, one in disconnected_Q  *)
(* is held by a unit that is away or back, and the unit on the bus has the *)
(* connected one: through every mixture of selections that are lost,       *)
(* disconnections, drops and reselections.                                 *)
THEOREM TargetsAgreeHolds == Spec /\ Calm => []TargetsAgree
<1>1. Base /\ CalmInv => TargetsAgree
  BY CalmAgrees
<1> QED
  BY <1>1, CalmHolds, PTL

(* When a target leaves the bus, wd33c93_intr knows whether its command is *)
(* over or disconnected; one that comes back finds its command in          *)
(* disconnected_Q, and no other under way.                                 *)
THEOREM ConnectionsUnderstoodHolds == Spec /\ Calm => []ConnectionsUnderstood
<1>1. Base /\ CalmInv => ConnectionsUnderstood
  BY CalmUnderstands
<1> QED
  BY <1>1, CalmHolds, PTL

(* When wd33c93_abort tells the mid-layer a command is aborted, its target *)
(* has it no more: where none is away, DISCONNECT has freed the bus, and   *)
(* the start of the next command waits for the abort to return.            *)
THEOREM AbortedIsOverHolds == Spec /\ Staying => []AbortedIsOver
<1>1. Base /\ OverInv => AbortedIsOver
  BY OverSays
<1> QED
  BY <1>1, OverHolds, PTL

-------------------------------------------------------------------------------
(* 3.  One connection.  A reselection that beats a selection of another    *)
(* kind than the one PutBackLoser looks for leaves two commands started.   *)
(* It finds none where no target leaves the bus, where there are only      *)
(* selections (level2:1), and where there are only level-2 commands, every *)
(* target having negotiated and none being asked to do so again.           *)

Negotiated ==
  /\ setup.settled /\ setup.level2 # L2_NONE /\ setup.timeouts = {}
  /\ setup.settings \cap {"resync", "nosync"} = {}
OneKind == Staying \/ setup.level2 = L2_NONE \/ Negotiated

OneAtATime == hd.selecting = NULL \/ hd.connected = NULL

(* Nothing is selected without its CDB, and nothing fails, where every     *)
(* target has negotiated.                                                  *)
NeverSelects ==
  /\ hd.selecting = NULL /\ \A i \in Ids : hd.sync_stat[i] = "SS_SET"
  /\ \A x \in Cmds : req[x].st \notin {"aborting", "failed"}

(* A start, of either kind, is of one command, with none under way.        *)
LEMMA OneStarted ==
  ASSUME Types, Start, ~CannotStart
  PROVE  OneAtATime'
BY StartEffect DEF OneAtATime

(* With the commands of setup only level-2 commands are started, and the   *)
(* negotiations stay as they are.                                          *)
LEMMA NoneSelected ==
  ASSUME Types, Negotiated, NeverSelects, Start, ~CannotStart
  PROVE  hd'.selecting = NULL /\ hd'.sync_stat = hd.sync_stat
<1> DEFINE c    == hd.input_Q[Runnable]
           rest == RemoveAt(hd.input_Q, Runnable)
           er   == AllowDisconnect(c, rest)
           h    == [hd EXCEPT !.input_Q = rest, !.busy = @ \cup {NexusOf(c)}]
           ch   == [chip EXCEPT !.id = Attr[c].id, !.lun = Attr[c].lun, !.dpd = Attr[c].in,
                                !.er = er, !.sync = hd.sync_xfer[Attr[c].id]]
           ready == [h EXCEPT !.connected = c, !.state = "S_RUNNING_LEVEL2"]
<1>1. IsHost(hd) /\ hd.level2 # L2_NONE /\ hd.selecting = NULL
  BY RecordDomains, HostFieldTypes DEF Types, HostTypes, Negotiated, NeverSelects
<1>2. c \in Cmds
  <2>1. CASE hd.connected # NULL
    BY <2>1 DEF CannotStart
  <2>2. CASE hd.connected = NULL
    BY <1>1, <2>2, Found, HostFieldTypes DEF CannotStart, Runnable, Types, HostTypes
  <2> QED
    BY <2>1, <2>2
<1>3. ~SelectsOnly(c)
  <2>1. Attr[c].id \in Ids
    BY <1>2 DEF Ids
  <2> QED
    BY <1>1, <2>1 DEF SelectsOnly, NeverSelects
<1>4. StartLevel2(c, h, ch)
  BY <1>3 DEF Start, StartSelect
<1>5. hd' = ready \/ \E via : hd' = DmaSetup(ready, via)
  BY <1>4 DEF StartLevel2
<1>6. IsHost(ready) /\ ready.selecting = NULL /\ ready.sync_stat = hd.sync_stat
  BY <1>1 DEF IsHost
<1> HIDE DEF ready
<1> QED
  BY <1>5, <1>6 DEF DmaSetup, IsHost

(* Only a reselection can leave a command selecting beside a connected     *)
(* one.                                                                    *)
LEMMA HandleOne ==
  ASSUME Base, OneAtATime, HandleInterrupt,
         ~Pending("RESEL_AM") \/ setup.level2 = L2_NONE
  PROVE  OneAtATime'
<1>1. IsHost(hd) /\ hd.level2 = setup.level2
  BY RecordDomains, HostFieldTypes DEF Base, Types, HostTypes
<1>2. CASE OnTimeout \/ OnSelect \/ OnSelXferDone \/ OnUnexpDisc \/ AlreadyDisconnected
  BY <1>1, <1>2 DEF OnTimeout, OnSelect, OnSelXferDone, OnUnexpDisc, AlreadyDisconnected,
     Unconnected, OneAtATime, IsHost
<1>3. CASE OnCommand \/ OnMessageOut \/ OnSdp \/ OnStatus \/ OnMessageIn
  BY <1>1, <1>3 DEF OnCommand, OnMessageOut, OnSdp, OnStatus, OnMessageIn, OneAtATime, IsHost
<1>4. CASE OnData
  <2>1. \E h : /\ \/ h = hd \/ (\E via : h = DmaSetup(hd, via))
                  \/ \E b : h = [hd EXCEPT !.bounce = b]
               /\ hd' = Connected(h) \/ hd' = [h EXCEPT !.state = "S_RUNNING_LEVEL2"]
    BY <1>4 DEF OnData, TransferNothing, TransferByDma, TransferByPio
  <2>2. PICK h : /\ \/ h = hd \/ (\E via : h = DmaSetup(hd, via))
                    \/ \E b : h = [hd EXCEPT !.bounce = b]
                 /\ hd' = Connected(h) \/ hd' = [h EXCEPT !.state = "S_RUNNING_LEVEL2"]
    BY <2>1
  <2>3. IsHost(h) /\ h.selecting = hd.selecting /\ h.connected = hd.connected
    BY <1>1, <2>2 DEF DmaSetup, IsHost
  <2>4. \E st : hd' = [h EXCEPT !.state = st]
    BY <2>2 DEF Connected
  <2> QED
    BY <2>3, <2>4 DEF OneAtATime, IsHost
<1>5. CASE OnDisc
  <2>1. \/ hd' = Unconnected(hd, hd.connected) \/ hd' = Disconnected(hd, hd.connected)
        \/ hd' = [hd EXCEPT !.state = "S_UNCONNECTED"]
    BY <1>5 DEF OnDisc
  <2> QED
    BY <1>1, <2>1 DEF Unconnected, Disconnected, OneAtATime, IsHost
<1>6. CASE OnReselect \/ OnStrayReselect
  <2>1. hd.level2 <= L2_NONE
    BY <1>1, <1>6 DEF OnReselect, OnStrayReselect, Case, Pending, L2_NONE
  <2>2. IsHost(PutBackLoser(hd)) /\ PutBackLoser(hd).selecting = NULL
    BY <1>1, <2>1 DEF PutBackLoser, Requeued, IsHost
  <2>3. hd'.selecting = NULL
    <3> DEFINE p == PutBackLoser(hd)
    <3>1. hd' = p \/ \E c, q, st : hd' = [p EXCEPT !.connected = c, !.disconnected_Q = q, !.state = st]
      <4>1. CASE OnStrayReselect
        BY <4>1 DEF OnStrayReselect
      <4>2. CASE OnReselect
        <5> DEFINE c == hd.disconnected_Q[Reconnecting]
                   q == RemoveAt(p.disconnected_Q, Reconnecting)
                   h == [p EXCEPT !.connected = c, !.disconnected_Q = q]
        <5>1. IsHost(h)
          BY <2>2 DEF IsHost
        <5>2. \E st : hd' = [h EXCEPT !.state = st]
          BY <4>2 DEF OnReselect
        <5> HIDE DEF p, c, q
        <5> QED
          BY <5>2
      <4> QED
        BY <1>6, <4>1, <4>2
    <3> HIDE DEF p
    <3> QED
      BY <2>2, <3>1 DEF IsHost, p
  <2> QED
    BY <2>3 DEF OneAtATime
<1> QED
  BY <1>2, <1>3, <1>4, <1>5, <1>6 DEF HandleInterrupt

(* The same of every step.                                                 *)
LEMMA OneKept ==
  ASSUME Base, OneAtATime, [Next]_vars, ~Pending("RESEL_AM") \/ setup.level2 = L2_NONE
  PROVE  OneAtATime'
<1>1. /\ Types /\ IsHost(hd) /\ IsChip(chip)
  BY RecordDomains DEF Base, Types, HostTypes, BusTypes
<1>2. CASE hd'.selecting = hd.selecting /\ hd'.connected = hd.connected
  BY <1>2 DEF OneAtATime
<1>3. CASE Execute
  <2>1. CASE CannotStart
    BY <1>3, <2>1 DEF Execute, OneAtATime
  <2> QED
    BY <1>1, <1>3, <2>1, OneStarted DEF Execute
<1>4. CASE HostReset
  BY <1>1, <1>4 DEF HostReset, Forgotten, OneAtATime, IsHost
<1>5. CASE AbortSteps
  <2>1. CASE AbortStarts
    <3>1. hd.selecting = NULL /\ hd.connected = NULL
      BY <2>1 DEF AbortStarts, Aborting, Base, AbortInv
    <3> QED
      BY <1>1, <2>1, <3>1, OneStarted DEF AbortStarts, CannotStart
  <2>2. CASE AbortFinish
    BY <1>1, <2>2 DEF AbortFinish, Unconnected, OneAtATime, IsHost
  <2>3. CASE AbortConnected
    BY <1>1, <2>3 DEF AbortConnected, AbortStopsDma, DmaStop, OneAtATime, IsHost
  <2>4. CASE AbortQueued
    BY <1>1, <2>4 DEF AbortQueued, OneAtATime, IsHost
  <2>5. CASE UNCHANGED hd
    BY <2>5 DEF OneAtATime
  <2> QED
    BY <1>5, <2>1, <2>2, <2>3, <2>4, <2>5 DEF AbortSteps, AbortFlush, AbortDisconnected,
       AbortUnknown, AbortChecks
<1>6. CASE PollEnds
  BY <1>1, <1>2, <1>6, PollWrites DEF SameBut, IsHost
<1>7. CASE \E c \in Cmds : Queue(c) \/ TimesOut(c) \/ Abort(c)
  BY <1>1, <1>2, <1>7 DEF Queue, QueueCommand, TimesOut, Abort, IsHost
<1>8. CASE Interrupt
  BY <1>1, <1>2, <1>8 DEF Interrupt, DmaStop, IsHost
<1>9. CASE WriteInfo
  BY <1>1, <1>2, <1>9, WriteInfoLeaves
<1>10. CASE UNCHANGED vars \/ BusSteps \/ DataSteps
  BY <1>2, <1>10 DEF vars, driverVars, BusSteps, DataSteps, DmaMoves, PioMoves
<1> QED
  BY <1>3, <1>4, <1>5, <1>6, <1>7, <1>8, <1>9, <1>10, HandleOne DEF Next

(* What a message of the target changes of the negotiations, there.        *)
LEMMA PollNegotiated ==
  ASSUME IsHost(hd), Types, \A i \in Ids : hd.sync_stat[i] = "SS_SET", hd.connected # NULL,
         PollEnds
  PROVE  \A i \in Ids : hd'.sync_stat[i] = "SS_SET"
<1> DEFINE id == Attr[hd.connected].id
<1>1. id \in Ids /\ hd.sync_stat[id] = "SS_SET"
  BY HostFieldTypes DEF Types, HostTypes, Ids
<1>2. DOMAIN hd.sync_stat = Ids
  BY HostFieldTypes DEF Types, HostTypes
<1>3. CASE OnReject
  <2>1. \E m : hd' = [hd EXCEPT !.state = "S_CONNECTED", !.sync_stat[id] = "SS_SET",
                                !.sync_xfer[id] = m]
    BY <1>1, <1>3 DEF OnReject, MessageRead
  <2> QED
    BY <1>2, <2>1 DEF IsHost
<1>4. CASE OnSdtr
  <2> DEFINE Agree(h, m) == [h EXCEPT !.sync_xfer[id] = m, !.sync_stat[id] = "SS_SET",
                               !.incoming_msg = <<>>, !.state = "S_CONNECTED"]
             h2 == [hd EXCEPT !.outgoing_msg = <<Sdtr(0)>>]
  <2>1. (\E m : hd' = Agree(hd, m)) \/ hd' = Agree(h2, "async")
    BY <1>4, Zenon DEF OnSdtr, MessageRead
  <2>2. IsHost(h2) /\ h2.sync_stat = hd.sync_stat
    BY DEF IsHost
  <2>3. ASSUME NEW h, IsHost(h), h.sync_stat = hd.sync_stat, NEW m, hd' = Agree(h, m)
        PROVE  \A i \in Ids : hd'.sync_stat[i] = "SS_SET"
    BY <1>2, <2>3 DEF IsHost
  <2> HIDE DEF h2, Agree
  <2> QED
    BY <2>1, <2>2, <2>3
<1>5. CASE OnComplete \/ OnSave \/ OnDisconnect \/ OnRestore
  <2>1. \E st : hd' = [hd EXCEPT !.state = st]
    BY <1>5 DEF OnComplete, OnSave, OnDisconnect, OnRestore, MessageRead, Accept
  <2> QED
    BY <2>1 DEF IsHost
<1>6. CASE OnUnknown \/ OnWdtr \/ OnOtherExtended
  <2>1. \E m : hd' = [hd EXCEPT !.outgoing_msg = m, !.state = "S_CONNECTED",
                                !.incoming_msg = <<>>]
    BY <1>6 DEF OnUnknown, OnWdtr, OnOtherExtended, MessageRead, Answer
  <2> QED
    BY <2>1 DEF IsHost
<1>7. CASE OnExtendedByte
  BY <1>7 DEF OnExtendedByte, MessageRead, IsHost
<1>8. CASE PioDone \/ SentDone
  BY <1>8 DEF PioDone, SentDone
<1>9. CASE StatusRead
  <2>1. \E st : hd' = [hd EXCEPT !.state = st]
    BY <1>9 DEF StatusRead
  <2> QED
    BY <2>1 DEF IsHost
<1> QED
  BY <1>3, <1>4, <1>5, <1>6, <1>7, <1>8, <1>9 DEF PollEnds

(* What the handler changes of them, and of the command being selected.    *)
LEMMA HandleNegotiated ==
  ASSUME Base, NeverSelects, HandleInterrupt
  PROVE  hd'.selecting = NULL /\ hd'.sync_stat = hd.sync_stat
<1>1. IsHost(hd) /\ hd.selecting = NULL /\ hd.connected \in Cmds \cup {NULL}
  BY RecordDomains, HostFieldTypes DEF Base, Types, HostTypes, NeverSelects
<1>2. CASE OnTimeout \/ OnSelXferDone \/ OnUnexpDisc \/ AlreadyDisconnected
  BY <1>1, <1>2 DEF OnTimeout, OnSelXferDone, OnUnexpDisc, AlreadyDisconnected,
     Unconnected, IsHost
<1>3. CASE OnCommand \/ OnMessageOut \/ OnSdp \/ OnStatus \/ OnMessageIn
  BY <1>1, <1>3 DEF OnCommand, OnMessageOut, OnSdp, OnStatus, OnMessageIn, IsHost
<1>4. CASE OnData
  <2>1. PICK h : /\ \/ h = hd \/ (\E via : h = DmaSetup(hd, via))
                    \/ \E b : h = [hd EXCEPT !.bounce = b]
                 /\ hd' = Connected(h) \/ hd' = [h EXCEPT !.state = "S_RUNNING_LEVEL2"]
    BY <1>4 DEF OnData, TransferNothing, TransferByDma, TransferByPio
  <2>2. IsHost(h) /\ h.selecting = NULL /\ h.sync_stat = hd.sync_stat
    BY <1>1, <2>1 DEF DmaSetup, IsHost
  <2>3. \E st : hd' = [h EXCEPT !.state = st]
    BY <2>1 DEF Connected
  <2> QED
    BY <2>2, <2>3 DEF IsHost
<1>5. CASE OnDisc
  <2>1. \/ hd' = Unconnected(hd, hd.connected) \/ hd' = Disconnected(hd, hd.connected)
        \/ hd' = [hd EXCEPT !.state = "S_UNCONNECTED"]
    BY <1>5 DEF OnDisc
  <2> QED
    BY <1>1, <2>1 DEF Unconnected, Disconnected, IsHost
<1>6. CASE OnReselect \/ OnStrayReselect
  <2> DEFINE p == PutBackLoser(hd)
  <2>1. IsHost(p) /\ p.selecting = NULL /\ p.sync_stat = hd.sync_stat
    BY <1>1 DEF PutBackLoser, Requeued, IsHost
  <2>2. CASE OnStrayReselect
    BY <2>1, <2>2 DEF OnStrayReselect
  <2>3. CASE OnReselect
    <3> DEFINE c == hd.disconnected_Q[Reconnecting]
               q == RemoveAt(p.disconnected_Q, Reconnecting)
               h == [p EXCEPT !.connected = c, !.disconnected_Q = q]
    <3>1. IsHost(h) /\ h.selecting = NULL /\ h.sync_stat = hd.sync_stat
      BY <2>1 DEF IsHost
    <3>2. \E st : hd' = [h EXCEPT !.state = st]
      BY <2>3 DEF OnReselect
    <3> HIDE DEF h
    <3> QED
      BY <3>1, <3>2 DEF IsHost
  <2> QED
    BY <1>6, <2>2, <2>3
<1>7. ~OnSelect
  BY <1>1 DEF OnSelect, Case, Base, SelectInv, SelectTold, Pending
<1> QED
  BY <1>2, <1>3, <1>4, <1>5, <1>6, <1>7 DEF HandleInterrupt

(* A command that is only queued or done is neither aborted nor reset.     *)
LEMMA NegotiatedKept ==
  ASSUME Base, NeverSelects, Negotiated, [Next]_vars
  PROVE  NeverSelects'
<1>1. /\ Types /\ IsHost(hd) /\ IsChip(chip) /\ hd.selecting = NULL
      /\ eh.at = "none" /\ req \in [Cmds -> Requests]
  BY RecordDomains DEF Base, Types, HostTypes, BusTypes, AbortInv, NeverSelects
<1> DEFINE Same == hd'.selecting = NULL /\ \A i \in Ids : hd'.sync_stat[i] = "SS_SET"
           None == \A x \in Cmds : req'[x].st \notin {"aborting", "failed"}
<1>2. (hd'.selecting = NULL /\ hd'.sync_stat = hd.sync_stat) => Same
  BY DEF NeverSelects
<1>3. Same
  <2>1. CASE Execute
    <3>1. CASE CannotStart
      BY <1>1, <1>2, <2>1, <3>1 DEF Execute
    <3> QED
      BY <1>1, <1>2, <2>1, <3>1, NoneSelected DEF Execute
  <2>2. CASE HostReset
    BY <2>2 DEF HostReset, NeverSelects
  <2>3. CASE AbortSteps
    BY <1>1, <2>3 DEF AbortSteps, Aborting, AbortQueued, AbortConnected, AbortFlush,
       AbortFinish, AbortDisconnected, AbortUnknown, AbortChecks, AbortStarts
  <2>4. CASE PollEnds
    <3>1. hd'.selecting = NULL
      BY <1>1, <2>4, PollWrites DEF SameBut, IsHost
    <3>2. CASE SentDone
      BY <3>1, <3>2 DEF SentDone, NeverSelects
    <3>3. CASE ~SentDone
      <4>1. pc \in {"pio", "status", "message"}
        BY <2>4, <3>3, Zenon DEF PollEnds, PioDone, StatusRead, OnComplete, OnSave,
           OnDisconnect, OnRestore, OnReject, OnUnknown, OnExtendedByte, OnSdtr, OnWdtr,
           OnOtherExtended, MessageRead
      <4>2. hd.connected # NULL
        BY <4>1 DEF Base, DmaInv
      <4> QED
        BY <1>1, <2>4, <3>1, <4>2, PollNegotiated DEF NeverSelects
    <3> QED
      BY <3>2, <3>3
  <2>5. CASE \E c \in Cmds : Queue(c) \/ TimesOut(c) \/ Abort(c)
    BY <1>1, <1>2, <2>5 DEF Queue, QueueCommand, TimesOut, Abort, IsHost
  <2>6. CASE Interrupt
    BY <1>1, <1>2, <2>6 DEF Interrupt, DmaStop, IsHost
  <2>7. CASE WriteInfo
    <3>1. \/ \E d : hd' = [hd EXCEPT !.disconnect = d]
          \/ \E d : hd' = [hd EXCEPT !.no_dma = d]
      BY <2>7 DEF WriteInfo, Negotiated
    <3> QED
      BY <1>1, <1>2, <3>1 DEF IsHost
  <2>8. CASE UNCHANGED vars \/ BusSteps \/ DataSteps
    BY <1>1, <1>2, <2>8 DEF vars, driverVars, BusSteps, DataSteps, DmaMoves, PioMoves
  <2> QED
    BY <1>2, <2>1, <2>2, <2>3, <2>4, <2>5, <2>6, <2>7, <2>8, HandleNegotiated DEF Next
<1>4. None
  <2>1. CASE UNCHANGED req
    BY <2>1 DEF NeverSelects
  <2>2. ASSUME NEW c \in Cmds, Queue(c)
        PROVE  None
    BY <1>1, <2>2 DEF Queue, QueueCommand, NeverSelects
  <2>3. ASSUME NEW c \in Cmds, TimesOut(c) \/ Abort(c)
        PROVE  None
    BY <2>3 DEF TimesOut, Abort, NeverSelects, Negotiated
  <2>4. CASE HandleInterrupt
    <3>1. UNCHANGED req \/ \E c, r : ScsiDone(c, r)
      BY <2>4 DEF HandleInterrupt, OnTimeout, OnSelect, OnData, OnCommand,
         OnMessageOut, OnStatus, OnMessageIn, OnSelXferDone, OnUnexpDisc,
         AlreadyDisconnected, OnDisc, OnSdp, OnReselect, OnStrayReselect
    <3>2. \A x \in Cmds : req'[x].st \in {req[x].st, "done"}
      BY <1>1, <3>1 DEF ScsiDone
    <3> QED
      BY <3>2 DEF NeverSelects
  <2>5. CASE HostReset \/ AbortSteps
    BY <1>1, <2>5 DEF HostReset, AbortSteps, Aborting, AbortQueued, AbortConnected,
       AbortFlush, AbortFinish, AbortDisconnected, AbortUnknown, AbortChecks, AbortStarts,
       NeverSelects
  <2>6. PollEnds => UNCHANGED req
    BY Zenon DEF PollEnds, PioDone, SentDone, StatusRead, OnComplete, OnSave,
       OnDisconnect, OnRestore, OnReject, OnUnknown, OnExtendedByte, OnSdtr, OnWdtr,
       OnOtherExtended, MessageRead
  <2>7. Execute \/ Interrupt \/ WriteInfo \/ BusSteps \/ DataSteps \/ UNCHANGED vars
          => UNCHANGED req
    BY DEF Execute, Interrupt, WriteInfo, BusSteps, DataSteps, DmaMoves, PioMoves, vars,
       driverVars
  <2> QED
    BY <2>1, <2>2, <2>3, <2>4, <2>5, <2>6, <2>7 DEF Next
<1> QED
  BY <1>3, <1>4 DEF NeverSelects

(* Once every target has negotiated, level-2 commands are all there is.    *)
LEMMA NegotiatedHolds == Spec /\ Understood /\ Negotiated => []NeverSelects
<1>1. Init /\ Negotiated => NeverSelects
  BY DEF Init, DriverInit, HostInit, Negotiated, NeverSelects
<1>2. Base /\ Negotiated /\ NeverSelects /\ [Next]_vars => NeverSelects'
  BY NegotiatedKept
<1>3. Negotiated /\ [Next]_vars => Negotiated'
  BY DEF Negotiated, Next, vars
<1> QED
  BY <1>1, <1>2, <1>3, BaseHolds, PTL DEF Spec

(* Selected, connected, or neither: never two commands at a time.          *)
LEMMA OneHolds == Spec /\ Understood /\ OneKind => []OneAtATime
<1>1. Init => OneAtATime
  BY DEF Init, DriverInit, HostInit, OneAtATime
<1>2. Spec /\ Staying => []OneAtATime
  <2>1. Base /\ StayInv /\ OneAtATime /\ [Next]_vars => OneAtATime'
    BY OneKept DEF StayInv, NobodyAway
  <2> QED
    BY <1>1, <2>1, StaysHolds, PTL DEF Spec
<1>3. Spec /\ Understood /\ setup.level2 = L2_NONE => []OneAtATime
  <2>1. Base /\ setup.level2 = L2_NONE /\ OneAtATime /\ [Next]_vars => OneAtATime'
    BY OneKept
  <2>2. setup.level2 = L2_NONE /\ [Next]_vars => (setup.level2 = L2_NONE)'
    BY DEF Next, vars
  <2> QED
    BY <1>1, <2>1, <2>2, BaseHolds, PTL DEF Spec
<1>4. NeverSelects => OneAtATime
  BY DEF NeverSelects, OneAtATime
<1> QED
  BY <1>2, <1>3, <1>4, NegotiatedHolds, PTL DEF OneKind

(* busy[] marks no more units than there are disconnected commands, and    *)
(* one.                                                                    *)
LEMMA OneMoreBusy ==
  ASSUME Base, OneAtATime
  PROVE  OneConnection
<1> DEFINE q == hd.disconnected_Q
           o == IF hd.selecting # NULL THEN hd.selecting ELSE hd.connected
           m == IF o = NULL THEN Len(q) ELSE Len(q) + 1
           f == [i \in 1..m |-> IF i <= Len(q) THEN NexusOf(q[i]) ELSE NexusOf(o)]
<1>1. /\ q \in Seq(Cmds) /\ OneCommandPerUnit
      /\ hd.selecting \in Cmds \cup {NULL} /\ hd.connected \in Cmds \cup {NULL}
  BY HostFieldTypes DEF Base, Types, HostTypes, Books
<1>2. Len(q) \in Nat /\ m \in Nat /\ m <= Len(q) + 1
  BY <1>1
<1>3. Started = Away \cup ({o} \ {NULL})
  <2>1. \A x \in Away : x \in Cmds /\ x # NULL
    BY <1>1, AttrTypes DEF Away, ToSet
  <2> QED
    BY <2>1 DEF Started, OneAtATime
<1>4. \A x \in Started : \E i \in 1..m : NexusOf(x) = f[i]
  <2>1. ASSUME NEW x \in Away
        PROVE  \E i \in 1..m : NexusOf(x) = f[i]
    <3>1. PICK i \in 1..Len(q) : q[i] = x
      BY <1>1 DEF Away, ToSet
    <3>2. i \in 1..m /\ f[i] = NexusOf(x)
      BY <1>2, <3>1
    <3> QED
      BY <3>2
  <2>2. CASE o # NULL
    <3>1. Len(q) + 1 \in 1..m /\ f[Len(q) + 1] = NexusOf(o)
      BY <1>2, <2>2
    <3> QED
      BY <1>3, <2>1, <3>1
  <2> QED
    BY <1>3, <2>1, <2>2
<1>5. \A i \in 1..m : f[i] \in hd.busy
  <2> SUFFICES ASSUME NEW i \in 1..m
               PROVE  \E x \in Started : f[i] = NexusOf(x)
    BY <1>1 DEF OneCommandPerUnit
  <2>1. CASE i <= Len(q)
    <3>1. q[i] \in Away /\ f[i] = NexusOf(q[i])
      BY <1>1, <2>1 DEF Away, ToSet
    <3> QED
      BY <1>3, <3>1
  <2>2. CASE i > Len(q)
    <3>1. o # NULL /\ f[i] = NexusOf(o)
      BY <1>2, <2>2
    <3> QED
      BY <1>3, <3>1
  <2> QED
    BY <1>2, <2>1, <2>2
<1>6. \A n \in hd.busy : \E i \in 1..m : f[i] = n
  BY <1>1, <1>4 DEF OneCommandPerUnit
<1>7. f \in [1..m -> hd.busy]
  BY <1>5
<1> HIDE DEF f
<1>8. f \in Surjection(1..m, hd.busy)
  BY <1>6, <1>7 DEF Surjection
<1>9. Cardinality(hd.busy) <= m
  BY <1>2, <1>8, FS_SurjCardinalityBound DEF ExistsSurjection
<1>10. IsFiniteSet(hd.busy) /\ Cardinality(hd.busy) \in Nat
  <2>1. IsFiniteSet(1..m)
    BY <1>2, FS_Interval
  <2>2. IsFiniteSet(hd.busy)
    BY <1>8, <2>1, FS_Surjection
  <2> QED
    BY <2>2, FS_CardinalityType
<1> HIDE DEF q, m
<1>11. Cardinality(hd.busy) <= Len(q) + 1
  BY <1>2, <1>9, <1>10
<1> QED
  BY <1>11 DEF OneConnection, q

(* The types of the runs are those of the invariant.                       *)
LEMMA TypesSay ==
  ASSUME Types
  PROVE  TypeOK
<1>1. hd \in Hosts /\ chip \in Chips /\ bus \in Nexus \cup {NULL}
  BY DEF Types, HostTypes, BusTypes
<1>2. \A x \in Cmds : scp[x].phase \in BOOLEAN /\ scp[x].ptr \in Nat /\ scp[x].left \in Nat
  BY DEF Types, HostTypes, PointersOk, Pointers
<1>3. pc \in {"idle", "execute", "handle", "pio", "sent", "status", "message"}
  BY DEF Types, HostTypes
<1> QED
  BY <1>1, <1>2, <1>3, HostFieldTypes, ChipTypes DEF TypeOK

(* The driver's books, whole: a command the mid-layer waits for is in one  *)
(* place, one it does not wait for in none, a unit has one command at a    *)
(* time, and the bus one connection.                                       *)
THEOREM CommandsKeptHolds == Spec /\ Understood /\ OneKind => []CommandsKept
<1>1. Base /\ OneAtATime => CommandsKept
  BY BooksSay, OneMoreBusy, TypesSay DEF CommandsKept, Base
<1> QED
  BY <1>1, BaseHolds, OneHolds, PTL

(* The loser of a selection, whichever kind, is what PutBackLoser puts     *)
(* back.                                                                   *)
LEMMA PutBack ==
  ASSUME Base, Known, Next, Case("RESEL_AM"), pc' # "handle", Loser # NULL,
         hd.level2 <= L2_NONE \/ hd.selecting = NULL
  PROVE  hd'.selecting = NULL /\ hd'.input_Q # <<>> /\ Head(hd'.input_Q) = Loser
<1>1. /\ IsHost(hd) /\ Types /\ pc = "handle" /\ sr.csr = "RESEL_AM" /\ eh.at = "none"
      /\ hd.input_Q \in Seq(Cmds)
  <2>1. pc = "handle" /\ sr.csr = "RESEL_AM"
    BY DEF Case
  <2> QED
    BY <2>1, Handling, RecordDomains, HostFieldTypes DEF Base, Types, HostTypes
<1> DEFINE p == PutBackLoser(hd)
           q == <<Loser>> \o hd.input_Q
<1>2. IsHost(p) /\ p.selecting = NULL /\ p.input_Q = q
  <2>1. CASE hd.level2 <= L2_NONE
    <3>1. hd.connected = NULL /\ hd.selecting # NULL /\ Loser = hd.selecting
      BY <1>1, <2>1 DEF Known, Loser
    <3>2. p = Requeued([hd EXCEPT !.selecting = NULL], Loser)
      BY <2>1, <3>1 DEF PutBackLoser
    <3> HIDE DEF p
    <3> QED
      BY <1>1, <3>2 DEF Requeued, IsHost
  <2>2. CASE hd.level2 > L2_NONE
    <3>1. hd.selecting = NULL /\ hd.connected # NULL /\ Loser = hd.connected
      BY <1>1, <2>2, HostFieldTypes, SetupTypes DEF Loser, L2_NONE, Types, HostTypes
    <3>2. p = Requeued(hd, Loser)
      BY <1>1, <2>2, <3>1, HostFieldTypes, SetupTypes DEF PutBackLoser, L2_NONE, Types, HostTypes
    <3> HIDE DEF p
    <3> QED
      BY <1>1, <3>1, <3>2 DEF Requeued, IsHost
  <2> QED
    BY <1>1, <2>1, <2>2, HostFieldTypes, SetupTypes DEF L2_NONE, Types, HostTypes
<1>3. OnReselect \/ OnStrayReselect
  <2>1. HandleInterrupt
    <3>1. ~(Execute \/ Interrupt \/ HostReset \/ WriteInfo \/ BusSteps \/ DataSteps)
      BY <1>1 DEF Execute, Interrupt, HostReset, WriteInfo, BusSteps, DataSteps, DmaMoves,
         PioMoves, driverVars
    <3>2. ~PollEnds
      BY <1>1, PollLeaves
    <3>3. ~AbortSteps
      BY <1>1 DEF AbortSteps, Aborting, AbortQueued, AbortConnected, AbortFlush, AbortFinish,
         AbortDisconnected, AbortUnknown, AbortChecks, AbortStarts
    <3>4. ~\E c \in Cmds : Queue(c) \/ TimesOut(c) \/ Abort(c)
      BY <1>1 DEF Queue, QueueCommand, TimesOut, Abort
    <3> QED
      BY <3>1, <3>2, <3>3, <3>4 DEF Next
  <2> QED
    BY <1>1, <2>1 DEF HandleInterrupt, OnTimeout, OnSelect, OnData, OnCommand, OnMessageOut,
       OnStatus, OnMessageIn, OnSelXferDone, OnUnexpDisc, AlreadyDisconnected, OnDisc, OnSdp,
       CommandCase, Case
<1>4. hd'.selecting = NULL /\ hd'.input_Q = q
  <2>1. CASE OnStrayReselect
    BY <1>2, <2>1 DEF OnStrayReselect
  <2>2. CASE OnReselect
    <3> DEFINE c == hd.disconnected_Q[Reconnecting]
               d == RemoveAt(p.disconnected_Q, Reconnecting)
               h == [p EXCEPT !.connected = c, !.disconnected_Q = d]
    <3>1. IsHost(h) /\ h.selecting = NULL /\ h.input_Q = q
      BY <1>2 DEF IsHost
    <3>2. \E st : hd' = [h EXCEPT !.state = st]
      BY <2>2 DEF OnReselect
    <3> HIDE DEF h, q
    <3> QED
      BY <3>1, <3>2 DEF IsHost
  <2> QED
    BY <1>3, <2>1, <2>2
<1>5. Loser \in Cmds
  BY <1>1, HostFieldTypes DEF Loser, Types, HostTypes
<1>6. q # <<>> /\ Head(q) = Loser
  BY <1>1, <1>5
<1> QED
  BY <1>4, <1>6

(* A reselection that beats a selection costs no command: whatever was     *)
(* being selected, and however, goes back to the head of input_Q.          *)
THEOREM LoserPutBackHolds == Spec /\ Understood /\ OneKind => LoserPutBack
<1> DEFINE Puts == Case("RESEL_AM") /\ pc' # "handle" /\ Loser # NULL =>
                     hd'.selecting = NULL /\ hd'.input_Q # <<>> /\ Head(hd'.input_Q) = Loser
<1>1. Spec /\ Staying => [][Puts]_vars
  <2>1. StayInv /\ [Next]_vars => [Puts]_vars
    BY DEF StayInv, NobodyAway, Pending, Case
  <2> QED
    BY <2>1, StaysHolds, PTL DEF Spec
<1>2. Spec /\ Understood /\ setup.level2 = L2_NONE => [][Puts]_vars
  <2>1. Base /\ Known /\ setup.level2 = L2_NONE /\ [Next]_vars => [Puts]_vars
    <3>1. Base => hd.level2 = setup.level2
      BY HostFieldTypes DEF Base, Types, HostTypes
    <3>2. Base /\ Known /\ setup.level2 = L2_NONE /\ Next => Puts
      BY <3>1, PutBack DEF L2_NONE
    <3> QED
      BY <3>2
  <2>2. setup.level2 = L2_NONE /\ [Next]_vars => (setup.level2 = L2_NONE)'
    BY DEF Next, vars
  <2> QED
    BY <2>1, <2>2, BaseHolds, KnownHolds, PTL DEF Spec, Understood
<1>3. Spec /\ Understood /\ Negotiated => [][Puts]_vars
  <2>1. Base /\ Known /\ NeverSelects /\ [Next]_vars => [Puts]_vars
    <3>1. Base /\ Known /\ NeverSelects /\ Next => Puts
      BY PutBack DEF NeverSelects
    <3> QED
      BY <3>1
  <2> QED
    BY <2>1, BaseHolds, KnownHolds, NegotiatedHolds, PTL DEF Spec, Understood
<1> QED
  BY <1>1, <1>2, <1>3, PTL DEF OneKind, LoserPutBack

-------------------------------------------------------------------------------
(* 4.  Reselection.                                                        *)

(* Disconnection is never forbidden altogether.                            *)
MayLeave == setup.disconnect # DIS_NEVER /\ "never" \notin setup.settings
ReselectInv == hd.disconnect # DIS_NEVER /\ (Away # {} => chip.er)

(* With a command disconnected the next may disconnect too: SRCID_ER is    *)
(* set for its selection.                                                  *)
LEMMA StartEnables ==
  ASSUME Types, ReselectInv, Start
  PROVE  ReselectInv'
<1> DEFINE c    == hd.input_Q[Runnable]
           rest == RemoveAt(hd.input_Q, Runnable)
           er   == AllowDisconnect(c, rest)
           h    == [hd EXCEPT !.input_Q = rest, !.busy = @ \cup {NexusOf(c)}]
           ch   == [chip EXCEPT !.id = Attr[c].id, !.lun = Attr[c].lun, !.dpd = Attr[c].in,
                                !.er = er, !.sync = hd.sync_xfer[Attr[c].id]]
           ready == [h EXCEPT !.connected = c, !.state = "S_RUNNING_LEVEL2"]
<1>1. IsHost(hd) /\ IsChip(chip) /\ hd.disconnect \in {DIS_ADAPTIVE, DIS_ALWAYS}
  BY RecordDomains, HostFieldTypes DEF Types, HostTypes, BusTypes, ReselectInv, DIS_NEVER,
     DIS_ADAPTIVE, DIS_ALWAYS
<1>2. Away # {} => er
  BY <1>1 DEF AllowDisconnect, Away, ToSet
<1>3. IsChip(ch) /\ ch.er = er
  BY <1>1 DEF IsChip
<1>4. /\ IsHost(h) /\ IsHost(ready)
      /\ h.disconnect = hd.disconnect /\ h.disconnected_Q = hd.disconnected_Q
      /\ ready.disconnect = hd.disconnect /\ ready.disconnected_Q = hd.disconnected_Q
  BY <1>1 DEF IsHost
<1>5. StartSelect(c, h, ch) \/ StartLevel2(c, h, ch)
  BY DEF Start
<1>6. /\ chip'.er = er /\ hd'.disconnect = hd.disconnect
      /\ hd'.disconnected_Q = hd.disconnected_Q
  <2>1. CASE StartSelect(c, h, ch)
    <3>1. /\ \E s : hd' = [h EXCEPT !.selecting = c, !.state = "S_SELECTING", !.sync_stat = s]
          /\ chip' = SelAtn(NoCount(ch))
      BY <2>1 DEF StartSelect
    <3> HIDE DEF h, ch, er
    <3> QED
      BY <1>3, <1>4, <3>1 DEF SelAtn, NoCount, Issue, IsChip, IsHost
  <2>2. CASE StartLevel2(c, h, ch)
    <3>1. /\ hd' = ready \/ \E via : hd' = DmaSetup(ready, via)
          /\ \/ chip' = SelAtnXfer([NoCount(ch) EXCEPT !.cdb = c], 0)
             \/ chip' = SelAtnXfer([ch EXCEPT !.count = scp[c].left, !.cdb = c,
                                              !.polled = FALSE], 0)
      BY <2>2 DEF StartLevel2
    <3> HIDE DEF h, ch, er, ready
    <3> QED
      BY <1>3, <1>4, <3>1 DEF SelAtnXfer, NoCount, Issue, DmaSetup, IsChip, IsHost
  <2> QED
    BY <1>5, <2>1, <2>2
<1> HIDE DEF er
<1> QED
  BY <1>2, <1>6 DEF ReselectInv, Away

(* No command of the chip touches SRCID_ER.                                *)
LEMMA ErKept ==
  ASSUME NEW d, IsChip(d)
  PROVE  /\ TransInfo(d).er = d.er /\ NegateAck(d).er = d.er
         /\ \A n : SelAtnXfer(d, n).er = d.er
BY DEF TransInfo, NegateAck, SelAtnXfer, Issue, IsChip

(* The end of a connection enables reselection, a reselection takes its    *)
(* command off disconnected_Q, and nothing else has to do with either.     *)
LEMMA HandleEnables ==
  ASSUME Base, ReselectInv, HandleInterrupt
  PROVE  ReselectInv'
<1>1. /\ IsHost(hd) /\ IsChip(chip)
      /\ hd.disconnected_Q \in Seq(Cmds) /\ Distinct(hd.disconnected_Q)
  BY RecordDomains, HostFieldTypes DEF Base, Types, HostTypes, BusTypes, Books
<1>2. hd'.disconnect = hd.disconnect
  BY HandleSends
<1>3. chip'.er \in {chip.er, TRUE}
  <2>1. CASE OnTimeout \/ OnSelect \/ OnSelXferDone \/ OnUnexpDisc \/ AlreadyDisconnected \/ OnDisc
    BY <1>1, <2>1 DEF OnTimeout, OnSelect, OnSelXferDone, OnUnexpDisc,
       AlreadyDisconnected, OnDisc, EnableReselection, IsChip
  <2>2. CASE OnSdp \/ OnStrayReselect
    <3>1. (\E n : chip' = SelAtnXfer(chip, n)) \/ chip' = NegateAck(chip) \/ chip' = chip
      BY <2>2 DEF OnSdp, OnStrayReselect
    <3>2. NegateAck(chip).er = chip.er /\ \A n : SelAtnXfer(chip, n).er = chip.er
      BY <1>1, ErKept
    <3> QED
      BY <3>1, <3>2
  <2>3. CASE OnStatus \/ OnMessageIn
    <3> DEFINE d == [chip EXCEPT !.polled = TRUE]
    <3>1. chip' = TransInfo(d)
      BY <2>3 DEF OnStatus, OnMessageIn, ReadByte
    <3>2. IsChip(d) /\ d.er = chip.er
      BY <1>1 DEF IsChip
    <3> HIDE DEF d
    <3> QED
      BY <3>1, <3>2, ErKept
  <2>4. CASE OnCommand
    <3> DEFINE d == [chip EXCEPT !.polled = TRUE, !.count = 1, !.cdb = hd.connected]
    <3>1. chip' = TransInfo(d)
      BY <2>4 DEF OnCommand
    <3>2. IsChip(d) /\ d.er = chip.er
      BY <1>1 DEF IsChip
    <3> HIDE DEF d
    <3> QED
      BY <3>1, <3>2, ErKept
  <2>5. CASE OnMessageOut
    <3> DEFINE o == IF hd.outgoing_msg = <<>> THEN <<Plain("NOP")>> ELSE hd.outgoing_msg
               d == [chip EXCEPT !.polled = TRUE, !.count = Len(o), !.out = o]
    <3>1. chip' = TransInfo(d)
      BY <2>5 DEF OnMessageOut
    <3> HIDE DEF o
    <3>2. IsChip(d) /\ d.er = chip.er
      BY <1>1 DEF IsChip
    <3> HIDE DEF d
    <3> QED
      BY <3>1, <3>2, ErKept
  <2>6. CASE OnData
    <3> DEFINE d(y, b, n) == [chip EXCEPT !.sync = y, !.polled = b, !.count = n]
    <3>1. \/ chip' = chip
          \/ \E y, b, n : chip' = SelAtnXfer(d(y, b, n), \h45) \/ chip' = TransInfo(d(y, b, n))
      BY <2>6 DEF OnData, TransferNothing, TransferByDma, TransferByPio
    <3>2. CASE chip' # chip
      <4>1. PICK y, b, n : chip' = SelAtnXfer(d(y, b, n), \h45) \/ chip' = TransInfo(d(y, b, n))
        BY <3>1, <3>2
      <4> DEFINE e == d(y, b, n)
      <4>2. IsChip(e) /\ e.er = chip.er
        BY <1>1 DEF IsChip
      <4>3. (\E m : chip' = SelAtnXfer(e, m)) \/ chip' = TransInfo(e)
        BY <4>1
      <4> HIDE DEF e
      <4>4. TransInfo(e).er = e.er /\ \A m : SelAtnXfer(e, m).er = e.er
        BY <4>2, ErKept
      <4> QED
        BY <4>2, <4>3, <4>4
    <3> QED
      BY <3>2
  <2>7. CASE OnReselect
    <3> DEFINE c == hd.disconnected_Q[Reconnecting]
               d == [chip EXCEPT !.id = Attr[c].id, !.dpd = Attr[c].in]
    <3>1. chip' = SelAtnXfer(NoCount(d), \h45) \/ chip' = NegateAck(d)
      BY <2>7 DEF OnReselect
    <3>2. IsChip(d) /\ d.er = chip.er /\ IsChip(NoCount(d)) /\ NoCount(d).er = chip.er
      BY <1>1 DEF NoCount, IsChip
    <3>3. (\E n : chip' = SelAtnXfer(NoCount(d), n)) \/ chip' = NegateAck(d)
      BY <3>1
    <3> HIDE DEF d
    <3>4. NegateAck(d).er = d.er /\ \A n : SelAtnXfer(NoCount(d), n).er = NoCount(d).er
      BY <3>2, ErKept
    <3> QED
      BY <3>2, <3>3, <3>4
  <2> QED
    BY <2>1, <2>2, <2>3, <2>4, <2>5, <2>6, <2>7 DEF HandleInterrupt
<1>4. CASE OnDisc
  <2>1. chip'.er
    BY <1>1, <1>4 DEF OnDisc, EnableReselection, IsChip
  <2> QED
    BY <1>2, <2>1 DEF ReselectInv
<1>5. CASE ~OnDisc
  <2>1. Away' \subseteq Away
    <3>1. CASE OnReselect \/ OnStrayReselect
      <4> DEFINE p == PutBackLoser(hd)
      <4>1. IsHost(p) /\ p.disconnected_Q = hd.disconnected_Q
        BY <1>1 DEF PutBackLoser, Requeued, IsHost
      <4>2. CASE OnStrayReselect
        BY <4>1, <4>2 DEF OnStrayReselect, Away
      <4>3. CASE OnReselect
        <5> DEFINE c == hd.disconnected_Q[Reconnecting]
                   d == RemoveAt(p.disconnected_Q, Reconnecting)
                   h == [p EXCEPT !.connected = c, !.disconnected_Q = d]
        <5>1. IsHost(h) /\ h.disconnected_Q = RemoveAt(hd.disconnected_Q, Reconnecting)
          BY <4>1 DEF IsHost
        <5>2. /\ \E st : hd' = [h EXCEPT !.state = st]
              /\ Reconnecting # 0
          BY <4>3 DEF OnReselect
        <5> HIDE DEF h
        <5>3. hd'.disconnected_Q = RemoveAt(hd.disconnected_Q, Reconnecting)
          BY <5>1, <5>2 DEF IsHost
        <5>4. Reconnecting \in DOMAIN hd.disconnected_Q
          BY <1>1, <5>2, Found DEF Reconnecting
        <5> QED
          BY <1>1, <5>3, <5>4, Taken DEF Away
      <4> QED
        BY <3>1, <4>2, <4>3
    <3>2. CASE OnData
      <4>1. PICK h : /\ \/ h = hd \/ (\E via : h = DmaSetup(hd, via))
                        \/ \E b : h = [hd EXCEPT !.bounce = b]
                     /\ hd' = Connected(h) \/ hd' = [h EXCEPT !.state = "S_RUNNING_LEVEL2"]
        BY <3>2 DEF OnData, TransferNothing, TransferByDma, TransferByPio
      <4>2. IsHost(h) /\ h.disconnected_Q = hd.disconnected_Q
        BY <1>1, <4>1 DEF DmaSetup, IsHost
      <4>3. \E st : hd' = [h EXCEPT !.state = st]
        BY <4>1 DEF Connected
      <4> QED
        BY <4>2, <4>3 DEF IsHost, Away
    <3>3. CASE OnSelect
      <4> DEFINE c == hd.selecting
                 id == Attr[c].id
                 first == hd.sync_stat[id] = "SS_FIRST"
                 off == IF id \in hd.no_sync THEN 0 ELSE OPTIMUM_SX_OFF
                 out == <<Identify(c)>> \o IF first THEN <<Sdtr(off)>> ELSE <<>>
                 st == IF first THEN "SS_WAITING" ELSE hd.sync_stat[id]
      <4>1. hd' = [hd EXCEPT !.connected = c, !.selecting = NULL, !.state = "S_CONNECTED",
                             !.outgoing_msg = out, !.sync_stat[id] = st]
        BY <3>3 DEF OnSelect
      <4> HIDE DEF out, st, id
      <4> QED
        BY <1>1, <4>1 DEF IsHost, Away
    <3>4. CASE OnTimeout \/ OnSelXferDone \/ OnUnexpDisc \/ AlreadyDisconnected
      BY <1>1, <3>4 DEF OnTimeout, OnSelXferDone, OnUnexpDisc, AlreadyDisconnected,
         Unconnected, IsHost, Away
    <3>5. CASE OnCommand \/ OnMessageOut \/ OnSdp \/ OnStatus \/ OnMessageIn
      BY <1>1, <3>5 DEF OnCommand, OnMessageOut, OnSdp, OnStatus, OnMessageIn, IsHost, Away
    <3> QED
      BY <1>5, <3>1, <3>2, <3>3, <3>4, <3>5 DEF HandleInterrupt
  <2> QED
    BY <1>2, <1>3, <2>1 DEF ReselectInv
<1> QED
  BY <1>4, <1>5

(* The same of every step.                                                 *)
LEMMA EnabledKept ==
  ASSUME Base, ReselectInv, MayLeave, [Next]_vars
  PROVE  ReselectInv'
<1>1. /\ Types /\ IsHost(hd) /\ IsChip(chip) /\ hd.disconnect # DIS_NEVER
  BY RecordDomains DEF Base, Types, HostTypes, BusTypes, ReselectInv
<1>2. CASE hd'.disconnect = hd.disconnect /\ hd'.disconnected_Q = hd.disconnected_Q
           /\ chip'.er = chip.er
  BY <1>2 DEF ReselectInv, Away
<1>3. CASE Execute
  <2>1. CASE CannotStart
    BY <1>2, <1>3, <2>1 DEF Execute
  <2> QED
    BY <1>1, <1>3, <2>1, StartEnables DEF Execute
<1>4. CASE HostReset
  <2>1. hd'.disconnect = hd.disconnect /\ hd'.disconnected_Q = <<>>
    BY <1>1, <1>4 DEF HostReset, Forgotten, IsHost
  <2> QED
    BY <1>1, <2>1 DEF ReselectInv, Away, ToSet
<1>5. CASE AbortSteps
  <2>1. CASE AbortStarts
    BY <1>1, <2>1, StartEnables DEF AbortStarts
  <2>2. CASE AbortConnected
    <3>1. hd'.disconnect = hd.disconnect /\ hd'.disconnected_Q = hd.disconnected_Q
      BY <1>1, <2>2 DEF AbortConnected, AbortStopsDma, DmaStop, IsHost
    <3> DEFINE d == [chip EXCEPT !.polled = TRUE]
    <3>2. IsChip(d) /\ d.er = chip.er
      BY <1>1 DEF IsChip
    <3>3. chip' = AbortCmd(d)
      BY <2>2 DEF AbortConnected
    <3> HIDE DEF d
    <3> QED
      BY <1>2, <3>1, <3>2, <3>3 DEF AbortCmd, Issue, IsChip
  <2>3. CASE AbortFinish \/ AbortFlush
    BY <1>1, <1>2, <2>3 DEF AbortFinish, AbortFlush, Unconnected, Cleared, IsHost, IsChip
  <2>4. CASE AbortQueued
    BY <1>1, <1>2, <2>4 DEF AbortQueued, busVars, IsHost
  <2>5. CASE UNCHANGED <<hd, chip>>
    BY <1>2, <2>5
  <2> QED
    BY <1>5, <2>1, <2>2, <2>3, <2>4, <2>5 DEF AbortSteps, AbortDisconnected,
       AbortUnknown, AbortChecks, busVars
<1>6. CASE PollEnds
  BY <1>1, <1>2, <1>6, PollWrites DEF SameBut, IsHost, IsChip
<1>7. CASE \E c \in Cmds : Queue(c) \/ TimesOut(c) \/ Abort(c)
  BY <1>1, <1>2, <1>7 DEF Queue, QueueCommand, TimesOut, Abort, busVars, IsHost
<1>8. CASE Interrupt
  BY <1>1, <1>2, <1>8 DEF Interrupt, DmaStop, IsHost, IsChip
<1>9. CASE WriteInfo
  <2>1. /\ \/ hd' = [hd EXCEPT !.disconnect = DIS_ALWAYS]
           \/ \E d : hd' = [hd EXCEPT !.no_dma = d]
           \/ \E i : hd' = Resync(hd, {i})
           \/ \E i, y : hd' = Resync([hd EXCEPT !.no_sync = y], {i})
        /\ UNCHANGED chip
    BY <1>9 DEF WriteInfo, MayLeave, busVars
  <2>2. /\ hd'.disconnect \in {hd.disconnect, DIS_ALWAYS}
        /\ hd'.disconnected_Q = hd.disconnected_Q
    BY <1>1, <2>1 DEF Resync, IsHost
  <2> QED
    BY <1>1, <2>1, <2>2 DEF ReselectInv, Away, DIS_NEVER, DIS_ALWAYS
<1>10. CASE UNCHANGED vars \/ BusSteps \/ DataSteps
  <2>1. UNCHANGED hd
    BY <1>10 DEF vars, driverVars, BusSteps, DataSteps, DmaMoves, PioMoves
  <2>2. chip'.er = chip.er
    BY <1>1, <1>10, BusLeaves DEF vars, busVars
  <2> QED
    BY <1>2, <2>1, <2>2
<1> QED
  BY <1>3, <1>4, <1>5, <1>6, <1>7, <1>8, <1>9, <1>10, HandleEnables DEF Next

(* Where disconnection is not forbidden, SRCID_ER, cleared for a command   *)
(* that may not disconnect, is set while another waits for its target.     *)
THEOREM ReselectionEnabledHolds == Spec /\ Understood /\ MayLeave => []ReselectionEnabled
<1>1. Init /\ MayLeave => ReselectInv
  BY DEF Init, DriverInit, HostInit, MayLeave, ReselectInv, Away, ToSet
<1>2. Base /\ MayLeave /\ ReselectInv /\ [Next]_vars => ReselectInv'
  BY EnabledKept
<1>3. MayLeave /\ [Next]_vars => MayLeave'
  BY DEF MayLeave, Next, vars
<1>4. ReselectInv => ReselectionEnabled
  BY DEF ReselectInv, ReselectionEnabled
<1> QED
  BY <1>1, <1>2, <1>3, <1>4, BaseHolds, PTL DEF Spec

-------------------------------------------------------------------------------
(* 5.  The service of CommandService, on a machine of the second kind.     *)
(* What a target has done with its command is told by the phase it is in;  *)
(* a command that no target has, and whose connection is not ending, has   *)
(* no status yet; and the status of one that is complete is on its way to  *)
(* SCp: there, in the register of the LUN, or in the byte just read.       *)

Tells(u) == u.ph \in {"status", "complete"}
OutcomeInv ==
  /\ outcome \in [Cmds -> {NONE, GOOD, CHECK}]
  /\ \A x \in Cmds : scp[x].Status # ILLEGAL => /\ scp[x].Status = outcome[x]
                                                /\ outcome[x] # NONE
GivenInv ==
  \A n \in Nexus :
    /\ tg[n].st \in {GOOD, CHECK}
    /\ tg[n].cmd # NULL => outcome[tg[n].cmd] = IF Tells(tg[n]) THEN tg[n].st ELSE NONE
Untaken(x) == tg[NexusOf(x)].cmd # x /\ ~(Ending /\ x = hd.connected)
UntakenInv == \A x \in Held : Untaken(x) => outcome[x] = NONE
Noted(ch, st) ==
  \/ scp[hd.connected].Status = st
  \/ ch.cmd = "level2" /\ ch.phs = \h50 /\ ch.lun = st
  \/ pc = "status" /\ ch.cmd = "none" /\ ch.byte = st
StatusInv ==
  /\ chip.cmd = "info" /\ chip.xph = "STATUS" => pc = "status"
  /\ bus # NULL /\ tg[bus].ph = "complete" => Noted(chip, tg[bus].st)
  /\ pc = "status" /\ chip.cmd = "none" =>
       bus # NULL /\ tg[bus].ph = "complete" /\ chip.byte = tg[bus].st

(* At the end of a connection the driver will find the status the target   *)
(* gave, or ILLEGAL if it gave none.                                       *)
Reported(x, lun) == IF scp[x].Status = ILLEGAL THEN lun ELSE scp[x].Status
Finds(x, event, lun) ==
  CASE event = "SEL_XFER_DONE" -> Reported(x, lun) = outcome[x] /\ outcome[x] # NONE
    [] event = "UNEXP_DISC"    -> outcome[x] = NONE
    [] event = "DISC"          -> hd.state = "S_PRE_CMP_DISC" => scp[x].Status # ILLEGAL
ToldInv == \A event \in Over : Pending(event) => Finds(hd.connected, event, chip.lun)

ServedInv == OutcomeInv /\ GivenInv /\ UntakenInv /\ StatusInv /\ ToldInv

(* A target's command is one the driver has.                               *)
LEMMA TakenHeld ==
  ASSUME Base, CalmInv, NEW n \in Nexus, tg[n].cmd # NULL
  PROVE  tg[n].cmd \in Held /\ tg[n].cmd \in Cmds /\ NexusOf(tg[n].cmd) = n
<1>1. Held \subseteq Cmds /\ NULL \notin Cmds /\ Away \subseteq Held
  BY OfCommands DEF Base, Held, Started
<1>2. hd.connected # NULL => hd.connected \in Held
  BY DEF Held, Started
<1>3. Gone \subseteq Held
  BY <1>1, <1>2 DEF Gone, Leaver, CalmInv, EndInv, Ending
<1>4. CASE n = bus
  <2>1. bus # NULL
    BY <1>4, BusAssumption, AttrTypes DEF Nexus, NexusOf
  <2>2. tg[bus].cmd \in Gone \/ tg[bus].cmd = hd.connected
    BY <1>4, <2>1 DEF CalmInv, BusInv, InConnection
  <2> QED
    BY <1>1, <1>2, <1>3, <1>4, <2>2 DEF CalmInv, UnitsInv
<1>5. CASE n # bus
  BY <1>1, <1>3, <1>5 DEF CalmInv, UnitsInv, OffBus
<1> QED
  BY <1>4, <1>5

(* A target that is complete is that of the connection under way.          *)
LEMMA Completes ==
  ASSUME Base, CalmInv, bus # NULL, tg[bus].ph = "complete"
  PROVE  InConnection /\ hd.connected \in Cmds /\ bus \in Nexus
<1>1. ~Pending("SELECT")
  BY DEF Base, SelectInv, SelectTold
<1>2. InConnection
  BY <1>1 DEF CalmInv, BusInv
<1> QED
  BY <1>2, HostFieldTypes DEF Base, Types, HostTypes, BusTypes, InConnection

(* A step in a connection that goes on.                                    *)
LEMMA ServedOn ==
  ASSUME Base, CalmInv, ServedInv, InConnection, bus \in Nexus, bus # NULL,
         chip.int = "none", pc = "handle" => sr.csr \in Phases,
         UNCHANGED <<hd, scp, pc, sr, bus, outcome>>, NEW u, tg' = [tg EXCEPT ![bus] = u],
         chip'.int \notin Over, u.st = tg[bus].st,
         \/ u.cmd = tg[bus].cmd /\ (Tells(u) <=> Tells(tg[bus]))
         \/ tg[bus].cmd = NULL /\ u.cmd = hd.connected /\ ~Tells(u),
         chip'.cmd = "info" => chip.cmd = "info", chip'.xph = chip.xph,
         u.ph = "complete" => Noted(chip', u.st),
         pc = "status" /\ chip'.cmd = "none" => u.ph = "complete" /\ chip'.byte = u.st
  PROVE  ServedInv'
<1>1. /\ hd.connected \in Cmds /\ hd.connected \in Held /\ bus = NexusOf(hd.connected)
      /\ tg \in [Nexus -> Units] /\ hd.connected # NULL
  BY HostFieldTypes DEF Base, Types, HostTypes, BusTypes, InConnection, Held, Started
<1>2. \A n \in Nexus : tg'[n] = IF n = bus THEN u ELSE tg[n]
  BY <1>1
<1>3. \A event \in Over : ~Pending(event) /\ ~Pending(event)'
  BY DEF Pending, Over, InConnection, Ending, Phases
<1>4. ~Ending /\ ~Ending'
  BY <1>3 DEF Ending, Over
<1>5. OutcomeInv'
  BY DEF ServedInv, OutcomeInv
<1>6. tg[bus].cmd = NULL => outcome[hd.connected] = NONE
  <2>1. ASSUME tg[bus].cmd = NULL
        PROVE  Untaken(hd.connected)
    BY <1>1, <1>4, <2>1 DEF Untaken
  <2> QED
    BY <1>1, <2>1 DEF ServedInv, UntakenInv
<1>7. GivenInv'
  BY <1>2, <1>6 DEF ServedInv, GivenInv, Tells
<1>8. UntakenInv'
  <2>1. Held' = Held /\ Held \subseteq Cmds
    BY OfCommands DEF Held, Queued, Started, Away, Base
  <2>2. ASSUME NEW x \in Held, Untaken(x)'
        PROVE  Untaken(x)
    <3>1. x \in Cmds /\ x # NULL /\ NexusOf(x) \in Nexus
      BY <2>1, AttrTypes
    <3>2. tg'[NexusOf(x)].cmd # x
      BY <2>2 DEF Untaken
    <3>3. tg[NexusOf(x)].cmd # x
      BY <1>2, <3>1, <3>2
    <3> QED
      BY <1>4, <3>3 DEF Untaken
  <2> QED
    BY <2>1, <2>2 DEF ServedInv, UntakenInv
<1>9. StatusInv'
  <2>1. chip'.cmd = "info" /\ chip'.xph = "STATUS" => pc' = "status"
    BY DEF ServedInv, StatusInv
  <2>2. tg'[bus'].ph = "complete" => Noted(chip, tg[bus].st)'
    BY <1>2 DEF Noted
  <2>3. pc' = "status" /\ chip'.cmd = "none" =>
          bus' # NULL /\ tg'[bus'].ph = "complete" /\ chip'.byte = tg'[bus'].st
    BY <1>2
  <2> QED
    BY <2>1, <2>2, <2>3 DEF StatusInv
<1>10. ToldInv'
  BY <1>3 DEF ToldInv
<1> QED
  BY <1>5, <1>7, <1>8, <1>9, <1>10 DEF ServedInv

(* A target leaves the bus, done with its command or to come back.         *)
LEMMA ServedOff ==
  ASSUME Base, CalmInv, ServedInv, InConnection, bus \in Nexus, bus # NULL,
         chip.int = "none", pc = "handle" => sr.csr \in Phases,
         UNCHANGED <<hd, scp, pc, sr, outcome>>, bus' = NULL,
         NEW u, tg' = [tg EXCEPT ![bus] = u],
         chip'.int \in Over, chip'.cmd = "none",
         \/ u = Idle
         \/ /\ u.cmd = tg[bus].cmd /\ u.st = tg[bus].st /\ ~Tells(u) /\ ~Tells(tg[bus])
            /\ tg[bus].cmd = hd.connected,
         Finds(hd.connected, chip'.int, chip'.lun), pc # "status"
  PROVE  ServedInv'
<1>1. /\ hd.connected \in Cmds /\ bus = NexusOf(hd.connected) /\ tg \in [Nexus -> Units]
      /\ hd.connected # NULL
  BY HostFieldTypes DEF Base, Types, HostTypes, BusTypes, InConnection
<1>2. \A n \in Nexus : tg'[n] = IF n = bus THEN u ELSE tg[n]
  BY <1>1
<1>3. \A event \in Over : Pending(event)' <=> chip'.int = event
  BY DEF Pending, Over, Phases
<1>4. ~Ending /\ Ending'
  BY <1>3 DEF Ending, Over, InConnection
<1>5. OutcomeInv'
  BY DEF ServedInv, OutcomeInv
<1>6. GivenInv'
  <2>1. Idle.cmd = NULL /\ Idle.st = GOOD
    BY DEF Idle
  <2> QED
    BY <1>2, <2>1 DEF ServedInv, GivenInv, Tells
<1>7. UntakenInv'
  <2>1. Held' = Held /\ Held \subseteq Cmds
    BY OfCommands DEF Held, Queued, Started, Away, Base
  <2>2. ASSUME NEW x \in Held, Untaken(x)'
        PROVE  Untaken(x)
    <3>1. x \in Cmds /\ x # NULL /\ NexusOf(x) \in Nexus
      BY <2>1, AttrTypes
    <3>2. tg'[NexusOf(x)].cmd # x /\ x # hd.connected
      BY <1>4, <2>2 DEF Untaken
    <3>3. tg[bus].cmd \in {NULL, hd.connected}
      BY DEF InConnection
    <3>4. tg[NexusOf(x)].cmd # x
      BY <1>2, <3>1, <3>2, <3>3
    <3> QED
      BY <1>4, <3>4 DEF Untaken
  <2> QED
    BY <2>1, <2>2 DEF ServedInv, UntakenInv
<1>8. StatusInv'
  BY DEF StatusInv
<1>9. ToldInv'
  <2>1. Finds(hd.connected, chip.int, chip.lun)'
    BY DEF Finds, Reported
  <2> QED
    BY <1>3, <2>1 DEF ToldInv
<1> QED
  BY <1>5, <1>6, <1>7, <1>8, <1>9 DEF ServedInv

(* The command, the status and data are taken.                             *)
LEMMA ServedPhases ==
  ASSUME Base, CalmInv, ServedInv, UNCHANGED <<hd, scp, pc, sr>>,
         TakeCommand \/ TakeStatus \/ \E k \in 1..chip.count : MoveData(k)
  PROVE  ServedInv'
<1>1. PICK ph \in {"COMMAND", "STATUS", "DATA_IN", "DATA_OUT"} :
        Ready(ph) /\ (TakeCommand => ph = "COMMAND") /\ (TakeStatus => ph = "STATUS")
        /\ ((\E k \in 1..chip.count : MoveData(k)) => ph \in {"DATA_IN", "DATA_OUT"})
  BY DEF TakeCommand, TakeStatus, MoveData, Ready
<1>8. ~TakeStatus => pc # "status"
  <2>1. ~TakeStatus => Phase \notin {"STATUS", "MESS_IN"}
    BY DEF TakeCommand, MoveData, Ready
  <2> QED
    BY <2>1 DEF Base, ChipInv
<1>2. /\ chip.int = "none" /\ bus \in Nexus /\ bus # NULL /\ InConnection
      /\ pc # "handle" /\ chip.cmd \in {"info", "level2"} /\ hd.connected \in Cmds
      /\ IsChip(chip) /\ IsUnit(tg[bus]) /\ tg \in [Nexus -> Units]
      /\ tg[bus].ph = CASE ph = "COMMAND" -> "command" [] ph = "STATUS" -> "status"
                        [] OTHER -> "data"
  BY <1>1, Serving DEF Phases
<1>3. UNCHANGED <<bus, outcome>>
  BY DEF TakeCommand, TakeStatus, MoveData
<1>4. "none" \notin Over
  BY DEF Over
<1>5. CASE TakeCommand
  <2> DEFINE u == [tg[bus] EXCEPT !.ph = "exec", !.cmd = chip.cdb]
  <2>1. tg' = [tg EXCEPT ![bus] = u]
    BY <1>2, <1>5 DEF TakeCommand
  <2>2. tg[bus].cmd = NULL
    BY <1>1, <1>2, <1>5 DEF InConnection
  <2>3. chip.cdb = hd.connected
    BY <1>1, <1>2, <1>5 DEF CalmInv, Level2Inv, Ready, Expected, DataGoesOn
  <2>4. u.cmd = hd.connected /\ u.ph = "exec" /\ u.st = tg[bus].st /\ ~Tells(u)
    BY <1>2, <2>3 DEF IsUnit, Tells
  <2>5. chip'.int = "none" /\ chip'.xph = chip.xph /\ (chip'.cmd = "info" => chip.cmd = "info")
    BY <1>2, <1>5 DEF TakeCommand, IsChip
  <2>6. pc # "status"
    BY <1>5, <1>8 DEF TakeCommand, TakeStatus, Ready
  <2> HIDE DEF u
  <2> QED
    BY <1>2, <1>3, <1>4, <2>1, <2>2, <2>4, <2>5, <2>6, ServedOn
<1>6. CASE TakeStatus
  <2> DEFINE u == [tg[bus] EXCEPT !.ph = "complete", !.msgs = COMMAND_COMPLETE]
  <2>1. tg' = [tg EXCEPT ![bus] = u]
    BY <1>2, <1>6 DEF TakeStatus
  <2>2. /\ u.cmd = tg[bus].cmd /\ u.st = tg[bus].st /\ u.ph = "complete"
        /\ Tells(u) /\ Tells(tg[bus])
    BY <1>1, <1>2, <1>6 DEF IsUnit, Tells
  <2>3. chip'.int = "none" /\ chip'.xph = chip.xph /\ (chip'.cmd = "info" => chip.cmd = "info")
    BY <1>2, <1>6 DEF TakeStatus, IsChip
  <2>5. chip'.cmd = "none" => chip'.byte = u.st
    BY <1>2, <1>6, <2>2 DEF TakeStatus, IsChip
  <2>4. Noted(chip', tg[bus].st)
    <3>1. CASE chip.cmd = "level2"
      BY <1>2, <1>6, <3>1 DEF TakeStatus, IsChip, Noted
    <3>2. CASE chip.cmd = "info"
      <4>1. pc = "status"
        BY <1>1, <1>6, <3>2 DEF ServedInv, StatusInv, Ready, Expected
      <4> QED
        BY <1>2, <1>6, <3>2, <4>1 DEF TakeStatus, IsChip, Noted
    <3> QED
      BY <1>2, <3>1, <3>2
  <2> HIDE DEF u
  <2> QED
    BY <1>2, <1>3, <1>4, <2>1, <2>2, <2>3, <2>4, <2>5, ServedOn
<1>7. CASE \E k \in 1..chip.count : MoveData(k)
  <2>1. PICK k \in 1..chip.count : MoveData(k)
    BY <1>7
  <2>2. PICK p \in {"data", "exec"} : tg' = [tg EXCEPT ![bus].pos = @ + k, ![bus].ph = p]
    BY <2>1 DEF MoveData
  <2> DEFINE u == [tg[bus] EXCEPT !.pos = tg[bus].pos + k, !.ph = p]
  <2>3. tg' = [tg EXCEPT ![bus] = u]
    BY <1>2, <2>2
  <2>4. tg[bus].ph = "data"
    BY <1>1, <1>2, <1>7
  <2>5. /\ u.cmd = tg[bus].cmd /\ u.st = tg[bus].st /\ u.ph # "complete"
        /\ ~Tells(u) /\ ~Tells(tg[bus])
    BY <1>2, <2>4 DEF IsUnit, Tells
  <2>6. chip'.int = "none" /\ chip'.xph = chip.xph /\ (chip'.cmd = "info" => chip.cmd = "info")
    BY <1>2, <2>1 DEF MoveData, IsChip
  <2>7. pc # "status"
    BY <1>1, <1>2, <1>7, <1>8 DEF TakeStatus, Ready
  <2> HIDE DEF u
  <2> QED
    BY <1>2, <1>3, <1>4, <2>3, <2>5, <2>6, <2>7, ServedOn
<1> QED
  BY <1>5, <1>6, <1>7

(* The driver's messages are taken.                                        *)
LEMMA ServedMessages ==
  ASSUME Base, CalmInv, ServedInv, TakeMessages, UNCHANGED <<hd, scp, pc, sr>>
  PROVE  ServedInv'
<1> DEFINE ms    == chip.out
           sdtr  == {m.off : m \in {x \in ToSet(ms) : x.msg = "SDTR"}}
           first == ms[1]
           n     == IF first.msg = "IDENTIFY" THEN <<bus[1], first.lun>> ELSE bus
           t     == IF first.msg = "IDENTIFY"
                    THEN [tg[bus] EXCEPT !.ph = "command", !.disc = first.disc]
                    ELSE tg[bus]
           own   == t.pend = "offered"
           off   == CHOOSE x \in sdtr : TRUE
           mode  == IF off > 0 THEN "sync" ELSE "async"
           u(a)  == IF own THEN [t EXCEPT !.pend = "none"]
                    ELSE IF sdtr = {} \/ a = "mute" THEN t
                    ELSE IF a = "agree" THEN [t EXCEPT !.msgs = SDTR(off), !.pend = mode]
                    ELSE [t EXCEPT !.msgs = MESSAGE_REJECT, !.pend = "async"]
<1>1. Ready("MESS_OUT") /\ "MESS_OUT" \in Phases
  BY DEF TakeMessages, Phases
<1>2. /\ chip.int = "none" /\ bus \in Nexus /\ bus # NULL /\ InConnection
      /\ pc # "handle" /\ hd.connected \in Cmds
      /\ IsChip(chip) /\ IsUnit(tg[bus]) /\ tg \in [Nexus -> Units]
      /\ Phase = "MESS_OUT"
  BY <1>1, Serving
<1>3. chip.cmd = "info" /\ chip.xph = "MESS_OUT"
  BY <1>1 DEF Ready, Expected, DataGoesOn
<1>4. ms # <<>>
  BY <1>3 DEF Base, SelectInv, IdentifySent
<1>5. PICK a \in {"agree", "reject", "early", "mute"} :
        /\ bus' = n
        /\ tg' = [tg EXCEPT ![bus] = Idle, ![n] = u(a)]
        /\ chip' = IF a = "early" THEN [chip EXCEPT !.cmd = "none", !.count = 1]
                   ELSE [chip EXCEPT !.cmd = "none", !.count = 0, !.atn = FALSE, !.out = <<>>]
  <2> HIDE DEF sdtr, off
  <2> QED
    BY DEF TakeMessages, Answers, sdtr, off
<1>6. first.msg = "IDENTIFY" => first.lun = Attr[hd.connected].lun /\ tg[bus].ph = "select"
  BY <1>3, <1>4 DEF CalmInv, IdentifyInv, Identifies
<1>7. n = bus
  <2>1. bus = <<Attr[hd.connected].id, Attr[hd.connected].lun>>
    BY <1>2 DEF InConnection, NexusOf
  <2> QED
    BY <1>6, <2>1
<1>8. /\ IsUnit(t) /\ t.cmd = tg[bus].cmd /\ t.st = tg[bus].st
      /\ t.ph = tg[bus].ph \/ (tg[bus].ph = "select" /\ t.ph = "command")
  <2> HIDE DEF first
  <2> QED
    BY <1>2, <1>6 DEF IsUnit
<1>9. tg[bus].ph # "complete"
  BY <1>2 DEF Phase
<1>10. u(a).cmd = t.cmd /\ u(a).ph = t.ph /\ u(a).st = t.st
  <2> HIDE DEF t, sdtr, off, mode
  <2>1. \A m, p : LET v == [t EXCEPT !.msgs = m, !.pend = p]
                  IN v.cmd = t.cmd /\ v.ph = t.ph /\ v.st = t.st
    BY <1>8 DEF IsUnit
  <2>2. LET v == [t EXCEPT !.pend = "none"]
        IN v.cmd = t.cmd /\ v.ph = t.ph /\ v.st = t.st
    BY <1>8 DEF IsUnit
  <2> QED
    BY <2>1, <2>2
<1> DEFINE w == u(a)
<1>11. w.cmd = tg[bus].cmd /\ w.st = tg[bus].st /\ w.ph # "complete"
       /\ (Tells(w) <=> Tells(tg[bus]))
  <2> HIDE DEF t, u
  <2> QED
    BY <1>8, <1>9, <1>10 DEF Tells
<1> HIDE DEF u, n, w
<1>12. tg' = [tg EXCEPT ![bus] = w] /\ bus' = bus
  BY <1>2, <1>5, <1>7 DEF w
<1>13. chip'.int = "none" /\ chip'.cmd = "none" /\ chip'.xph = chip.xph
  BY <1>2, <1>5 DEF IsChip
<1>14. outcome' = outcome
  BY DEF TakeMessages
<1>15. chip'.int \notin Over
  BY <1>13 DEF Over
<1>16. pc # "status"
  BY <1>2 DEF Base, ChipInv
<1> QED
  BY <1>2, <1>11, <1>12, <1>13, <1>14, <1>15, <1>16, ServedOn

(* A message byte is read singly.                                          *)
LEMMA ServedByte ==
  ASSUME Base, CalmInv, ServedInv, TakeByte, UNCHANGED <<hd, scp, pc, sr>>
  PROVE  ServedInv'
<1>1. /\ chip.int = "none" /\ bus \in Nexus /\ bus # NULL /\ InConnection
      /\ pc # "handle" /\ hd.connected \in Cmds
      /\ IsChip(chip) /\ IsUnit(tg[bus]) /\ tg \in [Nexus -> Units]
  BY Serving DEF TakeByte, Phases
<1>2. chip.cmd = "info" /\ chip.xph = "MESS_IN"
  BY DEF TakeByte, Ready, Expected
<1>3. pc = "message"
  BY <1>2 DEF Base, ChipInv
<1>4. chip'.cmd = "none" /\ chip'.int = "MSGIN" /\ chip'.xph = chip.xph
  BY <1>1 DEF TakeByte, IsChip
<1>5. PICK m, s, p : tg' = [tg EXCEPT ![bus].msgs = m, ![bus].saved = s, ![bus].pend = p]
  <2> DEFINE b == tg[bus]
             m == Tail(b.msgs)
             s == IF b.msgs[1] = SAVE_POINTERS[1] /\ b.ph = "away" THEN b.pos ELSE b.saved
             p == IF Len(b.msgs) = 1 /\ b.pend # "offered" THEN "none" ELSE b.pend
  <2>1. tg' = [tg EXCEPT ![bus].msgs = m, ![bus].saved = s, ![bus].pend = p]
    BY <1>1 DEF TakeByte, IsUnit
  <2> QED
    BY <2>1
<1> DEFINE u == [tg[bus] EXCEPT !.msgs = m, !.saved = s, !.pend = p]
<1>6. tg' = [tg EXCEPT ![bus] = u]
  BY <1>1, <1>5
<1>7. u.cmd = tg[bus].cmd /\ u.st = tg[bus].st /\ u.ph = tg[bus].ph
  BY <1>1 DEF IsUnit
<1>8. UNCHANGED <<bus, outcome>>
  BY DEF TakeByte
<1>9. u.ph = "complete" => Noted(chip', u.st)
  BY <1>1, <1>2, <1>3, <1>7 DEF ServedInv, StatusInv, Noted
<1> HIDE DEF u
<1>10. chip'.int \notin Over /\ (Tells(u) <=> Tells(tg[bus])) /\ pc # "status"
  BY <1>3, <1>4, <1>7 DEF Over, Tells
<1> QED
  BY <1>1, <1>4, <1>6, <1>7, <1>8, <1>9, <1>10, ServedOn

(* A message read within a level-2 command.                                *)
LEMMA ServedLevel2Message ==
  ASSUME Base, CalmInv, ServedInv, Level2Message, UNCHANGED <<hd, scp, pc, sr>>
  PROVE  ServedInv'
<1> DEFINE t == tg[bus]
<1>1. /\ chip.int = "none" /\ bus \in Nexus /\ bus # NULL /\ InConnection
      /\ pc # "handle" /\ hd.connected \in Cmds
      /\ IsChip(chip) /\ IsUnit(tg[bus]) /\ tg \in [Nexus -> Units]
      /\ t.msgs # <<>> /\ chip.cmd = "level2" /\ pc \in {"idle", "execute"}
  <2>1. chip.cmd = "level2" /\ pc \in {"idle", "execute"}
    BY DEF Level2Message, Base, ChipInv, InDriver
  <2> QED
    BY <2>1, Serving DEF Level2Message, Phases
<1>2. outcome' = outcome
  BY DEF Level2Message
<1>3. hd.connected # NULL /\ bus = NexusOf(hd.connected) /\ tg[bus].cmd \in {NULL, hd.connected}
  BY <1>1 DEF InConnection
<1>4. t.msgs \in Seq(Nat) /\ Left = t.msgs /\ hd.incoming_msg = <<>> /\ In = Left
  <2>1. t.msgs \in Seq(Nat) /\ Left = t.msgs
    BY <1>1, UnitTypes, LeftIs DEF Base, Types, BusTypes
  <2>2. hd.incoming_msg = <<>>
    BY <1>1 DEF CalmInv, MessagesInv
  <2> QED
    BY <2>1, <2>2, ConcatEmptySeq DEF In
<1>5. CASE t.msgs = COMMAND_COMPLETE
  <2>0. t.msgs # DISCONNECT
    BY <1>5 DEF DISCONNECT, COMMAND_COMPLETE
  <2>1. chip' = [chip EXCEPT !.cmd = "none", !.int = "SEL_XFER_DONE", !.phs = \h60]
        /\ tg' = [tg EXCEPT ![bus] = Idle] /\ bus' = NULL
    BY <1>5, <2>0 DEF Level2Message
  <2>2. chip'.cmd = "none" /\ chip'.int = "SEL_XFER_DONE" /\ chip'.lun = chip.lun
    BY <1>1, <2>1 DEF IsChip
  <2>3. t.ph = "complete"
    <3>1. Left \notin {RESTORE_POINTERS, MESSAGE_REJECT, UnknownMessage} /\ Left # DISCONNECT
          /\ Left # SAVE_POINTERS \o DISCONNECT
      BY <1>4, <1>5, PlainOnes DEF DISCONNECT, RESTORE_POINTERS, MESSAGE_REJECT,
         UnknownMessage, COMMAND_COMPLETE
    <3>2. ~InExtended
      BY <1>4, <1>5 DEF InExtended, COMMAND_COMPLETE
    <3> QED
      BY <1>1, <1>4, <3>1, <3>2 DEF CalmInv, MessagesInv
  <2>4. Noted(chip, t.st) /\ t.st \in {GOOD, CHECK} /\ outcome[hd.connected] = t.st
    <3>1. tg[bus].cmd = hd.connected
      BY <1>1, <2>3 DEF InConnection
    <3> QED
      BY <1>1, <1>3, <2>3, <3>1 DEF ServedInv, StatusInv, GivenInv, Tells
  <2>5. Reported(hd.connected, chip.lun) = t.st
    <3>1. t.st # ILLEGAL
      BY <2>4 DEF GOOD, CHECK, ILLEGAL
    <3>2. scp[hd.connected].Status # ILLEGAL => scp[hd.connected].Status = outcome[hd.connected]
      BY <1>1 DEF ServedInv, OutcomeInv
    <3> QED
      BY <1>1, <2>4, <3>1, <3>2 DEF Noted, Reported
  <2>6. Finds(hd.connected, chip'.int, chip'.lun)
    <3>1. t.st # NONE
      BY <2>4 DEF GOOD, CHECK, NONE
    <3> QED
      BY <2>2, <2>4, <2>5, <3>1 DEF Finds
  <2>7. chip'.int \in Over /\ pc \notin {"handle", "status"}
    BY <1>1, <2>2 DEF Over
  <2> HIDE DEF t
  <2> QED
    BY <1>1, <1>2, <2>1, <2>2, <2>6, <2>7, ServedOff
<1>6. CASE t.msgs = DISCONNECT
  <2> DEFINE u == [t EXCEPT !.msgs = <<>>, !.ph = "disc"]
  <2>0. t.msgs # COMMAND_COMPLETE
    BY <1>6 DEF DISCONNECT, COMMAND_COMPLETE
  <2>1. chip' = [chip EXCEPT !.cmd = "none", !.int = "DISC", !.phs = \h43]
        /\ tg' = [tg EXCEPT ![bus].msgs = <<>>, ![bus].ph = "disc"] /\ bus' = NULL
    BY <1>6, <2>0 DEF Level2Message
  <2>2. chip'.cmd = "none" /\ chip'.int = "DISC" /\ chip'.lun = chip.lun
    BY <1>1, <2>1 DEF IsChip
  <2>3. tg' = [tg EXCEPT ![bus] = u]
    BY <1>1, <2>1
  <2>4. t.ph = "away"
    <3>1. Left \notin {RESTORE_POINTERS, MESSAGE_REJECT, UnknownMessage}
          /\ Left # COMMAND_COMPLETE /\ Left # <<>>
      BY <1>1, <1>4, <1>6, <2>0 DEF DISCONNECT, RESTORE_POINTERS, MESSAGE_REJECT,
         UnknownMessage
    <3>2. ~InExtended
      BY <1>4, <1>6 DEF InExtended, DISCONNECT
    <3> QED
      BY <1>1, <1>4, <3>1, <3>2 DEF CalmInv, MessagesInv
  <2>5. /\ u.cmd = tg[bus].cmd /\ u.st = tg[bus].st /\ ~Tells(u) /\ ~Tells(tg[bus])
        /\ tg[bus].cmd = hd.connected
    BY <1>1, <2>4 DEF IsUnit, InConnection, Tells
  <2>6. hd.state = "S_RUNNING_LEVEL2"
    BY <1>1 DEF CalmInv, Level2Inv
  <2>7. Finds(hd.connected, chip'.int, chip'.lun) /\ chip'.int \in Over
        /\ pc \notin {"handle", "status"}
    BY <1>1, <2>2, <2>6 DEF Finds, Over
  <2> HIDE DEF u, t
  <2> QED
    BY <1>1, <1>2, <2>1, <2>2, <2>3, <2>5, <2>7, ServedOff
<1>7. CASE t.msgs \notin {COMMAND_COMPLETE, DISCONNECT}
  <2> DEFINE u == [t EXCEPT !.msgs = Tail(t.msgs), !.saved = t.pos]
  <2>1. chip' = [chip EXCEPT !.cmd = "none", !.int = "SDP", !.phs = \h41, !.ack = TRUE]
        /\ tg' = [tg EXCEPT ![bus].msgs = Tail(@), ![bus].saved = t.pos] /\ bus' = bus
    BY <1>7 DEF Level2Message
  <2>2. chip'.cmd = "none" /\ chip'.int = "SDP" /\ chip'.xph = chip.xph
    BY <1>1, <2>1 DEF IsChip
  <2>3. tg' = [tg EXCEPT ![bus] = u]
    BY <1>1, <2>1
  <2>4. u.ph = t.ph /\ u.cmd = t.cmd /\ u.st = t.st
    BY <1>1 DEF IsUnit
  <2>5. Head(t.msgs) = 2
    BY <1>1, <1>7 DEF Level2Message, Ready, Expected, DataGoesOn, SAVE_POINTERS
  <2>6. t.ph = "away"
    <3>1. ~InExtended
      BY <1>1, <1>4, <2>5 DEF InExtended
    <3>2. Left \notin {RESTORE_POINTERS, MESSAGE_REJECT, UnknownMessage}
      BY <1>4, <2>5 DEF RESTORE_POINTERS, MESSAGE_REJECT, UnknownMessage
    <3> QED
      BY <1>1, <1>4, <1>7, <3>1, <3>2 DEF CalmInv, MessagesInv
  <2>7. /\ chip'.int \notin Over /\ (Tells(u) <=> Tells(t)) /\ u.ph # "complete"
        /\ pc \notin {"handle", "status"}
    BY <1>1, <2>2, <2>4, <2>6 DEF Over, Tells
  <2> HIDE DEF u
  <2> QED
    BY <1>1, <1>2, <2>1, <2>2, <2>3, <2>4, <2>7, ServedOn
<1> QED
  BY <1>5, <1>6, <1>7

(* A target lets go of the bus after its last message, or drops off it.    *)
LEMMA ServedRelease ==
  ASSUME Base, CalmInv, ServedInv, ReleaseBus \/ Drop, UNCHANGED <<hd, scp, pc, sr>>
  PROVE  ServedInv'
<1> DEFINE t == tg[bus]
<1>1. /\ chip.int = "none" /\ bus # NULL /\ ~chip.ack /\ t.msgs = <<>>
      /\ Drop => t.ph \in {"exec", "data"}
      /\ ReleaseBus => t.ph \in {"away", "complete"}
      /\ UNCHANGED outcome
  BY DEF ReleaseBus, Drop
<1>2. /\ InConnection /\ bus \in Nexus /\ hd.connected \in Cmds
      /\ pc = "handle" => sr.csr \in Phases
  BY <1>1, OnBus
<1>3. /\ IsChip(chip) /\ IsUnit(t) /\ tg \in [Nexus -> Units] /\ t.cmd = hd.connected
      /\ hd.connected # NULL
  BY <1>1, <1>2, RecordDomains DEF Base, Types, BusTypes, InConnection
<1>4. Left = <<>>
  BY <1>1, Silent DEF Base, CalmInv
<1>5. ReleaseBus =>
        /\ pc \in {"idle", "execute"} /\ chip.cmd = "none"
        /\ hd.state = IF t.ph = "away" THEN "S_PRE_TMP_DISC" ELSE "S_PRE_CMP_DISC"
  BY <1>1, <1>4 DEF CalmInv, MessagesInv, Parting
<1>6. /\ bus' = NULL /\ chip'.cmd = "none"
      /\ chip'.int = IF ReleaseBus THEN "DISC" ELSE "UNEXP_DISC"
  BY <1>1, <1>3 DEF ReleaseBus, Drop, IsChip
<1>7. PICK u : /\ tg' = [tg EXCEPT ![bus] = u]
               /\ \/ u = Idle /\ (ReleaseBus => t.ph = "complete")
                  \/ /\ u.cmd = t.cmd /\ u.st = t.st /\ ~Tells(u) /\ ~Tells(t) /\ ReleaseBus
                     /\ t.ph = "away"
  <2>1. CASE Drop
    BY <1>1, <2>1 DEF Drop, ReleaseBus
  <2>2. CASE ReleaseBus /\ t.ph # "away"
    <3>1. tg' = [tg EXCEPT ![bus] = Idle] /\ t.ph = "complete"
      BY <1>3, <2>2 DEF ReleaseBus
    <3> QED
      BY <3>1
  <2>3. CASE ReleaseBus /\ t.ph = "away"
    <3> DEFINE v == [t EXCEPT !.ph = "disc"]
    <3>1. tg' = [tg EXCEPT ![bus] = v]
      BY <1>3, <2>3 DEF ReleaseBus
    <3>2. v.cmd = t.cmd /\ v.st = t.st /\ ~Tells(v) /\ ~Tells(t)
      BY <1>1, <1>3, <2>3 DEF IsUnit, Tells
    <3> HIDE DEF v
    <3> QED
      BY <2>3, <3>1, <3>2
  <2> QED
    BY <2>1, <2>2, <2>3
<1>8. Finds(hd.connected, chip'.int, chip'.lun) /\ chip'.int \in Over
  <2>1. CASE ReleaseBus /\ t.ph = "away"
    BY <1>5, <1>6, <2>1 DEF Finds, Over
  <2>2. CASE ReleaseBus /\ t.ph = "complete"
    <3>1. Noted(chip, t.st) /\ t.st \in {GOOD, CHECK}
      BY <1>1, <1>2, <2>2 DEF ServedInv, StatusInv, GivenInv
    <3>2. scp[hd.connected].Status = t.st
      BY <1>5, <2>2, <3>1 DEF Noted
    <3> QED
      BY <1>6, <2>2, <3>1, <3>2 DEF Finds, Over, GOOD, CHECK, ILLEGAL
  <2>3. CASE ~ReleaseBus
    <3>1. ~Tells(t)
      BY <1>1, <2>3 DEF Tells
    <3>2. outcome[hd.connected] = NONE
      BY <1>2, <1>3, <3>1 DEF ServedInv, GivenInv
    <3> QED
      BY <1>6, <2>3, <3>2 DEF Finds, Over
  <2> QED
    BY <1>1, <2>1, <2>2, <2>3
<1>9. \/ u = Idle
      \/ /\ u.cmd = t.cmd /\ u.st = t.st /\ ~Tells(u) /\ ~Tells(t)
         /\ t.cmd = hd.connected
  BY <1>3, <1>7
<1>10. pc # "status"
  <2>1. Phase \notin {"STATUS", "MESS_IN"}
    BY <1>1, <1>3 DEF Phase
  <2> QED
    BY <2>1 DEF Base, ChipInv
<1> QED
  BY <1>1, <1>2, <1>6, <1>7, <1>8, <1>9, <1>10, ServedOff

(* A selection is answered.                                                *)
LEMMA ServedSelected ==
  ASSUME Base, CalmInv, ServedInv, Selected, UNCHANGED <<hd, scp, pc, sr>>
  PROVE  ServedInv'
<1>1. /\ chip.int = "none" /\ bus = NULL /\ chip.cmd \in {"select", "level2"}
      /\ bus' = <<chip.id, chip.lun>> /\ UNCHANGED outcome
  BY DEF Selected
<1>2. /\ IsChip(chip) /\ tg \in [Nexus -> Units] /\ NULL \notin Nexus
      /\ pc \notin {"handle", "status"} /\ \A n \in Nexus : OffBus(tg[n])
  BY <1>1, FreeBus DEF InDriver
<1> DEFINE c == IF chip.cmd = "select" THEN hd.selecting ELSE hd.connected
<1>3. c # NULL /\ c \in Cmds /\ bus' = NexusOf(c) /\ bus' \in Nexus
  <2>1. c # NULL /\ bus' = NexusOf(c)
    BY <1>1 DEF Base, SelectInv, Selects, SelectsToTransfer
  <2>2. c \in Cmds
    BY <2>1, HostFieldTypes DEF Base, Types, HostTypes
  <2> QED
    BY <2>1, <2>2, AttrTypes
<1>4. /\ chip'.cmd \in {"none", "level2"} /\ chip'.int \in {"none", "SELECT"}
  BY <1>1, <1>2 DEF Selected, IsChip
<1>5. PICK u : /\ tg' = [tg EXCEPT ![bus'] = u] /\ u.cmd = NULL /\ u.st = GOOD
               /\ u.ph \in {"select", "command"}
  <2> DEFINE v == [Idle EXCEPT !.ph = "select"]
             w == [Idle EXCEPT !.ph = "command", !.disc = chip.er]
  <2>1. tg' = [tg EXCEPT ![bus'] = v] \/ tg' = [tg EXCEPT ![bus'] = w]
    BY DEF Selected
  <2>2. v.cmd = NULL /\ v.st = GOOD /\ v.ph = "select"
        /\ w.cmd = NULL /\ w.st = GOOD /\ w.ph = "command"
    BY DEF Idle
  <2> HIDE DEF v, w
  <2> QED
    BY <2>1, <2>2
<1>6. \A event \in Over : ~Pending(event) /\ ~Pending(event)'
  BY <1>1, <1>2, <1>4 DEF Pending, Over
<1>7. ~Ending /\ ~Ending'
  BY <1>6 DEF Ending, Over
<1>8. tg[bus'].cmd = NULL
  <2>1. ~Pending("DISC")
    BY <1>6 DEF Over
  <2>2. \A x \in Gone : NexusOf(x) # NexusOf(c)
    BY <1>3, <2>1, GoneElsewhere DEF Base
  <2>3. tg[bus'].cmd # NULL => NexusOf(tg[bus'].cmd) = bus' /\ tg[bus'].cmd \in Gone
    BY <1>2, <1>3 DEF CalmInv, UnitsInv, OffBus
  <2> QED
    BY <1>3, <2>2, <2>3
<1>9. \A n \in Nexus : tg'[n] = IF n = bus' THEN u ELSE tg[n]
  BY <1>2, <1>5
<1>10. OutcomeInv'
  BY <1>1 DEF ServedInv, OutcomeInv
<1>11. GivenInv'
  BY <1>1, <1>5, <1>9 DEF ServedInv, GivenInv, Tells
<1>12. UntakenInv'
  <2>1. Held' = Held /\ Held \subseteq Cmds
    BY OfCommands DEF Held, Queued, Started, Away, Base
  <2>2. ASSUME NEW x \in Held, Untaken(x)'
        PROVE  Untaken(x)
    <3>1. x \in Cmds /\ x # NULL /\ NexusOf(x) \in Nexus
      BY <2>1, AttrTypes
    <3>2. tg'[NexusOf(x)].cmd # x
      BY <2>2 DEF Untaken
    <3>3. tg[NexusOf(x)].cmd # x
      BY <1>8, <1>9, <3>1, <3>2
    <3> QED
      BY <1>7, <3>3 DEF Untaken
  <2> QED
    BY <1>1, <2>1, <2>2 DEF ServedInv, UntakenInv
<1>13. StatusInv'
  BY <1>2, <1>3, <1>4, <1>5, <1>9 DEF StatusInv
<1>14. ToldInv'
  BY <1>6 DEF ToldInv
<1> QED
  BY <1>10, <1>11, <1>12, <1>13, <1>14 DEF ServedInv

(* A target comes back, or a selection is not answered.                    *)
LEMMA ServedBack ==
  ASSUME Base, CalmInv, ServedInv, UNCHANGED <<hd, scp, pc, sr>>,
         SelectionTimeout \/ \E n \in Nexus : Reselect(n)
  PROVE  ServedInv'
<1>1. chip.int = "none" /\ bus = NULL /\ UNCHANGED outcome
  BY DEF SelectionTimeout, Reselect
<1>2. /\ IsChip(chip) /\ tg \in [Nexus -> Units] /\ NULL \notin Nexus
      /\ pc = "handle" => sr.csr \in Over \cup {"TIMEOUT"}
  BY <1>1, FreeBus
<1>3. chip'.cmd = "none" /\ chip'.int \in {"TIMEOUT", "RESEL_AM"} /\ chip'.lun = chip.lun
  BY <1>2 DEF SelectionTimeout, Reselect, IsChip
<1>4. \A event \in Over : Pending(event)' <=> Pending(event)
  BY <1>1, <1>3 DEF Pending, Over
<1>5. Ending' <=> Ending
  BY <1>4 DEF Ending, Over
<1>6. \A n \in Nexus : /\ tg'[n].cmd = tg[n].cmd /\ tg'[n].st = tg[n].st
                       /\ Tells(tg'[n]) <=> Tells(tg[n])
                       /\ tg'[n].ph = "complete" => tg[n].ph = "complete" /\ n # bus'
  <2>1. CASE SelectionTimeout
    BY <1>1, <1>2, <2>1 DEF SelectionTimeout
  <2>2. CASE \E n \in Nexus : Reselect(n)
    <3>1. PICK n \in Nexus : Reselect(n)
      BY <2>2
    <3>2. IsUnit(tg[n])
      BY <1>2, RecordDomains
    <3>3. tg' = [tg EXCEPT ![n].ph = "exec"] /\ bus' = n /\ tg[n].ph = "disc"
      BY <3>1 DEF Reselect
    <3>4. tg'[n].cmd = tg[n].cmd /\ tg'[n].st = tg[n].st /\ tg'[n].ph = "exec"
      BY <1>2, <3>2, <3>3 DEF IsUnit
    <3>5. \A k \in Nexus : k # n => tg'[k] = tg[k]
      BY <1>2, <3>3
    <3> QED
      BY <3>3, <3>4, <3>5 DEF Tells
  <2> QED
    BY <2>1, <2>2
<1>7. OutcomeInv' /\ GivenInv'
  BY <1>1, <1>6 DEF ServedInv, OutcomeInv, GivenInv
<1>8. UntakenInv'
  <2>1. Held' = Held /\ Held \subseteq Cmds
    BY OfCommands DEF Held, Queued, Started, Away, Base
  <2>2. \A x \in Held : Untaken(x)' => Untaken(x)
    BY <1>5, <1>6, <2>1, AttrTypes DEF Untaken
  <2> QED
    BY <1>1, <2>1, <2>2 DEF ServedInv, UntakenInv
<1>9. StatusInv'
  <2>1. bus' \in Nexus \cup {NULL}
    BY <1>1 DEF SelectionTimeout, Reselect
  <2>2. pc # "status"
    BY <1>1 DEF Base, ChipInv, Phase
  <2> QED
    BY <1>3, <1>6, <2>1, <2>2 DEF StatusInv
<1>10. ToldInv'
  <2>1. \A event \in Over : Finds(hd.connected, event, chip.lun)' <=>
                            Finds(hd.connected, event, chip.lun)
    BY <1>1, <1>3 DEF Finds, Reported
  <2> QED
    BY <1>4, <2>1 DEF ServedInv, ToldInv
<1> QED
  BY <1>7, <1>8, <1>9, <1>10 DEF ServedInv

(* A step of the driver that leaves every command with the driver, and the *)
(* statuses where they are.                                                *)
LEMMA ServedDeals ==
  ASSUME Base, CalmInv, ServedInv, UNCHANGED <<bus, tg, outcome>>, Held' = Held,
         \A x \in Cmds : scp'[x].Status = scp[x].Status,
         Ending' <=> Ending, Ending => hd'.connected = hd.connected,
         chip'.cmd = "info" /\ chip'.xph = "STATUS" => pc' = "status",
         bus # NULL /\ tg[bus].ph = "complete" => Noted(chip, tg[bus].st)',
         pc' = "status" /\ chip'.cmd = "none" =>
           bus # NULL /\ tg[bus].ph = "complete" /\ chip'.byte = tg[bus].st,
         \A event \in Over : Pending(event)' => Pending(event),
         Pending("SEL_XFER_DONE") => chip'.lun = chip.lun,
         Pending("DISC") => hd'.state = hd.state
  PROVE  ServedInv'
<1>1. OutcomeInv' /\ GivenInv'
  BY DEF ServedInv, OutcomeInv, GivenInv
<1>2. UntakenInv'
  BY DEF ServedInv, UntakenInv, Untaken
<1>3. StatusInv'
  BY DEF StatusInv
<1>4. ToldInv'
  <2> SUFFICES ASSUME NEW event \in Over, Pending(event)'
               PROVE  Finds(hd.connected, event, chip.lun)'
    BY DEF ToldInv
  <2>1. Pending(event) /\ Finds(hd.connected, event, chip.lun)
    BY DEF ServedInv, ToldInv
  <2>2. Ending /\ hd'.connected = hd.connected
    BY <2>1 DEF Ending, Over
  <2>3. hd.connected \in Cmds
    BY <2>2, HostFieldTypes DEF CalmInv, EndInv, Base, Types, HostTypes
  <2>4. \A lun : Reported(hd.connected, lun)' = Reported(hd.connected, lun)
    BY <2>2, <2>3 DEF Reported
  <2>5. CASE event = "SEL_XFER_DONE"
    BY <2>1, <2>2, <2>4, <2>5 DEF Finds, Reported
  <2>6. CASE event = "DISC"
    BY <2>1, <2>2, <2>3, <2>6 DEF Finds
  <2>7. CASE event = "UNEXP_DISC"
    BY <2>1, <2>2, <2>7 DEF Finds
  <2> QED
    BY <2>5, <2>6, <2>7 DEF Over
<1> QED
  BY <1>1, <1>2, <1>3, <1>4 DEF ServedInv

(* A phase the chip was not told to serve is reported.                     *)
LEMMA ServedReport ==
  ASSUME Base, CalmInv, ServedInv, ReportPhase, UNCHANGED <<hd, scp, pc, sr>>
  PROVE  ServedInv'
<1>1. /\ UNCHANGED <<bus, tg, outcome>> /\ chip.int = "none" /\ bus # NULL
      /\ Phase # "none" /\ ~Expected
  BY DEF ReportPhase
<1>2. IsChip(chip)
  BY RecordDomains DEF Base, Types, BusTypes
<1>3. /\ chip'.cmd = "none" /\ chip'.int \in Phases /\ chip'.lun = chip.lun
      /\ chip'.byte = chip.byte
  BY <1>1, <1>2, PhaseType DEF ReportPhase, IsChip
<1>4. \A event \in Over : Pending(event)' <=> Pending(event)
  BY <1>1, <1>3 DEF Pending, Over, Phases
<1>5. Ending' <=> Ending
  BY <1>4 DEF Ending, Over
<1>6. Held' = Held
  BY DEF Held, Queued, Started, Away
<1>7. ASSUME tg[bus].ph = "complete"
      PROVE  Noted(chip, tg[bus].st)'
  <2>1. Noted(chip, tg[bus].st)
    BY <1>1, <1>7 DEF ServedInv, StatusInv
  <2>2. ~(chip.cmd = "level2" /\ chip.phs = \h50)
    <3>1. SUFFICES ASSUME chip.cmd = "level2", chip.phs = \h50
                   PROVE  FALSE
      OBVIOUS
    <3>2. tg[bus].msgs # <<>> /\ Phase = "MESS_IN"
      BY <1>1, <1>7 DEF Phase
    <3>3. bus \in Nexus /\ hd.incoming_msg = <<>>
      BY <1>1, <1>7, <3>1, Completes DEF CalmInv, MessagesInv
    <3>4. Left = tg[bus].msgs
      BY <1>1, <3>3, LeftIs DEF Base, Types, BusTypes
    <3>5. tg[bus].msgs = COMMAND_COMPLETE
      BY <1>1, <1>7, <3>2, <3>3, <3>4 DEF CalmInv, MessagesInv, InExtended, Parting
    <3> QED
      BY <1>1, <3>1, <3>2, <3>5 DEF Expected
  <2> QED
    BY <1>1, <1>3, <2>1, <2>2 DEF Noted
<1>8. pc = "status" => bus # NULL /\ tg[bus].ph = "complete" /\ chip'.byte = tg[bus].st
  <2>1. pc = "status" => chip.cmd = "none"
    BY <1>1 DEF Base, ChipInv, Expected
  <2> QED
    BY <1>3, <2>1 DEF ServedInv, StatusInv
<1> QED
  BY <1>1, <1>3, <1>4, <1>5, <1>6, <1>7, <1>8, ServedDeals

(* The target goes on with its command, or says something.                 *)
LEMMA ServedTarget ==
  ASSUME Base, CalmInv, ServedInv, TargetSteps, UNCHANGED <<hd, scp, pc, sr>>
  PROVE  ServedInv'
<1>1. /\ Free("exec") \/ (Free("command") /\ chip.int = "none")
      /\ Free("exec") \/ Quirk
      /\ UNCHANGED <<chip, bus>> /\ (~(\E st \in {GOOD, CHECK} : GiveStatus(st)) => UNCHANGED outcome)
  BY DEF TargetSteps, StartData, GiveStatus, StartDisconnect, Quirk
<1>2. /\ chip.int = "none" /\ InConnection /\ bus \in Nexus /\ bus # NULL
      /\ pc = "handle" => sr.csr \in Phases
  BY <1>1, Thinks
<1>3. /\ IsUnit(tg[bus]) /\ tg \in [Nexus -> Units] /\ "none" \notin Over
      /\ tg[bus].ph \in {"exec", "command"}
  BY <1>1, <1>2, RecordDomains DEF Base, Types, BusTypes, Over, Free
<1>8. pc # "status"
  <2>1. Phase \notin {"STATUS", "MESS_IN"}
    BY <1>1, <1>3 DEF Phase, Free
  <2> QED
    BY <2>1 DEF Base, ChipInv
<1>4. ASSUME NEW u, tg' = [tg EXCEPT ![bus] = u], UNCHANGED outcome,
             u.cmd = tg[bus].cmd, u.st = tg[bus].st,
             u.ph \in {"exec", "command", "data", "away"}
      PROVE  ServedInv'
  <2>1. ~Tells(u) /\ ~Tells(tg[bus]) /\ u.ph # "complete"
    BY <1>3, <1>4 DEF Tells
  <2> QED
    BY <1>1, <1>2, <1>3, <1>4, <1>8, <2>1, ServedOn
<1>5. CASE StartData \/ StartDisconnect
  <2>1. UNCHANGED outcome
    BY <1>5 DEF StartData, StartDisconnect
  <2>2. CASE StartData
    <3> DEFINE u == [tg[bus] EXCEPT !.ph = "data"]
    <3>1. tg' = [tg EXCEPT ![bus] = u]
      BY <1>3, <2>2 DEF StartData
    <3>2. u.cmd = tg[bus].cmd /\ u.st = tg[bus].st /\ u.ph = "data"
      BY <1>3 DEF IsUnit
    <3> HIDE DEF u
    <3> QED
      BY <1>4, <2>1, <3>1, <3>2
  <2>3. CASE StartDisconnect
    <3> DEFINE m == (IF tg[bus].pos # tg[bus].saved THEN SAVE_POINTERS ELSE <<>>) \o DISCONNECT
               u == [tg[bus] EXCEPT !.ph = "away", !.msgs = m]
    <3>1. tg' = [tg EXCEPT ![bus] = u]
      BY <1>3, <2>3 DEF StartDisconnect
    <3> HIDE DEF m
    <3>2. u.cmd = tg[bus].cmd /\ u.st = tg[bus].st /\ u.ph = "away"
      BY <1>3 DEF IsUnit
    <3> HIDE DEF u
    <3> QED
      BY <1>4, <2>1, <3>1, <3>2
  <2> QED
    BY <1>5, <2>2, <2>3
<1>6. CASE Quirk
  <2> DEFINE v(m, pend, pos) ==
               [tg[bus] EXCEPT !.msgs = m, !.odd = TRUE, !.pend = pend, !.pos = pos]
             a(m) == [tg EXCEPT ![bus].msgs = m, ![bus].odd = TRUE]
             b(m) == [tg EXCEPT ![bus].msgs = m, ![bus].odd = TRUE, ![bus].pend = "offered"]
             d(m) == [tg EXCEPT ![bus].msgs = m, ![bus].odd = TRUE, ![bus].pos = tg[bus].saved]
  <2>1. \A m : a(m) = [tg EXCEPT ![bus] = v(m, tg[bus].pend, tg[bus].pos)]
    BY <1>2, <1>3 DEF IsUnit
  <2>2. \A m : b(m) = [tg EXCEPT ![bus] = v(m, "offered", tg[bus].pos)]
    BY <1>2, <1>3 DEF IsUnit
  <2>3. \A m : d(m) = [tg EXCEPT ![bus] = v(m, tg[bus].pend, tg[bus].saved)]
    BY <1>2, <1>3 DEF IsUnit
  <2>4. \E m : tg' = a(m) \/ tg' = b(m) \/ tg' = d(m)
    BY <1>6 DEF Quirk
  <2>5. PICK m : tg' = a(m) \/ tg' = b(m) \/ tg' = d(m)
    BY <2>4
  <2> HIDE DEF a, b, d
  <2>6. PICK pend, pos : tg' = [tg EXCEPT ![bus] = v(m, pend, pos)]
    <3> HIDE DEF v
    <3> QED
      BY <2>1, <2>2, <2>3, <2>5
  <2> DEFINE u == v(m, pend, pos)
  <2>7. u.cmd = tg[bus].cmd /\ u.st = tg[bus].st /\ u.ph = tg[bus].ph
    BY <1>3 DEF IsUnit
  <2>8. UNCHANGED outcome /\ tg' = [tg EXCEPT ![bus] = u]
    BY <1>6, <2>6 DEF Quirk
  <2> HIDE DEF u, v
  <2> QED
    BY <1>3, <1>4, <2>7, <2>8
<1>7. CASE \E st \in {GOOD, CHECK} : GiveStatus(st)
  <2>1. PICK st \in {GOOD, CHECK} : GiveStatus(st)
    BY <1>7
  <2> DEFINE u == [tg[bus] EXCEPT !.ph = "status", !.st = st]
             c == hd.connected
  <2>2. tg[bus].ph = "exec" /\ tg[bus].cmd = c /\ bus = NexusOf(c) /\ c \in Cmds /\ c # NULL
    BY <1>2, <2>1, HostFieldTypes DEF GiveStatus, Free, InConnection, Base, Types, HostTypes
  <2>3. /\ tg' = [tg EXCEPT ![bus] = u] /\ outcome' = [outcome EXCEPT ![c] = st]
    BY <1>3, <2>1, <2>2 DEF GiveStatus
  <2>4. u.cmd = c /\ u.st = st /\ u.ph = "status" /\ Tells(u) /\ ~Tells(tg[bus])
    BY <1>3, <2>2 DEF IsUnit, Tells
  <2> HIDE DEF u
  <2>5. \A n \in Nexus : tg'[n] = IF n = bus THEN u ELSE tg[n]
    BY <1>3, <2>3
  <2>6. outcome[c] = NONE /\ scp[c].Status = ILLEGAL
    BY <1>2, <2>2, <2>4 DEF ServedInv, GivenInv, OutcomeInv
  <2>7. /\ outcome \in [Cmds -> {NONE, GOOD, CHECK}]
        /\ \A x \in Cmds : outcome'[x] = IF x = c THEN st ELSE outcome[x]
    BY <2>2, <2>3 DEF ServedInv, OutcomeInv
  <2>8. OutcomeInv'
    BY <2>2, <2>3, <2>6, <2>7 DEF ServedInv, OutcomeInv
  <2>9. GivenInv'
    <3>1. ASSUME NEW n \in Nexus, n # bus, tg[n].cmd # NULL
          PROVE  tg[n].cmd # c /\ tg[n].cmd \in Cmds
      BY <2>2, <3>1, TakenHeld
    <3> QED
      BY <2>1, <2>2, <2>4, <2>5, <2>7, <3>1 DEF ServedInv, GivenInv
  <2>10. \A event \in Over : ~Pending(event) /\ ~Pending(event)'
    BY <1>1, <1>2 DEF Pending, Over, Phases
  <2>11. ~Ending /\ ~Ending'
    BY <2>10 DEF Ending, Over
  <2>12. UntakenInv'
    <3>1. Held' = Held /\ Held \subseteq Cmds
      BY OfCommands DEF Held, Queued, Started, Away, Base
    <3>2. ASSUME NEW x \in Held, Untaken(x)'
          PROVE  Untaken(x) /\ x # c
      <4>1. x \in Cmds /\ x # NULL /\ NexusOf(x) \in Nexus
        BY <3>1, AttrTypes
      <4>2. tg'[NexusOf(x)].cmd # x
        BY <3>2 DEF Untaken
      <4>3. tg[NexusOf(x)].cmd # x /\ x # c
        BY <2>2, <2>4, <2>5, <4>1, <4>2
      <4> QED
        BY <2>11, <4>3 DEF Untaken
    <3> QED
      BY <2>7, <3>1, <3>2 DEF ServedInv, UntakenInv
  <2>13. StatusInv'
    BY <1>1, <1>2, <1>8, <2>4, <2>5 DEF ServedInv, StatusInv
  <2>14. ToldInv'
    BY <2>10 DEF ToldInv
  <2> QED
    BY <2>8, <2>9, <2>12, <2>13, <2>14 DEF ServedInv
<1> QED
  BY <1>5, <1>6, <1>7 DEF TargetSteps

(* The bus side, whole.                                                    *)
LEMMA ServedBus ==
  ASSUME Base, CalmInv, ServedInv, BusSteps \/ DataSteps
  PROVE  ServedInv'
<1>1. UNCHANGED <<hd, scp, pc, sr>>
  BY DEF BusSteps, DataSteps, DmaMoves, PioMoves, driverVars
<1>2. CASE DataSteps
  <2>1. \E k \in 1..chip.count : MoveData(k)
    BY <1>2 DEF DataSteps, DmaMoves, PioMoves
  <2> QED
    BY <1>1, <2>1, ServedPhases
<1>3. CASE BusSteps
  <2>1. CASE Selected
    BY <1>1, <2>1, ServedSelected
  <2>2. CASE ReportPhase
    BY <1>1, <2>2, ServedReport
  <2>3. CASE TakeCommand \/ TakeStatus
    BY <1>1, <2>3, ServedPhases
  <2>4. CASE TakeMessages
    BY <1>1, <2>4, ServedMessages
  <2>5. CASE TakeByte
    BY <1>1, <2>5, ServedByte
  <2>6. CASE Level2Message
    BY <1>1, <2>6, ServedLevel2Message
  <2>7. CASE ReleaseBus \/ Drop
    BY <1>1, <2>7, ServedRelease
  <2>8. CASE TargetSteps
    BY <1>1, <2>8, ServedTarget
  <2>9. CASE SelectionTimeout \/ \E n \in Nexus : Reselect(n)
    BY <1>1, <2>9, ServedBack
  <2> QED
    BY <1>3, <2>1, <2>2, <2>3, <2>4, <2>5, <2>6, <2>7, <2>8, <2>9 DEF BusSteps, ChipSteps
<1> QED
  BY <1>2, <1>3

-------------------------------------------------------------------------------
(* The driver's side.  The commands it has are those the mid-layer waits   *)
(* for, since none is given up.                                            *)
LEMMA HeldQueued ==
  ASSUME Base, CalmInv
  PROVE  Held = {x \in Cmds : req[x].st = "queued"}
<1>1. Held \subseteq Cmds
  BY OfCommands DEF Base, Held
<1> QED
  BY <1>1 DEF Base, Books, WaitedFor, CalmInv, NobodyGivenUp

(* And so after a step.                                                    *)
LEMMA HeldNext ==
  ASSUME Base', CalmInv'
  PROVE  Held' = {x \in Cmds : req'[x].st = "queued"}
<1>1. /\ hd'.input_Q \in Seq(Cmds) /\ hd'.disconnected_Q \in Seq(Cmds)
      /\ hd'.selecting \in Cmds \cup {NULL} /\ hd'.connected \in Cmds \cup {NULL}
  BY DEF Base, Types, HostTypes, Hosts
<1>2. Held' \subseteq Cmds
  BY <1>1 DEF Held, Queued, Started, Away, ToSet
<1> QED
  BY <1>2 DEF Base, Books, WaitedFor, CalmInv, NobodyGivenUp

(* The status of a command is not touched by what else is written to SCp.  *)
LEMMA StatusStays ==
  ASSUME NEW p \in Pointers
  PROVE  /\ \A b : [p EXCEPT !.phase = b].Status = p.Status
         /\ \A l, q : [p EXCEPT !.left = l, !.ptr = q].Status = p.Status
         /\ \A l, m, q : [p EXCEPT !.left = l, !.more = m, !.ptr = q].Status = p.Status
         /\ \A s : [p EXCEPT !.Status = s].Status = s
BY DEF Pointers

(* wd33c93_execute starts a command, or none.                              *)
LEMMA ServedExecute ==
  ASSUME Base, CalmInv, Base', CalmInv', ServedInv, Execute
  PROVE  ServedInv'
<1>1. /\ pc = "execute" /\ pc' = "idle" /\ UNCHANGED <<req, sr, bus, tg, outcome>>
      /\ IF CannotStart THEN UNCHANGED <<hd, scp, engine, chip>> ELSE Start
  BY DEF Execute, targetVars
<1>2. Held' = Held
  BY <1>1, HeldQueued, HeldNext
<1>3. CASE CannotStart
  <2>1. UNCHANGED <<hd, scp, chip>>
    BY <1>1, <1>3
  <2>2. \A event \in Over : Pending(event)' <=> Pending(event)
    BY <1>1, <2>1 DEF Pending
  <2>3. Ending' <=> Ending
    BY <2>2 DEF Ending, Over
  <2>4. chip'.cmd = "info" /\ chip'.xph = "STATUS" => pc' = "status"
    BY <1>1, <2>1 DEF ServedInv, StatusInv
  <2>5. bus # NULL /\ tg[bus].ph = "complete" => Noted(chip, tg[bus].st)'
    BY <1>1, <2>1 DEF ServedInv, StatusInv, Noted
  <2> QED
    BY <1>1, <1>2, <2>1, <2>2, <2>3, <2>4, <2>5, ServedDeals
<1>4. CASE ~CannotStart
  <2>1. Start /\ hd.connected = NULL
    BY <1>1, <1>4 DEF CannotStart
  <2>2. ~Ending
    BY <2>1 DEF CalmInv, EndInv
  <2>3. \A x \in Cmds : scp'[x].Status = scp[x].Status
    <3>1. \A x \in Cmds : \E b : scp'[x] = [scp[x] EXCEPT !.phase = b]
      BY <2>1 DEF Start
    <3> SUFFICES ASSUME NEW x \in Cmds
                 PROVE  scp'[x].Status = scp[x].Status
      OBVIOUS
    <3>2. scp[x] \in Pointers
      BY DEF Base, Types, HostTypes, PointersOk
    <3>3. \A b : [scp[x] EXCEPT !.phase = b].Status = scp[x].Status
      BY <3>2, StatusStays
    <3> QED
      BY <3>1, <3>3
  <2>4. chip'.int = chip.int /\ (chip'.cmd = "info" => FALSE)
    <3>1. chip.int # "none" => chip'.cmd = chip.cmd /\ chip.cmd = "none"
      BY <1>4, <2>1, StartCalls DEF Base, ChipInv
    <3> QED
      BY <1>4, <2>1, <3>1, StartEffect DEF Base
  <2>5. \A event \in Over : ~Pending(event)' /\ ~Pending(event)
    BY <1>1, <2>2, <2>4 DEF Pending, Ending, Over
  <2>6. ~Ending'
    BY <2>5 DEF Ending, Over
  <2>7. ~(bus # NULL /\ tg[bus].ph = "complete")
    BY <2>1, Completes DEF InConnection
  <2>8. ~Pending("SEL_XFER_DONE") /\ ~Pending("DISC")
    BY <2>5 DEF Over
  <2> QED
    BY <1>1, <1>2, <2>2, <2>3, <2>4, <2>5, <2>6, <2>7, <2>8, ServedDeals
<1> QED
  BY <1>3, <1>4

(* The interrupt is taken: it is pending as before.                        *)
LEMMA ServedInterrupt ==
  ASSUME Base, CalmInv, Base', CalmInv', ServedInv, Interrupt
  PROVE  ServedInv'
<1>1. /\ pc = "idle" /\ pc' = "handle" /\ chip.int # "none" /\ sr'.csr = chip.int
      /\ UNCHANGED <<req, bus, tg, outcome>>
  BY DEF Interrupt, targetVars
<1>2. IsChip(chip) /\ IsHost(hd) /\ chip.cmd = "none"
  BY <1>1, RecordDomains DEF Base, Types, HostTypes, BusTypes, ChipInv
<1>3. chip'.int = "none" /\ chip'.cmd = "none" /\ chip'.lun = chip.lun
  BY <1>2 DEF Interrupt, IsChip
<1>4. hd'.connected = hd.connected /\ hd'.state = hd.state
  BY <1>2 DEF Interrupt, DmaStop, IsHost
<1>5. \A x \in Cmds : scp'[x].Status = scp[x].Status
  <2>1. scp \in [Cmds -> Pointers]
    BY DEF Base, Types, HostTypes, PointersOk
  <2>2. scp' = scp \/ scp' = [scp EXCEPT ![hd.connected] = Moved(hd.connected)]
    BY DEF Interrupt
  <2>3. \A c \in Cmds : Moved(c).Status = scp[c].Status
    BY <2>1, StatusStays DEF Moved
  <2> QED
    BY <2>1, <2>2, <2>3
<1>6. \A event \in Over : Pending(event)' <=> Pending(event)
  BY <1>1, <1>3 DEF Pending, Over
<1>7. Ending' <=> Ending
  BY <1>6 DEF Ending, Over
<1>8. ASSUME bus # NULL, tg[bus].ph = "complete"
      PROVE  Noted(chip, tg[bus].st)'
  <2>1. scp[hd.connected].Status = tg[bus].st
    BY <1>1, <1>2, <1>8 DEF ServedInv, StatusInv, Noted
  <2> QED
    BY <1>1, <1>4, <1>5, <1>8, <2>1, Completes DEF Noted
<1>9. Held' = Held
  BY <1>1, HeldQueued, HeldNext
<1> QED
  BY <1>1, <1>3, <1>4, <1>5, <1>6, <1>7, <1>8, <1>9, ServedDeals

(* A setting is changed.                                                   *)
LEMMA ServedSettings ==
  ASSUME Base, CalmInv, Base', CalmInv', ServedInv, WriteInfo
  PROVE  ServedInv'
<1>1. UNCHANGED <<scp, pc, sr, req, chip, bus, tg, outcome>>
  BY DEF WriteInfo, busVars
<1>2. hd'.connected = hd.connected /\ hd'.state = hd.state
  BY RecordDomains, WriteInfoLeaves DEF Base, Types, HostTypes
<1>3. Held' = Held
  BY <1>1, HeldQueued, HeldNext
<1>4. \A event \in Over : Pending(event)' <=> Pending(event)
  BY <1>1 DEF Pending
<1>5. Ending' <=> Ending
  BY <1>4 DEF Ending, Over
<1>6. chip'.cmd = "info" /\ chip'.xph = "STATUS" => pc' = "status"
  BY <1>1 DEF ServedInv, StatusInv
<1>7. bus # NULL /\ tg[bus].ph = "complete" => Noted(chip, tg[bus].st)'
  BY <1>1, <1>2 DEF ServedInv, StatusInv, Noted
<1>8. pc' = "status" /\ chip'.cmd = "none" =>
        bus # NULL /\ tg[bus].ph = "complete" /\ chip'.byte = tg[bus].st
  BY <1>1 DEF ServedInv, StatusInv
<1> QED
  BY <1>1, <1>2, <1>3, <1>4, <1>5, <1>6, <1>7, <1>8, ServedDeals

(* A command is queued: no target has it, and it has no status.            *)
LEMMA ServedQueue ==
  ASSUME Base, CalmInv, Base', CalmInv', ServedInv, NEW c \in Cmds, Queue(c)
  PROVE  ServedInv'
<1>1. /\ UNCHANGED <<chip, bus, tg, sr>> /\ pc = "idle" /\ pc' = "execute"
      /\ req[c].st \in {"free", "done"} /\ req' = [req EXCEPT ![c] = [st |-> "queued", res |-> NoResult]]
      /\ outcome' = [outcome EXCEPT ![c] = NONE] /\ scp' = [scp EXCEPT ![c] = FreshSCp(c)]
      /\ \E q : hd' = [hd EXCEPT !.input_Q = q]
  BY DEF Queue, QueueCommand
<1>2. /\ IsHost(hd) /\ scp \in [Cmds -> Pointers] /\ req \in [Cmds -> Requests]
      /\ outcome \in [Cmds -> {NONE, GOOD, CHECK}]
  BY RecordDomains DEF Base, Types, HostTypes, PointersOk, ServedInv, OutcomeInv
<1>3. hd'.connected = hd.connected /\ hd'.state = hd.state
  BY <1>1, <1>2 DEF IsHost
<1>4. c \notin Held /\ Held' = Held \cup {c}
  <2>1. \A x \in Cmds : req'[x].st = IF x = c THEN "queued" ELSE req[x].st
    BY <1>1, <1>2
  <2> QED
    BY <1>1, <2>1, HeldQueued, HeldNext
<1>5. c # hd.connected /\ \A n \in Nexus : tg[n].cmd # c
  <2>1. c # NULL
    BY AttrTypes
  <2> QED
    BY <1>4, <2>1, TakenHeld DEF Held, Started
<1>6. FreshSCp(c).Status = ILLEGAL
  BY DEF FreshSCp
<1>7. OutcomeInv'
  BY <1>1, <1>2, <1>6 DEF ServedInv, OutcomeInv
<1>8. GivenInv'
  <2>1. \A n \in Nexus : tg[n].cmd # NULL => tg[n].cmd \in Cmds
    BY TakenHeld
  <2> QED
    BY <1>1, <1>2, <1>5, <2>1 DEF ServedInv, GivenInv
<1>9. \A event \in Over : Pending(event)' <=> Pending(event)
  BY <1>1 DEF Pending
<1>10. Ending' <=> Ending
  BY <1>9 DEF Ending, Over
<1>11. UntakenInv'
  <2>1. \A x \in Held : x \in Cmds
    BY OfCommands DEF Base, Held
  <2>2. \A x \in Held : Untaken(x)' => Untaken(x)
    BY <1>1, <1>3, <1>10 DEF Untaken
  <2>3. \A x \in Held' : outcome'[x] = IF x = c THEN NONE ELSE outcome[x]
    BY <1>1, <1>2, <1>4, <2>1
  <2> QED
    BY <1>4, <2>2, <2>3 DEF ServedInv, UntakenInv
<1>12. StatusInv'
  <2>1. ~(chip'.cmd = "info" /\ chip'.xph = "STATUS")
    BY <1>1 DEF ServedInv, StatusInv
  <2>2. ASSUME bus # NULL, tg[bus].ph = "complete"
        PROVE  Noted(chip, tg[bus].st)'
    <3>1. scp'[hd.connected] = scp[hd.connected]
      BY <1>1, <1>2, <1>5, <2>2, Completes
    <3> QED
      BY <1>1, <1>3, <2>2, <3>1 DEF ServedInv, StatusInv, Noted
  <2> QED
    BY <1>1, <2>1, <2>2 DEF StatusInv
<1>13. ToldInv'
  <2> SUFFICES ASSUME NEW event \in Over, Pending(event)'
               PROVE  Finds(hd.connected, event, chip.lun)'
    BY DEF ToldInv
  <2>1. Pending(event) /\ Finds(hd.connected, event, chip.lun)
    BY <1>9 DEF ServedInv, ToldInv
  <2>2. hd.connected \in Cmds
    <3>1. Ending
      BY <2>1 DEF Ending, Over
    <3> QED
      BY <3>1, HostFieldTypes DEF CalmInv, EndInv, Base, Types, HostTypes
  <2>3. scp'[hd.connected] = scp[hd.connected] /\ outcome'[hd.connected] = outcome[hd.connected]
    BY <1>1, <1>2, <1>5, <2>2
  <2> QED
    BY <1>1, <1>3, <2>1, <2>3 DEF Finds, Reported
<1> QED
  BY <1>7, <1>8, <1>11, <1>12, <1>13 DEF ServedInv

(* A phase the target asks for is dealt with.                              *)
LEMMA ServedCase ==
  ASSUME Base, CalmInv, Base', CalmInv', ServedInv, pc = "handle",
         pc' \in {"idle", "pio", "sent", "status", "message"},
         sr.csr \in Phases \cup {"SDP"}, UNCHANGED <<bus, tg, outcome, req>>,
         hd'.connected = hd.connected, \A x \in Cmds : scp'[x].Status = scp[x].Status,
         chip'.int = chip.int, chip'.cmd = "info" /\ chip'.xph = "STATUS" => pc' = "status",
         pc' = "status" => chip'.cmd # "none"
  PROVE  ServedInv'
<1>1. Held' = Held
  BY HeldQueued, HeldNext
<1>2. \A event \in Over : Pending(event)' <=> Pending(event)
  BY DEF Pending, Over, Phases
<1>3. Ending' <=> Ending
  BY <1>2 DEF Ending, Over
<1>4. ~Pending("SEL_XFER_DONE") /\ ~Pending("DISC")
  <2>1. chip.int \in {"none", "UNEXP_DISC"}
    BY DEF CalmInv, EndInv, Over, Phases
  <2> QED
    BY <2>1 DEF Pending, Phases
<1>5. ASSUME bus # NULL, tg[bus].ph = "complete"
      PROVE  Noted(chip, tg[bus].st)'
  <2>1. scp[hd.connected].Status = tg[bus].st
    BY <1>5 DEF ServedInv, StatusInv, Noted, Base, ChipInv
  <2> QED
    BY <1>5, <2>1, Completes DEF Noted
<1> QED
  BY <1>1, <1>2, <1>3, <1>4, <1>5, ServedDeals

(* What a case of a phase asks of the chip.                                *)
LEMMA HandleAsks ==
  ASSUME Base, OnData \/ OnCommand \/ OnMessageOut \/ OnStatus \/ OnMessageIn \/ OnSdp
  PROVE  /\ chip'.int = chip.int
         /\ chip'.cmd = "info" => chip'.xph = Phase /\ chip.int = "none"
         /\ OnStatus /\ chip.int = "none" => chip'.cmd = "info"
<1> DEFINE Set(ch) == IsChip(ch) /\ ch.cmd = "none" /\ ch.int = chip.int
<1>1. IsChip(chip) /\ chip.cmd = "none"
  <2>1. pc = "handle"
    BY DEF OnData, OnCommand, OnMessageOut, OnStatus, OnMessageIn, OnSdp, CommandCase, Case
  <2> QED
    BY <2>1, RecordDomains DEF Base, Types, BusTypes, ChipInv
<1>2. \/ chip' = chip /\ ~OnStatus
      \/ \E ch : Set(ch) /\ chip' = TransInfo(ch)
      \/ (\E ch, n : Set(ch) /\ chip' = SelAtnXfer(ch, n)) /\ ~OnStatus
  <2> DEFINE T(y, b, n) == [chip EXCEPT !.sync = y, !.polled = b, !.count = n]
  <2>1. ASSUME OnData
        PROVE  \/ chip' = chip
               \/ \E y, b, n : chip' = TransInfo(T(y, b, n)) \/ chip' = SelAtnXfer(T(y, b, n), \h45)
    BY <2>1 DEF OnData, TransferNothing, TransferByDma, TransferByPio
  <2>2. \A y, b, n : Set(T(y, b, n))
    BY <1>1 DEF IsChip
  <2>3. CASE OnData
    <3>1. ~OnStatus
      BY <2>3 DEF OnData, OnStatus, CommandCase, Case
    <3> HIDE DEF T, Set
    <3> QED
      BY <2>1, <2>2, <2>3, <3>1
  <2>4. CASE OnCommand
    <3> DEFINE ch == [chip EXCEPT !.polled = TRUE, !.count = 1, !.cdb = hd.connected]
    <3>1. Set(ch) /\ chip' = TransInfo(ch)
      BY <1>1, <2>4 DEF OnCommand, IsChip
    <3> HIDE DEF ch, Set
    <3> QED
      BY <3>1
  <2>5. CASE OnMessageOut
    <3> DEFINE o == IF hd.outgoing_msg = <<>> THEN <<Plain("NOP")>> ELSE hd.outgoing_msg
               ch == [chip EXCEPT !.polled = TRUE, !.count = Len(o), !.out = o]
    <3>1. chip' = TransInfo(ch)
      BY <2>5 DEF OnMessageOut
    <3> HIDE DEF o
    <3>2. Set(ch)
      BY <1>1 DEF IsChip
    <3> HIDE DEF ch, Set
    <3> QED
      BY <3>1, <3>2
  <2>6. CASE OnStatus \/ OnMessageIn
    <3> DEFINE ch == [chip EXCEPT !.polled = TRUE]
    <3>1. Set(ch) /\ chip' = TransInfo(ch)
      BY <1>1, <2>6 DEF OnStatus, OnMessageIn, ReadByte, IsChip
    <3> HIDE DEF ch, Set
    <3> QED
      BY <3>1
  <2>7. CASE OnSdp
    <3>1. Set(chip) /\ chip' = SelAtnXfer(chip, \h41) /\ ~OnStatus
      BY <1>1, <2>7 DEF OnSdp, OnStatus, CommandCase, Case
    <3> HIDE DEF Set
    <3> QED
      BY <3>1
  <2> QED
    BY <2>3, <2>4, <2>5, <2>6, <2>7
<1>3. ASSUME NEW ch, Set(ch)
      PROVE  /\ TransInfo(ch).int = chip.int
             /\ \A n : SelAtnXfer(ch, n).int = chip.int /\ SelAtnXfer(ch, n).cmd # "info"
             /\ TransInfo(ch).cmd = "info" => TransInfo(ch).xph = Phase /\ chip.int = "none"
             /\ chip.int = "none" => TransInfo(ch).cmd = "info"
  BY <1>3 DEF TransInfo, SelAtnXfer, Issue, IsChip
<1> HIDE DEF Set
<1> QED
  BY <1>1, <1>2, <1>3

(* The cases of the phases, and of save-data-pointers.                     *)
LEMMA ServedOnPhase ==
  ASSUME Base, CalmInv, Base', CalmInv', ServedInv,
         OnData \/ OnCommand \/ OnMessageOut \/ OnStatus \/ OnMessageIn \/ OnSdp
  PROVE  ServedInv'
<1>1. /\ pc = "handle" /\ pc' \in {"idle", "pio", "sent", "status", "message"}
      /\ sr.csr \in Phases \cup {"SDP"} /\ UNCHANGED <<bus, tg, outcome, req>>
      /\ pc' = "status" => OnStatus
      /\ OnStatus => sr.csr = "STATUS" /\ pc' = "status"
      /\ sr.csr = "STATUS" => OnStatus
  BY DEF OnData, OnCommand, OnMessageOut, OnStatus, OnMessageIn, OnSdp, CommandCase, Case, Rest,
     targetVars, TransferNothing, TransferByDma, TransferByPio, ReadByte, Phases
<1>2. sr.csr = "STATUS" => chip.int = "none"
  BY <1>1 DEF Base, ChipInv, Phases
<1>3. sr.csr \in Phases /\ chip.int = "none" => Phase = sr.csr
  BY <1>1 DEF Base, ChipInv
<1>4. sr.csr = "SDP" => Phase = "none"
  BY <1>1 DEF Base, ChipInv, Phase
<1>5. chip'.int = chip.int /\ (chip'.cmd = "info" /\ chip'.xph = "STATUS" => pc' = "status")
      /\ (pc' = "status" => chip'.cmd # "none")
  BY <1>1, <1>2, <1>3, <1>4, HandleAsks
<1>6. hd'.connected = hd.connected
  <2>1. IsHost(hd)
    BY RecordDomains DEF Base, Types, HostTypes
  <2>2. CASE OnData
    <3>1. PICK h : /\ \/ h = hd \/ (\E via : h = DmaSetup(hd, via))
                      \/ \E b : h = [hd EXCEPT !.bounce = b]
                   /\ hd' = Connected(h) \/ hd' = [h EXCEPT !.state = "S_RUNNING_LEVEL2"]
      BY <2>2 DEF OnData, TransferNothing, TransferByDma, TransferByPio
    <3>2. IsHost(h) /\ h.connected = hd.connected
      BY <2>1, <3>1 DEF DmaSetup, IsHost
    <3> QED
      BY <3>1, <3>2 DEF Connected, IsHost
  <2> QED
    BY <2>1, <2>2 DEF OnCommand, OnMessageOut, OnStatus, OnMessageIn, OnSdp, IsHost
<1>7. \A x \in Cmds : scp'[x].Status = scp[x].Status
  <2>1. scp \in [Cmds -> Pointers]
    BY DEF Base, Types, HostTypes, PointersOk
  <2>2. CASE OnData
    <3>1. \A c \in Cmds : NextBuffer(c).Status = scp[c].Status
      <4> SUFFICES ASSUME NEW c \in Cmds
                   PROVE  NextBuffer(c).Status = scp[c].Status
        OBVIOUS
      <4> DEFINE P == scp[c]
                 M == P.more - 1
                 Q == (Attr[c].nbufs - P.more) * Attr[c].blen
      <4>1. \/ NextBuffer(c) = [P EXCEPT !.left = Attr[c].blen, !.more = M, !.ptr = Q]
            \/ NextBuffer(c) = P
        BY DEF NextBuffer
      <4>2. P \in Pointers
        BY <2>1
      <4> HIDE DEF P, M, Q
      <4>3. \A l, m, q : [P EXCEPT !.left = l, !.more = m, !.ptr = q].Status = P.Status
        BY <4>2, StatusStays
      <4>4. [P EXCEPT !.left = Attr[c].blen, !.more = M, !.ptr = Q].Status = P.Status
        BY <4>3
      <4>5. NextBuffer(c).Status = P.Status
        BY <4>1, <4>4
      <4> QED
        BY <4>5 DEF P
    <3>2. scp' = [scp EXCEPT ![hd.connected] = NextBuffer(hd.connected)]
      BY <2>2 DEF OnData
    <3> QED
      BY <2>1, <3>1, <3>2
  <2> QED
    BY <2>2 DEF OnCommand, OnMessageOut, OnStatus, OnMessageIn, OnSdp
<1> QED
  BY <1>1, <1>5, <1>6, <1>7, ServedCase

(* A selection has been won, or a target has come back.                    *)
LEMMA ServedConnects ==
  ASSUME Base, CalmInv, Base', CalmInv', ServedInv, OnSelect \/ OnReselect
  PROVE  ServedInv'
<1>1. /\ pc = "handle" /\ pc' = "idle" /\ UNCHANGED <<scp, bus, tg, outcome, req>>
      /\ IF OnSelect THEN sr.csr = "SELECT" ELSE sr.csr = "RESEL_AM"
  BY DEF OnSelect, OnReselect, Case, Rest, targetVars
<1>2. chip'.int = chip.int /\ chip'.cmd # "info"
  <2>1. IsChip(chip) /\ chip.cmd = "none"
    BY <1>1, RecordDomains DEF Base, Types, BusTypes, ChipInv
  <2>2. CASE OnSelect
    BY <2>1, <2>2 DEF OnSelect
  <2>3. CASE OnReselect
    <3> DEFINE c == hd.disconnected_Q[Reconnecting]
               d == [chip EXCEPT !.id = Attr[c].id, !.dpd = Attr[c].in]
    <3>1. chip' = SelAtnXfer(NoCount(d), \h45) \/ chip' = NegateAck(d)
      BY <2>3 DEF OnReselect
    <3>2. IsChip(d) /\ d.int = chip.int /\ d.cmd = "none"
      BY <2>1 DEF IsChip
    <3> HIDE DEF d
    <3> QED
      BY <3>1, <3>2 DEF SelAtnXfer, NegateAck, NoCount, Issue, IsChip
  <2> QED
    BY <2>2, <2>3
<1>3. chip.int \in {"none"} \cup Phases
  BY <1>1 DEF CalmInv, EndInv, Over, Phases
<1>4. \A event \in Over : ~Pending(event)' /\ ~Pending(event)
  BY <1>1, <1>2, <1>3 DEF Pending, Over, Phases
<1>5. ~Ending' /\ ~Ending /\ ~Pending("SEL_XFER_DONE") /\ ~Pending("DISC")
  BY <1>4 DEF Ending, Over
<1>6. ~(bus # NULL /\ tg[bus].ph = "complete")
  <2>1. Pending("SELECT") \/ Pending("RESEL_AM")
    BY <1>1 DEF Pending
  <2> QED
    BY <2>1, Completes DEF InConnection
<1>7. Held' = Held
  BY <1>1, HeldQueued, HeldNext
<1> QED
  BY <1>1, <1>2, <1>4, <1>5, <1>6, <1>7, ServedDeals

(* A connection that has come to its end, or a selection given up.         *)
LEMMA ServedEnds ==
  ASSUME Base, CalmInv, ServedInv, pc = "handle", sr.csr \in Over \cup {"TIMEOUT"},
         UNCHANGED <<bus, tg, outcome>>, chip'.cmd = chip.cmd, chip'.int = chip.int,
         pc' = "execute", OutcomeInv', Held' \subseteq Held,
         Ending /\ hd.connected \in Held' => tg[NexusOf(hd.connected)].cmd = hd.connected
  PROVE  ServedInv'
<1>1. chip.int \in {"none", "RESEL_AM"} /\ chip.cmd = "none"
  BY DEF CalmInv, EndInv, Over, Phases, Base, ChipInv
<1>2. \A event \in Over : ~Pending(event)'
  BY <1>1 DEF Pending, Over
<1>3. ~Ending'
  BY <1>2 DEF Ending, Over
<1>4. GivenInv'
  BY DEF ServedInv, GivenInv
<1>5. UntakenInv'
  <2>1. ASSUME NEW x \in Held', Untaken(x)'
        PROVE  Untaken(x)
    BY <2>1 DEF Untaken
  <2> QED
    BY <2>1 DEF ServedInv, UntakenInv
<1>6. StatusInv'
  <2>1. Ending \/ Pending("TIMEOUT")
    BY DEF Ending, Over, Pending
  <2>2. ~(bus # NULL /\ tg[bus].ph = "complete")
    BY <2>1, Completes DEF InConnection
  <2> QED
    BY <1>1, <2>2 DEF StatusInv
<1>7. ToldInv'
  BY <1>2 DEF ToldInv
<1> QED
  BY <1>4, <1>5, <1>6, <1>7 DEF ServedInv

(* What the driver has at the end of a connection is what was reported.    *)
LEMMA ServedOnEnds ==
  ASSUME Base, CalmInv, Base', CalmInv', ServedInv,
         OnTimeout \/ OnSelXferDone \/ OnUnexpDisc \/ OnDisc
  PROVE  ServedInv'
<1>1. /\ pc = "handle" /\ pc' = "execute" /\ UNCHANGED <<bus, tg, outcome, sr>>
      /\ sr.csr \in Over \cup {"TIMEOUT"} /\ chip' \in {chip, EnableReselection}
  BY DEF OnTimeout, OnSelXferDone, OnUnexpDisc, OnDisc, CommandCase, Case, Restart, Rest,
     targetVars, Over
<1>2. IsHost(hd) /\ IsChip(chip) /\ req \in [Cmds -> Requests]
  BY RecordDomains DEF Base, Types, HostTypes, BusTypes
<1>3. chip'.cmd = chip.cmd /\ chip'.int = chip.int
  BY <1>1, <1>2 DEF EnableReselection, IsChip
<1>4. chip.int \in {"none", "RESEL_AM"}
  BY <1>1 DEF CalmInv, EndInv, Over, Phases
<1>5. /\ \A event \in Over : Pending(event) <=> sr.csr = event
      /\ Ending <=> sr.csr \in Over
  BY <1>1, <1>4 DEF Pending, Ending, Over
<1>6. Ending => hd.connected \in Cmds
  BY HostFieldTypes DEF CalmInv, EndInv, Base, Types, HostTypes
<1>7. ASSUME NEW c \in Cmds, NEW res, ScsiDone(c, res)
      PROVE  Held' \subseteq Held \ {c}
  <2>1. req'[c].st # "queued" /\ \A x \in Cmds : req'[x].st = "queued" => req[x].st = "queued"
    BY <1>2, <1>7 DEF ScsiDone
  <2> QED
    BY <2>1, HeldQueued, HeldNext
<1>8. UNCHANGED req => Held' = Held
  BY HeldQueued, HeldNext
<1>9. CASE OnTimeout
  <2>1. ~Ending /\ UNCHANGED scp
    BY <1>5, <1>9 DEF OnTimeout, Case, Over
  <2>2. OutcomeInv'
    BY <1>1, <2>1 DEF ServedInv, OutcomeInv
  <2>3. Held' \subseteq Held
    <3>1. \A x \in Cmds : req'[x].st = "queued" => req[x].st = "queued"
      BY <1>2, <1>9 DEF OnTimeout, ScsiDone
    <3> QED
      BY <3>1, HeldQueued, HeldNext
  <2> QED
    BY <1>1, <1>3, <2>1, <2>2, <2>3, ServedEnds
<1>10. CASE OnSelXferDone
  <2> DEFINE c == hd.connected
             status == Reported(c, chip.lun)
  <2>1. sr.csr = "SEL_XFER_DONE" /\ c \in Cmds
    BY <1>5, <1>6, <1>10 DEF OnSelXferDone, CommandCase, Case, Over
  <2>2. status = outcome[c] /\ outcome[c] # NONE
    BY <1>5, <2>1 DEF ServedInv, ToldInv, Finds, Over
  <2>3. scp' = [scp EXCEPT ![c].Status = status] /\ ScsiDone(c, Finished(c, status))
    BY <1>10 DEF OnSelXferDone, Reported
  <2>4. Held' \subseteq Held \ {c}
    BY <1>7, <2>1, <2>3
  <2>5. scp \in [Cmds -> Pointers]
    BY DEF Base, Types, HostTypes, PointersOk
  <2> HIDE DEF status
  <2>6. \A x \in Cmds : scp'[x].Status = IF x = c THEN status ELSE scp[x].Status
    <3>1. [scp[c] EXCEPT !.Status = status].Status = status
      BY <2>1, <2>5, StatusStays
    <3> QED
      BY <2>1, <2>3, <2>5, <3>1
  <2>7. OutcomeInv'
    BY <1>1, <2>2, <2>6 DEF ServedInv, OutcomeInv
  <2> QED
    BY <1>1, <1>3, <2>4, <2>7, ServedEnds
<1>11. CASE OnUnexpDisc \/ OnDisc
  <2> DEFINE c == hd.connected
  <2>1. sr.csr \in {"UNEXP_DISC", "DISC"} /\ c \in Cmds
    BY <1>5, <1>6, <1>11 DEF OnUnexpDisc, OnDisc, CommandCase, Case, Over
  <2>2. UNCHANGED scp
    BY <1>11 DEF OnUnexpDisc, OnDisc
  <2>3. OutcomeInv'
    BY <1>1, <2>2 DEF ServedInv, OutcomeInv
  <2>4. CASE \E res : ScsiDone(c, res)
    <3>1. Held' \subseteq Held \ {c}
      BY <1>7, <2>1, <2>4
    <3> QED
      BY <1>1, <1>3, <2>3, <3>1, ServedEnds
  <2>5. CASE OnDisc /\ hd.state # "S_PRE_CMP_DISC"
    <3>1. UNCHANGED req /\ sr.csr = "DISC"
      BY <2>1, <2>5 DEF OnDisc, Case
    <3>2. c \in Gone
      BY <1>5, <2>5, <3>1 DEF Gone, Leaver, Over
    <3>3. tg[NexusOf(c)].cmd = c
      BY <3>2 DEF CalmInv, UnitsInv
    <3> QED
      BY <1>1, <1>3, <1>8, <2>3, <3>1, <3>3, ServedEnds
  <2> QED
    <3>3. c # NULL
      BY <2>1, OfCommands DEF Base
    <3>1. OnDisc /\ hd.state = "S_PRE_CMP_DISC" => ScsiDone(c, Finished(c, scp[c].Status))
      BY <3>3 DEF OnDisc
    <3>2. OnUnexpDisc => ScsiDone(c, Finished(c, scp[c].Status))
      BY DEF OnUnexpDisc
    <3> QED
      BY <1>11, <2>4, <2>5, <3>1, <3>2
<1> QED
  BY <1>9, <1>10, <1>11

(* The handler, whole.                                                     *)
LEMMA ServedHandle ==
  ASSUME Base, CalmInv, Base', CalmInv', ServedInv, HandleInterrupt
  PROVE  ServedInv'
<1>1. ~AlreadyDisconnected
  <2>1. SUFFICES ASSUME AlreadyDisconnected PROVE FALSE
    OBVIOUS
  <2>2. Pending("UNEXP_DISC") /\ hd.connected = NULL
    BY <2>1 DEF AlreadyDisconnected, Case, Pending
  <2> QED
    BY <2>2 DEF CalmInv, EndInv, Ending
<1>2. ~OnStrayReselect
  <2>1. SUFFICES ASSUME OnStrayReselect PROVE FALSE
    OBVIOUS
  <2>2. pc = "handle" /\ sr.csr = "RESEL_AM" /\ Reconnecting = 0
    BY <2>1 DEF OnStrayReselect, Case
  <2> QED
    BY <2>2, CalmKnown DEF Known
<1> QED
  BY <1>1, <1>2, ServedOnEnds, ServedOnPhase, ServedConnects DEF HandleInterrupt

(* The status byte is read: it is the one the target sent.                 *)
LEMMA ServedStatusRead ==
  ASSUME Base, CalmInv, Base', CalmInv', ServedInv, StatusRead
  PROVE  ServedInv'
<1> DEFINE c == hd.connected
<1>1. /\ pc = "status" /\ pc' = "idle" /\ UNCHANGED <<req, sr, bus, tg, outcome>>
      /\ scp' = [scp EXCEPT ![c].Status = chip.byte]
      /\ chip' = chip \/ chip' = SelAtnXfer(Cleared, \h50)
      /\ chip.int # "none"
  BY DEF StatusRead, Rest, targetVars
<1>2. IsHost(hd) /\ IsChip(chip) /\ scp \in [Cmds -> Pointers]
  BY RecordDomains DEF Base, Types, HostTypes, BusTypes, PointersOk
<1>3. chip.int = "MESS_IN" /\ chip.cmd = "none"
  BY <1>1 DEF Base, ChipInv
<1>4. bus # NULL /\ tg[bus].ph = "complete" /\ chip.byte = tg[bus].st
  BY <1>1, <1>3 DEF ServedInv, StatusInv
<1>5. InConnection /\ c \in Cmds /\ bus \in Nexus
  BY <1>4, Completes
<1>6. outcome[c] = chip.byte /\ outcome[c] # NONE
  <2>1. tg[bus].cmd = c /\ c # NULL /\ Tells(tg[bus])
    BY <1>4, <1>5 DEF InConnection, Tells
  <2>2. GOOD # NONE /\ CHECK # NONE
    BY DEF GOOD, CHECK, NONE
  <2> QED
    BY <1>4, <1>5, <2>1, <2>2 DEF ServedInv, GivenInv
<1>7. \A x \in Cmds : scp'[x].Status = IF x = c THEN chip.byte ELSE scp[x].Status
  <2>1. [scp[c] EXCEPT !.Status = chip.byte].Status = chip.byte
    BY <1>2, <1>5, StatusStays
  <2> QED
    BY <1>1, <1>2, <1>5, <2>1
<1>8. OutcomeInv'
  BY <1>1, <1>6, <1>7 DEF ServedInv, OutcomeInv
<1>9. chip'.cmd # "info" /\ chip'.int \in {"none", "MESS_IN"}
  <2>1. IsChip(Cleared) /\ Cleared.cmd = "none"
    BY <1>2, <1>3 DEF Cleared, IsChip
  <2>2. SelAtnXfer(Cleared, \h50).cmd # "info" /\ SelAtnXfer(Cleared, \h50).int = Cleared.int
    BY <2>1 DEF SelAtnXfer, Issue, IsChip
  <2>3. Cleared.int = "none"
    BY <1>2 DEF Cleared, IsChip
  <2> QED
    BY <1>1, <1>3, <2>2, <2>3
<1>10. \A event \in Over : ~Pending(event) /\ ~Pending(event)'
  BY <1>1, <1>3, <1>9 DEF Pending, Over
<1>11. ~Ending /\ ~Ending'
  BY <1>10 DEF Ending, Over
<1>12. GivenInv'
  BY <1>1 DEF ServedInv, GivenInv
<1>13. UntakenInv'
  <2>1. Held' = Held
    BY <1>1, HeldQueued, HeldNext
  <2> QED
    BY <1>1, <1>11, <2>1 DEF ServedInv, UntakenInv, Untaken
<1>14. StatusInv'
  <2>1. hd'.connected = c
    BY <1>2 DEF StatusRead, IsHost
  <2> QED
    BY <1>1, <1>4, <1>5, <1>7, <1>9, <2>1 DEF StatusInv, Noted
<1>15. ToldInv'
  BY <1>10 DEF ToldInv
<1> QED
  BY <1>8, <1>12, <1>13, <1>14, <1>15 DEF ServedInv

(* A transfer by PIO, or the reading of a message, is over.                *)
LEMMA ServedPoll ==
  ASSUME Base, CalmInv, Base', CalmInv', ServedInv, PollEnds
  PROVE  ServedInv'
<1>1. IsHost(hd) /\ IsChip(chip) /\ scp \in [Cmds -> Pointers]
  BY RecordDomains DEF Base, Types, HostTypes, BusTypes, PointersOk
<1>2. /\ pc \in {"pio", "sent", "status", "message"} /\ pc' = "idle" /\ chip.int # "none"
      /\ UNCHANGED <<bus, tg, sr>> /\ hd'.connected = hd.connected
  BY <1>1, PollLeaves
<1>3. UNCHANGED <<req, outcome>>
  BY DEF PollEnds, PioDone, SentDone, StatusRead, OnComplete, OnSave, OnDisconnect, OnRestore,
     OnReject, OnUnknown, OnExtendedByte, OnSdtr, OnWdtr, OnOtherExtended, MessageRead, Rest,
     targetVars
<1>4. CASE pc = "status"
  <2>1. StatusRead
    BY <1>4 DEF PollEnds, PioDone, SentDone, StatusRead, OnComplete, OnSave, OnDisconnect,
       OnRestore, OnReject, OnUnknown, OnExtendedByte, OnSdtr, OnWdtr, OnOtherExtended, MessageRead
  <2> QED
    BY <2>1, ServedStatusRead
<1>5. CASE pc # "status"
  <2>1. \A x \in Cmds : scp'[x].Status = scp[x].Status
    <3>1. CASE PioDone
      <4>1. \A c \in Cmds : Moved(c).Status = scp[c].Status
        BY <1>1, StatusStays DEF Moved
      <4> QED
        BY <1>1, <3>1, <4>1 DEF PioDone
    <3>2. CASE ~PioDone
      <4>1. UNCHANGED scp
        BY <1>5, <3>2 DEF PollEnds, SentDone, StatusRead, OnComplete, OnSave, OnDisconnect,
           OnRestore, OnReject, OnUnknown, OnExtendedByte, OnSdtr, OnWdtr, OnOtherExtended,
           MessageRead
      <4> QED
        BY <4>1
    <3> QED
      BY <3>1, <3>2
  <2>2. chip.cmd = "none"
    BY <1>2 DEF Base, ChipInv
  <2>3. \/ chip' = chip
        \/ pc = "message" /\ chip'.int = "none" /\ chip'.cmd \in {chip.cmd, "level2"}
    BY <1>1, <1>5, PollSays
  <2>4. chip.int \notin {"DISC", "SEL_XFER_DONE"} /\ (pc = "message" => chip.int = "MSGIN")
    BY <1>2 DEF CalmInv, EndInv, Base, ChipInv
  <2>5. \A event \in Over : Pending(event)' <=> Pending(event)
    BY <1>2, <2>3, <2>4 DEF Pending, Over
  <2>6. Ending' <=> Ending
    BY <2>5 DEF Ending, Over
  <2>7. ASSUME bus # NULL, tg[bus].ph = "complete"
        PROVE  Noted(chip, tg[bus].st)'
    <3>1. scp[hd.connected].Status = tg[bus].st
      BY <1>5, <2>2, <2>7 DEF ServedInv, StatusInv, Noted
    <3> QED
      BY <1>2, <2>1, <2>7, <3>1, Completes DEF Noted
  <2>8. Held' = Held
    BY <1>3, HeldQueued, HeldNext
  <2>9. ~Pending("SEL_XFER_DONE") /\ ~Pending("DISC")
    BY <1>2, <2>4 DEF Pending
  <2>10. chip'.cmd # "info"
    BY <2>2, <2>3
  <2> QED
    BY <1>2, <1>3, <2>1, <2>5, <2>6, <2>7, <2>8, <2>9, <2>10, ServedDeals
<1> QED
  BY <1>4, <1>5

-------------------------------------------------------------------------------
(* 6.  The service.  No command has a status at the start.                 *)
LEMMA ServedInit ==
  ASSUME Init
  PROVE  ServedInv
<1>1. /\ outcome = [c \in Cmds |-> NONE] /\ bus = NULL /\ pc = "idle"
      /\ tg = [n \in Nexus |-> Idle] /\ chip.int = "none" /\ chip.cmd = "none"
  BY DEF Init, BusInit, DriverInit, ChipReset
<1>2. \A x \in Cmds : scp[x].Status = ILLEGAL
  BY DEF Init, DriverInit, FreshSCp
<1>3. Idle.st = GOOD /\ Idle.cmd = NULL
  BY DEF Idle
<1>4. OutcomeInv /\ GivenInv
  BY <1>1, <1>2, <1>3 DEF OutcomeInv, GivenInv
<1>5. \A x \in Held : x \in Cmds
  BY InitTypes, OfCommands DEF Held
<1>6. UntakenInv /\ StatusInv
  BY <1>1, <1>5 DEF UntakenInv, StatusInv
<1>7. ToldInv
  BY <1>1 DEF ToldInv, Pending, Over
<1> QED
  BY <1>4, <1>6, <1>7 DEF ServedInv

(* Every step keeps it.                                                    *)
LEMMA ServedKept ==
  ASSUME Base, Base', CalmInv, CalmInv', Calm, ServedInv, [Next]_vars
  PROVE  ServedInv'
<1>1. CASE UNCHANGED vars
  <2>1. UNCHANGED <<hd, scp, chip, bus, tg, pc, sr, eh, req, outcome>>
    BY <1>1 DEF vars, driverVars, busVars
  <2>2. \A event : Pending(event)' <=> Pending(event)
    BY <2>1 DEF Pending
  <2>3. (Ending' <=> Ending) /\ Held' = Held
    BY <2>1, <2>2, HeldQueued, HeldNext DEF Ending
  <2>4. ASSUME bus # NULL, tg[bus].ph = "complete"
        PROVE  Noted(chip, tg[bus].st)'
    BY <2>1, <2>4 DEF ServedInv, StatusInv, Noted
  <2> QED
    BY <2>1, <2>2, <2>3, <2>4, ServedDeals DEF ServedInv, StatusInv
<1>2. ASSUME NEW c \in Cmds
      PROVE  ~TimesOut(c) /\ ~Abort(c)
  BY DEF TimesOut, Abort, Calm, CalmInv, NobodyGivenUp
<1>3. ~AbortSteps
  BY DEF AbortSteps, AbortQueued, AbortConnected, AbortFlush, AbortFinish, AbortDisconnected,
     AbortUnknown, AbortChecks, AbortStarts, Aborting, CalmInv, NobodyGivenUp
<1>4. ~HostReset
  BY DEF HostReset, CalmInv, NobodyGivenUp
<1>5. ASSUME NEW c \in Cmds, Queue(c)
      PROVE  ServedInv'
  BY <1>5, ServedQueue
<1> QED
  BY <1>1, <1>2, <1>3, <1>4, <1>5, ServedExecute, ServedInterrupt, ServedHandle, ServedPoll,
     ServedSettings, ServedBus DEF Next

(* It holds on every machine of the second kind.                           *)
LEMMA ServedHolds == Spec /\ Calm => [](Base /\ CalmInv /\ ServedInv)
<1>1. Init => Base /\ CalmInv /\ ServedInv
  BY InitBase, CalmInit, ServedInit
<1>2. Base /\ CalmInv /\ ServedInv /\ Calm /\ [Next]_vars => (Base /\ CalmInv /\ ServedInv)'
  BY BaseKept, CalmKept, CalmKnown, ServedKept
<1>3. Calm /\ [Next]_vars => Calm'
  BY DEF Calm, Next, vars
<1> QED
  BY <1>1, <1>2, <1>3, PTL DEF Spec

(* A command that is queued is returned.                                   *)
LEMMA ServiceReturns ==
  ASSUME req \in [Cmds -> Requests], NEW c \in Cmds, req[c].st = "queued", NEW r, ScsiDone(c, r),
         UNCHANGED outcome
  PROVE  Service!Return(c, r)
<1> DEFINE Waits(x) == IF req[x].st \in {"free", "done"} THEN req[x].st ELSE "queued"
<1>1. req' = [req EXCEPT ![c] = [st |-> "done", res |-> r]]
  BY DEF ScsiDone
<1>2. /\ req'[c].st = "done" /\ req'[c].res = r
      /\ \A x \in Cmds \ {c} : req'[x] = req[x]
  BY <1>1
<1>3. [x \in Cmds |-> Waits(x)][c] = "queued"
  OBVIOUS
<1>4. [x \in Cmds |-> Waits(x)]' = [[x \in Cmds |-> Waits(x)] EXCEPT ![c] = "done"]
  BY <1>2
<1>5. [x \in Cmds |-> req[x].res]' = [[x \in Cmds |-> req[x].res] EXCEPT ![c] = r]
  BY <1>2
<1> QED
  BY <1>3, <1>4, <1>5 DEF Service!Return

(* Nothing is seen of a step that returns no command, and performs none.   *)
LEMMA ServiceStays ==
  ASSUME UNCHANGED <<req, outcome>>
  PROVE  UNCHANGED Service!serviceVars
BY DEF Service!serviceVars

(* A command is queued again, or for the first time.                       *)
LEMMA ServiceSubmits ==
  ASSUME req \in [Cmds -> Requests], outcome \in [Cmds -> {NONE, GOOD, CHECK}],
         NEW c \in Cmds, Queue(c)
  PROVE  Service!Submit(c)
<1> DEFINE Waits(x) == IF req[x].st \in {"free", "done"} THEN req[x].st ELSE "queued"
<1>1. /\ req[c].st \in {"free", "done"} /\ outcome' = [outcome EXCEPT ![c] = NONE]
      /\ req' = [req EXCEPT ![c] = [st |-> "queued", res |-> NoResult]]
  BY DEF Queue, QueueCommand
<1>2. /\ req'[c].st = "queued" /\ req'[c].res = NoResult
      /\ \A x \in Cmds \ {c} : req'[x] = req[x]
  BY <1>1
<1>3. [x \in Cmds |-> Waits(x)][c] \in {"free", "done"}
  BY <1>1
<1>4. [x \in Cmds |-> Waits(x)]' = [[x \in Cmds |-> Waits(x)] EXCEPT ![c] = "queued"]
  BY <1>2
<1>5. [x \in Cmds |-> req[x].res]' = [[x \in Cmds |-> req[x].res] EXCEPT ![c] = NoResult]
  BY <1>2
<1>6. NoResult = Service!Result("none", NONE)
  BY DEF NoResult, Result, Service!Result
<1> QED
  BY <1>1, <1>3, <1>4, <1>5, <1>6 DEF Service!Submit

(* A status is given, to a command that has none.                          *)
LEMMA ServicePerforms ==
  ASSUME Base, CalmInv, ServedInv, NEW st \in {GOOD, CHECK}, GiveStatus(st), UNCHANGED req
  PROVE  \E c \in Cmds : Service!Perform(c)
<1> DEFINE c == tg[bus].cmd
<1>1. InConnection /\ bus \in Nexus /\ Free("exec") /\ outcome' = [outcome EXCEPT ![c] = st]
  <2>1. Free("exec") /\ outcome' = [outcome EXCEPT ![c] = st]
    BY DEF GiveStatus
  <2> QED
    BY <2>1, Thinks
<1>2. tg[bus].ph = "exec" /\ c = hd.connected /\ c # NULL
  BY <1>1 DEF InConnection, Free
<1>3. c \in Cmds /\ c \in Held
  BY <1>1, <1>2, TakenHeld
<1>4. outcome[c] = NONE /\ outcome \in [Cmds -> {NONE, GOOD, CHECK}]
  BY <1>1, <1>2 DEF ServedInv, GivenInv, OutcomeInv, Tells
<1>5. req[c].st = "queued"
  BY <1>3, HeldQueued
<1>6. outcome'[c] = st /\ st \in Nat \ {NONE, ILLEGAL}
  BY <1>1, <1>3, <1>4 DEF GOOD, CHECK, NONE, ILLEGAL
<1>7. Service!Perform(c)
  BY <1>1, <1>3, <1>4, <1>5, <1>6 DEF Service!Perform
<1> HIDE DEF c
<1> QED
  BY <1>3, <1>7

(* A connection that ends returns its command with what its target gave;   *)
(* a selection nobody answers, with the reason why it gave nothing.        *)
LEMMA ServiceEnds ==
  ASSUME Base, CalmInv, ServedInv, OnTimeout \/ OnSelXferDone \/ OnUnexpDisc \/ OnDisc
  PROVE  Service!ServiceNext \/ UNCHANGED <<req, outcome>>
<1>1. /\ pc = "handle" /\ UNCHANGED <<outcome, sr>> /\ sr.csr \in Over \cup {"TIMEOUT"}
  BY DEF OnTimeout, OnSelXferDone, OnUnexpDisc, OnDisc, CommandCase, Case, Restart, Rest,
     targetVars, Over
<1>2. /\ IsHost(hd) /\ req \in [Cmds -> Requests]
      /\ outcome \in [Cmds -> {NONE, GOOD, CHECK}]
  BY RecordDomains DEF Base, Types, HostTypes, ServedInv, OutcomeInv
<1>3. chip.int \in {"none", "RESEL_AM"}
  BY <1>1 DEF CalmInv, EndInv, Over, Phases
<1>4. /\ \A event \in Over : Pending(event) <=> sr.csr = event
      /\ Ending <=> sr.csr \in Over
  BY <1>1, <1>3 DEF Pending, Ending, Over
<1>5. ASSUME NEW c \in Cmds, c \in Held, NEW r, ScsiDone(c, r)
      PROVE  Service!Return(c, r)
  <2>1. req[c].st = "queued"
    BY <1>5, HeldQueued
  <2> QED
    BY <1>1, <1>2, <1>5, <2>1, ServiceReturns
<1>6. Ending => hd.connected \in Cmds /\ hd.connected \in Held /\ hd.connected # NULL
  BY HostFieldTypes DEF CalmInv, EndInv, Base, Types, HostTypes, Held, Started
<1>7. \A x \in Cmds : \A s : Finished(x, s) = Service!Report(x, s)
  BY DEF Finished, Result, Service!Report, Service!Result
<1>8. ASSUME NEW c \in Cmds, c \in Held, NEW r, ScsiDone(c, r),
              \/ outcome[c] # NONE /\ r = Finished(c, outcome[c])
              \/ outcome[c] = NONE /\ r \in {Finished(c, ILLEGAL), Result("DID_NO_CONNECT", GOOD)}
      PROVE  Service!ServiceNext
  <2>1. Service!Return(c, r)
    BY <1>5, <1>8
  <2>2. Result("DID_NO_CONNECT", GOOD) = Service!Result("DID_NO_CONNECT", GOOD)
    BY DEF Result, Service!Result
  <2>3. Service!Completed(c) \/ Service!Absent(c) \/ Service!Dropped(c)
    <3>1. CASE outcome[c] # NONE
      BY <1>7, <1>8, <2>1, <3>1 DEF Service!Completed, Service!Return
    <3>2. CASE outcome[c] = NONE
      BY <1>7, <1>8, <2>1, <2>2, <3>2 DEF Service!Absent, Service!Dropped, Service!Return
    <3> QED
      BY <3>1, <3>2
  <2> QED
    BY <2>3 DEF Service!ServiceNext
<1>9. CASE OnTimeout
  <2> DEFINE d == IF hd.state = "S_RUNNING_LEVEL2" THEN hd.connected ELSE hd.selecting
  <2>1. sr.csr = "TIMEOUT" /\ Pending("TIMEOUT") /\ ~Ending /\ ~Pending("DISC")
    BY <1>4, <1>9 DEF OnTimeout, Case, Pending, Over
  <2>2. d # NULL /\ d \in {hd.selecting, hd.connected}
    BY <2>1 DEF Base, SelectInv, TimeoutTold
  <2>3. d \in Cmds /\ d \in Held
    BY <2>2, HostFieldTypes DEF Base, Types, HostTypes, Held, Started
  <2>4. ScsiDone(d, Result("DID_NO_CONNECT", GOOD))
    BY <1>9 DEF OnTimeout
  <2>5. PICK c \in Cmds : c = d
    BY <2>3
  <2>6. ScsiDone(c, Result("DID_NO_CONNECT", GOOD))
    BY <2>4, <2>5 DEF ScsiDone
  <2> HIDE DEF d
  <2>7. \A x \in Gone : NexusOf(x) # NexusOf(d)
    BY <2>1, <2>2, GoneElsewhere DEF Base
  <2>8. tg[NexusOf(c)].cmd # c
    <3>1. NexusOf(c) \in Nexus
      BY DEF Nexus
    <3>2. CASE NexusOf(c) # bus
      BY <2>2, <2>5, <2>7, <3>1, <3>2 DEF CalmInv, UnitsInv, OffBus
    <3>3. CASE NexusOf(c) = bus
      <4>1. bus # NULL
        BY <3>3, BusAssumption, AttrTypes DEF NexusOf
      <4>2. ~Pending("SELECT") /\ ~InConnection
        BY <1>1, <1>3, <2>1 DEF Pending, InConnection
      <4>3. tg[bus].cmd \in Gone
        BY <4>1, <4>2 DEF CalmInv, BusInv
      <4> QED
        BY <2>5, <2>7, <3>3, <4>3
    <3> QED
      BY <3>2, <3>3
  <2>9. outcome[c] = NONE
    BY <2>1, <2>3, <2>5, <2>8 DEF ServedInv, UntakenInv, Untaken
  <2> QED
    BY <1>8, <2>3, <2>5, <2>6, <2>9
<1>10. CASE Ending
  <2>1. PICK c \in Cmds : c = hd.connected
    BY <1>6, <1>10
  <2>2. c \in Held /\ c # NULL
    BY <1>6, <1>10, <2>1
  <2>3. CASE OnSelXferDone
    <3>1. PICK status : status = Reported(c, chip.lun)
      OBVIOUS
    <3>2. sr.csr = "SEL_XFER_DONE"
      BY <2>3 DEF OnSelXferDone, CommandCase, Case
    <3>3. status = outcome[c] /\ outcome[c] # NONE
      BY <1>4, <2>1, <3>1, <3>2 DEF ServedInv, ToldInv, Finds, Over
    <3>4. ScsiDone(c, Finished(c, status))
      BY <2>1, <2>3, <3>1 DEF OnSelXferDone, Reported, ScsiDone
    <3> QED
      BY <1>8, <2>2, <3>3, <3>4
  <2>4. CASE OnUnexpDisc
    <3>1. sr.csr = "UNEXP_DISC"
      BY <2>4 DEF OnUnexpDisc, CommandCase, Case
    <3>2. outcome[c] = NONE
      BY <1>4, <2>1, <3>1 DEF ServedInv, ToldInv, Finds, Over
    <3>3. scp[c].Status = ILLEGAL
      BY <3>2 DEF ServedInv, OutcomeInv
    <3>4. ScsiDone(c, Finished(c, ILLEGAL))
      BY <2>1, <2>4, <3>3 DEF OnUnexpDisc, ScsiDone
    <3> QED
      BY <1>8, <2>2, <3>2, <3>4
  <2>5. CASE OnDisc /\ hd.state = "S_PRE_CMP_DISC"
    <3>1. sr.csr = "DISC"
      BY <2>5 DEF OnDisc, Case
    <3>2. scp[c].Status # ILLEGAL
      BY <1>4, <2>1, <2>5, <3>1 DEF ServedInv, ToldInv, Finds, Over
    <3>3. scp[c].Status = outcome[c] /\ outcome[c] # NONE
      BY <3>2 DEF ServedInv, OutcomeInv
    <3>4. PICK status : status = scp[c].Status
      OBVIOUS
    <3>5. ScsiDone(c, Finished(c, status))
      BY <2>1, <2>2, <2>5, <3>4 DEF OnDisc, ScsiDone
    <3> QED
      BY <1>8, <2>2, <3>3, <3>4, <3>5
  <2>6. CASE OnDisc /\ hd.state # "S_PRE_CMP_DISC"
    BY <1>1, <2>6, <2>1, <2>2 DEF OnDisc
  <2> QED
    BY <1>9, <2>3, <2>4, <2>5, <2>6
<1> QED
  <2>1. OnSelXferDone \/ OnUnexpDisc \/ OnDisc => sr.csr \in Over
    BY DEF OnSelXferDone, OnUnexpDisc, OnDisc, CommandCase, Case, Over
  <2> QED
    BY <1>4, <1>9, <1>10, <2>1

(* Every step is one of the service, or is not seen in it.                 *)
LEMMA ServiceStep ==
  ASSUME Base, CalmInv, ServedInv, Calm, [Next]_vars
  PROVE  [Service!ServiceNext]_(Service!serviceVars)
<1>1. SUFFICES Service!ServiceNext \/ UNCHANGED <<req, outcome>>
  BY ServiceStays
<1>2. ASSUME NEW c \in Cmds
      PROVE  ~TimesOut(c) /\ ~Abort(c)
  BY DEF TimesOut, Abort, Calm, CalmInv, NobodyGivenUp
<1>3. ~AbortSteps
  BY DEF AbortSteps, AbortQueued, AbortConnected, AbortFlush, AbortFinish, AbortDisconnected,
     AbortUnknown, AbortChecks, AbortStarts, Aborting, CalmInv, NobodyGivenUp
<1>4. ~HostReset
  BY DEF HostReset, CalmInv, NobodyGivenUp
<1>5. ASSUME NEW c \in Cmds, Queue(c)
      PROVE  Service!ServiceNext
  <2>1. Service!Submit(c)
    BY <1>5, ServiceSubmits DEF Base, Types, HostTypes, ServedInv, OutcomeInv
  <2> QED
    BY <2>1 DEF Service!ServiceNext
<1>6. CASE HandleInterrupt
  <2>1. CASE OnTimeout \/ OnSelXferDone \/ OnUnexpDisc \/ OnDisc
    BY <2>1, ServiceEnds
  <2>2. CASE ~(OnTimeout \/ OnSelXferDone \/ OnUnexpDisc \/ OnDisc)
    BY <1>6, <2>2 DEF HandleInterrupt, OnSelect, OnData, OnCommand, OnMessageOut, OnStatus,
       OnMessageIn, AlreadyDisconnected, OnSdp, OnReselect, OnStrayReselect, Rest, targetVars
  <2> QED
    BY <2>1, <2>2
<1>7. CASE Execute \/ Interrupt \/ WriteInfo
  BY <1>7 DEF Execute, Start, StartSelect, StartLevel2, Interrupt, WriteInfo, busVars, targetVars
<1>8. CASE PollEnds
  BY <1>8 DEF PollEnds, PioDone, SentDone, StatusRead, OnComplete, OnSave, OnDisconnect,
     OnRestore, OnReject, OnUnknown, OnExtendedByte, OnSdtr, OnWdtr, OnOtherExtended,
     MessageRead, Rest, targetVars
<1>9. CASE DataSteps
  BY <1>9 DEF DataSteps, DmaMoves, PioMoves, MoveData, driverVars
<1>10. CASE BusSteps
  <2>1. UNCHANGED req
    BY <1>10 DEF BusSteps, driverVars
  <2>2. CASE \E st \in {GOOD, CHECK} : GiveStatus(st)
    BY <2>1, <2>2, ServicePerforms DEF Service!ServiceNext
  <2>3. CASE ~\E st \in {GOOD, CHECK} : GiveStatus(st)
    <3>1. UNCHANGED outcome
      BY <1>10, <2>3 DEF BusSteps, ChipSteps, TargetSteps, Selected, ReportPhase, TakeCommand,
         TakeMessages, TakeStatus, TakeByte, Level2Message, ReleaseBus, StartData,
         StartDisconnect, Quirk, SelectionTimeout, Drop, Reselect
    <3> QED
      BY <2>1, <3>1
  <2> QED
    BY <2>2, <2>3
<1>11. CASE UNCHANGED vars
  BY <1>11 DEF vars, driverVars, busVars
<1> QED
  BY <1>2, <1>3, <1>4, <1>5, <1>6, <1>7, <1>8, <1>9, <1>10, <1>11 DEF Next

(* The driver, its chip and its targets serve the mid-layer as             *)
(* CommandService promises, on every machine on which no command times     *)
(* out, with level2:1 or more: each command is performed at most once, and *)
(* returned once, with the status its target gave it or the reason why it  *)
(* gave none, whatever is disconnected, interrupted and resumed meanwhile. *)
THEOREM CommandsServedHolds == Spec /\ Calm => CommandsServed
<1>1. Init => Service!ServiceInit
  BY DEF Init, BusInit, DriverInit, Service!ServiceInit, Service!Result, NoResult, Result
<1>2. Base /\ CalmInv /\ ServedInv /\ Calm /\ [Next]_vars
        => [Service!ServiceNext]_(Service!serviceVars)
  BY ServiceStep
<1>3. Calm /\ [Next]_vars => Calm'
  BY DEF Calm, Next, vars
<1> QED
  BY <1>1, <1>2, <1>3, ServedHolds, PTL DEF Spec, CommandsServed, Service!ServiceSpec

-------------------------------------------------------------------------------
(* 7.  Messages.  What the driver still has to say it says in this         *)
(* connection: it keeps ATN raised for it, and a target does not part from *)
(* an initiator that holds ATN.  Unless it drops off the bus, that is:     *)
(* then outgoing_msg is left for the next connection.                      *)

Steady == "drop" \notin setup.quirks

AskInv ==
  /\ bus # NULL /\ chip.atn => tg[bus].ph \notin Parting
  /\ hd.outgoing_msg # <<>> => bus # NULL /\ chip.atn

(* A target takes the messages, or a phase of its own.                     *)
LEMMA AskPhases ==
  ASSUME Base, Base', CalmInv, AskInv, UNCHANGED hd,
         TakeCommand \/ TakeStatus \/ TakeMessages \/ \E k \in 1..chip.count : MoveData(k)
  PROVE  AskInv'
<1>1. PICK ph \in {"COMMAND", "STATUS", "MESS_OUT", "DATA_IN", "DATA_OUT"} :
        /\ Ready(ph) /\ (TakeCommand => ph = "COMMAND") /\ (TakeStatus => ph = "STATUS")
        /\ TakeMessages => ph = "MESS_OUT"
        /\ ~TakeMessages => ph # "MESS_OUT"
  BY DEF TakeCommand, TakeStatus, TakeMessages, MoveData, Ready
<1>2. /\ chip.int = "none" /\ bus \in Nexus /\ bus # NULL
      /\ IsChip(chip) /\ IsUnit(tg[bus]) /\ tg \in [Nexus -> Units] /\ Phase = ph
  BY <1>1, Serving DEF Phases
<1>3. CASE TakeMessages
  <2>1. hd.outgoing_msg = <<>>
    BY <1>1, <1>3 DEF Ready, Expected, DataGoesOn, Base, SelectInv, IdentifySent
  <2>2. PICK v : /\ tg' = [tg EXCEPT ![bus] = Idle, ![bus'] = v]
                 /\ v.ph \in {tg[bus].ph, "command"}
    <3> DEFINE ms    == chip.out
               sdtr  == {m.off : m \in {x \in ToSet(ms) : x.msg = "SDTR"}}
               first == ms[1]
               n     == IF first.msg = "IDENTIFY" THEN <<bus[1], first.lun>> ELSE bus
               t     == IF first.msg = "IDENTIFY"
                        THEN [tg[bus] EXCEPT !.ph = "command", !.disc = first.disc]
                        ELSE tg[bus]
               own   == t.pend = "offered"
               off   == CHOOSE x \in sdtr : TRUE
               mode  == IF off > 0 THEN "sync" ELSE "async"
               u(a)  == IF own THEN [t EXCEPT !.pend = "none"]
                        ELSE IF sdtr = {} \/ a = "mute" THEN t
                        ELSE IF a = "agree" THEN [t EXCEPT !.msgs = SDTR(off), !.pend = mode]
                        ELSE [t EXCEPT !.msgs = MESSAGE_REJECT, !.pend = "async"]
    <3>1. PICK a \in {"agree", "reject", "early", "mute"} :
            bus' = n /\ tg' = [tg EXCEPT ![bus] = Idle, ![n] = u(a)]
      <4> HIDE DEF sdtr, off
      <4> QED
        BY <1>3 DEF TakeMessages, Answers, sdtr, off
    <3>2. IsUnit(t) /\ t.ph \in {tg[bus].ph, "command"}
      <4> HIDE DEF first
      <4> QED
        BY <1>2 DEF IsUnit
    <3>3. u(a).ph = t.ph
      <4> HIDE DEF t, sdtr, off, mode
      <4>1. \A m, p : [t EXCEPT !.msgs = m, !.pend = p].ph = t.ph /\ [t EXCEPT !.pend = p].ph = t.ph
        BY <3>2 DEF IsUnit
      <4> QED
        BY <4>1
    <3> HIDE DEF n, u, t
    <3> QED
      BY <3>1, <3>2, <3>3
  <2>3. tg[bus].ph \notin Parting
    BY <1>1, <1>2, <1>3 DEF Phase, Parting
  <2>4. bus' # NULL => tg'[bus'].ph \notin Parting
    <3>1. bus' \in Nexus \cup {NULL}
      BY DEF Base, Types, BusTypes
    <3> QED
      BY <1>2, <2>2, <2>3, <3>1 DEF Parting
  <2> QED
    BY <2>1, <2>4 DEF AskInv
<1>4. CASE ~TakeMessages
  <2>1. bus' = bus /\ chip'.atn = chip.atn
    <3>1. CASE TakeCommand \/ TakeStatus
      BY <1>2, <3>1 DEF TakeCommand, TakeStatus, IsChip
    <3>2. CASE \E k \in 1..chip.count : MoveData(k)
      <4>1. PICK k : MoveData(k)
        BY <3>2
      <4> DEFINE f == IF chip.cmd = "level2" THEN \h46 ELSE chip.phs
                 d == IF chip.cmd = "info" /\ k = chip.count THEN "none" ELSE chip.cmd
      <4>2. chip' = [chip EXCEPT !.count = chip.count - k, !.phs = f, !.cmd = d] /\ bus' = bus
        BY <4>1 DEF MoveData
      <4> HIDE DEF f, d
      <4> QED
        BY <1>2, <4>2 DEF IsChip
    <3> QED
      BY <1>4, <3>1, <3>2
  <2>2. ~chip.atn
    BY <1>1, <1>2, <1>4 DEF Phase
  <2> QED
    BY <2>1, <2>2 DEF AskInv
<1> QED
  BY <1>3, <1>4

(* The bus side, whole.                                                    *)
LEMMA AskBus ==
  ASSUME Base, Base', CalmInv, CalmInv', AskInv, Steady, BusSteps \/ DataSteps
  PROVE  AskInv'
<1>1. UNCHANGED hd
  BY DEF BusSteps, DataSteps, DmaMoves, PioMoves, driverVars
<1>2. /\ IsChip(chip) /\ tg \in [Nexus -> Units] /\ (bus # NULL => bus \in Nexus)
      /\ bus # NULL => IsUnit(tg[bus])
  BY RecordDomains, UnitTypes DEF Base, Types, BusTypes
<1>3. CASE DataSteps
  <2>1. \E k \in 1..chip.count : MoveData(k)
    BY <1>3 DEF DataSteps, DmaMoves, PioMoves
  <2> QED
    BY <1>1, <2>1, AskPhases
<1>4. CASE TakeCommand \/ TakeStatus \/ TakeMessages
  BY <1>1, <1>4, AskPhases
<1>5. CASE Selected
  <2>1. bus = NULL /\ hd.outgoing_msg = <<>> /\ bus' # NULL /\ bus' \in Nexus
    <3>1. bus = NULL /\ chip.cmd \in {"select", "level2"} /\ bus' = <<chip.id, chip.lun>>
      BY <1>5 DEF Selected
    <3>2. \E c \in Cmds : bus' = NexusOf(c)
      BY <3>1, HostFieldTypes
         DEF Base, SelectInv, Selects, SelectsToTransfer, Types, HostTypes
    <3>3. NULL \notin Nexus
      BY <3>1, FreeBus, <1>5 DEF Selected
    <3> QED
      BY <3>1, <3>2, <3>3, AttrTypes DEF AskInv
  <2>2. tg'[bus'].ph \in {"select", "command"}
    BY <1>2, <1>5, <2>1 DEF Selected, Idle
  <2> QED
    BY <1>1, <2>1, <2>2 DEF AskInv, Parting
<1>6. CASE SelectionTimeout
  BY <1>1, <1>6 DEF SelectionTimeout, AskInv
<1>7. CASE \E n \in Nexus : Reselect(n)
  <2>1. hd.outgoing_msg = <<>> /\ ~chip'.atn
    BY <1>2, <1>7 DEF Reselect, AskInv, IsChip
  <2> QED
    BY <1>1, <2>1 DEF AskInv
<1>8. CASE ReportPhase
  BY <1>1, <1>2, <1>8 DEF ReportPhase, AskInv, IsChip
<1>9. CASE TakeByte
  <2>1. chip'.atn = chip.atn /\ bus' = bus /\ bus # NULL
    BY <1>2, <1>9 DEF TakeByte, Ready, IsChip
  <2>2. PICK m, s, p : tg' = [tg EXCEPT ![bus].msgs = m, ![bus].saved = s, ![bus].pend = p]
    <3> DEFINE b == tg[bus]
               m == Tail(b.msgs)
               s == IF b.msgs[1] = SAVE_POINTERS[1] /\ b.ph = "away" THEN b.pos ELSE b.saved
               p == IF Len(b.msgs) = 1 /\ b.pend # "offered" THEN "none" ELSE b.pend
    <3>1. tg' = [tg EXCEPT ![bus].msgs = m, ![bus].saved = s, ![bus].pend = p]
      BY <1>2, <1>9, <2>1 DEF TakeByte, IsUnit
    <3> QED
      BY <3>1
  <2>3. tg'[bus].ph = tg[bus].ph
    BY <1>2, <2>1, <2>2 DEF IsUnit
  <2> QED
    BY <1>1, <2>1, <2>3 DEF AskInv
<1>10. CASE Level2Message
  <2>1. /\ chip.cmd = "level2" /\ bus # NULL /\ hd.incoming_msg = <<>> /\ chip.int # "MSGIN"
        /\ tg[bus].msgs # <<>>
    BY <1>10, Serving DEF Level2Message, Ready, Phases, CalmInv, MessagesInv
  <2>2. Left = tg[bus].msgs
    BY <1>2, <2>1, LeftIs DEF Base, Types, BusTypes
  <2>3. /\ COMMAND_COMPLETE # DISCONNECT
        /\ \A m \in {COMMAND_COMPLETE, DISCONNECT} :
             m \notin {RESTORE_POINTERS, MESSAGE_REJECT, UnknownMessage} /\ ~(Len(m) >= 3)
    BY DEF COMMAND_COMPLETE, DISCONNECT, RESTORE_POINTERS, MESSAGE_REJECT, UnknownMessage
  <2>4. In = Left
    BY <1>2, <2>1, <2>2, UnitTypes, ConcatEmptySeq DEF In
  <2>5. tg[bus].msgs \in {COMMAND_COMPLETE, DISCONNECT} => tg[bus].ph \in Parting
    BY <2>1, <2>2, <2>3, <2>4 DEF CalmInv, MessagesInv, InExtended, Parting
  <2>6. CASE tg[bus].msgs \in {COMMAND_COMPLETE, DISCONNECT}
    <3>1. bus' = NULL
      BY <1>10, <2>3, <2>6 DEF Level2Message
    <3> QED
      BY <1>1, <2>1, <2>5, <2>6, <3>1 DEF AskInv
  <2>7. CASE tg[bus].msgs \notin {COMMAND_COMPLETE, DISCONNECT}
    <3>1. /\ chip' = [chip EXCEPT !.cmd = "none", !.int = "SDP", !.phs = \h41, !.ack = TRUE]
          /\ tg' = [tg EXCEPT ![bus].msgs = Tail(tg[bus].msgs), ![bus].saved = tg[bus].pos]
          /\ bus' = bus
      BY <1>2, <1>10, <2>1, <2>7 DEF Level2Message
    <3>2. chip'.atn = chip.atn /\ tg'[bus].ph = tg[bus].ph
      BY <1>2, <2>1, <3>1 DEF IsChip, IsUnit
    <3> QED
      BY <1>1, <3>1, <3>2 DEF AskInv
  <2> QED
    BY <2>6, <2>7
<1>11. CASE ReleaseBus
  <2>1. bus # NULL /\ tg[bus].ph \in Parting /\ bus' = NULL
    BY <1>11 DEF ReleaseBus, Parting
  <2> QED
    BY <1>1, <2>1 DEF AskInv
<1>12. CASE TargetSteps
  BY <1>1, <1>12 DEF TargetSteps, StartData, GiveStatus, StartDisconnect, Quirk, Free, AskInv
<1>13. ~Drop
  BY DEF Drop, Steady, Quirks
<1> QED
  BY <1>3, <1>4, <1>5, <1>6, <1>7, <1>8, <1>9, <1>10, <1>11, <1>12, <1>13
     DEF BusSteps, ChipSteps

-------------------------------------------------------------------------------
(* The driver's side: the messages of a selection, sent while ATN is up.   *)
LEMMA AskHandle ==
  ASSUME Base, CalmInv, AskInv, HandleInterrupt
  PROVE  AskInv'
<1>1. UNCHANGED <<bus, tg>> /\ pc = "handle"
  BY DEF HandleInterrupt, OnTimeout, OnSelect, OnData, OnCommand, OnMessageOut, OnStatus,
     OnMessageIn, OnSelXferDone, OnUnexpDisc, AlreadyDisconnected, OnDisc, OnSdp, OnReselect,
     OnStrayReselect, CommandCase, Case, Rest, targetVars
<1>2. IsHost(hd) /\ IsChip(chip)
  BY RecordDomains DEF Base, Types, HostTypes, BusTypes
<1>3. CASE OnSelect
  <2>1. bus = NexusOf(hd.selecting) /\ tg[bus].ph = "select" /\ chip.atn /\ hd.selecting \in Cmds
    BY <1>1, <1>3, HostFieldTypes
       DEF OnSelect, Case, Pending, Base, SelectInv, SelectTold, Types, HostTypes
  <2>2. bus # NULL
    BY <2>1, AttrTypes, BusAssumption DEF NexusOf
  <2>3. chip' = chip
    BY <1>3 DEF OnSelect
  <2> QED
    BY <1>1, <2>1, <2>2, <2>3 DEF AskInv, Parting
<1>4. CASE OnMessageOut
  <2>1. hd'.outgoing_msg = <<>>
    BY <1>2, <1>4 DEF OnMessageOut, IsHost
  <2>2. chip'.atn = chip.atn
    <3> DEFINE o == IF hd.outgoing_msg = <<>> THEN <<Plain("NOP")>> ELSE hd.outgoing_msg
               ch == [chip EXCEPT !.polled = TRUE, !.count = Len(o), !.out = o]
    <3>1. chip' = TransInfo(ch)
      BY <1>4 DEF OnMessageOut
    <3> HIDE DEF o
    <3>2. IsChip(ch) /\ ch.atn = chip.atn
      BY <1>2 DEF IsChip
    <3> HIDE DEF ch
    <3> QED
      BY <3>1, <3>2 DEF TransInfo, Issue, IsChip
  <2> QED
    BY <1>1, <2>1, <2>2 DEF AskInv
<1>5. CASE ~OnSelect /\ ~OnMessageOut
  <2>1. hd'.outgoing_msg = hd.outgoing_msg /\ chip'.atn = chip.atn
    BY <1>5, HandleLeaves
  <2> QED
    BY <1>1, <2>1 DEF AskInv
<1> QED
  BY <1>3, <1>4, <1>5

(* A message is answered only while its target stays.                      *)
LEMMA AskPoll ==
  ASSUME Base, CalmInv, AskInv, PollEnds
  PROVE  AskInv'
<1>1. IsHost(hd) /\ IsChip(chip)
  BY RecordDomains DEF Base, Types, HostTypes, BusTypes
<1>2. UNCHANGED <<bus, tg>> /\ chip.int # "none"
  BY <1>1, PollLeaves
<1>3. CASE hd'.outgoing_msg = hd.outgoing_msg /\ chip'.atn = chip.atn
  BY <1>2, <1>3 DEF AskInv
<1>4. CASE OnUnknown \/ OnSdtr \/ OnWdtr \/ OnOtherExtended
  <2>1. pc = "message"
    BY <1>4 DEF OnUnknown, OnSdtr, OnWdtr, OnOtherExtended, MessageRead
  <2>2. bus # NULL /\ tg[bus].ph \notin Parting
    <3>1. Extended \/ (~Extended /\ Incoming \notin {COMMAND_COMPLETE, SAVE_POINTERS, DISCONNECT})
      BY <1>4 DEF OnUnknown, OnSdtr, OnWdtr, OnOtherExtended, MessageRead
    <3> QED
      BY <1>2, <2>1, <3>1, Hears DEF InExtended
  <2>3. chip'.atn \/ (hd'.outgoing_msg = hd.outgoing_msg /\ chip'.atn = chip.atn)
    <3>1. IsChip(Cleared) /\ Cleared.int = "none" /\ Cleared.atn = chip.atn
      BY <1>1 DEF Cleared, IsChip
    <3>2. NegateAck(AssertAtn(Cleared)).atn /\ NegateAck(Cleared).atn = chip.atn
      BY <3>1 DEF NegateAck, AssertAtn, Issue, IsChip
    <3>3. CASE OnUnknown \/ OnWdtr \/ OnOtherExtended
      BY <3>2, <3>3 DEF OnUnknown, OnWdtr, OnOtherExtended, MessageRead, Answer
    <3>4. CASE OnSdtr
      <4>1. CASE hd.sync_stat[Attr[hd.connected].id] = "SS_WAITING"
        <5>1. /\ chip' = NegateAck(Cleared)
              /\ \E x, y : hd' = [hd EXCEPT !.sync_xfer = x, !.sync_stat = y,
                                    !.incoming_msg = <<>>, !.state = "S_CONNECTED"]
          BY <3>4, <4>1 DEF OnSdtr, MessageRead
        <5> QED
          BY <1>1, <3>2, <5>1 DEF IsHost
      <4>2. CASE hd.sync_stat[Attr[hd.connected].id] # "SS_WAITING"
        BY <3>2, <3>4, <4>2 DEF OnSdtr, MessageRead
      <4> QED
        BY <4>1, <4>2
    <3> QED
      BY <1>4, <3>3, <3>4
  <2> QED
    BY <1>2, <2>2, <2>3 DEF AskInv
<1>5. CASE ~(OnUnknown \/ OnSdtr \/ OnWdtr \/ OnOtherExtended)
  <2>1. IsChip(Cleared) /\ Cleared.atn = chip.atn
    BY <1>1 DEF Cleared, IsChip
  <2>2. NegateAck(Cleared).atn = chip.atn /\ \A n : SelAtnXfer(Cleared, n).atn = chip.atn
    BY <2>1 DEF NegateAck, SelAtnXfer, Issue, IsChip
  <2>3. \/ chip' \in {chip, NegateAck(Cleared)}
        \/ \E n : chip' = SelAtnXfer(Cleared, n)
    <3>1. PioDone \/ SentDone \/ OnComplete \/ OnSave \/ OnDisconnect \/ OnReject \/ OnExtendedByte
            => chip' \in {chip, NegateAck(Cleared)}
      BY DEF PioDone, SentDone, OnComplete, OnSave, OnDisconnect, OnReject, OnExtendedByte,
         MessageRead, Accept
    <3>2. StatusRead \/ OnRestore =>
            \/ chip' \in {chip, NegateAck(Cleared), SelAtnXfer(Cleared, \h50)}
            \/ chip' = SelAtnXfer(Cleared, \h45)
      BY DEF StatusRead, OnRestore, MessageRead, Accept
    <3> QED
      BY <1>5, <3>1, <3>2 DEF PollEnds
  <2>4. OnReject \/ OnExtendedByte => hd'.outgoing_msg = hd.outgoing_msg
    BY <1>1 DEF OnReject, OnExtendedByte, MessageRead, IsHost
  <2>5. hd'.outgoing_msg = hd.outgoing_msg
    <3>1. ~(OnReject \/ OnExtendedByte) => hd' = hd \/ \E v : hd' = [hd EXCEPT !.state = v]
      BY <1>5 DEF PollEnds, PioDone, SentDone, StatusRead, OnComplete, OnSave, OnDisconnect,
         OnRestore, MessageRead, Accept
    <3> QED
      BY <1>1, <2>4, <3>1 DEF IsHost
  <2>6. chip'.atn = chip.atn
    BY <2>2, <2>3
  <2> QED
    BY <1>3, <2>5, <2>6
<1> QED
  BY <1>4, <1>5

(* Nothing is to be said at the start.                                     *)
LEMMA AskInit ==
  ASSUME Init
  PROVE  AskInv
BY DEF Init, BusInit, DriverInit, HostInit, ChipReset, AskInv

(* Every step keeps it.                                                    *)
LEMMA AskKept ==
  ASSUME Base, Base', CalmInv, CalmInv', Calm, Steady, AskInv, [Next]_vars
  PROVE  AskInv' /\ (bus # NULL /\ bus' = NULL => UNCHANGED hd)
<1>1. CASE UNCHANGED vars
  BY <1>1 DEF vars, driverVars, busVars, AskInv
<1>2. ASSUME NEW c \in Cmds
      PROVE  ~TimesOut(c) /\ ~Abort(c)
  BY DEF TimesOut, Abort, Calm, CalmInv, NobodyGivenUp
<1>3. ~AbortSteps
  BY DEF AbortSteps, AbortQueued, AbortConnected, AbortFlush, AbortFinish, AbortDisconnected,
     AbortUnknown, AbortChecks, AbortStarts, Aborting, CalmInv, NobodyGivenUp
<1>4. ~HostReset
  BY DEF HostReset, CalmInv, NobodyGivenUp
<1>5. IsHost(hd) /\ IsChip(chip)
  BY RecordDomains DEF Base, Types, HostTypes, BusTypes
<1>6. ASSUME NEW c \in Cmds, Queue(c)
      PROVE  AskInv' /\ bus' = bus
  <2>1. UNCHANGED <<chip, bus, tg>> /\ \E q : hd' = [hd EXCEPT !.input_Q = q]
    BY <1>6 DEF Queue, QueueCommand
  <2>2. hd'.outgoing_msg = hd.outgoing_msg
    BY <1>5, <2>1 DEF IsHost
  <2> QED
    BY <2>1, <2>2 DEF AskInv
<1>7. CASE Execute
  <2>1. UNCHANGED <<bus, tg>> /\ IF CannotStart THEN UNCHANGED <<hd, chip>> ELSE Start
    BY <1>7 DEF Execute, targetVars
  <2>2. hd'.outgoing_msg = hd.outgoing_msg /\ chip'.atn = chip.atn
    BY <2>1, StartEffect DEF Base
  <2> QED
    BY <2>1, <2>2 DEF AskInv
<1>8. CASE Interrupt
  <2>1. UNCHANGED <<bus, tg>> /\ hd'.outgoing_msg = hd.outgoing_msg /\ chip'.atn = chip.atn
    BY <1>5, <1>8 DEF Interrupt, DmaStop, targetVars, IsHost, IsChip
  <2> QED
    BY <2>1 DEF AskInv
<1>9. CASE WriteInfo
  <2>1. UNCHANGED <<chip, bus, tg>> /\ hd'.outgoing_msg = hd.outgoing_msg
    BY <1>5, <1>9, WriteInfoLeaves DEF WriteInfo, busVars
  <2> QED
    BY <2>1 DEF AskInv
<1>10. CASE HandleInterrupt
  <2>1. UNCHANGED bus
    BY <1>10 DEF HandleInterrupt, OnTimeout, OnSelect, OnData, OnCommand, OnMessageOut, OnStatus,
       OnMessageIn, OnSelXferDone, OnUnexpDisc, AlreadyDisconnected, OnDisc, OnSdp, OnReselect,
       OnStrayReselect, Rest, targetVars
  <2> QED
    BY <1>10, <2>1, AskHandle
<1>11. CASE PollEnds
  BY <1>5, <1>11, AskPoll, PollLeaves
<1>12. CASE BusSteps \/ DataSteps
  <2>1. UNCHANGED hd
    BY <1>12 DEF BusSteps, DataSteps, DmaMoves, PioMoves, driverVars
  <2> QED
    BY <1>12, <2>1, AskBus
<1> QED
  BY <1>1, <1>2, <1>3, <1>4, <1>6, <1>7, <1>8, <1>9, <1>10, <1>11, <1>12 DEF Next

(* A connection ends with nothing half said: on every machine on which no  *)
(* command times out and no target drops off the bus, with level2:1 or     *)
(* more, no half of an extended message and no unsent answer is left for   *)
(* the next connection.                                                    *)
THEOREM MessagesEndWithConnectionHolds ==
  Spec /\ Calm /\ Steady => MessagesEndWithConnection
<1>1. Init => AskInv
  BY AskInit
<1>2. Base /\ Base' /\ CalmInv /\ CalmInv' /\ Calm /\ Steady /\ AskInv /\ [Next]_vars
        => AskInv'
  BY AskKept
<1>3. Base /\ Base' /\ CalmInv /\ CalmInv' /\ Calm /\ Steady /\ AskInv /\ [Next]_vars
        => [bus # NULL /\ bus' = NULL => hd.incoming_msg = <<>> /\ hd.outgoing_msg = <<>>]_vars
  <2> SUFFICES ASSUME Base, Base', CalmInv, CalmInv', Calm, Steady, AskInv, [Next]_vars,
                      bus # NULL, bus' = NULL
               PROVE  hd.incoming_msg = <<>> /\ hd.outgoing_msg = <<>>
    OBVIOUS
  <2>1. UNCHANGED hd /\ AskInv'
    BY AskKept
  <2> QED
    BY <2>1 DEF AskInv, CalmInv, MessagesInv
<1>4. (Calm /\ [Next]_vars => Calm') /\ (Steady /\ [Next]_vars => Steady')
  BY DEF Calm, Steady, Next, vars
<1> QED
  BY <1>1, <1>2, <1>3, <1>4, CalmHolds, PTL DEF Spec, MessagesEndWithConnection

-------------------------------------------------------------------------------
(* 8.  Data.  The target, the transfer count of the chip, SCp and the DMA  *)
(* go through the data of a command together, each by its own book.  They  *)
(* come apart if a target goes back to the pointers it has saved: a        *)
(* RESTORE POINTERS message changes neither SCp.ptr nor this_residual, and *)
(* from L2_BASIC it resumes a level-2 command with the count of a DMA that *)
(* was stopped.  Onward: nobody asks for what has been transferred.        *)

Onward ==
  /\ "retry" \notin setup.quirks
  /\ setup.level2 >= L2_BASIC => "restore" \notin setup.quirks

(* How far the data of a command have come, by the driver's books: SCp.ptr *)
(* of a transfer that is not under way, and what is left to the chip of    *)
(* one that is.                                                            *)
End(x) == scp[x].ptr + scp[x].left
Transferring == hd.dma = "D_DMA_RUNNING" \/ pc = "pio"
Where(x) ==
  IF x = hd.connected /\ Transferring THEN End(x) - chip.count ELSE scp[x].ptr

BuffersInv == \A x \in Cmds : End(x) = (Attr[x].nbufs - scp[x].more) * Attr[x].blen
PlaceInv ==
  \A x \in Held :
    /\ tg[NexusOf(x)].cmd = x => tg[NexusOf(x)].pos = Where(x)
    /\ Untaken(x) => Where(x) = 0
EngineInv ==
  /\ engine.cmd # NULL => engine.at = End(engine.cmd) - chip.count
  /\ hd.bounce => hd.dma = "D_DMA_RUNNING" /\ engine.via = "bounce"
MoversInv ==
  /\ chip.cmd = "info" /\ chip.xph \in {"DATA_IN", "DATA_OUT"} =>
       IF chip.polled THEN pc = "pio" ELSE engine.cmd # NULL
  /\ chip.cmd = "info" /\ chip.xph = "COMMAND" => pc = "sent"
  /\ chip.cmd = "level2" /\ chip.phs \notin {\h41, \h50} =>
       chip.count = 0 \/ (~chip.polled /\ engine.cmd # NULL)
TargetInv ==
  bus # NULL =>
    /\ tg[bus].ph \in {"select", "command"} => tg[bus].pos = 0
    /\ hd.incoming_msg = <<>> /\ Left = RESTORE_POINTERS => "restore" \in setup.quirks
DataInv == BuffersInv /\ PlaceInv /\ EngineInv /\ MoversInv /\ TargetInv

-------------------------------------------------------------------------------
(* What a step of the bus leaves as it is for the data.                    *)
Keeps(x) ==
  /\ Untaken(x)' => Untaken(x)
  /\ tg'[NexusOf(x)].cmd = x =>
       \/ tg[NexusOf(x)].cmd = x /\ tg'[NexusOf(x)].pos = tg[NexusOf(x)].pos
       \/ Untaken(x) /\ tg'[NexusOf(x)].pos = 0
ChipGoes ==
  /\ chip'.count = chip.count \/ ~Transferring
  /\ chip'.cmd = "info" => /\ chip.cmd = "info" /\ chip'.xph = chip.xph
                           /\ chip'.polled = chip.polled
  /\ chip'.cmd = "level2" =>
       /\ chip.cmd = "level2" /\ chip'.polled = chip.polled /\ chip'.count = chip.count
       /\ chip.phs \in {\h41, \h50} => chip'.phs \in {\h41, \h50}

(* Such a step keeps the places: the driver's books do not change, and     *)
(* each target is where it was.                                            *)
LEMMA DataGoesBy ==
  ASSUME Base, DataInv, UNCHANGED <<setup, hd, scp, pc, sr, engine>>, ChipGoes,
         \A x \in Held : Keeps(x), TargetInv'
  PROVE  DataInv'
<1>1. BuffersInv'
  BY DEF DataInv, BuffersInv, End
<1>2. Transferring' = Transferring /\ Held' = Held
  BY DEF Transferring, Held, Queued, Started, Away
<1>3. \A x \in Held : Where(x)' = Where(x)
  BY <1>2 DEF Where, End, ChipGoes
<1>4. PlaceInv'
  BY <1>2, <1>3 DEF DataInv, PlaceInv, Keeps
<1>5. engine.cmd # NULL => Transferring
  BY DEF Base, DmaInv, Transferring
<1>6. EngineInv'
  BY <1>5 DEF DataInv, EngineInv, ChipGoes, End
<1>7. MoversInv'
  BY DEF DataInv, MoversInv, ChipGoes
<1> QED
  BY <1>1, <1>4, <1>6, <1>7 DEF DataInv

(* What a target has still to say, after a step.                           *)
LEMMA LeftNext ==
  ASSUME Base', bus' \in Nexus, chip'.int # "MSGIN"
  PROVE  Left' = tg'[bus'].msgs
<1>1. tg'[bus'] \in Units
  BY DEF Base, Types, BusTypes
<1>2. tg'[bus'].msgs \in Seq(Nat)
  BY <1>1, UnitTypes
<1> QED
  BY <1>2, ConcatEmptySeq DEF Left

(* A step in a connection that goes on.                                    *)
LEMMA DataOn ==
  ASSUME Base, Base', CalmInv, DataInv, InConnection, bus \in Nexus, bus # NULL,
         chip.int = "none", pc = "handle" => sr.csr \in Phases,
         UNCHANGED <<setup, hd, scp, pc, sr, engine, bus>>, NEW u, tg' = [tg EXCEPT ![bus] = u],
         chip'.int \notin Over, ChipGoes, u.pos = tg[bus].pos,
         u.cmd = tg[bus].cmd \/ (tg[bus].cmd = NULL /\ u.cmd = hd.connected /\ u.pos = 0),
         u.ph \in {"select", "command"} => tg[bus].ph \in {"select", "command"},
         \/ Left' = Left
         \/ /\ chip'.int # "MSGIN"
            /\ u.msgs = RESTORE_POINTERS =>
                 tg[bus].msgs = RESTORE_POINTERS \/ "restore" \in setup.quirks
  PROVE  DataInv'
<1>1. /\ tg \in [Nexus -> Units] /\ hd.connected # NULL
      /\ \A x \in Held : x \in Cmds /\ x # NULL /\ NexusOf(x) \in Nexus
  BY OfCommands, AttrTypes DEF Base, Types, BusTypes, InConnection, Held
<1>2. \A n \in Nexus : tg'[n] = IF n = bus THEN u ELSE tg[n]
  BY <1>1
<1>3. \A event \in Over : ~Pending(event) /\ ~Pending(event)'
  BY DEF Pending, Over, InConnection, Ending, Phases
<1>4. ~Ending /\ ~Ending'
  BY <1>3 DEF Ending, Over
<1>5. ASSUME NEW x \in Held
      PROVE  Keeps(x)
  BY <1>1, <1>2, <1>4 DEF Keeps, Untaken
<1>6. Left = tg[bus].msgs /\ (chip'.int # "MSGIN" => Left' = u.msgs)
  BY <1>2, LeftIs, LeftNext DEF Base, Types, BusTypes
<1>7. TargetInv'
  BY <1>2, <1>6 DEF DataInv, TargetInv
<1> QED
  BY <1>5, <1>7, DataGoesBy

(* A target leaves the bus.                                                *)
LEMMA DataOff ==
  ASSUME Base, CalmInv, DataInv, InConnection, bus \in Nexus, bus # NULL,
         chip.int = "none", pc = "handle" => sr.csr \in Phases,
         UNCHANGED <<setup, hd, scp, pc, sr, engine>>, bus' = NULL,
         NEW u, tg' = [tg EXCEPT ![bus] = u],
         chip'.int \in Over, chip'.cmd = "none", chip'.count = chip.count,
         \/ u = Idle
         \/ u.cmd = tg[bus].cmd /\ u.pos = tg[bus].pos /\ tg[bus].cmd = hd.connected
  PROVE  DataInv'
<1>1. /\ tg \in [Nexus -> Units] /\ hd.connected # NULL
      /\ \A x \in Held : x \in Cmds /\ x # NULL /\ NexusOf(x) \in Nexus
  BY OfCommands, AttrTypes DEF Base, Types, BusTypes, InConnection, Held
<1>2. \A n \in Nexus : tg'[n] = IF n = bus THEN u ELSE tg[n]
  BY <1>1
<1>3. \A event \in Over : Pending(event)' <=> chip'.int = event
  BY DEF Pending, Over, Phases
<1>4. ~Ending /\ Ending'
  BY <1>3 DEF Ending, Over, InConnection
<1>5. Idle.cmd = NULL
  BY DEF Idle
<1>6. tg[bus].cmd \in {NULL, hd.connected}
  BY DEF InConnection
<1>7. ASSUME NEW x \in Held
      PROVE  Keeps(x)
  BY <1>1, <1>2, <1>4, <1>5, <1>6, <1>7 DEF Keeps, Untaken
<1>8. TargetInv' /\ ChipGoes
  BY DEF TargetInv, ChipGoes
<1> QED
  BY <1>7, <1>8, DataGoesBy

(* The messages a target sends of its own accord are none of the driver's  *)
(* pointers.                                                               *)
LEMMA OtherMessages ==
  /\ \A off : SDTR(off) # RESTORE_POINTERS
  /\ WDTR # RESTORE_POINTERS /\ OtherExtended # RESTORE_POINTERS
  /\ UnknownMessage # RESTORE_POINTERS /\ MESSAGE_REJECT # RESTORE_POINTERS
  /\ COMMAND_COMPLETE # RESTORE_POINTERS /\ DISCONNECT # RESTORE_POINTERS
  /\ SAVE_POINTERS \o DISCONNECT # RESTORE_POINTERS /\ <<>> \o DISCONNECT # RESTORE_POINTERS
  /\ <<>> # RESTORE_POINTERS
<1>1. <<>> \o DISCONNECT = <<4>> /\ RESTORE_POINTERS = <<3>> /\ SAVE_POINTERS \o DISCONNECT = <<2, 4>>
  BY PlainOnes DEF DISCONNECT, RESTORE_POINTERS
<1>2. \A off : SDTR(off)[1] = 1 /\ WDTR[1] = 1 /\ OtherExtended[1] = 1
  BY DEF SDTR, WDTR, OtherExtended
<1>3. RESTORE_POINTERS[1] = 3 /\ <<2, 4>>[1] = 2
  BY DEF RESTORE_POINTERS
<1> QED
  BY <1>1, <1>2, <1>3 DEF UnknownMessage, MESSAGE_REJECT, COMMAND_COMPLETE, DISCONNECT,
     RESTORE_POINTERS

(* The command and the status are taken.                                   *)
LEMMA DataPhases ==
  ASSUME Base, Base', CalmInv, DataInv, UNCHANGED <<setup, hd, scp, pc, sr, engine>>,
         TakeCommand \/ TakeStatus
  PROVE  DataInv'
<1>1. PICK ph \in {"COMMAND", "STATUS"} :
        Ready(ph) /\ (TakeCommand => ph = "COMMAND") /\ (TakeStatus => ph = "STATUS")
  BY DEF TakeCommand, TakeStatus, Ready
<1>2. /\ chip.int = "none" /\ bus \in Nexus /\ bus # NULL /\ InConnection
      /\ pc # "handle" /\ chip.cmd \in {"info", "level2"} /\ hd.connected \in Cmds
      /\ IsChip(chip) /\ IsUnit(tg[bus]) /\ tg \in [Nexus -> Units]
      /\ tg[bus].ph = (IF ph = "COMMAND" THEN "command" ELSE "status")
      /\ tg[bus].msgs = <<>>
  BY <1>1, Serving DEF Phases
<1>3. UNCHANGED bus
  <2>1. TakeCommand => UNCHANGED bus
    BY DEF TakeCommand
  <2>2. TakeStatus => UNCHANGED bus
    BY DEF TakeStatus
  <2> QED
    BY <2>1, <2>2
<1>4. "none" \notin Over /\ "none" # "MSGIN"
  BY DEF Over
<1>5. CASE TakeCommand
  <2> DEFINE u == [tg[bus] EXCEPT !.ph = "exec", !.cmd = chip.cdb]
  <2>1. tg' = [tg EXCEPT ![bus] = u]
    BY <1>2, <1>5 DEF TakeCommand
  <2>2. tg[bus].cmd = NULL
    BY <1>1, <1>2, <1>5 DEF InConnection
  <2>3. chip.cdb = hd.connected
    BY <1>1, <1>2, <1>5 DEF CalmInv, Level2Inv, Ready, Expected, DataGoesOn
  <2>4. u.cmd = hd.connected /\ u.ph = "exec" /\ u.pos = tg[bus].pos /\ u.msgs = <<>>
    BY <1>2, <2>3 DEF IsUnit
  <2>5. tg[bus].pos = 0
    BY <1>1, <1>2, <1>5 DEF DataInv, TargetInv
  <2>6. chip.cmd = "info" => ~Transferring
    <3>1. chip.cmd = "info" => pc = "sent"
      BY <1>1, <1>5 DEF Ready, Expected, DataInv, MoversInv
    <3> QED
      BY <3>1, HostFieldTypes DEF Base, DmaInv, InDriver, Transferring
  <2>7. chip'.int = "none" /\ ChipGoes
    <3>1. chip.cmd = "level2" => chip.phs = \h20
      BY <1>1, <1>5 DEF Ready, Expected, DataGoesOn
    <3> QED
      BY <1>2, <1>5, <2>6, <3>1 DEF TakeCommand, IsChip, ChipGoes
  <2> HIDE DEF u
  <2> QED
    BY <1>2, <1>3, <1>4, <2>1, <2>2, <2>4, <2>5, <2>7, OtherMessages, DataOn
<1>6. CASE TakeStatus
  <2> DEFINE u == [tg[bus] EXCEPT !.ph = "complete", !.msgs = COMMAND_COMPLETE]
  <2>1. tg' = [tg EXCEPT ![bus] = u]
    BY <1>2, <1>6 DEF TakeStatus
  <2>2. /\ u.cmd = tg[bus].cmd /\ u.pos = tg[bus].pos /\ u.ph = "complete"
        /\ u.msgs = COMMAND_COMPLETE
    BY <1>2, <1>6 DEF IsUnit
  <2>3. chip'.int = "none" /\ ChipGoes
    BY <1>2, <1>6 DEF TakeStatus, IsChip, ChipGoes
  <2> HIDE DEF u
  <2> QED
    BY <1>2, <1>3, <1>4, <2>1, <2>2, <2>3, OtherMessages, DataOn
<1> QED
  BY <1>5, <1>6

(* Data pass: the target, the count and the DMA go on together.            *)
LEMMA DataMoves ==
  ASSUME Base, CalmInv, DataInv, UNCHANGED setup, NEW k \in 1..chip.count,
         DmaMoves(k) \/ PioMoves(k)
  PROVE  DataInv'
<1> DEFINE c == hd.connected
<1>1. MoveData(k) /\ UNCHANGED <<setup, hd, scp, pc, sr, bus>>
  BY DEF DmaMoves, PioMoves, driverVars, MoveData
<1>2. PICK ph \in {"DATA_IN", "DATA_OUT"} : Ready(ph)
  BY <1>1 DEF MoveData
<1>3. /\ chip.int = "none" /\ bus \in Nexus /\ bus # NULL /\ InConnection
      /\ pc # "handle" /\ chip.cmd \in {"info", "level2"} /\ c \in Cmds
      /\ IsChip(chip) /\ IsUnit(tg[bus]) /\ tg \in [Nexus -> Units]
      /\ tg[bus].ph = "data" /\ tg[bus].msgs = <<>> /\ Phase = ph
  BY <1>2, Serving DEF Phases
<1>4. PICK p \in {"data", "exec"} : tg' = [tg EXCEPT ![bus].pos = @ + k, ![bus].ph = p]
  BY <1>1 DEF MoveData
<1> DEFINE u == [tg[bus] EXCEPT !.pos = tg[bus].pos + k, !.ph = p]
           f == IF chip.cmd = "level2" THEN \h46 ELSE chip.phs
           d == IF chip.cmd = "info" /\ k = chip.count THEN "none" ELSE chip.cmd
<1>5. tg' = [tg EXCEPT ![bus] = u]
  BY <1>3, <1>4
<1>6. u.pos = tg[bus].pos + k /\ u.ph \in {"data", "exec"} /\ u.cmd = tg[bus].cmd /\ u.msgs = <<>>
  BY <1>3 DEF IsUnit
<1>7. chip' = [chip EXCEPT !.count = chip.count - k, !.phs = f, !.cmd = d]
  BY <1>1 DEF MoveData
<1>8. /\ chip'.count = chip.count - k /\ chip'.cmd \in {chip.cmd, "none"} /\ chip'.int = "none"
      /\ chip'.xph = chip.xph /\ chip'.polled = chip.polled
  <2>1. d \in {chip.cmd, "none"}
    OBVIOUS
  <2> HIDE DEF f, d
  <2> QED
    BY <1>3, <1>7, <2>1 DEF IsChip
<1> HIDE DEF u, f, d
<1>9. Transferring /\ (engine.cmd # NULL => engine.cmd = c)
  BY DEF DmaMoves, PioMoves, Base, DmaInv, Transferring
<1>10. /\ c \in Held /\ c # NULL /\ bus = NexusOf(c) /\ tg[bus].cmd = c
       /\ \A x \in Held : x \in Cmds /\ x # NULL /\ NexusOf(x) \in Nexus
  BY <1>3, OfCommands, AttrTypes DEF Base, InConnection, Held, Started
<1>11. /\ scp[c].ptr \in Nat /\ scp[c].left \in Nat /\ chip.count \in Nat /\ tg[bus].pos \in Nat
       /\ k \in Nat /\ End(c) \in Nat
  <2>1. scp \in [Cmds -> Pointers] /\ chip \in Chips /\ tg \in [Nexus -> Units] /\ c \in Cmds
    BY <1>3 DEF Base, Types, HostTypes, BusTypes, PointersOk
  <2>2. scp[c] \in Pointers /\ tg[bus] \in Units
    BY <1>3, <2>1
  <2>3. scp[c].ptr \in Nat /\ scp[c].left \in Nat
    BY <2>2 DEF Pointers
  <2>4. chip.count \in Nat
    BY <2>1 DEF Chips
  <2>5. tg[bus].pos \in Nat
    BY <2>2, UnitTypes
  <2> QED
    BY <2>3, <2>4, <2>5 DEF End
<1>12. Held' = Held /\ Transferring' /\ \A x : End(x)' = End(x)
  BY <1>1, <1>9 DEF Held, Queued, Started, Away, Transferring, End
<1>13. \A event \in Over : ~Pending(event) /\ ~Pending(event)'
  BY <1>1, <1>3, <1>8 DEF Pending, Over
<1>14. ~Ending /\ ~Ending'
  BY <1>13 DEF Ending, Over
<1>15. \A n \in Nexus : tg'[n] = IF n = bus THEN u ELSE tg[n]
  BY <1>3, <1>5
<1>16. \A x \in Held : Where(x)' = IF x = c THEN Where(x) + k ELSE Where(x)
  BY <1>1, <1>8, <1>9, <1>11, <1>12 DEF Where
<1>17. tg[bus].pos = Where(c)
  BY <1>10 DEF DataInv, PlaceInv
<1>18. PlaceInv'
  <2>1. ASSUME NEW x \in Held
        PROVE  /\ tg'[NexusOf(x)].cmd = x => tg'[NexusOf(x)].pos = Where(x)'
               /\ Untaken(x)' => Where(x)' = 0
    <3>1. CASE x = c
      <4>1. tg'[NexusOf(x)] = u /\ u.cmd = x
        BY <1>6, <1>10, <1>15, <3>1
      <4>2. ~Untaken(x)'
        BY <4>1 DEF Untaken
      <4>3. u.pos = Where(x)'
        BY <1>6, <1>16, <1>17, <3>1
      <4> QED
        BY <4>1, <4>2, <4>3
    <3>2. CASE x # c
      <4>1. tg'[NexusOf(x)].cmd = x => tg[NexusOf(x)].cmd = x /\ tg'[NexusOf(x)] = tg[NexusOf(x)]
        BY <1>6, <1>10, <1>15, <3>2
      <4>2. Untaken(x)' => Untaken(x)
        BY <1>6, <1>10, <1>14, <1>15, <3>2 DEF Untaken
      <4> QED
        BY <1>16, <3>2, <4>1, <4>2 DEF DataInv, PlaceInv
    <3> QED
      BY <3>1, <3>2
  <2> QED
    BY <1>12, <2>1 DEF PlaceInv
<1>19. EngineInv'
  <2>1. CASE DmaMoves(k)
    <3>1. engine.cmd = c /\ engine'.cmd = c /\ engine'.at = engine.at + k /\ engine'.via = engine.via
      BY <1>9, <2>1 DEF DmaMoves, Base, Types, HostTypes, Dmas
    <3>2. engine.at = End(c) - chip.count
      BY <1>10, <3>1 DEF DataInv, EngineInv
    <3> QED
      BY <1>1, <1>8, <1>11, <1>12, <3>1, <3>2 DEF DataInv, EngineInv
  <2>2. CASE PioMoves(k)
    <3>1. engine.cmd = NULL /\ engine' = engine
      BY <2>2 DEF PioMoves, driverVars, Base, DmaInv, InDriver
    <3> QED
      BY <1>1, <3>1 DEF DataInv, EngineInv
  <2> QED
    BY <2>1, <2>2
<1>20. MoversInv'
  <2>1. engine'.cmd = engine.cmd
    BY DEF DmaMoves, PioMoves, driverVars, Base, Types, HostTypes, Dmas
  <2>2. chip.cmd = "level2" => chip.phs \notin {\h41, \h50}
    BY <1>2, <1>3 DEF Ready, Expected, DataGoesOn
  <2>3. chip.count # 0
    BY <1>11
  <2> QED
    BY <1>1, <1>8, <2>1, <2>2, <2>3 DEF DataInv, MoversInv
<1>21. TargetInv'
  <2>1. Left' = u.msgs
    BY <1>1, <1>3, <1>6, <1>8, <1>15, ConcatEmptySeq DEF Left
  <2> QED
    BY <1>1, <1>3, <1>6, <1>15, <2>1, OtherMessages DEF TargetInv
<1>22. BuffersInv'
  BY <1>1, <1>12 DEF DataInv, BuffersInv
<1> QED
  BY <1>18, <1>19, <1>20, <1>21, <1>22 DEF DataInv

(* The driver's messages are taken.                                        *)
LEMMA DataMessages ==
  ASSUME Base, Base', CalmInv, DataInv, TakeMessages,
         UNCHANGED <<setup, hd, scp, pc, sr, engine>>
  PROVE  DataInv'
<1> DEFINE ms    == chip.out
           sdtr  == {m.off : m \in {x \in ToSet(ms) : x.msg = "SDTR"}}
           first == ms[1]
           n     == IF first.msg = "IDENTIFY" THEN <<bus[1], first.lun>> ELSE bus
           t     == IF first.msg = "IDENTIFY"
                    THEN [tg[bus] EXCEPT !.ph = "command", !.disc = first.disc]
                    ELSE tg[bus]
           own   == t.pend = "offered"
           off   == CHOOSE x \in sdtr : TRUE
           mode  == IF off > 0 THEN "sync" ELSE "async"
           u(a)  == IF own THEN [t EXCEPT !.pend = "none"]
                    ELSE IF sdtr = {} \/ a = "mute" THEN t
                    ELSE IF a = "agree" THEN [t EXCEPT !.msgs = SDTR(off), !.pend = mode]
                    ELSE [t EXCEPT !.msgs = MESSAGE_REJECT, !.pend = "async"]
<1>1. Ready("MESS_OUT") /\ "MESS_OUT" \in Phases
  BY DEF TakeMessages, Phases
<1>2. /\ chip.int = "none" /\ bus \in Nexus /\ bus # NULL /\ InConnection
      /\ pc # "handle" /\ hd.connected \in Cmds
      /\ IsChip(chip) /\ IsUnit(tg[bus]) /\ tg \in [Nexus -> Units]
      /\ Phase = "MESS_OUT" /\ tg[bus].msgs = <<>>
  BY <1>1, Serving
<1>3. chip.cmd = "info" /\ chip.xph = "MESS_OUT"
  BY <1>1 DEF Ready, Expected, DataGoesOn
<1>4. ms # <<>> /\ pc = "sent"
  BY <1>3 DEF Base, SelectInv, IdentifySent
<1>5. PICK a \in {"agree", "reject", "early", "mute"} :
        /\ bus' = n
        /\ tg' = [tg EXCEPT ![bus] = Idle, ![n] = u(a)]
        /\ chip' = IF a = "early" THEN [chip EXCEPT !.cmd = "none", !.count = 1]
                   ELSE [chip EXCEPT !.cmd = "none", !.count = 0, !.atn = FALSE, !.out = <<>>]
  <2> HIDE DEF sdtr, off
  <2> QED
    BY DEF TakeMessages, Answers, sdtr, off
<1>6. first.msg = "IDENTIFY" => first.lun = Attr[hd.connected].lun /\ tg[bus].ph = "select"
  BY <1>3, <1>4 DEF CalmInv, IdentifyInv, Identifies
<1>7. n = bus
  <2>1. bus = <<Attr[hd.connected].id, Attr[hd.connected].lun>>
    BY <1>2 DEF InConnection, NexusOf
  <2> QED
    BY <1>6, <2>1
<1>8. /\ IsUnit(t) /\ t.cmd = tg[bus].cmd /\ t.pos = tg[bus].pos /\ t.msgs = <<>>
      /\ t.ph = tg[bus].ph \/ (tg[bus].ph = "select" /\ t.ph = "command")
  <2> HIDE DEF first
  <2> QED
    BY <1>2, <1>6 DEF IsUnit
<1>9. /\ u(a).cmd = t.cmd /\ u(a).ph = t.ph /\ u(a).pos = t.pos
      /\ u(a).msgs # RESTORE_POINTERS
  <2> HIDE DEF t, sdtr, off, mode
  <2>1. \A m, p : LET v == [t EXCEPT !.msgs = m, !.pend = p]
                  IN v.cmd = t.cmd /\ v.ph = t.ph /\ v.pos = t.pos /\ v.msgs = m
    BY <1>8 DEF IsUnit
  <2>2. LET v == [t EXCEPT !.pend = "none"]
        IN v.cmd = t.cmd /\ v.ph = t.ph /\ v.pos = t.pos /\ v.msgs = t.msgs
    BY <1>8 DEF IsUnit
  <2>3. t.msgs # RESTORE_POINTERS /\ SDTR(off) # RESTORE_POINTERS
        /\ MESSAGE_REJECT # RESTORE_POINTERS
    BY <1>8, OtherMessages
  <2> QED
    BY <2>1, <2>2, <2>3
<1> DEFINE w == u(a)
<1>10. /\ w.cmd = tg[bus].cmd /\ w.pos = tg[bus].pos /\ w.msgs # RESTORE_POINTERS
       /\ w.ph \in {"select", "command"} => tg[bus].ph \in {"select", "command"}
  <2> HIDE DEF t, u
  <2> QED
    BY <1>8, <1>9
<1> HIDE DEF u, n, w
<1>11. tg' = [tg EXCEPT ![bus] = w] /\ bus' = bus
  BY <1>2, <1>5, <1>7 DEF w
<1>12. chip'.int = "none" /\ chip'.cmd = "none" /\ chip'.int \notin Over
  BY <1>2, <1>5 DEF IsChip, Over
<1>13. ~Transferring
  BY <1>4, HostFieldTypes DEF Base, DmaInv, InDriver, Transferring
<1>14. ChipGoes
  BY <1>12, <1>13 DEF ChipGoes
<1> QED
  BY <1>2, <1>10, <1>11, <1>12, <1>14, DataOn

(* A message byte is read singly.                                          *)
LEMMA DataByte ==
  ASSUME Base, Base', CalmInv, DataInv, TakeByte,
         UNCHANGED <<setup, hd, scp, pc, sr, engine>>
  PROVE  DataInv'
<1>1. /\ chip.int = "none" /\ bus \in Nexus /\ bus # NULL /\ InConnection
      /\ pc # "handle" /\ hd.connected \in Cmds
      /\ IsChip(chip) /\ IsUnit(tg[bus]) /\ tg \in [Nexus -> Units] /\ tg[bus].msgs # <<>>
  BY Serving DEF TakeByte, Phases
<1>2. /\ chip'.cmd = "none" /\ chip'.int = "MSGIN" /\ chip'.count = chip.count
      /\ chip'.byte = Head(tg[bus].msgs)
  BY <1>1 DEF TakeByte, IsChip
<1>3. PICK m, s, p : /\ tg' = [tg EXCEPT ![bus].msgs = m, ![bus].saved = s, ![bus].pend = p]
                     /\ m = Tail(tg[bus].msgs)
  <2> DEFINE b == tg[bus]
             m == Tail(b.msgs)
             s == IF b.msgs[1] = SAVE_POINTERS[1] /\ b.ph = "away" THEN b.pos ELSE b.saved
             p == IF Len(b.msgs) = 1 /\ b.pend # "offered" THEN "none" ELSE b.pend
  <2>1. tg' = [tg EXCEPT ![bus].msgs = m, ![bus].saved = s, ![bus].pend = p]
    BY <1>1 DEF TakeByte, IsUnit
  <2> QED
    BY <2>1
<1> DEFINE u == [tg[bus] EXCEPT !.msgs = m, !.saved = s, !.pend = p]
<1>4. tg' = [tg EXCEPT ![bus] = u]
  BY <1>1, <1>3
<1>5. u.cmd = tg[bus].cmd /\ u.pos = tg[bus].pos /\ u.ph = tg[bus].ph /\ u.msgs = m
  BY <1>1 DEF IsUnit
<1>6. bus' = bus
  BY DEF TakeByte
<1>7. Left' = Left
  <2>1. Left = tg[bus].msgs /\ tg[bus].msgs \in Seq(Nat)
    BY <1>1, LeftIs DEF Base, Types, BusTypes
  <2>2. tg'[bus].msgs = m
    BY <1>1, <1>4, <1>5
  <2>3. Left' = <<Head(tg[bus].msgs)>> \o Tail(tg[bus].msgs)
    BY <1>2, <1>3, <1>6, <2>2 DEF Left
  <2>4. \A q \in Seq(Nat) : q # <<>> => <<Head(q)>> \o Tail(q) = q
    BY HeadAndTail
  <2> QED
    BY <1>1, <2>1, <2>3, <2>4
<1> HIDE DEF u
<1>8. chip'.int \notin Over /\ ChipGoes
  BY <1>2 DEF Over, ChipGoes
<1> QED
  BY <1>1, <1>4, <1>5, <1>6, <1>7, <1>8, DataOn

(* A message read within a level-2 command.                                *)
LEMMA DataLevel2Message ==
  ASSUME Base, Base', CalmInv, CalmInv', DataInv, Level2Message,
         UNCHANGED <<setup, hd, scp, pc, sr, engine>>
  PROVE  DataInv'
<1> DEFINE t == tg[bus]
<1>1. /\ chip.int = "none" /\ bus \in Nexus /\ bus # NULL /\ InConnection
      /\ pc # "handle" /\ hd.connected \in Cmds
      /\ IsChip(chip) /\ IsUnit(tg[bus]) /\ tg \in [Nexus -> Units]
      /\ t.msgs # <<>> /\ chip.cmd = "level2"
  BY Serving DEF Level2Message, Phases
<1>2. t.msgs \in Seq(Nat) /\ Left = t.msgs /\ hd.incoming_msg = <<>> /\ In = Left
  <2>1. t.msgs \in Seq(Nat) /\ Left = t.msgs
    BY <1>1, UnitTypes, LeftIs DEF Base, Types, BusTypes
  <2>2. hd.incoming_msg = <<>>
    BY <1>1 DEF CalmInv, MessagesInv
  <2> QED
    BY <2>1, <2>2, ConcatEmptySeq DEF In
<1>3. CASE t.msgs = COMMAND_COMPLETE
  <2>1. t.msgs # DISCONNECT
    BY <1>3 DEF DISCONNECT, COMMAND_COMPLETE
  <2>2. chip' = [chip EXCEPT !.cmd = "none", !.int = "SEL_XFER_DONE", !.phs = \h60]
        /\ tg' = [tg EXCEPT ![bus] = Idle] /\ bus' = NULL
    BY <1>3, <2>1 DEF Level2Message
  <2>3. chip'.cmd = "none" /\ chip'.int \in Over /\ chip'.count = chip.count
    BY <1>1, <2>2 DEF IsChip, Over
  <2> QED
    BY <1>1, <2>2, <2>3, DataOff
<1>4. CASE t.msgs = DISCONNECT
  <2> DEFINE u == [t EXCEPT !.msgs = <<>>, !.ph = "disc"]
  <2>1. t.msgs # COMMAND_COMPLETE
    BY <1>4 DEF DISCONNECT, COMMAND_COMPLETE
  <2>2. chip' = [chip EXCEPT !.cmd = "none", !.int = "DISC", !.phs = \h43]
        /\ tg' = [tg EXCEPT ![bus].msgs = <<>>, ![bus].ph = "disc"] /\ bus' = NULL
    BY <1>4, <2>1 DEF Level2Message
  <2>3. chip'.cmd = "none" /\ chip'.int \in Over /\ chip'.count = chip.count
    BY <1>1, <2>2 DEF IsChip, Over
  <2>4. tg' = [tg EXCEPT ![bus] = u]
    BY <1>1, <2>2
  <2>5. t.ph = "away"
    <3>1. Left \notin {RESTORE_POINTERS, MESSAGE_REJECT, UnknownMessage}
          /\ Left # COMMAND_COMPLETE /\ Left # <<>>
      BY <1>1, <1>2, <1>4, <2>1 DEF DISCONNECT, RESTORE_POINTERS, MESSAGE_REJECT,
         UnknownMessage
    <3>2. ~InExtended
      BY <1>2, <1>4 DEF InExtended, DISCONNECT
    <3> QED
      BY <1>1, <1>2, <3>1, <3>2 DEF CalmInv, MessagesInv
  <2>6. u.cmd = tg[bus].cmd /\ u.pos = tg[bus].pos /\ tg[bus].cmd = hd.connected
    BY <1>1, <2>5 DEF IsUnit, InConnection
  <2> HIDE DEF u, t
  <2> QED
    BY <1>1, <2>2, <2>3, <2>4, <2>6, DataOff
<1>5. CASE t.msgs \notin {COMMAND_COMPLETE, DISCONNECT}
  <2> DEFINE u == [t EXCEPT !.msgs = Tail(t.msgs), !.saved = t.pos]
  <2>1. chip' = [chip EXCEPT !.cmd = "none", !.int = "SDP", !.phs = \h41, !.ack = TRUE]
        /\ tg' = [tg EXCEPT ![bus].msgs = Tail(@), ![bus].saved = t.pos] /\ bus' = bus
    BY <1>5 DEF Level2Message
  <2>2. chip'.cmd = "none" /\ chip'.int = "SDP" /\ chip'.count = chip.count
        /\ chip'.int \notin Over
    BY <1>1, <2>1 DEF IsChip, Over
  <2>3. tg' = [tg EXCEPT ![bus] = u]
    BY <1>1, <2>1
  <2>4. u.ph = t.ph /\ u.cmd = t.cmd /\ u.pos = t.pos /\ u.msgs = Tail(t.msgs)
    BY <1>1 DEF IsUnit
  <2>5. Head(t.msgs) = 2
    BY <1>1, <1>5 DEF Level2Message, Ready, Expected, DataGoesOn, SAVE_POINTERS
  <2>6. t.msgs = SAVE_POINTERS \o DISCONNECT
    <3>1. ~InExtended
      BY <1>1, <1>2, <2>5 DEF InExtended
    <3>2. Left \notin {RESTORE_POINTERS, MESSAGE_REJECT, UnknownMessage}
      BY <1>2, <2>5 DEF RESTORE_POINTERS, MESSAGE_REJECT, UnknownMessage
    <3> QED
      BY <1>1, <1>2, <1>5, <3>1, <3>2 DEF CalmInv, MessagesInv
  <2>7. u.msgs # RESTORE_POINTERS
    <3>1. Tail(<<2, 4>>) = <<4>> /\ t.msgs = <<2, 4>>
      BY <2>6, PlainOnes
    <3> QED
      BY <2>4, <3>1 DEF RESTORE_POINTERS
  <2>8. ChipGoes
    BY <2>2 DEF ChipGoes
  <2> HIDE DEF u
  <2> QED
    BY <1>1, <2>1, <2>2, <2>3, <2>4, <2>7, <2>8, DataOn
<1> QED
  BY <1>3, <1>4, <1>5

(* A target lets go of the bus after its last message, or drops off it.    *)
LEMMA DataRelease ==
  ASSUME Base, CalmInv, DataInv, ReleaseBus \/ Drop,
         UNCHANGED <<setup, hd, scp, pc, sr, engine>>
  PROVE  DataInv'
<1> DEFINE t == tg[bus]
<1>1. /\ chip.int = "none" /\ bus # NULL /\ ~chip.ack /\ t.msgs = <<>>
      /\ Drop => t.ph \in {"exec", "data"}
      /\ ReleaseBus => t.ph \in {"away", "complete"}
  BY DEF ReleaseBus, Drop
<1>2. /\ InConnection /\ bus \in Nexus /\ hd.connected \in Cmds
      /\ pc = "handle" => sr.csr \in Phases
  BY <1>1, OnBus
<1>3. /\ IsChip(chip) /\ IsUnit(t) /\ tg \in [Nexus -> Units] /\ t.cmd = hd.connected
  BY <1>1, <1>2, RecordDomains DEF Base, Types, BusTypes, InConnection
<1>4. /\ bus' = NULL /\ chip'.cmd = "none" /\ chip'.int \in Over /\ chip'.count = chip.count
  BY <1>1, <1>3 DEF ReleaseBus, Drop, IsChip, Over
<1>5. PICK u : /\ tg' = [tg EXCEPT ![bus] = u]
               /\ u = Idle \/ (u.cmd = t.cmd /\ u.pos = t.pos)
  <2>1. CASE Drop \/ (ReleaseBus /\ t.ph # "away")
    <3>1. tg' = [tg EXCEPT ![bus] = Idle]
      BY <1>3, <2>1 DEF ReleaseBus, Drop
    <3> QED
      BY <3>1
  <2>2. CASE ReleaseBus /\ t.ph = "away"
    <3> DEFINE v == [t EXCEPT !.ph = "disc"]
    <3>1. tg' = [tg EXCEPT ![bus] = v]
      BY <1>3, <2>2 DEF ReleaseBus
    <3>2. v.cmd = t.cmd /\ v.pos = t.pos
      BY <1>3 DEF IsUnit
    <3> HIDE DEF v
    <3> QED
      BY <3>1, <3>2
  <2> QED
    BY <2>1, <2>2
<1> QED
  BY <1>1, <1>2, <1>3, <1>4, <1>5, DataOff

(* A selection is answered: the target has no command yet.                 *)
LEMMA DataSelected ==
  ASSUME Base, Base', CalmInv, DataInv, Selected,
         UNCHANGED <<setup, hd, scp, pc, sr, engine>>
  PROVE  DataInv'
<1>1. /\ chip.int = "none" /\ bus = NULL /\ chip.cmd \in {"select", "level2"}
      /\ bus' = <<chip.id, chip.lun>>
  BY DEF Selected
<1>2. /\ IsChip(chip) /\ tg \in [Nexus -> Units] /\ NULL \notin Nexus
      /\ pc \notin {"handle", "status"} /\ \A n \in Nexus : OffBus(tg[n])
  BY <1>1, FreeBus DEF InDriver
<1> DEFINE c == IF chip.cmd = "select" THEN hd.selecting ELSE hd.connected
<1>3. c # NULL /\ c \in Cmds /\ bus' = NexusOf(c) /\ bus' \in Nexus
  <2>1. c # NULL /\ bus' = NexusOf(c)
    BY <1>1 DEF Base, SelectInv, Selects, SelectsToTransfer
  <2>2. c \in Cmds
    BY <2>1, HostFieldTypes DEF Base, Types, HostTypes
  <2> QED
    BY <2>1, <2>2, AttrTypes
<1>4. chip'.int \in {"none", "SELECT"} /\ ChipGoes
  <2>1. chip.cmd = "level2" => chip.phs = 0
    BY <1>1 DEF CalmInv, Level2Inv
  <2>2. CASE chip.cmd = "select"
    <3>1. chip'.cmd = "none" /\ chip'.int = "SELECT" /\ chip'.count = chip.count
      BY <1>2, <2>2 DEF Selected, IsChip
    <3> QED
      BY <3>1 DEF ChipGoes
  <2>3. CASE chip.cmd = "level2"
    <3>1. /\ chip'.cmd = "level2" /\ chip'.int = "none" /\ chip'.count = chip.count
          /\ chip'.polled = chip.polled
      BY <1>1, <1>2, <2>3 DEF Selected, IsChip
    <3> QED
      BY <2>1, <2>3, <3>1 DEF ChipGoes
  <2> QED
    BY <1>1, <2>2, <2>3
<1>5. PICK u : /\ tg' = [tg EXCEPT ![bus'] = u] /\ u.cmd = NULL /\ u.pos = 0 /\ u.msgs = <<>>
  <2> DEFINE v == [Idle EXCEPT !.ph = "select"]
             w == [Idle EXCEPT !.ph = "command", !.disc = chip.er]
  <2>1. tg' = [tg EXCEPT ![bus'] = v] \/ tg' = [tg EXCEPT ![bus'] = w]
    BY DEF Selected
  <2>2. v.cmd = NULL /\ v.pos = 0 /\ v.msgs = <<>> /\ w.cmd = NULL /\ w.pos = 0 /\ w.msgs = <<>>
    BY DEF Idle
  <2> HIDE DEF v, w
  <2> QED
    BY <2>1, <2>2
<1>6. \A event \in Over : ~Pending(event) /\ ~Pending(event)'
  BY <1>1, <1>2, <1>4 DEF Pending, Over
<1>7. ~Ending /\ ~Ending'
  BY <1>6 DEF Ending, Over
<1>8. tg[bus'].cmd = NULL
  <2>1. ~Pending("DISC")
    BY <1>6 DEF Over
  <2>2. \A x \in Gone : NexusOf(x) # NexusOf(c)
    BY <1>3, <2>1, GoneElsewhere DEF Base
  <2>3. tg[bus'].cmd # NULL => NexusOf(tg[bus'].cmd) = bus' /\ tg[bus'].cmd \in Gone
    BY <1>2, <1>3 DEF CalmInv, UnitsInv, OffBus
  <2> QED
    BY <1>3, <2>2, <2>3
<1>9. \A n \in Nexus : tg'[n] = IF n = bus' THEN u ELSE tg[n]
  BY <1>2, <1>5
<1>10. ASSUME NEW x \in Held
       PROVE  Keeps(x)
  <2>1. x # NULL /\ NexusOf(x) \in Nexus
    BY OfCommands, AttrTypes DEF Base, Held
  <2> QED
    BY <1>5, <1>7, <1>8, <1>9, <2>1 DEF Keeps, Untaken
<1>11. TargetInv'
  <2>1. Left' = u.msgs
    BY <1>3, <1>4, <1>9, LeftNext
  <2> QED
    BY <1>3, <1>5, <1>9, <2>1, OtherMessages DEF TargetInv
<1> QED
  BY <1>4, <1>10, <1>11, DataGoesBy

(* A target comes back, or a selection is not answered.                    *)
LEMMA DataBack ==
  ASSUME Base, Base', CalmInv, DataInv, UNCHANGED <<setup, hd, scp, pc, sr, engine>>,
         SelectionTimeout \/ \E n \in Nexus : Reselect(n)
  PROVE  DataInv'
<1>1. chip.int = "none" /\ bus = NULL
  BY DEF SelectionTimeout, Reselect
<1>2. /\ IsChip(chip) /\ tg \in [Nexus -> Units] /\ NULL \notin Nexus
      /\ \A n \in Nexus : OffBus(tg[n])
  BY <1>1, FreeBus
<1>3. /\ chip'.cmd = "none" /\ chip'.int \in {"TIMEOUT", "RESEL_AM"}
      /\ chip'.count = chip.count
  BY <1>2 DEF SelectionTimeout, Reselect, IsChip
<1>4. \A event \in Over : Pending(event)' <=> Pending(event)
  BY <1>1, <1>3 DEF Pending, Over
<1>5. Ending' <=> Ending
  BY <1>4 DEF Ending, Over
<1>6. /\ \A n \in Nexus : tg'[n].cmd = tg[n].cmd /\ tg'[n].pos = tg[n].pos
      /\ bus' # NULL => bus' \in Nexus /\ tg'[bus'].msgs = <<>> /\ tg'[bus'].ph = "exec"
  <2>1. CASE SelectionTimeout
    BY <1>1, <1>2, <2>1 DEF SelectionTimeout
  <2>2. CASE \E n \in Nexus : Reselect(n)
    <3>1. PICK n \in Nexus : Reselect(n)
      BY <2>2
    <3>2. IsUnit(tg[n]) /\ tg[n].msgs = <<>>
      BY <1>2, RecordDomains DEF OffBus
    <3>3. tg' = [tg EXCEPT ![n].ph = "exec"] /\ bus' = n
      BY <3>1 DEF Reselect
    <3>4. /\ tg'[n].cmd = tg[n].cmd /\ tg'[n].pos = tg[n].pos /\ tg'[n].ph = "exec"
          /\ tg'[n].msgs = <<>>
      BY <1>2, <3>2, <3>3 DEF IsUnit
    <3>5. \A k \in Nexus : k # n => tg'[k] = tg[k]
      BY <1>2, <3>3
    <3> QED
      BY <3>3, <3>4, <3>5
  <2> QED
    BY <2>1, <2>2
<1>7. ASSUME NEW x \in Held
      PROVE  Keeps(x)
  <2>1. x # NULL /\ NexusOf(x) \in Nexus
    BY OfCommands, AttrTypes DEF Base, Held
  <2> QED
    BY <1>5, <1>6, <2>1 DEF Keeps, Untaken
<1>8. TargetInv'
  <2>1. bus' # NULL => Left' = <<>>
    BY <1>3, <1>6, LeftNext
  <2> QED
    BY <1>6, <2>1, OtherMessages DEF TargetInv
<1>9. ChipGoes
  BY <1>3 DEF ChipGoes
<1> QED
  BY <1>7, <1>8, <1>9, DataGoesBy

(* A phase is reported.                                                    *)
LEMMA DataReport ==
  ASSUME Base, Base', CalmInv, DataInv, ReportPhase,
         UNCHANGED <<setup, hd, scp, pc, sr, engine>>
  PROVE  DataInv'
<1>1. UNCHANGED <<bus, tg>> /\ chip.int = "none" /\ bus # NULL /\ Phase # "none"
  BY DEF ReportPhase
<1>2. IsChip(chip) /\ bus \in Nexus /\ tg \in [Nexus -> Units]
  BY <1>1, RecordDomains DEF Base, Types, BusTypes
<1>3. /\ chip'.cmd = "none" /\ chip'.int \in Phases /\ chip'.count = chip.count
  BY <1>1, <1>2, PhaseType DEF ReportPhase, IsChip
<1>4. \A event \in Over : Pending(event)' <=> Pending(event)
  BY <1>1, <1>3 DEF Pending, Over, Phases
<1>5. Ending' <=> Ending
  BY <1>4 DEF Ending, Over
<1>6. \A x \in Held : Keeps(x)
  BY <1>1, <1>5 DEF Keeps, Untaken
<1>7. Left' = Left
  BY <1>1, <1>2, <1>3, LeftIs, LeftNext DEF Base, Types, BusTypes, Phases
<1>8. TargetInv'
  BY <1>1, <1>7 DEF DataInv, TargetInv
<1>9. ChipGoes
  BY <1>3 DEF ChipGoes
<1> QED
  BY <1>6, <1>8, <1>9, DataGoesBy

(* The target goes on with its command, or says something.                 *)
LEMMA DataTarget ==
  ASSUME Base, Base', CalmInv, DataInv, Onward, TargetSteps,
         UNCHANGED <<setup, hd, scp, pc, sr, engine>>
  PROVE  DataInv'
<1>1. /\ Free("exec") \/ (Free("command") /\ chip.int = "none")
      /\ UNCHANGED <<chip, bus>>
  BY DEF TargetSteps, StartData, GiveStatus, StartDisconnect, Quirk
<1>2. /\ chip.int = "none" /\ InConnection /\ bus \in Nexus /\ bus # NULL
      /\ pc = "handle" => sr.csr \in Phases
  BY <1>1, Thinks
<1>3. /\ IsUnit(tg[bus]) /\ tg \in [Nexus -> Units] /\ "none" \notin Over /\ "none" # "MSGIN"
      /\ tg[bus].ph \in {"exec", "command"} /\ tg[bus].msgs = <<>>
  BY <1>1, <1>2, RecordDomains DEF Base, Types, BusTypes, Over, Free
<1>4. ASSUME NEW u, tg' = [tg EXCEPT ![bus] = u], u.cmd = tg[bus].cmd, u.pos = tg[bus].pos,
             u.ph \in {"select", "command"} => tg[bus].ph \in {"select", "command"},
             u.msgs = RESTORE_POINTERS => "restore" \in setup.quirks
      PROVE  DataInv'
  <2>1. ChipGoes /\ chip'.int \notin Over /\ chip'.int # "MSGIN"
    BY <1>1, <1>2, <1>3 DEF ChipGoes
  <2> QED
    BY <1>1, <1>2, <1>3, <1>4, <2>1, DataOn
<1>5. CASE StartData
  <2> DEFINE u == [tg[bus] EXCEPT !.ph = "data"]
  <2>1. tg' = [tg EXCEPT ![bus] = u]
    BY <1>3, <1>5 DEF StartData
  <2>2. u.cmd = tg[bus].cmd /\ u.pos = tg[bus].pos /\ u.ph = "data" /\ u.msgs = <<>>
    BY <1>3 DEF IsUnit
  <2> HIDE DEF u
  <2> QED
    BY <1>4, <2>1, <2>2, OtherMessages
<1>6. CASE StartDisconnect
  <2> DEFINE m == (IF tg[bus].pos # tg[bus].saved THEN SAVE_POINTERS ELSE <<>>) \o DISCONNECT
             u == [tg[bus] EXCEPT !.ph = "away", !.msgs = m]
  <2>1. tg' = [tg EXCEPT ![bus] = u]
    BY <1>3, <1>6 DEF StartDisconnect
  <2>2. m # RESTORE_POINTERS
    BY OtherMessages
  <2> HIDE DEF m
  <2>3. u.cmd = tg[bus].cmd /\ u.pos = tg[bus].pos /\ u.ph = "away" /\ u.msgs = m
    BY <1>3 DEF IsUnit
  <2> HIDE DEF u
  <2> QED
    BY <1>4, <2>1, <2>2, <2>3
<1>7. CASE \E st \in {GOOD, CHECK} : GiveStatus(st)
  <2>1. PICK st \in {GOOD, CHECK} : GiveStatus(st)
    BY <1>7
  <2> DEFINE u == [tg[bus] EXCEPT !.ph = "status", !.st = st]
  <2>2. tg' = [tg EXCEPT ![bus] = u]
    BY <1>3, <2>1 DEF GiveStatus
  <2>3. u.cmd = tg[bus].cmd /\ u.pos = tg[bus].pos /\ u.ph = "status" /\ u.msgs = <<>>
    BY <1>3 DEF IsUnit
  <2> HIDE DEF u
  <2> QED
    BY <1>4, <2>2, <2>3, OtherMessages
<1>8. CASE Quirk
  <2> DEFINE v(m, pend) == [tg[bus] EXCEPT !.msgs = m, !.odd = TRUE, !.pend = pend]
             a(m) == [tg EXCEPT ![bus].msgs = m, ![bus].odd = TRUE]
             b(m) == [tg EXCEPT ![bus].msgs = m, ![bus].odd = TRUE, ![bus].pend = "offered"]
             ok(m) == m = RESTORE_POINTERS => "restore" \in setup.quirks
  <2>1. \A m : a(m) = [tg EXCEPT ![bus] = v(m, tg[bus].pend)]
    BY <1>2, <1>3 DEF IsUnit
  <2>2. \A m : b(m) = [tg EXCEPT ![bus] = v(m, "offered")]
    BY <1>2, <1>3 DEF IsUnit
  <2>3. \E m : ok(m) /\ (tg' = a(m) \/ tg' = b(m))
    BY <1>8, OtherMessages DEF Quirk, Quirks, Onward
  <2>4. PICK m : ok(m) /\ (tg' = a(m) \/ tg' = b(m))
    BY <2>3
  <2> HIDE DEF a, b
  <2>5. PICK pend : tg' = [tg EXCEPT ![bus] = v(m, pend)]
    <3> HIDE DEF v
    <3> QED
      BY <2>1, <2>2, <2>4
  <2> DEFINE u == v(m, pend)
  <2>6. u.cmd = tg[bus].cmd /\ u.pos = tg[bus].pos /\ u.ph = tg[bus].ph /\ u.msgs = m
    BY <1>3 DEF IsUnit
  <2>7. tg' = [tg EXCEPT ![bus] = u]
    BY <2>5
  <2> HIDE DEF u, v
  <2> QED
    BY <1>4, <2>4, <2>6, <2>7
<1> QED
  BY <1>5, <1>6, <1>7, <1>8 DEF TargetSteps

(* The bus side, whole.                                                    *)
LEMMA DataBus ==
  ASSUME Base, Base', CalmInv, CalmInv', DataInv, Onward, UNCHANGED setup,
         BusSteps \/ DataSteps
  PROVE  DataInv'
<1>1. CASE DataSteps
  BY <1>1, DataMoves DEF DataSteps
<1>2. CASE BusSteps
  <2> UNCHANGED <<setup, hd, scp, pc, sr, engine>>
    BY <1>2 DEF BusSteps, driverVars
  <2>1. CASE Selected
    BY <2>1, DataSelected
  <2>2. CASE ReportPhase
    BY <2>2, DataReport
  <2>3. CASE TakeCommand \/ TakeStatus
    BY <2>3, DataPhases
  <2>4. CASE TakeMessages
    BY <2>4, DataMessages
  <2>5. CASE TakeByte
    BY <2>5, DataByte
  <2>6. CASE Level2Message
    BY <2>6, DataLevel2Message
  <2>7. CASE ReleaseBus \/ Drop
    BY <2>7, DataRelease
  <2>8. CASE TargetSteps
    BY <2>8, DataTarget
  <2>9. CASE SelectionTimeout \/ \E n \in Nexus : Reselect(n)
    BY <2>9, DataBack
  <2> QED
    BY <1>2, <2>1, <2>2, <2>3, <2>4, <2>5, <2>6, <2>7, <2>8, <2>9 DEF BusSteps, ChipSteps
<1> QED
  BY <1>1, <1>2

-------------------------------------------------------------------------------
(* The driver's side.  A step that leaves the places where they are.       *)
LEMMA DataDeals ==
  ASSUME Base, CalmInv, DataInv, UNCHANGED <<bus, tg>>,
         \A x \in Held' : x \in Held /\ Where(x)' = Where(x) /\ (Untaken(x)' => Untaken(x)),
         BuffersInv', EngineInv', MoversInv', TargetInv'
  PROVE  DataInv'
<1>1. PlaceInv'
  BY DEF DataInv, PlaceInv
<1> QED
  BY <1>1 DEF DataInv

SameData(x) ==
  scp'[x].ptr = scp[x].ptr /\ scp'[x].left = scp[x].left /\ scp'[x].more = scp[x].more

(* A step of the driver while nothing is being transferred.                *)
LEMMA DataStill ==
  ASSUME Base, CalmInv, DataInv, UNCHANGED <<setup, bus, tg, engine>>,
         ~Transferring, pc' # "pio", hd'.dma = hd.dma, hd'.bounce => hd.bounce,
         \A x \in Cmds : SameData(x), Held' \subseteq Held,
         \A x \in Held' : Untaken(x)' => Untaken(x),
         chip'.cmd = "level2" => chip'.count = 0 \/ chip'.phs \in {\h41, \h50},
         chip'.cmd = "info" => /\ chip'.xph \notin {"DATA_IN", "DATA_OUT"}
                               /\ chip'.xph = "COMMAND" => pc' = "sent",
         TargetInv'
  PROVE  DataInv'
<1>1. ~Transferring' /\ engine.cmd = NULL /\ ~hd.bounce
  BY DEF Base, DmaInv, Transferring, DataInv, EngineInv
<1>2. \A x \in Held : x \in Cmds
  BY OfCommands DEF Base, Held
<1>3. \A x \in Held' : x \in Held /\ Where(x)' = Where(x)
  BY <1>1, <1>2 DEF Where, SameData
<1>4. BuffersInv'
  BY DEF DataInv, BuffersInv, End, SameData
<1>5. EngineInv' /\ MoversInv'
  BY <1>1 DEF EngineInv, MoversInv
<1> QED
  BY <1>3, <1>4, <1>5, DataDeals

(* What the target still has to say is not the driver's to change.         *)
LEMMA TargetStays ==
  ASSUME DataInv, UNCHANGED <<setup, bus, tg>>, hd'.incoming_msg = hd.incoming_msg,
         chip'.int = chip.int, chip.int # "MSGIN" \/ chip'.byte = chip.byte
  PROVE  TargetInv'
BY DEF DataInv, TargetInv, Left

(* The pointers of SCp, and what writes of its other fields leave.         *)
LEMMA DataStays ==
  ASSUME NEW p \in Pointers
  PROVE  /\ \A b : LET q == [p EXCEPT !.phase = b]
                   IN q.ptr = p.ptr /\ q.left = p.left /\ q.more = p.more
         /\ \A s : LET q == [p EXCEPT !.Status = s]
                   IN q.ptr = p.ptr /\ q.left = p.left /\ q.more = p.more
         /\ \A l, a : LET q == [p EXCEPT !.left = l, !.ptr = a]
                      IN q.ptr = a /\ q.left = l /\ q.more = p.more
         /\ \A l, m, a : LET q == [p EXCEPT !.left = l, !.more = m, !.ptr = a]
                         IN q.ptr = a /\ q.left = l /\ q.more = m
BY DEF Pointers

(* What wd33c93_execute sets up for the data of the command it starts.     *)
LEMMA StartTransfers ==
  ASSUME Types, Start, ~CannotStart, chip.int # "none" => chip.cmd = "none"
  PROVE  \E c \in Cmds :
           /\ chip'.int = chip.int /\ chip'.byte = chip.byte /\ chip'.cmd # "info"
           /\ \/ /\ hd'.connected = NULL /\ hd'.dma = hd.dma /\ (hd'.bounce => hd.bounce)
                 /\ engine' = engine /\ chip'.cmd # "level2"
              \/ /\ hd'.connected = c /\ hd'.dma = hd.dma /\ (hd'.bounce => hd.bounce)
                 /\ engine' \in {engine, EngineOff} /\ chip'.count = 0
              \/ /\ hd'.connected = c /\ hd'.dma = "D_DMA_RUNNING"
                 /\ engine'.cmd = c /\ engine'.at = scp[c].ptr
                 /\ hd'.bounce => hd.bounce \/ engine'.via = "bounce"
                 /\ chip'.count = scp[c].left /\ ~chip'.polled
<1> DEFINE c    == hd.input_Q[Runnable]
           rest == RemoveAt(hd.input_Q, Runnable)
           er   == AllowDisconnect(c, rest)
           h    == [hd EXCEPT !.input_Q = rest, !.busy = @ \cup {NexusOf(c)}]
           ch   == [chip EXCEPT !.id = Attr[c].id, !.lun = Attr[c].lun, !.dpd = Attr[c].in,
                                !.er = er, !.sync = hd.sync_xfer[Attr[c].id]]
           ready == [h EXCEPT !.connected = c, !.state = "S_RUNNING_LEVEL2"]
           k    == [NoCount(ch) EXCEPT !.cdb = c]
           m    == [ch EXCEPT !.count = scp[c].left, !.cdb = c, !.polled = FALSE]
<1>1. /\ IsHost(hd) /\ IsChip(chip) /\ hd.input_Q \in Seq(Cmds)
      /\ hd.selecting = NULL /\ hd.connected = NULL /\ Runnable # 0
  BY RecordDomains, HostFieldTypes DEF Types, HostTypes, BusTypes, CannotStart
<1>2. c \in Cmds
  BY <1>1, Found DEF Runnable
<1>3. StartSelect(c, h, ch) \/ StartLevel2(c, h, ch)
  BY DEF Start
<1> HIDE DEF c, rest, er
<1> DEFINE On(d) == /\ IsChip(d) /\ d.int = chip.int /\ d.byte = chip.byte
                    /\ d.cmd = chip.cmd
<1>4. /\ On(ch) /\ On(NoCount(ch)) /\ On(k) /\ On(m)
      /\ m.count = scp[c].left /\ k.count = 0 /\ ~m.polled
  BY <1>1 DEF IsChip, NoCount
<1>5. \A d : On(d) => /\ SelAtn(d).int = chip.int /\ SelAtn(d).byte = chip.byte
                      /\ SelAtn(d).cmd \in {"none", "select"}
                      /\ SelAtnXfer(d, 0).int = chip.int /\ SelAtnXfer(d, 0).byte = chip.byte
                      /\ SelAtnXfer(d, 0).cmd \in {"none", "level2"}
                      /\ SelAtnXfer(d, 0).count = d.count
                      /\ SelAtnXfer(d, 0).polled = d.polled
  BY DEF SelAtn, SelAtnXfer, Issue, IsChip
<1>6. /\ IsHost(ready) /\ ready.connected = c /\ ready.dma = hd.dma
      /\ ready.bounce = hd.bounce
      /\ IsHost(h) /\ h.connected = NULL /\ h.dma = hd.dma /\ h.bounce = hd.bounce
  BY <1>1 DEF IsHost
<1> HIDE DEF ch, k, m, h, On
<1>7. CASE StartSelect(c, h, ch)
  <2>1. hd'.connected = NULL /\ hd'.dma = hd.dma /\ hd'.bounce = hd.bounce
    BY <1>6, <1>7 DEF StartSelect, IsHost
  <2>2. chip' = SelAtn(NoCount(ch)) /\ engine' = engine
    BY <1>7 DEF StartSelect
  <2> QED
    BY <1>2, <1>4, <1>5, <2>1, <2>2
<1>8. CASE StartLevel2(c, h, ch)
  <2> HIDE DEF ready
  <2>1. \/ hd' = ready /\ chip' = SelAtnXfer(k, 0) /\ engine' = engine
        \/ \E via : /\ hd' = DmaSetup(ready, via) /\ engine' = EngineFor(c, scp[c].ptr, via)
                    /\ chip' = SelAtnXfer(IF via = "fail" THEN k ELSE m, 0)
                    /\ via \in {"direct", "bounce", "fail"}
    <3>1. Ways(c) \subseteq {"direct", "bounce", "fail"}
      BY DriverAssumption DEF Ways, DmaWays, Types
    <3> QED
      BY <1>8, <3>1 DEF StartLevel2, ready, k, m
  <2>2. CASE hd' = ready /\ chip' = SelAtnXfer(k, 0) /\ engine' = engine
    BY <1>2, <1>4, <1>5, <1>6, <2>2
  <2>3. ASSUME NEW via \in {"direct", "bounce", "fail"}, hd' = DmaSetup(ready, via),
               engine' = EngineFor(c, scp[c].ptr, via),
               chip' = SelAtnXfer(IF via = "fail" THEN k ELSE m, 0)
        PROVE  /\ chip'.int = chip.int /\ chip'.byte = chip.byte /\ chip'.cmd # "info"
               /\ hd'.connected = c
               /\ \/ /\ hd'.dma = hd.dma /\ (hd'.bounce => hd.bounce)
                     /\ engine' = EngineOff /\ chip'.count = 0
                  \/ /\ hd'.dma = "D_DMA_RUNNING"
                     /\ engine'.cmd = c /\ engine'.at = scp[c].ptr
                     /\ hd'.bounce => hd.bounce \/ engine'.via = "bounce"
                     /\ chip'.count = scp[c].left /\ ~chip'.polled
    <3>1. CASE via = "fail"
      <4>1. ~hd'.bounce
        BY <1>6, <2>3, <3>1 DEF DmaSetup, IsHost
      <4>2. hd'.connected = c /\ hd'.dma = hd.dma
        BY <1>6, <2>3, <3>1, SetupFields
      <4>3. engine' = EngineOff
        BY <2>3, <3>1 DEF EngineFor
      <4>4. chip'.int = chip.int /\ chip'.byte = chip.byte /\ chip'.cmd # "info" /\ chip'.count = 0
        BY <1>4, <1>5, <2>3, <3>1
      <4> QED
        BY <4>1, <4>2, <4>3, <4>4
    <3>2. CASE via # "fail"
      <4>1. hd'.bounce => hd.bounce \/ via = "bounce"
        BY <1>6, <2>3, <3>2 DEF DmaSetup, IsHost
      <4>2. /\ hd'.connected = c /\ hd'.dma = "D_DMA_RUNNING"
        BY <1>6, <2>3, <3>2, SetupFields
      <4>3. engine'.cmd = c /\ engine'.at = scp[c].ptr /\ engine'.via = via
        BY <2>3, <3>2 DEF EngineFor
      <4>4. /\ chip'.int = chip.int /\ chip'.byte = chip.byte /\ chip'.cmd # "info"
            /\ chip'.count = scp[c].left /\ ~chip'.polled
        BY <1>4, <1>5, <2>3, <3>2
      <4> QED
        BY <1>6, <4>1, <4>2, <4>3, <4>4
    <3> QED
      BY <3>1, <3>2
  <2> QED
    BY <1>2, <2>1, <2>2, <2>3
<1> QED
  BY <1>3, <1>7, <1>8

(* wd33c93_execute: the DMA, if it is set up, begins where SCp is.         *)
LEMMA DataExecute ==
  ASSUME Base, CalmInv, Base', CalmInv', DataInv, Execute, UNCHANGED setup
  PROVE  DataInv'
<1>1. /\ pc = "execute" /\ pc' = "idle" /\ UNCHANGED <<req, sr, bus, tg>>
      /\ IF CannotStart THEN UNCHANGED <<hd, scp, engine, chip>> ELSE Start
  BY DEF Execute, targetVars
<1>2. Held' = Held /\ \A x \in Held : x \in Cmds
  BY <1>1, HeldQueued, HeldNext
<1>3. CASE CannotStart
  <2>1. UNCHANGED <<hd, scp, engine, chip>>
    BY <1>1, <1>3
  <2>2. \A event \in Over : Pending(event)' <=> Pending(event)
    BY <1>1, <2>1 DEF Pending
  <2>3. Ending' <=> Ending
    BY <2>2 DEF Ending, Over
  <2>4. \A x \in Held' : x \in Held /\ Where(x)' = Where(x) /\ (Untaken(x)' => Untaken(x))
    BY <1>1, <1>2, <2>1, <2>3 DEF Where, Transferring, End, Untaken
  <2>5. BuffersInv' /\ EngineInv' /\ MoversInv'
    BY <1>1, <2>1 DEF DataInv, BuffersInv, End, EngineInv, MoversInv
  <2>6. TargetInv'
    BY <1>1, <2>1, TargetStays
  <2> QED
    BY <1>1, <2>4, <2>5, <2>6, DataDeals
<1>4. CASE ~CannotStart
  <2>1. Start /\ hd.connected = NULL
    BY <1>1, <1>4 DEF CannotStart
  <2>2. ~Ending
    BY <2>1 DEF CalmInv, EndInv
  <2>3. hd.dma # "D_DMA_RUNNING" /\ engine.cmd = NULL /\ ~hd.bounce /\ ~Transferring
    BY <1>1, <2>1 DEF Base, DmaInv, DataInv, EngineInv, Transferring
  <2>4. \A x \in Cmds : SameData(x)
    <3>1. \A x \in Cmds : \E b : scp'[x] = [scp[x] EXCEPT !.phase = b]
      BY <2>1 DEF Start
    <3> SUFFICES ASSUME NEW x \in Cmds
                 PROVE  SameData(x)
      OBVIOUS
    <3>2. scp[x] \in Pointers
      BY DEF Base, Types, HostTypes, PointersOk
    <3>3. PICK b : scp'[x] = [scp[x] EXCEPT !.phase = b]
      BY <3>1
    <3> QED
      BY <3>2, <3>3, DataStays DEF SameData
  <2>5. hd'.incoming_msg = hd.incoming_msg
    <3>1. IsHost(hd)
      BY RecordDomains DEF Base, Types, HostTypes
    <3> QED
      BY <1>4, <2>1, <3>1, StartCalls DEF Base, SameBut, IsHost
  <2>6. PICK c \in Cmds :
           /\ chip'.int = chip.int /\ chip'.byte = chip.byte /\ chip'.cmd # "info"
           /\ \/ /\ hd'.connected = NULL /\ hd'.dma = hd.dma /\ (hd'.bounce => hd.bounce)
                 /\ engine' = engine /\ chip'.cmd # "level2"
              \/ /\ hd'.connected = c /\ hd'.dma = hd.dma /\ (hd'.bounce => hd.bounce)
                 /\ engine' \in {engine, EngineOff} /\ chip'.count = 0
              \/ /\ hd'.connected = c /\ hd'.dma = "D_DMA_RUNNING"
                 /\ engine'.cmd = c /\ engine'.at = scp[c].ptr
                 /\ hd'.bounce => hd.bounce \/ engine'.via = "bounce"
                 /\ chip'.count = scp[c].left /\ ~chip'.polled
    BY <1>4, <2>1, StartTransfers DEF Base, ChipInv
  <2>7. \A event \in Over : ~Pending(event)'
    BY <1>1, <2>2, <2>6 DEF Pending, Ending, Over
  <2>8. ~Ending'
    BY <2>7 DEF Ending, Over
  <2>9. \A x \in Held' : Untaken(x)' => Untaken(x)
    BY <1>1, <2>2 DEF Untaken
  <2>10. \A x \in Cmds : /\ End(x)' = End(x) /\ scp'[x].ptr = scp[x].ptr /\ scp[x].ptr \in Nat
                         /\ scp[x].left \in Nat
    BY <2>4 DEF End, SameData, Base, Types, HostTypes, PointersOk, Pointers
  <2>11. \A x \in Held' : Where(x)' = Where(x)
    BY <1>1, <1>2, <2>3, <2>6, <2>10 DEF Where, Transferring, End
  <2>12. BuffersInv'
    BY <2>4 DEF DataInv, BuffersInv, End, SameData
  <2>13. EngineInv'
    <3>1. EngineOff.cmd = NULL /\ NULL \notin Cmds
      BY BusAssumption DEF EngineOff
    <3> QED
      BY <2>3, <2>6, <2>10, <3>1 DEF EngineInv, End
  <2>14. MoversInv'
    <3>1. NULL \notin Cmds
      BY BusAssumption
    <3> QED
      BY <2>6, <3>1 DEF MoversInv
  <2>15. TargetInv'
    BY <1>1, <2>5, <2>6, TargetStays
  <2> QED
    BY <1>1, <1>2, <2>9, <2>11, <2>12, <2>13, <2>14, <2>15, DataDeals
<1> QED
  BY <1>3, <1>4

(* The interrupt is taken: a DMA is stopped where it is, and SCp says so.  *)
LEMMA DataInterrupt ==
  ASSUME Base, CalmInv, Base', CalmInv', DataInv, Interrupt, UNCHANGED setup
  PROVE  DataInv'
<1> DEFINE c == hd.connected
<1>1. /\ pc = "idle" /\ pc' = "handle" /\ chip.int # "none" /\ sr'.csr = chip.int
      /\ UNCHANGED <<req, bus, tg>>
  BY DEF Interrupt, targetVars
<1>2. /\ IsChip(chip) /\ IsHost(hd) /\ chip.cmd = "none" /\ scp \in [Cmds -> Pointers]
      /\ chip.count \in Nat
  BY <1>1, RecordDomains DEF Base, Types, HostTypes, BusTypes, ChipInv, PointersOk, Chips
<1>3. /\ chip'.int = "none" /\ chip'.cmd = "none" /\ chip'.byte = chip.byte
      /\ chip'.count = chip.count
  BY <1>2 DEF Interrupt, IsChip
<1>4. hd'.connected = hd.connected /\ hd'.incoming_msg = hd.incoming_msg
  BY <1>2 DEF Interrupt, DmaStop, IsHost
<1>5. \A event \in Over : Pending(event)' <=> Pending(event)
  BY <1>1, <1>3 DEF Pending, Over
<1>6. Ending' <=> Ending
  BY <1>5 DEF Ending, Over
<1>7. Held' = Held /\ \A x \in Held : x \in Cmds
  BY <1>1, HeldQueued, HeldNext
<1>8. \A x \in Held' : Untaken(x)' => Untaken(x)
  BY <1>1, <1>4, <1>6 DEF Untaken
<1>9. TargetInv'
  <2>1. chip.int # "MSGIN"
    BY <1>1 DEF Base, ChipInv
  <2> QED
    BY <1>1, <1>3, <1>4, <2>1 DEF DataInv, TargetInv, Left
<1>10. CASE hd.dma = "D_DMA_RUNNING"
  <2>1. /\ hd' = DmaStop(hd, TRUE) /\ engine' = EngineOff
        /\ scp' = [scp EXCEPT ![c] = Moved(c)] /\ c \in Cmds
    BY <1>10, HostFieldTypes DEF Interrupt, Base, DmaInv, Types, HostTypes
  <2>2. hd'.dma # "D_DMA_RUNNING" /\ ~hd'.bounce /\ engine'.cmd = NULL
    BY <1>2, <2>1 DEF DmaStop, IsHost, EngineOff
  <2>3. /\ Moved(c).left = chip.count /\ Moved(c).more = scp[c].more
        /\ Moved(c).ptr = scp[c].ptr + scp[c].left - chip.count
    <3> DEFINE a == scp[c].ptr + scp[c].left - chip.count
    <3>1. Moved(c) = [scp[c] EXCEPT !.left = chip.count, !.ptr = a]
      BY DEF Moved
    <3> HIDE DEF a
    <3>2. scp[c] \in Pointers
      BY <1>2, <2>1
    <3>3. Moved(c).left = chip.count /\ Moved(c).more = scp[c].more /\ Moved(c).ptr = a
      BY <3>1, <3>2, DataStays
    <3> QED
      BY <3>3 DEF a
  <2>4. \A x \in Cmds : scp'[x] = IF x = c THEN Moved(c) ELSE scp[x]
    BY <1>2, <2>1
  <2>5. \A x \in Cmds : scp[x].ptr \in Nat /\ scp[x].left \in Nat
    BY <1>2 DEF Pointers
  <2>6. \A x \in Cmds : End(x)' = End(x) /\ scp'[x].more = scp[x].more
    BY <1>2, <2>1, <2>3, <2>4, <2>5 DEF End
  <2>7. \A x \in Held' : Where(x)' = Where(x)
    BY <1>1, <1>2, <1>7, <1>10, <2>1, <2>2, <2>3, <2>4, <2>5 DEF Where, Transferring, End
  <2>8. BuffersInv'
    BY <2>6 DEF DataInv, BuffersInv
  <2>9. EngineInv' /\ MoversInv'
    BY <1>3, <2>2 DEF EngineInv, MoversInv
  <2> QED
    BY <1>1, <1>7, <1>8, <1>9, <2>7, <2>8, <2>9, DataDeals
<1>11. CASE hd.dma # "D_DMA_RUNNING"
  <2>1. UNCHANGED <<hd, engine, scp>>
    BY <1>11 DEF Interrupt
  <2>2. ~Transferring
    BY <1>1, <1>11 DEF Transferring
  <2> QED
    BY <1>1, <1>3, <1>7, <1>8, <1>9, <2>1, <2>2, DataStill DEF SameData
<1> QED
  BY <1>10, <1>11

(* A setting is changed.                                                   *)
LEMMA DataSettings ==
  ASSUME Base, CalmInv, Base', CalmInv', DataInv, WriteInfo, UNCHANGED setup
  PROVE  DataInv'
<1>1. UNCHANGED <<scp, engine, pc, sr, req, chip, bus, tg>>
  BY DEF WriteInfo, busVars
<1>2. /\ hd'.connected = hd.connected /\ hd'.dma = hd.dma /\ hd'.bounce = hd.bounce
      /\ hd'.incoming_msg = hd.incoming_msg
  <2>1. IsHost(hd)
    BY RecordDomains DEF Base, Types, HostTypes
  <2> QED
    BY <2>1 DEF WriteInfo, Resync, IsHost
<1>3. Held' = Held
  BY <1>1, HeldQueued, HeldNext
<1>4. \A event \in Over : Pending(event)' <=> Pending(event)
  BY <1>1 DEF Pending
<1>5. Ending' <=> Ending
  BY <1>4 DEF Ending, Over
<1>6. \A x \in Held' : x \in Held /\ Where(x)' = Where(x) /\ (Untaken(x)' => Untaken(x))
  BY <1>1, <1>2, <1>3, <1>5 DEF Where, Transferring, End, Untaken
<1>7. BuffersInv' /\ EngineInv' /\ MoversInv'
  BY <1>1, <1>2 DEF DataInv, BuffersInv, End, EngineInv, MoversInv
<1>8. TargetInv'
  BY <1>1, <1>2, TargetStays
<1> QED
  BY <1>1, <1>6, <1>7, <1>8, DataDeals

(* queuecommand begins with the first buffer.                              *)
LEMMA FreshBuffers ==
  ASSUME NEW c \in Cmds
  PROVE  LET p == FreshSCp(c)
         IN p.ptr = 0 /\ p.ptr + p.left = (Attr[c].nbufs - p.more) * Attr[c].blen
<1>1. Attr[c].nbufs \in Nat /\ Attr[c].blen \in Nat /\ (Attr[c].nbufs = 0 <=> Attr[c].blen = 0)
  BY AttrTypes, BusAssumption
<1> DEFINE n == Attr[c].nbufs
           b == Attr[c].blen
           m == IF n = 0 THEN 0 ELSE n - 1
<1>2. FreshSCp(c).ptr = 0 /\ FreshSCp(c).left = b /\ FreshSCp(c).more = m
  BY DEF FreshSCp
<1>3. b = (n - m) * b
  BY <1>1
<1> QED
  BY <1>1, <1>2, <1>3

(* A command is queued: no target has any of its data.                     *)
LEMMA DataQueue ==
  ASSUME Base, CalmInv, Base', CalmInv', DataInv, NEW c \in Cmds, Queue(c), UNCHANGED setup
  PROVE  DataInv'
<1>1. /\ UNCHANGED <<chip, bus, tg, sr, engine>> /\ pc = "idle" /\ pc' = "execute"
      /\ req[c].st \in {"free", "done"} /\ req' = [req EXCEPT ![c] = [st |-> "queued", res |-> NoResult]]
      /\ scp' = [scp EXCEPT ![c] = FreshSCp(c)]
      /\ \E q : hd' = [hd EXCEPT !.input_Q = q]
  BY DEF Queue, QueueCommand
<1>2. /\ IsHost(hd) /\ scp \in [Cmds -> Pointers] /\ req \in [Cmds -> Requests]
  BY RecordDomains DEF Base, Types, HostTypes, PointersOk
<1>3. /\ hd'.connected = hd.connected /\ hd'.dma = hd.dma /\ hd'.bounce = hd.bounce
      /\ hd'.incoming_msg = hd.incoming_msg
  BY <1>1, <1>2 DEF IsHost
<1>4. c \notin Held /\ Held' = Held \cup {c} /\ \A x \in Held : x \in Cmds
  <2>1. \A x \in Cmds : req'[x].st = IF x = c THEN "queued" ELSE req[x].st
    BY <1>1, <1>2
  <2> QED
    BY <1>1, <2>1, HeldQueued, HeldNext
<1>5. c # hd.connected /\ \A n \in Nexus : tg[n].cmd # c
  <2>1. c # NULL
    BY AttrTypes
  <2> QED
    BY <1>4, <2>1, TakenHeld DEF Held, Started
<1>6. \A x \in Cmds : scp'[x] = IF x = c THEN FreshSCp(c) ELSE scp[x]
  BY <1>1, <1>2
<1>7. \A event \in Over : Pending(event)' <=> Pending(event)
  BY <1>1 DEF Pending
<1>8. Ending' <=> Ending
  BY <1>7 DEF Ending, Over
<1>9. \A x \in Held : x # c /\ Where(x)' = Where(x) /\ (Untaken(x)' => Untaken(x))
  BY <1>1, <1>3, <1>4, <1>6, <1>8 DEF Where, Transferring, End, Untaken
<1>10. Where(c)' = 0
  BY <1>3, <1>5, <1>6, FreshBuffers DEF Where
<1>11. PlaceInv'
  <2>1. NexusOf(c) \in Nexus
    BY AttrTypes
  <2> QED
    BY <1>1, <1>4, <1>5, <1>9, <1>10, <2>1 DEF DataInv, PlaceInv
<1>12. BuffersInv'
  BY <1>6, FreshBuffers DEF DataInv, BuffersInv, End
<1>13. EngineInv'
  <2>1. engine.cmd # NULL => engine.cmd = hd.connected /\ engine.cmd \in Cmds
    BY DEF Base, DmaInv, Types, HostTypes, Dmas
  <2> QED
    BY <1>1, <1>3, <1>5, <1>6, <2>1 DEF DataInv, EngineInv, End
<1>14. MoversInv'
  BY <1>1 DEF DataInv, MoversInv
<1>15. TargetInv'
  BY <1>1, <1>3, TargetStays
<1> QED
  BY <1>11, <1>12, <1>13, <1>14, <1>15 DEF DataInv

(* An interrupt is handled while nothing is being transferred.             *)
LEMMA HandlesNothing ==
  ASSUME Base, DataInv, pc = "handle"
  PROVE  /\ ~Transferring /\ engine.cmd = NULL /\ ~hd.bounce /\ hd.dma # "D_DMA_RUNNING"
         /\ chip.cmd = "none" /\ chip.int # "MSGIN" /\ IsChip(chip) /\ IsHost(hd)
BY RecordDomains DEF Base, DmaInv, InDriver, Transferring, DataInv, EngineInv, ChipInv, Types,
   HostTypes, BusTypes

(* transfer_bytes goes on to the next buffer where the last one ended.     *)
LEMMA NextFollows ==
  ASSUME Base, DataInv, NEW c \in Cmds
  PROVE  LET s == NextBuffer(c)
         IN /\ s.ptr = scp[c].ptr /\ s.left \in Nat
            /\ s.ptr + s.left = (Attr[c].nbufs - s.more) * Attr[c].blen
<1> DEFINE p == scp[c]
           b == Attr[c].blen
           n == Attr[c].nbufs
           m == p.more - 1
           q == (n - p.more) * b
<1>1. /\ p \in Pointers /\ p.ptr \in Nat /\ p.left \in Nat /\ p.more \in Nat
      /\ b \in Nat /\ n \in Nat
  BY AttrTypes DEF Base, Types, HostTypes, PointersOk, Pointers
<1>2. p.ptr + p.left = q
  BY DEF DataInv, BuffersInv, End
<1>3. CASE p.left = 0 /\ p.more > 0
  <2>1. NextBuffer(c) = [p EXCEPT !.left = b, !.more = m, !.ptr = q]
    BY <1>3 DEF NextBuffer
  <2>2. (n - m) * b = q + b
    <3>1. \A i, k \in Int : (i + 1) * k = i * k + k
      OBVIOUS
    <3>2. n - m = (n - p.more) + 1 /\ n - p.more \in Int
      BY <1>1
    <3> QED
      BY <1>1, <3>1, <3>2
  <2>3. q = p.ptr
    BY <1>1, <1>2, <1>3
  <2> HIDE DEF p, b, n, m, q
  <2>4. LET s == NextBuffer(c) IN s.ptr = q /\ s.left = b /\ s.more = m
    BY <1>1, <2>1, DataStays
  <2>5. /\ NextBuffer(c).ptr = p.ptr /\ NextBuffer(c).left \in Nat
        /\ NextBuffer(c).ptr + NextBuffer(c).left = (n - NextBuffer(c).more) * b
    BY <1>1, <2>2, <2>3, <2>4
  <2> QED
    BY <2>5 DEF p, b, n
<1>4. CASE ~(p.left = 0 /\ p.more > 0)
  <2>1. NextBuffer(c) = p
    BY <1>4 DEF NextBuffer
  <2> QED
    BY <1>1, <1>2, <2>1
<1> QED
  BY <1>3, <1>4

(* The commands and the ends of connections the mid-layer and the driver   *)
(* have are the same after a phase is dealt with.                          *)
LEMMA PhaseLeaves ==
  ASSUME Base, CalmInv, Base', CalmInv', pc = "handle", pc' # "handle",
         sr.csr \in Phases \cup {"SDP"}, UNCHANGED <<tg, req>>,
         hd'.connected = hd.connected, chip'.int = chip.int
  PROVE  Held' = Held /\ \A x \in Held' : Untaken(x)' => Untaken(x)
<1>1. Held' = Held
  BY HeldQueued, HeldNext
<1>2. \A event \in Over : Pending(event)' <=> Pending(event)
  BY DEF Pending, Over, Phases
<1>3. Ending' <=> Ending
  BY <1>2 DEF Ending, Over
<1> QED
  BY <1>1, <1>3 DEF Untaken

(* A transfer is set up where SCp is.                                      *)
LEMMA DataOnData ==
  ASSUME Base, CalmInv, Base', CalmInv', DataInv, OnData, UNCHANGED setup
  PROVE  DataInv'
<1> DEFINE c == hd.connected
           s == NextBuffer(c)
<1>1. /\ pc = "handle" /\ sr.csr \in {"DATA_IN", "DATA_OUT"} /\ c # NULL /\ pc' \in {"idle", "pio"}
      /\ UNCHANGED <<req, sr, bus, tg>> /\ scp' = [scp EXCEPT ![c] = s]
  BY DEF OnData, CommandCase, Case, Rest, targetVars, TransferNothing, TransferByDma, TransferByPio
<1>2. /\ ~Transferring /\ engine.cmd = NULL /\ ~hd.bounce /\ hd.dma # "D_DMA_RUNNING"
      /\ chip.cmd = "none" /\ chip.int # "MSGIN" /\ IsChip(chip) /\ IsHost(hd)
  BY <1>1, HandlesNothing
<1>3. /\ c \in Cmds /\ scp \in [Cmds -> Pointers] /\ s.ptr = scp[c].ptr /\ s.left \in Nat
      /\ s.ptr + s.left = (Attr[c].nbufs - s.more) * Attr[c].blen
      /\ \A x \in Cmds : scp[x].ptr \in Nat
  BY <1>1, HostFieldTypes, NextFollows DEF Base, Types, HostTypes, PointersOk, Pointers
<1>4. \A x \in Cmds : scp'[x] = IF x = c THEN s ELSE scp[x]
  BY <1>1, <1>3
<1> DEFINE T(y, b) == [chip EXCEPT !.sync = y, !.polled = b, !.count = s.left]
<1>5. \A y : LET d == T(y, TRUE)
                e == T(y, FALSE)
            IN /\ IsChip(d) /\ d.count = s.left /\ d.polled = TRUE /\ d.cmd = "none"
               /\ IsChip(e) /\ e.count = s.left /\ e.polled = FALSE /\ e.cmd = "none"
  BY <1>2 DEF IsChip
<1>6. ASSUME NEW d, IsChip(d), d.cmd = "none"
      PROVE  /\ TransInfo(d).count = d.count /\ TransInfo(d).polled = d.polled
             /\ TransInfo(d).cmd \in {"none", "info"}
             /\ SelAtnXfer(d, \h45).count = d.count /\ SelAtnXfer(d, \h45).polled = d.polled
  BY <1>6 DEF TransInfo, SelAtnXfer, Issue, IsChip
<1>7. PICK h : /\ hd' = Connected(h) \/ hd' = [h EXCEPT !.state = "S_RUNNING_LEVEL2"]
               /\ IsHost(h)
               /\ h.connected = c /\ h.incoming_msg = hd.incoming_msg
               /\ \/ /\ h.dma = hd.dma /\ ~h.bounce /\ UNCHANGED <<engine, chip>> /\ pc' = "idle"
                  \/ /\ h.dma = "D_DMA_RUNNING" /\ engine'.cmd = c /\ engine'.at = s.ptr
                     /\ h.bounce => engine'.via = "bounce"
                     /\ pc' = "idle" /\ chip'.count = s.left /\ ~chip'.polled
                  \/ /\ h.dma = hd.dma /\ ~h.bounce /\ UNCHANGED engine /\ pc' = "pio"
                     /\ chip'.count = s.left /\ chip'.polled /\ chip'.cmd # "level2"
  <2>1. \/ TransferNothing
        \/ \E via \in DmaWays \ {"fail"} : TransferByDma(c, s, via)
        \/ TransferByPio(c, s)
    BY DEF OnData
  <2>2. CASE TransferNothing
    BY <1>2, <2>2 DEF TransferNothing
  <2>3. CASE \E via \in DmaWays \ {"fail"} : TransferByDma(c, s, via)
    <3>1. PICK via \in DmaWays \ {"fail"} : TransferByDma(c, s, via)
      BY <2>3
    <3>2. via \in {"direct", "bounce"}
      BY <3>1, DriverAssumption DEF DmaWays, Base, Types
    <3> DEFINE h == DmaSetup(hd, via)
               y == hd.sync_xfer[Attr[c].id]
    <3>3. /\ h.dma = "D_DMA_RUNNING" /\ (h.bounce => via = "bounce") /\ IsHost(h)
          /\ h.connected = c /\ h.incoming_msg = hd.incoming_msg
      BY <1>2, <3>2 DEF DmaSetup, IsHost
    <3>4. engine'.cmd = c /\ engine'.at = s.ptr /\ engine'.via = via /\ pc' = "idle"
      BY <3>1, <3>2 DEF TransferByDma, EngineFor
    <3>5. chip' = TransInfo(T(y, FALSE)) \/ chip' = SelAtnXfer(T(y, FALSE), \h45)
      BY <3>1 DEF TransferByDma
    <3>6. chip'.count = s.left /\ ~chip'.polled
      <4> DEFINE d == T(y, FALSE)
      <4>1. IsChip(d) /\ d.count = s.left /\ d.polled = FALSE /\ d.cmd = "none"
        BY <1>5
      <4>2. chip' = TransInfo(d) \/ chip' = SelAtnXfer(d, \h45)
        BY <3>5
      <4> HIDE DEF T, s, y, d
      <4> QED
        BY <1>6, <4>1, <4>2
    <3>7. hd' = Connected(h) \/ hd' = [h EXCEPT !.state = "S_RUNNING_LEVEL2"]
      BY <3>1 DEF TransferByDma
    <3> HIDE DEF h, s
    <3> QED
      BY <3>3, <3>4, <3>6, <3>7
  <2>4. CASE TransferByPio(c, s)
    <3> DEFINE h == [hd EXCEPT !.bounce = hd.bounce /\ hd.no_dma]
               y == hd.sync_xfer[Attr[c].id]
    <3>1. /\ h.dma = hd.dma /\ ~h.bounce /\ IsHost(h) /\ h.connected = c
          /\ h.incoming_msg = hd.incoming_msg
      BY <1>2 DEF IsHost
    <3>2. chip' = TransInfo(T(y, TRUE)) /\ hd' = Connected(h) /\ engine' = engine /\ pc' = "pio"
      BY <2>4 DEF TransferByPio
    <3>3. chip'.count = s.left /\ chip'.polled /\ chip'.cmd # "level2"
      <4> DEFINE d == T(y, TRUE)
      <4>1. IsChip(d) /\ d.count = s.left /\ d.polled = TRUE /\ d.cmd = "none"
        BY <1>5
      <4>2. chip' = TransInfo(d)
        BY <3>2
      <4> HIDE DEF T, s, y, d
      <4> QED
        BY <1>6, <4>1, <4>2
    <3> HIDE DEF h, s
    <3> QED
      BY <3>1, <3>2, <3>3
  <2> QED
    BY <2>1, <2>2, <2>3, <2>4
<1> HIDE DEF s
<1>8. /\ hd'.connected = c /\ hd'.incoming_msg = hd.incoming_msg /\ hd'.dma = h.dma
      /\ hd'.bounce = h.bounce
  BY <1>7 DEF Connected, IsHost
<1>9. /\ chip'.int = chip.int
      /\ chip'.cmd = "info" => chip'.xph = sr.csr
  <2>1. /\ chip'.int = chip.int /\ (chip'.cmd = "info" => chip'.xph = Phase /\ chip.int = "none")
    BY HandleAsks
  <2>2. chip.int = "none" => Phase = sr.csr
    BY <1>1 DEF Base, ChipInv, Phases
  <2> QED
    BY <2>1, <2>2
<1>10. Held' = Held /\ (\A x \in Held' : Untaken(x)' => Untaken(x)) /\ \A x \in Held : x \in Cmds
  BY <1>1, <1>8, <1>9, PhaseLeaves, OfCommands DEF Phases, Base, Held
<1>11. \A x \in Held' : Where(x)' = Where(x)
  BY <1>1, <1>2, <1>3, <1>4, <1>7, <1>8, <1>10 DEF Where, Transferring, End
<1>12. BuffersInv'
  BY <1>3, <1>4 DEF DataInv, BuffersInv, End
<1>13. EngineInv'
  BY <1>2, <1>3, <1>4, <1>7, <1>8 DEF EngineInv, End
<1>14. MoversInv'
  BY <1>1, <1>2, <1>7, <1>9 DEF MoversInv
<1>15. TargetInv'
  BY <1>1, <1>2, <1>8, <1>9, TargetStays
<1> QED
  BY <1>1, <1>10, <1>11, <1>12, <1>13, <1>14, <1>15, DataDeals

(* The other phases: what is sent or read is no data.                      *)
LEMMA DataOnPhase ==
  ASSUME Base, CalmInv, Base', CalmInv', DataInv, UNCHANGED setup,
         OnCommand \/ OnMessageOut \/ OnStatus \/ OnMessageIn \/ OnSdp
  PROVE  DataInv'
<1>1. /\ pc = "handle" /\ pc' \in {"idle", "sent", "status", "message"}
      /\ sr.csr \in {"COMMAND", "MESS_OUT", "STATUS", "MESS_IN", "SDP"}
      /\ UNCHANGED <<scp, engine, req, sr, bus, tg>>
      /\ sr.csr = "COMMAND" => pc' = "sent"
      /\ OnSdp => sr.csr = "SDP"
  BY DEF OnCommand, OnMessageOut, OnStatus, OnMessageIn, OnSdp, CommandCase, Case, Rest,
     targetVars, ReadByte
<1>2. /\ ~Transferring /\ engine.cmd = NULL /\ ~hd.bounce /\ hd.dma # "D_DMA_RUNNING"
      /\ chip.cmd = "none" /\ chip.int # "MSGIN" /\ IsChip(chip) /\ IsHost(hd)
  BY <1>1, HandlesNothing
<1>3. /\ hd'.connected = hd.connected /\ hd'.incoming_msg = hd.incoming_msg
      /\ hd'.dma = hd.dma /\ hd'.bounce = hd.bounce
  BY <1>2 DEF OnCommand, OnMessageOut, OnStatus, OnMessageIn, OnSdp, IsHost
<1>4. /\ chip'.int = chip.int
      /\ chip'.cmd = "info" => /\ chip'.xph \notin {"DATA_IN", "DATA_OUT"}
                               /\ chip'.xph = "COMMAND" => pc' = "sent"
  <2>1. /\ chip'.int = chip.int /\ (chip'.cmd = "info" => chip'.xph = Phase /\ chip.int = "none")
    BY HandleAsks
  <2>2. chip.int = "none" => Phase \in {sr.csr, "none"}
    BY <1>1 DEF Base, ChipInv, Phases, Phase
  <2> QED
    BY <1>1, <2>1, <2>2
<1>5. chip'.cmd = "level2" => chip'.phs = \h41
  <2>1. CASE OnSdp
    BY <1>2, <2>1 DEF OnSdp, SelAtnXfer, Issue, IsChip
  <2>2. CASE OnCommand \/ OnMessageOut \/ OnStatus \/ OnMessageIn
    <3>1. \E d : IsChip(d) /\ d.cmd = "none" /\ chip' = TransInfo(d)
      <4>1. CASE OnCommand
        <5> DEFINE d == [chip EXCEPT !.polled = TRUE, !.count = 1, !.cdb = hd.connected]
        <5>1. IsChip(d) /\ d.cmd = "none" /\ chip' = TransInfo(d)
          BY <1>2, <4>1 DEF OnCommand, IsChip
        <5> QED
          BY <5>1
      <4>2. CASE OnMessageOut
        <5> DEFINE o == IF hd.outgoing_msg = <<>> THEN <<Plain("NOP")>> ELSE hd.outgoing_msg
                   d == [chip EXCEPT !.polled = TRUE, !.count = Len(o), !.out = o]
        <5>1. chip' = TransInfo(d)
          BY <4>2 DEF OnMessageOut
        <5> HIDE DEF o
        <5>2. IsChip(d) /\ d.cmd = "none"
          BY <1>2 DEF IsChip
        <5> HIDE DEF d
        <5> QED
          BY <5>1, <5>2
      <4>3. CASE OnStatus \/ OnMessageIn
        <5> DEFINE d == [chip EXCEPT !.polled = TRUE]
        <5>1. IsChip(d) /\ d.cmd = "none" /\ chip' = TransInfo(d)
          BY <1>2, <4>3 DEF OnStatus, OnMessageIn, ReadByte, IsChip
        <5> QED
          BY <5>1
      <4> QED
        BY <2>2, <4>1, <4>2, <4>3
    <3> QED
      BY <3>1 DEF TransInfo, Issue, IsChip
  <2> QED
    BY <2>1, <2>2
<1>6. Held' = Held /\ \A x \in Held' : Untaken(x)' => Untaken(x)
  BY <1>1, <1>3, <1>4, PhaseLeaves DEF Phases
<1>7. TargetInv'
  BY <1>1, <1>2, <1>3, <1>4, TargetStays
<1> QED
  BY <1>1, <1>2, <1>3, <1>4, <1>5, <1>6, <1>7, DataStill DEF SameData

(* A selection has been won, or a target has come back.                    *)
LEMMA DataConnects ==
  ASSUME Base, CalmInv, Base', CalmInv', DataInv, UNCHANGED setup, OnSelect \/ OnReselect
  PROVE  DataInv'
<1>1. /\ pc = "handle" /\ pc' = "idle" /\ UNCHANGED <<scp, engine, bus, tg, req>>
      /\ IF OnSelect THEN sr.csr = "SELECT" ELSE sr.csr = "RESEL_AM"
  BY DEF OnSelect, OnReselect, Case, Rest, targetVars
<1>2. /\ ~Transferring /\ engine.cmd = NULL /\ ~hd.bounce /\ hd.dma # "D_DMA_RUNNING"
      /\ chip.cmd = "none" /\ chip.int # "MSGIN" /\ IsChip(chip) /\ IsHost(hd)
  BY <1>1, HandlesNothing
<1>3. /\ chip'.int = chip.int /\ chip'.cmd # "info"
      /\ chip'.cmd = "level2" => chip'.count = 0
  <2>1. CASE OnSelect
    BY <1>2, <2>1 DEF OnSelect
  <2>2. CASE OnReselect
    <3> DEFINE c == hd.disconnected_Q[Reconnecting]
               d == [chip EXCEPT !.id = Attr[c].id, !.dpd = Attr[c].in]
    <3>1. chip' = SelAtnXfer(NoCount(d), \h45) \/ chip' = NegateAck(d)
      BY <2>2 DEF OnReselect
    <3>2. IsChip(d) /\ d.int = chip.int /\ d.cmd = "none"
      BY <1>2 DEF IsChip
    <3> HIDE DEF d
    <3> QED
      BY <3>1, <3>2 DEF SelAtnXfer, NegateAck, NoCount, Issue, IsChip
  <2> QED
    BY <2>1, <2>2
<1>4. hd'.incoming_msg = hd.incoming_msg /\ hd'.dma = hd.dma /\ hd'.bounce = hd.bounce
  <2>1. CASE OnSelect
    BY <1>2, <2>1 DEF OnSelect, IsHost
  <2>2. CASE OnReselect
    <3> DEFINE h == PutBackLoser(hd)
               Kept(g) == /\ IsHost(g) /\ g.incoming_msg = hd.incoming_msg
                          /\ g.dma = hd.dma /\ g.bounce = hd.bounce
    <3>1. Kept(h)
      BY <1>2 DEF PutBackLoser, Requeued, IsHost
    <3> DEFINE g == [h EXCEPT !.connected = hd.disconnected_Q[Reconnecting],
                              !.disconnected_Q = RemoveAt(@, Reconnecting)]
    <3>2. \E st : hd' = [g EXCEPT !.state = st]
      BY <2>2 DEF OnReselect
    <3> HIDE DEF h
    <3>3. Kept(g)
      BY <3>1 DEF IsHost
    <3> HIDE DEF g
    <3> QED
      BY <3>2, <3>3 DEF IsHost
  <2> QED
    BY <2>1, <2>2
<1>5. chip.int \in {"none"} \cup Phases
  BY <1>1 DEF CalmInv, EndInv, Over, Phases
<1>6. \A event \in Over : ~Pending(event)
  BY <1>1, <1>5 DEF Pending, Over, Phases
<1>7. ~Ending
  BY <1>6 DEF Ending, Over
<1>8. Held' = Held
  BY <1>1, HeldQueued, HeldNext
<1>9. \A x \in Held' : Untaken(x)' => Untaken(x)
  BY <1>1, <1>7 DEF Untaken
<1>10. TargetInv'
  BY <1>1, <1>2, <1>3, <1>4, TargetStays
<1> QED
  BY <1>1, <1>2, <1>3, <1>4, <1>8, <1>9, <1>10, DataStill DEF SameData

(* A connection that has come to its end, or a selection given up.         *)
LEMMA DataOnEnds ==
  ASSUME Base, CalmInv, Base', CalmInv', DataInv, UNCHANGED setup,
         OnTimeout \/ OnSelXferDone \/ OnUnexpDisc \/ OnDisc
  PROVE  DataInv'
<1>1. /\ pc = "handle" /\ pc' = "execute" /\ UNCHANGED <<engine, bus, tg, sr>>
      /\ sr.csr \in Over \cup {"TIMEOUT"} /\ chip' \in {chip, EnableReselection}
  BY DEF OnTimeout, OnSelXferDone, OnUnexpDisc, OnDisc, CommandCase, Case, Restart, Rest,
     targetVars, Over
<1>2. /\ ~Transferring /\ engine.cmd = NULL /\ ~hd.bounce /\ hd.dma # "D_DMA_RUNNING"
      /\ chip.cmd = "none" /\ chip.int # "MSGIN" /\ IsChip(chip) /\ IsHost(hd)
      /\ req \in [Cmds -> Requests] /\ scp \in [Cmds -> Pointers]
  BY <1>1, HandlesNothing DEF Base, Types, HostTypes, PointersOk
<1>3. chip'.cmd = "none" /\ chip'.int = chip.int
  BY <1>1, <1>2 DEF EnableReselection, IsChip
<1>4. hd'.dma = hd.dma /\ hd'.bounce = hd.bounce /\ hd'.incoming_msg = hd.incoming_msg
  BY <1>2 DEF OnTimeout, OnSelXferDone, OnUnexpDisc, OnDisc, Unconnected, Disconnected, IsHost
<1>5. chip.int \in {"none", "RESEL_AM"}
  BY <1>1 DEF CalmInv, EndInv, Over, Phases
<1>6. /\ \A event \in Over : Pending(event) <=> sr.csr = event
      /\ Ending <=> sr.csr \in Over
  BY <1>1, <1>5 DEF Pending, Ending, Over
<1>7. Ending => hd.connected \in Cmds
  BY HostFieldTypes DEF CalmInv, EndInv, Base, Types, HostTypes
<1>8. ASSUME NEW c \in Cmds, NEW res, ScsiDone(c, res)
      PROVE  Held' \subseteq Held \ {c}
  <2>1. req'[c].st # "queued" /\ \A x \in Cmds : req'[x].st = "queued" => req[x].st = "queued"
    BY <1>2, <1>8 DEF ScsiDone
  <2> QED
    BY <2>1, HeldQueued, HeldNext
<1>9. \A x \in Cmds : SameData(x)
  <2>1. CASE OnSelXferDone
    <3>1. PICK status : scp' = [scp EXCEPT ![hd.connected].Status = status]
      BY <2>1 DEF OnSelXferDone
    <3>2. ASSUME NEW x \in Cmds
          PROVE  SameData(x)
      <4>1. scp'[x] = scp[x] \/ scp'[x] = [scp[x] EXCEPT !.Status = status]
        BY <1>2, <3>1
      <4>2. CASE scp'[x] = scp[x]
        BY <4>2 DEF SameData
      <4>3. CASE scp'[x] = [scp[x] EXCEPT !.Status = status]
        <5>1. scp[x] \in Pointers
          BY <1>2
        <5> QED
          BY <4>3, <5>1, DataStays DEF SameData
      <4> QED
        BY <4>1, <4>2, <4>3
    <3> QED
      BY <3>2
  <2>2. CASE ~OnSelXferDone
    <3>1. UNCHANGED scp
      BY <2>2 DEF OnTimeout, OnUnexpDisc, OnDisc
    <3> QED
      BY <3>1 DEF SameData
  <2> QED
    BY <2>1, <2>2
<1>10. /\ Held' \subseteq Held
       /\ Ending /\ hd.connected \in Held' => tg[NexusOf(hd.connected)].cmd = hd.connected
  <2> DEFINE c == hd.connected
  <2>1. CASE OnTimeout
    <3>1. ~Ending
      BY <1>6, <2>1 DEF OnTimeout, Case, Over
    <3>2. \A x \in Cmds : req'[x].st = "queued" => req[x].st = "queued"
      BY <1>2, <2>1 DEF OnTimeout, ScsiDone
    <3> QED
      BY <3>1, <3>2, HeldQueued, HeldNext
  <2>2. CASE \E res : c \in Cmds /\ ScsiDone(c, res)
    BY <1>8, <2>2
  <2>3. CASE OnDisc /\ hd.state # "S_PRE_CMP_DISC"
    <3>1. sr.csr = "DISC"
      BY <2>3 DEF OnDisc, Case
    <3>2. c \in Gone /\ c # NULL /\ Ending
      BY <1>6, <2>3, <3>1 DEF Gone, Leaver, Over, CalmInv, EndInv
    <3>3. tg[NexusOf(c)].cmd = c
      BY <3>2 DEF CalmInv, UnitsInv
    <3>4. UNCHANGED req
      BY <2>3, <3>2 DEF OnDisc
    <3> QED
      BY <3>3, <3>4, HeldQueued, HeldNext
  <2>4. CASE OnSelXferDone \/ OnUnexpDisc \/ (OnDisc /\ hd.state = "S_PRE_CMP_DISC")
    <3>1. Ending
      BY <1>6, <2>4 DEF OnSelXferDone, OnUnexpDisc, OnDisc, CommandCase, Case, Over
    <3>2. c \in Cmds /\ c # NULL
      BY <1>7, <3>1, OfCommands DEF Base
    <3>3. \E res : ScsiDone(c, res)
      BY <2>4, <3>2 DEF OnSelXferDone, OnUnexpDisc, OnDisc
    <3> QED
      BY <2>2, <3>2, <3>3
  <2> QED
    BY <2>1, <2>3, <2>4
<1>11. \A x \in Held' : Untaken(x)' => Untaken(x)
  BY <1>1, <1>10 DEF Untaken
<1>12. TargetInv'
  BY <1>1, <1>2, <1>3, <1>4, TargetStays
<1> QED
  BY <1>1, <1>2, <1>3, <1>4, <1>9, <1>10, <1>11, <1>12, DataStill

(* The handler, whole.                                                     *)
LEMMA DataHandle ==
  ASSUME Base, CalmInv, Base', CalmInv', DataInv, HandleInterrupt, UNCHANGED setup
  PROVE  DataInv'
<1>1. ~AlreadyDisconnected
  <2>1. SUFFICES ASSUME AlreadyDisconnected PROVE FALSE
    OBVIOUS
  <2>2. Pending("UNEXP_DISC") /\ hd.connected = NULL
    BY <2>1 DEF AlreadyDisconnected, Case, Pending
  <2> QED
    BY <2>2 DEF CalmInv, EndInv, Ending
<1>2. ~OnStrayReselect
  <2>1. SUFFICES ASSUME OnStrayReselect PROVE FALSE
    OBVIOUS
  <2>2. pc = "handle" /\ sr.csr = "RESEL_AM" /\ Reconnecting = 0
    BY <2>1 DEF OnStrayReselect, Case
  <2> QED
    BY <2>2, CalmKnown DEF Known
<1> QED
  BY <1>1, <1>2, DataOnData, DataOnPhase, DataConnects, DataOnEnds DEF HandleInterrupt

(* A message byte has been read.  None of the messages leaves the driver   *)
(* with a command of the chip's to repeat: the one that would restores     *)
(* pointers.                                                               *)
LEMMA DataHeard ==
  ASSUME Base, CalmInv, Base', CalmInv', DataInv, Onward, PollEnds, pc = "message",
         UNCHANGED setup
  PROVE  DataInv'
<1> DEFINE m == tg[bus].msgs
<1>1. IsHost(hd) /\ IsChip(chip) /\ hd.level2 = setup.level2 /\ chip.byte \in Nat
  BY RecordDomains, HostFieldTypes, ChipTypes DEF Base, Types, HostTypes, BusTypes
<1>2. /\ pc' = "idle" /\ chip.int # "none" /\ UNCHANGED <<engine, bus, tg, sr>>
      /\ hd'.connected = hd.connected /\ hd'.dma = hd.dma
  BY <1>1, PollLeaves
<1>3. UNCHANGED <<scp, req>>
  BY DEF PollEnds, PioDone, SentDone, StatusRead, OnComplete, OnSave, OnDisconnect, OnRestore,
     OnReject, OnUnknown, OnExtendedByte, OnSdtr, OnWdtr, OnOtherExtended, MessageRead
<1>4. /\ bus # NULL /\ bus \in Nexus /\ chip.int = "MSGIN" /\ m \in Seq(Nat)
      /\ Incoming \in Seq(Nat) /\ Incoming # <<>>
      /\ ~Extended => /\ hd.incoming_msg = <<>>
                      /\ m = <<>> \/ (m = DISCONNECT /\ Incoming = SAVE_POINTERS)
      /\ Extended => (WholeMessage <=> m = <<>>)
  BY <1>2, Hears
<1>5. chip.cmd = "none" /\ ~Transferring
  BY <1>2 DEF Base, ChipInv, DmaInv, InDriver, Transferring
<1>6. ~(OnRestore /\ hd.level2 >= L2_BASIC)
  <2>1. SUFFICES ASSUME OnRestore, hd.level2 >= L2_BASIC PROVE FALSE
    OBVIOUS
  <2>2. ~Extended /\ Incoming = RESTORE_POINTERS
    BY <2>1 DEF OnRestore, MessageRead, Is
  <2>3. SAVE_POINTERS # RESTORE_POINTERS
    <3>1. SAVE_POINTERS[1] = 2 /\ RESTORE_POINTERS[1] = 3
      BY DEF SAVE_POINTERS, RESTORE_POINTERS
    <3> QED
      BY <3>1
  <2>4. m = <<>> /\ hd.incoming_msg = <<>>
    BY <1>4, <2>2, <2>3
  <2>5. Left = <<chip.byte>>
    BY <1>1, <1>4, <2>4, ConcatEmptySeq DEF Left
  <2>6. Incoming = <<chip.byte>>
    BY <1>1, <2>4 DEF Incoming
  <2>7. "restore" \in setup.quirks
    BY <1>4, <2>2, <2>4, <2>5, <2>6 DEF DataInv, TargetInv
  <2> QED
    BY <1>1, <2>1, <2>7 DEF Onward
<1>7. chip' \in {NegateAck(Cleared), NegateAck(AssertAtn(Cleared))}
  <2>1. CASE OnComplete \/ OnSave \/ OnDisconnect \/ OnRestore
    BY <1>6, <2>1 DEF OnComplete, OnSave, OnDisconnect, OnRestore, MessageRead, Accept
  <2>2. CASE OnReject \/ OnExtendedByte
    BY <2>2 DEF OnReject, OnExtendedByte, MessageRead
  <2>3. CASE OnUnknown \/ OnWdtr \/ OnOtherExtended
    BY <2>3 DEF OnUnknown, OnWdtr, OnOtherExtended, MessageRead, Answer
  <2>4. CASE OnSdtr
    BY <2>4 DEF OnSdtr, MessageRead
  <2> QED
    BY <2>1, <2>2, <2>3, <2>4 DEF PollEnds, PioDone, SentDone, StatusRead
<1>8. chip'.cmd = "none" /\ chip'.int = "none"
  <2>1. IsChip(Cleared) /\ Cleared.cmd = "none" /\ Cleared.int = "none"
    BY <1>1, <1>5 DEF Cleared, IsChip
  <2>2. LET d == AssertAtn(Cleared) IN IsChip(d) /\ d.cmd = "none" /\ d.int = "none"
    BY <2>1 DEF AssertAtn, Issue, IsChip
  <2>3. ASSUME NEW d, IsChip(d), d.cmd = "none", d.int = "none"
        PROVE  NegateAck(d).cmd = "none" /\ NegateAck(d).int = "none"
    BY <2>3 DEF NegateAck, Issue, IsChip
  <2> QED
    BY <1>7, <2>1, <2>2, <2>3
<1>9. hd'.bounce = hd.bounce
  BY <1>1, PollWrites DEF SameBut, IsHost
<1>10. Extended /\ ~WholeMessage => hd'.incoming_msg = Incoming
  <2>1. ASSUME Extended, ~WholeMessage PROVE OnExtendedByte
    BY <2>1 DEF PollEnds, PioDone, SentDone, StatusRead, OnComplete, OnSave, OnDisconnect,
       OnRestore, OnReject, OnUnknown, OnExtendedByte, OnSdtr, OnWdtr, OnOtherExtended,
       MessageRead, Is
  <2>2. OnExtendedByte => hd'.incoming_msg = Incoming
    BY <1>1 DEF OnExtendedByte, MessageRead, IsHost
  <2> QED
    BY <2>1, <2>2
<1>11. Left' = m
  BY <1>2, <1>4, <1>8, LeftNext
<1>12. TargetInv'
  BY <1>2, <1>4, <1>10, <1>11, OtherMessages DEF DataInv, TargetInv
<1>13. ~Ending /\ ~Ending'
  BY <1>2, <1>4, <1>8 DEF Ending, Pending
<1>14. Held' = Held
  BY <1>3, HeldQueued, HeldNext
<1>15. \A x \in Held' : Untaken(x)' => Untaken(x)
  BY <1>2, <1>13 DEF Untaken
<1> QED
  BY <1>2, <1>3, <1>5, <1>8, <1>9, <1>12, <1>14, <1>15, DataStill DEF SameData

(* A transfer by PIO is over, or the status is read.                       *)
LEMMA DataPolled ==
  ASSUME Base, CalmInv, Base', CalmInv', DataInv, PioDone \/ SentDone \/ StatusRead,
         UNCHANGED setup
  PROVE  DataInv'
<1> DEFINE c == hd.connected
<1>1. /\ pc \in {"pio", "sent", "status"} /\ pc' = "idle" /\ chip.int # "none"
      /\ UNCHANGED <<engine, bus, tg, sr, req>>
  BY DEF PioDone, SentDone, StatusRead, Rest, targetVars
<1>2. /\ IsChip(chip) /\ IsHost(hd) /\ chip.cmd = "none" /\ scp \in [Cmds -> Pointers]
      /\ chip.count \in Nat
  BY <1>1, RecordDomains DEF Base, Types, HostTypes, BusTypes, ChipInv, PointersOk, Chips
<1>3. hd'.connected = c /\ hd'.dma = hd.dma /\ hd'.bounce = hd.bounce /\ hd'.incoming_msg = hd.incoming_msg
  BY <1>2 DEF PioDone, SentDone, StatusRead, IsHost
<1>4. hd.dma # "D_DMA_RUNNING" /\ engine.cmd = NULL /\ ~hd.bounce
  BY <1>1 DEF Base, DmaInv, InDriver, DataInv, EngineInv
<1>5. chip.int # "MSGIN" /\ (StatusRead => chip.int = "MESS_IN")
  BY <1>1 DEF Base, ChipInv, StatusRead
<1>6. chip' = chip \/ (StatusRead /\ chip' = SelAtnXfer(Cleared, \h50))
  BY DEF PioDone, SentDone, StatusRead
<1>7. /\ chip'.int = chip.int \/ (chip.int = "MESS_IN" /\ chip'.int = "none")
      /\ chip'.cmd \in {"none", "level2"} /\ (chip'.cmd = "level2" => chip'.phs = \h50)
      /\ chip'.byte = chip.byte
  <2>1. IsChip(Cleared) /\ Cleared.cmd = "none" /\ Cleared.int = "none" /\ Cleared.byte = chip.byte
    BY <1>2 DEF Cleared, IsChip
  <2>2. LET d == SelAtnXfer(Cleared, \h50)
        IN d.int = "none" /\ d.cmd = "level2" /\ d.phs = \h50 /\ d.byte = chip.byte
    BY <2>1 DEF SelAtnXfer, Issue, IsChip
  <2> QED
    BY <1>2, <1>5, <1>6, <2>2
<1>8. \A event \in Over : Pending(event)' <=> Pending(event)
  BY <1>1, <1>7 DEF Pending, Over
<1>9. Ending' <=> Ending
  BY <1>8 DEF Ending, Over
<1>10. Held' = Held /\ \A x \in Held : x \in Cmds
  BY <1>1, HeldQueued, HeldNext
<1>11. \A x \in Held' : Untaken(x)' => Untaken(x)
  BY <1>1, <1>3, <1>9 DEF Untaken
<1>12. Left' = Left
  BY <1>1, <1>5, <1>7 DEF Left
<1>13. TargetInv'
  BY <1>1, <1>3, <1>12 DEF DataInv, TargetInv
<1>14. CASE PioDone
  <2>1. /\ pc = "pio" /\ c \in Cmds /\ c # NULL /\ scp' = [scp EXCEPT ![c] = Moved(c)]
        /\ chip' = chip
    BY <1>1, <1>14, HostFieldTypes, OfCommands DEF PioDone, Base, DmaInv, InDriver, Types, HostTypes
  <2>2. /\ Moved(c).left = chip.count /\ Moved(c).more = scp[c].more
        /\ Moved(c).ptr = scp[c].ptr + scp[c].left - chip.count
    <3> DEFINE a == scp[c].ptr + scp[c].left - chip.count
    <3>1. Moved(c) = [scp[c] EXCEPT !.left = chip.count, !.ptr = a]
      BY DEF Moved
    <3> HIDE DEF a
    <3>2. scp[c] \in Pointers
      BY <1>2, <2>1
    <3>3. Moved(c).left = chip.count /\ Moved(c).more = scp[c].more /\ Moved(c).ptr = a
      BY <3>1, <3>2, DataStays
    <3> QED
      BY <3>3 DEF a
  <2>3. \A x \in Cmds : scp'[x] = IF x = c THEN Moved(c) ELSE scp[x]
    BY <1>2, <2>1
  <2>4. \A x \in Cmds : scp[x].ptr \in Nat /\ scp[x].left \in Nat
    BY <1>2 DEF Pointers
  <2>5. \A x \in Cmds : End(x)' = End(x) /\ scp'[x].more = scp[x].more
    BY <1>2, <2>1, <2>2, <2>3, <2>4 DEF End
  <2>6. \A x \in Held' : Where(x)' = Where(x)
    BY <1>1, <1>2, <1>3, <1>4, <1>10, <2>1, <2>2, <2>3, <2>4 DEF Where, Transferring, End
  <2>7. BuffersInv'
    BY <2>5 DEF DataInv, BuffersInv
  <2>8. EngineInv' /\ MoversInv'
    BY <1>1, <1>2, <1>3, <1>4, <2>1 DEF EngineInv, MoversInv
  <2> QED
    BY <1>1, <1>10, <1>11, <1>13, <2>6, <2>7, <2>8, DataDeals
<1>15. CASE SentDone \/ StatusRead
  <2>1. ~Transferring
    BY <1>4, <1>15 DEF Transferring, SentDone, StatusRead
  <2>2. \A x \in Cmds : SameData(x)
    <3>1. \E s : scp' = scp \/ scp' = [scp EXCEPT ![c].Status = s]
      BY <1>15 DEF SentDone, StatusRead
    <3>2. PICK s : scp' = scp \/ scp' = [scp EXCEPT ![c].Status = s]
      BY <3>1
    <3>3. ASSUME NEW x \in Cmds
          PROVE  SameData(x)
      <4>1. scp'[x] = scp[x] \/ scp'[x] = [scp[x] EXCEPT !.Status = s]
        BY <1>2, <3>2
      <4>2. CASE scp'[x] = scp[x]
        BY <4>2 DEF SameData
      <4>3. CASE scp'[x] = [scp[x] EXCEPT !.Status = s]
        <5>1. scp[x] \in Pointers
          BY <1>2
        <5> QED
          BY <4>3, <5>1, DataStays DEF SameData
      <4> QED
        BY <4>1, <4>2, <4>3
    <3> QED
      BY <3>3
  <2>3. /\ chip'.cmd # "info" /\ pc' # "pio" /\ (hd'.bounce => hd.bounce)
        /\ chip'.cmd = "level2" => chip'.count = 0 \/ chip'.phs \in {\h41, \h50}
    BY <1>1, <1>3, <1>7
  <2> QED
    BY <1>1, <1>3, <1>10, <1>11, <1>13, <2>1, <2>2, <2>3, DataStill
<1> QED
  BY <1>14, <1>15

(* The end of a poll, whole.                                               *)
LEMMA DataPoll ==
  ASSUME Base, CalmInv, Base', CalmInv', DataInv, Onward, PollEnds, UNCHANGED setup
  PROVE  DataInv'
<1>1. CASE pc = "message"
  BY <1>1, DataHeard
<1>2. CASE pc # "message"
  <2>1. PioDone \/ SentDone \/ StatusRead
    BY <1>2 DEF PollEnds, OnComplete, OnSave, OnDisconnect, OnRestore, OnReject, OnUnknown,
       OnExtendedByte, OnSdtr, OnWdtr, OnOtherExtended, MessageRead
  <2> QED
    BY <2>1, DataPolled
<1> QED
  BY <1>1, <1>2

-------------------------------------------------------------------------------
(* Nothing has been transferred at the start.                              *)
LEMMA DataInit ==
  ASSUME Init
  PROVE  DataInv
<1>1. /\ bus = NULL /\ pc = "idle" /\ tg = [n \in Nexus |-> Idle] /\ chip.cmd = "none"
      /\ hd.connected = NULL /\ ~hd.bounce /\ engine.cmd = NULL
      /\ hd.input_Q = <<>> /\ hd.disconnected_Q = <<>> /\ hd.selecting = NULL
      /\ scp = [c \in Cmds |-> FreshSCp(c)]
  BY DEF Init, BusInit, DriverInit, HostInit, ChipReset, EngineOff
<1>2. Held = {}
  BY <1>1 DEF Held, Queued, Started, Away, ToSet
<1>3. BuffersInv
  BY <1>1, FreshBuffers DEF BuffersInv, End
<1> QED
  BY <1>1, <1>2, <1>3 DEF DataInv, PlaceInv, EngineInv, MoversInv, TargetInv

(* Every step keeps the places.                                            *)
LEMMA DataKept ==
  ASSUME Base, Base', CalmInv, CalmInv', Calm, Onward, DataInv, [Next]_vars
  PROVE  DataInv'
<1>1. CASE UNCHANGED vars
  <2>1. UNCHANGED <<setup, hd, scp, chip, bus, tg, pc, sr, eh, req, engine>>
    BY <1>1 DEF vars, driverVars, busVars
  <2>2. \A event \in Over : Pending(event)' <=> Pending(event)
    BY <2>1 DEF Pending
  <2>3. (Ending' <=> Ending) /\ Held' = Held
    BY <2>1, <2>2, HeldQueued, HeldNext DEF Ending, Over
  <2>4. \A x \in Held' : x \in Held /\ Where(x)' = Where(x) /\ (Untaken(x)' => Untaken(x))
    BY <2>1, <2>3 DEF Where, Transferring, End, Untaken
  <2>5. BuffersInv' /\ EngineInv' /\ MoversInv'
    BY <2>1 DEF DataInv, BuffersInv, End, EngineInv, MoversInv
  <2>6. TargetInv'
    BY <2>1, TargetStays, Zenon DEF DataInv
  <2> QED
    BY <2>1, <2>4, <2>5, <2>6, DataDeals
<1> SUFFICES ASSUME Next PROVE DataInv'
  BY <1>1
<1>2. UNCHANGED setup
  BY DEF Next
<1>3. ASSUME NEW c \in Cmds
      PROVE  ~TimesOut(c) /\ ~Abort(c)
  BY DEF TimesOut, Abort, Calm, CalmInv, NobodyGivenUp
<1>4. ~AbortSteps
  BY DEF AbortSteps, AbortQueued, AbortConnected, AbortFlush, AbortFinish, AbortDisconnected,
     AbortUnknown, AbortChecks, AbortStarts, Aborting, CalmInv, NobodyGivenUp
<1>5. ~HostReset
  BY DEF HostReset, CalmInv, NobodyGivenUp
<1>6. ASSUME NEW c \in Cmds, Queue(c)
      PROVE  DataInv'
  BY <1>2, <1>6, DataQueue
<1> QED
  BY <1>2, <1>3, <1>4, <1>5, <1>6, DataExecute, DataInterrupt, DataHandle, DataPoll,
     DataSettings, DataBus DEF Next

(* The places, where data pass: the bytes are those of the command that is *)
(* connected, and whoever moves them is there to.                          *)
LEMMA DataTogether ==
  ASSUME Base, CalmInv, DataInv
  PROVE  DataInPlace
<1> SUFFICES ASSUME Moving PROVE DataInPlace
  BY DEF DataInPlace
<1> DEFINE c == hd.connected
<1>1. PICK ph \in {"DATA_IN", "DATA_OUT"} : Ready(ph)
  BY DEF Moving
<1>2. /\ bus \in Nexus /\ bus # NULL /\ InConnection /\ c \in Cmds /\ Phase = ph
      /\ chip.cmd \in {"info", "level2"} /\ tg[bus].ph = "data"
  BY <1>1, Serving DEF Phases
<1>3. tg[bus].cmd = c /\ c # NULL /\ bus = NexusOf(c) /\ c \in Held
  BY <1>2 DEF InConnection, Held, Started
<1>4. IF chip.polled THEN pc = "pio" ELSE engine.cmd # NULL
  <2>1. CASE chip.cmd = "info"
    <3>1. chip.xph = ph
      BY <1>1, <1>2, <2>1 DEF Ready, Expected
    <3> QED
      BY <2>1, <3>1 DEF DataInv, MoversInv
  <2>2. CASE chip.cmd = "level2"
    <3>1. chip.phs \notin {\h41, \h50} /\ chip.count > 0
      BY <1>1, <1>2, <2>2 DEF Ready, Expected, DataGoesOn
    <3> QED
      BY <2>2, <3>1 DEF DataInv, MoversInv
  <2> QED
    BY <1>2, <2>1, <2>2
<1>5. Transferring /\ (engine.cmd # NULL => engine.cmd = c)
  BY <1>4 DEF Transferring, Base, DmaInv
<1>6. tg[bus].pos = End(c) - chip.count
  BY <1>3, <1>5 DEF DataInv, PlaceInv, Where
<1>7. engine.cmd # NULL => engine.at = End(c) - chip.count /\ (hd.bounce => engine.via = "bounce")
  BY <1>5 DEF DataInv, EngineInv
<1>8. chip.count \in Nat /\ scp[c].ptr \in Nat /\ scp[c].left \in Nat
  BY <1>2 DEF Base, Types, HostTypes, BusTypes, PointersOk, Pointers, Chips
<1> QED
  BY <1>3, <1>4, <1>5, <1>6, <1>7, <1>8 DEF DataInPlace, End

(* While data pass, the target, the chip's count, SCp and the DMA are at   *)
(* the same place of the same command's data: on every machine on which no *)
(* command times out, and no target asks for what it was already given.    *)
THEOREM DataInPlaceHolds == Spec /\ Calm /\ Onward => []DataInPlace
<1>1. Init => DataInv
  BY DataInit
<1>2. Base /\ Base' /\ CalmInv /\ CalmInv' /\ Calm /\ Onward /\ DataInv /\ [Next]_vars => DataInv'
  BY DataKept
<1>3. Base /\ CalmInv /\ DataInv => DataInPlace
  BY DataTogether
<1>4. (Calm /\ [Next]_vars => Calm') /\ (Onward /\ [Next]_vars => Onward')
  BY DEF Calm, Onward, Next, vars
<1> QED
  BY <1>1, <1>2, <1>3, <1>4, CalmHolds, PTL DEF Spec

-------------------------------------------------------------------------------
(* 9.  Transfers.  The driver and a target that is not being talked to     *)
(* agree on how its data move.  While they talk, what one of them holds    *)
(* before the other is in the message that is on its way, coming in or     *)
(* going out, and no data move before it has been answered.                *)

(* The negotiations that can be relied on.  A target that begins one does  *)
(* not drop off the bus, with the driver's answer unsent, nor ignore the   *)
(* driver's; and one that may reject the driver's SDTR, or not answer it,  *)
(* is not set to negotiate anew, with the answer on its way.               *)
Willing == {"reject", "early", "mute"} \cap setup.quirks = {}
Polite ==
  /\ "sdtr" \in setup.quirks => setup.quirks \cap {"drop", "mute"} = {}
  /\ {"resync", "nosync"} \cap setup.settings # {} => Willing

(* What the driver has to say, or is saying; what is agreed on.            *)
Sending ==
  IF chip.cmd = "info" /\ chip.xph = "MESS_OUT" THEN chip.out ELSE hd.outgoing_msg
NoSdtr(q) == \A i \in DOMAIN q : q[i].msg # "SDTR"
Settled(i) == hd.sync_xfer[i] = agreed[i]
Waits(i) == hd.sync_stat[i] = "SS_WAITING"
Unasked(i) == Waits(i) => "sdtr" \notin setup.quirks
Mode(off) == IF off > 0 THEN "sync" ELSE "async"
IsSdtr(m) == Len(m) = 5 /\ m[1] = 1 /\ m[2] = 3 /\ m[3] = 1
Negotiates(m) == m = MESSAGE_REJECT \/ (Len(m) >= 3 /\ m[1] = 1 /\ m[3] = 1)

(* Where a negotiation is, for the target i on the bus: there is none; the *)
(* driver has its SDTR to send, with the IDENTIFY; the target is answering *)
(* with mode m, which holds for it from the last byte on; the target has   *)
(* made an offer of its own; the driver has its answer to that to send.    *)
Still ==
  /\ Settled(bus[1]) /\ tg[bus].pend = "none" /\ NoSdtr(Sending) /\ Unasked(bus[1])
  /\ ~Negotiates(In)
Asking ==
  /\ Settled(bus[1]) /\ tg[bus].pend = "none" /\ In = <<>> /\ chip.atn /\ tg[bus].ph = "select"
  /\ Len(Sending) = 2 /\ Sending[1].msg = "IDENTIFY" /\ Sending[2].msg = "SDTR"
  /\ Waits(bus[1]) \/ Willing
Answered(m) ==
  /\ \/ IsSdtr(In) /\ m = Mode(In[5]) /\ tg[bus].ph = "command" /\ (Waits(bus[1]) \/ Willing)
     \/ In = MESSAGE_REJECT /\ m = "async" /\ ~Willing /\ Waits(bus[1])
  /\ NoSdtr(Sending)
  /\ IF tg[bus].msgs # <<>> THEN tg[bus].pend = m
     ELSE tg[bus].pend = "none" /\ agreed[bus[1]] = m
Offered ==
  /\ IsSdtr(In) /\ tg[bus].pend = "offered" /\ NoSdtr(Sending)
  /\ "sdtr" \in setup.quirks /\ ~Waits(bus[1])
Owing ==
  /\ In = <<>> /\ Sending = <<Sdtr(0)>> /\ chip.atn
  /\ hd.sync_xfer[bus[1]] = "async" /\ ~Waits(bus[1])
  /\ \/ tg[bus].pend = "offered" /\ "sdtr" \in setup.quirks
     \/ tg[bus].pend = "none" /\ Willing /\ tg[bus].ph = "command"

Elsewhere ==
  /\ agreed \in [Ids -> {"sync", "async"}]
  /\ \A n \in Nexus : n # bus => tg[n].pend = "none"
  /\ \A i \in Ids : bus = NULL \/ i # bus[1] => Settled(i) /\ Unasked(i)
Negotiating == Asking \/ Offered \/ Owing \/ \E m \in {"sync", "async"} : Answered(m)
NegInv ==
  /\ Elsewhere
  /\ bus = NULL => NoSdtr(hd.outgoing_msg)
  /\ bus # NULL => Still \/ (Negotiating /\ ~Pending("SELECT"))

(* The chip is set up for the connected target whenever data may move.     *)
SyncInv ==
  engine.cmd # NULL \/ pc = "pio" => chip.sync = hd.sync_xfer[Attr[hd.connected].id]

(* What is on its way out is outgoing_msg, until its sending begins.       *)
LEMMA SendingIs ==
  ASSUME Base, pc # "sent" \/ chip.int # "none"
  PROVE  Sending = hd.outgoing_msg
BY DEF Sending, Base, SelectInv, IdentifySent, ChipInv

(* Nothing to say of an SDTR leaves none in outgoing_msg, sent or not.     *)
LEMMA SendingNone ==
  ASSUME Base, NoSdtr(Sending)
  PROVE  NoSdtr(hd.outgoing_msg)
BY DEF Sending, Base, SelectInv, IdentifySent, NoSdtr

(* After a step, too, what is on its way out is outgoing_msg.              *)
LEMMA SendingNext ==
  ASSUME Base', pc' # "sent" \/ chip'.int # "none"
  PROVE  Sending' = hd'.outgoing_msg
BY DEF Sending, Base, SelectInv, IdentifySent, ChipInv

(* Which messages negotiate.                                               *)
LEMMA NoNegotiation ==
  /\ \A m \in {<<>>, COMMAND_COMPLETE, RESTORE_POINTERS, DISCONNECT, SAVE_POINTERS \o DISCONNECT,
               <<>> \o DISCONNECT, WDTR, OtherExtended, UnknownMessage} : ~Negotiates(m)
  /\ \A off : IsSdtr(SDTR(off)) /\ SDTR(off)[5] = off
  /\ \A m : IsSdtr(m) => Negotiates(m) /\ m # <<>> /\ m # MESSAGE_REJECT
  /\ Negotiates(MESSAGE_REJECT) /\ MESSAGE_REJECT # <<>> /\ ~Negotiates(<<>>)
<1>1. SAVE_POINTERS \o DISCONNECT = <<2, 4>> /\ <<>> \o DISCONNECT = <<4>>
  BY PlainOnes, ConcatEmptySeq DEF DISCONNECT
<1> QED
  BY <1>1 DEF Negotiates, IsSdtr, SDTR, MESSAGE_REJECT, COMMAND_COMPLETE, RESTORE_POINTERS,
     DISCONNECT, WDTR, OtherExtended, UnknownMessage

(* What is coming in, when no byte has been read of it.                    *)
LEMMA InIs ==
  ASSUME Base, CalmInv, bus # NULL, chip.int # "MSGIN"
  PROVE  /\ In = hd.incoming_msg \o tg[bus].msgs /\ tg[bus].msgs \in Seq(Nat) /\ bus \in Nexus
         /\ hd.incoming_msg \in Seq(Nat)
         /\ tg[bus].msgs = <<>> => In = <<>>
         /\ tg[bus].msgs # <<>> => In # <<>>
         /\ hd.incoming_msg = <<>> => In = tg[bus].msgs
<1>1. /\ bus \in Nexus /\ tg[bus].msgs \in Seq(Nat) /\ Left = tg[bus].msgs
      /\ hd.incoming_msg \in Seq(Nat)
  BY LeftIs, HostFieldTypes DEF Base, Types, BusTypes, HostTypes
<1>2. In = hd.incoming_msg \o tg[bus].msgs
  BY <1>1 DEF In
<1>3. tg[bus].msgs = <<>> => hd.incoming_msg = <<>>
  BY Silent DEF Base, CalmInv
<1>4. hd.incoming_msg = <<>> => In = tg[bus].msgs
  BY <1>1, <1>2, ConcatEmptySeq
<1>5. tg[bus].msgs # <<>> => In # <<>>
  BY <1>1, <1>2
<1> QED
  BY <1>1, <1>2, <1>3, <1>4, <1>5

(* A target that has nothing to say and is not asked to listen is not      *)
(* negotiating.                                                            *)
LEMMA AtRest ==
  ASSUME Base, CalmInv, Polite, Steady => AskInv, NegInv, bus # NULL, chip.int # "MSGIN",
         tg[bus].msgs = <<>>, tg[bus].ph # "select",
         ~chip.atn \/ tg[bus].ph \in Parting \/ (~Steady /\ tg[bus].ph # "command")
  PROVE  Still /\ In = <<>>
<1>1. In = <<>>
  BY InIs
<1>2. \A m : ~Answered(m) /\ ~Offered
  BY <1>1, NoNegotiation DEF Answered, Offered
<1>3. ~Asking
  BY DEF Asking
<1>4. ~Owing
  <2>1. "sdtr" \in setup.quirks => Steady
    BY DEF Polite, Steady
  <2> QED
    BY <2>1 DEF Owing, AskInv, Parting
<1> QED
  BY <1>1, <1>2, <1>3, <1>4 DEF NegInv, Negotiating

(* A nexus has an id of the bus, and is not NULL.                          *)
LEMMA NexusIds ==
  \A n \in Nexus : n[1] \in Ids /\ n # NULL
BY AttrTypes, BusAssumption DEF Nexus, NexusOf, Ids

(* Both are sequences of messages.                                         *)
LEMMA OutOnes ==
  ASSUME Base
  PROVE  hd.outgoing_msg \in Seq(OutMessages) /\ Sending \in Seq(OutMessages)
BY HostFieldTypes, ChipTypes DEF Base, Types, HostTypes, BusTypes, Sending

(* One that has an SDTR to send has it in what it is sending.              *)
LEMMA SaysSo ==
  ASSUME Base, Asking \/ Owing
  PROVE  ~NoSdtr(Sending)
<1>1. CASE Asking
  <2>1. 2 \in DOMAIN Sending
    BY <1>1, OutOnes DEF Asking
  <2> QED
    BY <1>1, <2>1 DEF Asking, NoSdtr
<1>2. CASE Owing
  <2>1. Sending = <<Sdtr(0)>>
    BY <1>2 DEF Owing
  <2>2. 1 \in DOMAIN Sending /\ Sending[1].msg = "SDTR"
    BY <2>1 DEF Sdtr
  <2> QED
    BY <2>2 DEF NoSdtr
<1> QED
  BY <1>1, <1>2

(* A step that leaves the talk as it is, but perhaps what is to be said    *)
(* when that is no SDTR.                                                   *)
SameTalk ==
  /\ In' = In /\ (tg'[bus].msgs = <<>> <=> tg[bus].msgs = <<>>)
  /\ tg'[bus].ph = tg[bus].ph /\ (chip.atn => chip'.atn)
  /\ Sending' = Sending \/ (NoSdtr(Sending) /\ NoSdtr(Sending'))
SameTerms ==
  /\ UNCHANGED <<setup, bus, agreed>> /\ hd'.sync_xfer = hd.sync_xfer
  /\ \A n \in Nexus : tg'[n].pend = tg[n].pend
  /\ \A i \in Ids : Waits(i)' => Waits(i)
(* Where the talk is, it stays: the invariant outlasts such a step.        *)
LEMMA TalksOn ==
  ASSUME Base, NegInv, SameTerms, \A i \in Ids : Waits(i) => Waits(i)' \/ Willing,
         Pending("SELECT")' => Pending("SELECT"),
         bus = NULL => NoSdtr(hd'.outgoing_msg), bus # NULL => SameTalk
  PROVE  NegInv'
<1>1. Willing' <=> Willing
  BY DEF SameTerms, Willing
<1>2. Elsewhere'
  BY DEF NegInv, Elsewhere, SameTerms, Settled, Unasked
<1>3. CASE bus = NULL
  BY <1>2, <1>3 DEF NegInv, SameTerms
<1>4. CASE bus # NULL
  <2>1. bus \in Nexus /\ bus[1] \in Ids /\ SameTalk /\ bus' = bus
    BY <1>4, NexusIds DEF Base, Types, BusTypes, SameTerms
  <2>2. Still => Still'
    BY <2>1 DEF Still, SameTerms, SameTalk, Settled, Unasked
  <2>3. Asking => Asking'
    <3> SUFFICES ASSUME Asking PROVE Asking'
      OBVIOUS
    <3>1. Sending' = Sending
      BY <2>1, SaysSo DEF SameTalk
    <3> QED
      BY <1>1, <2>1, <3>1 DEF Asking, SameTerms, SameTalk, Settled
  <2>4. \A m : Answered(m) => Answered(m)'
    <3>1. NoSdtr(Sending) => NoSdtr(Sending')
      BY <2>1 DEF SameTalk
    <3> QED
      BY <1>1, <2>1, <3>1 DEF Answered, SameTerms, SameTalk
  <2>5. Offered => Offered'
    BY <2>1 DEF Offered, SameTerms, SameTalk
  <2>6. Owing => Owing'
    <3> SUFFICES ASSUME Owing PROVE Owing'
      OBVIOUS
    <3>1. Sending' = Sending
      BY <2>1, SaysSo DEF SameTalk
    <3> QED
      BY <1>1, <2>1, <3>1 DEF Owing, SameTerms, SameTalk
  <2> QED
    BY <1>2, <1>4, <2>1, <2>2, <2>3, <2>4, <2>5, <2>6 DEF NegInv, Negotiating
<1> QED
  BY <1>3, <1>4

(* A step of the target or the driver that does not begin a negotiation.   *)
LEMMA StillOn ==
  ASSUME Base, NegInv, bus # NULL, Still, SameTerms, NoSdtr(Sending'), ~Negotiates(In')
  PROVE  NegInv'
<1>1. bus \in Nexus /\ bus[1] \in Ids /\ bus' = bus
  BY NexusIds DEF Base, Types, BusTypes, SameTerms
<1>2. Still'
  BY <1>1 DEF Still, SameTerms, Settled, Unasked
<1>3. Elsewhere'
  BY DEF NegInv, Elsewhere, SameTerms, Settled, Unasked
<1> QED
  BY <1>1, <1>2, <1>3 DEF NegInv

(* The target takes a phase that is not of messages.                       *)
LEMMA NegPhases ==
  ASSUME Base, Base', CalmInv, CalmInv', Polite, Steady => AskInv, NegInv, UNCHANGED <<setup, hd, pc, sr>>,
         TakeCommand \/ TakeStatus \/ \E k \in 1..chip.count : MoveData(k)
  PROVE  NegInv'
<1>1. PICK ph \in {"COMMAND", "STATUS", "DATA_IN", "DATA_OUT"} :
        Ready(ph) /\ (TakeStatus => ph = "STATUS")
  BY DEF TakeCommand, TakeStatus, MoveData, Ready
<1>2. /\ chip.int = "none" /\ bus \in Nexus /\ bus # NULL
      /\ IsChip(chip) /\ IsUnit(tg[bus]) /\ tg \in [Nexus -> Units]
      /\ Phase = ph /\ ~chip.ack /\ tg[bus].msgs = <<>> /\ hd.incoming_msg = <<>>
      /\ tg[bus].ph \in {"command", "status", "data"}
  BY <1>1, Serving DEF Phases
<1>3. ~chip.atn
  BY <1>1, <1>2 DEF Phase
<1>4. Still
  BY <1>2, <1>3, AtRest
<1>5. PICK u : /\ tg' = [tg EXCEPT ![bus] = u] /\ u.pend = tg[bus].pend
               /\ u.msgs \in {<<>>, COMMAND_COMPLETE}
  <2>1. CASE TakeCommand
    <3> DEFINE u == [tg[bus] EXCEPT !.ph = "exec", !.cmd = chip.cdb]
    <3>1. tg' = [tg EXCEPT ![bus] = u]
      BY <1>2, <2>1 DEF TakeCommand
    <3>2. u.pend = tg[bus].pend /\ u.msgs = <<>>
      BY <1>2 DEF IsUnit
    <3> QED
      BY <3>1, <3>2
  <2>2. CASE TakeStatus
    <3> DEFINE u == [tg[bus] EXCEPT !.ph = "complete", !.msgs = COMMAND_COMPLETE]
    <3>1. tg' = [tg EXCEPT ![bus] = u]
      BY <1>2, <2>2 DEF TakeStatus
    <3>2. u.pend = tg[bus].pend /\ u.msgs = COMMAND_COMPLETE
      BY <1>2 DEF IsUnit
    <3> QED
      BY <3>1, <3>2
  <2>3. CASE \E k \in 1..chip.count : MoveData(k)
    <3>1. PICK k \in 1..chip.count : MoveData(k)
      BY <2>3
    <3>2. PICK h : tg' = [tg EXCEPT ![bus].pos = @ + k, ![bus].ph = h]
      BY <3>1 DEF MoveData
    <3> DEFINE u == [tg[bus] EXCEPT !.pos = @ + k, !.ph = h]
    <3>3. tg' = [tg EXCEPT ![bus] = u]
      BY <1>2, <3>2
    <3>4. u.pend = tg[bus].pend /\ u.msgs = <<>>
      BY <1>2 DEF IsUnit
    <3> QED
      BY <3>3, <3>4
  <2> QED
    BY <2>1, <2>2, <2>3
<1>6. chip'.int = "none" /\ chip'.xph = chip.xph /\ chip'.out = chip.out
      /\ chip'.cmd \in {chip.cmd, "none"} /\ bus' = bus /\ UNCHANGED agreed
  <2>1. CASE TakeCommand \/ TakeStatus
    BY <1>2, <2>1 DEF TakeCommand, TakeStatus, IsChip
  <2>2. CASE \E k \in 1..chip.count : MoveData(k)
    <3>1. PICK k : MoveData(k)
      BY <2>2
    <3> DEFINE f == IF chip.cmd = "level2" THEN \h46 ELSE chip.phs
               d == IF chip.cmd = "info" /\ k = chip.count THEN "none" ELSE chip.cmd
    <3>2. chip' = [chip EXCEPT !.count = chip.count - k, !.phs = f, !.cmd = d] /\ bus' = bus
          /\ UNCHANGED agreed
      BY <3>1 DEF MoveData
    <3> HIDE DEF f
    <3> QED
      BY <1>2, <3>2 DEF IsChip
  <2> QED
    BY <2>1, <2>2
<1>7. NoSdtr(Sending')
  BY <1>4, <1>6, SendingNone DEF Still, Sending
<1>8. tg'[bus].msgs \in {<<>>, COMMAND_COMPLETE} /\ \A n \in Nexus : tg'[n].pend = tg[n].pend
  BY <1>2, <1>5
<1>9. ~Negotiates(In')
  <2>1. Left' = tg'[bus].msgs /\ In' = hd'.incoming_msg \o Left'
    BY <1>2, <1>6, LeftNext DEF In
  <2>2. In' = tg'[bus].msgs
    <3>1. tg'[bus].msgs \in Seq(Nat)
      BY <1>2, <1>6, InIs, UnitTypes DEF Base, Types, BusTypes
    <3> QED
      BY <1>2, <2>1, <3>1, ConcatEmptySeq
  <2> QED
    BY <1>8, <2>2, NoNegotiation
<1>10. SameTerms
  BY <1>6, <1>8 DEF SameTerms, Waits
<1> QED
  BY <1>2, <1>4, <1>7, <1>9, <1>10, StillOn

(* A target that thinks is not negotiating; it may begin to, unless it has *)
(* been asked to.                                                          *)
LEMMA NegTarget ==
  ASSUME Base, Base', CalmInv, CalmInv', Polite, Steady => AskInv, NegInv,
         UNCHANGED <<setup, hd, pc, sr>>, TargetSteps
  PROVE  NegInv'
<1>1. /\ Free("exec") \/ (Free("command") /\ chip.int = "none")
      /\ UNCHANGED <<chip, bus, agreed>>
  BY DEF TargetSteps, StartData, GiveStatus, StartDisconnect, Quirk
<1>2. /\ chip.int = "none" /\ bus \in Nexus /\ bus # NULL
      /\ hd.incoming_msg = <<>> /\ tg[bus].msgs = <<>>
  BY <1>1, Thinks
<1>3. IsUnit(tg[bus]) /\ tg \in [Nexus -> Units]
  BY <1>2, RecordDomains DEF Base, Types, BusTypes
<1>4. ~chip.atn /\ tg[bus].ph \in {"exec", "command"}
  BY <1>1 DEF Free
<1>5. Still
  BY <1>2, <1>4, AtRest
<1>6. Sending' = Sending /\ NoSdtr(Sending')
  BY <1>1, <1>5 DEF Still, Sending
<1>7. ASSUME NEW u, tg' = [tg EXCEPT ![bus] = u]
      PROVE  /\ In' = u.msgs /\ tg'[bus] = u
             /\ \A n \in Nexus : n # bus => tg'[n] = tg[n]
  <2>1. tg'[bus] = u /\ \A n \in Nexus : n # bus => tg'[n] = tg[n]
    BY <1>2, <1>3, <1>7
  <2>2. Left' = u.msgs /\ In' = hd'.incoming_msg \o Left' /\ u.msgs \in Seq(Nat)
    BY <1>1, <1>2, <2>1, LeftNext, UnitTypes DEF In, Base, Types, BusTypes
  <2> QED
    BY <1>2, <2>1, <2>2, ConcatEmptySeq
<1>8. ASSUME NEW u, tg' = [tg EXCEPT ![bus] = u], u.pend = tg[bus].pend, ~Negotiates(u.msgs)
      PROVE  NegInv'
  <2>1. SameTerms
    BY <1>1, <1>7, <1>8 DEF SameTerms, Waits
  <2> QED
    BY <1>2, <1>5, <1>6, <1>7, <1>8, <2>1, StillOn
<1>9. CASE StartData \/ \E st \in {GOOD, CHECK} : GiveStatus(st)
  <2>1. PICK u : /\ tg' = [tg EXCEPT ![bus] = u]
                 /\ u.pend = tg[bus].pend /\ u.msgs = tg[bus].msgs
    <3>1. PICK h, st : \/ tg' = [tg EXCEPT ![bus].ph = h, ![bus].st = st]
                       \/ tg' = [tg EXCEPT ![bus].ph = h]
      BY <1>9 DEF StartData, GiveStatus
    <3> DEFINE u == [tg[bus] EXCEPT !.ph = h, !.st = st]
               v == [tg[bus] EXCEPT !.ph = h]
    <3>2. /\ u.pend = tg[bus].pend /\ u.msgs = tg[bus].msgs
          /\ v.pend = tg[bus].pend /\ v.msgs = tg[bus].msgs
      BY <1>3 DEF IsUnit
    <3>3. tg' = [tg EXCEPT ![bus] = u] \/ tg' = [tg EXCEPT ![bus] = v]
      BY <1>2, <1>3, <3>1
    <3> QED
      BY <3>2, <3>3
  <2> QED
    BY <1>2, <1>8, <2>1, NoNegotiation
<1>10. CASE StartDisconnect
  <2> DEFINE m == (IF tg[bus].pos # tg[bus].saved THEN SAVE_POINTERS ELSE <<>>) \o DISCONNECT
             u == [tg[bus] EXCEPT !.ph = "away", !.msgs = m]
  <2>1. tg' = [tg EXCEPT ![bus] = u]
    BY <1>2, <1>3, <1>10 DEF StartDisconnect
  <2>2. u.pend = tg[bus].pend /\ u.msgs = m
    BY <1>3 DEF IsUnit
  <2>3. ~Negotiates(m)
    BY NoNegotiation
  <2> HIDE DEF u, m
  <2> QED
    BY <1>8, <2>1, <2>2, <2>3
<1>11. CASE Quirk
  <2> DEFINE v(m, p, q) == [tg[bus] EXCEPT !.msgs = m, !.odd = TRUE, !.pend = p, !.pos = q]
             says(m)   == [tg EXCEPT ![bus].msgs = m, ![bus].odd = TRUE]
             offers(m) == [tg EXCEPT ![bus].msgs = m, ![bus].odd = TRUE, ![bus].pend = "offered"]
             backs(m)  == [tg EXCEPT ![bus].msgs = m, ![bus].odd = TRUE,
                                     ![bus].pos = tg[bus].saved]
  <2>1. \A m : says(m) = [tg EXCEPT ![bus] = v(m, tg[bus].pend, tg[bus].pos)]
    BY <1>2, <1>3 DEF IsUnit
  <2>2. \A m : offers(m) = [tg EXCEPT ![bus] = v(m, "offered", tg[bus].pos)]
    BY <1>2, <1>3 DEF IsUnit
  <2>3. \A m : backs(m) = [tg EXCEPT ![bus] = v(m, tg[bus].pend, tg[bus].saved)]
    BY <1>2, <1>3 DEF IsUnit
  <2>4. \/ "sdtr" \in setup.quirks /\ tg' = offers(SDTR(12))
        \/ \E m \in {WDTR, OtherExtended, UnknownMessage, RESTORE_POINTERS} :
             tg' = says(m) \/ tg' = backs(m)
    BY <1>11 DEF Quirk, Quirks
  <2> HIDE DEF says, offers, backs
  <2>5. PICK m, p, q :
          /\ tg' = [tg EXCEPT ![bus] = v(m, p, q)]
          /\ \/ m = SDTR(12) /\ p = "offered" /\ "sdtr" \in setup.quirks
             \/ p = tg[bus].pend /\ m \in {WDTR, OtherExtended, UnknownMessage, RESTORE_POINTERS}
    <3> HIDE DEF v
    <3> QED
      BY <2>1, <2>2, <2>3, <2>4
  <2> DEFINE u == v(m, p, q)
  <2>6. tg' = [tg EXCEPT ![bus] = u]
    BY <2>5
  <2>7. u.msgs = m /\ u.pend = p
    BY <1>3 DEF IsUnit
  <2> HIDE DEF u, v
  <2>8. CASE m = SDTR(12) /\ p = "offered" /\ "sdtr" \in setup.quirks
    <3>1. In' = SDTR(12) /\ tg'[bus].pend = "offered" /\ \A n \in Nexus : n # bus => tg'[n] = tg[n]
      BY <1>7, <2>6, <2>7, <2>8
    <3>2. ~Waits(bus[1])
      BY <1>5, <2>8 DEF Still, Unasked
    <3>3. Offered'
      BY <1>1, <1>6, <2>8, <3>1, <3>2, NoNegotiation DEF Offered, Waits
    <3>4. Elsewhere'
      BY <1>1, <3>1 DEF NegInv, Elsewhere, Settled, Unasked, Waits
    <3>5. ~Pending("SELECT")'
      BY <1>1, <1>2, Thinks DEF InConnection, Pending
    <3> QED
      BY <1>1, <1>2, <3>3, <3>4, <3>5 DEF NegInv, Negotiating
  <2>9. CASE p = tg[bus].pend /\ m \in {WDTR, OtherExtended, UnknownMessage, RESTORE_POINTERS}
    <3>1. ~Negotiates(m)
      BY <2>9, NoNegotiation
    <3> QED
      BY <1>8, <2>6, <2>7, <2>9, <3>1
  <2> QED
    BY <2>5, <2>8, <2>9
<1> QED
  BY <1>9, <1>10, <1>11 DEF TargetSteps

(* An interrupt for a phase: what was being sent goes on, or was no SDTR.  *)
LEMMA NegReport ==
  ASSUME Base, Base', CalmInv, Polite, Steady => AskInv, NegInv,
         UNCHANGED <<setup, hd, pc, sr>>, ReportPhase
  PROVE  NegInv'
<1>1. /\ chip.int = "none" /\ bus # NULL /\ Phase # "none" /\ ~Expected
      /\ chip' = [chip EXCEPT !.cmd = "none", !.int = Phase, !.quiet = TRUE]
      /\ UNCHANGED <<bus, tg, agreed>> /\ IsChip(chip)
  BY RecordDomains DEF ReportPhase, Base, Types, BusTypes
<1>2. Phase \in Phases
  BY <1>1, PhaseType
<1>3. chip'.int \in Phases /\ chip'.cmd = "none" /\ chip'.atn = chip.atn
  BY <1>1, <1>2 DEF IsChip
<1>4. In' = In
  BY <1>1, <1>3 DEF In, Left, Phases
<1>5. Sending' = hd.outgoing_msg
  BY <1>3 DEF Sending
<1>6. Sending' = Sending \/ NoSdtr(Sending)
  <2> SUFFICES ASSUME chip.cmd = "info", chip.xph = "MESS_OUT", Negotiating, ~NoSdtr(Sending)
               PROVE  FALSE
    BY <1>1, <1>5 DEF Sending, NegInv, Still
  <2>1. Asking \/ Owing
    BY DEF Negotiating, Answered, Offered
  <2>2. chip.atn /\ tg[bus].msgs = <<>>
    BY <1>1, <2>1, InIs DEF Asking, Owing
  <2>3. tg[bus].ph \notin Parting
    <3>1. "sdtr" \in setup.quirks => Steady
      BY DEF Polite, Steady
    <3> QED
      BY <1>1, <2>1, <3>1 DEF Asking, Owing, AskInv, Parting
  <2>4. Phase = "MESS_OUT"
    BY <1>1, <2>2, <2>3 DEF Phase, Parting
  <2> QED
    BY <1>1, <2>4 DEF Expected
<1>7. SameTerms
  BY <1>1 DEF SameTerms, Waits
<1>8. ~Pending("SELECT")' \/ Pending("SELECT")
  BY <1>3 DEF Pending, Phases
<1>9. SameTalk
  BY <1>1, <1>3, <1>4, <1>5, <1>6, SendingNone DEF SameTalk
<1>10. \A i \in Ids : Waits(i) => Waits(i)'
  BY DEF Waits
<1> QED
  BY <1>1, <1>7, <1>8, <1>9, <1>10, TalksOn

(* A byte of a message is read.                                            *)
LEMMA NegByte ==
  ASSUME Base, Base', CalmInv, Polite, NegInv, UNCHANGED <<setup, hd, pc, sr>>, TakeByte
  PROVE  NegInv'
<1> DEFINE b == tg[bus]
           last == Len(b.msgs) = 1
           m == Tail(b.msgs)
           s == IF b.msgs[1] = SAVE_POINTERS[1] /\ b.ph = "away" THEN b.pos ELSE b.saved
           p == IF last /\ b.pend # "offered" THEN "none" ELSE b.pend
           u == [b EXCEPT !.msgs = m, !.saved = s, !.pend = p]
<1>1. /\ chip.int = "none" /\ bus \in Nexus /\ bus # NULL /\ InConnection
      /\ pc # "handle" /\ IsChip(chip) /\ IsUnit(b) /\ tg \in [Nexus -> Units] /\ b.msgs # <<>>
  BY Serving DEF TakeByte, Phases
<1>2. /\ chip'.cmd = "none" /\ chip'.int = "MSGIN" /\ chip'.byte = Head(b.msgs)
      /\ chip'.atn = chip.atn /\ bus' = bus
  BY <1>1 DEF TakeByte, IsChip
<1>3. tg' = [tg EXCEPT ![bus] = u]
  BY <1>1 DEF TakeByte, IsUnit
<1>4. u.msgs = m /\ u.pend = p /\ u.ph = b.ph
  BY <1>1 DEF IsUnit
<1> HIDE DEF u
<1>5. tg'[bus].msgs = m /\ tg'[bus].pend = p /\ tg'[bus].ph = b.ph
      /\ \A n \in Nexus : n # bus => tg'[n] = tg[n]
  BY <1>1, <1>3, <1>4
<1>6. agreed' = IF last /\ b.pend \in {"async", "sync"}
                THEN [agreed EXCEPT ![bus[1]] = b.pend] ELSE agreed
  BY DEF TakeByte
<1>7. b.msgs \in Seq(Nat) /\ (last <=> m = <<>>)
  <2>1. b.msgs \in Seq(Nat)
    BY <1>1, InIs
  <2>2. m \in Seq(Nat) /\ Len(m) = Len(b.msgs) - 1 /\ Len(b.msgs) \in Nat
    BY <1>1, <2>1, HeadTailProperties
  <2>3. \A q \in Seq(Nat) : q = <<>> <=> Len(q) = 0
    BY EmptySeq
  <2>4. Len(m) = 0 <=> last
    BY <2>2
  <2>5. m = <<>> <=> Len(m) = 0
    BY <2>2, <2>3
  <2> QED
    BY <2>1, <2>4, <2>5
<1>8. In' = In
  <2>1. Left = b.msgs
    BY <1>1, LeftIs DEF Base, Types, BusTypes
  <2>2. Left' = <<Head(b.msgs)>> \o Tail(b.msgs)
    BY <1>2, <1>5 DEF Left
  <2>3. Left' = Left
    BY <1>1, <1>7, <2>1, <2>2, HeadAndTail
  <2> QED
    BY <2>3 DEF In
<1>9. chip.cmd = "info" /\ chip.xph = "MESS_IN"
  BY <1>1, Serving DEF TakeByte, Ready, Expected, Phases
<1>10. Sending' = Sending
  BY <1>2, <1>9 DEF Sending
<1>11. ~Pending("SELECT")'
  BY <1>1, <1>2 DEF Pending
<1>12. bus[1] \in Ids /\ agreed \in [Ids -> {"sync", "async"}]
  BY <1>1, NexusIds DEF NegInv, Elsewhere
<1>13. Elsewhere'
  BY <1>1, <1>2, <1>5, <1>6, <1>12 DEF NegInv, Elsewhere, Settled, Unasked, Waits
<1>14. In # <<>>
  BY <1>1, InIs
<1>15. CASE Still
  <2>1. agreed' = agreed /\ p = "none"
    BY <1>6, <1>15 DEF Still
  <2>2. Still'
    BY <1>2, <1>5, <1>8, <1>10, <1>15, <2>1 DEF Still, Settled, Unasked, Waits
  <2> QED
    BY <1>1, <1>2, <1>13, <2>2 DEF NegInv
<1>16. CASE Offered
  <2>1. p = "offered"
    BY <1>16 DEF Offered
  <2>2. Offered'
    BY <1>2, <1>5, <1>8, <1>10, <1>16, <2>1 DEF Offered, Waits
  <2> QED
    BY <1>1, <1>2, <1>11, <1>13, <2>2 DEF NegInv, Negotiating
<1>17. ASSUME NEW k \in {"sync", "async"}, Answered(k)
       PROVE  NegInv'
  <2>1. b.pend = k
    BY <1>1, <1>17 DEF Answered
  <2>2. IF m = <<>> THEN p = "none" /\ agreed'[bus[1]] = k ELSE p = k
    BY <1>6, <1>7, <1>12, <2>1
  <2>3. Answered(k)'
    BY <1>2, <1>5, <1>8, <1>10, <1>17, <2>2 DEF Answered, Waits, Willing
  <2> QED
    BY <1>1, <1>2, <1>11, <1>13, <2>3 DEF NegInv, Negotiating
<1>18. ~Asking /\ ~Owing
  BY <1>14 DEF Asking, Owing
<1> QED
  BY <1>1, <1>15, <1>16, <1>17, <1>18 DEF NegInv, Negotiating

(* What there is of SDTRs in messages that are going out.                  *)
Offsets(ms) == {m.off : m \in {x \in ToSet(ms) : x.msg = "SDTR"}}
(* What TakeMessages makes of the messages: the offsets of their SDTRs.    *)
LEMMA OffsetsAre ==
  ASSUME NEW ms \in Seq(OutMessages)
  PROVE  /\ NoSdtr(ms) => Offsets(ms) = {}
         /\ Len(ms) = 2 /\ ms[1].msg = "IDENTIFY" /\ ms[2].msg = "SDTR" => Offsets(ms) = {ms[2].off}
         /\ ms = <<Sdtr(0)>> => Offsets(ms) = {0}
<1>1. DOMAIN ms = 1..Len(ms) /\ ToSet(ms) = {ms[i] : i \in DOMAIN ms}
  BY DEF ToSet
<1>2. ASSUME NoSdtr(ms)
      PROVE  Offsets(ms) = {}
  BY <1>1, <1>2 DEF NoSdtr, Offsets
<1>3. ASSUME Len(ms) = 2, ms[1].msg = "IDENTIFY", ms[2].msg = "SDTR"
      PROVE  Offsets(ms) = {ms[2].off}
  <2>1. ToSet(ms) = {ms[1], ms[2]}
    BY <1>1, <1>3
  <2>2. {x \in ToSet(ms) : x.msg = "SDTR"} = {ms[2]}
    BY <1>3, <2>1
  <2> QED
    BY <2>2 DEF Offsets
<1>4. ASSUME ms = <<Sdtr(0)>>
      PROVE  Offsets(ms) = {0}
  <2>1. ToSet(ms) = {Sdtr(0)}
    BY <1>1, <1>4
  <2>2. {x \in ToSet(ms) : x.msg = "SDTR"} = {Sdtr(0)} /\ Sdtr(0).off = 0
    BY <2>1 DEF Sdtr
  <2> QED
    BY <2>2 DEF Offsets
<1> QED
  BY <1>2, <1>3, <1>4

(* The target takes the messages, and answers an SDTR.                     *)
LEMMA NegMessages ==
  ASSUME Base, Base', CalmInv, CalmInv', Polite, NegInv, UNCHANGED <<setup, hd, pc, sr>>,
         TakeMessages
  PROVE  NegInv'
<1> DEFINE ms    == chip.out
           sdtr  == Offsets(ms)
           first == ms[1]
           n     == IF first.msg = "IDENTIFY" THEN <<bus[1], first.lun>> ELSE bus
           t     == IF first.msg = "IDENTIFY"
                    THEN [tg[bus] EXCEPT !.ph = "command", !.disc = first.disc]
                    ELSE tg[bus]
           own   == t.pend = "offered"
           off   == CHOOSE x \in sdtr : TRUE
           mode  == IF off > 0 THEN "sync" ELSE "async"
           u(a)  == IF own THEN [t EXCEPT !.pend = "none"]
                    ELSE IF sdtr = {} \/ a = "mute" THEN t
                    ELSE IF a = "agree" THEN [t EXCEPT !.msgs = SDTR(off), !.pend = mode]
                    ELSE [t EXCEPT !.msgs = MESSAGE_REJECT, !.pend = "async"]
<1>1. Ready("MESS_OUT") /\ "MESS_OUT" \in Phases
  BY DEF TakeMessages, Phases
<1>2. /\ chip.int = "none" /\ bus \in Nexus /\ bus # NULL /\ InConnection
      /\ pc # "handle" /\ hd.connected \in Cmds
      /\ IsChip(chip) /\ IsUnit(tg[bus]) /\ tg \in [Nexus -> Units]
      /\ tg[bus].msgs = <<>> /\ hd.incoming_msg = <<>>
  BY <1>1, Serving
<1>3. chip.cmd = "info" /\ chip.xph = "MESS_OUT" /\ ms \in Seq(OutMessages)
  BY <1>1, ChipTypes DEF Ready, Expected, DataGoesOn, Base, Types, BusTypes
<1>4. ms # <<>> /\ hd.outgoing_msg = <<>>
  BY <1>3 DEF Base, SelectInv, IdentifySent
<1>5. PICK a \in IF sdtr = {} \/ own THEN {"agree"} ELSE Answers :
        /\ bus' = n
        /\ tg' = [tg EXCEPT ![bus] = Idle, ![n] = u(a)]
        /\ agreed' = IF ~own THEN agreed
                     ELSE [agreed EXCEPT ![bus[1]] = IF sdtr = {} THEN "async" ELSE mode]
        /\ chip' = IF a = "early" THEN [chip EXCEPT !.cmd = "none", !.count = 1]
                   ELSE [chip EXCEPT !.cmd = "none", !.count = 0, !.atn = FALSE, !.out = <<>>]
  BY DEF TakeMessages, Offsets
<1>6. first.msg = "IDENTIFY" => first.lun = Attr[hd.connected].lun /\ tg[bus].ph = "select"
  BY <1>3, <1>4 DEF CalmInv, IdentifyInv, Identifies
<1>7. n = bus
  <2>1. bus = <<Attr[hd.connected].id, Attr[hd.connected].lun>>
    BY <1>2 DEF InConnection, NexusOf
  <2> QED
    BY <1>6, <2>1
<1>8. /\ IsUnit(t) /\ t.pend = tg[bus].pend /\ t.msgs = <<>>
      /\ t.ph = IF first.msg = "IDENTIFY" THEN "command" ELSE tg[bus].ph
  <2> HIDE DEF first
  <2> QED
    BY <1>2 DEF IsUnit
<1> HIDE DEF sdtr, off, t
<1> DEFINE w == u(a)
<1>9. w.ph = t.ph
      /\ \/ own /\ w.pend = "none" /\ w.msgs = <<>>
         \/ ~own /\ (sdtr = {} \/ a = "mute") /\ w = t
         \/ ~own /\ sdtr # {} /\ a = "agree" /\ w.pend = mode /\ w.msgs = SDTR(off)
         \/ ~own /\ sdtr # {} /\ a \in {"reject", "early"} /\ w.pend = "async" /\ w.msgs = MESSAGE_REJECT
  <2> HIDE DEF mode
  <2>1. \A m, p : LET v == [t EXCEPT !.msgs = m, !.pend = p]
                  IN v.ph = t.ph /\ v.msgs = m /\ v.pend = p
    BY <1>8 DEF IsUnit
  <2>2. LET v == [t EXCEPT !.pend = "none"]
        IN v.ph = t.ph /\ v.pend = "none" /\ v.msgs = t.msgs
    BY <1>8 DEF IsUnit
  <2>3. a \in {"agree", "reject", "early", "mute"}
    BY <1>5 DEF Answers
  <2> QED
    BY <1>8, <2>1, <2>2, <2>3
<1> HIDE DEF u, n, w
<1>10. tg' = [tg EXCEPT ![bus] = w] /\ bus' = bus
  BY <1>2, <1>5, <1>7 DEF w
<1>11. tg'[bus] = w /\ \A x \in Nexus : x # bus => tg'[x] = tg[x]
  BY <1>2, <1>10
<1>12. chip'.int = "none" /\ chip'.cmd = "none"
  BY <1>2, <1>5 DEF IsChip
<1>13. In' = w.msgs
  <2>1. Left' = w.msgs /\ w.msgs \in Seq(Nat) /\ In' = hd.incoming_msg \o Left'
    BY <1>2, <1>10, <1>11, <1>12, LeftNext, UnitTypes DEF In, Base, Types, BusTypes
  <2> QED
    BY <1>2, <2>1, ConcatEmptySeq
<1>14. Sending = ms /\ Sending' = <<>> /\ NoSdtr(Sending')
  BY <1>3, <1>4, <1>12 DEF Sending, NoSdtr
<1>15. ~Pending("SELECT")'
  BY <1>2, <1>12 DEF Pending
<1>16. bus[1] \in Ids /\ agreed \in [Ids -> {"sync", "async"}]
  BY <1>2, NexusIds DEF NegInv, Elsewhere
<1>17. Elsewhere'
  <2>1. /\ agreed' \in [Ids -> {"sync", "async"}]
        /\ \A i \in Ids : i # bus[1] => agreed'[i] = agreed[i]
    BY <1>5, <1>16
  <2> QED
    BY <1>2, <1>10, <1>11, <2>1 DEF NegInv, Elsewhere, Settled, Unasked, Waits
<1>18. In = <<>>
  BY <1>2, InIs
<1>19. ~Offered /\ \A m : ~Answered(m)
  BY <1>18, NoNegotiation DEF Offered, Answered
<1>20. ASSUME hd.sync_xfer[bus[1]] = agreed'[bus[1]], w.pend = "none", w.msgs = <<>>,
              Unasked(bus[1])
       PROVE  NegInv'
  <2>1. Still'
    BY <1>10, <1>11, <1>13, <1>14, <1>20, NoNegotiation DEF Still, Settled, Unasked, Waits
  <2> QED
    BY <1>2, <1>10, <1>17, <2>1 DEF NegInv
<1>21. ASSUME NEW m \in {"sync", "async"}, w.msgs # <<>>, w.pend = m,
              \/ IsSdtr(w.msgs) /\ m = Mode(w.msgs[5]) /\ w.ph = "command"
                 /\ (Waits(bus[1]) \/ Willing)
              \/ w.msgs = MESSAGE_REJECT /\ m = "async" /\ ~Willing /\ Waits(bus[1])
       PROVE  NegInv'
  <2>1. Answered(m)'
    BY <1>10, <1>11, <1>13, <1>14, <1>21 DEF Answered, Waits, Willing
  <2> QED
    BY <1>2, <1>10, <1>15, <1>17, <2>1 DEF NegInv, Negotiating
<1>22. CASE Still
  <2>1. sdtr = {} /\ ~own
    BY <1>3, <1>8, <1>14, <1>22, OffsetsAre DEF Still, sdtr
  <2>2. w = t /\ agreed' = agreed
    BY <1>5, <1>9, <2>1
  <2> QED
    BY <1>8, <1>20, <1>22, <2>2 DEF Still, Settled
<1>23. CASE Asking
  <2>1. sdtr = {ms[2].off} /\ ~own /\ first.msg = "IDENTIFY"
    BY <1>3, <1>8, <1>14, <1>23, OffsetsAre DEF Asking, sdtr
  <2>2. sdtr # {} /\ agreed' = agreed /\ a \in Answers /\ w.ph = "command"
    BY <1>5, <1>8, <1>9, <2>1
  <2>3. CASE a = "agree"
    <3>1. w.msgs = SDTR(off) /\ w.pend = mode
      BY <1>9, <2>1, <2>2, <2>3
    <3>2. IsSdtr(w.msgs) /\ w.msgs # <<>> /\ Mode(w.msgs[5]) = mode /\ mode \in {"sync", "async"}
      BY <3>1, NoNegotiation DEF Mode
    <3> HIDE DEF mode
    <3> QED
      BY <1>21, <1>23, <2>2, <3>1, <3>2 DEF Asking
  <2>4. CASE a \in {"reject", "early"}
    <3>1. ~Willing
      BY <2>2, <2>4 DEF Willing, Answers, Quirks
    <3>2. w.msgs = MESSAGE_REJECT /\ w.pend = "async"
      BY <1>9, <2>1, <2>2, <2>4
    <3> QED
      BY <1>21, <1>23, <3>1, <3>2, NoNegotiation DEF Asking
  <2>5. CASE a = "mute"
    <3>1. "sdtr" \notin setup.quirks
      BY <2>2, <2>5 DEF Answers, Quirks, Polite
    <3>2. w = t
      BY <1>9, <2>1, <2>2, <2>5
    <3> QED
      BY <1>8, <1>20, <1>23, <2>2, <3>1, <3>2 DEF Asking, Settled, Unasked
  <2> QED
    BY <2>2, <2>3, <2>4, <2>5 DEF Answers
<1>24. CASE Owing
  <2>1. sdtr = {0} /\ off = 0 /\ mode = "async" /\ first.msg = "SDTR"
    <3>1. ms = <<Sdtr(0)>>
      BY <1>14, <1>24 DEF Owing
    <3>2. sdtr = {0}
      BY <1>3, <3>1, OffsetsAre DEF sdtr
    <3>3. first = Sdtr(0) /\ Sdtr(0).msg = "SDTR"
      BY <3>1 DEF Sdtr
    <3>4. off = 0
      BY <3>2 DEF off
    <3> QED
      BY <3>2, <3>3, <3>4
  <2>2. CASE own
    <3>1. agreed'[bus[1]] = "async"
      BY <1>5, <1>16, <2>1, <2>2
    <3> QED
      BY <1>9, <1>20, <1>24, <2>2, <3>1 DEF Owing, Unasked
  <2>3. CASE ~own
    <3>1. Willing /\ tg[bus].ph = "command" /\ a = "agree"
      BY <1>5, <1>8, <1>24, <2>1, <2>3 DEF Owing, Answers, Quirks, Willing
    <3>2. w.msgs = SDTR(off) /\ w.pend = mode /\ w.ph = "command"
      BY <1>8, <1>9, <2>1, <2>3, <3>1
    <3>3. IsSdtr(w.msgs) /\ w.msgs # <<>> /\ Mode(w.msgs[5]) = "async"
      BY <2>1, <3>2, NoNegotiation DEF Mode
    <3> QED
      BY <1>21, <2>1, <3>1, <3>2, <3>3
  <2> QED
    BY <2>2, <2>3
<1> QED
  BY <1>2, <1>19, <1>22, <1>23, <1>24 DEF NegInv, Negotiating

(* What is coming in tells that there is no negotiation.                   *)
LEMMA StillBy ==
  ASSUME NegInv, bus # NULL, In # <<>>, ~Negotiates(In)
  PROVE  Still
BY NoNegotiation DEF NegInv, Negotiating, Asking, Answered, Offered, Owing

(* The connection ends.                                                    *)
LEMMA NegOff ==
  ASSUME Base, NegInv, bus # NULL, Still, bus' = NULL, UNCHANGED <<setup, hd, agreed>>,
         NEW u, tg' = [tg EXCEPT ![bus] = u], u.pend = "none"
  PROVE  NegInv'
<1>1. bus \in Nexus /\ tg \in [Nexus -> Units] /\ bus[1] \in Ids /\ NoSdtr(hd.outgoing_msg)
  BY NexusIds, RecordDomains, SendingNone DEF Base, Types, BusTypes, Still
<1>2. \A n \in Nexus : tg'[n] = IF n = bus THEN u ELSE tg[n]
  BY <1>1
<1>3. \A n \in Nexus : tg'[n].pend = "none"
  BY <1>2 DEF NegInv, Elsewhere
<1>4. \A i \in Ids : Settled(i) /\ Unasked(i)
  BY DEF NegInv, Elsewhere, Still
<1>5. \A i \in Ids : Settled(i)' /\ Unasked(i)'
  BY <1>4 DEF Settled, Unasked, Waits
<1> QED
  BY <1>1, <1>3, <1>5 DEF NegInv, Elsewhere

(* A connection begins.                                                    *)
LEMMA NegOn ==
  ASSUME Base, NegInv, bus = NULL, bus' \in Nexus, UNCHANGED <<setup, hd, agreed>>,
         \A n \in Nexus : tg'[n].pend = tg[n].pend \/ tg'[n].pend = "none",
         Sending' = hd'.outgoing_msg, In' = <<>>
  PROVE  NegInv'
<1>1. bus'[1] \in Ids /\ bus' # NULL
  BY NexusIds
<1>2. \A n \in Nexus : tg'[n].pend = "none"
  <2>1. \A n \in Nexus : n # NULL
    BY NexusIds
  <2> QED
    BY <2>1 DEF NegInv, Elsewhere
<1>3. \A i \in Ids : Settled(i)' /\ Unasked(i)'
  BY DEF NegInv, Elsewhere, Settled, Unasked, Waits
<1>4. NoSdtr(Sending')
  BY DEF NegInv
<1>5. Still'
  BY <1>1, <1>2, <1>3, <1>4, NoNegotiation DEF Still
<1> QED
  BY <1>1, <1>2, <1>3, <1>5 DEF NegInv, Elsewhere

(* A message read within a level-2 command.                                *)
LEMMA NegLevel2Message ==
  ASSUME Base, Base', CalmInv, CalmInv', Polite, NegInv, UNCHANGED <<setup, hd, pc, sr>>,
         Level2Message
  PROVE  NegInv'
<1> DEFINE t == tg[bus]
<1>1. /\ chip.int = "none" /\ bus \in Nexus /\ bus # NULL /\ InConnection
      /\ pc # "handle" /\ IsChip(chip) /\ IsUnit(tg[bus]) /\ tg \in [Nexus -> Units]
      /\ t.msgs # <<>> /\ chip.cmd = "level2" /\ agreed' = agreed
  BY Serving DEF Level2Message, Phases
<1>2. t.msgs \in Seq(Nat) /\ Left = t.msgs /\ hd.incoming_msg = <<>> /\ In = t.msgs
  <2>1. t.msgs \in Seq(Nat) /\ Left = t.msgs
    BY <1>1, UnitTypes, LeftIs DEF Base, Types, BusTypes
  <2>2. hd.incoming_msg = <<>>
    BY <1>1 DEF CalmInv, MessagesInv
  <2> QED
    BY <1>1, <2>1, <2>2, InIs
<1>3. t.msgs \in {COMMAND_COMPLETE, DISCONNECT, SAVE_POINTERS \o DISCONNECT} => Still
  BY <1>1, <1>2, NoNegotiation, StillBy
<1>4. CASE t.msgs = COMMAND_COMPLETE
  <2>1. t.msgs # DISCONNECT
    BY <1>4 DEF DISCONNECT, COMMAND_COMPLETE
  <2>2. tg' = [tg EXCEPT ![bus] = Idle] /\ bus' = NULL
    BY <1>4, <2>1 DEF Level2Message
  <2>3. Idle.pend = "none"
    BY DEF Idle
  <2> QED
    BY <1>1, <1>3, <1>4, <2>2, <2>3, NegOff
<1>5. CASE t.msgs = DISCONNECT
  <2> DEFINE u == [t EXCEPT !.msgs = <<>>, !.ph = "disc"]
  <2>1. t.msgs # COMMAND_COMPLETE
    BY <1>5 DEF DISCONNECT, COMMAND_COMPLETE
  <2>2. tg' = [tg EXCEPT ![bus].msgs = <<>>, ![bus].ph = "disc"] /\ bus' = NULL
    BY <1>5, <2>1 DEF Level2Message
  <2>3. tg' = [tg EXCEPT ![bus] = u]
    BY <1>1, <2>2
  <2>4. u.pend = tg[bus].pend
    BY <1>1 DEF IsUnit
  <2> HIDE DEF u
  <2>5. u.pend = "none"
    BY <1>3, <1>5, <2>4 DEF Still
  <2> QED
    BY <1>1, <1>3, <1>5, <2>2, <2>3, <2>5, NegOff
<1>6. CASE t.msgs \notin {COMMAND_COMPLETE, DISCONNECT}
  <2> DEFINE u == [t EXCEPT !.msgs = Tail(t.msgs), !.saved = t.pos]
  <2>1. chip' = [chip EXCEPT !.cmd = "none", !.int = "SDP", !.phs = \h41, !.ack = TRUE]
        /\ tg' = [tg EXCEPT ![bus].msgs = Tail(@), ![bus].saved = t.pos] /\ bus' = bus
    BY <1>6 DEF Level2Message
  <2>2. chip'.cmd = "none" /\ chip'.int = "SDP"
    BY <1>1, <2>1 DEF IsChip
  <2>3. tg' = [tg EXCEPT ![bus] = u]
    BY <1>1, <2>1
  <2>4. u.pend = t.pend /\ u.msgs = Tail(t.msgs)
    BY <1>1 DEF IsUnit
  <2> HIDE DEF u
  <2>5. \A n \in Nexus : tg'[n] = IF n = bus THEN u ELSE tg[n]
    BY <1>1, <2>3
  <2>6. Head(t.msgs) = 2
    BY <1>1, <1>6 DEF Level2Message, Ready, Expected, DataGoesOn, SAVE_POINTERS
  <2>7. t.msgs = SAVE_POINTERS \o DISCONNECT
    <3>1. ~InExtended
      BY <1>1, <1>2, <2>6 DEF InExtended
    <3>2. Left \notin {RESTORE_POINTERS, MESSAGE_REJECT, UnknownMessage}
      BY <1>2, <2>6 DEF RESTORE_POINTERS, MESSAGE_REJECT, UnknownMessage
    <3> QED
      BY <1>1, <1>2, <1>6, <3>1, <3>2 DEF CalmInv, MessagesInv
  <2>8. In' = DISCONNECT
    <3>1. Tail(<<2, 4>>) = <<4>> /\ t.msgs = <<2, 4>>
      BY <2>7, PlainOnes
    <3>2. Left' = DISCONNECT
      BY <1>1, <2>1, <2>2, <2>4, <2>5, <3>1 DEF Left, DISCONNECT
    <3>3. DISCONNECT \in Seq(Nat)
      BY DEF DISCONNECT
    <3> QED
      BY <1>2, <3>2, <3>3, ConcatEmptySeq DEF In
  <2>9. Sending' = hd.outgoing_msg
    BY <2>2 DEF Sending
  <2>10. Still
    BY <1>3, <2>7
  <2>11. SameTerms
    BY <1>1, <2>1, <2>4, <2>5 DEF SameTerms, Waits
  <2> QED
    BY <1>1, <2>8, <2>9, <2>10, <2>11, NoNegotiation, SendingNone, StillOn DEF Still
<1> QED
  BY <1>4, <1>5, <1>6

(* A target lets go of the bus after its last message, or drops off it.    *)
LEMMA NegRelease ==
  ASSUME Base, CalmInv, Polite, Steady => AskInv, NegInv, UNCHANGED <<setup, hd, pc, sr>>,
         ReleaseBus \/ Drop
  PROVE  NegInv'
<1> DEFINE t == tg[bus]
<1>1. /\ chip.int = "none" /\ bus # NULL /\ ~chip.ack /\ t.msgs = <<>> /\ bus' = NULL
      /\ Drop => t.ph \in {"exec", "data"} /\ "drop" \in setup.quirks
      /\ ReleaseBus => t.ph \in {"away", "complete"}
      /\ agreed' = agreed
  BY DEF ReleaseBus, Drop, Quirks
<1>2. /\ IsUnit(t) /\ tg \in [Nexus -> Units] /\ bus \in Nexus
  BY <1>1, RecordDomains DEF Base, Types, BusTypes
<1>3. Still
  <2>1. Drop => ~Steady
    BY <1>1 DEF Steady
  <2> QED
    BY <1>1, <2>1, AtRest DEF Parting
<1>4. CASE Drop \/ (ReleaseBus /\ t.ph # "away")
  <2>1. tg' = [tg EXCEPT ![bus] = Idle]
    BY <1>2, <1>4 DEF ReleaseBus, Drop
  <2>2. Idle.pend = "none"
    BY DEF Idle
  <2> QED
    BY <1>1, <1>3, <2>1, <2>2, NegOff
<1>5. CASE ReleaseBus /\ t.ph = "away"
  <2> DEFINE v == [t EXCEPT !.ph = "disc"]
  <2>1. tg' = [tg EXCEPT ![bus] = v]
    BY <1>2, <1>5 DEF ReleaseBus
  <2>2. v.pend = t.pend
    BY <1>2 DEF IsUnit
  <2> HIDE DEF v
  <2>3. v.pend = "none"
    BY <1>3, <2>2 DEF Still
  <2> QED
    BY <1>1, <1>3, <2>1, <2>3, NegOff
<1> QED
  BY <1>4, <1>5

(* A selection is answered.                                                *)
LEMMA NegSelected ==
  ASSUME Base, Base', CalmInv, NegInv, UNCHANGED <<setup, hd, pc, sr>>, Selected
  PROVE  NegInv'
<1>1. /\ chip.int = "none" /\ bus = NULL /\ chip.cmd \in {"select", "level2"}
      /\ bus' = <<chip.id, chip.lun>> /\ agreed' = agreed
  BY DEF Selected
<1>2. IsChip(chip) /\ tg \in [Nexus -> Units] /\ NULL \notin Nexus /\ hd.incoming_msg = <<>>
  BY <1>1, FreeBus
<1> DEFINE c == IF chip.cmd = "select" THEN hd.selecting ELSE hd.connected
<1>3. bus' \in Nexus
  <2>1. c # NULL /\ bus' = NexusOf(c)
    BY <1>1 DEF Base, SelectInv, Selects, SelectsToTransfer
  <2>2. c \in Cmds
    BY <2>1, HostFieldTypes DEF Base, Types, HostTypes
  <2> QED
    BY <2>1, <2>2, AttrTypes
<1>4. chip'.int \in {"none", "SELECT"} /\ chip'.cmd \in {"none", "level2"}
  BY <1>1, <1>2 DEF Selected, IsChip
<1>5. PICK u : tg' = [tg EXCEPT ![bus'] = u] /\ u.pend = "none" /\ u.msgs = <<>>
  <2> DEFINE v == [Idle EXCEPT !.ph = "select"]
             w == [Idle EXCEPT !.ph = "command", !.disc = chip.er]
  <2>1. tg' = [tg EXCEPT ![bus'] = v] \/ tg' = [tg EXCEPT ![bus'] = w]
    BY DEF Selected
  <2>2. v.pend = "none" /\ v.msgs = <<>> /\ w.pend = "none" /\ w.msgs = <<>>
    BY DEF Idle
  <2> HIDE DEF v, w
  <2> QED
    BY <2>1, <2>2
<1>6. \A n \in Nexus : tg'[n] = IF n = bus' THEN u ELSE tg[n]
  BY <1>2, <1>5
<1>7. In' = <<>>
  <2>1. Left' = <<>>
    BY <1>3, <1>4, <1>5, <1>6, LeftNext
  <2> QED
    BY <1>2, <2>1, ConcatEmptySeq, EmptySeq DEF In
<1>8. Sending' = hd'.outgoing_msg
  BY <1>4 DEF Sending
<1> QED
  BY <1>1, <1>3, <1>5, <1>6, <1>7, <1>8, NegOn

(* A target comes back, or a selection is not answered.                    *)
LEMMA NegBack ==
  ASSUME Base, Base', CalmInv, NegInv, UNCHANGED <<setup, hd, pc, sr>>,
         SelectionTimeout \/ \E n \in Nexus : Reselect(n)
  PROVE  NegInv'
<1>1. chip.int = "none" /\ bus = NULL /\ agreed' = agreed
  BY DEF SelectionTimeout, Reselect
<1>2. /\ IsChip(chip) /\ tg \in [Nexus -> Units] /\ NULL \notin Nexus
      /\ hd.incoming_msg = <<>> /\ \A n \in Nexus : OffBus(tg[n])
  BY <1>1, FreeBus
<1>3. chip'.cmd = "none" /\ chip'.int \in {"TIMEOUT", "RESEL_AM"}
  BY <1>2 DEF SelectionTimeout, Reselect, IsChip
<1>4. CASE SelectionTimeout
  <2>1. SameTerms
    BY <1>1, <1>4 DEF SelectionTimeout, SameTerms, Waits
  <2>2. ~Pending("SELECT")' \/ Pending("SELECT")
    BY <1>3 DEF Pending
  <2> QED
    BY <1>1, <2>1, <2>2, TalksOn DEF NegInv, Waits
<1>5. CASE \E n \in Nexus : Reselect(n)
  <2>1. PICK n \in Nexus : Reselect(n)
    BY <1>5
  <2>2. IsUnit(tg[n]) /\ tg[n].msgs = <<>>
    BY <1>2, RecordDomains DEF OffBus
  <2>3. tg' = [tg EXCEPT ![n].ph = "exec"] /\ bus' = n
    BY <2>1 DEF Reselect
  <2>4. tg'[n].pend = tg[n].pend /\ tg'[n].msgs = <<>>
    BY <1>2, <2>2, <2>3 DEF IsUnit
  <2>5. \A k \in Nexus : k # n => tg'[k] = tg[k]
    BY <1>2, <2>3
  <2>6. In' = <<>>
    <3>1. Left' = <<>>
      BY <1>3, <2>3, <2>4, LeftNext
    <3> QED
      BY <1>2, <3>1, ConcatEmptySeq, EmptySeq DEF In
  <2>7. Sending' = hd'.outgoing_msg
    BY <1>3 DEF Sending
  <2> QED
    BY <1>1, <2>3, <2>4, <2>5, <2>6, <2>7, NegOn
<1> QED
  BY <1>4, <1>5

(* The steps of the bus.                                                   *)
LEMMA NegBus ==
  ASSUME Base, Base', CalmInv, CalmInv', Polite, Steady => AskInv, NegInv, UNCHANGED setup,
         BusSteps \/ DataSteps
  PROVE  NegInv'
<1>1. UNCHANGED <<setup, hd, pc, sr>>
  BY DEF BusSteps, DataSteps, DmaMoves, PioMoves, driverVars
<1>2. CASE Selected
  BY <1>1, <1>2, NegSelected
<1>3. CASE SelectionTimeout \/ \E n \in Nexus : Reselect(n)
  BY <1>1, <1>3, NegBack
<1>4. CASE ReportPhase
  BY <1>1, <1>4, NegReport
<1>5. CASE TakeCommand \/ TakeStatus
  BY <1>1, <1>5, NegPhases
<1>6. CASE TakeMessages
  BY <1>1, <1>6, NegMessages
<1>7. CASE TakeByte
  BY <1>1, <1>7, NegByte
<1>8. CASE Level2Message
  BY <1>1, <1>8, NegLevel2Message
<1>9. CASE ReleaseBus \/ Drop
  BY <1>1, <1>9, NegRelease
<1>10. CASE TargetSteps
  BY <1>1, <1>10, NegTarget
<1>11. CASE DataSteps
  <2>1. PICK k \in 1..chip.count : MoveData(k)
    BY <1>11 DEF DataSteps, DmaMoves, PioMoves
  <2> QED
    BY <1>1, <2>1, NegPhases
<1> QED
  BY <1>2, <1>3, <1>4, <1>5, <1>6, <1>7, <1>8, <1>9, <1>10, <1>11 DEF BusSteps, ChipSteps

-------------------------------------------------------------------------------
(* What the handler of an interrupt leaves as it is of a negotiation, and  *)
(* how it sets the chip up for data.                                       *)
Terms(h) ==
  /\ IsHost(h) /\ h.incoming_msg = hd.incoming_msg
  /\ h.sync_xfer = hd.sync_xfer /\ h.sync_stat = hd.sync_stat
SetUp ==
  (engine'.cmd # NULL \/ pc' = "pio") =>
    hd'.connected = hd.connected /\ chip'.sync = hd.sync_xfer[Attr[hd.connected].id]

(* It reads no message and changes no agreement; and a transfer it sets up *)
(* has the connected target's timing in the chip (transfer_bytes).         *)
LEMMA HandleTerms ==
  ASSUME Base, HandleInterrupt, ~OnSelect
  PROVE  Terms(hd') /\ UNCHANGED <<bus, tg, agreed>> /\ pc = "handle" /\ SetUp
<1>1. pc = "handle" /\ UNCHANGED <<bus, tg, agreed>>
  BY DEF HandleInterrupt, OnTimeout, OnSelect, OnData, OnCommand, OnMessageOut, OnStatus,
     OnMessageIn, OnSelXferDone, OnUnexpDisc, AlreadyDisconnected, OnDisc, OnSdp, OnReselect,
     OnStrayReselect, CommandCase, Case, Rest, targetVars
<1>2. IsHost(hd) /\ IsChip(chip) /\ Terms(hd) /\ engine.cmd = NULL
  BY <1>1, RecordDomains, Handling DEF Base, Types, HostTypes, BusTypes, Terms
<1>3. ASSUME NEW h, Terms(h), NEW st
      PROVE  Terms([h EXCEPT !.state = st])
  BY <1>3 DEF Terms, IsHost
<1>4. CASE OnTimeout \/ OnSelXferDone \/ OnUnexpDisc \/ AlreadyDisconnected
  <2>1. Terms(hd')
    BY <1>2, <1>4 DEF OnTimeout, OnSelXferDone, OnUnexpDisc, AlreadyDisconnected,
       Unconnected, IsHost, Terms
  <2>2. engine'.cmd = NULL /\ pc' # "pio"
    BY <1>2, <1>4 DEF OnTimeout, OnSelXferDone, OnUnexpDisc, AlreadyDisconnected, Restart
  <2> QED
    BY <1>1, <2>1, <2>2 DEF SetUp
<1>5. CASE OnDisc
  <2>1. \/ hd' = Unconnected(hd, hd.connected) \/ hd' = Disconnected(hd, hd.connected)
        \/ hd' = [hd EXCEPT !.state = "S_UNCONNECTED"]
    BY <1>5 DEF OnDisc
  <2>2. Terms(hd')
    BY <1>2, <2>1 DEF Unconnected, Disconnected, IsHost, Terms
  <2>3. engine'.cmd = NULL /\ pc' # "pio"
    BY <1>2, <1>5 DEF OnDisc, Restart
  <2> QED
    BY <1>1, <2>2, <2>3 DEF SetUp
<1>6. CASE OnCommand \/ OnMessageOut \/ OnStatus \/ OnMessageIn \/ OnSdp
  <2>1. engine'.cmd = NULL /\ pc' # "pio"
    BY <1>2, <1>6 DEF OnCommand, OnMessageOut, OnStatus, OnMessageIn, OnSdp, ReadByte
  <2>2. Terms(hd')
    BY <1>2, <1>6 DEF OnCommand, OnMessageOut, OnStatus, OnMessageIn, OnSdp, IsHost, Terms
  <2> QED
    BY <1>1, <2>1, <2>2 DEF SetUp
<1>7. CASE OnReselect \/ OnStrayReselect
  <2> DEFINE h == PutBackLoser(hd)
             g == [h EXCEPT !.connected = hd.disconnected_Q[Reconnecting],
                            !.disconnected_Q = RemoveAt(@, Reconnecting)]
  <2>1. /\ hd' \in {h, [g EXCEPT !.state = "S_RUNNING_LEVEL2"],
                    [g EXCEPT !.state = "S_CONNECTED"]}
        /\ engine'.cmd = NULL /\ pc' # "pio"
    BY <1>2, <1>7 DEF OnReselect, OnStrayReselect
  <2>2. Terms(h)
    BY <1>2 DEF PutBackLoser, Requeued, IsHost, Terms
  <2> HIDE DEF h
  <2>3. Terms(g)
    BY <2>2 DEF IsHost, Terms
  <2> HIDE DEF g
  <2>4. Terms(hd')
    BY <1>3, <2>1, <2>2, <2>3
  <2> QED
    BY <1>1, <2>1, <2>4 DEF SetUp
<1>8. CASE OnData
  <2> DEFINE c == hd.connected
             s == NextBuffer(c)
  <2>1. \/ TransferNothing
        \/ \E via \in DmaWays \ {"fail"} : TransferByDma(c, s, via)
        \/ TransferByPio(c, s)
    BY <1>8 DEF OnData
  <2> HIDE DEF s
  <2>2. CASE TransferNothing
    <3>1. \E st : hd' = [hd EXCEPT !.state = st]
      BY <2>2 DEF TransferNothing, Connected
    <3>2. Terms(hd') /\ engine'.cmd = NULL /\ pc' # "pio"
      BY <1>2, <1>3, <2>2, <3>1 DEF TransferNothing
    <3> QED
      BY <1>1, <3>2 DEF SetUp
  <2> DEFINE y == hd.sync_xfer[Attr[c].id]
             For(d) == IsChip(d) /\ d.sync = y
  <2>3. ASSUME NEW d, For(d)
        PROVE  SelAtnXfer(d, \h45).sync = y /\ TransInfo(d).sync = y
    BY <2>3 DEF SelAtnXfer, TransInfo, Issue, IsChip
  <2>4. ASSUME NEW via \in DmaWays \ {"fail"}, TransferByDma(c, s, via)
        PROVE  Terms(hd') /\ SetUp
    <3> DEFINE ch == [chip EXCEPT !.sync = y, !.polled = FALSE, !.count = s.left]
               h  == DmaSetup(hd, via)
    <3>1. /\ chip' \in {SelAtnXfer(ch, \h45), TransInfo(ch)}
          /\ \E st : hd' = [h EXCEPT !.state = st]
      BY <2>4 DEF TransferByDma, Connected
    <3>2. For(ch)
      BY <1>2 DEF IsChip
    <3>3. Terms(h) /\ h.connected = hd.connected
      BY <1>2 DEF DmaSetup, IsHost, Terms
    <3> HIDE DEF ch, h, For, y
    <3>4. chip'.sync = y
      BY <2>3, <3>1, <3>2
    <3>5. Terms(hd') /\ hd'.connected = hd.connected
      BY <1>3, <3>1, <3>3 DEF Terms, IsHost
    <3> QED
      BY <3>4, <3>5 DEF SetUp, y
  <2>5. CASE TransferByPio(c, s)
    <3> DEFINE ch == [chip EXCEPT !.sync = y, !.polled = TRUE, !.count = s.left]
               b == hd.bounce /\ hd.no_dma
               h == [hd EXCEPT !.bounce = b]
    <3>1. chip' = TransInfo(ch) /\ \E st : hd' = [h EXCEPT !.state = st]
      BY <2>5 DEF TransferByPio, Connected
    <3> HIDE DEF b
    <3>2. For(ch)
      BY <1>2 DEF IsChip
    <3>3. Terms(h) /\ h.connected = hd.connected
      BY <1>2 DEF IsHost, Terms
    <3> HIDE DEF ch, h, For, y
    <3>4. chip'.sync = y
      BY <2>3, <3>1, <3>2
    <3>5. Terms(hd') /\ hd'.connected = hd.connected
      BY <1>3, <3>1, <3>3 DEF Terms, IsHost
    <3> QED
      BY <1>1, <3>4, <3>5 DEF SetUp, y
  <2> QED
    BY <1>1, <2>1, <2>2, <2>4, <2>5
<1> QED
  BY <1>4, <1>5, <1>6, <1>7, <1>8 DEF HandleInterrupt

(* A phase the driver is handling lasts, or its target goes off the bus.   *)
UnheardInv == pc = "handle" /\ sr.csr \in Phases /\ chip.int # "none" => bus = NULL
(* Nothing on the bus makes it false.                                      *)
LEMMA UnheardKept ==
  ASSUME Base, UnheardInv, BusSteps \/ DataSteps
  PROVE  UnheardInv'
<1>1. UNCHANGED <<pc, sr>>
  BY DEF BusSteps, DataSteps, DmaMoves, PioMoves, driverVars
<1> SUFFICES ASSUME pc = "handle", sr.csr \in Phases, chip'.int # "none"
             PROVE  bus' = NULL
  BY <1>1 DEF UnheardInv
<1>2. chip.cmd = "none" /\ ChipInv
  BY DEF Base, ChipInv
<1>3. \A ph : ~Ready(ph)
  BY <1>2 DEF Ready, Expected
<1>4. ~Selected /\ ~SelectionTimeout /\ ~TakeCommand /\ ~TakeStatus /\ ~TakeMessages
      /\ ~TakeByte /\ ~Level2Message /\ \A k : ~MoveData(k)
  BY <1>2, <1>3 DEF Selected, SelectionTimeout, TakeCommand, TakeStatus, TakeMessages, TakeByte,
     Level2Message, MoveData
<1>5. ReportPhase \/ (\E n \in Nexus : Reselect(n)) => chip.int = "none"
  BY DEF ReportPhase, Reselect
<1>6. chip.int = "none" => Phase # "none" /\ chip.quiet
  BY <1>2 DEF ChipInv, Phases
<1>7. ~ReportPhase /\ \A n \in Nexus : ~Reselect(n)
  BY <1>5, <1>6 DEF ReportPhase, Reselect, Phase
<1>8. CASE ReleaseBus \/ Drop
  BY <1>8 DEF ReleaseBus, Drop
<1>9. CASE TargetSteps
  BY <1>9 DEF TargetSteps, StartData, GiveStatus, StartDisconnect, Quirk, UnheardInv
<1> QED
  BY <1>4, <1>7, <1>8, <1>9 DEF BusSteps, ChipSteps, DataSteps, DmaMoves, PioMoves

(* The target answers a selection, and is told who is calling, with an     *)
(* SDTR the first time.                                                    *)
LEMMA NegOnSelect ==
  ASSUME Base, Base', CalmInv, NegInv, OnSelect, UNCHANGED setup
  PROVE  NegInv'
<1> DEFINE c  == hd.selecting
           id == Attr[c].id
           first == hd.sync_stat[id] = "SS_FIRST"
           off == IF id \in hd.no_sync THEN 0 ELSE OPTIMUM_SX_OFF
           out == <<Identify(c)>> \o IF first THEN <<Sdtr(off)>> ELSE <<>>
           stat == [hd.sync_stat EXCEPT ![id] = IF first THEN "SS_WAITING" ELSE @]
<1>1. /\ pc = "handle" /\ sr.csr = "SELECT" /\ UNCHANGED <<chip, bus, tg, agreed>> /\ pc' = "idle"
      /\ hd' = [hd EXCEPT !.connected = c, !.selecting = NULL, !.state = "S_CONNECTED",
                          !.outgoing_msg = out, !.sync_stat = stat]
      /\ IsHost(hd)
  BY RecordDomains DEF OnSelect, Case, Rest, targetVars, Base, Types, HostTypes, IsHost
<1>2. /\ Pending("SELECT") /\ chip.int \notin {"SELECT", "MSGIN"} /\ c \in Cmds
      /\ bus = NexusOf(c) /\ tg[bus].ph = "select" /\ tg[bus].msgs = <<>> /\ chip.atn
  BY <1>1, HostFieldTypes DEF Pending, Base, ChipInv, InDriver, SelectInv, SelectTold, Types, HostTypes
<1>3. bus # NULL /\ bus[1] = id /\ id \in Ids /\ bus \in Nexus
  BY <1>2, AttrTypes, BusAssumption DEF NexusOf, Ids
<1>4. Still /\ Elsewhere
  BY <1>2, <1>3 DEF NegInv
<1>5. ~Pending("SELECT")'
  BY <1>1, <1>2 DEF Pending
<1>6. /\ hd'.outgoing_msg = out /\ hd'.sync_stat = stat /\ hd'.sync_xfer = hd.sync_xfer
      /\ hd'.incoming_msg = hd.incoming_msg
  BY <1>1 DEF IsHost
<1>7. /\ stat[id] = IF first THEN "SS_WAITING" ELSE hd.sync_stat[id]
      /\ \A i \in Ids : i # id => stat[i] = hd.sync_stat[i]
  BY <1>3, HostFieldTypes DEF Base, Types, HostTypes
<1>8. Sending' = out
  BY <1>1, <1>6, SendingNext
<1>9. In' = In /\ In = <<>>
  BY <1>1, <1>2, <1>3, <1>6, InIs DEF In, Left
<1>10. Elsewhere'
  <2> HIDE DEF stat, id
  <2>1. \A i \in Ids : i # bus[1] => Settled(i)' /\ Unasked(i)'
    BY <1>1, <1>3, <1>4, <1>6, <1>7 DEF Elsewhere, Settled, Unasked, Waits
  <2> QED
    BY <1>1, <1>3, <1>4, <2>1 DEF Elsewhere
<1> HIDE DEF stat
<1>11. CASE first
  <2>1. Len(out) = 2 /\ out[1] = Identify(c) /\ out[2] = Sdtr(off)
    <3>1. ASSUME NEW x, NEW y
          PROVE  LET q == <<x>> \o <<y>> IN Len(q) = 2 /\ q[1] = x /\ q[2] = y
      <4> DEFINE S == {x, y}
                 p == <<x>>
                 q == <<y>>
      <4>1. p \in Seq(S) /\ q \in Seq(S) /\ Len(p) = 1 /\ Len(q) = 1 /\ p[1] = x /\ q[1] = y
        OBVIOUS
      <4> HIDE DEF S, p, q
      <4>2. Len(p \o q) = 2 /\ (p \o q)[1] = x /\ (p \o q)[2] = y
        BY <4>1, ConcatProperties
      <4> QED
        BY <4>2 DEF p, q
    <3>2. out = <<Identify(c)>> \o <<Sdtr(off)>>
      BY <1>11
    <3> QED
      BY <3>1, <3>2
  <2>2. Len(out) = 2 /\ out[1].msg = "IDENTIFY" /\ out[2].msg = "SDTR"
    BY <2>1 DEF Identify, Sdtr
  <2> HIDE DEF out
  <2>3. Asking'
    BY <1>1, <1>2, <1>3, <1>4, <1>6, <1>7, <1>8, <1>9, <1>11, <2>2 DEF Asking, Still, Settled, Waits
  <2> QED
    BY <1>1, <1>3, <1>5, <1>10, <2>3 DEF NegInv, Negotiating
<1>12. CASE ~first
  <2>1. out = <<Identify(c)>>
    BY <1>12, ConcatEmptySeq
  <2>2. NoSdtr(out)
    BY <2>1 DEF NoSdtr, Identify
  <2> HIDE DEF out
  <2>3. Still'
    BY <1>1, <1>3, <1>4, <1>6, <1>7, <1>8, <1>9, <1>12, <2>2 DEF Still, Settled, Unasked, Waits
  <2> QED
    BY <1>1, <1>3, <1>10, <2>3 DEF NegInv
<1> QED
  BY <1>11, <1>12

(* The other cases of the handler.                                         *)
LEMMA NegHandle ==
  ASSUME Base, Base', CalmInv, NegInv, UnheardInv, HandleInterrupt, UNCHANGED setup
  PROVE  NegInv'
<1>1. CASE OnSelect
  BY <1>1, NegOnSelect
<1>2. CASE ~OnSelect
  <2>1. /\ hd'.incoming_msg = hd.incoming_msg /\ UNCHANGED <<bus, tg, agreed>> /\ pc = "handle"
        /\ hd'.sync_xfer = hd.sync_xfer /\ hd'.sync_stat = hd.sync_stat
    BY <1>2, HandleTerms DEF Terms
  <2>2. /\ IsHost(hd) /\ IsChip(chip) /\ chip.int # "MSGIN" /\ pc' # "handle"
    BY <2>1, RecordDomains DEF Base, Types, HostTypes, BusTypes, ChipInv, HandleInterrupt,
       OnTimeout, OnSelect, OnData, OnCommand, OnMessageOut, OnStatus, OnMessageIn, OnSelXferDone,
       OnUnexpDisc, AlreadyDisconnected, OnDisc, OnSdp, OnReselect, OnStrayReselect, Restart,
       ReadByte, TransferNothing, TransferByDma, TransferByPio
  <2>3. Sending = hd.outgoing_msg
    BY <2>1, SendingIs
  <2>4. SameTerms
    BY <2>1 DEF SameTerms, Waits
  <2>5. ASSUME chip'.int = chip.int, chip'.atn = chip.atn,
               bus = NULL => NoSdtr(hd'.outgoing_msg),
               bus # NULL => Sending' = Sending \/ (NoSdtr(Sending) /\ NoSdtr(Sending'))
        PROVE  NegInv'
    <3>1. In' = In
      BY <2>1, <2>2, <2>5 DEF In, Left
    <3>2. bus # NULL => SameTalk
      BY <2>1, <2>5, <3>1 DEF SameTalk
    <3>3. Pending("SELECT")' => Pending("SELECT")
      BY <2>2, <2>5 DEF Pending
    <3>4. \A i \in Ids : Waits(i) => Waits(i)'
      BY <2>1 DEF Waits
    <3> QED
      BY <2>4, <2>5, <3>2, <3>3, <3>4, TalksOn
  <2>6. CASE OnMessageOut
    <3> DEFINE out == IF hd.outgoing_msg = <<>> THEN <<Plain("NOP")>> ELSE hd.outgoing_msg
               ch  == [chip EXCEPT !.polled = TRUE, !.count = Len(out), !.out = out]
    <3>1. /\ sr.csr = "MESS_OUT" /\ chip' = TransInfo(ch) /\ hd'.outgoing_msg = <<>>
      BY <2>2, <2>6 DEF OnMessageOut, Case, IsHost
    <3>2. out = hd.outgoing_msg \/ (hd.outgoing_msg = <<>> /\ NoSdtr(out))
      BY DEF Plain, NoSdtr
    <3> HIDE DEF out
    <3>3. IsChip(ch) /\ ch.int = chip.int /\ ch.out = out /\ ch.atn = chip.atn
      BY <2>2 DEF IsChip
    <3> HIDE DEF ch
    <3>4. /\ chip'.int = chip.int /\ chip'.atn = chip.atn
          /\ chip.int = "none" => chip'.cmd = "info" /\ chip'.xph = Phase /\ chip'.out = out
      BY <3>1, <3>3 DEF TransInfo, Issue, IsChip
    <3>5. bus # NULL => chip.int = "none" /\ Phase = "MESS_OUT"
      BY <2>1, <3>1 DEF UnheardInv, Base, ChipInv, Phases
    <3>6. bus # NULL => Sending' = out
      BY <3>4, <3>5 DEF Sending
    <3>7. NoSdtr(<<>>)
      BY DEF NoSdtr
    <3> QED
      BY <2>3, <2>5, <3>1, <3>2, <3>4, <3>6, <3>7
  <2>7. CASE ~OnMessageOut
    <3>1. /\ hd'.outgoing_msg = hd.outgoing_msg /\ chip'.atn = chip.atn /\ chip'.int = chip.int
          /\ chip'.cmd = "info" => chip'.xph # "MESS_OUT"
      BY <1>2, <2>7, HandleLeaves
    <3>2. Sending' = Sending
      BY <2>3, <3>1 DEF Sending
    <3>3. bus = NULL => NoSdtr(hd'.outgoing_msg)
      BY <3>1 DEF NegInv
    <3> QED
      BY <2>5, <3>1, <3>2, <3>3
  <2> QED
    BY <2>6, <2>7
<1> QED
  BY <1>1, <1>2

(* The end of a poll that was not for a message.                           *)
LEMMA NegPolled ==
  ASSUME Base, Base', CalmInv, NegInv, PioDone \/ SentDone \/ StatusRead, UNCHANGED setup
  PROVE  NegInv'
<1>1. IsHost(hd) /\ IsChip(chip)
  BY RecordDomains DEF Base, Types, HostTypes, BusTypes
<1>2. /\ pc \in {"pio", "sent", "status"} /\ chip.int # "none" /\ pc' = "idle"
      /\ UNCHANGED <<bus, tg, agreed>>
      /\ hd' = hd \/ \E v : hd' = [hd EXCEPT !.state = v]
      /\ chip' \in {chip, SelAtnXfer(Cleared, \h50)}
  BY DEF PioDone, SentDone, StatusRead, Rest, targetVars
<1>3. /\ hd'.outgoing_msg = hd.outgoing_msg /\ hd'.incoming_msg = hd.incoming_msg
      /\ hd'.sync_xfer = hd.sync_xfer /\ hd'.sync_stat = hd.sync_stat
  BY <1>1, <1>2 DEF IsHost
<1>4. chip'.int \in {chip.int, "none"} /\ chip'.atn = chip.atn
  BY <1>1, <1>2 DEF SelAtnXfer, Issue, Cleared, IsChip
<1>5. chip.int # "MSGIN"
  BY <1>2 DEF Base, ChipInv
<1>6. Sending = hd.outgoing_msg /\ Sending' = hd.outgoing_msg
  BY <1>2, <1>3, SendingIs, SendingNext
<1>7. In' = In
  BY <1>2, <1>3, <1>4, <1>5 DEF In, Left
<1>8. SameTerms /\ SameTalk /\ \A i \in Ids : Waits(i) => Waits(i)'
  BY <1>2, <1>3, <1>4, <1>6, <1>7 DEF SameTerms, SameTalk, Waits
<1>9. Pending("SELECT")' => Pending("SELECT")
  BY <1>2, <1>4 DEF Pending
<1>10. bus = NULL => NoSdtr(hd'.outgoing_msg)
  BY <1>3 DEF NegInv
<1> QED
  BY <1>8, <1>9, <1>10, TalksOn

(* A byte of a message has been read: what of the chip and of the talk     *)
(* that leaves.                                                            *)
LEMMA NegHears ==
  ASSUME Base, Base', CalmInv, PollEnds, pc = "message"
  PROVE  /\ bus # NULL /\ bus \in Nexus /\ bus[1] \in Ids /\ bus[1] = Attr[hd.connected].id
         /\ UNCHANGED <<bus, tg, agreed>> /\ Sending = hd.outgoing_msg
         /\ Sending' = hd'.outgoing_msg /\ chip'.int = "none" /\ (chip.atn => chip'.atn)
         /\ In' = hd'.incoming_msg \o tg[bus].msgs /\ tg[bus].msgs \in Seq(Nat)
         /\ ~Pending("SELECT")' /\ IsHost(hd) /\ chip.int # "none"
         /\ chip' = NegateAck(AssertAtn(Cleared)) => chip'.atn
<1>1. IsHost(hd) /\ IsChip(chip)
  BY RecordDomains DEF Base, Types, HostTypes, BusTypes
<1>2. /\ UNCHANGED <<bus, tg>> /\ chip.int # "none" /\ pc' = "idle"
  BY <1>1, PollLeaves
<1>3. agreed' = agreed
  BY DEF PollEnds, PioDone, SentDone, StatusRead, OnComplete, OnSave, OnDisconnect, OnRestore,
     OnReject, OnUnknown, OnExtendedByte, OnSdtr, OnWdtr, OnOtherExtended, MessageRead, Rest,
     targetVars
<1>4. bus # NULL /\ bus \in Nexus /\ chip.int = "MSGIN" /\ tg[bus].msgs \in Seq(Nat)
  BY <1>2, Hears
<1>5. InConnection
  BY <1>4 DEF CalmInv, BusInv, Pending
<1>6. bus[1] \in Ids /\ bus[1] = Attr[hd.connected].id
  BY <1>4, <1>5, NexusIds DEF InConnection, NexusOf
<1>7. chip' \in {NegateAck(Cleared), NegateAck(AssertAtn(Cleared)), SelAtnXfer(Cleared, \h45)}
  <2>1. ~PioDone /\ ~SentDone /\ ~StatusRead
    BY DEF PioDone, SentDone, StatusRead
  <2> QED
    BY <2>1 DEF PollEnds, OnComplete, OnSave, OnDisconnect, OnRestore, OnReject, OnUnknown,
       OnExtendedByte, OnSdtr, OnWdtr, OnOtherExtended, MessageRead, Accept, Answer
<1>8. IsChip(Cleared) /\ Cleared.int = "none" /\ Cleared.atn = chip.atn
  BY <1>1 DEF Cleared, IsChip
<1>9. /\ NegateAck(Cleared).int = "none" /\ NegateAck(Cleared).atn = chip.atn
      /\ SelAtnXfer(Cleared, \h45).int = "none" /\ SelAtnXfer(Cleared, \h45).atn = chip.atn
      /\ NegateAck(AssertAtn(Cleared)).int = "none" /\ NegateAck(AssertAtn(Cleared)).atn
  BY <1>8 DEF NegateAck, AssertAtn, SelAtnXfer, Issue, IsChip
<1>10. chip'.int = "none" /\ (chip.atn => chip'.atn)
       /\ (chip' = NegateAck(AssertAtn(Cleared)) => chip'.atn)
  BY <1>7, <1>9
<1>11. In' = hd'.incoming_msg \o tg[bus].msgs
  <2>1. Left' = tg[bus].msgs
    BY <1>2, <1>4, <1>10, LeftNext
  <2> QED
    BY <2>1 DEF In
<1>12. Sending = hd.outgoing_msg /\ Sending' = hd'.outgoing_msg
  BY <1>2, SendingIs, SendingNext
<1> QED
  BY <1>1, <1>2, <1>3, <1>4, <1>6, <1>10, <1>11, <1>12 DEF Pending

(* The messages that have nothing to do with a negotiation.                *)
LEMMA NegPlain ==
  ASSUME Base, Base', CalmInv, NegInv, pc = "message", UNCHANGED setup,
         \/ OnComplete \/ OnSave \/ OnDisconnect \/ OnRestore \/ OnUnknown \/ OnWdtr
         \/ OnOtherExtended
  PROVE  NegInv'
<1>0. PollEnds
  BY DEF PollEnds
<1>1. /\ bus # NULL /\ bus \in Nexus /\ bus[1] \in Ids /\ bus[1] = Attr[hd.connected].id
      /\ UNCHANGED <<bus, tg, agreed>> /\ Sending = hd.outgoing_msg
      /\ Sending' = hd'.outgoing_msg /\ chip'.int = "none" /\ (chip.atn => chip'.atn)
      /\ In' = hd'.incoming_msg \o tg[bus].msgs /\ tg[bus].msgs \in Seq(Nat)
      /\ ~Pending("SELECT")' /\ IsHost(hd) /\ chip.int # "none"
  BY <1>0, NegHears
<1>2. /\ Incoming \in Seq(Nat) /\ Incoming # <<>> /\ In = Incoming \o tg[bus].msgs
      /\ ~Extended =>
           /\ hd.incoming_msg = <<>>
           /\ tg[bus].msgs = <<>> \/ (tg[bus].msgs = DISCONNECT /\ Incoming = SAVE_POINTERS)
      /\ Extended => (WholeMessage <=> tg[bus].msgs = <<>>)
  BY <1>1, Hears
<1>3. tg[bus].msgs = <<>> => In = Incoming
  BY <1>2, ConcatEmptySeq
<1>4. \/ hd' = [hd EXCEPT !.state = hd'.state]
      \/ \E m : /\ hd' = [hd EXCEPT !.outgoing_msg = <<m>>, !.state = "S_CONNECTED",
                                    !.incoming_msg = <<>>]
                /\ m.msg # "SDTR"
  <2>1. CASE OnComplete \/ OnSave \/ OnDisconnect \/ OnRestore
    <3>1. \E v : hd' = [hd EXCEPT !.state = v]
      BY <2>1 DEF OnComplete, OnSave, OnDisconnect, OnRestore, MessageRead, Accept
    <3> QED
      BY <1>1, <3>1 DEF IsHost
  <2>2. CASE OnUnknown \/ OnWdtr \/ OnOtherExtended
    <3>1. Answer(Plain("MESSAGE_REJECT")) \/ Answer(Plain("WDTR"))
      BY <2>2 DEF OnUnknown, OnWdtr, OnOtherExtended, MessageRead
    <3>2. PICK m \in {Plain("MESSAGE_REJECT"), Plain("WDTR")} : Answer(m)
      BY <3>1
    <3>3. m.msg # "SDTR"
      BY <3>2 DEF Plain
    <3> QED
      BY <3>2, <3>3 DEF Answer
  <2> QED
    BY <2>1, <2>2
<1>5. /\ hd'.sync_xfer = hd.sync_xfer /\ hd'.sync_stat = hd.sync_stat
      /\ hd'.outgoing_msg = hd.outgoing_msg
         \/ \E m : hd'.outgoing_msg = <<m>> /\ m.msg # "SDTR"
      /\ hd'.incoming_msg \in {hd.incoming_msg, <<>>}
  BY <1>1, <1>4 DEF IsHost
<1>6. In # <<>>
  <2>1. Len(Incoming \o tg[bus].msgs) = Len(Incoming) + Len(tg[bus].msgs)
    BY <1>1, <1>2, ConcatProperties
  <2>2. Len(Incoming) # 0 /\ Len(Incoming) \in Nat /\ Len(tg[bus].msgs) \in Nat
    BY <1>1, <1>2, EmptySeq
  <2>3. Len(<<>>) = 0
    OBVIOUS
  <2> QED
    BY <1>2, <2>1, <2>2, <2>3
<1>7. /\ ~Negotiates(In)
      /\ hd'.incoming_msg = <<>> /\ tg[bus].msgs \in {<<>>, DISCONNECT}
  <2>1. CASE Extended
    <3>1. OnWdtr \/ OnOtherExtended
      BY <2>1 DEF OnComplete, OnSave, OnDisconnect, OnRestore, OnUnknown, MessageRead, Is
    <3>2. tg[bus].msgs = <<>> /\ Incoming[3] # 1
      BY <1>2, <3>1 DEF OnWdtr, OnOtherExtended, MessageRead
    <3>3. In[3] # 1 /\ In # MESSAGE_REJECT
      BY <1>3, <2>1, <3>2 DEF Extended, MESSAGE_REJECT
    <3>4. hd'.incoming_msg = <<>>
      BY <1>1, <3>1 DEF OnWdtr, OnOtherExtended, MessageRead, Answer, IsHost
    <3> QED
      BY <3>2, <3>3, <3>4 DEF Negotiates
  <2>2. CASE ~Extended
    <3>1. hd'.incoming_msg = <<>>
      BY <1>2, <1>5, <2>2
    <3>2. CASE tg[bus].msgs = <<>>
      <4>1. In[1] # 1
        BY <1>3, <2>2, <3>2 DEF Extended
      <4>2. In # MESSAGE_REJECT
        <5>1. /\ MESSAGE_REJECT \notin {COMMAND_COMPLETE, SAVE_POINTERS, DISCONNECT, RESTORE_POINTERS}
          BY DEF MESSAGE_REJECT, COMMAND_COMPLETE, SAVE_POINTERS, DISCONNECT, RESTORE_POINTERS
        <5>2. Incoming # MESSAGE_REJECT
          BY <2>2, <5>1 DEF OnComplete, OnSave, OnDisconnect, OnRestore, OnUnknown, OnWdtr,
             OnOtherExtended, MessageRead, Is
        <5> QED
          BY <1>3, <3>2, <5>2
      <4> QED
        BY <3>1, <3>2, <4>1, <4>2 DEF Negotiates
    <3>3. CASE tg[bus].msgs = DISCONNECT /\ Incoming = SAVE_POINTERS
      BY <1>2, <3>1, <3>3, NoNegotiation
    <3> QED
      BY <1>2, <2>2, <3>2, <3>3
  <2> QED
    BY <2>1, <2>2
<1>8. Still
  BY <1>1, <1>6, <1>7, StillBy
<1>9. NoSdtr(Sending')
  <2>1. hd'.outgoing_msg = hd.outgoing_msg => NoSdtr(Sending')
    BY <1>1, <1>8 DEF Still
  <2>2. ASSUME NEW m, hd'.outgoing_msg = <<m>>, m.msg # "SDTR"
        PROVE  NoSdtr(Sending')
    BY <1>1, <2>2 DEF NoSdtr
  <2> QED
    BY <1>5, <2>1, <2>2
<1>10. ~Negotiates(In')
  <2>1. In' = tg[bus].msgs
    BY <1>1, <1>7, ConcatEmptySeq
  <2> QED
    BY <1>7, <2>1, NoNegotiation
<1>11. SameTerms
  BY <1>1, <1>5 DEF SameTerms, Waits
<1> QED
  BY <1>1, <1>8, <1>9, <1>10, <1>11, StillOn

(* A byte of an extended message that is not its last.                     *)
LEMMA NegExtendedByte ==
  ASSUME Base, Base', CalmInv, NegInv, pc = "message", UNCHANGED setup, OnExtendedByte
  PROVE  NegInv'
<1>0. PollEnds
  BY DEF PollEnds
<1>1. /\ bus # NULL /\ bus \in Nexus /\ UNCHANGED <<bus, tg, agreed>> /\ Sending = hd.outgoing_msg
      /\ Sending' = hd'.outgoing_msg /\ (chip.atn => chip'.atn)
      /\ In' = hd'.incoming_msg \o tg[bus].msgs
      /\ ~Pending("SELECT")' /\ IsHost(hd) /\ chip.int # "none"
  BY <1>0, NegHears
<1>2. In = Incoming \o tg[bus].msgs
  BY <1>1, Hears
<1>3. hd' = [hd EXCEPT !.incoming_msg = Incoming, !.state = "S_CONNECTED"]
  BY DEF OnExtendedByte, MessageRead
<1>4. /\ hd'.sync_xfer = hd.sync_xfer /\ hd'.sync_stat = hd.sync_stat
      /\ hd'.outgoing_msg = hd.outgoing_msg /\ hd'.incoming_msg = Incoming
  BY <1>1, <1>3 DEF IsHost
<1>5. SameTerms /\ SameTalk /\ \A i \in Ids : Waits(i) => Waits(i)'
  BY <1>1, <1>2, <1>4 DEF SameTerms, SameTalk, Waits
<1> QED
  BY <1>1, <1>5, TalksOn

(* The driver's SDTR is rejected: transfers are asynchronous.              *)
LEMMA NegReject ==
  ASSUME Base, Base', CalmInv, NegInv, pc = "message", UNCHANGED setup, OnReject
  PROVE  NegInv'
<1> DEFINE id == Attr[hd.connected].id
           waiting == hd.sync_stat[id] = "SS_WAITING"
           stat == [hd.sync_stat EXCEPT ![id] = IF waiting THEN "SS_SET" ELSE @]
           xfer == [hd.sync_xfer EXCEPT ![id] = IF waiting THEN "async" ELSE @]
<1>0. PollEnds
  BY DEF PollEnds
<1>1. /\ bus # NULL /\ bus \in Nexus /\ bus[1] \in Ids /\ bus[1] = id
      /\ UNCHANGED <<bus, tg, agreed>> /\ Sending = hd.outgoing_msg
      /\ Sending' = hd'.outgoing_msg /\ In' = hd'.incoming_msg \o tg[bus].msgs
      /\ IsHost(hd) /\ chip.int # "none" /\ tg[bus].msgs \in Seq(Nat)
  BY <1>0, NegHears
<1>2. /\ ~Extended /\ Incoming = MESSAGE_REJECT /\ Incoming \in Seq(Nat)
      /\ hd' = [hd EXCEPT !.state = "S_CONNECTED", !.sync_stat = stat, !.sync_xfer = xfer]
  BY <1>1, Hears DEF OnReject, MessageRead, Is, IsHost
<1>3. /\ In = MESSAGE_REJECT /\ tg[bus].msgs = <<>> /\ hd.incoming_msg = <<>>
  <2>1. tg[bus].msgs = <<>> /\ hd.incoming_msg = <<>> /\ In = Incoming \o tg[bus].msgs
    <3>1. MESSAGE_REJECT # SAVE_POINTERS
      BY DEF MESSAGE_REJECT, SAVE_POINTERS
    <3> QED
      BY <1>1, <1>2, <3>1, Hears
  <2> QED
    BY <1>2, <2>1, ConcatEmptySeq
<1>4. ~Willing /\ Waits(id) /\ NoSdtr(Sending) /\ tg[bus].pend = "none" /\ agreed[id] = "async"
  <2>1. Negotiates(In) /\ In # <<>> /\ ~IsSdtr(In)
    BY <1>3, NoNegotiation
  <2> QED
    BY <1>1, <1>3, <2>1 DEF NegInv, Still, Negotiating, Asking, Offered, Owing, Answered
<1>5. /\ hd'.outgoing_msg = hd.outgoing_msg /\ hd'.incoming_msg = <<>>
      /\ hd'.sync_xfer = xfer /\ hd'.sync_stat = stat
  BY <1>1, <1>2, <1>3 DEF IsHost
<1>6. /\ stat[id] = "SS_SET" /\ xfer[id] = "async"
      /\ \A i \in Ids : i # id => stat[i] = hd.sync_stat[i] /\ xfer[i] = hd.sync_xfer[i]
  BY <1>1, <1>4, HostFieldTypes DEF Base, Types, HostTypes, Waits
<1> HIDE DEF stat, xfer
<1>7. In' = <<>>
  BY <1>1, <1>3, <1>5
<1>8. Still'
  BY <1>1, <1>4, <1>5, <1>6, <1>7, NoNegotiation DEF Still, Settled, Unasked, Waits
<1>9. Elsewhere'
  <2> HIDE DEF id
  <2>1. \A i \in Ids : i # bus[1] => Settled(i)' /\ Unasked(i)'
    BY <1>1, <1>5, <1>6 DEF NegInv, Elsewhere, Settled, Unasked, Waits
  <2> QED
    BY <1>1, <2>1 DEF NegInv, Elsewhere
<1> QED
  BY <1>1, <1>8, <1>9 DEF NegInv

(* An SDTR of the target's: its answer to the driver's, or its own, which  *)
(* the driver answers.                                                     *)
LEMMA NegSdtr ==
  ASSUME Base, Base', CalmInv, NegInv, pc = "message", UNCHANGED setup, OnSdtr
  PROVE  NegInv'
<1> DEFINE id == Attr[hd.connected].id
           waiting == hd.sync_stat[id] = "SS_WAITING"
           stat == [hd.sync_stat EXCEPT ![id] = "SS_SET"]
           out == IF waiting THEN hd.outgoing_msg ELSE <<Sdtr(0)>>
           xfer(m) == [hd.sync_xfer EXCEPT ![id] = m]
<1>0. PollEnds
  BY DEF PollEnds
<1>1. /\ bus # NULL /\ bus \in Nexus /\ bus[1] \in Ids /\ bus[1] = id
      /\ UNCHANGED <<bus, tg, agreed>> /\ Sending = hd.outgoing_msg
      /\ Sending' = hd'.outgoing_msg /\ In' = hd'.incoming_msg \o tg[bus].msgs
      /\ ~Pending("SELECT")' /\ IsHost(hd) /\ chip.int # "none" /\ tg[bus].msgs \in Seq(Nat)
      /\ chip' = NegateAck(AssertAtn(Cleared)) => chip'.atn
  BY <1>0, NegHears
<1>2. Extended /\ WholeMessage /\ Incoming[3] = 1 /\ Incoming \in Seq(Nat)
  BY <1>1, Hears DEF OnSdtr, MessageRead
<1>3. In = Incoming /\ tg[bus].msgs = <<>>
  <2>1. tg[bus].msgs = <<>> /\ In = Incoming \o tg[bus].msgs
    BY <1>1, <1>2, Hears
  <2> QED
    BY <1>2, <2>1, ConcatEmptySeq
<1>4. Negotiates(In) /\ In # <<>> /\ In # MESSAGE_REJECT
  BY <1>2, <1>3 DEF Negotiates, WholeMessage, Extended, MESSAGE_REJECT
<1>5. PICK m \in {"sync", "async"} :
        /\ hd' = [hd EXCEPT !.outgoing_msg = out, !.sync_xfer = xfer(m), !.sync_stat = stat,
                            !.incoming_msg = <<>>, !.state = "S_CONNECTED"]
        /\ IF waiting THEN Len(Incoming) = 5 => m = Mode(Incoming[5])
           ELSE m = "async" /\ chip' = NegateAck(AssertAtn(Cleared))
  <2>1. CASE waiting
    <3> DEFINE modes == IF Len(Incoming) < 5 THEN {"sync", "async"}
                        ELSE IF Incoming[5] # 0 THEN {"sync"} ELSE {"async"}
    <3>1. PICK m \in modes :
            hd' = [hd EXCEPT !.sync_xfer[id] = m, !.sync_stat[id] = "SS_SET",
                             !.incoming_msg = <<>>, !.state = "S_CONNECTED"]
      BY <2>1 DEF OnSdtr, MessageRead
    <3>2. m \in {"sync", "async"}
      BY <3>1
    <3>3. Len(Incoming) = 5 => m = Mode(Incoming[5])
      <4> SUFFICES ASSUME Len(Incoming) = 5 PROVE m = Mode(Incoming[5])
        OBVIOUS
      <4>1. Incoming[5] \in Nat
        <5>1. ASSUME NEW q \in Seq(Nat), Len(q) = 5
              PROVE  q[5] \in Nat
          <6>1. 5 \in 1..Len(q)
            BY <5>1
          <6> QED
            BY <6>1, ElementOfSeq
        <5> QED
          BY <1>2, <5>1
      <4>2. modes = IF Incoming[5] # 0 THEN {"sync"} ELSE {"async"}
        OBVIOUS
      <4>3. m \in IF Incoming[5] # 0 THEN {"sync"} ELSE {"async"}
        BY <3>1, <4>2
      <4> QED
        BY <4>1, <4>3 DEF Mode
    <3>4. hd' = [hd EXCEPT !.outgoing_msg = out, !.sync_xfer = xfer(m), !.sync_stat = stat,
                           !.incoming_msg = <<>>, !.state = "S_CONNECTED"]
      BY <1>1, <2>1, <3>1 DEF IsHost
    <3> QED
      BY <2>1, <3>2, <3>3, <3>4
  <2>2. CASE ~waiting
    <3>1. /\ hd' = [[hd EXCEPT !.outgoing_msg = <<Sdtr(0)>>]
                      EXCEPT !.sync_xfer[id] = "async", !.sync_stat[id] = "SS_SET",
                             !.incoming_msg = <<>>, !.state = "S_CONNECTED"]
          /\ chip' = NegateAck(AssertAtn(Cleared))
      BY <2>2 DEF OnSdtr, MessageRead
    <3>2. hd' = [hd EXCEPT !.outgoing_msg = out, !.sync_xfer = xfer("async"), !.sync_stat = stat,
                           !.incoming_msg = <<>>, !.state = "S_CONNECTED"]
      BY <1>1, <2>2, <3>1 DEF IsHost
    <3> QED
      BY <2>2, <3>1, <3>2
  <2> QED
    BY <2>1, <2>2
<1>6. /\ hd'.outgoing_msg = out /\ hd'.incoming_msg = <<>>
      /\ hd'.sync_xfer = xfer(m) /\ hd'.sync_stat = stat
  <2> HIDE DEF out, xfer, stat
  <2> QED
    BY <1>1, <1>5 DEF IsHost
<1>7. /\ stat[id] = "SS_SET" /\ xfer(m)[id] = m
      /\ \A i \in Ids : i # id => stat[i] = hd.sync_stat[i] /\ xfer(m)[i] = hd.sync_xfer[i]
  BY <1>1, <1>5, HostFieldTypes DEF Base, Types, HostTypes
<1> HIDE DEF stat, xfer
<1>8. In' = <<>>
  BY <1>1, <1>3, <1>6
<1>9. Elsewhere'
  <2> HIDE DEF id
  <2>1. \A i \in Ids : i # bus[1] => Settled(i)' /\ Unasked(i)'
    BY <1>1, <1>6, <1>7 DEF NegInv, Elsewhere, Settled, Unasked, Waits
  <2> QED
    BY <1>1, <2>1 DEF NegInv, Elsewhere
<1>10. Offered \/ \E k \in {"sync", "async"} : Answered(k) /\ IsSdtr(In)
  BY <1>1, <1>4 DEF NegInv, Still, Negotiating, Asking, Owing, Answered
<1>11. CASE waiting
  <2>1. PICK k \in {"sync", "async"} : Answered(k) /\ IsSdtr(In)
    BY <1>1, <1>10, <1>11 DEF Offered, Waits
  <2>2. k = Mode(In[5]) /\ NoSdtr(Sending) /\ tg[bus].pend = "none" /\ agreed[id] = k
    BY <1>1, <1>3, <1>4, <2>1 DEF Answered
  <2>3. m = k
    BY <1>3, <1>5, <1>11, <2>1, <2>2 DEF IsSdtr
  <2>4. Still'
    BY <1>1, <1>6, <1>7, <1>8, <1>11, <2>2, <2>3, NoNegotiation DEF Still, Settled, Unasked, Waits
  <2> QED
    BY <1>1, <1>9, <2>4 DEF NegInv
<1>12. CASE ~waiting
  <2>1. \/ tg[bus].pend = "offered" /\ "sdtr" \in setup.quirks
        \/ tg[bus].pend = "none" /\ Willing /\ tg[bus].ph = "command"
    BY <1>1, <1>3, <1>4, <1>10, <1>12 DEF Offered, Answered, Waits
  <2>2. Willing' <=> Willing
    BY DEF Willing
  <2>3. Owing'
    BY <1>1, <1>5, <1>6, <1>7, <1>8, <1>12, <2>1, <2>2 DEF Owing, Waits
  <2> QED
    BY <1>1, <1>9, <2>3 DEF NegInv, Negotiating
<1> QED
  BY <1>11, <1>12

(* The ends of polls.                                                      *)
LEMMA NegPoll ==
  ASSUME Base, Base', CalmInv, NegInv, PollEnds, UNCHANGED setup
  PROVE  NegInv'
<1>1. CASE PioDone \/ SentDone \/ StatusRead
  BY <1>1, NegPolled
<1>2. CASE ~(PioDone \/ SentDone \/ StatusRead)
  <2>1. pc = "message"
    BY <1>2 DEF PollEnds, OnComplete, OnSave, OnDisconnect, OnRestore, OnReject, OnUnknown,
       OnExtendedByte, OnSdtr, OnWdtr, OnOtherExtended, MessageRead
  <2> QED
    BY <1>2, <2>1, NegPlain, NegExtendedByte, NegReject, NegSdtr DEF PollEnds
<1> QED
  BY <1>1, <1>2

(* A command is started: the chip is set up for its target, and no more is *)
(* begun than a first negotiation.                                         *)
LEMMA StartTerms ==
  ASSUME Base, Start, ~CannotStart
  PROVE  /\ \A i \in Ids : Waits(i)' <=> Waits(i)
         /\ \E c \in Cmds : /\ chip'.sync = hd.sync_xfer[Attr[c].id]
                            /\ engine'.cmd \in {NULL, c} /\ hd'.connected \in {NULL, c}
         /\ /\ hd'.outgoing_msg = hd.outgoing_msg /\ hd'.incoming_msg = hd.incoming_msg
            /\ hd'.sync_xfer = hd.sync_xfer
         /\ chip'.int = chip.int /\ chip'.atn = chip.atn
<1> DEFINE c    == hd.input_Q[Runnable]
           rest == RemoveAt(hd.input_Q, Runnable)
           er   == AllowDisconnect(c, rest)
           y    == hd.sync_xfer[Attr[c].id]
           h    == [hd EXCEPT !.input_Q = rest, !.busy = @ \cup {NexusOf(c)}]
           ch   == [chip EXCEPT !.id = Attr[c].id, !.lun = Attr[c].lun, !.dpd = Attr[c].in,
                                !.er = er, !.sync = y]
           ready == [h EXCEPT !.connected = c, !.state = "S_RUNNING_LEVEL2"]
           k    == [NoCount(ch) EXCEPT !.cdb = c]
           m    == [ch EXCEPT !.count = scp[c].left, !.cdb = c, !.polled = FALSE]
<1>1. /\ IsHost(hd) /\ IsChip(chip) /\ hd.connected = NULL /\ engine.cmd = NULL
      /\ hd.sync_stat \in [Ids -> {"SS_UNSET", "SS_FIRST", "SS_WAITING", "SS_SET"}]
  BY RecordDomains, HostFieldTypes DEF Base, Types, HostTypes, BusTypes, CannotStart, DmaInv
<1>2. StartSelect(c, h, ch) \/ StartLevel2(c, h, ch)
  BY DEF Start
<1>3. c \in Cmds
  BY Found, HostFieldTypes DEF Runnable, CannotStart, Base, Types, HostTypes
<1> HIDE DEF c, rest, er, y
<1> DEFINE On(d) == IsChip(d) /\ d.sync = y
<1>4. On(NoCount(ch)) /\ On(k) /\ On(m)
  BY <1>1 DEF IsChip, NoCount
<1>5. \A d : On(d) => SelAtn(d).sync = y /\ SelAtnXfer(d, 0).sync = y
  BY DEF SelAtn, SelAtnXfer, Issue, IsChip
<1>6. IsHost(h) /\ h.sync_stat = hd.sync_stat /\ h.connected = NULL
  BY <1>1 DEF IsHost
<1>7. IsHost(ready) /\ ready.sync_stat = hd.sync_stat /\ ready.connected = c
  BY <1>1 DEF IsHost
<1>8. /\ hd'.outgoing_msg = hd.outgoing_msg /\ hd'.incoming_msg = hd.incoming_msg
      /\ hd'.sync_xfer = hd.sync_xfer /\ chip'.int = chip.int /\ chip'.atn = chip.atn
  BY <1>1, StartCalls, StartEffect DEF Base, SameBut, IsHost
<1> HIDE DEF ch, k, m, h
<1>9. CASE StartSelect(c, h, ch)
  <2> DEFINE id == Attr[c].id
             s == [h.sync_stat EXCEPT ![id] = IF @ = "SS_UNSET" THEN "SS_FIRST" ELSE @]
  <2>1. /\ hd' = [h EXCEPT !.selecting = c, !.state = "S_SELECTING", !.sync_stat = s]
        /\ chip' = SelAtn(NoCount(ch)) /\ engine' = engine
    BY <1>6, <1>9 DEF StartSelect, IsHost
  <2>2. \A i \in Ids : s[i] = "SS_WAITING" <=> hd.sync_stat[i] = "SS_WAITING"
    BY <1>1, <1>6
  <2> HIDE DEF s
  <2>3. hd'.sync_stat = s /\ hd'.connected = NULL
    BY <1>6, <2>1 DEF IsHost
  <2>4. chip'.sync = y
    BY <1>4, <1>5, <2>1
  <2> QED
    BY <1>1, <1>3, <1>8, <2>1, <2>2, <2>3, <2>4 DEF Waits, y
<1>10. CASE StartLevel2(c, h, ch)
  <2> HIDE DEF ready
  <2>1. \/ hd' = ready /\ chip' = SelAtnXfer(k, 0) /\ engine' = engine
        \/ \E via : /\ hd' = DmaSetup(ready, via) /\ engine' = EngineFor(c, scp[c].ptr, via)
                    /\ chip' = SelAtnXfer(IF via = "fail" THEN k ELSE m, 0)
    BY <1>10 DEF StartLevel2, ready, k, m
  <2>2. PICK d \in {k, m} : chip' = SelAtnXfer(d, 0)
    BY <2>1
  <2>3. chip'.sync = y
    BY <1>4, <1>5, <2>2
  <2>4. \A via : /\ DmaSetup(ready, via).sync_stat = hd.sync_stat
                 /\ DmaSetup(ready, via).connected = c
                 /\ EngineFor(c, scp[c].ptr, via).cmd \in {NULL, c}
    BY <1>7 DEF DmaSetup, IsHost, EngineFor, EngineOff
  <2>5. hd'.sync_stat = hd.sync_stat /\ hd'.connected = c /\ engine'.cmd \in {NULL, c}
    BY <1>1, <1>7, <2>1, <2>4
  <2> QED
    BY <1>3, <1>8, <2>3, <2>5 DEF Waits, y
<1> QED
  BY <1>2, <1>9, <1>10

(* What is written to /proc makes a target negotiate again.                *)
LEMMA WriteInfoTerms ==
  ASSUME Polite, WriteInfo, IsHost(hd)
  PROVE  /\ hd'.incoming_msg = hd.incoming_msg /\ hd'.sync_xfer = hd.sync_xfer
         /\ \A i \in Ids : Waits(i)' => Waits(i)
         /\ \A i \in Ids : Waits(i) => Waits(i)' \/ Willing
<1> DEFINE Good(h) ==
             /\ h.incoming_msg = hd.incoming_msg /\ h.sync_xfer = hd.sync_xfer
             /\ \A i \in Ids : h.sync_stat[i] = "SS_WAITING" => Waits(i)
             /\ \A i \in Ids : Waits(i) => h.sync_stat[i] = "SS_WAITING" \/ Willing
<1>1. ASSUME NEW v
      PROVE  Good([hd EXCEPT !.disconnect = v]) /\ Good([hd EXCEPT !.no_dma = v])
  BY DEF IsHost, Waits
<1>2. ASSUME NEW h, NEW j, IsHost(h), Willing, h.incoming_msg = hd.incoming_msg,
             h.sync_xfer = hd.sync_xfer, h.sync_stat = hd.sync_stat
      PROVE  Good(Resync(h, {j}))
  <2> DEFINE f == [i \in Ids |-> IF i \in {j} THEN "SS_UNSET" ELSE h.sync_stat[i]]
  <2>1. Resync(h, {j}) = [h EXCEPT !.sync_stat = f]
    BY <1>2 DEF Resync, IsHost
  <2>2. \A i \in Ids : f[i] = "SS_WAITING" => Waits(i)
    BY <1>2 DEF Waits
  <2> HIDE DEF f
  <2> QED
    BY <1>2, <2>1, <2>2 DEF IsHost
<1>3. Good(hd')
  <2>1. CASE \E v : hd' = [hd EXCEPT !.disconnect = v] \/ hd' = [hd EXCEPT !.no_dma = v]
    <3> HIDE DEF Good
    <3> QED
      BY <1>1, <2>1
  <2>2. CASE "resync" \in setup.settings /\ \E i \in Ids : hd' = Resync(hd, {i})
    <3> HIDE DEF Good
    <3> QED
      BY <1>2, <2>2 DEF Polite
  <2>3. CASE /\ "nosync" \in setup.settings
             /\ \E i \in Ids : hd' = Resync([hd EXCEPT !.no_sync = (@ \ {i}) \cup ({i} \ @)], {i})
    <3>1. PICK i \in Ids : hd' = Resync([hd EXCEPT !.no_sync = (@ \ {i}) \cup ({i} \ @)], {i})
      BY <2>3
    <3> DEFINE n == (hd.no_sync \ {i}) \cup ({i} \ hd.no_sync)
               h == [hd EXCEPT !.no_sync = n]
    <3>2. hd' = Resync(h, {i})
      BY <3>1 DEF IsHost
    <3> HIDE DEF n
    <3>3. /\ IsHost(h) /\ h.incoming_msg = hd.incoming_msg /\ h.sync_xfer = hd.sync_xfer
          /\ h.sync_stat = hd.sync_stat
      BY DEF IsHost
    <3> HIDE DEF h, Good
    <3> QED
      BY <1>2, <2>3, <3>2, <3>3 DEF Polite
  <2> QED
    BY <2>1, <2>2, <2>3 DEF WriteInfo
<1> QED
  BY <1>3 DEF Waits

-------------------------------------------------------------------------------
(* Nothing has been agreed at the start.                                   *)
LEMMA NegInit ==
  ASSUME Init
  PROVE  NegInv /\ SyncInv /\ UnheardInv
<1>1. /\ bus = NULL /\ pc = "idle" /\ tg = [n \in Nexus |-> Idle] /\ chip.int = "none"
      /\ hd.outgoing_msg = <<>> /\ engine.cmd = NULL /\ agreed = [i \in Ids |-> "async"]
      /\ hd.sync_xfer = [i \in Ids |-> "async"]
      /\ hd.sync_stat = [i \in Ids |-> IF setup.settled THEN "SS_SET" ELSE "SS_UNSET"]
  BY DEF Init, BusInit, DriverInit, HostInit, ChipReset, EngineOff
<1>2. \A n \in Nexus : tg[n].pend = "none"
  BY <1>1 DEF Idle
<1>3. \A i \in Ids : Settled(i) /\ Unasked(i)
  BY <1>1 DEF Settled, Unasked, Waits
<1> QED
  BY <1>1, <1>2, <1>3 DEF NegInv, Elsewhere, NoSdtr, SyncInv, UnheardInv

(* The driver's other steps leave a negotiation as it is.                  *)
LEMMA NegLeft ==
  ASSUME Base, Base', NegInv, UNCHANGED <<setup, bus, tg, agreed>>,
         pc \in {"idle", "execute"}, pc' # "sent",
         hd'.incoming_msg = hd.incoming_msg, hd'.outgoing_msg = hd.outgoing_msg,
         hd'.sync_xfer = hd.sync_xfer, \A i \in Ids : Waits(i)' => Waits(i),
         \A i \in Ids : Waits(i) => Waits(i)' \/ Willing,
         chip'.int \in {chip.int, "none"}, chip'.atn = chip.atn,
         Pending("SELECT")' => Pending("SELECT")
  PROVE  NegInv'
<1>1. chip.int # "MSGIN"
  BY DEF Base, ChipInv
<1>2. In' = In
  BY <1>1 DEF In, Left
<1>3. Sending = hd.outgoing_msg /\ Sending' = hd.outgoing_msg
  BY SendingIs, SendingNext
<1>4. SameTerms /\ SameTalk
  BY <1>2, <1>3 DEF SameTerms, SameTalk
<1>5. bus = NULL => NoSdtr(hd'.outgoing_msg)
  BY DEF NegInv
<1> QED
  BY <1>4, <1>5, TalksOn

(* wd33c93_queuecommand, wd33c93_execute, the start of an interrupt and    *)
(* the settings keep it.                                                   *)
LEMMA NegDriver ==
  ASSUME Base, Base', CalmInv, Polite, UnheardInv, NegInv, UNCHANGED setup,
         Execute \/ Interrupt \/ WriteInfo \/ \E c \in Cmds : Queue(c)
  PROVE  NegInv' /\ UnheardInv'
<1>1. IsHost(hd) /\ IsChip(chip)
  BY RecordDomains DEF Base, Types, HostTypes, BusTypes
<1>2. CASE \E c \in Cmds : Queue(c)
  <2>1. /\ UNCHANGED <<chip, bus, tg, agreed, sr>> /\ \E q : hd' = [hd EXCEPT !.input_Q = q]
        /\ pc = "idle" /\ pc' = "execute"
    BY <1>2 DEF Queue, QueueCommand
  <2>2. /\ hd'.incoming_msg = hd.incoming_msg /\ hd'.outgoing_msg = hd.outgoing_msg
        /\ hd'.sync_xfer = hd.sync_xfer /\ hd'.sync_stat = hd.sync_stat
    BY <1>1, <2>1 DEF IsHost
  <2> QED
    BY <2>1, <2>2, NegLeft DEF Waits, Pending, UnheardInv
<1>3. CASE Execute
  <2>1. /\ pc = "execute" /\ pc' = "idle" /\ UNCHANGED <<bus, tg, agreed>>
        /\ IF CannotStart THEN UNCHANGED <<hd, chip>> ELSE Start
    BY <1>3 DEF Execute, targetVars
  <2>2. /\ hd'.incoming_msg = hd.incoming_msg /\ hd'.outgoing_msg = hd.outgoing_msg
        /\ hd'.sync_xfer = hd.sync_xfer /\ (\A i \in Ids : Waits(i)' <=> Waits(i))
        /\ chip'.int = chip.int /\ chip'.atn = chip.atn
    BY <2>1, StartTerms DEF Waits
  <2> QED
    BY <2>1, <2>2, NegLeft DEF Pending, UnheardInv
<1>4. CASE Interrupt
  <2>1. /\ pc = "idle" /\ pc' = "handle" /\ UNCHANGED <<bus, tg, agreed>>
        /\ chip' = [chip EXCEPT !.int = "none"] /\ sr' = [csr |-> chip.int, phs |-> chip.phs, src |-> bus]
        /\ hd' = hd \/ hd' = DmaStop(hd, TRUE)
    BY <1>4 DEF Interrupt, targetVars
  <2>2. /\ hd'.incoming_msg = hd.incoming_msg /\ hd'.outgoing_msg = hd.outgoing_msg
        /\ hd'.sync_xfer = hd.sync_xfer /\ hd'.sync_stat = hd.sync_stat
        /\ chip'.int = "none" /\ chip'.atn = chip.atn /\ sr'.csr = chip.int
    BY <1>1, <2>1 DEF DmaStop, IsHost, IsChip
  <2> QED
    BY <2>1, <2>2, NegLeft DEF Waits, Pending, UnheardInv
<1>5. CASE WriteInfo
  <2>1. UNCHANGED <<chip, bus, tg, agreed, sr, pc>> /\ pc = "idle" /\ hd'.outgoing_msg = hd.outgoing_msg
    BY <1>1, <1>5, WriteInfoLeaves DEF WriteInfo, busVars
  <2>2. /\ hd'.incoming_msg = hd.incoming_msg /\ hd'.sync_xfer = hd.sync_xfer
        /\ \A i \in Ids : Waits(i)' => Waits(i)
        /\ \A i \in Ids : Waits(i) => Waits(i)' \/ Willing
    BY <1>1, <1>5, WriteInfoTerms
  <2> QED
    BY <2>1, <2>2, NegLeft DEF Pending, UnheardInv
<1> QED
  BY <1>2, <1>3, <1>4, <1>5

(* Every step keeps it.                                                    *)
LEMMA NegKept ==
  ASSUME Base, Base', CalmInv, CalmInv', Calm, Polite, Steady => AskInv, UnheardInv, NegInv,
         [Next]_vars
  PROVE  NegInv' /\ UnheardInv'
<1>1. CASE UNCHANGED vars
  <2>1. UNCHANGED <<setup, hd, chip, bus, tg, agreed, pc, sr>>
    BY <1>1 DEF vars, driverVars, busVars
  <2>2. SameTerms
    BY <2>1 DEF SameTerms, Waits
  <2>3. SameTalk /\ \A i \in Ids : Waits(i) => Waits(i)'
    BY <2>1 DEF SameTalk, In, Left, Sending, Waits
  <2>4. bus = NULL => NoSdtr(hd'.outgoing_msg)
    BY <2>1 DEF NegInv
  <2> QED
    BY <2>1, <2>2, <2>3, <2>4, TalksOn DEF Pending, UnheardInv
<1> SUFFICES ASSUME Next PROVE NegInv' /\ UnheardInv'
  BY <1>1
<1>2. UNCHANGED setup
  BY DEF Next
<1>3. ASSUME NEW c \in Cmds
      PROVE  ~TimesOut(c) /\ ~Abort(c)
  BY DEF TimesOut, Abort, Calm, CalmInv, NobodyGivenUp
<1>4. ~AbortSteps
  BY DEF AbortSteps, AbortQueued, AbortConnected, AbortFlush, AbortFinish, AbortDisconnected,
     AbortUnknown, AbortChecks, AbortStarts, Aborting, CalmInv, NobodyGivenUp
<1>5. ~HostReset
  BY DEF HostReset, CalmInv, NobodyGivenUp
<1>6. CASE Execute \/ Interrupt \/ WriteInfo \/ \E c \in Cmds : Queue(c)
  BY <1>2, <1>6, NegDriver
<1>7. CASE HandleInterrupt
  <2>1. pc' # "handle"
    BY <1>7 DEF HandleInterrupt, OnTimeout, OnSelect, OnData, OnCommand, OnMessageOut, OnStatus,
       OnMessageIn, OnSelXferDone, OnUnexpDisc, AlreadyDisconnected, OnDisc, OnSdp, OnReselect,
       OnStrayReselect, Restart, ReadByte, TransferNothing, TransferByDma, TransferByPio
  <2> QED
    BY <1>2, <1>7, <2>1, NegHandle DEF UnheardInv
<1>8. CASE PollEnds
  <2>1. pc' = "idle"
    BY <1>8, RecordDomains, PollLeaves DEF Base, Types, HostTypes
  <2> QED
    BY <1>2, <1>8, <2>1, NegPoll DEF UnheardInv
<1>9. CASE BusSteps \/ DataSteps
  BY <1>2, <1>9, NegBus, UnheardKept
<1> QED
  BY <1>3, <1>4, <1>5, <1>6, <1>7, <1>8, <1>9 DEF Next

(* The register is written before the transfer is set up, and by the       *)
(* driver alone: nothing on the bus changes it, nor what it was taken from.*)
LEMMA SyncKept ==
  ASSUME Base, Base', CalmInv, Calm, Polite, SyncInv, [Next]_vars
  PROVE  SyncInv'
<1>1. CASE UNCHANGED vars
  BY <1>1 DEF vars, driverVars, busVars, SyncInv
<1> SUFFICES ASSUME Next PROVE SyncInv'
  BY <1>1
<1>2. ASSUME NEW c \in Cmds
      PROVE  ~TimesOut(c) /\ ~Abort(c)
  BY DEF TimesOut, Abort, Calm, CalmInv, NobodyGivenUp
<1>3. ~AbortSteps
  BY DEF AbortSteps, AbortQueued, AbortConnected, AbortFlush, AbortFinish, AbortDisconnected,
     AbortUnknown, AbortChecks, AbortStarts, Aborting, CalmInv, NobodyGivenUp
<1>4. ~HostReset
  BY DEF HostReset, CalmInv, NobodyGivenUp
<1>5. IsHost(hd) /\ IsChip(chip) /\ DmaInv /\ DmaInv' /\ engine \in Dmas
  BY RecordDomains DEF Base, Types, HostTypes, BusTypes
<1>6. CASE BusSteps \/ DataSteps
  <2>1. UNCHANGED <<hd, pc>>
    BY <1>6 DEF BusSteps, DataSteps, DmaMoves, PioMoves, driverVars
  <2>2. engine'.cmd = engine.cmd
    <3>1. CASE BusSteps \/ \E k \in 1..chip.count : PioMoves(k)
      BY <3>1 DEF BusSteps, PioMoves, driverVars
    <3>2. CASE \E k \in 1..chip.count : DmaMoves(k)
      BY <1>5, <3>2 DEF DmaMoves, Dmas
    <3> QED
      BY <1>6, <3>1, <3>2 DEF DataSteps
  <2>3. chip'.sync = chip.sync
    <3>1. CASE Selected \/ SelectionTimeout \/ (\E n \in Nexus : Reselect(n)) \/ ReportPhase
      BY <1>5, <3>1 DEF Selected, SelectionTimeout, Reselect, ReportPhase, IsChip
    <3>2. CASE TakeCommand \/ TakeStatus \/ TakeByte \/ TakeMessages
      BY <1>5, <3>2 DEF TakeCommand, TakeStatus, TakeByte, TakeMessages, IsChip
    <3>3. CASE \E k \in 1..chip.count : MoveData(k)
      BY <1>5, <3>3 DEF MoveData, IsChip
    <3>4. CASE Level2Message \/ ReleaseBus \/ Drop
      BY <1>5, <3>4 DEF Level2Message, ReleaseBus, Drop, IsChip
    <3>5. CASE TargetSteps
      BY <3>5 DEF TargetSteps, StartData, GiveStatus, StartDisconnect, Quirk
    <3> QED
      BY <1>6, <3>1, <3>2, <3>3, <3>4, <3>5 DEF BusSteps, ChipSteps, DataSteps, DmaMoves, PioMoves
  <2> QED
    BY <2>1, <2>2, <2>3 DEF SyncInv
<1>7. CASE Execute
  <2>1. /\ pc = "execute" /\ pc' = "idle"
        /\ IF CannotStart THEN UNCHANGED <<hd, engine, chip>> ELSE Start
    BY <1>7 DEF Execute
  <2>2. CASE CannotStart
    BY <2>1, <2>2 DEF SyncInv
  <2>3. CASE ~CannotStart
    <3>1. PICK c \in Cmds : /\ chip'.sync = hd.sync_xfer[Attr[c].id]
                            /\ engine'.cmd \in {NULL, c} /\ hd'.connected \in {NULL, c}
      BY <2>1, <2>3, StartTerms
    <3>2. hd'.sync_xfer = hd.sync_xfer
      BY <2>1, <2>3, StartTerms
    <3>3. engine'.cmd # NULL => hd'.connected = c
      BY <1>5, <3>1 DEF DmaInv
    <3> QED
      BY <2>1, <3>1, <3>2, <3>3 DEF SyncInv
  <2> QED
    BY <2>2, <2>3
<1>8. CASE HandleInterrupt
  <2>1. CASE OnSelect
    <3>1. pc = "handle" /\ pc' = "idle" /\ engine' = engine
      BY <2>1 DEF OnSelect, Case, Handling
    <3>2. engine.cmd = NULL
      BY <1>5, <3>1 DEF DmaInv, InDriver
    <3> QED
      BY <3>1, <3>2 DEF SyncInv
  <2>2. CASE ~OnSelect
    <3>1. SetUp /\ hd'.sync_xfer = hd.sync_xfer
      BY <1>8, <2>2, HandleTerms DEF Terms
    <3> QED
      BY <3>1 DEF SetUp, SyncInv
  <2> QED
    BY <2>1, <2>2
<1>9. CASE Interrupt
  <2>1. pc' = "handle"
    BY <1>9 DEF Interrupt
  <2>2. engine'.cmd = NULL
    BY <1>5, <2>1 DEF DmaInv, InDriver
  <2> QED
    BY <2>1, <2>2 DEF SyncInv
<1>10. CASE PollEnds
  <2>1. pc \in {"pio", "sent", "status", "message"} /\ pc' = "idle" /\ engine' = engine
    BY <1>5, <1>10, PollLeaves
  <2>2. engine.cmd = NULL
    BY <1>5, <2>1 DEF DmaInv, InDriver
  <2> QED
    BY <2>1, <2>2 DEF SyncInv
<1>11. CASE WriteInfo
  <2>1. UNCHANGED <<chip, engine, pc>> /\ hd'.connected = hd.connected
    BY <1>5, <1>11, WriteInfoLeaves DEF WriteInfo, busVars
  <2>2. hd'.sync_xfer = hd.sync_xfer
    BY <1>5, <1>11, WriteInfoTerms
  <2> QED
    BY <2>1, <2>2 DEF SyncInv
<1>12. ASSUME NEW c \in Cmds, Queue(c)
       PROVE  SyncInv'
  <2>1. /\ UNCHANGED <<chip, engine>> /\ \E q : hd' = [hd EXCEPT !.input_Q = q]
        /\ pc = "idle" /\ pc' = "execute"
    BY <1>12 DEF Queue, QueueCommand
  <2>2. hd'.connected = hd.connected /\ hd'.sync_xfer = hd.sync_xfer
    BY <1>5, <2>1 DEF IsHost
  <2> QED
    BY <2>1, <2>2 DEF SyncInv
<1> QED
  BY <1>2, <1>3, <1>4, <1>6, <1>7, <1>8, <1>9, <1>10, <1>11, <1>12 DEF Next

(* The timing, where data pass: the target has no agreement to begin or to *)
(* end, and the register holds the one it has.                             *)
LEMMA TimingTogether ==
  ASSUME Base, CalmInv, DataInv, Polite, Steady => AskInv, NegInv, SyncInv
  PROVE  TimingAgreed
<1> SUFFICES ASSUME Moving PROVE chip.sync = agreed[bus[1]]
  BY DEF TimingAgreed
<1> DEFINE c == hd.connected
<1>1. PICK ph \in {"DATA_IN", "DATA_OUT"} : Ready(ph)
  BY DEF Moving
<1>2. /\ bus \in Nexus /\ bus # NULL /\ InConnection /\ c \in Cmds /\ Phase = ph
      /\ chip.cmd \in {"info", "level2"} /\ tg[bus].ph = "data"
      /\ tg[bus].msgs = <<>> /\ chip.int = "none"
  BY <1>1, Serving DEF Phases
<1>3. bus = NexusOf(c) /\ bus[1] = Attr[c].id
  BY <1>2 DEF InConnection, NexusOf
<1>4. ~chip.atn
  BY <1>2 DEF Phase
<1>5. Settled(bus[1])
  BY <1>2, <1>4, AtRest DEF Still
<1>6. IF chip.polled THEN pc = "pio" ELSE engine.cmd # NULL
  <2>1. CASE chip.cmd = "info"
    <3>1. chip.xph = ph
      BY <1>1, <1>2, <2>1 DEF Ready, Expected
    <3> QED
      BY <2>1, <3>1 DEF DataInv, MoversInv
  <2>2. CASE chip.cmd = "level2"
    <3>1. chip.phs \notin {\h41, \h50} /\ chip.count > 0
      BY <1>1, <1>2, <2>2 DEF Ready, Expected, DataGoesOn
    <3> QED
      BY <2>2, <3>1 DEF DataInv, MoversInv
  <2> QED
    BY <1>2, <2>1, <2>2
<1> QED
  BY <1>3, <1>5, <1>6 DEF SyncInv, Settled

(* Whenever data pass, the chip's register holds the timing the target has *)
(* agreed to: sync_xfer follows every SDTR, its answer, a MESSAGE REJECT   *)
(* and silence, and is written to the chip before each transfer.  On every *)
(* machine on which no command times out, no target asks for data twice,   *)
(* and no target that is asked again (after resync: or nosync:, or its own *)
(* SDTR) leaves an SDTR unanswered or half read.                           *)
THEOREM TimingAgreedHolds == Spec /\ Calm /\ Onward /\ Polite => []TimingAgreed
<1>1. Init => DataInv /\ NegInv /\ SyncInv /\ UnheardInv /\ (Steady => AskInv)
  BY DataInit, NegInit, AskInit
<1>2. Base /\ Base' /\ CalmInv /\ CalmInv' /\ Calm /\ Onward /\ DataInv /\ [Next]_vars => DataInv'
  BY DataKept
<1>3. Base /\ Base' /\ CalmInv /\ CalmInv' /\ Calm /\ Steady /\ AskInv /\ [Next]_vars => AskInv'
  BY AskKept
<1>4. Base /\ Base' /\ CalmInv /\ CalmInv' /\ Calm /\ Polite /\ (Steady => AskInv) /\ UnheardInv
        /\ NegInv /\ [Next]_vars => NegInv' /\ UnheardInv'
  BY NegKept
<1>5. Base /\ Base' /\ CalmInv /\ Calm /\ Polite /\ SyncInv /\ [Next]_vars => SyncInv'
  BY SyncKept
<1>6. Base /\ CalmInv /\ DataInv /\ Polite /\ (Steady => AskInv) /\ NegInv /\ SyncInv => TimingAgreed
  BY TimingTogether
<1>7. [Next]_vars => UNCHANGED setup
  BY DEF Next, vars
<1>8. /\ (Calm /\ [Next]_vars => Calm') /\ (Onward /\ [Next]_vars => Onward')
      /\ (Polite /\ [Next]_vars => Polite')
  BY <1>7 DEF Calm, Onward, Polite, Willing
<1>9. [Next]_vars => (Steady' <=> Steady)
  BY <1>7 DEF Steady
<1> QED
  BY <1>1, <1>2, <1>3, <1>4, <1>5, <1>6, <1>8, <1>9, CalmHolds, PTL DEF Spec
===============================================================================
