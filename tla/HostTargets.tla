------------------------------ MODULE HostTargets ------------------------------
(***************************************************************************)
(* What the targets do meanwhile.  The driver knows the commands that come *)
(* back to it (Known, of HostProofs) on two kinds of machine:              *)
(*                                                                         *)
(*   1  those whose targets may not disconnect (disconnect:0);             *)
(*   2  those on which no command times out, so that none is given up or   *)
(*      aborted and the host never reset, with level2:1 or more.           *)
(***************************************************************************)
EXTENDS HostProofs

-------------------------------------------------------------------------------
(* 1.  Targets that stay.  With disconnect:0 no IDENTIFY allows one to     *)
(* leave, a level-2 selection sends its own with SRCID_ER cleared, and     *)
(* SRCID_ER is set again only when no selection is under way.              *)

Staying == setup.disconnect = DIS_NEVER /\ "always" \notin setup.settings

Disconnects(msgs) == Identifies(msgs) /\ msgs[1].disc
Stays(u) ==
  /\ ~u.disc /\ u.ph \notin {"away", "disc"}
  /\ \A i \in DOMAIN u.msgs : u.msgs[i] # DISCONNECT[1]
NeverAllowed ==
  /\ hd.disconnect = DIS_NEVER /\ \A x \in Cmds : ~scp[x].phase
  /\ ~Disconnects(hd.outgoing_msg) /\ ~Disconnects(chip.out)
  /\ chip.cmd = "level2" /\ bus = NULL => ~chip.er
NobodyAway == (\A n \in Nexus : Stays(tg[n])) /\ ~Pending("RESEL_AM")
StayInv == NeverAllowed /\ NobodyAway

(* Nobody is on the bus, and nothing is allowed, at the start.             *)
LEMMA StayInit ==
  ASSUME Init, Staying
  PROVE  StayInv
<1>1. hd.disconnect = DIS_NEVER /\ hd.outgoing_msg = <<>>
  BY DEF Init, DriverInit, HostInit, Staying
<1>2. chip.out = <<>> /\ chip.cmd = "none" /\ chip.int = "none" /\ pc = "idle"
  BY DEF Init, BusInit, ChipReset, DriverInit
<1>3. \A x \in Cmds : ~scp[x].phase
  BY DEF Init, DriverInit, FreshSCp
<1>4. Stays(Idle) /\ tg = [n \in Nexus |-> Idle]
  BY DEF Stays, Idle, Init, BusInit
<1> QED
  BY <1>1, <1>2, <1>3, <1>4 DEF StayInv, NeverAllowed, NobodyAway, Pending, Disconnects,
     Identifies

(* A command is started with disconnection not allowed.                    *)
LEMMA StayStart ==
  ASSUME Types, NeverAllowed, Start, ~CannotStart, UNCHANGED bus
  PROVE  NeverAllowed' /\ chip'.int = chip.int
<1> DEFINE c    == hd.input_Q[Runnable]
           rest == RemoveAt(hd.input_Q, Runnable)
           er   == AllowDisconnect(c, rest)
           h    == [hd EXCEPT !.input_Q = rest, !.busy = @ \cup {NexusOf(c)}]
           ch   == [chip EXCEPT !.id = Attr[c].id, !.lun = Attr[c].lun, !.dpd = Attr[c].in,
                                !.er = er, !.sync = hd.sync_xfer[Attr[c].id]]
           ready == [h EXCEPT !.connected = c, !.state = "S_RUNNING_LEVEL2"]
<1>1. /\ IsChip(chip) /\ IsHost(hd) /\ scp \in [Cmds -> Pointers]
  BY RecordDomains DEF Types, BusTypes, HostTypes, PointersOk
<1>2. ~er /\ ~MakesOthersDisconnectable(c, rest)
  BY DEF NeverAllowed, AllowDisconnect, MakesOthersDisconnectable, DIS_NEVER, DIS_ADAPTIVE,
     DIS_ALWAYS
<1>3. /\ scp' = [x \in Cmds |->
                   IF x = c THEN [scp[x] EXCEPT !.phase = er]
                   ELSE [scp[x] EXCEPT !.phase =
                           @ \/ (x \in ToSet(rest) /\ MakesOthersDisconnectable(c, rest))]]
      /\ StartSelect(c, h, ch) \/ StartLevel2(c, h, ch)
  BY DEF Start
<1>4. \A x \in Cmds : ~scp'[x].phase
  <2>1. ASSUME NEW x \in Cmds
        PROVE  ~scp'[x].phase
    <3>1. "phase" \in DOMAIN scp[x] /\ ~scp[x].phase
      BY <1>1 DEF Pointers, NeverAllowed
    <3> HIDE DEF c, rest, er
    <3> QED
      BY <1>2, <1>3, <3>1
  <2> QED
    BY <2>1
<1>5. IsChip(ch) /\ ~ch.er /\ ch.int = chip.int /\ ch.out = chip.out
  BY <1>1, <1>2 DEF IsChip
<1>6. /\ IsHost(ready) /\ ready.disconnect = hd.disconnect
      /\ ready.outgoing_msg = hd.outgoing_msg
  BY <1>1 DEF IsHost
<1>7. /\ hd'.disconnect = hd.disconnect /\ hd'.outgoing_msg = hd.outgoing_msg
      /\ ~chip'.er /\ chip'.int = chip.int /\ chip'.out = chip.out
  <2>1. CASE StartSelect(c, h, ch)
    <3>1. \E s : hd' = [h EXCEPT !.selecting = c, !.state = "S_SELECTING", !.sync_stat = s]
      BY <2>1 DEF StartSelect
    <3>2. chip' = SelAtn(NoCount(ch))
      BY <2>1 DEF StartSelect
    <3> HIDE DEF c, rest, er, ch
    <3>3. hd'.disconnect = hd.disconnect /\ hd'.outgoing_msg = hd.outgoing_msg
      BY <1>1, <3>1 DEF IsHost
    <3>4. ~chip'.er /\ chip'.int = ch.int /\ chip'.out = ch.out
      BY <1>5, <3>2 DEF SelAtn, NoCount, Issue, IsChip
    <3> QED
      BY <1>5, <3>3, <3>4
  <2>2. CASE StartLevel2(c, h, ch)
    <3>1. /\ hd' = ready \/ \E via : hd' = DmaSetup(ready, via)
          /\ \/ chip' = SelAtnXfer([NoCount(ch) EXCEPT !.cdb = c], 0)
             \/ chip' = SelAtnXfer([ch EXCEPT !.count = scp[c].left, !.cdb = c,
                                              !.polled = FALSE], 0)
      BY <2>2 DEF StartLevel2
    <3> HIDE DEF c, rest, er, ch, ready
    <3>2. \A via : /\ DmaSetup(ready, via).disconnect = ready.disconnect
                   /\ DmaSetup(ready, via).outgoing_msg = ready.outgoing_msg
      BY <1>6 DEF DmaSetup, IsHost
    <3>3. ~chip'.er /\ chip'.int = ch.int /\ chip'.out = ch.out
      BY <1>5, <3>1 DEF SelAtnXfer, NoCount, Issue, IsChip
    <3> QED
      BY <1>5, <1>6, <3>1, <3>2, <3>3
  <2> QED
    BY <1>3, <2>1, <2>2
<1> QED
  BY <1>4, <1>7 DEF NeverAllowed

(* The settings of /proc that concern it.                                  *)
LEMMA StaySettings ==
  ASSUME WriteInfo, IsHost(hd), Staying, hd.disconnect = DIS_NEVER
  PROVE  hd'.disconnect = DIS_NEVER /\ hd'.outgoing_msg = hd.outgoing_msg
<1>1. ASSUME NEW h, NEW ids, IsHost(h)
      PROVE  Resync(h, ids).disconnect = h.disconnect
  <2> DEFINE f == [i \in Ids |-> IF i \in ids THEN "SS_UNSET" ELSE h.sync_stat[i]]
  <2>1. Resync(h, ids) = [h EXCEPT !.sync_stat = f]
    BY DEF Resync
  <2> HIDE DEF f
  <2> QED
    BY <1>1, <2>1 DEF IsHost
<1>2. \A n : IsHost([hd EXCEPT !.no_sync = n]) /\ [hd EXCEPT !.no_sync = n].disconnect = hd.disconnect
  BY DEF IsHost
<1>3. \/ hd' = [hd EXCEPT !.disconnect = DIS_NEVER]
      \/ \E d : hd' = [hd EXCEPT !.no_dma = d]
      \/ \E n, ids : hd' = Resync([hd EXCEPT !.no_sync = n], ids)
      \/ \E ids : hd' = Resync(hd, ids)
  BY DEF WriteInfo, Staying
<1>4. CASE hd' = [hd EXCEPT !.disconnect = DIS_NEVER] \/ \E d : hd' = [hd EXCEPT !.no_dma = d]
  BY <1>4, WriteInfoLeaves DEF IsHost
<1>5. ASSUME NEW ids, hd' = Resync(hd, ids)
      PROVE  hd'.disconnect = DIS_NEVER
  <2>1. Resync(hd, ids).disconnect = hd.disconnect
    BY <1>1
  <2> QED
    BY <1>5, <2>1
<1>6. ASSUME NEW n, NEW ids, hd' = Resync([hd EXCEPT !.no_sync = n], ids)
      PROVE  hd'.disconnect = DIS_NEVER
  <2> DEFINE g == [hd EXCEPT !.no_sync = n]
  <2>1. IsHost(g) /\ g.disconnect = hd.disconnect
    BY <1>2
  <2> HIDE DEF g
  <2>2. Resync(g, ids).disconnect = g.disconnect
    BY <1>1, <2>1
  <2> QED
    <3>1. hd' = Resync(g, ids)
      BY <1>6 DEF g
    <3> QED
      BY <2>1, <2>2, <3>1
<1>7. hd'.outgoing_msg = hd.outgoing_msg
  BY WriteInfoLeaves
<1> QED
  BY <1>3, <1>4, <1>5, <1>6, <1>7, Zenon

(* The interrupt handler changes no setting, and no message the chip is    *)
(* given but the ones that are due.                                        *)
LEMMA HandleSends ==
  ASSUME Base, HandleInterrupt
  PROVE  /\ hd'.disconnect = hd.disconnect
         /\ ~OnMessageOut => chip'.out = chip.out
<1>1. IsChip(chip) /\ IsHost(hd)
  BY RecordDomains DEF Base, Types, BusTypes, HostTypes
<1> DEFINE Kept == hd'.disconnect = hd.disconnect
           Out(ch) == IsChip(ch) /\ ch.out = chip.out
<1>2. ASSUME NEW d, Out(d), NEW n,
             chip' \in {d, TransInfo(d), NegateAck(d), SelAtnXfer(d, n)}
      PROVE  chip'.out = chip.out
  BY <1>2 DEF TransInfo, NegateAck, SelAtnXfer, Issue, IsChip
<1>3. CASE OnTimeout
  <2> DEFINE c == IF hd.state = "S_RUNNING_LEVEL2" THEN hd.connected ELSE hd.selecting
             h == [hd EXCEPT !.busy = @ \ {NexusOf(c)}, !.state = "S_UNCONNECTED"]
  <2>1. hd' \in {[h EXCEPT !.connected = NULL], [h EXCEPT !.selecting = NULL]} /\ chip' = chip
    BY <1>3 DEF OnTimeout
  <2> HIDE DEF c
  <2> QED
    BY <1>1, <2>1 DEF IsHost
<1>4. CASE OnSelect
  <2>1. \E c, m, st : hd' = [hd EXCEPT !.connected = c, !.selecting = NULL,
                              !.state = "S_CONNECTED", !.outgoing_msg = m, !.sync_stat = st]
    BY <1>4 DEF OnSelect
  <2> QED
    BY <1>1, <1>4, <2>1 DEF OnSelect, IsHost
<1>5. CASE OnData
  <2> DEFINE c == hd.connected
             s == NextBuffer(c)
             ch(v) == [chip EXCEPT !.sync = hd.sync_xfer[Attr[c].id], !.polled = v,
                                   !.count = s.left]
  <2>1. \/ chip' = chip
        \/ \E v : chip' \in {SelAtnXfer(ch(v), \h45), TransInfo(ch(v))}
    BY <1>5 DEF OnData, TransferNothing, TransferByDma, TransferByPio
  <2>2. \A v : Out(ch(v))
    BY <1>1 DEF IsChip
  <2>3. \E h : /\ IsHost(h) /\ h.disconnect = hd.disconnect
               /\ hd' = Connected(h) \/ hd' = [h EXCEPT !.state = "S_RUNNING_LEVEL2"]
    <3>1. \A via : /\ IsHost(DmaSetup(hd, via))
                   /\ DmaSetup(hd, via).disconnect = hd.disconnect
      BY <1>1 DEF DmaSetup, IsHost
    <3>2. \A b : IsHost([hd EXCEPT !.bounce = b]) /\ [hd EXCEPT !.bounce = b].disconnect = hd.disconnect
      BY <1>1 DEF IsHost
    <3>3. \/ hd' = Connected(hd)
          \/ \E via : \/ hd' = [DmaSetup(hd, via) EXCEPT !.state = "S_RUNNING_LEVEL2"]
                      \/ hd' = Connected(DmaSetup(hd, via))
          \/ \E b : hd' = Connected([hd EXCEPT !.bounce = b])
      BY <1>5 DEF OnData, TransferNothing, TransferByDma, TransferByPio
    <3> QED
      BY <1>1, <3>1, <3>2, <3>3
  <2>4. Kept
    BY <2>3 DEF Connected, IsHost
  <2> HIDE DEF ch, Out
  <2>5. chip'.out = chip.out
    BY <1>2, <2>1, <2>2
  <2> QED
    BY <2>4, <2>5
<1>6. CASE OnReselect \/ OnStrayReselect
  <2>1. IsHost(PutBackLoser(hd)) /\ PutBackLoser(hd).disconnect = hd.disconnect
    BY <1>1 DEF PutBackLoser, Requeued, IsHost
  <2>2. \/ hd' = PutBackLoser(hd)
        \/ \E c, q, st : hd' = [PutBackLoser(hd) EXCEPT !.connected = c, !.disconnected_Q = q,
                                                          !.state = st]
    <3>1. CASE OnReselect
      <4> DEFINE q == RemoveAt(PutBackLoser(hd).disconnected_Q, Reconnecting)
                 c == hd.disconnected_Q[Reconnecting]
      <4>1. \E st : hd' = [[PutBackLoser(hd) EXCEPT !.connected = c, !.disconnected_Q = q]
                            EXCEPT !.state = st]
        BY <3>1 DEF OnReselect
      <4> HIDE DEF q, c
      <4> QED
        BY <2>1, <4>1 DEF IsHost
    <3> QED
      BY <1>6, <3>1 DEF OnStrayReselect
  <2>3. Kept
    BY <2>1, <2>2 DEF IsHost
  <2> DEFINE c == hd.disconnected_Q[Reconnecting]
             ch == [chip EXCEPT !.id = Attr[c].id, !.dpd = Attr[c].in]
  <2>4. chip' \in {chip, NegateAck(chip), NegateAck(ch), SelAtnXfer(NoCount(ch), \h45)}
    BY <1>6 DEF OnReselect, OnStrayReselect
  <2>5. Out(chip) /\ Out(ch) /\ Out(NoCount(ch))
    BY <1>1 DEF NoCount, IsChip
  <2> HIDE DEF ch, c, Out
  <2>7. chip'.out = chip.out
    BY <1>2, <2>4, <2>5
  <2> QED
    BY <2>3, <2>7
<1>7. CASE OnCommand \/ OnStatus \/ OnMessageIn \/ OnSdp \/ OnMessageOut
  <2>1. Kept
    BY <1>1, <1>7 DEF OnCommand, OnStatus, OnMessageIn, OnSdp, OnMessageOut, IsHost
  <2> DEFINE k == [chip EXCEPT !.polled = TRUE, !.count = 1, !.cdb = hd.connected]
             l == [chip EXCEPT !.polled = TRUE]
  <2>2. ~OnMessageOut => chip' \in {TransInfo(k), TransInfo(l), SelAtnXfer(chip, \h41)}
    BY <1>7 DEF OnCommand, OnStatus, OnMessageIn, OnSdp, ReadByte
  <2>3. Out(k) /\ Out(l) /\ Out(chip)
    BY <1>1 DEF IsChip
  <2> HIDE DEF k, l, Out
  <2>5. ~OnMessageOut => chip'.out = chip.out
    BY <1>2, <2>2, <2>3
  <2> QED
    BY <2>1, <2>5
<1>8. CASE OnSelXferDone \/ OnUnexpDisc \/ AlreadyDisconnected \/ OnDisc
  <2>1. chip' = EnableReselection
    BY <1>8 DEF OnSelXferDone, OnUnexpDisc, AlreadyDisconnected, OnDisc
  <2>2. \/ hd' = Unconnected(hd, hd.connected) \/ hd' = Disconnected(hd, hd.connected)
        \/ hd' = [hd EXCEPT !.state = "S_UNCONNECTED"]
    BY <1>8 DEF OnSelXferDone, OnUnexpDisc, AlreadyDisconnected, OnDisc
  <2>3. Kept
    BY <1>1, <2>2 DEF Unconnected, Disconnected, IsHost
  <2> QED
    BY <1>1, <2>1, <2>3 DEF EnableReselection, IsChip
<1> QED
  BY <1>3, <1>4, <1>5, <1>6, <1>7, <1>8 DEF HandleInterrupt

(* The interrupt handler asks with the privilege it gave.                  *)
LEMMA StayHandle ==
  ASSUME Base, StayInv, HandleInterrupt
  PROVE  NeverAllowed' /\ chip'.int = chip.int /\ pc' # "handle"
<1>1. /\ IsChip(chip) /\ IsHost(hd) /\ scp \in [Cmds -> Pointers] /\ pc = "handle"
      /\ chip.cmd = "none" /\ UNCHANGED bus
  <2>1. pc = "handle" /\ UNCHANGED bus
    BY DEF HandleInterrupt, OnTimeout, OnSelect, OnData, OnCommand,
         OnMessageOut, OnStatus, OnMessageIn, OnSelXferDone, OnUnexpDisc,
         AlreadyDisconnected, OnDisc, OnSdp, OnReselect, OnStrayReselect, CommandCase, Case,
         Rest, targetVars
  <2> QED
    BY <2>1, RecordDomains DEF Base, Types, BusTypes, HostTypes, PointersOk, ChipInv
<1>2. \A x \in Cmds : ~scp'[x].phase
  <2>1. \/ UNCHANGED scp
        \/ \E c \in Cmds : \/ scp' = [scp EXCEPT ![c] = NextBuffer(c)]
                           \/ \E n : scp' = [scp EXCEPT ![c].Status = n]
    <3>1. hd.connected # NULL => hd.connected \in Cmds
      BY HostFieldTypes DEF Base, Types, HostTypes
    <3>2. CASE OnData
      BY <3>1, <3>2 DEF OnData, CommandCase
    <3>3. CASE OnSelXferDone
      BY <3>1, <3>3 DEF OnSelXferDone, CommandCase
    <3>4. CASE ~OnData /\ ~OnSelXferDone
      BY <3>4 DEF HandleInterrupt, OnTimeout, OnSelect, OnCommand,
         OnMessageOut, OnStatus, OnMessageIn, OnUnexpDisc,
         AlreadyDisconnected, OnDisc, OnSdp, OnReselect, OnStrayReselect
    <3> QED
      BY <3>2, <3>3, <3>4
  <2>2. \A x \in Cmds : ~scp[x].phase
                        /\ DOMAIN scp[x] = {"phase", "Status", "ptr", "left", "more"}
    BY <1>1 DEF StayInv, NeverAllowed, Pointers
  <2>3. \A c \in Cmds : /\ ~NextBuffer(c).phase
                        /\ \A n : ~[scp[c] EXCEPT !.Status = n].phase
    BY <2>2 DEF NextBuffer
  <2>4. \A x \in Cmds : \/ scp'[x] = scp[x] \/ scp'[x] = NextBuffer(x)
                        \/ \E n : scp'[x] = [scp[x] EXCEPT !.Status = n]
    BY <1>1, <2>1
  <2> QED
    BY <2>2, <2>3, <2>4
<1>3. chip'.int = chip.int /\ pc' # "handle"
  <2>1. pc' # "handle"
    BY DEF HandleInterrupt, OnTimeout, OnSelect, OnData, OnCommand,
         OnMessageOut, OnStatus, OnMessageIn, OnSelXferDone, OnUnexpDisc,
         AlreadyDisconnected, OnDisc, OnSdp, OnReselect, OnStrayReselect, TransferNothing,
         TransferByDma, TransferByPio, ReadByte, Restart
  <2>2. ~OnSelect /\ ~OnMessageOut => chip'.int = chip.int
    BY HandleLeaves
  <2>3. OnSelect => chip'.int = chip.int
    BY DEF OnSelect
  <2>4. OnMessageOut => chip'.int = chip.int
    <3> SUFFICES ASSUME OnMessageOut PROVE chip'.int = chip.int
      OBVIOUS
    <3>1. \E n, out : chip' = TransInfo([chip EXCEPT !.polled = TRUE, !.count = n, !.out = out])
      BY DEF OnMessageOut
    <3> QED
      BY <1>1, <3>1 DEF TransInfo, Issue, IsChip
  <2> QED
    BY <2>1, <2>2, <2>3, <2>4
<1>4. ~Disconnects(hd'.outgoing_msg) /\ ~Disconnects(chip'.out)
  <2>1. CASE OnSelect
    <3>1. \E m : hd'.outgoing_msg = <<Identify(hd.selecting)>> \o m
      BY <1>1, <2>1 DEF OnSelect, IsHost
    <3>2. hd.selecting \in Cmds
      BY <2>1, HostFieldTypes DEF OnSelect, Case, Base, Types, HostTypes, SelectInv, SelectTold,
         Pending
    <3>3. ~Identify(hd.selecting).disc
      BY <3>2 DEF Identify, StayInv, NeverAllowed
    <3>4. ~Disconnects(hd'.outgoing_msg)
      BY <3>1, <3>3 DEF Disconnects
    <3>5. chip'.out = chip.out
      BY <2>1 DEF OnSelect
    <3> QED
      BY <3>4, <3>5 DEF StayInv, NeverAllowed
  <2>2. CASE OnMessageOut
    <3> DEFINE out == IF hd.outgoing_msg = <<>> THEN <<Plain("NOP")>> ELSE hd.outgoing_msg
               ch == [chip EXCEPT !.polled = TRUE, !.count = Len(out), !.out = out]
    <3>1. chip' = TransInfo(ch) /\ hd'.outgoing_msg = <<>>
      BY <1>1, <2>2 DEF OnMessageOut, IsHost
    <3>2. ~Disconnects(out)
      BY DEF StayInv, NeverAllowed, Disconnects, Identifies, Plain
    <3>3. chip'.out = out
      <4> HIDE DEF out
      <4> QED
        BY <1>1, <3>1 DEF TransInfo, Issue, IsChip
    <3> QED
      BY <3>1, <3>2, <3>3 DEF Disconnects, Identifies
  <2>3. CASE ~OnSelect /\ ~OnMessageOut
    <3>1. hd'.outgoing_msg = hd.outgoing_msg /\ chip'.out = chip.out
      BY <2>3, HandleLeaves, HandleSends
    <3> QED
      BY <3>1 DEF StayInv, NeverAllowed
  <2> QED
    BY <2>1, <2>2, <2>3
<1>5. chip'.cmd = "level2" /\ bus' = NULL => ~chip'.er
  <2>1. CASE OnSelect
    BY <1>1, <2>1 DEF OnSelect
  <2>2. CASE OnMessageOut
    <3>1. \E n, out : chip' = TransInfo([chip EXCEPT !.polled = TRUE, !.count = n, !.out = out])
      BY <2>2 DEF OnMessageOut
    <3>2. chip'.cmd # "level2"
      BY <1>1, <3>1 DEF TransInfo, Issue, IsChip
    <3> QED
      BY <3>2
  <2>3. CASE ~OnSelect /\ ~OnMessageOut
    BY <1>1, <2>3, HandleLeaves
  <2> QED
    BY <2>1, <2>2, <2>3
<1> QED
  BY <1>2, <1>3, <1>4, <1>5, HandleSends DEF NeverAllowed, StayInv

SameBut(old, new, fields) ==
  DOMAIN new = DOMAIN old /\ \A f \in DOMAIN old \ fields : new[f] = old[f]
(* The end of a poll writes, of the driver's state, the messages and what  *)
(* they agree on; of the chip's, what it is commanded.                     *)
LEMMA PollWrites ==
  ASSUME IsHost(hd), IsChip(chip), PollEnds
  PROVE  /\ SameBut(hd, hd', {"outgoing_msg", "state", "incoming_msg", "sync_xfer", "sync_stat"})
         /\ SameBut(chip, chip', {"cmd", "int", "phs", "ack", "atn", "quiet"})
<1> DEFINE Host(h) ==
             SameBut(hd, h, {"outgoing_msg", "state", "incoming_msg", "sync_xfer", "sync_stat"})
           Chip(ch) == SameBut(chip, ch, {"cmd", "int", "phs", "ack", "atn", "quiet"})
<1>1. /\ Host(hd) /\ Chip(chip) /\ Chip(NegateAck(Cleared)) /\ Chip(NegateAck(AssertAtn(Cleared)))
      /\ \A n : Chip(SelAtnXfer(Cleared, n)) /\ Chip(SelAtnXfer(Cleared, \h45))
  BY DEF SameBut, Cleared, NegateAck, AssertAtn, SelAtnXfer, Issue, IsChip
<1> HIDE DEF Host, Chip
<1>2. CASE PioDone \/ SentDone
  BY <1>1, <1>2 DEF PioDone, SentDone, Host, Chip
<1>3. CASE StatusRead
  <2>1. /\ chip' = chip \/ chip' = SelAtnXfer(Cleared, \h50)
        /\ \E v : hd' = [hd EXCEPT !.state = v]
    BY <1>3 DEF StatusRead
  <2>2. Host(hd')
    BY <2>1 DEF Host, SameBut, IsHost
  <2>3. Chip(chip')
    BY <1>1, <2>1
  <2> QED
    BY <2>2, <2>3 DEF Host, Chip
<1>4. CASE OnComplete \/ OnSave \/ OnDisconnect \/ OnRestore \/ OnExtendedByte
  <2>1. /\ chip' \in {NegateAck(Cleared), SelAtnXfer(Cleared, \h45)}
        /\ \/ \E v : hd' = [hd EXCEPT !.state = v]
           \/ \E v, i : hd' = [hd EXCEPT !.incoming_msg = i, !.state = v]
    BY <1>4 DEF OnComplete, OnSave, OnDisconnect, OnRestore, OnExtendedByte, MessageRead, Accept
  <2>2. Host(hd')
    BY <2>1 DEF Host, SameBut, IsHost
  <2>3. Chip(chip')
    BY <1>1, <2>1
  <2> QED
    BY <2>2, <2>3 DEF Host, Chip
<1>5. CASE OnUnknown \/ OnWdtr \/ OnOtherExtended
  <2>1. /\ chip' = NegateAck(AssertAtn(Cleared))
        /\ \E m : hd' = [hd EXCEPT !.outgoing_msg = <<m>>, !.state = "S_CONNECTED",
                                   !.incoming_msg = <<>>]
    BY <1>5 DEF OnUnknown, OnWdtr, OnOtherExtended, MessageRead, Answer
  <2>2. Host(hd')
    BY <2>1 DEF Host, SameBut, IsHost
  <2>3. Chip(chip')
    BY <1>1, <2>1
  <2> QED
    BY <2>2, <2>3 DEF Host, Chip
<1>6. CASE OnReject
  <2> DEFINE id == Attr[hd.connected].id
             waiting == hd.sync_stat[id] = "SS_WAITING"
             s == [hd.sync_stat EXCEPT ![id] = IF waiting THEN "SS_SET" ELSE @]
             x == [hd.sync_xfer EXCEPT ![id] = IF waiting THEN "async" ELSE @]
  <2>1. /\ chip' = NegateAck(Cleared)
        /\ hd' = [hd EXCEPT !.state = "S_CONNECTED", !.sync_stat = s, !.sync_xfer = x]
    BY <1>6 DEF OnReject, MessageRead, IsHost
  <2> HIDE DEF s, x
  <2>2. Host(hd')
    BY <2>1 DEF Host, SameBut, IsHost
  <2>3. Chip(chip')
    BY <1>1, <2>1
  <2> QED
    BY <2>2, <2>3 DEF Host, Chip
<1>7. CASE OnSdtr
  <2> DEFINE id == Attr[hd.connected].id
             h  == [hd EXCEPT !.outgoing_msg = <<Sdtr(0)>>]
             Agree(k, m) == [k EXCEPT !.sync_xfer[id] = m, !.sync_stat[id] = "SS_SET",
                               !.incoming_msg = <<>>, !.state = "S_CONNECTED"]
  <2>1. \E m : hd' = Agree(hd, m) \/ hd' = Agree(h, m)
    <3>1. CASE hd.sync_stat[id] = "SS_WAITING"
      <4>1. \E m : hd' = Agree(hd, m)
        BY <1>7, <3>1, Zenon DEF OnSdtr, MessageRead
      <4> HIDE DEF Agree
      <4> QED
        BY <4>1
    <3>2. CASE hd.sync_stat[id] # "SS_WAITING"
      <4>1. hd' = Agree(h, "async")
        BY <1>7, <3>2 DEF OnSdtr, MessageRead
      <4> HIDE DEF Agree
      <4> QED
        BY <4>1
    <3> HIDE DEF Agree
    <3> QED
      BY <3>1, <3>2
  <2>2. chip' \in {NegateAck(Cleared), NegateAck(AssertAtn(Cleared))}
    BY <1>7, Zenon DEF OnSdtr, MessageRead
  <2>3. Host(hd')
    BY <2>1 DEF Host, SameBut, IsHost
  <2>4. Chip(chip')
    BY <1>1, <2>2
  <2> QED
    BY <2>3, <2>4 DEF Host, Chip
<1> QED
  BY <1>2, <1>3, <1>4, <1>5, <1>6, <1>7 DEF PollEnds

(* A poll ends with the command's privilege as it was.                     *)
LEMMA StayPoll ==
  ASSUME Base, StayInv, PollEnds
  PROVE  StayInv'
<1>1. /\ IsChip(chip) /\ IsHost(hd) /\ scp \in [Cmds -> Pointers]
  BY RecordDomains DEF Base, Types, BusTypes, HostTypes, PointersOk
<1>2. /\ pc' = "idle" /\ UNCHANGED <<bus, tg>>
      /\ hd'.outgoing_msg = hd.outgoing_msg
         \/ \E m : hd'.outgoing_msg = <<m>> /\ m.msg \in {"MESSAGE_REJECT", "WDTR", "SDTR"}
      /\ \/ chip' = chip
         \/ chip'.int = "none" /\ pc \in {"status", "message"}
  BY <1>1, PollLeaves, PollSays
<1>3. chip'.out = chip.out /\ chip'.er = chip.er /\ hd'.disconnect = hd.disconnect
  BY <1>1, PollWrites DEF SameBut, IsHost, IsChip
<1>4. pc \in {"status", "message"} /\ chip.int # "none" => bus # NULL
  BY DEF Base, ChipInv, Phase
<1>5. chip.int # "none"
  BY <1>1, PollLeaves
<1>6. \A x \in Cmds : ~scp'[x].phase
  <2>1. \/ UNCHANGED scp
        \/ scp' = [scp EXCEPT ![hd.connected] = Moved(hd.connected)]
        \/ \E n : scp' = [scp EXCEPT ![hd.connected].Status = n]
    BY DEF PollEnds, PioDone, SentDone, StatusRead, OnComplete, OnSave, OnDisconnect, OnRestore,
       OnReject, OnUnknown, OnExtendedByte, OnSdtr, OnWdtr, OnOtherExtended, MessageRead
  <2>2. \A x \in Cmds : ~scp[x].phase
                        /\ DOMAIN scp[x] = {"phase", "Status", "ptr", "left", "more"}
    BY <1>1 DEF StayInv, NeverAllowed, Pointers
  <2>3. \A c \in Cmds : /\ ~Moved(c).phase
                        /\ \A n : ~[scp[c] EXCEPT !.Status = n].phase
    BY <2>2 DEF Moved
  <2>4. \A x \in Cmds : \/ scp'[x] = scp[x] \/ scp'[x] = Moved(x)
                        \/ \E n : scp'[x] = [scp[x] EXCEPT !.Status = n]
    BY <1>1, <2>1
  <2> QED
    BY <2>2, <2>3, <2>4
<1>7. NeverAllowed'
  BY <1>2, <1>3, <1>4, <1>5, <1>6 DEF StayInv, NeverAllowed, Disconnects, Identifies
<1>8. NobodyAway'
  BY <1>2 DEF StayInv, NobodyAway, Pending
<1> QED
  BY <1>7, <1>8 DEF StayInv

(* wd33c93_abort frees the bus, or starts the next command.                *)
LEMMA StayAbort ==
  ASSUME Base, StayInv, AbortSteps
  PROVE  StayInv'
<1>1. /\ IsChip(chip) /\ IsHost(hd) /\ pc = "idle" /\ UNCHANGED <<pc, sr>>
      /\ bus \in Nexus \cup {NULL} /\ tg \in [Nexus -> Units]
  BY RecordDomains DEF Base, Types, BusTypes, HostTypes, AbortSteps, AbortQueued,
     AbortConnected, AbortFlush, AbortFinish, AbortDisconnected, AbortUnknown, AbortChecks,
     AbortStarts, Aborting
<1>2. CASE AbortStarts
  <2>1. ~CannotStart
    BY <1>2 DEF AbortStarts, Aborting, CannotStart, Base, AbortInv
  <2>2. Start /\ UNCHANGED <<bus, tg>>
    BY <1>2 DEF AbortStarts, targetVars
  <2>3. NeverAllowed' /\ chip'.int = chip.int
    BY <2>1, <2>2, StayStart DEF StayInv, Base
  <2> QED
    BY <1>1, <2>2, <2>3 DEF StayInv, NobodyAway, Pending
<1>3. CASE AbortFlush
  <2>1. /\ chip' = [chip EXCEPT !.int = "none", !.cmd = "none", !.ack = FALSE, !.atn = FALSE]
        /\ tg' = IF bus = NULL THEN tg ELSE [tg EXCEPT ![bus] = Idle]
        /\ UNCHANGED <<hd, scp>>
    BY <1>3 DEF AbortFlush
  <2>2. \A n \in Nexus : tg'[n] \in {tg[n], Idle}
    BY <1>1, <2>1
  <2>3. Stays(Idle)
    BY DEF Stays, Idle
  <2>4. chip'.cmd = "none" /\ chip'.int = "none" /\ chip'.out = chip.out
    BY <1>1, <2>1 DEF IsChip
  <2>5. NobodyAway'
    BY <1>1, <2>2, <2>3, <2>4 DEF StayInv, NobodyAway, Pending
  <2> QED
    BY <2>1, <2>4, <2>5 DEF StayInv, NeverAllowed
<1>4. CASE AbortConnected
  <2>1. /\ chip' = AbortCmd([chip EXCEPT !.polled = TRUE]) /\ UNCHANGED <<scp, bus, tg>>
        /\ hd' = hd \/ hd' = DmaStop(hd, FALSE)
    BY <1>4 DEF AbortConnected, AbortStopsDma, targetVars
  <2>2. /\ chip'.cmd \in {"none", chip.cmd} /\ chip'.int \in {"ABORT", chip.int}
        /\ chip'.out = chip.out /\ chip'.er = chip.er
    BY <1>1, <2>1 DEF AbortCmd, Issue, IsChip
  <2>3. hd'.disconnect = hd.disconnect /\ hd'.outgoing_msg = hd.outgoing_msg
    BY <1>1, <2>1 DEF DmaStop, IsHost
  <2> QED
    BY <1>1, <2>1, <2>2, <2>3 DEF StayInv, NeverAllowed, NobodyAway, Pending
<1>5. CASE AbortQueued \/ AbortFinish \/ AbortDisconnected \/ AbortUnknown \/ AbortChecks
  <2>1. /\ UNCHANGED <<scp, bus, tg>>
        /\ chip' = chip \/ chip' = Cleared
        /\ \/ hd' = hd \/ \E q : hd' = [hd EXCEPT !.input_Q = q]
           \/ hd' = Unconnected(hd, eh.cmd)
    BY <1>5 DEF AbortQueued, AbortFinish, AbortDisconnected, AbortUnknown, AbortChecks, busVars,
       targetVars
  <2>2. /\ chip'.cmd = chip.cmd /\ chip'.int \in {"none", chip.int}
        /\ chip'.out = chip.out /\ chip'.er = chip.er
    BY <1>1, <2>1 DEF Cleared, IsChip
  <2>3. hd'.disconnect = hd.disconnect /\ hd'.outgoing_msg = hd.outgoing_msg
    BY <1>1, <2>1 DEF Unconnected, IsHost
  <2>4. NeverAllowed'
    BY <2>1, <2>2, <2>3 DEF StayInv, NeverAllowed
  <2>5. NobodyAway'
    BY <1>1, <2>1, <2>2 DEF StayInv, NobodyAway, Pending
  <2> QED
    BY <2>4, <2>5 DEF StayInv
<1> QED
  BY <1>2, <1>3, <1>4, <1>5 DEF AbortSteps

(* On the bus the chip is given nothing to send, nor leave to be           *)
(* reselected, and what ends a connection ends the command.                *)
LEMMA BusLeaves ==
  ASSUME IsChip(chip), BusSteps \/ DataSteps
  PROVE  /\ chip'.out \in {chip.out, <<>>} /\ chip'.er = chip.er
         /\ bus' = NULL /\ bus # NULL => chip'.cmd = "none"
         /\ chip'.int = "RESEL_AM" => chip.int = "RESEL_AM" \/ \E n \in Nexus : Reselect(n)
<1>1. CASE DataSteps
  <2>1. PICK k : MoveData(k)
    BY <1>1 DEF DataSteps, DmaMoves, PioMoves
  <2> DEFINE f == IF chip.cmd = "level2" THEN \h46 ELSE chip.phs
             d == IF chip.cmd = "info" /\ k = chip.count THEN "none" ELSE chip.cmd
  <2>2. chip' = [chip EXCEPT !.count = chip.count - k, !.phs = f, !.cmd = d] /\ bus' = bus
    BY <2>1 DEF MoveData
  <2> HIDE DEF f, d
  <2> QED
    BY <2>2 DEF IsChip
<1>2. CASE TargetSteps
  BY <1>2 DEF TargetSteps, StartData, GiveStatus, StartDisconnect, Quirk
<1>3. CASE ReportPhase
  BY <1>3, PhaseType DEF ReportPhase, IsChip, Phases
<1>4. CASE SelectionTimeout \/ Drop
  BY <1>4 DEF SelectionTimeout, Drop, IsChip
<1>5. CASE \E n \in Nexus : Reselect(n)
  BY <1>5 DEF Reselect, IsChip
<1>6. CASE Selected
  BY <1>6 DEF Selected, IsChip
<1>7. CASE TakeCommand
  BY <1>7 DEF TakeCommand, IsChip
<1>8. CASE TakeMessages
  <2>1. /\ bus # NULL
        /\ \/ chip' = [chip EXCEPT !.cmd = "none", !.count = 1]
           \/ chip' = [chip EXCEPT !.cmd = "none", !.count = 0, !.atn = FALSE, !.out = <<>>]
    BY <1>8 DEF TakeMessages, Ready
  <2> QED
    BY <2>1 DEF IsChip
<1>9. CASE TakeStatus \/ TakeByte \/ ReleaseBus
  BY <1>9 DEF TakeStatus, TakeByte, ReleaseBus, IsChip
<1>10. CASE Level2Message
  BY <1>10 DEF Level2Message, IsChip
<1> QED
  BY <1>1, <1>2, <1>3, <1>4, <1>5, <1>6, <1>7, <1>8, <1>9, <1>10 DEF BusSteps, ChipSteps

(* A unit that is written stays, and the others do.                        *)
LEMMA UnitStays ==
  ASSUME tg \in [Nexus -> Units], \A n \in Nexus : Stays(tg[n]),
         \/ UNCHANGED tg
         \/ \E u, n : Stays(u) /\ tg' = [tg EXCEPT ![n] = u]
         \/ \E u, m, n : Stays(u) /\ tg' = [tg EXCEPT ![m] = Idle, ![n] = u]
  PROVE  \A n \in Nexus : Stays(tg'[n])
<1>1. Stays(Idle)
  BY DEF Stays, Idle
<1> HIDE DEF Stays
<1> QED
  BY <1>1

(* What a target that may not leave does and sends.                        *)
LEMMA StayUnits ==
  ASSUME Base, StayInv, BusSteps
  PROVE  \A n \in Nexus : Stays(tg'[n])
<1>1. /\ IsChip(chip) /\ NULL \notin Nexus
      /\ bus \in Nexus \cup {NULL} /\ tg \in [Nexus -> Units]
      /\ bus # NULL => tg[bus] \in Units /\ IsUnit(tg[bus]) /\ Stays(tg[bus])
  <2>1. NULL \notin Nexus
    BY BusAssumption, AttrTypes DEF Nexus, NexusOf
  <2> QED
    BY <2>1, RecordDomains DEF Base, Types, BusTypes, BusSteps, driverVars, StayInv, NobodyAway
<1>2. ~\E n \in Nexus : Reselect(n)
  BY DEF Reselect, StayInv, NobodyAway, Stays
<1> DEFINE One  == \E u, n : Stays(u) /\ tg' = [tg EXCEPT ![n] = u]
           Two  == \E u, m, n : Stays(u) /\ tg' = [tg EXCEPT ![m] = Idle, ![n] = u]
<1> SUFFICES UNCHANGED tg \/ One \/ Two
  BY <1>1, UnitStays DEF StayInv, NobodyAway
<1>3. CASE Selected
  <2> DEFINE u == [Idle EXCEPT !.ph = "command", !.disc = chip.er]
             v == [Idle EXCEPT !.ph = "select"]
  <2>1. \/ chip.cmd = "level2" /\ bus = NULL /\ tg' = [tg EXCEPT ![bus'] = u]
        \/ tg' = [tg EXCEPT ![bus'] = v]
    BY <1>3 DEF Selected
  <2>2. (chip.cmd = "level2" /\ bus = NULL => Stays(u)) /\ Stays(v)
    BY DEF StayInv, NeverAllowed, Stays, Idle
  <2> QED
    BY <2>1, <2>2
<1>4. CASE TakeCommand
  <2> DEFINE u == [tg[bus] EXCEPT !.ph = "exec", !.cmd = chip.cdb]
  <2>1. bus # NULL /\ tg' = [tg EXCEPT ![bus] = u]
    BY <1>1, <1>4 DEF TakeCommand, Ready
  <2>2. bus # NULL => Stays(u)
    BY <1>1 DEF IsUnit, Stays
  <2> HIDE DEF u
  <2> QED
    BY <2>1, <2>2
<1>5. CASE TakeStatus
  <2> DEFINE u == [tg[bus] EXCEPT !.ph = "complete", !.msgs = COMMAND_COMPLETE]
  <2>1. bus # NULL /\ tg' = [tg EXCEPT ![bus] = u]
    BY <1>1, <1>5 DEF TakeStatus, Ready
  <2>2. bus # NULL => Stays(u)
    BY <1>1 DEF IsUnit, Stays, COMMAND_COMPLETE, DISCONNECT
  <2> HIDE DEF u
  <2> QED
    BY <2>1, <2>2
<1>6. CASE StartData
  <2> DEFINE u == [tg[bus] EXCEPT !.ph = "data"]
  <2>1. bus # NULL /\ tg' = [tg EXCEPT ![bus] = u]
    BY <1>1, <1>6 DEF StartData, Free
  <2>2. bus # NULL => Stays(u)
    BY <1>1 DEF IsUnit, Stays
  <2> HIDE DEF u
  <2> QED
    BY <2>1, <2>2
<1>7. ASSUME NEW st, GiveStatus(st)
      PROVE  One
  <2> DEFINE u == [tg[bus] EXCEPT !.ph = "status", !.st = st]
  <2>1. bus # NULL /\ tg' = [tg EXCEPT ![bus] = u]
    BY <1>1, <1>7 DEF GiveStatus, Free
  <2>2. bus # NULL => Stays(u)
    BY <1>1 DEF IsUnit, Stays
  <2> HIDE DEF u
  <2> QED
    BY <2>1, <2>2
<1>8. CASE StartDisconnect
  BY <1>1, <1>8 DEF StartDisconnect, Free, Stays
<1>9. CASE Quirk
  <2> DEFINE u(m, p, q) == [tg[bus] EXCEPT !.msgs = m, !.odd = TRUE, !.pend = p, !.pos = q]
             said == {SDTR(12), WDTR, OtherExtended, UnknownMessage, RESTORE_POINTERS}
  <2>1. bus # NULL
    BY <1>9 DEF Quirk, Free
  <2>2. \E m \in said : \E p, q : tg' = [tg EXCEPT ![bus] = u(m, p, q)]
    <3>1. \A m : [tg EXCEPT ![bus].msgs = m, ![bus].odd = TRUE]
             = [tg EXCEPT ![bus] = u(m, tg[bus].pend, tg[bus].pos)]
      BY <1>1, <2>1 DEF IsUnit
    <3>2. /\ [tg EXCEPT ![bus].msgs = SDTR(12), ![bus].odd = TRUE, ![bus].pend = "offered"]
             = [tg EXCEPT ![bus] = u(SDTR(12), "offered", tg[bus].pos)]
          /\ [tg EXCEPT ![bus].msgs = RESTORE_POINTERS, ![bus].odd = TRUE,
                        ![bus].pos = tg[bus].saved]
             = [tg EXCEPT ![bus] = u(RESTORE_POINTERS, tg[bus].pend, tg[bus].saved)]
      BY <1>1, <2>1 DEF IsUnit
    <3>3. \/ tg' = [tg EXCEPT ![bus].msgs = SDTR(12), ![bus].odd = TRUE, ![bus].pend = "offered"]
          \/ tg' = [tg EXCEPT ![bus].msgs = RESTORE_POINTERS, ![bus].odd = TRUE,
                              ![bus].pos = tg[bus].saved]
          \/ \E m \in said : tg' = [tg EXCEPT ![bus].msgs = m, ![bus].odd = TRUE]
      BY <1>9 DEF Quirk
    <3>4. SDTR(12) \in said /\ RESTORE_POINTERS \in said
      OBVIOUS
    <3> HIDE DEF u, said
    <3>5. CASE \E m \in said : tg' = [tg EXCEPT ![bus].msgs = m, ![bus].odd = TRUE]
      <4>1. PICK m \in said : tg' = [tg EXCEPT ![bus].msgs = m, ![bus].odd = TRUE]
        BY <3>5
      <4>2. tg' = [tg EXCEPT ![bus] = u(m, tg[bus].pend, tg[bus].pos)]
        BY <3>1, <4>1, Zenon
      <4> QED
        BY <4>2
    <3>6. CASE ~\E m \in said : tg' = [tg EXCEPT ![bus].msgs = m, ![bus].odd = TRUE]
      <4>1. \/ tg' = [tg EXCEPT ![bus] = u(SDTR(12), "offered", tg[bus].pos)]
            \/ tg' = [tg EXCEPT ![bus] = u(RESTORE_POINTERS, tg[bus].pend, tg[bus].saved)]
        BY <3>2, <3>3, <3>6, Zenon
      <4> QED
        BY <3>4, <4>1
    <3> QED
      BY <3>5, <3>6
  <2>3. \A m \in said : \A p, q : Stays(u(m, p, q))
    BY <1>1, <2>1 DEF IsUnit, Stays, SDTR, WDTR, OtherExtended, UnknownMessage,
       RESTORE_POINTERS, DISCONNECT
  <2> HIDE DEF u
  <2> QED
    BY <2>2, <2>3
<1>10. CASE TakeByte
  <2> DEFINE t == tg[bus]
             s == IF t.msgs[1] = SAVE_POINTERS[1] /\ t.ph = "away" THEN t.pos ELSE t.saved
             p == IF Len(t.msgs) = 1 /\ t.pend # "offered" THEN "none" ELSE t.pend
             u == [t EXCEPT !.msgs = Tail(t.msgs), !.saved = s, !.pend = p]
  <2>1. bus # NULL /\ tg' = [tg EXCEPT ![bus] = u] /\ t.msgs # <<>>
    BY <1>1, <1>10 DEF TakeByte, Ready, Phase
  <2>2. t.msgs \in Seq(Nat)
    BY <1>1, <2>1, UnitTypes
  <2>3. \A i \in DOMAIN Tail(t.msgs) : Tail(t.msgs)[i] = t.msgs[i + 1] /\ i + 1 \in DOMAIN t.msgs
    BY <2>1, <2>2
  <2>4. Stays(u)
    <3>1. u.msgs = Tail(t.msgs) /\ u.ph = t.ph /\ u.disc = t.disc
      BY <1>1, <2>1 DEF IsUnit
    <3> HIDE DEF u
    <3> QED
      BY <1>1, <2>1, <2>3, <3>1 DEF Stays
  <2> HIDE DEF u
  <2> QED
    BY <2>1, <2>4
<1>11. CASE Level2Message
  <2> DEFINE t == tg[bus]
             u == [t EXCEPT !.msgs = Tail(t.msgs), !.saved = t.pos]
  <2>1. bus # NULL /\ t.msgs # <<>> /\ t.msgs \in Seq(Nat)
    BY <1>1, <1>11, UnitTypes DEF Level2Message, Ready, Phase
  <2>2. t.msgs # DISCONNECT
    BY <1>1, <2>1 DEF Stays, DISCONNECT
  <2>3. tg' = [tg EXCEPT ![bus] = Idle] \/ tg' = [tg EXCEPT ![bus] = u]
    BY <1>1, <1>11, <2>1, <2>2 DEF Level2Message
  <2>4. \A i \in DOMAIN Tail(t.msgs) : Tail(t.msgs)[i] = t.msgs[i + 1] /\ i + 1 \in DOMAIN t.msgs
    BY <2>1
  <2>5. Stays(u) /\ Stays(Idle)
    <3>1. u.msgs = Tail(t.msgs) /\ u.ph = t.ph /\ u.disc = t.disc
      BY <1>1, <2>1 DEF IsUnit
    <3>2. Stays(Idle)
      BY DEF Stays, Idle
    <3> HIDE DEF u
    <3> QED
      BY <1>1, <2>1, <2>4, <3>1, <3>2 DEF Stays
  <2> HIDE DEF u
  <2> QED
    BY <2>3, <2>5
<1>12. CASE ReleaseBus \/ Drop
  <2>1. tg' = [tg EXCEPT ![bus] = Idle]
    BY <1>1, <1>12 DEF ReleaseBus, Drop, Stays
  <2>2. Stays(Idle)
    BY DEF Stays, Idle
  <2> QED
    BY <2>1, <2>2
<1>13. CASE TakeMessages
  <2> DEFINE ms    == chip.out
             sdtr  == {m.off : m \in {x \in ToSet(ms) : x.msg = "SDTR"}}
             first == ms[1]
             n     == IF first.msg = "IDENTIFY" THEN <<bus[1], first.lun>> ELSE bus
             t     == IF first.msg = "IDENTIFY"
                      THEN [tg[bus] EXCEPT !.ph = "command", !.disc = first.disc]
                      ELSE tg[bus]
             own   == t.pend = "offered"
             off   == CHOOSE x \in sdtr : TRUE
             mode  == IF off > 0 THEN "sync" ELSE "async"
             u(a)  == IF own THEN [t EXCEPT !.pend = "none"]
                      ELSE IF sdtr = {} \/ a = "mute" THEN t
                      ELSE IF a = "agree" THEN [t EXCEPT !.msgs = SDTR(off), !.pend = mode]
                      ELSE [t EXCEPT !.msgs = MESSAGE_REJECT, !.pend = "async"]
  <2>1. /\ bus # NULL /\ chip.cmd = "info" /\ chip.xph = "MESS_OUT"
        /\ ms # <<>> /\ ms \in Seq(OutMessages) /\ ~Disconnects(ms)
    BY <1>13, ChipTypes DEF TakeMessages, Ready, Expected, DataGoesOn, Base, Types, BusTypes,
       SelectInv, IdentifySent, StayInv, NeverAllowed
  <2>2. \E a : tg' = [tg EXCEPT ![bus] = Idle, ![n] = u(a)]
    <3> HIDE DEF sdtr, off
    <3> QED
      BY <1>13 DEF TakeMessages, sdtr, off
  <2>3. first.msg = "IDENTIFY" => ~first.disc
    BY <2>1 DEF Disconnects, Identifies
  <2>4. IsUnit(t) /\ Stays(t)
    <3> HIDE DEF first
    <3> QED
      BY <1>1, <2>1, <2>3 DEF IsUnit, Stays
  <2>5. sdtr # {} => off \in {0, OPTIMUM_SX_OFF}
    <3>1. \A x \in ToSet(ms) : x \in OutMessages
      BY <2>1 DEF ToSet
    <3>2. \A x \in OutMessages : x.msg = "SDTR" => x.off \in {0, OPTIMUM_SX_OFF}
      BY DEF OutMessages
    <3>3. \A x \in sdtr : x \in {0, OPTIMUM_SX_OFF}
      BY <3>1, <3>2
    <3> QED
      BY <3>3
  <2>6. \A a : Stays(u(a))
    <3>1. sdtr # {} => \A i \in DOMAIN SDTR(off) : SDTR(off)[i] # DISCONNECT[1]
      <4> HIDE DEF sdtr, off
      <4> QED
        BY <2>5 DEF SDTR, DISCONNECT, OPTIMUM_SX_OFF
    <3>2. \A i \in DOMAIN MESSAGE_REJECT : MESSAGE_REJECT[i] # DISCONNECT[1]
      BY DEF MESSAGE_REJECT, DISCONNECT
    <3> HIDE DEF t, sdtr, off, mode
    <3>3. Stays([t EXCEPT !.pend = "none"])
      BY <2>4 DEF IsUnit, Stays
    <3>4. ASSUME NEW m, NEW p, \A i \in DOMAIN m : m[i] # DISCONNECT[1]
          PROVE  Stays([t EXCEPT !.msgs = m, !.pend = p])
      BY <2>4, <3>4 DEF IsUnit, Stays
    <3>5. Stays([t EXCEPT !.msgs = MESSAGE_REJECT, !.pend = "async"])
      BY <3>2, <3>4
    <3>6. sdtr # {} => Stays([t EXCEPT !.msgs = SDTR(off), !.pend = mode])
      BY <3>1, <3>4
    <3> QED
      BY <2>4, <3>3, <3>5, <3>6
  <2> HIDE DEF u, n
  <2> QED
    BY <2>2, <2>6
<1> QED
  BY <1>2, <1>3, <1>4, <1>5, <1>6, <1>7, <1>8, <1>9, <1>10, <1>11, <1>12, <1>13
     DEF BusSteps, ChipSteps, TargetSteps, ReportPhase, SelectionTimeout

(* What such a target does and sends, and what the chip makes of it.       *)
LEMMA StayBus ==
  ASSUME Base, StayInv, BusSteps
  PROVE  StayInv'
<1>1. IsChip(chip) /\ UNCHANGED <<hd, scp, pc, sr>>
  BY RecordDomains DEF Base, Types, BusTypes, BusSteps, driverVars
<1>2. NeverAllowed'
  <2>1. /\ chip'.out \in {chip.out, <<>>} /\ chip'.er = chip.er
        /\ chip'.cmd = "level2" /\ bus' = NULL => chip.cmd = "level2" /\ bus = NULL
    BY <1>1, BusLeaves, ChipGoesOn
  <2>2. ~Disconnects(<<>>)
    BY DEF Disconnects, Identifies
  <2> QED
    BY <1>1, <2>1, <2>2 DEF StayInv, NeverAllowed
<1>3. ~Pending("RESEL_AM")'
  <2>1. ~\E n \in Nexus : Reselect(n)
    BY DEF Reselect, StayInv, NobodyAway, Stays
  <2> QED
    BY <1>1, <2>1, BusLeaves DEF Pending, StayInv, NobodyAway
<1> QED
  BY <1>2, <1>3, StayUnits DEF StayInv, NobodyAway

(* While data move nobody leaves.                                          *)
LEMMA StayData ==
  ASSUME Base, StayInv, DataSteps
  PROVE  StayInv'
<1>1. /\ IsChip(chip) /\ NULL \notin Nexus /\ bus \in Nexus \cup {NULL}
      /\ tg \in [Nexus -> Units]
      /\ bus # NULL => IsUnit(tg[bus]) /\ Stays(tg[bus])
  <2>1. NULL \notin Nexus
    BY BusAssumption, AttrTypes DEF Nexus, NexusOf
  <2> QED
    BY <2>1, RecordDomains DEF Base, Types, BusTypes, StayInv, NobodyAway
<1>2. PICK k \in 1..chip.count : MoveData(k) /\ UNCHANGED <<hd, scp, pc, sr>>
  BY DEF DataSteps, DmaMoves, PioMoves, driverVars
<1>3. NeverAllowed'
  BY <1>1, <1>2, BusLeaves, ChipGoesOn DEF StayInv, NeverAllowed, MoveData
<1>4. \A n \in Nexus : Stays(tg'[n])
  <2> DEFINE p == tg[bus].pos + k
             u(ph) == [tg[bus] EXCEPT !.pos = p, !.ph = ph]
  <2>1. bus # NULL /\ \E ph \in {"data", "exec"} : tg' = [tg EXCEPT ![bus] = u(ph)]
    BY <1>1, <1>2 DEF MoveData, Ready
  <2> HIDE DEF p
  <2>2. \A ph \in {"data", "exec"} : Stays(u(ph))
    BY <1>1, <2>1 DEF IsUnit, Stays
  <2> HIDE DEF u
  <2> QED
    BY <1>1, <2>1, <2>2, UnitStays DEF StayInv, NobodyAway
<1>5. ~Pending("RESEL_AM")'
  <2>1. ~\E n \in Nexus : Reselect(n)
    BY DEF Reselect, StayInv, NobodyAway, Stays
  <2> QED
    BY <1>1, <1>2, <2>1, BusLeaves DEF Pending, StayInv, NobodyAway
<1> QED
  BY <1>3, <1>4, <1>5 DEF StayInv, NobodyAway

(* Every step keeps the targets where they are.                            *)
LEMMA StayKept ==
  ASSUME Base, StayInv, Staying, [Next]_vars
  PROVE  StayInv'
<1>1. IsChip(chip) /\ IsHost(hd) /\ scp \in [Cmds -> Pointers]
  BY RecordDomains DEF Base, Types, HostTypes, BusTypes, PointersOk
<1>2. CASE UNCHANGED vars
  BY <1>2 DEF StayInv, NeverAllowed, NobodyAway, Pending, vars, driverVars, busVars
<1>3. ASSUME NEW c \in Cmds, Queue(c) \/ TimesOut(c) \/ Abort(c)
      PROVE  StayInv'
  <2>1. UNCHANGED <<chip, bus, tg, sr>> /\ pc = "idle" /\ pc' \in {"idle", "execute"}
    BY <1>3 DEF Queue, QueueCommand, TimesOut, Abort, busVars
  <2>2. hd'.disconnect = hd.disconnect /\ hd'.outgoing_msg = hd.outgoing_msg
    BY <1>1, <1>3 DEF Queue, QueueCommand, TimesOut, Abort, IsHost
  <2>3. \A x \in Cmds : ~scp'[x].phase
    <3>1. UNCHANGED scp \/ scp' = [scp EXCEPT ![c] = FreshSCp(c)]
      BY <1>3 DEF Queue, QueueCommand, TimesOut, Abort
    <3>2. ~FreshSCp(c).phase
      BY DEF FreshSCp
    <3> QED
      BY <1>1, <3>1, <3>2 DEF StayInv, NeverAllowed
  <2> QED
    BY <2>1, <2>2, <2>3 DEF StayInv, NeverAllowed, NobodyAway, Pending
<1>4. CASE Execute
  <2>1. UNCHANGED <<bus, tg, sr>> /\ pc' = "idle"
    BY <1>4 DEF Execute, targetVars
  <2>2. NeverAllowed' /\ chip'.int = chip.int
    <3>1. CASE CannotStart
      BY <1>4, <2>1, <3>1 DEF Execute, StayInv, NeverAllowed
    <3>2. CASE ~CannotStart
      BY <1>4, <2>1, <3>2, StayStart DEF Execute, StayInv, Base
    <3> QED
      BY <3>1, <3>2
  <2> QED
    BY <2>1, <2>2 DEF StayInv, NobodyAway, Pending
<1>5. CASE Interrupt
  <2>1. /\ chip.int # "none" /\ sr'.csr = chip.int /\ pc' = "handle"
        /\ chip' = [chip EXCEPT !.int = "none"] /\ UNCHANGED <<bus, tg>>
        /\ hd' = hd \/ hd' = DmaStop(hd, TRUE)
        /\ UNCHANGED scp \/ scp' = [scp EXCEPT ![hd.connected] = Moved(hd.connected)]
    BY <1>5 DEF Interrupt, targetVars
  <2>2. /\ chip'.cmd = chip.cmd /\ chip'.er = chip.er /\ chip'.out = chip.out
        /\ chip'.int = "none"
    BY <1>1, <2>1 DEF IsChip
  <2>3. hd'.disconnect = hd.disconnect /\ hd'.outgoing_msg = hd.outgoing_msg
    BY <1>1, <2>1 DEF DmaStop, IsHost
  <2>4. \A x \in Cmds : ~scp'[x].phase
    <3>1. \A x \in Cmds : ~scp[x].phase /\ ~Moved(x).phase
      BY <1>1 DEF StayInv, NeverAllowed, Pointers, Moved
    <3>2. \A x \in Cmds : scp'[x] \in {scp[x], Moved(x)}
      BY <1>1, <2>1
    <3> QED
      BY <3>1, <3>2
  <2> QED
    BY <2>1, <2>2, <2>3, <2>4 DEF StayInv, NeverAllowed, NobodyAway, Pending
<1>6. CASE HandleInterrupt
  <2>1. UNCHANGED tg
    BY <1>6 DEF HandleInterrupt, OnTimeout, OnSelect, OnData, OnCommand,
         OnMessageOut, OnStatus, OnMessageIn, OnSelXferDone, OnUnexpDisc,
         AlreadyDisconnected, OnDisc, OnSdp, OnReselect, OnStrayReselect, Rest, targetVars
  <2> QED
    BY <1>6, <2>1, StayHandle DEF StayInv, NobodyAway, Pending
<1>7. CASE HostReset
  <2>1. /\ chip' = ChipReset /\ hd' = Forgotten(hd) /\ UNCHANGED <<scp, pc, sr>> /\ pc = "idle"
        /\ tg' = IF bus = NULL THEN tg ELSE [tg EXCEPT ![bus] = Idle]
    BY <1>7 DEF HostReset
  <2>2. hd'.disconnect = hd.disconnect /\ hd'.outgoing_msg = <<>>
    BY <1>1, <2>1 DEF Forgotten, IsHost
  <2>3. NeverAllowed'
    BY <2>1, <2>2 DEF StayInv, NeverAllowed, ChipReset, Disconnects, Identifies
  <2>4. \A n \in Nexus : Stays(tg'[n])
    <3>1. Stays(Idle)
      BY DEF Stays, Idle
    <3> QED
      BY <2>1, <3>1, UnitStays DEF StayInv, NobodyAway, Base, Types, BusTypes
  <2>5. ~Pending("RESEL_AM")'
    BY <2>1 DEF Pending, ChipReset
  <2> QED
    BY <2>3, <2>4, <2>5 DEF StayInv, NobodyAway
<1>8. CASE WriteInfo
  <2>1. UNCHANGED <<scp, chip, bus, tg, pc, sr>>
    BY <1>8 DEF WriteInfo, busVars
  <2>2. hd'.disconnect = DIS_NEVER /\ hd'.outgoing_msg = hd.outgoing_msg
    BY <1>1, <1>8, StaySettings DEF StayInv, NeverAllowed
  <2> QED
    BY <2>1, <2>2 DEF StayInv, NeverAllowed, NobodyAway, Pending
<1> QED
  BY <1>2, <1>3, <1>4, <1>5, <1>6, <1>7, <1>8, StayPoll, StayAbort, StayBus, StayData DEF Next

(* Where nobody leaves, nobody comes back.                                 *)
LEMMA StayKnown ==
  ASSUME StayInv
  PROVE  Known
BY DEF StayInv, NobodyAway, Pending, Known

(* What the abort of a command, on such a machine, leaves of it: nobody    *)
(* but the unit on the bus has a command, and when wd33c93_abort has given *)
(* DISCONNECT nobody is on the bus and the chip has nothing to do.         *)
OverInv ==
  /\ \A n \in Nexus : n # bus => tg[n].cmd = NULL
  /\ eh.at = "finish" \/ eh.ok => bus = NULL /\ chip.cmd = "none"

(* No unit has a command at the start.                                     *)
LEMMA OverInit ==
  ASSUME Init
  PROVE  OverInv
BY DEF Init, BusInit, DriverInit, NotAborting, Idle, OverInv

(* A unit that leaves the bus forgets its command.                         *)
LEMMA OverUnits ==
  ASSUME Base, StayInv, OverInv, BusSteps \/ DataSteps
  PROVE  \A n \in Nexus : n # bus' => tg'[n].cmd = NULL
<1>1. /\ NULL \notin Nexus /\ bus \in Nexus \cup {NULL} /\ tg \in [Nexus -> Units]
      /\ bus # NULL => IsUnit(tg[bus]) /\ Stays(tg[bus])
      /\ \A n \in Nexus : n # bus => tg[n].cmd = NULL
  <2>1. NULL \notin Nexus
    BY BusAssumption, AttrTypes DEF Nexus, NexusOf
  <2> QED
    BY <2>1, RecordDomains DEF Base, Types, BusTypes, StayInv, NobodyAway, OverInv
<1>2. Idle.cmd = NULL
  BY DEF Idle
<1> DEFINE Same == bus' = bus /\ \A n \in Nexus : n # bus => tg'[n] = tg[n]
           Frees == bus' = NULL /\ tg' = [tg EXCEPT ![bus] = Idle]
           Moves == \E n, u : bus' = n /\ tg' = [tg EXCEPT ![bus] = Idle, ![n] = u]
           Joins == bus = NULL /\ \E n, u : bus' = n /\ tg' = [tg EXCEPT ![n] = u]
<1> SUFFICES Same \/ Frees \/ Moves \/ Joins
  <2>1. CASE Same
    BY <1>1, <2>1
  <2>2. CASE Frees
    BY <1>1, <1>2, <2>2
  <2>3. CASE Moves
    <3>1. PICK n, u : bus' = n /\ tg' = [tg EXCEPT ![bus] = Idle, ![n] = u]
      BY <2>3
    <3>2. \A m \in Nexus : m # n => tg'[m] \in {tg[m], Idle} /\ (m # bus => tg'[m] = tg[m])
      BY <1>1, <3>1
    <3>3. \A m \in Nexus : m # n /\ m = bus => tg'[m] = Idle
      BY <1>1, <3>1
    <3> QED
      BY <1>1, <1>2, <3>1, <3>2, <3>3
  <2>4. CASE Joins
    BY <1>1, <2>4
  <2> QED
    BY <2>1, <2>2, <2>3, <2>4
<1>3. CASE DataSteps
  <2>1. PICK k : MoveData(k)
    BY <1>3 DEF DataSteps, DmaMoves, PioMoves
  <2>2. Same
    BY <1>1, <2>1 DEF MoveData
  <2> QED
    BY <2>2
<1>4. CASE Selected
  <2>1. Joins
    BY <1>4 DEF Selected
  <2> QED
    BY <2>1
<1>5. CASE TakeMessages
  <2>1. Moves
    BY <1>5 DEF TakeMessages
  <2> QED
    BY <2>1
<1>6. CASE TakeCommand \/ TakeStatus \/ TakeByte \/ ReportPhase \/ SelectionTimeout
  <2>1. Same
    BY <1>1, <1>6 DEF TakeCommand, TakeStatus, TakeByte, ReportPhase, SelectionTimeout
  <2> QED
    BY <2>1
<1>7. CASE TargetSteps
  <2>1. Same
    BY <1>1, <1>7 DEF TargetSteps, StartData, GiveStatus, StartDisconnect, Quirk
  <2> QED
    BY <2>1
<1>8. CASE ReleaseBus \/ Drop
  <2>1. Frees
    BY <1>1, <1>8 DEF ReleaseBus, Drop, Stays
  <2> QED
    BY <2>1
<1>9. CASE Level2Message
  <2>1. bus # NULL /\ tg[bus].msgs # <<>> /\ tg[bus].msgs \in Seq(Nat)
    BY <1>1, <1>9, UnitTypes DEF Level2Message, Ready, Phase
  <2>2. tg[bus].msgs # DISCONNECT
    BY <1>1, <2>1 DEF Stays, DISCONNECT
  <2>3. Frees \/ Same
    BY <1>1, <1>9, <2>1, <2>2 DEF Level2Message
  <2> QED
    BY <2>3
<1>10. ~\E n \in Nexus : Reselect(n)
  BY DEF Reselect, StayInv, NobodyAway, Stays
<1> QED
  BY <1>3, <1>4, <1>5, <1>6, <1>7, <1>8, <1>9, <1>10 DEF BusSteps, ChipSteps

(* With the bus free and the chip at rest nothing happens on the bus, for  *)
(* no unit is away to reselect.                                            *)
LEMMA OverAtRest ==
  ASSUME StayInv, bus = NULL, chip.cmd = "none"
  PROVE  ~BusSteps /\ ~DataSteps
BY DEF BusSteps, DataSteps, ChipSteps, TargetSteps, Selected, ReportPhase, TakeCommand,
   TakeMessages, TakeStatus, TakeByte, Level2Message, ReleaseBus, StartData, GiveStatus,
   StartDisconnect, Quirk, SelectionTimeout, Drop, Reselect, DmaMoves, PioMoves, MoveData,
   Ready, Free, StayInv, NobodyAway, Stays

(* wd33c93_abort frees the bus before it gives the command back.           *)
LEMMA OverAbort ==
  ASSUME Base, OverInv, AbortSteps
  PROVE  OverInv'
<1>1. /\ IsChip(chip) /\ pc = "idle" /\ tg \in [Nexus -> Units] /\ eh \in AbortStates
      /\ bus \in Nexus \cup {NULL} /\ NULL \notin Nexus
      /\ eh.ok => eh.at \in {"check", "start"}
  <2>1. NULL \notin Nexus
    BY BusAssumption, AttrTypes DEF Nexus, NexusOf
  <2> QED
    BY <2>1, RecordDomains DEF Base, Types, BusTypes, HostTypes, AbortSteps, AbortQueued,
       AbortConnected, AbortFlush, AbortFinish, AbortDisconnected, AbortUnknown, AbortChecks,
       AbortStarts, Aborting, AbortInv
<1>2. CASE AbortFlush
  <2>1. /\ chip' = [chip EXCEPT !.int = "none", !.cmd = "none", !.ack = FALSE, !.atn = FALSE]
        /\ tg' = (IF bus = NULL THEN tg ELSE [tg EXCEPT ![bus] = Idle]) /\ bus' = NULL
    BY <1>2 DEF AbortFlush
  <2>2. \A n \in Nexus : tg'[n] = IF n = bus THEN Idle ELSE tg[n]
    BY <1>1, <2>1
  <2>3. Idle.cmd = NULL /\ chip'.cmd = "none"
    BY <1>1, <2>1 DEF Idle, IsChip
  <2> QED
    BY <2>1, <2>2, <2>3 DEF OverInv
<1>3. CASE AbortFinish
  <2>1. chip'.cmd = chip.cmd
    BY <1>1, <1>3 DEF AbortFinish, Cleared, IsChip
  <2> QED
    BY <1>3, <2>1 DEF AbortFinish, Aborting, targetVars, OverInv
<1>4. CASE AbortConnected \/ AbortUnknown
  <2>1. UNCHANGED <<bus, tg>> /\ eh.at = "find"
        /\ (eh' = [eh EXCEPT !.at = "flush"] \/ (eh' = [eh EXCEPT !.at = "check"]))
    BY <1>4 DEF AbortConnected, AbortUnknown, Aborting, targetVars, busVars
  <2>2. eh'.at \in {"flush", "check"} /\ ~eh'.ok
    BY <1>1, <2>1 DEF AbortStates
  <2> QED
    BY <2>1, <2>2 DEF OverInv
<1>5. CASE AbortQueued \/ AbortDisconnected \/ AbortStarts
  BY <1>5 DEF AbortQueued, AbortDisconnected, AbortStarts, AbortReturns, NotAborting,
     targetVars, busVars, OverInv
<1>6. CASE AbortChecks
  <2>1. UNCHANGED <<chip, bus, tg>> /\ eh.at = "check"
        /\ (eh' = NotAborting \/ (eh' = [eh EXCEPT !.at = "start"]))
    BY <1>6 DEF AbortChecks, AbortReturns, Aborting, busVars
  <2>2. eh'.at # "finish" /\ (eh'.ok => eh.ok)
    BY <1>1, <2>1 DEF AbortStates, NotAborting
  <2> QED
    BY <2>1, <2>2 DEF OverInv
<1> QED
  BY <1>2, <1>3, <1>4, <1>5, <1>6 DEF AbortSteps

(* Every step keeps it.                                                    *)
LEMMA OverKept ==
  ASSUME Base, StayInv, OverInv, [Next]_vars
  PROVE  OverInv'
<1>1. /\ eh.at # "none" => pc = "idle"
      /\ eh.ok => eh.at \in {"check", "start"}
  BY DEF Base, AbortInv
<1>2. CASE UNCHANGED vars
  BY <1>2 DEF OverInv, vars, driverVars, busVars
<1>3. ASSUME NEW c \in Cmds, Queue(c) \/ TimesOut(c)
      PROVE  OverInv'
  BY <1>3 DEF Queue, QueueCommand, TimesOut, busVars, OverInv
<1>4. ASSUME NEW c \in Cmds, Abort(c)
      PROVE  OverInv'
  BY <1>4 DEF Abort, busVars, OverInv
<1>5. CASE Execute \/ Interrupt \/ HandleInterrupt \/ PollEnds
  <2>1. eh.at = "none" /\ UNCHANGED <<bus, tg, eh>>
    <3>1. CASE Execute \/ Interrupt
      BY <1>1, <3>1 DEF Execute, Interrupt, targetVars
    <3>2. CASE HandleInterrupt
      BY <1>1, <3>2, HandleLeaves DEF HandleInterrupt, OnTimeout, OnSelect, OnData, OnCommand,
         OnMessageOut, OnStatus, OnMessageIn, OnSelXferDone, OnUnexpDisc,
         AlreadyDisconnected, OnDisc, OnSdp, OnReselect, OnStrayReselect, Rest, targetVars,
         Case, CommandCase
    <3>3. CASE PollEnds
      BY <1>1, <3>3 DEF PollEnds, PioDone, SentDone, StatusRead, OnComplete, OnSave,
         OnDisconnect, OnRestore, OnReject, OnUnknown, OnExtendedByte, OnSdtr, OnWdtr,
         OnOtherExtended, MessageRead, Rest, targetVars
    <3> QED
      BY <1>5, <3>1, <3>2, <3>3
  <2> QED
    BY <1>1, <2>1 DEF OverInv
<1>6. CASE AbortSteps
  BY <1>6, OverAbort
<1>7. CASE HostReset
  <2>1. /\ bus' = NULL /\ UNCHANGED eh /\ eh.at = "none"
        /\ tg' = IF bus = NULL THEN tg ELSE [tg EXCEPT ![bus] = Idle]
    BY <1>7 DEF HostReset
  <2>2. \A n \in Nexus : tg'[n] = IF n = bus THEN Idle ELSE tg[n]
    <3>1. tg \in [Nexus -> Units] /\ bus \in Nexus \cup {NULL} /\ NULL \notin Nexus
      BY BusAssumption, AttrTypes DEF Base, Types, BusTypes, Nexus, NexusOf
    <3> QED
      BY <2>1, <3>1
  <2>3. Idle.cmd = NULL
    BY DEF Idle
  <2> QED
    BY <1>1, <2>1, <2>2, <2>3 DEF OverInv
<1>8. CASE WriteInfo
  BY <1>8 DEF WriteInfo, busVars, OverInv
<1>9. CASE BusSteps \/ DataSteps
  <2>1. UNCHANGED eh
    BY <1>9 DEF BusSteps, DataSteps, DmaMoves, PioMoves, driverVars
  <2> QED
    BY <1>9, <2>1, OverUnits, OverAtRest DEF OverInv
<1> QED
  BY <1>2, <1>3, <1>4, <1>5, <1>6, <1>7, <1>8, <1>9 DEF Next

(* So a command that has been aborted is over at its target.               *)
LEMMA OverSays ==
  ASSUME Base, OverInv
  PROVE  AbortedIsOver
<1> SUFFICES ASSUME eh.at \in {"check", "start"}, eh.ok
             PROVE  tg[NexusOf(eh.cmd)].cmd # eh.cmd
  BY DEF AbortedIsOver
<1>1. eh.cmd \in Cmds /\ eh.cmd # NULL /\ NexusOf(eh.cmd) \in Nexus
  BY AttrTypes DEF Base, AbortInv, Nexus
<1>2. NULL \notin Nexus
  BY BusAssumption, AttrTypes DEF Nexus, NexusOf
<1> QED
  BY <1>1, <1>2 DEF OverInv

-------------------------------------------------------------------------------
(* 2.  Commands that do not time out.  Every unit off the bus is idle, or  *)
(* waits to come back with a command of disconnected_Q; the one on the bus *)
(* serves the connected command; what ends a connection is told to the     *)
(* driver with a command connected, and the messages that announce the end *)
(* have been read before it comes.                                         *)

Calm == setup.timeouts = {} /\ setup.level2 >= L2_NONE

NobodyGivenUp == eh.at = "none" /\ \A x \in Cmds : req[x].st \in {"free", "queued", "done"}

(* The command of a target that is leaving to come back.                   *)
Over == {"DISC", "UNEXP_DISC", "SEL_XFER_DONE"}
Ending == Pending("DISC") \/ Pending("UNEXP_DISC") \/ Pending("SEL_XFER_DONE")
Leaver == IF Pending("DISC") /\ hd.state # "S_PRE_CMP_DISC" THEN {hd.connected} ELSE {}
Gone == Away \cup Leaver

OffBus(u) ==
  /\ u.msgs = <<>>
  /\ \/ u.ph = "idle" /\ u.cmd = NULL
     \/ u.ph = "disc" /\ u.cmd \in Gone
UnitsInv ==
  /\ \A n \in Nexus : tg[n].cmd # NULL => NexusOf(tg[n].cmd) = n
  /\ \A n \in Nexus : n # bus => OffBus(tg[n])
  /\ \A x \in Gone : tg[NexusOf(x)].cmd = x

(* Who is on the bus: the target of the connected command, one that has    *)
(* just been selected, or one that is back.                                *)
InConnection ==
  /\ hd.connected # NULL /\ bus = NexusOf(hd.connected)
  /\ ~Ending /\ ~Pending("SELECT") /\ ~Pending("RESEL_AM") /\ ~Pending("TIMEOUT")
  /\ tg[bus].ph \notin {"idle", "disc"}
  /\ tg[bus].cmd = IF tg[bus].ph \in {"select", "command"} THEN NULL ELSE hd.connected
BusInv ==
  /\ bus = NULL /\ hd.connected # NULL => chip.cmd = "level2" \/ Pending("TIMEOUT") \/ Ending
  /\ bus # NULL =>
       \/ InConnection
       \/ Pending("SELECT") /\ tg[bus].cmd = NULL
       \/ /\ Pending("RESEL_AM") /\ tg[bus].ph = "exec" /\ tg[bus].msgs = <<>>
          /\ tg[bus].cmd \in Gone

(* The end of a connection, and what else the driver may be told before it *)
(* has handled an interrupt.                                               *)
EndInv ==
  /\ Ending => hd.connected # NULL
  /\ Ending /\ Leaver = {} => tg[NexusOf(hd.connected)].cmd # hd.connected
  /\ Pending("DISC") => hd.state \in {"S_PRE_CMP_DISC", "S_PRE_TMP_DISC", "S_RUNNING_LEVEL2"}
  /\ chip.int \in {"DISC", "SEL_XFER_DONE"} => pc \in {"idle", "execute"}
  /\ chip.int # "ABORT"
  /\ pc = "handle" =>
       \/ sr.csr \in Over \cup {"TIMEOUT"} /\ chip.int \in {"none", "RESEL_AM"}
       \/ sr.csr \in Phases /\ chip.int \in {"none", "UNEXP_DISC"}
       \/ sr.csr = "SELECT" /\ chip.int \in {"none"} \cup Phases
       \/ sr.csr \in {"SDP", "RESEL_AM"} /\ chip.int = "none"

(* A level-2 command is for the connected command, and one that a          *)
(* reselection has beaten had not begun.                                   *)
Beaten(phs) == hd.connected = NULL \/ (hd.level2 > L2_NONE /\ phs = 0)
Level2Inv ==
  /\ chip.cmd = "level2" => /\ hd.connected # NULL /\ hd.state = "S_RUNNING_LEVEL2"
                            /\ hd.level2 > L2_NONE
                            /\ bus = NULL => chip.phs = 0
                            /\ bus = NULL \/ chip.phs = \h20 => chip.cdb = hd.connected
  /\ Pending("SDP") => hd.level2 > L2_NONE
  /\ chip.cmd = "info" /\ chip.xph = "COMMAND" => chip.cdb = hd.connected
  /\ chip.int = "RESEL_AM" => \/ Beaten(chip.phs)
                              \/ pc = "handle" /\ sr.csr \in Over \cup {"TIMEOUT"}
  /\ pc = "handle" /\ sr.csr = "RESEL_AM" => sr.src = bus /\ Beaten(sr.phs)

(* The message coming in, from its first byte: an extended one, whose end  *)
(* is still to come, or one of a byte.  No level-2 command begins within.  *)
Left == (IF chip.int = "MSGIN" THEN <<chip.byte>> ELSE <<>>) \o tg[bus].msgs
In == hd.incoming_msg \o Left
Parting == {"away", "complete"}
InExtended ==
  /\ Left # <<>> /\ Len(In) >= 3 /\ In[1] = 1 /\ Len(In) = In[2] + 2
  /\ tg[bus].ph \notin Parting
MessagesInv ==
  /\ bus = NULL => hd.incoming_msg = <<>>
  /\ bus # NULL =>
     /\ hd.incoming_msg # <<>> =>
          InExtended /\ chip.cmd # "level2" /\ pc # "status" /\ ~Pending("SDP")
     /\ hd.incoming_msg = <<>> /\ Left # <<>> =>
          \/ InExtended
          \/ Left \in {RESTORE_POINTERS, MESSAGE_REJECT, UnknownMessage} /\ tg[bus].ph \notin Parting
          \/ Left = COMMAND_COMPLETE /\ tg[bus].ph = "complete"
          \/ Left \in {DISCONNECT, SAVE_POINTERS \o DISCONNECT} /\ tg[bus].ph = "away"
     /\ Left = <<>> /\ tg[bus].ph \in Parting =>
          /\ pc \in {"idle", "execute"} /\ chip.int = "none" /\ chip.cmd = "none"
          /\ hd.state = IF tg[bus].ph = "away" THEN "S_PRE_TMP_DISC" ELSE "S_PRE_CMP_DISC"

(* The IDENTIFY is for the LUN of the connected command.                   *)
IdentifyInv ==
  /\ chip.atn /\ ~Pending("SELECT") /\ Identifies(hd.outgoing_msg) =>
       hd.connected # NULL /\ hd.outgoing_msg[1].lun = Attr[hd.connected].lun
  /\ chip.cmd = "info" /\ chip.xph = "MESS_OUT" /\ Identifies(chip.out) =>
       /\ hd.connected # NULL /\ chip.out[1].lun = Attr[hd.connected].lun
       /\ bus # NULL /\ tg[bus].ph = "select"

CalmInv ==
  /\ NobodyGivenUp /\ UnitsInv /\ BusInv /\ EndInv /\ Level2Inv /\ MessagesInv /\ IdentifyInv

(* Nobody who is away has the unit of the command under way.               *)
LEMMA GoneElsewhere ==
  ASSUME Types, Books, NEW c \in {hd.selecting, hd.connected}, c # NULL, ~Pending("DISC")
  PROVE  Gone = Away /\ \A x \in Gone : NexusOf(x) # NexusOf(c)
<1>1. Gone = Away
  BY DEF Gone, Leaver
<1>2. c \notin Away /\ c \in Started
  BY DEF Books, Started
<1>3. \A x \in Away : x \in Started
  BY OfCommands DEF Started
<1> QED
  BY <1>1, <1>2, <1>3 DEF Books, OneCommandPerUnit

(* The chip serves a phase, or the target goes on, of the connected        *)
(* command.                                                                *)
LEMMA OnBus ==
  ASSUME Base, CalmInv, bus # NULL, chip.int = "none",
         chip.cmd # "none" \/ (~chip.ack /\ tg[bus].ph # "select")
  PROVE  /\ InConnection /\ bus \in Nexus /\ hd.connected \in Cmds
         /\ pc = "handle" => sr.csr \in Phases
         /\ chip.cmd # "none" => ~InDriver \/ chip.cmd = "info"
<1>1. Types /\ ChipInv /\ SelectInv /\ BusInv /\ EndInv
  BY DEF Base, CalmInv
<1>2. ~Pending("SELECT") /\ ~Pending("RESEL_AM")
  BY <1>1 DEF Pending, ChipInv, SelectInv, SelectTold
<1>3. InConnection
  BY <1>1, <1>2 DEF BusInv
<1>4. hd.connected \in Cmds /\ bus \in Nexus
  BY <1>1, <1>3, HostFieldTypes DEF Types, HostTypes, BusTypes, InConnection
<1>5. pc = "handle" => sr.csr \in Phases
  BY <1>1, <1>2, <1>3 DEF Pending, EndInv, InConnection, Ending, Over, ChipInv
<1>6. chip.cmd # "none" => ~InDriver \/ chip.cmd = "info"
  BY <1>1 DEF ChipInv
<1> QED
  BY <1>3, <1>4, <1>5, <1>6

(* A step in a connection that goes on.                                    *)
LEMMA Serves ==
  ASSUME Base, CalmInv, InConnection, bus \in Nexus, bus # NULL, chip.int = "none",
         pc = "handle" => sr.csr \in Phases,
         UNCHANGED <<hd, pc, sr, bus>>, NEW u, tg' = [tg EXCEPT ![bus] = u],
         u.ph \notin {"idle", "disc"},
         u.cmd = IF u.ph \in {"select", "command"} THEN NULL ELSE hd.connected,
         \/ chip'.int \in {"none"} \cup Phases /\ (pc = "handle" => chip'.int = "none")
         \/ chip'.int = "MSGIN" /\ pc # "handle"
         \/ chip'.int = "SDP" /\ pc # "handle" /\ hd.level2 > L2_NONE,
         chip'.cmd \in {chip.cmd, "none"}, chip'.xph = chip.xph, chip'.cdb = chip.cdb,
         chip'.cmd = "level2" => chip'.phs \in {chip.phs, \h30, \h46, \h50},
         chip'.atn => chip.atn, chip'.out \in {chip.out, <<>>},
         chip'.cmd = "info" /\ tg[bus].ph = "select" => u.ph = "select"
  PROVE  UnitsInv' /\ BusInv' /\ EndInv' /\ Level2Inv' /\ IdentifyInv'
<1>1. /\ hd.connected \in Cmds /\ bus = NexusOf(hd.connected) /\ tg \in [Nexus -> Units]
      /\ hd.connected # NULL
  BY HostFieldTypes DEF Base, Types, HostTypes, BusTypes, InConnection
<1>2. ~Pending("DISC") /\ ~Pending("DISC")' /\ ~Ending' /\ ~Pending("SELECT")
      /\ ~Pending("SELECT")' /\ ~Pending("RESEL_AM")' /\ ~Pending("TIMEOUT")'
  BY DEF Pending, Phases, Ending, InConnection
<1>3. Gone' = Gone /\ \A x \in Gone : NexusOf(x) # bus
  <2>1. Gone = Away /\ \A x \in Gone : NexusOf(x) # bus
    BY <1>1, <1>2, GoneElsewhere DEF Base
  <2> QED
    BY <1>2, <2>1 DEF Gone, Leaver, Away
<1>4. UnitsInv'
  <2>1. \A n \in Nexus : tg'[n] = IF n = bus THEN u ELSE tg[n]
    BY <1>1
  <2>2. \A x \in Gone : NexusOf(x) \in Nexus
    BY <1>2, OfCommands, AttrTypes DEF Base, Gone, Leaver
  <2>3. \A n \in Nexus : n # bus => OffBus(tg[n])'
    BY <1>3, <2>1 DEF CalmInv, UnitsInv, OffBus
  <2> QED
    BY <1>1, <1>3, <2>1, <2>2, <2>3 DEF CalmInv, UnitsInv
<1>5. InConnection'
  BY <1>1, <1>2 DEF InConnection
<1>6. BusInv'
  BY <1>1, <1>5 DEF BusInv
<1>7. EndInv'
  <2>1. chip'.int \notin {"DISC", "SEL_XFER_DONE", "ABORT"}
    BY DEF Phases
  <2> QED
    BY <1>2, <2>1 DEF EndInv, CalmInv
<1>8. Level2Inv'
  <2>1. Level2Inv
    BY DEF CalmInv
  <2>2. chip.cmd = "level2" \/ chip'.cmd # "level2"
    OBVIOUS
  <2>3. Pending("SDP")' => hd.level2 > L2_NONE
    BY <2>1 DEF Level2Inv, Pending, Phases
  <2>4. chip'.int # "RESEL_AM" /\ (pc = "handle" => sr.csr # "RESEL_AM")
    BY <1>2 DEF Pending
  <2> QED
    BY <1>1, <2>1, <2>2, <2>3, <2>4 DEF Level2Inv
<1>9. IdentifyInv'
  BY <1>1, <1>2 DEF CalmInv, IdentifyInv, Identifies
<1> QED
  BY <1>4, <1>6, <1>7, <1>8, <1>9

(* A target leaves the bus, and the chip says so.                          *)
LEMMA Leaves ==
  ASSUME Base, CalmInv, InConnection, bus \in Nexus, bus # NULL, chip.int = "none",
         pc = "handle" => sr.csr \in Phases,
         UNCHANGED <<hd, pc, sr>>, bus' = NULL, NEW u, tg' = [tg EXCEPT ![bus] = u],
         chip'.cmd = "none", chip'.int \in Over,
         chip'.int \in {"DISC", "SEL_XFER_DONE"} => pc \in {"idle", "execute"},
         chip'.atn => chip.atn,
         \/ u = Idle /\ (chip'.int = "DISC" => hd.state = "S_PRE_CMP_DISC")
         \/ /\ u.ph = "disc" /\ u.msgs = <<>> /\ u.cmd = hd.connected
            /\ chip'.int = "DISC" /\ hd.state \in {"S_PRE_TMP_DISC", "S_RUNNING_LEVEL2"},
         hd.incoming_msg = <<>>
  PROVE  UnitsInv' /\ BusInv' /\ EndInv' /\ Level2Inv' /\ MessagesInv' /\ IdentifyInv'
<1>1. /\ hd.connected \in Cmds /\ bus = NexusOf(hd.connected) /\ tg \in [Nexus -> Units]
      /\ hd.connected # NULL
  BY HostFieldTypes DEF Base, Types, HostTypes, BusTypes, InConnection
<1>2. ~Pending("DISC") /\ ~Pending("SELECT") /\ ~Pending("SELECT")' /\ Ending'
      /\ (Pending("DISC")' <=> chip'.int = "DISC")
  BY DEF Pending, Ending, InConnection, Over, Phases
<1>3. Gone = Away /\ \A x \in Gone : NexusOf(x) # bus
  BY <1>1, <1>2, GoneElsewhere DEF Base
<1>4. /\ u = Idle => Leaver' = {}
      /\ u # Idle => u.ph = "disc" /\ u.msgs = <<>> /\ u.cmd = hd.connected /\ Leaver' = {hd.connected}
      /\ Gone' = Gone \cup Leaver'
  <2>1. u = Idle => u.ph # "disc"
    BY DEF Idle
  <2>2. Leaver' = IF chip'.int = "DISC" /\ hd.state # "S_PRE_CMP_DISC" THEN {hd.connected} ELSE {}
    BY <1>2 DEF Leaver
  <2>3. Gone' = Away \cup Leaver'
    BY DEF Gone, Away
  <2> QED
    BY <1>3, <2>1, <2>2, <2>3
<1>5. \A n \in Nexus : tg'[n] = IF n = bus THEN u ELSE tg[n]
  BY <1>1
<1>6. UnitsInv'
  <2>1. \A x \in Gone : NexusOf(x) \in Nexus
    BY <1>3, OfCommands, AttrTypes DEF Base
  <2>3. \A n \in Nexus : OffBus(tg[n])'
    <3>1. \A n \in Nexus : n # bus => OffBus(tg[n])'
      BY <1>4, <1>5 DEF CalmInv, UnitsInv, OffBus
    <3>2. \A n \in Nexus : n = bus => OffBus(tg[n])'
      BY <1>1, <1>4, <1>5 DEF OffBus, Idle
    <3> QED
      BY <1>1, <3>1, <3>2
  <2>4. \A x \in Gone' : tg'[NexusOf(x)].cmd = x
    BY <1>1, <1>3, <1>4, <1>5, <2>1 DEF CalmInv, UnitsInv
  <2>5. \A n \in Nexus : tg'[n].cmd # NULL => NexusOf(tg'[n].cmd) = n
    BY <1>1, <1>4, <1>5 DEF CalmInv, UnitsInv, Idle
  <2> QED
    BY <2>3, <2>4, <2>5 DEF UnitsInv
<1>7. BusInv'
  BY <1>2 DEF BusInv
<1>8. EndInv'
  <2>1. EndInv /\ chip'.int # "ABORT"
    BY DEF CalmInv, Over
  <2>2. Leaver' = {} => tg'[NexusOf(hd.connected)].cmd # hd.connected
    BY <1>1, <1>4, <1>5 DEF Idle
  <2>3. pc = "handle" => chip'.int = "UNEXP_DISC" /\ sr.csr \in Phases
    BY DEF Over
  <2> QED
    BY <1>1, <1>2, <2>1, <2>2, <2>3 DEF EndInv
<1>9. Level2Inv'
  <2>1. Pending("SDP")' => Pending("SDP")
    BY DEF Pending, Over
  <2>2. chip'.int # "RESEL_AM" /\ (pc = "handle" => sr.csr # "RESEL_AM")
    BY DEF Over, Phases
  <2> QED
    BY <2>1, <2>2 DEF CalmInv, Level2Inv
<1>10. MessagesInv'
  BY DEF MessagesInv
<1>11. IdentifyInv'
  BY <1>1, <1>2 DEF CalmInv, IdentifyInv, Identifies
<1> QED
  BY <1>6, <1>7, <1>8, <1>9, <1>10, <1>11

(* What is left of a message once the chip has its first byte.             *)
LEMMA LeftIs ==
  ASSUME tg \in [Nexus -> Units], bus \in Nexus, chip \in Chips
  PROVE  /\ tg[bus].msgs \in Seq(Nat) /\ Left \in Seq(Nat)
         /\ chip.int # "MSGIN" => Left = tg[bus].msgs
         /\ chip.int = "MSGIN" => Left = <<chip.byte>> \o tg[bus].msgs
<1>1. tg[bus].msgs \in Seq(Nat) /\ chip.byte \in Nat
  BY UnitTypes, ChipTypes
<1>2. <<>> \o tg[bus].msgs = tg[bus].msgs /\ <<chip.byte>> \in Seq(Nat)
  BY <1>1, ConcatEmptySeq
<1>3. <<chip.byte>> \o tg[bus].msgs \in Seq(Nat)
  BY <1>1, <1>2, ConcatProperties
<1> QED
  BY <1>1, <1>2, <1>3 DEF Left

(* The messages a target sends: read one by one, or extended.              *)
SmallTalk == {RESTORE_POINTERS, MESSAGE_REJECT, UnknownMessage}
IsExtended(m) == m \in Seq(Nat) /\ Len(m) >= 3 /\ m[1] = 1 /\ Len(m) = m[2] + 2
Sends(m, ph) ==
  \/ m \in SmallTalk \cup {<<>>} /\ ph \notin Parting
  \/ IsExtended(m) /\ ph \notin Parting
  \/ m = COMMAND_COMPLETE /\ ph = "complete"
  \/ m \in {DISCONNECT, SAVE_POINTERS \o DISCONNECT} /\ ph = "away"

(* The extended messages a target sends are whole: SDTR, WDTR and another.   *)
LEMMA ExtendedOnes ==
  /\ \A off \in Nat : IsExtended(SDTR(off))
  /\ IsExtended(WDTR) /\ IsExtended(OtherExtended)
BY DEF IsExtended, SDTR, WDTR, OtherExtended

(* None of the messages is empty, and the last two bytes of a target that    *)
(* saves the pointers and leaves are these.                                  *)
LEMMA PlainOnes ==
  /\ RESTORE_POINTERS # <<>> /\ MESSAGE_REJECT # <<>> /\ UnknownMessage # <<>>
  /\ COMMAND_COMPLETE # <<>> /\ DISCONNECT # <<>> /\ SAVE_POINTERS \o DISCONNECT # <<>>
  /\ SAVE_POINTERS \o DISCONNECT = <<2, 4>>
<1>1. SAVE_POINTERS \o DISCONNECT = <<2, 4>>
  <2> DEFINE m == <<2>> \o <<4>>
  <2>1. /\ m \in Seq(Nat) /\ Len(m) = 2
        /\ \A i \in 1..2 : m[i] = IF i <= 1 THEN <<2>>[i] ELSE <<4>>[i - 1]
    <3>1. <<2>> \in Seq(Nat) /\ <<4>> \in Seq(Nat) /\ Len(<<2>>) = 1 /\ Len(<<4>>) = 1
      OBVIOUS
    <3> QED
      BY <3>1, ConcatProperties
  <2> HIDE DEF m
  <2>2. m = <<2, 4>>
    <3>1. m[1] = 2 /\ m[2] = 4
      BY <2>1
    <3> QED
      BY <2>1, <3>1
  <2> QED
    BY <2>2 DEF m, SAVE_POINTERS, DISCONNECT
<1>2. <<2, 4>> # <<>>
  OBVIOUS
<1> QED
  BY <1>1, <1>2 DEF RESTORE_POINTERS, MESSAGE_REJECT, UnknownMessage, COMMAND_COMPLETE, DISCONNECT

(* A target that had nothing to say begins a message, or still does not.   *)
LEMMA Says ==
  ASSUME hd'.incoming_msg = <<>>, bus' \in Nexus, chip' \in Chips, tg' \in [Nexus -> Units],
         chip'.int # "MSGIN", Sends(tg'[bus'].msgs, tg'[bus'].ph)
  PROVE  MessagesInv'
<1> DEFINE m == tg'[bus'].msgs
<1>1. m \in Seq(Nat) /\ Left' = m
  <2>1. ASSUME NEW t \in [Nexus -> Units], NEW b \in Nexus
        PROVE  t[b].msgs \in Seq(Nat) /\ <<>> \o t[b].msgs = t[b].msgs
    BY UnitTypes, ConcatEmptySeq
  <2>2. m \in Seq(Nat) /\ <<>> \o m = m
    BY <2>1
  <2> QED
    BY <2>2 DEF Left
<1>2. In' = m
  BY <1>1, ConcatEmptySeq DEF In
<1>3. IsExtended(m) /\ tg'[bus'].ph \notin Parting => InExtended'
  BY <1>1, <1>2 DEF IsExtended, InExtended, Parting
<1>4. /\ m \in SmallTalk => m # <<>>
      /\ COMMAND_COMPLETE # <<>> /\ DISCONNECT # <<>> /\ SAVE_POINTERS \o DISCONNECT # <<>>
  BY PlainOnes DEF SmallTalk
<1> HIDE DEF m
<1>5. m # <<>> =>
        \/ InExtended'
        \/ m \in SmallTalk /\ tg'[bus'].ph \notin Parting
        \/ m = COMMAND_COMPLETE /\ tg'[bus'].ph = "complete"
        \/ m \in {DISCONNECT, SAVE_POINTERS \o DISCONNECT} /\ tg'[bus'].ph = "away"
  BY <1>3 DEF Sends, m
<1>6. m = <<>> => tg'[bus'].ph \notin Parting
  BY <1>4 DEF Sends, IsExtended, m
<1> QED
  BY <1>1, <1>5, <1>6 DEF MessagesInv, SmallTalk, Parting

(* With nothing to say, the target on the bus has said all it began.       *)
LEMMA Silent ==
  ASSUME Types, MessagesInv, bus # NULL, chip.int # "MSGIN", tg[bus].msgs = <<>>
  PROVE  bus \in Nexus /\ Left = <<>> /\ hd.incoming_msg = <<>>
<1>1. bus \in Nexus
  BY DEF Types, BusTypes
<1>2. Left = <<>>
  BY <1>1, LeftIs DEF Types, BusTypes
<1> QED
  BY <1>1, <1>2 DEF MessagesInv, InExtended

(* A target that thinks: the driver has seen to what it was told.          *)
LEMMA Thinks ==
  ASSUME Base, CalmInv, Free("exec") \/ (Free("command") /\ chip.int = "none")
  PROVE  /\ chip.int = "none" /\ InConnection /\ bus \in Nexus /\ bus # NULL
         /\ pc = "handle" => sr.csr \in Phases
         /\ hd.incoming_msg = <<>> /\ tg[bus].msgs = <<>>
<1>1. /\ bus # NULL /\ tg[bus].ph \in {"exec", "command"} /\ tg[bus].msgs = <<>>
      /\ ~chip.ack /\ ~chip.atn
  BY DEF Free
<1>2. Types /\ ChipInv /\ SelectInv /\ BusInv /\ EndInv /\ chip.int \in Ints
  BY ChipTypes DEF Base, CalmInv, Types, BusTypes
<1>3. chip.int = "none"
  <2>1. SUFFICES ASSUME tg[bus].ph = "exec", chip.int # "none"
                 PROVE  FALSE
    BY DEF Free
  <2>2. Phase = "none"
    BY <1>1, <2>1 DEF Phase
  <2>3. chip.int \notin Phases
    BY <1>2, <2>2 DEF ChipInv, Phases
  <2>4. chip.int \notin {"MSGIN", "SDP", "RESEL_AM", "SELECT"}
    BY <1>1, <1>2 DEF ChipInv, SelectInv, SelectTold, Pending
  <2>5. chip.int \in {"TIMEOUT", "DISC", "UNEXP_DISC", "SEL_XFER_DONE"}
    BY <1>2, <2>1, <2>3, <2>4 DEF Ints, EndInv
  <2>6. ~InConnection
    BY <2>5 DEF InConnection, Ending, Pending
  <2>7. pc = "handle" /\ sr.csr \in {"SELECT", "RESEL_AM"}
    BY <1>1, <1>2, <2>5, <2>6 DEF BusInv, Pending
  <2> QED
    BY <1>2, <2>5, <2>7 DEF EndInv, Over, Phases
<1>4. Left = <<>> /\ hd.incoming_msg = <<>> /\ bus \in Nexus
  BY <1>1, <1>2, <1>3, Silent DEF CalmInv
<1> QED
  BY <1>1, <1>3, <1>4, OnBus

(* The steps of the targets.                                               *)
LEMMA CalmTarget ==
  ASSUME Base, Base', CalmInv, TargetSteps, UNCHANGED driverVars
  PROVE  CalmInv'
<1>1. UNCHANGED <<hd, pc, sr, req, eh, chip, bus>>
  BY DEF driverVars, TargetSteps, StartData, GiveStatus, StartDisconnect, Quirk
<1>2. Free("exec") \/ (Free("command") /\ chip.int = "none")
  BY DEF TargetSteps, StartData, GiveStatus, StartDisconnect, Quirk
<1>3. /\ chip.int = "none" /\ InConnection /\ bus \in Nexus /\ bus # NULL
      /\ pc = "handle" => sr.csr \in Phases
      /\ hd.incoming_msg = <<>> /\ tg[bus].msgs = <<>>
  BY <1>2, Thinks
<1>4. IsUnit(tg[bus]) /\ tg \in [Nexus -> Units]
  BY <1>3, RecordDomains DEF Base, Types, BusTypes
<1>5. PICK u : /\ tg' = [tg EXCEPT ![bus] = u] /\ u.cmd = tg[bus].cmd
               /\ \/ u.ph = tg[bus].ph
                  \/ tg[bus].ph = "exec" /\ u.ph \in {"data", "status", "away"}
               /\ Sends(u.msgs, u.ph)
  <2>1. CASE StartData
    <3> DEFINE u == [tg[bus] EXCEPT !.ph = "data"]
    <3>1. tg' = [tg EXCEPT ![bus] = u]
      BY <2>1, <1>4 DEF StartData
    <3>2. u.cmd = tg[bus].cmd /\ u.ph = "data" /\ tg[bus].ph = "exec" /\ u.msgs = <<>>
      BY <1>3, <1>4, <2>1 DEF StartData, Free, IsUnit
    <3> HIDE DEF u
    <3> QED
      BY <3>1, <3>2 DEF Sends, Parting
  <2>2. CASE \E st \in {GOOD, CHECK} : GiveStatus(st)
    <3>1. PICK st : GiveStatus(st)
      BY <2>2
    <3> DEFINE u == [tg[bus] EXCEPT !.ph = "status", !.st = st]
    <3>2. tg' = [tg EXCEPT ![bus] = u]
      BY <3>1, <1>4 DEF GiveStatus
    <3>3. u.cmd = tg[bus].cmd /\ u.ph = "status" /\ tg[bus].ph = "exec" /\ u.msgs = <<>>
      BY <1>3, <1>4, <3>1 DEF GiveStatus, Free, IsUnit
    <3> HIDE DEF u
    <3> QED
      BY <3>2, <3>3 DEF Sends, Parting
  <2>3. CASE StartDisconnect
    <3> DEFINE m == (IF tg[bus].pos # tg[bus].saved THEN SAVE_POINTERS ELSE <<>>) \o DISCONNECT
               u == [tg[bus] EXCEPT !.ph = "away", !.msgs = m]
    <3>1. m \in {DISCONNECT, SAVE_POINTERS \o DISCONNECT}
      <4>1. <<>> \o DISCONNECT = DISCONNECT
        BY DEF DISCONNECT
      <4> QED
        BY <4>1
    <3>2. tg' = [tg EXCEPT ![bus] = u]
      BY <2>3, <1>4 DEF StartDisconnect
    <3> HIDE DEF m
    <3>3. u.cmd = tg[bus].cmd /\ u.ph = "away" /\ tg[bus].ph = "exec" /\ u.msgs = m
      BY <1>4, <2>3 DEF StartDisconnect, Free, IsUnit
    <3> HIDE DEF u
    <3> QED
      BY <3>1, <3>2, <3>3 DEF Sends
  <2>4. CASE Quirk
    <3>1. tg[bus].ph \in {"exec", "command"}
      BY <2>4 DEF Quirk, Free
    <3> DEFINE v(m, pend, pos) ==
                 [tg[bus] EXCEPT !.msgs = m, !.odd = TRUE, !.pend = pend, !.pos = pos]
               Talk == {SDTR(12), WDTR, OtherExtended, UnknownMessage, RESTORE_POINTERS}
               a(m) == [tg EXCEPT ![bus].msgs = m, ![bus].odd = TRUE]
               b(m) == [tg EXCEPT ![bus].msgs = m, ![bus].odd = TRUE, ![bus].pend = "offered"]
               d(m) == [tg EXCEPT ![bus].msgs = m, ![bus].odd = TRUE, ![bus].pos = tg[bus].saved]
    <3>10. \A m : a(m) = [tg EXCEPT ![bus] = v(m, tg[bus].pend, tg[bus].pos)]
      BY <1>4, <1>3 DEF IsUnit
    <3>11. \A m : b(m) = [tg EXCEPT ![bus] = v(m, "offered", tg[bus].pos)]
      BY <1>4, <1>3 DEF IsUnit
    <3>12. \A m : d(m) = [tg EXCEPT ![bus] = v(m, tg[bus].pend, tg[bus].saved)]
      BY <1>4, <1>3 DEF IsUnit
    <3>6. \A m : /\ a(m) = [tg EXCEPT ![bus] = v(m, tg[bus].pend, tg[bus].pos)]
                 /\ b(m) = [tg EXCEPT ![bus] = v(m, "offered", tg[bus].pos)]
                 /\ d(m) = [tg EXCEPT ![bus] = v(m, tg[bus].pend, tg[bus].saved)]
      BY <3>10, <3>11, <3>12
    <3>7. \E m \in Talk : tg' \in {a(m), b(m), d(m)}
      BY <2>4 DEF Quirk
    <3>2. PICK m \in Talk : tg' \in {a(m), b(m), d(m)}
      BY <3>7
    <3> HIDE DEF a, b, d
    <3>9. PICK pend, pos : tg' = [tg EXCEPT ![bus] = v(m, pend, pos)]
      <4> HIDE DEF Talk, v
      <4> QED
        BY <3>2, <3>6
    <3> DEFINE u == v(m, pend, pos)
    <3>3. u.cmd = tg[bus].cmd /\ u.ph = tg[bus].ph /\ u.msgs = m
      BY <1>4 DEF IsUnit
    <3>4. tg' = [tg EXCEPT ![bus] = u]
      BY <3>9
    <3> HIDE DEF u, v
    <3>5. IsExtended(m) \/ m \in SmallTalk
      BY <3>2, ExtendedOnes DEF SmallTalk
    <3>8. Sends(u.msgs, u.ph)
      BY <3>1, <3>3, <3>5 DEF Sends, Parting
    <3> QED
      BY <3>3, <3>4, <3>8
  <2> QED
    BY <2>1, <2>2, <2>3, <2>4 DEF TargetSteps
<1>6. /\ u.ph \notin {"idle", "disc"}
      /\ u.cmd = IF u.ph \in {"select", "command"} THEN NULL ELSE hd.connected
      /\ tg[bus].ph # "select"
  BY <1>2, <1>3, <1>5 DEF InConnection, Free
<1>7. UnitsInv' /\ BusInv' /\ EndInv' /\ Level2Inv' /\ IdentifyInv'
  BY <1>1, <1>3, <1>5, <1>6, Serves
<1>8. tg'[bus'] = u
  BY <1>1, <1>3, <1>4, <1>5
<1>9. MessagesInv'
  BY <1>1, <1>3, <1>5, <1>8, Says DEF Base, Types, BusTypes
<1>10. NobodyGivenUp'
  BY <1>1 DEF CalmInv, NobodyGivenUp
<1> QED
  BY <1>7, <1>9, <1>10 DEF CalmInv

(* The chip reports a phase it was not told to serve.                      *)
LEMMA CalmReport ==
  ASSUME Base, Base', CalmInv, ReportPhase, UNCHANGED driverVars
  PROVE  CalmInv'
<1>1. /\ UNCHANGED <<hd, pc, sr, req, eh, bus, tg>> /\ chip.int = "none" /\ bus # NULL
      /\ chip'.cmd = "none" /\ chip'.int = Phase /\ Phase # "none" /\ ~chip.quiet
      /\ chip'.atn = chip.atn /\ chip'.phs = chip.phs
  <2>1. IsChip(chip)
    BY RecordDomains DEF Base, Types, BusTypes
  <2> QED
    BY <2>1 DEF driverVars, ReportPhase, IsChip
<1>2. Types /\ ChipInv /\ UnitsInv /\ BusInv /\ EndInv /\ Level2Inv /\ MessagesInv /\ IdentifyInv
  BY DEF Base, CalmInv
<1>3. Phase \in Phases /\ ~chip.ack
  BY <1>1, PhaseType DEF Phase
<1>4. \A csr : csr \notin Phases \cup {"none"} => (Pending(csr)' <=> Pending(csr))
  BY <1>1, <1>3 DEF Pending
<1>5. /\ Pending("DISC")' <=> Pending("DISC")
      /\ Pending("UNEXP_DISC")' <=> Pending("UNEXP_DISC")
      /\ Pending("SEL_XFER_DONE")' <=> Pending("SEL_XFER_DONE")
      /\ Pending("SELECT")' <=> Pending("SELECT")
      /\ Pending("RESEL_AM")' <=> Pending("RESEL_AM")
      /\ Pending("TIMEOUT")' <=> Pending("TIMEOUT")
      /\ Pending("SDP")' <=> Pending("SDP")
  BY <1>4 DEF Phases
<1>6. Gone' = Gone /\ Leaver' = Leaver /\ (Ending' <=> Ending)
  BY <1>1, <1>5 DEF Gone, Leaver, Away, Ending
<1>7. UnitsInv'
  BY <1>1, <1>2, <1>6 DEF UnitsInv, OffBus
<1>8. BusInv'
  BY <1>1, <1>2, <1>5, <1>6 DEF BusInv, InConnection
<1>9. pc = "handle" => sr.csr = "SELECT"
  <2>1. SUFFICES ASSUME pc = "handle"
                 PROVE  sr.csr = "SELECT"
    OBVIOUS
  <2>2. sr.csr \notin Phases
    BY <1>1, <1>2, <2>1 DEF ChipInv
  <2>3. sr.csr \notin {"SDP", "RESEL_AM"}
    BY <1>2, <1>3, <2>1 DEF ChipInv
  <2>4. sr.csr \notin Over \cup {"TIMEOUT"}
    BY <1>1, <1>2, <2>1 DEF BusInv, InConnection, Ending, Over, Pending
  <2> QED
    BY <1>2, <2>1, <2>2, <2>3, <2>4 DEF EndInv
<1>10. EndInv'
  <2>1. chip'.int \notin {"DISC", "SEL_XFER_DONE", "ABORT"}
    BY <1>1, <1>3 DEF Phases
  <2> QED
    BY <1>1, <1>2, <1>3, <1>5, <1>6, <1>9, <2>1 DEF EndInv
<1>11. Level2Inv'
  <2>1. chip'.int # "RESEL_AM"
    BY <1>1, <1>3 DEF Phases
  <2> QED
    BY <1>1, <1>2, <1>5, <1>9, <2>1 DEF Level2Inv
<1>12. MessagesInv'
  <2>1. chip'.int # "MSGIN"
    BY <1>1, <1>3 DEF Phases
  <2>2. Left' = Left /\ In' = In /\ InExtended' = InExtended
    BY <1>1, <2>1 DEF Left, In, InExtended
  <2>3. Left = <<>> => tg[bus].ph \notin Parting
    <3>1. Left = tg[bus].msgs
      BY <1>1, <1>2, LeftIs DEF Types, BusTypes
    <3> QED
      BY <1>1, <3>1 DEF Phase, Parting
  <2> QED
    BY <1>1, <1>2, <1>5, <2>2, <2>3 DEF MessagesInv
<1>13. IdentifyInv'
  BY <1>1, <1>2, <1>5 DEF IdentifyInv
<1>14. NobodyGivenUp'
  BY <1>1 DEF CalmInv, NobodyGivenUp
<1> QED
  BY <1>7, <1>8, <1>10, <1>11, <1>12, <1>13, <1>14 DEF CalmInv

(* The chip is about to serve a phase.                                     *)
LEMMA Serving ==
  ASSUME Base, CalmInv, NEW ph \in Phases, Ready(ph)
  PROVE  /\ chip.int = "none" /\ bus \in Nexus /\ bus # NULL /\ InConnection
         /\ pc # "handle" /\ chip.cmd \in {"info", "level2"} /\ hd.connected \in Cmds
         /\ IsChip(chip) /\ IsUnit(tg[bus]) /\ tg \in [Nexus -> Units]
         /\ ~chip.ack /\ Phase = ph
         /\ ph # "MESS_IN" => tg[bus].msgs = <<>> /\ hd.incoming_msg = <<>>
         /\ ph = "MESS_IN" => tg[bus].msgs # <<>>
         /\ ph # "MESS_IN" /\ ph # "MESS_OUT" =>
              tg[bus].ph = CASE ph = "COMMAND" -> "command" [] ph = "STATUS" -> "status"
                             [] OTHER -> "data"
<1>1. /\ chip.int = "none" /\ bus # NULL /\ Phase = ph /\ chip.cmd \in {"info", "level2"}
      /\ ph # "none"
  BY DEF Ready, Expected, DataGoesOn, Phases
<1>2. ~chip.ack
  BY <1>1 DEF Phase
<1>3. /\ pc # "handle" /\ InConnection /\ bus \in Nexus /\ hd.connected \in Cmds
  BY <1>1, OnBus DEF Base, ChipInv
<1>4. /\ IsChip(chip) /\ IsUnit(tg[bus]) /\ tg \in [Nexus -> Units]
  BY <1>3, RecordDomains DEF Base, Types, BusTypes
<1>5. /\ ph = "MESS_IN" <=> tg[bus].msgs # <<>>
      /\ ph # "MESS_IN" /\ ph # "MESS_OUT" =>
              tg[bus].ph = CASE ph = "COMMAND" -> "command" [] ph = "STATUS" -> "status"
                             [] OTHER -> "data"
  BY <1>1, <1>2 DEF Phase, Phases
<1>6. tg[bus].msgs = <<>> => hd.incoming_msg = <<>>
  BY <1>1, Silent DEF Base, CalmInv
<1> QED
  BY <1>1, <1>2, <1>3, <1>4, <1>5, <1>6

(* Command, status and data.                                               *)
LEMMA CalmPhases ==
  ASSUME Base, Base', CalmInv, UNCHANGED <<hd, pc, sr, req, eh>>,
         TakeCommand \/ TakeStatus \/ \E k \in 1..chip.count : MoveData(k)
  PROVE  CalmInv'
<1>1. PICK ph \in {"COMMAND", "STATUS", "DATA_IN", "DATA_OUT"} :
        Ready(ph) /\ (TakeCommand => ph = "COMMAND") /\ (TakeStatus => ph = "STATUS")
  BY DEF TakeCommand, TakeStatus, MoveData, Ready
<1>2. /\ chip.int = "none" /\ bus \in Nexus /\ bus # NULL /\ InConnection
      /\ pc # "handle" /\ chip.cmd \in {"info", "level2"} /\ hd.connected \in Cmds
      /\ IsChip(chip) /\ IsUnit(tg[bus]) /\ tg \in [Nexus -> Units]
      /\ Phase = ph /\ tg[bus].msgs = <<>> /\ hd.incoming_msg = <<>>
      /\ tg[bus].ph = CASE ph = "COMMAND" -> "command" [] ph = "STATUS" -> "status"
                        [] OTHER -> "data"
  BY <1>1, Serving DEF Phases
<1>3. /\ UNCHANGED bus
      /\ chip'.int = "none" /\ chip'.cmd \in {chip.cmd, "none"} /\ chip'.xph = chip.xph
      /\ chip'.cdb = chip.cdb /\ chip'.atn = chip.atn /\ chip'.out = chip.out
      /\ chip'.cmd = "level2" => chip'.phs \in {chip.phs, \h30, \h46, \h50}
  <2>1. CASE TakeCommand
    BY <1>2, <2>1 DEF TakeCommand, IsChip
  <2>2. CASE TakeStatus
    BY <1>2, <2>2 DEF TakeStatus, IsChip
  <2>3. CASE \E k \in 1..chip.count : MoveData(k)
    <3>1. PICK k \in 1..chip.count : MoveData(k)
      BY <2>3
    <3> QED
      BY <1>2, <3>1 DEF MoveData, IsChip
  <2> QED
    BY <2>1, <2>2, <2>3
<1>4. PICK u : /\ tg' = [tg EXCEPT ![bus] = u] /\ u.cmd = hd.connected
               /\ u.ph \in {"exec", "data", "complete"} /\ Sends(u.msgs, u.ph)
  <2>1. tg[bus].cmd = IF tg[bus].ph = "command" THEN NULL ELSE hd.connected
    BY <1>2 DEF InConnection
  <2>2. CASE TakeCommand
    <3> DEFINE u == [tg[bus] EXCEPT !.ph = "exec", !.cmd = chip.cdb]
    <3>1. tg' = [tg EXCEPT ![bus] = u]
      BY <1>2, <2>2 DEF TakeCommand
    <3>2. chip.cdb = hd.connected
      BY <1>1, <1>2, <2>2 DEF CalmInv, Level2Inv, Ready, Expected, DataGoesOn
    <3>3. u.cmd = hd.connected /\ u.ph = "exec" /\ u.msgs = <<>>
      BY <1>2, <3>2 DEF IsUnit
    <3> HIDE DEF u
    <3> QED
      BY <3>1, <3>3 DEF Sends, Parting
  <2>3. CASE TakeStatus
    <3> DEFINE u == [tg[bus] EXCEPT !.ph = "complete", !.msgs = COMMAND_COMPLETE]
    <3>1. tg' = [tg EXCEPT ![bus] = u]
      BY <1>2, <2>3 DEF TakeStatus
    <3>2. u.cmd = hd.connected /\ u.ph = "complete" /\ u.msgs = COMMAND_COMPLETE
      BY <1>1, <1>2, <2>1, <2>3 DEF IsUnit
    <3> HIDE DEF u
    <3> QED
      BY <3>1, <3>2 DEF Sends
  <2>4. CASE \E k \in 1..chip.count : MoveData(k)
    <3>1. PICK k \in 1..chip.count : MoveData(k)
      BY <2>4
    <3>2. PICK p \in {"data", "exec"} : tg' = [tg EXCEPT ![bus].pos = @ + k, ![bus].ph = p]
      BY <3>1 DEF MoveData
    <3> DEFINE u == [tg[bus] EXCEPT !.pos = tg[bus].pos + k, !.ph = p]
    <3>3. tg' = [tg EXCEPT ![bus] = u]
      BY <1>2, <3>2
    <3>5. tg[bus].ph # "command"
      BY <1>2, <3>1 DEF MoveData, Ready
    <3>4. u.cmd = hd.connected /\ u.ph = p /\ u.msgs = <<>>
      BY <1>2, <2>1, <3>5 DEF IsUnit
    <3> HIDE DEF u
    <3> QED
      BY <3>3, <3>4 DEF Sends, Parting
  <2> QED
    BY <2>2, <2>3, <2>4
<1>5. UnitsInv' /\ BusInv' /\ EndInv' /\ Level2Inv' /\ IdentifyInv'
  <2>1. tg[bus].ph # "select"
    BY <1>2
  <2> QED
    BY <1>2, <1>3, <1>4, <2>1, Serves
<1>6. tg'[bus'] = u
  BY <1>2, <1>3, <1>4
<1>7. MessagesInv'
  BY <1>2, <1>3, <1>4, <1>6, Says DEF Base, Types, BusTypes
<1>8. NobodyGivenUp'
  BY DEF CalmInv, NobodyGivenUp
<1> QED
  BY <1>5, <1>7, <1>8 DEF CalmInv

(* The messages of the driver.                                             *)
LEMMA CalmMessages ==
  ASSUME Base, Base', CalmInv, TakeMessages, UNCHANGED <<hd, pc, sr, req, eh>>
  PROVE  CalmInv'
<1> DEFINE ms    == chip.out
           sdtr  == {m.off : m \in {x \in ToSet(ms) : x.msg = "SDTR"}}
           first == ms[1]
           n     == IF first.msg = "IDENTIFY" THEN <<bus[1], first.lun>> ELSE bus
           t     == IF first.msg = "IDENTIFY"
                    THEN [tg[bus] EXCEPT !.ph = "command", !.disc = first.disc]
                    ELSE tg[bus]
           own   == t.pend = "offered"
           off   == CHOOSE x \in sdtr : TRUE
           mode  == IF off > 0 THEN "sync" ELSE "async"
           u(a)  == IF own THEN [t EXCEPT !.pend = "none"]
                    ELSE IF sdtr = {} \/ a = "mute" THEN t
                    ELSE IF a = "agree" THEN [t EXCEPT !.msgs = SDTR(off), !.pend = mode]
                    ELSE [t EXCEPT !.msgs = MESSAGE_REJECT, !.pend = "async"]
<1>1. Ready("MESS_OUT") /\ "MESS_OUT" \in Phases
  BY DEF TakeMessages, Phases
<1>2. /\ chip.int = "none" /\ bus \in Nexus /\ bus # NULL /\ InConnection
      /\ pc # "handle" /\ hd.connected \in Cmds
      /\ IsChip(chip) /\ IsUnit(tg[bus]) /\ tg \in [Nexus -> Units]
      /\ Phase = "MESS_OUT" /\ tg[bus].msgs = <<>> /\ hd.incoming_msg = <<>>
  <2>1. "MESS_OUT" # "MESS_IN"
    OBVIOUS
  <2> QED
    BY <1>1, <2>1, Serving
<1>3. chip.cmd = "info" /\ chip.xph = "MESS_OUT"
  BY <1>1 DEF Ready, Expected, DataGoesOn
<1>4. ms # <<>> /\ ms \in Seq(OutMessages)
  BY <1>3, ChipTypes DEF Base, Types, BusTypes, SelectInv, IdentifySent
<1>5. PICK a \in {"agree", "reject", "early", "mute"} :
        /\ bus' = n
        /\ tg' = [tg EXCEPT ![bus] = Idle, ![n] = u(a)]
        /\ chip' = IF a = "early" THEN [chip EXCEPT !.cmd = "none", !.count = 1]
                   ELSE [chip EXCEPT !.cmd = "none", !.count = 0, !.atn = FALSE, !.out = <<>>]
  <2> HIDE DEF sdtr, off
  <2> QED
    BY DEF TakeMessages, Answers, sdtr, off
<1>6. first.msg = "IDENTIFY" => first.lun = Attr[hd.connected].lun /\ tg[bus].ph = "select"
  BY <1>3, <1>4 DEF CalmInv, IdentifyInv, Identifies
<1>7. n = bus
  <2>1. bus = <<Attr[hd.connected].id, Attr[hd.connected].lun>>
    BY <1>2 DEF InConnection, NexusOf
  <2> QED
    BY <1>6, <2>1
<1>8. /\ IsUnit(t) /\ t.cmd = tg[bus].cmd /\ t.msgs = <<>>
      /\ t.ph = tg[bus].ph \/ (tg[bus].ph = "select" /\ t.ph = "command")
  <2> HIDE DEF first
  <2> QED
    BY <1>2, <1>6 DEF IsUnit
<1>9. tg[bus].ph \notin Parting /\ tg[bus].ph \notin {"idle", "disc"}
  BY <1>2 DEF Phase, Parting, InConnection
<1>10. sdtr # {} => IsExtended(SDTR(off))
  <2>1. \A x \in ToSet(ms) : x \in OutMessages
    BY <1>4 DEF ToSet
  <2>2. \A x \in OutMessages : x.msg = "SDTR" => x.off \in Nat
    BY DEF OutMessages, OPTIMUM_SX_OFF
  <2>3. \A x \in sdtr : x \in Nat
    BY <2>1, <2>2
  <2>4. sdtr # {} => off \in Nat
    BY <2>3
  <2> QED
    BY <2>4, ExtendedOnes
<1>11. u(a).cmd = t.cmd /\ u(a).ph = t.ph /\ Sends(u(a).msgs, u(a).ph)
  <2> HIDE DEF t, sdtr, off, mode
  <2>1. t.ph \notin Parting
    BY <1>8, <1>9 DEF Parting
  <2>2. \A m, p : LET v == [t EXCEPT !.msgs = m, !.pend = p]
                  IN v.cmd = t.cmd /\ v.ph = t.ph /\ v.msgs = m
    BY <1>8 DEF IsUnit
  <2>3. LET v == [t EXCEPT !.pend = "none"]
        IN v.cmd = t.cmd /\ v.ph = t.ph /\ v.msgs = t.msgs
    BY <1>8 DEF IsUnit
  <2>4. Sends(<<>>, t.ph) /\ Sends(MESSAGE_REJECT, t.ph)
    BY <2>1 DEF Sends, SmallTalk
  <2>5. sdtr # {} => Sends(SDTR(off), t.ph)
    BY <1>10, <2>1 DEF Sends
  <2> QED
    BY <1>8, <2>2, <2>3, <2>4, <2>5
<1> DEFINE w == u(a)
<1>12. /\ w.ph \notin {"idle", "disc"}
       /\ w.cmd = IF w.ph \in {"select", "command"} THEN NULL ELSE hd.connected
       /\ Sends(w.msgs, w.ph)
  <2> HIDE DEF t, u
  <2> QED
    BY <1>2, <1>8, <1>9, <1>11 DEF InConnection
<1> HIDE DEF u, n, w
<1>13. tg' = [tg EXCEPT ![bus] = w] /\ bus' = bus
  BY <1>2, <1>5, <1>7 DEF w
<1>14. /\ chip'.int = "none" /\ chip'.cmd = "none" /\ chip'.xph = chip.xph
       /\ chip'.cdb = chip.cdb /\ chip'.out \in {chip.out, <<>>} /\ (chip'.atn => chip.atn)
  BY <1>2, <1>5 DEF IsChip
<1>15. UnitsInv' /\ BusInv' /\ EndInv' /\ Level2Inv' /\ IdentifyInv'
  BY <1>2, <1>12, <1>13, <1>14, Serves
<1>16. tg'[bus'] = w
  BY <1>2, <1>13
<1>17. MessagesInv'
  BY <1>2, <1>12, <1>13, <1>14, <1>16, Says DEF Base, Types, BusTypes
<1>18. NobodyGivenUp'
  BY DEF CalmInv, NobodyGivenUp
<1> QED
  BY <1>15, <1>17, <1>18 DEF CalmInv

(* A sequence is its head before its tail.                                 *)
LEMMA HeadAndTail ==
  ASSUME NEW S, NEW q \in Seq(S), q # <<>>
  PROVE  <<Head(q)>> \o Tail(q) = q
<1>1. /\ Head(q) = q[1] /\ Len(q) >= 1 /\ Head(q) \in S /\ Tail(q) \in Seq(S)
      /\ Len(Tail(q)) = Len(q) - 1 /\ \A i \in 1..Len(Tail(q)) : Tail(q)[i] = q[i + 1]
  BY HeadTailProperties
<1> DEFINE h == <<Head(q)>>
           r == h \o Tail(q)
<1>2. h \in Seq(S) /\ Len(h) = 1 /\ h[1] = q[1]
  BY <1>1
<1> HIDE DEF h
<1>3. /\ r \in Seq(S) /\ Len(r) = 1 + Len(Tail(q))
      /\ \A i \in 1..1 + Len(Tail(q)) : r[i] = IF i <= 1 THEN h[i] ELSE Tail(q)[i - 1]
  <2> DEFINE w == Tail(q)
  <2>1. w \in Seq(S)
    BY <1>1
  <2> HIDE DEF w
  <2>2. /\ h \o w \in Seq(S) /\ Len(h \o w) = Len(h) + Len(w)
        /\ \A i \in 1..Len(h) + Len(w) :
             (h \o w)[i] = IF i <= Len(h) THEN h[i] ELSE w[i - Len(h)]
    BY <1>2, <2>1, ConcatProperties
  <2> QED
    BY <1>2, <2>2 DEF w
<1> HIDE DEF r
<1>4. \A i \in 1..Len(q) : r[i] = q[i]
  <2>1. TAKE i \in 1..Len(q)
  <2>2. CASE i = 1
    BY <1>1, <1>2, <1>3, <2>2
  <2>3. CASE i > 1
    <3>1. i - 1 \in 1..Len(Tail(q)) /\ i \in 1..1 + Len(Tail(q))
      BY <1>1, <2>3
    <3>2. r[i] = Tail(q)[i - 1] /\ Tail(q)[i - 1] = q[i - 1 + 1] /\ i - 1 + 1 = i
      BY <1>1, <1>3, <2>3, <3>1
    <3> QED
      BY <3>2
  <2> QED
    BY <2>2, <2>3
<1>5. Len(r) = Len(q)
  BY <1>1, <1>3
<1>6. r = q
  BY <1>3, <1>4, <1>5, SeqEqual
<1> QED
  BY <1>6 DEF r, h

(* A message byte for the driver, which is waiting for it.                 *)
LEMMA CalmByte ==
  ASSUME Base, Base', CalmInv, TakeByte, UNCHANGED <<hd, pc, sr, req, eh>>
  PROVE  CalmInv'
<1> DEFINE t == tg[bus]
           s == IF t.msgs[1] = SAVE_POINTERS[1] /\ t.ph = "away" THEN t.pos ELSE t.saved
           p == IF Len(t.msgs) = 1 /\ t.pend # "offered" THEN "none" ELSE t.pend
           u == [t EXCEPT !.msgs = Tail(t.msgs), !.saved = s, !.pend = p]
<1>1. /\ chip.int = "none" /\ bus \in Nexus /\ bus # NULL /\ InConnection
      /\ pc # "handle" /\ hd.connected \in Cmds
      /\ IsChip(chip) /\ IsUnit(tg[bus]) /\ tg \in [Nexus -> Units]
      /\ Phase = "MESS_IN" /\ t.msgs # <<>>
  BY Serving DEF TakeByte, Phases
<1>2. chip.cmd = "info" /\ pc = "message"
  BY DEF TakeByte, Ready, Expected, Base, ChipInv
<1>3. t.msgs \in Seq(Nat)
  BY <1>1, UnitTypes
<1>4. tg' = [tg EXCEPT ![bus] = u] /\ UNCHANGED bus
  BY <1>1 DEF TakeByte
<1>5. u.msgs = Tail(t.msgs) /\ u.ph = t.ph /\ u.cmd = t.cmd
  BY <1>1 DEF IsUnit
<1>6. /\ chip'.int = "MSGIN" /\ chip'.cmd = "none" /\ chip'.byte = Head(t.msgs)
      /\ chip'.xph = chip.xph /\ chip'.cdb = chip.cdb /\ chip'.atn = chip.atn
      /\ chip'.out = chip.out
  BY <1>1 DEF TakeByte, IsChip
<1> HIDE DEF u
<1>7. UnitsInv' /\ BusInv' /\ EndInv' /\ Level2Inv' /\ IdentifyInv'
  BY <1>1, <1>2, <1>4, <1>5, <1>6, Serves DEF InConnection
<1>8. tg'[bus'] = u
  BY <1>1, <1>4
<1>9. Left' = Left /\ Left # <<>>
  <2>1. Left = t.msgs
    BY <1>1, LeftIs DEF Base, Types, BusTypes
  <2>2. Left' = <<Head(t.msgs)>> \o Tail(t.msgs)
    BY <1>5, <1>6, <1>8 DEF Left
  <2>3. \A q \in Seq(Nat) : q # <<>> => <<Head(q)>> \o Tail(q) = q
    BY HeadAndTail
  <2> QED
    BY <1>1, <1>3, <2>1, <2>2, <2>3
<1>10. MessagesInv'
  <2>1. In' = In /\ (InExtended' <=> InExtended)
    BY <1>4, <1>5, <1>8, <1>9 DEF In, InExtended
  <2>2. ~Pending("SDP")'
    BY <1>1, <1>6 DEF Pending
  <2> QED
    BY <1>1, <1>2, <1>4, <1>5, <1>6, <1>8, <1>9, <2>1, <2>2 DEF CalmInv, MessagesInv
<1>11. NobodyGivenUp'
  BY DEF CalmInv, NobodyGivenUp
<1> QED
  BY <1>7, <1>10, <1>11 DEF CalmInv

(* The end of a connection at the target: messages read by a level-2       *)
(* command, the bus released, a drop.                                      *)
LEMMA CalmLevel2Message ==
  ASSUME Base, Base', CalmInv, Level2Message, UNCHANGED <<hd, pc, sr, req, eh>>
  PROVE  CalmInv'
<1> DEFINE t == tg[bus]
<1>1. /\ chip.int = "none" /\ bus \in Nexus /\ bus # NULL /\ InConnection
      /\ pc # "handle" /\ hd.connected \in Cmds
      /\ IsChip(chip) /\ IsUnit(tg[bus]) /\ tg \in [Nexus -> Units]
      /\ Phase = "MESS_IN" /\ t.msgs # <<>>
  BY Serving DEF Level2Message, Phases
<1>2. chip.cmd = "level2" /\ pc \in {"idle", "execute"}
  BY DEF Level2Message, Base, ChipInv, InDriver
<1>3. hd.state = "S_RUNNING_LEVEL2" /\ hd.level2 > L2_NONE
  BY <1>2 DEF CalmInv, Level2Inv
<1>4. t.msgs \in Seq(Nat) /\ Left = t.msgs
  BY <1>1, UnitTypes, LeftIs DEF Base, Types, BusTypes
<1>5. hd.incoming_msg = <<>>
  BY <1>1, <1>2 DEF CalmInv, MessagesInv
<1>6. NobodyGivenUp'
  BY DEF CalmInv, NobodyGivenUp
<1>7. CASE t.msgs = COMMAND_COMPLETE
  <2>0. t.msgs # DISCONNECT
    BY <1>7 DEF DISCONNECT, COMMAND_COMPLETE
  <2>1. chip' = [chip EXCEPT !.cmd = "none", !.int = "SEL_XFER_DONE", !.phs = \h60]
        /\ tg' = [tg EXCEPT ![bus] = Idle] /\ bus' = NULL
    BY <1>7, <2>0 DEF Level2Message
  <2>2. chip'.cmd = "none" /\ chip'.int = "SEL_XFER_DONE" /\ chip'.atn = chip.atn
    BY <1>1, <2>1 DEF IsChip
  <2>3. UnitsInv' /\ BusInv' /\ EndInv' /\ Level2Inv' /\ MessagesInv' /\ IdentifyInv'
    BY <1>1, <1>2, <1>5, <2>1, <2>2, Leaves DEF Over
  <2> QED
    BY <1>6, <2>3 DEF CalmInv
<1>8. CASE t.msgs = DISCONNECT
  <2> DEFINE u == [t EXCEPT !.msgs = <<>>, !.ph = "disc"]
  <2>0. t.msgs # COMMAND_COMPLETE
    BY <1>8 DEF DISCONNECT, COMMAND_COMPLETE
  <2>1. chip' = [chip EXCEPT !.cmd = "none", !.int = "DISC", !.phs = \h43]
        /\ tg' = [tg EXCEPT ![bus].msgs = <<>>, ![bus].ph = "disc"] /\ bus' = NULL
    BY <1>8, <2>0 DEF Level2Message
  <2>2. chip'.cmd = "none" /\ chip'.int = "DISC" /\ chip'.atn = chip.atn
    BY <1>1, <2>1 DEF IsChip
  <2>3. tg' = [tg EXCEPT ![bus] = u]
    BY <1>1, <2>1
  <2>4. t.ph = "away"
    <3>1. Left \notin SmallTalk /\ Left # COMMAND_COMPLETE /\ Left # <<>>
      BY <1>1, <1>4, <1>8, <2>0 DEF SmallTalk, DISCONNECT, RESTORE_POINTERS, MESSAGE_REJECT,
         UnknownMessage
    <3>2. ~InExtended
      <4>1. In = Left
        BY <1>4, <1>5, ConcatEmptySeq DEF In
      <4> QED
        BY <1>4, <1>8, <4>1 DEF InExtended, DISCONNECT
    <3> QED
      BY <1>1, <1>5, <3>1, <3>2 DEF CalmInv, MessagesInv, SmallTalk
  <2>5. u.ph = "disc" /\ u.msgs = <<>> /\ u.cmd = hd.connected
    BY <1>1, <2>4 DEF IsUnit, InConnection
  <2> HIDE DEF u
  <2> HIDE DEF t
  <2>6. /\ chip'.int = "DISC" /\ chip'.int \in Over
        /\ pc \in {"idle", "execute"} /\ pc # "handle" /\ chip'.atn => chip.atn
    BY <1>1, <1>2, <2>2 DEF Over
  <2>7. UnitsInv' /\ BusInv' /\ EndInv' /\ Level2Inv' /\ MessagesInv' /\ IdentifyInv'
    BY <1>1, <1>2, <1>3, <1>5, <2>1, <2>2, <2>3, <2>5, <2>6, Leaves
  <2> QED
    BY <1>6, <2>7 DEF CalmInv
<1>9. CASE t.msgs \notin {COMMAND_COMPLETE, DISCONNECT}
  <2> DEFINE u == [t EXCEPT !.msgs = Tail(t.msgs), !.saved = t.pos]
  <2>1. chip' = [chip EXCEPT !.cmd = "none", !.int = "SDP", !.phs = \h41, !.ack = TRUE]
        /\ tg' = [tg EXCEPT ![bus].msgs = Tail(@), ![bus].saved = t.pos] /\ bus' = bus
    BY <1>9 DEF Level2Message
  <2>2. /\ chip'.cmd = "none" /\ chip'.int = "SDP" /\ chip'.atn = chip.atn
        /\ chip'.xph = chip.xph /\ chip'.cdb = chip.cdb /\ chip'.out = chip.out
    BY <1>1, <2>1 DEF IsChip
  <2>3. tg' = [tg EXCEPT ![bus] = u]
    BY <1>1, <2>1
  <2>4. u.msgs = Tail(t.msgs) /\ u.ph = t.ph /\ u.cmd = t.cmd
    BY <1>1 DEF IsUnit
  <2>5. Head(t.msgs) = 2
    BY <1>1, <1>2, <1>9 DEF Level2Message, Ready, Expected, DataGoesOn, SAVE_POINTERS
  <2>6. t.msgs = SAVE_POINTERS \o DISCONNECT /\ t.ph = "away"
    <3>1. ~InExtended
      <4>1. In = Left
        BY <1>4, <1>5, ConcatEmptySeq DEF In
      <4>2. In[1] = 2
        BY <1>4, <2>5, <4>1
      <4> QED
        BY <4>2 DEF InExtended
    <3>2. Left \notin {RESTORE_POINTERS, MESSAGE_REJECT, UnknownMessage}
      BY <1>4, <2>5 DEF RESTORE_POINTERS, MESSAGE_REJECT, UnknownMessage
    <3> QED
      BY <1>1, <1>4, <1>5, <1>9, <3>1, <3>2 DEF CalmInv, MessagesInv
  <2>7. Tail(t.msgs) = DISCONNECT
    <3>1. t.msgs = <<2, 4>>
      BY <2>6, PlainOnes
    <3> QED
      BY <3>1 DEF DISCONNECT
  <2>11. u.cmd = hd.connected /\ u.ph = "away"
    BY <1>1, <2>4, <2>6 DEF InConnection
  <2> HIDE DEF u
  <2>8. UnitsInv' /\ BusInv' /\ EndInv' /\ Level2Inv' /\ IdentifyInv'
    BY <1>1, <1>2, <1>3, <2>1, <2>2, <2>3, <2>11, Serves
  <2>9. tg'[bus'] = u
    BY <1>1, <2>1, <2>3
  <2>10. MessagesInv'
    <3>1. Sends(u.msgs, u.ph)
      BY <2>4, <2>6, <2>7 DEF Sends
    <3> QED
      BY <1>1, <1>5, <2>1, <2>2, <2>9, <3>1, Says DEF Base, Types, BusTypes
  <2> QED
    BY <1>6, <2>8, <2>10 DEF CalmInv
<1> QED
  BY <1>7, <1>8, <1>9

(* A target that has sent its last message lets go of the bus, or a target   *)
(* drops off it: the driver has a command connected.                         *)
LEMMA CalmRelease ==
  ASSUME Base, Base', CalmInv, ReleaseBus \/ Drop, UNCHANGED <<hd, pc, sr, req, eh>>
  PROVE  CalmInv'
<1> DEFINE t == tg[bus]
<1>1. /\ chip.int = "none" /\ bus # NULL /\ ~chip.ack /\ t.msgs = <<>>
      /\ t.ph \in {"away", "complete", "exec", "data"}
      /\ Drop => t.ph \in {"exec", "data"}
      /\ ReleaseBus => t.ph \in {"away", "complete"}
  BY DEF ReleaseBus, Drop
<1>2. /\ InConnection /\ bus \in Nexus /\ hd.connected \in Cmds
      /\ pc = "handle" => sr.csr \in Phases
  BY <1>1, OnBus
<1>3. /\ IsChip(chip) /\ IsUnit(t) /\ tg \in [Nexus -> Units]
  BY <1>2, RecordDomains DEF Base, Types, BusTypes
<1>4. Left = <<>> /\ hd.incoming_msg = <<>>
  BY <1>1, Silent DEF Base, CalmInv
<1>5. ReleaseBus =>
        /\ pc \in {"idle", "execute"}
        /\ hd.state = IF t.ph = "away" THEN "S_PRE_TMP_DISC" ELSE "S_PRE_CMP_DISC"
  BY <1>1, <1>4 DEF CalmInv, MessagesInv, Parting
<1>6. /\ bus' = NULL /\ chip'.cmd = "none" /\ chip'.atn = chip.atn
      /\ chip'.int = IF ReleaseBus THEN "DISC" ELSE "UNEXP_DISC"
  BY <1>1, <1>3 DEF ReleaseBus, Drop, IsChip
<1>7. PICK u : /\ tg' = [tg EXCEPT ![bus] = u]
               /\ \/ u = Idle /\ (ReleaseBus => t.ph = "complete")
                  \/ u.ph = "disc" /\ u.msgs = <<>> /\ u.cmd = t.cmd /\ t.ph = "away"
  <2>1. CASE Drop
    BY <1>1, <2>1 DEF Drop, ReleaseBus
  <2>2. CASE ReleaseBus /\ t.ph # "away"
    <3>1. tg' = [tg EXCEPT ![bus] = Idle]
      BY <1>3, <2>2 DEF ReleaseBus
    <3>2. t.ph = "complete"
      BY <2>2 DEF ReleaseBus
    <3> QED
      BY <3>1, <3>2
  <2>3. CASE ReleaseBus /\ t.ph = "away"
    <3> DEFINE v == [t EXCEPT !.ph = "disc"]
    <3>1. tg' = [tg EXCEPT ![bus] = v]
      BY <1>3, <2>3 DEF ReleaseBus
    <3>2. v.ph = "disc" /\ v.msgs = <<>> /\ v.cmd = t.cmd
      BY <1>1, <1>3 DEF IsUnit
    <3> HIDE DEF v
    <3> QED
      BY <2>3, <3>1, <3>2
  <2> QED
    BY <2>1, <2>2, <2>3
<1>8. t.ph = "away" => t.cmd = hd.connected /\ ReleaseBus
  BY <1>1, <1>2 DEF InConnection
<1>9. UnitsInv' /\ BusInv' /\ EndInv' /\ Level2Inv' /\ MessagesInv' /\ IdentifyInv'
  <2>1. chip'.int \in Over /\ (chip'.int \in {"DISC", "SEL_XFER_DONE"} => pc \in {"idle", "execute"})
    BY <1>5, <1>6 DEF Over
  <2>2. \/ u = Idle /\ (chip'.int = "DISC" => hd.state = "S_PRE_CMP_DISC")
        \/ /\ u.ph = "disc" /\ u.msgs = <<>> /\ u.cmd = hd.connected
           /\ chip'.int = "DISC" /\ hd.state \in {"S_PRE_TMP_DISC", "S_RUNNING_LEVEL2"}
    BY <1>5, <1>6, <1>7, <1>8
  <2> QED
    BY <1>1, <1>2, <1>4, <1>6, <1>7, <2>1, <2>2, Leaves
<1>10. NobodyGivenUp'
  BY DEF CalmInv, NobodyGivenUp
<1> QED
  BY <1>9, <1>10 DEF CalmInv

(* The bus is free, and the chip has nothing to tell.                      *)
LEMMA FreeBus ==
  ASSUME Base, CalmInv, chip.int = "none", bus = NULL
  PROVE  /\ IsChip(chip) /\ tg \in [Nexus -> Units] /\ NULL \notin Nexus
         /\ hd.incoming_msg = <<>>
         /\ pc = "handle" => sr.csr \in Over \cup {"TIMEOUT"}
         /\ chip.cmd \in {"select", "level2"} => ~InDriver
         /\ ~(chip.atn /\ ~Pending("SELECT") /\ Identifies(hd.outgoing_msg))
         /\ \A n \in Nexus : OffBus(tg[n])
<1>1. /\ IsChip(chip) /\ tg \in [Nexus -> Units] /\ hd.incoming_msg = <<>>
      /\ chip.cmd \in {"select", "level2"} => ~InDriver
      /\ ~(chip.atn /\ ~Pending("SELECT") /\ Identifies(hd.outgoing_msg))
  BY RecordDomains DEF Base, Types, BusTypes, CalmInv, MessagesInv, ChipInv, SelectInv, IdentifyDue
<1>2. NULL \notin Nexus
  BY BusAssumption, AttrTypes DEF Nexus, NexusOf
<1>3. \A n \in Nexus : OffBus(tg[n])
  BY <1>2 DEF CalmInv, UnitsInv
<1>4. ASSUME pc = "handle"
      PROVE  sr.csr \in Over \cup {"TIMEOUT"}
  <2>1. sr.csr \notin Phases
    BY <1>4 DEF Base, ChipInv, Phase, Phases
  <2>2. sr.csr \notin {"SDP", "RESEL_AM"}
    BY <1>4 DEF Base, ChipInv
  <2>3. sr.csr # "SELECT"
    <3>1. hd.selecting # NULL => NexusOf(hd.selecting) \in Nexus
      BY HostFieldTypes, AttrTypes DEF Base, Types, HostTypes
    <3> QED
      BY <1>2, <1>4, <3>1 DEF Base, SelectInv, SelectTold, Pending
  <2> QED
    BY <1>4, <2>1, <2>2, <2>3 DEF CalmInv, EndInv
<1> QED
  BY <1>1, <1>2, <1>3, <1>4

(* A selection succeeds, takes too long, or is beaten by a reselection.    *)
LEMMA CalmSelected ==
  ASSUME Base, Base', CalmInv, Selected, UNCHANGED <<hd, pc, sr, req, eh>>
  PROVE  CalmInv'
<1>1. /\ chip.int = "none" /\ bus = NULL /\ chip.cmd \in {"select", "level2"}
      /\ bus' = <<chip.id, chip.lun>>
  BY DEF Selected
<1>2. /\ IsChip(chip) /\ tg \in [Nexus -> Units] /\ NULL \notin Nexus
      /\ hd.incoming_msg = <<>> /\ pc \notin {"handle", "status"}
      /\ ~(chip.atn /\ ~Pending("SELECT") /\ Identifies(hd.outgoing_msg))
      /\ \A n \in Nexus : OffBus(tg[n])
  BY <1>1, FreeBus DEF InDriver
<1> DEFINE c == IF chip.cmd = "select" THEN hd.selecting ELSE hd.connected
<1>3. c # NULL /\ c \in Cmds /\ bus' = NexusOf(c) /\ bus' \in Nexus /\ bus' # NULL
  <2>1. c # NULL /\ bus' = NexusOf(c)
    BY <1>1 DEF Base, SelectInv, Selects, SelectsToTransfer
  <2>2. c \in Cmds
    BY <2>1, HostFieldTypes DEF Base, Types, HostTypes
  <2> QED
    BY <1>2, <2>1, <2>2, AttrTypes
<1>4. /\ chip'.cmd = IF chip.cmd = "select" THEN "none" ELSE "level2"
      /\ chip'.int = IF chip.cmd = "select" THEN "SELECT" ELSE "none"
      /\ chip'.cdb = chip.cdb /\ (chip.cmd = "level2" => chip'.atn = chip.atn)
  BY <1>1, <1>2 DEF Selected, IsChip
<1>5. PICK u : /\ tg' = [tg EXCEPT ![bus'] = u] /\ u.cmd = NULL /\ u.msgs = <<>>
               /\ u.ph = IF chip.cmd = "select" THEN "select" ELSE "command"
  <2>1. CASE chip.cmd = "select"
    <3> DEFINE v == [Idle EXCEPT !.ph = "select"]
    <3>1. tg' = [tg EXCEPT ![bus'] = v]
      BY <2>1 DEF Selected
    <3>2. v.cmd = NULL /\ v.msgs = <<>> /\ v.ph = "select"
      BY DEF Idle
    <3> HIDE DEF v
    <3> QED
      BY <2>1, <3>1, <3>2
  <2>2. CASE chip.cmd # "select"
    <3> DEFINE v == [Idle EXCEPT !.ph = "command", !.disc = chip.er]
    <3>1. tg' = [tg EXCEPT ![bus'] = v]
      BY <2>2 DEF Selected
    <3>2. v.cmd = NULL /\ v.msgs = <<>> /\ v.ph = "command"
      BY DEF Idle
    <3> HIDE DEF v
    <3> QED
      BY <2>2, <3>1, <3>2
  <2> QED
    BY <2>1, <2>2
<1>6. \A csr \in {"DISC", "UNEXP_DISC", "SEL_XFER_DONE", "RESEL_AM", "TIMEOUT", "SDP"} :
        ~Pending(csr) /\ ~Pending(csr)'
  BY <1>1, <1>2, <1>4 DEF Pending
<1>7. ~Ending /\ ~Ending' /\ ~Pending("DISC") /\ Gone' = Gone
  <2>1. Leaver = {} /\ Leaver' = {}
    BY <1>6 DEF Leaver
  <2> QED
    BY <1>6, <2>1 DEF Ending, Gone, Away
<1>8. \A x \in Gone : NexusOf(x) \in Nexus /\ NexusOf(x) # bus'
  <2>1. Gone = Away /\ \A x \in Gone : NexusOf(x) # NexusOf(c)
    BY <1>3, <1>7, GoneElsewhere DEF Base
  <2> QED
    BY <1>3, <2>1, OfCommands, AttrTypes DEF Base
<1>9. \A n \in Nexus : tg'[n] = IF n = bus' THEN u ELSE tg[n]
  BY <1>2, <1>5
<1>10. UnitsInv'
  <2>1. \A n \in Nexus : n # bus' => OffBus(tg[n])'
    BY <1>2, <1>7, <1>9 DEF OffBus
  <2>2. \A x \in Gone' : tg'[NexusOf(x)].cmd = x
    BY <1>7, <1>8, <1>9 DEF CalmInv, UnitsInv
  <2>3. \A n \in Nexus : tg'[n].cmd # NULL => NexusOf(tg'[n].cmd) = n
    BY <1>5, <1>9 DEF CalmInv, UnitsInv
  <2> QED
    BY <2>1, <2>2, <2>3 DEF UnitsInv
<1>11. tg'[bus'] = u
  BY <1>3, <1>9
<1>12. BusInv'
  <2>1. CASE chip.cmd = "select"
    <3>1. Pending("SELECT")'
      BY <1>4, <2>1 DEF Pending
    <3> QED
      BY <1>3, <1>5, <1>11, <3>1 DEF BusInv
  <2>2. CASE chip.cmd # "select"
    <3>1. ~Pending("SELECT")'
      BY <1>2, <1>4, <2>2 DEF Pending
    <3>2. InConnection'
      BY <1>3, <1>5, <1>6, <1>7, <1>11, <2>2, <3>1 DEF InConnection
    <3> QED
      BY <1>3, <3>2 DEF BusInv
  <2> QED
    BY <2>1, <2>2
<1>13. EndInv'
  BY <1>2, <1>4, <1>6, <1>7 DEF EndInv
<1>14. Level2Inv'
  <2>1. chip.cmd = "level2" => /\ hd.connected # NULL /\ hd.state = "S_RUNNING_LEVEL2"
                               /\ hd.level2 > L2_NONE /\ chip.cdb = hd.connected
    BY <1>1 DEF CalmInv, Level2Inv
  <2> QED
    BY <1>1, <1>2, <1>3, <1>4, <1>6, <2>1 DEF Level2Inv
<1>15. MessagesInv'
  <2>1. Sends(u.msgs, u.ph)
    BY <1>5 DEF Sends, Parting
  <2> QED
    BY <1>2, <1>3, <1>4, <1>11, <2>1, Says DEF Base, Types, BusTypes
<1>16. IdentifyInv'
  <2>1. chip.cmd = "select" => Pending("SELECT")'
    BY <1>4 DEF Pending
  <2>2. chip.cmd # "select" => ~(chip'.atn /\ Identifies(hd.outgoing_msg))
    BY <1>1, <1>2, <1>4 DEF Pending
  <2> QED
    BY <1>1, <1>4, <2>1, <2>2 DEF IdentifyInv, Identifies
<1>17. NobodyGivenUp'
  BY DEF CalmInv, NobodyGivenUp
<1> QED
  BY <1>10, <1>12, <1>13, <1>14, <1>15, <1>16, <1>17 DEF CalmInv

(* A selection is not answered.                                              *)
LEMMA CalmTimeout ==
  ASSUME Base, Base', CalmInv, SelectionTimeout, UNCHANGED <<hd, pc, sr, req, eh>>
  PROVE  CalmInv'
<1>1. /\ chip.int = "none" /\ bus = NULL /\ bus' = NULL /\ chip.cmd \in {"select", "level2"}
      /\ UNCHANGED tg
  BY DEF SelectionTimeout
<1>2. /\ IsChip(chip) /\ NULL \notin Nexus
      /\ hd.incoming_msg = <<>> /\ pc # "handle"
      /\ ~(chip.atn /\ ~Pending("SELECT") /\ Identifies(hd.outgoing_msg))
  BY <1>1, FreeBus DEF InDriver
<1>3. chip'.cmd = "none" /\ chip'.int = "TIMEOUT" /\ chip'.atn = chip.atn
  BY <1>2 DEF SelectionTimeout, IsChip
<1>4. \A csr \in {"DISC", "UNEXP_DISC", "SEL_XFER_DONE", "RESEL_AM", "SELECT", "SDP"} :
        ~Pending(csr) /\ ~Pending(csr)'
  BY <1>1, <1>2, <1>3 DEF Pending
<1>5. ~Ending /\ ~Ending' /\ Gone' = Gone
  <2>1. Leaver = {} /\ Leaver' = {}
    BY <1>4 DEF Leaver
  <2> QED
    BY <1>4, <2>1 DEF Ending, Gone, Away
<1>6. Pending("TIMEOUT")'
  BY <1>3 DEF Pending
<1>7. UnitsInv'
  BY <1>1, <1>5 DEF CalmInv, UnitsInv, OffBus
<1>8. BusInv' /\ EndInv' /\ MessagesInv'
  BY <1>1, <1>2, <1>3, <1>4, <1>5, <1>6 DEF BusInv, EndInv, MessagesInv
<1>9. Level2Inv' /\ IdentifyInv'
  BY <1>2, <1>3, <1>4 DEF Level2Inv, IdentifyInv, Identifies
<1>10. NobodyGivenUp'
  BY DEF CalmInv, NobodyGivenUp
<1> QED
  BY <1>7, <1>8, <1>9, <1>10 DEF CalmInv

(* A unit that is away comes back, and beats a selection or finds the chip   *)
(* idle.                                                                     *)
LEMMA CalmReselect ==
  ASSUME Base, Base', CalmInv, NEW n \in Nexus, Reselect(n), UNCHANGED <<hd, pc, sr, req, eh>>
  PROVE  CalmInv'
<1>1. chip.int = "none" /\ bus = NULL /\ bus' = n /\ tg[n].ph = "disc"
  BY DEF Reselect
<1>2. /\ IsChip(chip) /\ tg \in [Nexus -> Units] /\ NULL \notin Nexus
      /\ hd.incoming_msg = <<>>
      /\ pc = "handle" => sr.csr \in Over \cup {"TIMEOUT"}
      /\ \A k \in Nexus : OffBus(tg[k])
  BY <1>1, FreeBus
<1>3. tg[n].msgs = <<>> /\ tg[n].cmd \in Gone /\ IsUnit(tg[n])
  BY <1>1, <1>2, RecordDomains DEF OffBus
<1>4. /\ chip'.cmd = "none" /\ chip'.int = "RESEL_AM" /\ ~chip'.atn /\ chip'.phs = chip.phs
  BY <1>2 DEF Reselect, IsChip
<1>5. \A csr : csr # "RESEL_AM" /\ csr # "none" => (Pending(csr)' <=> Pending(csr))
  BY <1>1, <1>4 DEF Pending
<1>6. /\ Pending("DISC")' <=> Pending("DISC")
      /\ Pending("UNEXP_DISC")' <=> Pending("UNEXP_DISC")
      /\ Pending("SEL_XFER_DONE")' <=> Pending("SEL_XFER_DONE")
      /\ Pending("SDP")' <=> Pending("SDP")
      /\ Pending("RESEL_AM")'
  BY <1>4, <1>5 DEF Pending
<1>7. Gone' = Gone /\ Leaver' = Leaver /\ (Ending' <=> Ending)
  BY <1>6 DEF Gone, Leaver, Away, Ending
<1>8. PICK u : tg' = [tg EXCEPT ![n] = u] /\ u.cmd = tg[n].cmd /\ u.msgs = <<>> /\ u.ph = "exec"
  <2> DEFINE v == [tg[n] EXCEPT !.ph = "exec"]
  <2>1. tg' = [tg EXCEPT ![n] = v]
    BY <1>2 DEF Reselect
  <2>2. v.cmd = tg[n].cmd /\ v.msgs = <<>> /\ v.ph = "exec"
    BY <1>3 DEF IsUnit
  <2> HIDE DEF v
  <2> QED
    BY <2>1, <2>2
<1>9. \A k \in Nexus : tg'[k] = (IF k = n THEN u ELSE tg[k]) /\ tg'[k].cmd = tg[k].cmd
  BY <1>2, <1>8
<1>10. \A x \in Cmds : NexusOf(x) \in Nexus
  BY AttrTypes
<1>11. Gone \subseteq Cmds /\ (hd.connected # NULL => NexusOf(hd.connected) \in Nexus)
  <2>1. hd.connected \in Cmds \cup {NULL} /\ Away \subseteq Cmds
    BY HostFieldTypes, OfCommands DEF Base, Types, HostTypes
  <2>2. Pending("DISC") => hd.connected # NULL
    BY DEF CalmInv, EndInv, Ending
  <2> QED
    BY <1>10, <2>1, <2>2 DEF Gone, Leaver
<1>12. UnitsInv'
  <2>1. \A k \in Nexus : k # n => OffBus(tg[k])'
    BY <1>2, <1>7, <1>9 DEF OffBus
  <2> QED
    BY <1>1, <1>7, <1>9, <1>10, <1>11, <2>1 DEF CalmInv, UnitsInv
<1>13. tg'[bus'] = u
  BY <1>1, <1>9
<1>14. BusInv'
  BY <1>1, <1>2, <1>3, <1>6, <1>7, <1>8, <1>13 DEF BusInv
<1>15. EndInv'
  <2>1. Ending /\ Leaver = {} => tg'[NexusOf(hd.connected)].cmd # hd.connected
    BY <1>9, <1>11 DEF CalmInv, EndInv
  <2> QED
    BY <1>2, <1>4, <1>6, <1>7, <2>1 DEF CalmInv, EndInv
<1>16. Level2Inv'
  <2>1. Beaten(chip.phs) \/ pc = "handle"
    <3>1. SUFFICES ASSUME pc # "handle", hd.connected # NULL
                   PROVE  hd.level2 > L2_NONE /\ chip.phs = 0
      BY DEF Beaten
    <3>2. chip.cmd = "level2"
      BY <1>1, <3>1 DEF CalmInv, BusInv, Ending, Pending
    <3> QED
      BY <1>1, <3>2 DEF CalmInv, Level2Inv
  <2>2. pc = "handle" => sr.csr # "RESEL_AM"
    BY <1>2 DEF Over
  <2> QED
    BY <1>2, <1>4, <1>6, <2>1, <2>2 DEF CalmInv, Level2Inv, Beaten
<1>17. MessagesInv'
  <2>1. Sends(u.msgs, u.ph)
    BY <1>8 DEF Sends, Parting
  <2> QED
    BY <1>1, <1>2, <1>4, <1>13, <2>1, Says DEF Base, Types, BusTypes
<1>18. IdentifyInv'
  BY <1>4 DEF IdentifyInv
<1>19. NobodyGivenUp'
  BY DEF CalmInv, NobodyGivenUp
<1> QED
  BY <1>12, <1>14, <1>15, <1>16, <1>17, <1>18, <1>19 DEF CalmInv

(* What the chip and the targets do.                                       *)
LEMMA CalmBus ==
  ASSUME Base, Base', CalmInv, BusSteps \/ DataSteps
  PROVE  CalmInv'
<1>1. CASE DataSteps
  <2>1. PICK k \in 1..chip.count : DmaMoves(k) \/ PioMoves(k)
    BY <1>1 DEF DataSteps
  <2>2. MoveData(k) /\ UNCHANGED <<hd, pc, sr, req, eh>>
    BY <2>1 DEF DmaMoves, PioMoves, driverVars
  <2> QED
    BY <2>2, CalmPhases
<1>2. CASE BusSteps
  <2>1. UNCHANGED driverVars /\ UNCHANGED <<hd, pc, sr, req, eh>>
    BY <1>2 DEF BusSteps, driverVars
  <2>2. CASE TargetSteps
    BY <2>1, <2>2, CalmTarget
  <2>3. CASE ReportPhase
    BY <2>1, <2>3, CalmReport
  <2>4. CASE TakeCommand \/ TakeStatus
    BY <2>1, <2>4, CalmPhases
  <2>5. CASE TakeMessages \/ TakeByte \/ Level2Message
    BY <2>1, <2>5, CalmMessages, CalmByte, CalmLevel2Message
  <2>6. CASE ReleaseBus \/ Drop
    BY <2>1, <2>6, CalmRelease
  <2>7. CASE Selected \/ SelectionTimeout \/ \E n \in Nexus : Reselect(n)
    BY <2>1, <2>7, CalmSelected, CalmTimeout, CalmReselect
  <2> QED
    BY <1>2, <2>2, <2>3, <2>4, <2>5, <2>6, <2>7 DEF BusSteps, ChipSteps
<1> QED
  BY <1>1, <1>2

(* What the start of a command writes besides its own.                     *)
LEMMA StartCalls ==
  ASSUME Types, Start, ~CannotStart
  PROVE  /\ SameBut(hd, hd', {"input_Q", "busy", "selecting", "connected", "state",
                              "sync_stat", "dma", "bounce"})
         /\ chip.int # "none" => chip'.cmd = chip.cmd
         /\ hd'.connected # NULL =>
              hd.level2 # L2_NONE /\ chip'.phs = 0 /\ chip'.cdb = hd'.connected
<1> DEFINE c    == hd.input_Q[Runnable]
           rest == RemoveAt(hd.input_Q, Runnable)
           er   == AllowDisconnect(c, rest)
           h    == [hd EXCEPT !.input_Q = rest, !.busy = @ \cup {NexusOf(c)}]
           ch   == [chip EXCEPT !.id = Attr[c].id, !.lun = Attr[c].lun, !.dpd = Attr[c].in,
                                !.er = er, !.sync = hd.sync_xfer[Attr[c].id]]
           ready == [h EXCEPT !.connected = c, !.state = "S_RUNNING_LEVEL2"]
           k    == [NoCount(ch) EXCEPT !.cdb = c]
           m    == [ch EXCEPT !.count = scp[c].left, !.cdb = c, !.polled = FALSE]
           own  == {"input_Q", "busy", "selecting", "connected", "state",
                    "sync_stat", "dma", "bounce"}
<1>1. /\ IsHost(hd) /\ IsChip(chip) /\ hd.connected = NULL
  BY RecordDomains DEF Types, HostTypes, BusTypes, CannotStart
<1>2. StartSelect(c, h, ch) \/ StartLevel2(c, h, ch)
  BY DEF Start
<1> HIDE DEF c, rest, er
<1> DEFINE On(d) == IsChip(d) /\ d.int = chip.int /\ d.cmd = chip.cmd
<1>3. On(NoCount(ch)) /\ On(k) /\ On(m) /\ k.cdb = c /\ m.cdb = c
  BY <1>1 DEF IsChip, NoCount
<1>4. \A d : On(d) =>
        /\ chip.int # "none" => SelAtn(d).cmd = chip.cmd /\ SelAtnXfer(d, 0).cmd = chip.cmd
        /\ SelAtnXfer(d, 0).phs = 0 /\ SelAtnXfer(d, 0).cdb = d.cdb
  BY DEF SelAtn, SelAtnXfer, Issue, IsChip
<1>5. IsHost(h) /\ SameBut(hd, h, own) /\ h.connected = NULL
  BY <1>1 DEF IsHost, SameBut
<1>6. IsHost(ready) /\ SameBut(hd, ready, own) /\ ready.connected = c
  BY <1>1 DEF IsHost, SameBut
<1> HIDE DEF ch, k, m, h
<1>7. CASE StartSelect(c, h, ch)
  <2>1. SameBut(hd, hd', own) /\ hd'.connected = NULL
    BY <1>5, <1>7 DEF StartSelect, IsHost, SameBut
  <2>2. chip' = SelAtn(NoCount(ch))
    BY <1>7 DEF StartSelect
  <2>3. chip.int # "none" => chip'.cmd = chip.cmd
    <3> HIDE DEF On
    <3> QED
      BY <1>3, <1>4, <2>2
  <2> QED
    BY <2>1, <2>3
<1>8. CASE StartLevel2(c, h, ch)
  <2> HIDE DEF ready
  <2>1. \/ hd' = ready /\ chip' = SelAtnXfer(k, 0)
        \/ \E via : /\ hd' = DmaSetup(ready, via)
                    /\ chip' = SelAtnXfer(IF via = "fail" THEN k ELSE m, 0)
    BY <1>8 DEF StartLevel2, ready, k, m
  <2>2. PICK d \in {k, m} : chip' = SelAtnXfer(d, 0)
    BY <2>1
  <2>3. /\ chip.int # "none" => chip'.cmd = chip.cmd
        /\ chip'.phs = 0 /\ chip'.cdb = c
    <3> HIDE DEF On
    <3> QED
      BY <1>3, <1>4, <2>2
  <2>4. SameBut(hd, hd', own) /\ hd'.connected = c
    <3>1. ASSUME NEW via
          PROVE  LET e == DmaSetup(ready, via)
                 IN SameBut(hd, e, own) /\ e.connected = c
      BY <1>1, <1>6 DEF DmaSetup, SameBut, IsHost
    <3> QED
      BY <1>6, <2>1, <3>1
  <2>5. hd.level2 # L2_NONE
    BY <1>8 DEF StartLevel2, SelectsOnly
  <2> QED
    BY <2>3, <2>4, <2>5
<1> QED
  BY <1>2, <1>7, <1>8

(* The driver does something else: what it knows of the connection and of  *)
(* those that are away stays.                                              *)
LEMMA Rests ==
  ASSUME Base, CalmInv, UNCHANGED <<chip, bus, tg>>,
         hd'.disconnected_Q = hd.disconnected_Q, hd'.connected = hd.connected,
         hd'.state = hd.state, hd'.level2 = hd.level2, hd'.incoming_msg = hd.incoming_msg,
         hd'.outgoing_msg = hd.outgoing_msg,
         pc # "handle", pc' \in {"idle", "execute"}, NobodyGivenUp'
  PROVE  CalmInv'
<1>1. pc' \notin {"handle", "status", "message"}
  OBVIOUS
<1>2. \A csr : Pending(csr)' <=> Pending(csr)
  BY DEF Pending
<1>3. Gone' = Gone /\ (Ending' <=> Ending) /\ Leaver' = Leaver
  BY <1>2 DEF Gone, Leaver, Away, Ending
<1>4. UnitsInv' /\ BusInv'
  BY <1>2, <1>3 DEF CalmInv, UnitsInv, OffBus, BusInv, InConnection
<1>5. EndInv' /\ Level2Inv' /\ IdentifyInv'
  BY <1>1, <1>2, <1>3 DEF CalmInv, EndInv, Level2Inv, Beaten, IdentifyInv
<1>6. MessagesInv'
  <2>1. Left' = Left /\ In' = In /\ (InExtended' <=> InExtended)
    BY DEF Left, In, InExtended
  <2> QED
    BY <1>1, <1>2, <2>1 DEF CalmInv, MessagesInv
<1> QED
  BY <1>4, <1>5, <1>6 DEF CalmInv

(* A command is started.                                                   *)
LEMMA CalmStart ==
  ASSUME Base, Base', CalmInv, Calm, Start, ~CannotStart, pc \in {"idle", "execute"},
         pc' = "idle", UNCHANGED <<sr, req, eh, bus, tg>>
  PROVE  CalmInv'
<1>1. /\ hd.selecting = NULL /\ hd.connected = NULL
  BY DEF CannotStart
<1>2. /\ hd'.disconnected_Q = hd.disconnected_Q /\ hd'.level2 = hd.level2
      /\ hd'.incoming_msg = hd.incoming_msg /\ hd'.outgoing_msg = hd.outgoing_msg
      /\ chip.int # "none" => chip'.cmd = chip.cmd
      /\ hd'.connected # NULL =>
              hd.level2 # L2_NONE /\ chip'.phs = 0 /\ chip'.cdb = hd'.connected
  <2>1. IsHost(hd)
    BY RecordDomains DEF Base, Types, HostTypes
  <2>2. SameBut(hd, hd', {"input_Q", "busy", "selecting", "connected", "state",
                              "sync_stat", "dma", "bounce"})
        /\ (chip.int # "none" => chip'.cmd = chip.cmd)
        /\ (hd'.connected # NULL =>
              hd.level2 # L2_NONE /\ chip'.phs = 0 /\ chip'.cdb = hd'.connected)
    BY StartCalls DEF Base
  <2> QED
    BY <2>1, <2>2 DEF SameBut, IsHost
<1>3. PICK c \in Cmds :
        /\ chip'.atn = chip.atn /\ chip'.int = chip.int
        /\ \/ /\ hd'.connected = NULL
              /\ chip.int = "none" => chip'.cmd = "select"
           \/ /\ hd'.connected = c /\ hd'.state = "S_RUNNING_LEVEL2"
              /\ chip.int = "none" => chip'.cmd = "level2"
  BY StartEffect DEF Base
<1>4. c # NULL
  BY AttrTypes
<1>5. hd.level2 \in Nat /\ hd.level2 >= L2_NONE
  BY HostFieldTypes, SetupTypes DEF Base, Types, HostTypes, Calm
<1>6. ~Ending /\ chip.int \in {"none", "RESEL_AM"} /\ (bus # NULL => chip.int = "RESEL_AM")
  <2>1. \A csr : Pending(csr) <=> chip.int = csr
    BY DEF Pending
  <2>2. ~Ending /\ ~Pending("SELECT") /\ ~Pending("TIMEOUT")
    BY <1>1 DEF CalmInv, EndInv, Base, SelectInv, SelectTold, TimeoutTold
  <2>3. bus # NULL => chip.int = "RESEL_AM"
    BY <1>1, <2>1, <2>2 DEF CalmInv, BusInv, InConnection
  <2>4. chip.int \in Ints
    BY ChipTypes DEF Base, Types, BusTypes
  <2>5. bus = NULL => chip.int \notin Phases \cup {"MSGIN", "SDP"}
    BY DEF Base, ChipInv, Phase, Phases
  <2> QED
    BY <2>1, <2>2, <2>3, <2>4, <2>5 DEF CalmInv, EndInv, Ending, Ints
<1>7. \A csr : csr # "RESEL_AM" /\ csr # "none" => ~Pending(csr) /\ ~Pending(csr)'
  BY <1>3, <1>6 DEF Pending
<1>8. /\ ~Pending("DISC") /\ ~Pending("DISC")' /\ ~Pending("SELECT")'
      /\ ~Pending("SDP")' /\ ~Ending' /\ (Pending("RESEL_AM") <=> Pending("RESEL_AM")')
  BY <1>3, <1>7 DEF Ending, Pending
<1>9. Gone' = Gone
  BY <1>2, <1>8 DEF Gone, Leaver, Away
<1>10. UnitsInv'
  BY <1>9 DEF CalmInv, UnitsInv, OffBus
<1>11. bus # NULL => /\ bus \in Nexus /\ tg[bus].ph = "exec" /\ tg[bus].msgs = <<>>
                     /\ tg[bus].cmd \in Gone
  BY <1>1, <1>6, <1>7 DEF CalmInv, BusInv, InConnection, Base, Types, BusTypes
<1>12. BusInv'
  <2>1. bus = NULL => chip.int = "none"
    BY <1>6 DEF Base, ChipInv
  <2> QED
    BY <1>3, <1>6, <1>8, <1>9, <1>11, <2>1 DEF BusInv, Pending
<1>13. EndInv'
  BY <1>3, <1>6, <1>8 DEF EndInv
<1>14. Level2Inv'
  <2>1. chip.int = "RESEL_AM" => bus # NULL /\ chip.cmd = "none"
    BY DEF Base, ChipInv
  <2> QED
    BY <1>2, <1>3, <1>4, <1>5, <1>6, <1>8, <2>1 DEF Level2Inv, Beaten, L2_NONE
<1>15. MessagesInv'
  <2>1. CASE bus = NULL
    BY <1>2, <2>1 DEF CalmInv, MessagesInv
  <2>2. CASE bus # NULL
    <3>1. hd.incoming_msg = <<>>
      BY <1>6, <1>11, <2>2, Silent DEF Base, CalmInv
    <3>2. Sends(tg[bus].msgs, tg[bus].ph)
      BY <1>11, <2>2 DEF Sends, Parting
    <3> QED
      BY <1>2, <1>3, <1>6, <1>11, <2>2, <3>1, <3>2, Says DEF Base, Types, BusTypes
  <2> QED
    BY <2>1, <2>2
<1>16. IdentifyInv'
  <2>1. ~(chip'.atn /\ ~Pending("SELECT")' /\ Identifies(hd'.outgoing_msg))
    BY <1>11 DEF Base, SelectInv, IdentifyDue
  <2>2. chip'.cmd # "info"
    BY <1>2, <1>3, <1>6 DEF Base, ChipInv
  <2> QED
    BY <2>1, <2>2 DEF IdentifyInv, Identifies
<1>17. NobodyGivenUp'
  BY DEF CalmInv, NobodyGivenUp
<1> QED
  BY <1>10, <1>12, <1>13, <1>14, <1>15, <1>16, <1>17 DEF CalmInv

(* A command is queued, the settings are written, input_Q is looked at.    *)
LEMMA CalmQueue ==
  ASSUME Base, CalmInv, NEW c \in Cmds, Queue(c)
  PROVE  CalmInv'
<1>1. IsHost(hd) /\ req \in [Cmds -> Requests]
  BY RecordDomains DEF Base, Types, HostTypes
<1>2. /\ UNCHANGED <<chip, bus, tg, eh>> /\ pc = "idle" /\ pc' = "execute"
      /\ SameBut(hd, hd', {"input_Q"})
      /\ req' = [req EXCEPT ![c] = [st |-> "queued", res |-> NoResult]]
  BY <1>1 DEF Queue, QueueCommand, SameBut, IsHost
<1>3. NobodyGivenUp'
  BY <1>1, <1>2 DEF CalmInv, NobodyGivenUp
<1> QED
  BY <1>1, <1>2, <1>3, Rests DEF SameBut, IsHost

(* wd33c93_write_info changes nothing that is known of the targets.          *)
LEMMA CalmSettings ==
  ASSUME Base, CalmInv, WriteInfo
  PROVE  CalmInv'
<1>1. IsHost(hd)
  BY RecordDomains DEF Base, Types, HostTypes
<1>2. /\ UNCHANGED <<chip, bus, tg, eh, req>> /\ pc = "idle" /\ pc' = "idle"
      /\ SameBut(hd, hd', {"disconnect", "no_dma", "sync_stat", "no_sync"})
  BY <1>1 DEF WriteInfo, Resync, SameBut, IsHost, busVars
<1>3. NobodyGivenUp'
  BY <1>2 DEF CalmInv, NobodyGivenUp
<1> QED
  BY <1>1, <1>2, <1>3, Rests DEF SameBut, IsHost

(* wd33c93_execute starts a command, or none.                                *)
LEMMA CalmExecute ==
  ASSUME Base, Base', CalmInv, Calm, Execute
  PROVE  CalmInv'
<1>1. pc = "execute" /\ pc' = "idle" /\ UNCHANGED <<sr, req, eh, bus, tg>>
  BY DEF Execute, targetVars
<1>2. CASE CannotStart
  <2>1. UNCHANGED <<hd, chip>>
    BY <1>2 DEF Execute
  <2>2. NobodyGivenUp'
    BY <1>1 DEF CalmInv, NobodyGivenUp
  <2> QED
    BY <1>1, <2>1, <2>2, Rests
<1>3. CASE ~CannotStart
  BY <1>1, <1>3, CalmStart DEF Execute
<1> QED
  BY <1>2, <1>3

(* An interrupt is taken.                                                  *)
LEMMA CalmInterrupt ==
  ASSUME Base, Base', CalmInv, Interrupt
  PROVE  CalmInv'
<1>1. /\ pc = "idle" /\ pc' = "handle" /\ chip.int # "none"
      /\ sr' = [csr |-> chip.int, phs |-> chip.phs, src |-> bus]
      /\ UNCHANGED <<req, eh, bus, tg>>
  BY DEF Interrupt, targetVars
<1>2. /\ IsChip(chip) /\ IsHost(hd) /\ chip.cmd = "none" /\ chip.int \in Ints
      /\ chip.int \notin {"MSGIN", "ABORT", "none"}
  BY <1>1, RecordDomains, ChipTypes DEF Base, Types, HostTypes, BusTypes, ChipInv, CalmInv, EndInv
<1>3. /\ chip'.int = "none" /\ chip'.cmd = "none" /\ chip'.atn = chip.atn
      /\ chip'.phs = chip.phs
  BY <1>2 DEF Interrupt, IsChip
<1>4. /\ hd'.disconnected_Q = hd.disconnected_Q /\ hd'.connected = hd.connected
      /\ hd'.state = hd.state /\ hd'.level2 = hd.level2 /\ hd'.incoming_msg = hd.incoming_msg
      /\ hd'.outgoing_msg = hd.outgoing_msg
  BY <1>2 DEF Interrupt, DmaStop, IsHost
<1>5. \A csr : csr # "none" => (Pending(csr)' <=> Pending(csr))
  BY <1>1, <1>3 DEF Pending
<1>6. /\ Pending("DISC")' <=> Pending("DISC")
      /\ Pending("UNEXP_DISC")' <=> Pending("UNEXP_DISC")
      /\ Pending("SEL_XFER_DONE")' <=> Pending("SEL_XFER_DONE")
      /\ Pending("SELECT")' <=> Pending("SELECT")
      /\ Pending("RESEL_AM")' <=> Pending("RESEL_AM")
      /\ Pending("TIMEOUT")' <=> Pending("TIMEOUT")
      /\ Pending("SDP")' <=> Pending("SDP")
  BY <1>5
<1>7. Gone' = Gone /\ Leaver' = Leaver /\ (Ending' <=> Ending)
  BY <1>4, <1>6 DEF Gone, Leaver, Away, Ending
<1>8. UnitsInv' /\ BusInv'
  BY <1>1, <1>2, <1>3, <1>4, <1>6, <1>7 DEF CalmInv, UnitsInv, OffBus, BusInv, InConnection
<1>9. EndInv'
  <2>1. sr'.csr \in Over \cup {"TIMEOUT"} \cup Phases \cup {"SELECT", "SDP", "RESEL_AM"}
    BY <1>1, <1>2 DEF Ints, Over
  <2> QED
    BY <1>1, <1>3, <1>4, <1>6, <1>7, <2>1 DEF CalmInv, EndInv
<1>10. Level2Inv'
  BY <1>1, <1>2, <1>3, <1>4, <1>6 DEF CalmInv, Level2Inv, Beaten
<1>11. MessagesInv'
  <2>1. Left' = Left /\ In' = In /\ (InExtended' <=> InExtended)
    BY <1>1, <1>2, <1>3, <1>4 DEF Left, In, InExtended
  <2> QED
    BY <1>1, <1>2, <1>3, <1>4, <1>6, <2>1 DEF CalmInv, MessagesInv
<1>12. IdentifyInv'
  BY <1>1, <1>3, <1>4, <1>6 DEF CalmInv, IdentifyInv, Identifies
<1>13. NobodyGivenUp'
  BY <1>1 DEF CalmInv, NobodyGivenUp
<1> QED
  BY <1>8, <1>9, <1>10, <1>11, <1>12, <1>13 DEF CalmInv

(* The target that is back is the one of a command of disconnected_Q.      *)
LEMMA Back ==
  ASSUME Base, CalmInv, pc = "handle", sr.csr = "RESEL_AM"
  PROVE  /\ chip.int = "none" /\ bus \in Nexus /\ bus # NULL /\ sr.src = bus /\ Beaten(sr.phs)
         /\ tg[bus].ph = "exec" /\ tg[bus].msgs = <<>> /\ hd.incoming_msg = <<>>
         /\ Gone = Away /\ Reconnecting \in DOMAIN hd.disconnected_Q
         /\ NexusOf(hd.disconnected_Q[Reconnecting]) = bus
         /\ hd.disconnected_Q[Reconnecting] \in Away
<1>1. chip.int = "none" /\ bus # NULL /\ sr.src = bus /\ Beaten(sr.phs)
  BY DEF Base, ChipInv, CalmInv, Level2Inv
<1>2. ~Pending("DISC") /\ ~Pending("SELECT") /\ Pending("RESEL_AM")
  BY <1>1 DEF Pending
<1>3. Gone = Away
  BY <1>2 DEF Gone, Leaver
<1>4. tg[bus].ph = "exec" /\ tg[bus].msgs = <<>> /\ tg[bus].cmd \in Away /\ bus \in Nexus
  BY <1>1, <1>2, <1>3 DEF CalmInv, BusInv, InConnection, Base, Types, BusTypes
<1>5. hd.incoming_msg = <<>>
  BY <1>1, <1>4, Silent DEF Base, CalmInv
<1>6. NexusOf(tg[bus].cmd) = bus /\ tg[bus].cmd \in Cmds
  <2>1. tg[bus].cmd \in Cmds /\ tg[bus].cmd # NULL
    BY <1>4, OfCommands DEF Base
  <2> QED
    BY <1>4, <2>1 DEF CalmInv, UnitsInv
<1> DEFINE wanted == {c \in Cmds : NexusOf(c) = sr.src}
<1>7. \/ Reconnecting = 0 /\ \A i \in DOMAIN hd.disconnected_Q : hd.disconnected_Q[i] \notin wanted
      \/ Reconnecting \in DOMAIN hd.disconnected_Q /\ hd.disconnected_Q[Reconnecting] \in wanted
  <2>1. hd.disconnected_Q \in Seq(Cmds)
    BY HostFieldTypes DEF Base, Types, HostTypes
  <2> HIDE DEF wanted
  <2>2. \/ First(hd.disconnected_Q, wanted) = 0
             /\ \A i \in DOMAIN hd.disconnected_Q : hd.disconnected_Q[i] \notin wanted
        \/ First(hd.disconnected_Q, wanted) \in DOMAIN hd.disconnected_Q
             /\ hd.disconnected_Q[First(hd.disconnected_Q, wanted)] \in wanted
    BY <2>1, Found
  <2> QED
    BY <2>2 DEF Reconnecting, wanted
<1>8. \E i \in DOMAIN hd.disconnected_Q : hd.disconnected_Q[i] \in wanted
  <2>1. PICK i \in DOMAIN hd.disconnected_Q : hd.disconnected_Q[i] = tg[bus].cmd
    BY <1>4 DEF Away, ToSet
  <2> QED
    BY <1>1, <1>6, <2>1
<1>9. /\ Reconnecting \in DOMAIN hd.disconnected_Q
      /\ NexusOf(hd.disconnected_Q[Reconnecting]) = bus
  BY <1>1, <1>7, <1>8
<1>10. hd.disconnected_Q[Reconnecting] \in Away
  BY <1>9 DEF Away, ToSet
<1> QED
  BY <1>1, <1>3, <1>4, <1>5, <1>9, <1>10

(* No reselection is a stray one, and none comes while the driver has a    *)
(* command connected that it would forget.                                 *)
LEMMA CalmKnown ==
  ASSUME Base, CalmInv
  PROVE  Known
<1>1. SUFFICES ASSUME pc = "handle", sr.csr = "RESEL_AM"
               PROVE  Reconnecting # 0 /\ (hd.level2 <= L2_NONE => hd.connected = NULL)
  BY DEF Known
<1>2. Reconnecting \in DOMAIN hd.disconnected_Q /\ Beaten(sr.phs)
  BY <1>1, Back
<1>3. hd.disconnected_Q \in Seq(Cmds) /\ hd.level2 \in Nat
  BY HostFieldTypes, SetupTypes DEF Base, Types, HostTypes
<1> QED
  BY <1>2, <1>3 DEF Beaten, L2_NONE

(* The handler ends a connection, or gives up a selection.                 *)
LEMMA CalmEnds ==
  ASSUME Base, Base', CalmInv, pc = "handle", pc' \in {"idle", "execute"},
         sr.csr \in Over \cup {"TIMEOUT"}, UNCHANGED <<bus, tg, sr>>,
         chip'.cmd = chip.cmd, chip'.int = chip.int, chip'.atn = chip.atn,
         hd'.connected = NULL, Away' = Gone, hd'.incoming_msg = hd.incoming_msg, NobodyGivenUp'
  PROVE  CalmInv'
<1>1. chip.cmd = "none" /\ chip.int \in {"none", "RESEL_AM"}
  BY DEF Base, ChipInv, CalmInv, EndInv, Over, Phases
<1>2. \A csr : csr \notin {"none", "RESEL_AM"} => ~Pending(csr)'
  BY <1>1 DEF Pending
<1>3. /\ ~Pending("DISC")' /\ ~Pending("SELECT")' /\ ~Pending("TIMEOUT")' /\ ~Pending("SDP")'
      /\ ~Ending'
  BY <1>2 DEF Ending
<1>4. Gone' = Gone /\ ~Pending("SELECT") /\ (Pending("RESEL_AM") => chip.int = "RESEL_AM")
      /\ (Ending \/ Pending("TIMEOUT"))
  BY <1>1, <1>3 DEF Gone, Leaver, Pending, Over, Ending
<1>5. UnitsInv'
  BY <1>4 DEF CalmInv, UnitsInv, OffBus
<1>6. bus # NULL => /\ chip.int = "RESEL_AM" /\ tg[bus].ph = "exec" /\ tg[bus].msgs = <<>>
                    /\ tg[bus].cmd \in Gone /\ bus \in Nexus
  BY <1>4 DEF CalmInv, BusInv, InConnection, Base, Types, BusTypes
<1>7. BusInv'
  BY <1>4, <1>6 DEF BusInv, Pending
<1>8. EndInv' /\ Level2Inv'
  BY <1>1, <1>3 DEF EndInv, Level2Inv, Beaten
<1>9. MessagesInv'
  <2>1. CASE bus = NULL
    BY <2>1 DEF CalmInv, MessagesInv
  <2>2. CASE bus # NULL
    <3>1. hd.incoming_msg = <<>>
      BY <1>1, <1>6, <2>2, Silent DEF Base, CalmInv
    <3>2. Sends(tg[bus].msgs, tg[bus].ph)
      BY <1>6, <2>2 DEF Sends, Parting
    <3> QED
      BY <1>1, <1>6, <2>2, <3>1, <3>2, Says DEF Base, Types, BusTypes
  <2> QED
    BY <2>1, <2>2
<1>10. IdentifyInv'
  <2>1. ~(chip'.atn /\ ~Pending("SELECT")' /\ Identifies(hd'.outgoing_msg))
    BY <1>6 DEF Base, SelectInv, IdentifyDue
  <2> QED
    BY <1>1, <2>1 DEF IdentifyInv, Identifies
<1> QED
  BY <1>5, <1>7, <1>8, <1>9, <1>10 DEF CalmInv

(* The handler serves the connection; what it writes to the chip counts    *)
(* unless the target has gone.                                             *)
LEMMA CalmDeals ==
  ASSUME Base, CalmInv, pc = "handle", pc' \in {"idle", "pio", "sent", "status", "message"},
         sr.csr \in Phases \cup {"SDP"}, UNCHANGED <<bus, tg, sr, req, eh>>,
         hd'.disconnected_Q = hd.disconnected_Q, hd'.connected = hd.connected,
         hd'.level2 = hd.level2, hd'.incoming_msg = hd.incoming_msg,
         chip'.int = chip.int, chip.int # "none" => chip'.cmd = "none",
         chip'.cmd = "level2" => /\ hd.connected # NULL /\ hd'.state = "S_RUNNING_LEVEL2"
                                 /\ hd.level2 > L2_NONE /\ chip'.phs # \h20
                                 /\ sr.csr # "MESS_IN",
         pc' = "status" => sr.csr # "MESS_IN" /\ sr.csr # "SDP",
         chip'.cmd = "info" /\ chip'.xph = "COMMAND" => chip'.cdb = hd.connected,
         IdentifyInv'
  PROVE  CalmInv'
<1>1. /\ chip.int \in {"none", "UNEXP_DISC"} /\ (sr.csr = "SDP" => chip.int = "none")
      /\ chip.int = "none" => bus # NULL /\ (sr.csr \in Phases => Phase = sr.csr)
  <2>1. chip.int \in {"none", "UNEXP_DISC"} /\ (sr.csr = "SDP" => chip.int = "none")
    BY DEF CalmInv, EndInv, Over, Phases
  <2> QED
    BY <2>1 DEF Base, ChipInv, Phases, Phase
<1>2. \A csr : csr \notin {"none", "SDP"} \cup Phases =>
        (Pending(csr) <=> chip.int = csr) /\ (Pending(csr)' <=> chip.int = csr)
  BY DEF Pending
<1>3. /\ ~Pending("DISC") /\ ~Pending("DISC")' /\ ~Pending("SELECT") /\ ~Pending("SELECT")'
      /\ ~Pending("RESEL_AM") /\ ~Pending("RESEL_AM")'
      /\ ~Pending("TIMEOUT") /\ ~Pending("TIMEOUT")' /\ ~Pending("SDP")'
      /\ Ending <=> chip.int = "UNEXP_DISC"
      /\ Ending' <=> chip.int = "UNEXP_DISC"
  BY <1>1, <1>2 DEF Phases, Ending, Pending
<1>4. bus # NULL => InConnection /\ chip.int = "none" /\ bus \in Nexus
  BY <1>1, <1>3 DEF CalmInv, BusInv, InConnection, Base, Types, BusTypes
<1>5. Gone' = Gone /\ Leaver' = Leaver
  BY <1>3 DEF Gone, Leaver, Away
<1>6. UnitsInv'
  BY <1>5 DEF CalmInv, UnitsInv, OffBus
<1>7. BusInv'
  <2>1. bus # NULL => InConnection'
    BY <1>3, <1>4 DEF InConnection
  <2>2. bus = NULL => Ending'
    BY <1>1, <1>3
  <2> QED
    BY <2>1, <2>2 DEF BusInv
<1>8. EndInv'
  BY <1>1, <1>3, <1>5 DEF CalmInv, EndInv
<1>9. Level2Inv'
  BY <1>1, <1>3 DEF Level2Inv
<1>10. MessagesInv'
  <2>1. CASE bus = NULL
    BY <2>1 DEF CalmInv, MessagesInv
  <2>2. CASE bus # NULL
    <3>1. Left = tg[bus].msgs /\ Left' = Left
      <4>1. Left = tg[bus].msgs
        BY <1>4, <2>2, LeftIs DEF Base, Types, BusTypes
      <4> QED
        BY <1>1, <4>1 DEF Left
    <3>2. In' = In /\ (InExtended' <=> InExtended)
      BY <3>1 DEF In, InExtended
    <3>3. hd.incoming_msg # <<>> => Phase = "MESS_IN" /\ sr.csr # "SDP"
      <4>1. SUFFICES ASSUME hd.incoming_msg # <<>>
                     PROVE  Phase = "MESS_IN" /\ sr.csr # "SDP"
        OBVIOUS
      <4>2. tg[bus].msgs # <<>>
        BY <2>2, <3>1, <4>1 DEF CalmInv, MessagesInv, InExtended
      <4>3. sr.csr # "SDP"
        BY <2>2, <4>1 DEF CalmInv, MessagesInv, Pending
      <4>4. ~chip.ack
        BY <1>1, <1>4, <2>2, <4>3 DEF Phase, Phases
      <4> QED
        BY <2>2, <4>2, <4>3, <4>4 DEF Phase
    <3>4. hd.incoming_msg # <<>> => chip'.cmd # "level2" /\ pc' # "status"
      BY <1>1, <1>4, <2>2, <3>3
    <3> QED
      BY <1>3, <2>2, <3>1, <3>2, <3>4 DEF CalmInv, MessagesInv
  <2> QED
    BY <2>1, <2>2
<1>11. NobodyGivenUp'
  BY DEF CalmInv, NobodyGivenUp
<1> QED
  BY <1>6, <1>7, <1>8, <1>9, <1>10, <1>11 DEF CalmInv

(* The cases of the interrupt handler.                                     *)
LEMMA CalmOnSelect ==
  ASSUME Base, Base', CalmInv, OnSelect
  PROVE  CalmInv'
<1> DEFINE c  == hd.selecting
           id == Attr[c].id
           first == hd.sync_stat[id] = "SS_FIRST"
           off == IF id \in hd.no_sync THEN 0 ELSE OPTIMUM_SX_OFF
           out == <<Identify(c)>> \o IF first THEN <<Sdtr(off)>> ELSE <<>>
           st == IF first THEN "SS_WAITING" ELSE hd.sync_stat[id]
<1>1. /\ pc = "handle" /\ sr.csr = "SELECT" /\ UNCHANGED <<chip, bus, tg, sr, req, eh>>
      /\ pc' = "idle"
      /\ hd' = [hd EXCEPT !.connected = c, !.selecting = NULL, !.state = "S_CONNECTED",
                          !.outgoing_msg = out, !.sync_stat[id] = st]
  BY DEF OnSelect, Case, Rest, targetVars
<1>2. out[1] = Identify(c)
  OBVIOUS
<1>3. IsHost(hd) /\ chip.cmd = "none" /\ chip.int \in {"none"} \cup Phases
  BY <1>1, RecordDomains DEF Base, Types, HostTypes, ChipInv, CalmInv, EndInv, Over, Phases
<1> HIDE DEF out, st
<1>4. /\ hd'.connected = c /\ hd'.outgoing_msg = out /\ hd'.disconnected_Q = hd.disconnected_Q
      /\ hd'.incoming_msg = hd.incoming_msg /\ hd'.level2 = hd.level2
  BY <1>1, <1>3 DEF IsHost
<1>5. Pending("SELECT")
  BY <1>1 DEF Pending
<1>6. /\ c # NULL /\ bus = NexusOf(c) /\ tg[bus].ph = "select" /\ tg[bus].msgs = <<>>
      /\ hd.connected = NULL
  BY <1>5 DEF Base, SelectInv, SelectTold
<1>7. c \in Cmds /\ bus \in Nexus /\ bus # NULL
  <2>1. c \in Cmds
    BY <1>6, HostFieldTypes DEF Base, Types, HostTypes
  <2> QED
    BY <1>6, <2>1, AttrTypes, BusAssumption DEF NexusOf
<1>8. \A csr : csr \notin {"none", "SELECT"} \cup Phases => ~Pending(csr) /\ ~Pending(csr)'
  BY <1>1, <1>3 DEF Pending
<1>9. /\ ~Pending("DISC") /\ ~Pending("DISC")' /\ ~Pending("SELECT")'
      /\ ~Pending("RESEL_AM") /\ ~Pending("RESEL_AM")' /\ ~Pending("TIMEOUT")'
      /\ ~Pending("SDP")' /\ ~Ending'
  BY <1>1, <1>3, <1>8 DEF Phases, Ending, Pending
<1>10. tg[bus].cmd = NULL
  BY <1>6, <1>7, <1>9 DEF CalmInv, BusInv, InConnection
<1>11. Gone' = Gone
  BY <1>4, <1>9 DEF Gone, Leaver, Away
<1>12. UnitsInv'
  BY <1>1, <1>11 DEF CalmInv, UnitsInv, OffBus
<1>13. BusInv'
  <2>1. InConnection'
    BY <1>1, <1>4, <1>6, <1>9, <1>10 DEF InConnection
  <2> QED
    BY <1>1, <1>7, <2>1 DEF BusInv
<1>14. EndInv' /\ Level2Inv'
  BY <1>1, <1>3, <1>9 DEF EndInv, Level2Inv, Phases
<1>15. MessagesInv'
  <2>1. hd.incoming_msg = <<>>
    BY <1>3, <1>6, <1>7, Silent DEF Base, CalmInv, Phases
  <2>2. Sends(tg[bus].msgs, tg[bus].ph)
    BY <1>6 DEF Sends, Parting
  <2> QED
    BY <1>1, <1>3, <1>4, <1>7, <2>1, <2>2, Says DEF Base, Types, BusTypes, Phases
<1>16. IdentifyInv'
  BY <1>1, <1>2, <1>3, <1>4, <1>6 DEF IdentifyInv, Identify
<1>17. NobodyGivenUp'
  BY <1>1 DEF CalmInv, NobodyGivenUp
<1> QED
  BY <1>12, <1>13, <1>14, <1>15, <1>16, <1>17 DEF CalmInv

(* The command of the unit that is back is connected, and the one whose      *)
(* selection it beat goes back to input_Q.                                   *)
LEMMA CalmOnReselect ==
  ASSUME Base, Base', CalmInv, OnReselect
  PROVE  CalmInv'
<1> DEFINE i == Reconnecting
           c == hd.disconnected_Q[i]
           h == PutBackLoser(hd)
           q == RemoveAt(h.disconnected_Q, i)
           ch == [chip EXCEPT !.id = Attr[c].id, !.dpd = Attr[c].in]
           g(s) == [h EXCEPT !.connected = c, !.disconnected_Q = q, !.state = s]
<1>1. pc = "handle" /\ sr.csr = "RESEL_AM" /\ pc' = "idle" /\ UNCHANGED <<bus, tg, sr, req, eh>>
  BY DEF OnReselect, Case, Rest, targetVars
<1>2. /\ IsHost(h) /\ h.incoming_msg = hd.incoming_msg /\ h.outgoing_msg = hd.outgoing_msg
      /\ h.disconnected_Q = hd.disconnected_Q /\ h.level2 = hd.level2
  <2>1. IsHost(hd)
    BY RecordDomains DEF Base, Types, HostTypes
  <2> QED
    BY <2>1 DEF PutBackLoser, Requeued, IsHost
<1>3. /\ chip.int = "none" /\ bus \in Nexus /\ bus # NULL
      /\ tg[bus].ph = "exec" /\ tg[bus].msgs = <<>> /\ hd.incoming_msg = <<>>
      /\ Gone = Away /\ i \in DOMAIN hd.disconnected_Q
      /\ NexusOf(c) = bus /\ c \in Away
  BY <1>1, Back
<1>4. hd.level2 >= L2_RESELECT => hd.level2 > L2_NONE
  <2>1. hd.level2 \in Nat
    BY HostFieldTypes, SetupTypes DEF Base, Types, HostTypes
  <2> QED
    BY <2>1 DEF L2_RESELECT, L2_NONE
<1>5. /\ hd' = g(IF hd.level2 >= L2_RESELECT THEN "S_RUNNING_LEVEL2" ELSE "S_CONNECTED")
      /\ chip' = IF hd.level2 >= L2_RESELECT THEN SelAtnXfer(NoCount(ch), \h45) ELSE NegateAck(ch)
  <2> HIDE DEF ch
  <2>1. \/ /\ hd.level2 >= L2_RESELECT
           /\ hd' = [[h EXCEPT !.connected = c, !.disconnected_Q = RemoveAt(@, i)]
                       EXCEPT !.state = "S_RUNNING_LEVEL2"]
           /\ chip' = SelAtnXfer(NoCount(ch), \h45)
        \/ /\ ~(hd.level2 >= L2_RESELECT)
           /\ hd' = [[h EXCEPT !.connected = c, !.disconnected_Q = RemoveAt(@, i)]
                       EXCEPT !.state = "S_CONNECTED"]
           /\ chip' = NegateAck(ch)
    BY DEF OnReselect, ch
  <2>2. \A s : [[h EXCEPT !.connected = c, !.disconnected_Q = RemoveAt(@, i)] EXCEPT !.state = s]
               = g(s)
    <3> HIDE DEF h, c, i
    <3> QED
      BY <1>2 DEF IsHost
  <2> QED
    BY <2>1, <2>2
<1>6. /\ IsChip(ch) /\ ch.int = "none" /\ ch.cmd = "none" /\ ch.atn = chip.atn
      /\ IsChip(NoCount(ch)) /\ NoCount(ch).int = "none" /\ NoCount(ch).atn = chip.atn
  <2>1. IsChip(chip) /\ chip.cmd = "none"
    BY <1>1, RecordDomains DEF Base, Types, BusTypes, ChipInv
  <2> HIDE DEF c
  <2> QED
    BY <1>3, <2>1 DEF IsChip, NoCount
<1> HIDE DEF ch
<1>7. /\ chip'.int = "none" /\ chip'.atn = chip.atn
      /\ IF hd.level2 >= L2_RESELECT THEN chip'.cmd = "level2" /\ chip'.phs = \h45
         ELSE chip'.cmd = "none"
  <2>1. CASE hd.level2 >= L2_RESELECT
    <3> DEFINE d == NoCount(ch)
    <3>1. IsChip(d) /\ d.int = "none" /\ d.atn = chip.atn /\ chip' = SelAtnXfer(d, \h45)
      BY <1>5, <1>6, <2>1
    <3> HIDE DEF d
    <3>2. chip'.cmd = "level2" /\ chip'.phs = \h45 /\ chip'.int = "none" /\ chip'.atn = d.atn
      BY <3>1 DEF SelAtnXfer, Issue, IsChip
    <3> QED
      BY <2>1, <3>1, <3>2
  <2>2. CASE ~(hd.level2 >= L2_RESELECT)
    <3>1. chip' = [ch EXCEPT !.ack = FALSE, !.quiet = FALSE]
      BY <1>5, <1>6, <2>2, Commanded
    <3> QED
      BY <1>6, <2>2, <3>1 DEF IsChip
  <2> QED
    BY <2>1, <2>2
<1>8. /\ hd'.connected = c /\ hd'.disconnected_Q = RemoveAt(hd.disconnected_Q, i)
      /\ hd'.state = IF hd.level2 >= L2_RESELECT THEN "S_RUNNING_LEVEL2" ELSE "S_CONNECTED"
      /\ hd'.incoming_msg = hd.incoming_msg /\ hd'.outgoing_msg = hd.outgoing_msg
      /\ hd'.level2 = hd.level2
  <2> HIDE DEF h, c, i
  <2> QED
    BY <1>2, <1>5 DEF IsHost
<1> HIDE DEF h
<1>10. Away' = Away \ {c} /\ c \in Cmds /\ c # NULL
  <2>1. hd.disconnected_Q \in Seq(Cmds) /\ Distinct(hd.disconnected_Q)
    BY HostFieldTypes DEF Base, Types, HostTypes, Books
  <2>2. /\ ToSet(RemoveAt(hd.disconnected_Q, i)) = ToSet(hd.disconnected_Q) \ {c}
        /\ c \in Cmds
    BY <1>3, <2>1, Taken
  <2> QED
    BY <1>8, <2>2, AttrTypes DEF Away
<1>11. \A csr : csr \notin {"none", "RESEL_AM"} => ~Pending(csr) /\ ~Pending(csr)'
  BY <1>1, <1>3, <1>7 DEF Pending
<1>12. /\ ~Pending("DISC")' /\ ~Pending("SELECT")' /\ ~Pending("TIMEOUT")' /\ ~Pending("SDP")'
       /\ ~Ending' /\ ~Pending("RESEL_AM")'
  BY <1>1, <1>7, <1>11 DEF Ending, Pending
<1>13. Gone' = Gone \ {c}
  BY <1>3, <1>10, <1>12 DEF Gone, Leaver
<1>14. tg[bus].cmd = c
  BY <1>3 DEF CalmInv, UnitsInv
<1>15. UnitsInv'
  <2>1. \A n \in Nexus : n # bus => OffBus(tg[n])'
    <3>1. \A n \in Nexus : n # bus /\ tg[n].cmd # NULL => tg[n].cmd # c
      BY <1>3 DEF CalmInv, UnitsInv
    <3>2. \A n \in Nexus : n # bus => OffBus(tg[n])
      BY DEF CalmInv, UnitsInv
    <3>3. NULL \notin Gone
      BY <1>3, OfCommands DEF Base
    <3> QED
      BY <1>1, <1>13, <3>1, <3>2, <3>3 DEF OffBus
  <2> QED
    BY <1>1, <1>13, <2>1 DEF CalmInv, UnitsInv
<1>16. BusInv'
  <2>1. InConnection'
    BY <1>1, <1>3, <1>8, <1>10, <1>12, <1>14 DEF InConnection
  <2> QED
    BY <1>1, <1>3, <2>1 DEF BusInv
<1>17. EndInv'
  BY <1>1, <1>7, <1>12 DEF EndInv
<1>18. Level2Inv'
  BY <1>1, <1>3, <1>4, <1>7, <1>8, <1>10, <1>12 DEF Level2Inv
<1>19. MessagesInv'
  <2>1. Sends(tg[bus].msgs, tg[bus].ph)
    BY <1>3 DEF Sends, Parting
  <2> QED
    BY <1>1, <1>3, <1>7, <1>8, <2>1, Says DEF Base, Types, BusTypes
<1>20. IdentifyInv'
  <2>1. ~(chip'.atn /\ ~Pending("SELECT")' /\ Identifies(hd'.outgoing_msg))
    BY <1>1, <1>3 DEF Base, SelectInv, IdentifyDue
  <2> QED
    BY <1>7, <2>1 DEF IdentifyInv, Identifies
<1>21. NobodyGivenUp'
  BY <1>1 DEF CalmInv, NobodyGivenUp
<1> QED
  BY <1>15, <1>16, <1>17, <1>18, <1>19, <1>20, <1>21 DEF CalmInv

(* A selection is given up, or a connection has come to its end.             *)
LEMMA CalmOnEnds ==
  ASSUME Base, Base', CalmInv, OnTimeout \/ OnSelXferDone \/ OnUnexpDisc \/ OnDisc
  PROVE  CalmInv'
<1>1. /\ pc = "handle" /\ pc' = "execute" /\ UNCHANGED <<bus, tg, sr, eh>>
      /\ sr.csr \in Over \cup {"TIMEOUT"} /\ chip' \in {chip, EnableReselection}
  BY DEF OnTimeout, OnSelXferDone, OnUnexpDisc, OnDisc, CommandCase, Case, Restart, Rest,
     targetVars, Over
<1>2. /\ IsHost(hd) /\ IsChip(chip) /\ req \in [Cmds -> Requests]
  BY RecordDomains DEF Base, Types, HostTypes, BusTypes
<1>3. chip'.cmd = chip.cmd /\ chip'.int = chip.int /\ chip'.atn = chip.atn
  BY <1>1, <1>2 DEF EnableReselection, IsChip
<1>4. chip.int \in {"none", "RESEL_AM"}
  BY <1>1 DEF CalmInv, EndInv, Over, Phases
<1>5. \A csr : csr \notin {"none", "RESEL_AM"} => (Pending(csr) <=> sr.csr = csr)
  BY <1>1, <1>4 DEF Pending
<1>6. /\ Pending("DISC") <=> sr.csr = "DISC"
      /\ Pending("TIMEOUT") <=> sr.csr = "TIMEOUT"
      /\ sr.csr \in Over => Ending
  BY <1>5 DEF Ending, Over
<1>7. UNCHANGED req \/ \E c, res : ScsiDone(c, res)
  BY DEF OnTimeout, OnSelXferDone, OnUnexpDisc, OnDisc
<1>8. NobodyGivenUp'
  <2>1. eh'.at = "none" /\ \A x \in Cmds : req[x].st \in {"free", "queued", "done"}
    BY <1>1 DEF CalmInv, NobodyGivenUp
  <2>2. \A x \in Cmds : req'[x] = req[x] \/ req'[x].st = "done"
    BY <1>2, <1>7 DEF ScsiDone
  <2> QED
    BY <2>1, <2>2 DEF NobodyGivenUp
<1>9. CASE OnTimeout
  <2>1. sr.csr = "TIMEOUT"
    BY <1>9 DEF OnTimeout, Case
  <2>2. Gone = Away
    BY <1>6, <2>1 DEF Gone, Leaver
  <2>3. hd.state # "S_RUNNING_LEVEL2" => hd.connected = NULL
    BY <1>6, <2>1 DEF Base, SelectInv, TimeoutTold
  <2>4. /\ hd'.connected = NULL /\ hd'.disconnected_Q = hd.disconnected_Q
        /\ hd'.incoming_msg = hd.incoming_msg
    BY <1>2, <1>9, <2>3 DEF OnTimeout, IsHost
  <2> QED
    BY <1>1, <1>3, <1>8, <2>2, <2>4, CalmEnds DEF Away
<1>10. CASE OnSelXferDone \/ OnUnexpDisc
  <2>1. sr.csr # "DISC"
    BY <1>10 DEF OnSelXferDone, OnUnexpDisc, CommandCase, Case
  <2>2. Gone = Away
    BY <1>6, <2>1 DEF Gone, Leaver
  <2>3. hd' = Unconnected(hd, hd.connected)
    BY <1>10 DEF OnSelXferDone, OnUnexpDisc
  <2>4. /\ hd'.connected = NULL /\ hd'.disconnected_Q = hd.disconnected_Q
        /\ hd'.incoming_msg = hd.incoming_msg
    BY <1>2, <2>3 DEF Unconnected, IsHost
  <2> QED
    BY <1>1, <1>3, <1>8, <2>2, <2>4, CalmEnds DEF Away
<1>11. CASE OnDisc
  <2>1. sr.csr = "DISC"
    BY <1>11 DEF OnDisc, Case
  <2>2. /\ hd.connected # NULL
        /\ hd.state \in {"S_PRE_CMP_DISC", "S_PRE_TMP_DISC", "S_RUNNING_LEVEL2"}
    BY <1>6, <2>1 DEF CalmInv, EndInv, Over
  <2>3. hd' = IF hd.state = "S_PRE_CMP_DISC" THEN Unconnected(hd, hd.connected)
              ELSE Disconnected(hd, hd.connected)
    BY <1>11, <2>2 DEF OnDisc
  <2>4. Gone = Away \cup (IF hd.state = "S_PRE_CMP_DISC" THEN {} ELSE {hd.connected})
    BY <1>6, <2>1 DEF Gone, Leaver
  <2>5. /\ hd'.connected = NULL /\ hd'.incoming_msg = hd.incoming_msg
        /\ hd'.disconnected_Q = IF hd.state = "S_PRE_CMP_DISC" THEN hd.disconnected_Q
                                ELSE <<hd.connected>> \o hd.disconnected_Q
    BY <1>2, <2>3 DEF Unconnected, Disconnected, IsHost
  <2>6. ToSet(<<hd.connected>> \o hd.disconnected_Q) = Away \cup {hd.connected}
    <3>1. /\ hd.disconnected_Q \in Seq(Cmds) /\ Distinct(hd.disconnected_Q)
          /\ hd.connected \in Cmds /\ hd.connected \notin ToSet(hd.disconnected_Q)
      BY <2>2, HostFieldTypes DEF Base, Types, HostTypes, Books, Away
    <3> QED
      BY <3>1, Put DEF Away
  <2>7. Away' = Gone
    BY <2>4, <2>5, <2>6 DEF Away
  <2> QED
    BY <1>1, <1>3, <1>8, <2>5, <2>7, CalmEnds
<1> QED
  BY <1>9, <1>10, <1>11

(* What the chip makes of the commands that serve a phase.                 *)
LEMMA ServingCommands ==
  ASSUME NEW ch, IsChip(ch), ch.cmd = "none"
  PROVE  /\ LET d == TransInfo(ch) IN
            /\ d.cmd # "level2" /\ d.cdb = ch.cdb /\ (ch.int # "none" => d.cmd = "none")
            /\ d.cmd = "info" => d.xph = Phase
         /\ \A n \in Nat : LET d == SelAtnXfer(ch, n) IN
            /\ d.cmd # "info" /\ d.phs = n /\ (ch.int # "none" => d.cmd = "none")
BY DEF TransInfo, SelAtnXfer, Issue, IsChip

(* A phase is served: data, the CDB, the status, a message byte; or a      *)
(* level-2 command goes on after its pointers have been saved.             *)
LEMMA CalmOnPhase ==
  ASSUME Base, Base', CalmInv, OnData \/ OnCommand \/ OnStatus \/ OnMessageIn \/ OnSdp
  PROVE  CalmInv'
<1>1. /\ pc = "handle" /\ pc' \in {"idle", "pio", "sent", "status", "message"}
      /\ sr.csr \in Phases \cup {"SDP"} /\ UNCHANGED <<bus, tg, sr, req, eh>>
      /\ pc' = "status" => sr.csr = "STATUS"
      /\ sr.csr # "SDP" => hd.connected # NULL
  BY DEF OnData, OnCommand, OnStatus, OnMessageIn, OnSdp, CommandCase, Case, Rest, targetVars,
     TransferNothing, TransferByDma, TransferByPio, ReadByte, Phases
<1>2. /\ hd'.outgoing_msg = hd.outgoing_msg /\ chip'.atn = chip.atn /\ chip'.int = chip.int
      /\ chip'.cmd = "info" => chip'.xph # "MESS_OUT"
      /\ sr.csr # "SELECT"
  <2>1. HandleInterrupt /\ ~OnSelect /\ ~OnMessageOut
    <3>1. sr.csr \notin {"SELECT", "MESS_OUT"}
      BY DEF OnData, OnCommand, OnStatus, OnMessageIn, OnSdp, CommandCase, Case
    <3> QED
      BY <3>1 DEF HandleInterrupt, OnSelect, OnMessageOut, Case
  <2> QED
    BY <2>1, HandleLeaves
<1>3. IsChip(chip) /\ IsHost(hd) /\ chip.cmd = "none" /\ chip.int # "SELECT"
  BY <1>1, RecordDomains DEF Base, Types, HostTypes, BusTypes, ChipInv, InDriver
<1> DEFINE Chip == /\ chip.int # "none" => chip'.cmd = "none"
                   /\ chip'.cmd = "level2" => /\ hd.connected # NULL
                                              /\ hd'.state = "S_RUNNING_LEVEL2"
                                              /\ hd.level2 > L2_NONE /\ chip'.phs # \h20
                                              /\ sr.csr # "MESS_IN"
                   /\ chip'.cmd = "info" /\ chip'.xph = "COMMAND" => chip'.cdb = hd.connected
           Host == SameBut(hd, hd', {"state", "bounce", "dma"})
<1>4. Phase = "COMMAND" /\ chip.int = "none" => sr.csr \in {"COMMAND", "SDP"}
  BY <1>1 DEF Base, ChipInv, Phases
<1>5. ASSUME OnData PROVE Chip /\ Host
  <2> DEFINE c == hd.connected
             s == NextBuffer(c)
  <2>1. sr.csr \in {"DATA_IN", "DATA_OUT"} /\ c # NULL
    BY <1>5 DEF OnData, CommandCase, Case
  <2>2. ~(chip.int = "none" /\ Phase = "COMMAND") /\ sr.csr # "MESS_IN"
    BY <1>4, <2>1
  <2>3. CASE TransferNothing
    <3>1. UNCHANGED chip /\ hd' = Connected(hd)
      BY <2>3 DEF TransferNothing
    <3> QED
      BY <1>3, <3>1 DEF Connected, SameBut, IsHost
  <2>4. CASE \E via : TransferByDma(c, s, via)
    <3>1. PICK via : TransferByDma(c, s, via)
      BY <2>4
    <3> DEFINE ch == [chip EXCEPT !.sync = hd.sync_xfer[Attr[c].id], !.polled = FALSE,
                                  !.count = s.left]
               h  == DmaSetup(hd, via)
    <3>2. \/ /\ ResumesData(c) /\ chip' = SelAtnXfer(ch, \h45)
             /\ hd' = [h EXCEPT !.state = "S_RUNNING_LEVEL2"]
          \/ chip' = TransInfo(ch) /\ hd' = Connected(h)
      BY <3>1 DEF TransferByDma
    <3>3. IsChip(ch) /\ ch.cmd = "none" /\ ch.int = chip.int
      <4> HIDE DEF c, s
      <4> QED
        BY <1>3 DEF IsChip
    <3>4. IsHost(h) /\ SameBut(hd, h, {"bounce", "dma"})
      BY <1>3 DEF DmaSetup, SameBut, IsHost
    <3> HIDE DEF ch, h
    <3>5. CASE /\ ResumesData(c) /\ chip' = SelAtnXfer(ch, \h45)
               /\ hd' = [h EXCEPT !.state = "S_RUNNING_LEVEL2"]
      <4>1. hd.level2 > L2_NONE
        <5>1. hd.level2 \in Nat
          BY HostFieldTypes, SetupTypes DEF Base, Types, HostTypes
        <5> QED
          BY <3>5, <5>1 DEF ResumesData, L2_NONE, L2_DATA, L2_BASIC
      <4>2. Host /\ hd'.state = "S_RUNNING_LEVEL2"
        BY <3>4, <3>5 DEF SameBut, IsHost
      <4>3. /\ chip'.cmd # "info" /\ chip'.phs = \h45
            /\ ch.int # "none" => chip'.cmd = "none"
        BY <3>3, <3>5, ServingCommands
      <4> QED
        BY <2>1, <2>2, <3>3, <4>1, <4>2, <4>3
    <3>6. CASE chip' = TransInfo(ch) /\ hd' = Connected(h)
      <4>1. Host
        BY <3>4, <3>6 DEF SameBut, IsHost, Connected
      <4>2. /\ chip'.cmd # "level2" /\ (ch.int # "none" => chip'.cmd = "none")
            /\ chip'.cmd = "info" => chip'.xph = Phase
        BY <3>3, <3>6, ServingCommands
      <4> QED
        BY <2>2, <3>3, <4>1, <4>2
    <3> QED
      BY <3>2, <3>5, <3>6
  <2>5. CASE TransferByPio(c, s)
    <3> DEFINE ch == [chip EXCEPT !.sync = hd.sync_xfer[Attr[c].id], !.polled = TRUE,
                                  !.count = s.left]
    <3>1. chip' = TransInfo(ch) /\ hd' = Connected([hd EXCEPT !.bounce = @ /\ hd.no_dma])
      BY <2>5 DEF TransferByPio
    <3>2. IsChip(ch) /\ ch.cmd = "none" /\ ch.int = chip.int
      <4> HIDE DEF c, s
      <4> QED
        BY <1>3 DEF IsChip
    <3> HIDE DEF ch
    <3>3. Host
      BY <1>3, <3>1 DEF Connected, SameBut, IsHost
    <3>4. /\ chip'.cmd # "level2" /\ (ch.int # "none" => chip'.cmd = "none")
          /\ chip'.cmd = "info" => chip'.xph = Phase
      BY <3>1, <3>2, ServingCommands
    <3> QED
      BY <2>2, <3>2, <3>3, <3>4
  <2> QED
    BY <1>5, <2>3, <2>4, <2>5 DEF OnData
<1>6. ASSUME OnCommand PROVE Chip /\ Host
  <2> DEFINE ch == [chip EXCEPT !.polled = TRUE, !.count = 1, !.cdb = hd.connected]
  <2>1. chip' = TransInfo(ch) /\ hd' = [hd EXCEPT !.state = "S_CONNECTED"]
    BY <1>6 DEF OnCommand
  <2>2. IsChip(ch) /\ ch.cmd = "none" /\ ch.int = chip.int /\ ch.cdb = hd.connected
    BY <1>3 DEF IsChip
  <2> HIDE DEF ch
  <2>3. /\ chip'.cmd # "level2" /\ chip'.cdb = hd.connected
        /\ ch.int # "none" => chip'.cmd = "none"
    BY <2>1, <2>2, ServingCommands
  <2>4. Host
    BY <1>3, <2>1 DEF SameBut, IsHost
  <2> QED
    BY <2>2, <2>3, <2>4
<1>7. ASSUME OnStatus \/ OnMessageIn PROVE Chip /\ Host
  <2> DEFINE ch == [chip EXCEPT !.polled = TRUE]
  <2>1. chip' = TransInfo(ch) /\ hd' = hd /\ sr.csr \in {"STATUS", "MESS_IN"}
    BY <1>7 DEF OnStatus, OnMessageIn, ReadByte, CommandCase, Case
  <2>2. IsChip(ch) /\ ch.cmd = "none" /\ ch.int = chip.int
    BY <1>3 DEF IsChip
  <2> HIDE DEF ch
  <2>3. /\ chip'.cmd # "level2" /\ (ch.int # "none" => chip'.cmd = "none")
        /\ chip'.cmd = "info" => chip'.xph = Phase
    BY <2>1, <2>2, ServingCommands
  <2>4. chip.int = "none" => Phase # "COMMAND"
    BY <1>4, <2>1
  <2> QED
    BY <2>1, <2>2, <2>3, <2>4 DEF SameBut, TransInfo, Issue
<1>8. ASSUME OnSdp PROVE Chip /\ Host
  <2>1. /\ sr.csr = "SDP" /\ chip' = SelAtnXfer(chip, \h41)
        /\ hd' = [hd EXCEPT !.state = "S_RUNNING_LEVEL2"]
    BY <1>8 DEF OnSdp, Case
  <2>2. Host /\ hd'.state = "S_RUNNING_LEVEL2"
    BY <1>3, <2>1 DEF SameBut, IsHost
  <2>3. /\ chip'.cmd # "info" /\ chip'.phs = \h41
        /\ chip.int # "none" => chip'.cmd = "none"
    BY <1>3, <2>1, ServingCommands
  <2>4. hd.level2 > L2_NONE
    BY <1>1, <2>1 DEF CalmInv, Level2Inv, Pending
  <2>5. hd.connected # NULL
    <3>1. chip.int = "none" /\ bus # NULL
      BY <1>1, <2>1 DEF Base, ChipInv
    <3>2. ~Pending("SELECT") /\ ~Pending("RESEL_AM")
      BY <1>1, <2>1, <3>1 DEF Pending
    <3> QED
      BY <3>1, <3>2 DEF CalmInv, BusInv, InConnection
  <2> QED
    BY <2>1, <2>2, <2>3, <2>4, <2>5
<1>9. Chip /\ Host
  <2> HIDE DEF Chip, Host
  <2> QED
    BY <1>5, <1>6, <1>7, <1>8
<1>10. IdentifyInv'
  <2>1. ~Pending("SELECT")
    BY <1>2, <1>3 DEF Pending
  <2>2. hd'.connected = hd.connected
    BY <1>3, <1>9 DEF SameBut, IsHost
  <2> QED
    BY <1>2, <2>1, <2>2 DEF CalmInv, IdentifyInv, Identifies
<1>11. /\ hd'.disconnected_Q = hd.disconnected_Q /\ hd'.connected = hd.connected
       /\ hd'.level2 = hd.level2 /\ hd'.incoming_msg = hd.incoming_msg
  BY <1>3, <1>9 DEF SameBut, IsHost
<1>12. pc' = "status" => sr.csr # "MESS_IN" /\ sr.csr # "SDP"
  BY <1>1
<1> QED
  BY <1>1, <1>2, <1>9, <1>10, <1>11, <1>12, CalmDeals

(* The messages to the target are sent, the IDENTIFY of the connected      *)
(* command among them.                                                     *)
LEMMA CalmOnMessageOut ==
  ASSUME Base, Base', CalmInv, OnMessageOut
  PROVE  CalmInv'
<1> DEFINE out == IF hd.outgoing_msg = <<>> THEN <<Plain("NOP")>> ELSE hd.outgoing_msg
           ch  == [chip EXCEPT !.polled = TRUE, !.count = Len(out), !.out = out]
<1>1. /\ pc = "handle" /\ pc' = "sent" /\ sr.csr = "MESS_OUT" /\ UNCHANGED <<bus, tg, sr, req, eh>>
      /\ chip' = TransInfo(ch) /\ hd' = [hd EXCEPT !.outgoing_msg = <<>>, !.state = "S_CONNECTED"]
  BY DEF OnMessageOut, Case, Rest, targetVars
<1>2. IsChip(chip) /\ IsHost(hd) /\ chip.cmd = "none" /\ chip.int # "SELECT"
  BY <1>1, RecordDomains DEF Base, Types, HostTypes, BusTypes, ChipInv, InDriver
<1>3. out # <<>> /\ (out[1].msg = "IDENTIFY" => Identifies(hd.outgoing_msg)
                                                /\ out = hd.outgoing_msg)
  BY DEF Plain, Identifies
<1> HIDE DEF out
<1>4. IsChip(ch) /\ ch.int = chip.int /\ ch.cmd = "none" /\ ch.out = out /\ ch.atn = chip.atn
  BY <1>2 DEF IsChip
<1> HIDE DEF ch
<1>5. /\ chip'.cmd # "level2" /\ chip'.int = chip.int /\ chip'.out = out
      /\ chip.int # "none" => chip'.cmd = "none"
      /\ chip'.cmd = "info" => chip'.xph = Phase
  BY <1>1, <1>4 DEF TransInfo, Issue, IsChip
<1>6. chip.int = "none" => Phase = "MESS_OUT"
  BY <1>1 DEF Base, ChipInv, Phases
<1>7. /\ hd'.outgoing_msg = <<>> /\ hd'.disconnected_Q = hd.disconnected_Q
      /\ hd'.connected = hd.connected /\ hd'.level2 = hd.level2
      /\ hd'.incoming_msg = hd.incoming_msg
  BY <1>1, <1>2 DEF IsHost
<1>8. IdentifyInv'
  <2>1. ASSUME chip'.cmd = "info", Identifies(out)
        PROVE  /\ hd.connected # NULL /\ out[1].lun = Attr[hd.connected].lun
               /\ bus # NULL /\ tg[bus].ph = "select"
    <3>1. chip.int = "none" /\ Phase = "MESS_OUT"
      BY <1>5, <1>6, <2>1
    <3>2. chip.atn /\ bus # NULL
      BY <3>1 DEF Phase
    <3>3. ~Pending("SELECT")
      BY <1>1, <1>2 DEF Pending
    <3>4. Identifies(hd.outgoing_msg) /\ out = hd.outgoing_msg
      BY <1>3, <2>1 DEF Identifies
    <3> QED
      BY <3>2, <3>3, <3>4 DEF CalmInv, IdentifyInv, Base, SelectInv, IdentifyDue
  <2> QED
    BY <1>1, <1>5, <1>7, <2>1 DEF IdentifyInv, Identifies
<1>9. chip'.cmd = "info" => chip'.xph # "COMMAND"
  BY <1>5, <1>6
<1> QED
  BY <1>1, <1>5, <1>7, <1>8, <1>9, CalmDeals DEF Phases

(* What the interrupt handler does.                                        *)
LEMMA CalmHandle ==
  ASSUME Base, Base', CalmInv, HandleInterrupt
  PROVE  CalmInv'
<1>1. ~AlreadyDisconnected
  <2>1. SUFFICES ASSUME AlreadyDisconnected PROVE FALSE
    OBVIOUS
  <2>2. Pending("UNEXP_DISC") /\ hd.connected = NULL
    BY <2>1 DEF AlreadyDisconnected, Case, Pending
  <2> QED
    BY <2>2 DEF CalmInv, EndInv, Ending
<1>2. ~OnStrayReselect
  <2>1. SUFFICES ASSUME OnStrayReselect PROVE FALSE
    OBVIOUS
  <2>2. pc = "handle" /\ sr.csr = "RESEL_AM" /\ Reconnecting = 0
    BY <2>1 DEF OnStrayReselect, Case
  <2> QED
    BY <2>2, CalmKnown DEF Known
<1>3. CASE OnTimeout \/ OnSelXferDone \/ OnUnexpDisc \/ OnDisc
  BY <1>3, CalmOnEnds
<1>4. CASE OnData \/ OnCommand \/ OnStatus \/ OnMessageIn \/ OnSdp
  BY <1>4, CalmOnPhase
<1>5. CASE OnSelect \/ OnMessageOut \/ OnReselect
  BY <1>5, CalmOnSelect, CalmOnMessageOut, CalmOnReselect
<1> QED
  BY <1>1, <1>2, <1>3, <1>4, <1>5 DEF HandleInterrupt

(* Bytes of a message may be joined from either end.                       *)
LEMMA Regrouped == \A x, y, z \in Seq(Nat) : (x \o y) \o z = x \o (y \o z)
<1> DEFINE T == Nat
<1>1. \A S : \A x, y, z \in Seq(S) : (x \o y) \o z = x \o (y \o z)
  BY ConcatAssociative, Zenon
<1> HIDE DEF T
<1>2. \A x, y, z \in Seq(T) : (x \o y) \o z = x \o (y \o z)
  BY <1>1
<1> QED
  BY <1>2 DEF T

(* The next byte belongs to what has been read as to what is to come.      *)
LEMMA Pushed ==
  \A x, z \in Seq(Nat), y \in Nat : x \o (<<y>> \o z) = Append(x, y) \o z
<1> SUFFICES ASSUME NEW x \in Seq(Nat), NEW z \in Seq(Nat), NEW y \in Nat
             PROVE  x \o (<<y>> \o z) = Append(x, y) \o z
  OBVIOUS
<1> DEFINE h == <<y>>
<1>1. Append(x, y) = x \o h
  BY AppendIsConcat
<1>2. h \in Seq(Nat)
  OBVIOUS
<1> HIDE DEF h
<1>3. (x \o h) \o z = x \o (h \o z)
  BY <1>2, Regrouped
<1> QED
  BY <1>1, <1>3 DEF h

(* A byte is put after the ones read before it, and before those to come.  *)
LEMMA Joined ==
  ASSUME NEW p \in Seq(Nat), NEW b \in Nat, NEW m \in Seq(Nat)
  PROVE  /\ Append(p, b) \in Seq(Nat) /\ Len(Append(p, b)) = Len(p) + 1
         /\ Append(p, b)[1] = IF p = <<>> THEN b ELSE p[1]
         /\ p = <<>> => Append(p, b) = <<b>>
         /\ p \o (<<b>> \o m) = Append(p, b) \o m
         /\ Append(p, b) \o m \in Seq(Nat)
         /\ Len(Append(p, b) \o m) = Len(p) + 1 + Len(m)
         /\ \A i \in 1..Len(p) + 1 : (Append(p, b) \o m)[i] = Append(p, b)[i]
<1> DEFINE q == Append(p, b)
           h == <<b>>
<1>1. /\ q \in Seq(Nat) /\ Len(q) = Len(p) + 1
      /\ \A i \in 1..Len(p) : q[i] = p[i]
      /\ q[Len(p) + 1] = b
  BY AppendProperties
<1>2. h \in Seq(Nat) /\ Len(h) = 1 /\ h[1] = b
  OBVIOUS
<1>3. q[1] = IF p = <<>> THEN b ELSE p[1]
  BY <1>1
<1>4. p = <<>> => q = h
  OBVIOUS
<1>6. p \o (h \o m) = q \o m
  BY Pushed
<1> HIDE DEF q, h
<1>7. /\ q \o m \in Seq(Nat) /\ Len(q \o m) = Len(q) + Len(m)
      /\ \A i \in 1..Len(q) + Len(m) : (q \o m)[i] = IF i <= Len(q) THEN q[i] ELSE m[i - Len(q)]
  BY <1>1, ConcatProperties
<1>8. \A i \in 1..Len(p) + 1 : (q \o m)[i] = q[i]
  <2> TAKE i \in 1..Len(p) + 1
  <2>1. Len(m) \in Nat /\ Len(q) \in Nat
    BY <1>1
  <2>2. i \in 1..Len(q) + Len(m) /\ i <= Len(q)
    BY <1>1, <2>1
  <2> QED
    BY <1>7, <2>2
<1> QED
  BY <1>1, <1>3, <1>4, <1>6, <1>7, <1>8 DEF q, h

(* What a message of one byte, or of two, is made of.                      *)
LEMMA Short ==
  ASSUME NEW b \in Nat, NEW m \in Seq(Nat), NEW x \in Nat, NEW y \in Nat
  PROVE  /\ <<b>> \o m = <<x>> => b = x /\ m = <<>>
         /\ <<b>> \o m = <<x, y>> => b = x /\ m = <<y>>
<1> DEFINE h == <<b>>
           w == h \o m
<1>1. h \in Seq(Nat) /\ Len(h) = 1 /\ h[1] = b
  OBVIOUS
<1> HIDE DEF h
<1>2. /\ w \in Seq(Nat) /\ Len(w) = Len(h) + Len(m)
      /\ \A i \in 1..Len(h) + Len(m) : w[i] = IF i <= Len(h) THEN h[i] ELSE m[i - Len(h)]
  BY <1>1, ConcatProperties
<1> HIDE DEF w
<1>3. ASSUME w = <<x>> PROVE b = x /\ m = <<>>
  <2>1. Len(m) = 0 /\ w[1] = x
    BY <1>1, <1>2, <1>3
  <2>2. w[1] = h[1]
    BY <1>1, <1>2, <2>1
  <2> QED
    BY <1>1, <2>1, <2>2, EmptySeq
<1>4. ASSUME w = <<x, y>> PROVE b = x /\ m = <<y>>
  <2>1. Len(m) = 1 /\ w[1] = x /\ w[2] = y
    BY <1>1, <1>2, <1>4
  <2>2. w[1] = h[1] /\ w[2] = m[1]
    BY <1>1, <1>2, <2>1
  <2>3. m = <<y>>
    BY <2>1, <2>2
  <2> QED
    BY <1>1, <2>1, <2>2, <2>3
<1> QED
  BY <1>3, <1>4 DEF w, h

(* What the byte the driver has read is of: a message of its own, that     *)
(* goes with what the target is about to do, or an extended one, which is  *)
(* whole when nothing of it is to come.                                    *)
LEMMA Hears ==
  ASSUME Base, CalmInv, pc = "message", chip.int # "none"
  PROVE  /\ bus # NULL /\ bus \in Nexus /\ chip.int = "MSGIN" /\ tg[bus].msgs \in Seq(Nat)
         /\ Incoming \in Seq(Nat) /\ Incoming # <<>> /\ In = Incoming \o tg[bus].msgs
         /\ ~Extended =>
              /\ hd.incoming_msg = <<>>
              /\ \/ tg[bus].msgs = <<>> /\ tg[bus].ph \notin Parting
                 \/ tg[bus].msgs = <<>> /\ tg[bus].ph = "complete" /\ Incoming = COMMAND_COMPLETE
                 \/ tg[bus].msgs = <<>> /\ tg[bus].ph = "away" /\ Incoming = DISCONNECT
                 \/ tg[bus].msgs = DISCONNECT /\ tg[bus].ph = "away" /\ Incoming = SAVE_POINTERS
         /\ Extended => InExtended /\ (WholeMessage <=> tg[bus].msgs = <<>>)
<1> DEFINE p == hd.incoming_msg
           b == chip.byte
           m == tg[bus].msgs
           q == Append(p, b)
<1>1. chip.int = "MSGIN" /\ bus # NULL
  BY DEF Base, ChipInv
<1>2. bus \in Nexus /\ p \in Seq(Nat) /\ b \in Nat /\ m \in Seq(Nat)
  BY <1>1, HostFieldTypes, ChipTypes, UnitTypes DEF Base, Types, HostTypes, BusTypes
<1>3. Left = <<b>> \o m
  BY <1>1, <1>2, LeftIs DEF Base, Types, BusTypes
<1> DEFINE j == q \o m
<1>4. /\ q \in Seq(Nat) /\ Len(q) = Len(p) + 1
      /\ q[1] = IF p = <<>> THEN b ELSE p[1]
      /\ p = <<>> => q = <<b>>
      /\ p \o (<<b>> \o m) = j
      /\ j \in Seq(Nat) /\ Len(j) = Len(p) + 1 + Len(m)
      /\ \A i \in 1..Len(p) + 1 : j[i] = q[i]
  <2> HIDE DEF p, b, m
  <2>1. /\ q \in Seq(Nat) /\ Len(q) = Len(p) + 1
        /\ q[1] = IF p = <<>> THEN b ELSE p[1]
        /\ p = <<>> => q = <<b>>
    BY <1>2, Joined
  <2>2. p \o (<<b>> \o m) = j
    BY <1>2, Pushed
  <2>3. j \in Seq(Nat) /\ Len(j) = Len(p) + 1 + Len(m)
    BY <1>2, Joined
  <2>4. \A i \in 1..Len(p) + 1 : j[i] = q[i]
    BY <1>2, Joined
  <2> QED
    BY <2>1, <2>2, <2>3, <2>4
<1>5. In = j
  BY <1>3, <1>4 DEF In
<1>6. j[1] = q[1] /\ Len(p) \in Nat /\ Len(m) \in Nat
  <2> HIDE DEF p, b, m, q, j
  <2> QED
    BY <1>2, <1>4
<1>7. Left # <<>>
  <2>1. Left \in Seq(Nat) /\ <<b>> \in Seq(Nat) /\ <<b>> # <<>>
    BY <1>1, <1>2, LeftIs DEF Base, Types, BusTypes
  <2> QED
    BY <1>2, <1>3, <2>1, ConcatEqualIffEmpty
<1>8. InExtended => q[1] = 1
  BY <1>5, <1>6 DEF InExtended
<1>9. ~InExtended =>
        /\ p = <<>>
        /\ \/ Left \in SmallTalk /\ tg[bus].ph \notin Parting
           \/ Left = COMMAND_COMPLETE /\ tg[bus].ph = "complete"
           \/ Left \in {DISCONNECT, SAVE_POINTERS \o DISCONNECT} /\ tg[bus].ph = "away"
  BY <1>1, <1>7 DEF CalmInv, MessagesInv, SmallTalk
<1>10. ASSUME ~InExtended
       PROVE  /\ p = <<>> /\ q[1] # 1
              /\ \/ m = <<>> /\ tg[bus].ph \notin Parting
                 \/ m = <<>> /\ tg[bus].ph = "complete" /\ q = COMMAND_COMPLETE
                 \/ m = <<>> /\ tg[bus].ph = "away" /\ q = DISCONNECT
                 \/ m = DISCONNECT /\ tg[bus].ph = "away" /\ q = SAVE_POINTERS
  <2>1. p = <<>> /\ q = <<b>> /\ q[1] = b
    BY <1>4, <1>9, <1>10
  <2>2. ASSUME NEW x \in Nat, Left = <<x>> PROVE b = x /\ m = <<>>
    <3>1. \A y \in Nat : <<b>> \o m = <<y>> => b = y /\ m = <<>>
      <4> HIDE DEF b, m
      <4> QED
        BY <1>2, Short
    <3> QED
      BY <1>3, <2>2, <3>1
  <2>3. ASSUME Left = <<2, 4>> PROVE b = 2 /\ m = <<4>>
    <3>1. \A x, y \in Nat : <<b>> \o m = <<x, y>> => b = x /\ m = <<y>>
      <4> HIDE DEF b, m
      <4> TAKE x, y \in Nat
      <4> QED
        BY <1>2, Short
    <3> QED
      BY <1>3, <2>3, <3>1
  <2>4. Left \in {<<3>>, <<7>>, <<10>>} => b \in {3, 7, 10} /\ m = <<>>
    BY <2>2
  <2>5. (Left = <<0>> => b = 0 /\ m = <<>>) /\ (Left = <<4>> => b = 4 /\ m = <<>>)
    BY <2>2
  <2> HIDE DEF q, m, b, p
  <2>6. CASE Left \in SmallTalk /\ tg[bus].ph \notin Parting
    BY <2>1, <2>4, <2>6 DEF SmallTalk, RESTORE_POINTERS, MESSAGE_REJECT, UnknownMessage
  <2>7. CASE Left = COMMAND_COMPLETE /\ tg[bus].ph = "complete"
    BY <2>1, <2>5, <2>7 DEF COMMAND_COMPLETE
  <2>8. CASE Left = DISCONNECT /\ tg[bus].ph = "away"
    BY <2>1, <2>5, <2>8 DEF DISCONNECT
  <2>9. CASE Left = SAVE_POINTERS \o DISCONNECT /\ tg[bus].ph = "away"
    <3>1. Left = <<2, 4>>
      BY <2>9, PlainOnes
    <3>2. b = 2 /\ m = <<4>>
      BY <2>3, <3>1
    <3>3. q = SAVE_POINTERS /\ m = DISCONNECT
      BY <2>1, <3>2 DEF DISCONNECT, SAVE_POINTERS
    <3> QED
      BY <2>1, <2>9, <3>2, <3>3
  <2> QED
    BY <1>9, <1>10, <2>6, <2>7, <2>8, <2>9
<1>11. ASSUME InExtended
       PROVE  WholeMessage <=> m = <<>>
  <2>1. Len(j) >= 3 /\ Len(j) = j[2] + 2
    BY <1>5, <1>11 DEF InExtended
  <2>2. m = <<>> <=> Len(m) = 0
    BY <1>2
  <2>3. Len(q) >= 2 => j[2] = q[2]
    <3>1. Len(q) >= 2 => 2 \in 1..Len(p) + 1
      BY <1>4, <1>6
    <3>2. \A i \in 1..Len(p) + 1 : j[i] = q[i]
      BY <1>4
    <3> HIDE DEF q, m, j, p
    <3> QED
      BY <3>1, <3>2
  <2>4. WholeMessage <=> Len(q) >= 3 /\ Len(q) = q[2] + 2
    BY DEF WholeMessage, Incoming
  <2>5. Len(j) = Len(q) + Len(m) /\ Len(q) \in Nat
    BY <1>4, <1>6
  <2>6. q[2] \in Nat \/ Len(q) < 2
    BY <1>4
  <2> HIDE DEF q, m, j
  <2> QED
    BY <1>6, <2>1, <2>2, <2>3, <2>4, <2>5, <2>6
<1>12. Incoming = q /\ (Extended <=> q[1] = 1)
  BY DEF Incoming, Extended
<1> HIDE DEF q, m, j, p
<1>13. q # <<>>
  BY <1>4, <1>6
<1>14. ~Extended => /\ p = <<>>
                    /\ \/ m = <<>> /\ tg[bus].ph \notin Parting
                       \/ m = <<>> /\ tg[bus].ph = "complete" /\ q = COMMAND_COMPLETE
                       \/ m = <<>> /\ tg[bus].ph = "away" /\ q = DISCONNECT
                       \/ m = DISCONNECT /\ tg[bus].ph = "away" /\ q = SAVE_POINTERS
  BY <1>8, <1>10, <1>12
<1>15. Extended => InExtended /\ (WholeMessage <=> m = <<>>)
  BY <1>10, <1>11, <1>12
<1> QED
  BY <1>1, <1>2, <1>4, <1>5, <1>12, <1>13, <1>14, <1>15 DEF q, m, j, p

(* A byte has been read: the connection goes on.                           *)
LEMMA CalmRead ==
  ASSUME Base, Base', CalmInv, PollEnds, pc \in {"status", "message"},
         chip'.cmd = "level2" => /\ hd'.state = "S_RUNNING_LEVEL2" /\ hd.level2 > L2_NONE
                                 /\ chip'.phs # \h20,
         MessagesInv'
  PROVE  CalmInv'
<1>1. IsHost(hd) /\ IsChip(chip)
  BY RecordDomains DEF Base, Types, HostTypes, BusTypes
<1>2. /\ pc' = "idle" /\ chip.int # "none" /\ UNCHANGED <<bus, tg, sr>>
      /\ hd'.connected = hd.connected
      /\ hd'.outgoing_msg = hd.outgoing_msg
         \/ \E m : hd'.outgoing_msg = <<m>> /\ m.msg \in {"MESSAGE_REJECT", "WDTR", "SDTR"}
  BY <1>1, PollLeaves
<1>3. UNCHANGED <<req, eh>>
  BY DEF PollEnds, PioDone, SentDone, StatusRead, OnComplete, OnSave, OnDisconnect, OnRestore,
     OnReject, OnUnknown, OnExtendedByte, OnSdtr, OnWdtr, OnOtherExtended, MessageRead, Rest
<1>4. /\ \/ chip'.atn = chip.atn
         \/ \E m : hd'.outgoing_msg = <<m>> /\ m.msg \in {"MESSAGE_REJECT", "WDTR", "SDTR"}
      /\ chip' = chip \/ (chip'.int = "none" /\ chip'.cmd \in {chip.cmd, "level2"})
  BY <1>1, PollSays
<1>5. hd'.disconnected_Q = hd.disconnected_Q /\ hd'.level2 = hd.level2
  BY <1>1, PollWrites DEF SameBut, IsHost
<1>6. chip.int \in {"MESS_IN", "MSGIN"} /\ bus # NULL /\ chip.cmd = "none"
  BY <1>2 DEF Base, ChipInv, Phase
<1>7. chip'.int \in {"none", "MESS_IN", "MSGIN"} /\ chip'.cmd \in {"none", "level2"}
  BY <1>4, <1>6
<1>8. \A csr : csr \notin {"none", "MESS_IN", "MSGIN"} => ~Pending(csr) /\ ~Pending(csr)'
  BY <1>2, <1>6, <1>7 DEF Pending
<1>9. /\ ~Pending("DISC") /\ ~Pending("DISC")' /\ ~Pending("SELECT") /\ ~Pending("SELECT")'
      /\ ~Pending("RESEL_AM") /\ ~Pending("RESEL_AM")' /\ ~Pending("TIMEOUT")'
      /\ ~Pending("SDP")' /\ ~Ending /\ ~Ending'
  BY <1>8 DEF Ending
<1>10. Gone' = Gone
  BY <1>5, <1>9 DEF Gone, Leaver, Away
<1>11. InConnection'
  BY <1>2, <1>6, <1>9 DEF CalmInv, BusInv, InConnection
<1>12. UnitsInv' /\ BusInv'
  BY <1>2, <1>6, <1>10, <1>11 DEF CalmInv, UnitsInv, OffBus, BusInv
<1>13. EndInv'
  BY <1>2, <1>7, <1>9 DEF EndInv
<1>14. Level2Inv'
  BY <1>2, <1>5, <1>6, <1>7, <1>9, <1>11 DEF Level2Inv, InConnection
<1>15. IdentifyInv'
  <2>1. chip'.atn /\ Identifies(hd'.outgoing_msg) =>
          chip.atn /\ hd'.outgoing_msg = hd.outgoing_msg
    <3>1. ASSUME NEW m, hd'.outgoing_msg = <<m>>, m.msg \in {"MESSAGE_REJECT", "WDTR", "SDTR"}
          PROVE  ~Identifies(hd'.outgoing_msg)
      <4>1. hd'.outgoing_msg[1] = m
        BY <3>1
      <4> QED
        BY <3>1, <4>1 DEF Identifies
    <3> QED
      BY <1>2, <1>4, <3>1, Zenon
  <2> QED
    BY <1>2, <1>7, <1>9, <2>1 DEF CalmInv, IdentifyInv, Identifies
<1>16. NobodyGivenUp'
  BY <1>3 DEF CalmInv, NobodyGivenUp
<1> QED
  BY <1>12, <1>13, <1>14, <1>15, <1>16 DEF CalmInv

(* The status is read: what follows is the target's message.               *)
LEMMA CalmStatusRead ==
  ASSUME Base, Base', CalmInv, StatusRead
  PROVE  CalmInv'
<1>1. /\ IsHost(hd) /\ IsChip(chip) /\ hd.level2 \in Nat
  BY RecordDomains, HostFieldTypes, SetupTypes DEF Base, Types, HostTypes, BusTypes
<1>2. /\ pc = "status" /\ pc' = "idle" /\ chip.int # "none" /\ UNCHANGED <<bus, tg>>
      /\ \/ /\ hd.level2 >= L2_BASIC /\ hd' = [hd EXCEPT !.state = "S_RUNNING_LEVEL2"]
            /\ chip' = SelAtnXfer(Cleared, \h50)
         \/ hd' = [hd EXCEPT !.state = "S_CONNECTED"] /\ chip' = chip
  BY DEF StatusRead, Rest, targetVars
<1>3. chip.int = "MESS_IN" /\ chip.cmd = "none" /\ Phase = "MESS_IN"
  BY <1>2 DEF Base, ChipInv
<1>4. bus # NULL /\ bus \in Nexus /\ tg[bus].msgs # <<>>
  BY <1>3, PhaseType DEF Phase, Base, Types, BusTypes
<1>5. IsChip(Cleared) /\ Cleared.int = "none"
  BY <1>1 DEF Cleared, IsChip
<1>6. /\ chip'.cmd = "level2" => /\ hd'.state = "S_RUNNING_LEVEL2" /\ hd.level2 > L2_NONE
                                 /\ chip'.phs # \h20
      /\ chip'.int \in {"none", "MESS_IN"} /\ hd'.incoming_msg = hd.incoming_msg
  <2>1. CASE /\ hd.level2 >= L2_BASIC /\ hd' = [hd EXCEPT !.state = "S_RUNNING_LEVEL2"]
             /\ chip' = SelAtnXfer(Cleared, \h50)
    <3>1. chip'.phs = \h50 /\ chip'.int = "none"
      BY <1>5, <2>1 DEF SelAtnXfer, Issue, IsChip
    <3>2. hd'.state = "S_RUNNING_LEVEL2" /\ hd'.incoming_msg = hd.incoming_msg
      BY <1>1, <2>1 DEF IsHost
    <3>3. hd.level2 > L2_NONE
      BY <1>1, <2>1 DEF L2_BASIC, L2_NONE
    <3> QED
      BY <3>1, <3>2, <3>3
  <2>2. CASE hd' = [hd EXCEPT !.state = "S_CONNECTED"] /\ chip' = chip
    BY <1>1, <1>3, <2>2 DEF IsHost
  <2> QED
    BY <1>2, <2>1, <2>2
<1>7. Left = tg[bus].msgs /\ Left' = Left
  <2>1. Left = tg[bus].msgs
    BY <1>3, <1>4, LeftIs DEF Base, Types, BusTypes
  <2> QED
    BY <1>2, <1>3, <1>6, <2>1 DEF Left
<1>8. hd.incoming_msg = <<>>
  BY <1>2, <1>4 DEF CalmInv, MessagesInv
<1>9. MessagesInv'
  <2>1. InExtended' <=> InExtended
    BY <1>2, <1>6, <1>7 DEF InExtended, In
  <2> QED
    BY <1>2, <1>4, <1>6, <1>7, <1>8, <2>1 DEF CalmInv, MessagesInv
<1> QED
  BY <1>2, <1>6, <1>9, CalmRead DEF PollEnds

(* What the driver makes of a message byte.                                *)
LEMMA MessageActs ==
  ASSUME Base, PollEnds, pc = "message"
  PROVE  /\ chip'.int = "none"
         /\ \/ /\ ~Extended /\ hd'.incoming_msg \in {hd.incoming_msg, <<>>} /\ chip'.cmd = "none"
               /\ Incoming = COMMAND_COMPLETE => hd'.state = "S_PRE_CMP_DISC"
               /\ Incoming = DISCONNECT => hd'.state = "S_PRE_TMP_DISC"
            \/ /\ ~Extended /\ hd'.incoming_msg = hd.incoming_msg /\ Incoming = RESTORE_POINTERS
               /\ hd'.state = "S_RUNNING_LEVEL2" /\ hd.level2 >= L2_BASIC /\ chip'.phs = \h45
            \/ Extended /\ ~WholeMessage /\ hd'.incoming_msg = Incoming /\ chip'.cmd = "none"
            \/ Extended /\ WholeMessage /\ hd'.incoming_msg = <<>> /\ chip'.cmd = "none"
<1>1. /\ IsHost(hd) /\ IsChip(chip) /\ chip.int # "none" /\ chip.cmd = "none"
  <2>1. IsHost(hd) /\ IsChip(chip)
    BY RecordDomains DEF Base, Types, HostTypes, BusTypes
  <2>2. chip.int # "none"
    BY <2>1, PollLeaves
  <2> QED
    BY <2>1, <2>2 DEF Base, ChipInv
<1>2. IsChip(Cleared) /\ Cleared.int = "none" /\ Cleared.cmd = "none"
  BY <1>1 DEF Cleared, IsChip
<1>3. /\ LET d == NegateAck(Cleared) IN d.int = "none" /\ d.cmd = "none"
      /\ LET d == NegateAck(AssertAtn(Cleared)) IN d.int = "none" /\ d.cmd = "none"
      /\ LET d == SelAtnXfer(Cleared, \h45) IN d.int = "none" /\ d.phs = \h45
  BY <1>2 DEF NegateAck, AssertAtn, SelAtnXfer, Issue, IsChip
<1>4. ~PioDone /\ ~SentDone /\ ~StatusRead
  BY DEF PioDone, SentDone, StatusRead
<1>5. COMMAND_COMPLETE # DISCONNECT /\ DISCONNECT # RESTORE_POINTERS
      /\ COMMAND_COMPLETE # RESTORE_POINTERS
  <2>1. <<0>>[1] = 0 /\ <<3>>[1] = 3 /\ <<4>>[1] = 4
    OBVIOUS
  <2> QED
    BY <2>1 DEF COMMAND_COMPLETE, DISCONNECT, RESTORE_POINTERS
<1>6. \A st : LET h == [hd EXCEPT !.state = st]
              IN h.state = st /\ h.incoming_msg = hd.incoming_msg
  BY <1>1 DEF IsHost
<1>7. CASE OnComplete
  <2>1. /\ ~Extended /\ Incoming = COMMAND_COMPLETE /\ chip' = NegateAck(Cleared)
        /\ hd' = [hd EXCEPT !.state = "S_PRE_CMP_DISC"]
    BY <1>7 DEF OnComplete, MessageRead, Is, Accept
  <2> QED
    BY <1>3, <1>5, <1>6, <2>1
<1>8. CASE OnDisconnect
  <2>1. /\ ~Extended /\ Incoming = DISCONNECT /\ chip' = NegateAck(Cleared)
        /\ hd' = [hd EXCEPT !.state = "S_PRE_TMP_DISC"]
    BY <1>8 DEF OnDisconnect, MessageRead, Is, Accept
  <2> QED
    BY <1>3, <1>5, <1>6, <2>1
<1>9. CASE OnSave
  <2>1. /\ ~Extended /\ Incoming = SAVE_POINTERS /\ chip' = NegateAck(Cleared)
        /\ hd' = [hd EXCEPT !.state = "S_CONNECTED"]
    BY <1>9 DEF OnSave, MessageRead, Is, Accept
  <2>2. SAVE_POINTERS # COMMAND_COMPLETE /\ SAVE_POINTERS # DISCONNECT
    <3>1. <<0>>[1] = 0 /\ <<2>>[1] = 2 /\ <<4>>[1] = 4
      OBVIOUS
    <3> QED
      BY <3>1 DEF COMMAND_COMPLETE, DISCONNECT, SAVE_POINTERS
  <2> QED
    BY <1>3, <1>6, <2>1, <2>2
<1>10. CASE OnRestore
  <2>1. /\ ~Extended /\ Incoming = RESTORE_POINTERS
        /\ \/ /\ hd.level2 >= L2_BASIC /\ chip' = SelAtnXfer(Cleared, \h45)
              /\ hd' = [hd EXCEPT !.state = "S_RUNNING_LEVEL2"]
           \/ chip' = NegateAck(Cleared) /\ hd' = [hd EXCEPT !.state = "S_CONNECTED"]
    BY <1>10 DEF OnRestore, MessageRead, Is, Accept
  <2>2. CASE /\ hd.level2 >= L2_BASIC /\ chip' = SelAtnXfer(Cleared, \h45)
             /\ hd' = [hd EXCEPT !.state = "S_RUNNING_LEVEL2"]
    BY <1>3, <1>6, <2>1, <2>2
  <2>3. CASE chip' = NegateAck(Cleared) /\ hd' = [hd EXCEPT !.state = "S_CONNECTED"]
    BY <1>3, <1>5, <1>6, <2>1, <2>3
  <2> QED
    BY <2>1, <2>2, <2>3
<1>11. CASE OnReject
  <2>1. ~Extended /\ Incoming = MESSAGE_REJECT /\ chip' = NegateAck(Cleared)
    BY <1>11 DEF OnReject, MessageRead, Is
  <2>2. hd'.incoming_msg = hd.incoming_msg
    BY <1>1, <1>11 DEF OnReject, MessageRead, IsHost
  <2>3. MESSAGE_REJECT # COMMAND_COMPLETE /\ MESSAGE_REJECT # DISCONNECT
    <3>1. <<0>>[1] = 0 /\ <<7>>[1] = 7 /\ <<4>>[1] = 4
      OBVIOUS
    <3> QED
      BY <3>1 DEF COMMAND_COMPLETE, DISCONNECT, MESSAGE_REJECT
  <2> QED
    BY <1>3, <2>1, <2>2, <2>3
<1>12. CASE OnUnknown
  <2>1. /\ ~Extended /\ Incoming # COMMAND_COMPLETE /\ Incoming # DISCONNECT
        /\ chip' = NegateAck(AssertAtn(Cleared))
    BY <1>12 DEF OnUnknown, MessageRead, Answer
  <2>2. hd'.incoming_msg = <<>>
    BY <1>1, <1>12 DEF OnUnknown, MessageRead, Answer, IsHost
  <2> QED
    BY <1>3, <2>1, <2>2
<1>13. CASE OnExtendedByte
  <2>1. /\ Extended /\ ~WholeMessage /\ chip' = NegateAck(Cleared)
        /\ hd' = [hd EXCEPT !.incoming_msg = Incoming, !.state = "S_CONNECTED"]
    BY <1>13 DEF OnExtendedByte, MessageRead
  <2>2. hd'.incoming_msg = Incoming
    BY <1>1, <2>1 DEF IsHost
  <2> QED
    BY <1>3, <2>1, <2>2
<1>14. CASE OnSdtr
  <2>1. Extended /\ WholeMessage /\ chip' \in {NegateAck(Cleared), NegateAck(AssertAtn(Cleared))}
    BY <1>14 DEF OnSdtr, MessageRead
  <2>2. hd'.incoming_msg = <<>>
    BY <1>1, <1>14 DEF OnSdtr, MessageRead, IsHost
  <2> QED
    BY <1>3, <2>1, <2>2
<1>15. CASE OnWdtr \/ OnOtherExtended
  <2>1. Extended /\ WholeMessage /\ chip' = NegateAck(AssertAtn(Cleared))
    BY <1>15 DEF OnWdtr, OnOtherExtended, MessageRead, Answer
  <2>2. hd'.incoming_msg = <<>>
    BY <1>1, <1>15 DEF OnWdtr, OnOtherExtended, MessageRead, Answer, IsHost
  <2> QED
    BY <1>3, <2>1, <2>2
<1> QED
  BY <1>4, <1>7, <1>8, <1>9, <1>10, <1>11, <1>12, <1>13, <1>14, <1>15 DEF PollEnds

(* A message byte is read.                                                 *)
LEMMA CalmMessageRead ==
  ASSUME Base, Base', CalmInv, PollEnds, pc = "message"
  PROVE  CalmInv'
<1>1. /\ IsHost(hd) /\ IsChip(chip) /\ hd.level2 \in Nat
  BY RecordDomains, HostFieldTypes, SetupTypes DEF Base, Types, HostTypes, BusTypes
<1>2. /\ pc' = "idle" /\ chip.int # "none" /\ UNCHANGED <<bus, tg>>
  BY <1>1, PollLeaves
<1> DEFINE m == tg[bus].msgs
           ph == tg[bus].ph
<1>3. /\ bus # NULL /\ bus \in Nexus /\ m \in Seq(Nat)
      /\ Incoming \in Seq(Nat) /\ Incoming # <<>> /\ In = Incoming \o m
      /\ ~Extended =>
           /\ hd.incoming_msg = <<>>
           /\ \/ m = <<>> /\ ph \notin Parting
              \/ m = <<>> /\ ph = "complete" /\ Incoming = COMMAND_COMPLETE
              \/ m = <<>> /\ ph = "away" /\ Incoming = DISCONNECT
              \/ m = DISCONNECT /\ ph = "away" /\ Incoming = SAVE_POINTERS
      /\ Extended => InExtended /\ (WholeMessage <=> m = <<>>)
  BY <1>2, Hears
<1>4. Left' = m
  <2>1. chip'.int = "none"
    BY MessageActs
  <2>2. <<>> \o m = m
    BY <1>3, ConcatEmptySeq
  <2> QED
    BY <1>2, <2>1, <2>2 DEF Left
<1>5. ~Pending("SDP")'
  BY <1>2, MessageActs DEF Pending
<1>6. chip'.cmd = "level2" => /\ hd'.state = "S_RUNNING_LEVEL2" /\ hd.level2 > L2_NONE
                              /\ chip'.phs # \h20
  <2>1. hd.level2 >= L2_BASIC => hd.level2 > L2_NONE
    BY <1>1 DEF L2_BASIC, L2_NONE
  <2> QED
    BY <2>1, MessageActs
<1>7. MessagesInv'
  <2>1. CASE Extended /\ ~WholeMessage
    <3>1. hd'.incoming_msg = Incoming /\ chip'.cmd = "none"
      BY <2>1, MessageActs
    <3>2. In' = In /\ m # <<>> /\ InExtended
      BY <1>3, <1>4, <2>1, <3>1 DEF In
    <3>3. InExtended'
      BY <1>2, <1>4, <3>2 DEF InExtended
    <3> QED
      BY <1>2, <1>3, <1>4, <1>5, <3>1, <3>2, <3>3 DEF MessagesInv
  <2>2. CASE Extended /\ WholeMessage
    <3>1. hd'.incoming_msg = <<>> /\ chip'.cmd = "none"
      BY <2>2, MessageActs
    <3>2. m = <<>> /\ ph \notin Parting
      BY <1>3, <2>2 DEF InExtended
    <3> QED
      BY <1>2, <1>3, <1>4, <3>1, <3>2 DEF MessagesInv, Parting
  <2>3. CASE ~Extended
    <3>1. hd'.incoming_msg = <<>>
      BY <1>3, <2>3, MessageActs
    <3>2. CASE m = <<>> /\ ph \notin Parting
      BY <1>2, <1>3, <1>4, <3>1, <3>2 DEF MessagesInv, Parting
    <3>3. CASE m = DISCONNECT /\ ph = "away"
      BY <1>2, <1>3, <1>4, <3>1, <3>3, PlainOnes DEF MessagesInv
    <3>4. CASE m = <<>> /\ \/ ph = "complete" /\ Incoming = COMMAND_COMPLETE
                           \/ ph = "away" /\ Incoming = DISCONNECT
      <4>1. /\ chip'.int = "none" /\ chip'.cmd = "none"
            /\ Incoming = COMMAND_COMPLETE => hd'.state = "S_PRE_CMP_DISC"
            /\ Incoming = DISCONNECT => hd'.state = "S_PRE_TMP_DISC"
        <5>1. COMMAND_COMPLETE # RESTORE_POINTERS /\ DISCONNECT # RESTORE_POINTERS
          <6>1. <<0>>[1] = 0 /\ <<3>>[1] = 3 /\ <<4>>[1] = 4
            OBVIOUS
          <6> QED
            BY <6>1 DEF COMMAND_COMPLETE, DISCONNECT, RESTORE_POINTERS
        <5> QED
          BY <2>3, <3>4, <5>1, MessageActs
      <4> QED
        BY <1>2, <1>3, <1>4, <3>1, <3>4, <4>1 DEF MessagesInv, Parting
    <3> QED
      BY <1>3, <2>3, <3>2, <3>3, <3>4
  <2> QED
    BY <2>1, <2>2, <2>3
<1> QED
  BY <1>6, <1>7, CalmRead

(* The ends of what the driver polls for.                                  *)
LEMMA CalmPoll ==
  ASSUME Base, Base', CalmInv, PollEnds
  PROVE  CalmInv'
<1>1. CASE PioDone \/ SentDone
  <2>1. /\ UNCHANGED <<hd, chip, bus, tg, eh, req>> /\ pc # "handle" /\ pc' = "idle"
    BY <1>1 DEF PioDone, SentDone, Rest, targetVars
  <2>2. NobodyGivenUp'
    BY <2>1 DEF CalmInv, NobodyGivenUp
  <2> QED
    BY <2>1, <2>2, Rests
<1>2. CASE StatusRead
  BY <1>2, CalmStatusRead
<1>3. CASE pc = "message"
  BY <1>3, CalmMessageRead
<1>4. pc = "message" \/ PioDone \/ SentDone \/ StatusRead
  BY DEF PollEnds, OnComplete, OnSave, OnDisconnect, OnRestore, OnReject, OnUnknown,
     OnExtendedByte, OnSdtr, OnWdtr, OnOtherExtended, MessageRead
<1> QED
  BY <1>1, <1>2, <1>3, <1>4

(* Nobody is away, and nothing under way, at the start.                    *)
LEMMA CalmInit ==
  ASSUME Init
  PROVE  CalmInv
<1>1. /\ chip = ChipReset /\ bus = NULL /\ tg = [n \in Nexus |-> Idle] /\ hd = HostInit
      /\ pc = "idle" /\ eh = NotAborting
      /\ req = [c \in Cmds |-> [st |-> "free", res |-> NoResult]]
  BY DEF Init, BusInit, DriverInit
<1>2. /\ chip.int = "none" /\ chip.cmd = "none" /\ ~chip.atn /\ hd.connected = NULL
      /\ hd.disconnected_Q = <<>> /\ hd.incoming_msg = <<>>
  BY <1>1 DEF ChipReset, HostInit
<1>3. \A csr : csr # "none" => ~Pending(csr)
  BY <1>1, <1>2 DEF Pending
<1>4. ~Ending /\ Gone = {}
  BY <1>2, <1>3 DEF Ending, Gone, Leaver, Away, ToSet
<1>5. NobodyGivenUp
  BY <1>1 DEF NobodyGivenUp, NotAborting
<1>6. UnitsInv /\ BusInv
  BY <1>1, <1>2, <1>4 DEF UnitsInv, OffBus, BusInv, Idle
<1>7. EndInv /\ Level2Inv
  <2>1. ~Pending("DISC") /\ ~Pending("SDP")
    BY <1>3
  <2> QED
    BY <1>1, <1>2, <1>4, <2>1 DEF EndInv, Level2Inv
<1>8. MessagesInv /\ IdentifyInv
  BY <1>1, <1>2 DEF MessagesInv, IdentifyInv
<1> QED
  BY <1>5, <1>6, <1>7, <1>8 DEF CalmInv

(* Every step keeps what is known of those who are away.                   *)
LEMMA CalmKept ==
  ASSUME Base, Base', CalmInv, Calm, [Next]_vars
  PROVE  CalmInv'
<1>1. CASE UNCHANGED vars
  <2>1. UNCHANGED <<hd, chip, bus, tg, pc, sr, eh, req>>
    BY <1>1 DEF vars, driverVars, busVars
  <2>2. \A csr : Pending(csr)' <=> Pending(csr)
    BY <2>1 DEF Pending
  <2>3. Gone' = Gone /\ (Ending' <=> Ending) /\ Leaver' = Leaver
    BY <2>1, <2>2 DEF Gone, Leaver, Away, Ending
  <2>4. UnitsInv' /\ BusInv'
    BY <2>1, <2>2, <2>3 DEF CalmInv, UnitsInv, OffBus, BusInv, InConnection
  <2>5. EndInv' /\ Level2Inv'
    BY <2>1, <2>2, <2>3 DEF CalmInv, EndInv, Level2Inv, Beaten
  <2>6. Left' = Left /\ In' = In /\ (InExtended' <=> InExtended)
    BY <2>1 DEF Left, In, InExtended
  <2>7. MessagesInv'
    BY <2>1, <2>2, <2>6 DEF CalmInv, MessagesInv
  <2>8. IdentifyInv' /\ NobodyGivenUp'
    BY <2>1, <2>2 DEF CalmInv, IdentifyInv, Identifies, NobodyGivenUp
  <2> QED
    BY <2>4, <2>5, <2>7, <2>8 DEF CalmInv
<1>2. ASSUME NEW c \in Cmds
      PROVE  ~TimesOut(c) /\ ~Abort(c)
  BY DEF TimesOut, Abort, Calm, CalmInv, NobodyGivenUp
<1>3. ~AbortSteps
  BY DEF AbortSteps, AbortQueued, AbortConnected, AbortFlush, AbortFinish, AbortDisconnected,
     AbortUnknown, AbortChecks, AbortStarts, Aborting, CalmInv, NobodyGivenUp
<1>4. ~HostReset
  BY DEF HostReset, CalmInv, NobodyGivenUp
<1>5. ASSUME NEW c \in Cmds, Queue(c)
      PROVE  CalmInv'
  BY <1>5, CalmQueue
<1> QED
  BY <1>1, <1>2, <1>3, <1>4, <1>5, CalmExecute, CalmInterrupt, CalmHandle, CalmPoll,
     CalmSettings, CalmBus DEF Next

(* Where every unit and every command is, the driver knows.                *)
LEMMA CalmAgrees ==
  ASSUME Base, CalmInv
  PROVE  TargetsAgree
<1>1. ASSUME NEW x \in Queued
      PROVE  tg[NexusOf(x)].cmd # x
  <2>1. x \in Cmds /\ x # NULL /\ NexusOf(x) \in Nexus
    BY OfCommands DEF Base, Nexus
  <2>2. x \notin Away /\ x # hd.connected
    BY DEF Base, Books, Started, Held
  <2>3. x \notin Gone
    BY <2>2 DEF Gone, Leaver
  <2>4. CASE NexusOf(x) # bus
    BY <2>1, <2>3, <2>4 DEF CalmInv, UnitsInv, OffBus
  <2>5. CASE NexusOf(x) = bus
    <3>1. bus # NULL
      BY <2>1, <2>5, BusAssumption, AttrTypes DEF NexusOf
    <3> QED
      BY <2>1, <2>2, <2>3, <2>5, <3>1 DEF CalmInv, BusInv, InConnection
  <2> QED
    BY <2>4, <2>5
<1>2. ASSUME NEW x \in Away
      PROVE  tg[NexusOf(x)].cmd = x /\ (tg[NexusOf(x)].ph = "disc" \/ bus = NexusOf(x))
  <2>1. x \in Cmds /\ x # NULL /\ NexusOf(x) \in Nexus
    BY OfCommands DEF Base, Nexus
  <2>2. tg[NexusOf(x)].cmd = x
    BY DEF CalmInv, UnitsInv, Gone
  <2> QED
    BY <2>1, <2>2 DEF CalmInv, UnitsInv, OffBus
<1>3. Quiet /\ bus # NULL => hd.connected # NULL /\ bus = NexusOf(hd.connected)
  BY DEF Quiet, CalmInv, BusInv, InConnection, Pending
<1> QED
  BY <1>1, <1>2, <1>3 DEF TargetsAgree

(* What ends a connection, and what begins one again, the driver           *)
(* understands.                                                            *)
LEMMA CalmUnderstands ==
  ASSUME Base, CalmInv
  PROVE  ConnectionsUnderstood
<1>1. ASSUME pc = "handle", sr.csr = "DISC"
      PROVE  /\ hd.connected # NULL
             /\ hd.state = "S_PRE_CMP_DISC" => tg[NexusOf(hd.connected)].cmd # hd.connected
             /\ hd.state # "S_PRE_CMP_DISC" =>
                  /\ hd.state \in {"S_PRE_TMP_DISC", "S_RUNNING_LEVEL2"}
                  /\ tg[NexusOf(hd.connected)].cmd = hd.connected
  <2>1. Pending("DISC") /\ Ending
    BY <1>1 DEF Pending, Ending
  <2>2. hd.state = "S_PRE_CMP_DISC" => Leaver = {}
    BY DEF Leaver
  <2>3. hd.state # "S_PRE_CMP_DISC" => hd.connected \in Gone
    BY <2>1 DEF Leaver, Gone
  <2> QED
    BY <2>1, <2>2, <2>3 DEF CalmInv, EndInv, UnitsInv
<1>2. ASSUME pc = "handle", sr.csr = "RESEL_AM"
      PROVE  Reconnecting # 0 /\ ~Intrusive
  <2>1. Reconnecting # 0
    BY <1>2, CalmKnown DEF Known
  <2>2. Beaten(sr.phs)
    BY <1>2, Back
  <2> QED
    BY <2>1, <2>2 DEF Beaten, Intrusive
<1> QED
  BY <1>1, <1>2 DEF ConnectionsUnderstood
===============================================================================
