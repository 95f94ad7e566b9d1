-------------------------------- MODULE HostProofs -----------------------------
(***************************************************************************)
(* The driver keeps its books: what HostBooks calls its invariants holds   *)
(* of every behaviour in which the driver understands the reselections it  *)
(* is told of, and in it no command is lost.                               *)
(***************************************************************************)
EXTENDS HostBooks

(* The fields of the records, for the steps that write some of them.       *)
IsChip(ch) == DOMAIN ch =
  {"cmd", "int", "phs", "xph", "quiet", "ack", "atn", "count", "id", "lun", "dpd", "er",
   "sync", "polled", "cdb", "out", "byte"}
IsHost(h) == DOMAIN h =
  {"input_Q", "selecting", "connected", "disconnected_Q", "busy", "state", "dma", "level2",
   "disconnect", "no_dma", "no_sync", "incoming_msg", "outgoing_msg", "bounce",
   "sync_xfer", "sync_stat"}
IsUnit(u) == DOMAIN u =
  {"ph", "cmd", "msgs", "pos", "saved", "disc", "st", "odd", "pend"}
(* The records of the state have the fields of their types.                *)
LEMMA RecordDomains ==
  /\ \A ch \in Chips : IsChip(ch)
  /\ \A h \in Hosts : IsHost(h)
  /\ \A u \in Units : IsUnit(u)
BY DEF Chips, Hosts, Units, IsChip, IsHost, IsUnit

(* What the chip makes of a command, and of one it ignores.                *)
LEMMA Commanded ==
  ASSUME NEW ch, IsChip(ch)
  PROVE  /\ ch.int = "none" =>
              /\ SelAtn(ch) = [ch EXCEPT !.cmd = "select", !.quiet = FALSE]
              /\ TransInfo(ch) = [ch EXCEPT !.cmd = "info", !.xph = Phase, !.quiet = FALSE]
              /\ \A n : SelAtnXfer(ch, n) =
                   [ch EXCEPT !.phs = n, !.cmd = "level2", !.ack = FALSE, !.quiet = FALSE]
              /\ NegateAck(ch) = [ch EXCEPT !.ack = FALSE, !.quiet = FALSE]
              /\ AssertAtn(ch) = [ch EXCEPT !.atn = TRUE, !.quiet = FALSE]
              /\ NegateAck(AssertAtn(ch)) = [ch EXCEPT !.ack = FALSE, !.atn = TRUE, !.quiet = FALSE]
         /\ ch.int # "none" =>
              /\ SelAtn(ch) = ch /\ TransInfo(ch) = ch /\ NegateAck(ch) = ch /\ AssertAtn(ch) = ch
              /\ \A n : SelAtnXfer(ch, n) = [ch EXCEPT !.phs = n]
BY DEF SelAtn, TransInfo, SelAtnXfer, NegateAck, AssertAtn, Issue, IsChip

Base == Types /\ Books /\ AbortInv /\ ChipInv /\ SelectInv /\ DmaInv

(* An interrupt is handled with the DMA stopped and no abort under way.    *)
LEMMA Handling ==
  ASSUME Base, pc \notin {"idle", "execute"}
  PROVE  /\ hd.dma = "D_DMA_OFF" /\ engine.cmd = NULL /\ eh.at = "none" /\ eh.ok = FALSE
BY HostFieldTypes DEF Base, Types, HostTypes, DmaInv, AbortInv, InDriver, AbortStates

-------------------------------------------------------------------------------
(* 1.  The chip.                                                           *)

(* A step of the driver that leaves alone what the chip is doing.          *)
LEMMA ChipLeft ==
  ASSUME ChipInv, pc # "message", pc' \in {"idle", "execute"}, UNCHANGED <<bus, tg>>,
         chip'.cmd = chip.cmd, chip'.int = chip.int, chip'.ack = chip.ack,
         chip'.atn = chip.atn, chip'.quiet = chip.quiet, chip'.xph = chip.xph
  PROVE  ChipInv'
<1>1. Phase' = Phase
  BY DEF Phase
<1> QED
  BY <1>1 DEF ChipInv, InDriver

(* One after which no interrupt is waiting.                                *)
LEMMA ChipTold ==
  ASSUME pc' \in {"idle", "execute"}, chip'.int = "none", bus' = NULL => ~chip'.ack,
         chip'.cmd = "info" => chip'.xph # "MESS_IN"
  PROVE  ChipInv'
BY DEF ChipInv, InDriver, Phases

(* A phase is served as the chip reported it, or not at all if the target  *)
(* has left the bus meanwhile.                                             *)
LEMMA ChipServes ==
  ASSUME ChipInv, pc = "handle", sr.csr \in Phases, UNCHANGED <<bus, tg>>,
         NEW ch, IsChip(ch), ch.cmd = chip.cmd, ch.int = chip.int, ch.ack = chip.ack,
         ch.atn = chip.atn, ch.quiet = chip.quiet, ch.xph = chip.xph,
         chip' = TransInfo(ch),
         pc' \in {"idle", "pio", "sent", "status", "message"},
         sr.csr = "STATUS" <=> pc' = "status", sr.csr = "MESS_IN" <=> pc' = "message"
  PROVE  ChipInv'
<1>1. CASE chip.int = "none"
  <2>1. Phase = sr.csr
    BY <1>1 DEF ChipInv
  <2>2. /\ chip'.cmd = "info" /\ chip'.xph = sr.csr /\ chip'.int = "none" /\ chip'.ack = chip.ack
        /\ chip'.atn = chip.atn
    <3>1. chip' = [ch EXCEPT !.cmd = "info", !.xph = Phase, !.quiet = FALSE]
      BY <1>1, Commanded
    <3> QED
      BY <1>1, <2>1, <3>1 DEF IsChip
  <2>3. Phase' = Phase
    BY <2>2 DEF Phase
  <2> QED
    BY <2>1, <2>2, <2>3 DEF ChipInv, InDriver, Phases
<1>2. CASE chip.int # "none"
  <2>1. chip' = ch /\ sr.csr \in {"DATA_IN", "DATA_OUT", "MESS_OUT"}
    BY <1>2, Commanded DEF ChipInv
  <2>2. Phase' = Phase
    BY <2>1 DEF Phase
  <2> QED
    BY <1>2, <2>1, <2>2 DEF ChipInv, InDriver, Phases
<1> QED
  BY <1>1, <1>2

(* The cases of wd33c93_intr leave the chip with a command only where they *)
(* give it one.                                                            *)
LEMMA HandleChip ==
  ASSUME Base, HandleInterrupt, UNCHANGED setup
  PROVE  ChipInv'
<1>1. /\ ChipInv /\ IsChip(chip) /\ pc = "handle" /\ UNCHANGED <<bus, tg, sr>>
  BY RecordDomains DEF Base, Types, BusTypes,
         HandleInterrupt, OnTimeout, OnSelect, OnData, OnCommand, OnMessageOut, OnStatus,
         OnMessageIn, OnSelXferDone, OnUnexpDisc, AlreadyDisconnected, OnDisc, OnSdp,
         OnReselect, OnStrayReselect, Rest, targetVars, CommandCase, Case
<1>2. CASE OnTimeout \/ OnSelect
  <2>1. UNCHANGED chip /\ pc' \in {"idle", "execute"}
    BY <1>2 DEF OnTimeout, OnSelect, Restart
  <2> QED
    BY <1>1, <2>1, ChipLeft
<1>3. CASE OnSelXferDone \/ OnUnexpDisc \/ AlreadyDisconnected \/ OnDisc
  <2>1. chip' = [chip EXCEPT !.er = TRUE] /\ pc' \in {"idle", "execute"}
    BY <1>3 DEF OnSelXferDone, OnUnexpDisc, AlreadyDisconnected, OnDisc, EnableReselection, Restart
  <2> QED
    BY <1>1, <2>1, ChipLeft
<1>4. CASE OnCommand
  <2> DEFINE ch == [chip EXCEPT !.polled = TRUE, !.count = 1, !.cdb = hd.connected]
  <2>1. chip' = TransInfo(ch) /\ pc' = "sent" /\ sr.csr = "COMMAND"
    BY <1>4 DEF OnCommand, CommandCase, Case
  <2>2. IsChip(ch)
    BY <1>1 DEF IsChip
  <2> QED
    BY <1>1, <2>1, <2>2, ChipServes DEF Phases, IsChip
<1>5. CASE OnMessageOut
  <2> DEFINE out == IF hd.outgoing_msg = <<>> THEN <<Plain("NOP")>> ELSE hd.outgoing_msg
             ch == [chip EXCEPT !.polled = TRUE, !.count = Len(out), !.out = out]
  <2>1. chip' = TransInfo(ch) /\ pc' = "sent" /\ sr.csr = "MESS_OUT"
    BY <1>5 DEF OnMessageOut, Case
  <2> HIDE DEF out
  <2>2. IsChip(ch)
    BY <1>1 DEF IsChip
  <2> QED
    BY <1>1, <2>1, <2>2, ChipServes DEF Phases, IsChip
<1>6. CASE OnStatus \/ OnMessageIn
  <2> DEFINE ch == [chip EXCEPT !.polled = TRUE]
  <2>1. /\ chip' = TransInfo(ch)
        /\ \/ sr.csr = "STATUS" /\ pc' = "status"
           \/ sr.csr = "MESS_IN" /\ pc' = "message"
    BY <1>6 DEF OnStatus, OnMessageIn, CommandCase, Case, ReadByte
  <2>2. IsChip(ch)
    BY <1>1 DEF IsChip
  <2> QED
    BY <1>1, <2>1, <2>2, ChipServes DEF Phases, IsChip
<1>7. CASE OnData
  <2> DEFINE c == hd.connected
             s == NextBuffer(c)
  <2>1. sr.csr \in {"DATA_IN", "DATA_OUT"}
    BY <1>7 DEF OnData, CommandCase, Case
  <2>2. CASE TransferNothing
    BY <1>1, <2>2, ChipLeft DEF TransferNothing
  <2>3. CASE TransferByPio(c, s)
    <3> DEFINE ch == [chip EXCEPT !.sync = hd.sync_xfer[Attr[c].id], !.polled = TRUE,
                                  !.count = s.left]
    <3>1. chip' = TransInfo(ch) /\ pc' = "pio"
      BY <2>3 DEF TransferByPio
    <3> HIDE DEF c, s
    <3>2. IsChip(ch)
      BY <1>1 DEF IsChip
    <3> QED
      BY <1>1, <2>1, <3>1, <3>2, ChipServes DEF Phases, IsChip
  <2>4. ASSUME NEW via, TransferByDma(c, s, via)
        PROVE  ChipInv'
    <3> DEFINE ch == [chip EXCEPT !.sync = hd.sync_xfer[Attr[c].id], !.polled = FALSE,
                                  !.count = s.left]
    <3>1. chip' \in {SelAtnXfer(ch, \h45), TransInfo(ch)} /\ pc' = "idle"
      BY <2>4 DEF TransferByDma
    <3> HIDE DEF c, s
    <3>2. /\ IsChip(ch) /\ ch.cmd = chip.cmd /\ ch.int = chip.int /\ ch.ack = chip.ack
          /\ ch.atn = chip.atn /\ ch.quiet = chip.quiet /\ ch.xph = chip.xph
      BY <1>1 DEF IsChip
    <3> HIDE DEF ch
    <3>3. CASE chip' = TransInfo(ch)
      BY <1>1, <2>1, <3>1, <3>2, <3>3, ChipServes DEF Phases
    <3>4. CASE chip' = SelAtnXfer(ch, \h45) /\ chip.int = "none"
      <4>1. chip' = [ch EXCEPT !.phs = \h45, !.cmd = "level2", !.ack = FALSE, !.quiet = FALSE]
        BY <3>2, <3>4 DEF SelAtnXfer, Issue, IsChip
      <4>2. chip'.cmd = "level2" /\ chip'.int = "none" /\ ~chip'.ack
        BY <3>2, <3>4, <4>1 DEF IsChip
      <4> QED
        BY <3>1, <4>2, ChipTold
    <3>5. CASE chip' = SelAtnXfer(ch, \h45) /\ chip.int # "none"
      <4>1. chip' = [ch EXCEPT !.phs = \h45]
        BY <3>2, <3>5, Commanded
      <4> HIDE DEF ch
      <4> QED
        BY <1>1, <3>1, <3>2, <4>1, ChipLeft
    <3> QED
      BY <3>1, <3>3, <3>4, <3>5
  <2> QED
    BY <1>7, <2>2, <2>3, <2>4 DEF OnData
<1>8. CASE OnSdp
  <2>1. chip' = SelAtnXfer(chip, \h41) /\ pc' = "idle" /\ chip.int = "none"
    BY <1>1, <1>8 DEF OnSdp, Case, ChipInv
  <2>2. chip' = [chip EXCEPT !.phs = \h41, !.cmd = "level2", !.ack = FALSE, !.quiet = FALSE]
    BY <1>1, <2>1 DEF SelAtnXfer, Issue, IsChip
  <2>3. chip'.cmd = "level2" /\ chip'.int = "none" /\ ~chip'.ack
    BY <1>1, <2>1, <2>2 DEF IsChip
  <2> QED
    BY <2>1, <2>3, ChipTold
<1>9. CASE OnReselect
  <2> DEFINE c  == hd.disconnected_Q[Reconnecting]
             ch == [chip EXCEPT !.id = Attr[c].id, !.dpd = Attr[c].in]
  <2>1. /\ chip' \in {SelAtnXfer(NoCount(ch), \h45), NegateAck(ch)}
        /\ pc' = "idle" /\ chip.int = "none"
    BY <1>1, <1>9 DEF OnReselect, Case, ChipInv
  <2> HIDE DEF c
  <2>2. IsChip(ch) /\ IsChip(NoCount(ch)) /\ ch.int = "none" /\ NoCount(ch).int = "none"
        /\ ch.cmd = chip.cmd
    BY <1>1, <2>1 DEF IsChip, NoCount
  <2> HIDE DEF ch
  <2>3. \/ chip' = [ch EXCEPT !.ack = FALSE, !.quiet = FALSE]
        \/ chip' = [NoCount(ch) EXCEPT !.phs = \h45, !.cmd = "level2", !.ack = FALSE,
                                       !.quiet = FALSE]
    BY <2>1, <2>2 DEF SelAtnXfer, NegateAck, Issue, IsChip
  <2>4. chip'.cmd # "info" /\ chip'.int = "none" /\ ~chip'.ack
    BY <1>1, <2>2, <2>3, ZenonT(40) DEF IsChip, ChipInv
  <2> QED
    BY <2>1, <2>4, ChipTold
<1>10. CASE OnStrayReselect
  <2>1. /\ chip' \in {NegateAck(chip), chip} /\ pc' = "idle" /\ chip.int = "none"
    BY <1>1, <1>10 DEF OnStrayReselect, Case, ChipInv
  <2>2. chip' = [chip EXCEPT !.ack = FALSE, !.quiet = FALSE] \/ chip' = chip
    BY <1>1, <2>1, Commanded
  <2>3. chip'.cmd # "info" /\ chip'.int = "none" /\ (chip'.ack => chip.ack)
    BY <1>1, <2>1, <2>2 DEF IsChip, ChipInv
  <2> QED
    BY <1>1, <2>1, <2>3, ChipTold DEF ChipInv
<1> QED
  BY <1>2, <1>3, <1>4, <1>5, <1>6, <1>7, <1>8, <1>9, <1>10 DEF HandleInterrupt

(* So do the ends of the driver's polls.                                   *)
LEMMA PollChip ==
  ASSUME Base, PollEnds, UNCHANGED setup
  PROVE  ChipInv'
<1>1. /\ ChipInv /\ IsChip(chip) /\ pc \in {"pio", "sent", "status", "message"}
      /\ UNCHANGED <<bus, tg, sr>> /\ pc' = "idle" /\ chip.int # "none"
  BY RecordDomains DEF Base, Types, BusTypes,
         PollEnds, PioDone, SentDone, StatusRead, MessageRead, OnComplete, OnSave,
         OnDisconnect, OnRestore, OnReject, OnUnknown, OnExtendedByte, OnSdtr, OnWdtr,
         OnOtherExtended, Rest, targetVars
<1>2. CASE UNCHANGED chip /\ pc # "message"
  BY <1>1, <1>2, ChipLeft
<1>3. /\ IsChip(Cleared) /\ Cleared.int = "none" /\ Cleared.cmd = "none" /\ Cleared.ack = chip.ack
      /\ chip.cmd = "none"
  BY <1>1 DEF Cleared, IsChip, ChipInv
<1>4. CASE chip' \in {SelAtnXfer(Cleared, \h50), SelAtnXfer(Cleared, \h45)}
  <2> HIDE DEF Cleared
  <2>1. \A n \in {\h50, \h45} :
          LET d == SelAtnXfer(Cleared, n) IN d.cmd = "level2" /\ d.int = "none" /\ ~d.ack
    BY <1>3 DEF SelAtnXfer, Issue, IsChip
  <2>2. chip'.cmd = "level2" /\ chip'.int = "none" /\ ~chip'.ack
    BY <1>4, <2>1
  <2> QED
    BY <1>1, <2>2, ChipTold
<1>5. CASE chip' \in {NegateAck(Cleared), NegateAck(AssertAtn(Cleared))}
  <2>1. chip'.cmd = "none" /\ chip'.int = "none" /\ ~chip'.ack
    BY <1>3, <1>5 DEF NegateAck, AssertAtn, Issue, IsChip
  <2> QED
    BY <1>1, <2>1, ChipTold
<1>6. pc = "message" \/ StatusRead =>
        \/ chip' \in {SelAtnXfer(Cleared, \h50), SelAtnXfer(Cleared, \h45)}
        \/ chip' \in {NegateAck(Cleared), NegateAck(AssertAtn(Cleared))}
        \/ UNCHANGED chip /\ pc # "message"
  BY DEF PollEnds, PioDone, SentDone, StatusRead, MessageRead, OnComplete, OnSave,
         OnDisconnect, OnRestore, OnReject, OnUnknown, OnExtendedByte, OnSdtr, OnWdtr,
         OnOtherExtended, Accept, Answer
<1>7. pc # "message" /\ ~StatusRead => UNCHANGED chip
  BY DEF PollEnds, PioDone, SentDone, MessageRead, OnComplete, OnSave,
         OnDisconnect, OnRestore, OnReject, OnUnknown, OnExtendedByte, OnSdtr, OnWdtr,
         OnOtherExtended
<1> QED
  BY <1>2, <1>4, <1>5, <1>6, <1>7

(* A selection is begun, or ignored while an interrupt is waiting.         *)
LEMMA StartChip ==
  ASSUME Base, Start, pc # "message", pc' \in {"idle", "execute"}, UNCHANGED <<bus, tg>>
  PROVE  /\ ChipInv'
         /\ chip'.int = chip.int /\ chip'.atn = chip.atn
         /\ chip.int # "none" => chip'.cmd = "none"
<1>1. ChipInv /\ IsChip(chip)
  BY RecordDomains DEF Base, Types, BusTypes
<1> DEFINE c    == hd.input_Q[Runnable]
           rest == RemoveAt(hd.input_Q, Runnable)
           er   == AllowDisconnect(c, rest)
           h    == [hd EXCEPT !.input_Q = rest, !.busy = @ \cup {NexusOf(c)}]
           ch   == [chip EXCEPT !.id = Attr[c].id, !.lun = Attr[c].lun, !.dpd = Attr[c].in,
                                !.er = er, !.sync = hd.sync_xfer[Attr[c].id]]
           k    == [NoCount(ch) EXCEPT !.cdb = c]
           m    == [ch EXCEPT !.count = scp[c].left, !.cdb = c, !.polled = FALSE]
<1>2. StartSelect(c, h, ch) \/ StartLevel2(c, h, ch)
  BY DEF Start
<1>3. chip' \in {SelAtn(NoCount(ch)), SelAtnXfer(k, 0), SelAtnXfer(m, 0)}
  BY <1>2 DEF StartSelect, StartLevel2
<1> DEFINE Same(d) == /\ IsChip(d) /\ d.cmd = chip.cmd /\ d.int = chip.int /\ d.ack = chip.ack
                      /\ d.atn = chip.atn /\ d.quiet = chip.quiet /\ d.xph = chip.xph
<1> HIDE DEF c, er
<1>4. Same(ch) /\ Same(NoCount(ch)) /\ Same(k) /\ Same(m)
  BY <1>1 DEF IsChip, NoCount
<1>5. \E d : Same(d) /\ chip' \in {SelAtn(d), SelAtnXfer(d, 0)}
  <2> HIDE DEF ch, k, m, Same
  <2> QED
    BY <1>3, <1>4
<1>6. PICK d : Same(d) /\ chip' \in {SelAtn(d), SelAtnXfer(d, 0)}
  BY <1>5
<1> HIDE DEF ch, k, m
<1>7. CASE chip.int = "none"
  <2>1. /\ chip'.cmd \in {"select", "level2"} /\ chip'.int = "none" /\ chip'.atn = chip.atn
        /\ chip'.ack => chip.ack
    BY <1>6, <1>7 DEF SelAtn, SelAtnXfer, Issue, IsChip
  <2> QED
    BY <1>1, <1>7, <2>1, ChipTold DEF ChipInv
<1>8. CASE chip.int # "none"
  <2>1. chip' = d \/ chip' = [d EXCEPT !.phs = 0]
    BY <1>6, <1>8 DEF SelAtn, SelAtnXfer, Issue, IsChip
  <2>2. Same(chip')
    BY <1>6, <2>1 DEF IsChip
  <2> QED
    BY <1>1, <1>8, <2>2, ChipLeft DEF ChipInv
<1> QED
  BY <1>7, <1>8

(* And the steps of wd33c93_abort.                                         *)
LEMMA AbortChip ==
  ASSUME Base, AbortSteps, UNCHANGED setup
  PROVE  ChipInv'
<1>1. /\ ChipInv /\ IsChip(chip) /\ pc = "idle" /\ UNCHANGED <<pc, sr>>
  BY RecordDomains DEF Base, Types, BusTypes, AbortSteps, AbortQueued, AbortConnected,
         AbortFlush, AbortFinish, AbortDisconnected, AbortUnknown, AbortChecks, AbortStarts,
         Aborting
<1>2. CASE AbortQueued \/ AbortDisconnected \/ AbortUnknown \/ AbortChecks
  <2>1. UNCHANGED <<chip, bus, tg>>
    BY <1>2 DEF AbortQueued, AbortDisconnected, AbortUnknown, AbortChecks, busVars
  <2> QED
    BY <1>1, <2>1, ChipLeft
<1>3. CASE AbortConnected
  <2> DEFINE ch == [chip EXCEPT !.polled = TRUE]
  <2>1. chip' = AbortCmd(ch) /\ UNCHANGED <<bus, tg>>
    BY <1>3 DEF AbortConnected, targetVars
  <2>2. /\ IsChip(ch) /\ ch.cmd = chip.cmd /\ ch.int = chip.int /\ ch.ack = chip.ack
        /\ ch.atn = chip.atn /\ ch.quiet = chip.quiet /\ ch.xph = chip.xph
    BY <1>1 DEF IsChip
  <2> HIDE DEF ch
  <2>3. CASE chip.cmd = "none" \/ chip.int # "none"
    <3>1. chip' = ch
      BY <2>1, <2>2, <2>3 DEF AbortCmd, Issue
    <3> QED
      BY <1>1, <2>1, <2>2, <3>1, ChipLeft
  <2>4. CASE chip.cmd # "none" /\ chip.int = "none"
    <3>1. chip' = [ch EXCEPT !.cmd = "none", !.int = "ABORT", !.quiet = FALSE]
      BY <2>1, <2>2, <2>4 DEF AbortCmd, Issue, IsChip
    <3>2. chip'.cmd = "none" /\ chip'.int = "ABORT" /\ chip'.ack = chip.ack
      BY <2>2, <3>1 DEF IsChip
    <3> QED
      BY <1>1, <2>1, <3>2 DEF ChipInv, InDriver, Phases
  <2> QED
    BY <2>3, <2>4
<1>4. CASE AbortFlush
  <2>1. chip' = [chip EXCEPT !.int = "none", !.cmd = "none", !.ack = FALSE, !.atn = FALSE]
    BY <1>4 DEF AbortFlush
  <2>2. chip'.cmd = "none" /\ chip'.int = "none" /\ ~chip'.ack
    BY <1>1, <2>1 DEF IsChip
  <2> QED
    BY <1>1, <2>2, ChipTold
<1>5. CASE AbortFinish
  <2>1. chip' = [chip EXCEPT !.int = "none"] /\ UNCHANGED bus /\ chip.cmd = "none"
    BY <1>5 DEF AbortFinish, Cleared, targetVars, Base, AbortInv, Aborting
  <2>2. chip'.cmd = "none" /\ chip'.int = "none" /\ chip'.ack = chip.ack
    BY <1>1, <2>1 DEF IsChip
  <2> QED
    BY <1>1, <2>1, <2>2, ChipTold DEF ChipInv
<1>6. CASE AbortStarts
  BY <1>1, <1>6, StartChip DEF AbortStarts, targetVars
<1> QED
  BY <1>2, <1>3, <1>4, <1>5, <1>6 DEF AbortSteps

(* The selections, and the interrupts of targets that come and go.         *)
LEMMA BusChip ==
  ASSUME Base, BusSteps
  PROVE  ChipInv'
<1>1. /\ ChipInv /\ IsChip(chip) /\ UNCHANGED <<pc, sr>> /\ NULL \notin Nexus
      /\ bus \in Nexus \cup {NULL} /\ tg \in [Nexus -> Units]
  <2>1. NULL \notin Nexus
    BY BusAssumption, AttrTypes DEF Nexus, NexusOf
  <2> QED
    BY <2>1, RecordDomains DEF Base, Types, BusTypes, BusSteps, driverVars
<1>2. bus # NULL => IsUnit(tg[bus])
  BY <1>1, RecordDomains
<1>3. CASE Selected
  <2>1. \/ chip' = [chip EXCEPT !.cmd = "none", !.int = "SELECT", !.atn = TRUE] /\ chip.cmd = "select"
        \/ chip' = [chip EXCEPT !.phs = \h20] /\ chip.cmd = "level2"
    BY <1>3 DEF Selected
  <2>2. bus = NULL /\ chip.int = "none" /\ ~chip.ack /\ bus' # NULL
    <3>1. <<chip.id, chip.lun>> \in Nexus
      BY <1>3 DEF Selected, Base, SelectInv, Selects, SelectsToTransfer, Types, HostTypes, Hosts, Nexus
    <3> QED
      BY <1>1, <1>3, <3>1 DEF Selected, ChipInv
  <2>3. \/ chip'.cmd = "none" /\ chip'.int = "SELECT" /\ ~chip'.ack /\ chip.cmd = "select"
        \/ chip'.cmd = "level2" /\ chip'.int = "none" /\ ~chip'.ack /\ chip.cmd = "level2"
    BY <1>1, <2>1, <2>2 DEF IsChip
  <2>4. pc \in {"idle", "execute"}
    BY <1>1, <2>3 DEF ChipInv, InDriver
  <2> QED
    BY <1>1, <2>2, <2>3, <2>4 DEF ChipInv, InDriver, Phases
<1>4. CASE SelectionTimeout
  <2>1. chip' = [chip EXCEPT !.cmd = "none", !.int = "TIMEOUT"] /\ bus = NULL /\ bus' = NULL
    BY <1>4 DEF SelectionTimeout
  <2>2. pc \in {"idle", "execute"}
    BY <1>1, <1>4 DEF ChipInv, InDriver, SelectionTimeout
  <2>3. chip'.cmd = "none" /\ chip'.int = "TIMEOUT" /\ chip'.ack = chip.ack
    BY <1>1, <2>1 DEF IsChip
  <2> QED
    BY <1>1, <2>1, <2>2, <2>3 DEF ChipInv, InDriver, Phases
<1>5. CASE \E n \in Nexus : Reselect(n)
  <2>1. /\ chip' = [chip EXCEPT !.cmd = "none", !.int = "RESEL_AM", !.ack = TRUE, !.atn = FALSE]
        /\ bus = NULL /\ bus' # NULL /\ chip.int = "none"
    BY <1>1, <1>5 DEF Reselect
  <2>2. chip'.cmd = "none" /\ chip'.int = "RESEL_AM" /\ chip'.ack
    BY <1>1, <2>1 DEF IsChip
  <2>3. pc \notin {"status", "message"}
    BY <1>1, <2>1 DEF ChipInv, Phase, Phases
  <2>4. \/ pc = "handle" /\ sr.csr \notin {"SDP", "RESEL_AM"} /\ sr.csr \notin Phases
        \/ pc # "handle"
    BY <1>1, <2>1 DEF ChipInv, Phase, Phases
  <2> QED
    BY <1>1, <2>1, <2>2, <2>3, <2>4 DEF ChipInv, InDriver, Phases
<1>6. CASE ReportPhase
  <2>1. /\ chip' = [chip EXCEPT !.cmd = "none", !.int = Phase, !.quiet = TRUE]
        /\ bus # NULL /\ chip.int = "none" /\ Phase \in Phases /\ ~Expected /\ ~chip.quiet
        /\ UNCHANGED <<bus, tg>>
    BY <1>6, PhaseType DEF ReportPhase
  <2>2. chip'.cmd = "none" /\ chip'.int = Phase /\ chip'.ack = chip.ack /\ chip'.atn = chip.atn
        /\ chip'.quiet
    BY <1>1, <2>1 DEF IsChip
  <2>3. Phase' = Phase
    BY <2>1, <2>2 DEF Phase
  <2>4. ~chip.ack
    BY <2>1 DEF Phase, Phases
  <2>5. pc = "message" => FALSE
    BY <1>1, <2>1 DEF ChipInv, Expected, Phases
  <2>6. pc = "status" => Phase = "MESS_IN"
    BY <1>1, <2>1, <2>4 DEF ChipInv, Expected, Phases
  <2> QED
    BY <1>1, <2>1, <2>2, <2>3, <2>4, <2>5, <2>6 DEF ChipInv, InDriver, Phases
<1>7. \A ph \in Phases : Ready(ph) =>
        /\ bus # NULL /\ chip.int = "none" /\ ~chip.ack /\ Phase = ph
        /\ chip.cmd \in {"info", "level2"} /\ (chip.cmd = "info" => chip.xph = ph)
        /\ pc # "handle" /\ (pc = "status" => ph = "STATUS") /\ (pc = "message" => ph = "MESS_IN")
        /\ pc \notin {"idle", "execute"} => chip.cmd = "info"
  BY <1>1 DEF Ready, Expected, DataGoesOn, Phase, ChipInv, InDriver, Phases
<1>8. CASE TakeCommand
  <2>1. /\ Ready("COMMAND")
        /\ \/ chip' = [chip EXCEPT !.phs = \h30] /\ chip.cmd = "level2"
           \/ chip' = [chip EXCEPT !.cmd = "none", !.count = 0]
    BY <1>8 DEF TakeCommand
  <2>2. chip'.int = "none" /\ ~chip'.ack /\ (chip'.cmd = "info" => FALSE)
        /\ (chip'.cmd # "none" => chip.cmd = "level2")
    BY <1>1, <1>7, <2>1 DEF IsChip, Phases
  <2>3. pc \notin {"handle", "status", "message"}
    BY <1>7, <2>1 DEF Phases
  <2> QED
    BY <1>1, <1>7, <2>1, <2>2, <2>3 DEF ChipInv, InDriver, Phases
<1>9. CASE TakeMessages
  <2>1. /\ Ready("MESS_OUT")
        /\ \/ chip' = [chip EXCEPT !.cmd = "none", !.count = 1]
           \/ chip' = [chip EXCEPT !.cmd = "none", !.count = 0, !.atn = FALSE, !.out = <<>>]
    BY <1>9 DEF TakeMessages
  <2>2. chip'.int = "none" /\ ~chip'.ack /\ chip'.cmd = "none"
    BY <1>1, <1>7, <2>1 DEF IsChip, Phases
  <2>3. pc \notin {"handle", "status", "message"}
    BY <1>7, <2>1 DEF Phases
  <2> QED
    BY <1>1, <2>2, <2>3 DEF ChipInv, InDriver, Phases
<1>10. CASE TakeStatus
  <2>1. /\ Ready("STATUS") /\ UNCHANGED bus
        /\ \/ chip' = [chip EXCEPT !.phs = \h50, !.lun = tg[bus].st] /\ chip.cmd = "level2"
           \/ chip' = [chip EXCEPT !.cmd = "none", !.byte = tg[bus].st]
        /\ tg' = [tg EXCEPT ![bus].ph = "complete", ![bus].msgs = COMMAND_COMPLETE]
    BY <1>10 DEF TakeStatus
  <2>2. chip'.int = "none" /\ ~chip'.ack /\ chip'.cmd \in {"none", "level2"}
        /\ (chip'.cmd # "none" => chip.cmd = "level2")
    BY <1>1, <1>7, <2>1 DEF IsChip, Phases
  <2>3. pc \notin {"handle", "message"}
    BY <1>7, <2>1 DEF Phases
  <2>4. bus \in Nexus /\ bus # NULL
    BY <1>1, <1>7, <2>1 DEF Phases
  <2>5. tg'[bus].msgs = COMMAND_COMPLETE
    BY <1>1, <1>2, <2>1, <2>4 DEF IsUnit
  <2>6. Phase' = "MESS_IN"
    <3>1. COMMAND_COMPLETE # <<>>
      BY DEF COMMAND_COMPLETE
    <3> QED
      BY <2>1, <2>2, <2>4, <2>5, <3>1 DEF Phase
  <2>7. pc \notin {"idle", "execute"} => chip'.cmd = "none"
    BY <1>7, <2>1, <2>2 DEF Phases
  <2> QED
    BY <1>1, <2>2, <2>3, <2>6, <2>7 DEF ChipInv, InDriver, Phases
<1>11. CASE TakeByte
  <2> DEFINE b == Head(tg[bus].msgs)
  <2>1. /\ Ready("MESS_IN") /\ chip.cmd = "info" /\ UNCHANGED bus
        /\ chip' = [chip EXCEPT !.cmd = "none", !.int = "MSGIN", !.ack = TRUE, !.byte = b]
    BY <1>11 DEF TakeByte
  <2> HIDE DEF b
  <2>2. chip'.int = "MSGIN" /\ chip'.ack /\ chip'.cmd = "none"
    BY <1>1, <2>1 DEF IsChip, Phases
  <2>3. pc = "message" /\ bus # NULL
    BY <1>1, <1>7, <2>1 DEF Phases, ChipInv
  <2> QED
    BY <1>1, <2>1, <2>2, <2>3 DEF ChipInv, InDriver, Phases
<1>12. CASE Level2Message
  <2>1. /\ Ready("MESS_IN") /\ chip.cmd = "level2"
        /\ \/ chip' = [chip EXCEPT !.cmd = "none", !.int = "SEL_XFER_DONE", !.phs = \h60]
           \/ chip' = [chip EXCEPT !.cmd = "none", !.int = "DISC", !.phs = \h43]
           \/ /\ chip' = [chip EXCEPT !.cmd = "none", !.int = "SDP", !.phs = \h41, !.ack = TRUE]
              /\ bus' = bus
    BY <1>12 DEF Level2Message
  <2>2. /\ chip'.cmd = "none"
        /\ \/ chip'.int \in {"SEL_XFER_DONE", "DISC"} /\ ~chip'.ack
           \/ chip'.int = "SDP" /\ chip'.ack /\ bus' = bus
    BY <1>1, <1>7, <2>1 DEF IsChip, Phases
  <2>3. pc \in {"idle", "execute"} /\ bus # NULL
    BY <1>1, <1>7, <2>1 DEF Phases, ChipInv, InDriver
  <2> QED
    BY <1>1, <2>2, <2>3 DEF ChipInv, InDriver, Phases
<1>13. CASE ReleaseBus \/ Drop
  <2>1. /\ bus # NULL /\ chip.int = "none" /\ ~chip.ack /\ tg[bus].msgs = <<>>
        /\ tg[bus].ph \in {"away", "complete", "exec", "data"}
        /\ \/ chip' = [chip EXCEPT !.cmd = "none", !.int = "DISC"]
              /\ tg[bus].ph \in {"away", "complete"}
           \/ chip' = [chip EXCEPT !.cmd = "none", !.int = "UNEXP_DISC"]
    BY <1>13 DEF ReleaseBus, Drop
  <2>2. chip'.cmd = "none" /\ chip'.int \in {"DISC", "UNEXP_DISC"} /\ ~chip'.ack
        /\ (chip'.int = "DISC" => tg[bus].ph \in {"away", "complete"})
    BY <1>1, <2>1 DEF IsChip
  <2>3. Phase \in {"none", "DATA_IN", "DATA_OUT", "MESS_OUT"}
    BY <2>1 DEF Phase
  <2>4. pc \notin {"status", "message"}
    BY <1>1, <2>1, <2>3 DEF ChipInv, Phases
  <2>5. pc = "handle" => sr.csr \notin {"SDP", "RESEL_AM", "COMMAND", "STATUS", "MESS_IN"}
    BY <1>1, <2>1, <2>3 DEF ChipInv, Phases
  <2> QED
    BY <1>1, <2>1, <2>2, <2>4, <2>5 DEF ChipInv, InDriver, Phases
<1>14. CASE TargetSteps
  <2>1. /\ bus # NULL /\ tg[bus].msgs = <<>> /\ ~chip.ack /\ ~chip.atn /\ UNCHANGED <<chip, bus>>
        /\ \/ tg[bus].ph = "exec"
           \/ tg[bus].ph = "command" /\ chip.int = "none" /\ ~chip.quiet /\ chip.cmd # "info"
    BY <1>14 DEF TargetSteps, StartData, GiveStatus, StartDisconnect, Quirk, Free
  <2>2. \/ Phase = "none"
        \/ Phase = "COMMAND" /\ chip.int = "none" /\ ~chip.quiet /\ chip.cmd # "info"
    BY <2>1 DEF Phase
  <2>3. pc \notin {"status", "message"} /\ chip.int \notin Phases
    BY <1>1, <2>1, <2>2 DEF ChipInv, Phases
  <2>4. pc = "handle" /\ sr.csr \in Phases => chip.int # "none"
    BY <1>1, <2>1, <2>2 DEF ChipInv, Phases
  <2> QED
    BY <1>1, <2>1, <2>3, <2>4 DEF ChipInv, InDriver
<1> QED
  BY <1>3, <1>4, <1>5, <1>6, <1>8, <1>9, <1>10, <1>11, <1>12, <1>13, <1>14 DEF BusSteps, ChipSteps

(* Every step keeps what is said of the chip.                              *)
LEMMA ChipKept ==
  ASSUME Base, [Next]_vars
  PROVE  ChipInv'
<1>1. /\ ChipInv /\ IsChip(chip)
  BY RecordDomains DEF Base, Types, BusTypes
<1>2. UNCHANGED setup
  BY DEF Next, vars
<1>3. CASE UNCHANGED vars
  BY <1>1, <1>3 DEF ChipInv, InDriver, Phase, vars, driverVars, busVars
<1>4. CASE \E c \in Cmds : Queue(c) \/ TimesOut(c) \/ Abort(c)
  <2>1. UNCHANGED <<chip, bus, tg>> /\ pc = "idle" /\ pc' \in {"idle", "execute"}
    BY <1>4 DEF Queue, QueueCommand, TimesOut, Abort, busVars
  <2> QED
    BY <1>1, <2>1, ChipLeft
<1>5. CASE Execute
  <2>1. UNCHANGED <<bus, tg>> /\ pc = "execute" /\ pc' = "idle"
    BY <1>5 DEF Execute, targetVars
  <2>2. CASE CannotStart
    BY <1>1, <1>5, <2>1, <2>2, ChipLeft DEF Execute
  <2>3. CASE ~CannotStart
    BY <1>5, <2>1, <2>3, StartChip DEF Execute
  <2> QED
    BY <2>2, <2>3
<1>6. CASE Interrupt
  <2>1. /\ pc = "idle" /\ chip.int # "none" /\ sr'.csr = chip.int /\ pc' = "handle"
        /\ chip' = [chip EXCEPT !.int = "none"] /\ UNCHANGED <<bus, tg>>
    BY <1>6 DEF Interrupt, targetVars
  <2>2. /\ chip'.cmd = chip.cmd /\ chip'.int = "none" /\ chip'.ack = chip.ack
        /\ chip'.atn = chip.atn /\ chip'.quiet = chip.quiet
    BY <1>1, <2>1 DEF IsChip
  <2>3. Phase' = Phase
    BY <2>1, <2>2 DEF Phase
  <2> QED
    BY <1>1, <2>1, <2>2, <2>3 DEF ChipInv, InDriver, Phases
<1>7. CASE HostReset
  BY <1>7, ChipTold DEF HostReset, ChipReset
<1>8. CASE WriteInfo
  <2>1. UNCHANGED <<chip, bus, tg, pc, sr>>
    BY <1>8 DEF WriteInfo, busVars
  <2> QED
    BY <1>1, <2>1 DEF ChipInv, InDriver, Phase
<1>9. CASE DataSteps
  <2>1. PICK k \in 1..chip.count : DmaMoves(k) \/ PioMoves(k)
    BY <1>9 DEF DataSteps
  <2>2. /\ UNCHANGED <<pc, sr, bus>> /\ (Ready("DATA_IN") \/ Ready("DATA_OUT"))
        /\ chip' = [chip EXCEPT !.count = @ - k,
                      !.phs = IF chip.cmd = "level2" THEN \h46 ELSE @,
                      !.cmd = IF chip.cmd = "info" /\ k = chip.count THEN "none" ELSE @]
    BY <2>1 DEF DmaMoves, PioMoves, MoveData, driverVars
  <2>3. /\ bus # NULL /\ chip.int = "none" /\ ~chip.ack /\ chip.cmd \in {"info", "level2"}
        /\ chip.cmd = "info" => chip.xph \in {"DATA_IN", "DATA_OUT"}
        /\ Phase \in {"DATA_IN", "DATA_OUT"}
    BY <2>2 DEF Ready, Expected, DataGoesOn, Phase
  <2>4. /\ chip'.int = "none" /\ chip'.ack = chip.ack /\ chip'.xph = chip.xph
        /\ chip'.cmd \in {chip.cmd, "none"}
    BY <1>1, <2>2, <2>3 DEF IsChip
  <2> QED
    BY <1>1, <2>2, <2>3, <2>4 DEF ChipInv, InDriver, Phases
<1> QED
  BY <1>2, <1>3, <1>4, <1>5, <1>6, <1>7, <1>8, <1>9, HandleChip, PollChip, AbortChip, BusChip
     DEF Next

-------------------------------------------------------------------------------
(* 2.  The books.                                                          *)

(* The driver understands a reselection: it knows the command that comes   *)
(* back, and no other is connected that would be forgotten.                *)
Known ==
  pc = "handle" /\ sr.csr = "RESEL_AM" =>
    Reconnecting # 0 /\ (hd.level2 <= L2_NONE => hd.connected = NULL)

(* What may become of a command that the driver leaves where it is: the    *)
(* mid-layer gives it up, or is told that it cannot be aborted, or, if the *)
(* driver does not have it, that it has been.                              *)
Waited(x) ==
  /\ req'[x].st = "queued" => req[x].st = "queued"
  /\ req'[x].st \in {"free", "done"} => req[x].st \in {"free", "done"} \/ x \notin Held
NotWaited(x) == req'[x].st # "queued"

(* The books are of commands.                                              *)
LEMMA OfCommands ==
  ASSUME Types
  PROVE  /\ Queued \subseteq Cmds /\ Away \subseteq Cmds /\ Started \subseteq Cmds
         /\ NULL \notin Cmds /\ NULL \notin Queued \cup Away
<1>1. /\ hd.input_Q \in Seq(Cmds) /\ hd.disconnected_Q \in Seq(Cmds)
      /\ hd.selecting \in Cmds \cup {NULL} /\ hd.connected \in Cmds \cup {NULL}
  BY HostFieldTypes DEF Types, HostTypes
<1>2. \A q \in Seq(Cmds) : ToSet(q) \subseteq Cmds
  BY DEF ToSet
<1> QED
  BY <1>1, <1>2, AttrTypes DEF Queued, Away, Started

(* Steps that leave the queues and the connections alone.                  *)
LEMMA BooksLeft ==
  ASSUME Books, \A x \in Cmds : Waited(x),
         hd'.input_Q = hd.input_Q, hd'.disconnected_Q = hd.disconnected_Q,
         hd'.selecting = hd.selecting, hd'.connected = hd.connected, hd'.busy = hd.busy
  PROVE  Books'
<1>1. Queued' = Queued /\ Away' = Away /\ Started' = Started /\ Held' = Held
  BY DEF Queued, Away, Started, Held
<1>2. OneCommandPerUnit'
  BY <1>1 DEF Books, OneCommandPerUnit
<1>3. WaitedFor'
  BY <1>1 DEF Books, WaitedFor, Waited
<1> QED
  BY <1>1, <1>2, <1>3 DEF Books

(* The end of a command that was selected or connected.                    *)
LEMMA BooksEnd ==
  ASSUME Types, Books, NEW c \in Cmds, \A x \in Cmds : x # c => Waited(x), NotWaited(c),
         hd'.input_Q = hd.input_Q, hd'.disconnected_Q = hd.disconnected_Q,
         hd'.busy = hd.busy \ {NexusOf(c)},
         \/ hd.connected = c /\ hd'.connected = NULL /\ hd'.selecting = hd.selecting
         \/ hd.selecting = c /\ hd'.selecting = NULL /\ hd'.connected = hd.connected
  PROVE  Books' /\ Held' = Held \ {c}
<1>1. c # NULL
  BY AttrTypes
<1>2. Queued' = Queued /\ Away' = Away
  BY DEF Queued, Away
<1>3. Started' = Started \ {c} /\ c \in Started /\ c \notin Queued
  BY <1>1, <1>2 DEF Started, Books
<1>4. Held' = Held \ {c}
  BY <1>2, <1>3 DEF Held
<1>5. OneCommandPerUnit'
  BY <1>3 DEF Books, OneCommandPerUnit
<1>6. WaitedFor'
  BY <1>4 DEF Books, WaitedFor, Waited, NotWaited
<1>7. /\ hd'.selecting \notin Queued' \cup Away' /\ hd'.connected \notin Queued' \cup Away'
      /\ hd'.selecting # NULL => hd'.selecting # hd'.connected
  BY <1>1, <1>2, OfCommands DEF Books
<1> QED
  BY <1>2, <1>4, <1>5, <1>6, <1>7 DEF Books

(* A command that is queued, and waits its turn.                           *)
LEMMA BooksQueue ==
  ASSUME Types, Books, NEW c \in Cmds, \A x \in Cmds : x # c => Waited(x),
         c \notin Held, req'[c].st \notin {"free", "done"},
         hd'.input_Q = <<c>> \o hd.input_Q \/ hd'.input_Q = Append(hd.input_Q, c),
         hd'.disconnected_Q = hd.disconnected_Q, hd'.busy = hd.busy,
         hd'.selecting = hd.selecting, hd'.connected = hd.connected
  PROVE  Books'
<1>1. hd.input_Q \in Seq(Cmds) /\ Distinct(hd.input_Q) /\ c \notin ToSet(hd.input_Q)
  BY HostFieldTypes DEF Types, HostTypes, Books, Held, Queued
<1>2. Distinct(hd'.input_Q) /\ Queued' = Queued \cup {c}
  BY <1>1, Put DEF Queued
<1>3. /\ Away' = Away /\ Started' = Started /\ Held' = Held \cup {c}
      /\ c \notin Away
  BY <1>2, OfCommands DEF Away, Started, Held
<1>4. c # NULL
  BY AttrTypes
<1>5. OneCommandPerUnit'
  BY <1>3 DEF Books, OneCommandPerUnit
<1>6. WaitedFor'
  BY <1>3 DEF Books, WaitedFor, Waited
<1>7. c # hd.selecting /\ c # hd.connected
  BY <1>4 DEF Held, Started
<1> QED
  BY <1>2, <1>3, <1>5, <1>6, <1>7 DEF Books

(* A command that is taken out of input_Q, to be selected.                 *)
LEMMA BooksStart ==
  ASSUME Types, Books, \A x \in Cmds : Waited(x), ~CannotStart,
         NEW c, c = hd.input_Q[Runnable],
         hd'.input_Q = RemoveAt(hd.input_Q, Runnable),
         hd'.disconnected_Q = hd.disconnected_Q, hd'.busy = hd.busy \cup {NexusOf(c)},
         \/ hd'.selecting = c /\ hd'.connected = NULL
         \/ hd'.selecting = NULL /\ hd'.connected = c
  PROVE  Books' /\ Held' = Held /\ c \in Queued
<1>1. /\ hd.input_Q \in Seq(Cmds) /\ Distinct(hd.input_Q)
      /\ hd.selecting = NULL /\ hd.connected = NULL /\ Runnable # 0
  BY HostFieldTypes DEF Types, HostTypes, Books, CannotStart
<1>2. Runnable \in DOMAIN hd.input_Q /\ c \in Cmds /\ NexusOf(c) \notin hd.busy
  BY <1>1, Found DEF Runnable
<1>3. /\ Distinct(hd'.input_Q) /\ Queued' = Queued \ {c} /\ c \in Queued
  BY <1>1, <1>2, Taken DEF Queued
<1>4. c # NULL /\ NULL \notin Away
  BY <1>2, OfCommands
<1>5. /\ Away' = Away /\ Started' = Started \cup {c} /\ Held' = Held /\ c \notin Away
  BY <1>1, <1>3, <1>4 DEF Away, Started, Held, Books
<1>6. OneCommandPerUnit'
  BY <1>2, <1>5 DEF Books, OneCommandPerUnit
<1>7. WaitedFor'
  BY <1>5 DEF Books, WaitedFor, Waited
<1>8. NULL \notin Queued \cup Away
  BY OfCommands
<1> QED
  BY <1>3, <1>4, <1>5, <1>6, <1>7, <1>8 DEF Books

(* A command whose selection is answered.                                  *)
LEMMA BooksSelect ==
  ASSUME Types, Books, \A x \in Cmds : Waited(x), hd.connected = NULL,
         hd'.input_Q = hd.input_Q, hd'.disconnected_Q = hd.disconnected_Q,
         hd'.selecting = NULL, hd'.connected = hd.selecting, hd'.busy = hd.busy
  PROVE  Books'
<1>1. Queued' = Queued /\ Away' = Away /\ Started' = Started /\ Held' = Held
  BY DEF Queued, Away, Started, Held
<1>2. OneCommandPerUnit'
  BY <1>1 DEF Books, OneCommandPerUnit
<1>3. WaitedFor'
  BY <1>1 DEF Books, WaitedFor, Waited
<1> QED
  BY <1>1, <1>2, <1>3, OfCommands DEF Books

(* One that disconnects.                                                   *)
LEMMA BooksDisconnect ==
  ASSUME Types, Books, \A x \in Cmds : Waited(x), hd.connected # NULL,
         hd'.input_Q = hd.input_Q, hd'.disconnected_Q = <<hd.connected>> \o hd.disconnected_Q,
         hd'.selecting = hd.selecting, hd'.connected = NULL, hd'.busy = hd.busy
  PROVE  Books'
<1> DEFINE c == hd.connected
<1>1. /\ hd.disconnected_Q \in Seq(Cmds) /\ Distinct(hd.disconnected_Q)
      /\ c \in Cmds /\ c \notin Away /\ c \notin Queued
  BY HostFieldTypes DEF Types, HostTypes, Books
<1>2. Distinct(hd'.disconnected_Q) /\ Away' = Away \cup {c}
  BY <1>1, Put DEF Away
<1>3. Queued' = Queued /\ Started' = Started /\ Held' = Held
  BY <1>1, <1>2 DEF Queued, Started, Held
<1>4. OneCommandPerUnit'
  BY <1>3 DEF Books, OneCommandPerUnit
<1>5. WaitedFor'
  BY <1>3 DEF Books, WaitedFor, Waited
<1>6. NULL \notin Queued' \cup Away'
  BY <1>1, <1>2, <1>3, OfCommands
<1> QED
  BY <1>1, <1>2, <1>3, <1>4, <1>5, <1>6 DEF Books

(* One that reselects, and the one it beats, if any.                       *)
LEMMA BooksReselect ==
  ASSUME Types, Books, \A x \in Cmds : Waited(x),
         NEW i \in DOMAIN hd.disconnected_Q,
         hd'.disconnected_Q = RemoveAt(hd.disconnected_Q, i),
         hd'.connected = hd.disconnected_Q[i],
         \/ /\ hd.connected = NULL /\ hd'.selecting = hd.selecting
            /\ hd'.input_Q = hd.input_Q /\ hd'.busy = hd.busy
         \/ \E l \in Cmds :
              /\ hd'.input_Q = <<l>> \o hd.input_Q /\ hd'.busy = hd.busy \ {NexusOf(l)}
              /\ \/ hd.connected = NULL /\ hd.selecting = l /\ hd'.selecting = NULL
                 \/ hd.connected = l /\ hd'.selecting = hd.selecting
  PROVE  Books' /\ Held' = Held
<1> DEFINE c == hd.disconnected_Q[i]
<1>1. /\ hd.disconnected_Q \in Seq(Cmds) /\ Distinct(hd.disconnected_Q)
      /\ hd.input_Q \in Seq(Cmds) /\ Distinct(hd.input_Q)
  BY HostFieldTypes DEF Types, HostTypes, Books
<1>2. /\ Distinct(hd'.disconnected_Q) /\ Away' = Away \ {c} /\ c \in Away /\ c \in Cmds
  BY <1>1, Taken DEF Away
<1>3. c # NULL /\ c \notin Queued /\ c # hd.selecting /\ c # hd.connected /\ NULL \notin Queued \cup Away
  BY <1>2, OfCommands DEF Books
<1>4. CASE /\ hd.connected = NULL /\ hd'.selecting = hd.selecting
           /\ hd'.input_Q = hd.input_Q /\ hd'.busy = hd.busy
  <2>1. Queued' = Queued /\ Started' = Started /\ Held' = Held
    BY <1>2, <1>3, <1>4 DEF Queued, Started, Held
  <2>2. OneCommandPerUnit'
    BY <1>4, <2>1 DEF Books, OneCommandPerUnit
  <2>3. WaitedFor'
    BY <2>1 DEF Books, WaitedFor, Waited
  <2> QED
    BY <1>2, <1>3, <1>4, <2>1, <2>2, <2>3 DEF Books
<1>5. ASSUME NEW l \in Cmds,
             hd'.input_Q = <<l>> \o hd.input_Q, hd'.busy = hd.busy \ {NexusOf(l)},
             \/ hd.connected = NULL /\ hd.selecting = l /\ hd'.selecting = NULL
             \/ hd.connected = l /\ hd'.selecting = hd.selecting
      PROVE  Books' /\ Held' = Held
  <2>1. l # NULL /\ l \notin Queued /\ l \notin Away
    BY <1>5, AttrTypes DEF Books
  <2>2. Distinct(hd'.input_Q) /\ Queued' = Queued \cup {l}
    BY <1>1, <1>5, <2>1, Put DEF Queued
  <2>3. Started' = Started \ {l} /\ l \in Started /\ Held' = Held
    BY <1>2, <1>3, <1>5, <2>1, <2>2 DEF Started, Held, Books
  <2>4. OneCommandPerUnit'
    BY <1>5, <2>3 DEF Books, OneCommandPerUnit
  <2>5. WaitedFor'
    BY <2>3 DEF Books, WaitedFor, Waited
  <2> QED
    BY <1>2, <1>3, <1>5, <2>1, <2>2, <2>3, <2>4, <2>5 DEF Books
<1> QED
  BY <1>4, <1>5

(* One taken out of input_Q by an abort.                                   *)
LEMMA BooksAbort ==
  ASSUME Types, Books, NEW i \in DOMAIN hd.input_Q,
         NEW c, c = hd.input_Q[i], \A x \in Cmds : x # c => Waited(x), NotWaited(c),
         hd'.input_Q = RemoveAt(hd.input_Q, i),
         hd'.disconnected_Q = hd.disconnected_Q, hd'.busy = hd.busy,
         hd'.selecting = hd.selecting, hd'.connected = hd.connected
  PROVE  Books' /\ Held' = Held \ {c}
<1>1. hd.input_Q \in Seq(Cmds) /\ Distinct(hd.input_Q)
  BY HostFieldTypes DEF Types, HostTypes, Books
<1>2. /\ Distinct(hd'.input_Q) /\ Queued' = Queued \ {c} /\ c \in Queued /\ c \in Cmds
  BY <1>1, Taken DEF Queued
<1>3. c \notin Started
  BY <1>2 DEF Books, Started
<1>4. /\ Away' = Away /\ Started' = Started /\ Held' = Held \ {c}
  BY <1>2, <1>3 DEF Away, Started, Held
<1>5. OneCommandPerUnit'
  BY <1>4 DEF Books, OneCommandPerUnit
<1>6. WaitedFor'
  BY <1>4 DEF Books, WaitedFor, Waited, NotWaited
<1> QED
  BY <1>2, <1>4, <1>5, <1>6 DEF Books

(* What the driver and an abort tell the mid-layer.                        *)
LEMMA Told ==
  ASSUME Types
  PROVE  /\ UNCHANGED req => \A x \in Cmds : Waited(x)
         /\ \A c \in Cmds : \A res : ScsiDone(c, res) =>
              NotWaited(c) /\ \A x \in Cmds : x # c => Waited(x)
         /\ AbortInv /\ eh.at # "none" =>
              \A ok : AbortReturns(ok) =>
                /\ \A x \in Cmds : x # eh.cmd => Waited(x)
                /\ NotWaited(eh.cmd)
                /\ ~ok \/ eh.cmd \notin Held => Waited(eh.cmd)
<1>1. req \in [Cmds -> Requests] /\ \A x \in Cmds : req[x] = [st |-> req[x].st, res |-> req[x].res]
  BY DEF Types, Requests
<1>2. ASSUME NEW c \in Cmds, NEW res, ScsiDone(c, res)
      PROVE  NotWaited(c) /\ \A x \in Cmds : x # c => Waited(x)
  <2>1. \A x \in Cmds : x # c => req'[x] = req[x]
    BY <1>1, <1>2 DEF ScsiDone
  <2>2. req'[c].st # "queued"
    BY <1>1, <1>2 DEF ScsiDone
  <2> QED
    BY <2>1, <2>2 DEF Waited, NotWaited
<1>3. ASSUME AbortInv, eh.at # "none", NEW ok, AbortReturns(ok)
      PROVE  /\ \A x \in Cmds : x # eh.cmd => Waited(x)
             /\ NotWaited(eh.cmd)
             /\ ~ok \/ eh.cmd \notin Held => Waited(eh.cmd)
  <2>1. eh.cmd \in Cmds
    BY <1>3 DEF AbortInv
  <2>2. \A x \in Cmds : x # eh.cmd => req'[x] = req[x]
    BY <1>1, <1>3 DEF AbortReturns
  <2>3. req'[eh.cmd].st = IF ok THEN "done" ELSE "failed"
    BY <1>1, <1>3, <2>1 DEF AbortReturns
  <2> QED
    BY <2>2, <2>3 DEF Waited, NotWaited
<1> QED
  BY <1>2, <1>3 DEF Waited

(* dma_setup writes of no queue.                                           *)
LEMMA SetupFields ==
  ASSUME NEW h, IsHost(h), NEW via
  PROVE  LET d == DmaSetup(h, via) IN
         /\ IsHost(d) /\ d.input_Q = h.input_Q /\ d.disconnected_Q = h.disconnected_Q
         /\ d.busy = h.busy /\ d.selecting = h.selecting /\ d.connected = h.connected
         /\ d.state = h.state /\ d.outgoing_msg = h.outgoing_msg
         /\ d.dma = IF via = "fail" THEN h.dma ELSE "D_DMA_RUNNING"
<1> DEFINE b == CASE via = "direct" -> h.bounce [] via = "bounce" -> TRUE [] OTHER -> FALSE
           r == IF via = "fail" THEN h.dma ELSE "D_DMA_RUNNING"
<1>1. DmaSetup(h, via) = [h EXCEPT !.bounce = b, !.dma = r]
  BY DEF DmaSetup
<1> HIDE DEF b, r
<1>2. IsHost([h EXCEPT !.bounce = b, !.dma = r]) /\ [h EXCEPT !.bounce = b, !.dma = r].dma = r
  BY DEF IsHost
<1> QED
  BY <1>1, <1>2 DEF IsHost, r

(* A command started from input_Q.                                         *)
LEMMA StartBooks ==
  ASSUME Types, Books, \A x \in Cmds : Waited(x), ~CannotStart, Start
  PROVE  Books' /\ Held' = Held
<1> DEFINE c == hd.input_Q[Runnable]
           rest == RemoveAt(hd.input_Q, Runnable)
           h == [hd EXCEPT !.input_Q = rest, !.busy = @ \cup {NexusOf(c)}]
<1>1. IsHost(hd)
  BY RecordDomains DEF Types, HostTypes
<1>2. hd.selecting = NULL /\ hd.connected = NULL
  BY DEF CannotStart
<1>3. PICK ch : StartSelect(c, h, ch) \/ StartLevel2(c, h, ch)
  BY DEF Start
<1> HIDE DEF c, rest
<1>4. CASE StartSelect(c, h, ch)
  <2>1. /\ hd'.input_Q = rest /\ hd'.busy = hd.busy \cup {NexusOf(c)}
        /\ hd'.disconnected_Q = hd.disconnected_Q /\ hd'.selecting = c /\ hd'.connected = NULL
    BY <1>1, <1>2, <1>4 DEF StartSelect, IsHost
  <2> QED
    BY <2>1, BooksStart DEF c, rest
<1>5. CASE StartLevel2(c, h, ch)
  <2>1. /\ hd'.input_Q = rest /\ hd'.busy = hd.busy \cup {NexusOf(c)}
        /\ hd'.disconnected_Q = hd.disconnected_Q /\ hd'.selecting = NULL /\ hd'.connected = c
    <3> DEFINE ready == [h EXCEPT !.connected = c, !.state = "S_RUNNING_LEVEL2"]
    <3>1. /\ IsHost(ready) /\ ready.input_Q = rest /\ ready.busy = hd.busy \cup {NexusOf(c)}
          /\ ready.disconnected_Q = hd.disconnected_Q /\ ready.selecting = NULL
          /\ ready.connected = c
      BY <1>1, <1>2 DEF IsHost
    <3>2. hd' = ready \/ \E via : hd' = DmaSetup(ready, via)
      BY <1>5 DEF StartLevel2
    <3> HIDE DEF ready
    <3> QED
      BY <3>1, <3>2, SetupFields
  <2> QED
    BY <2>1, BooksStart DEF c, rest
<1> QED
  BY <1>3, <1>4, <1>5

(* The handler of an interrupt keeps the books.                            *)
LEMMA HandleBooks ==
  ASSUME Base, Known, HandleInterrupt
  PROVE  Books'
<1>1. /\ Types /\ Books /\ IsHost(hd) /\ pc = "handle"
      /\ hd.selecting \in Cmds \cup {NULL} /\ hd.connected \in Cmds \cup {NULL}
  BY RecordDomains, HostFieldTypes
     DEF Base, Types, HostTypes, HandleInterrupt, OnTimeout, OnSelect, OnData, OnCommand,
         OnMessageOut, OnStatus, OnMessageIn, OnSelXferDone, OnUnexpDisc, AlreadyDisconnected,
         OnDisc, OnSdp, OnReselect, OnStrayReselect, CommandCase, Case
<1> DEFINE Same == /\ hd'.input_Q = hd.input_Q /\ hd'.disconnected_Q = hd.disconnected_Q
                   /\ hd'.selecting = hd.selecting /\ hd'.connected = hd.connected
                   /\ hd'.busy = hd.busy
<1>2. CASE OnTimeout
  <2> DEFINE c == IF hd.state = "S_RUNNING_LEVEL2" THEN hd.connected ELSE hd.selecting
             h == [hd EXCEPT !.busy = @ \ {NexusOf(c)}, !.state = "S_UNCONNECTED"]
  <2>1. c \in Cmds
    BY <1>1, <1>2 DEF OnTimeout, Case, Base, SelectInv, TimeoutTold, Pending
  <2>2. /\ ScsiDone(c, Result("DID_NO_CONNECT", GOOD))
        /\ hd' = IF hd.state = "S_RUNNING_LEVEL2" THEN [h EXCEPT !.connected = NULL]
                 ELSE [h EXCEPT !.selecting = NULL]
    BY <1>2 DEF OnTimeout
  <2> HIDE DEF c
  <2>3. /\ hd'.input_Q = hd.input_Q /\ hd'.disconnected_Q = hd.disconnected_Q
        /\ hd'.busy = hd.busy \ {NexusOf(c)}
        /\ \/ hd.connected = c /\ hd'.connected = NULL /\ hd'.selecting = hd.selecting
           \/ hd.selecting = c /\ hd'.selecting = NULL /\ hd'.connected = hd.connected
    BY <1>1, <2>2 DEF IsHost, c
  <2> QED
    BY <1>1, <2>1, <2>2, <2>3, Told, BooksEnd
<1>3. CASE OnSelect
  <2> DEFINE c == hd.selecting
             m == hd'.outgoing_msg
             s == hd'.sync_stat
  <2>1. /\ hd.connected = NULL /\ UNCHANGED req
        /\ hd'.input_Q = hd.input_Q /\ hd'.disconnected_Q = hd.disconnected_Q
        /\ hd'.selecting = NULL /\ hd'.connected = hd.selecting /\ hd'.busy = hd.busy
    BY <1>1, <1>3 DEF OnSelect, Case, Base, SelectInv, SelectTold, Pending, IsHost
  <2> QED
    BY <1>1, <2>1, Told, BooksSelect
<1>4. CASE OnData
  <2>1. UNCHANGED req
    BY <1>4 DEF OnData
  <2>2. hd' = Connected(hd) \/ (\E via : \/ hd' = [DmaSetup(hd, via) EXCEPT !.state = "S_RUNNING_LEVEL2"]
                                         \/ hd' = Connected(DmaSetup(hd, via)))
        \/ \E b : hd' = Connected([hd EXCEPT !.bounce = b])
    BY <1>4 DEF OnData, TransferNothing, TransferByDma, TransferByPio
  <2>3. ASSUME NEW h, IsHost(h), h.input_Q = hd.input_Q,
               h.disconnected_Q = hd.disconnected_Q, h.busy = hd.busy,
               h.selecting = hd.selecting, h.connected = hd.connected,
               \E st : hd' = [h EXCEPT !.state = st]
        PROVE  Same
    BY <2>3 DEF IsHost
  <2>4. \A h : \E st : Connected(h) = [h EXCEPT !.state = st]
    BY DEF Connected
  <2>5. \A b : LET h == [hd EXCEPT !.bounce = b] IN
               /\ IsHost(h) /\ h.input_Q = hd.input_Q /\ h.disconnected_Q = hd.disconnected_Q
               /\ h.busy = hd.busy /\ h.selecting = hd.selecting /\ h.connected = hd.connected
    BY <1>1 DEF IsHost
  <2> HIDE DEF Same
  <2>6. Same
    <3>1. CASE hd' = Connected(hd)
      BY <1>1, <2>3, <2>4, <3>1
    <3>2. ASSUME NEW b, hd' = Connected([hd EXCEPT !.bounce = b]) PROVE Same
      BY <2>3, <2>4, <2>5, <3>2
    <3>3. ASSUME NEW via, \/ hd' = [DmaSetup(hd, via) EXCEPT !.state = "S_RUNNING_LEVEL2"]
                          \/ hd' = Connected(DmaSetup(hd, via))
          PROVE Same
      <4>1. \E st : hd' = [DmaSetup(hd, via) EXCEPT !.state = st]
        BY <2>4, <3>3
      <4> DEFINE d == DmaSetup(hd, via)
      <4>2. /\ IsHost(d) /\ d.input_Q = hd.input_Q /\ d.disconnected_Q = hd.disconnected_Q
            /\ d.busy = hd.busy /\ d.selecting = hd.selecting /\ d.connected = hd.connected
        BY <1>1, SetupFields
      <4> HIDE DEF d
      <4> QED
        BY <2>3, <4>1, <4>2 DEF d
    <3> QED
      BY <2>2, <3>1, <3>2, <3>3
  <2> QED
    BY <1>1, <2>1, <2>6, Told, BooksLeft DEF Same
<1>5. CASE OnCommand \/ OnMessageOut \/ OnStatus \/ OnMessageIn \/ OnSdp \/ AlreadyDisconnected
  <2>1. UNCHANGED req /\ Same
    BY <1>1, <1>5 DEF OnCommand, OnMessageOut, OnStatus, OnMessageIn, OnSdp, AlreadyDisconnected,
                      IsHost
  <2> QED
    BY <1>1, <2>1, Told, BooksLeft
<1>6. CASE OnSelXferDone \/ OnUnexpDisc
  <2>1. /\ hd.connected \in Cmds /\ hd' = Unconnected(hd, hd.connected)
        /\ \E res : ScsiDone(hd.connected, res)
    BY <1>1, <1>6 DEF OnSelXferDone, OnUnexpDisc, CommandCase
  <2> QED
    BY <1>1, <2>1, Told, BooksEnd DEF Unconnected, IsHost
<1>7. CASE OnDisc
  <2> DEFINE c == hd.connected
             state == IF c = NULL THEN "S_UNCONNECTED" ELSE hd.state
  <2>1. CASE state = "S_PRE_CMP_DISC"
    <3>1. /\ hd.connected \in Cmds /\ hd' = Unconnected(hd, hd.connected)
          /\ \E res : ScsiDone(hd.connected, res)
      BY <1>1, <1>7, <2>1 DEF OnDisc
    <3> QED
      BY <1>1, <3>1, Told, BooksEnd DEF Unconnected, IsHost
  <2>2. CASE state \in {"S_PRE_TMP_DISC", "S_RUNNING_LEVEL2"}
    <3>1. /\ hd.connected # NULL /\ hd' = Disconnected(hd, hd.connected) /\ UNCHANGED req
      BY <1>1, <1>7, <2>2 DEF OnDisc
    <3> QED
      BY <1>1, <3>1, Told, BooksDisconnect DEF Disconnected, IsHost
  <2>3. CASE state \notin {"S_PRE_CMP_DISC", "S_PRE_TMP_DISC", "S_RUNNING_LEVEL2"}
    <3>1. hd' = [hd EXCEPT !.state = "S_UNCONNECTED"] /\ UNCHANGED req
      BY <1>7, <2>3 DEF OnDisc
    <3> QED
      BY <1>1, <3>1, Told, BooksLeft DEF IsHost
  <2> QED
    BY <2>1, <2>2, <2>3
<1>8. CASE OnReselect
  <2> DEFINE i == Reconnecting
             c == hd.disconnected_Q[i]
             h == PutBackLoser(hd)
  <2>1. /\ i \in DOMAIN hd.disconnected_Q
        /\ hd.level2 <= L2_NONE => hd.connected = NULL
    <3>1. Reconnecting # 0 /\ (hd.level2 <= L2_NONE => hd.connected = NULL)
      BY <1>8 DEF OnReselect, Case, Known
    <3>2. hd.disconnected_Q \in Seq(Cmds)
      BY <1>1, HostFieldTypes DEF Types, HostTypes
    <3> QED
      BY <3>1, <3>2, Found DEF Reconnecting
  <2>2. /\ UNCHANGED req
        /\ \E s : hd' = [h EXCEPT !.connected = c, !.disconnected_Q = RemoveAt(@, i), !.state = s]
    <3> DEFINE g == [h EXCEPT !.connected = c, !.disconnected_Q = RemoveAt(@, i)]
    <3>1. UNCHANGED req /\ hd' \in {[g EXCEPT !.state = "S_RUNNING_LEVEL2"],
                                    [g EXCEPT !.state = "S_CONNECTED"]}
      BY <1>8 DEF OnReselect
    <3> HIDE DEF h, c, i
    <3>2. \A s : [g EXCEPT !.state = s] =
            [h EXCEPT !.connected = c, !.disconnected_Q = RemoveAt(@, i), !.state = s]
      OBVIOUS
    <3> HIDE DEF g
    <3>3. PICK s : hd' = [g EXCEPT !.state = s]
      BY <3>1
    <3>4. hd' = [h EXCEPT !.connected = c, !.disconnected_Q = RemoveAt(@, i), !.state = s]
      BY <3>2, <3>3, Zenon
    <3> QED
      BY <3>1, <3>4, Zenon
  <2> HIDE DEF i, c
  <2>3. \/ /\ hd.connected = NULL /\ h = hd
        \/ \E l \in Cmds :
             /\ hd.connected = NULL /\ hd.selecting = l
             /\ h = Requeued([hd EXCEPT !.selecting = NULL], l)
        \/ \E l \in Cmds : hd.connected = l /\ h = Requeued(hd, l)
    BY <1>1, <2>1 DEF PutBackLoser
  <2> HIDE DEF h
  <2>4. CASE hd.connected = NULL /\ h = hd
    <3>1. /\ hd'.disconnected_Q = RemoveAt(hd.disconnected_Q, i) /\ hd'.connected = c
          /\ hd'.input_Q = hd.input_Q /\ hd'.busy = hd.busy /\ hd'.selecting = hd.selecting
      BY <1>1, <2>2, <2>4 DEF IsHost
    <3> QED
      BY <1>1, <2>1, <2>2, <2>4, <3>1, Told, BooksReselect DEF c
  <2>5. ASSUME NEW l \in Cmds,
               \/ /\ hd.connected = NULL /\ hd.selecting = l
                  /\ h = Requeued([hd EXCEPT !.selecting = NULL], l)
               \/ hd.connected = l /\ h = Requeued(hd, l)
        PROVE  Books'
    <3>1. /\ IsHost(h) /\ h.input_Q = <<l>> \o hd.input_Q /\ h.busy = hd.busy \ {NexusOf(l)}
          /\ h.disconnected_Q = hd.disconnected_Q
          /\ \/ hd.connected = NULL /\ hd.selecting = l /\ h.selecting = NULL
             \/ hd.connected = l /\ h.selecting = hd.selecting
      BY <1>1, <2>5 DEF Requeued, IsHost
    <3>2. /\ hd'.disconnected_Q = RemoveAt(hd.disconnected_Q, i) /\ hd'.connected = c
          /\ hd'.input_Q = <<l>> \o hd.input_Q /\ hd'.busy = hd.busy \ {NexusOf(l)}
          /\ hd'.selecting = h.selecting
      BY <2>2, <3>1 DEF IsHost
    <3> QED
      BY <1>1, <2>1, <2>2, <3>1, <3>2, Told, BooksReselect DEF c
  <2> QED
    BY <2>3, <2>4, <2>5
<1>9. ~OnStrayReselect
  BY DEF OnStrayReselect, Case, Known
<1> QED
  BY <1>2, <1>3, <1>4, <1>5, <1>6, <1>7, <1>8, <1>9 DEF HandleInterrupt

(* So does the reading of a byte, and an abort.                            *)
LEMMA PollBooks ==
  ASSUME Base, PollEnds
  PROVE  Books'
<1>1. /\ Types /\ Books /\ IsHost(hd)
  BY RecordDomains DEF Base, Types, HostTypes
<1> DEFINE Same == /\ hd'.input_Q = hd.input_Q /\ hd'.disconnected_Q = hd.disconnected_Q
                   /\ hd'.selecting = hd.selecting /\ hd'.connected = hd.connected
                   /\ hd'.busy = hd.busy
<1>2. CASE PioDone \/ SentDone
  BY <1>1, <1>2, Told, BooksLeft DEF PioDone, SentDone
<1>3. CASE StatusRead
  <2>1. UNCHANGED req /\ Same
    BY <1>1, <1>3 DEF StatusRead, IsHost
  <2> QED
    BY <1>1, <2>1, Told, BooksLeft
<1>4. CASE OnComplete \/ OnSave \/ OnDisconnect \/ OnRestore
  <2>1. UNCHANGED req /\ \E s : hd' = [hd EXCEPT !.state = s]
    BY <1>4 DEF OnComplete, OnSave, OnDisconnect, OnRestore, MessageRead, Accept
  <2>2. Same
    BY <1>1, <2>1 DEF IsHost
  <2> QED
    BY <1>1, <2>1, <2>2, Told, BooksLeft
<1>5. CASE OnReject
  <2>1. UNCHANGED req /\ Same
    BY <1>1, <1>5 DEF OnReject, MessageRead, IsHost
  <2> QED
    BY <1>1, <2>1, Told, BooksLeft
<1>6. CASE OnUnknown \/ OnWdtr \/ OnOtherExtended \/ OnExtendedByte
  <2>1. UNCHANGED req /\ Same
    BY <1>1, <1>6 DEF OnUnknown, OnWdtr, OnOtherExtended, OnExtendedByte, MessageRead, Answer, IsHost
  <2> QED
    BY <1>1, <2>1, Told, BooksLeft
<1>7. CASE OnSdtr
  <2> DEFINE id == Attr[hd.connected].id
             h  == [hd EXCEPT !.outgoing_msg = <<Sdtr(0)>>]
             Agree(k, m) == [k EXCEPT !.sync_xfer[id] = m, !.sync_stat[id] = "SS_SET",
                               !.incoming_msg = <<>>, !.state = "S_CONNECTED"]
  <2>1. UNCHANGED req /\ \E m : hd' = Agree(hd, m) \/ hd' = Agree(h, m)
    <3>1. CASE hd.sync_stat[id] = "SS_WAITING"
      <4>1. UNCHANGED req /\ \E m : hd' = Agree(hd, m)
        BY <1>7, <3>1, Zenon DEF OnSdtr, MessageRead
      <4> HIDE DEF Agree
      <4> QED
        BY <4>1
    <3>2. CASE hd.sync_stat[id] # "SS_WAITING"
      <4>1. hd' = Agree(h, "async") /\ UNCHANGED req
        BY <1>7, <3>2 DEF OnSdtr, MessageRead
      <4> HIDE DEF Agree
      <4> QED
        BY <4>1
    <3> HIDE DEF Agree
    <3> QED
      BY <3>1, <3>2
  <2>2. IsHost(h) /\ h.input_Q = hd.input_Q /\ h.disconnected_Q = hd.disconnected_Q
        /\ h.selecting = hd.selecting /\ h.connected = hd.connected /\ h.busy = hd.busy
    BY <1>1 DEF IsHost
  <2> HIDE DEF h, id
  <2>3. Same
    BY <1>1, <2>1, <2>2 DEF IsHost
  <2> QED
    BY <1>1, <2>1, <2>3, Told, BooksLeft
<1> QED
  BY <1>2, <1>3, <1>4, <1>5, <1>6, <1>7 DEF PollEnds

(* wd33c93_abort takes the command it aborts out of the one place that     *)
(* holds it.                                                               *)
LEMMA AbortBooks ==
  ASSUME Base, AbortSteps
  PROVE  Books'
<1>1. /\ Types /\ Books /\ IsHost(hd) /\ AbortInv /\ eh.at # "none" /\ eh.cmd \in Cmds
  BY RecordDomains DEF Base, Types, HostTypes, AbortInv, AbortSteps, AbortQueued,
     AbortConnected, AbortFlush, AbortFinish, AbortDisconnected, AbortUnknown, AbortChecks,
     AbortStarts, Aborting
<1>2. CASE AbortQueued
  <2> DEFINE i == First(hd.input_Q, {eh.cmd})
  <2>1. i \in DOMAIN hd.input_Q /\ hd.input_Q[i] = eh.cmd
    <3>1. hd.input_Q \in Seq(Cmds) /\ eh.cmd \in ToSet(hd.input_Q)
      BY <1>1, <1>2, HostFieldTypes DEF Types, HostTypes, AbortQueued
    <3> QED
      BY <3>1, Found DEF ToSet
  <2>2. /\ hd'.input_Q = RemoveAt(hd.input_Q, i)
        /\ hd'.disconnected_Q = hd.disconnected_Q /\ hd'.busy = hd.busy
        /\ hd'.selecting = hd.selecting /\ hd'.connected = hd.connected
    BY <1>1, <1>2 DEF AbortQueued, IsHost
  <2>3. AbortReturns(TRUE)
    BY <1>2 DEF AbortQueued
  <2> HIDE DEF i
  <2> QED
    BY <1>1, <2>1, <2>2, <2>3, Told, BooksAbort
<1>3. CASE AbortConnected \/ AbortFlush \/ AbortUnknown
  <2>1. UNCHANGED req /\ (UNCHANGED hd \/ hd' = DmaStop(hd, FALSE))
    BY <1>3 DEF AbortConnected, AbortFlush, AbortUnknown, AbortStopsDma
  <2>2. /\ hd'.input_Q = hd.input_Q /\ hd'.disconnected_Q = hd.disconnected_Q
        /\ hd'.selecting = hd.selecting /\ hd'.connected = hd.connected
        /\ hd'.busy = hd.busy
    BY <1>1, <2>1 DEF IsHost, DmaStop
  <2> QED
    BY <1>1, <2>1, <2>2, Told, BooksLeft
<1>4. CASE AbortFinish
  <2>1. hd.connected = eh.cmd /\ UNCHANGED req /\ req[eh.cmd].st = "aborting"
    BY <1>1, <1>4 DEF AbortFinish, Aborting, AbortInv
  <2>2. /\ hd'.input_Q = hd.input_Q /\ hd'.disconnected_Q = hd.disconnected_Q
        /\ hd'.selecting = hd.selecting /\ hd'.connected = NULL
        /\ hd'.busy = hd.busy \ {NexusOf(eh.cmd)}
    BY <1>1, <1>4 DEF AbortFinish, Unconnected, IsHost
  <2>3. NotWaited(eh.cmd) /\ \A x \in Cmds : Waited(x)
    BY <2>1 DEF NotWaited, Waited
  <2> QED
    BY <1>1, <2>1, <2>2, <2>3, BooksEnd
<1>5. CASE AbortDisconnected \/ (AbortChecks /\ CannotStart)
  <2>1. UNCHANGED hd /\ (AbortReturns(FALSE) \/ AbortReturns(eh.ok))
    BY <1>5 DEF AbortDisconnected, AbortChecks
  <2>2. \A x \in Cmds : Waited(x)
    <3>1. eh.ok => eh.cmd \notin Held
      BY <1>1 DEF AbortInv
    <3>2. CASE AbortReturns(FALSE)
      BY <1>1, <3>2, Told
    <3>3. CASE AbortReturns(eh.ok)
      BY <1>1, <3>1, <3>3, Told
    <3> QED
      BY <2>1, <3>2, <3>3
  <2> QED
    BY <1>1, <2>1, <2>2, BooksLeft
<1>6. CASE AbortChecks /\ ~CannotStart
  BY <1>1, <1>6, Told, BooksLeft DEF AbortChecks
<1>7. CASE AbortStarts
  <2>1. eh.ok => eh.cmd \notin Held
    BY <1>1 DEF AbortInv
  <2>2. Start /\ ~CannotStart /\ AbortReturns(eh.ok)
    BY <1>1, <1>7 DEF AbortStarts, Aborting, AbortInv, CannotStart
  <2>3. \A x \in Cmds : Waited(x)
    BY <1>1, <2>1, <2>2, Told
  <2> QED
    BY <1>1, <2>2, <2>3, StartBooks
<1> QED
  BY <1>2, <1>3, <1>4, <1>5, <1>6, <1>7 DEF AbortSteps

(* The settings of the command line are none of the books.                 *)
LEMMA WriteInfoLeaves ==
  ASSUME WriteInfo, IsHost(hd)
  PROVE  /\ hd'.input_Q = hd.input_Q /\ hd'.disconnected_Q = hd.disconnected_Q
         /\ hd'.selecting = hd.selecting /\ hd'.connected = hd.connected
         /\ hd'.busy = hd.busy /\ hd'.dma = hd.dma /\ hd'.state = hd.state
         /\ hd'.outgoing_msg = hd.outgoing_msg
<1> DEFINE Same(h) ==
      /\ h.input_Q = hd.input_Q /\ h.disconnected_Q = hd.disconnected_Q
      /\ h.selecting = hd.selecting /\ h.connected = hd.connected
      /\ h.busy = hd.busy /\ h.dma = hd.dma
      /\ h.state = hd.state /\ h.outgoing_msg = hd.outgoing_msg
<1>1. ASSUME NEW h, NEW ids, IsHost(h), Same(h)
      PROVE  Same(Resync(h, ids))
  <2> DEFINE f == [i \in Ids |-> IF i \in ids THEN "SS_UNSET" ELSE h.sync_stat[i]]
  <2>1. Resync(h, ids) = [h EXCEPT !.sync_stat = f]
    BY DEF Resync
  <2> HIDE DEF f
  <2> QED
    BY <1>1, <2>1 DEF IsHost
<1>2. \A n : LET h == [hd EXCEPT !.no_sync = n] IN IsHost(h) /\ Same(h)
  BY DEF IsHost
<1>3. \/ \E d : hd' = [hd EXCEPT !.disconnect = d]
      \/ \E d : hd' = [hd EXCEPT !.no_dma = d]
      \/ \E n, ids : hd' = Resync([hd EXCEPT !.no_sync = n], ids)
      \/ \E ids : hd' = Resync(hd, ids)
  BY DEF WriteInfo
<1>4. CASE \/ \E d : hd' = [hd EXCEPT !.disconnect = d]
           \/ \E d : hd' = [hd EXCEPT !.no_dma = d]
  BY <1>4 DEF IsHost
<1>5. Same(hd)
  OBVIOUS
<1> HIDE DEF Same
<1>6. ASSUME NEW ids, hd' = Resync(hd, ids)
      PROVE  Same(hd')
  BY <1>1, <1>5, <1>6
<1>7. ASSUME NEW n, NEW ids, hd' = Resync([hd EXCEPT !.no_sync = n], ids)
      PROVE  Same(hd')
  BY <1>1, <1>2, <1>7
<1> QED
  BY <1>3, <1>4, <1>6, <1>7 DEF Same

(* Every step keeps the books.                                             *)
LEMMA BooksKept ==
  ASSUME Base, Known, [Next]_vars
  PROVE  Books'
<1>1. /\ Types /\ Books /\ IsHost(hd) /\ (UNCHANGED req => \A x \in Cmds : Waited(x))
  BY RecordDomains, Told DEF Base, Types, HostTypes
<1>2. CASE UNCHANGED vars \/ BusSteps \/ DataSteps
  <2>1. UNCHANGED <<hd, req>>
    BY <1>2 DEF vars, driverVars, BusSteps, DataSteps, DmaMoves, PioMoves
  <2> QED
    BY <1>1, <2>1, BooksLeft
<1>3. ASSUME NEW c \in Cmds, Queue(c)
      PROVE  Books'
  <2>1. c \notin Held
    BY <1>1, <1>3 DEF Queue, QueueCommand, Books, WaitedFor
  <2>2. /\ hd'.input_Q = <<c>> \o hd.input_Q \/ hd'.input_Q = Append(hd.input_Q, c)
        /\ hd'.disconnected_Q = hd.disconnected_Q /\ hd'.busy = hd.busy
        /\ hd'.selecting = hd.selecting /\ hd'.connected = hd.connected
    BY <1>1, <1>3 DEF Queue, QueueCommand, IsHost
  <2>3. req'[c].st = "queued" /\ \A x \in Cmds : x # c => Waited(x)
    BY <1>1, <1>3 DEF Queue, QueueCommand, Types, Waited
  <2> QED
    BY <1>1, <2>1, <2>2, <2>3, BooksQueue
<1>4. ASSUME NEW c \in Cmds, TimesOut(c) \/ Abort(c)
      PROVE  Books'
  <2>1. UNCHANGED hd
    BY <1>4 DEF TimesOut, Abort
  <2>2. \A x \in Cmds : Waited(x)
    <3>1. CASE TimesOut(c)
      <4>1. req'[c].st = "aborting" /\ \A x \in Cmds : x # c => req'[x] = req[x]
        BY <1>1, <3>1 DEF TimesOut, Types, Requests
      <4> QED
        BY <4>1 DEF Waited
    <3>2. CASE Abort(c)
      BY <1>1, <3>2 DEF Abort
    <3> QED
      BY <1>4, <3>1, <3>2
  <2> QED
    BY <1>1, <2>1, <2>2, BooksLeft
<1>5. CASE Execute
  BY <1>1, <1>5, BooksLeft, StartBooks DEF Execute
<1>6. CASE Interrupt \/ WriteInfo
  <2>1. UNCHANGED req
    BY <1>6 DEF Interrupt, WriteInfo
  <2>2. /\ hd'.input_Q = hd.input_Q /\ hd'.disconnected_Q = hd.disconnected_Q
        /\ hd'.selecting = hd.selecting /\ hd'.connected = hd.connected
        /\ hd'.busy = hd.busy
    <3>1. CASE Interrupt
      BY <1>1, <3>1 DEF Interrupt, DmaStop, IsHost
    <3>2. CASE WriteInfo
      BY <1>1, <3>2, WriteInfoLeaves
    <3> QED
      BY <1>6, <3>1, <3>2
  <2> QED
    BY <1>1, <2>1, <2>2, BooksLeft
<1>7. CASE HostReset
  <2>1. /\ hd'.input_Q = <<>> /\ hd'.disconnected_Q = <<>> /\ hd'.busy = {}
        /\ hd'.selecting = NULL /\ hd'.connected = NULL
    BY <1>1, <1>7 DEF HostReset, Forgotten, IsHost
  <2>2. Queued' = {} /\ Away' = {} /\ Started' = {} /\ Held' = {}
    BY <2>1 DEF Queued, Away, Started, Held, ToSet
  <2>3. \A x \in Cmds : req'[x].st # "queued"
    BY <1>7 DEF HostReset
  <2>4. OneCommandPerUnit' /\ WaitedFor'
    BY <2>1, <2>2, <2>3 DEF OneCommandPerUnit, WaitedFor
  <2>5. Distinct(hd'.input_Q) /\ Distinct(hd'.disconnected_Q)
    BY <2>1 DEF Distinct
  <2> QED
    BY <2>1, <2>2, <2>4, <2>5 DEF Books
<1> QED
  BY <1>2, <1>3, <1>4, <1>5, <1>6, <1>7, HandleBooks, PollBooks, AbortBooks DEF Next

-------------------------------------------------------------------------------
(* 3.  The aborts, the selections and the DMA.                             *)

(* On the bus nothing begins a command of the chip, and the registers that *)
(* say what to select are left alone until it is selected.                 *)
LEMMA ChipGoesOn ==
  ASSUME Base, BusSteps \/ DataSteps
  PROVE  chip'.cmd \in {chip.cmd, "none"} /\ chip'.id = chip.id /\ chip'.xph = chip.xph
         /\ (chip'.lun = chip.lun \/ bus' # NULL)
<1>1. IsChip(chip)
  BY RecordDomains DEF Base, Types, BusTypes
<1>2. CASE DataSteps
  <2>1. PICK k : MoveData(k)
    BY <1>2 DEF DataSteps, DmaMoves, PioMoves
  <2> DEFINE f == IF chip.cmd = "level2" THEN \h46 ELSE chip.phs
             d == IF chip.cmd = "info" /\ k = chip.count THEN "none" ELSE chip.cmd
  <2>2. /\ chip' = [chip EXCEPT !.count = chip.count - k, !.phs = f, !.cmd = d]
        /\ d \in {chip.cmd, "none"} /\ bus' = bus
    BY <2>1 DEF MoveData
  <2> HIDE DEF f, d
  <2> QED
    BY <1>1, <2>2 DEF IsChip
<1>3. CASE TargetSteps
  BY <1>3 DEF TargetSteps, StartData, GiveStatus, StartDisconnect, Quirk
<1>4. CASE ReportPhase \/ SelectionTimeout \/ Drop \/ \E n \in Nexus : Reselect(n)
  BY <1>1, <1>4 DEF ReportPhase, SelectionTimeout, Drop, Reselect, IsChip
<1>5. CASE Selected \/ TakeCommand
  BY <1>1, <1>5 DEF Selected, TakeCommand, Ready, IsChip
<1>9. CASE TakeMessages
  <2>1. \/ chip' = [chip EXCEPT !.cmd = "none", !.count = 1]
        \/ chip' = [chip EXCEPT !.cmd = "none", !.count = 0, !.atn = FALSE, !.out = <<>>]
    BY <1>9 DEF TakeMessages
  <2> QED
    BY <1>1, <2>1 DEF IsChip
<1>6. CASE TakeStatus \/ TakeByte \/ ReleaseBus
  BY <1>1, <1>6 DEF TakeStatus, TakeByte, ReleaseBus, Ready, IsChip
<1>7. CASE Level2Message
  BY <1>1, <1>7, ZenonT(40) DEF Level2Message, IsChip
<1> QED
  BY <1>2, <1>3, <1>4, <1>5, <1>6, <1>7, <1>9 DEF BusSteps, ChipSteps

(* A step without an abort under way, which begins none.                   *)
LEMMA NoAbort ==
  ASSUME eh'.at = "none", ~eh'.ok
  PROVE  AbortInv'
BY DEF AbortInv

(* While wd33c93_abort runs, the command stays where the abort found it,   *)
(* whatever the chip and the targets do meanwhile.                         *)
LEMMA AbortKept ==
  ASSUME Base, [Next]_vars
  PROVE  AbortInv'
<1>1. /\ Types /\ Books /\ AbortInv /\ IsHost(hd) /\ IsChip(chip) /\ eh \in AbortStates
      /\ req \in [Cmds -> Requests]
  BY RecordDomains DEF Base, Types, HostTypes, BusTypes
<1>2. eh.at = "none" => ~eh.ok
  BY <1>1 DEF AbortInv
<1>3. ASSUME NEW c \in Cmds, Queue(c)
      PROVE  AbortInv'
  BY <1>2, <1>3, NoAbort DEF Queue, QueueCommand
<1>4. ASSUME NEW c \in Cmds, TimesOut(c)
      PROVE  AbortInv'
  <2>1. /\ req'[c].st = "aborting" /\ \A x \in Cmds : x # c => req'[x] = req[x]
        /\ UNCHANGED <<hd, pc, eh, chip>>
    BY <1>1, <1>4 DEF TimesOut, busVars, Requests
  <2>2. Held' = Held
    BY <2>1 DEF Held, Queued, Started, Away
  <2> QED
    BY <1>1, <2>1, <2>2 DEF AbortInv
<1>5. ASSUME NEW c \in Cmds, Abort(c)
      PROVE  AbortInv'
  BY <1>1, <1>5 DEF Abort, AbortInv
<1>6. CASE Execute \/ Interrupt \/ HandleInterrupt \/ PollEnds \/ HostReset
  <2>1. eh.at = "none" /\ UNCHANGED eh
    <3>1. CASE Execute
      BY <1>1, <3>1 DEF Execute, AbortInv
    <3>2. CASE Interrupt \/ HostReset
      BY <3>2 DEF Interrupt, HostReset
    <3>3. CASE HandleInterrupt
      BY <1>1, <3>3 DEF AbortInv, HandleInterrupt, OnTimeout, OnSelect, OnData, OnCommand,
         OnMessageOut, OnStatus, OnMessageIn, OnSelXferDone, OnUnexpDisc,
         AlreadyDisconnected, OnDisc, OnSdp, OnReselect, OnStrayReselect, CommandCase, Case,
         Rest
    <3>4. CASE PollEnds
      <4>1. CASE PioDone \/ SentDone \/ StatusRead
        BY <1>1, <4>1 DEF AbortInv, PioDone, SentDone, StatusRead, Rest
      <4>2. CASE ~(PioDone \/ SentDone \/ StatusRead)
        <5>1. CASE OnComplete \/ OnSave \/ OnDisconnect \/ OnRestore \/ OnReject
          BY <1>1, <5>1 DEF OnComplete, OnSave, OnDisconnect, OnRestore, OnReject, MessageRead,
             Rest, AbortInv
        <5>2. CASE OnUnknown \/ OnExtendedByte \/ OnWdtr \/ OnOtherExtended
          BY <1>1, <5>2 DEF OnUnknown, OnExtendedByte, OnWdtr, OnOtherExtended, MessageRead,
             Rest, AbortInv
        <5>3. CASE OnSdtr
          <6>1. pc = "message" /\ UNCHANGED Rest
            BY <5>3, Zenon DEF OnSdtr, MessageRead
          <6> QED
            BY <1>1, <6>1 DEF Rest, AbortInv
        <5> QED
          BY <3>4, <4>2, <5>1, <5>2, <5>3 DEF PollEnds
      <4> QED
        BY <4>1, <4>2
    <3> QED
      BY <1>6, <3>1, <3>2, <3>3, <3>4
  <2> QED
    BY <1>2, <2>1, NoAbort
<1>7. CASE UNCHANGED vars \/ BusSteps \/ DataSteps \/ WriteInfo
  <2>1. UNCHANGED <<pc, req, eh>> /\ chip'.cmd \in {chip.cmd, "none"}
    BY <1>1, <1>7, ChipGoesOn DEF vars, driverVars, busVars, BusSteps, DataSteps, DmaMoves,
       PioMoves, WriteInfo
  <2>2. /\ hd'.input_Q = hd.input_Q /\ hd'.disconnected_Q = hd.disconnected_Q
        /\ hd'.selecting = hd.selecting /\ hd'.connected = hd.connected /\ hd'.dma = hd.dma
    <3>1. CASE WriteInfo
      BY <1>1, <3>1, WriteInfoLeaves
    <3>2. CASE ~WriteInfo
      BY <1>7, <3>2 DEF vars, driverVars, BusSteps, DataSteps, DmaMoves, PioMoves
    <3> QED
      BY <3>1, <3>2
  <2>3. Held' = Held
    BY <2>2 DEF Held, Queued, Started, Away
  <2> QED
    BY <1>1, <2>1, <2>2, <2>3 DEF AbortInv
<1>8. CASE AbortSteps
  <2>1. CASE AbortQueued \/ AbortDisconnected \/ AbortStarts
    BY <2>1, NoAbort DEF AbortQueued, AbortDisconnected, AbortStarts, AbortReturns, NotAborting
  <2>2. CASE AbortConnected
    <3>1. /\ eh.at = "find" /\ eh' = [eh EXCEPT !.at = "flush"] /\ UNCHANGED <<pc, req>>
          /\ hd.connected = eh.cmd
      BY <2>2 DEF AbortConnected, Aborting
    <3>2. hd'.connected = hd.connected /\ hd'.dma = "D_DMA_OFF"
      BY <1>1, <2>2, HostFieldTypes, ZenonT(40)
         DEF AbortConnected, AbortStopsDma, DmaStop, IsHost, Types, HostTypes
    <3>3. eh'.at = "flush" /\ eh'.cmd = eh.cmd /\ eh'.ok = eh.ok
      BY <1>1, <3>1 DEF AbortStates
    <3> QED
      BY <1>1, <3>1, <3>2, <3>3 DEF AbortInv
  <2>3. CASE AbortFlush
    <3>1. /\ eh.at = "flush" /\ eh' = [eh EXCEPT !.at = "finish"] /\ UNCHANGED <<pc, req, hd>>
          /\ chip'.cmd = "none"
      BY <1>1, <2>3 DEF AbortFlush, Aborting, IsChip
    <3>2. eh'.at = "finish" /\ eh'.cmd = eh.cmd /\ eh'.ok = eh.ok
      BY <1>1, <3>1 DEF AbortStates
    <3> QED
      BY <1>1, <3>1, <3>2 DEF AbortInv
  <2>4. CASE AbortFinish
    <3>1. /\ eh.at = "finish" /\ eh' = [eh EXCEPT !.at = "check", !.ok = TRUE]
          /\ UNCHANGED <<pc, req>> /\ hd' = Unconnected(hd, eh.cmd)
      BY <2>4 DEF AbortFinish, Aborting
    <3>2. eh'.at = "check" /\ eh'.cmd = eh.cmd /\ eh'.ok
      BY <1>1, <3>1 DEF AbortStates
    <3>3. eh.cmd \in Cmds /\ hd.connected = eh.cmd /\ pc = "idle" /\ req[eh.cmd].st = "aborting"
      BY <1>1, <3>1 DEF AbortInv
    <3>4. Held' = Held \ {eh.cmd}
      <4>1. /\ hd'.input_Q = hd.input_Q /\ hd'.disconnected_Q = hd.disconnected_Q
            /\ hd'.selecting = hd.selecting /\ hd'.connected = NULL
            /\ hd'.busy = hd.busy \ {NexusOf(eh.cmd)}
        BY <1>1, <3>1 DEF Unconnected, IsHost
      <4>2. NotWaited(eh.cmd) /\ \A x \in Cmds : Waited(x)
        BY <3>1, <3>3 DEF NotWaited, Waited
      <4> QED
        BY <1>1, <3>3, <4>1, <4>2, BooksEnd
    <3> QED
      BY <3>1, <3>2, <3>3, <3>4 DEF AbortInv
  <2>5. CASE AbortUnknown
    <3>1. /\ eh.at = "find" /\ eh' = [eh EXCEPT !.at = "check"] /\ UNCHANGED <<pc, req, hd, chip>>
      BY <2>5 DEF AbortUnknown, Aborting, busVars
    <3>2. eh'.at = "check" /\ eh'.cmd = eh.cmd /\ eh'.ok = eh.ok
      BY <1>1, <3>1 DEF AbortStates
    <3> QED
      BY <1>1, <3>1, <3>2 DEF AbortInv
  <2>6. CASE AbortChecks
    <3>1. CASE CannotStart
      BY <2>6, <3>1, NoAbort DEF AbortChecks, AbortReturns, NotAborting
    <3>2. CASE ~CannotStart
      <4>1. /\ eh.at = "check" /\ eh' = [eh EXCEPT !.at = "start"] /\ UNCHANGED <<pc, req, hd, chip>>
        BY <2>6, <3>2 DEF AbortChecks, Aborting, busVars
      <4>2. eh'.at = "start" /\ eh'.cmd = eh.cmd /\ eh'.ok = eh.ok
        BY <1>1, <4>1 DEF AbortStates
      <4>3. Held' = Held
        BY <4>1 DEF Held, Queued, Started, Away
      <4> QED
        BY <1>1, <3>2, <4>1, <4>2, <4>3 DEF AbortInv, CannotStart
    <3> QED
      BY <3>1, <3>2
  <2> QED
    BY <1>8, <2>1, <2>2, <2>3, <2>4, <2>5, <2>6 DEF AbortSteps
<1> QED
  BY <1>3, <1>4, <1>5, <1>6, <1>7, <1>8 DEF Next

(* What is begun when a command is started: its selection, or a level-2    *)
(* command, perhaps with the DMA at work for it already.                   *)
LEMMA StartEffect ==
  ASSUME Types, Start, ~CannotStart
  PROVE  \E c \in Cmds :
           /\ hd'.outgoing_msg = hd.outgoing_msg
           /\ chip'.atn = chip.atn /\ chip'.int = chip.int
           /\ chip'.id = Attr[c].id /\ chip'.lun = Attr[c].lun
           /\ \/ /\ hd'.selecting = c /\ hd'.connected = NULL /\ hd'.state = "S_SELECTING"
                 /\ hd'.dma = hd.dma /\ engine' = engine
                 /\ chip.int = "none" => chip'.cmd = "select"
              \/ /\ hd'.selecting = NULL /\ hd'.connected = c
                 /\ hd'.state = "S_RUNNING_LEVEL2"
                 /\ chip.int = "none" => chip'.cmd = "level2"
                 /\ \/ hd'.dma = hd.dma /\ (engine' = engine \/ engine'.cmd = NULL)
                    \/ /\ hd'.dma = "D_DMA_RUNNING" /\ engine'.cmd = c
                       /\ chip'.count = scp'[c].left
<1> DEFINE c    == hd.input_Q[Runnable]
           rest == RemoveAt(hd.input_Q, Runnable)
           er   == AllowDisconnect(c, rest)
           h    == [hd EXCEPT !.input_Q = rest, !.busy = @ \cup {NexusOf(c)}]
           ch   == [chip EXCEPT !.id = Attr[c].id, !.lun = Attr[c].lun, !.dpd = Attr[c].in,
                                !.er = er, !.sync = hd.sync_xfer[Attr[c].id]]
           ready == [h EXCEPT !.connected = c, !.state = "S_RUNNING_LEVEL2"]
           k    == [NoCount(ch) EXCEPT !.cdb = c]
           m    == [ch EXCEPT !.count = scp[c].left, !.cdb = c, !.polled = FALSE]
<1>1. /\ IsHost(hd) /\ IsChip(chip) /\ hd.input_Q \in Seq(Cmds)
      /\ hd.selecting = NULL /\ hd.connected = NULL /\ Runnable # 0
  BY RecordDomains, HostFieldTypes DEF Types, HostTypes, BusTypes, CannotStart
<1>2. c \in Cmds
  BY <1>1, Found DEF Runnable
<1>3. StartSelect(c, h, ch) \/ StartLevel2(c, h, ch)
  BY DEF Start
<1>4. scp'[c].left = scp[c].left
  <2>1. scp[c] \in Pointers
    BY <1>2 DEF Types, HostTypes, PointersOk
  <2>2. scp' = [x \in Cmds |->
          IF x = c THEN [scp[x] EXCEPT !.phase = er]
          ELSE [scp[x] EXCEPT !.phase =
                  @ \/ (x \in ToSet(rest) /\ MakesOthersDisconnectable(c, rest))]]
    BY DEF Start
  <2> HIDE DEF c, er
  <2>3. scp'[c] = [scp[c] EXCEPT !.phase = er]
    BY <1>2, <2>2
  <2> QED
    BY <2>1, <2>3 DEF Pointers
<1> HIDE DEF c, rest, er
<1> DEFINE On(d) == /\ IsChip(d) /\ d.int = chip.int /\ d.atn = chip.atn
                    /\ d.id = Attr[c].id /\ d.lun = Attr[c].lun
<1>5. On(ch) /\ On(NoCount(ch)) /\ On(k) /\ On(m) /\ m.count = scp[c].left
  BY <1>1 DEF IsChip, NoCount
<1>6. \A d : On(d) => /\ On(SelAtn(d)) /\ On(SelAtnXfer(d, 0))
                      /\ SelAtnXfer(d, 0).count = d.count
                      /\ chip.int = "none" => /\ SelAtn(d).cmd = "select"
                                              /\ SelAtnXfer(d, 0).cmd = "level2"
  BY DEF SelAtn, SelAtnXfer, Issue, IsChip
<1>7. /\ IsHost(h) /\ h.selecting = NULL /\ h.connected = NULL /\ h.dma = hd.dma
      /\ h.outgoing_msg = hd.outgoing_msg
  BY <1>1 DEF IsHost
<1>8. /\ IsHost(ready) /\ ready.selecting = NULL /\ ready.connected = c
      /\ ready.state = "S_RUNNING_LEVEL2" /\ ready.dma = hd.dma
      /\ ready.outgoing_msg = hd.outgoing_msg
  BY <1>1 DEF IsHost
<1> HIDE DEF ch, k, m, h
<1>9. CASE StartSelect(c, h, ch)
  <2>1. /\ hd'.selecting = c /\ hd'.connected = NULL /\ hd'.state = "S_SELECTING"
        /\ hd'.dma = hd.dma /\ hd'.outgoing_msg = hd.outgoing_msg
    BY <1>7, <1>9 DEF StartSelect, IsHost
  <2>2. chip' = SelAtn(NoCount(ch)) /\ engine' = engine
    BY <1>9 DEF StartSelect
  <2>3. On(chip') /\ (chip.int = "none" => chip'.cmd = "select")
    <3> HIDE DEF On
    <3> QED
      BY <1>5, <1>6, <2>2
  <2> QED
    BY <1>2, <2>1, <2>2, <2>3
<1>10. CASE StartLevel2(c, h, ch)
  <2> HIDE DEF ready
  <2>1. \/ hd' = ready /\ chip' = SelAtnXfer(k, 0) /\ engine' = engine
        \/ \E via : /\ hd' = DmaSetup(ready, via) /\ engine' = EngineFor(c, scp[c].ptr, via)
                    /\ chip' = SelAtnXfer(IF via = "fail" THEN k ELSE m, 0)
    BY <1>10 DEF StartLevel2, ready, k, m
  <2>2. On(chip') /\ (chip.int = "none" => chip'.cmd = "level2")
    <3> HIDE DEF On
    <3> QED
      BY <1>5, <1>6, <2>1
  <2>3. CASE hd' = ready /\ engine' = engine
    BY <1>2, <1>8, <2>2, <2>3
  <2>4. ASSUME NEW via, hd' = DmaSetup(ready, via), engine' = EngineFor(c, scp[c].ptr, via),
               chip' = SelAtnXfer(IF via = "fail" THEN k ELSE m, 0)
        PROVE  /\ hd'.selecting = NULL /\ hd'.connected = c /\ hd'.state = "S_RUNNING_LEVEL2"
               /\ hd'.outgoing_msg = hd.outgoing_msg
               /\ \/ hd'.dma = hd.dma /\ engine'.cmd = NULL
                  \/ /\ hd'.dma = "D_DMA_RUNNING" /\ engine'.cmd = c
                     /\ chip'.count = scp'[c].left
    <3>1. /\ hd'.selecting = NULL /\ hd'.connected = c /\ hd'.state = "S_RUNNING_LEVEL2"
          /\ hd'.outgoing_msg = hd.outgoing_msg
          /\ hd'.dma = IF via = "fail" THEN hd.dma ELSE "D_DMA_RUNNING"
      BY <1>8, <2>4, SetupFields
    <3>2. via # "fail" => chip'.count = scp[c].left
      <4> HIDE DEF On
      <4> QED
        BY <1>5, <1>6, <2>4
    <3> QED
      BY <1>4, <2>4, <3>1, <3>2 DEF EngineFor, EngineOff
  <2> QED
    BY <1>2, <2>1, <2>2, <2>3, <2>4
<1> QED
  BY <1>3, <1>9, <1>10

(* On the bus a transfer only gets shorter, but for one of messages.       *)
LEMMA CountGoesOn ==
  ASSUME Base, BusSteps \/ DataSteps
  PROVE  chip'.count <= chip.count \/ chip'.count = 0 \/ pc = "sent"
<1>1. IsChip(chip) /\ chip.count \in Nat
  BY RecordDomains DEF Base, Types, BusTypes, Chips
<1>2. CASE DataSteps
  <2>1. PICK k \in 1..chip.count : MoveData(k)
    BY <1>2 DEF DataSteps, DmaMoves, PioMoves
  <2> DEFINE f == IF chip.cmd = "level2" THEN \h46 ELSE chip.phs
             d == IF chip.cmd = "info" /\ k = chip.count THEN "none" ELSE chip.cmd
  <2>2. chip' = [chip EXCEPT !.count = chip.count - k, !.phs = f, !.cmd = d]
    BY <2>1 DEF MoveData
  <2> HIDE DEF f, d
  <2>3. chip'.count = chip.count - k
    BY <1>1, <2>2 DEF IsChip
  <2> QED
    BY <1>1, <2>3
<1>3. CASE TargetSteps
  BY <1>1, <1>3 DEF TargetSteps, StartData, GiveStatus, StartDisconnect, Quirk
<1>4. CASE TakeMessages
  BY <1>4 DEF TakeMessages, Ready, Expected, DataGoesOn, Base, SelectInv, IdentifySent
<1>5. CASE ~(DataSteps \/ TargetSteps \/ TakeMessages)
  <2>1. chip'.count \in {chip.count, 0}
    <3>1. CASE ReportPhase \/ SelectionTimeout \/ Drop \/ \E n \in Nexus : Reselect(n)
      BY <1>1, <3>1 DEF ReportPhase, SelectionTimeout, Drop, Reselect, IsChip
    <3>2. CASE Selected \/ TakeCommand
      BY <1>1, <3>2 DEF Selected, TakeCommand, Ready, IsChip
    <3>3. CASE TakeStatus \/ TakeByte \/ ReleaseBus
      BY <1>1, <3>3 DEF TakeStatus, TakeByte, ReleaseBus, Ready, IsChip
    <3>4. CASE Level2Message
      BY <1>1, <3>4 DEF Level2Message, IsChip
    <3> QED
      BY <1>5, <3>1, <3>2, <3>3, <3>4 DEF BusSteps, ChipSteps
  <2> QED
    BY <1>1, <2>1
<1> QED
  BY <1>2, <1>3, <1>4, <1>5

(* dma_stop is the end of the DMA, and of nothing else in the books.       *)
LEMMA StopFields ==
  ASSUME IsHost(hd), NEW status
  PROVE  LET d == DmaStop(hd, status) IN
         /\ d.dma = "D_DMA_OFF" /\ d.selecting = hd.selecting /\ d.connected = hd.connected
         /\ d.state = hd.state /\ d.outgoing_msg = hd.outgoing_msg
<1> DEFINE b == hd.bounce /\ ~status
<1>1. DmaStop(hd, status) = [hd EXCEPT !.dma = "D_DMA_OFF", !.bounce = b]
  BY DEF DmaStop
<1> HIDE DEF b
<1> QED
  BY <1>1 DEF IsHost

(* The DMA off, and no loop begun.                                         *)
LEMMA NoDma ==
  ASSUME hd'.dma = "D_DMA_OFF", engine'.cmd = NULL, pc' # "pio",
         pc' \in {"status", "message"} => hd'.connected # NULL
  PROVE  DmaInv'
BY DEF DmaInv

(* A step of the driver that leaves the DMA and its command alone.         *)
LEMMA DmaLeft ==
  ASSUME DmaInv, ~InDriver, ~InDriver',
         hd'.dma = hd.dma, hd'.connected = hd.connected, engine' = engine,
         chip'.count = chip.count,
         hd.connected # NULL => scp'[hd.connected].left = scp[hd.connected].left
  PROVE  DmaInv'
BY DEF DmaInv, InDriver

(* A case of wd33c93_intr stops the DMA of the connected command before it *)
(* lets the command go, and starts one only for the connected command.     *)
LEMMA HandleDma ==
  ASSUME Base, HandleInterrupt
  PROVE  DmaInv'
<1>1. /\ IsHost(hd) /\ IsChip(chip) /\ pc = "handle"
      /\ hd.dma = "D_DMA_OFF" /\ engine.cmd = NULL
  <2>1. pc = "handle"
    BY DEF HandleInterrupt, OnTimeout, OnSelect, OnData, OnCommand,
         OnMessageOut, OnStatus, OnMessageIn, OnSelXferDone, OnUnexpDisc,
         AlreadyDisconnected, OnDisc, OnSdp, OnReselect, OnStrayReselect, CommandCase, Case
  <2> QED
    BY <2>1, Handling, RecordDomains DEF Base, Types, HostTypes, BusTypes
<1>2. CASE OnTimeout \/ OnSelXferDone \/ OnUnexpDisc \/ AlreadyDisconnected
  BY <1>1, <1>2, NoDma DEF OnTimeout, OnSelXferDone, OnUnexpDisc, AlreadyDisconnected,
     Unconnected, Restart, IsHost
<1>3. CASE OnSelect
  BY <1>1, <1>3, NoDma DEF OnSelect, IsHost
<1>4. CASE OnCommand \/ OnMessageOut \/ OnSdp
  BY <1>1, <1>4, NoDma DEF OnCommand, OnMessageOut, OnSdp, IsHost
<1>5. CASE OnStatus \/ OnMessageIn
  BY <1>1, <1>5, NoDma DEF OnStatus, OnMessageIn, CommandCase, ReadByte
<1>6. CASE OnDisc
  <2>1. /\ engine' = engine /\ pc' = "execute"
        /\ \/ hd' = Unconnected(hd, hd.connected) \/ hd' = Disconnected(hd, hd.connected)
           \/ hd' = [hd EXCEPT !.state = "S_UNCONNECTED"]
    BY <1>6 DEF OnDisc, Restart
  <2>2. hd'.dma = hd.dma
    BY <1>1, <2>1 DEF Unconnected, Disconnected, IsHost
  <2> QED
    BY <1>1, <2>1, <2>2, NoDma
<1>7. CASE OnReselect \/ OnStrayReselect
  <2> DEFINE h == PutBackLoser(hd)
             g == [h EXCEPT !.connected = hd.disconnected_Q[Reconnecting],
                            !.disconnected_Q = RemoveAt(@, Reconnecting)]
  <2>1. /\ engine' = engine /\ pc' = "idle"
        /\ hd' \in {h, [g EXCEPT !.state = "S_RUNNING_LEVEL2"],
                    [g EXCEPT !.state = "S_CONNECTED"]}
    BY <1>7 DEF OnReselect, OnStrayReselect
  <2>2. IsHost(h) /\ h.dma = hd.dma
    BY <1>1 DEF PutBackLoser, Requeued, IsHost
  <2> HIDE DEF h
  <2>3. IsHost(g) /\ g.dma = hd.dma
    BY <2>2 DEF IsHost
  <2> HIDE DEF g
  <2>4. hd'.dma = hd.dma
    BY <2>1, <2>2, <2>3 DEF IsHost
  <2> QED
    BY <1>1, <2>1, <2>4, NoDma
<1>8. CASE OnData
  <2> DEFINE c == hd.connected
             s == NextBuffer(c)
  <2>1. /\ c # NULL /\ scp' = [scp EXCEPT ![c] = s]
        /\ \/ TransferNothing
           \/ s.left > 0 /\ \E via \in DmaWays \ {"fail"} : TransferByDma(c, s, via)
           \/ s.left > 0 /\ TransferByPio(c, s)
    BY <1>8 DEF OnData, CommandCase
  <2>2. c \in Cmds /\ scp'[c] = s /\ s.left \in Nat
    <3>1. c \in Cmds /\ scp \in [Cmds -> Pointers] /\ s \in Pointers
      BY <2>1, HostFieldTypes, PointerUpdates DEF Base, Types, HostTypes, PointersOk
    <3> HIDE DEF s, c
    <3> QED
      BY <2>1, <3>1 DEF Pointers
  <2> HIDE DEF c, s
  <2>3. CASE TransferNothing
    <3>1. engine' = engine /\ pc' = "idle" /\ \E st : hd' = [hd EXCEPT !.state = st]
      BY <2>3 DEF TransferNothing, Connected
    <3> QED
      BY <1>1, <3>1, NoDma DEF IsHost
  <2>4. ASSUME NEW via \in DmaWays \ {"fail"}, TransferByDma(c, s, via)
        PROVE  DmaInv'
    <3> DEFINE ch == [chip EXCEPT !.sync = hd.sync_xfer[Attr[c].id], !.polled = FALSE,
                                  !.count = s.left]
               h  == DmaSetup(hd, via)
    <3>1. /\ engine' = EngineFor(c, s.ptr, via) /\ pc' = "idle"
          /\ chip' \in {SelAtnXfer(ch, \h45), TransInfo(ch)}
          /\ \E st : hd' = [h EXCEPT !.state = st]
      BY <2>4 DEF TransferByDma, Connected
    <3>2. IsChip(ch) /\ ch.count = s.left
      BY <1>1 DEF IsChip
    <3>3. IsHost(h) /\ h.connected = c /\ h.dma = "D_DMA_RUNNING"
      BY <1>1, <2>4, SetupFields DEF c
    <3> HIDE DEF ch, h
    <3>4. chip'.count = s.left
      BY <3>1, <3>2 DEF SelAtnXfer, TransInfo, Issue, IsChip
    <3>5. hd'.connected = c /\ hd'.dma = "D_DMA_RUNNING"
      BY <3>1, <3>3 DEF IsHost
    <3>6. engine'.cmd = c
      BY <2>4, <3>1 DEF EngineFor
    <3> QED
      BY <2>1, <2>2, <3>1, <3>4, <3>5, <3>6 DEF DmaInv, InDriver
  <2>5. CASE TransferByPio(c, s)
    <3> DEFINE ch == [chip EXCEPT !.sync = hd.sync_xfer[Attr[c].id], !.polled = TRUE,
                                  !.count = s.left]
               b == hd.bounce /\ hd.no_dma
               h == [hd EXCEPT !.bounce = b]
    <3>1. /\ engine' = engine /\ pc' = "pio" /\ chip' = TransInfo(ch) /\ hd' = Connected(h)
      BY <2>5 DEF TransferByPio
    <3> HIDE DEF b
    <3>2. IsChip(ch) /\ ch.count = s.left /\ IsHost(h) /\ h.connected = c /\ h.dma = hd.dma
      BY <1>1 DEF IsChip, IsHost, c
    <3> HIDE DEF ch, h
    <3>3. chip'.count = s.left
      BY <3>1, <3>2 DEF TransInfo, Issue, IsChip
    <3>4. hd'.connected = c /\ hd'.dma = "D_DMA_OFF"
      BY <1>1, <3>1, <3>2 DEF Connected, IsHost
    <3> QED
      BY <1>1, <2>1, <2>2, <3>1, <3>3, <3>4 DEF DmaInv, InDriver
  <2> QED
    BY <2>1, <2>3, <2>4, <2>5
<1> QED
  BY <1>2, <1>3, <1>4, <1>5, <1>6, <1>7, <1>8 DEF HandleInterrupt

(* The reading of a byte writes of the driver only the state, the message  *)
(* it is made of or answered with, and what is agreed on transfers.        *)
LEMMA PollLeaves ==
  ASSUME IsHost(hd), PollEnds
  PROVE  /\ pc \in {"pio", "sent", "status", "message"} /\ pc' = "idle" /\ chip.int # "none"
         /\ UNCHANGED <<engine, bus, tg, sr>>
         /\ hd'.connected = hd.connected /\ hd'.dma = hd.dma
         /\ hd'.outgoing_msg = hd.outgoing_msg
            \/ \E m : hd'.outgoing_msg = <<m>> /\ m.msg \in {"MESSAGE_REJECT", "WDTR", "SDTR"}
<1> DEFINE Left == /\ pc' = "idle" /\ chip.int # "none" /\ UNCHANGED <<engine, bus, tg, sr>>
           Host == /\ hd'.connected = hd.connected /\ hd'.dma = hd.dma
                   /\ hd'.outgoing_msg = hd.outgoing_msg
                      \/ \E m : /\ hd'.outgoing_msg = <<m>>
                                /\ m.msg \in {"MESSAGE_REJECT", "WDTR", "SDTR"}
<1>1. CASE PioDone \/ SentDone
  BY <1>1 DEF PioDone, SentDone, Rest, targetVars
<1>2. CASE StatusRead
  <2>1. pc = "status" /\ Left
    BY <1>2 DEF StatusRead, Rest, targetVars
  <2>2. \E st : hd' = [hd EXCEPT !.state = st]
    BY <1>2 DEF StatusRead
  <2> QED
    BY <2>1, <2>2 DEF IsHost
<1>3. CASE OnComplete \/ OnSave \/ OnDisconnect \/ OnRestore
  <2>1. pc = "message" /\ Left
    BY <1>3 DEF OnComplete, OnSave, OnDisconnect, OnRestore, MessageRead, Rest, targetVars
  <2>2. \E st : hd' = [hd EXCEPT !.state = st]
    BY <1>3 DEF OnComplete, OnSave, OnDisconnect, OnRestore, MessageRead, Accept
  <2> QED
    BY <2>1, <2>2 DEF IsHost
<1>4. CASE OnReject
  <2>1. pc = "message" /\ Left
    BY <1>4 DEF OnReject, MessageRead, Rest, targetVars
  <2>2. Host
    BY <1>4 DEF OnReject, MessageRead, IsHost
  <2> QED
    BY <2>1, <2>2
<1>5. CASE OnExtendedByte
  <2>1. pc = "message" /\ Left
    BY <1>5 DEF OnExtendedByte, MessageRead, Rest, targetVars
  <2>2. Host
    BY <1>5 DEF OnExtendedByte, MessageRead, IsHost
  <2> QED
    BY <2>1, <2>2
<1>6. CASE OnUnknown \/ OnWdtr \/ OnOtherExtended
  <2>1. pc = "message" /\ Left
    BY <1>6 DEF OnUnknown, OnWdtr, OnOtherExtended, MessageRead, Rest, targetVars
  <2>2. PICK m \in {Plain("MESSAGE_REJECT"), Plain("WDTR")} :
          hd' = [hd EXCEPT !.outgoing_msg = <<m>>, !.state = "S_CONNECTED", !.incoming_msg = <<>>]
    BY <1>6 DEF OnUnknown, OnWdtr, OnOtherExtended, MessageRead, Answer
  <2>3. m.msg \in {"MESSAGE_REJECT", "WDTR", "SDTR"}
    BY DEF Plain
  <2>4. Host
    BY <2>2, <2>3 DEF IsHost
  <2> QED
    BY <2>1, <2>4
<1>7. CASE OnSdtr
  <2> DEFINE id == Attr[hd.connected].id
             h  == [hd EXCEPT !.outgoing_msg = <<Sdtr(0)>>]
             Agree(k, m) == [k EXCEPT !.sync_xfer[id] = m, !.sync_stat[id] = "SS_SET",
                               !.incoming_msg = <<>>, !.state = "S_CONNECTED"]
  <2>1. pc = "message" /\ Left
    <3>1. pc = "message" /\ pc' = "idle" /\ chip.int # "none" /\ UNCHANGED <<engine, Rest>>
      BY <1>7, Zenon DEF OnSdtr, MessageRead
    <3> QED
      BY <3>1 DEF Rest, targetVars
  <2>2. \E m : hd' = Agree(hd, m) \/ hd' = Agree(h, m)
    <3>1. CASE hd.sync_stat[id] = "SS_WAITING"
      <4>1. \E m : hd' = Agree(hd, m)
        BY <1>7, <3>1, Zenon DEF OnSdtr, MessageRead
      <4> HIDE DEF Agree
      <4> QED
        BY <4>1
    <3>2. CASE hd.sync_stat[id] # "SS_WAITING"
      <4>1. hd' = Agree(h, "async")
        BY <1>7, <3>2 DEF OnSdtr, MessageRead
      <4> HIDE DEF Agree
      <4> QED
        BY <4>1
    <3> HIDE DEF Agree
    <3> QED
      BY <3>1, <3>2
  <2>3. /\ IsHost(h) /\ h.connected = hd.connected /\ h.dma = hd.dma
        /\ h.outgoing_msg = <<Sdtr(0)>>
    BY DEF IsHost
  <2>4. Sdtr(0).msg = "SDTR"
    BY DEF Sdtr
  <2> HIDE DEF h, id
  <2>5. Host
    BY <2>2, <2>3, <2>4 DEF IsHost
  <2> QED
    BY <2>1, <2>5
<1> QED
  BY <1>1, <1>2, <1>3, <1>4, <1>5, <1>6, <1>7 DEF PollEnds

(* Every step keeps what is said of the DMA.                               *)
LEMMA DmaKept ==
  ASSUME Base, [Next]_vars
  PROVE  DmaInv'
<1>1. /\ Types /\ Books /\ AbortInv /\ DmaInv /\ IsHost(hd) /\ IsChip(chip)
      /\ hd.dma \in {"D_DMA_OFF", "D_DMA_RUNNING"} /\ chip.count \in Nat
      /\ hd.connected \in Cmds \cup {NULL} /\ scp \in [Cmds -> Pointers]
  BY RecordDomains, HostFieldTypes DEF Base, Types, HostTypes, BusTypes, PointersOk, Chips
<1>2. ASSUME NEW c \in Cmds, Queue(c)
      PROVE  DmaInv'
  <2>1. c # hd.connected /\ c # NULL
    BY <1>1, <1>2, AttrTypes DEF Queue, QueueCommand, Books, WaitedFor, Held, Started
  <2>2. scp' = [scp EXCEPT ![c] = FreshSCp(c)] /\ pc = "idle" /\ pc' = "execute"
        /\ UNCHANGED <<engine, chip>>
    BY <1>2 DEF Queue, QueueCommand
  <2>3. hd'.dma = hd.dma /\ hd'.connected = hd.connected
    BY <1>1, <1>2 DEF Queue, QueueCommand, IsHost
  <2> HIDE DEF FreshSCp
  <2>4. hd.connected # NULL => scp'[hd.connected].left = scp[hd.connected].left
    BY <1>1, <2>1, <2>2
  <2> QED
    BY <1>1, <2>2, <2>3, <2>4, DmaLeft DEF InDriver
<1>3. ASSUME NEW c \in Cmds, TimesOut(c) \/ Abort(c)
      PROVE  DmaInv'
  BY <1>1, <1>3, DmaLeft DEF TimesOut, Abort, busVars, InDriver
<1>4. CASE WriteInfo
  <2>1. pc = "idle" /\ UNCHANGED <<scp, engine, pc, chip>>
    BY <1>4 DEF WriteInfo, busVars
  <2> QED
    BY <1>1, <1>4, <2>1, WriteInfoLeaves, DmaLeft DEF InDriver
<1>5. ASSUME Start, ~CannotStart, ~InDriver, ~InDriver'
      PROVE  DmaInv'
  <2>1. hd.connected = NULL /\ hd.dma = "D_DMA_OFF" /\ engine.cmd = NULL
    BY <1>1, <1>5 DEF CannotStart, DmaInv
  <2>2. pc' \notin {"pio", "status", "message"}
    BY <1>5 DEF InDriver
  <2>3. PICK c \in Cmds :
          \/ hd'.dma = hd.dma /\ engine'.cmd = NULL
          \/ /\ hd'.dma = "D_DMA_RUNNING" /\ engine'.cmd = c /\ hd'.connected = c
             /\ chip'.count = scp'[c].left
    BY <1>1, <1>5, <2>1, StartEffect
  <2>4. scp'[c].left \in Nat
    BY <1>1, <1>5, StartTypes DEF CannotStart, Pointers
  <2>5. c # NULL
    BY AttrTypes
  <2> QED
    BY <1>5, <2>1, <2>2, <2>3, <2>4, <2>5, NoDma DEF DmaInv
<1>6. CASE Execute
  <2>1. pc = "execute" /\ pc' = "idle"
    BY <1>6 DEF Execute
  <2>2. CASE CannotStart
    BY <1>1, <1>6, <2>1, <2>2, DmaLeft DEF Execute, InDriver
  <2>3. CASE ~CannotStart
    BY <1>5, <1>6, <2>1, <2>3 DEF Execute, InDriver
  <2> QED
    BY <2>2, <2>3
<1>7. CASE Interrupt
  <2>1. pc' = "handle"
    BY <1>7 DEF Interrupt
  <2>2. CASE hd.dma = "D_DMA_RUNNING"
    <3>1. hd'.dma = "D_DMA_OFF" /\ engine'.cmd = NULL
      <4>1. hd' = DmaStop(hd, TRUE) /\ engine' = EngineOff
        BY <1>7, <2>2 DEF Interrupt
      <4>2. DmaStop(hd, TRUE).dma = "D_DMA_OFF"
        BY <1>1, StopFields
      <4> QED
        BY <4>1, <4>2 DEF EngineOff
    <3> QED
      BY <2>1, <3>1, NoDma
  <2>3. CASE hd.dma = "D_DMA_OFF"
    <3>1. hd'.dma = "D_DMA_OFF" /\ engine'.cmd = NULL
      BY <1>1, <1>7, <2>3 DEF Interrupt, DmaInv
    <3> QED
      BY <2>1, <3>1, NoDma
  <2> QED
    BY <1>1, <2>2, <2>3
<1>8. CASE PollEnds
  <2>1. hd.dma = "D_DMA_OFF" /\ engine.cmd = NULL
    BY <1>1, <1>8, PollLeaves, Handling
  <2> QED
    BY <1>1, <1>8, <2>1, PollLeaves, NoDma
<1>9. CASE AbortSteps
  <2>1. CASE AbortQueued \/ AbortDisconnected \/ AbortUnknown \/ AbortChecks
    <3>1. UNCHANGED <<engine, scp, pc, chip>> /\ pc = "idle"
      BY <2>1 DEF AbortQueued, AbortDisconnected, AbortUnknown, AbortChecks, busVars, Aborting
    <3>2. hd'.dma = hd.dma /\ hd'.connected = hd.connected
      BY <1>1, <2>1 DEF AbortQueued, AbortDisconnected, AbortUnknown, AbortChecks, IsHost
    <3> QED
      BY <1>1, <3>1, <3>2, DmaLeft DEF InDriver
  <2>2. CASE AbortConnected
    <3>1. hd'.dma = "D_DMA_OFF" /\ engine'.cmd = NULL /\ pc' = "idle"
      <4>1. /\ pc' = "idle"
            /\ hd.dma = "D_DMA_RUNNING" => hd' = DmaStop(hd, FALSE) /\ engine' = EngineOff
            /\ hd.dma = "D_DMA_OFF" => hd' = hd /\ engine' = engine
        BY <2>2 DEF AbortConnected, AbortStopsDma, Aborting
      <4>2. DmaStop(hd, FALSE).dma = "D_DMA_OFF"
        BY <1>1, StopFields
      <4>3. hd.dma = "D_DMA_OFF" => engine.cmd = NULL
        BY <1>1 DEF DmaInv
      <4>4. hd.dma \in {"D_DMA_RUNNING", "D_DMA_OFF"}
        BY <1>1 DEF Base, Types, HostTypes, Hosts
      <4>5. CASE hd.dma = "D_DMA_RUNNING"
        <5>1. hd' = DmaStop(hd, FALSE) /\ engine' = EngineOff /\ pc' = "idle"
          BY <4>1, <4>5
        <5>2. EngineOff.cmd = NULL
          BY DEF EngineOff
        <5> QED
          BY <4>2, <5>1, <5>2, Zenon
      <4>6. CASE hd.dma = "D_DMA_OFF"
        BY <4>1, <4>3, <4>6, Zenon
      <4> QED
        BY <4>4, <4>5, <4>6
    <3> QED
      BY <3>1, NoDma
  <2>3. CASE AbortFlush \/ AbortFinish
    <3>1. hd.dma = "D_DMA_OFF" /\ pc = "idle" /\ UNCHANGED <<engine, pc>>
      BY <1>1, <2>3 DEF AbortFlush, AbortFinish, Aborting, AbortInv
    <3>2. hd'.dma = hd.dma
      BY <1>1, <2>3 DEF AbortFlush, AbortFinish, Unconnected, IsHost
    <3> QED
      BY <1>1, <3>1, <3>2, NoDma DEF DmaInv
  <2>4. CASE AbortStarts
    BY <1>1, <1>5, <2>4 DEF AbortStarts, Aborting, AbortInv, CannotStart, InDriver
  <2> QED
    BY <1>9, <2>1, <2>2, <2>3, <2>4 DEF AbortSteps
<1>10. CASE HostReset
  <2>1. hd'.dma = "D_DMA_OFF" /\ engine'.cmd = NULL /\ pc' = "idle"
    BY <1>1, <1>10 DEF HostReset, Forgotten, EngineOff, IsHost
  <2> QED
    BY <2>1, NoDma
<1>11. CASE UNCHANGED vars
  BY <1>1, <1>11 DEF DmaInv, InDriver, vars, driverVars, busVars
<1>12. CASE BusSteps \/ DataSteps
  <2>1. UNCHANGED <<hd, scp, pc>> /\ engine'.cmd = engine.cmd
    <3>1. engine \in Dmas
      BY <1>1 DEF Types, HostTypes
    <3> QED
      BY <1>12, <3>1 DEF BusSteps, DataSteps, DmaMoves, PioMoves, driverVars, Dmas
  <2>2. chip'.count <= chip.count \/ chip'.count = 0 \/ pc = "sent"
    BY <1>12, CountGoesOn
  <2>3. chip'.count \in Nat
    BY TypesKept DEF Base, Types, BusTypes, Chips
  <2>4. hd.connected # NULL => scp[hd.connected].left \in Nat
    BY <1>1 DEF Pointers
  <2> QED
    BY <1>1, <2>1, <2>2, <2>3, <2>4 DEF DmaInv, InDriver
<1> QED
  BY <1>2, <1>3, <1>4, <1>6, <1>7, <1>8, <1>9, <1>10, <1>11, <1>12, HandleDma DEF Next

(* A step of the driver that leaves a selection and its messages alone.    *)
LEMMA SelectLeft ==
  ASSUME SelectInv, UNCHANGED <<bus, tg>>,
         chip'.cmd = chip.cmd, chip'.id = chip.id, chip'.lun = chip.lun, chip'.atn = chip.atn,
         chip'.ack = chip.ack, chip'.xph = chip.xph, chip'.out = chip.out,
         hd'.selecting = hd.selecting, hd'.connected = hd.connected, hd'.state = hd.state,
         hd'.outgoing_msg = hd.outgoing_msg,
         Pending("SELECT")' <=> Pending("SELECT"), Pending("TIMEOUT")' => Pending("TIMEOUT"),
         pc = "sent" => pc' = "sent"
  PROVE  SelectInv'
<1>1. Selects' /\ SelectsToTransfer'
  BY DEF SelectInv, Selects, SelectsToTransfer
<1>2. SelectTold' /\ TimeoutTold'
  BY DEF SelectInv, SelectTold, TimeoutTold
<1>3. IdentifyDue' /\ IdentifySent'
  BY DEF SelectInv, IdentifyDue, IdentifySent, Identifies
<1> QED
  BY <1>1, <1>2, <1>3 DEF SelectInv

(* A step after which nothing is being selected, and that says so.         *)
LEMMA SelectOver ==
  ASSUME SelectInv, chip'.cmd # "select", chip'.cmd = "level2" => bus' # NULL,
         ~Pending("SELECT")',
         Pending("TIMEOUT")' => /\ Pending("TIMEOUT") /\ hd'.selecting = hd.selecting
                                /\ hd'.connected = hd.connected /\ hd'.state = hd.state,
         chip'.cmd = "info" => chip'.xph # "MESS_OUT",
         IdentifyDue'
  PROVE  SelectInv'
<1>1. TimeoutTold'
  BY DEF SelectInv, TimeoutTold
<1> QED
  BY <1>1 DEF SelectInv, Selects, SelectsToTransfer, SelectTold, IdentifySent

(* An IDENTIFY that waits to be sent, and goes on waiting.                 *)
LEMMA DueLeft ==
  ASSUME IdentifyDue, ~Pending("SELECT"), UNCHANGED <<bus, tg>>,
         chip'.atn = chip.atn, hd'.outgoing_msg = hd.outgoing_msg
  PROVE  IdentifyDue'
BY DEF IdentifyDue, Identifies

(* What handling an interrupt writes of the messages and begins on the     *)
(* chip, but for the two that are about an IDENTIFY.                       *)
LEMMA HandleLeaves ==
  ASSUME Base, HandleInterrupt, ~OnSelect, ~OnMessageOut
  PROVE  /\ hd'.outgoing_msg = hd.outgoing_msg
         /\ chip'.atn = chip.atn /\ chip'.int = chip.int
         /\ chip'.cmd \in {"none", "level2", "info"}
         /\ chip'.cmd = "level2" => bus # NULL
         /\ chip'.cmd = "info" => chip'.xph # "MESS_OUT"
         /\ sr.csr \notin {"SELECT", "MESS_OUT"}
<1>1. /\ IsHost(hd) /\ IsChip(chip) /\ pc = "handle" /\ ChipInv /\ chip.cmd = "none"
  <2>1. pc = "handle"
    BY DEF HandleInterrupt, OnTimeout, OnSelect, OnData, OnCommand,
         OnMessageOut, OnStatus, OnMessageIn, OnSelXferDone, OnUnexpDisc,
         AlreadyDisconnected, OnDisc, OnSdp, OnReselect, OnStrayReselect, CommandCase, Case
  <2> QED
    BY <2>1, RecordDomains DEF Base, Types, HostTypes, BusTypes, ChipInv
<1> DEFINE Done == /\ chip'.atn = chip.atn /\ chip'.int = chip.int
                   /\ chip'.cmd \in {"none", "level2", "info"}
                   /\ chip'.cmd = "level2" => bus # NULL
                   /\ chip'.cmd = "info" => chip'.xph # "MESS_OUT"
           Same(d) == /\ IsChip(d) /\ d.atn = chip.atn /\ d.int = chip.int
                      /\ d.cmd = chip.cmd
<1>2. ASSUME NEW d, Same(d), NEW n,
             \/ chip' \in {d, NegateAck(d)}
             \/ chip' = SelAtnXfer(d, n) /\ (chip.int = "none" => bus # NULL)
             \/ chip' = TransInfo(d) /\ (chip.int = "none" => Phase # "MESS_OUT")
      PROVE  Done
  BY <1>1, <1>2 DEF SelAtnXfer, TransInfo, NegateAck, Issue, IsChip
<1> HIDE DEF Done
<1>3. CASE OnTimeout \/ OnSelXferDone \/ OnUnexpDisc \/ AlreadyDisconnected
  <2>1. hd'.outgoing_msg = hd.outgoing_msg
    BY <1>1, <1>3 DEF OnTimeout, OnSelXferDone, OnUnexpDisc, AlreadyDisconnected,
       Unconnected, IsHost
  <2>2. chip' \in {chip, EnableReselection}
    BY <1>3 DEF OnTimeout, OnSelXferDone, OnUnexpDisc, AlreadyDisconnected
  <2>3. Same(chip) /\ Same(EnableReselection)
    BY <1>1 DEF EnableReselection, IsChip
  <2>4. sr.csr \notin {"SELECT", "MESS_OUT"}
    BY <1>3 DEF OnTimeout, OnSelXferDone, OnUnexpDisc, AlreadyDisconnected, CommandCase, Case
  <2>5. Done
    <3> HIDE DEF Same
    <3> QED BY <1>2, <2>2, <2>3
  <2> QED
    BY <2>1, <2>4, <2>5 DEF Done
<1>4. CASE OnDisc
  <2>1. /\ chip' = EnableReselection /\ sr.csr = "DISC"
        /\ \/ hd' = Unconnected(hd, hd.connected) \/ hd' = Disconnected(hd, hd.connected)
           \/ hd' = [hd EXCEPT !.state = "S_UNCONNECTED"]
    BY <1>4 DEF OnDisc, Case
  <2>2. hd'.outgoing_msg = hd.outgoing_msg
    BY <1>1, <2>1 DEF Unconnected, Disconnected, IsHost
  <2>3. Same(EnableReselection)
    BY <1>1 DEF EnableReselection, IsChip
  <2>4. Done
    <3> HIDE DEF Same
    <3> QED BY <1>2, <2>1, <2>3
  <2> QED
    BY <2>1, <2>2, <2>4 DEF Done
<1>5. CASE OnCommand \/ OnStatus \/ OnMessageIn \/ OnSdp
  <2> DEFINE k == [chip EXCEPT !.polled = TRUE, !.count = 1, !.cdb = hd.connected]
             l == [chip EXCEPT !.polled = TRUE]
  <2>1. \/ /\ sr.csr \in {"COMMAND", "STATUS", "MESS_IN"}
           /\ chip' \in {TransInfo(k), TransInfo(l)}
        \/ sr.csr = "SDP" /\ chip' = SelAtnXfer(chip, \h41)
    BY <1>5 DEF OnCommand, OnStatus, OnMessageIn, OnSdp, CommandCase, Case, ReadByte
  <2>2. Same(k) /\ Same(l) /\ Same(chip)
    BY <1>1 DEF IsChip
  <2>3. /\ sr.csr = "SDP" => bus # NULL
        /\ sr.csr \in {"COMMAND", "STATUS", "MESS_IN"} => (chip.int = "none" => Phase = sr.csr)
    BY <1>1 DEF ChipInv, Phases
  <2>4. hd'.outgoing_msg = hd.outgoing_msg
    BY <1>1, <1>5 DEF OnCommand, OnStatus, OnMessageIn, OnSdp, IsHost
  <2>5. Done
    <3> HIDE DEF Same, k, l
    <3> QED BY <1>2, <2>1, <2>2, <2>3
  <2> QED
    BY <2>1, <2>4, <2>5 DEF Done
<1>6. CASE OnReselect \/ OnStrayReselect
  <2> DEFINE h == PutBackLoser(hd)
             g == [h EXCEPT !.connected = hd.disconnected_Q[Reconnecting],
                            !.disconnected_Q = RemoveAt(@, Reconnecting)]
             x == hd.disconnected_Q[Reconnecting]
             ch == [chip EXCEPT !.id = Attr[x].id, !.dpd = Attr[x].in]
  <2>1. /\ sr.csr = "RESEL_AM"
        /\ hd' \in {h, [g EXCEPT !.state = "S_RUNNING_LEVEL2"],
                    [g EXCEPT !.state = "S_CONNECTED"]}
        /\ chip' \in {chip, NegateAck(chip), NegateAck(ch), SelAtnXfer(NoCount(ch), \h45)}
    BY <1>6 DEF OnReselect, OnStrayReselect, Case
  <2>2. IsHost(h) /\ h.outgoing_msg = hd.outgoing_msg
    BY <1>1 DEF PutBackLoser, Requeued, IsHost
  <2>3. bus # NULL
    BY <1>1, <2>1 DEF ChipInv
  <2>4. Same(chip) /\ Same(ch) /\ Same(NoCount(ch))
    <3> HIDE DEF x
    <3> QED BY <1>1 DEF NoCount, IsChip
  <2> HIDE DEF h, ch
  <2>5. IsHost(g) /\ g.outgoing_msg = hd.outgoing_msg
    BY <2>2 DEF IsHost
  <2> HIDE DEF g
  <2>6. hd'.outgoing_msg = hd.outgoing_msg
    BY <2>1, <2>2, <2>5 DEF IsHost
  <2>7. Done
    <3> HIDE DEF Same
    <3> QED BY <1>2, <2>1, <2>3, <2>4
  <2> QED
    BY <2>1, <2>6, <2>7 DEF Done
<1>7. CASE OnData
  <2> DEFINE c == hd.connected
             s == NextBuffer(c)
  <2>1. /\ sr.csr \in {"DATA_IN", "DATA_OUT"}
        /\ \/ TransferNothing
           \/ \E via \in DmaWays \ {"fail"} : TransferByDma(c, s, via)
           \/ TransferByPio(c, s)
    BY <1>7 DEF OnData, CommandCase, Case
  <2>2. chip.int = "none" => Phase = sr.csr /\ bus # NULL
    BY <1>1, <2>1 DEF ChipInv, Phases, Phase
  <2> HIDE DEF c, s
  <2>3. CASE TransferNothing
    <3>1. chip' = chip /\ \E st : hd' = [hd EXCEPT !.state = st]
      BY <2>3 DEF TransferNothing, Connected
    <3>2. Done /\ hd'.outgoing_msg = hd.outgoing_msg
      BY <1>1, <3>1 DEF IsHost, Done
    <3> QED
      BY <2>1, <3>2 DEF Done
  <2>4. ASSUME NEW via \in DmaWays \ {"fail"}, TransferByDma(c, s, via)
        PROVE  Done /\ hd'.outgoing_msg = hd.outgoing_msg
    <3> DEFINE ch == [chip EXCEPT !.sync = hd.sync_xfer[Attr[c].id], !.polled = FALSE,
                                  !.count = s.left]
               h  == DmaSetup(hd, via)
    <3>1. /\ chip' \in {SelAtnXfer(ch, \h45), TransInfo(ch)}
          /\ \E st : hd' = [h EXCEPT !.state = st]
      BY <2>4 DEF TransferByDma, Connected
    <3>2. Same(ch)
      BY <1>1 DEF IsChip
    <3>3. IsHost(h) /\ h.outgoing_msg = hd.outgoing_msg
      BY <1>1, <2>4, SetupFields
    <3> HIDE DEF ch, h, Same
    <3>4. Done
      BY <1>2, <2>1, <2>2, <3>1, <3>2
    <3> QED
      BY <3>1, <3>3, <3>4 DEF IsHost
  <2>5. CASE TransferByPio(c, s)
    <3> DEFINE ch == [chip EXCEPT !.sync = hd.sync_xfer[Attr[c].id], !.polled = TRUE,
                                  !.count = s.left]
               b == hd.bounce /\ hd.no_dma
               h == [hd EXCEPT !.bounce = b]
    <3>1. chip' = TransInfo(ch) /\ hd' = Connected(h)
      BY <2>5 DEF TransferByPio
    <3> HIDE DEF b
    <3>2. Same(ch) /\ IsHost(h) /\ h.outgoing_msg = hd.outgoing_msg
      BY <1>1 DEF IsChip, IsHost
    <3> HIDE DEF ch, h, Same
    <3>3. Done
      BY <1>2, <2>1, <2>2, <3>1, <3>2
    <3>4. \E st : hd' = [h EXCEPT !.state = st]
      BY <3>1 DEF Connected
    <3>5. hd'.outgoing_msg = hd.outgoing_msg
      BY <3>2, <3>4 DEF IsHost
    <3> QED
      BY <2>1, <3>3, <3>5 DEF Done
  <2> QED
    BY <2>1, <2>3, <2>4, <2>5 DEF Done
<1> QED
  BY <1>3, <1>4, <1>5, <1>6, <1>7 DEF HandleInterrupt

(* The interrupt handler: an IDENTIFY is made when the target answers the  *)
(* selection, and given to the chip when the target asks for a message.    *)
LEMMA HandleSelect ==
  ASSUME Base, HandleInterrupt
  PROVE  SelectInv'
<1>1. /\ IsHost(hd) /\ IsChip(chip) /\ pc = "handle" /\ pc' # "handle" /\ ChipInv /\ SelectInv
      /\ chip.cmd = "none" /\ chip.int \notin {"SELECT", "TIMEOUT"} /\ UNCHANGED <<bus, tg>>
  <2>1. pc = "handle" /\ UNCHANGED <<bus, tg>>
    BY DEF HandleInterrupt, OnTimeout, OnSelect, OnData, OnCommand,
         OnMessageOut, OnStatus, OnMessageIn, OnSelXferDone, OnUnexpDisc,
         AlreadyDisconnected, OnDisc, OnSdp, OnReselect, OnStrayReselect, CommandCase, Case,
         Rest, targetVars
  <2>2. pc' # "handle"
    BY DEF HandleInterrupt, OnTimeout, OnSelect, OnData, OnCommand,
         OnMessageOut, OnStatus, OnMessageIn, OnSelXferDone, OnUnexpDisc,
         AlreadyDisconnected, OnDisc, OnSdp, OnReselect, OnStrayReselect, Restart, ReadByte,
         TransferNothing, TransferByDma, TransferByPio
  <2> QED
    BY <2>1, <2>2, RecordDomains
       DEF Base, Types, HostTypes, BusTypes, ChipInv, InDriver
<1>2. CASE OnSelect
  <2> DEFINE c  == hd.selecting
             id == Attr[c].id
             first == hd.sync_stat[id] = "SS_FIRST"
             off == IF id \in hd.no_sync THEN 0 ELSE OPTIMUM_SX_OFF
             out == <<Identify(c)>> \o IF first THEN <<Sdtr(off)>> ELSE <<>>
             st == IF first THEN "SS_WAITING" ELSE hd.sync_stat[id]
  <2>1. /\ sr.csr = "SELECT" /\ chip' = chip
        /\ hd' = [hd EXCEPT !.connected = c, !.selecting = NULL, !.state = "S_CONNECTED",
                            !.outgoing_msg = out, !.sync_stat[id] = st]
    BY <1>2 DEF OnSelect, Case
  <2>2. /\ c # NULL /\ bus = NexusOf(c) /\ tg[bus].ph = "select" /\ tg[bus].msgs = <<>>
    BY <1>1, <2>1 DEF SelectInv, SelectTold, Pending
  <2>3. c \in Cmds /\ bus # NULL
    <3>1. c \in Cmds
      BY <2>2, HostFieldTypes DEF Base, Types, HostTypes
    <3> QED
      BY <2>2, <3>1, AttrTypes, BusAssumption DEF NexusOf
  <2>4. out[1] = Identify(c)
    OBVIOUS
  <2> HIDE DEF out, st
  <2>5. hd'.outgoing_msg = out
    BY <1>1, <2>1 DEF IsHost
  <2>6. <<bus[1], out[1].lun>> \in Nexus
    BY <2>2, <2>3, <2>4 DEF Identify, NexusOf, Nexus
  <2>7. IdentifyDue'
    BY <1>1, <2>2, <2>3, <2>5, <2>6 DEF IdentifyDue
  <2> QED
    BY <1>1, <2>1, <2>7, SelectOver DEF Pending
<1>3. CASE OnMessageOut
  <2> DEFINE out == IF hd.outgoing_msg = <<>> THEN <<Plain("NOP")>> ELSE hd.outgoing_msg
             ch  == [chip EXCEPT !.polled = TRUE, !.count = Len(out), !.out = out]
  <2>1. /\ sr.csr = "MESS_OUT" /\ chip' = TransInfo(ch) /\ pc' = "sent"
        /\ hd' = [hd EXCEPT !.outgoing_msg = <<>>, !.state = "S_CONNECTED"]
    BY <1>3 DEF OnMessageOut, Case
  <2>2. hd'.outgoing_msg = <<>>
    BY <1>1, <2>1 DEF IsHost
  <2>3. out # <<>> /\ (out[1].msg = "IDENTIFY" => Identifies(hd.outgoing_msg)
                                                  /\ out = hd.outgoing_msg)
    BY DEF Plain, Identifies
  <2> HIDE DEF out
  <2>4. /\ IsChip(ch) /\ ch.int = chip.int /\ ch.cmd = "none" /\ ch.out = out
        /\ ch.atn = chip.atn
    BY <1>1 DEF IsChip
  <2> HIDE DEF ch
  <2>5. IdentifyDue'
    BY <2>2 DEF IdentifyDue, Identifies
  <2>6. CASE chip.int # "none"
    <3>1. chip' = ch
      BY <2>1, <2>4, <2>6, Zenon DEF TransInfo, Issue
    <3> QED
      BY <1>1, <2>4, <2>5, <3>1, SelectOver DEF Pending
  <2>7. CASE chip.int = "none"
    <3>1. chip' = [ch EXCEPT !.cmd = "info", !.xph = Phase, !.quiet = FALSE]
      BY <2>1, <2>4, <2>7, Zenon DEF TransInfo, Issue
    <3>2. Phase = "MESS_OUT"
      BY <1>1, <2>1, <2>7 DEF ChipInv, Phases
    <3>3. chip.atn /\ tg[bus].msgs = <<>> /\ bus # NULL
      BY <3>2 DEF Phase
    <3>4. /\ chip'.cmd = "info" /\ chip'.int = "none" /\ chip'.out = out /\ chip'.atn = chip.atn
      BY <2>4, <2>7, <3>1 DEF IsChip
    <3>5. ~Pending("SELECT") /\ ~Pending("SELECT")' /\ ~Pending("TIMEOUT")'
      BY <1>1, <2>1, <2>7, <3>4 DEF Pending
    <3>6. IdentifySent'
      BY <1>1, <2>1, <2>2, <2>3, <3>3, <3>4, <3>5 DEF IdentifySent, IdentifyDue, SelectInv
    <3> QED
      BY <2>5, <3>4, <3>5, <3>6 DEF SelectInv, Selects, SelectsToTransfer, SelectTold, TimeoutTold
  <2> QED
    BY <2>6, <2>7
<1>4. CASE ~OnSelect /\ ~OnMessageOut
  <2>1. /\ hd'.outgoing_msg = hd.outgoing_msg
        /\ chip'.atn = chip.atn /\ chip'.int = chip.int
        /\ chip'.cmd \in {"none", "level2", "info"}
        /\ chip'.cmd = "level2" => bus # NULL
        /\ chip'.cmd = "info" => chip'.xph # "MESS_OUT"
        /\ sr.csr \notin {"SELECT", "MESS_OUT"}
    BY <1>4, HandleLeaves
  <2>2. ~Pending("SELECT") /\ ~Pending("SELECT")' /\ ~Pending("TIMEOUT")'
    BY <1>1, <2>1 DEF Pending
  <2>3. IdentifyDue'
    BY <1>1, <2>1, <2>2, DueLeft DEF SelectInv
  <2> QED
    BY <1>1, <2>1, <2>2, <2>3, SelectOver
<1> QED
  BY <1>2, <1>3, <1>4

(* ATN is raised by the handler of a message only with an answer to send.  *)
LEMMA PollSays ==
  ASSUME IsHost(hd), IsChip(chip), PollEnds
  PROVE  /\ \/ chip'.atn = chip.atn
            \/ \E m : hd'.outgoing_msg = <<m>> /\ m.msg \in {"MESSAGE_REJECT", "WDTR", "SDTR"}
         /\ \/ chip' = chip
            \/ chip'.int = "none" /\ pc \in {"status", "message"}
               /\ chip'.cmd \in {chip.cmd, "level2"}
<1>1. /\ IsChip(Cleared) /\ Cleared.int = "none" /\ Cleared.atn = chip.atn /\ Cleared.cmd = chip.cmd
  BY DEF Cleared, IsChip
<1>2. /\ \A n : LET d == SelAtnXfer(Cleared, n) IN
           d.int = "none" /\ d.atn = chip.atn /\ d.cmd = "level2"
      /\ LET d == NegateAck(Cleared) IN
           d.int = "none" /\ d.atn = chip.atn /\ d.cmd = chip.cmd
      /\ LET d == NegateAck(AssertAtn(Cleared)) IN
           d.int = "none" /\ d.cmd = chip.cmd
  BY <1>1 DEF SelAtnXfer, NegateAck, AssertAtn, Issue, IsChip
<1>3. CASE PioDone \/ SentDone
  BY <1>3 DEF PioDone, SentDone
<1>4. CASE StatusRead
  <2>1. pc = "status" /\ (chip' = chip \/ chip' = SelAtnXfer(Cleared, \h50))
    BY <1>4 DEF StatusRead
  <2> QED
    BY <1>2, <2>1
<1>5. CASE OnComplete \/ OnSave \/ OnDisconnect \/ OnRestore \/ OnReject \/ OnExtendedByte
  <2>1. pc = "message" /\ chip' \in {NegateAck(Cleared), SelAtnXfer(Cleared, \h45)}
    BY <1>5 DEF OnComplete, OnSave, OnDisconnect, OnRestore, OnReject, OnExtendedByte,
       MessageRead, Accept
  <2> QED
    BY <1>2, <2>1
<1>6. CASE OnUnknown \/ OnWdtr \/ OnOtherExtended
  <2>1. pc = "message" /\ chip' = NegateAck(AssertAtn(Cleared))
    BY <1>6 DEF OnUnknown, OnWdtr, OnOtherExtended, MessageRead, Answer
  <2>2. PICK m \in {Plain("MESSAGE_REJECT"), Plain("WDTR")} :
          hd' = [hd EXCEPT !.outgoing_msg = <<m>>, !.state = "S_CONNECTED", !.incoming_msg = <<>>]
    BY <1>6 DEF OnUnknown, OnWdtr, OnOtherExtended, MessageRead, Answer
  <2>3. m.msg \in {"MESSAGE_REJECT", "WDTR", "SDTR"}
    BY DEF Plain
  <2>4. hd'.outgoing_msg = <<m>>
    BY <2>2 DEF IsHost
  <2> QED
    BY <1>2, <2>1, <2>3, <2>4
<1>7. CASE OnSdtr
  <2> DEFINE id == Attr[hd.connected].id
             h  == [hd EXCEPT !.outgoing_msg = <<Sdtr(0)>>]
  <2>1. pc = "message"
    BY <1>7, Zenon DEF OnSdtr, MessageRead
  <2>2. CASE hd.sync_stat[id] = "SS_WAITING"
    <3>1. chip' = NegateAck(Cleared)
      BY <1>7, <2>2, Zenon DEF OnSdtr, MessageRead
    <3> QED
      BY <1>2, <2>1, <3>1
  <2>3. CASE hd.sync_stat[id] # "SS_WAITING"
    <3>1. /\ chip' = NegateAck(AssertAtn(Cleared))
          /\ hd' = [h EXCEPT !.sync_xfer[id] = "async", !.sync_stat[id] = "SS_SET",
                             !.incoming_msg = <<>>, !.state = "S_CONNECTED"]
      BY <1>7, <2>3 DEF OnSdtr, MessageRead
    <3>2. IsHost(h) /\ h.outgoing_msg = <<Sdtr(0)>> /\ Sdtr(0).msg = "SDTR"
      BY DEF IsHost, Sdtr
    <3> HIDE DEF h, id
    <3>3. hd'.outgoing_msg = <<Sdtr(0)>>
      BY <3>1, <3>2 DEF IsHost
    <3> QED
      BY <1>2, <2>1, <3>1, <3>2, <3>3
  <2> QED
    BY <2>2, <2>3
<1> QED
  BY <1>3, <1>4, <1>5, <1>6, <1>7 DEF PollEnds

(* A phase served by the driver's loops.                                   *)
LEMMA PollSelect ==
  ASSUME Base, PollEnds
  PROVE  SelectInv'
<1>1. /\ IsHost(hd) /\ IsChip(chip) /\ ChipInv /\ SelectInv
  BY RecordDomains DEF Base, Types, HostTypes, BusTypes
<1>2. /\ pc \in {"pio", "sent", "status", "message"} /\ pc' = "idle" /\ chip.int # "none"
      /\ UNCHANGED <<engine, bus, tg, sr>>
      /\ hd'.outgoing_msg = hd.outgoing_msg
         \/ \E m : hd'.outgoing_msg = <<m>> /\ m.msg \in {"MESSAGE_REJECT", "WDTR", "SDTR"}
  BY <1>1, PollLeaves
<1>3. /\ chip.cmd = "none" /\ chip.int \notin {"SELECT", "TIMEOUT"}
      /\ pc \in {"status", "message"} => bus # NULL
  BY <1>1, <1>2 DEF ChipInv, InDriver, Phase, Phases
<1>4. /\ chip'.atn = chip.atn
         \/ \E m : hd'.outgoing_msg = <<m>> /\ m.msg \in {"MESSAGE_REJECT", "WDTR", "SDTR"}
      /\ \/ chip' = chip
         \/ chip'.int = "none" /\ pc \in {"status", "message"}
            /\ chip'.cmd \in {chip.cmd, "level2"}
  BY <1>1, PollSays
<1>5. ~Pending("SELECT") /\ ~Pending("SELECT")' /\ ~Pending("TIMEOUT")'
  BY <1>2, <1>3, <1>4 DEF Pending
<1>6. IdentifyDue'
  <2>1. CASE \E m : hd'.outgoing_msg = <<m>> /\ m.msg \in {"MESSAGE_REJECT", "WDTR", "SDTR"}
    BY <2>1 DEF IdentifyDue, Identifies
  <2>2. CASE hd'.outgoing_msg = hd.outgoing_msg /\ chip'.atn = chip.atn
    BY <1>1, <1>2, <1>5, <2>2, DueLeft DEF SelectInv
  <2> QED
    BY <1>2, <1>4, <2>1, <2>2
<1> QED
  BY <1>1, <1>2, <1>3, <1>4, <1>5, <1>6, SelectOver

(* A command is started, by whichever caller of wd33c93_execute: what is   *)
(* selected is its target.                                                 *)
LEMMA StartSelects ==
  ASSUME Base, Start, ~CannotStart, pc \in {"idle", "execute"}, pc' = "idle",
         UNCHANGED <<bus, tg>>
  PROVE  SelectInv'
<1>1. ChipInv /\ SelectInv /\ Types /\ hd.selecting = NULL /\ hd.connected = NULL
  BY DEF Base, CannotStart
<1>2. ~Pending("SELECT") /\ ~Pending("TIMEOUT")
  BY <1>1 DEF SelectInv, SelectTold, TimeoutTold
<1>3. PICK c \in Cmds :
        /\ hd'.outgoing_msg = hd.outgoing_msg
        /\ chip'.atn = chip.atn /\ chip'.int = chip.int
        /\ chip'.id = Attr[c].id /\ chip'.lun = Attr[c].lun
        /\ \/ /\ hd'.selecting = c /\ hd'.connected = NULL /\ hd'.state = "S_SELECTING"
              /\ chip.int = "none" => chip'.cmd = "select"
           \/ /\ hd'.selecting = NULL /\ hd'.connected = c /\ hd'.state = "S_RUNNING_LEVEL2"
              /\ chip.int = "none" => chip'.cmd = "level2"
  BY <1>1, StartEffect
<1>4. c # NULL /\ <<chip'.id, chip'.lun>> = NexusOf(c)
  BY <1>3, AttrTypes DEF NexusOf
<1>5. ~Pending("SELECT")' /\ ~Pending("TIMEOUT")'
  BY <1>2, <1>3 DEF Pending
<1>6. chip.int # "none" => chip'.cmd = "none"
  BY StartChip
<1>7. IdentifyDue'
  BY <1>1, <1>2, <1>3, DueLeft DEF SelectInv
<1>8. Selects' /\ SelectsToTransfer' /\ IdentifySent'
  BY <1>3, <1>4, <1>6 DEF Selects, SelectsToTransfer, IdentifySent
<1> QED
  BY <1>5, <1>7, <1>8 DEF SelectInv, SelectTold, TimeoutTold

(* An abort: of a command connected, so none is being selected.            *)
LEMMA AbortSelect ==
  ASSUME Base, AbortSteps
  PROVE  SelectInv'
<1>1. /\ IsHost(hd) /\ IsChip(chip) /\ ChipInv /\ SelectInv /\ AbortInv
      /\ pc = "idle" /\ pc' = "idle"
  BY RecordDomains DEF Base, Types, HostTypes, BusTypes, AbortSteps, AbortQueued,
     AbortConnected, AbortFlush, AbortFinish, AbortDisconnected, AbortUnknown, AbortChecks,
     AbortStarts, Aborting
<1>2. CASE AbortQueued \/ AbortDisconnected \/ AbortUnknown \/ AbortChecks
  <2>1. UNCHANGED <<chip, bus, tg, sr>>
    BY <1>2 DEF AbortQueued, AbortDisconnected, AbortUnknown, AbortChecks, busVars
  <2>2. /\ hd'.selecting = hd.selecting /\ hd'.connected = hd.connected
        /\ hd'.state = hd.state /\ hd'.outgoing_msg = hd.outgoing_msg
    BY <1>1, <1>2 DEF AbortQueued, AbortDisconnected, AbortUnknown, AbortChecks, IsHost
  <2> QED
    BY <1>1, <2>1, <2>2, SelectLeft DEF Pending
<1>3. CASE AbortConnected
  <2> DEFINE ch == [chip EXCEPT !.polled = TRUE]
  <2>1. /\ chip' = AbortCmd(ch) /\ UNCHANGED <<bus, tg, sr>> /\ hd.connected = eh.cmd
        /\ eh.cmd # NULL
    <3>1. eh.cmd \in Cmds
      BY <1>1, <1>3 DEF AbortConnected, Aborting, AbortInv
    <3> QED
      BY <1>3, <3>1, AttrTypes DEF AbortConnected, targetVars
  <2>2. hd' = hd \/ hd' = DmaStop(hd, FALSE)
    BY <1>3 DEF AbortConnected, AbortStopsDma
  <2>3. /\ hd'.selecting = hd.selecting /\ hd'.connected = hd.connected
        /\ hd'.state = hd.state /\ hd'.outgoing_msg = hd.outgoing_msg
    BY <1>1, <2>2, StopFields
  <2>4. IsChip(ch) /\ ch.cmd = chip.cmd /\ ch.int = chip.int /\ ch.atn = chip.atn
    BY <1>1 DEF IsChip
  <2> HIDE DEF ch
  <2>5. chip'.cmd = "none" /\ chip'.int \in {chip.int, "ABORT"} /\ chip'.atn = chip.atn
    BY <1>1, <2>1, <2>4 DEF AbortCmd, Issue, IsChip, ChipInv
  <2>6. ~Pending("SELECT")
    BY <1>1, <2>1 DEF SelectInv, SelectTold
  <2>7. ~Pending("SELECT")' /\ (Pending("TIMEOUT")' => Pending("TIMEOUT"))
    BY <1>1, <2>5, <2>6 DEF Pending
  <2>8. IdentifyDue'
    BY <1>1, <2>1, <2>3, <2>5, <2>6, DueLeft DEF SelectInv
  <2> QED
    BY <1>1, <2>3, <2>5, <2>7, <2>8, SelectOver
<1>4. CASE AbortFlush
  <2>1. /\ chip' = [chip EXCEPT !.int = "none", !.cmd = "none", !.ack = FALSE, !.atn = FALSE]
    BY <1>4 DEF AbortFlush
  <2>2. chip'.int = "none" /\ chip'.cmd = "none" /\ ~chip'.atn
    BY <1>1, <2>1 DEF IsChip
  <2>3. ~Pending("SELECT")' /\ ~Pending("TIMEOUT")'
    BY <1>1, <2>2 DEF Pending
  <2>4. IdentifyDue'
    BY <2>2 DEF IdentifyDue
  <2> QED
    BY <1>1, <2>2, <2>3, <2>4, SelectOver
<1>5. CASE AbortFinish
  <2>1. /\ chip' = Cleared /\ hd' = Unconnected(hd, eh.cmd) /\ UNCHANGED <<bus, tg>>
        /\ hd.connected = eh.cmd /\ chip.cmd = "none" /\ eh.cmd # NULL
    <3>1. eh.cmd \in Cmds
      BY <1>1, <1>5 DEF AbortFinish, Aborting, AbortInv
    <3> QED
      BY <1>1, <1>5, <3>1, AttrTypes DEF AbortFinish, Aborting, AbortInv, targetVars
  <2>2. chip'.int = "none" /\ chip'.cmd = "none" /\ chip'.atn = chip.atn
    BY <1>1, <2>1 DEF IsChip, Cleared
  <2>3. hd'.outgoing_msg = hd.outgoing_msg
    BY <1>1, <2>1 DEF Unconnected, IsHost
  <2>4. ~Pending("SELECT")
    BY <1>1, <2>1 DEF SelectInv, SelectTold
  <2>5. ~Pending("SELECT")' /\ ~Pending("TIMEOUT")'
    BY <1>1, <2>2 DEF Pending
  <2>6. IdentifyDue'
    BY <1>1, <2>1, <2>2, <2>3, <2>4, DueLeft DEF SelectInv
  <2> QED
    BY <1>1, <2>2, <2>5, <2>6, SelectOver
<1>6. CASE AbortStarts
  <2>1. Start /\ ~CannotStart /\ UNCHANGED <<bus, tg>>
    BY <1>1, <1>6 DEF AbortStarts, Aborting, AbortInv, CannotStart, targetVars
  <2> QED
    BY <1>1, <2>1, StartSelects
<1> QED
  BY <1>2, <1>3, <1>4, <1>5, <1>6 DEF AbortSteps

(* The selections, and what the targets make of them.                      *)
LEMMA BusSelect ==
  ASSUME Base, BusSteps
  PROVE  SelectInv'
<1>1. /\ ChipInv /\ SelectInv /\ IsChip(chip) /\ UNCHANGED <<hd, pc, sr>> /\ NULL \notin Nexus
      /\ bus \in Nexus \cup {NULL} /\ tg \in [Nexus -> Units]
  <2>1. NULL \notin Nexus
    BY BusAssumption, AttrTypes DEF Nexus, NexusOf
  <2> QED
    BY <2>1, RecordDomains DEF Base, Types, BusTypes, BusSteps, driverVars
<1>2. /\ chip'.cmd \in {chip.cmd, "none"} /\ chip'.id = chip.id /\ chip'.xph = chip.xph
      /\ (chip'.lun = chip.lun \/ bus' # NULL)
  BY ChipGoesOn
<1>3. CASE Selected /\ chip.cmd = "select"
  <2>1. /\ chip' = [chip EXCEPT !.cmd = "none", !.int = "SELECT", !.atn = TRUE]
        /\ bus = NULL /\ bus' = <<chip.id, chip.lun>>
        /\ tg' = [tg EXCEPT ![bus'] = [Idle EXCEPT !.ph = "select"]]
    BY <1>3 DEF Selected
  <2>2. /\ hd.selecting # NULL /\ hd.connected = NULL /\ bus' = NexusOf(hd.selecting)
    BY <1>1, <1>3, <2>1 DEF SelectInv, Selects
  <2>3. bus' \in Nexus
    BY <2>2, HostFieldTypes DEF Base, Types, HostTypes, Nexus
  <2>4. tg'[bus'].ph = "select" /\ tg'[bus'].msgs = <<>>
    BY <1>1, <2>1, <2>3 DEF Idle
  <2>5. chip'.cmd = "none" /\ chip'.int = "SELECT" /\ chip'.atn /\ ~chip'.ack
    BY <1>1, <2>1 DEF IsChip, ChipInv
  <2>6. pc # "handle"
    BY <1>1, <1>3 DEF ChipInv, InDriver
  <2>7. Pending("SELECT")' /\ ~Pending("TIMEOUT")'
    BY <1>1, <2>5, <2>6 DEF Pending
  <2>8. Selects' /\ SelectsToTransfer' /\ SelectTold' /\ IdentifySent'
    BY <1>1, <2>2, <2>4, <2>5 DEF Selects, SelectsToTransfer, SelectTold, IdentifySent
  <2>9. TimeoutTold' /\ IdentifyDue'
    BY <2>7 DEF TimeoutTold, IdentifyDue
  <2> QED
    BY <2>8, <2>9 DEF SelectInv
<1>4. CASE Selected /\ chip.cmd = "level2"
  <2>1. /\ chip' = [chip EXCEPT !.phs = \h20] /\ chip.int = "none"
        /\ bus = NULL /\ bus' = <<chip.id, chip.lun>>
    BY <1>4 DEF Selected
  <2>2. /\ hd.connected # NULL /\ bus' = NexusOf(hd.connected)
    BY <1>1, <1>4, <2>1 DEF SelectInv, SelectsToTransfer
  <2>3. bus' \in Nexus /\ bus' # NULL
    BY <1>1, <2>2, HostFieldTypes DEF Base, Types, HostTypes, Nexus
  <2>4. chip'.cmd = "level2" /\ chip'.int = "none" /\ chip'.atn = chip.atn
    BY <1>1, <1>4, <2>1 DEF IsChip
  <2>5. pc # "handle"
    BY <1>1, <1>4 DEF ChipInv, InDriver
  <2>6. ~Pending("SELECT") /\ ~Pending("SELECT")' /\ ~Pending("TIMEOUT")'
    BY <1>1, <2>1, <2>4, <2>5 DEF Pending
  <2>7. IdentifyDue'
    BY <1>1, <2>1, <2>4, <2>6 DEF SelectInv, IdentifyDue
  <2> QED
    BY <1>1, <2>3, <2>4, <2>6, <2>7, SelectOver
<1>5. CASE SelectionTimeout
  <2>1. /\ chip' = [chip EXCEPT !.cmd = "none", !.int = "TIMEOUT"] /\ bus = NULL /\ bus' = NULL
        /\ chip.int = "none" /\ chip.cmd \in {"select", "level2"}
    BY <1>5 DEF SelectionTimeout
  <2>2. chip'.cmd = "none" /\ chip'.int = "TIMEOUT" /\ chip'.atn = chip.atn
    BY <1>1, <2>1 DEF IsChip
  <2>3. pc # "handle"
    BY <1>1, <2>1 DEF ChipInv, InDriver
  <2>4. ~Pending("SELECT") /\ ~Pending("SELECT")'
    BY <1>1, <2>1, <2>2, <2>3 DEF Pending
  <2>5. TimeoutTold'
    BY <1>1, <2>1 DEF SelectInv, Selects, SelectsToTransfer, TimeoutTold
  <2>6. IdentifyDue'
    BY <1>1, <2>1, <2>2, <2>4 DEF SelectInv, IdentifyDue
  <2> QED
    BY <2>2, <2>4, <2>5, <2>6 DEF SelectInv, Selects, SelectsToTransfer, SelectTold, IdentifySent
<1>6. CASE \E n \in Nexus : Reselect(n)
  <2>1. /\ chip' = [chip EXCEPT !.cmd = "none", !.int = "RESEL_AM", !.ack = TRUE, !.atn = FALSE]
        /\ bus = NULL
    BY <1>6 DEF Reselect
  <2>2. chip'.cmd = "none" /\ chip'.int = "RESEL_AM" /\ ~chip'.atn
    BY <1>1, <2>1 DEF IsChip
  <2>3. ~Pending("SELECT")
    <3>1. Pending("SELECT") => bus \in Nexus
      BY <1>1, HostFieldTypes DEF SelectInv, SelectTold, Base, Types, HostTypes, Nexus
    <3> QED
      BY <1>1, <2>1, <3>1
  <2>4. ~Pending("SELECT")' /\ (Pending("TIMEOUT")' => Pending("TIMEOUT"))
    BY <1>1, <2>2, <2>3 DEF Pending
  <2>5. IdentifyDue'
    BY <2>2 DEF IdentifyDue
  <2> QED
    BY <1>1, <2>2, <2>4, <2>5, SelectOver
<1>7. CASE ReportPhase
  <2>1. /\ chip' = [chip EXCEPT !.cmd = "none", !.int = Phase, !.quiet = TRUE]
        /\ chip.int = "none" /\ Phase \in Phases /\ UNCHANGED <<bus, tg>>
    BY <1>7, PhaseType DEF ReportPhase
  <2>2. /\ chip'.cmd = "none" /\ chip'.int = Phase /\ chip'.atn = chip.atn
        /\ chip'.ack = chip.ack
    BY <1>1, <2>1 DEF IsChip
  <2>3. /\ Pending("SELECT")' <=> Pending("SELECT")
        /\ Pending("TIMEOUT")' => Pending("TIMEOUT")
    BY <1>1, <2>1, <2>2 DEF Pending, Phases
  <2>4. SelectTold' /\ TimeoutTold'
    BY <1>1, <2>1, <2>2, <2>3 DEF SelectInv, SelectTold, TimeoutTold
  <2>5. IdentifyDue'
    BY <1>1, <2>1, <2>2, <2>3 DEF SelectInv, IdentifyDue, Identifies
  <2> QED
    BY <2>2, <2>4, <2>5 DEF SelectInv, Selects, SelectsToTransfer, IdentifySent
<1>8. \A ph \in Phases : Ready(ph) =>
        /\ bus # NULL /\ chip.int = "none" /\ Phase = ph
        /\ chip.cmd \in {"info", "level2"} /\ pc # "handle"
        /\ ph \in {"COMMAND", "STATUS", "DATA_IN", "DATA_OUT"} => ~chip.atn \/ tg[bus].ph # "select"
        /\ ph = "MESS_IN" => tg[bus].msgs # <<>>
        /\ ph = "MESS_OUT" => chip.cmd = "info" /\ chip.xph = "MESS_OUT"
        /\ chip.cmd = "info" => chip.xph = ph
  BY <1>1 DEF Ready, Expected, DataGoesOn, Phase, ChipInv, InDriver, Phases
<1>9. ASSUME NEW ph \in Phases, Ready(ph), ph # "MESS_OUT", chip'.atn = chip.atn,
             chip'.cmd # "none" => bus' # NULL, chip'.int \notin {"SELECT", "TIMEOUT"}
      PROVE  SelectInv'
  <2>1. ~Pending("SELECT") /\ ~Pending("SELECT")' /\ ~Pending("TIMEOUT")'
    BY <1>1, <1>8, <1>9 DEF Pending
  <2>2. ~(chip.atn /\ Identifies(hd.outgoing_msg))
    BY <1>1, <1>8, <1>9, <2>1 DEF SelectInv, IdentifyDue, Phases
  <2>3. IdentifyDue'
    BY <1>1, <1>9, <2>2 DEF IdentifyDue
  <2> QED
    BY <1>1, <1>2, <1>8, <1>9, <2>1, <2>3, SelectOver
<1>10. CASE TakeMessages
  <2>1. /\ Ready("MESS_OUT") /\ (\/ chip' = [chip EXCEPT !.cmd = "none", !.count = 1]
            \/ chip' = [chip EXCEPT !.cmd = "none", !.count = 0, !.atn = FALSE, !.out = <<>>])
    BY <1>10 DEF TakeMessages
  <2>2. chip'.cmd = "none" /\ chip'.int = "none" /\ pc # "handle" /\ hd.outgoing_msg = <<>>
    BY <1>1, <1>8, <2>1 DEF IsChip, Phases, SelectInv, IdentifySent
  <2>3. ~Pending("SELECT")' /\ ~Pending("TIMEOUT")'
    BY <1>1, <2>2 DEF Pending
  <2>4. IdentifyDue'
    BY <1>1, <2>2 DEF IdentifyDue, Identifies
  <2> QED
    BY <1>1, <2>2, <2>3, <2>4, SelectOver
<1>11. CASE TakeCommand \/ TakeStatus
  <2>1. PICK ph \in {"COMMAND", "STATUS"} : Ready(ph)
    BY <1>11 DEF TakeCommand, TakeStatus
  <2>2. chip'.atn = chip.atn /\ chip'.int = chip.int /\ bus' = bus
    BY <1>1, <1>11 DEF TakeCommand, TakeStatus, IsChip
  <2> QED
    BY <1>8, <1>9, <2>1, <2>2 DEF Phases
<1>12. CASE TakeByte
  <2> DEFINE b == Head(tg[bus].msgs)
  <2>1. /\ Ready("MESS_IN") /\ bus' = bus
        /\ chip' = [chip EXCEPT !.cmd = "none", !.int = "MSGIN", !.ack = TRUE, !.byte = b]
    BY <1>12 DEF TakeByte
  <2> HIDE DEF b
  <2>2. chip'.atn = chip.atn /\ chip'.int = "MSGIN" /\ chip'.cmd = "none"
    BY <1>1, <2>1 DEF IsChip
  <2> QED
    BY <1>9, <2>1, <2>2 DEF Phases
<1>13. CASE Level2Message
  <2>1. /\ Ready("MESS_IN")
        /\ \/ chip' = [chip EXCEPT !.cmd = "none", !.int = "SEL_XFER_DONE", !.phs = \h60]
           \/ chip' = [chip EXCEPT !.cmd = "none", !.int = "DISC", !.phs = \h43]
           \/ chip' = [chip EXCEPT !.cmd = "none", !.int = "SDP", !.phs = \h41, !.ack = TRUE]
    BY <1>13 DEF Level2Message
  <2>2. chip'.atn = chip.atn /\ chip'.int \in {"SEL_XFER_DONE", "DISC", "SDP"} /\ chip'.cmd = "none"
    BY <1>1, <2>1 DEF IsChip
  <2> QED
    BY <1>9, <2>1, <2>2 DEF Phases
<1>14. CASE ReleaseBus \/ Drop
  <2>1. /\ bus # NULL /\ chip.int = "none" /\ tg[bus].ph # "select"
        /\ \/ chip' = [chip EXCEPT !.cmd = "none", !.int = "DISC"]
           \/ chip' = [chip EXCEPT !.cmd = "none", !.int = "UNEXP_DISC"]
    BY <1>14 DEF ReleaseBus, Drop
  <2>2. chip'.cmd = "none" /\ chip'.int \in {"DISC", "UNEXP_DISC"} /\ chip'.atn = chip.atn
    BY <1>1, <2>1 DEF IsChip
  <2>3. ~Pending("SELECT") /\ ~Pending("SELECT")' /\ (Pending("TIMEOUT")' => Pending("TIMEOUT"))
    BY <1>1, <2>1, <2>2 DEF Pending, SelectInv, SelectTold
  <2>4. IdentifyDue'
    BY <1>1, <2>1, <2>2, <2>3 DEF IdentifyDue, SelectInv
  <2> QED
    BY <1>1, <2>2, <2>3, <2>4, SelectOver
<1>15. CASE TargetSteps
  <2>1. bus # NULL /\ ~chip.atn /\ UNCHANGED <<chip, bus>>
    BY <1>15 DEF TargetSteps, StartData, GiveStatus, StartDisconnect, Quirk, Free
  <2>2. ~Pending("SELECT") /\ ~Pending("SELECT")' /\ (Pending("TIMEOUT")' => Pending("TIMEOUT"))
    BY <1>1, <2>1 DEF SelectInv, SelectTold, Pending
  <2>3. Selects' /\ SelectsToTransfer' /\ SelectTold' /\ TimeoutTold'
    BY <1>1, <2>1, <2>2 DEF SelectInv, Selects, SelectsToTransfer, SelectTold, TimeoutTold
  <2>4. IdentifyDue' /\ IdentifySent'
    BY <1>1, <2>1 DEF SelectInv, IdentifyDue, IdentifySent
  <2> QED
    BY <2>3, <2>4 DEF SelectInv
<1> QED
  BY <1>3, <1>4, <1>5, <1>6, <1>7, <1>10, <1>11, <1>12, <1>13, <1>14, <1>15
     DEF BusSteps, ChipSteps, Selected

(* Every step keeps what is said of the selections.                        *)
LEMMA SelectKept ==
  ASSUME Base, [Next]_vars
  PROVE  SelectInv'
<1>1. /\ ChipInv /\ SelectInv /\ IsChip(chip) /\ IsHost(hd)
  BY RecordDomains DEF Base, Types, HostTypes, BusTypes
<1>2. CASE UNCHANGED vars
  BY <1>1, <1>2, SelectLeft DEF vars, driverVars, busVars, Pending
<1>3. ASSUME NEW c \in Cmds, Queue(c) \/ TimesOut(c) \/ Abort(c)
      PROVE  SelectInv'
  <2>1. UNCHANGED <<chip, bus, tg, sr>> /\ pc = "idle" /\ pc' \in {"idle", "execute"}
    BY <1>3 DEF Queue, QueueCommand, TimesOut, Abort, busVars
  <2>2. /\ hd'.selecting = hd.selecting /\ hd'.connected = hd.connected
        /\ hd'.state = hd.state /\ hd'.outgoing_msg = hd.outgoing_msg
    BY <1>1, <1>3 DEF Queue, QueueCommand, TimesOut, Abort, IsHost
  <2> QED
    BY <1>1, <2>1, <2>2, SelectLeft DEF Pending
<1>4. CASE Execute
  <2>1. UNCHANGED <<bus, tg, sr>> /\ pc = "execute" /\ pc' = "idle"
    BY <1>4 DEF Execute, targetVars
  <2>2. CASE CannotStart
    <3>1. UNCHANGED <<chip, hd>>
      BY <1>4, <2>2 DEF Execute
    <3> QED
      BY <1>1, <2>1, <3>1, SelectLeft DEF Pending
  <2>3. CASE ~CannotStart
    BY <1>4, <2>1, <2>3, StartSelects DEF Execute
  <2> QED
    BY <2>2, <2>3
<1>5. CASE Interrupt
  <2>1. /\ pc = "idle" /\ chip.int # "none" /\ sr'.csr = chip.int /\ pc' = "handle"
        /\ chip' = [chip EXCEPT !.int = "none"] /\ UNCHANGED <<bus, tg>>
        /\ hd' = hd \/ hd' = DmaStop(hd, TRUE)
    BY <1>5 DEF Interrupt, targetVars
  <2>2. /\ chip'.cmd = chip.cmd /\ chip'.id = chip.id /\ chip'.lun = chip.lun
        /\ chip'.atn = chip.atn /\ chip'.ack = chip.ack /\ chip'.xph = chip.xph
        /\ chip'.out = chip.out /\ chip'.int = "none"
    BY <1>1, <2>1 DEF IsChip
  <2>3. /\ hd'.selecting = hd.selecting /\ hd'.connected = hd.connected
        /\ hd'.state = hd.state /\ hd'.outgoing_msg = hd.outgoing_msg
    BY <1>1, <2>1, StopFields
  <2>4. /\ Pending("SELECT")' <=> Pending("SELECT")
        /\ Pending("TIMEOUT")' => Pending("TIMEOUT")
    BY <2>1, <2>2 DEF Pending
  <2> QED
    BY <1>1, <2>1, <2>2, <2>3, <2>4, SelectLeft
<1>6. CASE HostReset
  <2>1. pc' = "idle" /\ chip'.cmd = "none" /\ chip'.int = "none" /\ chip'.atn = FALSE
    BY <1>6 DEF HostReset, ChipReset
  <2>2. ~Pending("SELECT")' /\ ~Pending("TIMEOUT")' /\ IdentifyDue'
    BY <2>1 DEF Pending, IdentifyDue
  <2> QED
    BY <1>1, <2>1, <2>2, SelectOver
<1>7. CASE WriteInfo
  <2>1. UNCHANGED <<chip, bus, tg, pc, sr>>
    BY <1>7 DEF WriteInfo, busVars
  <2> QED
    BY <1>1, <1>7, <2>1, WriteInfoLeaves, SelectLeft DEF Pending
<1>8. CASE DataSteps
  <2>1. PICK k \in 1..chip.count : DmaMoves(k) \/ PioMoves(k)
    BY <1>8 DEF DataSteps
  <2>2. /\ UNCHANGED <<hd, pc, sr, bus>> /\ (Ready("DATA_IN") \/ Ready("DATA_OUT"))
        /\ chip' = [chip EXCEPT !.count = @ - k,
                      !.phs = IF chip.cmd = "level2" THEN \h46 ELSE @,
                      !.cmd = IF chip.cmd = "info" /\ k = chip.count THEN "none" ELSE @]
    BY <2>1 DEF DmaMoves, PioMoves, MoveData, driverVars
  <2>3. /\ bus # NULL /\ chip.int = "none" /\ chip.cmd \in {"info", "level2"} /\ pc # "handle"
        /\ chip.cmd = "info" => chip.xph \in {"DATA_IN", "DATA_OUT"}
        /\ tg[bus].ph # "select"
    BY <1>1, <2>2 DEF Ready, Expected, DataGoesOn, Phase, ChipInv, Phases
  <2>4. /\ chip'.int = "none" /\ chip'.atn = chip.atn /\ chip'.xph = chip.xph
        /\ chip'.cmd \in {chip.cmd, "none"}
    BY <1>1, <2>2, <2>3 DEF IsChip
  <2>5. ~Pending("SELECT") /\ ~Pending("SELECT")' /\ ~Pending("TIMEOUT")'
    BY <2>2, <2>3, <2>4 DEF Pending
  <2>6. IdentifyDue'
    BY <1>1, <2>2, <2>3, <2>4, <2>5 DEF SelectInv, IdentifyDue
  <2> QED
    BY <1>1, <2>2, <2>3, <2>4, <2>5, <2>6, SelectOver
<1> QED
  BY <1>2, <1>3, <1>4, <1>5, <1>6, <1>7, <1>8, HandleSelect, PollSelect, AbortSelect, BusSelect
     DEF Next

(* All of it together is kept by every step of a driver that understands   *)
(* the reselections it is told of.                                         *)
LEMMA BaseKept ==
  ASSUME Base, Known, [Next]_vars
  PROVE  Base'
<1>1. Types'
  BY TypesKept DEF Base
<1> QED
  BY <1>1, BooksKept, AbortKept, ChipKept, SelectKept, DmaKept DEF Base
===============================================================================
