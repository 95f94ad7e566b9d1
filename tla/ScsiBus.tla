-------------------------------- MODULE ScsiBus -------------------------------
(***************************************************************************)
(* What the Linux driver of the WD33C93 drives: the chip, the SCSI bus and *)
(* the targets.  None of it is code of the repository; it is modelled from *)
(* the interrupts the driver handles, the commands it issues and what it   *)
(* reads back.  Data are counted in units, a scatter-gather buffer holding *)
(* a few of them; messages to the target are records, messages from it the *)
(* bytes the driver picks up one by one.                                   *)
(***************************************************************************)
EXTENDS Integers, Sequences, FiniteSets, SequencesExt

CONSTANTS
  Cmds,   \* the commands of the mid-layer
  NULL,   \* no command, no nexus
  Attr,   \* what a command is: id, lun, in, nbufs, blen, sense, tape
  Setups  \* the machines there may be, and the settings they start with

ASSUME BusAssumption ==
  /\ NULL \notin Cmds \cup ((0..6) \X (0..7))
  /\ \A c \in Cmds :
       /\ Attr[c] \in [id : 0..6, lun : 0..7, in : BOOLEAN, nbufs : Nat, blen : Nat,
                       sense : BOOLEAN, tape : BOOLEAN]
       /\ Attr[c].nbufs = 0 <=> Attr[c].blen = 0
  /\ \A s \in Setups :
       /\ s.cmds \subseteq Cmds /\ s.timeouts \subseteq s.cmds /\ s.present \subseteq 0..6
       /\ s.quirks \subseteq {"slow", "drop", "short", "restore", "retry", "sdtr", "wide",
                              "other", "unknown", "reject", "early", "mute"}

VARIABLES
  setup,    \* the machine of this behaviour; it never changes
  chip,     \* the WD33C93: its registers, its command and its interrupt
  bus,      \* the nexus connected on the SCSI bus, or NULL
  tg,       \* per nexus: what the target's logical unit is doing
  agreed,   \* per id: how the target moves data, "async" or "sync"
  outcome   \* per command: the status the target gave it, or NONE

busVars == <<chip, bus, tg, agreed, outcome>>

Present == setup.present  \* the ids that answer a selection
Quirks  == setup.quirks   \* what targets do besides the plain sequence of phases

NexusOf(c) == <<Attr[c].id, Attr[c].lun>>
Nexus == {NexusOf(c) : c \in Cmds}
Ids   == {Attr[c].id : c \in Cmds}
Total(c) == Attr[c].nbufs * Attr[c].blen

(* Status bytes; NONE is not one: the target has given no status.          *)
GOOD    == 0
CHECK   == 2
ILLEGAL == 255
NONE    == 256

(* Message bytes a target sends.                                           *)
COMMAND_COMPLETE == <<0>>
SAVE_POINTERS    == <<2>>
RESTORE_POINTERS == <<3>>
DISCONNECT       == <<4>>
MESSAGE_REJECT   == <<7>>
SDTR(off)        == <<1, 3, 1, 62, off>>
WDTR             == <<1, 2, 3, 1>>
OtherExtended    == <<1, 2, 0, 0>>
UnknownMessage   == <<10>>

Phases == {"COMMAND", "DATA_IN", "DATA_OUT", "STATUS", "MESS_OUT", "MESS_IN"}

ChipReset ==
  [cmd |-> "none", int |-> "none", phs |-> 0, xph |-> "none", quiet |-> FALSE,
   ack |-> FALSE, atn |-> FALSE, count |-> 0, id |-> 0, lun |-> 0, dpd |-> FALSE,
   er |-> FALSE, sync |-> "async", polled |-> TRUE, cdb |-> NULL, out |-> <<>>,
   byte |-> 0]

(* A logical unit with nothing to do; ph is the step it has reached, msgs  *)
(* the message bytes it still has to send before it goes on, odd whether   *)
(* it has shown a quirk for this command already, pend the transfer        *)
(* agreement that holds once msgs are sent.                                *)
Idle ==
  [ph |-> "idle", cmd |-> NULL, msgs |-> <<>>, pos |-> 0, saved |-> 0,
   disc |-> FALSE, st |-> GOOD, odd |-> FALSE, pend |-> "none"]

BusInit ==
  /\ setup \in Setups
  /\ chip = ChipReset
  /\ bus = NULL
  /\ tg = [n \in Nexus |-> Idle]
  /\ agreed = [i \in Ids |-> "async"]
  /\ outcome = [c \in Cmds |-> NONE]

-----------------------------------------------------------------------------
(* The chip as the driver writes it.  A command written while an interrupt *)
(* is pending is ignored; a write of any other register is not.            *)

Issue(ch, next) == IF ch.int = "none" THEN [next EXCEPT !.quiet = FALSE] ELSE ch

SelAtn(ch) == Issue(ch, [ch EXCEPT !.cmd = "select"])

SelAtnXfer(ch, phs) ==
  LET at == [ch EXCEPT !.phs = phs]
  IN Issue(at, [at EXCEPT !.cmd = "level2", !.ack = FALSE])

NegateAck(ch) == Issue(ch, [ch EXCEPT !.ack = FALSE])
AssertAtn(ch) == Issue(ch, [ch EXCEPT !.atn = TRUE])
AbortCmd(ch)  == IF ch.cmd = "none" THEN ch
                 ELSE Issue(ch, [ch EXCEPT !.cmd = "none", !.int = "ABORT"])

-----------------------------------------------------------------------------
(* The phase the connected target asks for, "none" while it thinks.        *)
Phase ==
  LET t == tg[bus] IN
  IF bus = NULL \/ chip.ack THEN "none"
  ELSE IF t.msgs # <<>> THEN "MESS_IN"
  ELSE IF chip.atn /\ t.ph \notin {"away", "complete"} THEN "MESS_OUT"
  ELSE CASE t.ph = "command" -> "COMMAND"
         [] t.ph = "data"    -> IF Attr[t.cmd].in THEN "DATA_IN" ELSE "DATA_OUT"
         [] t.ph = "status"  -> "STATUS"
         [] OTHER            -> "none"

TransInfo(ch) == Issue(ch, [ch EXCEPT !.cmd = "info", !.xph = Phase])

(* A selection ends: the target answers, or does not.                      *)
Selected ==
  /\ chip.int = "none" /\ bus = NULL
  /\ chip.cmd \in {"select", "level2"}
  /\ chip.id \in Present
  /\ bus' = <<chip.id, chip.lun>>
  /\ IF chip.cmd = "select"
     THEN /\ chip' = [chip EXCEPT !.cmd = "none", !.int = "SELECT", !.atn = TRUE]
          /\ tg' = [tg EXCEPT ![bus'] = [Idle EXCEPT !.ph = "select"]]
     ELSE /\ chip' = [chip EXCEPT !.phs = \h20]
          /\ tg' = [tg EXCEPT ![bus'] = [Idle EXCEPT !.ph = "command", !.disc = chip.er]]
  /\ UNCHANGED <<agreed, outcome>>

SelectionTimeout ==
  /\ chip.int = "none" /\ bus = NULL
  /\ chip.cmd \in {"select", "level2"}
  /\ chip.id \notin Present \/ "slow" \in Quirks
  /\ chip' = [chip EXCEPT !.cmd = "none", !.int = "TIMEOUT"]
  /\ UNCHANGED <<bus, tg, agreed, outcome>>

(* A disconnected target reselects, before a selection or instead of one.  *)
Reselect(n) ==
  /\ chip.int = "none" /\ bus = NULL /\ chip.er
  /\ tg[n].ph = "disc"
  /\ bus' = n
  /\ tg' = [tg EXCEPT ![n].ph = "exec"]
  /\ chip' = [chip EXCEPT !.cmd = "none", !.int = "RESEL_AM", !.ack = TRUE, !.atn = FALSE]
  /\ UNCHANGED <<agreed, outcome>>

(* A phase the chip has not been told to serve ends its command with an    *)
(* interrupt, once.                                                        *)
DataGoesOn ==
  /\ chip.phs \in {\h30, \h45, \h46} /\ chip.count > 0
  /\ Phase = (IF chip.dpd THEN "DATA_IN" ELSE "DATA_OUT")
Expected ==
  \/ chip.cmd = "info" /\ Phase = chip.xph
  \/ chip.cmd = "level2" /\
       \/ Phase = "COMMAND" /\ chip.phs = \h20
       \/ DataGoesOn
       \/ Phase = "STATUS" /\ chip.phs \in {\h30, \h45, \h46}
       \/ Phase = "MESS_IN" /\ tg[bus].msgs = COMMAND_COMPLETE /\ chip.phs = \h50
       \/ Phase = "MESS_IN" /\ Head(tg[bus].msgs) = SAVE_POINTERS[1]
       \/ Phase = "MESS_IN" /\ tg[bus].msgs = DISCONNECT

ReportPhase ==
  /\ chip.int = "none" /\ bus # NULL /\ ~chip.quiet
  /\ Phase # "none" /\ ~Expected
  /\ chip' = [chip EXCEPT !.cmd = "none", !.int = Phase, !.quiet = TRUE]
  /\ UNCHANGED <<bus, tg, agreed, outcome>>

-----------------------------------------------------------------------------
(* The phases the chip serves.                                             *)

Ready(ph) == chip.int = "none" /\ bus # NULL /\ Phase = ph /\ Expected

TakeCommand ==
  /\ Ready("COMMAND")
  /\ tg' = [tg EXCEPT ![bus].ph = "exec", ![bus].cmd = chip.cdb]
  /\ chip' = IF chip.cmd = "level2" THEN [chip EXCEPT !.phs = \h30]
             ELSE [chip EXCEPT !.cmd = "none", !.count = 0]
  /\ UNCHANGED <<bus, agreed, outcome>>

(* What the target makes of the messages it takes.  An SDTR is answered,   *)
(* rejected (perhaps before it is read whole) or ignored, unless it is the *)
(* answer to the target's own.                                             *)
Answers == {"agree"} \cup ({"reject", "early", "mute"} \cap Quirks)

TakeMessages ==
  /\ Ready("MESS_OUT")
  /\ LET ms    == chip.out
         sdtr  == {m.off : m \in {x \in ToSet(ms) : x.msg = "SDTR"}}
         first == ms[1]
         n     == IF first.msg = "IDENTIFY" THEN <<bus[1], first.lun>> ELSE bus
         t     == IF first.msg = "IDENTIFY"
                  THEN [tg[bus] EXCEPT !.ph = "command", !.disc = first.disc]
                  ELSE tg[bus]
         own   == t.pend = "offered"
         off   == CHOOSE x \in sdtr : TRUE
         mode  == IF off > 0 THEN "sync" ELSE "async"
     IN \E a \in IF sdtr = {} \/ own THEN {"agree"} ELSE Answers :
          /\ bus' = n
          /\ tg' = [tg EXCEPT ![bus] = Idle, ![n] =
               IF own THEN [t EXCEPT !.pend = "none"]
               ELSE IF sdtr = {} \/ a = "mute" THEN t
               ELSE IF a = "agree" THEN [t EXCEPT !.msgs = SDTR(off), !.pend = mode]
               ELSE [t EXCEPT !.msgs = MESSAGE_REJECT, !.pend = "async"]]
          /\ agreed' = IF ~own THEN agreed
                       ELSE [agreed EXCEPT ![bus[1]] = IF sdtr = {} THEN "async" ELSE mode]
          /\ chip' = IF a = "early"
                     THEN [chip EXCEPT !.cmd = "none", !.count = 1]
                     ELSE [chip EXCEPT !.cmd = "none", !.count = 0, !.atn = FALSE,
                                       !.out = <<>>]
  /\ UNCHANGED outcome

(* k units pass; then the target goes on, or stops to think.               *)
MoveData(k) ==
  /\ Ready("DATA_IN") \/ Ready("DATA_OUT")
  /\ LET t == tg[bus] IN
     /\ k <= chip.count /\ k <= Total(t.cmd) - t.pos
     /\ \E ph \in IF k = chip.count /\ t.pos + k < Total(t.cmd)
                  THEN {"data", "exec"} ELSE {"exec"} :
          tg' = [tg EXCEPT ![bus].pos = @ + k, ![bus].ph = ph]
  /\ chip' = [chip EXCEPT !.count = @ - k,
                !.phs = IF chip.cmd = "level2" THEN \h46 ELSE @,
                !.cmd = IF chip.cmd = "info" /\ k = chip.count THEN "none" ELSE @]
  /\ UNCHANGED <<bus, agreed, outcome>>

(* A level-2 command leaves the status in the register of the LUN.         *)
TakeStatus ==
  /\ Ready("STATUS")
  /\ tg' = [tg EXCEPT ![bus].ph = "complete", ![bus].msgs = COMMAND_COMPLETE]
  /\ chip' = IF chip.cmd = "level2"
             THEN [chip EXCEPT !.phs = \h50, !.lun = tg[bus].st]
             ELSE [chip EXCEPT !.cmd = "none", !.byte = tg[bus].st]
  /\ UNCHANGED <<bus, agreed, outcome>>

(* A message byte, read singly or within a level-2 command.  The target's  *)
(* agreement to an SDTR holds from the last byte of its answer.            *)
TakeByte ==
  /\ Ready("MESS_IN") /\ chip.cmd = "info"
  /\ LET t == tg[bus]
         last == Len(t.msgs) = 1
     IN /\ chip' = [chip EXCEPT !.cmd = "none", !.int = "MSGIN", !.ack = TRUE,
                                !.byte = Head(t.msgs)]
        /\ tg' = [tg EXCEPT ![bus].msgs = Tail(t.msgs),
                    ![bus].saved = IF t.msgs[1] = SAVE_POINTERS[1] /\ t.ph = "away"
                                   THEN t.pos ELSE @,
                    ![bus].pend = IF last /\ @ # "offered" THEN "none" ELSE @]
        /\ agreed' = IF last /\ t.pend \in {"async", "sync"}
                     THEN [agreed EXCEPT ![bus[1]] = t.pend] ELSE agreed
  /\ UNCHANGED <<bus, outcome>>

Level2Message ==
  /\ Ready("MESS_IN") /\ chip.cmd = "level2"
  /\ LET t == tg[bus] IN
     CASE t.msgs = COMMAND_COMPLETE ->
            /\ chip' = [chip EXCEPT !.cmd = "none", !.int = "SEL_XFER_DONE", !.phs = \h60]
            /\ tg' = [tg EXCEPT ![bus] = Idle]
            /\ bus' = NULL
       [] t.msgs = DISCONNECT ->
            /\ chip' = [chip EXCEPT !.cmd = "none", !.int = "DISC", !.phs = \h43]
            /\ tg' = [tg EXCEPT ![bus].msgs = <<>>, ![bus].ph = "disc"]
            /\ bus' = NULL
       [] OTHER ->
            /\ chip' = [chip EXCEPT !.cmd = "none", !.int = "SDP", !.phs = \h41, !.ack = TRUE]
            /\ tg' = [tg EXCEPT ![bus].msgs = Tail(@), ![bus].saved = t.pos]
            /\ bus' = bus
  /\ UNCHANGED <<agreed, outcome>>

-----------------------------------------------------------------------------
(* The targets.                                                            *)

(* After the last message, acknowledged, the target lets go of the bus.    *)
ReleaseBus ==
  /\ chip.int = "none" /\ bus # NULL /\ ~chip.ack
  /\ tg[bus].msgs = <<>> /\ tg[bus].ph \in {"away", "complete"}
  /\ tg' = [tg EXCEPT ![bus] = IF @.ph = "away" THEN [@ EXCEPT !.ph = "disc"] ELSE Idle]
  /\ bus' = NULL
  /\ chip' = [chip EXCEPT !.cmd = "none", !.int = "DISC"]
  /\ UNCHANGED <<agreed, outcome>>

Free(ph) == bus # NULL /\ tg[bus].ph = ph /\ tg[bus].msgs = <<>> /\ ~chip.ack /\ ~chip.atn

StartData ==
  /\ Free("exec") /\ tg[bus].pos < Total(tg[bus].cmd)
  /\ tg' = [tg EXCEPT ![bus].ph = "data"]
  /\ UNCHANGED <<chip, bus, agreed, outcome>>

GiveStatus(st) ==
  /\ Free("exec")
  /\ tg[bus].pos = Total(tg[bus].cmd) \/ "short" \in Quirks
  /\ tg' = [tg EXCEPT ![bus].ph = "status", ![bus].st = st]
  /\ outcome' = [outcome EXCEPT ![tg[bus].cmd] = st]
  /\ UNCHANGED <<chip, bus, agreed>>

(* The data pointer is saved before a disconnection if it has moved.       *)
StartDisconnect ==
  /\ Free("exec") /\ tg[bus].disc
  /\ tg' = [tg EXCEPT ![bus].ph = "away",
       ![bus].msgs = (IF tg[bus].pos # tg[bus].saved THEN SAVE_POINTERS ELSE <<>>)
                     \o DISCONNECT]
  /\ UNCHANGED <<chip, bus, agreed, outcome>>

(* Once per command: a message nobody asked for, before the target has     *)
(* requested another phase.                                                *)
Quirk ==
  LET t == tg[bus]
      Say(msgs) == tg' = [tg EXCEPT ![bus].msgs = msgs, ![bus].odd = TRUE]
  IN
  /\ \/ Free("exec")
     \/ Free("command") /\ chip.int = "none" /\ ~chip.quiet /\ chip.cmd # "info"
  /\ ~t.odd
  /\ \/ "sdtr" \in Quirks /\ t.pend = "none"
        /\ tg' = [tg EXCEPT ![bus].msgs = SDTR(12), ![bus].odd = TRUE, ![bus].pend = "offered"]
     \/ "wide" \in Quirks /\ Say(WDTR)
     \/ "other" \in Quirks /\ Say(OtherExtended)
     \/ "unknown" \in Quirks /\ Say(UnknownMessage)
     \/ "restore" \in Quirks /\ t.ph = "exec" /\ t.pos = t.saved /\ Say(RESTORE_POINTERS)
     \/ "retry" \in Quirks /\ t.ph = "exec"
        /\ tg' = [tg EXCEPT ![bus].msgs = RESTORE_POINTERS, ![bus].odd = TRUE,
                            ![bus].pos = t.saved]
  /\ UNCHANGED <<chip, bus, agreed, outcome>>

(* A target goes off the bus, and forgets the command.                     *)
Drop ==
  /\ "drop" \in Quirks /\ bus # NULL /\ tg[bus].ph \in {"exec", "data"}
  /\ tg[bus].msgs = <<>> /\ ~chip.ack /\ chip.int = "none"
  /\ tg' = [tg EXCEPT ![bus] = Idle]
  /\ bus' = NULL
  /\ chip' = [chip EXCEPT !.cmd = "none", !.int = "UNEXP_DISC"]
  /\ UNCHANGED <<agreed, outcome>>
===============================================================================
