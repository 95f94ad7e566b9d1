-------------------------------- MODULE Wd33c93 -------------------------------
(***************************************************************************)
(* The Linux driver of the WD33C93 (wd33c93.c), with the DMA set-up and    *)
(* stop of the A3000 (a3000.c).  hd is struct WD33C93_hostdata and scp the *)
(* SCp of each command; the queues are sequences, busy the set of busy     *)
(* nexus, incoming_msg the bytes read of an unfinished extended message,   *)
(* outgoing_msg the messages of outgoing_len > 0 bytes.                    *)
(***************************************************************************)
EXTENDS ScsiBus

ASSUME DriverAssumption ==
  \A s \in Setups :
    /\ s.level2 \in 0..7 /\ s.disconnect \in 0..2 /\ s.no_sync \subseteq 0..6
    /\ s.settled \in BOOLEAN
    /\ s.ways \subseteq {"direct", "bounce", "fail"} /\ s.ways # {}
    /\ s.settings \subseteq {"never", "always", "nodma", "resync", "nosync"}

VARIABLES
  hd,       \* struct WD33C93_hostdata
  scp,      \* per command: its SCp
  engine,   \* the A3000's DMA: off (cmd = NULL), or where it is in which command
  pc,       \* where the CPU is in the driver, "idle" when in none of it
  sr,       \* the interrupt being handled: sr, phs and the reselecting nexus
  req,      \* per command, the mid-layer's view: its state and its result
  eh        \* wd33c93_abort: how far it is, for which command, what it returns

driverVars == <<hd, scp, engine, pc, sr, req, eh>>
targetVars == <<bus, tg, agreed, outcome>>

L2_NONE == 1
L2_BASIC == 3
L2_DATA == 4
L2_RESELECT == 6
DIS_NEVER == 0
DIS_ADAPTIVE == 1
DIS_ALWAYS == 2

NotAborting == [at |-> "none", cmd |-> NULL, ok |-> FALSE]
EngineOff == [cmd |-> NULL, at |-> 0, via |-> "direct"]

DmaWays == setup.ways  \* what dma_setup may find

(* wd33c93_init, with the settings of the command line.  settled: the      *)
(* negotiations are over, as after a scan of the bus.                      *)
HostInit ==
  [input_Q |-> <<>>, selecting |-> NULL, connected |-> NULL, disconnected_Q |-> <<>>,
   busy |-> {}, state |-> "S_UNCONNECTED", dma |-> "D_DMA_OFF",
   level2 |-> setup.level2, disconnect |-> setup.disconnect, no_dma |-> FALSE,
   no_sync |-> setup.no_sync,
   incoming_msg |-> <<>>, outgoing_msg |-> <<>>, bounce |-> FALSE,
   sync_xfer |-> [i \in Ids |-> "async"],
   sync_stat |-> [i \in Ids |-> IF setup.settled THEN "SS_SET" ELSE "SS_UNSET"]]

(* SCp as queuecommand fills it in: left is this_residual, more is         *)
(* buffers_residual, ptr the offset in the data of SCp.ptr.                *)
FreshSCp(c) ==
  [phase |-> FALSE, Status |-> ILLEGAL, ptr |-> 0, left |-> Attr[c].blen,
   more |-> IF Attr[c].nbufs = 0 THEN 0 ELSE Attr[c].nbufs - 1]

(* What a command is returned with: a host byte and a status byte.         *)
Result(host, status) == [host |-> host, status |-> status]
NoResult == Result("none", NONE)

DriverInit ==
  /\ hd = HostInit
  /\ scp = [c \in Cmds |-> FreshSCp(c)]
  /\ engine = EngineOff
  /\ pc = "idle"
  /\ sr = [csr |-> "none", phs |-> 0, src |-> NULL]
  /\ req = [c \in Cmds |-> [st |-> "free", res |-> NoResult]]
  /\ eh = NotAborting

-----------------------------------------------------------------------------
(* dma_setup: a bounce buffer is taken when the address does not suit the  *)
(* DMA; without memory for one, PIO is used.                               *)
Ways(c) == IF scp[c].left = 0 THEN {"direct"} ELSE DmaWays
DmaSetup(h, via) ==
  [h EXCEPT !.bounce = CASE via = "direct" -> @ [] via = "bounce" -> TRUE [] OTHER -> FALSE,
            !.dma = IF via = "fail" THEN @ ELSE "D_DMA_RUNNING"]
EngineFor(c, at, via) ==
  IF via = "fail" THEN EngineOff ELSE [cmd |-> c, at |-> at, via |-> via]

(* dma_stop: the bounce buffer is copied back and freed if status is set.  *)
DmaStop(h, status) == [h EXCEPT !.dma = "D_DMA_OFF", !.bounce = @ /\ ~status]

(* The WD33C93 moves data with the A3000's DMA, or by hand (transfer_pio). *)
DmaMoves(k) ==
  /\ ~chip.polled /\ engine.cmd # NULL
  /\ MoveData(k)
  /\ engine' = [engine EXCEPT !.at = @ + k]
  /\ UNCHANGED <<hd, scp, pc, sr, req, eh>>
PioMoves(k) ==
  /\ chip.polled /\ pc = "pio"
  /\ MoveData(k)
  /\ UNCHANGED driverVars

-----------------------------------------------------------------------------
(* wd33c93_execute                                                         *)

First(q, wanted) ==           \* the place in q of the first of those wanted, or 0
  LET places == {i \in DOMAIN q : q[i] \in wanted}
  IN IF places = {} THEN 0 ELSE Min(places)

Runnable == First(hd.input_Q, {c \in Cmds : NexusOf(c) \notin hd.busy})
CannotStart == hd.selecting # NULL \/ hd.connected # NULL \/ Runnable = 0

(* The rules for disconnection; rest is what stays in input_Q.             *)
OthersQueued(c, rest) == \E x \in ToSet(rest) : NexusOf(x) # NexusOf(c)
MakesOthersDisconnectable(c, rest) ==
  /\ hd.disconnect = DIS_ADAPTIVE /\ ~Attr[c].tape /\ hd.disconnected_Q = <<>>
  /\ OthersQueued(c, rest)
AllowDisconnect(c, rest) ==
  \/ hd.disconnect = DIS_ALWAYS
  \/ /\ hd.disconnect = DIS_ADAPTIVE
     /\ Attr[c].tape \/ hd.disconnected_Q # <<>> \/ OthersQueued(c, rest)

(* A transfer count of 0 "guarantees a DATA_PHASE interrupt".              *)
Mutant_CountKept(ch) == ch
NoCount(ch) == [ch EXCEPT !.count = 0]

(* Select-with-ATN, when there is an SDTR to send first.                   *)
SelectsOnly(c) == hd.level2 = L2_NONE \/ hd.sync_stat[Attr[c].id] = "SS_UNSET"
StartSelect(c, h, ch) ==
  /\ SelectsOnly(c)
  /\ hd' = [h EXCEPT !.selecting = c, !.state = "S_SELECTING",
              !.sync_stat[Attr[c].id] = IF @ = "SS_UNSET" THEN "SS_FIRST" ELSE @]
  /\ chip' = SelAtn(NoCount(ch))
  /\ UNCHANGED engine

(* Select-with-ATN-and-transfer, the DMA set up ahead of time for a        *)
(* command that may not disconnect.                                        *)
StartLevel2(c, h, ch) ==
  /\ ~SelectsOnly(c)
  /\ LET ready == [h EXCEPT !.connected = c, !.state = "S_RUNNING_LEVEL2"] IN
     IF ch.er \/ hd.no_dma
     THEN /\ hd' = ready
          /\ chip' = SelAtnXfer([NoCount(ch) EXCEPT !.cdb = c], 0)
          /\ UNCHANGED engine
     ELSE \E via \in Ways(c) :
            /\ hd' = DmaSetup(ready, via)
            /\ engine' = EngineFor(c, scp[c].ptr, via)
            /\ chip' = SelAtnXfer(IF via = "fail" THEN [NoCount(ch) EXCEPT !.cdb = c]
                                  ELSE [ch EXCEPT !.count = scp[c].left, !.cdb = c,
                                                  !.polled = FALSE], 0)

Start ==
  LET c    == hd.input_Q[Runnable]
      rest == RemoveAt(hd.input_Q, Runnable)
      er   == AllowDisconnect(c, rest)
      h    == [hd EXCEPT !.input_Q = rest, !.busy = @ \cup {NexusOf(c)}]
      ch   == [chip EXCEPT !.id = Attr[c].id, !.lun = Attr[c].lun, !.dpd = Attr[c].in,
                           !.er = er, !.sync = hd.sync_xfer[Attr[c].id]]
  IN /\ scp' = [x \in Cmds |->
          IF x = c THEN [scp[x] EXCEPT !.phase = er]
          ELSE [scp[x] EXCEPT !.phase =
                  @ \/ (x \in ToSet(rest) /\ MakesOthersDisconnectable(c, rest))]]
     /\ StartSelect(c, h, ch) \/ StartLevel2(c, h, ch)

Execute ==
  /\ pc = "execute"
  /\ pc' = "idle"
  /\ IF CannotStart THEN UNCHANGED <<hd, scp, engine, chip>> ELSE Start
  /\ UNCHANGED <<sr, req, eh, targetVars>>

(* wd33c93_queuecommand: at the end of input_Q, a REQUEST SENSE before it. *)
QueueCommand(c) ==
  /\ pc = "idle" /\ req[c].st \in {"free", "done"}
  /\ scp' = [scp EXCEPT ![c] = FreshSCp(c)]
  /\ hd' = [hd EXCEPT !.input_Q = IF Attr[c].sense THEN <<c>> \o @ ELSE Append(@, c)]
  /\ req' = [req EXCEPT ![c] = [st |-> "queued", res |-> NoResult]]
  /\ outcome' = [outcome EXCEPT ![c] = NONE]
  /\ pc' = "execute"
  /\ UNCHANGED <<engine, sr, eh, chip, bus, tg, agreed>>

-----------------------------------------------------------------------------
(* wd33c93_intr.  Interrupt is its entry: the status register is read and  *)
(* so cleared, a running DMA is stopped and SCp brought up to date.  Each  *)
(* case of the switch is an action; the phases the driver polls for (pio,  *)
(* status, message) end in actions of their own.                           *)

Moved(c) == [scp[c] EXCEPT !.left = chip.count, !.ptr = @ + scp[c].left - chip.count]

Interrupt ==
  /\ pc = "idle" /\ chip.int # "none" /\ eh.at = "none"
  /\ sr' = [csr |-> chip.int, phs |-> chip.phs, src |-> bus]
  /\ chip' = [chip EXCEPT !.int = "none"]
  /\ IF hd.dma = "D_DMA_RUNNING"
     THEN /\ hd' = DmaStop(hd, TRUE)
          /\ engine' = EngineOff
          /\ scp' = [scp EXCEPT ![hd.connected] = Moved(hd.connected)]
     ELSE UNCHANGED <<hd, engine, scp>>
  /\ pc' = "handle"
  /\ UNCHANGED <<req, eh, targetVars>>

Case(csr) == pc = "handle" /\ sr.csr = csr

(* The same for a case that uses the connected command: without one it     *)
(* follows a NULL pointer, and the driver takes no more steps.             *)
CommandCase(csr) == Case(csr) /\ hd.connected # NULL
Rest == <<sr, eh, targetVars>>

(* scsi_done: the mid-layer has given up a command that timed out.         *)
ScsiDone(c, res) ==
  req' = IF req[c].st = "queued" THEN [req EXCEPT ![c] = [st |-> "done", res |-> res]]
         ELSE req

(* The result of a command that has come to its end.                       *)
Mutant_NoSenseRule(c, status) == Result("DID_OK", status)
Finished(c, status) ==
  IF Attr[c].sense /\ status # GOOD THEN Result("DID_ERROR", GOOD)
  ELSE Result("DID_OK", status)

(* The end of a connection.  Reselection is enabled again at each of them  *)
(* (SRCID_ER) but the time-out of a selection, and input_Q looked at.      *)
Mutant_StaysBusy(h, c) == [h EXCEPT !.connected = NULL, !.state = "S_UNCONNECTED"]
Unconnected(h, c) ==
  [h EXCEPT !.connected = NULL, !.busy = @ \ {NexusOf(c)}, !.state = "S_UNCONNECTED"]
Mutant_ReselectionOff == chip
EnableReselection == [chip EXCEPT !.er = TRUE]
Mutant_NoRestart == pc' = "idle"
Restart == pc' = "execute"

OnTimeout ==
  /\ Case("TIMEOUT")
  /\ LET level2 == hd.state = "S_RUNNING_LEVEL2"
         c == IF level2 THEN hd.connected ELSE hd.selecting
         h == [hd EXCEPT !.busy = @ \ {NexusOf(c)}, !.state = "S_UNCONNECTED"]
     IN /\ hd' = IF level2 THEN [h EXCEPT !.connected = NULL]
                 ELSE [h EXCEPT !.selecting = NULL]
        /\ ScsiDone(c, Result("DID_NO_CONNECT", GOOD))
  /\ Restart
  /\ UNCHANGED <<scp, engine, chip, Rest>>

(* The IDENTIFY, and the SDTR that goes with a target's first command.     *)
Identify(c) == [msg |-> "IDENTIFY", lun |-> Attr[c].lun, disc |-> scp[c].phase]
Sdtr(off)   == [msg |-> "SDTR", off |-> off]
Plain(m)    == [msg |-> m]
OPTIMUM_SX_OFF == 12

OnSelect ==
  /\ Case("SELECT")
  /\ LET c  == hd.selecting
         id == Attr[c].id
         first == hd.sync_stat[id] = "SS_FIRST"
         off == IF id \in hd.no_sync THEN 0 ELSE OPTIMUM_SX_OFF
     IN hd' = [hd EXCEPT !.connected = c, !.selecting = NULL, !.state = "S_CONNECTED",
                 !.outgoing_msg = <<Identify(c)>> \o IF first THEN <<Sdtr(off)>> ELSE <<>>,
                 !.sync_stat[id] = IF first THEN "SS_WAITING" ELSE @]
  /\ pc' = "idle"
  /\ UNCHANGED <<scp, engine, chip, req, Rest>>

(* transfer_bytes: the next scatter-gather buffer when the last one is     *)
(* used up, then DMA, within a level-2 command where level2 asks for it,   *)
(* or PIO.                                                                 *)
NextBuffer(c) ==
  IF scp[c].left = 0 /\ scp[c].more > 0
  THEN [scp[c] EXCEPT !.left = Attr[c].blen, !.more = @ - 1,
                      !.ptr = (Attr[c].nbufs - scp[c].more) * Attr[c].blen]
  ELSE scp[c]

ResumesData(c) == hd.level2 >= L2_DATA \/ (hd.level2 = L2_BASIC /\ ~scp[c].phase)

Connected(h) ==
  [h EXCEPT !.state = IF @ = "S_RUNNING_LEVEL2" THEN @ ELSE "S_CONNECTED"]

TransferNothing ==             \* "avoid bogus setups"
  /\ hd' = Connected(hd)
  /\ pc' = "idle"
  /\ UNCHANGED <<engine, chip>>

TransferByDma(c, s, via) ==
  LET ch == [chip EXCEPT !.sync = hd.sync_xfer[Attr[c].id], !.polled = FALSE,
                         !.count = s.left]
      h  == DmaSetup(hd, via)
  IN /\ engine' = EngineFor(c, s.ptr, via)
     /\ chip' = IF ResumesData(c) THEN SelAtnXfer(ch, \h45) ELSE TransInfo(ch)
     /\ hd' = IF ResumesData(c) THEN [h EXCEPT !.state = "S_RUNNING_LEVEL2"] ELSE Connected(h)
     /\ pc' = "idle"

TransferByPio(c, s) ==
  /\ chip' = TransInfo([chip EXCEPT !.sync = hd.sync_xfer[Attr[c].id], !.polled = TRUE,
                                    !.count = s.left])
  /\ hd' = Connected([hd EXCEPT !.bounce = @ /\ hd.no_dma])
  /\ pc' = "pio"
  /\ UNCHANGED engine

OnData ==
  /\ CommandCase("DATA_IN") \/ CommandCase("DATA_OUT")
  /\ LET c == hd.connected
         s == NextBuffer(c)
     IN /\ scp' = [scp EXCEPT ![c] = s]
        /\ \/ s.left = 0 /\ TransferNothing
           \/ s.left > 0 /\ ~hd.no_dma /\ \E via \in DmaWays \ {"fail"} : TransferByDma(c, s, via)
           \/ s.left > 0 /\ (hd.no_dma \/ "fail" \in DmaWays) /\ TransferByPio(c, s)
  /\ UNCHANGED <<req, Rest>>

PioDone ==
  /\ pc = "pio" /\ chip.int # "none"
  /\ scp' = [scp EXCEPT ![hd.connected] = Moved(hd.connected)]
  /\ pc' = "idle"
  /\ UNCHANGED <<hd, engine, chip, req, Rest>>

(* The CDB, or the messages, sent by PIO; NOP when there is none to send.  *)
OnCommand ==
  /\ CommandCase("COMMAND")
  /\ chip' = TransInfo([chip EXCEPT !.polled = TRUE, !.count = 1, !.cdb = hd.connected])
  /\ hd' = [hd EXCEPT !.state = "S_CONNECTED"]
  /\ pc' = "sent"
  /\ UNCHANGED <<scp, engine, req, Rest>>

OnMessageOut ==
  /\ Case("MESS_OUT")
  /\ LET out == IF hd.outgoing_msg = <<>> THEN <<Plain("NOP")>> ELSE hd.outgoing_msg
     IN chip' = TransInfo([chip EXCEPT !.polled = TRUE, !.count = Len(out), !.out = out])
  /\ hd' = [hd EXCEPT !.outgoing_msg = <<>>, !.state = "S_CONNECTED"]
  /\ pc' = "sent"
  /\ UNCHANGED <<scp, engine, req, Rest>>

SentDone ==
  /\ pc = "sent" /\ chip.int # "none"
  /\ pc' = "idle"
  /\ UNCHANGED <<hd, scp, engine, chip, req, Rest>>

(* read_1_byte: begun here, its byte used when the chip interrupts.        *)
ReadByte(at) == chip' = TransInfo([chip EXCEPT !.polled = TRUE]) /\ pc' = at
Cleared == [chip EXCEPT !.int = "none"]

OnStatus ==
  /\ CommandCase("STATUS")
  /\ ReadByte("status")
  /\ UNCHANGED <<hd, scp, engine, req, Rest>>

StatusRead ==
  /\ pc = "status" /\ chip.int # "none"
  /\ scp' = [scp EXCEPT ![hd.connected].Status = chip.byte]
  /\ IF hd.level2 >= L2_BASIC
     THEN /\ hd' = [hd EXCEPT !.state = "S_RUNNING_LEVEL2"]
          /\ chip' = SelAtnXfer(Cleared, \h50)
     ELSE /\ hd' = [hd EXCEPT !.state = "S_CONNECTED"]
          /\ UNCHANGED chip
  /\ pc' = "idle"
  /\ UNCHANGED <<engine, req, Rest>>

OnMessageIn ==
  /\ CommandCase("MESS_IN")
  /\ ReadByte("message")
  /\ UNCHANGED <<hd, scp, engine, req, Rest>>

(* The message byte, with those before it if the message is extended.      *)
Incoming == Append(hd.incoming_msg, chip.byte)
Extended == Incoming[1] = 1
Mutant_OneShort == Len(Incoming) >= 3 /\ Len(Incoming) = Incoming[2] + 1
WholeMessage == Len(Incoming) >= 3 /\ Len(Incoming) = Incoming[2] + 2

MessageRead(handles) ==
  /\ pc = "message" /\ chip.int # "none"
  /\ handles
  /\ pc' = "idle"
  /\ UNCHANGED <<scp, engine, req, Rest>>

Is(msg) == ~Extended /\ Incoming = msg
Accept(state) ==
  /\ chip' = NegateAck(Cleared)
  /\ hd' = [hd EXCEPT !.state = state]
Mutant_KeepsMessage(m) ==
  /\ chip' = NegateAck(AssertAtn(Cleared))
  /\ hd' = [hd EXCEPT !.outgoing_msg = <<m>>, !.state = "S_CONNECTED"]
Answer(m) ==                  \* with ATN raised, to be asked for the answer
  /\ chip' = NegateAck(AssertAtn(Cleared))
  /\ hd' = [hd EXCEPT !.outgoing_msg = <<m>>, !.state = "S_CONNECTED", !.incoming_msg = <<>>]

OnComplete   == MessageRead(Is(COMMAND_COMPLETE) /\ Accept("S_PRE_CMP_DISC"))
OnSave       == MessageRead(Is(SAVE_POINTERS) /\ Accept("S_CONNECTED"))
Mutant_Completes == MessageRead(Is(DISCONNECT) /\ Accept("S_PRE_CMP_DISC"))
OnDisconnect == MessageRead(Is(DISCONNECT) /\ Accept("S_PRE_TMP_DISC"))

OnRestore ==
  MessageRead(
    /\ Is(RESTORE_POINTERS)
    /\ IF hd.level2 >= L2_BASIC
       THEN /\ chip' = SelAtnXfer(Cleared, \h45)
            /\ hd' = [hd EXCEPT !.state = "S_RUNNING_LEVEL2"]
       ELSE Accept("S_CONNECTED"))

OnReject ==
  LET id == Attr[hd.connected].id
      waiting == hd.sync_stat[id] = "SS_WAITING"
  IN MessageRead(
       /\ Is(MESSAGE_REJECT)
       /\ chip' = NegateAck(Cleared)
       /\ hd' = [hd EXCEPT !.state = "S_CONNECTED",
                   !.sync_stat[id] = IF waiting THEN "SS_SET" ELSE @,
                   !.sync_xfer[id] = IF waiting THEN "async" ELSE @])

OnUnknown ==
  MessageRead(
    /\ ~Extended
    /\ Incoming \notin {COMMAND_COMPLETE, SAVE_POINTERS, RESTORE_POINTERS, DISCONNECT,
                        MESSAGE_REJECT}
    /\ Answer(Plain("MESSAGE_REJECT")))

OnExtendedByte ==
  MessageRead(
    /\ Extended /\ ~WholeMessage
    /\ chip' = NegateAck(Cleared)
    /\ hd' = [hd EXCEPT !.incoming_msg = Incoming, !.state = "S_CONNECTED"])

(* The answer to the driver's SDTR sets the transfers of the target; an    *)
(* SDTR of the target's own is answered with an offset of 0.  The offset   *)
(* of a message too short to hold one is a byte left from another.         *)
OnSdtr ==
  LET id   == Attr[hd.connected].id
      modes == IF Len(Incoming) < 5 THEN {"sync", "async"}
               ELSE IF Incoming[5] # 0 THEN {"sync"} ELSE {"async"}
      Agree(h, m) == [h EXCEPT !.sync_xfer[id] = m, !.sync_stat[id] = "SS_SET",
                        !.incoming_msg = <<>>, !.state = "S_CONNECTED"]
  IN MessageRead(
       /\ Extended /\ WholeMessage /\ Incoming[3] = 1
       /\ IF hd.sync_stat[id] = "SS_WAITING"
          THEN /\ chip' = NegateAck(Cleared)
               /\ \E mode \in modes : hd' = Agree(hd, mode)
          ELSE /\ chip' = NegateAck(AssertAtn(Cleared))
               /\ hd' = Agree([hd EXCEPT !.outgoing_msg = <<Sdtr(0)>>], "async"))

OnWdtr == MessageRead(Extended /\ WholeMessage /\ Incoming[3] = 3 /\ Answer(Plain("WDTR")))
OnOtherExtended ==
  MessageRead(Extended /\ WholeMessage /\ Incoming[3] \notin {1, 3}
              /\ Answer(Plain("MESSAGE_REJECT")))

-----------------------------------------------------------------------------
OnSelXferDone ==
  /\ CommandCase("SEL_XFER_DONE") /\ sr.phs = \h60
  /\ LET c == hd.connected
         status == IF scp[c].Status = ILLEGAL THEN chip.lun ELSE scp[c].Status
     IN /\ scp' = [scp EXCEPT ![c].Status = status]
        /\ hd' = Unconnected(hd, c)
        /\ ScsiDone(c, Finished(c, status))
  /\ chip' = EnableReselection
  /\ Restart
  /\ UNCHANGED <<engine, Rest>>

OnUnexpDisc ==
  /\ CommandCase("UNEXP_DISC")
  /\ hd' = Unconnected(hd, hd.connected)
  /\ ScsiDone(hd.connected, Finished(hd.connected, scp[hd.connected].Status))
  /\ chip' = EnableReselection
  /\ Restart
  /\ UNCHANGED <<scp, engine, Rest>>

AlreadyDisconnected ==
  /\ Case("UNEXP_DISC") /\ hd.connected = NULL
  /\ hd' = [hd EXCEPT !.state = "S_UNCONNECTED"]
  /\ chip' = EnableReselection
  /\ pc' = "idle"
  /\ UNCHANGED <<scp, engine, req, Rest>>

Disconnected(h, c) ==
  [h EXCEPT !.disconnected_Q = <<c>> \o @, !.connected = NULL, !.state = "S_UNCONNECTED"]

(* The last case is of no target the driver knows to be disconnecting.     *)
OnDisc ==
  /\ Case("DISC")
  /\ LET c == hd.connected
         state == IF c = NULL THEN "S_UNCONNECTED" ELSE hd.state
         over == state = "S_PRE_CMP_DISC"
     IN /\ hd' = IF over THEN Unconnected(hd, c)
                 ELSE IF state \in {"S_PRE_TMP_DISC", "S_RUNNING_LEVEL2"} THEN Disconnected(hd, c)
                 ELSE [hd EXCEPT !.state = "S_UNCONNECTED"]
        /\ IF over THEN ScsiDone(c, Finished(c, scp[c].Status)) ELSE UNCHANGED req
  /\ chip' = EnableReselection
  /\ Restart
  /\ UNCHANGED <<scp, engine, Rest>>

(* Save-data-pointers within a level-2 command: the command is resumed.    *)
OnSdp ==
  /\ Case("SDP")
  /\ hd' = [hd EXCEPT !.state = "S_RUNNING_LEVEL2"]
  /\ chip' = SelAtnXfer(chip, \h41)
  /\ pc' = "idle"
  /\ UNCHANGED <<scp, engine, req, Rest>>

(* A reselection.  The command whose selection it beat goes back to the    *)
(* head of input_Q; the one that is reconnecting is found by id and LUN.   *)
Mutant_AtTheEnd(h, c) ==
  [h EXCEPT !.input_Q = Append(@, c), !.busy = @ \ {NexusOf(c)}]
Requeued(h, c) ==
  [h EXCEPT !.input_Q = <<c>> \o @, !.busy = @ \ {NexusOf(c)}]

Mutant_LoserLost(h) ==
  IF h.level2 <= L2_NONE /\ h.selecting # NULL
  THEN Requeued([h EXCEPT !.selecting = NULL], h.selecting) ELSE h
PutBackLoser(h) ==
  IF h.level2 <= L2_NONE
  THEN IF h.selecting = NULL THEN h
       ELSE Requeued([h EXCEPT !.selecting = NULL], h.selecting)
  ELSE IF h.connected = NULL THEN h ELSE Requeued(h, h.connected)

Mutant_TakesFirst == IF hd.disconnected_Q = <<>> THEN 0 ELSE 1
Reconnecting == First(hd.disconnected_Q, {c \in Cmds : NexusOf(c) = sr.src})

(* An intrusive reselection, while a level-2 command is under way, hangs   *)
(* the driver: no action.                                                  *)
Intrusive == hd.level2 > L2_NONE /\ hd.connected # NULL /\ sr.phs # 0

OnReselect ==
  /\ Case("RESEL_AM") /\ ~Intrusive
  /\ Reconnecting # 0
  /\ LET c  == hd.disconnected_Q[Reconnecting]
         h  == [PutBackLoser(hd) EXCEPT !.connected = c,
                                        !.disconnected_Q = RemoveAt(@, Reconnecting)]
         ch == [chip EXCEPT !.id = Attr[c].id, !.dpd = Attr[c].in]
     IN IF hd.level2 >= L2_RESELECT
        THEN /\ hd' = [h EXCEPT !.state = "S_RUNNING_LEVEL2"]
             /\ chip' = SelAtnXfer(NoCount(ch), \h45)
        ELSE /\ hd' = [h EXCEPT !.state = "S_CONNECTED"]
             /\ chip' = NegateAck(ch)
  /\ pc' = "idle"
  /\ UNCHANGED <<scp, engine, req, Rest>>

(* A reselection for no command the driver knows of.                       *)
OnStrayReselect ==
  /\ Case("RESEL_AM") /\ ~Intrusive
  /\ Reconnecting = 0
  /\ hd' = PutBackLoser(hd)
  /\ chip' = IF hd.level2 < L2_RESELECT THEN NegateAck(chip) ELSE chip
  /\ pc' = "idle"
  /\ UNCHANGED <<scp, engine, req, Rest>>

HandleInterrupt ==
  \/ OnTimeout \/ OnSelect \/ OnData \/ OnCommand \/ OnMessageOut \/ OnStatus
  \/ OnMessageIn \/ OnSelXferDone \/ OnUnexpDisc \/ AlreadyDisconnected
  \/ OnDisc \/ OnSdp \/ OnReselect \/ OnStrayReselect
PollEnds ==
  \/ PioDone \/ SentDone \/ StatusRead \/ OnComplete \/ OnSave \/ OnDisconnect
  \/ OnRestore \/ OnReject \/ OnUnknown \/ OnExtendedByte \/ OnSdtr \/ OnWdtr
  \/ OnOtherExtended

-----------------------------------------------------------------------------
(* wd33c93_abort, with the chip's interrupt line disabled.  What it does   *)
(* is not locked against queuecommand; eh says how far it is.              *)

Abort(c) ==
  /\ pc = "idle" /\ eh.at = "none"
  /\ req[c].st = "aborting"
  /\ eh' = [at |-> "find", cmd |-> c, ok |-> FALSE]
  /\ UNCHANGED <<hd, scp, engine, pc, sr, req, busVars>>

Aborting(at) == pc = "idle" /\ eh.at = at

(* SUCCESS ends the command for the mid-layer, FAILED leaves it to a reset. *)
AbortReturns(ok) ==
  /\ req' = [req EXCEPT ![eh.cmd] =
               IF ok THEN [st |-> "done", res |-> Result("DID_ABORT", GOOD)]
               ELSE [@ EXCEPT !.st = "failed"]]
  /\ eh' = NotAborting

AbortQueued ==
  /\ Aborting("find") /\ eh.cmd \in ToSet(hd.input_Q)
  /\ hd' = [hd EXCEPT !.input_Q = RemoveAt(@, First(@, {eh.cmd}))]
  /\ AbortReturns(TRUE)
  /\ UNCHANGED <<scp, engine, pc, sr, busVars>>

Mutant_DmaRuns == UNCHANGED <<hd, engine>>
AbortStopsDma ==
  IF hd.dma = "D_DMA_RUNNING"
  THEN hd' = DmaStop(hd, FALSE) /\ engine' = EngineOff
  ELSE UNCHANGED <<hd, engine>>

AbortConnected ==
  /\ Aborting("find") /\ hd.connected = eh.cmd /\ eh.cmd \notin ToSet(hd.input_Q)
  /\ AbortStopsDma
  /\ chip' = AbortCmd([chip EXCEPT !.polled = TRUE])
  /\ eh' = [eh EXCEPT !.at = "flush"]
  /\ UNCHANGED <<scp, pc, sr, req, targetVars>>

(* Any interrupt, or the time, ends the wait; DISCONNECT frees the bus.    *)
Mutant_NoDisconnect ==
  /\ Aborting("flush")
  /\ chip' = [chip EXCEPT !.int = "none", !.cmd = "none"]
  /\ eh' = [eh EXCEPT !.at = "finish"]
  /\ UNCHANGED <<hd, scp, engine, pc, sr, req, targetVars>>
AbortFlush ==
  /\ Aborting("flush")
  /\ chip' = [chip EXCEPT !.int = "none", !.cmd = "none", !.ack = FALSE, !.atn = FALSE]
  /\ bus' = NULL
  /\ tg' = IF bus = NULL THEN tg ELSE [tg EXCEPT ![bus] = Idle]
  /\ eh' = [eh EXCEPT !.at = "finish"]
  /\ UNCHANGED <<hd, scp, engine, pc, sr, req, agreed, outcome>>

AbortFinish ==
  /\ Aborting("finish")
  /\ chip' = Cleared
  /\ hd' = Unconnected(hd, eh.cmd)
  /\ eh' = [eh EXCEPT !.at = "check", !.ok = TRUE]
  /\ UNCHANGED <<scp, engine, pc, sr, req, targetVars>>

AbortDisconnected ==
  /\ Aborting("find") /\ eh.cmd \in ToSet(hd.disconnected_Q)
  /\ AbortReturns(FALSE)
  /\ UNCHANGED <<hd, scp, engine, pc, sr, busVars>>

AbortUnknown ==
  /\ Aborting("find") /\ hd.connected # eh.cmd
  /\ eh.cmd \notin ToSet(hd.input_Q) \cup ToSet(hd.disconnected_Q)
  /\ eh' = [eh EXCEPT !.at = "check"]
  /\ UNCHANGED <<hd, scp, engine, pc, sr, req, busVars>>

(* wd33c93_execute from wd33c93_abort: the test, then the start.           *)
AbortChecks ==
  /\ Aborting("check")
  /\ IF CannotStart THEN AbortReturns(eh.ok)
     ELSE eh' = [eh EXCEPT !.at = "start"] /\ UNCHANGED req
  /\ UNCHANGED <<hd, scp, engine, pc, sr, busVars>>

AbortStarts ==
  /\ Aborting("start") /\ Runnable # 0
  /\ Start
  /\ AbortReturns(eh.ok)
  /\ UNCHANGED <<pc, sr, targetVars>>

AbortSteps ==
  \/ AbortQueued \/ AbortConnected \/ AbortFlush \/ AbortFinish
  \/ AbortDisconnected \/ AbortUnknown \/ AbortChecks \/ AbortStarts

(* wd33c93_host_reset and reset_wd33c93: the driver forgets everything and *)
(* the chip is reset; the targets are not.  The mid-layer resets the host  *)
(* when no command is outstanding but those it has given up.               *)
Mutant_WaitsOn(h) ==
  [h EXCEPT !.input_Q = <<>>, !.selecting = NULL, !.connected = NULL, !.busy = {},
            !.state = "S_UNCONNECTED", !.dma = "D_DMA_OFF", !.incoming_msg = <<>>,
            !.outgoing_msg = <<>>, !.sync_xfer = [i \in Ids |-> "async"],
            !.sync_stat = [i \in Ids |-> "SS_UNSET"]]
Forgotten(h) ==
  [h EXCEPT !.input_Q = <<>>, !.selecting = NULL, !.connected = NULL, !.busy = {},
            !.disconnected_Q = <<>>, !.state = "S_UNCONNECTED", !.dma = "D_DMA_OFF",
            !.incoming_msg = <<>>, !.outgoing_msg = <<>>,
            !.sync_xfer = [i \in Ids |-> "async"],
            !.sync_stat = [i \in Ids |-> "SS_UNSET"]]

HostReset ==
  /\ pc = "idle" /\ eh.at = "none"
  /\ \E c \in Cmds : req[c].st = "failed"
  /\ \A c \in Cmds : req[c].st \notin {"queued", "aborting"}
  /\ hd' = Forgotten(hd)
  /\ engine' = EngineOff
  /\ chip' = ChipReset
  /\ bus' = NULL
  /\ tg' = IF bus = NULL THEN tg ELSE [tg EXCEPT ![bus] = Idle]
  /\ req' = [c \in Cmds |->
               IF req[c].st = "failed"
               THEN [st |-> "done", res |-> Result("DID_RESET", GOOD)] ELSE req[c]]
  /\ UNCHANGED <<scp, pc, sr, eh, agreed, outcome>>

(* wd33c93_write_info, one keyword; a target whose setting changes is to   *)
(* negotiate again.                                                        *)
Resync(h, ids) == [h EXCEPT !.sync_stat = [i \in Ids |-> IF i \in ids THEN "SS_UNSET" ELSE @[i]]]

WriteInfo ==
  /\ pc = "idle"
  /\ \/ "never" \in setup.settings /\ hd' = [hd EXCEPT !.disconnect = DIS_NEVER]
     \/ "always" \in setup.settings /\ hd' = [hd EXCEPT !.disconnect = DIS_ALWAYS]
     \/ "nodma" \in setup.settings /\ hd' = [hd EXCEPT !.no_dma = ~@]
     \/ "resync" \in setup.settings /\ \E i \in Ids : hd' = Resync(hd, {i})
     \/ "nosync" \in setup.settings /\ \E i \in Ids :
          hd' = Resync([hd EXCEPT !.no_sync = (@ \ {i}) \cup ({i} \ @)], {i})
  /\ UNCHANGED <<scp, engine, pc, sr, req, eh, busVars>>
===============================================================================
