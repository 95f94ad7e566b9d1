-------------------------------- MODULE ScsiHost ------------------------------
(***************************************************************************)
(* The driver, the chip, the bus and the targets together, under a         *)
(* mid-layer that queues commands, gives up on those that take too long    *)
(* and resets the host when an abort has failed.                           *)
(***************************************************************************)
EXTENDS Wd33c93

vars == <<setup, driverVars, busVars>>

(* A host in recovery is given no commands.                                *)
Queue(c) ==
  /\ c \in setup.cmds /\ eh.at = "none"
  /\ \A x \in Cmds : req[x].st # "failed"
  /\ QueueCommand(c)

TimesOut(c) ==
  /\ c \in setup.timeouts /\ req[c].st = "queued" /\ pc = "idle"
  /\ req' = [req EXCEPT ![c].st = "aborting"]
  /\ UNCHANGED <<hd, scp, engine, pc, sr, eh, busVars>>

ChipSteps ==
  \/ Selected \/ ReportPhase \/ TakeCommand \/ TakeMessages \/ TakeStatus
  \/ TakeByte \/ Level2Message \/ ReleaseBus
TargetSteps ==
  \/ StartData \/ (\E st \in {GOOD, CHECK} : GiveStatus(st)) \/ StartDisconnect
  \/ Quirk
BusSteps ==
  /\ \/ ChipSteps \/ TargetSteps \/ SelectionTimeout \/ Drop
     \/ \E n \in Nexus : Reselect(n)
  /\ UNCHANGED driverVars
DataSteps == \E k \in 1..chip.count : DmaMoves(k) \/ PioMoves(k)

Init == BusInit /\ DriverInit

Next ==
  /\ \/ \E c \in Cmds : Queue(c) \/ TimesOut(c) \/ Abort(c)
     \/ Execute \/ Interrupt \/ HandleInterrupt \/ PollEnds
     \/ AbortSteps \/ HostReset \/ WriteInfo
     \/ BusSteps \/ DataSteps
  /\ UNCHANGED setup

Spec == Init /\ [][Next]_vars

-----------------------------------------------------------------------------
(* Where a command is in the driver.                                       *)
Queued == ToSet(hd.input_Q)
Away   == ToSet(hd.disconnected_Q)
Started == (Away \cup {hd.selecting, hd.connected}) \ {NULL}
Count(q, x) == Cardinality({i \in DOMAIN q : q[i] = x})
Places(x) == Count(hd.input_Q, x) + Count(hd.disconnected_Q, x)
             + (IF hd.selecting = x THEN 1 ELSE 0) + (IF hd.connected = x THEN 1 ELSE 0)

(* Nothing of the driver is running and no interrupt is waiting for it.    *)
Quiet == pc = "idle" /\ chip.int = "none" /\ eh.at = "none"

Moving == chip.cmd # "none" /\ (Ready("DATA_IN") \/ Ready("DATA_OUT"))

TypeOK ==
  /\ hd.input_Q \in Seq(Cmds) /\ hd.disconnected_Q \in Seq(Cmds)
  /\ hd.selecting \in Cmds \cup {NULL} /\ hd.connected \in Cmds \cup {NULL}
  /\ hd.busy \subseteq Nexus
  /\ hd.state \in {"S_UNCONNECTED", "S_SELECTING", "S_RUNNING_LEVEL2", "S_CONNECTED",
                   "S_PRE_TMP_DISC", "S_PRE_CMP_DISC"}
  /\ hd.dma \in {"D_DMA_OFF", "D_DMA_RUNNING"} /\ hd.bounce \in BOOLEAN
  /\ hd.sync_xfer \in [Ids -> {"async", "sync"}]
  /\ hd.sync_stat \in [Ids -> {"SS_UNSET", "SS_FIRST", "SS_WAITING", "SS_SET"}]
  /\ \A x \in Cmds : scp[x].phase \in BOOLEAN /\ scp[x].ptr \in Nat /\ scp[x].left \in Nat
  /\ bus \in Nexus \cup {NULL} /\ chip.count \in Nat
  /\ pc \in {"idle", "execute", "handle", "pio", "sent", "status", "message"}

(* A logical unit is given one command at a time: busy[] marks exactly the *)
(* units of the commands started and not finished, each of its own unit.   *)
OneCommandPerUnit ==
  /\ hd.busy = {NexusOf(x) : x \in Started}
  /\ \A x, y \in Started : NexusOf(x) = NexusOf(y) => x = y

(* The SCSI bus has one connection: besides the disconnected commands at   *)
(* most one is started, being selected or connected.                       *)
OneConnection == Cardinality(hd.busy) <= Len(hd.disconnected_Q) + 1

(* A command the mid-layer waits for is in one place in the driver, and    *)
(* one it does not wait for in none: no path of the interrupt handler or   *)
(* of an abort loses a command or keeps one it has returned.               *)
NoCommandLost ==
  \A x \in Cmds : /\ req[x].st = "queued" => Places(x) = 1
                  /\ req[x].st \in {"free", "done"} => Places(x) = 0

(* What the queues, selecting, connected and busy[] say of the commands    *)
(* holds together through selections lost, disconnections, drops and       *)
(* aborts.                                                                 *)
CommandsKept == TypeOK /\ OneCommandPerUnit /\ OneConnection /\ NoCommandLost

(* The driver and the targets agree on who has which command: one in       *)
(* input_Q has not reached its target, one in disconnected_Q is held by a  *)
(* target that has left the bus or is back on it, and the target on the    *)
(* bus, once it has a command, has the connected one.                      *)
TargetsAgree ==
  /\ \A x \in Queued : tg[NexusOf(x)].cmd # x
  /\ \A x \in Away : tg[NexusOf(x)].cmd = x
                     /\ (tg[NexusOf(x)].ph = "disc" \/ bus = NexusOf(x))
  /\ Quiet /\ bus # NULL => /\ hd.connected # NULL \/ hd.selecting # NULL
                            /\ hd.connected # NULL => bus = NexusOf(hd.connected)

(* Data go where they belong: whatever disconnections, DMA stops, messages *)
(* and bounced or programmed transfers came before, the DMA (or the PIO    *)
(* loop, which is running) is at the address of the unit the target moves  *)
(* next; the transfer count will tell SCp what is left of the buffer; and  *)
(* a bounce buffer to be copied back is that of this transfer.             *)
DataInPlace ==
  Moving =>
    LET x == tg[bus].cmd
        end == scp[x].ptr + scp[x].left
    IN IF chip.polled
       THEN pc = "pio" /\ hd.connected = x /\ end - chip.count = tg[bus].pos
       ELSE /\ engine.cmd = x /\ hd.connected = x
            /\ engine.at = tg[bus].pos /\ engine.at + chip.count = end
            /\ hd.bounce => engine.via = "bounce"

(* The DMA is never left running into the buffer of a command that has     *)
(* been returned, whether it came to its end, was aborted or was reset.    *)
NoDmaAfterReturn ==
  engine.cmd # NULL => req[engine.cmd].st \notin {"free", "done"}

(* A command the mid-layer was told is aborted is over at its target too.  *)
AbortedIsOver ==
  eh.at \in {"check", "start"} /\ eh.ok => tg[NexusOf(eh.cmd)].cmd # eh.cmd

(* The driver waits for the reselection of no command it has returned.     *)
AwayIsOwned == \A x \in Away : req[x].st \notin {"free", "done"}

(* When a target leaves the bus, the driver knows whether the command is   *)
(* over (it returns it) or only disconnected (it waits for it); and one    *)
(* that comes back finds its command waiting and no other under way, for   *)
(* the driver has no way out of either.                                    *)
ConnectionsUnderstood ==
  /\ pc = "handle" /\ sr.csr = "DISC" =>
       /\ hd.connected # NULL
       /\ hd.state = "S_PRE_CMP_DISC" => tg[NexusOf(hd.connected)].cmd # hd.connected
       /\ hd.state # "S_PRE_CMP_DISC" =>
            /\ hd.state \in {"S_PRE_TMP_DISC", "S_RUNNING_LEVEL2"}
            /\ tg[NexusOf(hd.connected)].cmd = hd.connected
  /\ pc = "handle" /\ sr.csr = "RESEL_AM" => Reconnecting # 0 /\ ~Intrusive

(* While a command is disconnected and nothing else is going on, its       *)
(* target can reselect: SRCID_ER, cleared for each command that may not    *)
(* disconnect, is on again.                                                *)
ReselectionEnabled ==
  Quiet /\ Away # {} /\ bus = NULL /\ chip.cmd = "none" => chip.er

(* Data move with the timing agreed with the target, whoever began the     *)
(* negotiation and whichever target was on the bus before.                 *)
TimingAgreed == Moving => chip.sync = agreed[bus[1]]

(* What was begun in a connection ends in it: when a target leaves the     *)
(* bus, no half of an extended message and no unsent answer is left for    *)
(* the next one.                                                           *)
MessagesEndWithConnection ==
  [][bus # NULL /\ bus' = NULL => hd.incoming_msg = <<>> /\ hd.outgoing_msg = <<>>]_vars

(* A reselection that beats a selection costs no command: the loser is put *)
(* back on top of input_Q.                                                 *)
Loser == IF hd.selecting # NULL THEN hd.selecting ELSE hd.connected
LoserPutBack ==
  [][Case("RESEL_AM") /\ pc' # "handle" /\ Loser # NULL =>
       hd'.selecting = NULL /\ hd'.input_Q # <<>> /\ Head(hd'.input_Q) = Loser]_vars

(* The service of CommandService, by this driver.                          *)
Service == INSTANCE CommandService WITH
  st    <- [x \in Cmds |-> IF req[x].st \in {"free", "done"} THEN req[x].st ELSE "queued"],
  given <- outcome,
  res   <- [x \in Cmds |-> req[x].res],
  Sense <- {x \in Cmds : Attr[x].sense}

(* Every command is performed at most once and returned with the status    *)
(* its target gave, through every mixture of selections lost, level-2      *)
(* commands interrupted and resumed, and disconnections.                   *)
CommandsServed == Service!ServiceSpec

-----------------------------------------------------------------------------
(* The CPU runs the driver's code and takes its interrupts; the chip and   *)
(* the targets do their work.  A target may disconnect as often as it      *)
(* likes, but not for ever, and one that wants to reselect gets the bus in *)
(* the end, as does a selection.                                           *)
Bus(act) == act /\ UNCHANGED <<setup, driverVars>>
Target(n, act) == bus = n /\ Bus(act)
Fairness ==
  /\ WF_vars((Execute \/ Interrupt \/ HandleInterrupt \/ PollEnds) /\ UNCHANGED setup)
  /\ WF_vars(DataSteps /\ UNCHANGED setup)
  /\ WF_vars(Bus(ChipSteps))
  /\ SF_vars(Bus(Selected \/ SelectionTimeout))
  /\ \A n \in Nexus :
       /\ SF_vars(Bus(Reselect(n)))
       /\ SF_vars(Target(n, StartData))
       /\ SF_vars(Target(n, GiveStatus(GOOD)))
       /\ WF_vars(Target(n, \/ StartDisconnect \/ StartData
                             \/ \E st \in {GOOD, CHECK} : GiveStatus(st)))

LiveSpec == Spec /\ Fairness

(* Every command the mid-layer queues is returned to it.                   *)
EveryCommandReturned ==
  \A x \in Cmds : req[x].st = "queued" ~> req[x].st = "done"
===============================================================================
