----------------------------- MODULE CommandService ---------------------------
(***************************************************************************)
(* What the mid-layer is promised: a command it queues is performed by the *)
(* target at most once, and returned once, with the status the target gave *)
(* it, or with the reason why it gave none.                                *)
(***************************************************************************)
EXTENDS Naturals

CONSTANTS Cmds, Sense, GOOD, ILLEGAL, NONE

VARIABLES st, given, res

serviceVars == <<st, given, res>>

Result(host, status) == [host |-> host, status |-> status]

(* A REQUEST SENSE that fails is an error, not a reason for another.       *)
Report(c, status) ==
  IF c \in Sense /\ status # GOOD THEN Result("DID_ERROR", GOOD)
  ELSE Result("DID_OK", status)

ServiceInit ==
  /\ st = [c \in Cmds |-> "free"]
  /\ given = [c \in Cmds |-> NONE]
  /\ res = [c \in Cmds |-> Result("none", NONE)]

Submit(c) ==
  /\ st[c] \in {"free", "done"}
  /\ st' = [st EXCEPT ![c] = "queued"]
  /\ given' = [given EXCEPT ![c] = NONE]
  /\ res' = [res EXCEPT ![c] = Result("none", NONE)]

Perform(c) ==
  /\ st[c] = "queued" /\ given[c] = NONE
  /\ given'[c] \in Nat \ {NONE, ILLEGAL}
  /\ given' = [given EXCEPT ![c] = given'[c]]
  /\ UNCHANGED <<st, res>>

Return(c, r) ==
  /\ st[c] = "queued"
  /\ st' = [st EXCEPT ![c] = "done"]
  /\ res' = [res EXCEPT ![c] = r]
  /\ UNCHANGED given

Completed(c) == given[c] # NONE /\ Return(c, Report(c, given[c]))
Absent(c)    == given[c] = NONE /\ Return(c, Result("DID_NO_CONNECT", GOOD))
Dropped(c)   == given[c] = NONE /\ Return(c, Report(c, ILLEGAL))

ServiceNext ==
  \E c \in Cmds : Submit(c) \/ Perform(c) \/ Completed(c) \/ Absent(c) \/ Dropped(c)

ServiceSpec == ServiceInit /\ [][ServiceNext]_serviceVars
===============================================================================
