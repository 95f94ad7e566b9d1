------------------------------- MODULE MCScsiHost -----------------------------
(***************************************************************************)
(* Commands and machines for the model checker.  rd reads two buffers, wr  *)
(* writes one of two units, tur moves no data, to the unit of rd; tp is    *)
(* for a tape, and sn a REQUEST SENSE for another LUN of wr's target.      *)
(***************************************************************************)
EXTENDS ScsiHost

CONSTANTS rd, wr, tur, tp, sn

Command(id, lun, in, nbufs, blen) ==
  [id |-> id, lun |-> lun, in |-> in, nbufs |-> nbufs, blen |-> blen, sense |-> FALSE,
   tape |-> FALSE]

Commands ==
  (rd :> Command(0, 0, TRUE, 2, 1)) @@ (wr :> Command(1, 1, FALSE, 1, 2))
  @@ (tur :> Command(0, 0, TRUE, 0, 0))
  @@ (tp :> [Command(0, 0, FALSE, 1, 1) EXCEPT !.tape = TRUE])
  @@ (sn :> [Command(1, 0, TRUE, 1, 1) EXCEPT !.sense = TRUE])

(* Two commands for two targets that behave, may always disconnect and are *)
(* asynchronous, and the driver with its default of level2.                *)
Usual ==
  [cmds |-> {rd, wr}, timeouts |-> {}, present |-> {0, 1}, quirks |-> {},
   level2 |-> 3, disconnect |-> DIS_ALWAYS, no_sync |-> 0..6, settled |-> TRUE,
   ways |-> {"direct"}, settings |-> {}]
Phased   == [Usual EXCEPT !.level2 = 1, !.settled = FALSE]
AnyWay   == {"direct", "bounce", "fail"}
Messages == {"sdtr", "wide", "other", "unknown"}

(* As configured by default, with DMA direct, bounced or impossible.       *)
Default == [Usual EXCEPT !.cmds = {rd, wr, tur}, !.disconnect = DIS_ADAPTIVE, !.ways = AnyWay]

(* An interrupt for each phase, from the first negotiation on, which the   *)
(* targets begin as well; or targets that reject an SDTR, before they have *)
(* read it or after, or ignore it, one of them kept asynchronous.          *)
Phases1   == [Phased EXCEPT !.no_sync = {}, !.quirks = {"sdtr", "restore"}]
Negotiate == [Phased EXCEPT !.no_sync = {1}, !.quirks = {"reject", "early", "mute"}]

(* Messages nobody asked for, in the middle of level-2 commands.           *)
Level2Messages == [Usual EXCEPT !.no_sync = {}, !.quirks = Messages]

(* Targets that leave the bus, move less than asked or do not answer.      *)
Drops == [Usual EXCEPT !.level2 = 6, !.quirks = {"drop", "short", "slow"},
                         !.ways = {"direct", "bounce"}]
DropsInPio == [Drops EXCEPT !.ways = {"fail"}]

(* Settings changed through /proc while commands run.                      *)
Changes  == [Usual EXCEPT !.disconnect = DIS_ADAPTIVE,
               !.settings = {"never", "always", "nodma"}]
Resyncs  == [Usual EXCEPT !.disconnect = DIS_NEVER, !.settled = FALSE, !.no_sync = {0},
               !.settings = {"nosync", "resync"}]

(* A tape, which may always disconnect, and a REQUEST SENSE, which goes to *)
(* the head of the queue, for one of two LUNs of a target.                 *)
Tape == [Usual EXCEPT !.cmds = {tp, sn, wr}, !.level2 = 2, !.disconnect = DIS_ADAPTIVE]

Operation ==
  {Default, Phases1, Negotiate, Level2Messages, Drops, DropsInPio, Changes, Resyncs, Tape}

(* A command times out, where nothing disconnects.                         *)
Aborts == {[Usual EXCEPT !.timeouts = {rd}, !.disconnect = DIS_NEVER, !.quirks = {"drop"},
              !.no_sync = {}]}

(* The abort of a disconnected command fails, and the host is reset.       *)
Resets == {[Usual EXCEPT !.cmds = {rd}, !.timeouts = {rd}, !.level2 = 6,
              !.quirks = {"drop", "retry"}]}

Live == {Usual, Phased}

(* Negotiations among level-2 commands.                                    *)
Unsettled == {[Usual EXCEPT !.settled = FALSE]}
===============================================================================
