--------------------------- MODULE TwoPhaseCancel ---------------------------
(***************************************************************************)
(* The cancellation token of one run as its observers see it: a soft       *)
(* request, then, after the grace window, a hard stop                      *)
(* (tmx-core/src/cancel.rs).  Every reason (`--timeout`, SIGINT) has one   *)
(* watcher task, which the CLI spawns and which calls `request`, sleeps    *)
(* the grace window and calls `hard_cancel` (tmx-cli/src/commands/run.rs,  *)
(* `escalate`).  Both calls run under the token's mutex, so each is one    *)
(* action here.  The grace sleep has no length in the model: two watchers  *)
(* whose windows overlap may end them in either order.                     *)
(*                                                                         *)
(* The module has no next-state relation of its own: it is extended by the *)
(* modules whose processes share a token.                                  *)
(***************************************************************************)

CONSTANTS
  Reasons,      \* CancelReason: the triggers whose watchers were spawned
  NoReason      \* None

ASSUME NoReasonAssumption == NoReason \notin Reasons

VARIABLES
  requested,    \* Shared.requested: the soft-cancel reason
  hard,         \* Shared.hard: the hard-cancel reason
  stage         \* how far the watcher of each reason has got

tokenVars == <<requested, hard, stage>>

TokenInit ==
  /\ requested = NoReason
  /\ hard = NoReason
  /\ stage = [r \in Reasons |-> "armed"]

TokenTypeOK ==
  /\ requested \in Reasons \cup {NoReason}
  /\ hard \in Reasons \cup {NoReason}
  /\ stage \in [Reasons -> {"armed", "grace", "done"}]

\* Mutant of First: the last reason wins.
LastWins(old, r) == r

\* `if shared.x.is_none() { shared.x = Some(reason) }`: the first reason wins.
First(old, r) == IF old = NoReason THEN r ELSE old

\* The timer or the signal of `r` fires: its watcher calls `request`.
Request(r) ==
  /\ stage[r] = "armed"
  /\ stage' = [stage EXCEPT ![r] = "grace"]
  /\ requested' = First(requested, r)
  /\ UNCHANGED hard

\* The grace window of `r` is over: its watcher calls `hard_cancel`.
HardCancel(r) ==
  /\ stage[r] = "grace"
  /\ stage' = [stage EXCEPT ![r] = "done"]
  /\ requested' = First(requested, r)
  /\ hard' = First(hard, r)

=============================================================================
