----------------------------- MODULE GuardedWork ----------------------------
(***************************************************************************)
(* What the cancellation token and its `guard` promise their callers, with *)
(* no waker, no lock and no executor in it.  The token: a latch holds the  *)
(* reason that set it, whoever else asks for the same later.  `guard`: the *)
(* guarded work either completes, or is abandoned with the hard reason;    *)
(* and once the hard stop has fired no guard waits for its work any more.  *)
(* CancelToken is the protocol that implements it.  The latches are stated *)
(* here, apart from those of TwoPhaseCancel: a token that overwrote the    *)
(* reason it holds would not keep this promise.                            *)
(***************************************************************************)

CONSTANTS
  Reasons,      \* the reasons to stop, each with a watcher
  NoReason,     \* a latch that is not set
  Guards,       \* the guarded futures
  NoResult      \* the guard has not resolved yet

VARIABLES
  requested,    \* the reason of the soft request
  hard,         \* the reason of the hard stop
  stage,        \* how far the watcher of each reason has got
  result        \* what each guard resolved to: "value", or a reason

token == <<requested, hard, stage>>
vars == <<requested, hard, stage, result>>

Init ==
  /\ requested = NoReason /\ hard = NoReason
  /\ stage = [r \in Reasons |-> "armed"]
  /\ result = [g \in Guards |-> NoResult]

TypeOK ==
  /\ {requested, hard} \subseteq Reasons \cup {NoReason}
  /\ stage \in [Reasons -> {"armed", "grace", "done"}]
  /\ result \in [Guards -> Reasons \cup {"value", NoResult}]

\* Only the first watcher to ask is heard.
AskedBy(r) ==
  /\ requested # NoReason => UNCHANGED requested
  /\ requested = NoReason => requested' = r

\* The watcher of `r` asks for a soft stop.
AskSoft(r) ==
  /\ stage[r] = "armed"
  /\ stage' = [stage EXCEPT ![r] = "grace"]
  /\ AskedBy(r)
  /\ UNCHANGED <<hard, result>>

\* After its grace window it stops the run hard.  The first to do so gives the
\* reason of every guard abandoned from then on.
StopHard(r) ==
  /\ stage[r] = "grace"
  /\ stage' = [stage EXCEPT ![r] = "done"]
  /\ AskedBy(r)
  /\ hard # NoReason => UNCHANGED hard
  /\ hard = NoReason => hard' = r
  /\ UNCHANGED result

\* The work finished first.
Complete(g) ==
  /\ result[g] = NoResult
  /\ result' = [result EXCEPT ![g] = "value"]
  /\ UNCHANGED token

\* Hard cancellation fired: the guard drops the work and returns its error.
Abandon(g) ==
  /\ result[g] = NoResult
  /\ hard # NoReason
  /\ result' = [result EXCEPT ![g] = hard]
  /\ UNCHANGED token

Next ==
  \/ \E r \in Reasons : AskSoft(r) \/ StopHard(r)
  \/ \E g \in Guards : Complete(g) \/ Abandon(g)

Spec ==
  /\ Init
  /\ [][Next]_vars
  /\ \A g \in Guards : WF_vars(Abandon(g))

=============================================================================
