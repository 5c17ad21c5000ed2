----------------------------- MODULE CancelToken ----------------------------
(***************************************************************************)
(* The protocol inside `CancelToken` (tmx-core/src/cancel.rs): the watcher *)
(* threads that fire the token, the executor threads that poll the guarded *)
(* futures, and the waker list between them.  The token is a mutex around  *)
(* three fields, so what the code does under one lock is one action and    *)
(* everything else interleaves:                                            *)
(*                                                                         *)
(*   - `hard_cancel` sets the flag and takes the waker list under the      *)
(*     lock, and wakes the wakers it took one by one afterwards;           *)
(*   - `Guard::poll` reads the flag, polls the work, registers its waker   *)
(*     and reads the flag again, in four separate steps.                   *)
(*                                                                         *)
(* A waker belongs to an executor task.  Several guards may share one: all *)
(* the elements of a fan-out are polled in place by one `join_all`.  A     *)
(* wake of a task that is being polled is remembered (`notified`) and the  *)
(* task is polled again, as the runtime does.                              *)
(***************************************************************************)
EXTENDS TwoPhaseCancel

CONSTANTS
  Guards,       \* the guarded futures
  Tasks,        \* the executor tasks that poll them
  TaskOf,       \* the task that polls each guard
  NoResult      \* the guard has not resolved yet

ASSUME TaskOfAssumption == TaskOf \in [Guards -> Tasks]
ASSUME NoResultAssumption ==
  /\ "value" \notin Reasons
  /\ NoResult \notin Reasons \cup {"value"}

VARIABLES
  wakers,       \* Shared.wakers: the tasks parked on the token
  taken,        \* the wakers each hard_cancel call took and has yet to wake
  notified,     \* the runtime will poll the task (again)
  gpc,          \* where in `Guard::poll` each guard is
  work,         \* whether the guarded future would return Ready
  result        \* what each guard resolved to

vars == <<requested, hard, stage, wakers, taken, notified, gpc, work, result>>
guardVars == <<gpc, work, result>>

Init ==
  /\ TokenInit
  /\ wakers = {}
  /\ taken = [r \in Reasons |-> {}]
  /\ notified = [t \in Tasks |-> TRUE]
  /\ gpc = [g \in Guards |-> "idle"]
  /\ work = [g \in Guards |-> "running"]
  /\ result = [g \in Guards |-> NoResult]

GuardPC == {"idle", "entry", "polling", "pending", "recheck", "resolved"}

TypeOK ==
  /\ TokenTypeOK
  /\ wakers \subseteq Tasks
  /\ taken \in [Reasons -> SUBSET Tasks]
  /\ notified \in [Tasks -> BOOLEAN]
  /\ gpc \in [Guards -> GuardPC]
  /\ work \in [Guards -> {"running", "ready"}]
  /\ result \in [Guards -> Reasons \cup {"value", NoResult}]

-----------------------------------------------------------------------------
(* The watchers: `escalate` around the two calls of the token.             *)

RequestCancel(r) ==
  /\ Request(r)
  /\ UNCHANGED <<wakers, taken, notified, guardVars>>

HardCancelTakesWakers(r) ==
  /\ HardCancel(r)
  /\ taken' = [taken EXCEPT ![r] = wakers]
  /\ wakers' = {}
  /\ UNCHANGED <<notified, guardVars>>

WakeTaken(r, t) ==
  /\ t \in taken[r]
  /\ taken' = [taken EXCEPT ![r] = @ \ {t}]
  /\ notified' = [notified EXCEPT ![t] = TRUE]
  /\ UNCHANGED <<tokenVars, wakers, guardVars>>

-----------------------------------------------------------------------------
(* The executor and `Guard::poll`.                                         *)

\* The runtime polls a notified task, and with it its unresolved guards.
PollTask(t) ==
  LET mine == {g \in Guards : TaskOf[g] = t}
  IN  /\ notified[t]
      /\ \A g \in mine : gpc[g] \in {"idle", "resolved"}
      /\ notified' = [notified EXCEPT ![t] = FALSE]
      /\ gpc' = [g \in Guards |->
                   IF g \in mine /\ gpc[g] = "idle" THEN "entry" ELSE gpc[g]]
      /\ UNCHANGED <<tokenVars, wakers, taken, work, result>>

\* A read of the flag: `Ready(Err)` if hard cancellation has fired, else go on.
ReadHard(g, next) ==
  /\ IF hard # NoReason
     THEN /\ gpc' = [gpc EXCEPT ![g] = "resolved"]
          /\ result' = [result EXCEPT ![g] = hard]
     ELSE /\ gpc' = [gpc EXCEPT ![g] = next]
          /\ UNCHANGED result
  /\ UNCHANGED <<tokenVars, wakers, taken, notified, work>>

CheckHard(g) == gpc[g] = "entry" /\ ReadHard(g, "polling")

PollWork(g) ==
  /\ gpc[g] = "polling"
  /\ IF work[g] = "ready"
     THEN /\ gpc' = [gpc EXCEPT ![g] = "resolved"]
          /\ result' = [result EXCEPT ![g] = "value"]
     ELSE /\ gpc' = [gpc EXCEPT ![g] = "pending"]
          /\ UNCHANGED result
  /\ UNCHANGED <<tokenVars, wakers, taken, notified, work>>

\* Mutant of Register: one slot for a waker instead of a list.
RegisterInOneSlot(g) ==
  /\ gpc[g] = "pending"
  /\ gpc' = [gpc EXCEPT ![g] = "recheck"]
  /\ IF hard # NoReason
     THEN /\ notified' = [notified EXCEPT ![TaskOf[g]] = TRUE]
          /\ UNCHANGED wakers
     ELSE /\ wakers' = {TaskOf[g]}
          /\ UNCHANGED notified
  /\ UNCHANGED <<tokenVars, taken, work, result>>

\* `register`: park the task's waker, or wake it at once if it is too late.
Register(g) ==
  /\ gpc[g] = "pending"
  /\ gpc' = [gpc EXCEPT ![g] = "recheck"]
  /\ IF hard # NoReason
     THEN /\ notified' = [notified EXCEPT ![TaskOf[g]] = TRUE]
          /\ UNCHANGED wakers
     ELSE /\ wakers' = wakers \cup {TaskOf[g]}
          /\ UNCHANGED notified
  /\ UNCHANGED <<tokenVars, taken, work, result>>

\* The second read, which closes the race with a hard_cancel since CheckHard.
Recheck(g) == gpc[g] = "recheck" /\ ReadHard(g, "idle")

\* The adapter's own wake-up: the future can be polled to its value.
WorkReady(g) ==
  /\ work[g] = "running"
  /\ result[g] = NoResult
  /\ work' = [work EXCEPT ![g] = "ready"]
  /\ notified' = [notified EXCEPT ![TaskOf[g]] = TRUE]
  /\ UNCHANGED <<tokenVars, wakers, taken, gpc, result>>

-----------------------------------------------------------------------------

Watcher(r) ==
  \/ RequestCancel(r)
  \/ HardCancelTakesWakers(r)
  \/ \E t \in Tasks : WakeTaken(r, t)

GuardStep(g) == CheckHard(g) \/ PollWork(g) \/ Register(g) \/ Recheck(g)

Next ==
  \/ \E r \in Reasons : Watcher(r)
  \/ \E t \in Tasks : PollTask(t)
  \/ \E g \in Guards : GuardStep(g) \/ WorkReady(g)

(***************************************************************************)
(* Fairness: the runtime's timer fires, its threads run every runnable     *)
(* task, and a thread inside a call leaves it.  Neither a trigger nor the  *)
(* completion of the guarded work is assumed: an adapter may hang.         *)
(***************************************************************************)
Fairness ==
  /\ \A r \in Reasons : WF_vars(HardCancelTakesWakers(r))
  /\ \A r \in Reasons, t \in Tasks : WF_vars(WakeTaken(r, t))
  /\ \A t \in Tasks : WF_vars(PollTask(t))
  /\ \A g \in Guards : WF_vars(GuardStep(g))

Spec == Init /\ [][Next]_vars /\ Fairness

-----------------------------------------------------------------------------
(* Properties.                                                             *)

\* A wake-up for the task is on its way.
WakePending(t) == notified[t] \/ \E r \in Reasons : t \in taken[r]

\* A guard that has gone back to sleep after the hard stop fired will be woken
\* by it: the flag read before the work, the registration and the second read
\* leave no window in which hard_cancel misses a parked guard.
NoLostWakeup ==
  \A g \in Guards :
    gpc[g] = "idle" /\ hard # NoReason => WakePending(TaskOf[g])

\* Before the hard stop, every sleeping guard can be reached by it: its task is
\* on the waker list, or is about to be polled anyway.
ParkedIsReachable ==
  \A g \in Guards :
    gpc[g] = "idle" /\ hard = NoReason =>
      TaskOf[g] \in wakers \/ notified[TaskOf[g]]

\* The protocol keeps the promise of GuardedWork, its fairness included: no
\* adapter that ignores the grace window can hold the run hostage, since after
\* the hard stop every guard resolves, whether or not its work ever completes,
\* and none before it resolves to anything but its work's value.
Promise ==
  INSTANCE GuardedWork

ImplementsPromise == Promise!Spec

=============================================================================
