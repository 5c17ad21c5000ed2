------------------------------- MODULE FanOut -------------------------------
(***************************************************************************)
(* One `map` or `eval` task under the guard of the run's token: `run_map`  *)
(* and `run_eval` (tmx-core/src/fanout.rs), the callbacks the runner gives *)
(* them (`run_map_task`, `run_eval_task`, `run_inner_task` in runner.rs),  *)
(* and the production scheduler (tmx-adapters/src/scheduler.rs).           *)
(*                                                                         *)
(* The elements are polled in place, by the one task that runs the flow.   *)
(* A unit waits for a permit of the semaphore; permits are granted in the  *)
(* order the units queued, which is index order.  It then runs the inner   *)
(* task, a leaf or a sub-flow of its own, and its tail: the write of       *)
(* map.item.finish, or the scorers of a case.                              *)
(*                                                                         *)
(* Only a sub-flow ever looks at the token: its task loop stops at the     *)
(* soft request and guards each of its steps.  Neither the scheduler nor a *)
(* leaf does.  The guard around the whole task drops every unit at the     *)
(* hard stop.                                                              *)
(*                                                                         *)
(* Abstracted: the values (an outcome is a success, a failure or a         *)
(* cancellation), timing, masking, what a sub-flow does with its state,    *)
(* and fan-outs nested in an element, which are units like any other.      *)
(***************************************************************************)
EXTENDS TwoPhaseCancel, Integers, FiniteSets

CONSTANTS
  WidthMax,         \* FANOUT_WIDTH_MAX
  ConcurrencyMax,   \* CONCURRENCY_MAX
  Shapes,           \* the tasks that may be the one at hand
  SubTasks,         \* how many tasks a sub-flow has
  NoAnswer          \* no outcome, no answer yet

ASSUME BoundAssumption ==
  /\ WidthMax \in Nat /\ ConcurrencyMax \in Nat \ {0} /\ SubTasks \in Nat

\* A task is a map or an eval whose inner task (or subject) is a leaf or a
\* sub-flow; a map may record the failures of its elements.
Shape ==
  {s \in [kind : {"map", "eval"}, inner : {"leaf", "flow"},
          continueOnError : BOOLEAN] : s.continueOnError => s.kind = "map"}

ASSUME ShapesAssumption == Shapes \subseteq Shape

ASSUME AnswerAssumption ==
  /\ Reasons \cap {"ok", "failed"} = {}
  /\ NoAnswer \notin Reasons \cup {"ok", "failed"}

Unit == 0 .. WidthMax - 1
Outcome == {"ok", "failed"} \cup Reasons

VARIABLES
  shape,    \* the task
  phase,    \* "idle", "fanning", "refused", "collected", "dropped" or "cut"
  width,    \* n, the number of elements
  limit,    \* the effective concurrency
  permits,  \* the permits the semaphore has left
  unit,     \* where each element is
  at,       \* the sub-flow task the element is at
  out,      \* what its inner task, and in the end the element, came to
  answer    \* what the guard around the task resolved to

unitVars == <<permits, unit, at, out>>
vars == <<tokenVars, shape, phase, width, limit, unitVars, answer>>

Kind == shape.kind
Inner == shape.inner
ContinueOnError == shape.continueOnError

UnitPC == {"waiting", "head", "work", "tail", "done"}

Init ==
  /\ TokenInit
  /\ shape \in Shapes
  /\ phase = "idle"
  /\ width = 0
  /\ limit = 0
  /\ permits = 0
  /\ unit = [e \in Unit |-> "waiting"]
  /\ at = [e \in Unit |-> 1]
  /\ out = [e \in Unit |-> NoAnswer]
  /\ answer = NoAnswer

TypeOK ==
  /\ TokenTypeOK
  /\ shape \in Shapes
  /\ phase \in {"idle", "fanning", "refused", "collected", "dropped", "cut"}
  /\ width \in 0 .. WidthMax
  /\ limit \in (IF phase \in {"idle", "refused", "cut"} THEN {0}
                ELSE 1 .. ConcurrencyMax)
  /\ permits \in 0 .. limit
  /\ unit \in [Unit -> UnitPC]
  /\ at \in [Unit -> 1 .. SubTasks + 1]
  /\ out \in [Unit -> Outcome \cup {NoAnswer}]
  /\ answer \in Outcome \cup {NoAnswer}

Active == {e \in Unit : unit[e] \in {"head", "work", "tail"}}

-----------------------------------------------------------------------------
(* Before any element runs: the items, the width, the budget, the depth.   *)

\* `requested.max(1).min(cap)` with the cap clamped to 1 .. CONCURRENCY_MAX.
Effective(asked, cap) ==
  LET least == IF asked > 1 THEN asked ELSE 1
      most == IF cap < 1 THEN 1
              ELSE IF cap > ConcurrencyMax THEN ConcurrencyMax ELSE cap
  IN  IF least < most THEN least ELSE most

FanOutBegins ==
  /\ phase = "idle" /\ answer = NoAnswer
  /\ \E n \in 0 .. WidthMax + 1, asked, cap \in 0 .. ConcurrencyMax + 1 :
       /\ n <= WidthMax /\ asked <= ConcurrencyMax
       /\ width' = n
       /\ limit' = Effective(asked, cap)
  /\ permits' = limit'
  /\ phase' = "fanning"
  /\ UNCHANGED <<tokenVars, shape, unit, at, out, answer>>

\* `items` is no array, or too wide; the concurrency is too high; the flow
\* would recurse too deep: a typed error, and no element runs.
FanOutIsRefused ==
  /\ phase = "idle" /\ answer = NoAnswer
  /\ phase' = "refused"
  /\ answer' = "failed"
  /\ UNCHANGED <<tokenVars, shape, width, limit, unitVars>>

-----------------------------------------------------------------------------
(* The units.                                                              *)

Fanning == phase = "fanning"

Goes(e, pc) == unit' = [unit EXCEPT ![e] = pc]

\* Mutant of Acquire: every unit starts at once.
StartUnbounded(e) ==
  /\ Fanning /\ e < width
  /\ unit[e] = "waiting"
  /\ permits' = IF permits > 0 THEN permits - 1 ELSE 0
  /\ Goes(e, IF Inner = "flow" THEN "head" ELSE "work")
  /\ UNCHANGED <<tokenVars, shape, phase, width, limit, at, out, answer>>

\* The permit is granted to the unit at the head of the semaphore's queue.
Acquire(e) ==
  /\ Fanning /\ e < width
  /\ unit[e] = "waiting"
  /\ \A d \in Unit : d < e => unit[d] # "waiting"
  /\ permits > 0
  /\ permits' = permits - 1
  /\ Goes(e, IF Inner = "flow" THEN "head" ELSE "work")
  /\ UNCHANGED <<tokenVars, shape, phase, width, limit, at, out, answer>>

\* Mutant of Ended: a failed subject leaves without its permit being released.
EndedWithPermit(e, o) ==
  /\ out' = [out EXCEPT ![e] = o]
  /\ Goes(e, IF Kind = "eval" /\ o # "ok" THEN "done" ELSE "tail")
  /\ UNCHANGED <<tokenVars, shape, phase, width, limit, permits, answer>>

\* The inner task came to `o`.  A map emits map.item.finish in any case; the
\* scorers of an eval case run only if its subject succeeded.
Ended(e, o) ==
  /\ out' = [out EXCEPT ![e] = o]
  /\ IF Kind = "eval" /\ o # "ok"
     THEN Goes(e, "done") /\ permits' = permits + 1
     ELSE Goes(e, "tail") /\ UNCHANGED permits
  /\ UNCHANGED <<tokenVars, shape, phase, width, limit, answer>>

\* The head of the sub-flow's task loop: it sees the soft request.
SubFlowStops(e) ==
  /\ Fanning /\ unit[e] = "head" /\ at[e] <= SubTasks
  /\ requested # NoReason
  /\ Ended(e, requested)
  /\ UNCHANGED at

SubFlowDispatches(e) ==
  /\ Fanning /\ unit[e] = "head" /\ at[e] <= SubTasks
  /\ requested = NoReason
  /\ Goes(e, "work")
  /\ UNCHANGED <<tokenVars, shape, phase, width, limit, permits, at, out,
                 answer>>

SubFlowEnds(e) ==
  /\ Fanning /\ unit[e] = "head" /\ at[e] > SubTasks
  /\ Ended(e, "ok")
  /\ UNCHANGED at

\* A task of the sub-flow is done, skipped or recorded as failed.
SubTaskEnds(e) ==
  /\ Fanning /\ unit[e] = "work" /\ Inner = "flow"
  /\ at' = [at EXCEPT ![e] = @ + 1]
  /\ Goes(e, "head")
  /\ UNCHANGED <<tokenVars, shape, phase, width, limit, permits, out, answer>>

\* The guard around a sub-flow's step: the sub-flow's own loop is cancelled.
SubTaskIsAbandoned(e) ==
  /\ Fanning /\ unit[e] = "work" /\ Inner = "flow"
  /\ hard # NoReason
  /\ Ended(e, hard)
  /\ UNCHANGED at

LeafEnds(e) ==
  /\ Fanning /\ unit[e] = "work" /\ Inner = "leaf"
  /\ Ended(e, "ok")
  /\ UNCHANGED at

WorkFails(e) ==
  /\ Fanning /\ unit[e] = "work"
  /\ Ended(e, "failed")
  /\ UNCHANGED at

\* map.item.finish is written, or the case is scored.
TailEnds(e) ==
  /\ Fanning /\ unit[e] = "tail"
  /\ Goes(e, "done")
  /\ permits' = permits + 1
  /\ UNCHANGED <<tokenVars, shape, phase, width, limit, at, out, answer>>

\* The sink refused the event, or a scorer failed: that is the unit's error,
\* whatever its inner task came to.
TailFails(e) ==
  /\ Fanning /\ unit[e] = "tail"
  /\ Goes(e, "done")
  /\ out' = [out EXCEPT ![e] = "failed"]
  /\ permits' = permits + 1
  /\ UNCHANGED <<tokenVars, shape, phase, width, limit, at, answer>>

-----------------------------------------------------------------------------
(* The answer.                                                             *)

Elements == {e \in Unit : e < width}

\* Mutant of Failing: a cancelled element is no failing one.
FailingForGood == {e \in Elements : out[e] = "failed"}

Failing == {e \in Elements : out[e] # "ok"}

\* Mutant of LeastFailing: the error of the last failing element.
LastFailing == CHOOSE e \in Failing : \A d \in Failing : d <= e

LeastFailing == CHOOSE e \in Failing : \A d \in Failing : e <= d

\* The element error policy, applied to the results in index order.
Verdict ==
  IF Failing = {} \/ ContinueOnError THEN "ok" ELSE out[LeastFailing]

Collect ==
  /\ Fanning
  /\ \A e \in Elements : unit[e] = "done"
  /\ phase' = "collected"
  /\ answer' = Verdict
  /\ UNCHANGED <<tokenVars, shape, width, limit, unitVars>>

\* The threshold is missed, an eval.case.finish is refused, or the output
\* does not match `produces`.
OutputIsRejected ==
  /\ Fanning
  /\ \A e \in Elements : unit[e] = "done"
  /\ Verdict = "ok"
  /\ phase' = "collected"
  /\ answer' = "failed"
  /\ UNCHANGED <<tokenVars, shape, width, limit, unitVars>>

\* Mutant of GuardDropsFanOut: the units in flight are awaited first.
GuardAwaitsUnits ==
  /\ answer = NoAnswer
  /\ hard # NoReason /\ Active = {}
  /\ phase' = IF phase = "idle" THEN "cut" ELSE "dropped"
  /\ answer' = hard
  /\ UNCHANGED <<tokenVars, shape, width, limit, unitVars>>

\* The guard around the task: every unit is dropped where it is, if the
\* fan-out had begun at all.
GuardDropsFanOut ==
  /\ answer = NoAnswer
  /\ hard # NoReason
  /\ phase' = IF phase = "idle" THEN "cut" ELSE "dropped"
  /\ answer' = hard
  /\ UNCHANGED <<tokenVars, shape, width, limit, unitVars>>

Watchers ==
  /\ \E r \in Reasons : Request(r) \/ HardCancel(r)
  /\ UNCHANGED <<shape, phase, width, limit, unitVars, answer>>

-----------------------------------------------------------------------------

\* What the task that polls the fan-out does by itself.
Step(e) ==
  Acquire(e) \/ SubFlowStops(e) \/ SubFlowDispatches(e) \/ SubFlowEnds(e)

\* What waits for an adapter, a scorer or the sink.
Await(e) ==
  \/ SubTaskEnds(e) \/ SubTaskIsAbandoned(e) \/ LeafEnds(e) \/ WorkFails(e)
  \/ TailEnds(e) \/ TailFails(e)

Poll ==
  \/ FanOutBegins \/ FanOutIsRefused
  \/ \E e \in Unit : Step(e)
  \/ Collect \/ OutputIsRejected

Next == Poll \/ (\E e \in Unit : Await(e)) \/ GuardDropsFanOut \/ Watchers

(***************************************************************************)
(* Fairness: the task is polled while it is runnable, and the guard wins   *)
(* the next poll after the hard stop.  An adapter may hang for ever.       *)
(***************************************************************************)
Spec ==
  Init /\ [][Next]_vars /\ WF_vars(Poll) /\ WF_vars(GuardDropsFanOut)

-----------------------------------------------------------------------------
(* Properties.                                                             *)

\* A fan-out that was not cut off has run every element to its end, even after
\* a failure, and fails with the error of its least failing element, whichever
\* failed first.
AnswerIsExplained ==
  phase = "collected" =>
    /\ \A e \in Elements : unit[e] = "done"
    /\ answer \in Reasons =>
         \E e \in Elements :
           out[e] = answer /\ \A d \in Elements : d < e => out[d] = "ok"
    /\ answer = "ok" => ContinueOnError \/ \A e \in Elements : out[e] = "ok"

\* "a nested `flow` can never swallow a `--timeout`/SIGINT" (runner.rs): a
\* fan-out one of whose sub-flows was cancelled does not succeed.
CancellationComesUp ==
  answer = "ok" => \A e \in Elements : out[e] \notin Reasons

\* With adapters, scorers and a sink that answer the fan-out ends: every
\* element gets its permit.
AdaptersAnswer == \A e \in Unit : WF_vars(Await(e))

EveryFanOutEnds == AdaptersAnswer => <>(answer # NoAnswer)

Port ==
  INSTANCE IndexedScheduler WITH
    call <- CASE phase \in {"idle", "refused", "cut"} -> "none"
              [] phase = "fanning"                    -> "open"
              [] phase = "collected"                  -> "returned"
              [] phase = "dropped"                    -> "dropped",
    count <- width,
    concurrency <- limit,
    running <- IF phase = "dropped" THEN {} ELSE Active,
    finished <- {e \in Unit : unit[e] = "done"},
    value <- LET done == {e \in Unit : unit[e] = "done"}
             IN  IF done = {} THEN <<>> ELSE [e \in done |-> out[e]]

\* The semaphore keeps what the Scheduler port promises.
ImplementsPort == Port!Spec

Promise ==
  INSTANCE GuardedWork WITH
    Guards <- {"task"},
    NoResult <- NoAnswer,
    result <- [g \in {"task"} |->
                 IF phase \in {"collected", "refused"} THEN "value"
                 ELSE answer]

\* Seen from outside the guard the fan-out is one piece of guarded work: it
\* answers, or the hard stop ends it, however many of its elements hang.
ImplementsPromise == Promise!Spec

=============================================================================
