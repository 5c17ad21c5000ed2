--------------------------- MODULE PipelineRunner ---------------------------
(***************************************************************************)
(* One run of a flow through the engine: `PipelineRunner::run`, its task   *)
(* loop `run_tasks`, `run_step` and `fail_task` (tmx-core/src/runner.rs),  *)
(* and the lifecycle hooks, whose bodies go through the same loop          *)
(* (tmx-core/src/hooks.rs).  The run shares its token with the watchers of *)
(* TwoPhaseCancel, which fire at any moment.                               *)
(*                                                                         *)
(* The loop exists at most twice at a time: the main one, and the one of   *)
(* the hook body that interrupts or surrounds it.  `hook` names the body   *)
(* that is on, `hk` is its loop's frame; a body starts from an empty state *)
(* and its outcome is dropped but for the failure, so its frame keeps no   *)
(* results.  An await whose other end is outside the engine (an adapter, a *)
(* secret backend, the sink) is a step of its own; what the code does      *)
(* between two awaits is one action.                                       *)
(*                                                                         *)
(* Abstracted: what a task computes (a member of Values), whether a merge  *)
(* fits the cap (either may happen; StateBuilder::merge leaves the state   *)
(* alone when it does not), timing, masking, and what happens inside a     *)
(* sub-flow or a fan-out, of which only the cancellation that may come up  *)
(* out of it is kept.                                                      *)
(***************************************************************************)
EXTENDS TwoPhaseCancel, Naturals, Sequences, FiniteSets

CONSTANTS
  N,                \* how many tasks the flow has
  Key,              \* the merge keys, `output ?? name`
  KeyOf,            \* the merge key of each task
  Gated,            \* the tasks with an `if`
  ContinueOnError,  \* the tasks whose failure is recorded, not fatal
  Nested,           \* the tasks of type flow, map or eval
  Contexts,         \* the sets of lifecycle hooks a context may declare
  HookTasks,        \* how many tasks a hook body has
  Values,           \* the outputs a task may produce
  ErrorSlot,        \* the `{ error }` slot of a recorded failure
  Absent,           \* no value under a key; no output in a result
  Seed,             \* the initial state: empty, or read by `--state-in`
  NoHook            \* no hook body is on

HookKind == {"create", "change", "error", "destroy"}
Teardown == {"error", "destroy"}
Main == 1 .. N

ASSUME FlowAssumption ==
  /\ N \in Nat /\ HookTasks \in Nat
  /\ KeyOf \in [Main -> Key]
  /\ Gated \subseteq Main /\ ContinueOnError \subseteq Main
  /\ Nested \subseteq Main
  /\ Contexts \subseteq SUBSET HookKind

ASSUME ValueAssumption ==
  /\ Absent \notin Values \cup {ErrorSlot}
  /\ ErrorSlot \notin Values
  /\ NoHook \notin HookKind
  /\ Reasons \cap {"none", "open", "broken", "ok", "failed"} = {}
  /\ Seed \in [Key -> Values \cup {Absent}]

VARIABLES
  declared,     \* the lifecycle hooks the context declares
  pc,           \* where the run is
  hook,         \* the hook that is firing, or NoHook
  i,            \* the task the main loop is at
  results,      \* Pipeline.results: entry j is about task j
  state,        \* the StateBuilder's object, as a function of the keys
  changed,      \* Outcome.changed
  failed,       \* Outcome.failure is set
  cancelled,    \* Outcome.cancelled
  hk,           \* the hook body's frame: its task, its failure, its cancel
  step,         \* what `run_step`, under its guard, returned
  run,          \* what the stream says of the run: "none", "open", a status
  open,         \* a task.start of the main loop has had no end event yet
  fired,        \* how many hook.start of each kind
  mark          \* how many results there were when cancellation was requested

loopVars == <<i, results, state, changed, failed, cancelled>>
seenVars == <<run, open, fired>>
vars == <<tokenVars, declared, pc, hook, loopVars, hk, step, seenVars, mark>>

Skipped == [kind |-> "skipped", value |-> Absent, reason |-> NoReason]
Produced(v) == [kind |-> "ok", value |-> v, reason |-> NoReason]
Failure(r) == [kind |-> "error", value |-> Absent, reason |-> r]

StepType ==
  {Skipped} \cup {Produced(v) : v \in Values}
            \cup {Failure(r) : r \in Reasons \cup {NoReason}}

\* A TaskResult: its status, its output, and the reason if it was cut off.
Result(status, out, r) == [status |-> status, out |-> out, reason |-> r]

ResultType ==
  [status : {"ok", "skipped", "error"},
   out    : Values \cup {ErrorSlot, Absent},
   reason : Reasons \cup {NoReason}]

FrameType ==
  [at : 1 .. HookTasks + 1, failed : BOOLEAN,
   cancelled : Reasons \cup {NoReason}]

FreshFrame == [at |-> 1, failed |-> FALSE, cancelled |-> NoReason]

Init ==
  /\ TokenInit
  /\ declared \in Contexts
  /\ pc = "idle"
  /\ hook = NoHook
  /\ i = 1
  /\ results = <<>>
  /\ state = Seed
  /\ changed = {}
  /\ failed = FALSE
  /\ cancelled = NoReason
  /\ hk = FreshFrame
  /\ step = Skipped
  /\ run = "none"
  /\ open = FALSE
  /\ fired = [k \in HookKind |-> 0]
  /\ mark = 0

PC == {"idle", "fire", "loop", "gate", "work", "settle", "leave", "finish",
       "over", "aborted"}

TypeOK ==
  /\ TokenTypeOK
  /\ declared \in Contexts
  /\ pc \in PC
  /\ hook \in HookKind \cup {NoHook}
  /\ i \in 1 .. N + 1
  /\ results \in Seq(ResultType)
  /\ state \in [Key -> Values \cup {ErrorSlot, Absent}]
  /\ changed \subseteq Main
  /\ failed \in BOOLEAN
  /\ cancelled \in Reasons \cup {NoReason}
  /\ hk \in FrameType
  /\ step \in StepType
  /\ run \in {"none", "open", "broken", "ok", "failed"} \cup Reasons
  /\ open \in BOOLEAN
  /\ fired \in [HookKind -> Nat]
  /\ mark \in Nat

-----------------------------------------------------------------------------
(* The token, as the loop that is on sees it: the teardown hooks run under *)
(* a fresh one, everything else under the run's.                           *)

\* Mutant of RequestedReason: the teardown hooks get the run's own token.
SharedToken == requested

RequestedReason == IF hook \in Teardown THEN NoReason ELSE requested
HardReason == IF hook \in Teardown THEN NoReason ELSE hard

WatcherRequests(r) ==
  /\ Request(r)
  /\ mark' = IF requested = NoReason THEN Len(results) ELSE mark
  /\ UNCHANGED <<declared, pc, hook, loopVars, hk, step, seenVars>>

WatcherStops(r) ==
  /\ HardCancel(r)
  /\ UNCHANGED <<declared, pc, hook, loopVars, hk, step, seenVars, mark>>

-----------------------------------------------------------------------------
(* `run`: the lifecycle around the task loop.                              *)

EmitRunStart ==
  /\ pc = "idle"
  /\ run' = "open"
  /\ hook' = "create"
  /\ pc' = "fire"
  /\ UNCHANGED <<tokenVars, declared, loopVars, hk, step, open, fired, mark>>

\* Where the run goes on once the hook `k` has fired, or was not declared.
AfterHook(k) ==
  CASE k \in {"create", "change"} -> pc' = "loop" /\ hook' = NoHook
    [] k = "error"                -> pc' = "fire" /\ hook' = "destroy"
    [] k = "destroy"              -> pc' = "finish" /\ hook' = NoHook

\* `HookRunner::fire` with a body: hook.start, then the body's own loop.
FireHook ==
  /\ pc = "fire"
  /\ hook \in declared
  /\ fired' = [fired EXCEPT ![hook] = @ + 1]
  /\ hk' = FreshFrame
  /\ pc' = "loop"
  /\ UNCHANGED <<tokenVars, declared, hook, loopVars, step, run, open, mark>>

FireNothing ==
  /\ pc = "fire"
  /\ hook \in HookKind \ declared
  /\ AfterHook(hook)
  /\ UNCHANGED <<tokenVars, declared, loopVars, hk, step, seenVars, mark>>

\* Mutant of MainLoopReturns: `error` fires for a cancelled run too.
ErrorFiresOnCancel ==
  /\ pc = "leave" /\ hook = NoHook
  /\ hook' = IF failed \/ cancelled # NoReason THEN "error" ELSE "destroy"
  /\ pc' = "fire"
  /\ UNCHANGED <<tokenVars, declared, loopVars, hk, step, seenVars, mark>>

\* The main loop returned: a failure fires `error`, and `destroy` comes last.
MainLoopReturns ==
  /\ pc = "leave" /\ hook = NoHook
  /\ hook' = IF failed /\ cancelled = NoReason THEN "error" ELSE "destroy"
  /\ pc' = "fire"
  /\ UNCHANGED <<tokenVars, declared, loopVars, hk, step, seenVars, mark>>

\* A hook body's loop returned: hook.finish, whatever the body came to.
HookLoopReturns ==
  /\ pc = "leave" /\ hook # NoHook
  /\ AfterHook(hook)
  /\ UNCHANGED <<tokenVars, declared, loopVars, hk, step, seenVars, mark>>

Status ==
  IF cancelled # NoReason THEN cancelled
  ELSE IF failed THEN "failed" ELSE "ok"

EmitRunFinish ==
  /\ pc = "finish"
  /\ run' = Status
  /\ pc' = "over"
  /\ UNCHANGED <<tokenVars, declared, hook, loopVars, hk, step, open, fired,
                 mark>>

-----------------------------------------------------------------------------
(* `run_tasks`: the head of the loop.                                      *)

At == IF hook = NoHook THEN i ELSE hk.at
Count == IF hook = NoHook THEN N ELSE HookTasks

NoMoreTasks ==
  /\ pc = "loop" /\ At > Count
  /\ pc' = "leave"
  /\ UNCHANGED <<tokenVars, declared, hook, loopVars, hk, step, seenVars,
                 mark>>

\* Mutant of StopDispatching: the reason is noted, but the loop is not left.
StopWithoutBreak ==
  /\ pc = "loop" /\ At <= Count
  /\ RequestedReason # NoReason
  /\ IF hook = NoHook
     THEN cancelled' = RequestedReason /\ UNCHANGED hk
     ELSE hk' = [hk EXCEPT !.cancelled = RequestedReason] /\ UNCHANGED cancelled
  /\ UNCHANGED <<tokenVars, declared, pc, hook, i, results, state, changed,
                 failed, step, seenVars, mark>>

\* The soft phase: nothing new is dispatched once a stop is requested.
StopDispatching ==
  /\ pc = "loop" /\ At <= Count
  /\ RequestedReason # NoReason
  /\ IF hook = NoHook
     THEN cancelled' = RequestedReason /\ UNCHANGED hk
     ELSE hk' = [hk EXCEPT !.cancelled = RequestedReason] /\ UNCHANGED cancelled
  /\ pc' = "leave"
  /\ UNCHANGED <<tokenVars, declared, hook, i, results, state, changed,
                 failed, step, seenVars, mark>>

\* Mutant of Dispatch: the token is not read at the head of the loop.
DispatchBlindly ==
  /\ pc = "loop" /\ At <= Count
  /\ pc' = "gate"
  /\ UNCHANGED <<tokenVars, declared, hook, loopVars, hk, step, seenVars,
                 mark>>

Dispatch ==
  /\ pc = "loop" /\ At <= Count
  /\ RequestedReason = NoReason
  /\ pc' = "gate"
  /\ UNCHANGED <<tokenVars, declared, hook, loopVars, hk, step, seenVars,
                 mark>>

-----------------------------------------------------------------------------
(* `run_step`, under the guard of the token.                               *)

StepReturns(s) ==
  /\ step' = s
  /\ pc' = "settle"
  /\ UNCHANGED <<tokenVars, declared, hook, loopVars, hk, seenVars, mark>>

\* The `if` is falsy: no task.start, no secret resolved.
GateCloses ==
  /\ pc = "gate"
  /\ hook = NoHook => i \in Gated
  /\ StepReturns(Skipped)

\* The context, the `if`, a secret or the write of task.start failed.
StepFailsBeforeStart == pc = "gate" /\ StepReturns(Failure(NoReason))

EmitTaskStart ==
  /\ pc = "gate"
  /\ open' = (hook = NoHook)
  /\ pc' = "work"
  /\ UNCHANGED <<tokenVars, declared, hook, loopVars, hk, step, run, fired,
                 mark>>

WorkProduces == pc = "work" /\ \E v \in Values : StepReturns(Produced(v))

\* The adapter, the `produces` check, or a sub-flow's own failure.
WorkFails == pc = "work" /\ StepReturns(Failure(NoReason))

\* A sub-flow's loop, or the guard around one of its steps, saw the token and
\* the cancellation came up as the error of the nested task.
NestedWorkIsCancelled ==
  /\ pc = "work"
  /\ hook = NoHook => i \in Nested
  /\ \E r \in {RequestedReason, HardReason} \ {NoReason} :
       StepReturns(Failure(r))

\* Mutant of GuardAbandonsStep: the adapter call is awaited outside the guard.
GuardEndsAtTaskStart ==
  /\ pc = "gate"
  /\ HardReason # NoReason
  /\ StepReturns(Failure(HardReason))

\* The guard: the hard stop fired before the step was done.  A step that is
\* being polled at that moment may still complete, so this disables nothing.
GuardAbandonsStep ==
  /\ pc \in {"gate", "work"}
  /\ HardReason # NoReason
  /\ StepReturns(Failure(HardReason))

-----------------------------------------------------------------------------
(* The main loop settles a step: the merge, one event, one result.         *)

Settles == pc = "settle" /\ hook = NoHook

\* The result of task i is pushed, and the task's end is on the stream.
Record(status, out, r) ==
  /\ results' = Append(results, Result(status, out, r))
  /\ open' = FALSE
  /\ step' = Skipped
  /\ UNCHANGED <<tokenVars, declared, hk, run, fired, mark>>

GoesOn == pc' = "loop" /\ i' = i + 1 /\ UNCHANGED <<hook, failed, cancelled>>
Fails == pc' = "leave" /\ failed' = TRUE /\ UNCHANGED <<hook, i, cancelled>>

Merge(v) == state' = [state EXCEPT ![KeyOf[i]] = v]

TaskSkips ==
  /\ Settles /\ step.kind = "skipped"
  /\ Record("skipped", Absent, NoReason)
  /\ GoesOn
  /\ UNCHANGED <<state, changed>>

\* The merge left the state as it was: task.finish, and no `change`.
TaskSucceedsUnchanged ==
  /\ Settles /\ step.kind = "ok"
  /\ state[KeyOf[i]] = step.value
  /\ Record("ok", step.value, NoReason)
  /\ GoesOn
  /\ UNCHANGED <<state, changed>>

\* The merge changed the state: `change` fires after task.finish.
TaskChangesState ==
  /\ Settles /\ step.kind = "ok"
  /\ state[KeyOf[i]] # step.value
  /\ Merge(step.value)
  /\ changed' = changed \cup {i}
  /\ Record("ok", step.value, NoReason)
  /\ pc' = "fire" /\ hook' = "change" /\ i' = i + 1
  /\ UNCHANGED <<failed, cancelled>>

\* Mutant of OutputDoesNotFit: the value is merged before the cap is checked.
MergesBeforeChecking ==
  /\ Settles /\ step.kind = "ok"
  /\ Merge(step.value)
  /\ Record("error", Absent, NoReason)
  /\ Fails
  /\ UNCHANGED changed

\* The output does not fit: fatal whatever the task's error policy.
OutputDoesNotFit ==
  /\ Settles /\ step.kind = "ok"
  /\ Record("error", Absent, NoReason)
  /\ Fails
  /\ UNCHANGED <<state, changed>>

\* Mutant of TaskIsCancelled: the cancellation is taken for a failure.
CancellationFails ==
  /\ Settles /\ step.kind = "error" /\ step.reason # NoReason
  /\ Record("error", Absent, step.reason)
  /\ Fails
  /\ UNCHANGED <<state, changed>>

TaskIsCancelled ==
  /\ Settles /\ step.kind = "error" /\ step.reason # NoReason
  /\ Record("error", Absent, step.reason)
  /\ cancelled' = step.reason
  /\ pc' = "leave"
  /\ UNCHANGED <<hook, i, state, changed, failed>>

TaskFails == Settles /\ step.kind = "error" /\ step.reason = NoReason

\* Mutant of FailureIsRecorded: the error slot counts as a change.
FailureIsAChange ==
  /\ TaskFails
  /\ i \in ContinueOnError
  /\ Merge(ErrorSlot)
  /\ Record("error", ErrorSlot, NoReason)
  /\ GoesOn
  /\ changed' = changed \cup {i}

\* `fail_task` under continueOnError: the error takes the task's slot, which
\* is no state change in the sense of the `change` hook.
FailureIsRecorded ==
  /\ TaskFails
  /\ i \in ContinueOnError
  /\ Merge(ErrorSlot)
  /\ Record("error", ErrorSlot, NoReason)
  /\ GoesOn
  /\ UNCHANGED changed

\* `fail_task`: not under continueOnError, or the slot does not fit either.
FailureStopsRun ==
  /\ TaskFails
  /\ Record("error", Absent, NoReason)
  /\ Fails
  /\ UNCHANGED <<state, changed>>

-----------------------------------------------------------------------------
(* A hook body's loop settles a step.                                      *)

HookSettles == pc = "settle" /\ hook # NoHook

HookTaskEnds ==
  /\ HookSettles
  /\ step.reason = NoReason
  /\ hk' = [hk EXCEPT !.at = @ + 1]
  /\ step' = Skipped
  /\ pc' = "loop"
  /\ UNCHANGED <<tokenVars, declared, hook, loopVars, seenVars, mark>>

HookTaskFails ==
  /\ HookSettles
  /\ step.kind # "skipped" /\ step.reason = NoReason
  /\ hk' = [hk EXCEPT !.failed = TRUE]
  /\ step' = Skipped
  /\ pc' = "leave"
  /\ UNCHANGED <<tokenVars, declared, hook, loopVars, seenVars, mark>>

HookTaskIsCancelled ==
  /\ HookSettles
  /\ step.reason # NoReason
  /\ hk' = [hk EXCEPT !.cancelled = step.reason]
  /\ step' = Skipped
  /\ pc' = "leave"
  /\ UNCHANGED <<tokenVars, declared, hook, loopVars, seenVars, mark>>

-----------------------------------------------------------------------------

\* The sink refuses the event the run is about to emit outside `run_step`, or
\* the hook's body is a reference the engine cannot run: `?` carries the error
\* out of `run`, past every hook that is left.
SinkFails ==
  /\ \/ pc \in {"idle", "settle", "finish"}
     \/ pc = "fire" /\ hook \in declared
     \/ pc = "leave" /\ hook # NoHook
  /\ pc' = "aborted"
  /\ hook' = IF pc = "fire" THEN NoHook ELSE hook
  /\ run' = "broken"
  /\ UNCHANGED <<tokenVars, declared, loopVars, hk, step, open, fired, mark>>

\* What the engine does by itself, with no backend or adapter to wait for.
Engine ==
  \/ EmitRunStart \/ FireHook \/ FireNothing
  \/ MainLoopReturns \/ HookLoopReturns \/ EmitRunFinish
  \/ NoMoreTasks \/ StopDispatching \/ Dispatch
  \/ GateCloses \/ GuardAbandonsStep
  \/ TaskSkips \/ TaskSucceedsUnchanged \/ TaskChangesState
  \/ OutputDoesNotFit \/ TaskIsCancelled \/ FailureIsRecorded
  \/ FailureStopsRun
  \/ HookTaskEnds \/ HookTaskFails \/ HookTaskIsCancelled

\* What waits for a secret backend or for the adapter of the task.
Work ==
  \/ StepFailsBeforeStart \/ EmitTaskStart
  \/ WorkProduces \/ WorkFails \/ NestedWorkIsCancelled

Watchers == \E r \in Reasons : WatcherRequests(r) \/ WatcherStops(r)

Next == Engine \/ Work \/ SinkFails \/ Watchers

Over == pc \in {"over", "aborted"}

(***************************************************************************)
(* Fairness: the engine's task is run while it is runnable and the grace   *)
(* timers fire.  An adapter may hang for ever, and no one has to cancel.   *)
(***************************************************************************)
Fairness ==
  /\ WF_vars(Engine)
  /\ \A r \in Reasons : WF_vars(WatcherStops(r))

Spec == Init /\ [][Next]_vars /\ Fairness

-----------------------------------------------------------------------------
(* Properties.                                                             *)

\* What the first n tasks have made of the state: under every key the output
\* (or the error slot) of the last of them that left one there.
StateAfter(n) ==
  [k \in Key |->
     LET writers == {j \in 1 .. n : KeyOf[j] = k /\ results[j].out # Absent}
     IN  IF writers = {} THEN Seed[k]
         ELSE results[CHOOSE j \in writers :
                        \A l \in writers : l <= j].out]

\* The state and the per-task results, which `--state-out` and the run record
\* publish side by side, tell the same story: a task that was skipped, cut off
\* or stopped the run left no trace in the state, and every other one did.
StateReplaysResults == state = StateAfter(Len(results))

\* Outcome.changed names exactly the successful tasks whose merge changed the
\* state as it was before them.
ChangedIsExact ==
  \A j \in 1 .. Len(results) :
    j \in changed <=>
      /\ results[j].status = "ok"
      /\ StateAfter(j - 1)[KeyOf[j]] # results[j].out

Stops(r) == r.status = "error" /\ r.out = Absent

\* The status of a finished run and its results agree: `ok` only if every task
\* was walked and none stopped the run; `failed` by the last result, a failure
\* that is no cancellation; `timed_out`/`cancelled` because the last result
\* was cut off for that reason, or because tasks were left undispatched.
ResultsExplainStatus ==
  LET n == Len(results)
  IN  /\ \A j \in 1 .. n : Stops(results[j]) => j = n
      /\ run = "ok" => n = N /\ \A j \in 1 .. n : ~Stops(results[j])
      /\ run = "failed" =>
           n > 0 /\ Stops(results[n]) /\ results[n].reason = NoReason
      /\ run \in Reasons =>
           \/ n > 0 /\ results[n].reason = run
           \/ n < N /\ \A j \in 1 .. n : ~Stops(results[j])

\* Once a stop is requested at most the task in flight still ends, whatever
\* hooks run in between: nothing new is dispatched.
OnlyTheTaskInFlightEnds ==
  requested # NoReason => Len(results) <= mark + 1

\* A cancelled run still runs its teardown hooks to their end: no task of
\* theirs is cut off or left out by the token that stopped the run.
TeardownIsNeverCancelled ==
  hook \in Teardown /\ pc # "fire" =>
    hk.cancelled = NoReason /\ step.reason = NoReason

\* A requested stop gets the run out of its tasks and of the hooks among them,
\* even if no adapter ever answers again.
CancelReachesTeardown ==
  (requested # NoReason) ~> (hook \in Teardown \/ pc = "finish" \/ Over)

\* With adapters that answer the teardown hooks, a requested stop ends the run.
TeardownAnswers == WF_vars(Work /\ hook \in Teardown)

CancelEndsRun == TeardownAnswers => ((requested # NoReason) ~> Over)

Lifecycle ==
  INSTANCE RunLifecycle WITH
    Endings <- Reasons,
    ended <- Len(results),
    changes <- Cardinality(changed),
    hook <- IF pc = "fire" THEN NoHook ELSE hook

\* The event stream of every run follows the documented lifecycle.
ImplementsLifecycle == Lifecycle!Spec

=============================================================================
