----------------------- MODULE PipelineRunner_proofs ------------------------
(***************************************************************************)
(* PipelineRunner for every flow, every set of hooks and every cancellation *)
(* source: its types, the invariants about its control, the state as a     *)
(* replay of the results, and the refinement of RunLifecycle.              *)
(***************************************************************************)
EXTENDS PipelineRunner, SequenceTheorems, FiniteSetTheorems, WellFoundedInduction, TLAPS

USE NoReasonAssumption, FlowAssumption, ValueAssumption

\* The variables that tell where a run is and what its token says.
LEMMA InitTypeOK == Init => TypeOK
<1> SUFFICES ASSUME Init PROVE TypeOK
  OBVIOUS
<1> USE DEF Init, TokenInit
<1>1. TokenTypeOK
  BY DEF TokenTypeOK
<1>2. /\ pc \in PC /\ hook \in HookKind \cup {NoHook}
      /\ run \in {"none", "open", "broken", "ok", "failed"} \cup Reasons
      /\ open \in BOOLEAN /\ fired \in [HookKind -> Nat] /\ mark \in Nat
  BY DEF PC
<1>3. i \in 1 .. N + 1 /\ results \in Seq(ResultType)
  OBVIOUS
<1>4. /\ state \in [Key -> Values \cup {ErrorSlot, Absent}]
      /\ changed \subseteq Main /\ failed \in BOOLEAN
      /\ cancelled \in Reasons \cup {NoReason}
  OBVIOUS
<1>5. hk \in FrameType
  BY DEF FreshFrame, FrameType
<1>6. step \in StepType
  BY DEF StepType
<1>7. QED
  BY <1>1, <1>2, <1>3, <1>4, <1>5, <1>6 DEF TypeOK

\* What run_step may return is a step result.
LEMMA StepTypes ==
  /\ Skipped \in StepType
  /\ \A v \in Values : Produced(v) \in StepType
  /\ \A r \in Reasons \cup {NoReason} : Failure(r) \in StepType
BY DEF StepType

\* A result pushed by the main loop is well formed.
LEMMA ResultTypes ==
  ASSUME NEW s \in {"ok", "skipped", "error"},
         NEW v \in Values \cup {ErrorSlot, Absent},
         NEW r \in Reasons \cup {NoReason}
  PROVE  Result(s, v, r) \in ResultType
BY DEF Result, ResultType

\* A successful step carries one of the values.
LEMMA StepValues ==
  ASSUME NEW s \in StepType
  PROVE  /\ s.kind \in {"skipped", "ok", "error"}
         /\ s.kind = "ok" => s.value \in Values
         /\ s.reason \in Reasons \cup {NoReason}
BY DEF StepType, Skipped, Produced, Failure

\* A hook body's frame stays one.
LEMMA FrameTypes ==
  ASSUME NEW f \in FrameType
  PROVE  /\ FreshFrame \in FrameType
         /\ f.at \in 1 .. HookTasks =>
              [f EXCEPT !.at = @ + 1] \in FrameType
         /\ [f EXCEPT !.failed = TRUE] \in FrameType
         /\ \A r \in Reasons \cup {NoReason} :
              [f EXCEPT !.cancelled = r] \in FrameType
<1>1. FreshFrame \in FrameType
  BY DEF FreshFrame, FrameType
<1>2. ASSUME f.at \in 1 .. HookTasks
      PROVE  [f EXCEPT !.at = @ + 1] \in FrameType
  <2>1. f.at + 1 \in 1 .. HookTasks + 1
    BY <1>2
  <2>2. QED
    BY <2>1 DEF FrameType
<1>3. /\ [f EXCEPT !.failed = TRUE] \in FrameType
      /\ \A r \in Reasons \cup {NoReason} :
           [f EXCEPT !.cancelled = r] \in FrameType
  BY DEF FrameType
<1>4. QED
  BY <1>1, <1>2, <1>3

\* The watchers touch the token and the history mark only.
LEMMA WatchersType ==
  ASSUME TypeOK, NEW r \in Reasons, WatcherRequests(r) \/ WatcherStops(r)
  PROVE  TypeOK'
<1> USE DEF TypeOK, TokenTypeOK, loopVars, seenVars
<1>1. TokenTypeOK' /\ mark' \in Nat
  <2>1. CASE WatcherRequests(r)
    <3>1. Len(results) \in Nat
      BY LenProperties
    <3>2. QED
      BY <2>1, <3>1 DEF WatcherRequests, Request, First
  <2>2. CASE WatcherStops(r)
    BY <2>2 DEF WatcherStops, HardCancel, First
  <2>3. QED
    BY <2>1, <2>2
<1>2. UNCHANGED <<declared, pc, hook, loopVars, hk, step, seenVars>>
  BY DEF WatcherRequests, WatcherStops
<1>3. QED
  BY <1>1, <1>2

\* The steps around the task loop.
LEMMA LifecycleType ==
  ASSUME TypeOK,
         \/ EmitRunStart \/ FireHook \/ FireNothing \/ MainLoopReturns
         \/ HookLoopReturns \/ EmitRunFinish \/ SinkFails
  PROVE  TypeOK'
<1> USE DEF TypeOK, TokenTypeOK, tokenVars, loopVars, seenVars, PC, HookKind
<1>1. CASE EmitRunStart
  BY <1>1 DEF EmitRunStart
<1>2. CASE FireHook
  <2>1. hk' \in FrameType
    BY <1>2, FrameTypes DEF FireHook
  <2>2. fired' \in [HookKind -> Nat]
    BY <1>2 DEF FireHook
  <2>3. QED
    BY <1>2, <2>1, <2>2 DEF FireHook
<1>0. AfterHook(hook) /\ hook # NoHook => pc' \in PC /\ hook' \in HookKind \cup {NoHook}
  <2>1. CASE hook \in {"create", "change"}
    BY <2>1 DEF AfterHook
  <2>2. CASE hook \in {"error", "destroy"}
    BY <2>2 DEF AfterHook
  <2>3. QED
    BY <2>1, <2>2
<1>3. CASE FireNothing
  BY <1>0, <1>3 DEF FireNothing
<1>4. CASE MainLoopReturns
  BY <1>4 DEF MainLoopReturns
<1>5. CASE HookLoopReturns
  BY <1>0, <1>5 DEF HookLoopReturns
<1>6. CASE EmitRunFinish
  BY <1>6 DEF EmitRunFinish, Status
<1>7. CASE SinkFails
  BY <1>7 DEF SinkFails
<1>8. QED
  BY <1>1, <1>2, <1>3, <1>4, <1>5, <1>6, <1>7

\* The head of the loop and run_step.
LEMMA StepActionsType ==
  ASSUME TypeOK,
         \/ NoMoreTasks \/ StopDispatching \/ Dispatch
         \/ GateCloses \/ GuardAbandonsStep \/ Work
  PROVE  TypeOK'
<1> USE DEF TypeOK, TokenTypeOK, tokenVars, loopVars, seenVars, PC
<1>1. CASE NoMoreTasks \/ Dispatch
  BY <1>1 DEF NoMoreTasks, Dispatch
<1>2. CASE StopDispatching
  <2>1. RequestedReason \in Reasons \cup {NoReason}
    BY DEF RequestedReason
  <2>2. CASE hook = NoHook
    BY <1>2, <2>1, <2>2 DEF StopDispatching
  <2>3. CASE hook # NoHook
    <3>1. hk' \in FrameType /\ UNCHANGED cancelled
      <4>1. /\ hk' = [hk EXCEPT !.cancelled = RequestedReason]
            /\ UNCHANGED cancelled
        BY <1>2, <2>3 DEF StopDispatching
      <4>2. hk \in FrameType
        OBVIOUS
      <4>3. QED
        BY <2>1, <4>1, <4>2, FrameTypes
    <3>2. QED
      BY <1>2, <3>1 DEF StopDispatching
  <2>4. QED
    BY <2>2, <2>3
<1>3. ASSUME NEW s \in StepType, StepReturns(s) PROVE TypeOK'
  BY <1>3 DEF StepReturns
<1>4. HardReason \in Reasons \cup {NoReason}
      /\ RequestedReason \in Reasons \cup {NoReason}
  BY DEF HardReason, RequestedReason
<1>5. CASE GateCloses \/ GuardAbandonsStep
  BY <1>3, <1>4, <1>5, StepTypes DEF GateCloses, GuardAbandonsStep
<1>6. CASE EmitTaskStart
  BY <1>6 DEF EmitTaskStart
<1>7. CASE Work
  BY <1>3, <1>4, <1>6, <1>7, StepTypes
  DEF Work, StepFailsBeforeStart, WorkProduces, WorkFails,
      NestedWorkIsCancelled
<1>8. QED
  BY <1>1, <1>2, <1>5, <1>7

\* What the main loop makes of a step.
LEMMA SettleType ==
  ASSUME TypeOK, i \in Main,
         \/ TaskSkips \/ TaskSucceedsUnchanged \/ TaskChangesState
         \/ OutputDoesNotFit \/ TaskIsCancelled \/ FailureIsRecorded
         \/ FailureStopsRun
  PROVE  TypeOK'
<1> USE DEF TypeOK, TokenTypeOK, tokenVars, loopVars, seenVars, PC, HookKind
<1>1. ASSUME NEW s \in {"ok", "skipped", "error"},
             NEW v \in Values \cup {ErrorSlot, Absent},
             NEW r \in Reasons \cup {NoReason}, Record(s, v, r)
      PROVE  /\ results' \in Seq(ResultType)
             /\ open' \in BOOLEAN /\ step' \in StepType
             /\ UNCHANGED <<tokenVars, declared, hk, run, fired, mark>>
  BY <1>1, ResultTypes, StepTypes, AppendProperties DEF Record
<1>2. KeyOf[i] \in Key /\ i + 1 \in 1 .. N + 1 /\ i \in Main
  BY DEF Main
<1>3. CASE TaskSkips
  BY <1>1, <1>2, <1>3 DEF TaskSkips, GoesOn, Settles
<1>4. CASE TaskSucceedsUnchanged
  BY <1>1, <1>2, <1>4, StepValues DEF TaskSucceedsUnchanged, GoesOn, Settles
<1>5. CASE TaskChangesState
  <2>1. step.value \in Values
    BY <1>5, StepValues DEF TaskChangesState
  <2>2. /\ state' = [state EXCEPT ![KeyOf[i]] = step.value]
        /\ changed' = changed \cup {i} /\ pc' = "fire" /\ hook' = "change"
        /\ i' = i + 1 /\ UNCHANGED <<failed, cancelled>>
        /\ Record("ok", step.value, NoReason)
    BY <1>5 DEF TaskChangesState, Merge
  <2>3. state' \in [Key -> Values \cup {ErrorSlot, Absent}]
    BY <1>2, <2>1, <2>2
  <2>4. /\ results' \in Seq(ResultType)
        /\ open' \in BOOLEAN /\ step' \in StepType
        /\ UNCHANGED <<tokenVars, declared, hk, run, fired, mark>>
    <3>1. step.value \in Values \cup {ErrorSlot, Absent}
      BY <2>1
    <3>2. QED
      BY <1>1, <2>2, <3>1, Zenon
  <2>5. /\ pc' \in PC /\ hook' \in HookKind \cup {NoHook}
        /\ i' \in 1 .. N + 1 /\ changed' \subseteq Main
        /\ failed' \in BOOLEAN /\ cancelled' \in Reasons \cup {NoReason}
    BY <1>2, <2>2
  <2>6. QED
    BY <2>3, <2>4, <2>5
<1>6. CASE OutputDoesNotFit
  BY <1>1, <1>6 DEF OutputDoesNotFit, Fails, Settles
<1>7. CASE TaskIsCancelled
  BY <1>1, <1>7, StepValues DEF TaskIsCancelled, Settles
<1>8. CASE FailureIsRecorded
  BY <1>1, <1>2, <1>8 DEF FailureIsRecorded, TaskFails, GoesOn, Merge, Settles
<1>9. CASE FailureStopsRun
  BY <1>1, <1>9 DEF FailureStopsRun, TaskFails, Fails, Settles
<1>10. QED
  BY <1>3, <1>4, <1>5, <1>6, <1>7, <1>8, <1>9

\* What a hook body's loop makes of a step.
LEMMA HookSettleType ==
  ASSUME TypeOK, hk.at \in 1 .. HookTasks,
         HookTaskEnds \/ HookTaskFails \/ HookTaskIsCancelled
  PROVE  TypeOK'
<1> USE DEF TypeOK, TokenTypeOK, tokenVars, loopVars, seenVars, PC
<1>1. CASE HookTaskEnds
  BY <1>1, StepTypes, FrameTypes DEF HookTaskEnds
<1>2. CASE HookTaskFails
  BY <1>2, StepTypes, FrameTypes DEF HookTaskFails
<1>3. CASE HookTaskIsCancelled
  BY <1>3, StepTypes, StepValues, FrameTypes DEF HookTaskIsCancelled
<1>4. QED
  BY <1>1, <1>2, <1>3

-----------------------------------------------------------------------------
(* The types hold together with two facts about the program counter: a     *)
(* step is taken for a task of the loop that is on, and a hook is firing   *)
(* whenever the run is about to fire one.                                  *)

InBounds == pc \in {"gate", "work", "settle"} => At <= Count

TInv == TypeOK /\ InBounds

LEMMA TInvInductive ==
  ASSUME TInv, [Next]_vars
  PROVE  TInv'
<1> USE DEF TInv, InBounds, At, Count
<1>1. ASSUME NEW r \in Reasons, WatcherRequests(r) \/ WatcherStops(r)
      PROVE  TInv'
  <2>1. UNCHANGED <<pc, hook, i, hk>>
    BY <1>1 DEF WatcherRequests, WatcherStops, loopVars
  <2>2. QED
    BY <1>1, <2>1, WatchersType
<1>2. CASE \/ EmitRunStart \/ FireHook \/ FireNothing \/ MainLoopReturns
           \/ HookLoopReturns \/ EmitRunFinish \/ SinkFails
  <2>1. TypeOK'
    BY <1>2, LifecycleType
  <2>2. pc' \notin {"gate", "work", "settle"}
    BY <1>2 DEF EmitRunStart, FireHook, FireNothing, MainLoopReturns,
                HookLoopReturns, EmitRunFinish, SinkFails, AfterHook,
                TypeOK, HookKind
  <2>3. QED
    BY <2>1, <2>2
<1>3. CASE \/ NoMoreTasks \/ StopDispatching \/ Dispatch
           \/ GateCloses \/ GuardAbandonsStep \/ Work
  <2>1. TypeOK'
    BY <1>3, StepActionsType
  <2>2. CASE NoMoreTasks \/ StopDispatching
    BY <2>1, <2>2 DEF NoMoreTasks, StopDispatching
  <2>3. CASE Dispatch
    BY <2>1, <2>3 DEF Dispatch, loopVars
  <2>4. CASE GateCloses \/ GuardAbandonsStep \/ Work
    <3>1. pc \in {"gate", "work"} /\ UNCHANGED <<hook, i, hk>>
      BY <2>4 DEF GateCloses, GuardAbandonsStep, Work, StepFailsBeforeStart,
                  EmitTaskStart, WorkProduces, WorkFails,
                  NestedWorkIsCancelled, StepReturns, loopVars
    <3>2. QED
      BY <2>1, <3>1
  <2>5. QED
    BY <1>3, <2>2, <2>3, <2>4
<1>4. CASE \/ TaskSkips \/ TaskSucceedsUnchanged \/ TaskChangesState
           \/ OutputDoesNotFit \/ TaskIsCancelled \/ FailureIsRecorded
           \/ FailureStopsRun
  <2>1. Settles /\ pc' \in {"loop", "fire", "leave"}
    BY <1>4 DEF TaskSkips, TaskSucceedsUnchanged, TaskChangesState,
                OutputDoesNotFit, TaskIsCancelled, FailureIsRecorded,
                FailureStopsRun, TaskFails, GoesOn, Fails
  <2>2. i \in Main
    BY <2>1 DEF Settles, TypeOK, Main
  <2>3. TypeOK'
    BY <1>4, <2>2, SettleType
  <2>4. QED
    BY <2>1, <2>3
<1>5. CASE HookTaskEnds \/ HookTaskFails \/ HookTaskIsCancelled
  <2>1. HookSettles /\ pc' \in {"loop", "leave"}
    BY <1>5 DEF HookTaskEnds, HookTaskFails, HookTaskIsCancelled
  <2>2. hk.at \in 1 .. HookTasks
    BY <2>1 DEF HookSettles, TypeOK, FrameType
  <2>3. TypeOK'
    BY <1>5, <2>2, HookSettleType
  <2>4. QED
    BY <2>1, <2>3
<1>6. CASE UNCHANGED vars
  BY <1>6 DEF vars, TypeOK, TokenTypeOK, tokenVars, loopVars, seenVars
<1>7. QED
  BY <1>1, <1>2, <1>3, <1>4, <1>5, <1>6 DEF Next, Engine, Watchers

LEMMA InvTInv == Spec => []TInv
<1>1. Init => TInv
  BY InitTypeOK DEF TInv, InBounds, Init
<1>2. QED
  BY <1>1, TInvInductive, PTL DEF Spec

\* The variables of a run have their types in every reachable state.
THEOREM TypeCorrect == Spec => []TypeOK
<1>1. TInv => TypeOK
  BY DEF TInv
<1>2. QED
  BY <1>1, InvTInv, PTL

-----------------------------------------------------------------------------
(* The control of a run: the inductive strengthening of the status, the    *)
(* late-task and the teardown invariants.                                  *)

MainLoopIsOver ==
  \/ hook \in Teardown
  \/ pc \in {"finish", "over", "aborted"}
  \/ pc = "leave" /\ hook = NoHook

HookWhere ==
  /\ pc \in {"idle", "finish", "over"} => hook = NoHook
  /\ pc = "fire" => hook # NoHook

StepInSettle == pc \notin {"settle", "aborted"} => step = Skipped

RunSays ==
  /\ pc = "idle" => run = "none"
  /\ pc = "over" => run = Status
  /\ pc = "aborted" => run = "broken"
  /\ pc \notin {"idle", "over", "aborted"} => run = "open"

NoneStops(n) == \A j \in 1 .. n : ~Stops(results[j])

\* While nothing has stopped the loop, every task before i has its result.
WalkingTally ==
  /\ Len(results) = i - 1
  /\ NoneStops(Len(results))
  /\ MainLoopIsOver /\ pc # "aborted" => i = N + 1

FailedTally ==
  /\ cancelled = NoReason
  /\ MainLoopIsOver
  /\ Len(results) = i /\ NoneStops(i - 1)
  /\ Stops(results[i]) /\ results[i].reason = NoReason

CancelledTally ==
  /\ ~failed
  /\ MainLoopIsOver
  /\ NoneStops(i - 1)
  /\ \/ Len(results) = i /\ Stops(results[i]) /\ results[i].reason = cancelled
     \/ Len(results) = i - 1 /\ i <= N

Tally ==
  /\ ~failed /\ cancelled = NoReason => WalkingTally
  /\ failed => FailedTally
  /\ cancelled # NoReason => CancelledTally

\* The task in flight when the stop was requested is the last one: its result,
\* if it is there, is the only one since.
Late ==
  requested # NoReason =>
    /\ Len(results) \in {mark, mark + 1}
    /\ pc \in {"gate", "work", "settle"} /\ hook = NoHook =>
         Len(results) = mark

\* A watcher has requested the stop before it makes it a hard one.
TokenOrder == \A r \in Reasons : stage[r] # "armed" => requested # NoReason

ControlInv ==
  /\ TokenOrder
  /\ HookWhere
  /\ StepInSettle
  /\ RunSays
  /\ Tally
  /\ Late
  /\ TeardownIsNeverCancelled

LEMMA ControlInit == Init => ControlInv
<1> SUFFICES ASSUME Init PROVE ControlInv
  OBVIOUS
<1>1. Len(results) = 0
  BY DEF Init
<1>2. /\ HookWhere /\ StepInSettle /\ RunSays /\ TeardownIsNeverCancelled
      /\ TokenOrder
  BY DEF Init, TokenInit, TokenOrder, HookWhere, StepInSettle, RunSays, TeardownIsNeverCancelled,
         Teardown, HookKind
<1>3. Tally /\ Late
  BY <1>1 DEF Init, Tally, WalkingTally, FailedTally, CancelledTally,
              NoneStops, MainLoopIsOver, Teardown, HookKind, Late, TokenInit
<1>4. QED
  BY <1>2, <1>3 DEF ControlInv

\* The watchers change what is requested, and when it was.
LEMMA ControlWatchers ==
  ASSUME TInv, ControlInv, NEW r \in Reasons,
         WatcherRequests(r) \/ WatcherStops(r)
  PROVE  ControlInv'
<1> USE DEF ControlInv
<1>1. UNCHANGED <<pc, hook, i, results, failed, cancelled, hk, step, run>>
  BY DEF WatcherRequests, WatcherStops, loopVars, seenVars
<1>2. HookWhere' /\ StepInSettle' /\ TeardownIsNeverCancelled' /\ RunSays'
  BY <1>1 DEF HookWhere, StepInSettle, TeardownIsNeverCancelled, RunSays,
              Status
<1>3. Tally'
  BY <1>1 DEF Tally, WalkingTally, FailedTally, CancelledTally, NoneStops,
              MainLoopIsOver
<1>4. Len(results) \in Nat
  BY LenProperties DEF TInv, TypeOK
<1>5. Late'
  <2>1. CASE requested = NoReason /\ WatcherRequests(r)
    BY <1>1, <1>4, <2>1 DEF WatcherRequests, Late, TInv, TypeOK
  <2>2. CASE requested # NoReason
    <3>1. mark' = mark
      BY <2>2 DEF WatcherRequests, WatcherStops
    <3>2. QED
      BY <1>1, <2>2, <3>1 DEF Late
  <2>3. CASE requested = NoReason /\ WatcherStops(r)
    BY <2>3 DEF WatcherStops, HardCancel, TokenOrder
  <2>4. QED
    BY <2>1, <2>2, <2>3
<1>6. TokenOrder'
  BY DEF WatcherRequests, WatcherStops, Request, HardCancel, First, TokenOrder,
         TInv, TypeOK, TokenTypeOK
<1>7. QED
  BY <1>2, <1>3, <1>5, <1>6

\* What a step that leaves the main loop's frame alone has to show: the
\* program counter and the hook move within the main loop, or leave it with no
\* more to do than before.
LEMMA FrameKept ==
  ASSUME TInv, ControlInv, UNCHANGED <<tokenVars, loopVars, mark>>,
         MainLoopIsOver => MainLoopIsOver',
         MainLoopIsOver' /\ pc' # "aborted" => MainLoopIsOver \/ i = N + 1,
         pc = "aborted" => pc' = "aborted",
         pc' \in {"gate", "work", "settle"} /\ hook' = NoHook =>
           \/ pc \in {"gate", "work", "settle"} /\ hook = NoHook
           \/ requested = NoReason
  PROVE  Tally' /\ Late' /\ TokenOrder'
<1> USE DEF ControlInv, tokenVars, loopVars
<1>1. Tally'
  <2>1. ~failed /\ cancelled = NoReason => WalkingTally'
    BY DEF Tally, WalkingTally, NoneStops
  <2>2. failed => FailedTally'
    BY DEF Tally, FailedTally, NoneStops
  <2>3. cancelled # NoReason => CancelledTally'
    BY DEF Tally, CancelledTally, NoneStops
  <2>4. QED
    BY <2>1, <2>2, <2>3 DEF Tally
<1>2. Late'
  BY DEF Late
<1>3. TokenOrder'
  BY DEF TokenOrder
<1>4. QED
  BY <1>1, <1>2, <1>3

\* The steps around the task loop.
LEMMA ControlLifecycle ==
  ASSUME TInv, ControlInv, TInv',
         \/ EmitRunStart \/ FireHook \/ FireNothing \/ MainLoopReturns
         \/ HookLoopReturns \/ EmitRunFinish \/ SinkFails
  PROVE  ControlInv'
<1> USE DEF ControlInv, TInv, TypeOK
<1>1. UNCHANGED <<tokenVars, loopVars, mark>>
  BY DEF EmitRunStart, FireHook, FireNothing, MainLoopReturns,
         HookLoopReturns, EmitRunFinish, SinkFails
<1> USE DEF HookKind, Teardown
<1>2. CASE EmitRunStart
  <2>1. Tally' /\ Late' /\ TokenOrder'
    BY <1>1, <1>2, FrameKept DEF EmitRunStart, MainLoopIsOver, HookWhere
  <2>2. HookWhere' /\ StepInSettle' /\ RunSays' /\ TeardownIsNeverCancelled'
    BY <1>2 DEF EmitRunStart, HookWhere, StepInSettle, RunSays,
                TeardownIsNeverCancelled
  <2>3. QED
    BY <2>1, <2>2
<1>3. CASE FireHook
  <2>1. Tally' /\ Late' /\ TokenOrder'
    BY <1>1, <1>3, FrameKept DEF FireHook, MainLoopIsOver, HookWhere
  <2>2. HookWhere' /\ StepInSettle' /\ RunSays' /\ TeardownIsNeverCancelled'
    BY <1>3 DEF FireHook, HookWhere, StepInSettle, RunSays, Skipped,
                TeardownIsNeverCancelled, FreshFrame
  <2>3. QED
    BY <2>1, <2>2
<1>4. ASSUME hook # NoHook, pc \in {"fire", "leave"}, AfterHook(hook),
             UNCHANGED <<hk, step, run>>
      PROVE  ControlInv'
  <2>1. \/ /\ hook \in {"create", "change"}
           /\ pc' = "loop" /\ hook' = NoHook
        \/ hook = "error" /\ pc' = "fire" /\ hook' = "destroy"
        \/ hook = "destroy" /\ pc' = "finish" /\ hook' = NoHook
    BY <1>4 DEF AfterHook
  <2>2. Tally' /\ Late' /\ TokenOrder'
    BY <1>1, <1>4, <2>1, FrameKept DEF MainLoopIsOver
  <2>3. HookWhere' /\ StepInSettle' /\ RunSays' /\ TeardownIsNeverCancelled'
    BY <1>4, <2>1 DEF HookWhere, StepInSettle, RunSays,
                      TeardownIsNeverCancelled
  <2>4. QED
    BY <2>2, <2>3
<1>5. CASE FireNothing
  BY <1>4, <1>5 DEF FireNothing, seenVars, HookWhere
<1>6. CASE HookLoopReturns
  BY <1>4, <1>6 DEF HookLoopReturns, seenVars
<1>7. CASE MainLoopReturns
  <2>1. Tally' /\ Late' /\ TokenOrder'
    BY <1>1, <1>7, FrameKept DEF MainLoopReturns, MainLoopIsOver
  <2>2. HookWhere' /\ StepInSettle' /\ RunSays' /\ TeardownIsNeverCancelled'
    BY <1>7 DEF MainLoopReturns, HookWhere, StepInSettle, RunSays, seenVars,
                TeardownIsNeverCancelled
  <2>3. QED
    BY <2>1, <2>2
<1>8. CASE EmitRunFinish
  <2>1. Tally' /\ Late' /\ TokenOrder'
    BY <1>1, <1>8, FrameKept DEF EmitRunFinish, MainLoopIsOver
  <2>2. HookWhere' /\ StepInSettle' /\ TeardownIsNeverCancelled'
    BY <1>8 DEF EmitRunFinish, HookWhere, StepInSettle,
                TeardownIsNeverCancelled
  <2>3. RunSays'
    BY <1>1, <1>8 DEF EmitRunFinish, RunSays, Status, loopVars
  <2>4. QED
    BY <2>1, <2>2, <2>3
<1>9. CASE SinkFails
  <2>1. Tally' /\ Late' /\ TokenOrder'
    BY <1>1, <1>9, FrameKept DEF SinkFails, MainLoopIsOver
  <2>2. HookWhere' /\ StepInSettle' /\ RunSays' /\ TeardownIsNeverCancelled'
    BY <1>9 DEF SinkFails, HookWhere, StepInSettle, RunSays,
                TeardownIsNeverCancelled
  <2>3. QED
    BY <2>1, <2>2
<1>10. QED
  BY <1>2, <1>3, <1>5, <1>6, <1>7, <1>8, <1>9

\* The head of the loop and run_step.
LEMMA ControlSteps ==
  ASSUME TInv, ControlInv, TInv',
         \/ NoMoreTasks \/ StopDispatching \/ Dispatch
         \/ GateCloses \/ GuardAbandonsStep \/ Work
  PROVE  ControlInv'
<1> USE DEF ControlInv, TInv, TypeOK, HookKind, Teardown
<1>1. CASE NoMoreTasks
  <2>1. hook = NoHook => i = N + 1
    BY <1>1 DEF NoMoreTasks, At, Count
  <2>2. UNCHANGED <<tokenVars, loopVars, mark, hook, hk, step, run>>
        /\ pc = "loop" /\ pc' = "leave"
    BY <1>1 DEF NoMoreTasks, seenVars
  <2>3. Tally' /\ Late' /\ TokenOrder'
    BY <2>1, <2>2, FrameKept DEF MainLoopIsOver
  <2>4. HookWhere' /\ StepInSettle' /\ RunSays' /\ TeardownIsNeverCancelled'
    BY <2>2 DEF HookWhere, StepInSettle, RunSays, TeardownIsNeverCancelled
  <2>5. QED
    BY <2>3, <2>4
<1>2. CASE Dispatch
  <2>1. UNCHANGED <<tokenVars, loopVars, mark, hook, hk, step, run>>
        /\ pc = "loop" /\ pc' = "gate"
    BY <1>2 DEF Dispatch, seenVars
  <2>2. hook = NoHook => requested = NoReason
    BY <1>2 DEF Dispatch, RequestedReason
  <2>3. Tally' /\ Late' /\ TokenOrder'
    BY <2>1, <2>2, FrameKept DEF MainLoopIsOver
  <2>4. HookWhere' /\ StepInSettle' /\ RunSays' /\ TeardownIsNeverCancelled'
    BY <2>1 DEF HookWhere, StepInSettle, RunSays, TeardownIsNeverCancelled
  <2>5. QED
    BY <2>3, <2>4
<1>3. CASE StopDispatching
  <2>1. /\ UNCHANGED <<tokenVars, i, results, failed, mark, hook, step, run>>
        /\ pc = "loop" /\ pc' = "leave"
        /\ At <= Count
    BY <1>3 DEF StopDispatching, seenVars
  <2>2. CASE hook = NoHook
    <3>1. cancelled' # NoReason /\ UNCHANGED hk
      BY <1>3, <2>2 DEF StopDispatching
    <3>2. ~failed /\ cancelled = NoReason
      BY <2>1, <2>2 DEF Tally, FailedTally, CancelledTally, MainLoopIsOver
    <3>3. CancelledTally'
      BY <2>1, <2>2, <3>2 DEF Tally, WalkingTally, CancelledTally, NoneStops,
                              MainLoopIsOver, At, Count
    <3>4. Tally'
      BY <2>1, <3>1, <3>2, <3>3 DEF Tally
    <3>5. Late' /\ TokenOrder'
      BY <2>1 DEF Late, TokenOrder, tokenVars
    <3>6. HookWhere' /\ StepInSettle' /\ RunSays'
          /\ TeardownIsNeverCancelled'
      BY <2>1, <2>2, <3>1 DEF HookWhere, StepInSettle, RunSays,
                              TeardownIsNeverCancelled
    <3>7. QED
      BY <3>4, <3>5, <3>6
  <2>3. CASE hook # NoHook
    <3>1. hook \notin Teardown
      BY <1>3 DEF StopDispatching, RequestedReason
    <3>2. UNCHANGED <<loopVars>>
      BY <1>3, <2>3 DEF StopDispatching, loopVars
    <3>3. Tally' /\ Late' /\ TokenOrder'
      BY <2>1, <2>3, <3>1, <3>2, FrameKept DEF MainLoopIsOver
    <3>4. HookWhere' /\ StepInSettle' /\ RunSays'
          /\ TeardownIsNeverCancelled'
      BY <2>1, <3>1 DEF HookWhere, StepInSettle, RunSays,
                        TeardownIsNeverCancelled
    <3>5. QED
      BY <3>3, <3>4
  <2>4. QED
    BY <2>2, <2>3
<1>4. ASSUME pc \in {"gate", "work"}, pc' \in {"work", "settle"},
             UNCHANGED <<tokenVars, loopVars, mark, hook, hk, run>>,
             pc' = "work" => step' = step,
             hook \in Teardown => step'.reason = NoReason
      PROVE  ControlInv'
  <2>1. Tally' /\ Late' /\ TokenOrder'
    BY <1>4, FrameKept DEF MainLoopIsOver
  <2>2. HookWhere' /\ StepInSettle' /\ RunSays' /\ TeardownIsNeverCancelled'
    BY <1>4 DEF HookWhere, StepInSettle, RunSays, TeardownIsNeverCancelled
  <2>3. QED
    BY <2>1, <2>2
<1>5. step = Skipped => step.reason = NoReason
  BY DEF Skipped
<1>6. CASE EmitTaskStart
  BY <1>4, <1>5, <1>6 DEF EmitTaskStart, StepInSettle
<1>7. ASSUME NEW s, pc \in {"gate", "work"}, StepReturns(s),
             hook \in Teardown => s.reason = NoReason
      PROVE  ControlInv'
  BY <1>4, <1>7 DEF StepReturns, seenVars
<1>8. CASE GateCloses
  BY <1>7, <1>8 DEF GateCloses, Skipped
<1>9. CASE GuardAbandonsStep
  BY <1>7, <1>9 DEF GuardAbandonsStep, HardReason
<1>10. CASE StepFailsBeforeStart \/ WorkFails
  BY <1>7, <1>10 DEF StepFailsBeforeStart, WorkFails, Failure
<1>11. CASE WorkProduces
  BY <1>7, <1>11 DEF WorkProduces, Produced
<1>12. CASE NestedWorkIsCancelled
  BY <1>7, <1>12 DEF NestedWorkIsCancelled, HardReason, RequestedReason
<1>13. QED
  BY <1>1, <1>2, <1>3, <1>6, <1>8, <1>9, <1>10, <1>11, <1>12 DEF Work

\* What the main loop makes of a step: one result more, and the loop goes on,
\* fails or is cancelled.
LEMMA ControlSettles ==
  ASSUME TInv, ControlInv, TInv',
         \/ TaskSkips \/ TaskSucceedsUnchanged \/ TaskChangesState
         \/ OutputDoesNotFit \/ TaskIsCancelled \/ FailureIsRecorded
         \/ FailureStopsRun
  PROVE  ControlInv'
<1> USE DEF ControlInv, TInv, TypeOK, HookKind, Teardown
<1>1. Settles
  BY DEF TaskSkips, TaskSucceedsUnchanged, TaskChangesState, OutputDoesNotFit,
         TaskIsCancelled, FailureIsRecorded, FailureStopsRun, TaskFails
<1>2. /\ pc = "settle" /\ hook = NoHook
      /\ ~failed /\ cancelled = NoReason
      /\ Len(results) = i - 1 /\ NoneStops(i - 1)
      /\ i \in Main
  <2>1. pc = "settle" /\ hook = NoHook /\ ~MainLoopIsOver
    BY <1>1, ValueAssumption DEF Settles, MainLoopIsOver
  <2>2. i \in Main
    BY <2>1, FlowAssumption DEF InBounds, At, Count, Main
  <2>3. ~failed /\ cancelled = NoReason /\ WalkingTally
    BY <2>1 DEF Tally, FailedTally, CancelledTally
  <2>4. QED
    BY <2>1, <2>2, <2>3 DEF WalkingTally
<1>3. ASSUME NEW s \in {"ok", "skipped", "error"},
             NEW v \in Values \cup {ErrorSlot, Absent},
             NEW r \in Reasons \cup {NoReason}, Record(s, v, r)
      PROVE  /\ Len(results') = i /\ results'[i] = Result(s, v, r)
             /\ \A j \in 1 .. i - 1 : results'[j] = results[j]
             /\ UNCHANGED <<tokenVars, hk, run, mark>> /\ step' = Skipped
  <2>1. results \in Seq(ResultType) /\ Result(s, v, r) \in ResultType
    BY <1>3, ResultTypes
  <2>2. /\ results' = Append(results, Result(s, v, r))
        /\ UNCHANGED <<tokenVars, hk, run, mark>> /\ step' = Skipped
    BY <1>3 DEF Record
  <2>3. /\ Len(results') = Len(results) + 1
        /\ results'[Len(results) + 1] = Result(s, v, r)
        /\ \A j \in 1 .. Len(results) : results'[j] = results[j]
    BY <2>1, <2>2, AppendProperties
  <2>4. Len(results) + 1 = i
    BY <1>2 DEF Main
  <2>5. QED
    BY <1>2, <2>2, <2>3, <2>4
<1>4. ASSUME NEW s \in {"ok", "skipped", "error"},
             NEW v \in Values \cup {ErrorSlot, Absent},
             NEW r \in Reasons \cup {NoReason}, Record(s, v, r),
             pc' \in {"loop", "fire", "leave"}
      PROVE  Late' /\ TokenOrder' /\ StepInSettle' /\ RunSays'
  <2>1. /\ Len(results') = i /\ UNCHANGED <<tokenVars, hk, run, mark>>
        /\ step' = Skipped
    BY <1>3, <1>4
  <2>2. requested # NoReason => i - 1 = mark
    BY <1>2 DEF Late
  <2>3. requested # NoReason => i = mark + 1
    BY <1>2, <2>2 DEF Main
  <2>4. Late' /\ TokenOrder'
    BY <1>4, <2>1, <2>3 DEF Late, TokenOrder, tokenVars
  <2>5. StepInSettle' /\ RunSays'
    BY <1>2, <1>4, <2>1 DEF StepInSettle, RunSays
  <2>6. QED
    BY <2>4, <2>5
<1>5. ASSUME NEW s \in {"ok", "skipped", "error"},
             NEW v \in Values \cup {ErrorSlot, Absent},
             Record(s, v, NoReason), s = "error" => v = ErrorSlot,
             i' = i + 1, UNCHANGED <<failed, cancelled>>,
             \/ pc' = "loop" /\ hook' = NoHook
             \/ pc' = "fire" /\ hook' = "change"
      PROVE  ControlInv'
  <2>0. /\ Len(results') = i /\ results'[i] = Result(s, v, NoReason)
        /\ \A j \in 1 .. i - 1 : results'[j] = results[j]
    BY <1>3, <1>5
  <2>1. ~Stops(results'[i])
    BY <1>5, <2>0, ValueAssumption DEF Stops, Result
  <2>2. \A j \in 1 .. i : ~Stops(results'[j])
    BY <1>2, <2>0, <2>1 DEF NoneStops, Main
  <2>3. WalkingTally'
    <3>1. ~MainLoopIsOver'
      BY <1>5, ValueAssumption DEF MainLoopIsOver
    <3>2. Len(results') = i' - 1
      BY <1>2, <1>5, <2>0 DEF Main
    <3>3. NoneStops(Len(results))'
      BY <2>0, <2>2 DEF NoneStops
    <3>4. QED
      BY <3>1, <3>2, <3>3 DEF WalkingTally
  <2>4. Tally'
    BY <1>2, <1>5, <2>3 DEF Tally
  <2>5. HookWhere' /\ TeardownIsNeverCancelled'
    BY <1>5 DEF HookWhere, TeardownIsNeverCancelled
  <2>6. QED
    BY <1>4, <1>5, <2>4, <2>5
<1>6. ASSUME NEW r \in Reasons \cup {NoReason}, Record("error", Absent, r),
             pc' = "leave", UNCHANGED <<i, hook>>,
             \/ r = NoReason /\ failed' = TRUE /\ cancelled' = cancelled
             \/ r # NoReason /\ failed' = failed /\ cancelled' = r
      PROVE  ControlInv'
  <2>1. Len(results') = i /\ results'[i] = Result("error", Absent, r)
        /\ \A j \in 1 .. i - 1 : results'[j] = results[j]
    BY <1>3, <1>6
  <2>2. Stops(results'[i]) /\ results'[i].reason = r
    BY <2>1 DEF Stops, Result
  <2>3. NoneStops(i - 1)'
    BY <1>2, <1>6, <2>1 DEF NoneStops
  <2>4. Tally'
    BY <1>2, <1>6, <2>1, <2>2, <2>3
    DEF Tally, FailedTally, CancelledTally, MainLoopIsOver
  <2>5. HookWhere' /\ TeardownIsNeverCancelled'
    BY <1>2, <1>6 DEF HookWhere, TeardownIsNeverCancelled
  <2>6. QED
    BY <1>4, <1>6, <2>4, <2>5
<1>7. CASE TaskSkips
  BY <1>2, <1>5, <1>7 DEF TaskSkips, GoesOn
<1>8. CASE TaskSucceedsUnchanged
  BY <1>2, <1>5, <1>8, StepValues DEF TaskSucceedsUnchanged, GoesOn
<1>9. CASE TaskChangesState
  BY <1>2, <1>5, <1>9, StepValues DEF TaskChangesState
<1>10. CASE FailureIsRecorded
  BY <1>2, <1>5, <1>10 DEF FailureIsRecorded, GoesOn
<1>11. CASE OutputDoesNotFit \/ FailureStopsRun
  BY <1>6, <1>11 DEF OutputDoesNotFit, FailureStopsRun, Fails
<1>12. CASE TaskIsCancelled
  BY <1>6, <1>12, StepValues DEF TaskIsCancelled
<1>13. QED
  BY <1>7, <1>8, <1>9, <1>10, <1>11, <1>12

\* What a hook body's loop makes of a step.
LEMMA ControlHookSettles ==
  ASSUME TInv, ControlInv, TInv',
         HookTaskEnds \/ HookTaskFails \/ HookTaskIsCancelled
  PROVE  ControlInv'
<1> USE DEF ControlInv, TInv, TypeOK, HookKind, Teardown
<1>1. /\ pc = "settle" /\ hook # NoHook /\ pc' \in {"loop", "leave"}
      /\ UNCHANGED <<tokenVars, loopVars, mark, hook, run>>
      /\ step' = Skipped
  BY DEF HookTaskEnds, HookTaskFails, HookTaskIsCancelled, HookSettles,
         seenVars
<1>2. Tally' /\ Late' /\ TokenOrder'
  BY <1>1, FrameKept DEF MainLoopIsOver
<1>3. HookWhere' /\ StepInSettle' /\ RunSays'
  BY <1>1 DEF HookWhere, StepInSettle, RunSays
<1>4. TeardownIsNeverCancelled'
  <2>1. HookTaskIsCancelled => hook \notin Teardown
    BY <1>1 DEF HookTaskIsCancelled, TeardownIsNeverCancelled
  <2>2. ~HookTaskIsCancelled => hk'.cancelled = hk.cancelled
    <3>1. hk \in FrameType
      OBVIOUS
    <3>2. CASE HookTaskEnds
      BY ONLY <3>1, <3>2 DEF HookTaskEnds, FrameType
    <3>3. CASE HookTaskFails
      BY ONLY <3>1, <3>3 DEF HookTaskFails, FrameType
    <3>4. QED
      BY <3>2, <3>3
  <2>3. QED
    BY <1>1, <2>1, <2>2 DEF TeardownIsNeverCancelled, Skipped
<1>5. QED
  BY <1>2, <1>3, <1>4

LEMMA InvControl == Spec => []ControlInv
<1>1. TInv /\ TInv' /\ ControlInv /\ [Next]_vars => ControlInv'
  <2> SUFFICES ASSUME TInv, TInv', ControlInv, [Next]_vars
               PROVE  ControlInv'
    OBVIOUS
  <2>1. CASE Next
    BY <2>1, ControlWatchers, ControlLifecycle, ControlSteps, ControlSettles,
       ControlHookSettles DEF Next, Engine, Watchers
  <2>2. CASE UNCHANGED vars
    <3>1. UNCHANGED <<tokenVars, loopVars, mark, pc, hook, hk, step, run>>
      BY <2>2 DEF vars, seenVars
    <3>2. Tally' /\ Late' /\ TokenOrder'
      BY <3>1, FrameKept DEF MainLoopIsOver, ControlInv, Tally, WalkingTally
    <3>3. HookWhere' /\ StepInSettle' /\ RunSays'
          /\ TeardownIsNeverCancelled'
      BY <3>1 DEF ControlInv, HookWhere, StepInSettle, RunSays, Status,
                  TeardownIsNeverCancelled, loopVars
    <3>4. QED
      BY <3>2, <3>3 DEF ControlInv
  <2>3. QED
    BY <2>1, <2>2
<1>2. QED
  BY <1>1, ControlInit, InvTInv, PTL DEF Spec

\* The status a run finishes with and its results agree.
THEOREM StatusIsExplained == Spec => []ResultsExplainStatus
<1>1. TInv /\ ControlInv => ResultsExplainStatus
  <2> SUFFICES ASSUME TInv, ControlInv PROVE ResultsExplainStatus
    OBVIOUS
  <2> USE DEF ControlInv, TInv, TypeOK
  <2>1. Len(results) \in Nat
    BY LenProperties
  <2>2. \A j \in 1 .. Len(results) : Stops(results[j]) => j = Len(results)
    BY <2>1 DEF Tally, WalkingTally, FailedTally, CancelledTally, NoneStops
  <2>3. run \in {"ok", "failed"} \cup Reasons => pc = "over" /\ run = Status
    BY DEF RunSays
  <2>4. run = "ok" =>
          Len(results) = N /\ \A j \in 1 .. Len(results) : ~Stops(results[j])
    BY <2>3 DEF Status, Tally, WalkingTally, NoneStops, MainLoopIsOver
  <2>5. run = "failed" =>
          /\ Len(results) > 0 /\ Stops(results[Len(results)])
          /\ results[Len(results)].reason = NoReason
    BY <2>3 DEF Status, Tally, FailedTally
  <2>6. run \in Reasons =>
          \/ Len(results) > 0 /\ results[Len(results)].reason = run
          \/ /\ Len(results) < N
             /\ \A j \in 1 .. Len(results) : ~Stops(results[j])
    BY <2>1, <2>3 DEF Status, Tally, CancelledTally, NoneStops
  <2>7. QED
    BY <2>2, <2>4, <2>5, <2>6 DEF ResultsExplainStatus
<1>2. QED
  BY <1>1, InvTInv, InvControl, PTL

\* Once a stop is requested, only the task in flight still ends.
THEOREM NothingNewEnds == Spec => []OnlyTheTaskInFlightEnds
<1>1. TInv /\ ControlInv => OnlyTheTaskInFlightEnds
  BY DEF TInv, TypeOK, ControlInv, Late, OnlyTheTaskInFlightEnds
<1>2. QED
  BY <1>1, InvTInv, InvControl, PTL

\* The teardown hooks of a cancelled run are not cancelled with it.
THEOREM TeardownIsWhole == Spec => []TeardownIsNeverCancelled
<1>1. ControlInv => TeardownIsNeverCancelled
  BY DEF ControlInv
<1>2. QED
  BY <1>1, InvControl, PTL

-----------------------------------------------------------------------------
(* The state and the results.  A key holds what its last writer left; the  *)
(* writers are looked for in any sequence of results, so that the lemmas   *)
(* can compare the sequence before a step with the one after it.           *)

Writers(res, n, k) == {j \in 1 .. n : KeyOf[j] = k /\ res[j].out # Absent}

LastOf(S) == CHOOSE j \in S : \A l \in S : l <= j

Left(res, n) ==
  [k \in Key |->
     LET writers == {j \in 1 .. n : KeyOf[j] = k /\ res[j].out # Absent}
     IN  IF writers = {} THEN Seed[k]
         ELSE res[CHOOSE j \in writers : \A l \in writers : l <= j].out]

\* What the first n results left under a key, by the writers of the key.
LEMMA LeftOfWriters ==
  ASSUME NEW res, NEW n, NEW k \in Key
  PROVE  Left(res, n)[k] = IF Writers(res, n, k) = {} THEN Seed[k]
                           ELSE res[LastOf(Writers(res, n, k))].out
BY DEF Left, Writers, LastOf

\* A nonempty set of natural numbers has a least one, for < is well founded.
LEMMA LeastNumberPrinciple ==
  ASSUME NEW S \in SUBSET Nat, S # {}
  PROVE  \E m \in S : \A n \in S : m <= n
<1> DEFINE Less == {ss \in Nat \X Nat : ss[1] < ss[2]}
<1>1. IsWellFoundedOn(Less, Nat)
  BY NatLessThanWellFounded, Zenon DEF OpToRel
<1>2. PICK m \in S : \A n \in S : <<n, m>> \notin Less
  <2>1. S \subseteq Nat /\ S # {}
    OBVIOUS
  <2> HIDE DEF Less
  <2>2. QED
    BY ONLY <1>1, <2>1, WFMin
<1>3. \A n \in S : ~ (n < m)
  <2>1. \A n \in S : <<n, m>> \in Nat \X Nat
    OBVIOUS
  <2>2. QED
    BY <1>2, <2>1
<1>4. QED
  BY <1>3

\* A nonempty set of positions up to n has a last one.
LEMMA LastExists ==
  ASSUME NEW n \in Nat, NEW S \in SUBSET (1 .. n), S # {}
  PROVE  LastOf(S) \in S /\ \A l \in S : l <= LastOf(S)
<1> DEFINE T == {n - l : l \in S}
<1>1. T \in SUBSET Nat /\ T # {}
  <2>1. \A l \in S : l \in 1 .. n
    OBVIOUS
  <2>2. \A l \in 1 .. n : n - l \in Nat
    BY ONLY n \in Nat
  <2>3. \A l \in S : n - l \in Nat
    BY ONLY <2>1, <2>2
  <2>4. QED
    BY ONLY <2>3, S # {}
<1>2. PICK d \in T : \A e \in T : d <= e
  BY <1>1, LeastNumberPrinciple
<1>3. PICK m \in S : d = n - m
  BY <1>2
<1>4. ASSUME NEW l \in S PROVE l <= m
  <2>1. n - l \in T
    OBVIOUS
  <2>2. n - m <= n - l
    BY <1>2, <1>3, <2>1
  <2>3. QED
    BY <2>2
<1>5. \E j \in S : \A l \in S : l <= j
  BY <1>4
<1>6. QED
  BY <1>5 DEF LastOf

\* The last of a set is the only member that bounds it.
LEMMA LastIsUnique ==
  ASSUME NEW n \in Nat, NEW S \in SUBSET (1 .. n), NEW m \in S,
         \A l \in S : l <= m
  PROVE  LastOf(S) = m
<1>1. LastOf(S) \in S /\ \A l \in S : l <= LastOf(S)
  BY LastExists
<1>2. LastOf(S) \in 1 .. n /\ m \in 1 .. n
  BY <1>1
<1>3. LastOf(S) <= m /\ m <= LastOf(S)
  BY <1>1
<1>4. QED
  BY <1>2, <1>3

\* What n tasks have left depends on their results alone.
LEMMA LeftIsLocal ==
  ASSUME NEW n \in Nat, NEW res, NEW more,
         \A j \in 1 .. n : more[j] = res[j]
  PROVE  Left(more, n) = Left(res, n)
<1>1. ASSUME NEW k \in Key PROVE Left(more, n)[k] = Left(res, n)[k]
  <2>1. Writers(more, n, k) = Writers(res, n, k)
    BY DEF Writers
  <2>2. Writers(res, n, k) \in SUBSET (1 .. n)
    BY DEF Writers
  <2>3. CASE Writers(res, n, k) = {}
    BY <2>1, <2>3, LeftOfWriters
  <2>4. CASE Writers(res, n, k) # {}
    <3>1. LastOf(Writers(res, n, k)) \in 1 .. n
      BY <2>2, <2>4, LastExists
    <3>2. QED
      BY <2>1, <2>4, <3>1, LeftOfWriters
  <2>5. QED
    BY <2>3, <2>4
<1>2. QED
  BY <1>1 DEF Left

\* One more result: it takes the slot of its task, unless it has no output.
LEMMA LeftByOneMore ==
  ASSUME NEW n \in Nat, n + 1 \in Main, NEW res, NEW more,
         \A j \in 1 .. n : more[j] = res[j]
  PROVE  Left(more, n + 1) =
           IF more[n + 1].out = Absent THEN Left(res, n)
           ELSE [Left(res, n) EXCEPT ![KeyOf[n + 1]] = more[n + 1].out]
<1> DEFINE new == more[n + 1].out
           B(k) == Writers(res, n, k)
           A(k) == Writers(more, n + 1, k)
<1>1. \A k \in Key : B(k) \in SUBSET (1 .. n) /\ A(k) \in SUBSET (1 .. n + 1)
  BY DEF Writers
<1>2. 1 .. n + 1 = (1 .. n) \cup {n + 1}
  OBVIOUS
<1>3. ASSUME NEW k \in Key, new = Absent \/ KeyOf[n + 1] # k
      PROVE  Left(more, n + 1)[k] = Left(res, n)[k]
  <2>1. A(k) = B(k)
    BY <1>2, <1>3 DEF Writers
  <2>2. CASE B(k) = {}
    BY <2>1, <2>2, LeftOfWriters
  <2>3. CASE B(k) # {}
    <3>1. LastOf(B(k)) \in 1 .. n
      BY <1>1, <2>3, LastExists
    <3>2. more[LastOf(B(k))] = res[LastOf(B(k))]
      BY <3>1
    <3>3. QED
      BY <2>1, <2>3, <3>2, LeftOfWriters
  <2>4. QED
    BY <2>2, <2>3
<1>4. ASSUME new # Absent
      PROVE  Left(more, n + 1)[KeyOf[n + 1]] = new
  <2> DEFINE k == KeyOf[n + 1]
  <2>1. k \in Key
    OBVIOUS
  <2>2. n + 1 \in A(k)
    BY <1>4 DEF Writers
  <2>3. \A l \in A(k) : l <= n + 1
    BY <1>1, <2>1
  <2>4. LastOf(A(k)) = n + 1
    <3>1. n + 1 \in Nat /\ A(k) \in SUBSET (1 .. n + 1)
      BY <1>1, <2>1
    <3> HIDE DEF A, k
    <3>2. QED
      BY <2>2, <2>3, <3>1, LastIsUnique
  <2>5. QED
    BY <2>1, <2>2, <2>4, LeftOfWriters
<1>5. Left(more, n + 1) = [k \in Key |-> Left(more, n + 1)[k]]
  BY DEF Left
<1>6. Left(res, n) = [k \in Key |-> Left(res, n)[k]]
  BY DEF Left
<1>7. CASE new = Absent
  BY <1>3, <1>5, <1>6, <1>7
<1>8. CASE new # Absent
  <2>1. PICK f : f = Left(res, n)
    OBVIOUS
  <2>2. PICK g : g = Left(more, n + 1)
    OBVIOUS
  <2>3. PICK h : h = KeyOf[n + 1]
    OBVIOUS
  <2>4. \A k \in Key : g[k] = IF k = h THEN new ELSE f[k]
    BY <1>3, <1>4, <1>8, <2>1, <2>2, <2>3
  <2>5. f = [k \in Key |-> f[k]] /\ g = [k \in Key |-> g[k]]
    BY <1>5, <1>6, <2>1, <2>2
  <2>6. g = [f EXCEPT ![h] = new]
    <3> HIDE DEF new
    <3>1. QED
      BY ONLY <2>4, <2>5
  <2>7. QED
    BY <1>8, <2>1, <2>2, <2>3, <2>6
<1>9. QED
  BY <1>7, <1>8

\* What ChangedIsExact says of a sequence of results and a set of changes.
Exact(res, ch) ==
  \A j \in 1 .. Len(res) :
    j \in ch <=> /\ res[j].status = "ok"
                 /\ Left(res, j - 1)[KeyOf[j]] # res[j].out

\* A change has a result: the invariant that makes the two properties inductive.
ReplayInv ==
  /\ StateReplaysResults
  /\ ChangedIsExact
  /\ changed \subseteq 1 .. Len(results)

\* The invariant, said of the sequences.
LEMMA ReplayInvIs ==
  ReplayInv <=> /\ state = Left(results, Len(results))
                /\ Exact(results, changed)
                /\ changed \subseteq 1 .. Len(results)
BY DEF ReplayInv, StateReplaysResults, ChangedIsExact, Exact, StateAfter, Left

\* One more result, as a fact about sequences: the slot it takes is the merge,
\* and it counts as a change when it is a success that left something else.
LEMMA OneMoreResult ==
  ASSUME NEW res \in Seq(ResultType), NEW x \in ResultType,
         NEW ch \in SUBSET (1 .. Len(res)), Len(res) + 1 \in Main,
         Exact(res, ch)
  PROVE  LET more == Append(res, x)
             k == KeyOf[Len(res) + 1]
             before == Left(res, Len(res))
         IN  /\ Left(more, Len(more)) =
                  IF x.out = Absent THEN before
                  ELSE [before EXCEPT ![k] = x.out]
             /\ Exact(more, IF x.status = "ok" /\ before[k] # x.out
                            THEN ch \cup {Len(res) + 1} ELSE ch)
<1>1. PICK n \in Nat : n = Len(res)
  BY LenProperties
<1>2. PICK more : more = Append(res, x)
  OBVIOUS
<1>3. /\ Len(more) = n + 1 /\ more[n + 1] = x
      /\ \A j \in 1 .. n : more[j] = res[j]
  BY <1>1, <1>2, AppendProperties
<1>4. Left(more, n + 1) =
        IF x.out = Absent THEN Left(res, n)
        ELSE [Left(res, n) EXCEPT ![KeyOf[n + 1]] = x.out]
  BY <1>1, <1>3, LeftByOneMore
<1>5. PICK now : now = IF x.status = "ok" /\ Left(res, n)[KeyOf[n + 1]] # x.out
                       THEN ch \cup {n + 1} ELSE ch
  OBVIOUS
<1>6. ASSUME NEW j \in 1 .. n + 1
      PROVE  j \in now <=> /\ more[j].status = "ok"
                           /\ Left(more, j - 1)[KeyOf[j]] # more[j].out
  <2>1. j - 1 \in Nat /\ \A l \in 1 .. j - 1 : more[l] = res[l]
    BY <1>3
  <2>2. Left(more, j - 1) = Left(res, j - 1)
    BY <2>1, LeftIsLocal
  <2>3. CASE j = n + 1
    <3>1. j \notin ch /\ more[j] = x /\ j - 1 = n
      BY <1>1, <1>3, <2>3
    <3>2. QED
      BY <1>5, <2>2, <2>3, <3>1
  <2>4. CASE j \in 1 .. n
    <3>1. more[j] = res[j] /\ j # n + 1
      BY <1>3, <2>4
    <3>2. j \in now <=> j \in ch
      BY <1>5, <3>1
    <3>3. QED
      BY <1>1, <2>2, <2>4, <3>1, <3>2 DEF Exact
  <2>5. QED
    BY <2>3, <2>4
<1>7. Exact(more, now)
  BY <1>3, <1>6 DEF Exact
<1>8. QED
  BY <1>1, <1>2, <1>3, <1>4, <1>5, <1>7

\* The same for the step of the main loop that records a result.
LEMMA ReplayStep ==
  ASSUME TInv, ReplayInv, i \in Main, Len(results) = i - 1,
         NEW s \in {"ok", "skipped", "error"},
         NEW v \in Values \cup {ErrorSlot, Absent},
         NEW r \in Reasons \cup {NoReason}, Record(s, v, r),
         state' = IF v = Absent THEN state ELSE [state EXCEPT ![KeyOf[i]] = v],
         changed' = IF s = "ok" /\ state[KeyOf[i]] # v
                    THEN changed \cup {i} ELSE changed
  PROVE  ReplayInv'
<1>1. PICK x \in ResultType : x = Result(s, v, r)
  BY ResultTypes
<1>2. x.status = s /\ x.out = v
  BY <1>1 DEF Result
<1>3. /\ results \in Seq(ResultType) /\ Len(results) + 1 = i
      /\ changed \in SUBSET (1 .. Len(results))
      /\ state = Left(results, Len(results)) /\ Exact(results, changed)
  BY ReplayInvIs DEF TInv, TypeOK, ReplayInv, Main
<1>4. PICK more : more = Append(results, x)
  OBVIOUS
<1>5. PICK now : now = IF s = "ok" /\ state[KeyOf[i]] # v
                       THEN changed \cup {i} ELSE changed
  OBVIOUS
<1>6. /\ Left(more, Len(more)) = IF v = Absent THEN state
                                 ELSE [state EXCEPT ![KeyOf[i]] = v]
      /\ Exact(more, now)
  BY <1>2, <1>3, <1>4, <1>5, OneMoreResult
<1>7. results' = more /\ changed' = now /\ state' = Left(more, Len(more))
  BY <1>1, <1>4, <1>5, <1>6 DEF Record
<1>8. now \subseteq 1 .. Len(more)
  <2>1. Len(more) = i
    BY <1>3, <1>4, AppendProperties
  <2>2. QED
    BY <1>3, <1>5, <2>1 DEF Main
<1>9. /\ state' = Left(results', Len(results'))
      /\ Exact(results', changed')
      /\ changed' \subseteq 1 .. Len(results')
  BY <1>6, <1>7, <1>8
<1>10. QED
  BY <1>9 DEF ReplayInv, StateReplaysResults, ChangedIsExact, Exact,
              StateAfter, Left

\* No task has left anything over the seed yet.
LEMMA ReplayInit == Init => ReplayInv
<1> SUFFICES ASSUME Init PROVE ReplayInv
  OBVIOUS
<1>1. results = <<>> /\ Len(results) = 0 /\ changed = {} /\ state = Seed
  BY DEF Init
<1>2. Left(results, 0) = [k \in Key |-> Seed[k]]
  <2>1. \A k \in Key : Writers(results, 0, k) = {}
    BY DEF Writers
  <2>2. \A k \in Key : Left(results, 0)[k] = Seed[k]
    BY <2>1, LeftOfWriters
  <2>3. QED
    BY <2>2 DEF Left
<1>3. state = Left(results, 0)
  BY <1>1, <1>2
<1>4. Exact(results, changed) /\ changed \subseteq 1 .. Len(results)
  BY <1>1 DEF Exact
<1>5. QED
  BY <1>1, <1>3, <1>4, ReplayInvIs

\* The state and the results change together, in the steps that settle a task
\* of the main loop.
LEMMA ReplaySettles ==
  ASSUME TInv, ControlInv, ReplayInv,
         \/ TaskSkips \/ TaskSucceedsUnchanged \/ TaskChangesState
         \/ OutputDoesNotFit \/ TaskIsCancelled \/ FailureIsRecorded
         \/ FailureStopsRun
  PROVE  ReplayInv'
<1> USE DEF ControlInv, TInv, TypeOK, Teardown
<1>1. Settles
  BY DEF TaskSkips, TaskSucceedsUnchanged, TaskChangesState, OutputDoesNotFit,
         TaskIsCancelled, FailureIsRecorded, FailureStopsRun, TaskFails
<1>2. i \in Main /\ Len(results) = i - 1
  <2>1. pc = "settle" /\ hook = NoHook /\ ~MainLoopIsOver
    BY <1>1, ValueAssumption DEF Settles, MainLoopIsOver, HookKind
  <2>2. i \in Main
    BY <2>1, FlowAssumption DEF InBounds, At, Count, Main
  <2>3. WalkingTally
    BY <2>1 DEF Tally, FailedTally, CancelledTally
  <2>4. QED
    BY <2>2, <2>3 DEF WalkingTally
<1>3. state \in [Key -> Values \cup {ErrorSlot, Absent}] /\ KeyOf[i] \in Key
  BY <1>2
<1>4. CASE TaskSkips
  BY <1>2, <1>4, ReplayStep DEF TaskSkips
<1>5. CASE OutputDoesNotFit \/ FailureStopsRun
  BY <1>2, <1>5, ReplayStep DEF OutputDoesNotFit, FailureStopsRun
<1>6. CASE TaskIsCancelled
  BY <1>2, <1>6, StepValues, ReplayStep DEF TaskIsCancelled
<1>7. CASE TaskSucceedsUnchanged
  <2>1. PICK v \in Values : v = step.value
    BY <1>7, StepValues DEF TaskSucceedsUnchanged
  <2>2. /\ Record("ok", v, NoReason) /\ state[KeyOf[i]] = v
        /\ UNCHANGED <<state, changed>>
    BY <1>7, <2>1 DEF TaskSucceedsUnchanged
  <2>3. [state EXCEPT ![KeyOf[i]] = v] = state
    BY ONLY <1>3, <2>2
  <2>4. v # Absent
    OBVIOUS
  <2>5. QED
    BY <1>2, <2>2, <2>3, <2>4, ReplayStep
<1>8. CASE TaskChangesState
  <2>1. PICK v \in Values : v = step.value
    BY <1>8, StepValues DEF TaskChangesState
  <2>2. /\ Record("ok", v, NoReason) /\ state[KeyOf[i]] # v
        /\ state' = [state EXCEPT ![KeyOf[i]] = v]
        /\ changed' = changed \cup {i}
    BY <1>8, <2>1 DEF TaskChangesState, Merge
  <2>3. v # Absent
    OBVIOUS
  <2>4. QED
    BY <1>2, <2>2, <2>3, ReplayStep
<1>9. CASE FailureIsRecorded
  <2>1. /\ Record("error", ErrorSlot, NoReason)
        /\ state' = [state EXCEPT ![KeyOf[i]] = ErrorSlot]
        /\ UNCHANGED changed
    BY <1>9 DEF FailureIsRecorded, Merge
  <2>2. ErrorSlot # Absent
    OBVIOUS
  <2>3. QED
    BY <1>2, <2>1, <2>2, ReplayStep
<1>10. QED
  BY <1>4, <1>5, <1>6, <1>7, <1>8, <1>9

\* Every other step leaves the state, the results and the changes alone.
LEMMA InvReplay == Spec => []ReplayInv
<1>1. TInv /\ ControlInv /\ ReplayInv /\ [Next]_vars => ReplayInv'
  <2> SUFFICES ASSUME TInv, ControlInv, ReplayInv, [Next]_vars
               PROVE  ReplayInv'
    OBVIOUS
  <2>1. CASE \/ TaskSkips \/ TaskSucceedsUnchanged \/ TaskChangesState
             \/ OutputDoesNotFit \/ TaskIsCancelled \/ FailureIsRecorded
             \/ FailureStopsRun
    BY <2>1, ReplaySettles
  <2>2. ASSUME UNCHANGED <<results, state, changed>> PROVE ReplayInv'
    <3>1. /\ state' = Left(results', Len(results'))
          /\ Exact(results', changed')
          /\ changed' \subseteq 1 .. Len(results')
      BY <2>2, ReplayInvIs
    <3>2. QED
      BY <3>1 DEF ReplayInv, StateReplaysResults, ChangedIsExact, Exact,
                  StateAfter, Left
  <2>3. CASE \/ EmitRunStart \/ FireHook \/ FireNothing \/ MainLoopReturns
             \/ HookLoopReturns \/ EmitRunFinish \/ SinkFails \/ NoMoreTasks
             \/ StopDispatching \/ Dispatch \/ GateCloses \/ GuardAbandonsStep
             \/ HookTaskEnds \/ HookTaskFails \/ HookTaskIsCancelled
    BY <2>2, <2>3
    DEF EmitRunStart, FireHook, FireNothing, MainLoopReturns, HookLoopReturns,
        EmitRunFinish, SinkFails, NoMoreTasks, StopDispatching, Dispatch,
        GateCloses, GuardAbandonsStep, StepReturns, HookTaskEnds,
        HookTaskFails, HookTaskIsCancelled, loopVars
  <2>4. CASE Work
    BY <2>2, <2>4
    DEF Work, StepFailsBeforeStart, EmitTaskStart, WorkProduces, WorkFails,
        NestedWorkIsCancelled, StepReturns, loopVars
  <2>5. CASE Watchers
    BY <2>2, <2>5 DEF Watchers, WatcherRequests, WatcherStops, loopVars
  <2>6. CASE UNCHANGED vars
    BY <2>2, <2>6 DEF vars, loopVars
  <2>7. QED
    BY <2>1, <2>3, <2>4, <2>5, <2>6 DEF Next, Engine
<1>2. QED
  BY <1>1, ReplayInit, InvTInv, InvControl, PTL DEF Spec

\* The published state is what the published results have made of the seed:
\* under each key the output, or the error slot, of its last writer.
THEOREM StateIsReplayed == Spec => []StateReplaysResults
<1>1. ReplayInv => StateReplaysResults
  BY DEF ReplayInv
<1>2. QED
  BY <1>1, InvReplay, PTL

\* The tasks listed as changes are the successes that changed the state.
THEOREM ChangesAreExact == Spec => []ChangedIsExact
<1>1. ReplayInv => ChangedIsExact
  BY DEF ReplayInv
<1>2. QED
  BY <1>1, InvReplay, PTL

-----------------------------------------------------------------------------
(* The stream of a run follows the lifecycle that RunLifecycle tells: what *)
(* has fired, and which task is open, as a function of where the run is.   *)

Fires(k, n) == fired[k] = IF k \in declared THEN n ELSE 0

AboutToFire(k) == pc = "fire" /\ hook = k

BeforeCreate == pc = "idle" \/ AboutToFire("create")

PastError == pc \in {"finish", "over"} \/ hook = "destroy"
PastDestroy ==
  pc \in {"finish", "over"} \/ (hook = "destroy" /\ ~AboutToFire("destroy"))

\* How often each hook has fired.  A change waits for its hook from the merge
\* to the next step; `error` fires for a failure alone.
FiredTally ==
  /\ Fires("create", IF BeforeCreate THEN 0 ELSE 1)
  /\ Fires("change", IF AboutToFire("change") THEN Cardinality(changed) - 1
                     ELSE Cardinality(changed))
  /\ Fires("error", IF failed /\ (PastError \/ (hook = "error"
                                              /\ ~AboutToFire("error")))
                    THEN 1 ELSE 0)
  /\ Fires("destroy", IF PastDestroy THEN 1 ELSE 0)

\* The task that is open is the one the main loop has at work.
OpenTask ==
  /\ open => pc \in {"work", "settle"} /\ hook = NoHook
  /\ hook = NoHook =>
       /\ pc = "work" => open
       /\ pc = "settle" /\ step.kind = "ok" => open

StreamInv ==
  pc # "aborted" =>
    /\ FiredTally
    /\ OpenTask
    /\ BeforeCreate => results = <<>>
    /\ AboutToFire("change") => Cardinality(changed) > 0
    /\ hook = "error" => failed

\* The set of changes is finite, and counting it is counting its steps.
LEMMA ChangesCount ==
  ASSUME TypeOK
  PROVE  /\ IsFiniteSet(changed) /\ Cardinality(changed) \in Nat
         /\ \A j : j \notin changed =>
              Cardinality(changed \cup {j}) = Cardinality(changed) + 1
<1>1. IsFiniteSet(Main)
  <2>1. 1 \in Int /\ N \in Int
    OBVIOUS
  <2>2. QED
    BY <2>1, FS_Interval DEF Main
<1>2. IsFiniteSet(changed)
  BY <1>1, FS_Subset DEF TypeOK
<1>3. QED
  BY <1>2, FS_CardinalityType, FS_AddElement

\* Nothing has fired and nothing is open.
LEMMA StreamInit == Init => StreamInv
<1> SUFFICES ASSUME Init PROVE StreamInv
  OBVIOUS
<1>1. Cardinality(changed) = 0
  BY FS_EmptySet DEF Init
<1>2. FiredTally
  BY <1>1 DEF Init, FiredTally, Fires, BeforeCreate, AboutToFire, PastError,
              PastDestroy, HookKind
<1>3. QED
  BY <1>2 DEF Init, StreamInv, OpenTask, AboutToFire, HookKind

\* The steps around the task loop.
LEMMA StreamLifecycle ==
  ASSUME TInv, ControlInv, StreamInv,
         \/ EmitRunStart \/ FireHook \/ FireNothing \/ MainLoopReturns
         \/ HookLoopReturns \/ EmitRunFinish
  PROVE  StreamInv'
<1> USE DEF TInv, TypeOK, HookKind
<1>0. Cardinality(changed) \in Nat
  BY ChangesCount
<1>1. UNCHANGED <<declared, loopVars, step, open>>
  BY DEF EmitRunStart, FireHook, FireNothing, MainLoopReturns,
         HookLoopReturns, EmitRunFinish, seenVars
<1>2. UNCHANGED <<results, changed, failed, cancelled>>
  BY <1>1 DEF loopVars
<1>3. pc # "aborted" /\ ~open
  BY DEF EmitRunStart, FireHook, FireNothing, MainLoopReturns,
         HookLoopReturns, EmitRunFinish, StreamInv, OpenTask
<1>4. HookWhere
  BY DEF ControlInv
<1>5. FiredTally /\ (BeforeCreate => results = <<>>)
      /\ (AboutToFire("change") => Cardinality(changed) > 0)
      /\ (hook = "error" => failed)
  BY <1>3 DEF StreamInv
<1> DEFINE C == Cardinality(changed)
<1>6. C' = C
  BY <1>2
<1> HIDE DEF C
<1> USE DEF FiredTally, Fires, BeforeCreate, AboutToFire, PastError,
            PastDestroy, OpenTask, StreamInv
<1>7. CASE EmitRunStart
  BY <1>1, <1>2, <1>3, <1>4, <1>5, <1>7 DEF EmitRunStart, HookWhere
<1>8. CASE FireHook
  BY <1>0, <1>1, <1>2, <1>3, <1>5, <1>8 DEF FireHook
<1>9. hook # NoHook /\ AfterHook(hook) =>
        \/ hook \in {"create", "change"} /\ pc' = "loop" /\ hook' = NoHook
        \/ hook = "error" /\ pc' = "fire" /\ hook' = "destroy"
        \/ hook = "destroy" /\ pc' = "finish" /\ hook' = NoHook
  BY DEF AfterHook
<1>10. CASE FireNothing
  <2>1. /\ \/ hook \in {"create", "change"} /\ pc' = "loop" /\ hook' = NoHook
           \/ hook = "error" /\ pc' = "fire" /\ hook' = "destroy"
           \/ hook = "destroy" /\ pc' = "finish" /\ hook' = NoHook
        /\ pc = "fire" /\ hook \notin declared /\ fired' = fired
    BY <1>9, <1>10 DEF FireNothing, seenVars
  <2>2. FiredTally'
    BY <1>1, <1>2, <1>5, <1>6, <2>1
  <2>3. QED
    BY <1>1, <1>2, <1>3, <1>5, <2>1, <2>2
<1>11. CASE HookLoopReturns
  <2>1. /\ \/ hook \in {"create", "change"} /\ pc' = "loop" /\ hook' = NoHook
           \/ hook = "error" /\ pc' = "fire" /\ hook' = "destroy"
           \/ hook = "destroy" /\ pc' = "finish" /\ hook' = NoHook
        /\ pc = "leave" /\ fired' = fired
    BY <1>9, <1>11 DEF HookLoopReturns, seenVars
  <2>2. FiredTally'
    BY <1>1, <1>2, <1>5, <1>6, <2>1
  <2>3. QED
    BY <1>1, <1>2, <1>3, <1>5, <2>1, <2>2
<1>12. CASE MainLoopReturns
  <2>1. failed => cancelled = NoReason
    BY DEF ControlInv, Tally, FailedTally
  <2>2. /\ pc = "leave" /\ hook = NoHook /\ pc' = "fire" /\ fired' = fired
        /\ hook' = IF failed THEN "error" ELSE "destroy"
    BY <1>12, <2>1 DEF MainLoopReturns, seenVars
  <2>3. FiredTally'
    BY <1>1, <1>2, <1>5, <1>6, <2>2
  <2>4. QED
    BY <1>1, <1>2, <1>3, <1>5, <2>2, <2>3
<1>13. CASE EmitRunFinish
  BY <1>1, <1>2, <1>3, <1>4, <1>5, <1>13 DEF EmitRunFinish, HookWhere
<1>14. QED
  BY <1>7, <1>8, <1>10, <1>11, <1>12, <1>13

\* Between two hooks nothing fires: only the open task moves.
LEMMA StreamKept ==
  ASSUME TypeOK, StreamInv,
         pc \in {"loop", "gate", "work", "settle", "leave"},
         pc' \in {"loop", "gate", "work", "settle", "leave"},
         UNCHANGED <<declared, hook, changed, failed, fired>>,
         OpenTask'
  PROVE  StreamInv'
BY DEF StreamInv, FiredTally, Fires, BeforeCreate, AboutToFire, PastError,
       PastDestroy

\* The head of the loop, run_step, and the loop of a hook body.
LEMMA StreamSteps ==
  ASSUME TInv, StreamInv,
         \/ NoMoreTasks \/ StopDispatching \/ Dispatch
         \/ GateCloses \/ GuardAbandonsStep \/ Work
         \/ HookTaskEnds \/ HookTaskFails \/ HookTaskIsCancelled
  PROVE  StreamInv'
<1> USE DEF TInv
<1>1. TypeOK /\ (pc # "aborted" => OpenTask)
  BY DEF StreamInv
<1>2. CASE NoMoreTasks \/ StopDispatching \/ Dispatch
  <2>1. /\ pc = "loop" /\ pc' \in {"gate", "leave"}
        /\ UNCHANGED <<declared, hook, changed, failed, fired, open>>
    BY <1>2 DEF NoMoreTasks, StopDispatching, Dispatch, loopVars, seenVars
  <2>2. OpenTask'
    BY <1>1, <2>1 DEF OpenTask
  <2>3. QED
    BY <1>1, <2>1, <2>2, StreamKept
<1>3. CASE HookTaskEnds \/ HookTaskFails \/ HookTaskIsCancelled
  <2>1. /\ pc = "settle" /\ hook # NoHook /\ pc' \in {"loop", "leave"}
        /\ UNCHANGED <<declared, hook, changed, failed, fired, open>>
    BY <1>3 DEF HookTaskEnds, HookTaskFails, HookTaskIsCancelled, HookSettles,
                loopVars, seenVars
  <2>2. OpenTask'
    BY <1>1, <2>1 DEF OpenTask
  <2>3. QED
    BY <1>1, <2>1, <2>2, StreamKept
<1>4. ASSUME NEW s, pc \in {"gate", "work"}, StepReturns(s),
             s.kind = "ok" => pc = "work"
      PROVE  StreamInv'
  <2>1. /\ pc' = "settle" /\ step' = s
        /\ UNCHANGED <<declared, hook, changed, failed, fired, open>>
    BY <1>4 DEF StepReturns, loopVars, seenVars
  <2>2. OpenTask'
    BY <1>1, <1>4, <2>1 DEF OpenTask
  <2>3. QED
    BY <1>1, <1>4, <2>1, <2>2, StreamKept
<1>5. CASE GateCloses
  BY <1>4, <1>5 DEF GateCloses, Skipped
<1>6. CASE GuardAbandonsStep
  BY <1>4, <1>6 DEF GuardAbandonsStep, Failure
<1>7. CASE Work /\ ~EmitTaskStart
  <2>1. StepFailsBeforeStart => StreamInv'
    BY <1>4 DEF StepFailsBeforeStart, Failure
  <2>2. WorkProduces => StreamInv'
    BY <1>4 DEF WorkProduces
  <2>3. WorkFails => StreamInv'
    BY <1>4 DEF WorkFails
  <2>4. NestedWorkIsCancelled => StreamInv'
    BY <1>4 DEF NestedWorkIsCancelled
  <2>5. QED
    BY <1>7, <2>1, <2>2, <2>3, <2>4 DEF Work
<1>8. CASE EmitTaskStart
  <2>1. /\ pc = "gate" /\ pc' = "work" /\ open' = (hook = NoHook)
        /\ UNCHANGED <<declared, hook, changed, failed, fired>>
    BY <1>8 DEF EmitTaskStart, loopVars
  <2>2. OpenTask'
    BY <2>1 DEF OpenTask
  <2>3. QED
    BY <1>1, <2>1, <2>2, StreamKept
<1>9. QED
  BY <1>2, <1>3, <1>5, <1>6, <1>7, <1>8

\* What settling a task does to the stream: it closes the task, and a success
\* that changed the state has `change` fire next.
LEMMA SettleMoves ==
  ASSUME TInv, ControlInv, ReplayInv,
         \/ TaskSkips \/ TaskSucceedsUnchanged \/ TaskChangesState
         \/ OutputDoesNotFit \/ TaskIsCancelled \/ FailureIsRecorded
         \/ FailureStopsRun
  PROVE  /\ pc = "settle" /\ hook = NoHook /\ ~failed
         /\ Len(results) < N /\ Len(results') = Len(results) + 1
         /\ open' = FALSE /\ UNCHANGED <<declared, run, fired>>
         /\ \/ /\ pc' \in {"loop", "leave"} /\ hook' = NoHook
               /\ changed' = changed
            \/ /\ pc' = "fire" /\ hook' = "change" /\ failed' = failed
               /\ step.kind = "ok"
               /\ Cardinality(changed') = Cardinality(changed) + 1
<1> USE DEF ControlInv, TInv, TypeOK, Teardown
<1>1. Settles
  BY DEF TaskSkips, TaskSucceedsUnchanged, TaskChangesState, OutputDoesNotFit,
         TaskIsCancelled, FailureIsRecorded, FailureStopsRun, TaskFails
<1>2. pc = "settle" /\ hook = NoHook /\ ~MainLoopIsOver
  BY <1>1, ValueAssumption DEF Settles, MainLoopIsOver, HookKind
<1>3. ~failed /\ Len(results) = i - 1 /\ i \in 1 .. N
  <2>1. i \in 1 .. N
    BY <1>2, FlowAssumption DEF InBounds, At, Count
  <2>2. ~failed /\ WalkingTally
    BY <1>2 DEF Tally, FailedTally, CancelledTally
  <2>3. QED
    BY <2>1, <2>2 DEF WalkingTally
<1>4. Len(results) \in Nat /\ Len(results) < N
  BY <1>3
<1>5. ASSUME NEW s \in {"ok", "skipped", "error"},
             NEW v \in Values \cup {ErrorSlot, Absent},
             NEW r \in Reasons \cup {NoReason}, Record(s, v, r)
      PROVE  /\ Len(results') = Len(results) + 1 /\ open' = FALSE
             /\ UNCHANGED <<declared, run, fired>>
  <2>1. PICK x \in ResultType : x = Result(s, v, r)
    BY ResultTypes
  <2>2. results' = Append(results, x) /\ results \in Seq(ResultType)
    BY <1>5, <2>1 DEF Record
  <2>3. QED
    BY <1>5, <2>2, AppendProperties DEF Record
<1>6. CASE TaskChangesState
  <2>1. /\ pc' = "fire" /\ hook' = "change" /\ failed' = failed
        /\ step.kind = "ok" /\ changed' = changed \cup {i}
        /\ Record("ok", step.value, NoReason) /\ step.value \in Values
    BY <1>6, StepValues DEF TaskChangesState
  <2>2. i \notin changed
    BY <1>3 DEF ReplayInv
  <2>3. Cardinality(changed \cup {i}) = Cardinality(changed) + 1
    BY <2>2, ChangesCount
  <2>4. QED
    BY <1>2, <1>3, <1>4, <1>5, <2>1, <2>3
<1>7. CASE TaskSkips
  BY <1>2, <1>3, <1>4, <1>5, <1>7 DEF TaskSkips, GoesOn
<1>8. CASE TaskSucceedsUnchanged
  BY <1>2, <1>3, <1>4, <1>5, <1>8, StepValues
  DEF TaskSucceedsUnchanged, GoesOn
<1>9. CASE FailureIsRecorded
  BY <1>2, <1>3, <1>4, <1>5, <1>9 DEF FailureIsRecorded, GoesOn
<1>10. CASE OutputDoesNotFit \/ FailureStopsRun
  BY <1>2, <1>3, <1>4, <1>5, <1>10 DEF OutputDoesNotFit, FailureStopsRun, Fails
<1>11. CASE TaskIsCancelled
  BY <1>2, <1>3, <1>4, <1>5, <1>11, StepValues DEF TaskIsCancelled
<1>12. QED
  BY <1>6, <1>7, <1>8, <1>9, <1>10, <1>11

\* Settling a task keeps the count of what has fired and what is still due.
LEMMA StreamSettles ==
  ASSUME TInv, ControlInv, ReplayInv, StreamInv,
         \/ TaskSkips \/ TaskSucceedsUnchanged \/ TaskChangesState
         \/ OutputDoesNotFit \/ TaskIsCancelled \/ FailureIsRecorded
         \/ FailureStopsRun
  PROVE  StreamInv'
<1>1. Cardinality(changed) \in Nat
  BY ChangesCount DEF TInv
<1>2. /\ pc = "settle" /\ hook = NoHook /\ ~failed
      /\ open' = FALSE /\ UNCHANGED <<declared, fired>>
      /\ \/ /\ pc' \in {"loop", "leave"} /\ hook' = NoHook
            /\ changed' = changed
         \/ /\ pc' = "fire" /\ hook' = "change" /\ failed' = failed
            /\ Cardinality(changed') = Cardinality(changed) + 1
  BY SettleMoves
<1>3. /\ Fires("create", 1) /\ Fires("change", Cardinality(changed))
      /\ Fires("error", 0) /\ Fires("destroy", 0)
  BY <1>2, ValueAssumption
  DEF StreamInv, FiredTally, BeforeCreate, AboutToFire, PastError,
      PastDestroy, HookKind
<1>4. CASE pc' \in {"loop", "leave"} /\ hook' = NoHook /\ changed' = changed
  BY <1>2, <1>3, <1>4, ValueAssumption
  DEF StreamInv, FiredTally, Fires, BeforeCreate, AboutToFire, PastError,
      PastDestroy, OpenTask, HookKind
<1>5. CASE /\ pc' = "fire" /\ hook' = "change" /\ failed' = failed
           /\ Cardinality(changed') = Cardinality(changed) + 1
  BY <1>1, <1>2, <1>3, <1>5, ValueAssumption
  DEF StreamInv, FiredTally, Fires, BeforeCreate, AboutToFire, PastError,
      PastDestroy, OpenTask, HookKind
<1>6. QED
  BY <1>2, <1>4, <1>5

\* The watchers touch nothing the stream shows, and a broken one shows nothing.
LEMMA InvStream == Spec => []StreamInv
<1>1. TInv /\ ControlInv /\ ReplayInv /\ StreamInv /\ [Next]_vars
        => StreamInv'
  <2> SUFFICES ASSUME TInv, ControlInv, ReplayInv, StreamInv, [Next]_vars
               PROVE  StreamInv'
    OBVIOUS
  <2>1. CASE SinkFails
    BY <2>1 DEF SinkFails, StreamInv
  <2>2. ASSUME UNCHANGED <<declared, pc, hook, results, changed, failed, step,
                           open, fired>>
        PROVE  StreamInv'
    BY <2>2 DEF StreamInv, FiredTally, Fires, BeforeCreate, AboutToFire,
                PastError, PastDestroy, OpenTask
  <2>3. CASE Watchers \/ UNCHANGED vars
    BY <2>2, <2>3
    DEF Watchers, WatcherRequests, WatcherStops, vars, loopVars, seenVars
  <2>4. QED
    BY <2>1, <2>3, StreamLifecycle, StreamSteps, StreamSettles
    DEF Next, Engine
<1>2. QED
  BY <1>1, StreamInit, InvTInv, InvControl, InvReplay, PTL DEF Spec

-----------------------------------------------------------------------------
(* The refinement: what each step is on the stream.                        *)

\* The hook body that is running, as the lifecycle has it.
Bodies == IF pc = "fire" THEN NoHook ELSE hook

\* Each step is one of the lifecycle, or out of sight.
Seen == Lifecycle!Next \/ UNCHANGED Lifecycle!vars

\* A step that leaves the stream and the bodies alone is out of sight.
LEMMA Stutters ==
  ASSUME UNCHANGED <<declared, run, open, results, changed, fired>>,
         Bodies' = Bodies
  PROVE  Seen
BY DEF Seen, Lifecycle!vars, Bodies

\* The steps around the task loop are the lifecycle's own, but for a hook that
\* is not declared and for the turn to the teardown.
LEMMA LifecycleSteps ==
  ASSUME TInv, ControlInv, StreamInv,
         \/ EmitRunStart \/ FireHook \/ FireNothing \/ MainLoopReturns
         \/ HookLoopReturns \/ EmitRunFinish \/ SinkFails
  PROVE  Seen
<1> USE DEF TInv, TypeOK, HookKind
<1>1. HookWhere /\ RunSays /\ Tally
  BY DEF ControlInv
<1>2. UNCHANGED <<declared, results, changed, failed, cancelled, open>>
  BY DEF EmitRunStart, FireHook, FireNothing, MainLoopReturns,
         HookLoopReturns, EmitRunFinish, SinkFails, loopVars, seenVars
<1>3. CASE EmitRunStart
  <2>1. /\ pc = "idle" /\ run = "none" /\ run' = "open" /\ fired' = fired
        /\ Bodies' = Bodies
    BY <1>1, <1>3 DEF EmitRunStart, HookWhere, RunSays, Bodies
  <2>2. Lifecycle!RunStart
    BY <1>2, <2>1 DEF Lifecycle!RunStart, Bodies
  <2>3. QED
    BY <2>2 DEF Seen, Lifecycle!Next
<1>4. CASE FireNothing
  <2>1. hook # NoHook /\ AfterHook(hook) =>
          \/ pc' = "fire"
          \/ hook' = NoHook
    BY DEF AfterHook
  <2>2. /\ pc = "fire" /\ UNCHANGED <<run, fired>>
        /\ pc' = "fire" \/ hook' = NoHook
    BY <1>4, <2>1 DEF FireNothing, seenVars
  <2>3. QED
    BY <1>2, <2>2, Stutters DEF Bodies
<1>5. CASE MainLoopReturns
  <2>1. /\ pc = "leave" /\ hook = NoHook /\ pc' = "fire"
        /\ UNCHANGED <<run, fired>>
    BY <1>5 DEF MainLoopReturns, seenVars
  <2>2. QED
    BY <1>2, <2>1, Stutters DEF Bodies
<1>6. CASE HookLoopReturns
  <2>1. hook # NoHook /\ AfterHook(hook) => pc' = "fire" \/ hook' = NoHook
    BY DEF AfterHook
  <2>2. /\ pc = "leave" /\ hook # NoHook /\ UNCHANGED <<run, fired>>
        /\ run = "open" /\ Bodies # NoHook /\ Bodies' = NoHook
    BY <1>1, <1>6, <2>1 DEF HookLoopReturns, seenVars, RunSays, Bodies
  <2>3. Lifecycle!HookFinish
    BY <1>2, <2>2 DEF Lifecycle!HookFinish, Bodies
  <2>4. QED
    BY <2>3 DEF Seen, Lifecycle!Next
<1>7. CASE SinkFails
  <2>1. /\ run \in {"none", "open"} /\ run' = "broken" /\ fired' = fired
        /\ Bodies' = Bodies
    BY <1>1, <1>7 DEF SinkFails, RunSays, Bodies
  <2>2. Lifecycle!Break
    BY <1>2, <2>1 DEF Lifecycle!Break, Bodies
  <2>3. QED
    BY <2>2 DEF Seen, Lifecycle!Next
<1>8. CASE FireHook
  <2>1. /\ pc = "fire" /\ hook \in declared /\ hook \in HookKind
        /\ fired' = [fired EXCEPT ![hook] = @ + 1]
        /\ Bodies = NoHook /\ Bodies' = hook
        /\ run = "open" /\ run' = run /\ ~open
    BY <1>1, <1>8 DEF FireHook, RunSays, HookWhere, Bodies, StreamInv, OpenTask
  <2>2. hook # "create" => Lifecycle!Fired("create", 1)
    BY <2>1 DEF StreamInv, FiredTally, Fires, BeforeCreate, AboutToFire,
                Lifecycle!Fired
  <2>3. Lifecycle!MayFire(hook)
    <3>1. CASE hook = "create"
      BY <2>1, <3>1 DEF StreamInv, FiredTally, Fires, BeforeCreate,
                        AboutToFire, Lifecycle!MayFire
    <3>2. CASE hook = "change"
      <4>1. Cardinality(changed) \in Nat
        BY ChangesCount
      <4>2. QED
        BY <2>1, <3>2, <4>1
        DEF StreamInv, FiredTally, Fires, AboutToFire, PastError, PastDestroy,
            Lifecycle!MayFire, Lifecycle!TearingDown
    <3>3. CASE hook = "error"
      <4>1. failed
        BY <2>1, <3>3 DEF StreamInv
      <4>2. Len(results) = i /\ i \in 1 .. N + 1
        BY <1>1, <4>1 DEF Tally, FailedTally
      <4>3. Len(results) > 0
        BY <4>2
      <4>4. QED
        BY <2>1, <3>3, <4>3
        DEF StreamInv, FiredTally, Fires, AboutToFire, PastError, PastDestroy,
            Lifecycle!MayFire, Lifecycle!TearingDown
    <3>4. CASE hook = "destroy"
      BY <2>1, <3>4
      DEF StreamInv, FiredTally, Fires, AboutToFire, PastDestroy,
          Lifecycle!MayFire
    <3>5. QED
      BY <2>1, <3>1, <3>2, <3>3, <3>4
  <2>4. Lifecycle!HookStart(hook)
    BY <1>2, <2>1, <2>2, <2>3 DEF Lifecycle!HookStart, Bodies
  <2>5. QED
    BY <2>1, <2>4 DEF Seen, Lifecycle!Next, Lifecycle!HookKind
<1>9. CASE EmitRunFinish
  <2>1. /\ pc = "finish" /\ hook = NoHook /\ run = "open" /\ run' = Status
        /\ fired' = fired /\ Bodies = NoHook /\ Bodies' = NoHook /\ ~open
    BY <1>1, <1>9
    DEF EmitRunFinish, RunSays, HookWhere, Bodies, StreamInv, OpenTask
  <2>2. /\ Lifecycle!Fired("destroy", 1)
        /\ Lifecycle!Fired("error", IF failed THEN 1 ELSE 0)
    BY <2>1 DEF StreamInv, FiredTally, Fires, PastError, PastDestroy,
                AboutToFire, Lifecycle!Fired
  <2>3. MainLoopIsOver /\ pc # "aborted"
    BY <2>1 DEF MainLoopIsOver
  <2>4. failed => Len(results) > 0 /\ cancelled = NoReason
    BY <1>1 DEF Tally, FailedTally
  <2>5. ~failed /\ cancelled = NoReason => Len(results) = N
    BY <1>1, <2>3 DEF Tally, WalkingTally
  <2>6. cancelled # NoReason => ~failed /\ cancelled \in Reasons
    BY <1>1 DEF Tally, CancelledTally
  <2>7. /\ Status \in {"ok", "failed"} \cup Reasons
        /\ Status = "failed" <=> failed
        /\ Status = "ok" => Len(results) = N
    BY <2>4, <2>5, <2>6, ValueAssumption DEF Status
  <2>8. Lifecycle!RunFinish(Status)
    BY <1>2, <2>1, <2>2, <2>4, <2>7 DEF Lifecycle!RunFinish, Bodies
  <2>9. QED
    BY <2>7, <2>8 DEF Seen, Lifecycle!Next
<1>10. QED
  BY <1>3, <1>4, <1>5, <1>6, <1>7, <1>8, <1>9

\* While the main loop is on, the lifecycle lets a task start and end.
LEMMA TasksMayRun ==
  ASSUME TInv, StreamInv, hook = NoHook, run = "open", Len(results) < N,
         pc \in {"gate", "work", "settle"}
  PROVE  Lifecycle!MayRunTask
<1>1. /\ Fires("create", 1) /\ Fires("change", Cardinality(changed))
      /\ Fires("error", 0) /\ Fires("destroy", 0)
  BY ValueAssumption
  DEF StreamInv, FiredTally, BeforeCreate, AboutToFire, PastError,
      PastDestroy, HookKind
<1>2. ~Lifecycle!TearingDown
  BY <1>1 DEF Fires, Lifecycle!TearingDown
<1>3. Bodies = NoHook
  BY DEF Bodies
<1>4. QED
  BY <1>1, <1>2, <1>3
  DEF Fires, Bodies, Lifecycle!MayRunTask, Lifecycle!Fired

\* What run_step does shows by the task it opens; the rest is out of sight.
LEMMA StepsSeen ==
  ASSUME TInv, ControlInv, StreamInv,
         \/ NoMoreTasks \/ StopDispatching \/ Dispatch
         \/ GateCloses \/ GuardAbandonsStep \/ Work
         \/ HookTaskEnds \/ HookTaskFails \/ HookTaskIsCancelled
  PROVE  Seen
<1>1. CASE \/ NoMoreTasks \/ StopDispatching \/ Dispatch
           \/ HookTaskEnds \/ HookTaskFails \/ HookTaskIsCancelled
  <2>1. /\ pc \in {"loop", "settle"} /\ pc' \in {"loop", "gate", "leave"}
        /\ UNCHANGED <<declared, hook, run, open, results, changed, fired>>
    BY <1>1 DEF NoMoreTasks, StopDispatching, Dispatch, HookTaskEnds,
                HookTaskFails, HookTaskIsCancelled, HookSettles, loopVars,
                seenVars
  <2>2. QED
    BY <2>1, Stutters DEF Bodies
<1>2. ASSUME NEW s, pc \in {"gate", "work"}, StepReturns(s)
      PROVE  Seen
  <2>1. /\ pc' = "settle"
        /\ UNCHANGED <<declared, hook, run, open, results, changed, fired>>
    BY <1>2 DEF StepReturns, loopVars, seenVars
  <2>2. QED
    BY <1>2, <2>1, Stutters DEF Bodies
<1>3. CASE GateCloses \/ GuardAbandonsStep
  BY <1>2, <1>3 DEF GateCloses, GuardAbandonsStep
<1>4. CASE Work /\ ~EmitTaskStart
  BY <1>2, <1>4 DEF Work, StepFailsBeforeStart, WorkProduces, WorkFails,
                    NestedWorkIsCancelled
<1>5. CASE EmitTaskStart
  <2>1. /\ pc = "gate" /\ pc' = "work" /\ open' = (hook = NoHook)
        /\ UNCHANGED <<declared, hook, run, results, changed, fired>>
        /\ Bodies' = Bodies
    BY <1>5 DEF EmitTaskStart, loopVars, Bodies
  <2>2. ~open
    BY <2>1 DEF StreamInv, OpenTask
  <2>3. CASE hook # NoHook
    BY <2>1, <2>2, <2>3, Stutters DEF TInv, TypeOK
  <2>4. CASE hook = NoHook
    <3>1. run = "open" /\ i \in 1 .. N
      BY <2>1, <2>4 DEF TInv, TypeOK, ControlInv, RunSays, InBounds, At, Count
    <3>2. ~MainLoopIsOver
      BY <2>1, <2>4, ValueAssumption DEF MainLoopIsOver, Teardown, HookKind
    <3>3. Len(results) < N
      BY <3>1, <3>2 DEF ControlInv, Tally, WalkingTally, FailedTally,
                        CancelledTally
    <3>4. Lifecycle!MayRunTask
      BY <2>1, <2>4, <3>1, <3>3, TasksMayRun
    <3>5. Lifecycle!TaskStart
      BY <2>1, <2>2, <2>4, <3>4 DEF Lifecycle!TaskStart, Bodies
    <3>6. QED
      BY <3>5 DEF Seen, Lifecycle!Next
  <2>5. QED
    BY <2>3, <2>4
<1>6. QED
  BY <1>1, <1>3, <1>4, <1>5

\* Settling a task closes it on the stream.
LEMMA SettlesSeen ==
  ASSUME TInv, ControlInv, ReplayInv, StreamInv,
         \/ TaskSkips \/ TaskSucceedsUnchanged \/ TaskChangesState
         \/ OutputDoesNotFit \/ TaskIsCancelled \/ FailureIsRecorded
         \/ FailureStopsRun
  PROVE  Seen
<1>1. /\ pc = "settle" /\ hook = NoHook
      /\ Len(results) < N /\ Len(results') = Len(results) + 1
      /\ open' = FALSE /\ UNCHANGED <<declared, run, fired>>
      /\ \/ /\ pc' \in {"loop", "leave"} /\ hook' = NoHook
            /\ changed' = changed
         \/ /\ pc' = "fire" /\ hook' = "change"
            /\ step.kind = "ok"
            /\ Cardinality(changed') = Cardinality(changed) + 1
  BY SettleMoves
<1>2. run = "open" /\ Bodies = NoHook /\ Bodies' = NoHook
  BY <1>1 DEF ControlInv, RunSays, Bodies
<1>3. Lifecycle!MayRunTask
  BY <1>1, <1>2, TasksMayRun
<1>4. CASE changed' = changed
  <2>1. Lifecycle!TaskEnd
    BY <1>1, <1>2, <1>3, <1>4 DEF Lifecycle!TaskEnd, Bodies
  <2>2. QED
    BY <2>1 DEF Seen, Lifecycle!Next
<1>5. CASE /\ step.kind = "ok"
           /\ Cardinality(changed') = Cardinality(changed) + 1
  <2>1. open
    BY <1>1, <1>5 DEF StreamInv, OpenTask
  <2>2. Lifecycle!TaskFinish
    BY <1>1, <1>2, <1>3, <1>5, <2>1 DEF Lifecycle!TaskFinish, Bodies
  <2>3. QED
    BY <2>2 DEF Seen, Lifecycle!Next
<1>6. QED
  BY <1>1, <1>4, <1>5

\* A run that has not begun has an empty stream.
LEMMA InitSeen == Init => Lifecycle!Init
<1>1. Init => Cardinality(changed) = 0 /\ Len(results) = 0
  BY FS_EmptySet DEF Init
<1>2. QED
  BY <1>1 DEF Init, Lifecycle!Init, Lifecycle!HookKind, HookKind

\* Every run of the engine is a run of the lifecycle that the documentation
\* tells, as far as its event stream shows.
THEOREM RunFollowsLifecycle == Spec => ImplementsLifecycle
<1>1. /\ TInv /\ ControlInv /\ ReplayInv /\ StreamInv /\ [Next]_vars
      => [Lifecycle!Next]_(Lifecycle!vars)
  <2> SUFFICES ASSUME TInv, ControlInv, ReplayInv, StreamInv, [Next]_vars
               PROVE  Seen
    BY DEF Seen
  <2>1. CASE Watchers \/ UNCHANGED vars
    <3>1. UNCHANGED <<declared, run, open, results, changed, fired, pc, hook>>
      BY <2>1 DEF Watchers, WatcherRequests, WatcherStops, vars, loopVars,
                  seenVars
    <3>2. QED
      BY <3>1, Stutters DEF Bodies
  <2>2. QED
    BY <2>1, LifecycleSteps, StepsSeen, SettlesSeen DEF Next, Engine
<1>2. QED
  BY <1>1, InitSeen, InvTInv, InvControl, InvReplay, InvStream, PTL
  DEF Spec, ImplementsLifecycle, Lifecycle!Spec

=============================================================================
