---------------------------- MODULE RunLifecycle ----------------------------
(***************************************************************************)
(* What a run promises to whoever reads its event stream: the lifecycle of *)
(* a Pipeline as the engine's documentation tells it (create, the tasks in *)
(* order, change after each state-changing task, error on a failure,       *)
(* destroy on every terminal status, run.finish last), with no task loop,  *)
(* no cancellation token and no error policy in it.  PipelineRunner is     *)
(* shown to implement it.                                                  *)
(***************************************************************************)
EXTENDS Naturals

CONSTANTS
  N,            \* how many tasks the flow has
  Contexts,     \* the sets of lifecycle hooks a context may declare
  Endings,      \* the statuses a cancelled run may end in
  NoHook        \* no hook body is running

HookKind == {"create", "change", "error", "destroy"}

VARIABLES
  declared,     \* the lifecycle hooks its context declares
  run,          \* "none", "open", "broken", or the status run.finish gave
  open,         \* a task.start whose end has not been emitted
  ended,        \* how many tasks have been closed
  changes,      \* how many of them changed the state
  hook,         \* the hook body that is running
  fired         \* how often each hook has started

vars == <<declared, run, open, ended, changes, hook, fired>>

Init ==
  /\ declared \in Contexts
  /\ run = "none"
  /\ open = FALSE
  /\ ended = 0
  /\ changes = 0
  /\ hook = NoHook
  /\ fired = [k \in HookKind |-> 0]

\* A hook that is declared has fired `n` times; one that is not never fires.
Fired(k, n) == fired[k] = IF k \in declared THEN n ELSE 0

TearingDown == fired["error"] + fired["destroy"] > 0

RunStart ==
  /\ run = "none"
  /\ run' = "open"
  /\ UNCHANGED <<declared, open, ended, changes, hook, fired>>

MayFire(k) ==
  CASE k = "create"  -> ended = 0 /\ fired["create"] = 0
    [] k = "change"  -> fired["change"] + 1 = changes /\ ~TearingDown
    [] k = "error"   -> ended > 0 /\ ~TearingDown
    [] k = "destroy" -> fired["destroy"] = 0

HookStart(k) ==
  /\ run = "open" /\ hook = NoHook /\ ~open
  /\ k \in declared
  /\ MayFire(k)
  /\ k # "create" => Fired("create", 1)
  /\ hook' = k
  /\ fired' = [fired EXCEPT ![k] = @ + 1]
  /\ UNCHANGED <<declared, run, open, ended, changes>>

HookFinish ==
  /\ run = "open" /\ hook # NoHook
  /\ hook' = NoHook
  /\ UNCHANGED <<declared, run, open, ended, changes, fired>>

\* The tasks run between create and the teardown, and every change the tasks
\* before have made has had its hook.
MayRunTask ==
  /\ run = "open" /\ hook = NoHook /\ ended < N
  /\ Fired("create", 1)
  /\ Fired("change", changes)
  /\ ~TearingDown

TaskStart ==
  /\ MayRunTask
  /\ ~open
  /\ open' = TRUE
  /\ UNCHANGED <<declared, run, ended, changes, hook, fired>>

\* task.finish closes a started task, which may have changed the state.
TaskFinish ==
  /\ MayRunTask
  /\ open
  /\ open' = FALSE
  /\ ended' = ended + 1
  /\ changes' \in {changes, changes + 1}
  /\ UNCHANGED <<declared, run, hook, fired>>

\* task.skip and task.error close a task; it need not have been started.
TaskEnd ==
  /\ MayRunTask
  /\ open' = FALSE
  /\ ended' = ended + 1
  /\ UNCHANGED <<declared, run, changes, hook, fired>>

RunFinish(status) ==
  /\ run = "open" /\ hook = NoHook /\ ~open
  /\ Fired("destroy", 1)
  /\ status = "ok" => ended = N
  /\ status = "failed" => ended > 0 /\ Fired("error", 1)
  /\ status # "failed" => Fired("error", 0)
  /\ run' = status
  /\ UNCHANGED <<declared, open, ended, changes, hook, fired>>

\* The event sink failed: the stream ends where it is.
Break ==
  /\ run \in {"none", "open"}
  /\ run' = "broken"
  /\ UNCHANGED <<declared, open, ended, changes, hook, fired>>

Next ==
  \/ RunStart
  \/ \E k \in HookKind : HookStart(k)
  \/ HookFinish
  \/ TaskStart \/ TaskFinish \/ TaskEnd
  \/ \E status \in {"ok", "failed"} \cup Endings : RunFinish(status)
  \/ Break

Spec == Init /\ [][Next]_vars

=============================================================================
