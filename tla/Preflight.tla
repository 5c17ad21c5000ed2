----------------------------- MODULE Preflight -----------------------------
(***************************************************************************)
(* `preflight` (tmx-core/src/preflight.rs): from the files a command names *)
(* to the one inlined flow it runs, or to the first error that refuses it. *)
(* Every file is read in a step of its own, because the reads are awaits   *)
(* between which an editor may rewrite or remove any of the files.         *)
(***************************************************************************)
EXTENDS Naturals, Sequences, FiniteSets, SequencesExt

CONSTANTS
  Refs,             \* the references a target or a document may name
  Edits,            \* what an editor may write: pairs <<reference, document>>
  Missing,          \* no file resolves under this reference
  None,             \* an absent field, or no error
  TasksMax, WidthMax, ConcurrencyMax, HookTasksMax,  \* the limits of 04
  MaxEdits          \* bound: how often a file changes under the reader

ASSUME PreflightAssumption ==
  /\ TasksMax \in Nat /\ WidthMax \in Nat /\ ConcurrencyMax \in Nat
  /\ HookTasksMax \in Nat /\ MaxEdits \in Nat

VARIABLES
  disk,     \* the files, by reference
  target,   \* the references of the entries: one file, or those of a directory
  wired,    \* the capabilities this host has
  phase,    \* "load", "inline", "accepted", "refused"
  loaded,   \* the documents read so far, in the order of the entries
  flow,     \* the flow under assembly: its tasks and its shared parts
  error,    \* the code of the refusal
  edits     \* changes of the files so far

preVars == <<disk, target, wired, phase, loaded, flow, error, edits>>

-----------------------------------------------------------------------------
(* Documents.                                                              *)
(*                                                                         *)
(* A document is [path, stem, kind, shape, deep, tasks, environment,       *)
(* context]: its file name as a sequence of bytes, the reserved stem and   *)
(* the explicit kind it has, what its content really is, whether it nests  *)
(* too deep, and the parts of its content.  A slot (a shared part, or a    *)
(* hook) has one of the forms absent, reference, use (a reference that     *)
(* passes inputs) and inline, with the part.                               *)

Classes == {"flow", "environment", "context", "task", "provider"}

\* A class for a document: the explicit kind, then the reserved name, then
\* `tasks` at the top make a flow, and the rest are tasks.
Class(doc) ==
  IF doc.kind # None THEN doc.kind
  ELSE IF doc.stem # None THEN doc.stem
  ELSE IF doc.shape = "flow" THEN "flow" ELSE "task"

Absent == [form |-> "absent"]
Reference(slot) == slot.form \in {"reference", "use"}
Inline(slot) == slot.form = "inline"

\* The slots of a document that a hook import may stand in.
HookNames == <<"create", "change", "destroy", "error">>
Hooks == {"bootstrap"} \cup Range(HookNames)
HooksOf(doc) ==
  (IF Inline(doc.environment) THEN {doc.environment.part.bootstrap} ELSE {})
    \cup (IF Inline(doc.context) THEN {doc.context.part.hooks[h] : h \in Range(HookNames)}
          ELSE {})

\* An import that passes nothing is also a map of one `exec` task named `use`:
\* the schema, which wants exactly one of the forms, has none for it.
Ambiguous(slot) == slot.form = "use" /\ ~slot.inputs

\* The schemas: an environment is an open object, the others are closed, and a
\* task is validated as the only task of a flow.
Fits(doc, class) ==
  /\ doc.shape = class \/ (class = "environment" /\ doc.shape \in Classes)
  /\ \A slot \in HooksOf(doc) : ~Ambiguous(slot)

\* An environment is read from any object; of another document it keeps none of
\* the fields that matter here.
EnvironmentOf(doc) ==
  IF doc.shape = "environment" THEN doc.environment
  ELSE [form |-> "inline", part |-> [provider |-> None, options |-> FALSE, bootstrap |-> Absent]]

NoFlow == [tasks |-> <<>>, environment |-> Absent, context |-> Absent]

\* What the parser makes of a file: the types of the model, which fix the fields
\* of a record but not what most of them hold.
Total(f, S) == f = [x \in S |-> f[x]]
IsBody(tasks) == tasks \in Seq(Range(tasks))
Leads(slot) == Reference(slot) => slot.ref \in Refs
IsHook(slot) == Leads(slot) /\ (Inline(slot) => IsBody(slot.part))

IsEnvironment(slot) ==
  /\ Leads(slot)
  /\ Inline(slot) =>
       /\ Total(slot, {"form", "part"})
       /\ Total(slot.part, {"provider", "options", "bootstrap"})
       /\ IsHook(slot.part.bootstrap)

IsContext(slot) ==
  /\ Leads(slot)
  /\ Inline(slot) =>
       /\ Total(slot, {"form", "part"}) /\ Total(slot.part, {"secrets", "hooks"})
       /\ Total(slot.part.hooks, Range(HookNames))
       /\ \A name \in Range(HookNames) : IsHook(slot.part.hooks[name])

IsDocument(doc) ==
  /\ Total(doc, {"path", "stem", "kind", "shape", "deep", "tasks", "environment", "context",
                 "manifest"})
  /\ IsBody(doc.tasks) /\ IsEnvironment(doc.environment) /\ IsContext(doc.context)
  /\ doc.shape = "environment" => Inline(doc.environment)
  /\ doc.shape = "context" => Inline(doc.context)

-----------------------------------------------------------------------------
(* Natural order of file names.                                            *)

Digit(b) == b \in 48 .. 57

\* The maximal run of digits of s from i on.
DigitsFrom(s, i) ==
  LET stops == {j \in i .. Len(s) : ~Digit(s[j])}
      last == IF stops = {} THEN Len(s)
              ELSE (CHOOSE j \in stops : \A k \in stops : j <= k) - 1
  IN  SubSeq(s, i, last)

NumberOf(run) == FoldLeft(LAMBDA n, b : 10 * n + (b - 48), 0, run)

\* natural_cmp: digit runs as integers, the longer run of two equal ones the
\* greater; everything else by its bytes.
NaturalCmp(a, b) ==
  LET less[i \in 1 .. Len(a) + 1, j \in 1 .. Len(b) + 1] ==
        CASE i > Len(a) -> j <= Len(b)
          [] i <= Len(a) /\ j > Len(b) -> FALSE
          [] i <= Len(a) /\ j <= Len(b) /\ Digit(a[i]) /\ Digit(b[j]) ->
               LET ra == DigitsFrom(a, i)
                   rb == DigitsFrom(b, j)
               IN  IF NumberOf(ra) # NumberOf(rb) THEN NumberOf(ra) < NumberOf(rb)
                   ELSE IF Len(ra) # Len(rb) THEN Len(ra) < Len(rb)
                   ELSE less[i + Len(ra), j + Len(rb)]
          [] OTHER -> IF a[i] # b[j] THEN a[i] < b[j] ELSE less[i + 1, j + 1]
  IN  less[1, 1]

-----------------------------------------------------------------------------
(* Reading one document.                                                   *)

\* The codes of the errors.
Refusals ==
  {"reference_not_found", "source_parse_error", "unknown_artifact_kind", "json_too_deep",
   "schema_invalid", "empty_target", "duplicate_shared_artifact", "flow_parse_error",
   "reference_kind_mismatch", "context_parse_error", "too_many_tasks", "missing_task_name",
   "duplicate_task_name", "fanout_too_wide", "concurrency_too_high", "too_many_hook_tasks",
   "missing_capability"}

Refuse(code) == phase' = "refused" /\ error' = code

\* Resolve, load and classify: the code that ends it, or None.
LoadRefusal(doc) ==
  IF doc = Missing THEN "reference_not_found"
  ELSE IF doc.shape = "garbled" THEN "source_parse_error"
  ELSE IF Class(doc) \notin Classes THEN "unknown_artifact_kind"
  ELSE None

\* The depth bound, before anything walks the document, and its schema.
Unfit(doc) ==
  IF doc.deep THEN "json_too_deep"
  ELSE IF ~Fits(doc, Class(doc)) THEN "schema_invalid"
  ELSE None

FirstOf(codes) ==
  LET real == {i \in DOMAIN codes : codes[i] # None}
  IN  IF real = {} THEN None ELSE codes[CHOOSE i \in real : \A j \in real : i <= j]

\* The k-th member of S under a strict order of it.
Nth(S, order, k) == CHOOSE i \in S : Cardinality({j \in S : <<j, i>> \in order}) = k - 1

PreflightInit(files, entries, host) ==
  /\ disk = files /\ target = entries /\ wired = host
  /\ phase = "load" /\ loaded = <<>> /\ flow = NoFlow
  /\ error = None /\ edits = 0

\* An editor, between any two steps.
Edit ==
  /\ phase \in {"load", "inline"} /\ edits < MaxEdits
  /\ \E e \in Edits :
       /\ disk[e[1]] # e[2]
       /\ disk' = [disk EXCEPT ![e[1]] = e[2]]
  /\ edits' = edits + 1
  /\ UNCHANGED <<target, wired, phase, loaded, flow, error>>

\* load_artifacts: the next entry.
Load ==
  /\ phase = "load" /\ Len(loaded) < Len(target)
  /\ LET doc == disk[target[Len(loaded) + 1]]
     IN  IF LoadRefusal(doc) = None
         THEN loaded' = Append(loaded, doc) /\ UNCHANGED <<phase, error>>
         ELSE Refuse(LoadRefusal(doc)) /\ UNCHANGED loaded
  /\ UNCHANGED <<disk, target, wired, flow, edits>>

-----------------------------------------------------------------------------
(* Assembly.                                                               *)

Shared(docs, class) == {i \in DOMAIN docs : Class(docs[i]) = class}
Parts(docs) == {i \in DOMAIN docs : Class(docs[i]) \notin {"environment", "context"}}

\* Every artifact is measured, then every one is validated, then the shared
\* parts are counted; in a directory a flow or a provider file stands where a
\* task should, and does not parse as one.
AssemblyRefusal(docs) ==
  IF docs = <<>> THEN "empty_target"
  ELSE IF \E i \in DOMAIN docs : docs[i].deep THEN "json_too_deep"
  ELSE IF \E i \in DOMAIN docs : Unfit(docs[i]) # None THEN "schema_invalid"
  ELSE IF \E class \in {"environment", "context"} : Cardinality(Shared(docs, class)) > 1
       THEN "duplicate_shared_artifact"
  ELSE IF Len(docs) > 1 /\ \E i \in Parts(docs) : Class(docs[i]) # "task"
       THEN "flow_parse_error"
  ELSE IF Len(docs) = 1 /\ Class(docs[1]) = "provider" THEN "flow_parse_error"
  ELSE None

\* A shared part as a slot of the flow.
SharedSlot(docs, class) ==
  IF Shared(docs, class) = {} THEN Absent
  ELSE LET doc == docs[CHOOSE i \in Shared(docs, class) : TRUE]
       IN  IF class = "environment" THEN EnvironmentOf(doc) ELSE doc.context

\* The order of a stable sort.
Sooner(docs) ==
  {p \in Parts(docs) \X Parts(docs) :
     LET a == docs[p[1]].path
         b == docs[p[2]].path
     IN  NaturalCmp(a, b) \/ (~NaturalCmp(b, a) /\ p[1] < p[2])}

\* A lone flow file as it is; else the shared parts and, in natural order, the
\* tasks.
Assembled(docs) ==
  IF Len(docs) = 1 /\ Class(docs[1]) = "flow"
  THEN [tasks |-> docs[1].tasks, environment |-> docs[1].environment,
        context |-> docs[1].context]
  ELSE [tasks |-> [k \in 1 .. Cardinality(Parts(docs)) |->
                     docs[Nth(Parts(docs), Sooner(docs), k)].tasks[1]],
        environment |-> SharedSlot(docs, "environment"), context |-> SharedSlot(docs, "context")]

Assemble ==
  /\ phase = "load" /\ Len(loaded) = Len(target)
  /\ IF AssemblyRefusal(loaded) = None
     THEN phase' = "inline" /\ flow' = Assembled(loaded) /\ UNCHANGED error
     ELSE Refuse(AssemblyRefusal(loaded)) /\ UNCHANGED flow
  /\ UNCHANGED <<disk, target, wired, loaded, edits>>

-----------------------------------------------------------------------------
(* References: the shared parts first, so that their own hooks can follow. *)

Slots == <<"environment", "context", "bootstrap", "create", "change", "destroy", "error">>

ASSUME NoneAssumption == None \notin Refusals \cup Range(Slots)

\* The slot of a flow that a name stands for; a hook's is in a shared part.
SlotIn(f, name) ==
  CASE name = "environment" -> f.environment
    [] name = "context" -> f.context
    [] name = "bootstrap" ->
         IF Inline(f.environment) THEN f.environment.part.bootstrap ELSE Absent
    [] OTHER -> IF Inline(f.context) THEN f.context.part.hooks[name] ELSE Absent

\* The flow with a slot inlined.
Filled(f, name, slot) ==
  CASE name = "environment" -> [f EXCEPT !.environment = slot]
    [] name = "context" -> [f EXCEPT !.context = slot]
    [] name = "bootstrap" -> [f EXCEPT !.environment.part.bootstrap = slot]
    [] OTHER -> [f EXCEPT !.context.part.hooks[name] = slot]

Awaits(name) == IF Reference(SlotIn(flow, name)) THEN name ELSE None

\* Mutant of Chased: the bootstrap is left to whoever runs it.
ChasedButBootstrap ==
  FirstOf([i \in DOMAIN Slots |-> IF Slots[i] = "bootstrap" THEN None ELSE Awaits(Slots[i])])

\* The first slot that still is a reference.
Chased == FirstOf([i \in DOMAIN Slots |-> Awaits(Slots[i])])

\* ensure_reference_class: the class must be the slot's, except that a file
\* with neither a kind nor a reserved name may stand for a shared part; a hook
\* is a flow or a task.
Mismatch(doc, name) ==
  IF name \in {"environment", "context"}
  THEN Class(doc) # name /\ ~(Class(doc) = "task" /\ doc.kind = None /\ doc.stem = None)
  ELSE Class(doc) \notin {"flow", "task"}

\* The part does not parse: a context is a closed record, a task is none.
Unparsed(doc, name) == name = "context" /\ doc.shape # "context"

InlineRefusal(doc, name) ==
  FirstOf(<<LoadRefusal(doc),
            IF LoadRefusal(doc) = None THEN Unfit(doc) ELSE None,
            IF LoadRefusal(doc) = None /\ Mismatch(doc, name)
            THEN "reference_kind_mismatch" ELSE None,
            IF LoadRefusal(doc) = None /\ Unparsed(doc, name)
            THEN "context_parse_error" ELSE None>>)

\* What a reference is replaced by: the shared part, or the tasks of the flow
\* or task file, whatever else that flow declares.  What the import passes to
\* the flow goes with the import.
PartOf(doc, name) ==
  CASE name = "environment" -> EnvironmentOf(doc)
    [] name = "context" -> doc.context
    [] OTHER -> [form |-> "inline", part |-> doc.tasks, inputs |-> FALSE]

\* resolve_references: the next reference, in the order of the slots.
Chase ==
  /\ phase = "inline" /\ Chased # None
  /\ LET doc == disk[SlotIn(flow, Chased).ref]
     IN  IF InlineRefusal(doc, Chased) = None
         THEN /\ flow' = Filled(flow, Chased, PartOf(doc, Chased))
              /\ UNCHANGED <<phase, error>>
         ELSE Refuse(InlineRefusal(doc, Chased)) /\ UNCHANGED flow
  /\ UNCHANGED <<disk, target, wired, loaded, edits>>

-----------------------------------------------------------------------------
(* Names and limits.                                                       *)
(*                                                                         *)
(* A task is [name, layers]: the fan-outs around it from the outside in,   *)
(* and the task they end in, each [type, width, concurrency, scorers]; a   *)
(* width or a concurrency that is not given as a literal is None.          *)

Over(value, max) == value # None /\ value > max

\* check_task_limits, one layer after the other.
LayerRefusal(layer) ==
  IF layer.type \notin {"map", "eval"} THEN None
  ELSE IF Over(layer.width, WidthMax) THEN "fanout_too_wide"
  ELSE IF Over(layer.concurrency, ConcurrencyMax) THEN "concurrency_too_high"
  ELSE None

TaskRefusal(task) == FirstOf([i \in DOMAIN task.layers |-> LayerRefusal(task.layers[i])])

\* The name is looked up among the names before it.
NameRefusal(tasks, i) ==
  IF tasks[i].name = None THEN "missing_task_name"
  ELSE IF \E j \in 1 .. i - 1 : tasks[j].name = tasks[i].name THEN "duplicate_task_name"
  ELSE None

TasksOf(slot) == IF Inline(slot) THEN slot.part ELSE <<>>

\* check_hook_task_budget.
HookTasks(f) ==
  LET count(name) == Len(TasksOf(SlotIn(f, name)))
  IN  count("create") + count("change") + count("destroy") + count("error")

\* check_structure_and_limits.
StructureRefusal(f) ==
  FirstOf(<<IF Len(f.tasks) > TasksMax THEN "too_many_tasks" ELSE None,
            FirstOf([i \in DOMAIN f.tasks |-> NameRefusal(f.tasks, i)]),
            FirstOf([i \in DOMAIN f.tasks |-> TaskRefusal(f.tasks[i])]),
            IF HookTasks(f) > HookTasksMax THEN "too_many_hook_tasks" ELSE None>>)

-----------------------------------------------------------------------------
(* Capabilities.                                                           *)

Capability == {"process", "http", "file", "store", "chat", "secret", "provider"}

\* The port a task type reaches, and the one a scorer does.
PortOf(type) ==
  CASE type \in {"exec", "run"} -> {"process"}
    [] type = "fetch" -> {"http"}
    [] type \in {"file", "store"} -> {type}
    [] type \in {"chat-completion", "llmRubric"} -> {"chat"}
    [] OTHER -> {}

\* Mutant of TaskNeeds: a fan-out is taken for what its own type reaches.
OuterNeeds(task) == PortOf(task.layers[1].type)

\* walk_task_capabilities: down the fan-outs to the task they end in, and the
\* scorers of every eval.
TaskNeeds(task) ==
  UNION {PortOf(task.layers[i].type)
           \cup UNION {PortOf(s) : s \in task.layers[i].scorers}
         : i \in DOMAIN task.layers}

BodyNeeds(tasks) == UNION {TaskNeeds(tasks[i]) : i \in DOMAIN tasks}

HookNeeds(f) == UNION {BodyNeeds(TasksOf(SlotIn(f, name))) : name \in Hooks}

\* What the context and the environment need of themselves.
SecretNeeds(f) ==
  IF Inline(f.context) /\ f.context.part.secrets = "source" THEN {"secret"} ELSE {}
ProviderNeeds(f) ==
  IF Inline(f.environment) /\ f.environment.part.provider # None THEN {"provider"} ELSE {}

\* compute_capabilities: the tasks, the context, the environment.
Needs(f) == BodyNeeds(f.tasks) \cup HookNeeds(f) \cup SecretNeeds(f) \cup ProviderNeeds(f)

CheckRefusal(f) ==
  IF StructureRefusal(f) # None THEN StructureRefusal(f)
  ELSE IF ~(Needs(f) \subseteq wired) THEN "missing_capability"
  ELSE None

\* The last checks, over the inlined flow.
Check ==
  /\ phase = "inline" /\ Chased = None
  /\ IF CheckRefusal(flow) = None
     THEN phase' = "accepted" /\ UNCHANGED error
     ELSE Refuse(CheckRefusal(flow))
  /\ UNCHANGED <<disk, target, wired, loaded, flow, edits>>

PreflightStep == Load \/ Assemble \/ Chase \/ Check

-----------------------------------------------------------------------------
(* What preflight promises, said at once of files that hold still.         *)

Usable(doc) == LoadRefusal(doc) = None /\ Unfit(doc) = None

Follows(slot, name) ==
  Reference(slot) => LET doc == disk[slot.ref]
                     IN  Usable(doc) /\ ~Mismatch(doc, name) /\ ~Unparsed(doc, name)

Followed(slot, name) == IF Reference(slot) THEN PartOf(disk[slot.ref], name) ELSE slot

\* The flow with its shared parts in place; its hooks may still be references.
Furnished(f) ==
  [tasks |-> f.tasks, environment |-> Followed(f.environment, "environment"),
   context |-> Followed(f.context, "context")]

Body(f, name) == TasksOf(Followed(SlotIn(f, name), name))

EveryBody(f) ==
  {f.tasks} \cup {Body(f, name) : name \in Hooks}

Reaches(f, port) ==
  \/ \E body \in EveryBody(f) : \E i \in DOMAIN body : \E k \in DOMAIN body[i].layers :
       \E type \in {body[i].layers[k].type} \cup body[i].layers[k].scorers : port \in PortOf(type)
  \/ port = "secret" /\ Inline(f.context) /\ f.context.part.secrets = "source"
  \/ port = "provider" /\ Inline(f.environment) /\ f.environment.part.provider # None

Runnable(f) ==
  /\ Len(f.tasks) <= TasksMax
  /\ \A i \in DOMAIN f.tasks :
       /\ f.tasks[i].name # None
       /\ \A j \in DOMAIN f.tasks : f.tasks[j].name = f.tasks[i].name => j = i
       /\ TaskRefusal(f.tasks[i]) = None
  /\ LET count(name) == Len(Body(f, name))
     IN  count("create") + count("change") + count("destroy") + count("error") <= HookTasksMax
  /\ \A port \in Capability : Reaches(f, port) => port \in wired

\* Every reference leads somewhere, and the flow they make can be run.
Promising(f) ==
  /\ Follows(f.environment, "environment") /\ Follows(f.context, "context")
  /\ \A name \in Hooks : Follows(SlotIn(Furnished(f), name), name)
  /\ Runnable(Furnished(f))

Acceptable ==
  LET docs == [i \in DOMAIN target |-> disk[target[i]]]
  IN  /\ \A i \in DOMAIN docs : Usable(docs[i])
      /\ AssemblyRefusal(docs) = None
      /\ Promising(Assembled(docs))

\* Over files that nobody edits preflight accepts exactly the targets that can
\* be run: no reference is left unread, none is chased that the flow does not
\* make, and the order of the reads and checks decides nothing but the error.
VerdictIsOfTheFiles ==
  edits = 0 => (phase = "accepted" => Acceptable) /\ (phase = "refused" => ~Acceptable)

\* Whatever changes under its eyes, a flow that is accepted has no reference
\* left, keeps the limits wherever a hook or a shared part came from, and
\* touches nothing that is not wired.
AcceptedIsRunnable ==
  phase = "accepted" =>
    /\ \A name \in Range(Slots) : ~Reference(SlotIn(flow, name))
    /\ Runnable(flow)

-----------------------------------------------------------------------------
(* What the documentation says, and the code does not do.                  *)

\* "Input variables passed into the referenced Flow, keyed by the input names
\* it declares" (hook imports, docs/tmx.schema.json): what an import passes is
\* still there when its flow has taken its place.
HookInputsArePassed ==
  [][\A name \in Range(HookNames) :
       LET slot == SlotIn(flow, name)
       IN  slot.form = "use" /\ slot.inputs /\ flow' # flow
             => SlotIn(flow', name) # Absent /\ SlotIn(flow', name).inputs]_preVars

=============================================================================
