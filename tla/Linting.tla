------------------------------ MODULE Linting ------------------------------
(***************************************************************************)
(* `tmx lint`: the dataflow pass over a loaded flow (tmx-core/src/lint.rs)  *)
(* and the use case around it (usecases.rs), which chases the environment, *)
(* the context and the imports.  The pass never parses an expression: it   *)
(* scans the text for the reads that an evaluation would make, so lint and *)
(* evaluation are two readers of the same source.                          *)
(*                                                                         *)
(* A text is a template of Expressions.  A task has a name and the key it  *)
(* merges under, the secrets it lists, those its inner tasks list, its     *)
(* text and the properties its `produces` schema declares.                 *)
(***************************************************************************)
EXTENDS Expressions

CONSTANT FlowDepthMax   \* FLOW_DEPTH_MAX, limits.rs

ASSUME FlowDepth == FlowDepthMax \in Nat \ {0}

NoName == ""
NoSchema == {"no schema"}

-----------------------------------------------------------------------------
(* The scanner *)

RECURSIVE Interpolations(_)

\* The insides of every `${{ }}`; an opener that is never closed is ignored.
Interpolations(text) ==
  LET opens == {i \in 1..Len(text) : text[i] = <<"${{">>}
      closes == {j \in 1..Len(text) : text[j] = <<"}}">> /\ j > Min(opens)}
  IN  IF opens = {} THEN {}
      ELSE IF closes = {} THEN {}
      ELSE {Trim(SubSeq(text, Min(opens) + 1, Min(closes) - 1))}
           \cup Interpolations(SubSeq(text, Min(closes) + 1, Len(text)))

\* The first place from `pos` on that is no blank.  A newline is not skipped.
SkipBlanks(src, pos) ==
  Min({i \in pos..(Len(src) + 1) : i > Len(src) \/ src[i] # <<"ws">>})

\* The place of the identifier in the `.identifier` at `pos`, or 0.
FieldAt(src, pos) ==
  LET dot == SkipBlanks(src, pos)
      id == SkipBlanks(src, dot + 1)
  IN  IF Kind(src, dot) = "." /\ Kind(src, id) = "id" THEN id ELSE 0

\* An identifier is a root unless a `.` stands before it, blanks aside.
IsRoot(src, i) ==
  LET before == {j \in 1..(i - 1) : src[j][1] \notin {"ws", "nl"}}
  IN  /\ src[i][1] = "id" /\ src[i][2] \in {"inputs", "secrets", "tasks"}
      /\ before # {} => src[Max(before)][1] # "."

\* The read that starts at the root src[i]: its namespace, the name, and for
\* a task the first field, "" when none is named.  A bare or bracketed root
\* is no read.
ReadAt(src, i) ==
  LET name == FieldAt(src, i + 1)
      field == FieldAt(src, name + 1)
  IN  IF name = 0 THEN {}
      ELSE IF src[i][2] = "tasks" /\ field # 0
      THEN {<<"tasks", src[name][2], src[field][2]>>}
      ELSE {<<src[i][2], src[name][2], "">>}

ExtractRefs(src) == UNION {ReadAt(src, i) : i \in {i \in 1..Len(src) : IsRoot(src, i)}}

-----------------------------------------------------------------------------
(* The dataflow pass *)

TaskNames(flow) == {flow.tasks[i].name : i \in 1..Len(flow.tasks)} \ {NoName}

\* A task without a name, and the second of two tasks with one name.
NameWarnings(flow) ==
  {<<"missing_task_name", NoName>> : i \in {i \in 1..Len(flow.tasks) :
                                              flow.tasks[i].name = NoName}}
  \cup {<<"duplicate_task_name", flow.tasks[i].name>> :
          i \in {i \in 1..Len(flow.tasks) :
                   /\ flow.tasks[i].name # NoName
                   /\ \E j \in 1..(i - 1) : flow.tasks[j].name = flow.tasks[i].name}}

\* The schema of the first task of that name, when it has one.
ProducesOf(flow, name) ==
  flow.tasks[Min({i \in 1..Len(flow.tasks) : flow.tasks[i].name = name})].produces

\* What is wrong with one read: the name is not declared, not listed by the
\* task or one of its inner tasks, not a task, or not in the task's schema.
CheckReference(flow, task, ref) ==
  CASE ref[1] = "inputs" /\ ref[2] \notin flow.inputs ->
         {<<"undeclared_input", ref[2]>>}
    [] ref[1] = "secrets" /\ ref[2] \notin ToSet(task.lists) \cup task.inner ->
         {<<"undeclared_secret", ref[2]>>}
    [] ref[1] = "tasks" /\ ref[2] \notin TaskNames(flow) ->
         {<<"unknown_task_reference", ref[2]>>}
    [] /\ ref[1] = "tasks" /\ ref[2] \in TaskNames(flow) /\ ref[3] # ""
       /\ ProducesOf(flow, ref[2]) # NoSchema
       /\ ref[3] \notin ProducesOf(flow, ref[2]) ->
         {<<"produces_field_unknown", ref[3]>>}
    [] OTHER -> {}

\* `analyze_flow`: names first, then every read of every text of every task.
AnalyzeFlow(flow) ==
  NameWarnings(flow) \cup
  UNION {UNION {UNION {CheckReference(flow, flow.tasks[i], ref) : ref \in ExtractRefs(src)}
                : src \in Interpolations(flow.tasks[i].text)}
         : i \in 1..Len(flow.tasks)}

-----------------------------------------------------------------------------
(* The use case: environment, context and imports *)

\* A reference that does not load is a warning, and the check goes on.
Unloaded(sort) == IF sort = "dangling" THEN {"unresolved_reference"} ELSE {}

\* What a schema says of the options: "required" wants a property that the
\* empty object lacks, "closed" allows none.
Violates(options, schema) ==
  <<schema, options>> \in {<<"required", "empty">>, <<"closed", "full">>}

\* Both of an environment's options checks end in the validator, which refuses
\* a schema that does not compile.
Validated(options, schema) ==
  IF schema = "malformed" THEN Err("produces_schema_uncompilable")
  ELSE Ok(IF Violates(options, schema) THEN {"provider_options_invalid"} ELSE {})

\* Lint checks options that are written, against a schema of a provider that
\* loads.  A schema that is a reference does not compile.
OptionWarnings(env) ==
  IF /\ env.sort \in {"inline", "loads"} /\ env.provider = "loads"
     /\ env.options # "absent" /\ env.schema # "none"
  THEN Validated(env.options, IF env.schema = "reference" THEN "malformed" ELSE env.schema)
  ELSE Ok({})

\* The context first, then the environment; only the validator's refusal is an
\* error of lint itself.
EnvDiagnostics(flow) ==
  LET options == OptionWarnings(flow.env)
  IN  IF ~IsOk(options) THEN options
      ELSE Ok(Unloaded(flow.context) \cup Unloaded(flow.env.sort) \cup options[2])

RECURSIVE CheckImports(_, _, _, _, _)

\* Mutant of CheckImports: only the root can close a cycle.
RECURSIVE CheckRootOnly(_, _, _, _, _)
CheckRootOnly(imports, loads, flow, chain, depth) ==
  IF depth >= FlowDepthMax THEN {}
  ELSE UNION {IF ref \notin DOMAIN imports THEN {<<"unresolved_reference", ref>>}
              ELSE IF ref = Head(chain) THEN {<<"cyclic_flow_import", ref>>}
              ELSE IF ref \notin loads THEN {}
              ELSE CheckRootOnly(imports, loads, ref, Append(chain, ref), depth + 1)
              : ref \in imports[flow]}

\* The walk of the imports from `flow`: a reference into the chain is a cycle,
\* a flow that does not load is skipped, and the depth bounds the walk.
CheckImports(imports, loads, flow, chain, depth) ==
  IF depth >= FlowDepthMax THEN {}
  ELSE UNION {IF ref \notin DOMAIN imports THEN {<<"unresolved_reference", ref>>}
              ELSE IF ref \in {chain[i] : i \in 1..Len(chain)}
              THEN {<<"cyclic_flow_import", ref>>}
              ELSE IF ref \notin loads THEN {}
              ELSE CheckImports(imports, loads, ref, Append(chain, ref), depth + 1)
              : ref \in imports[flow]}

-----------------------------------------------------------------------------
(* What the run makes of the same flow *)

\* `validate_task_names`: the run refuses what it could not merge.
NamesAccepted(flow) ==
  /\ \A i \in 1..Len(flow.tasks) : flow.tasks[i].name # NoName
  /\ \A i, j \in 1..Len(flow.tasks) :
       flow.tasks[i].name = flow.tasks[j].name => i = j

RECURSIVE RunImports(_, _, _, _)

\* What the `flow` tasks of a flow at a depth come to, at any level: each is
\* dispatched below the bound only, then resolved, loaded and run one deeper.
RunImports(imports, loads, flow, depth) ==
  UNION {IF depth >= FlowDepthMax THEN {"flow_depth_exceeded"}
         ELSE IF ref \notin DOMAIN imports THEN {"unresolved_reference"}
         ELSE IF ref \notin loads THEN {"refused"}
         ELSE RunImports(imports, loads, ref, depth + 1)
         : ref \in imports[flow]}

\* `validate_environment_options`: options that are not written are the empty
\* ones, and a schema that is a reference is not looked at.
ValidateEnvironmentOptions(env) ==
  IF env.schema \in {"none", "reference"} THEN Ok({})
  ELSE Validated(IF env.options = "absent" THEN "empty" ELSE env.options, env.schema)

\* The `secrets` a task sees: those it lists, in its order, and the first that
\* the context does not define, or that is empty, refuses the task.
ResolveSecrets(task, defs) ==
  LET unfit == SelectSeq(task.lists, LAMBDA s : s \notin DOMAIN defs \/ defs[s] = "")
  IN  IF unfit = <<>> THEN Ok(Obj([s \in ToSet(task.lists) |-> Str(defs[s])]))
      ELSE Err(IF Head(unfit) \in DOMAIN defs
               THEN "secret_value_empty" ELSE "unknown_secret")


-----------------------------------------------------------------------------
(* What lint promises of the run *)

\* The scope of a task of the flow, once every declared input is supplied and
\* every task has merged the properties its schema declares.
ScopeOf(flow, task, values) ==
  [inputs |-> Obj([k \in flow.inputs |-> values[k]]),
   secrets |-> ResolveSecrets(task, [s \in ToSet(task.lists) |-> s])[2],
   tasks |-> Obj([t \in TaskNames(flow) |->
                    Obj([k \in ProducesOf(flow, t) \ NoSchema |-> values[k]])]),
   env |-> Unbound, matrix |-> Unbound, case |-> Unbound, output |-> Unbound,
   alias |-> "item", item |-> Unbound, index |-> Null]

UnknownName == {Err("unknown_namespace"), Err("unlisted_secret")}

Reads(flow, i) ==
  UNION {UNION {CheckReference(flow, flow.tasks[i], ref) : ref \in ExtractRefs(src)}
         : src \in Interpolations(flow.tasks[i].text)}

\* Every name of the source is a root lint knows, or a field on its line.
Dotted(src) ==
  \A j \in 1..Len(src) :
    /\ src[j] \notin {<<"nl">>, <<"[">>}
    /\ src[j][1] = "id" => \/ IsRoot(src, j)
                           \/ \E k \in 1..(j - 1) :
                                src[k] = <<".">> /\ SkipBlanks(src, k + 1) = j

\* Over reads that are written with dots and on one line, of the three roots
\* lint knows: what evaluation does not find, lint has warned of.  And of a
\* path alone, whatever its form, lint warns only when evaluation fails.
ForeseesReads(flow, i, src, values) ==
  LET task == [flow.tasks[i] EXCEPT !.text = <<(<<"${{">>)>> \o src \o <<(<<"}}">>)>>]
      with == [flow EXCEPT !.tasks[i] = task]
      expr == Parse(src)
      answer == Evaluate(src, ScopeOf(with, task, values))
  IN  expr.code = "" =>
        /\ answer \in UnknownName /\ Dotted(src) => Reads(with, i) # {}
        /\ expr.tree[1] = "path" /\ Reads(with, i) # {} => ~IsOk(answer)

\* Of a text that the run can interpolate lint reads every expression: all of
\* them evaluate, and a text with none is no more than itself.
ForeseesTemplate(text, scope) ==
  LET answer == InterpTemplate(text, scope)
  IN  /\ IsOk(answer) => \A src \in Interpolations(text) : IsOk(Evaluate(src, scope))
      /\ (~IsOk(answer) /\ <<"}}">> \notin ToSet(text)) => <<"${{">> \in ToSet(text)
      /\ Interpolations(text) = {} => answer \in {Ok(Str(Spell(text))), Err("expr_unterminated")}
      /\ IsOk(answer) /\ ~IsStr(answer[2]) =>
           \E src \in Interpolations(text) : Evaluate(src, scope) = answer

\* Lint is silent of the names exactly when the run takes them.
ForeseesNames(flow) == (NameWarnings(flow) = {}) = NamesAccepted(flow)

RECURSIVE Below(_, _, _, _)

\* The flows that `n` imports lead to, through flows that load.
Below(imports, loads, S, n) ==
  IF n = 0 THEN S
  ELSE Below(imports, loads,
             S \cup UNION {imports[f] : f \in S \cap loads \cap DOMAIN imports}, n - 1)

\* The run meets its depth bound on the cycle that lint warns of, and on no
\* other import of so few flows; and the references that lead nowhere.
MeetsImports(warned, met) ==
  /\ ("cyclic_flow_import" \in warned) = ("flow_depth_exceeded" \in met)
  /\ ("unresolved_reference" \in warned) = ("unresolved_reference" \in met)

\* Lint warns of a cycle exactly when a walk from the root can come back to a
\* flow it went through, and of a reference exactly when the walk meets one
\* that leads nowhere.
ForeseesImports(imports, loads, root) ==
  LET n == Cardinality(DOMAIN imports) + 1
      open == loads \cup {root}
      met == Below(imports, open, {root}, n)
      warned == {w[1] : w \in CheckImports(imports, loads, root, <<root>>, 0)}
  IN  /\ ("cyclic_flow_import" \in warned) =
           (\E f \in met \cap open : f \in Below(imports, open, imports[f], n))
      /\ ("unresolved_reference" \in warned) = (met \ DOMAIN imports # {})
      /\ MeetsImports(warned, RunImports(imports, open, root, 0))

\* Options that are written, for a schema that is at hand, lint judges as the
\* run will; and it answers for every reference that does not load.
ForeseesEnvironment(flow) ==
  LET found == EnvDiagnostics(flow)
  IN  /\ (/\ flow.env.sort \in {"inline", "loads"} /\ flow.env.provider = "loads"
          /\ flow.env.options # "absent" /\ flow.env.schema # "reference") =>
           LET run == ValidateEnvironmentOptions(flow.env)
           IN  IF IsOk(run) THEN IsOk(found) /\ run[2] \subseteq found[2] ELSE found = run
      /\ found = Ok({}) => "dangling" \notin {flow.env.sort, flow.context}

=============================================================================
