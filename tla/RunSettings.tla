---------------------------- MODULE RunSettings ----------------------------
(***************************************************************************)
(* What a run is asked to do, before any of it is done: the settings that  *)
(* flags, environment variables and configuration files give               *)
(* (tmx-cli/src/config.rs), the inputs, context overrides and matrix of    *)
(* `tmx run` (commands/run.rs), and the tasks, combinations and contexts   *)
(* the runner makes of them (tmx-core/src/runner.rs).                      *)
(*                                                                         *)
(* A layer is a function of the keys it sets.  A text is a string, and a   *)
(* duration a record of what stands before its unit and the unit.  What a  *)
(* text spells as JSON or as a number, and what is asked, is left open.    *)
(***************************************************************************)
EXTENDS JsonValues, Integers, SequencesExt

CONSTANTS
  U64Max,          \* u64::MAX
  U32Max,          \* u32::MAX
  ConcurrencyMax,  \* CONCURRENCY_MAX
  FanoutWidthMax,  \* FANOUT_WIDTH_MAX
  CancelGraceMs,   \* CANCEL_GRACE_MS
  RetentionDays,   \* RUN_RETENTION_DEFAULT_DAYS
  JsonValue,       \* the JSON values that layers and files of inputs hold
  Spelling,        \* the texts that spell JSON, with what they spell
  Numeral,         \* the texts that `str::parse` takes for a number, with the number
  RunQuestions     \* what is asked about runs

ASSUME SettingsBounds ==
  /\ U64Max \in Nat /\ U32Max \in 0..U64Max /\ ConcurrencyMax \in 0..U32Max
  /\ FanoutWidthMax \in Nat /\ CancelGraceMs \in Nat /\ RetentionDays \in Nat

\* A text has one value, and an object is a function to values.
ASSUME JsonValuesAssumption ==
  \A v \in JsonValue :
    /\ IsStr(v) => v = Str(v[2])
    /\ IsObj(v) => v[2] \in [DOMAIN v[2] -> JsonValue] /\ IsFiniteSet(DOMAIN v[2])

ASSUME NumeralsAssumption == \A text \in DOMAIN Numeral : IsNum(Numeral[text])

VARIABLE probe  \* the question that was put, <<"none">> before

\* An option is <<>> or <<its value>>.
None == <<>>
Fine(v) == <<"ok", v>>
Fault(code) == <<"err", code>>
IsFine(r) == r[1] = "ok"

NoLayer == [k \in {} |-> Null]

\* `over` laid upon `base`: its keys win.
Upon(over, base) ==
  [k \in DOMAIN over \cup DOMAIN base |-> IF k \in DOMAIN over THEN over[k] ELSE base[k]]

\* Pairs of a key and a value inserted one after the other.
Inserted(base, pairs) ==
  FoldLeft(LAMBDA f, p : Upon([k \in {p[1]} |-> p[2]], f), base, pairs)

\* The JSON that a text spells, if it spells any.
Spelled(text) == IF text \in DOMAIN Spelling THEN {Spelling[text]} ELSE {}

-----------------------------------------------------------------------------
(* Single values *)

UnitMs == [ms |-> 1, s |-> 1000, m |-> 60000, h |-> 3600000]

UnitOf(raw) == UnitMs[IF raw.unit = Blank THEN "s" ELSE raw.unit]

\* A duration in milliseconds; seconds when no unit is named, the largest
\* value when it does not fit, None when there is no number before the unit.
ParseDurationMs(raw) ==
  IF raw.number \notin 0..U64Max THEN None
  ELSE IF raw.number > U64Max \div UnitOf(raw) THEN <<U64Max>>
  ELSE <<raw.number * UnitOf(raw)>>

\* `--grace`: an unreadable value is the default, and 0 is a value.
ResolveGraceMs(flag) ==
  IF flag = None THEN CancelGraceMs
  ELSE IF ParseDurationMs(flag[1]) = None THEN CancelGraceMs
  ELSE ParseDurationMs(flag[1])[1]

Formats == {"pretty", "json", "ndjson"}

\* `--format`, then a known TMX_FORMAT, then what suits the terminal.
ResolveFormat(flag, variable, tty) ==
  IF flag # Blank THEN flag
  ELSE IF variable \in Formats THEN variable
  ELSE IF tty THEN "pretty" ELSE "json"

\* Off beats on, wherever it is said; NO_COLOR by being set at all.
ResolveColor(on, off, vars, tty) ==
  /\ ~off /\ "NO_COLOR" \notin DOMAIN vars
  /\ "TMX_NO_COLOR" \in DOMAIN vars => vars["TMX_NO_COLOR"] = Blank
  /\ on \/ tty

\* TMX_RUNS_RETENTION: 0 and `off` keep no sweep, and what is no number of
\* days is the default.
ResolveRetention(vars) ==
  LET raw == IF "TMX_RUNS_RETENTION" \in DOMAIN vars
             THEN vars["TMX_RUNS_RETENTION"] ELSE "unset"
  IN  CASE raw \in {"off", "0"} -> None
        [] \E n \in 1..9 : ToString(n) = raw -> <<CHOOSE n \in 1..9 : ToString(n) = raw>>
        [] OTHER -> <<RetentionDays>>

\* `--local` or TMX_NO_ENV.
ResolveLocal(flag, vars) ==
  flag \/ ("TMX_NO_ENV" \in DOMAIN vars /\ vars["TMX_NO_ENV"] # Blank)

-----------------------------------------------------------------------------
(* Layers *)

\* The variables that are configuration keys under another name.
ConfigVars == [
  TMX_FORMAT |-> "format", TMX_CONCURRENCY |-> "concurrency",
  TMX_PROFILE |-> "profile", TMX_NO_COLOR |-> "noColor",
  TMX_MAX_STATE_SIZE |-> "maxStateSize", TMX_RUNS_RETENTION |-> "runsRetention"]

\* A variable that is set, and not to the empty text, sets its key.
EnvLayer(vars) ==
  LET set == {v \in DOMAIN ConfigVars \cap DOMAIN vars : vars[v] # Blank}
  IN  [key \in {ConfigVars[v] : v \in set} |->
         Str(vars[CHOOSE v \in set : ConfigVars[v] = key])]

\* The first `tmx.config.*` that can be read is the layer, empty when it is
\* no object.
FileLayer(files) ==
  LET read == {i \in 1..Len(files) : files[i][1] \notin {"absent", "unreadable"}}
      first == files[CHOOSE i \in read : \A j \in read : i <= j]
  IN  IF read = {} THEN NoLayer
      ELSE IF first[1] = "malformed" THEN NoLayer
      ELSE first[2]

\* Flags, then TMX_PROFILE, then the project file name the profile.
ActiveProfile(flags, env, project) ==
  LET layers == <<flags, env, project>>
      named == {i \in 1..3 : "profile" \in DOMAIN layers[i] /\ IsStr(layers[i]["profile"])}
  IN  IF named = {} THEN None ELSE <<layers[Min(named)]["profile"][2]>>

\* Mutant of ApplyProfile: the project's own keys win over the profile's.
ProfileBelow(project, profile) ==
  LET base == [k \in DOMAIN project \ {"profiles"} |-> project[k]]
  IN  IF /\ profile # None /\ "profiles" \in DOMAIN project
         /\ IsObj(project["profiles"]) /\ profile[1] \in DOMAIN project["profiles"][2]
         /\ IsObj(project["profiles"][2][profile[1]])
      THEN Upon(base, project["profiles"][2][profile[1]][2]) ELSE base

\* The project layer with its active profile laid upon it.
ApplyProfile(project, profile) ==
  LET base == [k \in DOMAIN project \ {"profiles"} |-> project[k]]
  IN  IF /\ profile # None /\ "profiles" \in DOMAIN project
         /\ IsObj(project["profiles"]) /\ profile[1] \in DOMAIN project["profiles"][2]
         /\ IsObj(project["profiles"][2][profile[1]])
      THEN Upon(project["profiles"][2][profile[1]][2], base) ELSE base

\* Layers, highest first: a higher one's key wins.
ResolveEffective(layers) == FoldRight(Upon, layers, NoLayer)

\* All layers of a machine under the flags.
LoadEffective(flags, machine) ==
  LET env == EnvLayer(machine.vars)
      project == FileLayer(machine.project)
  IN  ResolveEffective(<<flags, env,
        ApplyProfile(project, ActiveProfile(flags, env, project)),
        FileLayer(machine.user), FileLayer(machine.system)>>)

\* A name the configuration registers stands for its path.
ResolveRegistered(flags, machine, reference) ==
  LET effective == LoadEffective(flags, machine)
  IN  IF /\ "names" \in DOMAIN effective /\ IsObj(effective["names"])
         /\ reference \in DOMAIN effective["names"][2]
         /\ IsStr(effective["names"][2][reference])
      THEN effective["names"][2][reference][2] ELSE reference

\* A number or a text that spells one; anything else that is set is a usage
\* error, whichever layer it comes from.
ResolveU64(effective, key) ==
  LET v == effective[key]
      n == IF IsStr(v) THEN Spelled(v[2]) ELSE {v}
  IN  IF key \notin DOMAIN effective THEN Fine(None)
      ELSE IF \E x \in n : IsNum(x) /\ x[3] = "int" /\ x[2] \in 0..U64Max
      THEN Fine(<<(CHOOSE x \in n : TRUE)[2]>>)
      ELSE Fault("usage")

\* `concurrency` must fit 32 bits.
ResolveConcurrency(effective) ==
  LET n == ResolveU64(effective, "concurrency")
  IN  IF IsFine(n) /\ n[2] # None /\ n[2][1] > U32Max THEN Fault("usage") ELSE n

\* The flags as the highest layer, and what the layers make of them.
ResolveOverrides(args, machine) ==
  LET effective == LoadEffective(args.flags, machine)
      concurrency == ResolveConcurrency(effective)
      stateSize == ResolveU64(effective, "maxStateSize")
  IN  IF ~IsFine(concurrency) THEN concurrency
      ELSE IF ~IsFine(stateSize) THEN stateSize
      ELSE Fine([concurrency |-> concurrency[2], maxStateSize |-> stateSize[2],
                 local |-> ResolveLocal(args.local, machine.vars)])

\* A cap above the engine's is refused, never clamped.
CheckConcurrency(concurrency) ==
  IF concurrency # None /\ concurrency[1] > ConcurrencyMax
  THEN "concurrency_too_high" ELSE Blank

-----------------------------------------------------------------------------
(* Inputs *)

\* What a text is parsed as for a declared type, if it can be; an input may be
\* declared without one.
ParsedAs(type, text) ==
  CASE type = "number" -> IF text \in DOMAIN Numeral THEN {Numeral[text]} ELSE {}
    [] type = "boolean" -> IF text \in {"true", "false"} THEN {Bool(text = "true")} ELSE {}
    [] type \in {"object", "array"} -> Spelled(text)
    [] OTHER -> {Str(text)}

ShapeOk(type, v) == (type = "object" => IsObj(v)) /\ (type = "array" => IsArr(v))

\* A text for a declared input is parsed as the type that is declared, and
\* refused when it cannot be or has another shape.  What is no text passes,
\* whatever was declared, and what is not declared passes too.
CoerceDeclared(declared, key, value) ==
  IF key \notin DOMAIN declared \/ ~IsStr(value) THEN Fine(value)
  ELSE IF \E v \in ParsedAs(declared[key], value[2]) : ShapeOk(declared[key], v)
  THEN Fine(CHOOSE v \in ParsedAs(declared[key], value[2]) : TRUE)
  ELSE Fault("input_type_mismatch")

\* What one `--input` supplies: `k=v` a text, `k:=v` a JSON value as it is.
EntrySupply(declared, entry) ==
  CASE entry.form = "text" ->
         <<entry.key, CoerceDeclared(declared, entry.key, Str(entry.text))>>
    [] entry.form = "json" ->
         <<entry.key, IF Spelled(entry.text) = {} THEN Fault("input_json_invalid")
                      ELSE Fine(CHOOSE v \in Spelled(entry.text) : TRUE)>>
    [] OTHER -> <<Blank, Fault("input_malformed")>>

\* The environment is asked for the declared inputs only.
EnvSupplies(declared, vars) ==
  LET names == SetToSeq({k \in DOMAIN declared \cap DOMAIN vars : vars[k] # Blank})
  IN  [i \in 1..Len(names) |->
         <<names[i], CoerceDeclared(declared, names[i], Str(vars[names[i]]))>>]

FileSupplies(declared, file) ==
  IF file = None THEN <<>>
  ELSE IF file \in {<<"inputs_file_unreadable">>, <<"inputs_file_invalid">>}
  THEN <<<<Blank, Fault(file[1])>>>>
  ELSE IF ~IsObj(file) THEN <<<<Blank, Fault("inputs_file_not_object")>>>>
  ELSE LET keys == SetToSeq(DOMAIN file[2])
       IN  [i \in 1..Len(keys) |->
              <<keys[i], CoerceDeclared(declared, keys[i], file[2][keys[i]])>>]

\* Mutant of CoerceInputs: the environment is read last.
EnvironmentLast(declared, vars, file, entries) ==
  LET supplies == FileSupplies(declared, file)
                  \o [i \in 1..Len(entries) |-> EntrySupply(declared, entries[i])]
                  \o EnvSupplies(declared, vars)
      faults == {i \in 1..Len(supplies) : ~IsFine(supplies[i][2])}
  IN  IF faults # {} THEN supplies[Min(faults)][2]
      ELSE Fine(Obj(Inserted(NoLayer,
                  [i \in 1..Len(supplies) |-> <<supplies[i][1], supplies[i][2][2]>>])))

\* Environment, file, flags, in this order: the last to supply an input wins,
\* the first to be at fault ends it.
CoerceInputs(declared, vars, file, entries) ==
  LET supplies == EnvSupplies(declared, vars) \o FileSupplies(declared, file)
                  \o [i \in 1..Len(entries) |-> EntrySupply(declared, entries[i])]
      faults == {i \in 1..Len(supplies) : ~IsFine(supplies[i][2])}
  IN  IF faults # {} THEN supplies[Min(faults)][2]
      ELSE Fine(Obj(Inserted(NoLayer,
                  [i \in 1..Len(supplies) |-> <<supplies[i][1], supplies[i][2][2]>>])))

-----------------------------------------------------------------------------
(* Contexts *)

\* `--env K=V`, laid upon the flow's own env, the last of a name winning.
ApplyEnvOverrides(env, overrides) ==
  IF \E i \in 1..Len(overrides) : overrides[i] = None THEN Fault("env_malformed")
  ELSE Fine(Inserted(env, overrides))

\* One section of a context: the task's local one replaces the inherited one,
\* unless it is empty, or is united with it by the precedence.
CombineSection(inherited, local, replace, inheritedWins) ==
  IF replace THEN IF DOMAIN local = {} THEN inherited ELSE local
  ELSE IF inheritedWins THEN Upon(inherited, local) ELSE Upon(local, inherited)

\* The env and secrets a task runs with.
ResolveContext(inherited, task) ==
  CASE task.context = "none" -> Fine(inherited)
    [] task.context = "reference" -> Fault("unsupported_reference")
    [] OTHER -> Fine([part \in {"env", "secrets"} |->
                        CombineSection(inherited[part], task.local[part],
                                       task.strategy = "replace",
                                       task.precedence = "inherited")])

-----------------------------------------------------------------------------
(* Tasks and combinations *)

PositionOf(tasks, name) == Min({i \in 1..Len(tasks) : tasks[i] = name})

\* `only`, then `skip`.
Selected(slice, task) == (slice.only = {} \/ task \in slice.only) /\ task \notin slice.skip

Taken(window, slice) ==
  FoldLeft(LAMBDA kept, t : IF Selected(slice, t) THEN Append(kept, t) ELSE kept, <<>>, window)

\* The tasks selected in the window from..until; every name must exist.  A
\* task without a name is the empty text.
SliceTasks(tasks, slice) ==
  LET names == {tasks[i] : i \in 1..Len(tasks)} \ {Blank}
      asked == ({slice.from, slice.until} \ {Blank}) \cup slice.only \cup slice.skip
      lo == IF slice.from = Blank THEN 1 ELSE PositionOf(tasks, slice.from)
      hi == IF slice.until = Blank THEN Len(tasks) ELSE PositionOf(tasks, slice.until)
  IN  IF ~(asked \subseteq names) THEN Fault("unknown_task")
      ELSE Fine(Taken(SubSeq(tasks, lo, hi), slice))

\* `--matrix` entries of one key are one axis, at the place of the first.
Axes(entries) ==
  FoldLeft(LAMBDA axes, e :
             IF \E i \in 1..Len(axes) : axes[i].key = e.key
             THEN [i \in 1..Len(axes) |->
                     IF axes[i].key = e.key
                     THEN [axes[i] EXCEPT !.values = @ \o e.values] ELSE axes[i]]
             ELSE Append(axes, e),
           <<>>, entries)

\* Each combination so far with each value of the next axis.
Extended(combos, axis) ==
  FlattenSeq([i \in 1..Len(combos) |->
    [j \in 1..Len(axis.values) |-> Upon([k \in {axis.key} |-> axis.values[j]], combos[i])]])

Width(axes) == FoldLeft(LAMBDA w, axis : w * Len(axis.values), 1, axes)

\* The product of the axes, refused before it is built when it is too wide.
MatrixCombinations(axes) ==
  IF axes = <<>> THEN Fine(<<>>)
  ELSE IF Width(axes) > FanoutWidthMax THEN Fault("fanout_too_wide")
  ELSE Fine(FoldLeft(Extended, <<NoLayer>>, axes))

\* A flow that has a `map` of its own is run once, whatever the matrix says;
\* an entry without `=` has no values.
ResolveMatrix(entries, hasMap) ==
  IF entries = <<>> \/ hasMap THEN Fine(<<>>)
  ELSE IF \E i \in 1..Len(entries) : entries[i].values = <<>> THEN Fault("matrix_malformed")
  ELSE MatrixCombinations(Axes(entries))

-----------------------------------------------------------------------------
(* What is asked of a run *)

IsMap(f) == f = [k \in DOMAIN f |-> f[k]]
IsLayer(l) == l \in [DOMAIN l -> JsonValue]

\* The candidates for one `tmx.config.*`, in the order they are tried.
IsFiles(files) ==
  /\ files \in Seq(ToSet(files))
  /\ \A i \in 1..Len(files) :
       \/ files[i] \in {<<"absent">>, <<"unreadable">>, <<"malformed">>}
       \/ files[i][1] = "layer" /\ IsLayer(files[i][2])

IsMachine(machine) ==
  IsFiles(machine.project) /\ IsFiles(machine.user) /\ IsFiles(machine.system)

\* The profile of a flag is a text.
IsArgs(args) ==
  /\ IsLayer(args.flags)
  /\ "profile" \in DOMAIN args.flags => IsStr(args.flags["profile"])

InputTypes == {"string", "number", "boolean", "object", "array", "untyped"}
FileFaults == {<<"inputs_file_unreadable">>, <<"inputs_file_invalid">>}

IsSupply(declared, file, entries) ==
  /\ declared \in [DOMAIN declared -> InputTypes] /\ IsFiniteSet(DOMAIN declared)
  /\ file \in {None} \cup FileFaults \cup JsonValue
  /\ entries \in Seq(ToSet(entries))

IsMatrix(entries) ==
  /\ entries \in Seq(ToSet(entries))
  /\ \A i \in 1..Len(entries) :
       /\ entries[i] = [key |-> entries[i].key, values |-> entries[i].values]
       /\ entries[i].values \in Seq(ToSet(entries[i].values))

IsContext(context) ==
  /\ context = [env |-> context.env, secrets |-> context.secrets]
  /\ IsMap(context.env) /\ IsMap(context.secrets)

IsDuration(raw) == raw.number \in Int /\ raw.unit \in {Blank, "ms", "s", "m", "h"}

\* The arguments of a question are such as arguments, files and variables give.
IsRunQuestion(q) ==
  CASE q[1] = "settings" -> IsArgs(q[2]) /\ IsMachine(q[3])
    [] q[1] = "inputs" -> IsSupply(q[2], q[4], q[5])
    [] q[1] = "tasks" -> q[2] \in Seq(ToSet(q[2]))
    [] q[1] = "matrix" -> IsMatrix(q[2])
    [] q[1] = "context" ->
         /\ IsContext(q[2]) /\ q[3] \in Seq(ToSet(q[3])) /\ IsContext(q[4].local)
         /\ q[4].context \in {"none", "inline", "reference"}
    [] q[1] = "registered" -> IsArgs(q[2]) /\ IsMachine(q[3])
    [] q[1] = "time" -> IsDuration(q[2]) /\ IsDuration(q[3])
    [] q[1] = "output" -> TRUE

ASSUME QuestionsAssumption == \A q \in RunQuestions : IsRunQuestion(q)

AskInit == probe = <<"none">>

AskRun == probe = <<"none">> /\ probe' \in RunQuestions

AskSpec == AskInit /\ [][AskRun]_probe

-----------------------------------------------------------------------------
(* What a run may count on *)

\* The layers that may set a key, the nearest first.
Said(args, machine) ==
  LET project == FileLayer(machine.project)
      env == EnvLayer(machine.vars)
      profile == IF "profile" \in DOMAIN args.flags THEN args.flags["profile"]
                 ELSE IF "profile" \in DOMAIN env THEN env["profile"]
                 ELSE IF "profile" \in DOMAIN project THEN project["profile"]
                 ELSE Null
      profiles == IF "profiles" \in DOMAIN project /\ IsObj(project["profiles"])
                  THEN project["profiles"][2] ELSE NoLayer
  IN  <<args.flags, env,
        IF IsStr(profile) /\ profile[2] \in DOMAIN profiles /\ IsObj(profiles[profile[2]])
        THEN profiles[profile[2]][2] ELSE NoLayer,
        project, FileLayer(machine.user), FileLayer(machine.system)>>

\* The layers that set a key, and what the nearest of them says.
Setters(layers, key) == {i \in DOMAIN layers : key \in DOMAIN layers[i]}
Nearest(layers, key) == layers[Min(Setters(layers, key))][key]

\* A setting is the number that the nearest layer to set it says, and a layer
\* that says no number in range ends the run before it starts.
SettingsAsked(args, machine) ==
  LET outcome == ResolveOverrides(args, machine)
      said == Said(args, machine)
      IsSet(key) == Setters(said, key) # {}
      Read(v) == IF IsStr(v) THEN Spelled(v[2]) ELSE {v}
      Number(key) ==
        {x[2] : x \in {y \in Read(Nearest(said, key)) :
                        /\ IsNum(y) /\ y[3] = "int"
                        /\ y[2] \in 0..(IF key = "concurrency" THEN U32Max ELSE U64Max)}}
      keys == {"concurrency", "maxStateSize"}
  IN  IF \E key \in keys : IsSet(key) /\ Number(key) = {} THEN outcome = Fault("usage")
      ELSE /\ IsFine(outcome)
           /\ \A key \in keys :
                IF IsSet(key) THEN {outcome[2][key]} = {<<n>> : n \in Number(key)}
                ELSE outcome[2][key] = None
           /\ CheckConcurrency(outcome[2].concurrency) = Blank =>
                ToSet(outcome[2].concurrency) \subseteq 0..ConcurrencyMax

HasType(type, v) ==
  CASE type = "number" -> IsNum(v) [] type = "boolean" -> v \in {Bool(TRUE), Bool(FALSE)}
    [] type = "object" -> IsObj(v) [] type = "array" -> IsArr(v)
    [] OTHER -> IsStr(v)

\* What is taken of a value that is given for an input: a text that is for a
\* declared one is parsed, and counts when the parsed value has the type.
Accepted(declared, k, v) ==
  IF k \in DOMAIN declared /\ IsStr(v)
  THEN {x \in ParsedAs(declared[k], v[2]) : HasType(declared[k], x)} ELSE {v}

InEnvironment(declared, vars, k) == k \in DOMAIN declared /\ k \in DOMAIN vars /\ vars[k] # Blank
InFileOf(file, k) == file # None /\ IsObj(file) /\ k \in DOMAIN file[2]

FromEntry(declared, e) ==
  CASE e.form = "text" -> Accepted(declared, e.key, Str(e.text))
    [] e.form = "json" -> Spelled(e.text)
    [] OTHER -> {}

EnvFaults(declared, vars) ==
  {Fault("input_type_mismatch") :
     k \in {x \in DOMAIN declared :
              InEnvironment(declared, vars, x) /\ Accepted(declared, x, Str(vars[x])) = {}}}

InputsFileFaults(declared, file) ==
  IF file = None THEN {}
  ELSE IF file \in FileFaults THEN {Fault(file[1])}
  ELSE IF ~IsObj(file) THEN {Fault("inputs_file_not_object")}
  ELSE {Fault("input_type_mismatch") :
          k \in {x \in DOMAIN file[2] : Accepted(declared, x, file[2][x]) = {}}}

EntryFault(e) ==
  Fault(CASE e.form = "text" -> "input_type_mismatch" [] e.form = "json" -> "input_json_invalid"
          [] OTHER -> "input_malformed")

EntryFaults(declared, entries) ==
  LET wrong == {i \in 1..Len(entries) : FromEntry(declared, entries[i]) = {}}
  IN  IF wrong = {} THEN {} ELSE {EntryFault(entries[Min(wrong)])}

\* The inputs are refused exactly when something supplied is at fault, a text
\* that its declared type has no value for, JSON that is none, an entry or a
\* file that cannot be read, and for the first that is, the environment before
\* the file before the flags.  Otherwise an input, declared or not, is what
\* the nearest that supplies it says, flags over file over environment and a
\* later flag over an earlier: a text for a declared input the value of the
\* declared type that it says, and JSON what it is, of any type.
InputsAsked(declared, vars, file, entries) ==
  LET outcome == CoerceInputs(declared, vars, file, entries)
      env == EnvFaults(declared, vars)
      ofFile == InputsFileFaults(declared, file)
      faults == IF env # {} THEN env ELSE IF ofFile # {} THEN ofFile
                ELSE EntryFaults(declared, entries)
      Flags(k) == {i \in 1..Len(entries) : entries[i].key = k}
      Wanted(k) ==
        IF Flags(k) # {} THEN FromEntry(declared, entries[Max(Flags(k))])
        ELSE IF InFileOf(file, k) THEN Accepted(declared, k, file[2][k])
        ELSE Accepted(declared, k, Str(vars[k]))
      keys == {k \in DOMAIN declared \cup {entries[i].key : i \in 1..Len(entries)}
                     \cup (IF file # None /\ IsObj(file) THEN DOMAIN file[2] ELSE {}) :
                 Flags(k) # {} \/ InFileOf(file, k) \/ InEnvironment(declared, vars, k)}
  IN  IF faults # {} THEN {outcome} = faults
      ELSE /\ IsFine(outcome) /\ DOMAIN outcome[2][2] = keys
           /\ \A k \in keys : {outcome[2][2][k]} = Wanted(k)

\* A task is kept exactly when it stands in the window, is among the only ones
\* and is not skipped, and those kept stand in the order of the flow.
TasksAsked(tasks, slice) ==
  LET outcome == SliceTasks(tasks, slice)
      kept == {i \in 1..Len(tasks) :
                 /\ slice.from # Blank => PositionOf(tasks, slice.from) <= i
                 /\ slice.until # Blank => i <= PositionOf(tasks, slice.until)
                 /\ slice.only # {} => tasks[i] \in slice.only
                 /\ tasks[i] \notin slice.skip}
      Rank(i) == Cardinality({j \in kept : j <= i})
  IN  IsFine(outcome) =>
        /\ Len(outcome[2]) = Cardinality(kept)
        /\ \A i \in kept : outcome[2][Rank(i)] = tasks[i]

\* Every combination of the axes once, the last axis turning fastest.
CombinationsAsked(entries, hasMap) ==
  LET outcome == ResolveMatrix(entries, hasMap)
      axes == Axes(entries)
      After(a) == Width(SubSeq(axes, a + 1, Len(axes)))
  IN  IsFine(outcome) /\ outcome[2] # <<>> =>
        /\ ~hasMap /\ Len(outcome[2]) = Width(axes) /\ Width(axes) <= FanoutWidthMax
        /\ \A i \in 1..Len(outcome[2]), a \in 1..Len(axes) :
             outcome[2][i][axes[a].key] =
               axes[a].values[(((i - 1) \div After(a)) % Len(axes[a].values)) + 1]

\* The context a task runs with: `--env` over the flow's own, and the task's
\* local one over or under that; no key is lost unless it is replaced.
ContextAsked(own, overrides, task) ==
  LET env == ApplyEnvOverrides(own.env, overrides)
      outcome == ResolveContext([own EXCEPT !.env = env[2]], task)
      Overriding(k) == {i \in 1..Len(overrides) : overrides[i][1] = k}
      Inherited(part, k) ==
        IF part = "env" /\ Overriding(k) # {}
        THEN {overrides[Max(Overriding(k))][2]}
        ELSE IF k \in DOMAIN own[part] THEN {own[part][k]} ELSE {}
      Local(part, k) ==
        IF task.context = "inline" /\ k \in DOMAIN task.local[part]
        THEN {task.local[part][k]} ELSE {}
      Alone(part) == /\ task.context = "inline" /\ task.strategy = "replace"
                     /\ DOMAIN task.local[part] # {}
      Seen(part, k) ==
        IF Alone(part) \/ Inherited(part, k) = {} THEN Local(part, k)
        ELSE IF Local(part, k) = {} \/ task.precedence = "inherited" THEN Inherited(part, k)
        ELSE Local(part, k)
      names(part) == DOMAIN own[part] \cup DOMAIN task.local[part]
                     \cup (IF part = "env" THEN {overrides[i][1] : i \in 1..Len(overrides)} ELSE {})
  IN  None \notin ToSet(overrides) /\ IsFine(outcome) =>
        \A part \in {"env", "secrets"} :
          /\ DOMAIN outcome[2][part] = {k \in names(part) : Seen(part, k) # {}}
          /\ \A k \in DOMAIN outcome[2][part] : {outcome[2][part][k]} = Seen(part, k)

\* A name means what the nearest layer with names maps it to, or itself.
NamesAsked(args, machine, name) ==
  LET said == Said(args, machine)
      mapped == IF Setters(said, "names") # {} /\ IsObj(Nearest(said, "names"))
                THEN Nearest(said, "names")[2] ELSE NoLayer
  IN  Str(ResolveRegistered(args.flags, machine, name)) =
        IF name \in DOMAIN mapped /\ IsStr(mapped[name]) THEN mapped[name] ELSE Str(name)

\* More time is never less: neither a larger number nor a larger unit makes a
\* duration or the grace shorter, and what cannot be read changes no default.
TimeAsked(raw, other) ==
  LET Reads(d) == ParseDurationMs(d) # None
  IN  /\ Reads(raw) = (raw.number \in 0..U64Max)
      /\ (Reads(raw) /\ Reads(other) /\ raw.number <= other.number /\ UnitOf(raw) <= UnitOf(other)) =>
           ResolveGraceMs(<<raw>>) <= ResolveGraceMs(<<other>>)
      /\ ~Reads(raw) => ResolveGraceMs(<<raw>>) = ResolveGraceMs(None)

\* What is asked of the output is a flag's before a variable's before the
\* terminal's, except that no colour is no colour wherever it is said; and a
\* stray variable neither picks a format nor turns the sweep of old runs off.
OutputAsked(flag, on, off, vars, tty) ==
  LET variable == IF "TMX_FORMAT" \in DOMAIN vars THEN vars["TMX_FORMAT"] ELSE Blank
      colour == ResolveColor(on, off, vars, tty)
  IN  /\ ResolveFormat(flag, variable, tty) \in
           (IF flag # Blank THEN {flag} ELSE IF variable \in Formats THEN {variable}
            ELSE {"pretty", "json"})
      /\ colour => ~off /\ (on \/ tty)
      /\ colour # ResolveColor(on, off, NoLayer, tty) =>
           \E v \in DOMAIN vars : v \in {"NO_COLOR", "TMX_NO_COLOR"}
      /\ ResolveRetention(vars) = None =>
           "TMX_RUNS_RETENTION" \in DOMAIN vars /\ vars["TMX_RUNS_RETENTION"] \in {"0", "off"}

\* A run is what was asked: every setting from the nearest layer that sets it
\* (config.rs), every input from its nearest supply and of its declared type,
\* the tasks of the slice, the combinations of the matrix (run.rs, runner.rs),
\* and contexts united by their strategy and precedence.
RunIsAsAsked ==
  CASE probe[1] = "settings" -> SettingsAsked(probe[2], probe[3])
    [] probe[1] = "inputs" -> InputsAsked(probe[2], probe[3], probe[4], probe[5])
    [] probe[1] = "tasks" -> TasksAsked(probe[2], probe[3])
    [] probe[1] = "matrix" -> CombinationsAsked(probe[2], probe[3])
    [] probe[1] = "context" -> ContextAsked(probe[2], probe[3], probe[4])
    [] probe[1] = "registered" -> NamesAsked(probe[2], probe[3], probe[4])
    [] probe[1] = "time" -> TimeAsked(probe[2], probe[3])
    [] probe[1] = "output" -> OutputAsked(probe[2], probe[3], probe[4], probe[5], probe[6])
    [] OTHER -> TRUE

=============================================================================
