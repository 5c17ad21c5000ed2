----------------------------- MODULE MCTaskData -----------------------------
(***************************************************************************)
(* The data of a run, on small instances: expressions against the grammar, *)
(* lint against the run, matchers, scores and conditions against one       *)
(* another, the state builder over merges, and the settings of a run       *)
(* against what was asked.  A behaviour puts one question, or merges.      *)
(***************************************************************************)
EXTENDS StateSize, Linting, Matchers, RunSettings, Masking

CONSTANTS
  MaxTokens,   \* length of the token sequences that are parsed
  MaxOperands, \* operands of the infix chains that are parsed
  MaxReads,    \* length of the sources that are linted
  MaxScores,   \* scores of a summary
  MaxText      \* length of the texts that are masked

vars == <<builder, refusal, probe>>

FnSeqs(S, n) == UNION {[1..i -> S] : i \in 0..n}

-----------------------------------------------------------------------------
(* Sources *)

Id(name) == <<"id", name>>
Tokens == {<<"!">>, <<"(">>, <<")">>, <<"[">>, <<"]">>, <<".">>, <<"===">>,
           <<"&&">>, <<"||">>, Id("a"), <<"lit", Num(1)>>}

Chain(operands, ops) ==
  FlattenSeq([i \in 1..Len(operands) |->
    IF i = 1 THEN operands[1] ELSE <<(<<ops[i - 1]>>)>> \o operands[i]])

Chains ==
  UNION {{Chain(f, g) : f \in [1..n -> {<<Id("a")>>, <<(<<"!">>), Id("a")>>}],
                        g \in [1..(n - 1) -> {"||", "&&", "===", "!=="}]}
         : n \in 1..MaxOperands}

ReadTokens == {Id("inputs"), Id("secrets"), Id("tasks"), Id("a"), Id("b"),
               <<".">>, <<"[">>, <<"]">>, <<"lit", Str("b")>>, <<"ws">>, <<"nl">>, <<"&&">>}

\* What would be neither a read nor part of one is left out.
Sources == {src \in FnSeqs(ReadTokens, MaxReads) : Parse(src).code = ""}

\* Every input and property has a scalar for its value.
Values == [k \in {"a", "b", "tasks"} |-> Str("b")]

ATask(name, schema) ==
  [name |-> name, key |-> name, lists |-> <<"a">>, inner |-> {}, text |-> <<>>,
   produces |-> schema]

NoEnvironment == [sort |-> "none", provider |-> "none", options |-> "absent", schema |-> "none"]

AFlow(tasks) ==
  [inputs |-> {"a", "tasks"}, tasks |-> tasks, env |-> NoEnvironment, context |-> "none"]

Reader == AFlow(<<ATask("a", {"a"}), ATask("last", {})>>)

Templates == FnSeqs({<<"${{">>, <<"}}">>, <<"text", "t">>, <<"lit", Num(1)>>, Id("env"), <<"ws">>}, MaxReads)

Named == {AFlow([i \in 1..Len(names) |-> ATask(names[i], NoSchema)]) :
            names \in FnSeqs({"a", "b", NoName}, 3)}

Environments ==
  [sort : {"none", "inline", "loads", "dangling"}, provider : {"none", "dangling", "loads"},
   options : {"absent", "empty", "full"},
   schema : {"none", "reference", "malformed", "required", "closed"}]

Flows == {"f", "g", "h"}
Imports == [Flows -> SUBSET (Flows \cup {"missing"})]

-----------------------------------------------------------------------------
(* Values and scores *)

Sample == {
  Null, Bool(TRUE), Bool(FALSE), Num(0), MinusZero, Num(1), Float(1), Num(-20), Str(""),
  Str("a"), Str("ab"), Arr(<<>>), Arr(<<Num(1)>>), Arr(<<Str("a")>>),
  Arr(<<Arr(<<Num(1)>>), Num(1)>>),
  Obj([k \in {} |-> Null]), Obj([k \in {"a"} |-> Num(1)]), Obj([k \in {"index"} |-> Str("a")]),
  Obj([k \in {"a", "b"} |-> IF k = "a" THEN Num(1) ELSE Arr(<<Null>>)])}

Assertion(m, v, e) == [actual |-> v, matcher |-> m, expected |-> e, not |-> FALSE]

Scorers ==
  [kind : {"llmRubric"}, fit : BOOLEAN, weight : {0, 1, 2},
   answer : {0, 1, ScoreUnit, ScoreUnit + 1},
   assertion : {Assertion("toBe", Num(1), Num(1))}]
  \cup [kind : {"matcher", "unknown"}, fit : {TRUE}, weight : {1, 2}, answer : {0},
        assertion : {Assertion("toEqual", Num(1), e) : e \in {Num(1), Null}}]

\* `output === inputs.want` and `!output`, where an assertion has the two.
ScopeWith(v, e) ==
  [inputs |-> Obj([k \in {"want"} |-> e]), output |-> v, env |-> Unbound,
   secrets |-> Unbound, tasks |-> Unbound, matrix |-> Unbound, case |-> Unbound,
   alias |-> "item", item |-> Unbound, index |-> Null]

\* In a `map`, with v its element at the position n.
AsElement(v, n) == [ScopeWith(v, v) EXCEPT !.item = BindItem(v, n), !.index = n]
ItemIndex == <<Id("item"), <<".">>, Id("index")>>

Same == <<Id("output"), <<"===">>, Id("inputs"), <<".">>, Id("want")>>
Not == <<(<<"!">>), Id("output")>>
At(key) == <<Id("output"), <<".">>, Id(key)>>
Place(n) == <<Id("output"), <<"[">>, <<"lit", Num(n)>>, <<"]">>>>

-----------------------------------------------------------------------------
(* Merges *)

Keys == {"a", "b\"\\"}
Outputs == {
  Json(Null), Json(Num(10)), Json(Arr(<<Num(1), Bool(FALSE)>>)),
  Json(Obj([k \in {"x", "y"} |-> Str("\n")])), Json(Arr(<<Arr(<<Num(1)>>)>>)),
  Text("h\"i"), Bytes(<<72, 34>>), Bytes(<<72, 255>>),
  Bytes(<<200, 1, 7, 99>>)}

\* An empty state, with a cap too wide and one that is met; one that is too
\* deep, one that is too long, and both of these are over their caps.
SeedStates == {
  [state |-> <<>>, cap |-> StateSizeMax + 1], [state |-> <<>>, cap |-> 30],
  [state |-> "a" :> Arr(<<Arr(<<Arr(<<Num(1)>>)>>)>>), cap |-> 10],
  [state |-> [k \in Keys |-> Str("abcdefghij")], cap |-> 24]}

\* What is merged, and what the seeds hold.
JsonOutputs ==
  {NormalizeOutput(output) : output \in Outputs}
  \cup UNION {{seed.state[k] : k \in DOMAIN seed.state} : seed \in SeedStates}

\* No byte here begins a character of more than one.
ByteStrings == FnSeqs({34, 72, 128, 255}, 5)

-----------------------------------------------------------------------------
(* Settings *)

Spellings ==
  [text \in {"0", "1", "2", "3", "4", "5", "9", "1.5", " 1", "true", " true", "[1]", "{}"} |->
     CASE text = "1.5" -> Float(1)
       [] text = " 1" -> Num(1)
       [] text \in {"true", " true"} -> Bool(TRUE)
       [] text = "[1]" -> Arr(<<Num(1)>>)
       [] text = "{}" -> Obj(NoLayer)
       [] OTHER -> Num(CHOOSE n \in 0..9 : ToString(n) = text)]

\* "007" and "inf" are no JSON, and "inf" is no number that JSON has; " 1" and
\* " true" are JSON that `str::parse` does not take.
Numerals ==
  [text \in {"0", "1", "2", "3", "4", "5", "9", "1.5", "007"} |->
     IF text = "007" THEN Num(7) ELSE Spellings[text]]

FlagSets ==
  [flags : {Upon(f, p) : f \in {NoLayer, "concurrency" :> Num(2), "maxStateSize" :> Num(5)},
                         p \in {NoLayer, "profile" :> Str("p")}},
   local : {FALSE}]

VarSets ==
  {Upon(c, Upon(s, p)) :
     c \in {NoLayer, "TMX_CONCURRENCY" :> "3", "TMX_CONCURRENCY" :> "x", "TMX_CONCURRENCY" :> ""},
     s \in {NoLayer, "TMX_MAX_STATE_SIZE" :> "4"},
     p \in {NoLayer, "TMX_PROFILE" :> "q"}}

Profiles == Obj([p \in {"p", "q"} |->
  Obj(IF p = "p" THEN "concurrency" :> Num(4) ELSE "maxStateSize" :> Null)])

ProjectFiles == {
  <<>>, <<(<<"unreadable">>), <<"malformed">>>>,
  <<(<<"absent">>), <<"layer", "concurrency" :> Str("5")>>, <<"malformed">>>>,
  <<(<<"layer", Upon("concurrency" :> Num(1), "profiles" :> Profiles)>>)>>,
  <<(<<"layer", Upon("profile" :> Str("q"), Upon("maxStateSize" :> Num(9), "profiles" :> Profiles))>>)>>}

UserFiles == {<<>>, <<(<<"layer", "concurrency" :> Num(U32Max + 1)>>)>>}
SystemFiles == {<<>>, <<(<<"layer", Upon("concurrency" :> Num(0), "maxStateSize" :> Num(2))>>)>>}

Declarations ==
  {NoLayer} \cup {"n" :> type : type \in InputTypes} \cup {Upon("n" :> "number", "u" :> "boolean")}
InputFiles ==
  {None, <<"inputs_file_invalid">>, Arr(<<>>), Obj("n" :> Str("2")), Obj("n" :> Bool(TRUE)),
   Obj(Upon("n" :> Str("[1]"), "u" :> Num(3)))}
Entries ==
  [form : {"text"}, key : {"n"}, text : {"007", " 1", "true", " true", "{}"}]
  \cup [form : {"json"}, key : {"n"}, text : {"007", " 1"}]
  \cup {[form |-> "text", key |-> "u", text |-> "true"], [form |-> "json", key |-> "u", text |-> "{}"]}
  \cup {[form |-> "malformed", key |-> "n", text |-> ""]}

\* One without a name, and two of one name.
TaskLists == {<<>>, <<"a", "b", "c">>, <<"c", "b", "", "a">>, <<"b", "a", "b">>}

Slices ==
  [from : {"", "a", "b", "z"}, until : {"", "a", "b", "c"},
   only : SUBSET {"a", "c"}, skip : SUBSET {"b", "c", "z"}]

AxisEntries == {
  [key |-> "os", values |-> <<Str("x"), Str("y")>>], [key |-> "os", values |-> <<Str("z")>>],
  [key |-> "n", values |-> <<Num(1), Num(2), Num(1)>>], [key |-> "n", values |-> <<>>]}

Sections == {NoLayer, "x" :> 1, "y" :> 2, Upon("x" :> 3, "y" :> 4)}
Contexts == {[env |-> e, secrets |-> NoLayer] : e \in Sections}
OwnContexts ==
  [context : {"none", "inline", "reference"}, strategy : {"merge", "replace"},
   precedence : {"local", "inherited"}, local : Contexts]

Overrides == {None, <<"x", 5>>, <<"x", 6>>, <<"y", 7>>}

Names(f) == "names" :> Obj(f)
NamesFiles == {
  <<>>, <<(<<"layer", Names("a" :> Str("path"))>>)>>,
  <<(<<"layer", Upon(Names("b" :> Str("other")), "profiles" :>
       Obj("p" :> Obj(Names("a" :> Str("profiled")))))>>)>>}

\* 3 hours do not fit U64Max.
Durations == [number : {-1, 0, 1, 3, U64Max}, unit : {"", "ms", "s", "m", "h"}]

OutputVars ==
  {Upon(f, Upon(c, r)) :
     f \in {NoLayer, "TMX_FORMAT" :> "ndjson", "TMX_FORMAT" :> "xml"},
     c \in {NoLayer, "NO_COLOR" :> "", "TMX_NO_COLOR" :> "", "TMX_NO_COLOR" :> "1"},
     r \in {NoLayer, "TMX_RUNS_RETENTION" :> "0", "TMX_RUNS_RETENTION" :> "7",
            "TMX_RUNS_RETENTION" :> "often"}}

SettingQuestions ==
  {<<"settings", args, [vars |-> v, project |-> p, user |-> u, system |-> s]>> :
     args \in FlagSets, v \in VarSets, p \in ProjectFiles, u \in UserFiles, s \in SystemFiles}
  \cup {<<"inputs", d, v, f, entries>> :
     d \in Declarations, v \in {NoLayer, "n" :> "", "n" :> "1", "n" :> "inf"},
     f \in InputFiles, entries \in FnSeqs(Entries, 2)}
  \cup {<<"tasks", tasks, slice>> : tasks \in TaskLists, slice \in Slices}
  \cup {<<"matrix", entries, map>> : entries \in FnSeqs(AxisEntries, 3), map \in BOOLEAN}
  \cup {<<"context", own, overrides, task>> :
     own \in Contexts, overrides \in FnSeqs(Overrides, 2), task \in OwnContexts}
  \cup {<<"registered", args, [vars |-> NoLayer, project |-> p, user |-> u, system |-> <<>>], name>> :
     args \in FlagSets, p \in NamesFiles, u \in NamesFiles, name \in {"a", "b"}}
  \cup {<<"time", raw, other>> : raw, other \in Durations}
  \cup {<<"output", flag, on, off, v, tty>> :
     flag \in Formats \cup {""}, on, off, tty \in BOOLEAN, v \in OutputVars}

\* The values of those layers and files, and what is inside of them.
Inside(values) == values \cup UNION {Range(v[2]) : v \in {w \in values : IsObj(w)}}
SettingValues ==
  LET files == UNION {ProjectFiles, UserFiles, SystemFiles, NamesFiles}
      layers == {args.flags : args \in FlagSets}
                \cup {FileLayer(fs) : fs \in files}
  IN  Inside(Inside(Inside((InputFiles \ ({None} \cup FileFaults)) \cup UNION {Range(l) : l \in layers})))

-----------------------------------------------------------------------------
(* Secrets *)

TextsOver(S, n) == {FoldLeft(LAMBDA s, c : s \o c, "", f) : f \in FnSeqs(S, n)}

UpTo(n, S) == {T \in SUBSET S : Cardinality(T) <= n}

Knowing(secrets) == FoldSet(LAMBDA s, masker : Register(masker, s), NoSecrets, secrets)

Shown == {
  Null, Bool(TRUE), Num(1), Num(312), Float(1), MinusZero, Str("ab"), Str("1"), Str("babc12"),
  Arr(<<Str("b"), Str("bb"), Arr(<<Num(12)>>)>>),
  Obj(("ab" :> Str("cab")) @@ ("b" :> Arr(<<Null, Str("b")>>)))}

Host ==
  [env |-> ("E" :> "ab") @@ ("empty" :> ""),
   files |-> [f \in {"plain", "line", "crlf", "blank", "long", "binary"} |->
     [text |-> CASE f = "plain" -> "ab" [] f = "line" -> "b\n" [] f = "crlf" -> "a\r\n"
                 [] f = "blank" -> "\n" [] f = "long" -> "ababa" [] f = "binary" -> "ab",
      utf8 |-> f # "binary"]],
   providers |-> ("p" :> Found("abc")) @@ ("silent" :> Found("")) @@ ("down" :> Denied("denied"))]

Definitions ==
  {<<"literal", text>> : text \in {"", "b", "ab"}}
  \cup {<<"source", source>> : source \in
    {NoLayer, "env" :> "E", "env" :> "empty", "env" :> "none", "key" :> "b",
     Upon("env" :> "E", "file" :> "plain"), Upon("file" :> "line", "provider" :> "p")}
    \cup {"file" :> f : f \in DOMAIN Host.files \cup {"none"}}
    \cup {"provider" :> p : p \in DOMAIN Host.providers \cup {"none"}}}

-----------------------------------------------------------------------------
(* Questions *)

\* One question, and only over the state the first seed is.
Asking == probe = <<"none">> /\ builder = WithCap(StateSizeMax + 1)

Ask(question) == probe' = question /\ UNCHANGED <<builder, refusal>>

AskParse == Asking /\ \E src \in FnSeqs(Tokens, MaxTokens) \cup Chains : Ask(<<"parse", src>>)

AskLint ==
  /\ Asking
  /\ \/ \E src \in Sources : Ask(<<"reads", src>>)
     \/ \E text \in Templates : Ask(<<"template", text>>)
     \/ \E flow \in Named : Ask(<<"names", flow>>)
     \/ \E imports \in Imports, loads \in SUBSET {"g", "h"} : Ask(<<"imports", imports, loads>>)
     \/ \E env \in Environments, context \in {"none", "loads", "dangling"} :
          Ask(<<"environment", [AFlow(<<>>) EXCEPT !.env = env, !.context = context]>>)

AskVerdict ==
  /\ Asking
  /\ \/ \E v, e \in Sample : Ask(<<"verdict", v, e>>)
     \/ \E output \in Outputs \cup {Bytes(b) : b \in ByteStrings} : Ask(<<"handed", output>>)
     \/ \E scorers \in FnSeqs(Scorers, 2) : Ask(<<"case", scorers>>)
     \/ \E scores \in FnSeqs(0..ScoreUnit, MaxScores) : Ask(<<"summary", scores>>)

AskSettings == Asking /\ AskRun /\ UNCHANGED <<builder, refusal>>

AskMasking ==
  /\ Asking
  /\ \/ \E secrets \in UpTo(3, TextsOver({"a", "b"}, 3)), text \in TextsOver({"a", "b"}, MaxText) :
          Ask(<<"text", secrets, text>>)
     \/ \E secrets \in UpTo(2, {"ab", "b", "abc", "12", "1", ".0"}), v \in Shown,
           kind \in {"task.start", "task.finish", "task.error"} :
          Ask(<<"shown", secrets, v, kind>>)
     \/ \E defs \in [{"s", "t"} -> Definitions], tasks \in FnSeqs(FnSeqs({"s", "t", "u"}, 2), 2) \ {<<>>} :
          Ask(<<"secrets", defs, tasks>>)
     \/ \E defs \in [{"s", "t"} -> Definitions], text \in {"", "b", "xaby"} :
          Ask(<<"projection", "E" :> text, defs>>)

MergeAnOutput ==
  /\ probe = <<"none">>
  /\ \E key \in Keys, output \in Outputs : Merge(key, NormalizeOutput(output))
  /\ UNCHANGED probe

Init == AskInit /\ BuilderInit

Next == AskParse \/ AskLint \/ AskVerdict \/ AskSettings \/ AskMasking \/ MergeAnOutput

Spec == Init /\ [][Next]_vars

-----------------------------------------------------------------------------
(* Properties *)

\* The parser (interpolate.rs, parse_bp) builds the one tree the grammar has,
\* with `!` above equality above `&&` above `||`, all to the left, and refuses
\* a source only when it has none, is too long or opens too many levels.
ParsesTheGrammar == probe[1] = "parse" => ParsedByGrammar(probe[2])

\* Lint (lint.rs, usecases.rs) scans texts where the run evaluates them: a
\* dotted read it does not warn of is found, a path it warns of is not; every
\* expression of a text that the run interpolates is read by it; its
\* silence on names is the run's consent; it warns of a cycle of imports
\* exactly when there is one, which is when the nested flow tasks of the run
\* (runner.rs) reach their depth bound; and it judges options as the run does.
LintForesees ==
  CASE probe[1] = "reads" -> ForeseesReads(Reader, 2, probe[2], Values)
    [] probe[1] = "template" -> ForeseesTemplate(probe[2], ScopeWith(Null, Null))
    [] probe[1] = "names" -> ForeseesNames(probe[2])
    [] probe[1] = "imports" -> ForeseesImports(probe[2], probe[3], "f")
    [] probe[1] = "environment" -> ForeseesEnvironment(probe[2])
    [] OTHER -> TRUE

\* Matchers (matcher.rs) imply one another as they are named and say what the
\* same condition says as an expression (interpolate.rs); an element of a map
\* gives its index whatever it is; an output's JSON (merge.rs,
\* normalize_output) says what was handed back; a case scores what its assertions say; a
\* summary and its gate (fanout.rs) are of the cases.
VerdictsAgree ==
  CASE probe[1] = "verdict" ->
         LET v == probe[2]
             e == probe[3]
             Says(src) == Evaluate(src, ScopeWith(v, e))
         IN  /\ MatchersAgree(v, e)
             /\ Says(Same) = Ok(Bool(Holds(v, "toEqual", <<e>>, FALSE)))
             /\ Says(Not) = Ok(Bool(Holds(v, "toBeFalsy", <<>>, FALSE)))
             /\ \A key \in {"a", "b"} : \A path \in {key, "['" \o key \o "']"} :
                  Holds(v, "toHaveProperty", <<Str(path), e>>, FALSE) =
                    (IsOk(Says(At(key))) /\ Holds(Says(At(key))[2], "toEqual", <<e>>, FALSE))
             /\ IsArr(v) => \A n \in 0..2 :
                  Holds(v, "toHaveProperty", <<Str("[" \o ToString(n) \o "]")>>, FALSE) =
                    IsOk(Says(Place(n)))
             /\ Evaluate(ItemIndex, AsElement(v, Num(2))) =
                  Ok(IF IsObj(v) /\ "index" \in DOMAIN v[2] THEN v[2]["index"] ELSE Num(2))
    [] probe[1] = "handed" -> Preserves(probe[2])
    [] probe[1] = "case" -> CaseAgrees(probe[2])
    [] probe[1] = "summary" ->
         \A pass, least \in 0..ScoreUnit : SummaryAgrees(probe[2], pass, least)
    [] OTHER -> TRUE

\* Masking (mask.rs, Masker): in every text that is shown the longest secrets
\* there go whole and nothing else goes; a masked value shows none, and stays
\* as it is when it is masked again on its way out; what a run resolves
\* (secret.rs, resolve_secrets) can always be masked, and a projection
\* (inspect.rs) shows no literal.
SecretsStayMasked ==
  CASE probe[1] = "text" -> TextMasked(Knowing(probe[2]), probe[3])
    [] probe[1] = "shown" ->
         /\ ValueMasked(Knowing(probe[2]), probe[3])
         /\ EventMasked(Knowing(probe[2]), [kind |-> probe[4], name |-> "ab", carries |-> probe[3]])
    [] probe[1] = "secrets" -> BookIsReady(Host, probe[2], probe[3])
    [] probe[1] = "projection" -> ProjectionMasked(probe[2], probe[3])
    [] OTHER -> TRUE

=============================================================================
