------------------------------ MODULE Matchers ------------------------------
(***************************************************************************)
(* The matchers behind `assert` and the `matcher` scorer of `eval`         *)
(* (tmx-core/src/matcher.rs), how both hand them their arguments           *)
(* (dispatch.rs), and how an `eval` folds the scores of its scorers into   *)
(* cases, a summary and the verdict of its threshold (fanout.rs).          *)
(***************************************************************************)
EXTENDS JsonEquality, Integers, SequencesExt

CONSTANT ScoreUnit     \* the score 1.0; scores are counted in its parts

ASSUME ScoreUnitAssumption == ScoreUnit \in Nat \ {0}

MatcherNames == {
  "toBe", "toEqual", "toStrictEqual", "toBeTruthy", "toBeFalsy", "toBeNull",
  "toBeUndefined", "toBeDefined", "toBeNaN", "toBeTypeOf", "toBeInstanceOf",
  "toBeGreaterThan", "toBeGreaterThanOrEqual", "toBeLessThan",
  "toBeLessThanOrEqual", "toBeCloseTo", "toContain", "toContainEqual",
  "toHaveLength", "toHaveProperty", "toMatch", "toMatchObject", "toBeOneOf",
  "toThrow", "toSatisfy"}

-----------------------------------------------------------------------------
(* Equality *)

\* `===`: numbers by value, and no two containers are the same.
StrictEqual(a, b) == ~IsArr(a) /\ ~IsObj(a) /\ SameJson(a, b)

\* `Object.is`: as `===`, but 0 and -0 differ.
SameValue(a, b) ==
  /\ StrictEqual(a, b)
  /\ IsNum(a) /\ a[2] = 0 => (a = MinusZero) = (b = MinusZero)

\* Mutant of DeepEqual: containers are compared as `toBe` compares them.
ShallowEqual(a, b) == StrictEqual(a, b)

\* `toEqual`: structure and values.
DeepEqual(a, b) == SameJson(a, b)

-----------------------------------------------------------------------------
(* Properties of a value *)

JsTypeof(v) ==
  CASE v[1] = "bool" -> "boolean"
    [] v[1] = "num" -> "number"
    [] v[1] = "str" -> "string"
    [] OTHER -> "object"

InstanceOf(v, name) ==
  v[1] = (CASE name = "Array" -> "arr" [] name = "Object" -> "obj"
            [] name = "String" -> "str" [] name = "Number" -> "num"
            [] name = "Boolean" -> "bool" [] OTHER -> "none")

\* The inside of a bracket, quotes at either end dropped.
Unquoted(s) ==
  LET ink == {i \in 1..Len(s) : SubSeq(s, i, i) \notin {"'", "\""}}
  IN  IF ink = {} THEN "" ELSE SubSeq(s, Min(ink), Max(ink))

RECURSIVE SplitPath(_, _)

\* A key path "a.b[0]" as its segments; `key` is the segment being read.
SplitPath(s, key) ==
  LET flush == IF key = "" THEN <<>> ELSE <<key>>
      c == SubSeq(s, 1, 1)
      end == CHOOSE i \in 2..(Len(s) + 1) :
               /\ i = Len(s) + 1 \/ SubSeq(s, i, i) = "]"
               /\ \A j \in 2..(i - 1) : SubSeq(s, j, j) # "]"
  IN  CASE s = "" -> flush
        [] c = "." -> flush \o SplitPath(SubSeq(s, 2, Len(s)), "")
        [] c = "[" -> flush \o <<Unquoted(SubSeq(s, 2, end - 1))>>
                            \o SplitPath(SubSeq(s, end + 1, Len(s)), "")
        [] OTHER -> SplitPath(SubSeq(s, 2, Len(s)), key \o c)

Digits == <<"0", "1", "2">>

\* The segments of a path argument; a segment that is neither a key nor a
\* number addresses nothing.
Segments(path) ==
  CASE IsStr(path) -> SplitPath(path[2], "")
    [] IsArr(path) ->
         [i \in 1..Len(path[2]) |->
            CASE IsStr(path[2][i]) -> path[2][i][2]
              [] IsNum(path[2][i]) /\ path[2][i] \in {Num(n) : n \in 0..2} ->
                   Digits[path[2][i][2] + 1]
              [] OTHER -> "no segment"]
    [] OTHER -> <<"no segment">>

RECURSIVE Locate(_, _)

\* The value at the end of the segments, as a set of at most one value.
Locate(v, segments) ==
  IF segments = <<>> THEN {v}
  ELSE CASE IsObj(v) /\ Head(segments) \in DOMAIN v[2] ->
              Locate(v[2][Head(segments)], Tail(segments))
         [] IsArr(v) /\ \E i \in 1..Len(v[2]) : Head(segments) = Digits[i] ->
              Locate(v[2][CHOOSE i \in 1..Len(v[2]) : Head(segments) = Digits[i]],
                     Tail(segments))
         [] OTHER -> {}

HasProperty(actual, args) ==
  \E found \in Locate(actual, Segments(args[1])) :
    Len(args) > 1 => DeepEqual(found, args[2])

RECURSIVE MatchesObject(_, _)

\* `toMatchObject`: objects on the keys that are wanted, lists element by
\* element at equal length, all else by equality.
MatchesObject(actual, want) ==
  CASE IsObj(want) ->
         /\ IsObj(actual)
         /\ \A k \in DOMAIN want[2] :
              k \in DOMAIN actual[2] /\ MatchesObject(actual[2][k], want[2][k])
    [] IsArr(want) ->
         /\ IsArr(actual) /\ Len(actual[2]) = Len(want[2])
         /\ \A i \in 1..Len(want[2]) : MatchesObject(actual[2][i], want[2][i])
    [] OTHER -> DeepEqual(actual, want)

\* 10 ^ n
RECURSIVE TenTo(_)
TenTo(n) == IF n = 0 THEN 1 ELSE 10 * TenTo(n - 1)

\* |a - b| < 10^-digits / 2, two digits when no integer is given.
CloseTo(a, b, digits) ==
  LET apart == 2 * (IF a < b THEN b - a ELSE a - b)
  IN  IF digits >= 0 THEN apart * TenTo(digits) < 1 ELSE apart < TenTo(-digits)

-----------------------------------------------------------------------------
(* The engine *)

\* A comparison holds of two numbers only.
NumCmp(v, e, m) ==
  /\ IsNum(v) /\ IsNum(e)
  /\ CASE m = "toBeGreaterThan" -> v[2] > e[2]
       [] m = "toBeGreaterThanOrEqual" -> v[2] >= e[2]
       [] m = "toBeLessThan" -> v[2] < e[2]
       [] OTHER -> v[2] <= e[2]

\* The matchers that read no argument; every other fails without one.
NeedsNothing == {"toBeTruthy", "toBeFalsy", "toBeNull", "toBeUndefined", "toBeDefined",
                 "toBeNaN"}

\* A matcher without an argument: no JSON value is undefined or NaN.
HoldsAlone(v, m) ==
  CASE m = "toBeTruthy" -> IsTruthy(v)
    [] m = "toBeFalsy" -> ~IsTruthy(v)
    [] m = "toBeNull" -> v = Null
    [] m = "toBeDefined" -> TRUE
    [] OTHER -> FALSE

\* A matcher that compares the value with its first argument.
HoldsAgainst(v, m, args) ==
  LET e == args[1]
  IN  CASE m = "toBe" -> SameValue(v, e)
        [] m \in {"toEqual", "toStrictEqual"} -> DeepEqual(v, e)
        [] m = "toBeTypeOf" -> IsStr(e) /\ JsTypeof(v) = e[2]
        [] m = "toBeInstanceOf" -> IsStr(e) /\ InstanceOf(v, e[2])
        [] m \in {"toBeGreaterThan", "toBeGreaterThanOrEqual", "toBeLessThan",
                  "toBeLessThanOrEqual"} -> NumCmp(v, e, m)
        [] m = "toBeCloseTo" ->
             LET digits == IF Len(args) > 1 /\ IsNum(args[2]) /\ args[2][3] = "int"
                           THEN args[2][2] ELSE 2
             IN  IsNum(v) /\ IsNum(e) /\ CloseTo(v[2], e[2], digits)
        [] m = "toContain" ->
             \/ IsStr(v) /\ IsStr(e) /\ HasSubstring(v[2], e[2])
             \/ IsArr(v) /\ \E i \in 1..Len(v[2]) : StrictEqual(v[2][i], e)
        [] m = "toContainEqual" ->
             IsArr(v) /\ \E i \in 1..Len(v[2]) : DeepEqual(v[2][i], e)
        [] m = "toHaveLength" -> (IsStr(v) \/ IsArr(v)) /\ IsNum(e) /\ Len(v[2]) = e[2]
        [] m = "toHaveProperty" -> HasProperty(v, args)
        [] m = "toMatch" -> IsStr(v) /\ IsStr(e) /\ HasSubstring(v[2], e[2])
        [] m = "toMatchObject" -> MatchesObject(v, e)
        [] m = "toBeOneOf" -> IsArr(e) /\ \E i \in 1..Len(e[2]) : DeepEqual(v, e[2][i])
        [] OTHER -> IsTruthy(e)

\* `MatcherEngine::evaluate`: the base result, inverted by `not`.
Holds(v, m, args, not) ==
  (IF m \in NeedsNothing THEN HoldsAlone(v, m)
   ELSE Len(args) > 0 /\ HoldsAgainst(v, m, args)) # not

\* How an `expected` becomes arguments: a list spreads over the two matchers
\* with two of them, and is one argument for every other.
SplitArgs(m, expected) ==
  IF expected = <<"unbound">> THEN <<>>
  ELSE IF m \in {"toHaveProperty", "toBeCloseTo"} /\ IsArr(expected)
  THEN expected[2]
  ELSE <<expected>>

\* `assert`: all of its assertions hold, as [actual, matcher, expected, not].
AssertHolds(assertions) ==
  \A i \in 1..Len(assertions) :
    Holds(assertions[i].actual, assertions[i].matcher,
          SplitArgs(assertions[i].matcher, assertions[i].expected), assertions[i].not)

-----------------------------------------------------------------------------
(* Scores.  A score is a number of parts of ScoreUnit, and -1 that there   *)
(* is none: the judge or the command gives no number within [0, 1], the    *)
(* command fails, or the scorer lacks what its kind needs.                 *)

\* `score_one`: a matcher scores all or nothing, every other is asked.
ScoreOne(scorer) ==
  IF ~scorer.fit \/ scorer.kind = "unknown" THEN -1
  ELSE IF scorer.kind = "matcher"
  THEN IF AssertHolds(<<scorer.assertion>>) THEN ScoreUnit ELSE 0
  ELSE IF scorer.answer \in 0..ScoreUnit THEN scorer.answer ELSE -1

\* `score_case`: the weighted mean of the scorers, here times the sum of the
\* weights; a weight that is not positive or an answer that is no score fails
\* the case.
ScoreCase(scorers) ==
  LET score == [i \in 1..Len(scorers) |-> ScoreOne(scorers[i])]
      weight == [i \in 1..Len(scorers) |-> scorers[i].weight]
  IN  IF \E i \in 1..Len(scorers) : weight[i] <= 0 \/ score[i] < 0
      THEN -1
      ELSE SumOf([i \in 1..Len(scorers) |-> score[i] * weight[i]], 1..Len(scorers))

\* Mutant of Percentile: the rank is rounded down.
PercentileBelow(sorted, tenths) ==
  sorted[LET rank == (tenths * Len(sorted)) \div 10
         IN  IF rank < 1 THEN 1 ELSE rank]

\* Nearest rank: ceil(fraction * n), at least the first.
Percentile(sorted, tenths) ==
  sorted[LET rank == (tenths * Len(sorted) + 9) \div 10
         IN  IF rank < 1 THEN 1 ELSE rank]

\* `aggregate_summary` of case scores; the mean is kept as its sum, the pass
\* rate as the number that passed.  No case at all scores 0 everywhere.
Summary(scores, pass) ==
  LET sorted == SortSeq(scores, <)
      n == Len(scores)
  IN  [count |-> n,
       sum |-> SumOf(scores, 1..n),
       passed |-> Cardinality({i \in 1..n : scores[i] >= pass}),
       min |-> IF n = 0 THEN 0 ELSE sorted[1],
       p50 |-> IF n = 0 THEN 0 ELSE Percentile(sorted, 5),
       p90 |-> IF n = 0 THEN 0 ELSE Percentile(sorted, 9)]

\* The threshold: `metric >= least`, with means and rates compared as
\* fractions of the count, and 0 when there is none.
GateHolds(summary, metric, least) ==
  LET count == Max({1, summary.count})
  IN  CASE metric \in {"mean", "weightedMean"} -> summary.sum >= least * count
        [] metric = "passRate" -> summary.passed * ScoreUnit >= least * count
        [] OTHER -> summary[metric] >= least

-----------------------------------------------------------------------------
(* What the verdicts promise *)

\* The matchers of one value against one expected: they imply one another as
\* their names say, and `not` is their negation.
MatchersAgree(v, e) ==
  LET H(m, expected) == Holds(v, m, SplitArgs(m, expected), FALSE)
  IN  /\ \A m \in MatcherNames :
           Holds(v, m, SplitArgs(m, e), TRUE) = ~H(m, e)
      /\ H("toBe", e) => H("toEqual", e)
      /\ H("toEqual", e) => H("toMatchObject", e) /\ H("toStrictEqual", e)
      /\ H("toEqual", e) = H("toBeOneOf", Arr(<<e>>))
      /\ IsArr(v) /\ H("toContain", e) => H("toContainEqual", e)
      /\ H("toBeTruthy", e) # H("toBeFalsy", e)
      /\ H("toBeGreaterThan", e) => H("toBeGreaterThanOrEqual", e) /\ ~H("toBeLessThan", e)
      /\ H("toBeGreaterThanOrEqual", e) /\ H("toBeLessThanOrEqual", e) => H("toEqual", e)

\* A case is scored by what its assertions say, and lies between none and all.
CaseAgrees(scorers) ==
  LET score == ScoreCase(scorers)
      weight == SumOf([i \in 1..Len(scorers) |-> scorers[i].weight], 1..Len(scorers))
      said == [i \in 1..Len(scorers) |-> scorers[i].assertion]
      asserted == \A i \in 1..Len(scorers) : scorers[i].kind = "matcher"
  IN  score >= 0 =>
        /\ score <= weight * ScoreUnit
        /\ \A i \in 1..Len(scorers) : scorers[i].fit
        /\ asserted => (score = weight * ScoreUnit) = AssertHolds(said)

\* `s` is the nearest-rank percentile: enough of the scores are no larger, and
\* no smaller score has enough below it.
IsPercentile(s, scores, tenths) ==
  LET UpTo(x) == 10 * Cardinality({i \in 1..Len(scores) : scores[i] <= x})
      enough == tenths * Len(scores)
  IN  /\ s \in ToSet(scores) /\ UpTo(s) >= enough
      /\ \A x \in ToSet(scores) : x < s => UpTo(x) < enough

Metrics == {"mean", "weightedMean", "passRate", "min", "p50", "p90"}

\* The summary is of the scores, and its gate is no stricter than every case
\* meeting it, and no laxer than some case meeting it.
SummaryAgrees(scores, pass, least) ==
  LET sum == Summary(scores, pass)
  IN  IF scores = <<>> THEN \A metric \in Metrics : GateHolds(sum, metric, least) = (least = 0)
      ELSE
        /\ IsPercentile(sum.p50, scores, 5) /\ IsPercentile(sum.p90, scores, 9)
        /\ sum.min <= sum.p50 /\ sum.p50 <= sum.p90
        /\ sum.min * sum.count <= sum.sum /\ sum.sum <= sum.count * ScoreUnit
        /\ \A metric \in Metrics \ {"passRate"} :
             /\ (\A s \in ToSet(scores) : s >= least) => GateHolds(sum, metric, least)
             /\ GateHolds(sum, metric, least) => \E s \in ToSet(scores) : s >= least
        /\ (sum.passed = sum.count) => GateHolds(sum, "passRate", least)

=============================================================================
