----------------------------- MODULE JsonValues -----------------------------
(***************************************************************************)
(* The JSON values tmx computes with (serde_json::Value), as tagged        *)
(* tuples, and the reading of them that the expression evaluator           *)
(* (tmx-core/src/interpolate.rs) and the matchers (matcher.rs) both have,  *)
(* truthiness.  A number carries how it is written, because `as_u64`       *)
(* refuses the float 1.0 and `Object.is` tells 0 from -0, while every      *)
(* other reading goes through `as_f64`.  Strings are TLA+ strings, and     *)
(* sequences of characters to Len, SubSeq and \o, as TLC has them.         *)
(***************************************************************************)
EXTENDS Naturals, Sequences, FiniteSets, Functions

\* The empty text.
Blank == ""

Null == <<"null">>
Bool(b) == <<"bool", b>>
Num(n) == <<"num", n, "int">>
Float(n) == <<"num", n, "float">>
MinusZero == <<"num", 0, "-0">>
Str(s) == <<"str", s>>
Arr(s) == <<"arr", s>>
Obj(f) == <<"obj", f>>

IsStr(v) == v[1] = "str"
IsNum(v) == v[1] = "num"
IsArr(v) == v[1] = "arr"
IsObj(v) == v[1] = "obj"

\* JS truthiness: false, 0, "" and null are falsy, every container is truthy.
IsTruthy(v) ==
  /\ v # Null
  /\ v # Bool(FALSE)
  /\ IsNum(v) => v[2] # 0
  /\ IsStr(v) => v[2] # Blank

\* The sum of a function over a set.
SumOf(f, S) == FoldFunctionOnSet(+, 0, f, S)

\* `haystack.contains(needle)` of two strings.
HasSubstring(s, t) ==
  \E i \in 0..Len(s) :
    i + Len(t) <= Len(s) /\ SubSeq(s, i + 1, i + Len(t)) = t

=============================================================================
