---------------------------- MODULE JsonEquality ----------------------------
(***************************************************************************)
(* The equality of JSON values that the expression evaluator               *)
(* (tmx-core/src/interpolate.rs) and the matchers (matcher.rs) share.      *)
(***************************************************************************)
EXTENDS JsonValues

\* serde_json's `==` of two values, numbers taken by their value (as_f64).
RECURSIVE SameJson(_, _)
SameJson(a, b) ==
  /\ a[1] = b[1]
  /\ CASE IsNum(a) -> a[2] = b[2]
       [] IsArr(a) -> /\ Len(a[2]) = Len(b[2])
                      /\ \A i \in 1..Len(a[2]) : SameJson(a[2][i], b[2][i])
       [] IsObj(a) -> /\ Cardinality(DOMAIN a[2]) = Cardinality(DOMAIN b[2])
                      /\ \A k \in DOMAIN a[2] :
                           k \in DOMAIN b[2] /\ SameJson(a[2][k], b[2][k])
       [] OTHER -> a = b

=============================================================================
