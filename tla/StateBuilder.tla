---------------------------- MODULE StateBuilder ----------------------------
(***************************************************************************)
(* The state builder (StateBuilder of tmx-core/src/merge.rs): the pipeline *)
(* state, the bytes of its canonical JSON, kept up to date merge by merge  *)
(* and never recomputed, and the cap that a merge may not pass.            *)
(*                                                                         *)
(* A state is an object, here the function from its keys to their values.  *)
(* What a value is, how long its JSON is and how deep, is left open.       *)
(***************************************************************************)
EXTENDS FiniteSetsExt

CONSTANTS
  StateSizeMax,    \* STATE_SIZE_MAX_BYTES
  JsonDepthMax,    \* JSON_DEPTH_MAX
  Key,             \* the names tasks put their output under
  Value,           \* the JSON values that seeds hold and tasks put
  ValueLen(_),     \* the bytes of a value's canonical JSON
  KeyTokenLen(_),  \* the bytes of a key as a JSON string
  DepthOf(_),      \* the levels of a value: a scalar is one
  Seeds            \* what builders start from: a state and the cap that was asked

\* A state, of finitely many keys.
States == UNION {[keys -> Value] : keys \in {S \in SUBSET Key : IsFiniteSet(S)}}

ASSUME StateBuilderAssumption ==
  /\ StateSizeMax \in Nat /\ JsonDepthMax \in Nat \ {0}
  /\ \A value \in Value : ValueLen(value) \in Nat /\ DepthOf(value) \in Nat \ {0}
  /\ \A key \in Key : KeyTokenLen(key) \in Nat
  /\ Seeds \subseteq [state : States, cap : Nat]

VARIABLES
  builder,  \* [state, size, cap]
  refusal   \* the code of the last merge, "" when it was done

-----------------------------------------------------------------------------
(* Sizes and depths                                                        *)

Commas(n) == IF n = 0 THEN 0 ELSE n - 1

\* An array or an object: its parts, between brackets and with commas between.
EnclosedLen(parts) == 2 + Commas(Cardinality(DOMAIN parts)) + SumFunction(parts)

\* An array or an object is a level above the deepest of its parts.
LevelAbove(depths) == 1 + Max(depths \cup {0})

StateLen(state) ==
  EnclosedLen([key \in DOMAIN state |-> KeyTokenLen(key) + 1 + ValueLen(state[key])])

StateDepth(state) == LevelAbove({DepthOf(state[key]) : key \in DOMAIN state})

-----------------------------------------------------------------------------
(* The builder                                                             *)

\* `from_state_with_cap`: the one place where the size is measured.  A cap
\* only ever narrows the bound; the seed itself is not held to it.
FromState(state, cap) ==
  [state |-> state, size |-> StateLen(state),
   cap |-> IF cap < StateSizeMax THEN cap ELSE StateSizeMax]

\* `with_cap`: the empty state.
WithCap(cap) == FromState(<<>>, cap)

\* The output's root stands one level below the state's.
TooDeep(value) == 1 + DepthOf(value) > JsonDepthMax

\* Mutant of NewSize: a value that is replaced takes its key along.
SizeWithKey(b, key, value) ==
  IF key \in DOMAIN b.state
  THEN b.size - KeyTokenLen(key) - ValueLen(b.state[key]) + ValueLen(value)
  ELSE b.size + KeyTokenLen(key) + 1 + ValueLen(value)
       + (IF DOMAIN b.state = {} THEN 0 ELSE 1)

\* The size after a merge: the old value's bytes for the new one's, or one
\* more `"key":value` and, after the first, a comma.
NewSize(b, key, value) ==
  IF key \in DOMAIN b.state
  THEN b.size - ValueLen(b.state[key]) + ValueLen(value)
  ELSE b.size + KeyTokenLen(key) + 1 + ValueLen(value)
       + (IF DOMAIN b.state = {} THEN 0 ELSE 1)

\* The refusal that a merge meets: the depth is looked at first.
MergeRefusal(b, key, value) ==
  IF TooDeep(value) THEN "json_too_deep"
  ELSE IF NewSize(b, key, value) > b.cap THEN "state_cap_exceeded"
  ELSE ""

Put(state, key, value) ==
  [k \in DOMAIN state \cup {key} |-> IF k = key THEN value ELSE state[k]]

\* `merge`: `state[key] = value`, or a refusal that leaves the state alone.
Merge(key, value) ==
  /\ refusal' = MergeRefusal(builder, key, value)
  /\ builder' =
       IF refusal' # "" THEN builder
       ELSE [state |-> Put(builder.state, key, value),
             size |-> NewSize(builder, key, value), cap |-> builder.cap]

Started == {FromState(seed.state, seed.cap) : seed \in Seeds}

BuilderInit == builder \in Started /\ refusal = ""

BuilderNext == \E key \in Key, value \in Value : Merge(key, value)

BuilderSpec == BuilderInit /\ [][BuilderNext]_<<builder, refusal>>

-----------------------------------------------------------------------------
(* What the builder promises                                               *)

\* After any merges, done or refused (merge.rs, StateBuilder::merge), the size
\* kept is the size of the state, no value that can be replaced is longer, and
\* the state passes neither the cap nor the depth unless it was seeded so.
StateIsExact ==
  /\ builder.size = StateLen(builder.state)
  /\ \A key \in DOMAIN builder.state : ValueLen(builder.state[key]) <= builder.size
  /\ builder.size <= builder.cap \/ builder \in Started
  /\ builder.cap <= StateSizeMax
  /\ \/ StateDepth(builder.state) <= JsonDepthMax
     \/ \E seed \in Seeds : StateDepth(seed.state) >= StateDepth(builder.state)

=============================================================================
