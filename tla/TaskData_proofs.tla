--------------------------- MODULE TaskData_proofs ---------------------------
(***************************************************************************)
(* The data of a run, for any values: the size that merges keep up to date *)
(* is the size of the state (StateBuilder), what flags, variables and      *)
(* files ask of a run is what it does (RunSettings), and no secret is      *)
(* resolved that cannot be masked (SecretBook).                            *)
(***************************************************************************)
EXTENDS StateBuilder, RunSettings, SecretBook, SequenceTheorems, FiniteSetTheorems,
        WellFoundedInduction, TLAPS

-----------------------------------------------------------------------------
(* Induction over finite sets and over numbers                             *)

\* What holds of a finite set when it holds of all that it strictly includes
\* holds of every subset of D.
LEMMA SubsetInduction ==
  ASSUME NEW D, IsFiniteSet(D), NEW Good,
         \A S \in SUBSET D : (\A T \in SUBSET S : T # S => T \in Good) => S \in Good
  PROVE  SUBSET D \subseteq Good
<1> DEFINE Bad == (SUBSET D) \ Good
<1>1. SUFFICES ASSUME Bad # {} PROVE FALSE
  OBVIOUS
<1>2. Bad \subseteq FiniteSubsetsOf(D)
  <2>1. \A S \in SUBSET D : IsFiniteSet(S)
    BY FS_Subset
  <2>2. QED
    BY <2>1, Zenon DEF FiniteSubsetsOf
<1>3. PICK S \in Bad : \A T \in Bad : <<T, S>> \notin StrictSubsetOrdering(D)
  <2> HIDE DEF Bad
  <2>1. QED
    BY <1>1, <1>2, WFMin, FS_StrictSubsetOrderingWellFounded
<1>4. ASSUME NEW T \in SUBSET S, T # S PROVE T \in Good
  <2>1. <<T, S>> \in (SUBSET D) \X (SUBSET D) /\ T \subseteq S
    OBVIOUS
  <2>2. <<T, S>> \in StrictSubsetOrdering(D)
    BY <2>1, <1>4, Zenon DEF StrictSubsetOrdering
  <2>3. QED
    BY <1>3, <2>1, <2>2
<1>5. QED
  BY <1>3, <1>4

\* A set with zero and the successor of each number in it has them all.
LEMMA NatInductionOnSets ==
  ASSUME NEW S, 0 \in S, \A n \in Nat : n \in S => n + 1 \in S
  PROVE  Nat \subseteq S
<1>1. SUFFICES ASSUME Nat \ S # {} PROVE FALSE
  OBVIOUS
<1>2. PICK m \in Nat \ S :
        \A n \in Nat \ S : <<n, m>> \notin {ss \in Nat \X Nat : ss[1] < ss[2]}
  BY <1>1, NatLessThanWellFounded, WFMin, Zenon DEF OpToRel
<1>3. \A n \in Nat \ S : ~ (n < m)
  <2>1. \A n \in Nat \ S : <<n, m>> \in Nat \X Nat
    OBVIOUS
  <2>2. QED
    BY <1>2, <2>1
<1>4. m - 1 \in Nat /\ m - 1 \in S
  BY <1>2, <1>3
<1>5. QED
  BY <1>2, <1>4

-----------------------------------------------------------------------------
(* Sums                                                                    *)

\* SumFunction takes the members of a set out one by one, in an order of its
\* own: what it adds up to over the set s, from what it does over smaller ones.
Picked(s) == CHOOSE x \in s : TRUE
After(f, sum, s) == IF s = {} THEN 0 ELSE f[Picked(s)] + sum[s \ {Picked(s)}]
Sums(f, sum) == sum = [s \in SUBSET (DOMAIN f) |-> After(f, sum, s)]

LEMMA SumFunctionIsChosen ==
  ASSUME NEW f
  PROVE  SumFunction(f) = (CHOOSE sum : Sums(f, sum))[DOMAIN f]
BY Zenon DEF SumFunction, SumFunctionOnSet, FoldFunctionOnSet, MapThenFoldSet,
             Sums, After, Picked

LEMMA PickedIsIn == \A s : s # {} => Picked(s) \in s
BY DEF Picked

\* There are such sums, over the sets of up to n members for every n.
LEMMA SumsExist ==
  ASSUME NEW f, IsFiniteSet(DOMAIN f)
  PROVE  \E sum : Sums(f, sum)
<1> DEFINE D == DOMAIN f
           UpTo(n, sum) == /\ sum = [s \in SUBSET D |-> sum[s]]
                           /\ \A s \in SUBSET D :
                                Cardinality(s) <= n => sum[s] = After(f, sum, s)
           Reached == {n \in Nat : \E sum : UpTo(n, sum)}
<1>1. \A s \in SUBSET D : IsFiniteSet(s) /\ Cardinality(s) \in Nat
  BY FS_Subset, FS_CardinalityType
<1>2. \A s \in SUBSET D : s # {} =>
        /\ s \ {Picked(s)} \in SUBSET D
        /\ Cardinality(s \ {Picked(s)}) = Cardinality(s) - 1
  BY <1>1, FS_RemoveElement, PickedIsIn
<1>3. 0 \in Reached
  <2>1. UpTo(0, [s \in SUBSET D |-> 0])
    <3>1. \A s \in SUBSET D : Cardinality(s) <= 0 => s = {}
      BY <1>1, FS_EmptySet
    <3>2. QED
      BY <3>1 DEF After
  <2>2. QED
    BY <2>1
<1>4. ASSUME NEW n \in Nat, n \in Reached PROVE n + 1 \in Reached
  <2>1. PICK sum : UpTo(n, sum)
    BY <1>4
  <2>2. PICK next : next = [s \in SUBSET D |-> IF Cardinality(s) <= n THEN sum[s]
                                                ELSE After(f, sum, s)]
    OBVIOUS
  <2>3. ASSUME NEW s \in SUBSET D, Cardinality(s) <= n + 1
        PROVE  next[s] = After(f, next, s)
    <3>1. next[s] = After(f, sum, s)
      BY <2>1, <2>2
    <3>2. CASE s = {}
      BY <3>1, <3>2 DEF After
    <3>3. CASE s # {}
      <4>1. next[s \ {Picked(s)}] = sum[s \ {Picked(s)}]
        BY <1>1, <1>2, <2>2, <2>3, <3>3
      <4>2. QED
        BY <3>1, <4>1 DEF After
    <3>4. QED
      BY <3>2, <3>3
  <2>4. UpTo(n + 1, next)
    BY <2>2, <2>3
  <2>5. QED
    <3> HIDE DEF UpTo
    <3>1. QED
      BY <2>4
<1>5. Nat \subseteq Reached
  <2> HIDE DEF Reached
  <2>1. QED
    BY <1>3, <1>4, NatInductionOnSets
<1>6. PICK sum : UpTo(Cardinality(D), sum)
  BY <1>1, <1>5
<1>7. \A s \in SUBSET D : Cardinality(s) <= Cardinality(D)
  BY FS_Subset
<1>8. QED
  BY <1>6, <1>7 DEF Sums

\* The sum of a function is one of them over all that the function has.
LEMMA SumIsASum ==
  ASSUME NEW f, IsFiniteSet(DOMAIN f)
  PROVE  \E sum : Sums(f, sum) /\ SumFunction(f) = sum[DOMAIN f]
BY SumsExist, SumFunctionIsChosen

LEMMA SumsOverSets ==
  ASSUME NEW f, NEW sum, Sums(f, sum)
  PROVE  \A s \in SUBSET (DOMAIN f) : sum[s] = After(f, sum, s)
<1>1. PICK g : g = [s \in SUBSET (DOMAIN f) |-> After(f, sum, s)]
  OBVIOUS
<1>2. sum = g
  BY <1>1 DEF Sums
<1>3. \A s \in SUBSET (DOMAIN f) : g[s] = After(f, sum, s)
  BY <1>1
<1>4. QED
  BY <1>2, <1>3

\* Sums of numbers are numbers.
LEMMA SumsType ==
  ASSUME NEW D, IsFiniteSet(D), NEW f \in [D -> Nat], NEW sum, Sums(f, sum)
  PROVE  \A s \in SUBSET D : sum[s] \in Nat
<1> DEFINE Good == {s \in SUBSET D : sum[s] \in Nat}
<1>1. ASSUME NEW s \in SUBSET D, \A t \in SUBSET s : t # s => t \in Good
      PROVE  s \in Good
  <2>1. sum[s] = After(f, sum, s)
    BY SumsOverSets
  <2>2. CASE s # {}
    <3>1. Picked(s) \in s /\ s \ {Picked(s)} \in Good
      BY <1>1, <2>2, PickedIsIn
    <3>2. QED
      BY <2>1, <2>2, <3>1 DEF After
  <2>3. CASE s = {}
    BY <2>1, <2>3 DEF After
  <2>4. QED
    BY <2>2, <2>3
<1>2. SUBSET D \subseteq Good
  <2> HIDE DEF Good
  <2>1. QED
    BY <1>1, SubsetInduction
<1>3. QED
  BY <1>2

\* Any member can be the one that is taken out first.
LEMMA TakeOut ==
  ASSUME NEW D, IsFiniteSet(D), NEW f \in [D -> Nat], NEW sum, Sums(f, sum)
  PROVE  \A s \in SUBSET D : \A k \in s : sum[s] = f[k] + sum[s \ {k}]
<1> DEFINE Good == {s \in SUBSET D : \A k \in s : sum[s] = f[k] + sum[s \ {k}]}
<1>0. \A s \in SUBSET D : sum[s] \in Nat /\ sum[s] = After(f, sum, s)
  BY SumsOverSets, SumsType
<1>1. ASSUME NEW s \in SUBSET D, \A t \in SUBSET s : t # s => t \in Good
      PROVE  s \in Good
  <2> SUFFICES ASSUME NEW k \in s PROVE sum[s] = f[k] + sum[s \ {k}]
    BY Zenon
  <2>1. PICK c \in s : c = Picked(s)
    BY PickedIsIn
  <2>2. sum[s] = f[c] + sum[s \ {c}]
    BY <1>0, <2>1 DEF After
  <2>3. CASE k # c
    <3>1. s \ {c} \in Good /\ k \in s \ {c}
      BY <1>1, <2>1, <2>3
    <3>2. sum[s \ {c}] = f[k] + sum[(s \ {c}) \ {k}]
      BY <3>1, Zenon
    <3>3. s \ {k} \in Good /\ c \in s \ {k}
      BY <1>1, <2>1, <2>3
    <3>4. sum[s \ {k}] = f[c] + sum[(s \ {k}) \ {c}]
      BY <3>3, Zenon
    <3>5. (s \ {c}) \ {k} = (s \ {k}) \ {c}
      OBVIOUS
    <3>6. f[c] \in Nat /\ f[k] \in Nat /\ sum[(s \ {k}) \ {c}] \in Nat
      BY <1>0
    <3>7. QED
      BY <2>2, <3>2, <3>4, <3>5, <3>6
  <2>4. QED
    BY <2>2, <2>3
<1>2. SUBSET D \subseteq Good
  <2> HIDE DEF Good
  <2>1. QED
    BY <1>1, SubsetInduction
<1>3. QED
  BY <1>2

\* Functions that agree on a set have the same sum over it.
LEMMA SumsAgree ==
  ASSUME NEW D, IsFiniteSet(D), NEW f, NEW g, NEW sumf, NEW sumg,
         Sums(f, sumf), Sums(g, sumg), D \subseteq DOMAIN f, D \subseteq DOMAIN g,
         \A k \in D : f[k] = g[k]
  PROVE  sumf[D] = sumg[D]
<1> DEFINE Good == {s \in SUBSET D : sumf[s] = sumg[s]}
<1>1. ASSUME NEW s \in SUBSET D, \A t \in SUBSET s : t # s => t \in Good
      PROVE  s \in Good
  <2>1. sumf[s] = After(f, sumf, s) /\ sumg[s] = After(g, sumg, s)
    BY SumsOverSets
  <2>2. CASE s # {}
    <3>1. Picked(s) \in s /\ s \ {Picked(s)} \in Good
      BY <1>1, <2>2, PickedIsIn
    <3>2. QED
      BY <2>1, <2>2, <3>1 DEF After
  <2>3. CASE s = {}
    BY <2>1, <2>3 DEF After
  <2>4. QED
    BY <2>2, <2>3
<1>2. SUBSET D \subseteq Good
  <2> HIDE DEF Good
  <2>1. QED
    BY <1>1, SubsetInduction
<1>3. QED
  BY <1>2

-----------------------------------------------------------------------------
(* The parts of a state                                                    *)

LEMMA Constants ==
  /\ StateSizeMax \in Nat /\ JsonDepthMax \in Nat \ {0}
  /\ \A value \in Value : ValueLen(value) \in Nat /\ DepthOf(value) \in Nat \ {0}
  /\ \A key \in Key : KeyTokenLen(key) \in Nat
  /\ \A seed \in Seeds : seed.state \in States /\ seed.cap \in Nat
BY StateBuilderAssumption

LEMMA StateType ==
  \A state : state \in States <=>
    /\ IsFiniteSet(DOMAIN state) /\ DOMAIN state \subseteq Key
    /\ state \in [DOMAIN state -> Value]
BY DEF States

\* The bytes of `"key":value`, for each key.
Members(state) == [key \in DOMAIN state |-> KeyTokenLen(key) + 1 + ValueLen(state[key])]

LEMMA MembersType ==
  ASSUME NEW state \in States
  PROVE  /\ IsFiniteSet(DOMAIN state)
         /\ DOMAIN Members(state) = DOMAIN state
         /\ Members(state) \in [DOMAIN state -> Nat]
         /\ \A key \in DOMAIN state :
              /\ Members(state)[key] = KeyTokenLen(key) + 1 + ValueLen(state[key])
              /\ key \in Key /\ state[key] \in Value
BY StateType, Constants DEF Members

LEMMA StateLenIs ==
  ASSUME NEW state \in States
  PROVE  /\ SumFunction(Members(state)) \in Nat
         /\ Cardinality(DOMAIN state) \in Nat
         /\ StateLen(state) =
              2 + Commas(Cardinality(DOMAIN state)) + SumFunction(Members(state))
<1>1. PICK sum : Sums(Members(state), sum) /\ SumFunction(Members(state)) = sum[DOMAIN state]
  BY MembersType, SumIsASum
<1>2. QED
  BY <1>1, MembersType, SumsType, FS_CardinalityType DEF StateLen, EnclosedLen, Members

\* What is put is a state, with one key more or one value changed.
LEMMA PutType ==
  ASSUME NEW state \in States, NEW key \in Key, NEW value \in Value
  PROVE  /\ Put(state, key, value) \in States
         /\ DOMAIN Put(state, key, value) = DOMAIN state \cup {key}
         /\ Put(state, key, value)[key] = value
         /\ \A k \in DOMAIN state \ {key} : Put(state, key, value)[k] = state[k]
<1> DEFINE put == Put(state, key, value)
<1>1. DOMAIN put = DOMAIN state \cup {key} /\ put \in [DOMAIN put -> Value]
  BY StateType DEF Put
<1>2. IsFiniteSet(DOMAIN state \cup {key})
  BY StateType, FS_AddElement
<1>3. put \in States
  BY <1>1, <1>2, StateType
<1>4. QED
  BY <1>1, <1>3 DEF Put

\* The sum with a key put is what it was without the key, and the new member.
LEMMA SumOfPut ==
  ASSUME NEW state \in States, NEW key \in Key, NEW value \in Value
  PROVE  LET new == KeyTokenLen(key) + 1 + ValueLen(value)
             sum == SumFunction(Members(Put(state, key, value)))
         IN  /\ key \notin DOMAIN state => sum = SumFunction(Members(state)) + new
             /\ key \in DOMAIN state =>
                  sum + (KeyTokenLen(key) + 1 + ValueLen(state[key]))
                    = SumFunction(Members(state)) + new
<1> DEFINE put == Put(state, key, value)
           new == KeyTokenLen(key) + 1 + ValueLen(value)
           D == DOMAIN state \ {key}
<1>1. put \in States /\ DOMAIN put = DOMAIN state \cup {key} /\ put[key] = value
  BY PutType
<1>2. PICK was : Sums(Members(state), was) /\ SumFunction(Members(state)) = was[DOMAIN state]
  BY MembersType, SumIsASum
<1>3. PICK is : Sums(Members(put), is) /\ SumFunction(Members(put)) = is[DOMAIN put]
  <2>1. IsFiniteSet(DOMAIN Members(put)) /\ DOMAIN Members(put) = DOMAIN put
    BY <1>1, MembersType
  <2>2. QED
    BY <2>1, SumIsASum
<1>4. is[DOMAIN put] = new + is[D]
  <2>1. IsFiniteSet(DOMAIN put) /\ Members(put) \in [DOMAIN put -> Nat]
        /\ Members(put)[key] = new
    BY <1>1, MembersType
  <2>2. key \in DOMAIN put /\ DOMAIN put \ {key} = D
    BY <1>1
  <2>3. QED
    BY <1>3, <2>1, <2>2, TakeOut
<1>5. is[D] = was[D] /\ is[D] \in Nat
  <2>1. /\ IsFiniteSet(D) /\ IsFiniteSet(DOMAIN put) /\ Members(put) \in [DOMAIN put -> Nat]
        /\ DOMAIN Members(put) = DOMAIN put /\ DOMAIN Members(state) = DOMAIN state
    BY <1>1, MembersType, FS_RemoveElement
  <2>2. \A k \in D : Members(put)[k] = Members(state)[k]
    <3> SUFFICES ASSUME NEW k \in D PROVE Members(put)[k] = Members(state)[k]
      OBVIOUS
    <3>1. k \in DOMAIN put /\ k \in DOMAIN state
      BY <1>1
    <3>2. put[k] = state[k]
      <4>1. \A j \in DOMAIN state \ {key} : Put(state, key, value)[j] = state[j]
        BY ONLY PutType, state \in States, key \in Key, value \in Value
      <4>2. QED
        BY <4>1
    <3>3. QED
      BY <1>1, <3>1, <3>2, MembersType
  <2>3. D \subseteq DOMAIN put /\ D \subseteq DOMAIN state
    BY <1>1
  <2>4. is[D] = was[D]
    BY <1>2, <1>3, <2>1, <2>2, <2>3, SumsAgree
  <2>5. QED
    BY <1>3, <2>1, <2>3, <2>4, SumsType
<1>6. CASE key \notin DOMAIN state
  <2>1. D = DOMAIN state
    BY <1>6
  <2>2. new \in Nat
    BY Constants
  <2>3. QED
    BY <1>2, <1>3, <1>4, <1>5, <1>6, <2>1, <2>2
<1>7. CASE key \in DOMAIN state
  <2>1. was[DOMAIN state] = (KeyTokenLen(key) + 1 + ValueLen(state[key])) + was[D]
    <3>1. /\ IsFiniteSet(DOMAIN state) /\ Members(state) \in [DOMAIN state -> Nat]
          /\ Members(state)[key] = KeyTokenLen(key) + 1 + ValueLen(state[key])
      BY <1>7, MembersType
    <3>2. was[DOMAIN state] = Members(state)[key] + was[DOMAIN state \ {key}]
      BY <1>2, <1>7, <3>1, TakeOut
    <3>3. QED
      BY <3>1, <3>2
  <2>2. new \in Nat /\ (KeyTokenLen(key) + 1 + ValueLen(state[key])) \in Nat
    BY <1>7, Constants, MembersType
  <2>3. QED
    BY <1>2, <1>3, <1>4, <1>5, <1>7, <2>1, <2>2
<1>8. QED
  BY <1>6, <1>7

\* The size that a merge computes is the size of what it puts.
LEMMA NewSizeIsExact ==
  ASSUME NEW state \in States, NEW b, b.state = state, b.size = StateLen(state),
         NEW key \in Key, NEW value \in Value
  PROVE  NewSize(b, key, value) = StateLen(Put(state, key, value))
<1>0. PICK put : put = Put(state, key, value)
  OBVIOUS
<1>1. /\ put \in States /\ DOMAIN put = DOMAIN state \cup {key}
      /\ IsFiniteSet(DOMAIN state)
  BY <1>0, PutType, StateType
<1>2. /\ StateLen(state) = 2 + Commas(Cardinality(DOMAIN state)) + SumFunction(Members(state))
      /\ SumFunction(Members(state)) \in Nat /\ Cardinality(DOMAIN state) \in Nat
  BY StateLenIs
<1>3. /\ StateLen(put) = 2 + Commas(Cardinality(DOMAIN put)) + SumFunction(Members(put))
      /\ SumFunction(Members(put)) \in Nat /\ Cardinality(DOMAIN put) \in Nat
  BY <1>1, StateLenIs
<1>4. KeyTokenLen(key) \in Nat /\ ValueLen(value) \in Nat
  BY Constants
<1>5. CASE key \notin DOMAIN state
  <2>1. SumFunction(Members(put)) =
          SumFunction(Members(state)) + (KeyTokenLen(key) + 1 + ValueLen(value))
    BY <1>0, <1>5, SumOfPut
  <2>2. Cardinality(DOMAIN put) = Cardinality(DOMAIN state) + 1
    BY <1>1, <1>5, FS_AddElement
  <2>3. Cardinality(DOMAIN state) = 0 <=> DOMAIN state = {}
    BY <1>1, FS_EmptySet
  <2>. PICK comma \in Nat : comma = IF DOMAIN state = {} THEN 0 ELSE 1
    OBVIOUS
  <2>4. Commas(Cardinality(DOMAIN put)) = Commas(Cardinality(DOMAIN state)) + comma
    BY <1>2, <2>2, <2>3 DEF Commas
  <2>5. NewSize(b, key, value) = b.size + KeyTokenLen(key) + 1 + ValueLen(value) + comma
    BY <1>5 DEF NewSize
  <2>6. Commas(Cardinality(DOMAIN state)) \in Nat
    BY <1>2 DEF Commas
  <2>7. b.size = 2 + Commas(Cardinality(DOMAIN state)) + SumFunction(Members(state))
    BY <1>2
  <2>8. StateLen(put) = 2 + (Commas(Cardinality(DOMAIN state)) + comma)
          + (SumFunction(Members(state)) + (KeyTokenLen(key) + 1 + ValueLen(value)))
    BY <1>3, <2>1, <2>4
  <2>9. NewSize(b, key, value) = StateLen(put)
    <3>1. PICK c \in Nat : c = Commas(Cardinality(DOMAIN state))
      BY <2>6
    <3>2. PICK t \in Nat : t = SumFunction(Members(state))
      BY <1>2
    <3>3. PICK k \in Nat : k = KeyTokenLen(key)
      BY <1>4
    <3>4. PICK v \in Nat : v = ValueLen(value)
      BY <1>4
    <3>5. NewSize(b, key, value) = (2 + c + t) + k + 1 + v + comma
      BY ONLY <2>5, <2>7, <3>1, <3>2, <3>3, <3>4
    <3>6. StateLen(put) = 2 + (c + comma) + (t + (k + 1 + v))
      BY ONLY <2>8, <3>1, <3>2, <3>3, <3>4
    <3>7. (2 + c + t) + k + 1 + v + comma = 2 + (c + comma) + (t + (k + 1 + v))
      BY ONLY c \in Nat, t \in Nat, k \in Nat, v \in Nat, comma \in Nat
    <3>8. QED
      BY ONLY <3>5, <3>6, <3>7
  <2>10. QED
    BY <1>0, <2>9
<1>6. CASE key \in DOMAIN state
  <2>1. SumFunction(Members(put)) + (KeyTokenLen(key) + 1 + ValueLen(state[key]))
          = SumFunction(Members(state)) + (KeyTokenLen(key) + 1 + ValueLen(value))
    BY <1>0, <1>6, SumOfPut
  <2>2. DOMAIN put = DOMAIN state
    BY <1>1, <1>6
  <2>3. NewSize(b, key, value) = b.size - ValueLen(state[key]) + ValueLen(value)
    BY <1>6 DEF NewSize
  <2>4. Commas(Cardinality(DOMAIN state)) \in Nat /\ ValueLen(state[key]) \in Nat
    BY <1>2, <1>6, MembersType, Constants DEF Commas
  <2>5. QED
    BY <1>0, <1>2, <1>3, <1>4, <2>1, <2>2, <2>3, <2>4
<1>7. QED
  BY <1>5, <1>6

-----------------------------------------------------------------------------
(* Levels                                                                  *)

\* A finite set of numbers with one has a greatest.
LEMMA MaxExists ==
  ASSUME NEW S \in SUBSET Nat, IsFiniteSet(S), S # {}
  PROVE  Max(S) \in S /\ \A n \in S : n <= Max(S)
<1> DEFINE Good == {T \in SUBSET S : T # {} => \E m \in T : \A n \in T : n <= m}
<1>1. ASSUME NEW T \in SUBSET S, \A U \in SUBSET T : U # T => U \in Good
      PROVE  T \in Good
  <2> SUFFICES ASSUME T # {} PROVE \E m \in T : \A n \in T : n <= m
    OBVIOUS
  <2>1. PICK k \in T : TRUE
    OBVIOUS
  <2>2. CASE T \ {k} = {}
    BY <2>1, <2>2
  <2>3. CASE T \ {k} # {}
    <3>0. T \ {k} \in Good
      BY <1>1, <2>1
    <3>1. PICK m \in T \ {k} : \A n \in T \ {k} : n <= m
      BY <2>3, <3>0
    <3>2. \A n \in T : n <= IF k <= m THEN m ELSE k
      BY <3>1
    <3>3. (IF k <= m THEN m ELSE k) \in T
      BY <3>1
    <3>4. QED
      BY <3>2, <3>3
  <2>4. QED
    BY <2>2, <2>3
<1>2. SUBSET S \subseteq Good
  <2> HIDE DEF Good
  <2>1. QED
    BY <1>1, SubsetInduction
<1>3. PICK m \in S : \A n \in S : m >= n
  BY <1>2
<1>4. Max(S) \in S /\ \A n \in S : Max(S) >= n
  BY <1>3, Zenon DEF Max
<1>5. QED
  BY <1>4

\* The levels of the values of a state.
LEMMA StateDepthIs ==
  ASSUME NEW state \in States
  PROVE  /\ StateDepth(state) \in Nat \ {0}
         /\ \A key \in DOMAIN state : 1 + DepthOf(state[key]) <= StateDepth(state)
         /\ \/ StateDepth(state) = 1
            \/ \E key \in DOMAIN state : StateDepth(state) = 1 + DepthOf(state[key])
<1>1. PICK depths : depths = {DepthOf(state[key]) : key \in DOMAIN state}
  OBVIOUS
<1>2. /\ \A key \in DOMAIN state : DepthOf(state[key]) \in Nat \ {0}
      /\ IsFiniteSet(DOMAIN state)
  BY MembersType, Constants
<1>3. IsFiniteSet(depths)
  <2>1. PICK f : f = [key \in DOMAIN state |-> DepthOf(state[key])]
    OBVIOUS
  <2>2. f \in Surjection(DOMAIN state, depths)
    BY <1>1, <2>1 DEF Surjection
  <2>3. QED
    BY <1>2, <2>2, FS_Surjection
<1>4. IsFiniteSet(depths \cup {0}) /\ depths \cup {0} \in SUBSET Nat
  BY <1>1, <1>2, <1>3, FS_AddElement
<1>5. /\ Max(depths \cup {0}) \in depths \cup {0}
      /\ \A n \in depths \cup {0} : n <= Max(depths \cup {0})
  BY <1>4, MaxExists
<1>6. StateDepth(state) = 1 + Max(depths \cup {0})
  BY <1>1 DEF StateDepth, LevelAbove
<1>7. PICK max \in Nat : /\ max \in depths \cup {0} /\ \A n \in depths : n <= max
                         /\ StateDepth(state) = 1 + max
  BY <1>4, <1>5, <1>6
<1>8. \A key \in DOMAIN state : 1 + DepthOf(state[key]) <= StateDepth(state)
  BY <1>1, <1>2, <1>7
<1>9. \/ StateDepth(state) = 1
      \/ \E key \in DOMAIN state : StateDepth(state) = 1 + DepthOf(state[key])
  BY <1>1, <1>7
<1>10. QED
  BY <1>7, <1>8, <1>9

\* What is put makes a state no deeper than it was or than what is put.
LEMMA DepthOfPut ==
  ASSUME NEW state \in States, NEW key \in Key, NEW value \in Value
  PROVE  \/ StateDepth(Put(state, key, value)) <= StateDepth(state)
         \/ StateDepth(Put(state, key, value)) <= 1 + DepthOf(value)
<1>1. PICK put : put = Put(state, key, value)
  OBVIOUS
<1>2. /\ put \in States /\ DOMAIN put = DOMAIN state \cup {key} /\ put[key] = value
      /\ \A k \in DOMAIN state \ {key} : put[k] = state[k]
  <2>1. /\ Put(state, key, value) \in States
        /\ DOMAIN Put(state, key, value) = DOMAIN state \cup {key}
        /\ Put(state, key, value)[key] = value
        /\ \A k \in DOMAIN state \ {key} : Put(state, key, value)[k] = state[k]
    BY ONLY PutType, state \in States, key \in Key, value \in Value
  <2>2. QED
    BY <1>1, <2>1
<1>3. /\ StateDepth(state) \in Nat \ {0}
      /\ \A k \in DOMAIN state : 1 + DepthOf(state[k]) <= StateDepth(state)
  BY StateDepthIs
<1>4. CASE StateDepth(put) = 1
  BY <1>1, <1>3, <1>4
<1>5. ASSUME NEW k \in DOMAIN put, StateDepth(put) = 1 + DepthOf(put[k])
      PROVE  StateDepth(put) <= StateDepth(state) \/ StateDepth(put) <= 1 + DepthOf(value)
  <2>1. CASE k = key
    <3>1. DepthOf(value) \in Nat
      BY Constants
    <3>2. QED
      BY <1>2, <1>5, <2>1, <3>1
  <2>2. CASE k # key
    <3>1. k \in DOMAIN state /\ put[k] = state[k]
      BY <1>2, <2>2
    <3>2. QED
      BY <1>3, <1>5, <3>1
  <2>3. QED
    BY <2>1, <2>2
<1>6. QED
  BY <1>1, <1>2, <1>4, <1>5, StateDepthIs

-----------------------------------------------------------------------------
(* The builder                                                             *)

BuilderTypeOK ==
  /\ builder \in [state : States, size : Nat, cap : Nat]
  /\ refusal \in {"", "json_too_deep", "state_cap_exceeded"}

IInv == BuilderTypeOK /\ StateIsExact

\* A state is at least as long as each of its values.
LEMMA ValuesFit ==
  ASSUME NEW state \in States
  PROVE  /\ StateLen(state) \in Nat
         /\ \A key \in DOMAIN state : ValueLen(state[key]) <= StateLen(state)
<1>1. /\ SumFunction(Members(state)) \in Nat /\ Cardinality(DOMAIN state) \in Nat
      /\ StateLen(state) =
           2 + Commas(Cardinality(DOMAIN state)) + SumFunction(Members(state))
  BY StateLenIs
<1>2. Commas(Cardinality(DOMAIN state)) \in Nat
  BY <1>1 DEF Commas
<1>3. /\ IsFiniteSet(DOMAIN state) /\ Members(state) \in [DOMAIN state -> Nat]
      /\ DOMAIN Members(state) = DOMAIN state
  BY MembersType
<1>4. PICK sum : Sums(Members(state), sum) /\ SumFunction(Members(state)) = sum[DOMAIN state]
  BY <1>3, SumIsASum
<1>5. ASSUME NEW key \in DOMAIN state PROVE ValueLen(state[key]) <= StateLen(state)
  <2>1. sum[DOMAIN state] = Members(state)[key] + sum[DOMAIN state \ {key}]
    BY <1>3, <1>4, TakeOut
  <2>2. sum[DOMAIN state \ {key}] \in Nat
    BY <1>3, <1>4, SumsType
  <2>3. /\ Members(state)[key] = KeyTokenLen(key) + 1 + ValueLen(state[key])
        /\ KeyTokenLen(key) \in Nat /\ ValueLen(state[key]) \in Nat
    BY MembersType, Constants
  <2>4. QED
    BY <1>1, <1>2, <1>4, <2>1, <2>2, <2>3
<1>6. QED
  BY <1>1, <1>2, <1>5

LEMMA InitIsExact == BuilderInit => IInv
<1> SUFFICES ASSUME BuilderInit PROVE IInv
  OBVIOUS
<1>1. PICK seed \in Seeds : builder = FromState(seed.state, seed.cap)
  BY DEF BuilderInit, Started
<1>2. seed.state \in States /\ seed.cap \in Nat /\ StateSizeMax \in Nat
  BY Constants
<1>3. /\ builder.state = seed.state /\ builder.size = StateLen(seed.state)
      /\ builder.cap \in Nat /\ builder.cap <= StateSizeMax
      /\ builder = [state |-> seed.state, size |-> StateLen(seed.state), cap |-> builder.cap]
  BY <1>1, <1>2 DEF FromState
<1>4. BuilderTypeOK
  BY <1>2, <1>3, ValuesFit DEF BuilderInit, BuilderTypeOK
<1>5. StateDepth(seed.state) >= StateDepth(builder.state)
  BY <1>2, <1>3, StateDepthIs
<1>6. StateIsExact
  BY <1>2, <1>3, <1>5, ValuesFit DEF BuilderInit, StateIsExact
<1>7. QED
  BY <1>4, <1>6 DEF IInv

LEMMA MergeIsExact ==
  ASSUME IInv, NEW key \in Key, NEW value \in Value, Merge(key, value)
  PROVE  IInv'
<1>1. CASE refusal' # ""
  <2>1. builder' = builder
    BY <1>1 DEF Merge
  <2>2. refusal' \in {"", "json_too_deep", "state_cap_exceeded"}
    BY DEF Merge, MergeRefusal
  <2>3. QED
    BY <2>1, <2>2 DEF IInv, BuilderTypeOK, StateIsExact
<1>2. CASE refusal' = ""
  <2>1. PICK state \in States : builder.state = state
    BY DEF IInv, BuilderTypeOK
  <2>2. PICK put \in States : put = Put(state, key, value)
    BY <2>1, PutType
  <2>3. NewSize(builder, key, value) = StateLen(put)
    BY <2>1, <2>2, NewSizeIsExact DEF IInv, StateIsExact
  <2>4. builder' = [state |-> put, size |-> StateLen(put), cap |-> builder.cap]
    BY <1>2, <2>1, <2>2, <2>3 DEF Merge
  <2>5. ~ TooDeep(value) /\ ~ (StateLen(put) > builder.cap)
    BY <1>2, <2>3 DEF Merge, MergeRefusal
  <2>6. /\ StateLen(put) \in Nat /\ builder.cap \in Nat
        /\ \A k \in DOMAIN put : ValueLen(put[k]) <= StateLen(put)
    BY ValuesFit DEF IInv, BuilderTypeOK
  <2>7. BuilderTypeOK'
    BY <1>2, <2>4, <2>6 DEF BuilderTypeOK
  <2>8. \/ StateDepth(put) <= JsonDepthMax
        \/ \E seed \in Seeds : StateDepth(seed.state) >= StateDepth(put)
    <3>1. /\ StateDepth(put) \in Nat /\ StateDepth(state) \in Nat /\ DepthOf(value) \in Nat
          /\ JsonDepthMax \in Nat
          /\ \A seed \in Seeds : StateDepth(seed.state) \in Nat
      BY Constants, StateDepthIs
    <3>2. StateDepth(put) <= StateDepth(state) \/ StateDepth(put) <= JsonDepthMax
      BY <2>2, <2>5, <3>1, DepthOfPut DEF TooDeep
    <3>3. \/ StateDepth(state) <= JsonDepthMax
          \/ \E seed \in Seeds : StateDepth(seed.state) >= StateDepth(state)
      BY <2>1 DEF IInv, StateIsExact
    <3>4. QED
      BY <3>1, <3>2, <3>3
  <2>9. /\ builder'.state = put /\ builder'.size = StateLen(put)
        /\ builder'.cap = builder.cap /\ builder.cap <= StateSizeMax
    BY <2>4 DEF IInv, StateIsExact
  <2>10. StateIsExact'
    BY <2>5, <2>6, <2>8, <2>9 DEF StateIsExact
  <2>11. QED
    BY <2>7, <2>10 DEF IInv
<1>3. QED
  BY <1>1, <1>2

\* Whatever is merged, by whichever seeds and caps, the size that the builder
\* keeps and never recomputes is the size of its state, and the state is
\* within its bounds (merge.rs, StateBuilder::merge).
THEOREM KeptSizeIsExact == BuilderSpec => []StateIsExact
<1>1. IInv /\ UNCHANGED <<builder, refusal>> => IInv'
  BY DEF IInv, BuilderTypeOK, StateIsExact
<1>2. IInv /\ [BuilderNext]_<<builder, refusal>> => IInv'
  BY <1>1, MergeIsExact DEF BuilderNext
<1>3. IInv => StateIsExact
  BY DEF IInv
<1>4. QED
  BY InitIsExact, <1>2, <1>3, PTL DEF BuilderSpec

-----------------------------------------------------------------------------
(* Folds                                                                   *)

\* A fold over the set D is a function on its subsets: one member is picked,
\* and a step made with it from what the rest comes to.
Picks(pick, D) == \A s \in SUBSET D : s # {} => pick[s] \in s
Folds(r, D, base, pick, step) ==
  \A s \in SUBSET D :
    r[s] = IF s = {} THEN base ELSE step[<<pick[s], r[s \ {pick[s]}]>>]

\* There is one, over the sets of up to n members for every n.
LEMMA FoldExists ==
  ASSUME NEW D, IsFiniteSet(D), NEW V, NEW base \in V, NEW pick, Picks(pick, D),
         NEW step \in [D \X V -> V]
  PROVE  \E r \in [SUBSET D -> V] : Folds(r, D, base, pick, step)
<1> DEFINE Goes(r, s) ==
             r[s] = IF s = {} THEN base ELSE step[<<pick[s], r[s \ {pick[s]}]>>]
           UpTo(n, r) == \A s \in SUBSET D : Cardinality(s) <= n => Goes(r, s)
           Reached == {n \in Nat : \E r \in [SUBSET D -> V] : UpTo(n, r)}
<1>1. \A s \in SUBSET D : IsFiniteSet(s) /\ Cardinality(s) \in Nat
  BY FS_Subset, FS_CardinalityType
<1>2. \A s \in SUBSET D : s # {} =>
        /\ pick[s] \in s /\ pick[s] \in D /\ s \ {pick[s]} \in SUBSET D
        /\ Cardinality(s \ {pick[s]}) = Cardinality(s) - 1
  BY <1>1, FS_RemoveElement DEF Picks
<1>3. 0 \in Reached
  <2>1. \A s \in SUBSET D : Cardinality(s) <= 0 => s = {}
    BY <1>1, FS_EmptySet
  <2>2. UpTo(0, [s \in SUBSET D |-> base])
    BY <2>1
  <2>3. [s \in SUBSET D |-> base] \in [SUBSET D -> V]
    OBVIOUS
  <2> HIDE DEF UpTo
  <2>4. QED
    BY <2>2, <2>3
<1>4. ASSUME NEW n \in Nat, n \in Reached PROVE n + 1 \in Reached
  <2>1. PICK r \in [SUBSET D -> V] : UpTo(n, r)
    BY <1>4
  <2>2. PICK next : next = [s \in SUBSET D |->
                              IF s = {} THEN base ELSE step[<<pick[s], r[s \ {pick[s]}]>>]]
    OBVIOUS
  <2>3. next \in [SUBSET D -> V]
    <3>1. \A s \in SUBSET D : s # {} => step[<<pick[s], r[s \ {pick[s]}]>>] \in V
      BY <1>2
    <3>2. QED
      BY <2>2, <3>1
  <2>4. ASSUME NEW s \in SUBSET D, Cardinality(s) <= n + 1
        PROVE  Goes(next, s)
    <3>1. CASE s = {}
      BY <2>2, <3>1
    <3>2. CASE s # {}
      <4>1. PICK t \in SUBSET D : t = s \ {pick[s]}
        BY <1>2, <3>2
      <4>2. Cardinality(t) <= n
        BY <1>1, <1>2, <2>4, <3>2, <4>1
      <4>3. r[t] = IF t = {} THEN base ELSE step[<<pick[t], r[t \ {pick[t]}]>>]
        BY <2>1, <4>2
      <4>4. next[t] = r[t]
        BY <2>2, <4>3
      <4>5. QED
        BY <2>2, <3>2, <4>1, <4>4
    <3>3. QED
      BY <3>1, <3>2
  <2>5. UpTo(n + 1, next)
    BY <2>4
  <2> HIDE DEF UpTo
  <2>6. QED
    BY <2>3, <2>5
<1>5. Nat \subseteq Reached
  <2> HIDE DEF Reached
  <2>1. QED
    BY <1>3, <1>4, NatInductionOnSets
<1>6. PICK r \in [SUBSET D -> V] : UpTo(Cardinality(D), r)
  BY <1>1, <1>5
<1>7. \A s \in SUBSET D : Cardinality(s) <= Cardinality(D)
  BY FS_Subset
<1>8. QED
  BY <1>6, <1>7 DEF Folds

\* A nonempty set of numbers has a least one, and a last one if it is bounded.
LEMMA MinIsLeast ==
  ASSUME NEW S \in SUBSET Nat, S # {}
  PROVE  Min(S) \in S /\ \A x \in S : Min(S) <= x
<1> DEFINE Good == {n \in Nat : n \notin S \/ \E m \in S : \A x \in S : m <= x}
           Below == {n \in Nat : \A k \in 0 .. n : k \in Good}
<1>1. ASSUME NEW n \in Nat, \A k \in Nat : k < n => k \in Good PROVE n \in Good
  <2>1. CASE \E k \in S : k < n
    BY <1>1, <2>1
  <2>2. CASE \A k \in S : n <= k
    BY <2>2
  <2>3. QED
    BY <2>1, <2>2
<1>2. Nat \subseteq Below
  <2>1. 0 \in Below
    BY <1>1
  <2>2. ASSUME NEW n \in Nat, n \in Below PROVE n + 1 \in Below
    <3>1. \A k \in Nat : k < n + 1 => k \in Good
      BY <2>2
    <3>2. n + 1 \in Good
      BY <1>1, <3>1
    <3>3. QED
      BY <3>1, <3>2
  <2> HIDE DEF Below
  <2>3. QED
    BY <2>1, <2>2, NatInductionOnSets
<1>3. \E m \in S : \A x \in S : m <= x
  <2>1. PICK k \in S : k \in Nat
    OBVIOUS
  <2>2. k \in Good
    BY <1>2, <2>1
  <2>3. QED
    BY <2>1, <2>2
<1>4. QED
  BY <1>3 DEF Min

LEMMA MaxIsLast ==
  ASSUME NEW n \in Nat, NEW S \in SUBSET (1 .. n), S # {}
  PROVE  Max(S) \in S /\ \A x \in S : x <= Max(S)
<1> DEFINE T == {n - x : x \in S}
<1>1. T \in SUBSET Nat /\ T # {}
  <2>1. \A x \in 1 .. n : n - x \in Nat
    OBVIOUS
  <2>2. QED
    BY <2>1
<1>2. Min(T) \in T /\ \A y \in T : Min(T) <= y
  <2> HIDE DEF T
  <2>1. QED
    BY <1>1, MinIsLeast
<1>3. PICK x \in S : Min(T) = n - x
  BY <1>2
<1>4. \A y \in S : y <= x
  <2>1. SUFFICES ASSUME NEW y \in S PROVE y <= x
    OBVIOUS
  <2>2. n - y \in T /\ y \in Nat /\ x \in Nat
    OBVIOUS
  <2>3. n - x <= n - y
    BY <1>2, <1>3, <2>2
  <2>4. QED
    BY <2>2, <2>3
<1>5. QED
  BY <1>4 DEF Max

\* A fold from the left picks the last member of a set of positions, and one
\* from the right the first.
Lasts(n) == [s \in SUBSET (1 .. n) |-> Max(s)]
Firsts(n) == [s \in SUBSET (1 .. n) |-> Min(s)]

LEMMA PicksLast == ASSUME NEW n \in Nat PROVE Picks(Lasts(n), 1 .. n)
BY MaxIsLast DEF Picks, Lasts

LEMMA PicksFirst == ASSUME NEW n \in Nat PROVE Picks(Firsts(n), 1 .. n)
<1>1. SUBSET (1 .. n) \subseteq SUBSET Nat
  OBVIOUS
<1>2. QED
  BY <1>1, MinIsLeast DEF Picks, Firsts

LEMMA LeftFoldExists ==
  ASSUME NEW n \in Nat, NEW V, NEW base \in V, NEW step \in [(1 .. n) \X V -> V]
  PROVE  \E r \in [SUBSET (1 .. n) -> V] : Folds(r, 1 .. n, base, Lasts(n), step)
<1>1. PICK D : D = 1 .. n
  OBVIOUS
<1>2. IsFiniteSet(D)
  BY <1>1, FS_Interval
<1>3. Picks(Lasts(n), D) /\ step \in [D \X V -> V]
  BY <1>1, PicksLast
<1>4. \E r \in [SUBSET D -> V] : Folds(r, D, base, Lasts(n), step)
  BY <1>2, <1>3, FoldExists
<1>5. QED
  BY <1>1, <1>4

LEMMA RightFoldExists ==
  ASSUME NEW n \in Nat, NEW V, NEW base \in V, NEW step \in [(1 .. n) \X V -> V]
  PROVE  \E r \in [SUBSET (1 .. n) -> V] : Folds(r, 1 .. n, base, Firsts(n), step)
<1>1. PICK D : D = 1 .. n
  OBVIOUS
<1>2. IsFiniteSet(D)
  BY <1>1, FS_Interval
<1>3. Picks(Firsts(n), D) /\ step \in [D \X V -> V]
  BY <1>1, PicksFirst
<1>4. \E r \in [SUBSET D -> V] : Folds(r, D, base, Firsts(n), step)
  BY <1>2, <1>3, FoldExists
<1>5. QED
  BY <1>1, <1>4

LEMMA UpToLast ==
  ASSUME NEW n \in Nat \ {0}
  PROVE  Max(1 .. n) = n /\ 1 .. n # {} /\ (1 .. n) \ {n} = 1 .. (n - 1)
<1>1. PICK S \in SUBSET (1 .. n) : S = 1 .. n
  OBVIOUS
<1>2. n \in S /\ S # {} /\ \A x \in S : x \in Nat /\ x <= n
  BY <1>1
<1>3. PICK x \in S : x = Max(S) /\ n <= x
  BY <1>2, MaxIsLast
<1>4. Max(S) = n
  <2>1. x = n
    BY <1>2, <1>3
  <2>2. QED
    BY <1>3, <2>1
<1>5. (1 .. n) \ {n} = 1 .. (n - 1)
  OBVIOUS
<1>6. QED
  BY <1>1, <1>2, <1>4, <1>5

LEMMA FromFirst ==
  ASSUME NEW n \in Nat, NEW m \in 1 .. n
  PROVE  Min(m .. n) = m /\ m .. n # {} /\ (m .. n) \ {m} = (m + 1) .. n
<1>1. PICK S \in SUBSET Nat : S = m .. n
  OBVIOUS
<1>2. m \in S /\ S # {} /\ \A x \in S : m <= x
  BY <1>1
<1>3. PICK x \in S : x = Min(S) /\ x <= m
  BY <1>2, MinIsLeast
<1>4. Min(S) = m
  <2>1. x = m
    BY <1>2, <1>3
  <2>2. QED
    BY <1>3, <2>1
<1>5. (m .. n) \ {m} = (m + 1) .. n
  OBVIOUS
<1>6. QED
  BY <1>1, <1>2, <1>4, <1>5

-----------------------------------------------------------------------------
(* Layers                                                                  *)

LEMMA UponIs ==
  ASSUME NEW over, NEW base
  PROVE  /\ DOMAIN Upon(over, base) = DOMAIN over \cup DOMAIN base
         /\ \A k \in DOMAIN over \cup DOMAIN base :
              Upon(over, base)[k] = IF k \in DOMAIN over THEN over[k] ELSE base[k]
BY DEF Upon

Single(p) == [k \in {p[1]} |-> p[2]]

InsertedBy(base, pairs, r) ==
  r = [s \in SUBSET (DOMAIN pairs) |->
         IF s = {} THEN base ELSE Upon(Single(pairs[Max(s)]), r[s \ {Max(s)}])]

LEMMA InsertedIsChosen ==
  ASSUME NEW base, NEW pairs
  PROVE  Inserted(base, pairs) = (CHOOSE r : InsertedBy(base, pairs, r))[DOMAIN pairs]
BY Zenon DEF Inserted, FoldLeft, MapThenFoldSet, InsertedBy, Single

\* The maps over the keys K with values in W.
Maps(K, W) == UNION {[keys -> W] : keys \in SUBSET K}

LEMMA UponType ==
  ASSUME NEW K, NEW W, NEW over \in Maps(K, W), NEW base \in Maps(K, W)
  PROVE  Upon(over, base) \in Maps(K, W)
<1>1. /\ DOMAIN over \subseteq K /\ over \in [DOMAIN over -> W]
      /\ DOMAIN base \subseteq K /\ base \in [DOMAIN base -> W]
  BY DEF Maps
<1>2. Upon(over, base) \in [DOMAIN over \cup DOMAIN base -> W]
  BY <1>1 DEF Upon
<1>3. QED
  BY <1>1, <1>2 DEF Maps

LEMMA MapsMember ==
  ASSUME NEW K, NEW W, NEW f, IsMap(f), DOMAIN f \subseteq K, \A k \in DOMAIN f : f[k] \in W
  PROVE  f \in Maps(K, W)
<1>1. f \in [DOMAIN f -> W]
  BY DEF IsMap
<1>2. QED
  BY <1>1 DEF Maps

\* What is inserted one after the other, after each of the pairs.
LEMMA InsertedGoes ==
  ASSUME NEW base, IsMap(base), NEW n \in Nat, NEW pairs, DOMAIN pairs = 1 .. n
  PROVE  \E h : /\ h[0] = base /\ Inserted(base, pairs) = h[n]
                /\ \A i \in 1 .. n : h[i] = Upon(Single(pairs[i]), h[i - 1])
<1> DEFINE K == DOMAIN base \cup {pairs[i][1] : i \in 1 .. n}
           W == {base[k] : k \in DOMAIN base} \cup {pairs[i][2] : i \in 1 .. n}
           V == Maps(K, W)
           step == [x \in (1 .. n) \X V |-> Upon(Single(pairs[x[1]]), x[2])]
<1>1. base \in V
  BY MapsMember
<1>2. \A i \in 1 .. n : Single(pairs[i]) \in V
  <2>1. SUFFICES ASSUME NEW i \in 1 .. n PROVE Single(pairs[i]) \in V
    OBVIOUS
  <2>2. Single(pairs[i]) \in [{pairs[i][1]} -> W] /\ {pairs[i][1]} \in SUBSET K
    BY DEF Single
  <2>3. QED
    BY <2>2 DEF Maps
<1>3. step \in [(1 .. n) \X V -> V]
  <2> HIDE DEF K, W
  <2>1. QED
    BY <1>2, UponType
<1>4. PICK r \in [SUBSET (1 .. n) -> V] : Folds(r, 1 .. n, base, Lasts(n), step)
  <2> HIDE DEF V, step
  <2>1. QED
    BY <1>1, <1>3, LeftFoldExists
<1>5. InsertedBy(base, pairs, r)
  <2>1. SUFFICES ASSUME NEW s \in SUBSET (1 .. n)
                 PROVE  r[s] = IF s = {} THEN base
                               ELSE Upon(Single(pairs[Max(s)]), r[s \ {Max(s)}])
    BY DEF InsertedBy
  <2>2. r[s] = IF s = {} THEN base ELSE step[<<Max(s), r[s \ {Max(s)}]>>]
    <3> HIDE DEF step, V
    <3>1. QED
      BY <1>4 DEF Folds, Lasts
  <2>3. s # {} => Max(s) \in 1 .. n /\ r[s \ {Max(s)}] \in V
    <3> HIDE DEF step, V
    <3>1. QED
      BY <1>4, MaxIsLast
  <2>4. QED
    <3> HIDE DEF V
    <3>1. QED
      BY <2>2, <2>3
<1>6. PICK q : InsertedBy(base, pairs, q) /\ Inserted(base, pairs) = q[1 .. n]
  BY <1>5, InsertedIsChosen
<1>7. \A s \in SUBSET (1 .. n) :
        q[s] = IF s = {} THEN base ELSE Upon(Single(pairs[Max(s)]), q[s \ {Max(s)}])
  BY <1>6 DEF InsertedBy
<1>8. PICK h : h = [i \in 0 .. n |-> q[1 .. i]]
  OBVIOUS
<1>9. h[0] = base /\ Inserted(base, pairs) = h[n]
  <2>1. 1 .. 0 = {}
    OBVIOUS
  <2>2. QED
    <3>1. h[0] = q[1 .. 0] /\ h[n] = q[1 .. n]
      BY <1>8
    <3>2. q[1 .. 0] = base
      BY <1>7, <2>1
    <3>3. QED
      BY <1>6, <3>1, <3>2
<1>10. ASSUME NEW i \in 1 .. n PROVE h[i] = Upon(Single(pairs[i]), h[i - 1])
  <2>1. i \in Nat \ {0}
    OBVIOUS
  <2>2. PICK s \in SUBSET (1 .. n) : s = 1 .. i
    OBVIOUS
  <2>3. Max(s) = i /\ s # {} /\ s \ {i} = 1 .. (i - 1)
    BY <2>1, <2>2, UpToLast
  <2>4. q[s] = Upon(Single(pairs[i]), q[1 .. (i - 1)])
    BY <1>7, <2>3
  <2>5. h[i] = q[s] /\ h[i - 1] = q[1 .. (i - 1)]
    BY <1>8, <2>2
  <2>6. QED
    BY <2>4, <2>5
<1>11. QED
  BY <1>9, <1>10

\* The last pair of a key says what is inserted under it.
Keys(pairs, m) == {pairs[i][1] : i \in 1 .. m}
Places(pairs, m, k) == {i \in 1 .. m : pairs[i][1] = k}

LEMMA InsertedIs ==
  ASSUME NEW base, IsMap(base), NEW n \in Nat, NEW pairs, DOMAIN pairs = 1 .. n
  PROVE  /\ IsMap(Inserted(base, pairs))
         /\ DOMAIN Inserted(base, pairs) = DOMAIN base \cup Keys(pairs, n)
         /\ \A k \in DOMAIN Inserted(base, pairs) :
              Inserted(base, pairs)[k] =
                IF Places(pairs, n, k) = {} THEN base[k] ELSE pairs[Max(Places(pairs, n, k))][2]
<1> DEFINE Of(m, k) == Places(pairs, m, k)
<1>1. PICK h : /\ h[0] = base /\ Inserted(base, pairs) = h[n]
               /\ \A i \in 1 .. n : h[i] = Upon(Single(pairs[i]), h[i - 1])
  BY InsertedGoes
<1> DEFINE Right(m) ==
             /\ IsMap(h[m])
             /\ DOMAIN h[m] = DOMAIN base \cup Keys(pairs, m)
             /\ \A k \in DOMAIN h[m] :
                  h[m][k] = IF Of(m, k) = {} THEN base[k] ELSE pairs[Max(Of(m, k))][2]
           Good == {m \in Nat : m <= n => Right(m)}
<1>2. 0 \in Good
  BY <1>1 DEF Places, Keys
<1>3. ASSUME NEW m \in Nat, m \in Good PROVE m + 1 \in Good
  <2> SUFFICES ASSUME m + 1 <= n PROVE Right(m + 1)
    <3> HIDE DEF Right
    <3>1. QED
      OBVIOUS
  <2>1. Right(m) /\ m + 1 \in 1 .. n
    <3>1. m \in Nat /\ m <= n /\ m + 1 \in 1 .. n
      OBVIOUS
    <3>2. QED
      BY <1>3, <3>1, Zenon
  <2>2. PICK p : p = pairs[m + 1]
    OBVIOUS
  <2>3. h[m + 1] = Upon(Single(p), h[m])
    BY <1>1, <2>1, <2>2
  <2>4. DOMAIN Single(p) = {p[1]} /\ Single(p)[p[1]] = p[2]
    BY DEF Single
  <2>5. IsMap(h[m + 1]) /\ DOMAIN h[m + 1] = {p[1]} \cup DOMAIN h[m]
    BY <2>3, <2>4 DEF Upon, IsMap
  <2>6. Keys(pairs, m + 1) = {p[1]} \cup Keys(pairs, m)
    BY <2>2 DEF Keys
  <2>7. ASSUME NEW k \in DOMAIN h[m + 1]
        PROVE  h[m + 1][k] =
                 IF Of(m + 1, k) = {} THEN base[k] ELSE pairs[Max(Of(m + 1, k))][2]
    <3>1. CASE k = p[1]
      <4>1. m + 1 \in Of(m + 1, k) /\ Of(m + 1, k) \in SUBSET (1 .. (m + 1))
        BY <2>2, <3>1 DEF Places
      <4>2. Max(Of(m + 1, k)) \in 1 .. (m + 1) /\ m + 1 <= Max(Of(m + 1, k))
        <5> HIDE DEF Of
        <5>1. QED
          BY <4>1, MaxIsLast
      <4>3. Max(Of(m + 1, k)) = m + 1
        BY <4>2
      <4>4. QED
        BY <2>2, <2>3, <2>4, <3>1, <4>1, <4>3 DEF Upon
    <3>2. CASE k # p[1]
      <4>1. Of(m + 1, k) = Of(m, k)
        BY <2>2, <3>2 DEF Places
      <4>2. k \in DOMAIN h[m] /\ h[m + 1][k] = h[m][k]
        BY <2>3, <2>4, <2>5, <3>2 DEF Upon
      <4>3. QED
        BY <2>1, <4>1, <4>2
    <3>3. QED
      BY <3>1, <3>2
  <2>8. QED
    BY <2>1, <2>5, <2>6, <2>7
<1>4. Nat \subseteq Good
  <2> HIDE DEF Good
  <2>1. QED
    BY <1>2, <1>3, NatInductionOnSets
<1>5. Right(n)
  <2>1. n \in Nat /\ n <= n
    OBVIOUS
  <2>2. QED
    BY <1>4, <2>1, Zenon
<1>6. QED
  BY <1>1, <1>5

-----------------------------------------------------------------------------
(* Contexts                                                                *)

\* What a map says of a key, as a set of at most one value.
Under(f, k) == IF k \in DOMAIN f THEN {f[k]} ELSE {}

\* A section of a context is united key by key.
LEMMA CombinedIs ==
  ASSUME NEW inherited, NEW local, NEW replace \in BOOLEAN, NEW wins \in BOOLEAN, NEW k
  PROVE  Under(CombineSection(inherited, local, replace, wins), k) =
           IF (replace /\ DOMAIN local # {}) \/ Under(inherited, k) = {} THEN Under(local, k)
           ELSE IF Under(local, k) = {} \/ wins \/ replace THEN Under(inherited, k)
           ELSE Under(local, k)
<1>1. CASE replace
  BY <1>1 DEF CombineSection, Under
<1>2. CASE ~replace
  <2>1. CASE wins
    BY <1>2, <2>1 DEF CombineSection, Under, Upon
  <2>2. CASE ~wins
    BY <1>2, <2>2 DEF CombineSection, Under, Upon
  <2>3. QED
    BY <2>1, <2>2
<1>3. QED
  BY <1>1, <1>2

LEMMA InsertedUnder ==
  ASSUME NEW base, IsMap(base), NEW n \in Nat, NEW pairs, DOMAIN pairs = 1 .. n, NEW k
  PROVE  Under(Inserted(base, pairs), k) =
           IF Places(pairs, n, k) = {} THEN Under(base, k)
           ELSE {pairs[Max(Places(pairs, n, k))][2]}
<1>1. PICK f : f = Inserted(base, pairs)
  OBVIOUS
<1>2. /\ DOMAIN f = DOMAIN base \cup Keys(pairs, n)
      /\ k \in DOMAIN f =>
           f[k] = IF Places(pairs, n, k) = {} THEN base[k] ELSE pairs[Max(Places(pairs, n, k))][2]
  BY <1>1, InsertedIs
<1>3. k \in Keys(pairs, n) <=> Places(pairs, n, k) # {}
  BY DEF Keys, Places
<1>4. QED
  BY <1>1, <1>2, <1>3 DEF Under

\* A task's context holds what its own says and what it inherits (runner.rs,
\* resolve_context; run.rs, apply_env_overrides), for any maps of any size.
THEOREM ContextIsAsAsked ==
  ASSUME NEW own, IsContext(own), NEW overrides, overrides \in Seq(ToSet(overrides)),
         NEW task, IsContext(task.local), task.context \in {"none", "inline", "reference"}
  PROVE  ContextAsked(own, overrides, task)
<1> DEFINE env == ApplyEnvOverrides(own.env, overrides)
           outcome == ResolveContext([own EXCEPT !.env = env[2]], task)
           Overriding(k) == {i \in 1..Len(overrides) : overrides[i][1] = k}
           Inherited(part, k) ==
             IF part = "env" /\ Overriding(k) # {}
             THEN {overrides[Max(Overriding(k))][2]}
             ELSE IF k \in DOMAIN own[part] THEN {own[part][k]} ELSE {}
           Local(part, k) ==
             IF task.context = "inline" /\ k \in DOMAIN task.local[part]
             THEN {task.local[part][k]} ELSE {}
           Alone(part) == /\ task.context = "inline" /\ task.strategy = "replace"
                          /\ DOMAIN task.local[part] # {}
           Seen(part, k) ==
             IF Alone(part) \/ Inherited(part, k) = {} THEN Local(part, k)
             ELSE IF Local(part, k) = {} \/ task.precedence = "inherited" THEN Inherited(part, k)
             ELSE Local(part, k)
           names(part) == DOMAIN own[part] \cup DOMAIN task.local[part]
                          \cup (IF part = "env" THEN {overrides[i][1] : i \in 1..Len(overrides)} ELSE {})
<1>1. SUFFICES ASSUME None \notin ToSet(overrides), IsFine(outcome), NEW part \in {"env", "secrets"}
               PROVE  /\ DOMAIN outcome[2][part] = {k \in names(part) : Seen(part, k) # {}}
                      /\ \A k \in DOMAIN outcome[2][part] : {outcome[2][part][k]} = Seen(part, k)
  BY Zenon DEF ContextAsked
<1>2. PICK n \in Nat : n = Len(overrides) /\ DOMAIN overrides = 1 .. n
  OBVIOUS
<1>3. PICK A : A = [own EXCEPT !.env = env[2]]
  OBVIOUS
<1>4. A.env = Inserted(own.env, overrides) /\ A.secrets = own.secrets
  <2>1. \A i \in 1 .. Len(overrides) : overrides[i] # None
    BY <1>1, <1>2 DEF ToSet
  <2>2. env = Fine(Inserted(own.env, overrides))
    BY <2>1 DEF ApplyEnvOverrides
  <2>3. env[2] = Inserted(own.env, overrides)
    BY <2>2 DEF Fine
  <2>4. own = [env |-> own.env, secrets |-> own.secrets]
    BY DEF IsContext
  <2> HIDE DEF env
  <2>5. QED
    BY <1>3, <2>3, <2>4
<1>5. \A k : Inherited(part, k) = Under(A[part], k)
  <2>1. SUFFICES ASSUME NEW k PROVE Inherited(part, k) = Under(A[part], k)
    OBVIOUS
  <2>2. CASE part = "env"
    <3>1. Under(A.env, k) = IF Places(overrides, n, k) = {} THEN Under(own.env, k)
                            ELSE {overrides[Max(Places(overrides, n, k))][2]}
      <4>1. IsMap(own.env)
        BY DEF IsContext
      <4>2. QED
        <5>1. PICK base : base = own.env
          OBVIOUS
        <5>2. IsMap(base) /\ n \in Nat /\ DOMAIN overrides = 1 .. n
          BY <1>2, <4>1, <5>1
        <5>3. Under(Inserted(base, overrides), k) =
                IF Places(overrides, n, k) = {} THEN Under(base, k)
                ELSE {overrides[Max(Places(overrides, n, k))][2]}
          BY ONLY <5>2, InsertedUnder
        <5>4. QED
          BY <1>4, <5>1, <5>3
    <3>2. Overriding(k) = Places(overrides, n, k)
      BY <1>2 DEF Places
    <3> HIDE DEF Overriding
    <3>3. QED
      BY <2>2, <3>1, <3>2 DEF Under
  <2>3. CASE part = "secrets"
    BY <1>4, <2>3 DEF Under
  <2>4. QED
    BY <2>2, <2>3
<1>6. \A k : Seen(part, k) # {} => k \in names(part)
  <2>1. ASSUME NEW k, part = "env", Overriding(k) # {}
        PROVE  k \in {overrides[i][1] : i \in 1 .. Len(overrides)}
    BY <2>1
  <2> HIDE DEF Overriding
  <2>2. QED
    BY <2>1
<1>7. \A k : Under(outcome[2][part], k) = Seen(part, k)
  <2> HIDE DEF Inherited
  <2>1. outcome = ResolveContext(A, task)
    BY <1>3
  <2>2. CASE task.context = "none"
    <3>1. outcome[2] = A
      BY <2>1, <2>2 DEF ResolveContext, Fine
    <3> HIDE DEF outcome
    <3>2. QED
      BY <1>5, <2>2, <3>1 DEF Under
  <2>3. CASE task.context = "reference"
    <3>1. outcome = Fault("unsupported_reference")
      BY <2>1, <2>3 DEF ResolveContext
    <3> HIDE DEF outcome
    <3>2. QED
      BY <1>1, <3>1 DEF IsFine, Fault
  <2>4. CASE task.context = "inline"
    <3>1. outcome[2][part] = CombineSection(A[part], task.local[part], task.strategy = "replace",
                                            task.precedence = "inherited")
      BY <2>1, <2>4 DEF ResolveContext, Fine
    <3> HIDE DEF outcome
    <3>2. ASSUME NEW k PROVE Under(outcome[2][part], k) = Seen(part, k)
      <4>1. Under(outcome[2][part], k) =
              IF (task.strategy = "replace" /\ DOMAIN task.local[part] # {}) \/ Under(A[part], k) = {}
              THEN Under(task.local[part], k)
              ELSE IF Under(task.local[part], k) = {} \/ task.precedence = "inherited"
                      \/ task.strategy = "replace"
              THEN Under(A[part], k)
              ELSE Under(task.local[part], k)
        <5>1. PICK replace \in BOOLEAN : replace <=> task.strategy = "replace"
          OBVIOUS
        <5>2. PICK wins \in BOOLEAN : wins <=> task.precedence = "inherited"
          OBVIOUS
        <5>3. outcome[2][part] = CombineSection(A[part], task.local[part], replace, wins)
          BY <3>1, <5>1, <5>2
        <5>4. QED
          BY <5>1, <5>2, <5>3, CombinedIs
      <4>2. Local(part, k) = Under(task.local[part], k)
        BY <2>4 DEF Under
      <4>3. task.strategy = "replace" /\ DOMAIN task.local[part] = {} =>
              Under(task.local[part], k) = {}
        BY DEF Under
      <4> HIDE DEF Local
      <4>4. QED
        BY <1>5, <2>4, <4>1, <4>2, <4>3
    <3>3. QED
      BY <3>2
  <2>5. QED
    BY <2>2, <2>3, <2>4
<1>8. QED
  <2> HIDE DEF outcome, Seen, names
  <2>1. \A k : k \in DOMAIN outcome[2][part] <=> Seen(part, k) # {}
    BY <1>7 DEF Under
  <2>2. QED
    BY <1>6, <1>7, <2>1 DEF Under

-----------------------------------------------------------------------------
(* Durations and output                                                    *)

\* A duration is its number of units or the largest value.
LEMMA DurationIs ==
  ASSUME NEW n \in 0 .. U64Max, NEW u \in {1, 1000, 60000, 3600000}
  PROVE  (n > U64Max \div u) <=> (n * u > U64Max)
<1>1. U64Max \in Nat /\ n \in Nat
  BY SMT, SettingsBounds
<1>2. CASE u = 1
  BY SMT, <1>1, <1>2
<1>3. CASE u = 1000
  BY SMT, <1>1, <1>3
<1>4. CASE u = 60000
  BY SMT, <1>1, <1>4
<1>5. CASE u = 3600000
  BY SMT, <1>1, <1>5
<1>6. QED
  BY SMT, <1>2, <1>3, <1>4, <1>5

LEMMA LongerIsMore ==
  ASSUME NEW m \in Nat, NEW n \in Nat, NEW u \in {1, 1000, 60000, 3600000},
         NEW v \in {1, 1000, 60000, 3600000}, m <= n, u <= v
  PROVE  m * u <= n * v
<1>1. CASE u = 1
  BY SMT, <1>1
<1>2. CASE u = 1000
  BY SMT, <1>2
<1>3. CASE u = 60000
  BY SMT, <1>3
<1>4. CASE u = 3600000
  BY SMT, <1>4
<1>5. QED
  BY SMT, <1>1, <1>2, <1>3, <1>4

LEMMA UnitIs ==
  ASSUME NEW raw, IsDuration(raw)
  PROVE  UnitOf(raw) \in {1, 1000, 60000, 3600000}
<1>1. UnitMs["ms"] = 1 /\ UnitMs["s"] = 1000 /\ UnitMs["m"] = 60000 /\ UnitMs["h"] = 3600000
  BY SMT DEF UnitMs
<1>2. PICK unit \in {Blank, "ms", "s", "m", "h"} : unit = raw.unit
  BY SMT DEF IsDuration
<1>3. CASE unit = Blank
  BY SMT, <1>1, <1>2, <1>3 DEF UnitOf
<1>4. CASE unit # Blank
  BY SMT, <1>1, <1>2, <1>4 DEF UnitOf
<1>5. QED
  BY SMT, <1>3, <1>4

\* A duration that can be read, in milliseconds.
Milliseconds(d) == IF d.number * UnitOf(d) > U64Max THEN U64Max ELSE d.number * UnitOf(d)

LEMMA ReadsAs ==
  ASSUME NEW d, IsDuration(d)
  PROVE  /\ (ParseDurationMs(d) # None) = (d.number \in 0 .. U64Max)
         /\ d.number \in 0 .. U64Max => ResolveGraceMs(<<d>>) = Milliseconds(d)
         /\ d.number \notin 0 .. U64Max => ResolveGraceMs(<<d>>) = ResolveGraceMs(None)
<1>1. UnitOf(d) \in {1, 1000, 60000, 3600000}
  BY UnitIs
<1>2. /\ d.number \notin 0 .. U64Max => ParseDurationMs(d) = None
      /\ d.number \in 0 .. U64Max => ParseDurationMs(d) = <<Milliseconds(d)>>
  BY <1>1, DurationIs DEF ParseDurationMs, Milliseconds
<1>3. /\ <<Milliseconds(d)>> # None /\ <<d>> # None /\ <<d>>[1] = d
      /\ <<Milliseconds(d)>>[1] = Milliseconds(d)
  BY DEF None
<1>4. ResolveGraceMs(<<d>>) = IF ParseDurationMs(d) = None THEN CancelGraceMs
                              ELSE ParseDurationMs(d)[1]
  BY <1>3 DEF ResolveGraceMs
<1>5. ResolveGraceMs(None) = CancelGraceMs
  BY DEF ResolveGraceMs
<1>6. QED
  BY <1>2, <1>3, <1>4, <1>5

\* More time is never less, and what cannot be read is the default (config.rs,
\* parse_duration_ms and resolve_grace_ms), for every number and unit.
THEOREM TimeIsAsAsked ==
  ASSUME NEW raw, IsDuration(raw), NEW other, IsDuration(other)
  PROVE  TimeAsked(raw, other)
<1>1. U64Max \in Nat
  BY SettingsBounds
<1>2. ASSUME raw.number \in 0 .. U64Max, other.number \in 0 .. U64Max,
             raw.number <= other.number, UnitOf(raw) <= UnitOf(other)
      PROVE  Milliseconds(raw) <= Milliseconds(other)
  <2>1. /\ UnitOf(raw) \in {1, 1000, 60000, 3600000}
        /\ UnitOf(other) \in {1, 1000, 60000, 3600000}
    BY UnitIs
  <2>2. raw.number \in Nat /\ other.number \in Nat
    BY <1>1, <1>2
  <2>3. raw.number * UnitOf(raw) <= other.number * UnitOf(other)
    BY <1>2, <2>1, <2>2, LongerIsMore
  <2>4. raw.number * UnitOf(raw) \in Nat /\ other.number * UnitOf(other) \in Nat
    BY <2>1, <2>2
  <2>5. QED
    BY <1>1, <2>3, <2>4 DEF Milliseconds
<1>3. QED
  BY <1>2, ReadsAs DEF TimeAsked

\* The output is what is asked of it (config.rs, resolve_format, resolve_color
\* and resolve_retention), whatever variables are set.
THEOREM OutputIsAsAsked ==
  ASSUME NEW flag, NEW on, NEW off, NEW vars, NEW tty
  PROVE  OutputAsked(flag, on, off, vars, tty)
<1> DEFINE variable == IF "TMX_FORMAT" \in DOMAIN vars THEN vars["TMX_FORMAT"] ELSE Blank
           colour == ResolveColor(on, off, vars, tty)
<1>1. ResolveFormat(flag, variable, tty) \in
           (IF flag # Blank THEN {flag} ELSE IF variable \in Formats THEN {variable}
            ELSE {"pretty", "json"})
  BY DEF ResolveFormat
<1>2. colour => ~off /\ (on \/ tty)
  BY DEF ResolveColor
<1>3. colour # ResolveColor(on, off, NoLayer, tty) =>
        \E v \in DOMAIN vars : v \in {"NO_COLOR", "TMX_NO_COLOR"}
  BY DEF ResolveColor, NoLayer
<1>4. ResolveRetention(vars) = None =>
        "TMX_RUNS_RETENTION" \in DOMAIN vars /\ vars["TMX_RUNS_RETENTION"] \in {"0", "off"}
  BY DEF ResolveRetention, None
<1>5. QED
  BY Zenon, <1>1, <1>2, <1>3, <1>4 DEF OutputAsked

-----------------------------------------------------------------------------
(* Settings                                                                *)

EffectiveBy(layers, r) ==
  r = [s \in SUBSET (DOMAIN layers) |->
         IF s = {} THEN NoLayer ELSE Upon(layers[Min(s)], r[s \ {Min(s)}])]

LEMMA EffectiveIsChosen ==
  ASSUME NEW layers
  PROVE  ResolveEffective(layers) = (CHOOSE r : EffectiveBy(layers, r))[DOMAIN layers]
BY Zenon DEF ResolveEffective, FoldRight, MapThenFoldSet, EffectiveBy

LEMMA UponMember ==
  ASSUME NEW K, NEW W, NEW over, DOMAIN over \subseteq K, \A k \in DOMAIN over : over[k] \in W,
         NEW base \in Maps(K, W)
  PROVE  Upon(over, base) \in Maps(K, W)
<1>1. DOMAIN base \subseteq K /\ base \in [DOMAIN base -> W]
  BY DEF Maps
<1>2. Upon(over, base) \in [DOMAIN over \cup DOMAIN base -> W]
  BY <1>1 DEF Upon
<1>3. QED
  BY <1>1, <1>2 DEF Maps

\* What the layers come to, before each of them from the last to the first.
LEMMA EffectiveGoes ==
  ASSUME NEW n \in Nat, NEW layers, DOMAIN layers = 1 .. n
  PROVE  \E h : /\ h[n] = NoLayer /\ ResolveEffective(layers) = h[0]
                /\ \A i \in 1 .. n : h[i - 1] = Upon(layers[i], h[i])
<1> DEFINE K == UNION {DOMAIN layers[i] : i \in 1 .. n}
           W == UNION {{layers[i][k] : k \in DOMAIN layers[i]} : i \in 1 .. n}
           V == Maps(K, W)
           step == [x \in (1 .. n) \X V |-> Upon(layers[x[1]], x[2])]
<1>1. NoLayer \in V
  <2>1. NoLayer \in [{} -> W] /\ {} \in SUBSET K
    BY DEF NoLayer
  <2> HIDE DEF K, W
  <2>2. QED
    BY <2>1 DEF Maps
<1>2. \A i \in 1 .. n : DOMAIN layers[i] \subseteq K /\ \A k \in DOMAIN layers[i] : layers[i][k] \in W
  OBVIOUS
<1>3. step \in [(1 .. n) \X V -> V]
  <2> HIDE DEF K, W
  <2>1. QED
    BY <1>2, UponMember
<1>4. PICK r \in [SUBSET (1 .. n) -> V] : Folds(r, 1 .. n, NoLayer, Firsts(n), step)
  <2> HIDE DEF V, step
  <2>1. QED
    BY <1>1, <1>3, RightFoldExists
<1>5. EffectiveBy(layers, r)
  <2>1. SUFFICES ASSUME NEW s \in SUBSET (1 .. n)
                 PROVE  r[s] = IF s = {} THEN NoLayer
                               ELSE Upon(layers[Min(s)], r[s \ {Min(s)}])
    BY DEF EffectiveBy
  <2>2. r[s] = IF s = {} THEN NoLayer ELSE step[<<Min(s), r[s \ {Min(s)}]>>]
    <3> HIDE DEF step, V
    <3>1. QED
      BY <1>4 DEF Folds, Firsts
  <2>3. s # {} => Min(s) \in 1 .. n /\ r[s \ {Min(s)}] \in V
    <3> HIDE DEF step, V
    <3>1. s \in SUBSET Nat
      OBVIOUS
    <3>2. QED
      BY <1>4, <3>1, MinIsLeast
  <2>4. QED
    <3> HIDE DEF V
    <3>1. QED
      BY <2>2, <2>3
<1>6. PICK q : EffectiveBy(layers, q) /\ ResolveEffective(layers) = q[1 .. n]
  BY <1>5, EffectiveIsChosen
<1>7. \A s \in SUBSET (1 .. n) :
        q[s] = IF s = {} THEN NoLayer ELSE Upon(layers[Min(s)], q[s \ {Min(s)}])
  BY <1>6 DEF EffectiveBy
<1>8. PICK h : h = [i \in 0 .. n |-> q[(i + 1) .. n]]
  OBVIOUS
<1>9. h[n] = NoLayer /\ ResolveEffective(layers) = h[0]
  <2>1. (n + 1) .. n = {}
    OBVIOUS
  <2>2. h[0] = q[1 .. n] /\ h[n] = q[(n + 1) .. n]
    BY <1>8
  <2>3. q[(n + 1) .. n] = NoLayer
    BY <1>7, <2>1
  <2>4. QED
    BY <1>6, <2>2, <2>3
<1>10. ASSUME NEW i \in 1 .. n PROVE h[i - 1] = Upon(layers[i], h[i])
  <2>1. h[i - 1] = q[i .. n] /\ h[i] = q[(i + 1) .. n]
    <3>1. i - 1 \in 0 .. n /\ i \in 0 .. n /\ (i - 1) + 1 = i
      OBVIOUS
    <3>2. QED
      BY <1>8, <3>1
  <2>2. i .. n \in SUBSET (1 .. n)
    OBVIOUS
  <2>3. Min(i .. n) = i /\ i .. n # {} /\ (i .. n) \ {i} = (i + 1) .. n
    BY FromFirst
  <2>4. q[i .. n] = Upon(layers[i], q[(i + 1) .. n])
    BY <1>7, <2>2, <2>3
  <2>5. QED
    BY <2>1, <2>4
<1>11. QED
  BY <1>9, <1>10

\* What one layer says, or else another.
Or(above, below) == IF above # {} THEN above ELSE below

LEMMA UnderUpon ==
  ASSUME NEW over, NEW base, NEW k
  PROVE  Under(Upon(over, base), k) = Or(Under(over, k), Under(base, k))
BY DEF Upon, Under, Or

LEMMA EffectiveIs ==
  ASSUME NEW a, NEW b, NEW c, NEW d, NEW e, NEW k
  PROVE  Under(ResolveEffective(<<a, b, c, d, e>>), k) =
           Or(Under(a, k), Or(Under(b, k), Or(Under(c, k), Or(Under(d, k), Under(e, k)))))
<1>1. PICK layers : layers = <<a, b, c, d, e>>
  OBVIOUS
<1>2. /\ DOMAIN layers = 1 .. 5 /\ layers[1] = a /\ layers[2] = b /\ layers[3] = c
      /\ layers[4] = d /\ layers[5] = e
  BY <1>1
<1>3. PICK h : /\ h[5] = NoLayer /\ ResolveEffective(layers) = h[0]
               /\ \A i \in 1 .. 5 : h[i - 1] = Upon(layers[i], h[i])
  <2>1. PICK n \in Nat : n = 5
    OBVIOUS
  <2>2. DOMAIN layers = 1 .. n
    BY <1>2, <2>1
  <2>3. \E h : /\ h[n] = NoLayer /\ ResolveEffective(layers) = h[0]
               /\ \A i \in 1 .. n : h[i - 1] = Upon(layers[i], h[i])
    BY <2>2, EffectiveGoes
  <2>4. QED
    BY <2>1, <2>3
<1>4. /\ h[0] = Upon(a, h[1]) /\ h[1] = Upon(b, h[2]) /\ h[2] = Upon(c, h[3])
      /\ h[3] = Upon(d, h[4]) /\ h[4] = Upon(e, h[5])
  <2>1. /\ h[1 - 1] = Upon(a, h[1]) /\ h[2 - 1] = Upon(b, h[2]) /\ h[3 - 1] = Upon(c, h[3])
        /\ h[4 - 1] = Upon(d, h[4]) /\ h[5 - 1] = Upon(e, h[5])
    BY <1>2, <1>3
  <2>2. QED
    BY <2>1
<1>5. Under(h[4], k) = Under(e, k)
  <2>1. Under(h[5], k) = {}
    BY <1>3 DEF Under, NoLayer
  <2>2. QED
    BY <1>4, <2>1, UnderUpon DEF Or
<1>6. QED
  BY <1>1, <1>3, <1>4, <1>5, UnderUpon

\* The nearest of six layers, key by key.
LEMMA NearestIs ==
  ASSUME NEW a, NEW b, NEW c, NEW d, NEW e, NEW f, NEW k
  PROVE  LET layers == <<a, b, c, d, e, f>>
         IN  (IF Setters(layers, k) = {} THEN {} ELSE {Nearest(layers, k)}) =
               Or(Under(a, k), Or(Under(b, k), Or(Under(c, k),
                 Or(Under(d, k), Or(Under(e, k), Under(f, k))))))
<1>1. PICK layers : layers = <<a, b, c, d, e, f>>
  OBVIOUS
<1>2. /\ DOMAIN layers = 1 .. 6 /\ layers[1] = a /\ layers[2] = b /\ layers[3] = c
      /\ layers[4] = d /\ layers[5] = e /\ layers[6] = f
  BY <1>1
<1>3. PICK S : S = Setters(layers, k)
  OBVIOUS
<1>4. \A i : i \in S <=> i \in 1 .. 6 /\ k \in DOMAIN layers[i]
  BY <1>2, <1>3 DEF Setters
<1>5. CASE S = {}
  <2>1. \A i \in 1 .. 6 : Under(layers[i], k) = {}
    BY <1>4, <1>5 DEF Under
  <2>2. QED
    BY <1>1, <1>2, <1>3, <1>5, <2>1 DEF Or
<1>6. CASE S # {}
  <2>1. PICK m : m = Min(S)
    OBVIOUS
  <2>2. m \in S /\ \A i \in S : m <= i
    <3>1. S \in SUBSET Nat
      BY <1>4
    <3>2. QED
      BY <1>6, <2>1, <3>1, MinIsLeast
  <2>3. m \in 1 .. 6 /\ Under(layers[m], k) = {layers[m][k]}
    BY <1>4, <2>2 DEF Under
  <2>4. \A i \in 1 .. 6 : i < m => Under(layers[i], k) = {}
    BY <1>4, <2>2, <2>3 DEF Under
  <2>5. Nearest(layers, k) = layers[m][k]
    BY <1>3, <2>1 DEF Nearest
  <2>6. Under(layers[m], k) = Or(Under(a, k), Or(Under(b, k), Or(Under(c, k),
                                Or(Under(d, k), Or(Under(e, k), Under(f, k))))))
    BY <1>2, <2>3, <2>4 DEF Or
  <2>7. QED
    BY <1>1, <1>3, <1>6, <2>3, <2>5, <2>6
<1>7. QED
  BY <1>5, <1>6

LEMMA FileLayerIs ==
  ASSUME NEW files, IsFiles(files)
  PROVE  IsLayer(FileLayer(files))
<1> DEFINE read == {i \in 1..Len(files) : files[i][1] \notin {"absent", "unreadable"}}
           first == files[CHOOSE i \in read : \A j \in read : i <= j]
<1>1. CASE read = {}
  BY <1>1 DEF FileLayer, IsLayer, NoLayer
<1>2. CASE read # {}
  <2>1. Len(files) \in Nat
    BY DEF IsFiles
  <2>2. PICK S \in SUBSET Nat : S = read
    <3>1. read \subseteq Nat
      BY <2>1
    <3> HIDE DEF read
    <3>2. QED
      BY <3>1
  <2>3. PICK i \in S : \A j \in S : i <= j
    BY <1>2, <2>2, MinIsLeast
  <2>4. PICK m : m \in read /\ first = files[m]
    <3>1. (CHOOSE x \in S : \A j \in S : x <= j) \in S
      BY <2>3
    <3>2. (CHOOSE x \in S : \A j \in S : x <= j) = CHOOSE i0 \in read : \A j \in read : i0 <= j
      <4> HIDE DEF read
      <4>1. QED
        BY Zenon, <2>2
    <3> HIDE DEF read
    <3>3. QED
      BY <2>2, <3>1, <3>2
  <2>5. files[m][1] \notin {"absent", "unreadable"} /\ m \in 1..Len(files)
    BY <2>4
  <2>6. \/ files[m] = <<"malformed">>
        \/ files[m][1] = "layer" /\ IsLayer(files[m][2])
    <3>1. <<"absent">>[1] = "absent" /\ <<"unreadable">>[1] = "unreadable"
      OBVIOUS
    <3>2. \/ files[m] \in {<<"absent">>, <<"unreadable">>, <<"malformed">>}
          \/ files[m][1] = "layer" /\ IsLayer(files[m][2])
      BY <2>5 DEF IsFiles
    <3>3. QED
      BY Zenon, <2>5, <3>1, <3>2
  <2>7. FileLayer(files) = IF first[1] = "malformed" THEN NoLayer ELSE first[2]
    BY <1>2 DEF FileLayer
  <2> HIDE DEF first
  <2>8. IsLayer(NoLayer)
    BY DEF IsLayer, NoLayer
  <2>9. QED
    BY <2>4, <2>6, <2>7, <2>8
<1>3. QED
  BY <1>1, <1>2

LEMMA EnvLayerIs ==
  ASSUME NEW vars
  PROVE  /\ \A k \in DOMAIN EnvLayer(vars) : IsStr(EnvLayer(vars)[k])
         /\ "names" \notin DOMAIN EnvLayer(vars)
<1> DEFINE set == {v \in DOMAIN ConfigVars \cap DOMAIN vars : vars[v] # Blank}
<1>1. EnvLayer(vars) = [key \in {ConfigVars[v] : v \in set} |->
                          Str(vars[CHOOSE v \in set : ConfigVars[v] = key])]
  BY DEF EnvLayer
<1>2. \A v \in DOMAIN ConfigVars : ConfigVars[v] # "names"
  BY DEF ConfigVars
<1>3. \A v \in set : ConfigVars[v] # "names"
  BY <1>2
<1> HIDE DEF set
<1>4. QED
  BY <1>1, <1>3 DEF IsStr, Str

\* The profile that Said names, and the layer it makes of the project's.
ProfileOf(flags, env, project) ==
  IF "profile" \in DOMAIN flags THEN flags["profile"]
  ELSE IF "profile" \in DOMAIN env THEN env["profile"]
  ELSE IF "profile" \in DOMAIN project THEN project["profile"]
  ELSE Null

ProfilesOf(project) ==
  IF "profiles" \in DOMAIN project /\ IsObj(project["profiles"])
  THEN project["profiles"][2] ELSE NoLayer

ProfileLayer(profile, profiles) ==
  IF IsStr(profile) /\ profile[2] \in DOMAIN profiles /\ IsObj(profiles[profile[2]])
  THEN profiles[profile[2]][2] ELSE NoLayer

LEMMA ActiveIs ==
  ASSUME NEW flags, "profile" \in DOMAIN flags => IsStr(flags["profile"]),
         NEW env, "profile" \in DOMAIN env => IsStr(env["profile"]), NEW project
  PROVE  ActiveProfile(flags, env, project) =
           IF IsStr(ProfileOf(flags, env, project))
           THEN <<ProfileOf(flags, env, project)[2]>> ELSE None
<1>1. PICK layers : layers = <<flags, env, project>>
  OBVIOUS
<1>2. layers[1] = flags /\ layers[2] = env /\ layers[3] = project
  BY <1>1
<1>3. PICK S : S = {i \in 1..3 : "profile" \in DOMAIN layers[i] /\ IsStr(layers[i]["profile"])}
  OBVIOUS
<1>4. ActiveProfile(flags, env, project) =
        IF S = {} THEN None ELSE <<layers[Min(S)]["profile"][2]>>
  BY <1>1, <1>3 DEF ActiveProfile
<1>5. ~IsStr(Null)
  BY DEF Null, IsStr
<1>6. CASE S = {}
  <2>1. /\ ~("profile" \in DOMAIN layers[1] /\ IsStr(layers[1]["profile"]))
        /\ ~("profile" \in DOMAIN layers[2] /\ IsStr(layers[2]["profile"]))
        /\ ~("profile" \in DOMAIN layers[3] /\ IsStr(layers[3]["profile"]))
    BY <1>3, <1>6
  <2>2. QED
    BY <1>2, <1>4, <1>5, <1>6, <2>1 DEF ProfileOf
<1>7. CASE S # {}
  <2>1. PICK m : m = Min(S)
    OBVIOUS
  <2>2. m \in S /\ \A i \in S : m <= i
    <3>1. S \in SUBSET Nat
      BY <1>3
    <3>2. QED
      BY <1>7, <2>1, <3>1, MinIsLeast
  <2>3. m \in 1..3 /\ "profile" \in DOMAIN layers[m] /\ IsStr(layers[m]["profile"])
    BY <1>3, <2>2
  <2>4. \A i \in 1..3 : i < m => ~("profile" \in DOMAIN layers[i] /\ IsStr(layers[i]["profile"]))
    BY <1>3, <2>2, <2>3
  <2>5. ProfileOf(flags, env, project) = layers[m]["profile"]
    BY <1>2, <2>3, <2>4 DEF ProfileOf
  <2>6. QED
    BY <1>4, <1>7, <2>1, <2>3, <2>5
<1>8. QED
  BY <1>6, <1>7

LEMMA ProfileApplied ==
  ASSUME NEW flags, "profile" \in DOMAIN flags => IsStr(flags["profile"]),
         NEW env, "profile" \in DOMAIN env => IsStr(env["profile"]), NEW project,
         NEW k, k # "profiles"
  PROVE  Under(ApplyProfile(project, ActiveProfile(flags, env, project)), k) =
           Or(Under(ProfileLayer(ProfileOf(flags, env, project), ProfilesOf(project)), k),
              Under(project, k))
<1>1. PICK profile : profile = ProfileOf(flags, env, project)
  OBVIOUS
<1>2. PICK active : active = ActiveProfile(flags, env, project)
  OBVIOUS
<1>3. active = IF IsStr(profile) THEN <<profile[2]>> ELSE None
  BY <1>1, <1>2, ActiveIs
<1>4. PICK base : base = [x \in DOMAIN project \ {"profiles"} |-> project[x]]
  OBVIOUS
<1>5. Under(base, k) = Under(project, k)
  BY <1>4 DEF Under
<1>6. ApplyProfile(project, active) =
        IF /\ active # None /\ "profiles" \in DOMAIN project
           /\ IsObj(project["profiles"]) /\ active[1] \in DOMAIN project["profiles"][2]
           /\ IsObj(project["profiles"][2][active[1]])
        THEN Upon(project["profiles"][2][active[1]][2], base) ELSE base
  BY <1>4 DEF ApplyProfile
<1>7. active # None <=> IsStr(profile)
  BY <1>3 DEF None
<1>8. IsStr(profile) => active[1] = profile[2]
  BY <1>3
<1>9. DOMAIN NoLayer = {}
  BY DEF NoLayer
<1>10. Under(NoLayer, k) = {}
  BY <1>9 DEF Under
<1>11. CASE /\ active # None /\ "profiles" \in DOMAIN project
            /\ IsObj(project["profiles"]) /\ active[1] \in DOMAIN project["profiles"][2]
            /\ IsObj(project["profiles"][2][active[1]])
  <2>1. ApplyProfile(project, active) = Upon(project["profiles"][2][active[1]][2], base)
    BY <1>6, <1>11
  <2>2. ProfileLayer(profile, ProfilesOf(project)) = project["profiles"][2][active[1]][2]
    BY <1>7, <1>8, <1>11 DEF ProfileLayer, ProfilesOf
  <2>3. QED
    BY <1>1, <1>2, <1>5, <2>1, <2>2, UnderUpon
<1>12. CASE ~(/\ active # None /\ "profiles" \in DOMAIN project
              /\ IsObj(project["profiles"]) /\ active[1] \in DOMAIN project["profiles"][2]
              /\ IsObj(project["profiles"][2][active[1]]))
  <2>1. ApplyProfile(project, active) = base
    BY <1>6, <1>12
  <2>2. ProfileLayer(profile, ProfilesOf(project)) = NoLayer
    BY <1>7, <1>8, <1>9, <1>12 DEF ProfileLayer, ProfilesOf
  <2>3. QED
    BY <1>1, <1>2, <1>5, <1>10, <2>1, <2>2 DEF Or
<1>13. QED
  BY <1>11, <1>12

\* A key but for `profiles` is loaded as the nearest layer says.
LEMMA LoadedIs ==
  ASSUME NEW args, IsArgs(args), NEW machine, IsMachine(machine), NEW k, k # "profiles"
  PROVE  Under(LoadEffective(args.flags, machine), k) =
           IF Setters(Said(args, machine), k) = {} THEN {} ELSE {Nearest(Said(args, machine), k)}
<1>1. PICK flags : flags = args.flags
  OBVIOUS
<1>2. PICK env : env = EnvLayer(machine.vars)
  OBVIOUS
<1>3. PICK project : project = FileLayer(machine.project)
  OBVIOUS
<1>4. PICK user, system : user = FileLayer(machine.user) /\ system = FileLayer(machine.system)
  OBVIOUS
<1>5. PICK named : named = ProfileLayer(ProfileOf(flags, env, project), ProfilesOf(project))
  OBVIOUS
<1>6. PICK applied : applied = ApplyProfile(project, ActiveProfile(flags, env, project))
  OBVIOUS
<1>7. LoadEffective(flags, machine) = ResolveEffective(<<flags, env, applied, user, system>>)
  BY <1>2, <1>3, <1>4, <1>6, Zenon DEF LoadEffective
<1>8. Said(args, machine) = <<flags, env, named, project, user, system>>
  BY <1>1, <1>2, <1>3, <1>4, <1>5, Zenon DEF Said, ProfileLayer, ProfileOf, ProfilesOf
<1>9. Under(applied, k) = Or(Under(named, k), Under(project, k))
  <2>1. "profile" \in DOMAIN flags => IsStr(flags["profile"])
    BY <1>1 DEF IsArgs
  <2>2. "profile" \in DOMAIN env => IsStr(env["profile"])
    BY <1>2, EnvLayerIs
  <2>3. QED
    BY <1>5, <1>6, <2>1, <2>2, ProfileApplied
<1>10. Under(LoadEffective(flags, machine), k) =
         Or(Under(flags, k), Or(Under(env, k), Or(Under(applied, k),
           Or(Under(user, k), Under(system, k)))))
  BY <1>7, EffectiveIs
<1>11. (IF Setters(Said(args, machine), k) = {} THEN {} ELSE {Nearest(Said(args, machine), k)}) =
         Or(Under(flags, k), Or(Under(env, k), Or(Under(named, k),
           Or(Under(project, k), Or(Under(user, k), Under(system, k))))))
  BY <1>8, NearestIs
<1>12. QED
  BY <1>1, <1>9, <1>10, <1>11 DEF Or

\* What a value reads as, and the number it is if that is at most max.
Readings(v) == IF IsStr(v) THEN Spelled(v[2]) ELSE {v}

NumberIn(v, max) ==
  {x[2] : x \in {y \in Readings(v) : IsNum(y) /\ y[3] = "int" /\ y[2] \in 0..max}}

\* A setting that nothing sets, one that is no number, and one that is.
Resolved(out, isSet, numbers) ==
  /\ ~isSet => out = Fine(None)
  /\ isSet /\ numbers = {} => out = Fault("usage")
  /\ isSet /\ numbers # {} => \E n \in numbers : numbers = {n} /\ out = Fine(<<n>>)

LEMMA ReadsOne ==
  ASSUME NEW v
  PROVE  Readings(v) = {} \/ \E x : Readings(v) = {x}
BY DEF Readings, Spelled

LEMMA FineIs ==
  ASSUME NEW v, NEW code
  PROVE  IsFine(Fine(v)) /\ Fine(v)[2] = v /\ ~IsFine(Fault(code))
BY DEF IsFine, Fine, Fault

LEMMA NotNone == ASSUME NEW n PROVE <<n>> # None /\ <<n>>[1] = n
BY DEF None

LEMMA U64Is ==
  ASSUME NEW effective, NEW key, NEW isSet, NEW v,
         Under(effective, key) = IF isSet THEN {v} ELSE {}
  PROVE  Resolved(ResolveU64(effective, key), isSet, NumberIn(v, U64Max))
<1>1. CASE ~isSet
  <2>1. key \notin DOMAIN effective
    BY <1>1 DEF Under
  <2>2. QED
    BY <1>1, <2>1 DEF Resolved, ResolveU64
<1>2. CASE isSet
  <2>1. key \in DOMAIN effective /\ effective[key] = v
    BY <1>2 DEF Under
  <2>2. ResolveU64(effective, key) =
          IF \E x \in Readings(v) : IsNum(x) /\ x[3] = "int" /\ x[2] \in 0..U64Max
          THEN Fine(<<(CHOOSE x \in Readings(v) : TRUE)[2]>>)
          ELSE Fault("usage")
    BY <2>1 DEF ResolveU64, Readings
  <2>3. CASE \E x \in Readings(v) : IsNum(x) /\ x[3] = "int" /\ x[2] \in 0..U64Max
    <3>1. PICK x \in Readings(v) : IsNum(x) /\ x[3] = "int" /\ x[2] \in 0..U64Max
      BY <2>3
    <3>2. Readings(v) = {x}
      BY <3>1, ReadsOne
    <3>3. (CHOOSE y \in Readings(v) : TRUE) = x
      BY <3>2
    <3>4. NumberIn(v, U64Max) = {x[2]}
      BY <3>1, <3>2 DEF NumberIn
    <3>5. ResolveU64(effective, key) = Fine(<<x[2]>>)
      BY <2>2, <2>3, <3>3
    <3>6. QED
      BY <1>2, <3>4, <3>5 DEF Resolved
  <2>4. CASE ~\E x \in Readings(v) : IsNum(x) /\ x[3] = "int" /\ x[2] \in 0..U64Max
    <3>1. NumberIn(v, U64Max) = {}
      BY <2>4 DEF NumberIn
    <3>2. QED
      BY <1>2, <2>2, <2>4, <3>1 DEF Resolved
  <2>5. QED
    BY <2>3, <2>4
<1>3. QED
  BY <1>1, <1>2

LEMMA NumberBelow ==
  ASSUME NEW v
  PROVE  /\ NumberIn(v, U64Max) \subseteq Nat
         /\ NumberIn(v, U32Max) = {n \in NumberIn(v, U64Max) : n <= U32Max}
<1>1. U64Max \in Nat /\ U32Max \in Nat /\ U32Max <= U64Max
  BY SettingsBounds
<1>2. \A y : y \in 0..U32Max <=> y \in 0..U64Max /\ y <= U32Max
  BY <1>1
<1>3. \A y : y \in 0..U64Max => y \in Nat
  BY <1>1
<1>4. QED
  BY <1>2, <1>3 DEF NumberIn

LEMMA ConcurrencyIs ==
  ASSUME NEW effective, NEW isSet, NEW v,
         Under(effective, "concurrency") = IF isSet THEN {v} ELSE {}
  PROVE  Resolved(ResolveConcurrency(effective), isSet, NumberIn(v, U32Max))
<1>1. PICK out : out = ResolveU64(effective, "concurrency")
  OBVIOUS
<1>2. Resolved(out, isSet, NumberIn(v, U64Max))
  <2>1. PICK key : key = "concurrency"
    OBVIOUS
  <2>2. QED
    BY <1>1, <2>1, U64Is
<1>3. ResolveConcurrency(effective) =
        IF IsFine(out) /\ out[2] # None /\ out[2][1] > U32Max THEN Fault("usage") ELSE out
  BY <1>1 DEF ResolveConcurrency
<1>4. CASE ~isSet
  <2>1. out = Fine(None)
    BY <1>2, <1>4 DEF Resolved
  <2>2. out[2] = None
    BY <2>1, FineIs
  <2>3. QED
    BY <1>3, <1>4, <2>1, <2>2 DEF Resolved
<1>5. CASE isSet /\ NumberIn(v, U64Max) = {}
  <2>1. out = Fault("usage")
    BY <1>2, <1>5 DEF Resolved
  <2>2. NumberIn(v, U32Max) = {}
    BY <1>5, NumberBelow
  <2>3. ResolveConcurrency(effective) = Fault("usage")
    BY <1>3, <2>1
  <2>4. QED
    BY <1>5, <2>2, <2>3 DEF Resolved
<1>6. CASE isSet /\ NumberIn(v, U64Max) # {}
  <2>1. PICK n \in NumberIn(v, U64Max) : NumberIn(v, U64Max) = {n} /\ out = Fine(<<n>>)
    BY <1>2, <1>6 DEF Resolved
  <2>2. n \in Nat /\ NumberIn(v, U32Max) = {m \in {n} : m <= U32Max}
    BY <2>1, NumberBelow
  <2>3. IsFine(out) /\ out[2] = <<n>> /\ out[2] # None /\ out[2][1] = n
    BY <2>1, FineIs, NotNone
  <2>4. CASE n > U32Max
    <3>1. NumberIn(v, U32Max) = {}
      BY <2>2, <2>4, SettingsBounds
    <3>2. ResolveConcurrency(effective) = Fault("usage")
      BY <1>3, <2>3, <2>4
    <3>3. QED
      BY <1>6, <3>1, <3>2 DEF Resolved
  <2>5. CASE ~(n > U32Max)
    <3>1. NumberIn(v, U32Max) = {n}
      BY <2>2, <2>5, SettingsBounds
    <3>2. ResolveConcurrency(effective) = Fine(<<n>>)
      BY <1>3, <2>1, <2>3, <2>5
    <3>3. QED
      BY <1>6, <3>1, <3>2 DEF Resolved
  <2>6. QED
    BY <2>4, <2>5
<1>7. QED
  BY <1>4, <1>5, <1>6

LEMMA RefusalIsSaid == "concurrency_too_high" # Blank
BY Zenon DEF Blank

\* A setting is what the nearest layer that sets it says, whether flag,
\* variable, profile or file (config.rs, load_effective and resolve_u64), and a
\* setting that is no number in range ends the run.
THEOREM SettingsAreAsAsked ==
  ASSUME NEW args, IsArgs(args), NEW machine, IsMachine(machine)
  PROVE  SettingsAsked(args, machine)
<1> DEFINE said == Said(args, machine)
           IsSet(key) == Setters(said, key) # {}
           Number(key) == NumberIn(Nearest(said, key), IF key = "concurrency" THEN U32Max ELSE U64Max)
           keys == {"concurrency", "maxStateSize"}
<1>1. PICK outcome : outcome = ResolveOverrides(args, machine)
  OBVIOUS
<1>2. SUFFICES
        IF \E key \in keys : IsSet(key) /\ Number(key) = {} THEN outcome = Fault("usage")
        ELSE /\ IsFine(outcome)
             /\ \A key \in keys :
                  IF IsSet(key) THEN {outcome[2][key]} = {<<n>> : n \in Number(key)}
                  ELSE outcome[2][key] = None
             /\ CheckConcurrency(outcome[2].concurrency) = Blank =>
                  ToSet(outcome[2].concurrency) \subseteq 0..ConcurrencyMax
  BY <1>1, Zenon DEF SettingsAsked, NumberIn, Readings
<1>3. PICK effective : effective = LoadEffective(args.flags, machine)
  OBVIOUS
<1>4. PICK conc, size : conc = ResolveConcurrency(effective) /\ size = ResolveU64(effective, "maxStateSize")
  OBVIOUS
<1>5. ASSUME NEW key, key # "profiles"
      PROVE  Under(effective, key) = IF IsSet(key) THEN {Nearest(said, key)} ELSE {}
  <2>1. Under(LoadEffective(args.flags, machine), key) =
          IF Setters(Said(args, machine), key) = {} THEN {}
          ELSE {Nearest(Said(args, machine), key)}
    BY <1>5, LoadedIs
  <2>2. QED
    BY <1>3, <2>1
<1>6. Resolved(conc, IsSet("concurrency"), Number("concurrency"))
  <2>1. PICK isSet \in BOOLEAN : isSet = IsSet("concurrency")
    OBVIOUS
  <2>2. PICK v : v = Nearest(said, "concurrency")
    OBVIOUS
  <2>3. Under(effective, "concurrency") = IF isSet THEN {v} ELSE {}
    BY <1>5, <2>1, <2>2
  <2>4. Number("concurrency") = NumberIn(v, U32Max)
    BY <2>2
  <2> HIDE DEF IsSet, Number
  <2>5. QED
    BY <1>4, <2>1, <2>3, <2>4, ConcurrencyIs
<1>7. Resolved(size, IsSet("maxStateSize"), Number("maxStateSize"))
  <2>1. PICK isSet \in BOOLEAN : isSet = IsSet("maxStateSize")
    OBVIOUS
  <2>2. PICK v : v = Nearest(said, "maxStateSize")
    OBVIOUS
  <2>3. Under(effective, "maxStateSize") = IF isSet THEN {v} ELSE {}
    BY <1>5, <2>1, <2>2
  <2>4. Number("maxStateSize") = NumberIn(v, U64Max)
    BY <2>2
  <2>5. PICK key : key = "maxStateSize"
    OBVIOUS
  <2> HIDE DEF IsSet, Number
  <2>6. QED
    BY <1>4, <2>1, <2>3, <2>4, <2>5, U64Is
<1>8. \A n \in Number("concurrency") : n \in Nat
  BY NumberBelow
<1> HIDE DEF IsSet, Number
<1>9. PICK local : local = ResolveLocal(args.local, machine.vars)
  OBVIOUS
<1>10. outcome = IF ~IsFine(conc) THEN conc
                 ELSE IF ~IsFine(size) THEN size
                 ELSE Fine([concurrency |-> conc[2], maxStateSize |-> size[2], local |-> local])
  BY <1>1, <1>3, <1>4, <1>9, Zenon DEF ResolveOverrides
<1>11. CASE IsSet("concurrency") /\ Number("concurrency") = {}
  <2>1. conc = Fault("usage")
    BY <1>6, <1>11 DEF Resolved
  <2>2. outcome = Fault("usage")
    BY <1>10, <2>1, FineIs
  <2>3. QED
    BY <1>11, <2>2
<1>12. CASE /\ ~(IsSet("concurrency") /\ Number("concurrency") = {})
            /\ IsSet("maxStateSize") /\ Number("maxStateSize") = {}
  <2>1. IsFine(conc)
    BY <1>6, <1>12, FineIs DEF Resolved
  <2>2. size = Fault("usage")
    BY <1>7, <1>12 DEF Resolved
  <2>3. outcome = Fault("usage")
    BY <1>10, <2>1, <2>2, FineIs
  <2>4. QED
    BY <1>12, <2>3
<1>13. CASE /\ ~(IsSet("concurrency") /\ Number("concurrency") = {})
            /\ ~(IsSet("maxStateSize") /\ Number("maxStateSize") = {})
  <2>1. /\ IsFine(conc)
        /\ ~IsSet("concurrency") => conc[2] = None
        /\ IsSet("concurrency") =>
             \E n \in Number("concurrency") : Number("concurrency") = {n} /\ conc[2] = <<n>>
    BY <1>6, <1>13, FineIs DEF Resolved
  <2>2. /\ IsFine(size)
        /\ ~IsSet("maxStateSize") => size[2] = None
        /\ IsSet("maxStateSize") =>
             \E n \in Number("maxStateSize") : Number("maxStateSize") = {n} /\ size[2] = <<n>>
    BY <1>7, <1>13, FineIs DEF Resolved
  <2>3. PICK made : made = [concurrency |-> conc[2], maxStateSize |-> size[2], local |-> local]
    OBVIOUS
  <2>4. made["concurrency"] = conc[2] /\ made["maxStateSize"] = size[2]
    BY <2>3
  <2>5. IsFine(outcome) /\ outcome[2] = made
    BY <1>10, <2>1, <2>2, <2>3, FineIs
  <2>6. \A key \in keys :
          IF IsSet(key) THEN {outcome[2][key]} = {<<n>> : n \in Number(key)}
          ELSE outcome[2][key] = None
    BY <2>1, <2>2, <2>4, <2>5
  <2>7. ASSUME CheckConcurrency(conc[2]) = Blank PROVE ToSet(conc[2]) \subseteq 0..ConcurrencyMax
    <3>1. CASE conc[2] = None
      BY <3>1 DEF None, ToSet
    <3>2. CASE conc[2] # None
      <4>1. PICK n \in Nat : conc[2] = <<n>>
        BY <1>8, <2>1, <3>2
      <4>2. conc[2][1] = n /\ ToSet(conc[2]) = {n}
        BY <4>1 DEF ToSet
      <4>3. ~(n > ConcurrencyMax)
        BY <2>7, <3>2, <4>2, RefusalIsSaid DEF CheckConcurrency
      <4>4. QED
        BY <4>2, <4>3, SettingsBounds
    <3>3. QED
      BY <3>1, <3>2
  <2>8. ~\E key \in keys : IsSet(key) /\ Number(key) = {}
    BY <1>13
  <2>9. QED
    BY <2>4, <2>5, <2>6, <2>7, <2>8
<1>14. QED
  BY <1>11, <1>12, <1>13

\* What a layer or an object in it holds is a JSON value.
LEMMA HeldIsJson ==
  ASSUME NEW v \in JsonValue, IsObj(v)
  PROVE  IsLayer(v[2])
BY JsonValuesAssumption DEF IsLayer

LEMMA ProfileIsLayer ==
  ASSUME NEW profile, NEW project, IsLayer(project)
  PROVE  IsLayer(ProfileLayer(profile, ProfilesOf(project)))
<1>1. IsLayer(NoLayer)
  BY DEF IsLayer, NoLayer
<1>2. \A l, k : IsLayer(l) /\ k \in DOMAIN l => l[k] \in JsonValue
  BY DEF IsLayer
<1>3. PICK profiles : profiles = ProfilesOf(project)
  OBVIOUS
<1>4. IsLayer(profiles)
  BY <1>1, <1>2, <1>3, HeldIsJson DEF ProfilesOf
<1>5. QED
  BY <1>1, <1>2, <1>3, <1>4, HeldIsJson DEF ProfileLayer

LEMMA NamesAreJson ==
  ASSUME NEW args, IsArgs(args), NEW machine, IsMachine(machine),
         Setters(Said(args, machine), "names") # {}
  PROVE  Nearest(Said(args, machine), "names") \in JsonValue
<1>1. PICK flags : flags = args.flags
  OBVIOUS
<1>2. PICK env : env = EnvLayer(machine.vars)
  OBVIOUS
<1>3. PICK project : project = FileLayer(machine.project)
  OBVIOUS
<1>4. PICK user, system : user = FileLayer(machine.user) /\ system = FileLayer(machine.system)
  OBVIOUS
<1>5. PICK named : named = ProfileLayer(ProfileOf(flags, env, project), ProfilesOf(project))
  OBVIOUS
<1>6. PICK said : said = Said(args, machine)
  OBVIOUS
<1>7. said = <<flags, env, named, project, user, system>>
  BY <1>1, <1>2, <1>3, <1>4, <1>5, <1>6, Zenon DEF Said, ProfileLayer, ProfileOf, ProfilesOf
<1>8. /\ DOMAIN said = 1 .. 6 /\ said[1] = flags /\ said[2] = env /\ said[3] = named
      /\ said[4] = project /\ said[5] = user /\ said[6] = system
  BY <1>7
<1>9. IsLayer(flags) /\ IsLayer(project) /\ IsLayer(user) /\ IsLayer(system)
  BY <1>1, <1>3, <1>4, FileLayerIs DEF IsArgs, IsMachine
<1>10. IsLayer(named)
  BY <1>5, <1>9, ProfileIsLayer
<1>11. "names" \notin DOMAIN env
  BY <1>2, EnvLayerIs
<1>12. PICK S : S = Setters(said, "names")
  OBVIOUS
<1>13. S # {} /\ \A i : i \in S <=> i \in 1 .. 6 /\ "names" \in DOMAIN said[i]
  BY <1>6, <1>8, <1>12 DEF Setters
<1>14. PICK m : m = Min(S)
  OBVIOUS
<1>15. m \in S
  <2>1. S \in SUBSET Nat
    BY <1>13
  <2>2. QED
    BY <1>13, <1>14, <2>1, MinIsLeast
<1>16. m \in 1 .. 6 /\ "names" \in DOMAIN said[m]
  BY <1>13, <1>15
<1>17. IsLayer(said[m])
  BY <1>8, <1>9, <1>10, <1>11, <1>16
<1>18. said[m]["names"] \in JsonValue
  BY <1>16, <1>17 DEF IsLayer
<1>19. QED
  BY <1>6, <1>12, <1>14, <1>18 DEF Nearest

\* A name means what the nearest layer with names maps it to, and itself when
\* none does (config.rs, resolve_registered).
THEOREM NamesAreAsAsked ==
  ASSUME NEW args, IsArgs(args), NEW machine, IsMachine(machine), NEW name
  PROVE  NamesAsked(args, machine, name)
<1>1. PICK said : said = Said(args, machine)
  OBVIOUS
<1>2. PICK mapped : mapped = IF Setters(said, "names") # {} /\ IsObj(Nearest(said, "names"))
                             THEN Nearest(said, "names")[2] ELSE NoLayer
  OBVIOUS
<1>3. SUFFICES Str(ResolveRegistered(args.flags, machine, name)) =
                 IF name \in DOMAIN mapped /\ IsStr(mapped[name]) THEN mapped[name] ELSE Str(name)
  BY <1>1, <1>2, Zenon DEF NamesAsked
<1>4. PICK effective : effective = LoadEffective(args.flags, machine)
  OBVIOUS
<1>5. ResolveRegistered(args.flags, machine, name) =
        IF /\ "names" \in DOMAIN effective /\ IsObj(effective["names"])
           /\ name \in DOMAIN effective["names"][2]
           /\ IsStr(effective["names"][2][name])
        THEN effective["names"][2][name][2] ELSE name
  BY <1>4, Zenon DEF ResolveRegistered
<1>6. Under(effective, "names") =
        IF Setters(said, "names") = {} THEN {} ELSE {Nearest(said, "names")}
  <2>1. PICK key : key = "names" /\ key # "profiles"
    OBVIOUS
  <2>2. QED
    BY <1>1, <1>4, <2>1, LoadedIs
<1>7. CASE Setters(said, "names") = {}
  <2>1. "names" \notin DOMAIN effective
    BY <1>6, <1>7 DEF Under
  <2>2. DOMAIN mapped = {}
    BY <1>2, <1>7 DEF NoLayer
  <2>3. QED
    BY <1>5, <2>1, <2>2
<1>8. CASE Setters(said, "names") # {}
  <2>1. PICK v : v = Nearest(said, "names")
    OBVIOUS
  <2>2. "names" \in DOMAIN effective /\ effective["names"] = v
    BY <1>6, <1>8, <2>1 DEF Under
  <2>3. v \in JsonValue
    BY <1>1, <1>8, <2>1, NamesAreJson
  <2>4. CASE IsObj(v)
    <3>1. mapped = v[2] /\ IsLayer(mapped)
      BY <1>2, <1>8, <2>1, <2>3, <2>4, HeldIsJson
    <3>2. name \in DOMAIN mapped /\ IsStr(mapped[name]) => mapped[name] = Str(mapped[name][2])
      BY <3>1, JsonValuesAssumption DEF IsLayer
    <3>3. QED
      BY <1>5, <2>2, <2>4, <3>1, <3>2
  <2>5. CASE ~IsObj(v)
    <3>1. DOMAIN mapped = {}
      BY <1>2, <2>1, <2>5 DEF NoLayer
    <3>2. QED
      BY <1>5, <2>2, <2>5, <3>1
  <2>6. QED
    BY <2>4, <2>5
<1>9. QED
  BY <1>7, <1>8

-----------------------------------------------------------------------------
(* Inputs                                                                  *)

\* A finite set in some order.
LEMMA OrderedIs ==
  ASSUME NEW S, IsFiniteSet(S)
  PROVE  \E n \in Nat : /\ SetToSeq(S) \in [1 .. n -> S] /\ Len(SetToSeq(S)) = n
                        /\ \A i, j \in 1 .. n : SetToSeq(S)[i] = SetToSeq(S)[j] => i = j
                        /\ \A x \in S : \E i \in 1 .. n : SetToSeq(S)[i] = x
<1>1. PICK n \in Nat : n = Cardinality(S) /\ ExistsBijection(1 .. n, S)
  BY FS_CardinalityType
<1>2. \E f \in [1 .. n -> S] : IsInjective(f)
  BY <1>1 DEF ExistsBijection, Bijection, Injection
<1>3. PICK f : f = SetToSeq(S)
  OBVIOUS
<1>4. f \in [1 .. n -> S] /\ IsInjective(f)
  BY <1>1, <1>2, <1>3 DEF SetToSeq
<1>5. f \in Surjection(1 .. n, S)
  <2>1. f \in Injection(1 .. n, S)
    BY <1>4 DEF Injection
  <2>2. Cardinality(1 .. n) = n
    BY FS_Interval
  <2>3. PICK D : D = 1 .. n
    OBVIOUS
  <2>4. QED
    BY <1>1, <2>1, <2>2, <2>3, FS_Injection
<1>6. \A x \in S : \E i \in 1 .. n : f[i] = x
  BY <1>5 DEF Surjection
<1>7. \A i, j \in 1 .. n : f[i] = f[j] => i = j
  BY <1>4 DEF IsInjective
<1>8. Len(f) = n
  BY <1>4
<1>9. QED
  BY <1>3, <1>4, <1>6, <1>7, <1>8

\* Three sequences one after the other.
Joined(J, a, b, c, A, B, C) ==
  /\ DOMAIN J = 1 .. (a + b + c) /\ Len(J) = a + b + c
  /\ \A i \in 1 .. a : J[i] = A[i]
  /\ \A i \in 1 .. b : J[a + i] = B[i]
  /\ \A i \in 1 .. c : J[a + b + i] = C[i]

LEMMA JoinedIs ==
  ASSUME NEW a \in Nat, NEW b \in Nat, NEW c \in Nat, NEW T,
         NEW A \in [1 .. a -> T], NEW B \in [1 .. b -> T], NEW C \in [1 .. c -> T]
  PROVE  Joined(A \o B \o C, a, b, c, A, B, C)
<1>1. A \in Seq(T) /\ B \in Seq(T) /\ C \in Seq(T) /\ Len(A) = a /\ Len(B) = b /\ Len(C) = c
  OBVIOUS
<1>2. /\ A \o B \in Seq(T) /\ Len(A \o B) = a + b
      /\ \A i \in 1 .. (a + b) : (A \o B)[i] = IF i <= a THEN A[i] ELSE B[i - a]
  BY <1>1, ConcatProperties
<1>3. /\ \A i \in 1 .. a : (A \o B)[i] = A[i]
      /\ \A i \in 1 .. b : (A \o B)[a + i] = B[i]
  <2>1. \A i \in 1 .. a : i \in 1 .. (a + b) /\ i <= a
    OBVIOUS
  <2>2. \A i \in 1 .. b : a + i \in 1 .. (a + b) /\ ~(a + i <= a) /\ (a + i) - a = i
    OBVIOUS
  <2>3. QED
    BY <1>2, <2>1, <2>2
<1>4. PICK J : J = A \o B
  OBVIOUS
<1>5. J \in Seq(T) /\ Len(J) = a + b
  BY <1>2, <1>4
<1>6. /\ \A i \in 1 .. (a + b) : (J \o C)[i] = J[i]
      /\ \A i \in 1 .. c : (J \o C)[a + b + i] = C[i]
      /\ J \o C \in Seq(T) /\ Len(J \o C) = a + b + c
  <2>1. PICK m \in Nat : m = a + b
    OBVIOUS
  <2>2. Len(J) = m
    BY <1>5, <2>1
  <2>3. J \o C \in Seq(T) /\ Len(J \o C) = m + c
    BY ONLY <1>1, <1>5, <2>2, ConcatProperties
  <2>4. \A i \in 1 .. m : (J \o C)[i] = J[i]
    BY <1>1, <1>5, <2>2
  <2>5. \A i \in 1 .. c : (J \o C)[m + i] = C[i]
    BY <1>1, <1>5, <2>2
  <2>6. QED
    BY <2>1, <2>3, <2>4, <2>5
<1>7. QED
  BY <1>3, <1>4, <1>5, <1>6 DEF Joined

\* A text is parsed as one value at most, which has the type when it has the shape.
LEMMA ParsedIs ==
  ASSUME NEW type \in InputTypes, NEW text
  PROVE  /\ ParsedAs(type, text) = {} \/ \E x : ParsedAs(type, text) = {x}
         /\ \A x \in ParsedAs(type, text) : ShapeOk(type, x) <=> HasType(type, x)
<1>1. CASE type = "number"
  <2>1. ParsedAs(type, text) = IF text \in DOMAIN Numeral THEN {Numeral[text]} ELSE {}
    BY <1>1 DEF ParsedAs
  <2>2. \A x : (ShapeOk(type, x) <=> TRUE) /\ (HasType(type, x) <=> IsNum(x))
    BY <1>1 DEF ShapeOk, HasType
  <2>3. QED
    BY <2>1, <2>2, NumeralsAssumption
<1>2. CASE type = "boolean"
  <2>1. ParsedAs(type, text) = IF text \in {"true", "false"} THEN {Bool(text = "true")} ELSE {}
    BY <1>2 DEF ParsedAs
  <2>2. \A x : (ShapeOk(type, x) <=> TRUE) /\ (HasType(type, x) <=> x \in {Bool(TRUE), Bool(FALSE)})
    BY <1>2 DEF ShapeOk, HasType
  <2>3. Bool(text = "true") \in {Bool(TRUE), Bool(FALSE)}
    <3>1. CASE text = "true"
      <4>1. (text = "true") = TRUE
        BY <3>1
      <4>2. QED
        BY <4>1, Zenon
    <3>2. CASE text # "true"
      <4>1. (text = "true") = FALSE
        BY <3>2
      <4>2. QED
        BY <4>1, Zenon
    <3>3. QED
      BY <3>1, <3>2
  <2>4. PICK B : B = Bool(text = "true")
    OBVIOUS
  <2>5. ParsedAs(type, text) = {B} \/ ParsedAs(type, text) = {}
    BY <2>1, <2>4, Zenon
  <2>6. QED
    BY <2>2, <2>3, <2>4, <2>5, Zenon
<1>3. CASE type = "object" \/ type = "array"
  <2>1. ParsedAs(type, text) = Spelled(text)
    BY <1>3 DEF ParsedAs
  <2>2. \A x : ShapeOk(type, x) <=> HasType(type, x)
    BY <1>3 DEF ShapeOk, HasType
  <2>3. QED
    BY <2>1, <2>2 DEF Spelled
<1>4. CASE type = "string" \/ type = "untyped"
  <2>1. ParsedAs(type, text) = {Str(text)}
    BY <1>4 DEF ParsedAs
  <2>2. \A x : (ShapeOk(type, x) <=> TRUE) /\ (HasType(type, x) <=> IsStr(x))
    BY <1>4 DEF ShapeOk, HasType
  <2>3. IsStr(Str(text))
    BY DEF IsStr, Str
  <2>4. QED
    BY <2>1, <2>2, <2>3
<1>5. QED
  BY <1>1, <1>2, <1>3, <1>4 DEF InputTypes

\* A value is coerced to what is accepted of it, or refused when nothing is.
LEMMA CoercedIs ==
  ASSUME NEW declared, declared \in [DOMAIN declared -> InputTypes], NEW k, NEW v
  PROVE  /\ IsFine(CoerceDeclared(declared, k, v)) =>
              {CoerceDeclared(declared, k, v)[2]} = Accepted(declared, k, v)
         /\ ~IsFine(CoerceDeclared(declared, k, v)) =>
              /\ Accepted(declared, k, v) = {}
              /\ CoerceDeclared(declared, k, v) = Fault("input_type_mismatch")
<1>1. CASE k \notin DOMAIN declared \/ ~IsStr(v)
  <2>1. CoerceDeclared(declared, k, v) = Fine(v) /\ Accepted(declared, k, v) = {v}
    BY <1>1 DEF CoerceDeclared, Accepted
  <2>2. QED
    BY <2>1, FineIs
<1>2. CASE k \in DOMAIN declared /\ IsStr(v)
  <2>1. PICK type \in InputTypes : type = declared[k]
    BY <1>2
  <2>2. PICK P : P = ParsedAs(type, v[2])
    OBVIOUS
  <2>3. /\ P = {} \/ \E x : P = {x}
        /\ \A x \in P : ShapeOk(type, x) <=> HasType(type, x)
    BY <2>2, ParsedIs
  <2>4. Accepted(declared, k, v) = {x \in P : HasType(type, x)}
    BY <1>2, <2>1, <2>2 DEF Accepted
  <2>5. CoerceDeclared(declared, k, v) =
          IF \E x \in P : ShapeOk(type, x) THEN Fine(CHOOSE x \in P : TRUE)
          ELSE Fault("input_type_mismatch")
    BY <1>2, <2>1, <2>2 DEF CoerceDeclared
  <2>6. CASE \E x \in P : ShapeOk(type, x)
    <3>1. PICK x : P = {x}
      BY <2>3, <2>6
    <3>2. HasType(type, x) /\ (CHOOSE y \in P : TRUE) = x
      BY <2>3, <2>6, <3>1
    <3>3. Accepted(declared, k, v) = {x} /\ CoerceDeclared(declared, k, v) = Fine(x)
      BY <2>4, <2>5, <2>6, <3>1, <3>2
    <3>4. QED
      BY <3>3, FineIs
  <2>7. CASE ~\E x \in P : ShapeOk(type, x)
    <3>1. Accepted(declared, k, v) = {}
      BY <2>3, <2>4, <2>7
    <3>2. CoerceDeclared(declared, k, v) = Fault("input_type_mismatch")
      BY <2>5, <2>7
    <3>3. QED
      BY <3>1, <3>2, FineIs
  <2>8. QED
    BY <2>6, <2>7
<1>3. QED
  BY <1>1, <1>2

\* Who supplies an input by a flag.
Flagged(entries, k) == {i \in 1..Len(entries) : entries[i].key = k}

LEMMA EntrySupplied ==
  ASSUME NEW declared, declared \in [DOMAIN declared -> InputTypes], NEW e
  PROVE  /\ IsFine(EntrySupply(declared, e)[2]) =>
              /\ EntrySupply(declared, e)[1] = e.key
              /\ {EntrySupply(declared, e)[2][2]} = FromEntry(declared, e)
         /\ ~IsFine(EntrySupply(declared, e)[2]) =>
              /\ FromEntry(declared, e) = {}
              /\ EntrySupply(declared, e)[2] = EntryFault(e)
<1>1. CASE e.form = "text"
  <2>1. EntrySupply(declared, e) = <<e.key, CoerceDeclared(declared, e.key, Str(e.text))>>
    BY <1>1 DEF EntrySupply
  <2>2. PICK v, k : v = Str(e.text) /\ k = e.key
    OBVIOUS
  <2>3. PICK r : r = CoerceDeclared(declared, k, v)
    OBVIOUS
  <2>4. /\ IsFine(r) => {r[2]} = Accepted(declared, k, v)
        /\ ~IsFine(r) => Accepted(declared, k, v) = {} /\ r = Fault("input_type_mismatch")
    BY <2>3, CoercedIs
  <2>5. EntrySupply(declared, e)[1] = k /\ EntrySupply(declared, e)[2] = r
    BY <2>1, <2>2, <2>3
  <2>6. FromEntry(declared, e) = Accepted(declared, k, v) /\ EntryFault(e) = Fault("input_type_mismatch")
    BY <1>1, <2>2 DEF FromEntry, EntryFault
  <2>7. QED
    BY <2>2, <2>4, <2>5, <2>6
<1>2. CASE e.form = "json"
  <2>1. EntrySupply(declared, e) =
          <<e.key, IF Spelled(e.text) = {} THEN Fault("input_json_invalid")
                   ELSE Fine(CHOOSE v \in Spelled(e.text) : TRUE)>>
    BY <1>2 DEF EntrySupply
  <2>2. FromEntry(declared, e) = Spelled(e.text) /\ EntryFault(e) = Fault("input_json_invalid")
    BY <1>2 DEF FromEntry, EntryFault
  <2>3. CASE Spelled(e.text) = {}
    BY <2>1, <2>2, <2>3, FineIs
  <2>4. CASE Spelled(e.text) # {}
    <3>1. PICK x : Spelled(e.text) = {x}
      BY <2>4 DEF Spelled
    <3>2. (CHOOSE v \in Spelled(e.text) : TRUE) = x
      BY <3>1
    <3>3. EntrySupply(declared, e) = <<e.key, Fine(x)>>
      BY <2>1, <2>4, <3>2
    <3>4. QED
      BY <2>2, <3>1, <3>3, FineIs
  <2>5. QED
    BY <2>3, <2>4
<1>3. CASE e.form # "text" /\ e.form # "json"
  <2>1. EntrySupply(declared, e) = <<Blank, Fault("input_malformed")>>
    BY <1>3 DEF EntrySupply
  <2>2. FromEntry(declared, e) = {} /\ EntryFault(e) = Fault("input_malformed")
    BY <1>3 DEF FromEntry, EntryFault
  <2>3. QED
    BY <2>1, <2>2, FineIs
<1>4. QED
  BY <1>1, <1>2, <1>3

\* n supplies, one for each of the keys K, and what each is read as.
IsSupplyOf(s, n) == s = [i \in 1 .. n |-> s[i]]

Orderly(s, n, K, reads) ==
  \E keys \in [1 .. n -> K] :
    /\ \A i, j \in 1 .. n : keys[i] = keys[j] => i = j
    /\ \A k \in K : \E i \in 1 .. n : keys[i] = k
    /\ \A i \in 1 .. n : IsFine(s[i][2]) => s[i][1] = keys[i] /\ {s[i][2][2]} = reads[keys[i]]

\* Of n supplies those that are at fault are at the one fault there is.
Faulted(s, n, faults) ==
  /\ \A i \in 1 .. n : ~IsFine(s[i][2]) => {s[i][2]} = faults
  /\ faults # {} => \E i \in 1 .. n : ~IsFine(s[i][2])

EnvKeys(declared, vars) == {k \in DOMAIN declared : InEnvironment(declared, vars, k)}
FileKeys(file) == IF file # None /\ IsObj(file) THEN DOMAIN file[2] ELSE {}

LEMMA EnvSuppliesAre ==
  ASSUME NEW declared, declared \in [DOMAIN declared -> InputTypes],
         IsFiniteSet(DOMAIN declared), NEW vars
  PROVE  \E n \in Nat :
           /\ IsSupplyOf(EnvSupplies(declared, vars), n)
           /\ Faulted(EnvSupplies(declared, vars), n, EnvFaults(declared, vars))
           /\ Orderly(EnvSupplies(declared, vars), n, EnvKeys(declared, vars),
                      [k \in EnvKeys(declared, vars) |-> Accepted(declared, k, Str(vars[k]))])
<1>1. PICK K : K = EnvKeys(declared, vars)
  OBVIOUS
<1>2. K = {k \in DOMAIN declared \cap DOMAIN vars : vars[k] # Blank}
  BY <1>1 DEF EnvKeys, InEnvironment
<1>3. IsFiniteSet(K)
  BY <1>2, FS_Subset
<1>4. PICK names : names = SetToSeq(K)
  OBVIOUS
<1>5. PICK n \in Nat : /\ names \in [1 .. n -> K] /\ Len(names) = n
                       /\ \A i, j \in 1 .. n : names[i] = names[j] => i = j
                       /\ \A x \in K : \E i \in 1 .. n : names[i] = x
  <2>1. \E n \in Nat : /\ SetToSeq(K) \in [1 .. n -> K] /\ Len(SetToSeq(K)) = n
                       /\ \A i, j \in 1 .. n : SetToSeq(K)[i] = SetToSeq(K)[j] => i = j
                       /\ \A x \in K : \E i \in 1 .. n : SetToSeq(K)[i] = x
    BY ONLY <1>3, OrderedIs
  <2>2. QED
    BY <1>4, <2>1
<1>6. PICK s : s = EnvSupplies(declared, vars)
  OBVIOUS
<1>7. s = [i \in 1 .. n |-> <<names[i], CoerceDeclared(declared, names[i], Str(vars[names[i]]))>>]
  BY <1>2, <1>4, <1>5, <1>6, Zenon DEF EnvSupplies
<1>8. PICK reads : reads = [k \in K |-> Accepted(declared, k, Str(vars[k]))]
  OBVIOUS
<1>9. ASSUME NEW i \in 1 .. n, IsFine(s[i][2])
      PROVE  s[i][1] = names[i] /\ {s[i][2][2]} = reads[names[i]]
  <2>1. PICK k, v : k = names[i] /\ v = Str(vars[k])
    OBVIOUS
  <2>2. s[i] = <<k, CoerceDeclared(declared, k, v)>> /\ k \in K
    BY <1>5, <1>7, <2>1
  <2>3. {CoerceDeclared(declared, k, v)[2]} = Accepted(declared, k, v)
    BY <1>9, <2>2, CoercedIs
  <2>4. QED
    BY <1>8, <2>1, <2>2, <2>3
<1>10. Orderly(s, n, K, reads)
  BY <1>5, <1>9, Zenon DEF Orderly
<1>11. IsSupplyOf(s, n)
  BY <1>7 DEF IsSupplyOf
<1>12. PICK wrong : wrong = Fault("input_type_mismatch")
  OBVIOUS
<1>13. PICK faults : faults = EnvFaults(declared, vars)
  OBVIOUS
<1>14. faults = {wrong : k \in {x \in K : Accepted(declared, x, Str(vars[x])) = {}}}
  BY <1>1, <1>12, <1>13 DEF EnvFaults, EnvKeys
<1>15. Faulted(s, n, faults)
  <2>1. ASSUME NEW i \in 1 .. n
        PROVE  /\ ~IsFine(s[i][2]) <=> Accepted(declared, names[i], Str(vars[names[i]])) = {}
               /\ ~IsFine(s[i][2]) => s[i][2] = wrong
    <3>1. PICK k, v : k = names[i] /\ v = Str(vars[k])
      OBVIOUS
    <3>2. PICK r : r = CoerceDeclared(declared, k, v)
      OBVIOUS
    <3>3. s[i][2] = r
      BY <1>7, <3>1, <3>2
    <3>4. /\ IsFine(r) => {r[2]} = Accepted(declared, k, v)
          /\ ~IsFine(r) => Accepted(declared, k, v) = {} /\ r = wrong
      BY <1>12, <3>2, CoercedIs
    <3>5. QED
      BY <3>1, <3>3, <3>4
  <2>2. ASSUME NEW i \in 1 .. n, ~IsFine(s[i][2]) PROVE {s[i][2]} = faults
    <3>1. names[i] \in {x \in K : Accepted(declared, x, Str(vars[x])) = {}}
      BY <1>5, <2>1, <2>2
    <3>2. QED
      BY <1>14, <2>1, <2>2, <3>1
  <2>3. ASSUME faults # {} PROVE \E i \in 1 .. n : ~IsFine(s[i][2])
    <3>1. PICK k \in K : Accepted(declared, k, Str(vars[k])) = {}
      BY <1>14, <2>3
    <3>2. PICK i \in 1 .. n : names[i] = k
      BY <1>5
    <3>3. QED
      BY <2>1, <3>1, <3>2
  <2>4. QED
    BY <2>2, <2>3 DEF Faulted
<1>16. QED
  BY <1>1, <1>6, <1>8, <1>10, <1>11, <1>13, <1>15

LEMMA FileSuppliesAre ==
  ASSUME NEW declared, declared \in [DOMAIN declared -> InputTypes],
         NEW file \in {None} \cup FileFaults \cup JsonValue
  PROVE  \E n \in Nat :
           /\ IsSupplyOf(FileSupplies(declared, file), n)
           /\ Faulted(FileSupplies(declared, file), n, InputsFileFaults(declared, file))
           /\ (\A i \in 1 .. n : IsFine(FileSupplies(declared, file)[i][2])) =>
                Orderly(FileSupplies(declared, file), n, FileKeys(file),
                        [k \in FileKeys(file) |-> Accepted(declared, k, file[2][k])])
<1>1. PICK s : s = FileSupplies(declared, file)
  OBVIOUS
<1>2. PICK K : K = FileKeys(file)
  OBVIOUS
<1>3. PICK reads : reads = [k \in K |-> Accepted(declared, k, file[2][k])]
  OBVIOUS
<1>4. PICK faults : faults = InputsFileFaults(declared, file)
  OBVIOUS
<1>5. SUFFICES \E n \in Nat : /\ IsSupplyOf(s, n)
                              /\ Faulted(s, n, faults)
                              /\ (\A i \in 1 .. n : IsFine(s[i][2])) => Orderly(s, n, K, reads)
  BY <1>1, <1>2, <1>3, <1>4
<1>6. CASE file = None
  <2>1. s = <<>> /\ K = {}
    BY <1>1, <1>2, <1>6 DEF FileSupplies, FileKeys
  <2>2. IsSupplyOf(s, 0)
    BY <2>1 DEF IsSupplyOf
  <2>3. Orderly(s, 0, K, reads)
    <3>1. PICK keys : keys = [i \in {} |-> 0]
      OBVIOUS
    <3>2. 1 .. 0 = {} /\ keys \in [1 .. 0 -> K]
      BY <2>1, <3>1
    <3>3. QED
      BY <2>1, <3>2 DEF Orderly
  <2>4. faults = {}
    BY <1>6, <1>4 DEF InputsFileFaults
  <2>5. Faulted(s, 0, faults)
    BY <2>4 DEF Faulted
  <2>6. QED
    BY <2>2, <2>3, <2>5
<1>7. CASE file # None /\ (file \in FileFaults \/ ~IsObj(file))
  <2>1. PICK code : s = <<<<Blank, Fault(code)>>>> /\ faults = {Fault(code)}
    BY <1>1, <1>7, <1>4 DEF FileSupplies, InputsFileFaults, FileFaults
  <2>2. s[1] = <<Blank, Fault(code)>>
    BY <2>1
  <2>3. IsSupplyOf(s, 1)
    BY <2>1 DEF IsSupplyOf
  <2>4. ~IsFine(s[1][2])
    BY <2>2, FineIs
  <2>5. Faulted(s, 1, faults)
    BY <2>1, <2>2, <2>4 DEF Faulted
  <2>6. QED
    BY <2>3, <2>4, <2>5
<1>8. CASE file # None /\ file \notin FileFaults /\ IsObj(file)
  <2>1. file \in JsonValue /\ K = DOMAIN file[2] /\ IsFiniteSet(K)
    BY <1>2, <1>8, JsonValuesAssumption DEF FileKeys
  <2>2. PICK keys : keys = SetToSeq(K)
    OBVIOUS
  <2>3. PICK n \in Nat : /\ keys \in [1 .. n -> K] /\ Len(keys) = n
                         /\ \A i, j \in 1 .. n : keys[i] = keys[j] => i = j
                         /\ \A x \in K : \E i \in 1 .. n : keys[i] = x
    BY <2>1, <2>2, OrderedIs
  <2>4. s = [i \in 1 .. n |-> <<keys[i], CoerceDeclared(declared, keys[i], file[2][keys[i]])>>]
    BY <1>1, <1>8, <2>1, <2>2, <2>3, Zenon DEF FileSupplies, FileFaults
  <2>5. ASSUME NEW i \in 1 .. n, IsFine(s[i][2])
        PROVE  s[i][1] = keys[i] /\ {s[i][2][2]} = reads[keys[i]]
    <3>1. PICK k, v : k = keys[i] /\ v = file[2][k]
      OBVIOUS
    <3>2. s[i] = <<k, CoerceDeclared(declared, k, v)>> /\ k \in K
      BY <2>3, <2>4, <3>1
    <3>3. {CoerceDeclared(declared, k, v)[2]} = Accepted(declared, k, v)
      BY <2>5, <3>2, CoercedIs
    <3>4. QED
      BY <1>3, <3>1, <3>2, <3>3
  <2>6. Orderly(s, n, K, reads)
    BY <2>3, <2>5, Zenon DEF Orderly
  <2>7. IsSupplyOf(s, n)
    BY <2>4 DEF IsSupplyOf
  <2>8. PICK wrong : wrong = Fault("input_type_mismatch")
    OBVIOUS
  <2>9. faults = {wrong : k \in {x \in K : Accepted(declared, x, file[2][x]) = {}}}
    BY <1>8, <1>4, <2>1, <2>8 DEF InputsFileFaults
  <2>10. ASSUME NEW i \in 1 .. n
         PROVE  /\ ~IsFine(s[i][2]) <=> Accepted(declared, keys[i], file[2][keys[i]]) = {}
                /\ ~IsFine(s[i][2]) => s[i][2] = wrong
    <3>1. PICK k, v : k = keys[i] /\ v = file[2][k]
      OBVIOUS
    <3>2. PICK r : r = CoerceDeclared(declared, k, v)
      OBVIOUS
    <3>3. s[i][2] = r
      BY <2>4, <3>1, <3>2
    <3>4. /\ IsFine(r) => {r[2]} = Accepted(declared, k, v)
          /\ ~IsFine(r) => Accepted(declared, k, v) = {} /\ r = wrong
      BY <2>8, <3>2, CoercedIs
    <3>5. QED
      BY <3>1, <3>3, <3>4
  <2>11. Faulted(s, n, faults)
    <3>1. ASSUME NEW i \in 1 .. n, ~IsFine(s[i][2]) PROVE {s[i][2]} = faults
      <4>1. keys[i] \in {x \in K : Accepted(declared, x, file[2][x]) = {}}
        BY <2>3, <2>10, <3>1
      <4>2. QED
        BY <2>9, <2>10, <3>1, <4>1
    <3>2. ASSUME faults # {} PROVE \E i \in 1 .. n : ~IsFine(s[i][2])
      <4>1. PICK k \in K : Accepted(declared, k, file[2][k]) = {}
        BY <2>9, <3>2
      <4>2. PICK i \in 1 .. n : keys[i] = k
        BY <2>3
      <4>3. QED
        BY <2>10, <4>1, <4>2
    <3>3. QED
      BY <3>1, <3>2 DEF Faulted
  <2>12. QED
    BY <2>6, <2>7, <2>11
<1>9. QED
  BY <1>6, <1>7, <1>8

\* The greatest of a set of positions is the one that all others are up to.
LEMMA MaxIs ==
  ASSUME NEW n \in Nat, NEW P \in SUBSET (1 .. n), NEW m \in P, \A x \in P : x <= m
  PROVE  Max(P) = m
<1>1. P # {} /\ P \subseteq Int
  OBVIOUS
<1>2. PICK x : x = Max(P)
  OBVIOUS
<1>3. x \in P /\ \A y \in P : y <= x
  BY <1>1, <1>2, MaxIsLast
<1>4. x <= m /\ m <= x /\ x \in Int /\ m \in Int
  BY <1>1, <1>3
<1>5. QED
  BY <1>2, <1>4

\* n keys, each of K once.
KeysOf(keys, n, K) ==
  /\ keys \in [1 .. n -> K]
  /\ \A i, j \in 1 .. n : keys[i] = keys[j] => i = j
  /\ \A x \in K : \E i \in 1 .. n : keys[i] = x

\* The n pairs after a position are the keys with what they are read as.
SaysKeys(pairs, from, n, keys, reads) ==
  \A i \in 1 .. n : pairs[from + i][1] = keys[i] /\ {pairs[from + i][2]} = reads[keys[i]]

SaysEntries(pairs, from, n, entries, reads) ==
  \A i \in 1 .. n : pairs[from + i][1] = entries[i].key /\ {pairs[from + i][2]} = reads[i]

ThreeSupplies(a, b, c, entries, pairs, KA, KB, RA, RB, RC, ka, kb) ==
  /\ a \in Nat /\ b \in Nat /\ c \in Nat /\ Len(entries) = c /\ DOMAIN pairs = 1 .. (a + b + c)
  /\ KeysOf(ka, a, KA) /\ SaysKeys(pairs, 0, a, ka, RA)
  /\ KeysOf(kb, b, KB) /\ SaysKeys(pairs, a, b, kb, RB)
  /\ SaysEntries(pairs, a + b, c, entries, RC)

\* Of three supplies one after the other the last to have a key says its value.
LEMMA LastSupply ==
  ASSUME NEW a, NEW b, NEW c, NEW entries, NEW pairs, NEW KA, NEW KB, NEW RA, NEW RB, NEW RC,
         NEW ka, NEW kb, ThreeSupplies(a, b, c, entries, pairs, KA, KB, RA, RB, RC, ka, kb), NEW k
  PROVE  Under(Inserted(NoLayer, pairs), k) =
           IF Flagged(entries, k) # {} THEN RC[Max(Flagged(entries, k))]
           ELSE IF k \in KB THEN RB[k] ELSE IF k \in KA THEN RA[k] ELSE {}
<1>0. /\ a \in Nat /\ b \in Nat /\ c \in Nat /\ Len(entries) = c /\ DOMAIN pairs = 1 .. (a + b + c)
      /\ \A i, j \in 1 .. a : ka[i] = ka[j] => i = j
      /\ \A i, j \in 1 .. b : kb[i] = kb[j] => i = j
      /\ \A x \in KA : \E i \in 1 .. a : ka[i] = x
      /\ \A x \in KB : \E i \in 1 .. b : kb[i] = x
      /\ \A i \in 1 .. a : ka[i] \in KA
      /\ \A i \in 1 .. b : kb[i] \in KB
      /\ \A i \in 1 .. a : pairs[i][1] = ka[i] /\ {pairs[i][2]} = RA[ka[i]]
      /\ \A i \in 1 .. b : pairs[a + i][1] = kb[i] /\ {pairs[a + i][2]} = RB[kb[i]]
      /\ \A i \in 1 .. c : pairs[a + b + i][1] = entries[i].key /\ {pairs[a + b + i][2]} = RC[i]
  <2>1. \A i \in 1 .. a : 0 + i = i
    BY DEF ThreeSupplies
  <2>2. \A i \in 1 .. a : pairs[i][1] = ka[i] /\ {pairs[i][2]} = RA[ka[i]]
    BY <2>1 DEF ThreeSupplies, SaysKeys
  <2>3. \A i \in 1 .. b : pairs[a + i][1] = kb[i] /\ {pairs[a + i][2]} = RB[kb[i]]
    BY DEF ThreeSupplies, SaysKeys
  <2>4. \A i \in 1 .. c : pairs[a + b + i][1] = entries[i].key /\ {pairs[a + b + i][2]} = RC[i]
    BY DEF ThreeSupplies, SaysEntries
  <2>5. a \in Nat /\ b \in Nat /\ c \in Nat /\ Len(entries) = c /\ DOMAIN pairs = 1 .. (a + b + c)
    BY DEF ThreeSupplies
  <2>6. QED
    BY <2>2, <2>3, <2>4, <2>5 DEF ThreeSupplies, KeysOf
<1> USE <1>0
<1>1. PICK n \in Nat : n = a + b + c
  OBVIOUS
<1>2. PICK P : P = Places(pairs, n, k)
  OBVIOUS
<1>3. P \in SUBSET (1 .. n) /\ \A i : i \in P <=> i \in 1 .. n /\ pairs[i][1] = k
  BY <1>2 DEF Places
<1>4. Under(Inserted(NoLayer, pairs), k) = IF P = {} THEN {} ELSE {pairs[Max(P)][2]}
  <2>1. PICK base : base = NoLayer /\ IsMap(base) /\ Under(base, k) = {}
    <3>1. DOMAIN NoLayer = {}
      BY DEF NoLayer
    <3>2. NoLayer = [x \in DOMAIN NoLayer |-> NoLayer[x]]
      BY <3>1 DEF NoLayer
    <3>3. QED
      BY <3>1, <3>2 DEF IsMap, Under
  <2>2. DOMAIN pairs = 1 .. n
    BY <1>1
  <2>3. Under(Inserted(base, pairs), k) = IF Places(pairs, n, k) = {} THEN Under(base, k)
                                          ELSE {pairs[Max(Places(pairs, n, k))][2]}
    BY ONLY <2>1, <2>2, n \in Nat, InsertedUnder
  <2>4. QED
    BY <1>2, <2>1, <2>3
<1>5. /\ \A i \in 1 .. a : i \in 1 .. n
      /\ \A i \in 1 .. b : a + i \in 1 .. n
      /\ \A i \in 1 .. c : a + b + i \in 1 .. n
      /\ \A j \in 1 .. n : \/ j \in 1 .. a
                           \/ j - a \in 1 .. b /\ j = a + (j - a)
                           \/ j - (a + b) \in 1 .. c /\ j = a + b + (j - (a + b))
  <2>1. a \in Nat /\ b \in Nat /\ c \in Nat
    BY <1>0
  <2>2. QED
    BY ONLY <1>1, <2>1
<1>6. PICK F : F = Flagged(entries, k)
  OBVIOUS
<1>7. F \in SUBSET (1 .. c) /\ \A i : i \in F <=> i \in 1 .. c /\ entries[i].key = k
  BY <1>6 DEF Flagged
<1>8. \A i \in 1 .. c : a + b + i \in P <=> i \in F
  <2>1. SUFFICES ASSUME NEW i \in 1 .. c PROVE a + b + i \in P <=> i \in F
    OBVIOUS
  <2>2. PICK j : j = a + b + i
    OBVIOUS
  <2>3. j \in 1 .. n /\ pairs[j][1] = entries[i].key
    BY <1>5, <2>2
  <2>4. j \in P <=> entries[i].key = k
    BY <1>3, <2>3
  <2>5. i \in F <=> entries[i].key = k
    BY <1>7
  <2>6. QED
    BY ONLY <2>2, <2>4, <2>5
<1>9. CASE F # {}
  <2>1. PICK m : m = Max(F)
    OBVIOUS
  <2>2. m \in F /\ \A i \in F : i <= m
    BY <1>7, <1>9, <2>1, MaxIsLast
  <2>3. a + b + m \in P /\ m \in 1 .. c
    BY <1>7, <1>8, <2>2
  <2>4. \A j \in P : j <= a + b + m
    <3>1. SUFFICES ASSUME NEW j \in P PROVE j <= a + b + m
      OBVIOUS
    <3>2. j \in 1 .. n
      BY <1>3
    <3>3. CASE j - (a + b) \in 1 .. c /\ j = a + b + (j - (a + b))
      <4>1. PICK i \in 1 .. c : i = j - (a + b)
        BY <3>3
      <4>2. i \in F
        BY <1>8, <3>3, <4>1
      <4>3. i <= m
        BY <2>2, <4>2
      <4>4. QED
        BY <2>3, <3>2, <4>1, <4>3
    <3>4. CASE j \in 1 .. a \/ j - a \in 1 .. b
      BY <2>3, <3>2, <3>4
    <3>5. QED
      BY <1>5, <3>2, <3>3, <3>4
  <2>5. Max(P) = a + b + m
    <3>1. PICK last : last = a + b + m
      OBVIOUS
    <3>2. QED
      BY <1>3, <2>3, <2>4, <3>1, MaxIs
  <2>6. {pairs[a + b + m][2]} = RC[m]
    BY <2>3
  <2>7. QED
    BY <1>4, <1>6, <1>9, <2>1, <2>3, <2>5, <2>6
<1>10. CASE F = {} /\ k \in KB
  <2>1. PICK m \in 1 .. b : kb[m] = k
    BY <1>10
  <2>2. a + m \in P
    BY <1>3, <1>5, <2>1
  <2>3. \A j \in P : j <= a + m
    <3>1. SUFFICES ASSUME NEW j \in P PROVE j <= a + m
      OBVIOUS
    <3>2. j \in 1 .. n /\ pairs[j][1] = k
      BY <1>3
    <3>3. ~(j - (a + b) \in 1 .. c /\ j = a + b + (j - (a + b)))
      <4>1. SUFFICES ASSUME j - (a + b) \in 1 .. c, j = a + b + (j - (a + b)) PROVE FALSE
        OBVIOUS
      <4>2. PICK i \in 1 .. c : i = j - (a + b)
        BY <4>1
      <4>3. a + b + i \in P
        BY <4>1, <4>2
      <4>4. QED
        BY <1>8, <1>10, <4>3
    <3>4. CASE j - a \in 1 .. b /\ j = a + (j - a)
      <4>1. PICK i \in 1 .. b : i = j - a
        BY <3>4
      <4>2. kb[i] = k
        BY <3>2, <3>4, <4>1
      <4>3. i = m
        BY <2>1, <4>2
      <4>4. QED
        BY <3>2, <4>1, <4>3
    <3>5. CASE j \in 1 .. a
      BY <2>1, <3>5
    <3>6. QED
      BY <1>5, <3>2, <3>3, <3>4, <3>5
  <2>4. Max(P) = a + m
    <3>1. PICK last : last = a + m
      OBVIOUS
    <3>2. QED
      BY <1>3, <2>2, <2>3, <3>1, MaxIs
  <2>5. {pairs[a + m][2]} = RB[k]
    BY <2>1
  <2>6. QED
    BY <1>4, <1>6, <1>10, <2>2, <2>4, <2>5
<1>11. ASSUME F = {}, k \notin KB PROVE \A j \in P : j \in 1 .. a /\ ka[j] = k
  <2>1. SUFFICES ASSUME NEW j \in P PROVE j \in 1 .. a /\ ka[j] = k
    OBVIOUS
  <2>2. j \in 1 .. n /\ pairs[j][1] = k
    BY <1>3
  <2>3. ~(j - (a + b) \in 1 .. c /\ j = a + b + (j - (a + b)))
    <3>1. SUFFICES ASSUME j - (a + b) \in 1 .. c, j = a + b + (j - (a + b)) PROVE FALSE
      OBVIOUS
    <3>2. PICK i \in 1 .. c : i = j - (a + b)
      BY <3>1
    <3>3. a + b + i \in P
      BY <3>1, <3>2
    <3>4. QED
      BY <1>8, <1>11, <3>3
  <2>4. ~(j - a \in 1 .. b /\ j = a + (j - a))
    <3>1. SUFFICES ASSUME j - a \in 1 .. b, j = a + (j - a) PROVE FALSE
      OBVIOUS
    <3>2. PICK i \in 1 .. b : i = j - a
      BY <3>1
    <3>3. kb[i] = k
      BY <2>2, <3>1, <3>2
    <3>4. QED
      BY <1>11, <3>3
  <2>5. j \in 1 .. a
    BY <1>5, <2>2, <2>3, <2>4
  <2>6. QED
    BY <2>2, <2>5
<1>12. CASE F = {} /\ k \notin KB /\ k \in KA
  <2>1. PICK m \in 1 .. a : ka[m] = k
    BY <1>12
  <2>2. m \in P
    BY <1>3, <1>5, <2>1
  <2>3. \A j \in P : j <= m
    <3>1. \A j \in P : j = m
      BY <1>11, <1>12, <2>1
    <3>2. m <= m
      BY <1>3, <2>2
    <3>3. QED
      BY <3>1, <3>2
  <2>4. Max(P) = m
    BY <1>3, <2>2, <2>3, MaxIs
  <2>5. {pairs[m][2]} = RA[k]
    BY <2>1
  <2>6. QED
    BY <1>4, <1>6, <1>12, <2>2, <2>4, <2>5
<1>13. CASE F = {} /\ k \notin KB /\ k \notin KA
  <2>1. P = {}
    BY <1>11, <1>13
  <2>2. QED
    BY <1>4, <1>6, <1>13, <2>1
<1>14. QED
  BY <1>9, <1>10, <1>12, <1>13

\* The inputs are refused exactly when something supplied is at fault, and for
\* the first that is; otherwise an input is what the nearest that supplies it
\* says, a text for a declared one as a value of the declared type (run.rs,
\* coerce_inputs and coerce_declared), for any declared inputs, environment,
\* file and flags.
THEOREM InputsAreAsAsked ==
  ASSUME NEW declared, NEW vars, NEW file, NEW entries, IsSupply(declared, file, entries)
  PROVE  InputsAsked(declared, vars, file, entries)
<1> DEFINE Flags(k) == Flagged(entries, k)
           Wanted(k) ==
             IF Flags(k) # {}
             THEN FromEntry(declared, entries[Max(Flags(k))])
             ELSE IF InFileOf(file, k) THEN Accepted(declared, k, file[2][k])
             ELSE Accepted(declared, k, Str(vars[k]))
           keys == {k \in DOMAIN declared \cup {entries[i].key : i \in 1..Len(entries)}
                          \cup (IF file # None /\ IsObj(file) THEN DOMAIN file[2] ELSE {}) :
                      Flags(k) # {} \/ InFileOf(file, k) \/ InEnvironment(declared, vars, k)}
<1>1. PICK ofEnv : ofEnv = EnvFaults(declared, vars)
  OBVIOUS
<1>2. PICK ofFile : ofFile = InputsFileFaults(declared, file)
  OBVIOUS
<1>3. PICK ofFlags : ofFlags = EntryFaults(declared, entries)
  OBVIOUS
<1>4. PICK refusals : refusals = IF ofEnv # {} THEN ofEnv ELSE IF ofFile # {} THEN ofFile ELSE ofFlags
  OBVIOUS
<1>5. PICK outcome : outcome = CoerceInputs(declared, vars, file, entries)
  OBVIOUS
<1>6. SUFFICES IF refusals # {} THEN {outcome} = refusals
               ELSE /\ IsFine(outcome) /\ DOMAIN outcome[2][2] = keys
                    /\ \A k \in keys : {outcome[2][2][k]} = Wanted(k)
  BY <1>1, <1>2, <1>3, <1>4, <1>5, Zenon DEF InputsAsked, Flagged
<1>7. PICK c \in Nat : c = Len(entries)
  BY DEF IsSupply
<1>8. \A k : k \in keys <=> Flags(k) # {} \/ InFileOf(file, k) \/ InEnvironment(declared, vars, k)
  <2>1. \A k : Flags(k) # {} => k \in {entries[i].key : i \in 1..Len(entries)}
    BY DEF Flagged
  <2>2. \A k : InFileOf(file, k) =>
                 k \in (IF file # None /\ IsObj(file) THEN DOMAIN file[2] ELSE {})
    BY DEF InFileOf
  <2>3. \A k : InEnvironment(declared, vars, k) => k \in DOMAIN declared
    BY DEF InEnvironment
  <2> HIDE DEF Flags
  <2>4. QED
    BY <2>1, <2>2, <2>3
<1>9. \A k : k \in FileKeys(file) <=> InFileOf(file, k)
  BY DEF FileKeys, InFileOf
<1>10. \A k : k \in EnvKeys(declared, vars) <=> InEnvironment(declared, vars, k)
  BY DEF EnvKeys, InEnvironment
<1> DEFINE A == EnvSupplies(declared, vars)
           B == FileSupplies(declared, file)
           C == [i \in 1 .. c |-> EntrySupply(declared, entries[i])]
           RA == [k \in EnvKeys(declared, vars) |-> Accepted(declared, k, Str(vars[k]))]
           RB == [k \in FileKeys(file) |-> Accepted(declared, k, file[2][k])]
           RC == [i \in 1 .. c |-> FromEntry(declared, entries[i])]
<1>11. PICK a \in Nat : /\ IsSupplyOf(A, a)
                        /\ Faulted(A, a, ofEnv)
                        /\ Orderly(A, a, EnvKeys(declared, vars), RA)
  BY <1>1, EnvSuppliesAre DEF IsSupply
<1>12. PICK b \in Nat : /\ IsSupplyOf(B, b)
                        /\ Faulted(B, b, ofFile)
                        /\ (\A i \in 1 .. b : IsFine(B[i][2])) => Orderly(B, b, FileKeys(file), RB)
  BY <1>2, FileSuppliesAre DEF IsSupply
<1>13. PICK supplies : supplies = A \o B \o C
  OBVIOUS
<1>14. PICK n \in Nat : n = a + b + c
  OBVIOUS
<1>15. /\ DOMAIN supplies = 1 .. n /\ Len(supplies) = n
       /\ \A i \in 1 .. a : supplies[i] = A[i]
       /\ \A i \in 1 .. b : supplies[a + i] = B[i]
       /\ \A i \in 1 .. c : supplies[a + b + i] = C[i]
  <2>1. PICK T : T = {A[i] : i \in 1 .. a} \cup {B[i] : i \in 1 .. b} \cup {C[i] : i \in 1 .. c}
    OBVIOUS
  <2>2. A \in [1 .. a -> T] /\ B \in [1 .. b -> T] /\ C \in [1 .. c -> T]
    <3>1. A = [i \in 1 .. a |-> A[i]] /\ B = [i \in 1 .. b |-> B[i]] /\ C = [i \in 1 .. c |-> C[i]]
      BY <1>11, <1>12 DEF IsSupplyOf
    <3> HIDE DEF A, B, C
    <3>2. QED
      BY <2>1, <3>1
  <2> HIDE DEF A, B, C
  <2>3. QED
    <3>1. PICK X, Y, Z : X = A /\ Y = B /\ Z = C
      OBVIOUS
    <3>2. X \in [1 .. a -> T] /\ Y \in [1 .. b -> T] /\ Z \in [1 .. c -> T]
      BY <2>2, <3>1
    <3>3. Joined(X \o Y \o Z, a, b, c, X, Y, Z)
      BY <3>2, JoinedIs
    <3>4. QED
      BY <1>13, <1>14, <3>1, <3>3 DEF Joined
<1>16. PICK faults : faults = {i \in 1 .. n : ~IsFine(supplies[i][2])}
  OBVIOUS
<1>17. PICK pairs : pairs = [i \in 1 .. n |-> <<supplies[i][1], supplies[i][2][2]>>]
  OBVIOUS
<1>18. outcome = IF faults # {} THEN supplies[Min(faults)][2] ELSE Fine(Obj(Inserted(NoLayer, pairs)))
  BY <1>5, <1>7, <1>13, <1>15, <1>16, <1>17, Zenon DEF CoerceInputs
<1> HIDE DEF A, B, keys, Wanted, Flags, RA, RB
<1>19. /\ \A i \in 1 .. a : i \in 1 .. n
       /\ \A i \in 1 .. b : a + i \in 1 .. n
       /\ \A i \in 1 .. c : a + b + i \in 1 .. n
       /\ \A j \in 1 .. n : \/ j \in 1 .. a
                            \/ j - a \in 1 .. b /\ j = a + (j - a) /\ j > a
                            \/ j - (a + b) \in 1 .. c /\ j = a + b + (j - (a + b)) /\ j > a + b
  BY <1>14
<1>20. PICK bad : bad = {i \in 1 .. c : FromEntry(declared, entries[i]) = {}}
  OBVIOUS
<1>21. ofFlags = IF bad = {} THEN {} ELSE {EntryFault(entries[Min(bad)])}
  BY <1>3, <1>20, <1>7 DEF EntryFaults
<1>22. \A i \in 1 .. c : /\ a + b + i \in faults <=> i \in bad
                         /\ i \in bad => supplies[a + b + i][2] = EntryFault(entries[i])
  <2>1. SUFFICES ASSUME NEW i \in 1 .. c
                 PROVE  /\ a + b + i \in faults <=> i \in bad
                        /\ i \in bad => supplies[a + b + i][2] = EntryFault(entries[i])
    OBVIOUS
  <2>2. PICK j, e, x : j = a + b + i /\ e = entries[i] /\ x = EntrySupply(declared, e)
    OBVIOUS
  <2>3. supplies[j] = x /\ j \in 1 .. n
    BY <1>15, <1>19, <2>2
  <2>4. /\ IsFine(x[2]) => {x[2][2]} = FromEntry(declared, e)
        /\ ~IsFine(x[2]) => FromEntry(declared, e) = {} /\ x[2] = EntryFault(e)
    BY <2>2, EntrySupplied DEF IsSupply
  <2>5. j \in faults <=> ~IsFine(x[2])
    BY <1>16, <2>3
  <2>6. i \in bad <=> FromEntry(declared, e) = {}
    BY <1>20, <2>2
  <2>7. QED
    BY <2>2, <2>3, <2>4, <2>5, <2>6
<1> HIDE DEF C
<1>23. ofEnv # {} => \E i \in 1 .. a : i \in faults
  <2>1. \A i \in 1 .. a : i \in faults <=> ~IsFine(A[i][2])
    BY <1>15, <1>16, <1>19
  <2>2. QED
    BY <1>11, <2>1 DEF Faulted
<1>24. ofFile # {} => \E i \in 1 .. b : a + i \in faults
  <2>1. \A i \in 1 .. b : a + i \in faults <=> ~IsFine(B[i][2])
    BY <1>15, <1>16, <1>19
  <2>2. QED
    BY <1>12, <2>1 DEF Faulted
<1>25. CASE faults # {}
  <2>1. PICK m : m = Min(faults)
    OBVIOUS
  <2>2. m \in faults /\ \A i \in faults : m <= i
    <3>1. faults \in SUBSET Nat
      BY <1>16
    <3>2. QED
      BY <1>25, <2>1, <3>1, MinIsLeast
  <2>3. m \in 1 .. n /\ outcome = supplies[m][2] /\ ~IsFine(outcome)
    BY <1>16, <1>18, <1>25, <2>1, <2>2
  <2>4. CASE m \in 1 .. a
    <3>1. outcome = A[m][2]
      BY <1>15, <2>3, <2>4
    <3>2. {outcome} = ofEnv
      BY <1>11, <2>3, <2>4, <3>1 DEF Faulted
    <3>3. QED
      BY <1>4, <3>2
  <2>5. ASSUME m > a PROVE ofEnv = {}
    <3>1. SUFFICES ASSUME ofEnv # {} PROVE FALSE
      OBVIOUS
    <3>2. PICK i \in 1 .. a : i \in faults
      BY <1>23, <3>1
    <3>3. m <= i
      BY <2>2, <3>2
    <3>4. QED
      BY <2>3, <2>5, <3>3
  <2>6. CASE m - a \in 1 .. b /\ m = a + (m - a) /\ m > a
    <3>1. PICK i \in 1 .. b : i = m - a /\ m = a + i
      BY <2>6
    <3>2. outcome = B[i][2]
      BY <1>15, <2>3, <3>1
    <3>3. {outcome} = ofFile
      BY <1>12, <2>3, <3>2 DEF Faulted
    <3>4. QED
      BY <1>4, <2>5, <2>6, <3>3
  <2>7. CASE m - (a + b) \in 1 .. c /\ m = a + b + (m - (a + b)) /\ m > a + b
    <3>1. m > a
      BY <2>3, <2>7
    <3>2. ofFile = {}
      <4>1. SUFFICES ASSUME ofFile # {} PROVE FALSE
        OBVIOUS
      <4>2. PICK i \in 1 .. b : a + i \in faults
        BY <1>24, <4>1
      <4>3. m <= a + i
        BY <2>2, <4>2
      <4>4. QED
        BY <2>3, <2>7, <4>3
    <3>3. PICK i \in 1 .. c : i = m - (a + b) /\ m = a + b + i
      BY <2>7
    <3>4. i \in bad /\ outcome = EntryFault(entries[i])
      BY <1>22, <2>2, <2>3, <3>3
    <3>5. Min(bad) = i
      <4>1. PICK l : l = Min(bad)
        OBVIOUS
      <4>2. bad \in SUBSET Nat /\ bad # {}
        BY <1>20, <3>4
      <4>3. l \in bad /\ l <= i
        BY <3>4, <4>1, <4>2, MinIsLeast
      <4>4. l \in 1 .. c /\ a + b + l \in faults
        BY <1>20, <1>22, <4>3
      <4>5. m <= a + b + l
        BY <2>2, <4>4
      <4>6. QED
        BY <3>3, <4>1, <4>3, <4>4, <4>5
    <3>6. ofFlags = {outcome}
      BY <1>21, <3>4, <3>5
    <3>7. QED
      BY <1>4, <2>5, <3>1, <3>2, <3>6
  <2>8. QED
    BY <1>19, <2>3, <2>4, <2>6, <2>7
<1>26. CASE faults = {}
  <2>0. refusals = {}
    <3>1. ofEnv = {} /\ ofFile = {}
      BY <1>26, <1>23, <1>24
    <3>2. bad = {}
      BY <1>26, <1>20, <1>22
    <3>3. QED
      BY <1>4, <1>21, <3>1, <3>2
  <2>1. \A i \in 1 .. n : IsFine(supplies[i][2])
    BY <1>16, <1>26
  <2>2. PICK f : f = Inserted(NoLayer, pairs)
    OBVIOUS
  <2>3. IsFine(outcome) /\ outcome[2][2] = f
    <3>1. outcome = Fine(Obj(f))
      BY <1>18, <1>26, <2>2
    <3>2. QED
      BY <3>1, FineIs DEF Obj
  <2>4. /\ \A i \in 1 .. a : i \in 1 .. n /\ IsFine(A[i][2])
        /\ \A i \in 1 .. b : a + i \in 1 .. n /\ IsFine(B[i][2])
        /\ \A i \in 1 .. c : a + b + i \in 1 .. n /\ IsFine(C[i][2])
    <3>1. /\ \A i \in 1 .. a : i \in 1 .. n
          /\ \A i \in 1 .. b : a + i \in 1 .. n
          /\ \A i \in 1 .. c : a + b + i \in 1 .. n
      BY <1>14
    <3> HIDE DEF C
    <3>2. QED
      BY <1>15, <2>1, <3>1
  <2>5. PICK ka \in [1 .. a -> EnvKeys(declared, vars)] :
          /\ \A i, j \in 1 .. a : ka[i] = ka[j] => i = j
          /\ \A k \in EnvKeys(declared, vars) : \E i \in 1 .. a : ka[i] = k
          /\ \A i \in 1 .. a : IsFine(A[i][2]) => A[i][1] = ka[i] /\ {A[i][2][2]} = RA[ka[i]]
    BY <1>11, Zenon DEF Orderly
  <2>6. PICK kb \in [1 .. b -> FileKeys(file)] :
          /\ \A i, j \in 1 .. b : kb[i] = kb[j] => i = j
          /\ \A k \in FileKeys(file) : \E i \in 1 .. b : kb[i] = k
          /\ \A i \in 1 .. b : IsFine(B[i][2]) => B[i][1] = kb[i] /\ {B[i][2][2]} = RB[kb[i]]
    <3>1. Orderly(B, b, FileKeys(file), RB)
      BY <1>12, <2>4
    <3>2. QED
      BY <3>1, Zenon DEF Orderly
  <2>7. \A i \in 1 .. a : pairs[i][1] = ka[i] /\ {pairs[i][2]} = RA[ka[i]]
    <3>1. \A i \in 1 .. a : pairs[i] = <<A[i][1], A[i][2][2]>>
      BY <1>15, <1>17, <2>4
    <3>2. QED
      BY <2>4, <2>5, <3>1
  <2>8. \A i \in 1 .. b : pairs[a + i][1] = kb[i] /\ {pairs[a + i][2]} = RB[kb[i]]
    <3>1. \A i \in 1 .. b : pairs[a + i] = <<B[i][1], B[i][2][2]>>
      BY <1>15, <1>17, <2>4
    <3>2. QED
      <4>1. SUFFICES ASSUME NEW i \in 1 .. b
                     PROVE  pairs[a + i][1] = kb[i] /\ {pairs[a + i][2]} = RB[kb[i]]
        OBVIOUS
      <4>2. pairs[a + i] = <<B[i][1], B[i][2][2]>>
        BY <3>1
      <4>3. B[i][1] = kb[i] /\ {B[i][2][2]} = RB[kb[i]]
        BY <2>4, <2>6
      <4>4. QED
        BY ONLY <4>2, <4>3
  <2>9. \A i \in 1 .. c : pairs[a + b + i][1] = entries[i].key /\ {pairs[a + b + i][2]} = RC[i]
    <3>1. SUFFICES ASSUME NEW i \in 1 .. c
                   PROVE  pairs[a + b + i][1] = entries[i].key /\ {pairs[a + b + i][2]} = RC[i]
      OBVIOUS
    <3>2. PICK j : j = a + b + i
      OBVIOUS
    <3>3. PICK e : e = entries[i]
      OBVIOUS
    <3>4. j \in 1 .. n /\ supplies[j] = EntrySupply(declared, e) /\ IsFine(supplies[j][2])
      BY <1>15, <2>1, <2>4, <3>2, <3>3 DEF C
    <3>5. pairs[j] = <<supplies[j][1], supplies[j][2][2]>>
      BY <1>17, <3>4
    <3>6. supplies[j][1] = e.key /\ {supplies[j][2][2]} = FromEntry(declared, e)
      BY <3>4, EntrySupplied DEF IsSupply
    <3>7. RC[i] = FromEntry(declared, e)
      BY <3>3
    <3> HIDE DEF RC
    <3>8. QED
      BY <3>2, <3>3, <3>5, <3>6, <3>7
  <2> HIDE DEF C
  <2>10. DOMAIN pairs = 1 .. (a + b + c)
    BY <1>14, <1>17
  <2>11. ASSUME NEW k
         PROVE  Under(f, k) = IF Flags(k) # {} THEN RC[Max(Flags(k))]
                              ELSE IF InFileOf(file, k) THEN RB[k]
                              ELSE IF InEnvironment(declared, vars, k) THEN RA[k] ELSE {}
    <3>1. PICK RE : RE = RC
      OBVIOUS
    <3>2. PICK KA, KB : KA = EnvKeys(declared, vars) /\ KB = FileKeys(file)
      OBVIOUS
    <3>3. Under(Inserted(NoLayer, pairs), k) =
            IF Flagged(entries, k) # {} THEN RE[Max(Flagged(entries, k))]
            ELSE IF k \in KB THEN RB[k] ELSE IF k \in KA THEN RA[k] ELSE {}
      <4> HIDE DEF RC
      <4>1. KeysOf(ka, a, KA) /\ KeysOf(kb, b, KB) /\ Len(entries) = c
        BY <1>7, <2>5, <2>6, <3>2 DEF KeysOf
      <4>2. PICK QA, QB : QA = RA /\ QB = RB
        OBVIOUS
      <4>3. SaysKeys(pairs, 0, a, ka, QA)
        <5>1. \A i \in 1 .. a : 0 + i = i
          OBVIOUS
        <5>2. QED
          BY <2>7, <4>2, <5>1 DEF SaysKeys
      <4>4. SaysKeys(pairs, a, b, kb, QB)
        BY <2>8, <4>2 DEF SaysKeys
      <4>5. SaysEntries(pairs, a + b, c, entries, RE)
        BY <2>9, <3>1 DEF SaysEntries
      <4>6. a \in Nat /\ b \in Nat /\ c \in Nat
        OBVIOUS
      <4>7. ThreeSupplies(a, b, c, entries, pairs, KA, KB, QA, QB, RE, ka, kb)
        BY <2>10, <4>1, <4>3, <4>4, <4>5, <4>6 DEF ThreeSupplies
      <4>8. Under(Inserted(NoLayer, pairs), k) =
              IF Flagged(entries, k) # {} THEN RE[Max(Flagged(entries, k))]
              ELSE IF k \in KB THEN QB[k] ELSE IF k \in KA THEN QA[k] ELSE {}
        BY ONLY <4>7, LastSupply
      <4>9. QED
        BY <4>2, <4>8
    <3> HIDE DEF RC
    <3>4. QED
      BY <1>9, <1>10, <2>2, <3>1, <3>2, <3>3 DEF Flags
  <2>12. ASSUME NEW k \in keys PROVE Under(f, k) = Wanted(k) /\ Under(f, k) # {}
    <3>1. CASE Flags(k) # {}
      <4>1. PICK m : m = Max(Flags(k))
        OBVIOUS
      <4>2. m \in 1 .. c /\ entries[m].key = k
        <5>1. Flags(k) \in SUBSET (1 .. c) /\ \A i \in Flags(k) : entries[i].key = k
          BY <1>7 DEF Flags, Flagged
        <5>2. m \in Flags(k)
          BY <3>1, <4>1, <5>1, MaxIsLast
        <5>3. QED
          BY <5>1, <5>2
      <4>3. Under(f, k) = FromEntry(declared, entries[m])
        BY <2>11, <3>1, <4>1, <4>2
      <4>4. Under(f, k) = Wanted(k)
        BY <3>1, <4>1, <4>2, <4>3 DEF Wanted
      <4>5. Under(f, k) = {pairs[a + b + m][2]}
        BY <2>9, <2>11, <3>1, <4>1, <4>2
      <4>6. QED
        BY <4>4, <4>5
    <3>2. CASE Flags(k) = {} /\ InFileOf(file, k)
      <4>1. k \in FileKeys(file)
        BY <1>9, <3>2
      <4>2. RB[k] = Accepted(declared, k, file[2][k])
        BY <4>1 DEF RB
      <4>3. RB[k] # {}
        <5>1. PICK i \in 1 .. b : kb[i] = k
          BY <2>6, <4>1
        <5>2. {pairs[a + i][2]} = RB[kb[i]]
          BY <2>8
        <5>3. QED
          BY <5>1, <5>2
      <4>4. QED
        BY <2>11, <3>2, <4>2, <4>3 DEF Wanted
    <3>3. CASE Flags(k) = {} /\ ~InFileOf(file, k)
      <4>1. InEnvironment(declared, vars, k) /\ k \in EnvKeys(declared, vars)
        BY <1>8, <1>10, <3>3
      <4>2. RA[k] = Accepted(declared, k, Str(vars[k]))
        BY <4>1 DEF RA
      <4>3. RA[k] # {}
        <5>1. PICK i \in 1 .. a : ka[i] = k
          BY <2>5, <4>1
        <5>2. {pairs[i][2]} = RA[ka[i]]
          BY <2>7
        <5>3. QED
          BY <5>1, <5>2
      <4>4. QED
        BY <2>11, <3>3, <4>1, <4>2, <4>3 DEF Wanted
    <3>4. QED
      BY <3>1, <3>2, <3>3
  <2>13. \A k : k \notin keys => Under(f, k) = {}
    BY <1>8, <2>11
  <2>14. DOMAIN f = keys /\ \A k \in keys : {f[k]} = Wanted(k)
    <3>1. \A k : k \in DOMAIN f <=> k \in keys
      BY <2>12, <2>13 DEF Under
    <3>2. QED
      BY <2>12, <3>1 DEF Under
  <2>15. QED
    BY <2>0, <2>3, <2>14
<1>27. QED
  BY <1>25, <1>26

-----------------------------------------------------------------------------
(* Tasks                                                                   *)

TakenBy(window, slice, r) ==
  r = [s \in SUBSET (DOMAIN window) |->
         IF s = {} THEN <<>>
         ELSE IF Selected(slice, window[Max(s)])
         THEN Append(r[s \ {Max(s)}], window[Max(s)]) ELSE r[s \ {Max(s)}]]

LEMMA TakenIsChosen ==
  ASSUME NEW window, NEW slice
  PROVE  Taken(window, slice) = (CHOOSE r : TakenBy(window, slice, r))[DOMAIN window]
BY Zenon DEF Taken, FoldLeft, MapThenFoldSet, TakenBy

\* What is taken by and by.
TakenAlong(n, window, slice, h) ==
  /\ h[0] = <<>> /\ Taken(window, slice) = h[n]
  /\ \A i \in 1 .. n : h[i] = IF Selected(slice, window[i])
                              THEN Append(h[i - 1], window[i]) ELSE h[i - 1]

\* The tasks taken, after each task of the window.
LEMMA TakenGoes ==
  ASSUME NEW T, NEW n \in Nat, NEW window \in [1 .. n -> T], NEW slice
  PROVE  \E h : TakenAlong(n, window, slice, h)
<1> DEFINE V == Seq(T)
           step == [x \in (1 .. n) \X V |-> IF Selected(slice, window[x[1]])
                                            THEN Append(x[2], window[x[1]]) ELSE x[2]]
<1>1. <<>> \in V
  OBVIOUS
<1>2. step \in [(1 .. n) \X V -> V]
  OBVIOUS
<1>3. PICK r \in [SUBSET (1 .. n) -> V] : Folds(r, 1 .. n, <<>>, Lasts(n), step)
  <2> HIDE DEF V, step
  <2>1. PICK base : base = <<>>
    OBVIOUS
  <2>2. QED
    BY <1>1, <1>2, <2>1, LeftFoldExists
<1>4. TakenBy(window, slice, r)
  <2>1. SUFFICES ASSUME NEW s \in SUBSET (1 .. n)
                 PROVE  r[s] = IF s = {} THEN <<>>
                               ELSE IF Selected(slice, window[Max(s)])
                               THEN Append(r[s \ {Max(s)}], window[Max(s)]) ELSE r[s \ {Max(s)}]
    BY DEF TakenBy
  <2>2. r[s] = IF s = {} THEN <<>> ELSE step[<<Max(s), r[s \ {Max(s)}]>>]
    <3> HIDE DEF step, V
    <3>1. QED
      BY <1>3 DEF Folds, Lasts
  <2>3. s # {} => Max(s) \in 1 .. n /\ r[s \ {Max(s)}] \in V
    <3> HIDE DEF step, V
    <3>1. QED
      BY <1>3, MaxIsLast
  <2>4. QED
    <3> HIDE DEF V
    <3>1. QED
      BY <2>2, <2>3
<1>5. PICK q : TakenBy(window, slice, q) /\ Taken(window, slice) = q[1 .. n]
  BY <1>4, TakenIsChosen
<1>6. \A s \in SUBSET (1 .. n) :
        q[s] = IF s = {} THEN <<>>
               ELSE IF Selected(slice, window[Max(s)])
               THEN Append(q[s \ {Max(s)}], window[Max(s)]) ELSE q[s \ {Max(s)}]
  BY <1>5 DEF TakenBy
<1>7. PICK h : h = [i \in 0 .. n |-> q[1 .. i]]
  OBVIOUS
<1>8. h[0] = <<>> /\ Taken(window, slice) = h[n]
  <2>1. 1 .. 0 = {}
    OBVIOUS
  <2>2. h[0] = q[1 .. 0] /\ h[n] = q[1 .. n]
    BY <1>7
  <2>3. q[1 .. 0] = <<>>
    BY <1>6, <2>1
  <2>4. QED
    BY <1>5, <2>2, <2>3
<1>9. ASSUME NEW i \in 1 .. n
      PROVE  h[i] = IF Selected(slice, window[i]) THEN Append(h[i - 1], window[i]) ELSE h[i - 1]
  <2>1. i \in Nat \ {0} /\ i - 1 \in 0 .. n /\ i \in 0 .. n
    OBVIOUS
  <2>2. 1 .. i \in SUBSET (1 .. n)
    OBVIOUS
  <2>3. Max(1 .. i) = i /\ 1 .. i # {} /\ (1 .. i) \ {i} = 1 .. (i - 1)
    BY <2>1, UpToLast
  <2>4. h[i] = q[1 .. i] /\ h[i - 1] = q[1 .. (i - 1)]
    BY <1>7, <2>1
  <2>5. q[1 .. i] = IF Selected(slice, window[i])
                    THEN Append(q[1 .. (i - 1)], window[i]) ELSE q[1 .. (i - 1)]
    BY <1>6, <2>2, <2>3
  <2>6. QED
    BY <2>4, <2>5
<1>10. QED
  BY <1>8, <1>9 DEF TakenAlong

\* The positions from lo to before lo + m whose tasks are selected.
KeptIn(tasks, slice, lo, m) == {i \in lo .. (lo - 1 + m) : Selected(slice, tasks[i])}

LEMMA KeptGrows ==
  ASSUME NEW tasks, NEW slice, NEW lo \in Nat \ {0}, NEW m \in Nat
  PROVE  /\ IsFiniteSet(KeptIn(tasks, slice, lo, m))
         /\ Cardinality(KeptIn(tasks, slice, lo, m)) \in Nat
         /\ Cardinality(KeptIn(tasks, slice, lo, m + 1)) =
              IF Selected(slice, tasks[lo + m]) THEN Cardinality(KeptIn(tasks, slice, lo, m)) + 1
              ELSE Cardinality(KeptIn(tasks, slice, lo, m))
<1>1. PICK K : K = KeptIn(tasks, slice, lo, m)
  OBVIOUS
<1>2. PICK D : D = lo .. (lo - 1 + m)
  OBVIOUS
<1>3. IsFiniteSet(D)
  BY <1>2, FS_Interval
<1>4. K \in SUBSET D
  BY <1>1, <1>2 DEF KeptIn
<1>5. IsFiniteSet(K) /\ Cardinality(K) \in Nat
  BY <1>3, <1>4, FS_Subset, FS_CardinalityType
<1>6. PICK x : x = lo + m
  OBVIOUS
<1>7. /\ lo .. (lo - 1 + (m + 1)) = D \cup {x}
      /\ x \notin D
  BY <1>2, <1>6
<1>8. KeptIn(tasks, slice, lo, m + 1) = IF Selected(slice, tasks[x]) THEN K \cup {x} ELSE K
  BY <1>1, <1>2, <1>7 DEF KeptIn
<1>9. Cardinality(K \cup {x}) = Cardinality(K) + 1
  BY <1>4, <1>5, <1>7, FS_AddElement
<1>10. QED
  BY <1>1, <1>5, <1>6, <1>8, <1>9

\* A window of n tasks that starts at lo.
IsWindow(T, tasks, lo, n, window) ==
  /\ n \in Nat /\ lo \in Nat \ {0} /\ window \in [1 .. n -> T]
  /\ \A i \in 1 .. n : window[i] = tasks[lo - 1 + i]

\* Every selected task of the window stands in `kept`, at its place among them.
KeptRight(tasks, slice, lo, n, kept) ==
  /\ Len(kept) = Cardinality(KeptIn(tasks, slice, lo, n))
  /\ \A j \in 1 .. n : Selected(slice, tasks[lo - 1 + j]) =>
       kept[Cardinality(KeptIn(tasks, slice, lo, j))] = tasks[lo - 1 + j]

\* Every selected task of the window is taken, at its place among them.
LEMMA TakenIs ==
  ASSUME NEW T, NEW tasks, NEW slice, NEW lo, NEW n, NEW window,
         IsWindow(T, tasks, lo, n, window)
  PROVE  KeptRight(tasks, slice, lo, n, Taken(window, slice))
<1> USE DEF IsWindow
<1>0. PICK h : TakenAlong(n, window, slice, h)
  <2>1. n \in Nat /\ window \in [1 .. n -> T]
    OBVIOUS
  <2>2. QED
    BY ONLY <2>1, TakenGoes
<1>1. /\ h[0] = <<>> /\ Taken(window, slice) = h[n]
      /\ \A i \in 1 .. n : h[i] = IF Selected(slice, window[i])
                                  THEN Append(h[i - 1], window[i]) ELSE h[i - 1]
  BY <1>0 DEF TakenAlong
<1> DEFINE Count(m) == Cardinality(KeptIn(tasks, slice, lo, m))
           Right(m) ==
             /\ h[m] \in Seq(T) /\ Len(h[m]) = Count(m)
             /\ \A j \in 1 .. m : Selected(slice, tasks[lo - 1 + j]) =>
                  Count(j) \in 1 .. Count(m) /\ h[m][Count(j)] = tasks[lo - 1 + j]
           Good == {m \in Nat : m <= n => Right(m)}
<1>2. 0 \in Good
  <2>1. KeptIn(tasks, slice, lo, 0) = {}
    BY DEF KeptIn
  <2>2. Count(0) = 0
    BY <2>1, FS_EmptySet
  <2> HIDE DEF Count
  <2>3. h[0] \in Seq(T) /\ Len(h[0]) = Count(0)
    BY <1>1, <2>2
  <2>4. 1 .. 0 = {}
    OBVIOUS
  <2>5. Right(0)
    BY <2>3, <2>4
  <2> HIDE DEF Right
  <2>6. QED
    BY <2>5
<1>3. ASSUME NEW m \in Nat, m \in Good PROVE m + 1 \in Good
  <2> SUFFICES ASSUME m + 1 <= n PROVE Right(m + 1)
    <3> HIDE DEF Right
    <3>1. QED
      OBVIOUS
  <2>1. Right(m) /\ m + 1 \in 1 .. n
    <3>1. m \in Nat /\ m <= n /\ m + 1 \in 1 .. n
      OBVIOUS
    <3>2. QED
      BY <1>3, <3>1, Zenon
  <2>2. PICK t : t = window[m + 1]
    OBVIOUS
  <2>3. t = tasks[lo + m] /\ t \in T /\ lo - 1 + (m + 1) = lo + m
    BY <2>1, <2>2
  <2>4. h[m + 1] = IF Selected(slice, t) THEN Append(h[m], t) ELSE h[m]
    BY <1>1, <2>1, <2>2
  <2>5. /\ Count(m) \in Nat
        /\ Count(m + 1) = IF Selected(slice, t) THEN Count(m) + 1 ELSE Count(m)
    BY <2>3, KeptGrows
  <2>6. h[m] \in Seq(T) /\ Len(h[m]) = Count(m)
    BY <2>1
  <2>7. \A j \in 1 .. m : Selected(slice, tasks[lo - 1 + j]) =>
                  Count(j) \in 1 .. Count(m) /\ h[m][Count(j)] = tasks[lo - 1 + j]
    BY <2>1
  <2> HIDE DEF Count
  <2>8. CASE Selected(slice, t)
    <3>1. h[m + 1] \in Seq(T) /\ Len(h[m + 1]) = Count(m) + 1 /\ Count(m + 1) = Count(m) + 1
      BY <2>3, <2>4, <2>5, <2>6, <2>8
    <3>2. h[m + 1][Count(m) + 1] = t /\ \A i \in 1 .. Count(m) : h[m + 1][i] = h[m][i]
      BY <2>3, <2>4, <2>5, <2>6, <2>8
    <3>3. ASSUME NEW j \in 1 .. (m + 1), Selected(slice, tasks[lo - 1 + j])
          PROVE  Count(j) \in 1 .. Count(m + 1) /\ h[m + 1][Count(j)] = tasks[lo - 1 + j]
      <4>1. CASE j \in 1 .. m
        <5>1. Count(j) \in 1 .. Count(m) /\ h[m][Count(j)] = tasks[lo - 1 + j]
          BY <2>7, <3>3, <4>1
        <5>2. QED
          BY <2>5, <3>1, <3>2, <5>1
      <4>2. CASE j = m + 1
        BY <2>3, <2>5, <3>1, <3>2, <4>2
      <4>3. QED
        BY <4>1, <4>2
    <3>4. QED
      BY <3>1, <3>3
  <2>9. CASE ~Selected(slice, t)
    <3>1. h[m + 1] = h[m] /\ Count(m + 1) = Count(m)
      BY <2>4, <2>5, <2>9
    <3>2. ASSUME NEW j \in 1 .. (m + 1), Selected(slice, tasks[lo - 1 + j])
          PROVE  j \in 1 .. m
      BY <2>3, <2>9, <3>2
    <3>3. QED
      BY <2>6, <2>7, <3>1, <3>2
  <2>10. QED
    BY <2>8, <2>9
<1>4. Nat \subseteq Good
  <2> HIDE DEF Good
  <2>1. QED
    BY <1>2, <1>3, NatInductionOnSets
<1>5. Right(n)
  <2>1. n \in Nat /\ n <= n
    OBVIOUS
  <2>2. QED
    BY <1>4, <2>1, Zenon
<1>6. QED
  BY <1>1, <1>5 DEF KeptRight

\* A task is taken exactly when it stands in the window and is selected, and
\* those taken stand in the order of the flow (run.rs, slice_tasks), for any
\* flow and any slice.
THEOREM TasksAreAsAsked ==
  ASSUME NEW tasks, tasks \in Seq(ToSet(tasks)), NEW slice
  PROVE  TasksAsked(tasks, slice)
<1> DEFINE kept == {i \in 1..Len(tasks) :
                      /\ slice.from # Blank => PositionOf(tasks, slice.from) <= i
                      /\ slice.until # Blank => i <= PositionOf(tasks, slice.until)
                      /\ slice.only # {} => tasks[i] \in slice.only
                      /\ tasks[i] \notin slice.skip}
           names == {tasks[i] : i \in 1..Len(tasks)} \ {Blank}
           asked == ({slice.from, slice.until} \ {Blank}) \cup slice.only \cup slice.skip
           lo == IF slice.from = Blank THEN 1 ELSE PositionOf(tasks, slice.from)
           hi == IF slice.until = Blank THEN Len(tasks) ELSE PositionOf(tasks, slice.until)
<1>1. PICK outcome : outcome = SliceTasks(tasks, slice)
  OBVIOUS
<1>2. SUFFICES ASSUME IsFine(outcome)
               PROVE  /\ Len(outcome[2]) = Cardinality(kept)
                      /\ \A i \in kept : outcome[2][Cardinality({j \in kept : j <= i})] = tasks[i]
  BY <1>1, Zenon DEF TasksAsked
<1>3. PICK N \in Nat : N = Len(tasks)
  OBVIOUS
<1>4. outcome = IF ~(asked \subseteq names) THEN Fault("unknown_task")
                ELSE Fine(Taken(SubSeq(tasks, lo, hi), slice))
  BY <1>1, Zenon DEF SliceTasks
<1>5. asked \subseteq names /\ outcome[2] = Taken(SubSeq(tasks, lo, hi), slice)
  <2> HIDE DEF asked, names, lo, hi
  <2>1. QED
    BY <1>2, <1>4, FineIs
<1>6. ASSUME NEW name \in names PROVE PositionOf(tasks, name) \in 1 .. N
  <2>1. PICK S : S = {i \in 1..Len(tasks) : tasks[i] = name}
    OBVIOUS
  <2>2. S # {} /\ S \in SUBSET Nat /\ S \subseteq 1 .. N
    BY <1>3, <2>1
  <2>3. Min(S) \in S
    BY <2>2, MinIsLeast
  <2>4. QED
    BY <2>1, <2>2, <2>3 DEF PositionOf
<1>7. PICK l : l = lo
  OBVIOUS
<1>8. PICK u : u = hi
  OBVIOUS
<1>9. /\ slice.from # Blank => l = PositionOf(tasks, slice.from) /\ l \in 1 .. N
      /\ slice.from = Blank => l = 1
      /\ slice.until # Blank => u = PositionOf(tasks, slice.until) /\ u \in 1 .. N
      /\ slice.until = Blank => u = N
  <2>1. slice.from # Blank => slice.from \in names
    <3> HIDE DEF names
    <3>1. QED
      BY <1>5
  <2>2. slice.until # Blank => slice.until \in names
    <3> HIDE DEF names
    <3>1. QED
      BY <1>5
  <2> HIDE DEF names
  <2>3. QED
    BY <1>3, <1>6, <1>7, <1>8, <2>1, <2>2
<1>10. l \in Nat \ {0} /\ u \in Nat /\ u <= N
  BY <1>9
<1> HIDE DEF lo, hi, names, asked
<1>11. kept = {i \in l .. u : Selected(slice, tasks[i])}
  <2>1. \A i \in 1 .. N : (slice.from # Blank => PositionOf(tasks, slice.from) <= i) <=> l <= i
    BY <1>9
  <2>2. \A i \in 1 .. N : (slice.until # Blank => i <= PositionOf(tasks, slice.until)) <=> i <= u
    BY <1>9
  <2>3. \A i : i \in l .. u <=> i \in 1 .. N /\ l <= i /\ i <= u
    BY <1>10
  <2>4. \A i : i \in kept <=> /\ i \in 1 .. N /\ l <= i /\ i <= u
                              /\ slice.only # {} => tasks[i] \in slice.only
                              /\ tasks[i] \notin slice.skip
    BY <1>3, <2>1, <2>2
  <2> HIDE DEF kept
  <2>5. \A i : i \in kept <=> i \in l .. u /\ Selected(slice, tasks[i])
    BY <2>3, <2>4 DEF Selected
  <2>6. QED
    BY <2>5
<1> HIDE DEF kept
<1>12. PICK n \in Nat : n = IF u < l THEN 0 ELSE u - l + 1
  <2>1. CASE u < l
    BY <2>1
  <2>2. CASE ~(u < l)
    <3>1. u - l + 1 \in Nat
      BY <1>10, <2>2
    <3>2. QED
      BY <2>2, <3>1
  <2>3. QED
    BY <2>1, <2>2
<1>13. l .. u = l .. (l - 1 + n)
  BY <1>10, <1>12
<1>14. kept = KeptIn(tasks, slice, l, n)
  BY <1>11, <1>13 DEF KeptIn
<1>15. PICK window : window = SubSeq(tasks, l, u)
  OBVIOUS
<1>16. /\ window \in [1 .. n -> ToSet(tasks)]
       /\ \A i \in 1 .. n : window[i] = tasks[l - 1 + i]
  <2>1. PICK S : S = ToSet(tasks)
    OBVIOUS
  <2>2. /\ l \in Int /\ u \in Int /\ \A i \in l .. u : tasks[i] \in S
        /\ n = (IF l <= u THEN u - l + 1 ELSE 0) /\ 1 .. n = 1 .. u - l + 1
        /\ \A i \in 1 .. n : l + i - 1 = l - 1 + i
    BY <1>3, <1>10, <1>12, <2>1
  <2>3. /\ window \in Seq(S)
        /\ Len(window) = IF l <= u THEN u - l + 1 ELSE 0
        /\ \A i \in 1 .. u - l + 1 : window[i] = tasks[l + i - 1]
    BY ONLY <1>15, <2>2, SubSeqProperties
  <2>4. QED
    BY <2>1, <2>2, <2>3
<1>17. /\ Len(outcome[2]) = Cardinality(kept)
       /\ \A j \in 1 .. n : Selected(slice, tasks[l - 1 + j]) =>
            outcome[2][Cardinality(KeptIn(tasks, slice, l, j))] = tasks[l - 1 + j]
  <2>1. outcome[2] = Taken(window, slice)
    BY <1>5, <1>7, <1>8, <1>15
  <2>2. PICK S : S = ToSet(tasks)
    OBVIOUS
  <2>4. IsWindow(S, tasks, l, n, window)
    BY <1>10, <1>16, <2>2 DEF IsWindow
  <2>5. KeptRight(tasks, slice, l, n, Taken(window, slice))
    BY ONLY <2>4, TakenIs
  <2>6. QED
    BY ONLY <1>14, <2>1, <2>5 DEF KeptRight
<1>18. ASSUME NEW i \in kept
       PROVE  outcome[2][Cardinality({j \in kept : j <= i})] = tasks[i]
  <2>1. i \in l .. u /\ Selected(slice, tasks[i])
    BY <1>11
  <2>2. PICK j \in 1 .. n : j = i - l + 1
    BY <1>10, <1>12, <2>1
  <2>3. l - 1 + j = i
    BY <1>10, <2>1, <2>2
  <2>4. {x \in kept : x <= i} = KeptIn(tasks, slice, l, j)
    <3>1. \A x : x \in l .. (l - 1 + j) <=> x \in l .. u /\ x <= i
      BY <1>10, <2>1, <2>3
    <3>2. QED
      BY <1>11, <3>1 DEF KeptIn
  <2>5. QED
    BY <1>17, <2>1, <2>3, <2>4
<1>19. QED
  BY <1>17, <1>18

-----------------------------------------------------------------------------
(* Division                                                                *)

LEMMA DivisionGives ==
  ASSUME NEW x \in Nat, NEW n \in Nat \ {0}
  PROVE  /\ x \div n \in Nat /\ x % n \in 0 .. n - 1
         /\ x = n * (x \div n) + (x % n)
OBVIOUS

LEMMA DivisionIsOnly ==
  ASSUME NEW x \in Nat, NEW n \in Nat \ {0}, NEW q \in Nat, NEW r \in 0 .. n - 1,
         x = n * q + r
  PROVE  x \div n = q /\ x % n = r
<1>1. PICK y \in Nat : y = x \div n
  BY DivisionGives
<1>2. PICK s \in 0 .. n - 1 : s = x % n
  BY DivisionGives
<1>3. n * q + r = n * y + s
  BY <1>1, <1>2, DivisionGives
<1>4. n * (q - y) = s - r
  BY <1>3
<1>5. PICK d \in Int : d = q - y
  OBVIOUS
<1>6. n * d = s - r /\ s - r < n /\ r - s < n
  BY <1>4, <1>5
<1>7. d = 0
  <2>1. CASE d >= 1
    <3>1. n * d >= n
      BY <2>1
    <3>2. QED
      BY <1>6, <3>1
  <2>2. CASE d <= -1
    <3>1. n * d <= -n
      BY <2>2
    <3>2. QED
      BY <1>6, <3>1
  <2>3. QED
    BY <2>1, <2>2
<1>8. QED
  BY <1>1, <1>2, <1>4, <1>5, <1>7

LEMMA DivisionTwice ==
  ASSUME NEW x \in Nat, NEW m \in Nat \ {0}, NEW n \in Nat \ {0}
  PROVE  (x \div m) \div n = x \div (n * m)
<1>1. PICK y \in Nat, r \in 0 .. m - 1 : y = x \div m /\ x = m * y + r
  BY DivisionGives
<1>2. PICK z \in Nat, s \in 0 .. n - 1 : z = y \div n /\ y = n * z + s
  BY DivisionGives
<1>3. PICK p \in Nat \ {0} : p = n * m
  OBVIOUS
<1>4. x = p * z + (m * s + r)
  <2>1. m * (n * z + s) = p * z + m * s
    BY <1>3
  <2>2. PICK a \in Nat : a = m * s
    OBVIOUS
  <2>3. PICK b \in Nat : b = p * z
    OBVIOUS
  <2>4. m * y = b + a
    BY <1>2, <2>1, <2>2, <2>3
  <2>5. QED
    BY <1>1, <2>2, <2>3, <2>4
<1>5. m * s + r \in 0 .. p - 1
  <2>1. m * s <= m * (n - 1)
    OBVIOUS
  <2>2. m * (n - 1) = p - m
    BY <1>3
  <2>3. m * s \in Nat
    OBVIOUS
  <2>4. QED
    BY <2>1, <2>2, <2>3
<1>6. PICK t \in 0 .. p - 1 : t = m * s + r
  BY <1>5
<1>7. x \div p = z
  BY <1>4, <1>6, DivisionIsOnly
<1>8. QED
  BY <1>1, <1>2, <1>3, <1>7

-----------------------------------------------------------------------------
(* The width of a matrix                                                   *)

WidthBy(axes, r) ==
  r = [s \in SUBSET (DOMAIN axes) |->
         IF s = {} THEN 1 ELSE r[s \ {Max(s)}] * Len(axes[Max(s)].values)]

LEMMA WidthIsChosen ==
  ASSUME NEW axes
  PROVE  Width(axes) = (CHOOSE r : WidthBy(axes, r))[DOMAIN axes]
BY Zenon DEF Width, FoldLeft, MapThenFoldSet, WidthBy

\* Axes that all have values.
HaveValues(n, axes) ==
  /\ n \in Nat /\ DOMAIN axes = 1 .. n
  /\ \A i \in 1 .. n : Len(axes[i].values) \in Nat \ {0}

\* The width by and by.
WidthAlong(n, axes, h) ==
  /\ h \in [0 .. n -> Nat \ {0}] /\ h[0] = 1 /\ Width(axes) = h[n]
  /\ \A i \in 1 .. n : h[i] = h[i - 1] * Len(axes[i].values)

LEMMA WidthGoes ==
  ASSUME NEW n, NEW axes, HaveValues(n, axes)
  PROVE  \E h : WidthAlong(n, axes, h)
<1> DEFINE V == Nat \ {0}
           step == [x \in (1 .. n) \X V |-> x[2] * Len(axes[x[1]].values)]
<1>0. n \in Nat /\ DOMAIN axes = 1 .. n /\ \A i \in 1 .. n : Len(axes[i].values) \in V
  BY DEF HaveValues
<1>1. 1 \in V
  OBVIOUS
<1>2. step \in [(1 .. n) \X V -> V]
  <2>1. ASSUME NEW x \in (1 .. n) \X V PROVE x[2] * Len(axes[x[1]].values) \in V
    <3>1. PICK y \in V : y = x[2]
      OBVIOUS
    <3>2. PICK z \in V : z = Len(axes[x[1]].values)
      BY <1>0
    <3>3. QED
      BY <3>1, <3>2
  <2>2. QED
    BY <2>1
<1>3. PICK r \in [SUBSET (1 .. n) -> V] : Folds(r, 1 .. n, 1, Lasts(n), step)
  <2> HIDE DEF V, step
  <2>1. QED
    BY <1>0, <1>1, <1>2, LeftFoldExists
<1>4. WidthBy(axes, r)
  <2>1. SUFFICES ASSUME NEW s \in SUBSET (1 .. n)
                 PROVE  r[s] = IF s = {} THEN 1 ELSE r[s \ {Max(s)}] * Len(axes[Max(s)].values)
    BY <1>0 DEF WidthBy
  <2>2. r[s] = IF s = {} THEN 1 ELSE step[<<Max(s), r[s \ {Max(s)}]>>]
    <3> HIDE DEF step, V
    <3>1. QED
      BY <1>3 DEF Folds, Lasts
  <2>3. s # {} => Max(s) \in 1 .. n /\ r[s \ {Max(s)}] \in V
    <3> HIDE DEF step, V
    <3>1. QED
      BY <1>0, <1>3, MaxIsLast
  <2>4. QED
    <3> HIDE DEF V
    <3>1. QED
      BY <2>2, <2>3
<1>5. PICK q : WidthBy(axes, q) /\ Width(axes) = q[1 .. n]
  BY <1>0, <1>4, WidthIsChosen
<1>6. \A s \in SUBSET (1 .. n) :
        q[s] = IF s = {} THEN 1 ELSE q[s \ {Max(s)}] * Len(axes[Max(s)].values)
  BY <1>0, <1>5 DEF WidthBy
<1>7. PICK h : h = [i \in 0 .. n |-> q[1 .. i]]
  OBVIOUS
<1>8. h[0] = 1 /\ Width(axes) = h[n]
  <2>1. 1 .. 0 = {}
    OBVIOUS
  <2>2. h[0] = q[1 .. 0] /\ h[n] = q[1 .. n]
    BY <1>0, <1>7
  <2>3. q[1 .. 0] = 1
    BY <1>6, <2>1
  <2>4. QED
    BY <1>5, <2>2, <2>3
<1>9. ASSUME NEW i \in 1 .. n PROVE h[i] = h[i - 1] * Len(axes[i].values)
  <2>1. i \in Nat \ {0} /\ i - 1 \in 0 .. n /\ i \in 0 .. n
    BY <1>0
  <2>2. 1 .. i \in SUBSET (1 .. n)
    BY <1>0
  <2>3. Max(1 .. i) = i /\ 1 .. i # {} /\ (1 .. i) \ {i} = 1 .. (i - 1)
    BY <2>1, UpToLast
  <2>4. h[i] = q[1 .. i] /\ h[i - 1] = q[1 .. (i - 1)]
    BY <1>7, <2>1
  <2>5. q[1 .. i] = q[1 .. (i - 1)] * Len(axes[i].values)
    BY <1>6, <2>2, <2>3
  <2>6. QED
    BY <2>4, <2>5
<1> DEFINE Good == {i \in Nat : i <= n => h[i] \in V}
<1>10. 0 \in Good
  BY <1>8
<1>11. ASSUME NEW i \in Nat, i \in Good PROVE i + 1 \in Good
  <2> SUFFICES ASSUME i + 1 <= n PROVE h[i + 1] \in V
    OBVIOUS
  <2>1. i + 1 \in 1 .. n /\ (i + 1) - 1 = i /\ h[i] \in V
    BY <1>0, <1>11
  <2>2. PICK x \in V : x = h[i]
    BY <2>1
  <2>3. PICK y \in V : y = Len(axes[i + 1].values)
    BY <1>0, <2>1
  <2>4. h[i + 1] = x * y
    BY <1>9, <2>1, <2>2, <2>3
  <2>5. QED
    BY <2>4
<1>12. Nat \subseteq Good
  <2> HIDE DEF Good
  <2>1. QED
    BY <1>10, <1>11, NatInductionOnSets
<1>13. h \in [0 .. n -> V]
  <2>1. \A i \in 0 .. n : i \in Nat /\ i <= n
    BY <1>0
  <2>2. \A i \in 0 .. n : h[i] \in V
    BY <1>12, <2>1
  <2> HIDE DEF V
  <2>3. QED
    BY <1>7, <2>2
<1>14. QED
  BY <1>8, <1>9, <1>13 DEF WidthAlong

\* The width of what begins with the same axes grows by the last.
LEMMA WidthGrows ==
  ASSUME NEW n \in Nat, NEW axes, NEW more, HaveValues(n, axes), HaveValues(n + 1, more),
         \A i \in 1 .. n : more[i] = axes[i]
  PROVE  Width(axes) \in Nat \ {0} /\ Width(more) = Width(axes) * Len(more[n + 1].values)
<1>1. PICK h : WidthAlong(n, axes, h)
  BY WidthGoes
<1>2. PICK g : WidthAlong(n + 1, more, g)
  <2>1. PICK m : m = n + 1
    OBVIOUS
  <2>2. QED
    BY <2>1, WidthGoes
<1> DEFINE Good == {i \in Nat : i <= n => h[i] = g[i]}
<1>3. 0 \in Good
  BY <1>1, <1>2 DEF WidthAlong
<1>4. ASSUME NEW i \in Nat, i \in Good PROVE i + 1 \in Good
  <2> SUFFICES ASSUME i + 1 <= n PROVE h[i + 1] = g[i + 1]
    OBVIOUS
  <2>1. i + 1 \in 1 .. n /\ i + 1 \in 1 .. n + 1 /\ (i + 1) - 1 = i /\ h[i] = g[i]
    BY <1>4
  <2>2. PICK k : k = i + 1
    OBVIOUS
  <2>3. h[k] = h[k - 1] * Len(axes[k].values) /\ g[k] = g[k - 1] * Len(more[k].values)
    BY <1>1, <1>2, <2>1, <2>2 DEF WidthAlong
  <2>4. more[k] = axes[k] /\ h[k - 1] = g[k - 1]
    BY <2>1, <2>2
  <2>5. QED
    BY <2>2, <2>3, <2>4
<1>5. Nat \subseteq Good
  <2> HIDE DEF Good
  <2>1. QED
    BY <1>3, <1>4, NatInductionOnSets
<1>6. h[n] = g[n]
  BY <1>5
<1>7. n + 1 \in 1 .. n + 1 /\ (n + 1) - 1 = n /\ n \in 0 .. n
  OBVIOUS
<1>8. Width(more) = g[n] * Len(more[n + 1].values)
  BY <1>2, <1>7 DEF WidthAlong
<1>9. QED
  BY <1>1, <1>6, <1>7, <1>8 DEF WidthAlong

LEMMA NoWidth ==
  ASSUME NEW axes, HaveValues(0, axes)
  PROVE  Width(axes) = 1
BY WidthGoes DEF WidthAlong

\* The width of the axes after a and up to m.
Between(axes, a, m) == Width(SubSeq(axes, a + 1, m))

LEMMA BetweenIs ==
  ASSUME NEW S, NEW axes \in Seq(S), HaveValues(Len(axes), axes), NEW a \in Nat
  PROVE  /\ a <= Len(axes) => Between(axes, a, a) = 1
         /\ \A m \in Nat : a <= m /\ m < Len(axes) =>
              /\ Between(axes, a, m) \in Nat \ {0}
              /\ Between(axes, a, m + 1) = Between(axes, a, m) * Len(axes[m + 1].values)
<1>1. ASSUME NEW m \in Nat, a <= m, m <= Len(axes)
      PROVE  /\ HaveValues(m - a, SubSeq(axes, a + 1, m))
             /\ \A i \in 1 .. m - a : SubSeq(axes, a + 1, m)[i] = axes[a + i]
  <2>1. PICK lo \in Int : lo = a + 1
    OBVIOUS
  <2>2. \A i \in lo .. m : axes[i] \in S
    BY <1>1, <2>1
  <2>3. PICK w : w = SubSeq(axes, lo, m)
    OBVIOUS
  <2>4. /\ w \in Seq(S) /\ Len(w) = IF lo <= m THEN m - lo + 1 ELSE 0
        /\ \A i \in 1 .. m - lo + 1 : w[i] = axes[lo + i - 1]
    BY <2>2, <2>3, SubSeqProperties
  <2>5. Len(w) = m - a /\ \A i \in 1 .. m - a : w[i] = axes[a + i]
    <3>1. (IF lo <= m THEN m - lo + 1 ELSE 0) = m - a /\ m - lo + 1 = m - a
      BY <1>1, <2>1
    <3>2. \A i \in 1 .. m - a : lo + i - 1 = a + i
      BY <2>1
    <3>3. QED
      BY <2>4, <3>1, <3>2
  <2>6. \A i \in 1 .. m - a : a + i \in 1 .. Len(axes)
    BY <1>1
  <2>7. HaveValues(m - a, w)
    <3>1. m - a \in Nat /\ DOMAIN w = 1 .. m - a
      BY <1>1, <2>4, <2>5
    <3>2. \A i \in 1 .. m - a : Len(axes[a + i].values) \in Nat \ {0}
      BY <2>6 DEF HaveValues
    <3>3. QED
      BY <2>5, <3>1, <3>2 DEF HaveValues
  <2>8. QED
    BY <2>1, <2>3, <2>5, <2>7
<1>2. ASSUME a <= Len(axes) PROVE Between(axes, a, a) = 1
  <2>1. a - a = 0
    OBVIOUS
  <2>2. HaveValues(0, SubSeq(axes, a + 1, a))
    BY <1>1, <1>2, <2>1
  <2>3. QED
    BY <2>2, NoWidth DEF Between
<1>3. ASSUME NEW m \in Nat, a <= m, m < Len(axes)
      PROVE  /\ Between(axes, a, m) \in Nat \ {0}
             /\ Between(axes, a, m + 1) = Between(axes, a, m) * Len(axes[m + 1].values)
  <2>1. PICK n \in Nat : n = m - a
    BY <1>3
  <2>2. PICK s : s = SubSeq(axes, a + 1, m)
    OBVIOUS
  <2>3. PICK t : t = SubSeq(axes, a + 1, m + 1)
    OBVIOUS
  <2>4. HaveValues(n, s) /\ \A i \in 1 .. n : s[i] = axes[a + i]
    BY <1>1, <1>3, <2>1, <2>2
  <2>5. HaveValues(n + 1, t) /\ \A i \in 1 .. n + 1 : t[i] = axes[a + i]
    <3>1. PICK k \in Nat : k = m + 1
      OBVIOUS
    <3>2. k <= Len(axes) /\ a <= k /\ k - a = n + 1
      BY <1>3, <2>1, <3>1
    <3>3. QED
      BY <1>1, <2>3, <3>1, <3>2
  <2>6. \A i \in 1 .. n : t[i] = s[i]
    BY <2>4, <2>5
  <2>7. Width(s) \in Nat \ {0} /\ Width(t) = Width(s) * Len(t[n + 1].values)
    BY <2>4, <2>5, <2>6, WidthGrows
  <2>8. t[n + 1] = axes[m + 1]
    BY <1>3, <2>1, <2>5
  <2>9. QED
    BY <2>2, <2>3, <2>7, <2>8 DEF Between
<1>4. QED
  BY <1>2, <1>3

-----------------------------------------------------------------------------
(* Rows laid end to end                                                    *)

FlattenBy(rows, f) ==
  f = [i \in 1 .. Len(rows) |-> IF i = 1 THEN rows[i] ELSE f[i - 1] \o rows[i]]

LEMMA FlattenIsChosen ==
  ASSUME NEW rows
  PROVE  FlattenSeq(rows) = IF Len(rows) = 0 THEN rows
                            ELSE (CHOOSE f : FlattenBy(rows, f))[Len(rows)]
BY Zenon DEF FlattenSeq, FlattenBy

\* Of rows of k cells, which row the next cell after x others is in.
LEMMA RowIs ==
  ASSUME NEW k \in Nat \ {0}, NEW i \in Nat, NEW x \in Nat
  PROVE  /\ x < i * k => x \div k \in 0 .. (i - 1)
         /\ i * k <= x /\ x < (i + 1) * k => x \div k = i /\ x % k = x - i * k
<1>1. PICK y \in Nat, r \in 0 .. k - 1 : y = x \div k /\ r = x % k /\ x = k * y + r
  BY DivisionGives
<1>2. ASSUME x < i * k PROVE y \in 0 .. (i - 1)
  <2>1. SUFFICES ASSUME i <= y PROVE FALSE
    BY <1>1
  <2>2. i * k <= k * y
    BY <2>1
  <2>3. QED
    BY <1>1, <1>2, <2>2
<1>3. ASSUME i * k <= x, x < (i + 1) * k PROVE y = i /\ r = x - i * k
  <2>1. PICK p \in Nat : p = i * k
    OBVIOUS
  <2>2. (i + 1) * k = p + k
    BY <2>1
  <2>3. PICK t \in 0 .. k - 1 : t = x - p
    BY <1>3, <2>1, <2>2
  <2>4. x = k * i + t
    BY <2>1, <2>3
  <2>5. y = i /\ r = t
    BY <1>1, <2>4, DivisionIsOnly
  <2>6. QED
    BY <2>1, <2>3, <2>5
<1>4. QED
  BY <1>1, <1>2, <1>3

\* The first i of rows of k cells, end to end.
Flat(rows, k, i) == [x \in 1 .. (i * k) |-> rows[((x - 1) \div k) + 1][((x - 1) % k) + 1]]

\* Rows of k cells, one at least.
EvenRows(V, n, k, rows) ==
  /\ n \in Nat \ {0} /\ k \in Nat \ {0} /\ rows \in [1 .. n -> Seq(V)]
  /\ \A i \in 1 .. n : Len(rows[i]) = k

LEMMA FlatIs ==
  ASSUME NEW V, NEW n, NEW k, NEW rows, EvenRows(V, n, k, rows), NEW i \in 1 .. n
  PROVE  /\ Flat(rows, k, i) \in Seq(V) /\ Len(Flat(rows, k, i)) = i * k
         /\ Flat(rows, k, 1) = rows[1]
         /\ i < n => Flat(rows, k, i + 1) = Flat(rows, k, i) \o rows[i + 1]
<1>0. n \in Nat \ {0} /\ k \in Nat \ {0} /\ i \in Nat \ {0} /\ rows \in [1 .. n -> Seq(V)]
      /\ \A j \in 1 .. n : Len(rows[j]) = k
  BY DEF EvenRows
<1>1. PICK p \in Nat : p = i * k
  BY <1>0
<1>2. ASSUME NEW x \in 1 .. p
      PROVE  rows[((x - 1) \div k) + 1][((x - 1) % k) + 1] \in V
  <2>1. PICK y \in Nat : y = x - 1
    OBVIOUS
  <2>2. y < i * k
    BY <1>1, <2>1
  <2>3. y \div k \in 0 .. (i - 1) /\ y % k \in 0 .. (k - 1)
    BY <1>0, <2>2, RowIs, DivisionGives
  <2>4. PICK a \in 1 .. n : a = (y \div k) + 1
    BY <1>0, <2>3
  <2>5. PICK b \in 1 .. k : b = (y % k) + 1
    <3>1. PICK c \in 0 .. (k - 1) : c = y % k
      BY <2>3
    <3>2. c + 1 \in 1 .. k
      BY <1>0
    <3>3. QED
      BY <3>1, <3>2
  <2>6. rows[a][b] \in V
    BY <1>0
  <2>7. QED
    BY <2>1, <2>4, <2>5, <2>6
<1>3. /\ Flat(rows, k, i) \in Seq(V) /\ Len(Flat(rows, k, i)) = p
      /\ \A x \in 1 .. p : Flat(rows, k, i)[x] = rows[((x - 1) \div k) + 1][((x - 1) % k) + 1]
  BY <1>1, <1>2 DEF Flat
<1>4. Flat(rows, k, 1) = rows[1]
  <2>1. 1 * k = k /\ 1 \in 1 .. n
    BY <1>0
  <2>2. rows[1] = [x \in 1 .. k |-> rows[1][x]]
    BY <1>0, <2>1
  <2>3. ASSUME NEW x \in 1 .. k
        PROVE  rows[((x - 1) \div k) + 1][((x - 1) % k) + 1] = rows[1][x]
    <3>1. PICK y \in Nat : y = x - 1
      BY <1>0
    <3>2. 0 * k <= y /\ y < (0 + 1) * k /\ 0 * k = 0
      BY <1>0, <3>1
    <3>3. y \div k = 0 /\ y % k = y
      <4>1. PICK z \in Nat : z = 0
        OBVIOUS
      <4>2. z * k <= y /\ y < (z + 1) * k /\ z * k = 0
        BY <3>2, <4>1
      <4>3. y \div k = z /\ y % k = y - z * k
        BY <1>0, <4>2, RowIs
      <4>4. QED
        BY <4>1, <4>2, <4>3
    <3>4. QED
      BY <3>1, <3>3
  <2>4. Flat(rows, k, 1) = [x \in 1 .. k |-> rows[1][x]]
    BY <2>1, <2>3, Zenon DEF Flat
  <2>5. QED
    BY <2>2, <2>4
<1>5. ASSUME i < n PROVE Flat(rows, k, i + 1) = Flat(rows, k, i) \o rows[i + 1]
  <2>1. PICK s \in Seq(V) : s = Flat(rows, k, i)
    BY <1>3
  <2>2. PICK j \in 1 .. n : j = i + 1
    BY <1>0, <1>5
  <2>3. PICK t \in Seq(V) : t = rows[j]
    BY <1>0
  <2>4. Len(s) = p /\ Len(t) = k
    BY <1>0, <1>3, <2>1, <2>3
  <2>5. s \o t = [x \in 1 .. (p + k) |-> IF x <= p THEN s[x] ELSE t[x - p]]
    <3>1. PICK c \in Seq(V) : c = s \o t
      BY ConcatProperties
    <3>2. Len(c) = p + k
      BY <2>4, <3>1, ConcatProperties
    <3>3. \A x \in 1 .. (p + k) : c[x] = IF x <= p THEN s[x] ELSE t[x - p]
      BY <2>4, <3>1, ConcatProperties
    <3>4. c = [x \in 1 .. (p + k) |-> c[x]]
      BY <3>2
    <3>5. QED
      BY <3>1, <3>3, <3>4, Zenon
  <2>6. j * k = p + k
    BY <1>0, <1>1, <2>2
  <2>7. ASSUME NEW x \in 1 .. (p + k)
        PROVE  rows[((x - 1) \div k) + 1][((x - 1) % k) + 1] = IF x <= p THEN s[x] ELSE t[x - p]
    <3>1. CASE x <= p
      BY <1>3, <2>1, <3>1
    <3>2. CASE p < x
      <4>1. PICK y \in Nat : y = x - 1
        OBVIOUS
      <4>2. i * k <= y /\ y < (i + 1) * k
        BY <1>0, <1>1, <2>2, <2>6, <3>2, <4>1
      <4>3. y \div k = i /\ y % k = y - i * k
        BY <1>0, <4>2, RowIs
      <4>4. (y \div k) + 1 = j /\ (y % k) + 1 = x - p
        BY <1>0, <1>1, <2>2, <4>1, <4>3
      <4>5. QED
        BY <2>3, <3>2, <4>1, <4>4
    <3>3. QED
      BY <3>1, <3>2
  <2>8. Flat(rows, k, j) = [x \in 1 .. (p + k) |-> IF x <= p THEN s[x] ELSE t[x - p]]
    BY <2>6, <2>7, Zenon DEF Flat
  <2>9. QED
    BY <2>1, <2>2, <2>3, <2>5, <2>8
<1>6. QED
  BY <1>1, <1>3, <1>4, <1>5

LEMMA FlattenIs ==
  ASSUME NEW V, NEW n, NEW k, NEW rows, EvenRows(V, n, k, rows)
  PROVE  FlattenSeq(rows) = Flat(rows, k, n)
<1>0. n \in Nat \ {0} /\ rows \in [1 .. n -> Seq(V)] /\ Len(rows) = n
  BY DEF EvenRows
<1>1. PICK g : g = [i \in 1 .. n |-> Flat(rows, k, i)]
  OBVIOUS
<1>2. FlattenBy(rows, g)
  <2>1. ASSUME NEW i \in 1 .. n
        PROVE  g[i] = IF i = 1 THEN rows[i] ELSE g[i - 1] \o rows[i]
    <3>1. CASE i = 1
      BY <1>0, <1>1, <3>1, FlatIs
    <3>2. CASE i # 1
      <4>1. PICK j \in 1 .. n : j = i - 1
        BY <1>0, <3>2
      <4>2. j < n /\ j + 1 = i
        BY <1>0, <4>1
      <4>3. Flat(rows, k, j + 1) = Flat(rows, k, j) \o rows[j + 1]
        BY <4>2, FlatIs
      <4>4. QED
        BY <1>1, <3>2, <4>1, <4>2, <4>3
    <3>3. QED
      BY <3>1, <3>2
  <2>2. g = [i \in 1 .. n |-> g[i]]
    BY <1>1
  <2>3. g = [i \in 1 .. n |-> IF i = 1 THEN rows[i] ELSE g[i - 1] \o rows[i]]
    BY <2>1, <2>2, Zenon
  <2>4. QED
    BY <1>0, <2>3 DEF FlattenBy
<1>3. PICK f : FlattenBy(rows, f) /\ FlattenSeq(rows) = f[n]
  BY <1>0, <1>2, FlattenIsChosen
<1>4. \A i \in 1 .. n : f[i] = IF i = 1 THEN rows[i] ELSE f[i - 1] \o rows[i]
  BY <1>0, <1>3 DEF FlattenBy
<1> DEFINE Good == {i \in Nat : i + 1 <= n => f[i + 1] = g[i + 1]}
<1>5. 0 \in Good
  <2>1. 1 \in 1 .. n
    BY <1>0
  <2>2. g[1] = rows[1]
    BY <1>1, <2>1, FlatIs
  <2>3. f[1] = rows[1]
    BY <1>4, <2>1
  <2>4. 0 + 1 = 1
    OBVIOUS
  <2>5. QED
    BY <2>2, <2>3, <2>4
<1>6. ASSUME NEW i \in Nat, i \in Good PROVE i + 1 \in Good
  <2> SUFFICES ASSUME (i + 1) + 1 <= n PROVE f[(i + 1) + 1] = g[(i + 1) + 1]
    OBVIOUS
  <2>1. f[i + 1] = g[i + 1] /\ i + 1 \in 1 .. n
    BY <1>0, <1>6
  <2>2. PICK m \in 1 .. n : m = (i + 1) + 1
    BY <1>0
  <2>3. m # 1 /\ m - 1 = i + 1
    BY <2>2
  <2>4. f[m] = f[m - 1] \o rows[m]
    BY <1>4, <2>3
  <2>5. g[m] = g[m - 1] \o rows[m]
    BY <1>0, <1>2, <2>3 DEF FlattenBy
  <2>6. QED
    BY <2>1, <2>2, <2>3, <2>4, <2>5
<1>7. Nat \subseteq Good
  <2> HIDE DEF Good
  <2>1. QED
    BY <1>5, <1>6, NatInductionOnSets
<1>8. f[n] = g[n]
  <2>1. PICK i \in Nat : i + 1 = n
    <3>1. n - 1 \in Nat /\ (n - 1) + 1 = n
      BY <1>0
    <3>2. QED
      BY <3>1
  <2>2. i \in Good /\ i + 1 <= n
    BY <1>7, <2>1
  <2>3. QED
    BY <2>1, <2>2
<1>9. QED
  BY <1>0, <1>1, <1>3, <1>8

\* A combination as what is laid upon another: one value of an axis.
With(axis, x, combos) ==
  Upon([k \in {axis.key} |-> axis.values[((x - 1) % Len(axis.values)) + 1]],
       combos[((x - 1) \div Len(axis.values)) + 1])

\* Each combination is extended with each value, the values turning fastest.
LEMMA ExtendedIs ==
  ASSUME NEW C, NEW combos \in Seq(C), combos # <<>>, NEW axis,
         Len(axis.values) \in Nat \ {0}
  PROVE  Extended(combos, axis) =
           [x \in 1 .. (Len(combos) * Len(axis.values)) |-> With(axis, x, combos)]
<1>1. PICK n \in Nat \ {0} : n = Len(combos)
  OBVIOUS
<1>2. PICK k \in Nat \ {0} : k = Len(axis.values)
  OBVIOUS
<1> DEFINE Cell(i, j) == Upon([q \in {axis.key} |-> axis.values[j]], combos[i])
           P == (1 .. n) \X (1 .. k)
           V == {Cell(p[1], p[2]) : p \in P}
<1>3. PICK rows : rows = [i \in 1 .. n |-> [j \in 1 .. k |-> Cell(i, j)]]
  OBVIOUS
<1>4. EvenRows(V, n, k, rows)
  <2>1. ASSUME NEW i \in 1 .. n PROVE rows[i] \in Seq(V) /\ Len(rows[i]) = k
    <3>1. ASSUME NEW j \in 1 .. k PROVE Cell(i, j) \in V
      <4>0. <<i, j>> \in P /\ <<i, j>>[1] = i /\ <<i, j>>[2] = j
        OBVIOUS
      <4>1. PICK p \in P : p[1] = i /\ p[2] = j
        BY <4>0, Zenon
      <4>2. Cell(i, j) = Cell(p[1], p[2])
        BY <4>1, Zenon
      <4> HIDE DEF Cell, P
      <4>3. QED
        BY <4>2
    <3> HIDE DEF V, Cell
    <3>2. rows[i] = [j \in 1 .. k |-> Cell(i, j)]
      BY <1>3
    <3>3. QED
      BY <3>1, <3>2
  <2> HIDE DEF V, Cell
  <2>2. DOMAIN rows = 1 .. n /\ rows = [i \in 1 .. n |-> rows[i]]
    BY <1>3
  <2>3. rows \in [1 .. n -> Seq(V)]
    BY <2>1, <2>2
  <2>4. QED
    BY <2>1, <2>3 DEF EvenRows
<1>5. Extended(combos, axis) = FlattenSeq(rows)
  BY <1>1, <1>2, <1>3, Zenon DEF Extended
<1>6. Extended(combos, axis) = Flat(rows, k, n)
  <2> HIDE DEF V, Cell
  <2>1. QED
    BY <1>4, <1>5, FlattenIs
<1>7. ASSUME NEW x \in 1 .. (n * k)
      PROVE  rows[((x - 1) \div k) + 1][((x - 1) % k) + 1] = With(axis, x, combos)
  <2>1. PICK y \in Nat : y = x - 1
    <3>1. PICK p \in Nat : p = n * k
      OBVIOUS
    <3>2. QED
      BY <3>1
  <2>2. y < n * k
    <3>1. PICK p \in Nat : p = n * k
      OBVIOUS
    <3>2. QED
      BY <2>1, <3>1
  <2>3. y \div k \in 0 .. (n - 1) /\ y % k \in 0 .. (k - 1)
    BY <2>2, RowIs, DivisionGives
  <2>4. PICK a \in 1 .. n : a = (y \div k) + 1
    <3>1. PICK c \in 0 .. (n - 1) : c = y \div k
      BY <2>3
    <3>2. c + 1 \in 1 .. n
      OBVIOUS
    <3>3. QED
      BY <3>1, <3>2
  <2>5. PICK b \in 1 .. k : b = (y % k) + 1
    <3>1. PICK c \in 0 .. (k - 1) : c = y % k
      BY <2>3
    <3>2. c + 1 \in 1 .. k
      OBVIOUS
    <3>3. QED
      BY <3>1, <3>2
  <2>6. rows[a][b] = Cell(a, b)
    <3> HIDE DEF Cell
    <3>1. QED
      BY <1>3
  <2>7. With(axis, x, combos) = Cell(a, b)
    BY <1>2, <2>1, <2>4, <2>5, Zenon DEF With
  <2>8. QED
    BY <2>1, <2>4, <2>5, <2>6, <2>7
<1>8. QED
  BY <1>1, <1>2, <1>6, <1>7, Zenon DEF Flat

-----------------------------------------------------------------------------
(* The product of the axes                                                 *)

Axis(K, T) == [key : K, values : Seq(T) \ {<<>>}]
Combos(K, T) == Seq(Maps(K, T)) \ {<<>>}

\* Axes with values, no two of a key.
ProperAxes(K, T, axes) ==
  /\ axes \in Seq(Axis(K, T))
  /\ \A i, j \in 1 .. Len(axes) : axes[i].key = axes[j].key => i = j

LEMMA AxisIs ==
  ASSUME NEW K, NEW T, NEW axis \in Axis(K, T)
  PROVE  /\ axis.key \in K /\ axis.values \in Seq(T) /\ Len(axis.values) \in Nat \ {0}
         /\ \A i \in 1 .. Len(axis.values) : axis.values[i] \in T
BY DEF Axis

\* Each combination with each value of an axis.
ExtendsTo(combos, axis, e) ==
  /\ Len(e) = Len(combos) * Len(axis.values)
  /\ \A x \in 1 .. (Len(combos) * Len(axis.values)) :
       /\ ((x - 1) \div Len(axis.values)) + 1 \in 1 .. Len(combos)
       /\ e[x] = With(axis, x, combos)

LEMMA ExtendedHas ==
  ASSUME NEW K, NEW T, NEW combos \in Combos(K, T), NEW axis \in Axis(K, T)
  PROVE  /\ Extended(combos, axis) \in Combos(K, T)
         /\ ExtendsTo(combos, axis, Extended(combos, axis))
<1>1. PICK n \in Nat \ {0} : n = Len(combos)
  BY DEF Combos
<1>2. PICK k \in Nat \ {0} : k = Len(axis.values)
  BY AxisIs
<1>3. PICK p \in Nat \ {0} : p = n * k
  OBVIOUS
<1>4. Extended(combos, axis) = [x \in 1 .. p |-> With(axis, x, combos)]
  <2>1. combos \in Seq(Maps(K, T)) /\ combos # <<>>
    BY DEF Combos
  <2>2. QED
    BY <1>1, <1>2, <1>3, <2>1, ExtendedIs
<1>5. ASSUME NEW x \in 1 .. p
      PROVE  ((x - 1) \div k) + 1 \in 1 .. n /\ With(axis, x, combos) \in Maps(K, T)
  <2>1. PICK y \in Nat : y = x - 1
    OBVIOUS
  <2>2. y < n * k
    BY <1>3, <2>1
  <2>3. PICK q \in 0 .. (n - 1) : q = y \div k
    BY <2>2, RowIs
  <2>4. PICK r \in 0 .. (k - 1) : r = y % k
    BY DivisionGives
  <2>5. PICK a \in 1 .. n : a = q + 1
    OBVIOUS
  <2>6. PICK b \in 1 .. k : b = r + 1
    OBVIOUS
  <2>7. PICK one : one = [c \in {axis.key} |-> axis.values[b]]
    OBVIOUS
  <2>8. one \in Maps(K, T)
    <3>1. axis.key \in K /\ axis.values[b] \in T
      BY <1>2, AxisIs
    <3>2. IsMap(one) /\ DOMAIN one = {axis.key} /\ one[axis.key] = axis.values[b]
      BY <2>7 DEF IsMap
    <3>3. QED
      BY <3>1, <3>2, MapsMember
  <2>9. combos[a] \in Maps(K, T)
    BY <1>1 DEF Combos
  <2>10. With(axis, x, combos) = Upon(one, combos[a])
    BY <1>2, <2>1, <2>3, <2>4, <2>5, <2>6, <2>7, Zenon DEF With
  <2>11. QED
    BY <2>1, <2>3, <2>5, <2>8, <2>9, <2>10, UponType
<1>6. PICK e : e = Extended(combos, axis)
  OBVIOUS
<1>7. e \in Seq(Maps(K, T)) /\ Len(e) = p /\ \A x \in 1 .. p : e[x] = With(axis, x, combos)
  BY <1>4, <1>5, <1>6
<1>8. e \in Combos(K, T)
  BY <1>7 DEF Combos
<1>9. QED
  BY <1>1, <1>2, <1>3, <1>5, <1>6, <1>7, <1>8 DEF ExtendsTo

Product(axes) == FoldLeft(Extended, <<NoLayer>>, axes)

ProductBy(axes, r) ==
  r = [s \in SUBSET (DOMAIN axes) |->
         IF s = {} THEN <<NoLayer>> ELSE Extended(r[s \ {Max(s)}], axes[Max(s)])]

LEMMA ProductIsChosen ==
  ASSUME NEW axes
  PROVE  Product(axes) = (CHOOSE r : ProductBy(axes, r))[DOMAIN axes]
BY Zenon DEF Product, FoldLeft, MapThenFoldSet, ProductBy

\* The product by and by.
ProductAlong(n, axes, h) ==
  /\ h[0] = <<NoLayer>> /\ Product(axes) = h[n]
  /\ \A i \in 1 .. n : h[i] = Extended(h[i - 1], axes[i])

LEMMA FirstCombos ==
  ASSUME NEW K, NEW T
  PROVE  <<NoLayer>> \in Combos(K, T)
<1>1. IsMap(NoLayer) /\ DOMAIN NoLayer = {}
  BY DEF IsMap, NoLayer
<1>2. NoLayer \in Maps(K, T)
  BY <1>1, MapsMember
<1>3. QED
  BY <1>2 DEF Combos

LEMMA ProductGoes ==
  ASSUME NEW K, NEW T, NEW n, NEW axes, ProperAxes(K, T, axes), n = Len(axes)
  PROVE  \E h : ProductAlong(n, axes, h)
<1> DEFINE V == Combos(K, T)
           step == [x \in (1 .. n) \X V |-> Extended(x[2], axes[x[1]])]
<1>0. n \in Nat /\ DOMAIN axes = 1 .. n /\ \A i \in 1 .. n : axes[i] \in Axis(K, T)
  BY DEF ProperAxes
<1>1. <<NoLayer>> \in V
  BY FirstCombos
<1>2. step \in [(1 .. n) \X V -> V]
  <2>1. ASSUME NEW x \in (1 .. n) \X V PROVE Extended(x[2], axes[x[1]]) \in V
    <3>1. PICK c \in V : c = x[2]
      OBVIOUS
    <3>2. PICK axis \in Axis(K, T) : axis = axes[x[1]]
      BY <1>0
    <3>3. QED
      BY <3>1, <3>2, ExtendedHas
  <2> HIDE DEF V
  <2>2. QED
    BY <2>1
<1>3. PICK r \in [SUBSET (1 .. n) -> V] : Folds(r, 1 .. n, <<NoLayer>>, Lasts(n), step)
  <2> HIDE DEF V, step
  <2>1. PICK base : base = <<NoLayer>>
    OBVIOUS
  <2>2. QED
    BY <1>0, <1>1, <1>2, <2>1, LeftFoldExists
<1>4. ProductBy(axes, r)
  <2>1. SUFFICES ASSUME NEW s \in SUBSET (1 .. n)
                 PROVE  r[s] = IF s = {} THEN <<NoLayer>>
                               ELSE Extended(r[s \ {Max(s)}], axes[Max(s)])
    BY <1>0 DEF ProductBy
  <2>2. r[s] = IF s = {} THEN <<NoLayer>> ELSE step[<<Max(s), r[s \ {Max(s)}]>>]
    <3> HIDE DEF step, V
    <3>1. QED
      BY <1>3 DEF Folds, Lasts
  <2>3. s # {} => Max(s) \in 1 .. n /\ r[s \ {Max(s)}] \in V
    <3> HIDE DEF step, V
    <3>1. QED
      BY <1>0, <1>3, MaxIsLast
  <2>4. QED
    <3> HIDE DEF V
    <3>1. QED
      BY <2>2, <2>3
<1>5. PICK q : ProductBy(axes, q) /\ Product(axes) = q[1 .. n]
  BY <1>0, <1>4, ProductIsChosen
<1>6. \A s \in SUBSET (1 .. n) :
        q[s] = IF s = {} THEN <<NoLayer>> ELSE Extended(q[s \ {Max(s)}], axes[Max(s)])
  BY <1>0, <1>5 DEF ProductBy
<1>7. PICK h : h = [i \in 0 .. n |-> q[1 .. i]]
  OBVIOUS
<1>8. h[0] = <<NoLayer>> /\ Product(axes) = h[n]
  <2>1. 1 .. 0 = {}
    OBVIOUS
  <2>2. h[0] = q[1 .. 0] /\ h[n] = q[1 .. n]
    BY <1>0, <1>7
  <2>3. q[1 .. 0] = <<NoLayer>>
    BY <1>6, <2>1
  <2>4. QED
    BY <1>5, <2>2, <2>3
<1>9. ASSUME NEW i \in 1 .. n PROVE h[i] = Extended(h[i - 1], axes[i])
  <2>1. i \in Nat \ {0} /\ i - 1 \in 0 .. n /\ i \in 0 .. n
    BY <1>0
  <2>2. 1 .. i \in SUBSET (1 .. n)
    BY <1>0
  <2>3. Max(1 .. i) = i /\ 1 .. i # {} /\ (1 .. i) \ {i} = 1 .. (i - 1)
    BY <2>1, UpToLast
  <2>4. h[i] = q[1 .. i] /\ h[i - 1] = q[1 .. (i - 1)]
    BY <1>7, <2>1
  <2>5. q[1 .. i] = Extended(q[1 .. (i - 1)], axes[i])
    BY <1>6, <2>2, <2>3
  <2>6. QED
    BY <2>4, <2>5
<1>10. QED
  BY <1>8, <1>9 DEF ProductAlong

\* Where the value of axis a stands in the combination x of the first m axes.
TurnOf(axes, m, a, x) ==
  (((x - 1) \div Between(axes, a, m)) % Len(axes[a].values)) + 1

\* The combinations of the first m axes, the last turning fastest.
Turning(axes, m, combos) ==
  /\ Len(combos) = Between(axes, 0, m)
  /\ \A x \in 1 .. Len(combos) :
       /\ DOMAIN combos[x] = {axes[a].key : a \in 1 .. m}
       /\ \A a \in 1 .. m : combos[x][axes[a].key] = axes[a].values[TurnOf(axes, m, a, x)]

LEMMA ProperBetween ==
  ASSUME NEW K, NEW T, NEW axes, ProperAxes(K, T, axes), NEW a \in 0 .. Len(axes)
  PROVE  /\ Between(axes, a, a) = 1
         /\ \A m \in Nat : a <= m /\ m < Len(axes) =>
              /\ Between(axes, a, m) \in Nat \ {0}
              /\ Between(axes, a, m + 1) = Between(axes, a, m) * Len(axes[m + 1].values)
<1>1. axes \in Seq(Axis(K, T)) /\ DOMAIN axes = 1 .. Len(axes) /\ Len(axes) \in Nat /\ a \in Nat
  BY DEF ProperAxes
<1>2. \A i \in 1 .. Len(axes) : axes[i] \in Axis(K, T)
  BY <1>1
<1>3. HaveValues(Len(axes), axes)
  BY <1>1, <1>2, AxisIs DEF HaveValues
<1>4. QED
  BY <1>1, <1>3, BetweenIs

LEMMA TurningGoes ==
  ASSUME NEW K, NEW T, NEW axes, ProperAxes(K, T, axes), NEW m \in Nat, m + 1 <= Len(axes),
         NEW combos \in Combos(K, T), Turning(axes, m, combos)
  PROVE  Turning(axes, m + 1, Extended(combos, axes[m + 1]))
<1>1. PICK c \in Nat : c = m + 1
  OBVIOUS
<1>2. c \in 1 .. Len(axes) /\ m < Len(axes) /\ Len(axes) \in Nat
  BY <1>1 DEF ProperAxes
<1>3. PICK axis \in Axis(K, T) : axis = axes[c]
  BY <1>2 DEF ProperAxes
<1>4. PICK k \in Nat \ {0} : k = Len(axis.values)
  BY AxisIs
<1>5. PICK n \in Nat \ {0} : n = Len(combos)
  BY DEF Combos
<1>6. PICK p \in Nat \ {0} : p = n * k
  OBVIOUS
<1>7. PICK e : e = Extended(combos, axis)
  OBVIOUS
<1>8. /\ Len(e) = p
      /\ \A x \in 1 .. p : ((x - 1) \div k) + 1 \in 1 .. n /\ e[x] = With(axis, x, combos)
  <2>1. ExtendsTo(combos, axis, e)
    BY <1>7, ExtendedHas
  <2>2. QED
    BY ONLY <1>4, <1>5, <1>6, <2>1 DEF ExtendsTo
<1>9. Len(e) = Between(axes, 0, c)
  <2>1. PICK z \in 0 .. Len(axes) : z = 0
    BY <1>2
  <2>2. Between(axes, z, m + 1) = Between(axes, z, m) * Len(axes[m + 1].values)
    BY <1>2, <2>1, ProperBetween
  <2>3. Between(axes, 0, m) = n
    BY <1>5 DEF Turning
  <2>4. QED
    BY <1>1, <1>3, <1>4, <1>6, <1>8, <2>1, <2>2, <2>3
<1>10. ASSUME NEW x \in 1 .. p
       PROVE  /\ DOMAIN e[x] = {axes[a].key : a \in 1 .. c}
              /\ \A a \in 1 .. c : e[x][axes[a].key] = axes[a].values[TurnOf(axes, c, a, x)]
  <2>1. PICK y \in Nat : y = x - 1
    OBVIOUS
  <2>2. PICK q \in Nat : q = y \div k
    BY DivisionGives
  <2>3. PICK row \in 1 .. n : row = q + 1
    BY <1>8, <2>1, <2>2
  <2>4. PICK one : one = [d \in {axis.key} |-> axis.values[(y % k) + 1]]
    OBVIOUS
  <2>5. e[x] = Upon(one, combos[row])
    BY <1>4, <1>8, <2>1, <2>2, <2>3, <2>4, Zenon DEF With
  <2>6. PICK base : base = combos[row]
    OBVIOUS
  <2>7. /\ DOMAIN e[x] = DOMAIN one \cup DOMAIN base
         /\ \A key \in DOMAIN one \cup DOMAIN base :
              e[x][key] = IF key \in DOMAIN one THEN one[key] ELSE base[key]
    <3>1. e[x] = Upon(one, base)
      BY <2>5, <2>6
    <3>2. QED
      BY <3>1 DEF Upon
  <2>8. /\ DOMAIN combos[row] = {axes[a].key : a \in 1 .. m}
        /\ \A a \in 1 .. m : combos[row][axes[a].key] = axes[a].values[TurnOf(axes, m, a, row)]
    BY <1>5 DEF Turning
  <2>9. DOMAIN one = {axis.key} /\ one[axis.key] = axis.values[(y % k) + 1]
    BY <2>4
  <2>10. 1 .. c = (1 .. m) \cup {c} /\ c \notin 1 .. m
    BY <1>1
  <2>11. DOMAIN e[x] = {axes[a].key : a \in 1 .. c}
    <3>1. DOMAIN e[x] = {axis.key} \cup {axes[a].key : a \in 1 .. m}
      BY <2>8, <2>9, <2>6, <2>7
    <3>2. QED
      BY <1>3, <2>10, <3>1
  <2>12. ASSUME NEW a \in 1 .. m
         PROVE  e[x][axes[a].key] = axes[a].values[TurnOf(axes, c, a, x)]
    <3>1. PICK key : key = axes[a].key
      OBVIOUS
    <3>2. key # axis.key
      <4>1. a \in 1 .. Len(axes) /\ a # c
        BY <1>2, <2>10
      <4>2. QED
        BY <1>2, <1>3, <3>1, <4>1 DEF ProperAxes
    <3>3. e[x][key] = combos[row][key]
      <4>1. key \in DOMAIN base /\ key \notin DOMAIN one
        BY <2>8, <2>9, <2>6, <3>1, <3>2
      <4>2. QED
        BY <2>6, <2>7, <4>1
    <3>4. PICK w \in Nat \ {0} : w = Between(axes, a, m)
      <4>1. a \in 0 .. Len(axes) /\ a <= m
        BY <1>2
      <4>2. QED
        BY <1>2, <4>1, ProperBetween
    <3>5. Between(axes, a, c) = w * k
      <4>1. a \in 0 .. Len(axes) /\ a <= m
        BY <1>2
      <4>2. QED
        BY <1>1, <1>2, <1>3, <1>4, <3>4, <4>1, ProperBetween
    <3>6. q \div w = y \div (w * k)
      BY <2>2, DivisionTwice
    <3>7. row - 1 = q
      BY <2>3
    <3>8. TurnOf(axes, m, a, row) = TurnOf(axes, c, a, x)
      BY <2>1, <3>4, <3>5, <3>6, <3>7 DEF TurnOf
    <3>9. QED
      BY <2>8, <3>1, <3>3, <3>8
  <2>13. e[x][axes[c].key] = axes[c].values[TurnOf(axes, c, c, x)]
    <3>1. e[x][axis.key] = axis.values[(y % k) + 1]
      BY <2>9, <2>7
    <3>2. Between(axes, c, c) = 1
      <4>1. c \in 0 .. Len(axes)
        BY <1>2
      <4>2. QED
        BY <4>1, ProperBetween
    <3>3. y \div 1 = y
      <4>1. PICK o \in Nat \ {0} : o = 1
        OBVIOUS
      <4>2. PICK z \in 0 .. o - 1 : z = 0
        BY <4>1
      <4>3. y = o * y + z
        BY <4>1, <4>2
      <4>4. QED
        BY <4>1, <4>3, DivisionIsOnly
    <3>4. TurnOf(axes, c, c, x) = (y % k) + 1
      BY <1>3, <1>4, <2>1, <3>2, <3>3 DEF TurnOf
    <3>5. QED
      BY <1>3, <3>1, <3>4
  <2>14. QED
    BY <2>10, <2>11, <2>12, <2>13
<1>11. QED
  BY <1>1, <1>3, <1>7, <1>8, <1>9, <1>10 DEF Turning

LEMMA ProductTurns ==
  ASSUME NEW K, NEW T, NEW axes, ProperAxes(K, T, axes)
  PROVE  Turning(axes, Len(axes), Product(axes))
<1>1. PICK n \in Nat : n = Len(axes)
  BY DEF ProperAxes
<1>2. PICK h : ProductAlong(n, axes, h)
  BY <1>1, ProductGoes
<1> DEFINE Good == {m \in Nat : m <= n => h[m] \in Combos(K, T) /\ Turning(axes, m, h[m])}
<1>3. 0 \in Good
  <2>1. h[0] = <<NoLayer>> /\ <<NoLayer>> \in Combos(K, T)
    BY <1>2, FirstCombos DEF ProductAlong
  <2>2. PICK z \in 0 .. Len(axes) : z = 0
    BY <1>1
  <2>3. Between(axes, z, z) = 1
    BY ProperBetween
  <2>4. DOMAIN NoLayer = {} /\ 1 .. 0 = {} /\ Len(<<NoLayer>>) = 1 /\ <<NoLayer>>[1] = NoLayer
    BY DEF NoLayer
  <2>5. Turning(axes, 0, <<NoLayer>>)
    BY <2>2, <2>3, <2>4 DEF Turning
  <2>6. QED
    BY <2>1, <2>5
<1>4. ASSUME NEW m \in Nat, m \in Good PROVE m + 1 \in Good
  <2> SUFFICES ASSUME m + 1 <= n
               PROVE  h[m + 1] \in Combos(K, T) /\ Turning(axes, m + 1, h[m + 1])
    OBVIOUS
  <2>1. m + 1 \in 1 .. n /\ m <= n /\ (m + 1) - 1 = m
    OBVIOUS
  <2>2. h[m] \in Combos(K, T) /\ Turning(axes, m, h[m])
    BY <1>4, <2>1
  <2>3. PICK c \in 1 .. n : c = m + 1
    BY <2>1
  <2>4. h[c] = Extended(h[m], axes[c])
    <3>1. h[c] = Extended(h[c - 1], axes[c]) /\ c - 1 = m
      BY <1>2, <2>1, <2>3 DEF ProductAlong
    <3>2. QED
      BY <3>1
  <2>5. axes[c] \in Axis(K, T)
    BY <1>1 DEF ProperAxes
  <2>6. h[c] \in Combos(K, T)
    BY <2>2, <2>4, <2>5, ExtendedHas
  <2>7. Turning(axes, m + 1, Extended(h[m], axes[m + 1]))
    BY <1>1, <2>2, TurningGoes
  <2>8. QED
    BY <2>3, <2>4, <2>6, <2>7
<1>5. Nat \subseteq Good
  <2> HIDE DEF Good
  <2>1. QED
    BY <1>3, <1>4, NatInductionOnSets
<1>6. QED
  <2>1. n \in Good /\ n <= n
    BY <1>5
  <2>2. QED
    BY <1>1, <1>2, <2>1 DEF ProductAlong

-----------------------------------------------------------------------------
(* The axes of a matrix                                                    *)

\* An axis with the values of an entry after its own.
Longer(axis, e) == [axis EXCEPT !.values = @ \o e.values]

\* An entry joins the axis of its key, or is a new axis.
Joining(axes, e) ==
  IF \E i \in 1..Len(axes) : axes[i].key = e.key
  THEN [i \in 1..Len(axes) |->
          IF axes[i].key = e.key
          THEN Longer(axes[i], e) ELSE axes[i]]
  ELSE Append(axes, e)

AxesBy(entries, r) ==
  r = [s \in SUBSET (DOMAIN entries) |->
         IF s = {} THEN <<>> ELSE Joining(r[s \ {Max(s)}], entries[Max(s)])]

LEMMA AxesIsChosen ==
  ASSUME NEW entries
  PROVE  Axes(entries) = (CHOOSE r : AxesBy(entries, r))[DOMAIN entries]
BY Zenon DEF Axes, FoldLeft, MapThenFoldSet, AxesBy, Joining, Longer

LEMMA LongerAxis ==
  ASSUME NEW K, NEW T, NEW a \in Axis(K, T), NEW e \in Axis(K, T)
  PROVE  /\ Longer(a, e) \in Axis(K, T)
         /\ Longer(a, e).key = a.key
<1>1. a = [key |-> a.key, values |-> a.values] /\ a.key \in K
  BY DEF Axis
<1>2. PICK s : s = a.values /\ s \in Seq(T) /\ s # <<>>
  BY DEF Axis
<1>3. PICK t : t = e.values /\ t \in Seq(T) /\ t # <<>>
  BY DEF Axis
<1>4. PICK c : c = s \o t
  OBVIOUS
<1>5. c \in Seq(T) /\ c # <<>>
  BY <1>2, <1>3, <1>4, ConcatEqualIffEmpty, ConcatProperties
<1>6. Longer(a, e) = [key |-> a.key, values |-> c]
  <2>1. PICK k : k = a.key
    OBVIOUS
  <2>2. a = [key |-> k, values |-> s]
    BY <1>1, <1>2, <2>1
  <2>3. [a EXCEPT !.values = c] = [key |-> k, values |-> c]
    BY ONLY <2>2
  <2>4. Longer(a, e) = [a EXCEPT !.values = c]
    BY <1>2, <1>3, <1>4 DEF Longer
  <2>5. QED
    BY <2>1, <2>3, <2>4
<1>7. QED
  BY <1>1, <1>5, <1>6 DEF Axis

LEMMA JoiningIsProper ==
  ASSUME NEW K, NEW T, NEW axes, ProperAxes(K, T, axes), NEW e \in Axis(K, T)
  PROVE  ProperAxes(K, T, Joining(axes, e))
<1>1. PICK n \in Nat : n = Len(axes)
  BY DEF ProperAxes
<1>2. /\ axes \in Seq(Axis(K, T)) /\ \A i \in 1 .. n : axes[i] \in Axis(K, T)
      /\ \A i, j \in 1 .. n : axes[i].key = axes[j].key => i = j
  BY <1>1 DEF ProperAxes
<1>3. CASE \E i \in 1 .. n : axes[i].key = e.key
  <2>1. PICK s : s = [i \in 1 .. n |-> IF axes[i].key = e.key
                                       THEN Longer(axes[i], e)
                                       ELSE axes[i]]
    OBVIOUS
  <2>2. Joining(axes, e) = s
    BY <1>1, <1>3, <2>1, Zenon DEF Joining
  <2>3. ASSUME NEW i \in 1 .. n PROVE s[i] \in Axis(K, T) /\ s[i].key = axes[i].key
    <3>1. PICK a \in Axis(K, T) : a = axes[i]
      BY <1>2
    <3>2. PICK b : b = Longer(a, e)
      OBVIOUS
    <3>3. b \in Axis(K, T) /\ b.key = a.key
      BY <3>2, LongerAxis
    <3>4. s[i] = IF a.key = e.key THEN b ELSE a
      BY <2>1, <3>1, <3>2
    <3>5. QED
      BY <3>1, <3>3, <3>4
  <2>4. s \in Seq(Axis(K, T)) /\ Len(s) = n
    <3>1. \A i \in 1 .. n : s[i] \in Axis(K, T)
      BY <2>3
    <3>2. DOMAIN s = 1 .. n /\ s = [i \in 1 .. n |-> s[i]]
      BY <2>1
    <3>3. s \in [1 .. n -> Axis(K, T)]
      BY ONLY <3>1, <3>2
    <3>4. QED
      BY <3>3
  <2>5. QED
    BY <1>2, <2>2, <2>3, <2>4 DEF ProperAxes
<1>4. CASE ~ \E i \in 1 .. n : axes[i].key = e.key
  <2>1. Joining(axes, e) = Append(axes, e)
    BY <1>1, <1>4, Zenon DEF Joining
  <2>2. PICK s : s = Append(axes, e)
    OBVIOUS
  <2>3. /\ s \in Seq(Axis(K, T)) /\ Len(s) = n + 1 /\ s[n + 1] = e
        /\ \A i \in 1 .. n : s[i] = axes[i]
    BY <1>1, <1>2, <2>2
  <2>4. ASSUME NEW i \in 1 .. n + 1, NEW j \in 1 .. n + 1, s[i].key = s[j].key PROVE i = j
    <3>1. (i \in 1 .. n \/ i = n + 1) /\ (j \in 1 .. n \/ j = n + 1)
      OBVIOUS
    <3>2. QED
      BY <1>2, <1>4, <2>3, <2>4, <3>1
  <2>5. QED
    BY <2>1, <2>2, <2>3, <2>4 DEF ProperAxes
<1>5. QED
  BY <1>3, <1>4

LEMMA AxesAreProper ==
  ASSUME NEW K, NEW T, NEW entries \in Seq(Axis(K, T))
  PROVE  ProperAxes(K, T, Axes(entries))
<1> DEFINE V == {s \in Seq(Axis(K, T)) : ProperAxes(K, T, s)}
<1>1. PICK n \in Nat : n = Len(entries)
  OBVIOUS
<1>2. DOMAIN entries = 1 .. n /\ \A i \in 1 .. n : entries[i] \in Axis(K, T)
  BY <1>1
<1> DEFINE step == [x \in (1 .. n) \X V |-> Joining(x[2], entries[x[1]])]
<1>3. <<>> \in V
  <2>1. <<>> \in Seq(Axis(K, T)) /\ Len(<<>>) = 0 /\ 1 .. 0 = {}
    OBVIOUS
  <2>2. ProperAxes(K, T, <<>>)
    BY <2>1 DEF ProperAxes
  <2>3. QED
    BY <2>1, <2>2
<1>4. ASSUME NEW s \in V, NEW i \in 1 .. n PROVE Joining(s, entries[i]) \in V
  <2>1. ProperAxes(K, T, Joining(s, entries[i]))
    BY <1>2, JoiningIsProper
  <2>2. QED
    BY <2>1 DEF ProperAxes
<1>5. step \in [(1 .. n) \X V -> V]
  <2> HIDE DEF V
  <2>1. QED
    BY <1>4
<1>6. PICK r \in [SUBSET (1 .. n) -> V] : Folds(r, 1 .. n, <<>>, Lasts(n), step)
  <2> HIDE DEF V, step
  <2>1. PICK base : base = <<>>
    OBVIOUS
  <2>2. QED
    BY <1>3, <1>5, <2>1, LeftFoldExists
<1>7. AxesBy(entries, r)
  <2>1. SUFFICES ASSUME NEW s \in SUBSET (1 .. n)
                 PROVE  r[s] = IF s = {} THEN <<>>
                               ELSE Joining(r[s \ {Max(s)}], entries[Max(s)])
    BY <1>2 DEF AxesBy
  <2>2. r[s] = IF s = {} THEN <<>> ELSE step[<<Max(s), r[s \ {Max(s)}]>>]
    <3> HIDE DEF step, V
    <3>1. QED
      BY <1>6 DEF Folds, Lasts
  <2>3. s # {} => Max(s) \in 1 .. n /\ r[s \ {Max(s)}] \in V
    <3> HIDE DEF step, V
    <3>1. QED
      BY <1>6, MaxIsLast
  <2>4. QED
    <3> HIDE DEF V
    <3>1. QED
      BY <2>2, <2>3
<1>8. PICK q : AxesBy(entries, q) /\ Axes(entries) = q[1 .. n]
  BY <1>2, <1>7, AxesIsChosen
<1>9. \A s \in SUBSET (1 .. n) :
        q[s] = IF s = {} THEN <<>> ELSE Joining(q[s \ {Max(s)}], entries[Max(s)])
  BY <1>2, <1>8 DEF AxesBy
<1> DEFINE Good == {s \in SUBSET (1 .. n) : q[s] \in V}
<1>10. ASSUME NEW s \in SUBSET (1 .. n), \A t \in SUBSET s : t # s => t \in Good
       PROVE  s \in Good
  <2>1. CASE s = {}
    BY <1>3, <1>9, <2>1
  <2>2. CASE s # {}
    <3>1. Max(s) \in s /\ Max(s) \in 1 .. n
      BY <2>2, MaxIsLast
    <3>2. PICK t \in SUBSET s : t = s \ {Max(s)} /\ t # s
      <4>1. s \ {Max(s)} \in SUBSET s /\ s \ {Max(s)} # s
        BY <3>1
      <4>2. QED
        BY <4>1
    <3>3. q[t] \in V
      BY <1>10, <3>2
    <3>4. q[s] = Joining(q[t], entries[Max(s)])
      BY <1>9, <2>2, <3>2
    <3> HIDE DEF V
    <3>5. QED
      BY <1>4, <3>1, <3>3, <3>4
  <2>3. QED
    BY <2>1, <2>2
<1>11. SUBSET (1 .. n) \subseteq Good
  <2> HIDE DEF Good
  <2>1. PICK D : D = 1 .. n
    OBVIOUS
  <2>2. IsFiniteSet(D)
    BY <2>1, FS_Interval
  <2>3. \A s \in SUBSET D : (\A t \in SUBSET s : t # s => t \in Good) => s \in Good
    BY <1>10, <2>1
  <2>4. SUBSET D \subseteq Good
    BY ONLY <2>2, <2>3, SubsetInduction
  <2>5. QED
    BY <2>1, <2>4
<1>12. QED
  BY <1>8, <1>11

\* Every combination of the axes stands once, the last axis turning fastest
\* (runner.rs, matrix_combinations), for any axes and any values.
THEOREM MatrixIsAsAsked ==
  ASSUME NEW entries, IsMatrix(entries), NEW hasMap
  PROVE  CombinationsAsked(entries, hasMap)
<1>1. PICK outcome : outcome = ResolveMatrix(entries, hasMap)
  OBVIOUS
<1>2. PICK axes : axes = Axes(entries)
  OBVIOUS
<1>3. SUFFICES ASSUME IsFine(outcome), outcome[2] # <<>>
               PROVE  /\ ~hasMap /\ Len(outcome[2]) = Width(axes)
                      /\ Width(axes) <= FanoutWidthMax
                      /\ \A i \in 1..Len(outcome[2]), a \in 1..Len(axes) :
                           outcome[2][i][axes[a].key] =
                             axes[a].values[(((i - 1) \div Width(SubSeq(axes, a + 1, Len(axes))))
                                             % Len(axes[a].values)) + 1]
  BY <1>1, <1>2, Zenon DEF CombinationsAsked
<1>4. PICK empty : empty = <<>>
  OBVIOUS
<1>5. entries # <<>> /\ ~hasMap /\ ~(\E i \in 1..Len(entries) : entries[i].values = <<>>)
      /\ outcome = MatrixCombinations(axes)
  <2>1. ~(entries = <<>> \/ hasMap)
    BY <1>1, <1>3, <1>4, FineIs DEF ResolveMatrix
  <2>2. ~(\E i \in 1..Len(entries) : entries[i].values = <<>>)
    BY <1>1, <1>3, <2>1, FineIs DEF ResolveMatrix
  <2>3. QED
    BY <1>1, <1>2, <2>1, <2>2, Zenon DEF ResolveMatrix
<1>6. axes # <<>> /\ ~(Width(axes) > FanoutWidthMax) /\ outcome[2] = Product(axes)
  <2>1. axes # <<>>
    BY <1>3, <1>4, <1>5, FineIs DEF MatrixCombinations
  <2>2. ~(Width(axes) > FanoutWidthMax)
    BY <1>3, <1>5, <2>1, FineIs DEF MatrixCombinations
  <2>3. outcome = Fine(Product(axes))
    BY <1>5, <2>1, <2>2, Zenon DEF MatrixCombinations, Product
  <2>4. QED
    BY <2>1, <2>2, <2>3, FineIs
<1> DEFINE K == {entries[i].key : i \in 1 .. Len(entries)}
           T == UNION {ToSet(entries[i].values) : i \in 1 .. Len(entries)}
<1>7. entries \in Seq(Axis(K, T))
  <2>1. ASSUME NEW i \in 1 .. Len(entries) PROVE entries[i] \in Axis(K, T)
    <3>1. PICK s : s = entries[i].values /\ s \in Seq(ToSet(s)) /\ s # <<>>
      BY <1>5 DEF IsMatrix
    <3>2. ToSet(s) \subseteq T
      BY <3>1
    <3>3. s \in Seq(T)
      <4>1. PICK W : W = ToSet(s)
        OBVIOUS
      <4> HIDE DEF T
      <4>2. s \in Seq(W) /\ W \subseteq T
        BY <3>1, <3>2, <4>1
      <4>3. QED
        BY ONLY <4>2
    <3>4. PICK k \in K : k = entries[i].key
      OBVIOUS
    <3>5. entries[i] = [key |-> k, values |-> s]
      BY <3>1, <3>4 DEF IsMatrix
    <3> HIDE DEF K, T
    <3>6. QED
      BY <3>1, <3>3, <3>5 DEF Axis
  <2> HIDE DEF K, T
  <2>2. PICK W : W = ToSet(entries)
    OBVIOUS
  <2>3. entries \in Seq(W)
    BY <2>2 DEF IsMatrix
  <2>4. QED
    BY <2>1, <2>3
<1> HIDE DEF K, T
<1>8. ProperAxes(K, T, axes)
  BY <1>2, <1>7, AxesAreProper
<1>9. Turning(axes, Len(axes), Product(axes))
  BY <1>8, ProductTurns
<1>10. PICK n \in Nat : n = Len(axes)
  BY <1>8 DEF ProperAxes
<1>11. Between(axes, 0, n) = Width(axes)
  <2>1. SubSeq(axes, 1, Len(axes)) = axes
    BY <1>8, SubSeqFull DEF ProperAxes
  <2>2. Between(axes, 0, n) = Width(SubSeq(axes, 0 + 1, n))
    BY Zenon DEF Between
  <2>3. 0 + 1 = 1
    OBVIOUS
  <2>4. QED
    BY <1>10, <2>1, <2>2, <2>3
<1>12. Len(outcome[2]) = Width(axes)
  BY <1>6, <1>9, <1>10, <1>11 DEF Turning
<1>13. ASSUME NEW i \in 1..Len(outcome[2]), NEW a \in 1..Len(axes)
       PROVE  outcome[2][i][axes[a].key] =
                axes[a].values[(((i - 1) \div Width(SubSeq(axes, a + 1, Len(axes))))
                                % Len(axes[a].values)) + 1]
  <2>1. outcome[2][i][axes[a].key] = axes[a].values[TurnOf(axes, Len(axes), a, i)]
    BY <1>6, <1>9 DEF Turning
  <2>2. QED
    BY <2>1, Zenon DEF TurnOf, Between
<1>14. Width(axes) <= FanoutWidthMax
  <2>1. Width(axes) \in Nat
    <3>1. HaveValues(n, axes)
      <4>1. \A i \in 1 .. n : axes[i] \in Axis(K, T)
        BY <1>8, <1>10 DEF ProperAxes
      <4>2. DOMAIN axes = 1 .. n
        BY <1>8, <1>10 DEF ProperAxes
      <4>3. QED
        BY <4>1, <4>2, AxisIs DEF HaveValues
    <3>2. PICK h : WidthAlong(n, axes, h)
      BY <3>1, WidthGoes
    <3>3. QED
      BY <1>10, <3>2 DEF WidthAlong
  <2>2. FanoutWidthMax \in Nat
    BY SettingsBounds
  <2>3. QED
    BY <1>6, <2>1, <2>2
<1>15. QED
  BY <1>5, <1>12, <1>13, <1>14

-----------------------------------------------------------------------------
(* All questions                                                           *)

\* What is asked is what arguments, files and variables give.
Asked == probe = <<"none">> \/ probe \in RunQuestions

LEMMA AskedIsInvariant == AskSpec => []Asked
<1>1. AskInit => Asked
  BY DEF AskInit, Asked
<1>2. Asked /\ [AskRun]_probe => Asked'
  BY DEF Asked, AskRun
<1>3. QED
  BY <1>1, <1>2, PTL DEF AskSpec

LEMMA AskedIsAnswered == Asked => RunIsAsAsked
<1> SUFFICES ASSUME Asked PROVE RunIsAsAsked
  OBVIOUS
<1>1. CASE probe = <<"none">>
  BY <1>1 DEF RunIsAsAsked
<1>2. CASE probe \in RunQuestions
  <2>1. IsRunQuestion(probe)
    BY <1>2, QuestionsAssumption
  <2>2. CASE probe[1] = "settings"
    <3>1. IsArgs(probe[2]) /\ IsMachine(probe[3])
      BY <2>1, <2>2 DEF IsRunQuestion
    <3>2. SettingsAsked(probe[2], probe[3])
      BY <3>1, SettingsAreAsAsked
    <3>3. QED
      BY <2>2, <3>2 DEF RunIsAsAsked
  <2>3. CASE probe[1] = "inputs"
    <3>1. IsSupply(probe[2], probe[4], probe[5])
      BY <2>1, <2>3 DEF IsRunQuestion
    <3>2. InputsAsked(probe[2], probe[3], probe[4], probe[5])
      BY <3>1, InputsAreAsAsked
    <3>3. QED
      BY <2>3, <3>2 DEF RunIsAsAsked
  <2>4. CASE probe[1] = "tasks"
    <3>1. probe[2] \in Seq(ToSet(probe[2]))
      BY <2>1, <2>4 DEF IsRunQuestion
    <3>2. TasksAsked(probe[2], probe[3])
      BY <3>1, TasksAreAsAsked
    <3>3. QED
      BY <2>4, <3>2 DEF RunIsAsAsked
  <2>5. CASE probe[1] = "matrix"
    <3>1. IsMatrix(probe[2])
      BY <2>1, <2>5 DEF IsRunQuestion
    <3>2. CombinationsAsked(probe[2], probe[3])
      BY <3>1, MatrixIsAsAsked
    <3>3. QED
      BY <2>5, <3>2 DEF RunIsAsAsked
  <2>6. CASE probe[1] = "context"
    <3>1. /\ IsContext(probe[2]) /\ probe[3] \in Seq(ToSet(probe[3]))
          /\ IsContext(probe[4].local) /\ probe[4].context \in {"none", "inline", "reference"}
      BY <2>1, <2>6 DEF IsRunQuestion
    <3>2. ContextAsked(probe[2], probe[3], probe[4])
      BY <3>1, ContextIsAsAsked
    <3>3. QED
      BY <2>6, <3>2 DEF RunIsAsAsked
  <2>7. CASE probe[1] = "registered"
    <3>1. IsArgs(probe[2]) /\ IsMachine(probe[3])
      BY <2>1, <2>7 DEF IsRunQuestion
    <3>2. NamesAsked(probe[2], probe[3], probe[4])
      BY <3>1, NamesAreAsAsked
    <3>3. QED
      BY <2>7, <3>2 DEF RunIsAsAsked
  <2>8. CASE probe[1] = "time"
    <3>1. IsDuration(probe[2]) /\ IsDuration(probe[3])
      BY <2>1, <2>8 DEF IsRunQuestion
    <3>2. TimeAsked(probe[2], probe[3])
      BY <3>1, TimeIsAsAsked
    <3>3. QED
      BY <2>8, <3>2 DEF RunIsAsAsked
  <2>9. CASE probe[1] = "output"
    <3>1. OutputAsked(probe[2], probe[3], probe[4], probe[5], probe[6])
      BY OutputIsAsAsked
    <3>2. QED
      BY <2>9, <3>1 DEF RunIsAsAsked
  <2>10. CASE probe[1] \notin {"settings", "inputs", "tasks", "matrix", "context",
                               "registered", "time", "output"}
    BY <2>10 DEF RunIsAsAsked
  <2>11. QED
    BY <2>2, <2>3, <2>4, <2>5, <2>6, <2>7, <2>8, <2>9, <2>10
<1>3. QED
  BY <1>1, <1>2 DEF Asked

\* A run is what was asked: every setting is the nearest layer's, every input
\* its nearest supply's, and tasks, combinations, contexts, names, times and
\* output are those of flags, variables and files (config.rs, run.rs,
\* runner.rs), for any of these and any limits.
THEOREM EveryRunIsAsAsked == AskSpec => []RunIsAsAsked
BY AskedIsInvariant, AskedIsAnswered, PTL

-----------------------------------------------------------------------------
(* The book of secrets                                                     *)

\* A host whose providers name the reason of what they refuse.
AnswersFor(host) ==
  \A p \in DOMAIN host.providers :
    host.providers[p][1] = "error" => host.providers[p][2] # Blank

\* A refusal has a code.
LEMMA RefusalsHaveCodes ==
  /\ "secret_value_empty" # Blank /\ "secret_not_found" # Blank
  /\ "secret_file_unreadable" # Blank /\ "secret_file_too_large" # Blank
  /\ "secret_file_not_utf8" # Blank /\ "secret_provider_unavailable" # Blank
  /\ "secret_source_empty" # Blank /\ "unknown_secret" # Blank
BY Zenon DEF Blank

\* What stands for a text that was read, or for the reason why none was.
IsAnswer(value) ==
  IF value[1] = "error" THEN value[2] # Blank ELSE value = Found(value[2])

LEMMA FoundIsAnswer ==
  ASSUME NEW text PROVE IsAnswer(Found(text))
BY DEF IsAnswer, Found

LEMMA DeniedIsAnswer ==
  ASSUME NEW code, code # Blank PROVE IsAnswer(Denied(code))
BY DEF IsAnswer, Denied

LEMMA RejectEmptyIsAnswer ==
  ASSUME NEW text PROVE IsAnswer(RejectEmpty(text))
BY FoundIsAnswer, DeniedIsAnswer, RefusalsHaveCodes DEF RejectEmpty

LEMMA SourceIsAnswered ==
  ASSUME NEW host, NEW source, AnswersFor(host)
  PROVE  IsAnswer(ResolveSource(host, source))
<1>1. ASSUME NEW var PROVE IsAnswer(ReadEnv(host, var))
  BY RejectEmptyIsAnswer, DeniedIsAnswer, RefusalsHaveCodes DEF ReadEnv
<1>2. ASSUME NEW path PROVE IsAnswer(ReadFile(host, path))
  BY RejectEmptyIsAnswer, DeniedIsAnswer, RefusalsHaveCodes DEF ReadFile
<1>3. ASSUME NEW p PROVE IsAnswer(ResolveProvider(host, p))
  <2>1. CASE p \notin DOMAIN host.providers
    BY <2>1, DeniedIsAnswer, RefusalsHaveCodes DEF ResolveProvider
  <2>2. CASE p \in DOMAIN host.providers /\ host.providers[p][1] = "error"
    BY <2>2 DEF ResolveProvider, AnswersFor, IsAnswer
  <2>3. CASE p \in DOMAIN host.providers /\ host.providers[p][1] # "error"
    BY <2>3, RejectEmptyIsAnswer DEF ResolveProvider
  <2>4. QED
    BY <2>1, <2>2, <2>3
<1>4. IsAnswer(Denied("secret_source_empty"))
  BY DeniedIsAnswer, RefusalsHaveCodes
<1>5. QED
  BY <1>1, <1>2, <1>3, <1>4 DEF ResolveSource

LEMMA ValueIsAnswered ==
  ASSUME NEW host, NEW def, AnswersFor(host)
  PROVE  IsAnswer(ValueOf(host, def))
BY FoundIsAnswer, SourceIsAnswered DEF ValueOf

\* The texts that a registry may know.
Maskers(T) == [substring : SUBSET T, exact : SUBSET T]

LEMMA RegisterKnows ==
  ASSUME NEW T, NEW m \in Maskers(T), NEW x \in T
  PROVE  /\ Register(m, x) \in Maskers(T)
         /\ x # Blank => Knows(Register(m, x), x)
         /\ m.substring \subseteq Register(m, x).substring
         /\ \A y : Knows(m, y) => Knows(Register(m, x), y)
<1>1. CASE x = Blank
  BY <1>1 DEF Register, Knows
<1>2. CASE x # Blank /\ Len(x) >= MaskScanLenMin
  <2>1. PICK k : k = [m EXCEPT !.substring = @ \cup {x}]
    OBVIOUS
  <2>2. k = Register(m, x)
    BY <1>2, <2>1 DEF Register
  <2>3. k \in Maskers(T) /\ k.substring = m.substring \cup {x} /\ k.exact = m.exact
    BY <2>1 DEF Maskers
  <2>4. QED
    BY <2>2, <2>3 DEF Knows
<1>3. CASE x # Blank /\ ~(Len(x) >= MaskScanLenMin)
  <2>1. PICK k : k = [m EXCEPT !.exact = @ \cup {x}]
    OBVIOUS
  <2>2. k = Register(m, x)
    BY <1>3, <2>1 DEF Register
  <2>3. k \in Maskers(T) /\ k.exact = m.exact \cup {x} /\ k.substring = m.substring
    BY <2>1 DEF Maskers
  <2>4. QED
    BY <2>2, <2>3 DEF Knows
<1>4. QED
  BY <1>1, <1>2, <1>3

\* The registry of an element's sub-flow, by and by.
MaskerBy(res, r) ==
  r = [s \in SUBSET (DOMAIN res) |->
         IF s = {} THEN NoSecrets ELSE Register(r[s \ {Max(s)}], res[Max(s)])]

MaskerAlong(n, T, res, h) ==
  /\ h \in [0 .. n -> Maskers(T)] /\ h[0] = NoSecrets /\ SubMasker(res) = h[n]
  /\ \A i \in 1 .. n : h[i] = Register(h[i - 1], res[i])

LEMMA MaskerIsChosen ==
  ASSUME NEW res
  PROVE  SubMasker(res) = (CHOOSE r : MaskerBy(res, r))[DOMAIN res]
BY Zenon DEF SubMasker, FoldLeft, MapThenFoldSet, MaskerBy

LEMMA NoSecretsIsMasker ==
  ASSUME NEW T PROVE NoSecrets \in Maskers(T)
BY DEF NoSecrets, Maskers

LEMMA MaskerGoes ==
  ASSUME NEW n \in Nat, NEW T, NEW res \in [1 .. n -> T]
  PROVE  \E h : MaskerAlong(n, T, res, h)
<1> DEFINE step == [x \in (1 .. n) \X Maskers(T) |-> Register(x[2], res[x[1]])]
<1>1. NoSecrets \in Maskers(T)
  BY NoSecretsIsMasker
<1>2. PICK V : V = Maskers(T)
  OBVIOUS
<1>3. \A m \in V, x \in T : Register(m, x) \in V
  BY <1>2, RegisterKnows
<1>4. step \in [(1 .. n) \X V -> V]
  BY ONLY <1>2, <1>3, res \in [1 .. n -> T]
<1>5. PICK r \in [SUBSET (1 .. n) -> V] : Folds(r, 1 .. n, NoSecrets, Lasts(n), step)
  <2> HIDE DEF step
  <2>1. QED
    BY <1>1, <1>2, <1>4, LeftFoldExists
<1>6. MaskerBy(res, r)
  <2>1. SUFFICES ASSUME NEW s \in SUBSET (1 .. n)
                 PROVE  r[s] = IF s = {} THEN NoSecrets
                               ELSE Register(r[s \ {Max(s)}], res[Max(s)])
    BY DEF MaskerBy
  <2>2. r[s] = IF s = {} THEN NoSecrets ELSE step[<<Max(s), r[s \ {Max(s)}]>>]
    <3> HIDE DEF step
    <3>1. QED
      BY <1>5 DEF Folds, Lasts
  <2>3. s # {} => Max(s) \in 1 .. n /\ r[s \ {Max(s)}] \in V
    <3> HIDE DEF step
    <3>1. QED
      BY <1>5, MaxIsLast
  <2>4. QED
    BY <1>2, <2>2, <2>3
<1>7. PICK q : MaskerBy(res, q) /\ SubMasker(res) = q[1 .. n]
  BY <1>6, MaskerIsChosen
<1>8. \A s \in SUBSET (1 .. n) :
        q[s] = IF s = {} THEN NoSecrets ELSE Register(q[s \ {Max(s)}], res[Max(s)])
  BY <1>7 DEF MaskerBy
<1>9. PICK h : h = [i \in 0 .. n |-> q[1 .. i]]
  OBVIOUS
<1>10. h[0] = NoSecrets /\ SubMasker(res) = h[n]
  <2>1. 1 .. 0 = {}
    OBVIOUS
  <2>2. h[0] = q[1 .. 0] /\ h[n] = q[1 .. n]
    BY <1>9
  <2>3. q[1 .. 0] = NoSecrets
    BY <1>8, <2>1
  <2>4. QED
    BY <1>7, <2>2, <2>3
<1>11. ASSUME NEW i \in 1 .. n PROVE h[i] = Register(h[i - 1], res[i])
  <2>1. i \in Nat \ {0} /\ i - 1 \in 0 .. n /\ i \in 0 .. n
    OBVIOUS
  <2>2. 1 .. i \in SUBSET (1 .. n)
    OBVIOUS
  <2>3. Max(1 .. i) = i /\ 1 .. i # {} /\ (1 .. i) \ {i} = 1 .. (i - 1)
    BY <2>1, UpToLast
  <2>4. h[i] = q[1 .. i] /\ h[i - 1] = q[1 .. (i - 1)]
    BY <1>9, <2>1
  <2>5. q[1 .. i] = Register(q[1 .. (i - 1)], res[i])
    BY <1>8, <2>2, <2>3
  <2>6. QED
    BY <2>4, <2>5
<1> DEFINE Good == {i \in Nat : i <= n => h[i] \in V}
<1>12. 0 \in Good
  BY <1>1, <1>2, <1>10
<1>13. ASSUME NEW i \in Nat, i \in Good PROVE i + 1 \in Good
  <2> SUFFICES ASSUME i + 1 <= n PROVE h[i + 1] \in V
    OBVIOUS
  <2>1. i + 1 \in 1 .. n /\ (i + 1) - 1 = i /\ h[i] \in V
    BY <1>13
  <2>2. h[i + 1] = Register(h[i], res[i + 1])
    BY <1>11, <2>1
  <2>3. QED
    BY <1>3, <2>1, <2>2
<1>14. Nat \subseteq Good
  <2> HIDE DEF Good
  <2>1. QED
    BY <1>12, <1>13, NatInductionOnSets
<1>15. h \in [0 .. n -> V]
  <2>1. \A i \in 0 .. n : h[i] \in V
    BY <1>14
  <2>2. QED
    BY <1>9, <2>1
<1>16. QED
  BY <1>2, <1>10, <1>11, <1>15 DEF MaskerAlong

\* What is resolved next is registered next.
LEMMA MaskerGrows ==
  ASSUME NEW n \in Nat, NEW T, NEW res \in [1 .. n -> T], NEW more \in [1 .. n + 1 -> T],
         \A i \in 1 .. n : more[i] = res[i]
  PROVE  SubMasker(more) = Register(SubMasker(res), more[n + 1])
<1>1. PICK h : MaskerAlong(n, T, res, h)
  BY MaskerGoes
<1>2. PICK g : MaskerAlong(n + 1, T, more, g)
  <2>1. PICK m \in Nat : m = n + 1
    OBVIOUS
  <2>2. QED
    BY <2>1, MaskerGoes
<1> DEFINE Good == {i \in Nat : i <= n => h[i] = g[i]}
<1>3. 0 \in Good
  BY <1>1, <1>2 DEF MaskerAlong
<1>4. ASSUME NEW i \in Nat, i \in Good PROVE i + 1 \in Good
  <2> SUFFICES ASSUME i + 1 <= n PROVE h[i + 1] = g[i + 1]
    OBVIOUS
  <2>1. i + 1 \in 1 .. n /\ i + 1 \in 1 .. n + 1 /\ (i + 1) - 1 = i /\ h[i] = g[i]
    BY <1>4
  <2>2. PICK k : k = i + 1
    OBVIOUS
  <2>3. h[k] = Register(h[k - 1], res[k]) /\ g[k] = Register(g[k - 1], more[k])
    BY <1>1, <1>2, <2>1, <2>2 DEF MaskerAlong
  <2>4. more[k] = res[k] /\ h[k - 1] = g[k - 1]
    BY <2>1, <2>2
  <2>5. QED
    BY <2>2, <2>3, <2>4
<1>5. Nat \subseteq Good
  <2> HIDE DEF Good
  <2>1. QED
    BY <1>3, <1>4, NatInductionOnSets
<1>6. h[n] = g[n]
  BY <1>5
<1>7. n + 1 \in 1 .. n + 1 /\ (n + 1) - 1 = n
  OBVIOUS
<1>8. SubMasker(more) = Register(g[n], more[n + 1])
  BY <1>2, <1>7 DEF MaskerAlong
<1>9. QED
  BY <1>1, <1>6, <1>8 DEF MaskerAlong

LEMMA MaskerAppends ==
  ASSUME NEW T, NEW res \in Seq(T), NEW x \in T
  PROVE  SubMasker(Append(res, x)) = Register(SubMasker(res), x)
<1>1. PICK n \in Nat : n = Len(res)
  OBVIOUS
<1>2. PICK more : more = Append(res, x)
  OBVIOUS
<1>3. res \in [1 .. n -> T]
  BY <1>1
<1>4. more \in [1 .. n + 1 -> T] /\ (\A i \in 1 .. n : more[i] = res[i]) /\ more[n + 1] = x
  <2>1. /\ more \in Seq(T) /\ Len(more) = n + 1
        /\ \A i \in 1 .. n : more[i] = res[i]
        /\ more[n + 1] = x
    BY <1>1, <1>2, AppendProperties
  <2>2. QED
    BY <2>1
<1>5. QED
  BY <1>2, <1>3, <1>4, MaskerGrows

LEMMA MaskerOfNone == SubMasker(<<>>) = NoSecrets
<1>1. <<>> \in [1 .. 0 -> {}]
  OBVIOUS
<1>2. PICK h : MaskerAlong(0, {}, <<>>, h)
  BY <1>1, MaskerGoes
<1>3. QED
  BY <1>2 DEF MaskerAlong

\* What is sound of a book: nothing resolved is unknown to the registry, which
\* is the one of a sub-flow.
Texts(host, defs) == {ValueOf(host, defs[name])[2] : name \in DOMAIN defs}
Refusals(host, defs) ==
  Texts(host, defs) \cup {Blank, "unknown_secret", "secret_value_empty"}
Books(host, defs) ==
  [masker : Maskers(Texts(host, defs)), resolved : Seq(Texts(host, defs)),
   refusal : Refusals(host, defs)]
SoundBooks(host, defs) ==
  {b \in Books(host, defs) :
     SubMasker(b.resolved) = b.masker /\ Ready(b.masker, b.resolved)}

LEMMA NewBookIsSound ==
  ASSUME NEW host, NEW defs PROVE NewBook \in SoundBooks(host, defs)
<1>1. NewBook \in Books(host, defs)
  <2>1. NoSecrets \in Maskers(Texts(host, defs))
    BY NoSecretsIsMasker
  <2>2. <<>> \in Seq(Texts(host, defs))
    OBVIOUS
  <2>3. QED
    BY <2>1, <2>2 DEF NewBook, Books, Refusals
<1>2. Ready(NoSecrets, <<>>)
  BY DEF Ready
<1>3. NewBook.masker = NoSecrets /\ NewBook.resolved = <<>>
  BY DEF NewBook
<1>4. QED
  BY <1>1, <1>2, <1>3, MaskerOfNone DEF SoundBooks

Refused(b, why) == [b EXCEPT !.refusal = why]
Entered(b, text) ==
  [b EXCEPT !.masker = Register(@, text), !.resolved = Append(@, text)]

LEMMA RefusedIsSound ==
  ASSUME NEW host, NEW defs, NEW b \in SoundBooks(host, defs), NEW why \in Refusals(host, defs)
  PROVE  /\ Refused(b, why) \in SoundBooks(host, defs)
         /\ Refused(b, why).masker = b.masker
         /\ Refused(b, why).resolved = b.resolved
         /\ Refused(b, why).refusal = why
<1>1. PICK c : c = Refused(b, why)
  OBVIOUS
<1>2. c \in Books(host, defs) /\ c.masker = b.masker /\ c.resolved = b.resolved /\ c.refusal = why
  BY <1>1 DEF Refused, SoundBooks, Books
<1>3. QED
  BY <1>1, <1>2 DEF SoundBooks

LEMMA EnteredIsSound ==
  ASSUME NEW host, NEW defs, NEW b \in SoundBooks(host, defs),
         NEW x \in Texts(host, defs), x # Blank
  PROVE  /\ Entered(b, x) \in SoundBooks(host, defs)
         /\ b.masker.substring \subseteq Entered(b, x).masker.substring
         /\ Entered(b, x).resolved = Append(b.resolved, x)
         /\ Entered(b, x).refusal = b.refusal
<1>0. PICK T : T = Texts(host, defs)
  OBVIOUS
<1>1. /\ b \in [masker : Maskers(T), resolved : Seq(T), refusal : Refusals(host, defs)]
      /\ SubMasker(b.resolved) = b.masker /\ Ready(b.masker, b.resolved)
  BY <1>0 DEF SoundBooks, Books
<1>2. PICK m : m = Register(b.masker, x)
  OBVIOUS
<1>3. PICK s : s = Append(b.resolved, x)
  OBVIOUS
<1>4. /\ m \in Maskers(T) /\ Knows(m, x) /\ b.masker.substring \subseteq m.substring
      /\ \A y : Knows(b.masker, y) => Knows(m, y)
  BY <1>0, <1>1, <1>2, RegisterKnows
<1>5. PICK n \in Nat : n = Len(b.resolved)
  BY <1>1
<1>6. /\ s \in Seq(T) /\ Len(s) = n + 1
      /\ \A i \in 1 .. n : s[i] = b.resolved[i]
      /\ s[n + 1] = x
  BY <1>0, <1>1, <1>3, <1>5, AppendProperties
<1>7. PICK c : c = Entered(b, x)
  OBVIOUS
<1>8. /\ c \in Books(host, defs) /\ c.masker = m /\ c.resolved = s /\ c.refusal = b.refusal
  BY <1>0, <1>1, <1>2, <1>3, <1>4, <1>6, <1>7 DEF Entered, Books
<1>9. SubMasker(s) = m
  BY <1>0, <1>1, <1>2, <1>3, MaskerAppends
<1>10. Ready(m, s)
  <2>1. SUFFICES ASSUME NEW i \in 1 .. n + 1 PROVE Knows(m, s[i])
    BY <1>6 DEF Ready
  <2>2. CASE i = n + 1
    BY <1>4, <1>6, <2>2
  <2>3. CASE i # n + 1
    <3>1. i \in 1 .. n /\ i \in DOMAIN b.resolved
      BY <1>1, <1>5, <2>3
    <3>2. Knows(b.masker, b.resolved[i])
      BY <1>1, <3>1 DEF Ready
    <3>3. QED
      BY <1>4, <1>6, <3>1, <3>2
  <2>4. QED
    BY <2>2, <2>3
<1>11. QED
  BY <1>3, <1>4, <1>7, <1>8, <1>9, <1>10 DEF SoundBooks

\* One requested name is refused, and nothing is entered, or it is entered.
LEMMA RequestOneIsSound ==
  ASSUME NEW host, NEW defs, AnswersFor(host), NEW b \in SoundBooks(host, defs), NEW name
  PROVE  LET c == RequestOne(host, defs, b, name)
         IN  /\ c \in SoundBooks(host, defs)
             /\ b.masker.substring \subseteq c.masker.substring
             /\ b.refusal # Blank => c = b
             /\ b.refusal = Blank =>
                  \/ c.refusal # Blank /\ c.resolved = b.resolved
                  \/ /\ c.refusal = Blank /\ \E x \in Texts(host, defs) :
                          /\ x # Blank /\ ValueOf(host, defs[name]) = Found(x)
                          /\ c.resolved = Append(b.resolved, x)
<1>1. PICK c : c = RequestOne(host, defs, b, name)
  OBVIOUS
<1>2. CASE b.refusal # Blank
  BY <1>1, <1>2 DEF RequestOne
<1>3. CASE b.refusal = Blank /\ name \notin DOMAIN defs
  <2>1. c = Refused(b, "unknown_secret")
    BY <1>1, <1>3 DEF RequestOne, Refused
  <2>2. "unknown_secret" \in Refusals(host, defs) /\ "unknown_secret" # Blank
    BY RefusalsHaveCodes DEF Refusals
  <2>3. PICK why \in Refusals(host, defs) : why = "unknown_secret"
    BY <2>2
  <2>4. QED
    BY <1>1, <1>3, <2>1, <2>2, <2>3, RefusedIsSound
<1>4. CASE b.refusal = Blank /\ name \in DOMAIN defs
  <2>1. PICK value : value = ValueOf(host, defs[name])
    OBVIOUS
  <2>2. IsAnswer(value)
    BY <2>1, ValueIsAnswered
  <2>3. value[2] \in Texts(host, defs)
    BY <1>4, <2>1 DEF Texts
  <2>4. CASE value[1] = "error"
    <3>1. c = Refused(b, value[2])
      BY <1>1, <1>4, <2>1, <2>4 DEF RequestOne, Refused
    <3>2. PICK why \in Refusals(host, defs) : why = value[2] /\ why # Blank
      BY <2>2, <2>3, <2>4 DEF IsAnswer, Refusals
    <3>3. QED
      BY <1>1, <1>4, <3>1, <3>2, RefusedIsSound
  <2>5. CASE value[1] # "error" /\ value[2] = Blank
    <3>1. c = Refused(b, "secret_value_empty")
      BY <1>1, <1>4, <2>1, <2>5 DEF RequestOne, Refused
    <3>2. PICK why \in Refusals(host, defs) : why = "secret_value_empty" /\ why # Blank
      BY RefusalsHaveCodes DEF Refusals
    <3>3. QED
      BY <1>1, <1>4, <3>1, <3>2, RefusedIsSound
  <2>6. CASE value[1] # "error" /\ value[2] # Blank
    <3>1. c = Entered(b, value[2])
      BY <1>1, <1>4, <2>1, <2>6 DEF RequestOne, Entered
    <3>2. PICK x \in Texts(host, defs) : x = value[2] /\ x # Blank
      BY <2>3, <2>6
    <3>3. value = Found(x)
      BY <2>2, <2>6, <3>2 DEF IsAnswer
    <3>4. QED
      BY <1>1, <1>4, <2>1, <3>1, <3>2, <3>3, EnteredIsSound
  <2>7. QED
    BY <2>4, <2>5, <2>6
<1>5. QED
  BY <1>2, <1>3, <1>4

\* The book as one task's names are requested, by and by.
RequestedBy(host, defs, book, names, r) ==
  r = [s \in SUBSET (DOMAIN names) |->
         IF s = {} THEN [book EXCEPT !.refusal = Blank]
         ELSE RequestOne(host, defs, r[s \ {Max(s)}], names[Max(s)])]

RequestedAlong(n, host, defs, book, names, h) ==
  /\ h \in [0 .. n -> SoundBooks(host, defs)]
  /\ h[0] = Refused(book, Blank) /\ Requested(host, defs, book, names) = h[n]
  /\ \A i \in 1 .. n : h[i] = RequestOne(host, defs, h[i - 1], names[i])

LEMMA RequestedIsChosen ==
  ASSUME NEW host, NEW defs, NEW book, NEW names
  PROVE  Requested(host, defs, book, names)
           = (CHOOSE r : RequestedBy(host, defs, book, names, r))[DOMAIN names]
BY Zenon DEF Requested, FoldLeft, MapThenFoldSet, RequestedBy

LEMMA RequestedGoes ==
  ASSUME NEW n \in Nat, NEW host, NEW defs, AnswersFor(host),
         NEW book \in SoundBooks(host, defs), NEW names, DOMAIN names = 1 .. n
  PROVE  \E h : RequestedAlong(n, host, defs, book, names, h)
<1>0. PICK V : V = SoundBooks(host, defs)
  OBVIOUS
<1>1. PICK base \in V : base = Refused(book, Blank)
  <2>1. Blank \in Refusals(host, defs)
    BY DEF Refusals
  <2>2. QED
    BY <1>0, <2>1, RefusedIsSound
<1>2. PICK step : step = [x \in (1 .. n) \X V |-> RequestOne(host, defs, x[2], names[x[1]])]
  OBVIOUS
<1>3. \A b \in V : \A name : RequestOne(host, defs, b, name) \in V
  BY <1>0, RequestOneIsSound
<1>4. step \in [(1 .. n) \X V -> V]
  BY ONLY <1>2, <1>3
<1>5. PICK r \in [SUBSET (1 .. n) -> V] : Folds(r, 1 .. n, base, Lasts(n), step)
  BY <1>1, <1>4, LeftFoldExists
<1>6. RequestedBy(host, defs, book, names, r)
  <2>1. SUFFICES ASSUME NEW s \in SUBSET (1 .. n)
                 PROVE  r[s] = IF s = {} THEN Refused(book, Blank)
                               ELSE RequestOne(host, defs, r[s \ {Max(s)}], names[Max(s)])
    BY DEF RequestedBy, Refused
  <2>2. r[s] = IF s = {} THEN base ELSE step[<<Max(s), r[s \ {Max(s)}]>>]
    BY <1>5 DEF Folds, Lasts
  <2>3. s # {} => Max(s) \in 1 .. n /\ r[s \ {Max(s)}] \in V
    BY <1>5, MaxIsLast
  <2>4. QED
    BY <1>1, <1>2, <2>2, <2>3
<1>7. PICK q : RequestedBy(host, defs, book, names, q)
               /\ Requested(host, defs, book, names) = q[1 .. n]
  BY <1>6, RequestedIsChosen
<1>8. \A s \in SUBSET (1 .. n) :
        q[s] = IF s = {} THEN base
               ELSE RequestOne(host, defs, q[s \ {Max(s)}], names[Max(s)])
  BY <1>1, <1>7 DEF RequestedBy, Refused
<1>9. PICK h : h = [i \in 0 .. n |-> q[1 .. i]]
  OBVIOUS
<1>10. h[0] = base /\ Requested(host, defs, book, names) = h[n]
  <2>1. 1 .. 0 = {}
    OBVIOUS
  <2>2. h[0] = q[1 .. 0] /\ h[n] = q[1 .. n]
    BY <1>9
  <2>3. q[1 .. 0] = base
    BY <1>8, <2>1
  <2>4. QED
    BY <1>7, <2>2, <2>3
<1>11. ASSUME NEW i \in 1 .. n PROVE h[i] = RequestOne(host, defs, h[i - 1], names[i])
  <2>1. i \in Nat \ {0} /\ i - 1 \in 0 .. n /\ i \in 0 .. n
    OBVIOUS
  <2>2. 1 .. i \in SUBSET (1 .. n)
    OBVIOUS
  <2>3. Max(1 .. i) = i /\ 1 .. i # {} /\ (1 .. i) \ {i} = 1 .. (i - 1)
    BY <2>1, UpToLast
  <2>4. h[i] = q[1 .. i] /\ h[i - 1] = q[1 .. (i - 1)]
    BY <1>9, <2>1
  <2>5. q[1 .. i] = RequestOne(host, defs, q[1 .. (i - 1)], names[i])
    BY <1>8, <2>2, <2>3
  <2>6. QED
    BY <2>4, <2>5
<1> DEFINE Good == {i \in Nat : i <= n => h[i] \in V}
<1>12. 0 \in Good
  BY <1>10
<1>13. ASSUME NEW i \in Nat, i \in Good PROVE i + 1 \in Good
  <2> SUFFICES ASSUME i + 1 <= n PROVE h[i + 1] \in V
    OBVIOUS
  <2>1. i + 1 \in 1 .. n /\ (i + 1) - 1 = i /\ h[i] \in V
    BY <1>13
  <2>2. h[i + 1] = RequestOne(host, defs, h[i], names[i + 1])
    BY <1>11, <2>1
  <2>3. QED
    BY <1>3, <2>1, <2>2
<1>14. Nat \subseteq Good
  <2> HIDE DEF Good
  <2>1. QED
    BY <1>12, <1>13, NatInductionOnSets
<1>15. h \in [0 .. n -> V]
  <2>1. \A i \in 0 .. n : h[i] \in V
    BY <1>14
  <2>2. QED
    BY <1>9, <2>1
<1>16. QED
  BY <1>0, <1>1, <1>10, <1>11, <1>15 DEF RequestedAlong

\* What the book has got by the i-th name of a task: one secret of each name,
\* in their order, up to the first that was refused.
GotSoFar(host, defs, names, b0, i, b) ==
  \E k \in 0 .. i :
    /\ Len(b.resolved) = Len(b0.resolved) + k
    /\ b0.masker.substring \subseteq b.masker.substring
    /\ \A j \in 1 .. k :
         /\ b.resolved[Len(b0.resolved) + j] # Blank
         /\ ValueOf(host, defs[names[j]]) = Found(b.resolved[Len(b0.resolved) + j])
    /\ (b.refusal = Blank) = (k = i)

LEMMA GotNothing ==
  ASSUME NEW host, NEW defs, NEW names, NEW b \in SoundBooks(host, defs), b.refusal = Blank
  PROVE  GotSoFar(host, defs, names, b, 0, b)
<1>1. Len(b.resolved) \in Nat
  BY DEF SoundBooks, Books
<1>2. 0 \in 0 .. 0 /\ Len(b.resolved) = Len(b.resolved) + 0 /\ 1 .. 0 = {}
  BY <1>1
<1>3. QED
  BY <1>2 DEF GotSoFar

LEMMA GotOneMore ==
  ASSUME NEW host, NEW defs, NEW names, AnswersFor(host), NEW b0 \in SoundBooks(host, defs),
         NEW i \in Nat, NEW b \in SoundBooks(host, defs), GotSoFar(host, defs, names, b0, i, b)
  PROVE  GotSoFar(host, defs, names, b0, i + 1, RequestOne(host, defs, b, names[i + 1]))
<1>0. PICK T : T = Texts(host, defs)
  OBVIOUS
<1>1. PICK c : c = RequestOne(host, defs, b, names[i + 1])
  OBVIOUS
<1>2. PICK n \in Nat : n = Len(b0.resolved)
  BY DEF SoundBooks, Books
<1>3. PICK k \in 0 .. i :
        /\ Len(b.resolved) = n + k
        /\ b0.masker.substring \subseteq b.masker.substring
        /\ \A j \in 1 .. k : /\ b.resolved[n + j] # Blank
                             /\ ValueOf(host, defs[names[j]]) = Found(b.resolved[n + j])
        /\ (b.refusal = Blank) = (k = i)
  BY <1>2 DEF GotSoFar
<1>4. /\ b.masker.substring \subseteq c.masker.substring
      /\ b.refusal # Blank => c = b
      /\ b.refusal = Blank =>
           \/ c.refusal # Blank /\ c.resolved = b.resolved
           \/ /\ c.refusal = Blank /\ \E x \in T :
                   /\ x # Blank /\ ValueOf(host, defs[names[i + 1]]) = Found(x)
                   /\ c.resolved = Append(b.resolved, x)
  BY <1>0, <1>1, RequestOneIsSound
<1>5. b0.masker.substring \subseteq c.masker.substring
  BY <1>3, <1>4
<1>6. CASE c.refusal # Blank /\ c.resolved = b.resolved
  <2>1. k \in 0 .. (i + 1) /\ k # i + 1
    OBVIOUS
  <2>2. QED
    BY <1>1, <1>2, <1>3, <1>5, <1>6, <2>1 DEF GotSoFar
<1>7. ASSUME b.refusal = Blank, c.refusal = Blank,
             NEW x \in T, x # Blank, ValueOf(host, defs[names[i + 1]]) = Found(x),
             c.resolved = Append(b.resolved, x)
      PROVE  GotSoFar(host, defs, names, b0, i + 1, c)
  <2>1. k = i
    BY <1>3, <1>7
  <2>2. b.resolved \in Seq(T)
    BY <1>0 DEF SoundBooks, Books
  <2>3. PICK s : s = c.resolved
    OBVIOUS
  <2>4. PICK r \in Seq(T) : r = b.resolved
    BY <2>2
  <2>5. Len(r) = n + i /\ s = Append(r, x)
    BY <1>3, <1>7, <2>1, <2>3, <2>4
  <2>6. /\ Len(s) = (n + i) + 1 /\ s[(n + i) + 1] = x
        /\ \A m \in 1 .. (n + i) : s[m] = r[m]
    BY ONLY <2>5, AppendProperties, x \in T, r \in Seq(T), n \in Nat, i \in Nat
  <2>7. ASSUME NEW j \in 1 .. (i + 1)
        PROVE  s[n + j] # Blank /\ ValueOf(host, defs[names[j]]) = Found(s[n + j])
    <3>1. CASE j = i + 1
      <4>1. n + j = (n + i) + 1
        BY <3>1
      <4>2. QED
        BY <1>7, <2>6, <3>1, <4>1
    <3>2. CASE j # i + 1
      <4>1. j \in 1 .. k /\ n + j \in 1 .. (n + i)
        BY <2>1, <3>2
      <4>2. s[n + j] = b.resolved[n + j]
        BY <2>4, <2>6, <4>1
      <4>3. QED
        BY <1>3, <4>1, <4>2
    <3>3. QED
      BY <3>1, <3>2
  <2>8. i + 1 \in 0 .. (i + 1) /\ Len(s) = n + (i + 1)
    BY <2>6
  <2>9. QED
    BY <1>2, <1>5, <1>7, <2>3, <2>7, <2>8 DEF GotSoFar
<1>8. CASE b.refusal # Blank
  <2>1. c.refusal # Blank /\ c.resolved = b.resolved
    BY <1>4, <1>8
  <2>2. QED
    BY <1>1, <1>6, <2>1
<1>9. CASE b.refusal = Blank
  BY <1>1, <1>4, <1>6, <1>7, <1>9
<1>10. QED
  BY <1>8, <1>9

\* What one task's requests come to.
LEMMA RequestedIsSound ==
  ASSUME NEW n \in Nat, NEW host, NEW defs, AnswersFor(host),
         NEW book \in SoundBooks(host, defs), NEW names, DOMAIN names = 1 .. n
  PROVE  /\ Requested(host, defs, book, names) \in SoundBooks(host, defs)
         /\ GotSoFar(host, defs, names, book, n, Requested(host, defs, book, names))
<1>1. PICK h : RequestedAlong(n, host, defs, book, names, h)
  BY RequestedGoes
<1>2. Blank \in Refusals(host, defs)
  BY DEF Refusals
<1>3. PICK b0 \in SoundBooks(host, defs) : b0 = Refused(book, Blank)
  BY <1>2, RefusedIsSound
<1>4. b0.refusal = Blank /\ b0.masker = book.masker /\ b0.resolved = book.resolved
  BY <1>2, <1>3, RefusedIsSound
<1> DEFINE Good == {i \in Nat : i <= n => GotSoFar(host, defs, names, b0, i, h[i])}
<1>5. 0 \in Good
  <2>1. h[0] = b0
    BY <1>1, <1>3 DEF RequestedAlong
  <2>2. GotSoFar(host, defs, names, b0, 0, b0)
    BY <1>4, GotNothing
  <2>3. QED
    BY <2>1, <2>2
<1>6. ASSUME NEW i \in Nat, i \in Good PROVE i + 1 \in Good
  <2> SUFFICES ASSUME i + 1 <= n PROVE GotSoFar(host, defs, names, b0, i + 1, h[i + 1])
    OBVIOUS
  <2>1. i \in 0 .. n /\ i + 1 \in 1 .. n /\ (i + 1) - 1 = i
    OBVIOUS
  <2>2. GotSoFar(host, defs, names, b0, i, h[i])
    BY <1>6
  <2>3. PICK b \in SoundBooks(host, defs) : b = h[i]
    BY <1>1, <2>1 DEF RequestedAlong
  <2>4. h[i + 1] = RequestOne(host, defs, b, names[i + 1])
    <3>1. PICK m \in 1 .. n : m = i + 1
      BY <2>1
    <3>2. h[m] = RequestOne(host, defs, h[m - 1], names[m])
      BY <1>1 DEF RequestedAlong
    <3>3. QED
      BY <2>1, <2>3, <3>1, <3>2
  <2>5. QED
    BY <2>2, <2>3, <2>4, GotOneMore
<1>7. Nat \subseteq Good
  <2> HIDE DEF Good
  <2>1. QED
    BY <1>5, <1>6, NatInductionOnSets
<1>8. GotSoFar(host, defs, names, b0, n, h[n])
  BY <1>7
<1>9. Requested(host, defs, book, names) = h[n] /\ h[n] \in SoundBooks(host, defs)
  BY <1>1 DEF RequestedAlong
<1>10. QED
  BY <1>4, <1>8, <1>9 DEF GotSoFar

\* What one task requests, and the tasks, come as sequences.
IsSeq(s) == \E n \in Nat : DOMAIN s = 1 .. n

\* The book after all that some tasks request.
AfterTasks(host, defs, tasks) ==
  FoldLeft(LAMBDA b, names : Requested(host, defs, b, names), NewBook, tasks)

TasksBy(host, defs, tasks, r) ==
  r = [s \in SUBSET (DOMAIN tasks) |->
         IF s = {} THEN NewBook
         ELSE Requested(host, defs, r[s \ {Max(s)}], tasks[Max(s)])]

LEMMA TasksIsChosen ==
  ASSUME NEW host, NEW defs, NEW tasks
  PROVE  AfterTasks(host, defs, tasks)
           = (CHOOSE r : TasksBy(host, defs, tasks, r))[DOMAIN tasks]
BY Zenon DEF AfterTasks, FoldLeft, MapThenFoldSet, TasksBy

LEMMA TasksGo ==
  ASSUME NEW n \in Nat, NEW host, NEW defs, AnswersFor(host),
         NEW tasks, DOMAIN tasks = 1 .. n, \A i \in 1 .. n : IsSeq(tasks[i])
  PROVE  AfterTasks(host, defs, tasks) \in SoundBooks(host, defs)
<1>0. PICK V : V = SoundBooks(host, defs)
  OBVIOUS
<1>1. PICK base \in V : base = NewBook
  BY <1>0, NewBookIsSound
<1>2. PICK step : step = [x \in (1 .. n) \X V |-> Requested(host, defs, x[2], tasks[x[1]])]
  OBVIOUS
<1>3. ASSUME NEW b \in V, NEW i \in 1 .. n PROVE Requested(host, defs, b, tasks[i]) \in V
  <2>1. PICK m \in Nat : DOMAIN tasks[i] = 1 .. m
    BY DEF IsSeq
  <2>2. QED
    BY <1>0, <2>1, RequestedIsSound
<1>4. step \in [(1 .. n) \X V -> V]
  BY ONLY <1>2, <1>3
<1>5. PICK r \in [SUBSET (1 .. n) -> V] : Folds(r, 1 .. n, base, Lasts(n), step)
  BY <1>1, <1>4, LeftFoldExists
<1>6. TasksBy(host, defs, tasks, r)
  <2>1. SUFFICES ASSUME NEW s \in SUBSET (1 .. n)
                 PROVE  r[s] = IF s = {} THEN NewBook
                               ELSE Requested(host, defs, r[s \ {Max(s)}], tasks[Max(s)])
    BY DEF TasksBy
  <2>2. r[s] = IF s = {} THEN base ELSE step[<<Max(s), r[s \ {Max(s)}]>>]
    BY <1>5 DEF Folds, Lasts
  <2>3. s # {} => Max(s) \in 1 .. n /\ r[s \ {Max(s)}] \in V
    BY <1>5, MaxIsLast
  <2>4. QED
    BY <1>1, <1>2, <2>2, <2>3
<1>7. PICK q : TasksBy(host, defs, tasks, q)
               /\ AfterTasks(host, defs, tasks) = q[1 .. n]
  BY <1>6, TasksIsChosen
<1>8. \A s \in SUBSET (1 .. n) :
        q[s] = IF s = {} THEN base
               ELSE Requested(host, defs, q[s \ {Max(s)}], tasks[Max(s)])
  BY <1>1, <1>7 DEF TasksBy
<1>9. PICK h : h = [i \in 0 .. n |-> q[1 .. i]]
  OBVIOUS
<1>10. h[0] = base /\ AfterTasks(host, defs, tasks) = h[n]
  <2>1. 1 .. 0 = {}
    OBVIOUS
  <2>2. h[0] = q[1 .. 0] /\ h[n] = q[1 .. n]
    BY <1>9
  <2>3. q[1 .. 0] = base
    BY <1>8, <2>1
  <2>4. QED
    BY <1>7, <2>2, <2>3
<1>11. ASSUME NEW i \in 1 .. n PROVE h[i] = Requested(host, defs, h[i - 1], tasks[i])
  <2>1. i \in Nat \ {0} /\ i - 1 \in 0 .. n /\ i \in 0 .. n
    OBVIOUS
  <2>2. 1 .. i \in SUBSET (1 .. n)
    OBVIOUS
  <2>3. Max(1 .. i) = i /\ 1 .. i # {} /\ (1 .. i) \ {i} = 1 .. (i - 1)
    BY <2>1, UpToLast
  <2>4. h[i] = q[1 .. i] /\ h[i - 1] = q[1 .. (i - 1)]
    BY <1>9, <2>1
  <2>5. q[1 .. i] = Requested(host, defs, q[1 .. (i - 1)], tasks[i])
    BY <1>8, <2>2, <2>3
  <2>6. QED
    BY <2>4, <2>5
<1> DEFINE Good == {i \in Nat : i <= n => h[i] \in V}
<1>12. 0 \in Good
  BY <1>10
<1>13. ASSUME NEW i \in Nat, i \in Good PROVE i + 1 \in Good
  <2> SUFFICES ASSUME i + 1 <= n PROVE h[i + 1] \in V
    OBVIOUS
  <2>1. i + 1 \in 1 .. n /\ (i + 1) - 1 = i /\ h[i] \in V
    BY <1>13
  <2>2. h[i + 1] = Requested(host, defs, h[i], tasks[i + 1])
    BY <1>11, <2>1
  <2>3. QED
    BY <1>3, <2>1, <2>2
<1>14. Nat \subseteq Good
  <2> HIDE DEF Good
  <2>1. QED
    BY <1>12, <1>13, NatInductionOnSets
<1>15. h[n] \in V
  BY <1>14
<1>16. QED
  BY <1>0, <1>10, <1>15

\* The promise of the book, for any host whose refusals have codes, for any
\* definitions and for any requests of one task after another.
THEOREM EveryBookIsReady ==
  ASSUME NEW host, AnswersFor(host), NEW defs, NEW Names,
         NEW tasks \in Seq(Seq(Names)), tasks # <<>>
  PROVE  BookIsReady(host, defs, tasks)
<1>1. PICK m \in Nat : m = Len(tasks) - 1
  OBVIOUS
<1>2. PICK front : front = Front(tasks)
  OBVIOUS
<1>3. front \in Seq(Seq(Names)) /\ Len(front) = m
  BY <1>1, <1>2, SubSeqProperties DEF Front
<1>4. PICK names : names = Last(tasks)
  OBVIOUS
<1>5. names \in Seq(Names)
  BY <1>4 DEF Last
<1>6. PICK before : before = AfterTasks(host, defs, front)
  OBVIOUS
<1>7. before \in SoundBooks(host, defs)
  <2>1. DOMAIN front = 1 .. m /\ \A i \in 1 .. m : IsSeq(front[i])
    <3>1. ASSUME NEW i \in 1 .. m PROVE IsSeq(front[i])
      <4>1. PICK f \in Seq(Names) : f = front[i]
        BY <1>3
      <4>2. Len(f) \in Nat /\ DOMAIN f = 1 .. Len(f)
        OBVIOUS
      <4>3. QED
        BY <4>1, <4>2 DEF IsSeq
    <3>2. QED
      BY <1>3, <3>1
  <2>2. QED
    BY <1>6, <2>1, TasksGo
<1>8. PICK n \in Nat : n = Len(names) /\ DOMAIN names = 1 .. n
  BY <1>5
<1>9. PICK after : after = Requested(host, defs, before, names)
  OBVIOUS
<1>10. after \in SoundBooks(host, defs) /\ GotSoFar(host, defs, names, before, n, after)
  BY <1>7, <1>8, <1>9, RequestedIsSound
<1>11. PICK l \in Nat : l = Len(before.resolved)
  BY <1>7 DEF SoundBooks, Books
<1>12. PICK k \in 0 .. n :
         /\ Len(after.resolved) = l + k
         /\ before.masker.substring \subseteq after.masker.substring
         /\ \A j \in 1 .. k :
              /\ after.resolved[l + j] # Blank
              /\ ValueOf(host, defs[names[j]]) = Found(after.resolved[l + j])
         /\ (after.refusal = Blank) = (k = n)
  BY <1>10, <1>11 DEF GotSoFar
<1>13. PICK T : T = Texts(host, defs)
  OBVIOUS
<1>14. PICK s \in Seq(T) : s = after.resolved
  BY <1>10, <1>13 DEF SoundBooks, Books
<1>15. PICK added : added = SubSeq(s, l + 1, l + k)
  OBVIOUS
<1>16. Len(added) = k /\ DOMAIN added = 1 .. k /\ \A j \in 1 .. k : added[j] = s[l + j]
  <2>1. Len(s) = l + k
    BY <1>12, <1>14
  <2>2. PICK lo \in Int : lo = l + 1
    OBVIOUS
  <2>3. PICK hi \in Int : hi = l + k
    OBVIOUS
  <2>4. added = SubSeq(s, lo, hi) /\ \A i \in lo .. hi : s[i] \in T
    BY <1>15, <2>1, <2>2, <2>3
  <2>5. /\ added \in Seq(T) /\ Len(added) = IF lo <= hi THEN hi - lo + 1 ELSE 0
        /\ \A j \in 1 .. hi - lo + 1 : added[j] = s[lo + j - 1]
    BY ONLY <2>4, SubSeqProperties, lo \in Int, hi \in Int
  <2>6. Len(added) = k
    BY <2>2, <2>3, <2>5
  <2>7. \A j \in 1 .. k : added[j] = s[l + j]
    <3>1. SUFFICES ASSUME NEW j \in 1 .. k PROVE added[j] = s[l + j]
      OBVIOUS
    <3>2. j \in 1 .. hi - lo + 1 /\ lo + j - 1 = l + j
      BY <2>2, <2>3
    <3>3. QED
      BY <2>5, <3>2
  <2>8. QED
    BY <2>5, <2>6, <2>7
<1>17. Ready(after.masker, after.resolved) /\ SubMasker(after.resolved) = after.masker
  BY <1>10 DEF SoundBooks
<1>18. added = SubSeq(after.resolved, Len(before.resolved) + 1, Len(after.resolved))
  BY <1>11, <1>12, <1>14, <1>15
<1>19. \A j \in DOMAIN added :
         added[j] # Blank /\ ValueOf(host, defs[names[j]]) = Found(added[j])
  BY <1>12, <1>14, <1>16
<1>20. (after.refusal = Blank) = (Len(added) = Len(names))
  BY <1>8, <1>12, <1>16
<1>21. before = FoldLeft(LAMBDA b, ns : Requested(host, defs, b, ns), NewBook, Front(tasks))
  BY <1>2, <1>6 DEF AfterTasks
<1>22. QED
  BY <1>4, <1>9, <1>12, <1>17, <1>18, <1>19, <1>20, <1>21 DEF BookIsReady

===============================================================================
