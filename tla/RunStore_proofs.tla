--------------------------- MODULE RunStore_proofs --------------------------
(***************************************************************************)
(* RunStore for any writers and keepers, any plans, sizes and cap, and any *)
(* number of faults: what the disk keeps of a run's events, what leaves    *)
(* the store, and what sweeps that get in each other's way achieve.        *)
(***************************************************************************)
EXTENDS RunStore, SequenceTheorems, FiniteSetTheorems, WellFoundedInduction, TLAPS

-----------------------------------------------------------------------------
(* The bytes of a log.                                                     *)

\* A nonempty set of natural numbers has a least one, for < is well founded.
LEMMA LeastNumberPrinciple ==
  ASSUME NEW S \in SUBSET Nat, S # {}
  PROVE  \E m \in S : \A n \in S : m <= n
<1> DEFINE Less == {ss \in Nat \X Nat : ss[1] < ss[2]}
<1>1. IsWellFoundedOn(Less, Nat)
  BY NatLessThanWellFounded, Zenon DEF OpToRel
<1>2. PICK m \in S : \A n \in S : <<n, m>> \notin Less
  <2>1. S \subseteq Nat /\ S # {}
    OBVIOUS
  <2> HIDE DEF Less
  <2>2. QED
    BY ONLY <1>1, <2>1, WFMin
<1>3. \A n \in S : ~ (n < m)
  <2>1. \A n \in S : <<n, m>> \in Nat \X Nat
    OBVIOUS
  <2>2. QED
    BY <1>2, <2>1
<1>4. QED
  BY <1>3

\* A set with zero and the successor of each number in it has them all.
LEMMA NatInductionOnSets ==
  ASSUME NEW S, 0 \in S, \A n \in Nat : n \in S => n + 1 \in S
  PROVE  Nat \subseteq S
<1>1. SUFFICES ASSUME Nat \ S # {} PROVE FALSE
  OBVIOUS
<1>2. PICK m \in Nat \ S : \A n \in Nat \ S : m <= n
  BY LeastNumberPrinciple, <1>1
<1>3. m - 1 \in Nat /\ m - 1 \in S
  BY <1>2
<1>4. QED
  BY <1>2, <1>3

\* The sums up to a line of a log, as the function that Bytes defines.
Sums(log, sum) ==
  /\ sum \in [0..Len(log) -> Nat]
  /\ sum[0] = 0
  /\ \A i \in 1..Len(log) : sum[i] = sum[i - 1] + Weight(log[i])

LEMMA Numbers ==
  Cap \in Nat /\ Sizes \subseteq Nat /\ MaxEvents \in Nat /\ MaxFaults \in Nat
BY RunStoreAssumption

LEMMA WeightType == \A line \in Entry : Weight(line) \in Nat
<1> SUFFICES ASSUME NEW line \in Entry PROVE Weight(line) \in Nat
  OBVIOUS
<1>1. CASE line \in Line
  <2>1. line.n \in 1..MaxEvents /\ line.size \in Nat
    BY <1>1, Numbers DEF Line
  <2>2. QED
    BY <2>1, Numbers DEF Weight
<1>2. CASE line \in {Marker, Fragment, Garbled}
  <2>1. line.n = 0
    BY <1>2 DEF Marker, Fragment, Garbled
  <2>2. QED
    BY <2>1 DEF Weight
<1>3. QED
  BY <1>1, <1>2 DEF Entry

LEMMA Kinds ==
  /\ Marker \in Entry /\ Fragment \in Entry /\ Garbled \in Entry /\ Line \subseteq Entry
  /\ Weight(Marker) = 0 /\ Weight(Fragment) = 0
  /\ Marker # Fragment /\ Marker # Garbled /\ Fragment # Garbled
  /\ \A line \in Line : /\ line.n > 0 /\ Weight(line) = line.size /\ line.size \in Nat
                         /\ line.n \in Nat /\ line \notin {Marker, Fragment, Garbled}
  /\ Marker.n = 0 /\ Fragment.n = 0 /\ Garbled.n = 0
<1>1. \A line \in Line : line.n \in Nat /\ line.n > 0 /\ line.size \in Nat
  <2> SUFFICES ASSUME NEW line \in Line
               PROVE  line.n \in Nat /\ line.n > 0 /\ line.size \in Nat
    OBVIOUS
  <2>1. line.n \in 1..MaxEvents /\ line.size \in Nat
    BY Numbers DEF Line
  <2>2. QED
    BY <2>1, Numbers
<1>2. /\ Marker.n = 0 /\ Fragment.n = 0 /\ Garbled.n = 0
      /\ Marker.size = 0 /\ Fragment.size = 1 /\ Garbled.size = 2
  BY DEF Marker, Fragment, Garbled
<1>3. \A line \in Line : line \notin {Marker, Fragment, Garbled}
  BY <1>1, <1>2
<1>4. QED
  BY <1>1, <1>2, <1>3 DEF Entry, Weight

\* There are such sums, by induction over the number of lines.
LEMMA SumsExist ==
  ASSUME NEW log \in Seq(Entry)
  PROVE  \E sum : Sums(log, sum)
<1> DEFINE Upto(n, f) == /\ f \in [0..n -> Nat]
                         /\ f[0] = 0
                         /\ \A i \in 1..n : f[i] = f[i - 1] + Weight(log[i])
           S == {n \in Nat : n <= Len(log) => \E f : Upto(n, f)}
<1>0. Len(log) \in Nat
  BY LenProperties
<1>1. 0 \in S
  <2>1. Upto(0, [i \in 0..0 |-> 0])
    OBVIOUS
  <2>2. QED
    BY <2>1
<1>2. ASSUME NEW n \in Nat, n \in S, n + 1 <= Len(log)
      PROVE  \E f : Upto(n + 1, f)
  <2>0. n <= Len(log)
    BY <1>0, <1>2
  <2>1. PICK f : Upto(n, f)
    BY <1>2, <2>0
  <2>2. Weight(log[n + 1]) \in Nat
    <3>1. log[n + 1] \in Entry
      BY <1>0, <1>2, ElementOfSeq
    <3>2. QED
      BY <3>1, WeightType
  <2> DEFINE g == [i \in 0..n + 1 |-> IF i = n + 1 THEN f[n] + Weight(log[n + 1])
                                                  ELSE f[i]]
  <2>3. g \in [0..n + 1 -> Nat] /\ g[0] = 0
    BY <2>1, <2>2
  <2>4. ASSUME NEW i \in 1..n + 1 PROVE g[i] = g[i - 1] + Weight(log[i])
    BY <2>1
  <2>5. Upto(n + 1, g)
    BY <2>3, <2>4
  <2>6. QED
    BY <2>5
<1>3. ASSUME NEW n \in Nat, n \in S PROVE n + 1 \in S
  <2>1. n + 1 <= Len(log) => \E f : Upto(n + 1, f)
    BY <1>2, <1>3
  <2>2. n + 1 \in Nat
    OBVIOUS
  <2> HIDE DEF Upto
  <2>3. QED
    BY <2>1, <2>2
<1>4. Len(log) \in S
  <2> HIDE DEF S
  <2>1. QED
    BY <1>0, <1>1, <1>3, NatInductionOnSets
<1>5. PICK f : Upto(Len(log), f)
  BY <1>4, <1>0
<1>6. QED
  BY <1>5 DEF Sums

\* Two logs that agree up to a line have the same sums up to it.
LEMMA SumsAgree ==
  ASSUME NEW s \in Seq(Entry), NEW t \in Seq(Entry), NEW f, NEW g,
         Sums(s, f), Sums(t, g),
         NEW m \in Nat, m <= Len(s), m <= Len(t),
         \A i \in 1..m : s[i] = t[i]
  PROVE  f[m] = g[m]
<1> DEFINE S == {n \in Nat : n <= m => f[n] = g[n]}
<1>0. Len(s) \in Nat /\ Len(t) \in Nat
  BY LenProperties
<1>1. 0 \in S
  BY DEF Sums
<1>2. ASSUME NEW n \in Nat, n \in S PROVE n + 1 \in S
  <2> SUFFICES ASSUME n + 1 <= m PROVE f[n + 1] = g[n + 1]
    OBVIOUS
  <2>1. n + 1 \in 1..Len(s) /\ n + 1 \in 1..Len(t) /\ n + 1 \in 1..m
    BY <1>0
  <2>2. /\ f[n + 1] = f[(n + 1) - 1] + Weight(s[n + 1])
        /\ g[n + 1] = g[(n + 1) - 1] + Weight(t[n + 1])
    BY <2>1 DEF Sums
  <2>3. (n + 1) - 1 = n /\ f[n] = g[n] /\ s[n + 1] = t[n + 1]
    BY <1>2, <2>1
  <2>4. QED
    BY <2>2, <2>3
<1>3. m \in S
  <2> HIDE DEF S
  <2>1. QED
    BY <1>1, <1>2, NatInductionOnSets
<1>4. QED
  BY <1>3

\* What satisfies the equation of Bytes is a function of sums.
LEMMA EquationOfSums ==
  ASSUME NEW log \in Seq(Entry), NEW sum,
         sum = [i \in 0..Len(log) |->
                  IF i = 0 THEN 0 ELSE sum[i - 1] + Weight(log[i])]
  PROVE  Sums(log, sum)
<1>0. Len(log) \in Nat
  BY LenProperties
<1>1. sum[0] = 0
  BY <1>0
<1>2. \A i \in 1..Len(log) : sum[i] = sum[i - 1] + Weight(log[i])
  BY <1>0
<1> DEFINE S == {n \in Nat : n <= Len(log) => sum[n] \in Nat}
<1>3. 0 \in S
  BY <1>1
<1>4. ASSUME NEW n \in Nat, n \in S PROVE n + 1 \in S
  <2> SUFFICES ASSUME n + 1 <= Len(log) PROVE sum[n + 1] \in Nat
    OBVIOUS
  <2>1. n + 1 \in 1..Len(log) /\ (n + 1) - 1 = n /\ sum[n] \in Nat
    BY <1>0, <1>4
  <2>2. Weight(log[n + 1]) \in Nat
    BY <2>1, ElementOfSeq, WeightType
  <2>3. QED
    BY <1>2, <2>1, <2>2
<1>5. Nat \subseteq S
  <2> HIDE DEF S
  <2>1. QED
    BY <1>3, <1>4, NatInductionOnSets
<1>6. \A i \in 0..Len(log) : sum[i] \in Nat
  BY <1>0, <1>5
<1>7. sum \in [0..Len(log) -> Nat]
  BY <1>6
<1>8. QED
  BY <1>1, <1>2, <1>7 DEF Sums

\* The bytes of a log are the last of its sums.
LEMMA BytesAreSums ==
  ASSUME NEW log \in Seq(Entry)
  PROVE  \E sum : Sums(log, sum) /\ Bytes(log) = sum[Len(log)]
<1> DEFINE Step(f) == [i \in 0..Len(log) |->
                         IF i = 0 THEN 0 ELSE f[i - 1] + Weight(log[i])]
           sum == CHOOSE f : f = Step(f)
<1>0. Len(log) \in Nat
  BY LenProperties
<1>1. PICK f : Sums(log, f)
  BY SumsExist
<1>2. f = Step(f)
  <2>1. \A i \in 0..Len(log) : f[i] = Step(f)[i]
    BY <1>0, <1>1 DEF Sums
  <2>2. QED
    BY <1>1, <2>1 DEF Sums
<1>3. sum = Step(sum)
  BY <1>2
<1>4. Sums(log, sum)
  <2> HIDE DEF sum
  <2>1. QED
    BY <1>3, EquationOfSums
<1>5. Bytes(log) = sum[Len(log)]
  BY DEF Bytes
<1>6. QED
  BY <1>4, <1>5

-----------------------------------------------------------------------------
(* Plans and numbers.                                                      *)

Steps(w) == 1..Len(Plan[w])

\* A run has its place in one plan, and none of the old runs is planned.
LEMMA PlansAreApart ==
  \A v, w \in Writers : \A i \in Steps(v), j \in Steps(w) :
    /\ Plan[v][i] \in Runs \ OldRuns
    /\ Plan[v][i] = Plan[w][j] => v = w /\ i = j
<1> SUFFICES ASSUME NEW v \in Writers, NEW w \in Writers,
                    NEW i \in Steps(v), NEW j \in Steps(w)
             PROVE  /\ Plan[v][i] \in Runs \ OldRuns
                    /\ Plan[v][i] = Plan[w][j] => v = w /\ i = j
  OBVIOUS
<1>1. /\ Plan[v] \in Seq(Nat \ {0}) /\ Plan[w] \in Seq(Nat \ {0})
      /\ PlannedOf(v) \cap OldRuns = {}
      /\ v # w => PlannedOf(v) \cap PlannedOf(w) = {}
      /\ IsInjective(Plan[v])
  BY RunStoreAssumption
<1>2. DOMAIN Plan[v] = Steps(v) /\ DOMAIN Plan[w] = Steps(w)
  BY <1>1, LenProperties DEF Steps
<1>3. Plan[v][i] \in PlannedOf(v) /\ Plan[w][j] \in PlannedOf(w)
  BY <1>2 DEF PlannedOf, Range
<1>4. Plan[v][i] \in Runs \ OldRuns
  BY <1>1, <1>3 DEF Runs
<1>5. v = w /\ Plan[v][i] = Plan[w][j] => i = j
  BY <1>1, <1>2 DEF IsInjective
<1>6. QED
  BY <1>1, <1>3, <1>4, <1>5

LEMMA PlansAreFinite == \A w \in Writers : Len(Plan[w]) \in Nat
BY RunStoreAssumption, LenProperties

\* A run is a number, and none is NoRun.
LEMMA RunsAreNumbers == Runs \subseteq Nat \ {0}
<1>1. ASSUME NEW w \in Writers PROVE PlannedOf(w) \subseteq Nat \ {0}
  <2>1. Plan[w] \in Seq(Nat \ {0})
    BY RunStoreAssumption
  <2>2. \A i \in DOMAIN Plan[w] : Plan[w][i] \in Nat \ {0}
    BY <2>1, ElementOfSeq, LenProperties
  <2>3. QED
    BY <2>2 DEF PlannedOf, Range
<1>2. OldRuns \subseteq Nat \ {0}
  BY RunStoreAssumption
<1>3. QED
  BY <1>1, <1>2 DEF Runs

\* The first run of a listing is one of it, and the least.
LEMMA MinIsLeast ==
  ASSUME NEW S \in SUBSET Runs, S # {}
  PROVE  Min(S) \in S /\ \A r \in S : Min(S) <= r
<1>1. S \in SUBSET Nat
  BY RunsAreNumbers
<1>2. PICK m \in S : \A r \in S : m <= r
  BY <1>1, LeastNumberPrinciple
<1>3. QED
  BY <1>2 DEF Min

LEMMA Apart == Writers \cap Keepers = {} /\ Procs = Writers \cup Keepers
BY RunStoreAssumption DEF Procs

LEMMA CutsAreNumbers == Cutoffs \subseteq Nat \ {0}
BY RunStoreAssumption

-----------------------------------------------------------------------------
(* Who is where: the control of writers, sweeps and removals.              *)

\* The runs that are over: nobody writes to them any more.
Over(r) ==
  \/ r \in OldRuns
  \/ \E w \in Writers : \E i \in Steps(w) : i < at[w] /\ Plan[w][i] = r

\* A writer sweeps before its first event, has the line it appends in flight,
\* files under the run it drives, and has not begun the runs that follow.
WriterOK(w) ==
  /\ at[w] \in 1..Len(Plan[w]) + 1
  /\ pc[w] = "appending" => Started(w) /\ pending[w].run = Current(w)
  /\ pc[w] # "appending" => pending[w] = Nothing
  /\ Started(w) => latch[w] = Current(w)
  /\ pc[w] \in {"start", "sweeping", "removing", "emptied"} => at[w] = 1 /\ ~Started(w)
  /\ pc[w] = "saving" => /\ Started(w) /\ Current(w) \in Kept
                         /\ disk[Current(w)].record = "torn"
  /\ \A i \in Steps(w) : i > at[w] => stream[Plan[w][i]] = <<>>

\* What is being removed is over, and is named by an rm or older than a cutoff.
RemovalOK(p) ==
  /\ Target(p) \in Runs /\ Over(Target(p))
  /\ disk[Target(p)].record = "whole" \/ disk[Target(p)] \in {Absent, Empty}
  /\ pc[p] = "emptied" => disk[Target(p)] \in {Absent, Empty}
  /\ IF Forgiving(p) THEN owed[p] = {Target(p)} ELSE Target(p) < cut[p]

ProcOK(p) ==
  /\ pc[p] \in {"running", "appending", "saving"} => p \in Writers
  /\ pc[p] = "start" => todo[p] = {} /\ cut[p] = 0 /\ owed[p] = {}
  /\ pc[p] \in {"removing", "emptied"} => RemovalOK(p)

\* Only a run that is over has a whole record; one that has not begun has
\* nothing in the store.
RunOK(r) ==
  /\ disk[r].record = "absent" => disk[r] = Absent
  /\ disk[r].record = "whole" => Over(r)
  /\ stream[r] = <<>> =>
       /\ book[r] = [bytes |-> 0, stopped |-> FALSE] /\ disk[r].log = <<>>
       /\ r \notin OldRuns => disk[r] = Absent
  /\ r \in OldRuns => stream[r] = <<>>

Control ==
  /\ TypeOK
  /\ \A w \in Writers : WriterOK(w)
  /\ \A p \in Procs : ProcOK(p)
  /\ \A r \in Runs : RunOK(r)

-----------------------------------------------------------------------------
(* What a log keeps of the events that were given to the sink.             *)

\* The line on its way to the log of a run, if there is one.
Flight(r) == {pending[w].line : w \in {v \in Writers : pending[v].run = r}}

\* Of a log, the events, the counters of append_event and what is in flight:
\* whatever was lost, the lines left are events in their order, the marker is
\* last, and the bytes were counted.
Sound(log, events, count, flight) ==
  /\ \A k \in 1..Len(events) : events[k].n = k
  /\ \A i \in 1..Len(log) : log[i].n > 0 =>
       log[i].n <= Len(events) /\ log[i] = events[log[i].n]
  /\ \A i, j \in 1..Len(log) :
       log[i].n > 0 /\ log[j].n > 0 /\ i < j => log[i].n < log[j].n
  /\ \A i \in 1..Len(log) : log[i] = Marker =>
       i = Len(log) /\ count.stopped /\ flight = {}
  /\ flight = {} => Bytes(log) <= count.bytes
  /\ flight # {} => \E line \in Entry :
       /\ flight = {line}
       /\ Bytes(log) + Weight(line) <= count.bytes
       /\ count.stopped => line = Marker
       /\ ~count.stopped =>
            /\ events # <<>> /\ line = events[Len(events)]
            /\ \A i \in 1..Len(log) : log[i].n < Len(events)

\* A log that follows the events up to line n.
Follows(log, events, n) ==
  n <= Len(log) /\ n <= Len(events) /\ \A i \in 1..n : log[i] = events[i]

\* And when nothing was lost: all of them but the one in flight, or those up
\* to the first that did not fit.
Exact(log, events, count, flight) ==
  \/ /\ flight = {} /\ ~count.stopped
     /\ Len(log) = Len(events) /\ Follows(log, events, Len(log))
     /\ count.bytes = Bytes(log)
  \/ /\ flight # {} /\ ~count.stopped
     /\ Len(log) + 1 = Len(events) /\ Follows(log, events, Len(log))
     /\ count.bytes = Bytes(log) + events[Len(events)].size
  \/ /\ flight # {} /\ count.stopped
     /\ Len(log) < Len(events) /\ Follows(log, events, Len(log))
     /\ Bytes(log) + events[Len(log) + 1].size > Cap
  \/ /\ flight = {} /\ count.stopped
     /\ log # <<>> /\ log[Len(log)] = Marker
     /\ Len(log) <= Len(events) /\ Follows(log, events, Len(log) - 1)
     /\ Bytes(log) + events[Len(log)].size > Cap

LogOK(r) ==
  /\ Sound(disk[r].log, stream[r], book[r], Flight(r))
  /\ \/ r \in damaged \cup Dying
     \/ Over(r) /\ disk[r] = Absent
     \/ Exact(disk[r].log, stream[r], book[r], Flight(r))

-----------------------------------------------------------------------------
(* What the sweeps achieve together.                                       *)

Active(q) == pc[q] \in {"sweeping", "removing", "emptied"}

Owed(r) == \E p \in Procs : r \in owed[p]

\* What none of the cutoffs spares, but for that of the run's own writer.
Unspared(r) == \A q \in Procs : cut[q] # 0 => r < cut[q] \/ Wrote(q, r)

\* A run that sweeps owe, or may come to owe, and that must go.
Ripe(r) ==
  r \notin driven /\ Unspared(r) /\ (Owed(r) \/ disk[r].record = "whole")

\* Either the run is gone, or a sweep past t still has it before it.
Covered(r, t) ==
  \/ disk[r] = Absent
  \/ \E q \in Procs : Active(q) /\ r \in todo[q] /\ \A u \in todo[q] : t < u

\* What was owed was whole once, and nobody writes to it.
OwedOK(r) ==
  Owed(r) =>
    /\ Over(r)
    /\ disk[r].record = "whole" \/ disk[r] \in {Absent, Empty}
    /\ faults = 0 /\ disk[r] = Empty => r \in Dying

\* A sweep's listing holds what is over and older than its cutoff, but for
\* what is gone or what the sweep is past.
ListingOK(q) ==
  todo[q] # {} =>
    /\ cut[q] # 0
    /\ \A r \in Runs \ driven : r < cut[q] =>
         /\ Over(r)
         /\ r \in todo[q] \/ disk[r] = Absent \/ \A t \in todo[q] : r < t

\* The sweep that trips over a run that is gone is not the last to come by.
CoverOK(r) ==
  faults = 0 /\ Ripe(r) =>
    /\ Owed(r) => Covered(r, 0)
    /\ \A q \in Procs : \A t \in todo[q] :
         Active(q) /\ r \in todo[q] /\ t < r /\ disk[t] = Absent => Covered(r, t)

Sweeping ==
  /\ faults = 0 => damaged = {}
  /\ \A q \in Procs : ListingOK(q)
  /\ \A r \in Runs : OwedOK(r) /\ CoverOK(r)

-----------------------------------------------------------------------------
(* Control is inductive.                                                   *)

LEMMA StartsInControl == Init => Control
<1> SUFFICES ASSUME Init PROVE Control
  OBVIOUS
<1> USE DEF Init
<1>0. PICK old \in [OldRuns -> {"torn", "whole"}] :
        disk = [r \in Runs |-> IF r \in OldRuns
                               THEN [record |-> old[r], log |-> <<>>] ELSE Absent]
  OBVIOUS
<1>1. disk \in [Runs -> [record : {"absent", "none", "torn", "whole"}, log : Seq(Entry)]]
  <2>1. <<>> \in Seq(Entry)
    BY EmptySeq
  <2>2. QED
    BY <1>0, <2>1 DEF Absent
<1>2. TypeOK
  <2>1. <<>> \in Seq(Line)
    BY EmptySeq
  <2>2. Marker \in Entry
    BY DEF Entry
  <2>3. QED
    BY <1>1, <2>1, <2>2, Numbers DEF TypeOK, Nothing
<1>3. ASSUME NEW w \in Writers PROVE WriterOK(w)
  <2>1. w \in Procs
    BY DEF Procs
  <2>2. \A i \in Steps(w) : stream[Plan[w][i]] = <<>>
    BY PlansAreApart
  <2>3. ~Started(w)
    BY <2>2 DEF Started, Driving, Current, Steps
  <2>4. QED
    BY <2>1, <2>2, <2>3, PlansAreFinite DEF WriterOK
<1>4. ASSUME NEW p \in Procs PROVE ProcOK(p)
  BY DEF ProcOK
<1>5. ASSUME NEW r \in Runs PROVE RunOK(r)
  BY <1>0 DEF RunOK, Absent, Over
<1>6. QED
  BY <1>2, <1>3, <1>4, <1>5 DEF Control

\* What is over stays over.
LEMMA OverStays ==
  ASSUME TypeOK, TypeOK', \A w \in Writers : at[w] <= at'[w]
  PROVE  \A r : Over(r) => Over(r)'
<1>1. ASSUME NEW w \in Writers, NEW i \in Steps(w), i < at[w] PROVE i < at'[w]
  BY <1>1 DEF TypeOK, Steps
<1>2. QED
  BY <1>1 DEF Over

\* The run a writer drives is not over, and no other writer has it.
LEMMA CurrentIsOwn ==
  ASSUME NEW w \in Writers, Driving(w)
  PROVE  /\ at[w] \in Steps(w) /\ Current(w) \in Runs \ OldRuns /\ ~Over(Current(w))
         /\ \A v \in Writers \ {w} : \A i \in Steps(v) : Plan[v][i] # Current(w)
         /\ \A v \in Writers \ {w} : Driving(v) => Current(v) # Current(w)
<1>1. at[w] \in Steps(w)
  BY DEF Driving, Steps
<1>2. Current(w) \in Runs \ OldRuns
  BY <1>1, PlansAreApart DEF Current
<1>3. \A v \in Writers \ {w} : \A i \in Steps(v) : Plan[v][i] # Current(w)
  BY <1>1, PlansAreApart DEF Current
<1>4. ASSUME NEW i \in Steps(w), Plan[w][i] = Current(w) PROVE i = at[w]
  BY <1>1, <1>4, PlansAreApart DEF Current
<1>5. ~Over(Current(w))
  <2>1. \A i \in Steps(w) : i < at[w] => Plan[w][i] # Current(w)
    BY <1>1, <1>4, PlansAreFinite DEF Steps
  <2>2. QED
    BY <1>2, <1>3, <2>1 DEF Over
<1>6. QED
  BY <1>1, <1>2, <1>3, <1>5 DEF Driving, Steps, Current

\* What is over may only leave the store.
OverLeaves ==
  \A r \in Runs : Over(r) => disk'[r] = disk[r] \/ disk'[r] \in {Absent, Empty}

LEMMA ProcKept ==
  ASSUME NEW p \in Procs, ProcOK(p), OverLeaves, \A r : Over(r) => Over(r)',
         pc'[p] = pc[p], todo'[p] = todo[p], cut'[p] = cut[p], owed'[p] = owed[p]
  PROVE  ProcOK(p)'
<1>1. /\ Target(p) = IF todo[p] = {} THEN cut[p] ELSE Min(todo[p])
      /\ Target(p)' = IF todo'[p] = {} THEN cut'[p] ELSE Min(todo'[p])
      /\ Forgiving(p) <=> todo[p] = {}
      /\ Forgiving(p)' <=> todo'[p] = {}
  BY DEF Target, Forgiving, First
<1>2. Target(p)' = Target(p)
  BY <1>1
<1>3. ASSUME RemovalOK(p) PROVE RemovalOK(p)'
  <2>1. disk'[Target(p)] = disk[Target(p)] \/ disk'[Target(p)] \in {Absent, Empty}
    BY <1>3 DEF RemovalOK, OverLeaves
  <2>2. Over(Target(p))'
    <3>1. ASSUME NEW r, Over(r) PROVE Over(r)'
      BY <3>1
    <3>2. PICK r : r = Target(p)
      OBVIOUS
    <3>3. QED
      BY <1>2, <1>3, <3>1, <3>2 DEF RemovalOK, Over
  <2>3. QED
    BY <1>1, <1>2, <1>3, <2>1, <2>2 DEF RemovalOK
<1>4. QED
  BY <1>3 DEF ProcOK

LEMMA WriterKept ==
  ASSUME NEW w \in Writers, WriterOK(w),
         pc'[w] = pc[w], at'[w] = at[w], latch'[w] = latch[w], pending'[w] = pending[w],
         \A i \in Steps(w) : stream'[Plan[w][i]] = stream[Plan[w][i]],
         Driving(w) => disk'[Current(w)] = disk[Current(w)]
  PROVE  WriterOK(w)'
BY DEF WriterOK, Started, Driving, Current, Steps

LEMMA RunKept ==
  ASSUME NEW r \in Runs, RunOK(r), Over(r) => Over(r)',
         disk'[r] = disk[r], book'[r] = book[r], stream'[r] = stream[r]
  PROVE  RunOK(r)'
BY DEF RunOK

\* A step of one process that touches neither the store nor what is written.
LEMMA QuietStep ==
  ASSUME NEW p \in Procs, Control, TypeOK',
         UNCHANGED <<disk, book, writing>>,
         \A q \in Procs \ {p} : /\ pc'[q] = pc[q] /\ todo'[q] = todo[q]
                                /\ cut'[q] = cut[q] /\ owed'[q] = owed[q],
         ProcOK(p)', p \in Writers => WriterOK(p)'
  PROVE  Control'
<1>1. \A r : Over(r) => Over(r)'
  BY DEF writing, Over
<1>2. OverLeaves
  BY DEF OverLeaves
<1>3. ASSUME NEW w \in Writers PROVE WriterOK(w)'
  <2>1. CASE w = p
    BY <2>1
  <2>2. CASE w # p
    <3>1. pc'[w] = pc[w] /\ WriterOK(w)
      BY <2>2 DEF Control, Procs
    <3>2. QED
      BY <3>1, WriterKept DEF writing
  <2>3. QED
    BY <2>1, <2>2
<1>4. ASSUME NEW q \in Procs PROVE ProcOK(q)'
  <2>1. CASE q = p
    BY <2>1
  <2>2. CASE q # p
    <3>1. ProcOK(q)
      BY DEF Control
    <3>2. QED
      BY <1>1, <1>2, <2>2, <3>1, ProcKept
  <2>3. QED
    BY <2>1, <2>2
<1>5. ASSUME NEW r \in Runs PROVE RunOK(r)'
  <2>1. RunOK(r)
    BY DEF Control
  <2>2. QED
    BY <1>1, <2>1, RunKept DEF writing
<1>6. QED
  BY <1>3, <1>4, <1>5 DEF Control

\* A writer that is not begun stays so through its sweep.
LEMMA WriterSweeps ==
  ASSUME NEW w \in Writers, WriterOK(w), UNCHANGED writing,
         pc[w] \in {"start", "sweeping", "removing", "emptied"},
         pc'[w] \notin {"appending", "saving"}
  PROVE  WriterOK(w)'
BY DEF WriterOK, Started, Driving, Current, Steps, writing

\* And one that stops, between two writes or before it, leaves nothing behind.
LEMMA WriterStops ==
  ASSUME NEW w \in Writers, WriterOK(w), UNCHANGED writing,
         pc[w] # "appending", pc'[w] \in {"done", "failed", "crashed"}
  PROVE  WriterOK(w)'
BY DEF WriterOK, Started, Driving, Current, Steps, writing

LEMMA TargetIs ==
  \A p \in Procs :
    /\ Target(p) = IF todo[p] = {} THEN cut[p] ELSE Min(todo[p])
    /\ Target(p)' = IF todo'[p] = {} THEN cut'[p] ELSE Min(todo'[p])
    /\ Forgiving(p) <=> todo[p] = {}
    /\ Forgiving(p)' <=> todo'[p] = {}
BY DEF Target, Forgiving, First

LEMMA ListKeepsControl ==
  ASSUME Control, NEW p \in Procs, NEW c \in Past, List(p, c)
  PROVE  Control'
<1> USE DEF List, Go, NoFault, sweeping
<1>1. c \in Nat
  BY CutsAreNumbers DEF Past
<1>2. TypeOK'
  <2>1. Present \subseteq Runs
    BY DEF Present
  <2>2. driven' \subseteq Runs
    <3>1. Driven \subseteq Runs
      BY CurrentIsOwn DEF Driven
    <3>2. QED
      BY <3>1 DEF Control, TypeOK
  <2>3. {r \in Present : AgedOut(r, c)} \subseteq Runs
    BY <2>1
  <2>4. QED
    BY <1>1, <2>1, <2>2, <2>3 DEF Control, TypeOK, writing
<1>3. pc[p] = "start" /\ pc'[p] = "sweeping"
  BY DEF Control, TypeOK
<1>4. ProcOK(p)'
  BY <1>3 DEF ProcOK
<1>5. p \in Writers => WriterOK(p)'
  BY <1>3, WriterSweeps DEF Control
<1>6. \A q \in Procs \ {p} : /\ pc'[q] = pc[q] /\ todo'[q] = todo[q]
                             /\ cut'[q] = cut[q] /\ owed'[q] = owed[q]
  BY DEF Control, TypeOK
<1>7. QED
  BY <1>2, <1>4, <1>5, <1>6, QuietStep

\* The first run of a listing that is due for removal.
LEMMA FirstIsDue ==
  ASSUME Control, NEW p \in Procs, todo[p] # {}, AgedOut(First(p), cut[p])
  PROVE  /\ First(p) \in todo[p] /\ First(p) \in Runs /\ Over(First(p))
         /\ disk[First(p)].record = "whole" /\ First(p) < cut[p]
<1>1. todo[p] \in SUBSET Runs
  BY DEF Control, TypeOK
<1>2. First(p) \in todo[p] /\ First(p) \in Runs
  BY <1>1, MinIsLeast DEF First
<1>3. disk[First(p)].record = "whole" /\ First(p) < cut[p]
  BY DEF AgedOut
<1>4. QED
  BY <1>2, <1>3 DEF Control, RunOK

LEMMA VisitKeepsControl ==
  ASSUME Control, NEW p \in Procs, Visit(p)
  PROVE  Control'
<1> USE DEF Visit, Go, NoFault
<1>1. TypeOK'
  <2>1. pc' \in [Procs -> {"start", "sweeping", "removing", "emptied", "running",
                           "appending", "saving", "done", "failed", "crashed"}]
    <3>1. pc' = pc \/ pc' = [pc EXCEPT ![p] = "removing"]
      OBVIOUS
    <3>2. pc \in [Procs -> {"start", "sweeping", "removing", "emptied", "running",
                           "appending", "saving", "done", "failed", "crashed"}]
      BY DEF Control, TypeOK
    <3>3. QED
      BY ONLY <3>1, <3>2
  <2>2. todo' \in [Procs -> SUBSET Runs]
    <3>1. PICK r : todo' = todo \/ todo' = [todo EXCEPT ![p] = todo[p] \ {r}]
      OBVIOUS
    <3>2. todo \in [Procs -> SUBSET Runs]
      BY DEF Control, TypeOK
    <3>3. QED
      BY ONLY <3>1, <3>2
  <2>3. UNCHANGED <<disk, cut, owed, driven, at, latch, book, pending, stream,
                    damaged, faults>>
    BY DEF writing
  <2>4. QED
    BY <2>1, <2>2, <2>3 DEF Control, TypeOK
<1>2. pc[p] = "sweeping" /\ pc'[p] \in {"sweeping", "removing"}
  BY DEF Control, TypeOK
<1>3. ProcOK(p)'
  <2>1. CASE pc'[p] = "sweeping"
    BY <2>1 DEF ProcOK
  <2>2. CASE AgedOut(First(p), cut[p])
    <3>1. UNCHANGED <<todo, cut, owed, disk, at>> /\ pc'[p] = "removing"
      BY <2>2 DEF writing, Control, TypeOK
    <3>2. Target(p)' = First(p) /\ ~Forgiving(p)'
      BY <3>1, TargetIs DEF First
    <3>3. PICK r : r = First(p)
      OBVIOUS
    <3>4. r \in Runs /\ Over(r)' /\ disk'[r].record = "whole" /\ r < cut'[p]
      BY <2>2, <3>1, <3>3, FirstIsDue DEF Over
    <3>5. RemovalOK(p)'
      BY <3>1, <3>2, <3>3, <3>4 DEF RemovalOK, Over
    <3>6. QED
      BY <3>1, <3>5 DEF ProcOK
  <2>3. QED
    BY <1>2, <2>1, <2>2 DEF Control, TypeOK
<1>4. p \in Writers => WriterOK(p)'
  BY <1>2, WriterSweeps DEF Control
<1>5. \A q \in Procs \ {p} : /\ pc'[q] = pc[q] /\ todo'[q] = todo[q]
                             /\ cut'[q] = cut[q] /\ owed'[q] = owed[q]
  BY DEF Control, TypeOK
<1>6. QED
  BY <1>1, <1>3, <1>4, <1>5, QuietStep

\* A process that stops, or that goes from its sweep to its work.
LEMMA LeavesTheSweep ==
  ASSUME Control, NEW p \in Procs, UNCHANGED <<disk, book, writing, todo, driven>>,
         TypeOK', NEW to, Go(p, to),
         \A q \in Procs \ {p} : cut'[q] = cut[q] /\ owed'[q] = owed[q],
         \/ to \in {"done", "failed", "crashed"} /\ pc[p] # "appending"
         \/ to = "running" /\ p \in Writers /\ pc[p] \in {"sweeping", "removing", "emptied"}
  PROVE  Control'
<1>1. pc'[p] = to
  BY DEF Go, Control, TypeOK
<1>2. ProcOK(p)'
  BY <1>1 DEF ProcOK
<1>3. p \in Writers => WriterOK(p)'
  BY <1>1, WriterStops, WriterSweeps DEF Control
<1>4. \A q \in Procs \ {p} : /\ pc'[q] = pc[q] /\ todo'[q] = todo[q]
                             /\ cut'[q] = cut[q] /\ owed'[q] = owed[q]
  BY DEF Control, TypeOK, Go
<1>5. QED
  BY <1>2, <1>3, <1>4, QuietStep

LEMMA FaultType ==
  ASSUME TypeOK, NEW rs \in SUBSET Runs, NoFault \/ Fault(rs)
  PROVE  damaged' \subseteq Runs /\ faults' \in 0..MaxFaults /\ faults <= faults'
BY Numbers DEF TypeOK, NoFault, Fault

LEMMA QuietType ==
  ASSUME TypeOK, NEW p \in Procs, NEW to, Go(p, to),
         to \in {"running", "done", "failed", "crashed"},
         UNCHANGED <<disk, book, writing, sweeping>>,
         NEW rs \in SUBSET Runs, NoFault \/ Fault(rs)
  PROVE  TypeOK'
<1>1. damaged' \subseteq Runs /\ faults' \in 0..MaxFaults
  BY FaultType
<1>2. pc' \in [Procs -> {"start", "sweeping", "removing", "emptied", "running",
                         "appending", "saving", "done", "failed", "crashed"}]
  BY DEF TypeOK, Go
<1>3. QED
  BY <1>1, <1>2 DEF TypeOK, writing, sweeping

\* What a removal works on is a run, and is over.
LEMMA RemovalsAreSound ==
  ASSUME Control, NEW p \in Procs, pc[p] \in {"removing", "emptied"}
  PROVE  Target(p) \in Runs /\ RemovalOK(p)
BY DEF Control, ProcOK, RemovalOK

\* The ways out of a command, and out of a sweep, but for those of the writer.
LEMMA LeavingKeepsControl ==
  ASSUME Control, NEW p \in Procs,
         \/ SweepEnds(p) \/ AlreadyGone(p) \/ RemoveRefused(p)
         \/ p \in Keepers /\ Query(p)
         \/ p \in Writers /\ (WriterEnds(p) \/ SinkRefuses(p))
  PROVE  Control'
<1> DEFINE Left(to, rs) == /\ Go(p, to) /\ (NoFault \/ Fault(rs))
                           /\ UNCHANGED <<disk, book, writing, sweeping>>
<1>1. ASSUME NEW to, NEW rs \in SUBSET Runs, Left(to, rs),
             \/ to \in {"done", "failed"} /\ pc[p] # "appending"
             \/ /\ to = "running" /\ p \in Writers
                /\ pc[p] \in {"sweeping", "removing", "emptied"}
      PROVE  Control'
  <2>1. TypeOK'
    BY <1>1, QuietType DEF Control
  <2>2. UNCHANGED <<disk, book, writing, todo, driven, cut, owed>>
    BY <1>1 DEF sweeping
  <2>3. QED
    BY <1>1, <2>1, <2>2, LeavesTheSweep
<1>2. CASE SweepEnds(p)
  <2>1. Left(IF p \in Writers THEN "running" ELSE "done", {}) /\ pc[p] = "sweeping"
    BY <1>2 DEF SweepEnds
  <2>2. QED
    BY <1>1, <2>1
<1>3. ASSUME NEW rs \in SUBSET Runs, SweepFails(p), NoFault \/ Fault(rs),
             pc[p] \in {"removing", "emptied"}
      PROVE  Control'
  <2>1. Left(IF p \in Writers THEN "running" ELSE "failed", rs)
    BY <1>3 DEF SweepFails
  <2>2. QED
    BY <1>1, <1>3, <2>1
<1>4. CASE AlreadyGone(p)
  <2>1. pc[p] \in {"removing", "emptied"} /\ NoFault
    BY <1>4 DEF AlreadyGone
  <2>2. CASE Forgiving(p)
    <3>1. Left("done", {})
      BY <1>4, <2>2 DEF AlreadyGone
    <3>2. QED
      BY <1>1, <2>1, <3>1
  <2>3. CASE ~Forgiving(p)
    BY <1>3, <1>4, <2>1, <2>3 DEF AlreadyGone
  <2>4. QED
    BY <2>2, <2>3
<1>5. CASE RemoveRefused(p)
  <2>1. pc[p] \in {"removing", "emptied"} /\ Fault({Target(p)})
    BY <1>5 DEF RemoveRefused
  <2>2. {Target(p)} \in SUBSET Runs
    BY <2>1, RemovalsAreSound
  <2>3. CASE Forgiving(p)
    <3>1. Left("failed", {Target(p)})
      BY <1>5, <2>3 DEF RemoveRefused
    <3>2. QED
      BY <1>1, <2>1, <2>2, <3>1
  <2>4. CASE ~Forgiving(p)
    BY <1>3, <1>5, <2>1, <2>2, <2>4 DEF RemoveRefused
  <2>5. QED
    BY <2>3, <2>4
<1>6. CASE Query(p)
  <2>1. \E to \in {"done", "failed"} : Left(to, {})
    BY <1>6 DEF Query
  <2>2. pc[p] = "start"
    BY <1>6 DEF Query
  <2>3. QED
    BY <1>1, <2>1, <2>2
<1>7. CASE WriterEnds(p)
  <2>1. Left("done", {}) /\ pc[p] = "running"
    BY <1>7 DEF WriterEnds
  <2>2. QED
    BY <1>1, <2>1
<1>8. CASE SinkRefuses(p)
  <2>1. Left("failed", {}) /\ pc[p] = "running"
    BY <1>8 DEF SinkRefuses
  <2>2. QED
    BY <1>1, <2>1
<1>9. QED
  BY <1>2, <1>4, <1>5, <1>6, <1>7, <1>8

\* The crashes that are not in the middle of an append.
Falls(p) ==
  /\ pc[p] \in {"sweeping", "removing", "emptied", "running", "saving"}
  /\ Fault(CASE pc[p] \in {"removing", "emptied"} -> {Target(p)}
              [] pc[p] \in {"running", "saving"} /\ Driving(p) -> {Current(p)}
              [] OTHER -> {})
  /\ Go(p, "crashed")
  /\ UNCHANGED <<disk, sweeping, writing, book>>

LEMMA CrashIs ==
  \A p : Crash(p) <=> (p \in Writers /\ AppendFails(p, "crashed")) \/ Falls(p)
BY DEF Crash, Falls

LEMMA FallingKeepsControl ==
  ASSUME Control, NEW p \in Procs, Falls(p)
  PROVE  Control'
<1>1. \E rs \in SUBSET Runs : Fault(rs)
  <2>1. CASE pc[p] \in {"removing", "emptied"}
    <3>1. Fault({Target(p)})
      BY <2>1 DEF Falls
    <3>2. QED
      BY <2>1, <3>1, RemovalsAreSound
  <2>2. CASE pc[p] \in {"running", "saving"} /\ Driving(p)
    <3>1. Fault({Current(p)})
      BY <2>2 DEF Falls
    <3>2. p \in Writers
      BY <2>2 DEF Control, ProcOK
    <3>3. QED
      BY <2>2, <3>1, <3>2, CurrentIsOwn
  <2>3. CASE ~(pc[p] \in {"removing", "emptied"})
             /\ ~(pc[p] \in {"running", "saving"} /\ Driving(p))
    <3>1. Fault({})
      BY <2>3 DEF Falls
    <3>2. QED
      BY <3>1
  <2>4. QED
    BY <2>1, <2>2, <2>3
<1>2. /\ Go(p, "crashed") /\ UNCHANGED <<disk, book, writing, sweeping>>
      /\ pc[p] # "appending"
  BY DEF Falls
<1>3. TypeOK'
  BY <1>1, <1>2, QuietType DEF Control
<1>4. UNCHANGED <<disk, book, writing, todo, driven, cut, owed>>
  BY <1>2 DEF sweeping
<1>5. QED
  BY <1>2, <1>3, <1>4, LeavesTheSweep

LEMMA RmKeepsControl ==
  ASSUME Control, NEW k \in Keepers, NEW r \in Runs, Rm(k, r)
  PROVE  Control'
<1>0. k \in Procs /\ k \notin Writers
  BY Apart
<1>1. pc[k] = "start" /\ todo[k] = {} /\ r \in Nat
  BY <1>0, RunsAreNumbers DEF Rm, Control, ProcOK
<1>2. CASE disk[r].record = "whole"
  <2>1. /\ Go(k, "removing") /\ UNCHANGED <<disk, todo, driven, writing, book>>
        /\ cut' = [cut EXCEPT ![k] = r] /\ owed' = [owed EXCEPT ![k] = {r}]
        /\ NoFault
    BY <1>2 DEF Rm
  <2>2. TypeOK'
    BY <1>1, <2>1 DEF Control, TypeOK, Go, NoFault, writing
  <2>3. pc'[k] = "removing" /\ todo'[k] = {} /\ cut'[k] = r /\ owed'[k] = {r}
    BY <1>0, <1>1, <2>1 DEF Control, TypeOK, Go
  <2>4. Target(k)' = r /\ Forgiving(k)'
    BY <1>0, <2>3, TargetIs
  <2>5. Over(r)' /\ disk'[r].record = "whole"
    BY <1>2, <2>1 DEF Control, RunOK, Over, writing
  <2>6. ProcOK(k)'
    BY <2>3, <2>4, <2>5 DEF ProcOK, RemovalOK, Over
  <2>7. \A q \in Procs \ {k} : /\ pc'[q] = pc[q] /\ todo'[q] = todo[q]
                               /\ cut'[q] = cut[q] /\ owed'[q] = owed[q]
    BY <2>1 DEF Control, TypeOK, Go
  <2>8. QED
    BY <1>0, <2>1, <2>2, <2>6, <2>7, QuietStep
<1>3. CASE disk[r].record # "whole"
  <2>1. /\ Go(k, "failed") /\ UNCHANGED <<disk, book, writing, sweeping>> /\ NoFault
    BY <1>3 DEF Rm, sweeping
  <2>2. TypeOK'
    BY <1>0, <2>1, QuietType DEF Control
  <2>3. UNCHANGED <<disk, book, writing, todo, driven, cut, owed>>
    BY <2>1 DEF sweeping
  <2>4. QED
    BY <1>0, <1>1, <2>1, <2>2, <2>3, LeavesTheSweep
<1>4. QED
  BY <1>2, <1>3

\* A step of a removal, which changes nothing but the directory it works on.
LEMMA RemovalKeepsControl ==
  ASSUME Control, NEW p \in Procs, pc[p] \in {"removing", "emptied"},
         NEW to \in {"emptied", "sweeping", "done"}, Go(p, to),
         NEW dir \in {Empty, Absent}, disk[Target(p)] # Absent,
         disk' = [disk EXCEPT ![Target(p)] = dir],
         UNCHANGED <<cut, owed, driven, writing, book>>, NoFault,
         todo' \in [Procs -> SUBSET Runs],
         \A q \in Procs \ {p} : todo'[q] = todo[q],
         ProcOK(p)'
  PROVE  Control'
<1> DEFINE t == Target(p)
<1>1. t \in Runs /\ Over(t)
  BY RemovalsAreSound DEF RemovalOK
<1> HIDE DEF t
<1>2. disk' = [disk EXCEPT ![t] = dir] /\ disk[t] # Absent
  BY DEF t
<1>3. \A r : Over(r) => Over(r)'
  BY DEF writing, Over
<1>4. disk' \in [Runs -> [record : {"absent", "none", "torn", "whole"}, log : Seq(Entry)]]
  <2>1. dir \in [record : {"absent", "none", "torn", "whole"}, log : Seq(Entry)]
    <3>1. <<>> \in Seq(Entry)
      BY EmptySeq
    <3>2. Empty \in [record : {"absent", "none", "torn", "whole"}, log : Seq(Entry)]
      BY ONLY <3>1 DEF Empty
    <3>3. Absent \in [record : {"absent", "none", "torn", "whole"}, log : Seq(Entry)]
      BY ONLY <3>1 DEF Absent
    <3>4. QED
      BY <3>2, <3>3
  <2>2. disk \in [Runs -> [record : {"absent", "none", "torn", "whole"}, log : Seq(Entry)]]
    BY DEF Control, TypeOK
  <2>3. QED
    BY <1>2, <2>1, <2>2
<1>5. pc' \in [Procs -> {"start", "sweeping", "removing", "emptied", "running",
                         "appending", "saving", "done", "failed", "crashed"}]
  BY DEF Control, TypeOK, Go
<1>6. TypeOK'
  BY <1>4, <1>5 DEF Control, TypeOK, writing, NoFault
<1>7. OverLeaves /\ \A r \in Runs \ {t} : disk'[r] = disk[r]
  BY <1>1, <1>2 DEF OverLeaves, Control, TypeOK
<1>8. pc'[p] = to /\ \A q \in Procs \ {p} : pc'[q] = pc[q]
  BY DEF Control, TypeOK, Go
<1>9. ASSUME NEW w \in Writers PROVE WriterOK(w)'
  <2>1. WriterOK(w)
    BY DEF Control
  <2>2. CASE w = p
    BY <1>8, <2>1, <2>2, WriterSweeps
  <2>3. CASE w # p
    <3>1. pc'[w] = pc[w]
      BY <1>8, <2>3 DEF Procs
    <3>2. Driving(w) => disk'[Current(w)] = disk[Current(w)]
      BY <1>1, <1>7, CurrentIsOwn
    <3>3. QED
      BY <2>1, <3>1, <3>2, WriterKept DEF writing
  <2>4. QED
    BY <2>2, <2>3
<1>10. ASSUME NEW q \in Procs PROVE ProcOK(q)'
  <2>1. CASE q = p
    BY <2>1
  <2>2. CASE q # p
    <3>1. ProcOK(q)
      BY DEF Control
    <3>2. QED
      BY <1>3, <1>7, <1>8, <2>2, <3>1, ProcKept
  <2>3. QED
    BY <2>1, <2>2
<1>11. ASSUME NEW r \in Runs PROVE RunOK(r)'
  <2>1. RunOK(r)
    BY DEF Control
  <2>2. CASE r = t
    <3>1. disk'[r] = dir
      BY <1>2, <2>2 DEF Control, TypeOK
    <3>2. UNCHANGED <<book, stream>>
      BY DEF writing
    <3>3. QED
      BY <1>1, <1>2, <2>1, <2>2, <3>1, <3>2 DEF RunOK, Absent, Empty
  <2>3. CASE r # t
    BY <1>3, <1>7, <2>1, <2>3, RunKept DEF writing
  <2>4. QED
    BY <2>2, <2>3
<1>12. QED
  BY <1>6, <1>9, <1>10, <1>11 DEF Control

LEMMA UnlinkKeepsControl ==
  ASSUME Control, NEW p \in Procs, Unlink(p)
  PROVE  Control'
<1>1. /\ pc[p] = "removing" /\ disk[Target(p)] # Absent /\ Go(p, "emptied") /\ NoFault
      /\ disk' = [disk EXCEPT ![Target(p)] = Empty]
      /\ UNCHANGED <<todo, cut, owed, driven, writing, book>>
  BY DEF Unlink, sweeping
<1>2. Target(p) \in Runs /\ RemovalOK(p)
  BY <1>1, RemovalsAreSound
<1>3. pc'[p] = "emptied"
  BY <1>1 DEF Control, TypeOK, Go
<1>4. PICK t : t = Target(p)
  OBVIOUS
<1>5. Target(p)' = t /\ (Forgiving(p)' <=> Forgiving(p))
  BY <1>1, <1>4, TargetIs
<1>6. disk'[t] = Empty
  BY <1>1, <1>2, <1>4 DEF Control, TypeOK
<1>7. RemovalOK(p)'
  BY <1>1, <1>2, <1>4, <1>5, <1>6 DEF RemovalOK, Over, writing
<1>8. ProcOK(p)'
  BY <1>3, <1>7 DEF ProcOK
<1>9. QED
  BY <1>1, <1>8, RemovalKeepsControl DEF Control, TypeOK

LEMMA RmdirKeepsControl ==
  ASSUME Control, NEW p \in Procs, Rmdir(p)
  PROVE  Control'
<1>1. PICK to \in {"sweeping", "done"} : Go(p, to)
  BY DEF Rmdir
<1>2. /\ pc[p] = "emptied" /\ disk[Target(p)] = Empty /\ NoFault
      /\ disk' = [disk EXCEPT ![Target(p)] = Absent]
      /\ todo' = [todo EXCEPT ![p] = todo[p] \ {Target(p)}]
      /\ UNCHANGED <<cut, owed, driven, writing, book>>
  BY DEF Rmdir
<1>3. pc'[p] = to
  BY <1>1 DEF Control, TypeOK, Go
<1>4. ProcOK(p)'
  BY <1>3 DEF ProcOK
<1>5. todo' \in [Procs -> SUBSET Runs] /\ \A q \in Procs \ {p} : todo'[q] = todo[q]
  <2>1. todo \in [Procs -> SUBSET Runs]
    BY DEF Control, TypeOK
  <2>2. PICK t : todo' = [todo EXCEPT ![p] = todo[p] \ {t}]
    BY <1>2
  <2>3. todo' \in [Procs -> SUBSET Runs]
    BY ONLY <2>1, <2>2
  <2>4. \A q \in Procs \ {p} : todo'[q] = todo[q]
    BY ONLY <2>1, <2>2
  <2>5. QED
    BY <2>3, <2>4
<1>6. disk[Target(p)] # Absent
  BY <1>2 DEF Empty, Absent
<1>7. QED
  BY <1>1, <1>2, <1>4, <1>5, <1>6, RemovalKeepsControl

\* A step of a writer that drives a run: it touches that run alone.
LEMMA DrivingStep ==
  ASSUME Control, NEW w \in Writers, Driving(w), TypeOK', at[w] <= at'[w],
         \A r \in Runs \ {Current(w)} :
           disk'[r] = disk[r] /\ book'[r] = book[r] /\ stream'[r] = stream[r],
         \A v \in Writers \ {w} :
           at'[v] = at[v] /\ latch'[v] = latch[v] /\ pending'[v] = pending[v],
         UNCHANGED sweeping, \A q \in Procs \ {w} : pc'[q] = pc[q],
         pc'[w] \notin {"start", "removing", "emptied"},
         WriterOK(w)',
         NEW r \in Runs, r = Current(w), RunOK(r)'
  PROVE  Control'
<1>1. ~Over(r) /\ r \notin OldRuns
  BY CurrentIsOwn
<1>2. \A v \in Writers : at[v] <= at'[v]
  BY DEF Control, TypeOK
<1>3. \A q : Over(q) => Over(q)'
  BY <1>2, OverStays DEF Control
<1>4. OverLeaves
  BY <1>1 DEF OverLeaves
<1>5. ASSUME NEW v \in Writers PROVE WriterOK(v)'
  <2>1. CASE v = w
    BY <2>1
  <2>2. CASE v # w
    <3>1. WriterOK(v) /\ pc'[v] = pc[v]
      BY <2>2 DEF Control, Procs
    <3>2. \A i \in Steps(v) : Plan[v][i] # r /\ Plan[v][i] \in Runs
      BY <2>2, CurrentIsOwn, PlansAreApart
    <3>3. Driving(v) => Current(v) # r /\ Current(v) \in Runs
      BY <2>2, CurrentIsOwn
    <3>4. QED
      BY <2>2, <3>1, <3>2, <3>3, WriterKept
  <2>3. QED
    BY <2>1, <2>2
<1>6. ASSUME NEW q \in Procs PROVE ProcOK(q)'
  <2>1. CASE q = w
    BY <2>1 DEF ProcOK
  <2>2. CASE q # w
    <3>1. ProcOK(q)
      BY DEF Control
    <3>2. QED
      BY <1>3, <1>4, <2>2, <3>1, ProcKept DEF sweeping
  <2>3. QED
    BY <2>1, <2>2
<1>7. ASSUME NEW q \in Runs PROVE RunOK(q)'
  <2>1. RunOK(q)
    BY DEF Control
  <2>2. QED
    BY <1>3, <2>1, RunKept
<1>8. QED
  BY <1>5, <1>6, <1>7 DEF Control

LEMMA ExtendType ==
  ASSUME NEW log \in Seq(Entry), NEW line \in Entry
  PROVE  Extend(log, line) \in Seq(Entry) /\ Extend(log, line) # <<>>
<1>1. Garbled \in Entry
  BY DEF Entry
<1>2. Append(log, line) \in Seq(Entry) /\ Append(log, line) # <<>>
  BY AppendProperties
<1>3. log # <<>> => Front(log) \in Seq(Entry)
  BY DEF Front
<1>4. log # <<>> => /\ Append(Front(log), Garbled) \in Seq(Entry)
                    /\ Append(Front(log), Garbled) # <<>>
  BY <1>1, <1>3, AppendProperties
<1>5. QED
  BY <1>2, <1>4 DEF Extend

LEMMA DirOfIs ==
  ASSUME Control, NEW r \in Runs
  PROVE  /\ DirOf(r) \in [record : {"none", "torn", "whole"}, log : Seq(Entry)]
         /\ DirOf(r).log = disk[r].log
         /\ DirOf(r).record = "whole" <=> disk[r].record = "whole"
<1>1. disk[r] \in [record : {"absent", "none", "torn", "whole"}, log : Seq(Entry)]
  BY DEF Control, TypeOK
<1>2. disk[r].record = "absent" => disk[r] = Absent
  BY DEF Control, RunOK
<1>3. CASE disk[r] = Absent
  BY <1>1, <1>3 DEF DirOf, Empty, Absent
<1>4. CASE disk[r] # Absent
  BY <1>1, <1>2, <1>4 DEF DirOf
<1>5. QED
  BY <1>3, <1>4

\* A writer files under the run it drives: the latch moves with the run.
LEMMA FiledUnderCurrent ==
  ASSUME Control, NEW w \in Writers, Driving(w)
  PROVE  FiledUnder(w, Current(w)) = Current(w)
BY DEF Control, WriterOK, FiledUnder, Started

LEMMA LineType ==
  ASSUME Control, NEW r \in Runs, Len(stream[r]) < MaxEvents, NEW size \in Sizes
  PROVE  [n |-> Len(stream[r]) + 1, size |-> size] \in Line
<1>1. Len(stream[r]) \in Nat
  BY LenProperties DEF Control, TypeOK
<1>2. QED
  BY <1>1, Numbers DEF Line

\* What an event changes, filed as it is under the run its writer drives.
LEMMA EmitIs ==
  ASSUME Control, NEW w \in Writers, NEW size \in Sizes, Emit(w, size),
         NEW r, r = Current(w),
         NEW line, line = [n |-> Len(stream[r]) + 1, size |-> size],
         NEW sent, sent = [run |-> r, line |-> IF Fits(book[r], size) THEN line ELSE Marker]
  PROVE  /\ pc[w] = "running" /\ Driving(w) /\ Len(stream[r]) < MaxEvents
         /\ stream' = [stream EXCEPT ![r] = Append(stream[r], line)]
         /\ latch' = [latch EXCEPT ![w] = r]
         /\ \/ book[r].stopped /\ UNCHANGED <<pc, book, pending>>
            \/ /\ ~book[r].stopped
               /\ book' = [book EXCEPT ![r] = Counted(book[r], size)]
               /\ pending' = [pending EXCEPT ![w] = sent]
               /\ pc' = [pc EXCEPT ![w] = "appending"]
         /\ UNCHANGED <<disk, sweeping, at>> /\ NoFault
<1>1. pc[w] = "running" /\ Driving(w) /\ Len(stream[r]) < MaxEvents
  BY DEF Emit
<1> DEFINE Sent(u) == [run |-> u, line |-> IF Fits(book[u], size) THEN line ELSE Marker]
           u == FiledUnder(w, r)
<1>2. /\ stream' = [stream EXCEPT ![r] = Append(@, line)]
      /\ latch' = [latch EXCEPT ![w] = u]
      /\ UNCHANGED <<disk, sweeping, at>> /\ NoFault
  BY DEF Emit
<1>3. \/ book[u].stopped /\ UNCHANGED <<pc, book, pending>>
      \/ /\ ~book[u].stopped
         /\ book' = [book EXCEPT ![u] = Counted(book[u], size)]
         /\ pending' = [pending EXCEPT ![w] = Sent(u)]
         /\ pc' = [pc EXCEPT ![w] = "appending"]
  BY DEF Emit, Go
<1>4. u = r
  BY <1>1, FiledUnderCurrent
<1>5. sent = Sent(r)
  OBVIOUS
<1> HIDE DEF Sent, u
<1>6. QED
  BY <1>1, <1>2, <1>3, <1>4, <1>5

LEMMA EmitKeepsControl ==
  ASSUME Control, NEW w \in Writers, NEW size \in Sizes, Emit(w, size)
  PROVE  Control'
<1> DEFINE r == Current(w)
           line == [n |-> Len(stream[r]) + 1, size |-> size]
           sent == [run |-> r, line |-> IF Fits(book[r], size) THEN line ELSE Marker]
           count == Counted(book[r], size)
<1>1. pc[w] = "running" /\ Driving(w) /\ w \in Procs
  BY DEF Emit, Procs
<1>2. r \in Runs /\ r \notin OldRuns /\ r # NoRun
  BY <1>1, CurrentIsOwn, RunsAreNumbers DEF NoRun
<1>3. line \in Line
  BY <1>2, LineType DEF Emit
<1>5. /\ stream' = [stream EXCEPT ![r] = Append(stream[r], line)]
      /\ latch' = [latch EXCEPT ![w] = r]
      /\ \/ UNCHANGED <<pc, book, pending>>
         \/ /\ book' = [book EXCEPT ![r] = count]
            /\ pending' = [pending EXCEPT ![w] = sent]
            /\ pc' = [pc EXCEPT ![w] = "appending"]
      /\ UNCHANGED <<disk, sweeping, at>> /\ NoFault
  <2>1. /\ r = Current(w) /\ line = [n |-> Len(stream[r]) + 1, size |-> size]
        /\ sent = [run |-> r, line |-> IF Fits(book[r], size) THEN line ELSE Marker]
        /\ count = Counted(book[r], size)
    OBVIOUS
  <2> HIDE DEF r, line, sent, count
  <2>2. QED
    BY <2>1, EmitIs
<1>6. count \in [bytes : 0..Cap, stopped : BOOLEAN]
  <2>1. book[r] \in [bytes : 0..Cap, stopped : BOOLEAN]
    BY <1>2 DEF Control, TypeOK
  <2>2. CASE Fits(book[r], size)
    BY <2>1, <2>2, Numbers DEF Fits, Counted
  <2>3. CASE ~Fits(book[r], size)
    BY <2>1, <2>3 DEF Overflow, Counted
  <2>4. QED
    BY <2>2, <2>3
<1>7. sent \in [run : Runs \cup {NoRun}, line : Entry]
  BY <1>2, <1>3 DEF Entry
<1>8. Append(stream[r], line) \in Seq(Line) /\ Append(stream[r], line) # <<>>
  <2>1. stream[r] \in Seq(Line)
    BY <1>2 DEF Control, TypeOK
  <2>2. QED
    BY <1>3, <2>1, AppendProperties
<1> HIDE DEF count, line
<1>9. TypeOK'
  <2>1. stream' \in [Runs -> Seq(Line)]
    BY <1>2, <1>5, <1>8 DEF Control, TypeOK
  <2>2. book' \in [Runs -> [bytes : 0..Cap, stopped : BOOLEAN]]
    BY <1>5, <1>6 DEF Control, TypeOK
  <2>3. pending' \in [Writers -> [run : Runs \cup {NoRun}, line : Entry]]
    <3> HIDE DEF sent
    <3>1. QED
      BY <1>5, <1>7 DEF Control, TypeOK
  <2>4. pc' \in [Procs -> {"start", "sweeping", "removing", "emptied", "running",
                           "appending", "saving", "done", "failed", "crashed"}]
    BY <1>5 DEF Control, TypeOK
  <2>5. latch' \in [Writers -> Runs \cup {NoRun}]
    BY <1>2, <1>5 DEF Control, TypeOK
  <2>6. QED
    BY <1>5, <2>1, <2>2, <2>3, <2>4, <2>5 DEF Control, TypeOK, sweeping, NoFault
<1>10. /\ latch'[w] = r /\ stream'[r] # <<>> /\ at'[w] = at[w] /\ disk'[r] = disk[r]
       /\ Current(w)' = r /\ Driving(w)' /\ Started(w)'
  <2>1. latch'[w] = r /\ stream'[r] # <<>> /\ at'[w] = at[w] /\ disk'[r] = disk[r]
    BY <1>2, <1>5, <1>8 DEF Control, TypeOK
  <2>2. Current(w)' = r /\ Driving(w)'
    BY <1>1, <2>1 DEF Current, Driving
  <2>3. QED
    BY <2>1, <2>2 DEF Started
<1>11. \/ pc'[w] = "running" /\ pending'[w] = pending[w]
       \/ pc'[w] = "appending" /\ pending'[w].run = r
  <2>1. CASE UNCHANGED <<pc, book, pending>>
    BY <1>1, <2>1
  <2>2. CASE /\ pending' = [pending EXCEPT ![w] = sent]
             /\ pc' = [pc EXCEPT ![w] = "appending"]
    BY <1>1, <2>2 DEF Control, TypeOK
  <2>3. QED
    BY <1>5, <2>1, <2>2
<1>12. WriterOK(w)'
  <2>1. WriterOK(w)
    BY DEF Control
  <2>2. \A i \in Steps(w) : i > at[w] => stream'[Plan[w][i]] = stream[Plan[w][i]]
    <3>1. at[w] \in Steps(w) /\ at[w] \in Nat
      BY <1>1, CurrentIsOwn DEF Control, TypeOK
    <3>2. ASSUME NEW i \in Steps(w), i > at[w] PROVE Plan[w][i] # r
      BY <3>1, <3>2, PlansAreApart, PlansAreFinite DEF Current, Steps
    <3>3. QED
      BY <1>5, <3>2, PlansAreApart DEF Control, TypeOK
  <2> HIDE DEF r
  <2>3. QED
    BY <1>1, <1>10, <1>11, <2>1, <2>2 DEF WriterOK
<1>13. ASSUME NEW q \in Runs, q = r PROVE RunOK(q)'
  <2>1. RunOK(q) /\ disk'[q] = disk[q] /\ stream'[q] # <<>> /\ at' = at
    BY <1>5, <1>10, <1>13 DEF Control
  <2>2. QED
    BY <1>2, <1>13, <2>1 DEF RunOK, Over
<1>14. /\ \A q \in Runs \ {r} :
            disk'[q] = disk[q] /\ book'[q] = book[q] /\ stream'[q] = stream[q]
       /\ \A v \in Writers \ {w} :
            at'[v] = at[v] /\ latch'[v] = latch[v] /\ pending'[v] = pending[v]
       /\ \A q \in Procs \ {w} : pc'[q] = pc[q]
  BY <1>5 DEF Control, TypeOK
<1>15. at[w] <= at'[w]
  BY <1>10 DEF Control, TypeOK
<1>16. QED
  BY <1>1, <1>2, <1>5, <1>9, <1>11, <1>12, <1>13, <1>14, <1>15, DrivingStep

Written(r, part) ==
  disk' = [disk EXCEPT ![r] = [DirOf(r) EXCEPT !.log = Extend(disk[r].log, part)]]

\* The end of an append, with the line written, or a part of it, or nothing.
Appended(w, to) ==
  /\ pc[w] = "appending"
  /\ \/ Written(Current(w), pending[w].line) /\ NoFault
     \/ (Written(Current(w), Fragment) \/ UNCHANGED disk) /\ Fault({Current(w)})
  /\ pending' = [pending EXCEPT ![w] = Nothing]
  /\ Go(w, to)
  /\ UNCHANGED <<sweeping, at, latch, book, stream>>

LEMMA AppendingIsDriving ==
  ASSUME Control, NEW w \in Writers, pc[w] = "appending"
  PROVE  /\ Started(w) /\ Driving(w) /\ pending[w].run = Current(w)
         /\ Current(w) \in Runs /\ ~Over(Current(w)) /\ pending[w].line \in Entry
         /\ w \in Procs
<1>1. Started(w) /\ Driving(w) /\ pending[w].run = Current(w)
  BY DEF Control, WriterOK, Started
<1>2. QED
  BY <1>1, CurrentIsOwn DEF Control, TypeOK, Procs

LEMMA AppendsAre ==
  ASSUME Control, NEW w \in Writers
  PROVE  /\ AppendLine(w) => Appended(w, "running")
         /\ \A to : AppendFails(w, to) => Appended(w, to)
<1>1. ASSUME pc[w] = "appending"
      PROVE  /\ pending[w].run = Current(w) /\ DirOf(Current(w)).log = disk[Current(w)].log
  BY <1>1, AppendingIsDriving, DirOfIs
<1>2. ASSUME AppendLine(w) PROVE Appended(w, "running")
  <2>1. PICK r : r = pending[w].run
    OBVIOUS
  <2>2. PICK line : line = pending[w].line
    OBVIOUS
  <2>3. disk' = [disk EXCEPT ![r] = [DirOf(r) EXCEPT !.log = Extend(DirOf(r).log, line)]]
    BY <1>2, <2>1, <2>2 DEF AppendLine
  <2>4. r = Current(w) /\ DirOf(r).log = disk[r].log
    BY <1>1, <1>2, <2>1 DEF AppendLine
  <2>5. Written(r, line)
    BY <2>3, <2>4 DEF Written
  <2>6. QED
    BY <1>2, <2>2, <2>4, <2>5 DEF AppendLine, Appended
<1>3. ASSUME NEW to, AppendFails(w, to) PROVE Appended(w, to)
  <2>1. PICK r : r = pending[w].run
    OBVIOUS
  <2>2. \/ UNCHANGED disk
        \/ disk' = [disk EXCEPT ![r] = [DirOf(r) EXCEPT !.log = Extend(DirOf(r).log, Fragment)]]
    BY <1>3, <2>1 DEF AppendFails
  <2>3. r = Current(w) /\ DirOf(r).log = disk[r].log
    BY <1>1, <1>3, <2>1 DEF AppendFails
  <2>4. UNCHANGED disk \/ Written(r, Fragment)
    BY <2>2, <2>3 DEF Written
  <2>5. Fault({r})
    BY <1>3, <2>1 DEF AppendFails
  <2>6. QED
    BY <1>3, <2>3, <2>4, <2>5 DEF AppendFails, Appended
<1>4. QED
  BY <1>2, <1>3

LEMMA AppendedKeepsControl ==
  ASSUME Control, NEW w \in Writers, NEW to \in {"running", "crashed"}, Appended(w, to)
  PROVE  Control'
<1> DEFINE r == Current(w)
<1>1. /\ Started(w) /\ Driving(w) /\ r \in Runs /\ ~Over(r) /\ r \notin OldRuns
      /\ w \in Procs /\ pc[w] = "appending"
  BY AppendingIsDriving, CurrentIsOwn DEF Appended
<1> HIDE DEF r
<1>2. /\ \/ UNCHANGED disk
         \/ \E line \in Entry : Written(r, line)
      /\ pending' = [pending EXCEPT ![w] = Nothing]
      /\ NoFault \/ Fault({r})
      /\ pc' = [pc EXCEPT ![w] = to]
      /\ UNCHANGED <<sweeping, at, latch, book, stream>>
  BY AppendingIsDriving, Kinds DEF Appended, Go, r
<1>3. disk \in [Runs -> [record : {"absent", "none", "torn", "whole"}, log : Seq(Entry)]]
  BY DEF Control, TypeOK
<1>4. /\ disk' \in [Runs -> [record : {"absent", "none", "torn", "whole"}, log : Seq(Entry)]]
      /\ disk'[r] = disk[r] \/ disk'[r].record \in {"none", "torn"}
      /\ \A q \in Runs \ {r} : disk'[q] = disk[q]
  <2>1. CASE UNCHANGED disk
    BY <1>3, <2>1
  <2>2. ASSUME NEW line \in Entry, Written(r, line)
        PROVE  <1>4!1 /\ <1>4!2 /\ <1>4!3
    <3>1. Extend(disk[r].log, line) \in Seq(Entry)
      BY <1>1, <1>3, ExtendType
    <3>2. /\ DirOf(r) \in [record : {"none", "torn", "whole"}, log : Seq(Entry)]
          /\ DirOf(r).record # "whole"
      BY <1>1, DirOfIs DEF Control, RunOK
    <3>3. PICK dir : dir = [DirOf(r) EXCEPT !.log = Extend(disk[r].log, line)]
      OBVIOUS
    <3>4. dir \in [record : {"none", "torn"}, log : Seq(Entry)]
      BY <3>1, <3>2, <3>3
    <3>5. disk' = [disk EXCEPT ![r] = dir]
      BY <2>2, <3>3 DEF Written
    <3>6. QED
      BY <1>1, <1>3, <3>4, <3>5
  <2>3. QED
    BY <1>2, <2>1, <2>2
<1>5. TypeOK'
  <2>1. pc' \in [Procs -> {"start", "sweeping", "removing", "emptied", "running",
                           "appending", "saving", "done", "failed", "crashed"}]
    BY <1>2 DEF Control, TypeOK
  <2>2. pending' \in [Writers -> [run : Runs \cup {NoRun}, line : Entry]]
    <3>1. Nothing \in [run : Runs \cup {NoRun}, line : Entry]
      BY DEF Nothing, Entry
    <3>2. QED
      BY <1>2, <3>1 DEF Control, TypeOK
  <2>3. damaged' \subseteq Runs /\ faults' \in 0..MaxFaults
    BY <1>1, <1>2, FaultType DEF Control
  <2>4. QED
    BY <1>2, <1>4, <2>1, <2>2, <2>3 DEF Control, TypeOK, sweeping
<1>6. pc'[w] = to /\ pending'[w] = Nothing
  BY <1>1, <1>2 DEF Control, TypeOK
<1>7. WriterOK(w)'
  <2>1. WriterOK(w)
    BY DEF Control
  <2>2. UNCHANGED <<at, latch, stream>>
    BY <1>2
  <2>3. Started(w)' /\ Current(w)' = Current(w)
    BY <1>1, <2>2 DEF Started, Driving, Current
  <2>4. QED
    BY <1>1, <1>6, <2>1, <2>2, <2>3 DEF WriterOK
<1>8. ASSUME NEW q \in Runs, q = r PROVE RunOK(q)'
  <2>1. RunOK(q) /\ stream[q] # <<>> /\ UNCHANGED <<at, stream, book>>
    BY <1>1, <1>2, <1>8 DEF Control, Started, r
  <2>2. disk'[q] = disk[q] \/ disk'[q].record \in {"none", "torn"}
    BY <1>4, <1>8
  <2>3. QED
    BY <1>1, <1>8, <2>1, <2>2 DEF RunOK, Over
<1>9. /\ \A v \in Writers \ {w} :
           at'[v] = at[v] /\ latch'[v] = latch[v] /\ pending'[v] = pending[v]
      /\ \A q \in Procs \ {w} : pc'[q] = pc[q]
  BY <1>2 DEF Control, TypeOK
<1>10. at[w] <= at'[w]
  BY <1>2 DEF Control, TypeOK
<1>11. \A q \in Runs \ {r} :
         disk'[q] = disk[q] /\ book'[q] = book[q] /\ stream'[q] = stream[q]
  BY <1>2, <1>4
<1>12. QED
  BY <1>1, <1>2, <1>5, <1>6, <1>7, <1>8, <1>9, <1>10, <1>11, DrivingStep DEF r

\* A writer that goes on to its next run, with the record saved or not.
LEMMA NextRunKeepsControl ==
  ASSUME Control, NEW w \in Writers, Driving(w), pc[w] \in {"running", "saving"},
         NextRun(w), NoFault \/ Fault({Current(w)}),
         \/ UNCHANGED disk
         \/ disk' = [disk EXCEPT ![Current(w)] =
                       [DirOf(Current(w)) EXCEPT !.record = "whole"]],
         Started(w)
  PROVE  Control'
<1> DEFINE r == Current(w)
<1>1. /\ r \in Runs /\ r \notin OldRuns /\ w \in Procs
      /\ at[w] \in Steps(w) /\ stream[r] # <<>>
  BY CurrentIsOwn DEF Procs, Started
<1>2. /\ at' = [at EXCEPT ![w] = at[w] + 1] /\ pc' = [pc EXCEPT ![w] = "running"]
      /\ UNCHANGED <<sweeping, latch, book, pending, stream>>
  BY DEF NextRun, Go
<1>3. at \in [Writers -> Nat]
  BY DEF Control, TypeOK
<1>4. at'[w] = at[w] + 1 /\ at'[w] \in Nat /\ \A v \in Writers \ {w} : at'[v] = at[v]
  BY <1>2, <1>3
<1>5. ASSUME NEW q, q = r PROVE Over(q)'
  <2>1. at[w] < at'[w] /\ Plan[w][at[w]] = q
    BY <1>3, <1>4, <1>5 DEF Current
  <2>2. \E v \in Writers : \E i \in Steps(v) : i < at'[v] /\ Plan[v][i] = q
    BY <1>1, <2>1
  <2>3. QED
    BY <2>2 DEF Over
<1>6. /\ disk' \in [Runs -> [record : {"absent", "none", "torn", "whole"}, log : Seq(Entry)]]
      /\ disk'[r] = disk[r] \/ disk'[r].record = "whole"
      /\ \A q \in Runs \ {r} : disk'[q] = disk[q]
  <2>1. disk \in [Runs -> [record : {"absent", "none", "torn", "whole"}, log : Seq(Entry)]]
    BY DEF Control, TypeOK
  <2>2. CASE UNCHANGED disk
    BY <2>1, <2>2
  <2>3. CASE disk' = [disk EXCEPT ![r] = [DirOf(r) EXCEPT !.record = "whole"]]
    <3>1. DirOf(r) \in [record : {"none", "torn", "whole"}, log : Seq(Entry)]
      BY <1>1, DirOfIs
    <3>2. PICK dir : dir = [DirOf(r) EXCEPT !.record = "whole"]
      OBVIOUS
    <3>3. dir \in [record : {"whole"}, log : Seq(Entry)]
      BY <3>1, <3>2
    <3>4. disk' = [disk EXCEPT ![r] = dir]
      BY <2>3, <3>2
    <3>5. QED
      BY <1>1, <2>1, <3>3, <3>4
  <2>4. QED
    BY <2>2, <2>3
<1>7. TypeOK'
  <2>1. pc' \in [Procs -> {"start", "sweeping", "removing", "emptied", "running",
                           "appending", "saving", "done", "failed", "crashed"}]
    BY <1>2 DEF Control, TypeOK
  <2>2. at' \in [Writers -> Nat]
    BY <1>2, <1>3
  <2>3. damaged' \subseteq Runs /\ faults' \in 0..MaxFaults
    BY <1>1, FaultType DEF Control
  <2>4. QED
    BY <1>2, <1>6, <2>1, <2>2, <2>3 DEF Control, TypeOK, sweeping
<1>8. pc'[w] = "running"
  BY <1>1, <1>2 DEF Control, TypeOK
<1>9. WriterOK(w)'
  <2>1. WriterOK(w) /\ UNCHANGED <<stream, latch, pending>>
    BY <1>2 DEF Control
  <2>2. pending[w] = Nothing
    BY <2>1 DEF WriterOK
  <2>3. at'[w] \in 1..Len(Plan[w]) + 1
    BY <1>1, <1>3, <1>4, PlansAreFinite DEF Steps
  <2>4. \A i \in Steps(w) : i >= at'[w] => stream'[Plan[w][i]] = <<>>
    BY <1>3, <1>4, <2>1, PlansAreFinite DEF WriterOK, Steps
  <2>5. ~Started(w)'
    BY <2>4, <1>4 DEF Started, Driving, Current, Steps
  <2>6. \A i \in Steps(w) : i > at'[w] => stream'[Plan[w][i]] = <<>>
    BY <1>4, <2>4 DEF Steps
  <2>7. QED
    BY <1>8, <2>1, <2>2, <2>3, <2>5, <2>6 DEF WriterOK
<1>10. ASSUME NEW q \in Runs, q = r PROVE RunOK(q)'
  <2>1. RunOK(q) /\ stream'[q] # <<>>
    BY <1>1, <1>2, <1>10 DEF Control
  <2>2. disk'[q] = disk[q] \/ disk'[q].record = "whole"
    BY <1>6, <1>10
  <2>3. Over(q)'
    BY <1>5, <1>10
  <2>4. QED
    BY <1>1, <1>10, <2>1, <2>2, <2>3 DEF RunOK
<1>11. /\ \A v \in Writers \ {w} :
            at'[v] = at[v] /\ latch'[v] = latch[v] /\ pending'[v] = pending[v]
       /\ \A q \in Procs \ {w} : pc'[q] = pc[q]
  BY <1>2, <1>4 DEF Control, TypeOK
<1>12. at[w] <= at'[w]
  BY <1>3, <1>4
<1>13. \A q \in Runs \ {r} :
         disk'[q] = disk[q] /\ book'[q] = book[q] /\ stream'[q] = stream[q]
  BY <1>2, <1>6
<1>14. QED
  BY <1>1, <1>2, <1>7, <1>8, <1>9, <1>10, <1>11, <1>12, <1>13, DrivingStep

LEMMA OpenRecordKeepsControl ==
  ASSUME Control, NEW w \in Writers, OpenRecord(w)
  PROVE  Control'
<1> DEFINE r == Current(w)
<1>1. /\ Driving(w) /\ Started(w) /\ r \in Runs /\ r \notin OldRuns /\ w \in Procs
      /\ stream[r] # <<>> /\ pc[w] = "running" /\ r \in Kept
  BY CurrentIsOwn DEF Procs, Started, OpenRecord
<1>2. /\ disk' = [disk EXCEPT ![r] = [DirOf(r) EXCEPT !.record = "torn"]]
      /\ pc' = [pc EXCEPT ![w] = "saving"] /\ NoFault
      /\ UNCHANGED <<sweeping, at, latch, pending, stream, book>>
  BY DEF OpenRecord, writing, Go
<1>3. /\ disk' \in [Runs -> [record : {"absent", "none", "torn", "whole"}, log : Seq(Entry)]]
      /\ disk'[r].record = "torn"
      /\ \A q \in Runs \ {r} : disk'[q] = disk[q]
  <2>1. disk \in [Runs -> [record : {"absent", "none", "torn", "whole"}, log : Seq(Entry)]]
    BY DEF Control, TypeOK
  <2>2. DirOf(r) \in [record : {"none", "torn", "whole"}, log : Seq(Entry)]
    BY <1>1, DirOfIs
  <2>3. PICK dir : dir = [DirOf(r) EXCEPT !.record = "torn"]
    OBVIOUS
  <2>4. dir \in [record : {"torn"}, log : Seq(Entry)]
    BY <2>2, <2>3
  <2>5. disk' = [disk EXCEPT ![r] = dir]
    BY <1>2, <2>3
  <2>6. QED
    BY <1>1, <2>1, <2>4, <2>5
<1>4. TypeOK'
  <2>1. pc' \in [Procs -> {"start", "sweeping", "removing", "emptied", "running",
                           "appending", "saving", "done", "failed", "crashed"}]
    BY <1>2 DEF Control, TypeOK
  <2>2. QED
    BY <1>2, <1>3, <2>1 DEF Control, TypeOK, sweeping, NoFault
<1>5. pc'[w] = "saving"
  BY <1>1, <1>2 DEF Control, TypeOK
<1>6. WriterOK(w)'
  <2>1. WriterOK(w) /\ UNCHANGED <<at, latch, pending, stream>>
    BY <1>2 DEF Control
  <2>2. Started(w)' /\ Current(w)' = r
    BY <1>1, <2>1 DEF Started, Driving, Current
  <2>3. disk'[Current(w)'].record = "torn"
    BY <1>3, <2>2
  <2> HIDE DEF r
  <2>4. QED
    BY <1>1, <1>5, <2>1, <2>2, <2>3 DEF WriterOK, r
<1>7. ASSUME NEW q \in Runs, q = r PROVE RunOK(q)'
  <2>1. RunOK(q) /\ stream'[q] # <<>> /\ disk'[q].record = "torn"
    BY <1>1, <1>2, <1>3, <1>7 DEF Control
  <2>2. QED
    BY <1>1, <1>7, <2>1 DEF RunOK
<1>8. /\ \A v \in Writers \ {w} :
           at'[v] = at[v] /\ latch'[v] = latch[v] /\ pending'[v] = pending[v]
      /\ \A q \in Procs \ {w} : pc'[q] = pc[q]
  BY <1>2 DEF Control, TypeOK
<1>9. at[w] <= at'[w]
  BY <1>2 DEF Control, TypeOK
<1>10. \A q \in Runs \ {r} :
         disk'[q] = disk[q] /\ book'[q] = book[q] /\ stream'[q] = stream[q]
  BY <1>2, <1>3
<1>11. QED
  BY <1>1, <1>2, <1>4, <1>5, <1>6, <1>7, <1>8, <1>9, <1>10, DrivingStep

\* The steps, by who takes them, with an append that was cut short and the
\* other ends of a command told apart.
Takes(p) ==
  \/ \E c \in Past : List(p, c)
  \/ Visit(p) \/ Unlink(p) \/ Rmdir(p)
  \/ SweepEnds(p) \/ AlreadyGone(p) \/ RemoveRefused(p) \/ Falls(p)

Leaves(p) ==
  \/ p \in Keepers /\ Query(p)
  \/ p \in Writers /\ (WriterEnds(p) \/ SinkRefuses(p))

Goes(w) ==
  \/ \E size \in Sizes : Emit(w, size)
  \/ Appended(w, "running") \/ Appended(w, "crashed")
  \/ RunEndsUnrecorded(w) \/ OpenRecord(w) \/ FillRecord(w) \/ SaveFails(w)

LEMMA StepsAre ==
  ASSUME Control, Next
  PROVE  \/ \E p \in Procs : Takes(p) \/ Leaves(p)
         \/ \E w \in Writers : Goes(w)
         \/ \E k \in Keepers, r \in Runs : Rm(k, r)
<1>1. ASSUME NEW p \in Procs, SweepStep(p) PROVE Takes(p) \/ (p \in Writers /\ Goes(p))
  <2>1. CASE Crash(p)
    BY <2>1, CrashIs, AppendsAre DEF Takes, Goes
  <2>2. CASE ~Crash(p)
    BY <1>1, <2>2 DEF SweepStep, Takes
  <2>3. QED
    BY <2>1, <2>2
<1>2. ASSUME NEW w \in Writers, WriterStep(w) PROVE Goes(w) \/ Leaves(w)
  <2>1. AppendLine(w) => Goes(w)
    BY AppendsAre DEF Goes
  <2>2. AppendFails(w, "running") => Goes(w)
    BY AppendsAre DEF Goes
  <2>3. QED
    BY <1>2, <2>1, <2>2 DEF WriterStep, Goes, Leaves
<1>3. ASSUME NEW k \in Keepers, Query(k) PROVE k \in Procs /\ Leaves(k)
  BY <1>3, Apart DEF Leaves
<1>4. QED
  BY <1>1, <1>2, <1>3, Apart DEF Next

LEMMA GoesKeepsControl ==
  ASSUME Control, NEW w \in Writers, Goes(w)
  PROVE  Control'
<1>1. CASE RunEndsUnrecorded(w)
  <2>1. pc[w] = "running" /\ Started(w) /\ Driving(w)
    BY <1>1 DEF RunEndsUnrecorded, Started
  <2>2. QED
    BY <1>1, <2>1, NextRunKeepsControl DEF RunEndsUnrecorded
<1>2. CASE FillRecord(w)
  <2>1. pc[w] = "saving" /\ Started(w) /\ Driving(w)
    BY <1>2 DEF FillRecord, Started, Control, WriterOK
  <2>2. QED
    BY <1>2, <2>1, NextRunKeepsControl DEF FillRecord
<1>3. CASE SaveFails(w)
  <2>1. pc[w] \in {"running", "saving"} /\ Started(w) /\ Driving(w)
    BY <1>3 DEF SaveFails, Started, Control, WriterOK
  <2>2. QED
    BY <1>3, <2>1, NextRunKeepsControl DEF SaveFails
<1>4. QED
  BY <1>1, <1>2, <1>3, EmitKeepsControl, AppendedKeepsControl, OpenRecordKeepsControl
     DEF Goes

LEMMA ControlIsInductive == Control /\ [Next]_vars => Control'
<1> SUFFICES ASSUME Control, [Next]_vars PROVE Control'
  OBVIOUS
<1>1. CASE UNCHANGED vars
  <2>1. /\ TypeOK' /\ OverLeaves /\ \A r : Over(r) => Over(r)'
        /\ UNCHANGED <<disk, pc, todo, cut, owed, at, latch, book, pending, stream>>
    BY <1>1 DEF vars, Control, TypeOK, OverLeaves, Over
  <2>2. \A w \in Writers : WriterOK(w)'
    BY <2>1, WriterKept DEF Control
  <2>3. \A p \in Procs : ProcOK(p)'
    BY <2>1, ProcKept DEF Control
  <2>4. \A r \in Runs : RunOK(r)'
    BY <2>1, RunKept DEF Control
  <2>5. QED
    BY <2>1, <2>2, <2>3, <2>4 DEF Control
<1>2. CASE Next
  <2>1. ASSUME NEW p \in Procs, Takes(p) \/ Leaves(p) PROVE Control'
    BY <2>1, ListKeepsControl, VisitKeepsControl, UnlinkKeepsControl, RmdirKeepsControl,
       LeavingKeepsControl, FallingKeepsControl DEF Takes, Leaves
  <2>2. QED
    BY <1>2, <2>1, StepsAre, GoesKeepsControl, RmKeepsControl
<1>3. QED
  BY <1>1, <1>2

LEMMA Controlled == Spec => []Control
<1>1. QED
  BY StartsInControl, ControlIsInductive, PTL DEF Spec

\* The types of the variables, for any number of processes, runs and faults.
THEOREM TypeCorrect == Spec => []TypeOK
<1>1. Control => TypeOK
  BY DEF Control
<1>2. QED
  BY <1>1, Controlled, PTL

-----------------------------------------------------------------------------
(* What leaves the store.                                                  *)

Due(r) ==
  /\ disk[r].record = "whole" /\ Over(r)
  /\ \E p \in Procs : r < cut[p] \/ owed[p] = {r}

Taken(r) == disk'[r] \in {Absent, Empty} /\ disk'[r] # disk[r] /\ disk[r] # Empty

\* A writer takes nothing away: it appends, and opens and fills records.
LEMMA WritersTakeNothing ==
  ASSUME Control, NEW w \in Writers, Goes(w), NEW r \in Runs
  PROVE  disk'[r] \in {Absent, Empty} => disk'[r] = disk[r]
<1>1. disk \in [Runs -> [record : {"absent", "none", "torn", "whole"}, log : Seq(Entry)]]
  BY DEF Control, TypeOK
<1>2. CASE UNCHANGED disk
  BY <1>2
<1>3. ASSUME NEW to, Appended(w, to), ~UNCHANGED disk PROVE disk'[r] \in {Absent, Empty} => disk'[r] = disk[r]
  <2>0. PICK q : q = Current(w)
    OBVIOUS
  <2>1. q \in Runs
    BY <1>3, <2>0, AppendingIsDriving DEF Appended
  <2>2. PICK line \in Entry : Written(q, line)
    BY <1>3, <2>0, AppendingIsDriving, Kinds DEF Appended
  <2>3. Extend(disk[q].log, line) # <<>>
    BY <1>1, <2>1, ExtendType
  <2>4. PICK dir : dir = [DirOf(q) EXCEPT !.log = Extend(disk[q].log, line)]
    OBVIOUS
  <2>5. dir \notin {Absent, Empty}
    <3>1. dir.log = Extend(disk[q].log, line)
      BY <2>1, <2>4, DirOfIs
    <3>2. QED
      BY <2>3, <3>1 DEF Absent, Empty
  <2>6. disk' = [disk EXCEPT ![q] = dir]
    BY <2>2, <2>4 DEF Written
  <2>7. QED
    BY <1>1, <2>1, <2>5, <2>6 DEF Taken
<1>4. ASSUME NEW q \in Runs, NEW rec \in {"torn", "whole"},
             disk' = [disk EXCEPT ![q] = [DirOf(q) EXCEPT !.record = rec]]
      PROVE  disk'[r] \in {Absent, Empty} => disk'[r] = disk[r]
  <2>1. PICK dir : dir = [DirOf(q) EXCEPT !.record = rec]
    OBVIOUS
  <2>2. dir.record = rec
    BY <2>1, DirOfIs
  <2>3. dir \notin {Absent, Empty}
    BY <2>2 DEF Absent, Empty
  <2>4. disk' = [disk EXCEPT ![q] = dir]
    BY <1>4, <2>1
  <2>5. QED
    BY <1>1, <2>3, <2>4 DEF Taken
<1>5. CASE OpenRecord(w)
  <2>1. Driving(w) /\ disk' = [disk EXCEPT ![Current(w)] =
                               [DirOf(Current(w)) EXCEPT !.record = "torn"]]
    BY <1>5 DEF OpenRecord, Started
  <2>2. QED
    BY <1>4, <2>1, CurrentIsOwn
<1>6. CASE FillRecord(w)
  <2>1. Driving(w) /\ disk' = [disk EXCEPT ![Current(w)] =
                               [DirOf(Current(w)) EXCEPT !.record = "whole"]]
    BY <1>6 DEF FillRecord, Started, Control, WriterOK
  <2>2. QED
    BY <1>4, <2>1, CurrentIsOwn
<1>7. UNCHANGED disk \/ (\E to : Appended(w, to)) \/ OpenRecord(w) \/ FillRecord(w)
  BY DEF Goes, Emit, RunEndsUnrecorded, SaveFails
<1>8. QED
  BY <1>2, <1>3, <1>5, <1>6, <1>7

\* What a step takes away was whole, over, and due.
LEMMA WhatIsTakenIsDue ==
  ASSUME Control, Next, NEW r \in Present, Taken(r)
  PROVE  Due(r)
<1>0. r \in Runs /\ disk[r] # Absent
  BY DEF Present
<1>1. ASSUME NEW p \in Procs, Unlink(p) \/ Rmdir(p) PROVE Due(r)
  <2>1. PICK t : t = Target(p)
    OBVIOUS
  <2>2. pc[p] \in {"removing", "emptied"} /\ \E dir : disk' = [disk EXCEPT ![t] = dir]
    BY <1>1, <2>1 DEF Unlink, Rmdir
  <2>3. r = t
    BY <1>0, <2>2 DEF Taken, Control, TypeOK
  <2>4. RemovalOK(p)
    BY <2>2, RemovalsAreSound
  <2>5. QED
    BY <1>0, <2>1, <2>3, <2>4 DEF RemovalOK, Due, Taken
<1>2. ASSUME UNCHANGED disk PROVE FALSE
  BY <1>2 DEF Taken
<1>3. ASSUME NEW p \in Procs, Takes(p) \/ Leaves(p)
      PROVE  UNCHANGED disk \/ Unlink(p) \/ Rmdir(p)
  BY <1>3 DEF Takes, Leaves, List, Visit, SweepEnds, AlreadyGone, SweepFails, RemoveRefused,
     Falls, Query, WriterEnds, SinkRefuses
<1>4. ASSUME NEW k \in Keepers, NEW q \in Runs, Rm(k, q) PROVE UNCHANGED disk
  BY <1>4 DEF Rm
<1>5. QED
  BY <1>0, <1>1, <1>2, <1>3, <1>4, StepsAre, WritersTakeNothing DEF Taken

\* What leaves the store is a whole record that is due, and never the directory
\* of a run a command is still driving, whatever fails meanwhile (sweep,
\* remove_dir_all, require_record).
THEOREM NoDrivenRunLeaves == Spec => OnlyAgedRunsLeave
<1> DEFINE Leaving ==
      \A r \in Present : disk'[r] \in {Absent, Empty} /\ disk'[r] # disk[r]
                            /\ disk[r] # Empty =>
         /\ disk[r].record = "whole"
         /\ \E p \in Procs : r < cut[p] \/ owed[p] = {r}
         /\ \A w \in Writers : pc[w] \notin {"failed", "crashed"} /\ Driving(w)
                                 => Current(w) # r
<1>1. Control /\ [Next]_vars => [Leaving]_vars
  <2> SUFFICES ASSUME Control, Next, NEW r \in Present, Taken(r)
               PROVE  /\ disk[r].record = "whole"
                      /\ \E p \in Procs : r < cut[p] \/ owed[p] = {r}
                      /\ \A w \in Writers : Driving(w) => Current(w) # r
    BY DEF Taken
  <2>1. Due(r)
    BY WhatIsTakenIsDue
  <2>2. QED
    BY <2>1, CurrentIsOwn DEF Due
<1>2. QED
  BY <1>1, Controlled, PTL DEF Spec, OnlyAgedRunsLeave

-----------------------------------------------------------------------------
(* Lines that are added to a log.                                          *)

LEMMA BytesType == \A log \in Seq(Entry) : Bytes(log) \in Nat
<1> SUFFICES ASSUME NEW log \in Seq(Entry) PROVE Bytes(log) \in Nat
  OBVIOUS
<1>1. PICK sum : Sums(log, sum) /\ Bytes(log) = sum[Len(log)]
  BY BytesAreSums
<1>2. Len(log) \in 0..Len(log)
  BY LenProperties
<1>3. QED
  BY <1>1, <1>2 DEF Sums

LEMMA BytesOfEmpty == Bytes(<<>>) = 0
<1>1. <<>> \in Seq(Entry) /\ Len(<<>>) = 0
  BY EmptySeq
<1>2. PICK sum : Sums(<<>>, sum) /\ Bytes(<<>>) = sum[Len(<<>>)]
  BY <1>1, BytesAreSums
<1>3. QED
  BY <1>1, <1>2 DEF Sums

LEMMA BytesOfAppend ==
  ASSUME NEW log \in Seq(Entry), NEW line \in Entry
  PROVE  Bytes(Append(log, line)) = Bytes(log) + Weight(line)
<1> DEFINE longer == Append(log, line)
<1>1. /\ longer \in Seq(Entry) /\ Len(longer) = Len(log) + 1 /\ Len(log) \in Nat
      /\ longer[Len(log) + 1] = line /\ \A i \in 1..Len(log) : log[i] = longer[i]
  BY AppendProperties, LenProperties
<1>2. PICK f : Sums(log, f) /\ Bytes(log) = f[Len(log)]
  BY BytesAreSums
<1>3. PICK g : Sums(longer, g) /\ Bytes(longer) = g[Len(longer)]
  BY <1>1, BytesAreSums
<1> HIDE DEF longer
<1>4. f[Len(log)] = g[Len(log)]
  <2>1. Len(log) <= Len(log) /\ Len(log) <= Len(longer)
    BY <1>1
  <2>2. QED
    BY <1>1, <1>2, <1>3, <2>1, SumsAgree
<1>5. g[Len(log) + 1] = g[Len(log)] + Weight(longer[Len(log) + 1])
  <2>1. Len(log) + 1 \in 1..Len(longer) /\ (Len(log) + 1) - 1 = Len(log)
    BY <1>1
  <2>2. QED
    BY <1>3, <2>1 DEF Sums
<1>6. QED
  BY <1>1, <1>2, <1>3, <1>4, <1>5 DEF longer

LEMMA BytesOfFront ==
  ASSUME NEW log \in Seq(Entry), log # <<>>
  PROVE  /\ Front(log) \in Seq(Entry) /\ Len(Front(log)) + 1 = Len(log)
         /\ \A i \in 1..Len(log) - 1 : Front(log)[i] = log[i]
         /\ Bytes(log) = Bytes(Front(log)) + Weight(Last(log))
<1>1. Len(log) \in Nat /\ Len(log) # 0
  BY LenProperties, EmptySeq
<1>2. /\ Front(log) \in Seq(Entry) /\ Len(Front(log)) = Len(log) - 1
      /\ \A i \in 1..Len(log) - 1 : Front(log)[i] = log[i]
  <2>1. \A i \in 1..Len(log) - 1 : log[i] \in Entry
    BY <1>1, ElementOfSeq
  <2>2. \A i \in 1..Len(log) - 1 : i \in 1..(Len(log) - 1) - 1 + 1 /\ 1 + i - 1 = i
    BY <1>1
  <2>3. (Len(log) - 1) - 1 + 1 = Len(log) - 1
    BY <1>1
  <2>4. /\ SubSeq(log, 1, Len(log) - 1) \in Seq(Entry)
        /\ Len(SubSeq(log, 1, Len(log) - 1)) =
             IF 1 <= Len(log) - 1 THEN (Len(log) - 1) - 1 + 1 ELSE 0
        /\ \A i \in 1..(Len(log) - 1) - 1 + 1 :
             SubSeq(log, 1, Len(log) - 1)[i] = log[1 + i - 1]
    BY <2>1, SubSeqProperties
  <2>5. QED
    BY <1>1, <2>2, <2>3, <2>4 DEF Front
<1>3. Last(log) \in Entry
  BY <1>1, ElementOfSeq DEF Last
<1>4. log = Append(Front(log), Last(log))
  <2>1. /\ Append(Front(log), Last(log)) \in Seq(Entry)
        /\ Len(Append(Front(log), Last(log))) = Len(log)
        /\ \A i \in 1..Len(log) : Append(Front(log), Last(log))[i] = log[i]
    BY <1>1, <1>2, <1>3, AppendProperties DEF Last
  <2>2. QED
    BY <2>1, SeqEqual
<1>5. Bytes(log) = Bytes(Front(log)) + Weight(Last(log))
  <2>1. Bytes(Append(Front(log), Last(log))) = Bytes(Front(log)) + Weight(Last(log))
    BY <1>2, <1>3, BytesOfAppend
  <2>2. QED
    BY <1>4, <2>1
<1>6. QED
  BY <1>1, <1>2, <1>5

\* The line ends up last, on its own or garbled with what stood there.
LEMMA ExtendIs ==
  ASSUME NEW log \in Seq(Entry), NEW line \in Entry
  PROVE  /\ Extend(log, line) \in Seq(Entry)
         /\ Len(Extend(log, line)) \in Nat \ {0}
         /\ \A i \in 1..Len(Extend(log, line)) : i < Len(Extend(log, line)) =>
              i <= Len(log) /\ Extend(log, line)[i] = log[i]
         /\ Extend(log, line)[Len(Extend(log, line))] \in {line, Garbled}
         /\ Bytes(Extend(log, line)) <= Bytes(log) + Weight(line)
         /\ (log = <<>> \/ log[Len(log)] # Fragment) =>
              /\ Extend(log, line) = Append(log, line)
              /\ Bytes(Extend(log, line)) = Bytes(log) + Weight(line)
<1>0. Len(log) \in Nat /\ Bytes(log) \in Nat /\ Weight(line) \in Nat
  BY LenProperties, BytesType, WeightType
<1>1. CASE log # <<>> /\ Last(log) = Fragment
  <2>1. Extend(log, line) = Append(Front(log), Garbled) /\ log[Len(log)] = Fragment
    BY <1>1 DEF Extend, Last
  <2>2. /\ Front(log) \in Seq(Entry) /\ Len(Front(log)) + 1 = Len(log)
        /\ \A i \in 1..Len(log) - 1 : Front(log)[i] = log[i]
        /\ Bytes(log) = Bytes(Front(log)) + Weight(Fragment)
    BY <1>1, BytesOfFront
  <2>3. Garbled \in Entry /\ Weight(Garbled) = 0 /\ Weight(Fragment) = 0
    BY DEF Entry, Weight, Garbled, Fragment
  <2>4. Bytes(Append(Front(log), Garbled)) = Bytes(Front(log)) + 0
    BY <2>2, <2>3, BytesOfAppend
  <2>5. Bytes(Front(log)) \in Nat /\ Len(Front(log)) \in Nat
    BY <2>2, BytesType, LenProperties
  <2>6. /\ Append(Front(log), Garbled) \in Seq(Entry)
        /\ Len(Append(Front(log), Garbled)) = Len(log)
        /\ Append(Front(log), Garbled)[Len(log)] = Garbled
        /\ \A i \in 1..Len(log) - 1 : Append(Front(log), Garbled)[i] = log[i]
    BY <1>0, <2>2, <2>3, <2>5, AppendProperties
  <2>7. Bytes(Extend(log, line)) <= Bytes(log) + Weight(line)
    BY <1>0, <2>1, <2>2, <2>3, <2>4, <2>5
  <2>8. Len(log) \in Nat \ {0}
    BY <1>0, <2>2, <2>5
  <2>9. QED
    BY <1>0, <1>1, <2>1, <2>6, <2>7, <2>8
<1>2. CASE ~(log # <<>> /\ Last(log) = Fragment)
  <2>1. Extend(log, line) = Append(log, line)
    BY <1>2 DEF Extend
  <2>2. /\ Append(log, line) \in Seq(Entry) /\ Len(Append(log, line)) = Len(log) + 1
        /\ Append(log, line)[Len(log) + 1] = line
        /\ \A i \in 1..Len(log) : Append(log, line)[i] = log[i]
    BY AppendProperties
  <2>3. Bytes(Append(log, line)) = Bytes(log) + Weight(line)
    BY BytesOfAppend
  <2>4. QED
    BY <1>0, <2>1, <2>2, <2>3
<1>3. QED
  BY <1>1, <1>2

-----------------------------------------------------------------------------
(* What each of the writer's operations keeps of Sound and Exact.          *)

Counts == [bytes : 0..Cap, stopped : BOOLEAN]

\* An event that comes in, with what it is numbered.
LEMMA EventsGrow ==
  ASSUME NEW events \in Seq(Line), NEW line \in Line, line.n = Len(events) + 1
  PROVE  /\ Append(events, line) \in Seq(Line)
         /\ Len(Append(events, line)) = Len(events) + 1 /\ Len(events) \in Nat
         /\ Append(events, line)[Len(events) + 1] = line
         /\ \A k \in 1..Len(events) : Append(events, line)[k] = events[k]
         /\ Append(events, line) # <<>>
         /\ (\A k \in 1..Len(events) : events[k].n = k) =>
               \A k \in 1..Len(events) + 1 : Append(events, line)[k].n = k
BY AppendProperties, LenProperties

LEMMA NumberedType ==
  ASSUME NEW log \in Seq(Entry), NEW i \in 1..Len(log)
  PROVE  log[i] \in Entry /\ log[i].n \in Nat
<1>1. log[i] \in Entry
  BY ElementOfSeq
<1>2. QED
  BY <1>1, Kinds DEF Entry

\* A log that is stopped takes no event.
LEMMA EmitStopped ==
  ASSUME NEW log \in Seq(Entry), NEW events \in Seq(Line), NEW count \in Counts,
         NEW line \in Line, line.n = Len(events) + 1, count.stopped,
         Sound(log, events, count, {})
  PROVE  /\ Sound(log, Append(events, line), count, {})
         /\ Exact(log, events, count, {}) => Exact(log, Append(events, line), count, {})
<1>0. Len(log) \in Nat
  BY LenProperties
<1> DEFINE more == Append(events, line)
<1>1. /\ Len(more) = Len(events) + 1 /\ Len(events) \in Nat
      /\ \A k \in 1..Len(events) : more[k] = events[k]
      /\ \A k \in 1..Len(more) : more[k].n = k
  BY EventsGrow DEF Sound
<1> HIDE DEF more
<1>2. Sound(log, more, count, {})
  <2>1. \A i \in 1..Len(log) : log[i].n > 0 => log[i].n \in 1..Len(events)
    BY NumberedType DEF Sound
  <2>2. QED
    BY <1>1, <2>1 DEF Sound
<1>3. ASSUME Exact(log, events, count, {}) PROVE Exact(log, more, count, {})
  <2>1. /\ log # <<>> /\ log[Len(log)] = Marker
        /\ Len(log) <= Len(events) /\ Follows(log, events, Len(log) - 1)
        /\ Bytes(log) + events[Len(log)].size > Cap
    BY <1>3 DEF Exact
  <2>2. Len(log) # 0
    BY <2>1, EmptySeq, LenProperties
  <2>3. more[Len(log)] = events[Len(log)]
    BY <1>0, <1>1, <2>1, <2>2
  <2>4. Follows(log, more, Len(log) - 1)
    BY <1>0, <1>1, <2>1, <2>2 DEF Follows
  <2>5. Len(log) <= Len(more)
    BY <1>0, <1>1, <2>1
  <2>6. QED
    BY <2>1, <2>3, <2>4, <2>5 DEF Exact
<1>4. QED
  BY <1>2, <1>3 DEF more

\* An event that fits is in flight.
LEMMA EmitFits ==
  ASSUME NEW log \in Seq(Entry), NEW events \in Seq(Line), NEW count \in Counts,
         NEW line \in Line, line.n = Len(events) + 1, ~count.stopped,
         NEW counted \in Counts, counted.bytes = count.bytes + line.size, ~counted.stopped,
         Sound(log, events, count, {})
  PROVE  /\ Sound(log, Append(events, line), counted, {line})
         /\ Exact(log, events, count, {}) =>
              Exact(log, Append(events, line), counted, {line})
<1>0. Len(log) \in Nat /\ Bytes(log) \in Nat /\ count.bytes \in Nat /\ line.size \in Nat
  BY LenProperties, BytesType, Kinds, Numbers DEF Counts
<1> DEFINE more == Append(events, line)
<1>1. /\ Len(more) = Len(events) + 1 /\ Len(events) \in Nat /\ more # <<>>
      /\ \A k \in 1..Len(events) : more[k] = events[k]
      /\ \A k \in 1..Len(more) : more[k].n = k
      /\ more[Len(more)] = line
  BY EventsGrow DEF Sound
<1> HIDE DEF more
<1>2. Sound(log, more, counted, {line})
  <2>1. \A i \in 1..Len(log) :
          /\ log[i].n > 0 => log[i].n \in 1..Len(events) /\ log[i] = events[log[i].n]
          /\ log[i].n < Len(more)
    BY <1>1, NumberedType DEF Sound
  <2>2. \A i \in 1..Len(log) : log[i] # Marker
    BY DEF Sound
  <2>3. \E l \in Entry :
         /\ {line} = {l}
         /\ Bytes(log) + Weight(l) <= counted.bytes
         /\ counted.stopped => l = Marker
         /\ ~counted.stopped =>
              /\ more # <<>> /\ l = more[Len(more)]
              /\ \A i \in 1..Len(log) : log[i].n < Len(more)
    <3>1. Bytes(log) + Weight(line) <= counted.bytes
      BY <1>0, Kinds DEF Sound
    <3>2. QED
      BY <1>1, <2>1, <3>1, Kinds
  <2>4. \A i \in 1..Len(log) : log[i].n > 0 => log[i].n <= Len(more) /\ log[i] = more[log[i].n]
    BY <1>1, <2>1
  <2>5. QED
    BY <1>1, <2>2, <2>3, <2>4 DEF Sound
<1>3. ASSUME Exact(log, events, count, {}) PROVE Exact(log, more, counted, {line})
  <2>1. /\ Len(log) = Len(events) /\ Follows(log, events, Len(log))
        /\ count.bytes = Bytes(log)
    BY <1>3 DEF Exact
  <2>2. Follows(log, more, Len(log)) /\ Len(log) + 1 = Len(more)
    BY <1>0, <1>1, <2>1 DEF Follows
  <2>3. counted.bytes = Bytes(log) + more[Len(more)].size
    BY <1>0, <1>1, <2>1
  <2>4. QED
    BY <2>2, <2>3 DEF Exact
<1>4. QED
  BY <1>2, <1>3 DEF more

\* One that does not fit stops the log, and the marker is in flight.
LEMMA EmitOverflows ==
  ASSUME NEW log \in Seq(Entry), NEW events \in Seq(Line), NEW count \in Counts,
         NEW line \in Line, line.n = Len(events) + 1, ~count.stopped,
         count.bytes + line.size > Cap,
         NEW counted \in Counts, counted.bytes = count.bytes, counted.stopped,
         Sound(log, events, count, {})
  PROVE  /\ Sound(log, Append(events, line), counted, {Marker})
         /\ Exact(log, events, count, {}) =>
              Exact(log, Append(events, line), counted, {Marker})
<1>0. Len(log) \in Nat /\ Bytes(log) \in Nat /\ count.bytes \in Nat /\ line.size \in Nat
  BY LenProperties, BytesType, Kinds, Numbers DEF Counts
<1> DEFINE more == Append(events, line)
<1>1. /\ Len(more) = Len(events) + 1 /\ Len(events) \in Nat /\ more # <<>>
      /\ \A k \in 1..Len(events) : more[k] = events[k]
      /\ \A k \in 1..Len(more) : more[k].n = k
      /\ more[Len(more)] = line
  BY EventsGrow DEF Sound
<1> HIDE DEF more
<1>2. Sound(log, more, counted, {Marker})
  <2>1. \A i \in 1..Len(log) :
          log[i].n > 0 => log[i].n \in 1..Len(events) /\ log[i] = events[log[i].n]
    BY NumberedType DEF Sound
  <2>2. \A i \in 1..Len(log) : log[i] # Marker
    BY DEF Sound
  <2>3. Bytes(log) + Weight(Marker) <= counted.bytes
    BY <1>0, Kinds DEF Sound
  <2>4. \A i \in 1..Len(log) : log[i].n > 0 => log[i].n <= Len(more) /\ log[i] = more[log[i].n]
    BY <1>1, <2>1
  <2>5. QED
    BY <1>1, <2>2, <2>3, <2>4, Kinds DEF Sound
<1>3. ASSUME Exact(log, events, count, {}) PROVE Exact(log, more, counted, {Marker})
  <2>1. /\ Len(log) = Len(events) /\ Follows(log, events, Len(log))
        /\ count.bytes = Bytes(log)
    BY <1>3 DEF Exact
  <2>2. Follows(log, more, Len(log)) /\ Len(log) < Len(more)
    BY <1>0, <1>1, <2>1 DEF Follows
  <2>3. Bytes(log) + more[Len(log) + 1].size > Cap
    BY <1>0, <1>1, <2>1
  <2>4. QED
    BY <2>2, <2>3 DEF Exact
<1>4. QED
  BY <1>2, <1>3 DEF more

\* What was in flight, or a part of it, ends up in the log.
LEMMA AppendIsSound ==
  ASSUME NEW log \in Seq(Entry), NEW events \in Seq(Line), NEW count \in Counts,
         NEW line \in Entry, Sound(log, events, count, {line}),
         NEW part \in {line, Fragment}
  PROVE  Sound(Extend(log, part), events, count, {})
<1> DEFINE longer == Extend(log, part)
<1>0. /\ Len(log) \in Nat /\ Bytes(log) \in Nat /\ count.bytes \in Nat
      /\ Len(events) \in Nat /\ Weight(line) \in Nat /\ part \in Entry
  BY LenProperties, BytesType, WeightType, Kinds, Numbers DEF Counts
<1>1. /\ longer \in Seq(Entry) /\ Len(longer) \in Nat \ {0}
      /\ \A i \in 1..Len(longer) : i < Len(longer) => i <= Len(log) /\ longer[i] = log[i]
      /\ longer[Len(longer)] \in {part, Garbled}
      /\ Bytes(longer) <= Bytes(log) + Weight(part)
  BY <1>0, ExtendIs
<1> HIDE DEF longer
<1>2. /\ \A k \in 1..Len(events) : events[k].n = k
      /\ \A i \in 1..Len(log) : log[i] # Marker
      /\ Bytes(log) + Weight(line) <= count.bytes
      /\ count.stopped => line = Marker
      /\ ~count.stopped =>
           /\ events # <<>> /\ line = events[Len(events)]
           /\ \A i \in 1..Len(log) : log[i].n < Len(events)
  BY DEF Sound
<1>3. Bytes(longer) <= count.bytes
  <2>1. Bytes(longer) \in Nat
    BY <1>1, BytesType
  <2>2. CASE part = line
    BY <1>0, <1>1, <1>2, <2>1, <2>2
  <2>3. CASE part = Fragment
    BY <1>0, <1>1, <1>2, <2>1, <2>3, Kinds
  <2>4. QED
    BY <2>2, <2>3
<1>4. longer[Len(longer)].n > 0 =>
        /\ longer[Len(longer)] = line /\ ~count.stopped /\ line.n = Len(events)
        /\ Len(events) > 0
  <2>1. ASSUME longer[Len(longer)].n > 0
        PROVE  longer[Len(longer)] = line /\ line # Marker
    BY <1>1, <2>1, Kinds
  <2>2. ~count.stopped => Len(events) > 0 /\ line.n = Len(events)
    <3>1. ASSUME ~count.stopped PROVE Len(events) > 0
      BY <1>0, <1>2, <3>1, EmptySeq
    <3>2. QED
      BY <1>0, <1>2, <3>1
  <2>3. QED
    BY <1>2, <2>1, <2>2
<1>5. \A i \in 1..Len(longer) : longer[i].n > 0 =>
        longer[i].n <= Len(events) /\ longer[i] = events[longer[i].n]
  <2> SUFFICES ASSUME NEW i \in 1..Len(longer), longer[i].n > 0
               PROVE  longer[i].n <= Len(events) /\ longer[i] = events[longer[i].n]
    OBVIOUS
  <2>1. CASE i < Len(longer)
    <3>1. i \in 1..Len(log) /\ longer[i] = log[i]
      BY <1>0, <1>1, <2>1
    <3>2. QED
      BY <3>1 DEF Sound
  <2>2. CASE i = Len(longer)
    BY <1>0, <1>2, <1>4, <2>2
  <2>3. QED
    BY <1>1, <2>1, <2>2
<1>6. \A i, j \in 1..Len(longer) :
        longer[i].n > 0 /\ longer[j].n > 0 /\ i < j => longer[i].n < longer[j].n
  <2> SUFFICES ASSUME NEW i \in 1..Len(longer), NEW j \in 1..Len(longer),
                      longer[i].n > 0, longer[j].n > 0, i < j
               PROVE  longer[i].n < longer[j].n
    OBVIOUS
  <2>1. i \in 1..Len(log) /\ longer[i] = log[i]
    BY <1>0, <1>1
  <2>2. CASE j < Len(longer)
    <3>1. j \in 1..Len(log) /\ longer[j] = log[j]
      BY <1>0, <1>1, <2>2
    <3>2. QED
      BY <2>1, <3>1 DEF Sound
  <2>3. CASE j = Len(longer)
    BY <1>2, <1>4, <2>1, <2>3
  <2>4. QED
    BY <1>1, <2>2, <2>3
<1>7. \A i \in 1..Len(longer) : longer[i] = Marker => i = Len(longer) /\ count.stopped
  <2> SUFFICES ASSUME NEW i \in 1..Len(longer), longer[i] = Marker
               PROVE  i = Len(longer) /\ count.stopped
    OBVIOUS
  <2>1. ~(i < Len(longer))
    BY <1>0, <1>1, <1>2
  <2>2. i = Len(longer)
    BY <1>1, <2>1
  <2>3. line = Marker
    BY <1>1, <2>2, Kinds
  <2>4. ~count.stopped => line \in Line
    <3>1. ASSUME ~count.stopped PROVE Len(events) \in 1..Len(events)
      BY <1>0, <1>2, <3>1, EmptySeq
    <3>2. QED
      BY <1>2, <3>1, ElementOfSeq
  <2>5. QED
    BY <2>2, <2>3, <2>4, Kinds
<1>8. QED
  BY <1>2, <1>3, <1>5, <1>6, <1>7 DEF Sound, longer

\* What was in flight may be lost as well.
LEMMA LossIsSound ==
  ASSUME NEW log \in Seq(Entry), NEW events \in Seq(Line), NEW count \in Counts,
         NEW line \in Entry, Sound(log, events, count, {line})
  PROVE  Sound(log, events, count, {})
<1>1. /\ Bytes(log) \in Nat /\ count.bytes \in Nat /\ Weight(line) \in Nat
  BY BytesType, WeightType, Numbers DEF Counts
<1>2. /\ \A i \in 1..Len(log) : log[i] # Marker
      /\ Bytes(log) + Weight(line) <= count.bytes
  BY DEF Sound
<1>3. QED
  BY <1>1, <1>2 DEF Sound

\* And when it is written whole, nothing is lost.
LEMMA AppendIsExact ==
  ASSUME NEW log \in Seq(Entry), NEW events \in Seq(Line), NEW count \in Counts,
         NEW line \in Entry, Sound(log, events, count, {line}),
         Exact(log, events, count, {line})
  PROVE  Exact(Extend(log, line), events, count, {})
<1>0. /\ Len(log) \in Nat /\ Bytes(log) \in Nat /\ Len(events) \in Nat
  BY LenProperties, BytesType
<1>1. /\ Follows(log, events, Len(log)) /\ Len(log) < Len(events)
      /\ ~count.stopped => /\ Len(log) + 1 = Len(events)
                           /\ count.bytes = Bytes(log) + events[Len(events)].size
      /\ count.stopped => Bytes(log) + events[Len(log) + 1].size > Cap
  BY <1>0 DEF Exact
<1>2. log = <<>> \/ log[Len(log)] # Fragment
  <2>1. ASSUME log # <<>> PROVE log[Len(log)] \in Line
    <3>1. Len(log) \in 1..Len(log)
      BY <1>0, <2>1, EmptySeq
    <3>2. Len(log) \in 1..Len(events) /\ log[Len(log)] = events[Len(log)]
      BY <1>0, <1>1, <3>1 DEF Follows
    <3>3. QED
      BY <3>2, ElementOfSeq
  <2>2. QED
    BY <2>1, Kinds
<1>3. /\ Extend(log, line) = Append(log, line)
      /\ Bytes(Extend(log, line)) = Bytes(log) + Weight(line)
  BY <1>2, ExtendIs
<1> DEFINE longer == Extend(log, line)
<1>4. /\ Len(longer) = Len(log) + 1 /\ longer[Len(log) + 1] = line
      /\ \A i \in 1..Len(log) : longer[i] = log[i]
  BY <1>3, AppendProperties
<1>5. Bytes(longer) = Bytes(log) + Weight(line)
  BY <1>3
<1> HIDE DEF longer
<1>6. CASE count.stopped
  <2>1. line = Marker
    BY <1>6 DEF Sound
  <2>2. Bytes(longer) = Bytes(log)
    BY <1>0, <1>5, <2>1, Kinds
  <2>3. longer # <<>> /\ longer[Len(longer)] = Marker
    BY <1>0, <1>4, <2>1, EmptySeq
  <2>4. Follows(longer, events, Len(longer) - 1) /\ Len(longer) <= Len(events)
    BY <1>0, <1>1, <1>4 DEF Follows
  <2>5. Bytes(longer) + events[Len(longer)].size > Cap
    BY <1>1, <1>4, <1>6, <2>2
  <2>6. QED
    BY <1>6, <2>3, <2>4, <2>5 DEF Exact, longer
<1>7. CASE ~count.stopped
  <2>1. line = events[Len(events)]
    BY <1>7 DEF Sound
  <2>2. Weight(line) = events[Len(events)].size
    <3>1. Len(events) \in 1..Len(events)
      BY <1>0, <1>1
    <3>2. line \in Line
      BY <2>1, <3>1, ElementOfSeq
    <3>3. QED
      BY <2>1, <3>2, Kinds
  <2>3. Follows(longer, events, Len(longer)) /\ Len(longer) = Len(events)
    BY <1>0, <1>1, <1>4, <1>7, <2>1 DEF Follows
  <2>4. QED
    BY <1>1, <1>5, <1>7, <2>2, <2>3 DEF Exact, longer
<1>8. QED
  BY <1>6, <1>7

\* The log of a run that is removed.
LEMMA EmptyIsSound ==
  ASSUME NEW log \in Seq(Entry), NEW events \in Seq(Line), NEW count \in Counts,
         Sound(log, events, count, {})
  PROVE  Sound(<<>>, events, count, {})
<1>1. Len(<<>>) = 0 /\ count.bytes \in Nat
  BY EmptySeq, Numbers DEF Counts
<1>2. QED
  BY <1>1, BytesOfEmpty DEF Sound

-----------------------------------------------------------------------------
(* The logs on disk.                                                       *)

\* Only the writer that drives a run has a line for it in flight.
LEMMA FlightIs ==
  ASSUME Control
  PROVE  /\ \A w \in Writers : pc[w] = "appending" => Flight(Current(w)) = {pending[w].line}
         /\ \A r \in Runs : Over(r) => Flight(r) = {}
         /\ \A w \in Writers : Driving(w) /\ pc[w] # "appending" => Flight(Current(w)) = {}
         /\ \A r \in Runs : Flight(r) # {} <=> \E w \in Writers : pending[w].run = r
<1>1. \A v \in Writers, r \in Runs : pending[v].run = r =>
        pc[v] = "appending" /\ Driving(v) /\ r = Current(v)
  <2> SUFFICES ASSUME NEW v \in Writers, NEW r \in Runs, pending[v].run = r
               PROVE  pc[v] = "appending" /\ Driving(v) /\ r = Current(v)
    OBVIOUS
  <2>1. pending[v] # Nothing
    BY RunsAreNumbers DEF Nothing, NoRun
  <2>2. QED
    BY <2>1 DEF Control, WriterOK, Started
<1>2. ASSUME NEW w \in Writers, pc[w] = "appending"
      PROVE  Flight(Current(w)) = {pending[w].line}
  <2>1. pending[w].run = Current(w) /\ Current(w) \in Runs /\ Driving(w)
    BY <1>2, AppendingIsDriving
  <2>2. \A v \in Writers : pending[v].run = Current(w) => v = w
    BY <1>1, <2>1, CurrentIsOwn
  <2>3. QED
    BY <2>1, <2>2 DEF Flight
<1>3. ASSUME NEW r \in Runs, Over(r) PROVE Flight(r) = {}
  <2>1. \A v \in Writers : pending[v].run # r
    BY <1>1, <1>3, CurrentIsOwn
  <2>2. QED
    BY <2>1 DEF Flight
<1>4. ASSUME NEW w \in Writers, Driving(w), pc[w] # "appending"
      PROVE  Flight(Current(w)) = {}
  <2>1. Current(w) \in Runs
    BY <1>4, CurrentIsOwn
  <2>2. \A v \in Writers : pending[v].run # Current(w)
    BY <1>1, <1>4, <2>1, CurrentIsOwn
  <2>3. QED
    BY <2>2 DEF Flight
<1>5. \A r \in Runs : Flight(r) # {} <=> \E w \in Writers : pending[w].run = r
  BY DEF Flight
<1>6. QED
  BY <1>2, <1>3, <1>4, <1>5

\* What a removal has emptied is given up only when it is gone, or after a fault.
DyingStays(r) ==
  r \in Dying => r \in Dying' \/ r \in damaged' \/ (Over(r)' /\ disk'[r] = Absent)

LEMMA RestOfDying ==
  ASSUME NEW p,
         \A q \in Procs \ {p} :
           pc'[q] = pc[q] /\ todo'[q] = todo[q] /\ cut'[q] = cut[q],
         NEW r, r \in Dying, ~(p \in Procs /\ pc[p] = "emptied" /\ r = Target(p))
  PROVE  r \in Dying'
<1>1. PICK q \in Procs : pc[q] = "emptied" /\ r = Target(q)
  BY DEF Dying
<1>2. q # p
  BY <1>1
<1>3. Target(q)' = Target(q) /\ pc'[q] = "emptied"
  BY <1>1, <1>2, TargetIs
<1>4. QED
  BY <1>1, <1>3 DEF Dying

LEMMA LogKept ==
  ASSUME NEW r \in Runs, LogOK(r), DyingStays(r), damaged \subseteq damaged',
         Over(r) => Over(r)',
         disk'[r].log = disk[r].log, disk'[r] = disk[r] \/ ~Over(r),
         stream'[r] = stream[r], book'[r] = book[r], Flight(r)' = Flight(r)
  PROVE  LogOK(r)'
<1>1. Sound(disk'[r].log, stream'[r], book'[r], Flight(r)')
  BY DEF LogOK
<1>2. CASE Exact(disk[r].log, stream[r], book[r], Flight(r))
  <2>1. Exact(disk'[r].log, stream'[r], book'[r], Flight(r)')
    BY <1>2
  <2>2. QED
    BY <1>1, <2>1 DEF LogOK
<1>3. CASE r \in damaged \cup Dying \/ (Over(r) /\ disk[r] = Absent)
  <2>1. r \in damaged' \/ r \in Dying' \/ (Over(r)' /\ disk'[r] = Absent)
    BY <1>3 DEF DyingStays
  <2>2. QED
    BY <1>1, <2>1 DEF LogOK
<1>4. QED
  BY <1>2, <1>3 DEF LogOK

Logs == \A r \in Runs : LogOK(r)

LEMMA FaultsAdd ==
  ASSUME NEW rs, NoFault \/ Fault(rs)
  PROVE  damaged \subseteq damaged' /\ (Fault(rs) => rs \subseteq damaged')
BY DEF NoFault, Fault

\* Nothing is in the logs at the start.
LEMMA StartsWithLogs == Init => Logs
<1> SUFFICES ASSUME Init, NEW r \in Runs PROVE LogOK(r)
  BY DEF Logs
<1>1. /\ disk[r].log = <<>> /\ stream[r] = <<>>
      /\ book[r] = [bytes |-> 0, stopped |-> FALSE]
  BY DEF Init, Absent
<1>2. Flight(r) = {}
  <2>1. \A w \in Writers : pending[w].run = NoRun
    BY DEF Init, Nothing
  <2>2. r # NoRun
    BY RunsAreNumbers DEF NoRun
  <2>3. QED
    BY <2>1, <2>2 DEF Flight
<1>3. Len(<<>>) = 0 /\ Bytes(<<>>) = 0
  BY EmptySeq, BytesOfEmpty
<1>4. Sound(<<>>, <<>>, [bytes |-> 0, stopped |-> FALSE], {})
  BY <1>3 DEF Sound
<1>5. Exact(<<>>, <<>>, [bytes |-> 0, stopped |-> FALSE], {})
  BY <1>3 DEF Exact, Follows
<1>6. QED
  BY <1>1, <1>2, <1>4, <1>5 DEF LogOK

\* Of what is over, a step takes away at most the files, and then it is dying,
\* or the directory.
Shrinks(r) ==
  Over(r) => \/ disk'[r] = disk[r]
             \/ disk'[r] = Empty /\ disk[r] # Absent /\ r \in Dying'
             \/ disk'[r] = Absent

\* A sweep, a removal or an end of a command is at most the end of its target.
LEMMA TakesShrinks ==
  ASSUME Control, NEW p \in Procs, Takes(p) \/ Leaves(p)
  PROVE  /\ UNCHANGED <<writing, book>>
         /\ \A q \in Procs \ {p} :
              pc'[q] = pc[q] /\ todo'[q] = todo[q] /\ cut'[q] = cut[q] /\ owed'[q] = owed[q]
         /\ \A r : Over(r) => Over(r)'
         /\ \A r \in Runs : DyingStays(r) /\ Shrinks(r) /\ (Over(r) \/ disk'[r] = disk[r])
<1> USE DEF Takes, Leaves
<1>1. UNCHANGED <<writing, book>>
  BY DEF List, Visit, Unlink, Rmdir, SweepEnds, AlreadyGone, SweepFails, RemoveRefused,
     Falls, Query, WriterEnds, SinkRefuses
<1>2. \A q \in Procs \ {p} :
        pc'[q] = pc[q] /\ todo'[q] = todo[q] /\ cut'[q] = cut[q] /\ owed'[q] = owed[q]
  BY DEF List, Visit, Unlink, Rmdir, SweepEnds, AlreadyGone, SweepFails, RemoveRefused,
     Falls, Query, WriterEnds, SinkRefuses, sweeping, Go, Control, TypeOK
<1>3. \A r : Over(r) => Over(r)'
  BY <1>1 DEF writing, Over
<1>4. ASSUME NEW r \in Runs, r \in Dying, pc[p] = "emptied", r = Target(p)
      PROVE  r \in Dying' \/ r \in damaged' \/ (Over(r)' /\ disk'[r] = Absent)
  <2>1. Over(r) /\ Target(p) \in Runs
    BY <1>4, RemovalsAreSound DEF RemovalOK
  <2>2. CASE Rmdir(p)
    BY <1>3, <1>4, <2>1, <2>2 DEF Rmdir, Control, TypeOK
  <2>3. CASE AlreadyGone(p)
    BY <1>3, <1>4, <2>1, <2>3 DEF AlreadyGone, SweepFails
  <2>4. CASE RemoveRefused(p) \/ Falls(p)
    <3>1. Fault({Target(p)})
      BY <1>4, <2>4 DEF RemoveRefused, Falls
    <3>2. QED
      BY <1>4, <3>1 DEF Fault
  <2>5. QED
    BY <1>4, <2>2, <2>3, <2>4 DEF List, Visit, Unlink, SweepEnds, Query, WriterEnds,
       SinkRefuses
<1>5. \A r \in Runs : DyingStays(r)
  BY <1>2, <1>4, RestOfDying DEF DyingStays
<1>6. UNCHANGED disk \/ Unlink(p) \/ Rmdir(p)
  BY DEF List, Visit, SweepEnds, AlreadyGone, SweepFails, RemoveRefused, Falls, Query,
     WriterEnds, SinkRefuses
<1>7. ASSUME NEW r \in Runs, Unlink(p) \/ Rmdir(p)
      PROVE  Shrinks(r) /\ (Over(r) \/ disk'[r] = disk[r])
  <2>1. PICK t : t = Target(p)
    OBVIOUS
  <2>2. CASE r = t
    <3>1. Over(r)
      BY <1>7, <2>1, <2>2, RemovalsAreSound DEF RemovalOK, Unlink, Rmdir
    <3>2. CASE Unlink(p)
      <4>1. Target(p)' = Target(p) /\ pc'[p] = "emptied"
        BY <3>2, TargetIs DEF Unlink, sweeping, Go, Control, TypeOK
      <4>2. t \in Dying'
        BY <2>1, <4>1 DEF Dying
      <4>3. disk[t] # Absent /\ disk' = [disk EXCEPT ![t] = Empty]
        BY <2>1, <3>2 DEF Unlink
      <4>4. QED
        BY <2>2, <3>1, <4>2, <4>3 DEF Shrinks, Control, TypeOK
    <3>3. CASE Rmdir(p)
      BY <2>1, <2>2, <3>1, <3>3 DEF Rmdir, Shrinks, Control, TypeOK
    <3>4. QED
      BY <1>7, <3>2, <3>3
  <2>3. CASE r # t
    <3>1. \E dir \in {Empty, Absent} : disk' = [disk EXCEPT ![t] = dir]
      BY <1>7, <2>1 DEF Unlink, Rmdir
    <3>2. QED
      BY <2>3, <3>1 DEF Shrinks, Control, TypeOK
  <2>4. QED
    BY <2>2, <2>3
<1>8. \A r \in Runs : Shrinks(r) /\ (Over(r) \/ disk'[r] = disk[r])
  BY <1>6, <1>7 DEF Shrinks
<1>9. QED
  BY <1>1, <1>2, <1>3, <1>5, <1>8

\* And leaves the logs alone, but for the one that goes.
LEMMA TakesKeepsLogs ==
  ASSUME Control, Logs, NEW p \in Procs, Takes(p) \/ Leaves(p)
  PROVE  Logs'
<1>1. /\ UNCHANGED <<writing, book>>
      /\ \A r : Over(r) => Over(r)'
      /\ \A r \in Runs : DyingStays(r) /\ Shrinks(r) /\ (Over(r) \/ disk'[r] = disk[r])
  BY TakesShrinks
<1>2. damaged \subseteq damaged'
  BY FaultsAdd DEF Takes, Leaves, List, Visit, Unlink, Rmdir, SweepEnds, AlreadyGone,
     RemoveRefused, Falls, Query, WriterEnds, SinkRefuses, NoFault
<1>3. \A r \in Runs : Flight(r)' = Flight(r)
  BY <1>1 DEF writing, Flight
<1>4. ASSUME NEW r \in Runs, disk'[r] = disk[r] PROVE LogOK(r)'
  BY <1>1, <1>2, <1>3, <1>4, LogKept DEF Logs, writing
<1>5. ASSUME NEW r \in Runs, disk'[r] # disk[r] PROVE LogOK(r)'
  <2>1. Over(r) /\ Over(r)'
    BY <1>1, <1>5
  <2>2. \/ disk'[r] = Empty /\ r \in Dying'
        \/ disk'[r] = Absent
    BY <1>1, <1>5, <2>1 DEF Shrinks
  <2>3. Flight(r) = {}
    BY <2>1, FlightIs
  <2>4. Sound(<<>>, stream[r], book[r], {})
    <3>1. /\ disk[r].log \in Seq(Entry) /\ stream[r] \in Seq(Line) /\ book[r] \in Counts
          /\ Sound(disk[r].log, stream[r], book[r], {})
      BY <2>3 DEF Logs, LogOK, Control, TypeOK, Counts
    <3>2. QED
      BY <3>1, EmptyIsSound
  <2>5. disk'[r].log = <<>> /\ Flight(r)' = {} /\ UNCHANGED <<stream, book>>
    BY <1>1, <1>3, <2>2, <2>3 DEF Empty, Absent, writing
  <2>6. Sound(disk'[r].log, stream'[r], book'[r], Flight(r)')
    BY <2>4, <2>5
  <2>7. QED
    BY <2>1, <2>2, <2>6 DEF LogOK
<1>6. \A r \in Runs : LogOK(r)'
  BY <1>4, <1>5
<1>7. QED
  BY <1>6 DEF Logs

LEMMA RmKeepsLogs ==
  ASSUME Control, Logs, NEW k \in Keepers, NEW r \in Runs, Rm(k, r)
  PROVE  Logs'
<1>0. k \in Procs
  BY Apart
<1>1. UNCHANGED <<disk, writing, book, todo, damaged>> /\ pc[k] = "start"
  BY DEF Rm, NoFault
<1>2. \A q \in Procs \ {k} : pc'[q] = pc[q] /\ todo'[q] = todo[q] /\ cut'[q] = cut[q]
  BY DEF Rm, Go, Control, TypeOK
<1>3. \A q \in Runs : DyingStays(q)
  BY <1>0, <1>1, <1>2, RestOfDying DEF DyingStays
<1>4. \A q \in Runs : Flight(q)' = Flight(q) /\ (Over(q) => Over(q)')
  BY <1>1 DEF writing, Flight, Over
<1>5. \A q \in Runs : LogOK(q)'
  BY <1>1, <1>3, <1>4, LogKept DEF Logs, writing
<1>6. QED
  BY <1>5 DEF Logs

\* A step of a writer, as far as the other runs' logs are concerned.
LEMMA DrivingKeepsOtherLogs ==
  ASSUME Control, Logs, NEW w \in Writers, NEW r \in Runs, r = Current(w), Driving(w),
         UNCHANGED sweeping, \A q \in Procs \ {w} : pc'[q] = pc[q], pc[w] # "emptied",
         \A q \in Runs \ {r} :
           disk'[q] = disk[q] /\ book'[q] = book[q] /\ stream'[q] = stream[q],
         \A v \in Writers \ {w} : pending'[v] = pending[v],
         pending[w].run \in {r, NoRun}, pending'[w].run \in {r, NoRun},
         damaged \subseteq damaged', \A q : Over(q) => Over(q)'
  PROVE  /\ \A q \in Runs : DyingStays(q)
         /\ \A q \in Runs \ {r} : LogOK(q)'
         /\ Flight(r)' = IF pending'[w].run = r THEN {pending'[w].line} ELSE {}
<1>1. \A q \in Procs \ {w} : pc'[q] = pc[q] /\ todo'[q] = todo[q] /\ cut'[q] = cut[q]
  BY DEF sweeping
<1>2. \A q \in Runs : DyingStays(q)
  BY <1>1, RestOfDying DEF DyingStays
<1>3. ASSUME NEW q \in Runs \ {r} PROVE LogOK(q)'
  <2>1. q # NoRun
    BY RunsAreNumbers DEF NoRun
  <2>2. Flight(q)' = Flight(q)
    BY <1>3, <2>1 DEF Flight
  <2>3. QED
    BY <1>2, <1>3, <2>2, LogKept DEF Logs
<1>4. Flight(r)' = IF pending'[w].run = r THEN {pending'[w].line} ELSE {}
  <2>1. ASSUME NEW v \in Writers \ {w} PROVE pending'[v].run # r
    <3>1. ASSUME pending[v].run = r PROVE FALSE
      <4>1. pending[v] # Nothing
        BY <3>1, RunsAreNumbers DEF Nothing, NoRun
      <4>2. Driving(v) /\ Current(v) = r
        BY <3>1, <4>1 DEF Control, WriterOK, Started
      <4>3. QED
        BY <4>2, CurrentIsOwn
    <3>2. QED
      BY <3>1
  <2>2. QED
    BY <2>1 DEF Flight
<1>5. QED
  BY <1>2, <1>3, <1>4

LEMMA EmitKeepsLogs ==
  ASSUME Control, Logs, NEW w \in Writers, NEW size \in Sizes, Emit(w, size)
  PROVE  Logs'
<1>0. PICK r : r = Current(w)
  OBVIOUS
<1>1. PICK line : line = [n |-> Len(stream[r]) + 1, size |-> size]
  OBVIOUS
<1>2. PICK sent : sent = [run |-> r, line |-> IF Fits(book[r], size) THEN line ELSE Marker]
  OBVIOUS
<1>3. /\ pc[w] = "running" /\ Driving(w) /\ Len(stream[r]) < MaxEvents
      /\ stream' = [stream EXCEPT ![r] = Append(stream[r], line)]
      /\ \/ book[r].stopped /\ UNCHANGED <<pc, book, pending>>
         \/ /\ ~book[r].stopped
            /\ book' = [book EXCEPT ![r] = Counted(book[r], size)]
            /\ pending' = [pending EXCEPT ![w] = sent]
            /\ pc' = [pc EXCEPT ![w] = "appending"]
      /\ UNCHANGED <<disk, sweeping, at>> /\ NoFault
  BY <1>0, <1>1, <1>2, EmitIs
<1>4. /\ r \in Runs /\ r # NoRun /\ w \in Procs /\ pending[w] = Nothing
      /\ Flight(r) = {} /\ ~Over(r)
  BY <1>0, <1>3, CurrentIsOwn, RunsAreNumbers, FlightIs DEF NoRun, Procs, Control, WriterOK
<1>5. line \in Line /\ line.n = Len(stream[r]) + 1 /\ line.size = size
  BY <1>1, <1>3, <1>4, LineType
<1>6. /\ disk[r].log \in Seq(Entry) /\ stream[r] \in Seq(Line) /\ book[r] \in Counts
      /\ Sound(disk[r].log, stream[r], book[r], {})
  BY <1>4 DEF Logs, LogOK, Control, TypeOK, Counts
<1>7. /\ \A q \in Runs : DyingStays(q)
      /\ \A q \in Runs \ {r} : LogOK(q)'
      /\ Flight(r)' = IF pending'[w].run = r THEN {pending'[w].line} ELSE {}
  <2>1. damaged \subseteq damaged' /\ \A q : Over(q) => Over(q)'
    BY <1>3 DEF NoFault, Over
  <2>2. /\ \A q \in Runs \ {r} :
             disk'[q] = disk[q] /\ book'[q] = book[q] /\ stream'[q] = stream[q]
        /\ \A v \in Writers \ {w} : pending'[v] = pending[v]
        /\ \A q \in Procs \ {w} : pc'[q] = pc[q]
    BY <1>3 DEF Control, TypeOK
  <2>3. pending[w].run \in {r, NoRun} /\ pending'[w].run \in {r, NoRun}
    BY <1>2, <1>3, <1>4 DEF Nothing, Control, TypeOK
  <2>4. QED
    BY <1>0, <1>3, <1>4, <2>1, <2>2, <2>3, DrivingKeepsOtherLogs
<1>8. /\ stream'[r] = Append(stream[r], line) /\ disk'[r] = disk[r]
      /\ Over(r)' <=> Over(r)
  BY <1>3, <1>4 DEF Control, TypeOK, Over
<1>9. \E flight :
        /\ Flight(r)' = flight
        /\ Sound(disk[r].log, Append(stream[r], line), book'[r], flight)
        /\ Exact(disk[r].log, stream[r], book[r], {}) =>
             Exact(disk[r].log, Append(stream[r], line), book'[r], flight)
  <2>1. CASE book[r].stopped
    <3>1. Flight(r)' = {} /\ book'[r] = book[r]
      BY <1>3, <1>4, <1>7, <2>1 DEF Nothing
    <3>2. QED
      BY <1>5, <1>6, <2>1, <3>1, EmitStopped
  <2>2. CASE ~book[r].stopped
    <3>1. book'[r] = Counted(book[r], size) /\ pending'[w] = sent
      BY <1>3, <1>4, <2>2 DEF Control, TypeOK
    <3>2. Flight(r)' = {sent.line}
      BY <1>2, <1>7, <3>1
    <3>3. book'[r] \in Counts
      BY <1>4, EmitKeepsControl DEF Control, TypeOK, Counts
    <3>4. CASE Fits(book[r], size)
      <4>1. sent.line = line
        BY <1>2, <3>4
      <4>2. book'[r].bytes = book[r].bytes + line.size /\ ~book'[r].stopped
        BY <1>5, <1>6, <2>2, <3>1, <3>4 DEF Counted, Counts
      <4>3. QED
        BY <1>5, <1>6, <2>2, <3>2, <3>3, <4>1, <4>2, EmitFits
    <3>5. CASE ~Fits(book[r], size)
      <4>1. sent.line = Marker
        BY <1>2, <3>5
      <4>2. book'[r].bytes = book[r].bytes /\ book'[r].stopped
        BY <1>6, <3>1, <3>5 DEF Counted, Counts, Overflow
      <4>3. book[r].bytes + line.size > Cap
        BY <1>5, <1>6, <3>5, Numbers DEF Fits, Counts
      <4>4. QED
        BY <1>5, <1>6, <2>2, <3>2, <3>3, <4>1, <4>2, <4>3, EmitOverflows
    <3>6. QED
      BY <3>4, <3>5
  <2>3. QED
    BY <2>1, <2>2
<1>10. ASSUME NEW q \in Runs, q = r PROVE LogOK(q)'
  <2>1. PICK flight :
          /\ Flight(q)' = flight
          /\ Sound(disk'[q].log, stream'[q], book'[q], flight)
          /\ Exact(disk[q].log, stream[q], book[q], {}) =>
               Exact(disk'[q].log, stream'[q], book'[q], flight)
    BY <1>8, <1>9, <1>10
  <2>2. Sound(disk'[q].log, stream'[q], book'[q], Flight(q)')
    BY <2>1
  <2>3. \/ q \in damaged' \cup Dying'
        \/ Exact(disk'[q].log, stream'[q], book'[q], Flight(q)')
    <3>1. q \in damaged \cup Dying \/ Exact(disk[q].log, stream[q], book[q], {})
      BY <1>4, <1>10 DEF Logs, LogOK
    <3>2. q \in damaged \cup Dying => q \in damaged' \cup Dying'
      BY <1>3, <1>4, <1>7, <1>8, <1>10 DEF DyingStays, NoFault
    <3>3. QED
      BY <2>1, <3>1, <3>2
  <2>4. QED
    BY <2>2, <2>3 DEF LogOK
<1>11. \A q \in Runs : LogOK(q)'
  BY <1>7, <1>10
<1>12. QED
  BY <1>11 DEF Logs

\* The end of an append: the line is in the log, or the run is damaged.
LEMMA AppendedKeepsLogs ==
  ASSUME Control, Logs, NEW w \in Writers, NEW to \in {"running", "crashed"}, Appended(w, to)
  PROVE  Logs'
<1>0. PICK r : r = Current(w)
  OBVIOUS
<1>1. PICK line : line = pending[w].line
  OBVIOUS
<1>2. /\ pc[w] = "appending" /\ Driving(w) /\ r \in Runs /\ r # NoRun /\ ~Over(r)
      /\ w \in Procs /\ line \in Entry /\ pending[w].run = r /\ Flight(r) = {line}
  BY <1>0, <1>1, AppendingIsDriving, CurrentIsOwn, RunsAreNumbers, FlightIs
     DEF NoRun, Appended
<1>3. /\ \/ Written(r, line) /\ NoFault
         \/ (Written(r, Fragment) \/ UNCHANGED disk) /\ Fault({r})
      /\ pending' = [pending EXCEPT ![w] = Nothing]
      /\ pc' = [pc EXCEPT ![w] = to]
      /\ UNCHANGED <<sweeping, at, latch, book, stream>>
  BY <1>0, <1>1 DEF Appended, Go
<1>4. /\ disk[r].log \in Seq(Entry) /\ stream[r] \in Seq(Line) /\ book[r] \in Counts
      /\ Sound(disk[r].log, stream[r], book[r], {line})
  BY <1>2 DEF Logs, LogOK, Control, TypeOK, Counts
<1>5. ASSUME NEW part \in Entry, Written(r, part)
      PROVE  /\ disk'[r].log = Extend(disk[r].log, part)
             /\ \A q \in Runs \ {r} : disk'[q] = disk[q]
  <2>1. PICK dir : dir = [DirOf(r) EXCEPT !.log = Extend(disk[r].log, part)]
    OBVIOUS
  <2>2. dir.log = Extend(disk[r].log, part)
    BY <1>2, <2>1, DirOfIs
  <2>3. disk' = [disk EXCEPT ![r] = dir]
    BY <1>5, <2>1 DEF Written
  <2>4. QED
    BY <1>2, <2>2, <2>3 DEF Control, TypeOK
<1>6. damaged \subseteq damaged' /\ \A q : Over(q) <=> Over(q)'
  BY <1>3 DEF NoFault, Fault, Over
<1>7. /\ \A q \in Runs : DyingStays(q)
      /\ \A q \in Runs \ {r} : LogOK(q)'
      /\ Flight(r)' = {}
  <2>1. /\ \A q \in Runs \ {r} :
             disk'[q] = disk[q] /\ book'[q] = book[q] /\ stream'[q] = stream[q]
        /\ \A v \in Writers \ {w} : pending'[v] = pending[v]
        /\ \A q \in Procs \ {w} : pc'[q] = pc[q]
        /\ pending'[w].run = NoRun
    BY <1>2, <1>3, <1>5, Kinds DEF Control, TypeOK, Nothing
  <2>2. QED
    BY <1>0, <1>2, <1>3, <1>6, <2>1, DrivingKeepsOtherLogs
<1>8. ASSUME NEW q \in Runs, q = r PROVE LogOK(q)'
  <2>1. CASE Written(r, line) /\ NoFault
    <3>1. /\ disk'[q].log = Extend(disk[r].log, line) /\ UNCHANGED <<stream, book, damaged>>
          /\ Flight(q)' = {}
      BY <1>2, <1>3, <1>5, <1>7, <1>8, <2>1 DEF NoFault
    <3>2. Sound(disk'[q].log, stream'[q], book'[q], Flight(q)')
      BY <1>2, <1>4, <1>8, <3>1, AppendIsSound
    <3>3. \/ q \in damaged' \cup Dying'
          \/ Exact(disk'[q].log, stream'[q], book'[q], Flight(q)')
      <4>1. q \in damaged \cup Dying \/ Exact(disk[r].log, stream[r], book[r], {line})
        BY <1>2, <1>8 DEF Logs, LogOK
      <4>2. CASE Exact(disk[r].log, stream[r], book[r], {line})
        <5>1. Exact(Extend(disk[r].log, line), stream[r], book[r], {})
          BY <1>2, <1>4, <4>2, AppendIsExact
        <5>2. QED
          BY <1>8, <3>1, <5>1
      <4>3. CASE q \in damaged \cup Dying
        BY <1>2, <1>6, <1>7, <1>8, <4>3 DEF DyingStays
      <4>4. QED
        BY <4>1, <4>2, <4>3
    <3>4. QED
      BY <3>2, <3>3 DEF LogOK
  <2>2. CASE (Written(r, Fragment) \/ UNCHANGED disk) /\ Fault({r})
    <3>1. /\ disk'[q].log \in {Extend(disk[r].log, Fragment), disk[r].log}
          /\ UNCHANGED <<stream, book>> /\ Flight(q)' = {} /\ q \in damaged'
      BY <1>3, <1>5, <1>7, <1>8, <2>2, Kinds DEF Fault
    <3>2. Sound(disk'[q].log, stream'[q], book'[q], Flight(q)')
      <4>1. Sound(disk[r].log, stream[r], book[r], {})
        BY <1>2, <1>4, LossIsSound
      <4>2. Sound(Extend(disk[r].log, Fragment), stream[r], book[r], {})
        BY <1>2, <1>4, AppendIsSound
      <4>3. QED
        BY <1>8, <3>1, <4>1, <4>2
    <3>3. QED
      BY <3>1, <3>2 DEF LogOK
  <2>3. QED
    BY <1>3, <2>1, <2>2
<1>9. \A q \in Runs : LogOK(q)'
  BY <1>7, <1>8
<1>10. QED
  BY <1>9 DEF Logs

\* The record of a run, saved or not, is not its log.
LEMMA RecordKeepsLogs ==
  ASSUME Control, Logs, NEW w \in Writers,
         RunEndsUnrecorded(w) \/ OpenRecord(w) \/ FillRecord(w) \/ SaveFails(w)
  PROVE  Logs'
<1>0. PICK r : r = Current(w)
  OBVIOUS
<1>1. /\ pc[w] \in {"running", "saving"} /\ Driving(w) /\ w \in Procs
      /\ r \in Runs /\ r # NoRun /\ ~Over(r) /\ pending[w] = Nothing /\ Flight(r) = {}
  <2>1. pc[w] \in {"running", "saving"} /\ Driving(w)
    BY DEF RunEndsUnrecorded, OpenRecord, FillRecord, SaveFails, Started, Control, WriterOK
  <2>2. pending[w] = Nothing
    BY <2>1 DEF Control, WriterOK
  <2>3. QED
    BY <1>0, <2>1, <2>2, CurrentIsOwn, RunsAreNumbers, FlightIs DEF NoRun, Procs
<1>2. /\ UNCHANGED <<sweeping, book, stream, pending>>
      /\ NoFault \/ Fault({r})
      /\ \E to : pc' = [pc EXCEPT ![w] = to]
      /\ \/ UNCHANGED disk
         \/ \E rec : disk' = [disk EXCEPT ![r] = [DirOf(r) EXCEPT !.record = rec]]
  BY <1>0 DEF RunEndsUnrecorded, OpenRecord, FillRecord, SaveFails, NextRun, writing, Go
<1>3. disk'[r].log = disk[r].log /\ \A q \in Runs \ {r} : disk'[q] = disk[q]
  <2>1. CASE UNCHANGED disk
    BY <2>1
  <2>2. ASSUME NEW rec, disk' = [disk EXCEPT ![r] = [DirOf(r) EXCEPT !.record = rec]]
        PROVE  disk'[r].log = disk[r].log /\ \A q \in Runs \ {r} : disk'[q] = disk[q]
    <3>1. PICK dir : dir = [DirOf(r) EXCEPT !.record = rec]
      OBVIOUS
    <3>2. dir.log = disk[r].log
      BY <1>1, <3>1, DirOfIs
    <3>3. disk' = [disk EXCEPT ![r] = dir]
      BY <2>2, <3>1
    <3>4. QED
      BY <1>1, <3>2, <3>3 DEF Control, TypeOK
  <2>3. QED
    BY <1>2, <2>1, <2>2
<1>4. damaged \subseteq damaged' /\ \A q : Over(q) => Over(q)'
  <2>1. Goes(w)
    BY DEF Goes
  <2>2. TypeOK'
    BY <2>1, GoesKeepsControl DEF Control
  <2>3. \A v \in Writers : at[v] <= at'[v]
    BY DEF RunEndsUnrecorded, OpenRecord, FillRecord, SaveFails, NextRun, writing, Control,
       TypeOK
  <2>4. QED
    BY <1>2, <2>2, <2>3, OverStays, FaultsAdd DEF Control
<1>5. /\ \A q \in Runs : DyingStays(q)
      /\ \A q \in Runs \ {r} : LogOK(q)'
      /\ Flight(r)' = {}
  <2>1. /\ \A q \in Runs \ {r} :
             disk'[q] = disk[q] /\ book'[q] = book[q] /\ stream'[q] = stream[q]
        /\ \A v \in Writers \ {w} : pending'[v] = pending[v]
        /\ \A q \in Procs \ {w} : pc'[q] = pc[q]
        /\ pending[w].run = NoRun /\ pending'[w].run = NoRun
    BY <1>1, <1>2, <1>3 DEF Control, TypeOK, Nothing
  <2>2. QED
    BY <1>0, <1>1, <1>2, <1>4, <2>1, DrivingKeepsOtherLogs
<1>6. LogOK(r) /\ Flight(r)' = Flight(r)
  BY <1>1, <1>5 DEF Logs
<1>7. ASSUME NEW q \in Runs, q = r PROVE LogOK(q)'
  <2>1. /\ LogOK(q) /\ DyingStays(q) /\ ~Over(q) /\ Flight(q)' = Flight(q)
        /\ disk'[q].log = disk[q].log /\ stream'[q] = stream[q] /\ book'[q] = book[q]
    BY <1>1, <1>2, <1>3, <1>5, <1>6, <1>7
  <2>2. QED
    BY <1>4, <2>1, LogKept
<1>8. \A q \in Runs : LogOK(q)'
  BY <1>5, <1>7
<1>9. QED
  BY <1>8 DEF Logs

LEMMA LogsAreInductive == Control /\ Logs /\ [Next]_vars => Logs'
<1> SUFFICES ASSUME Control, Logs, [Next]_vars PROVE Logs'
  OBVIOUS
<1>1. CASE UNCHANGED vars
  BY <1>1 DEF vars, Logs, LogOK, Flight, Dying, Over, Target, First, Forgiving
<1>2. ASSUME NEW w \in Writers, Goes(w) PROVE Logs'
  BY <1>2, EmitKeepsLogs, AppendedKeepsLogs, RecordKeepsLogs DEF Goes
<1>3. CASE Next
  BY <1>2, <1>3, StepsAre, TakesKeepsLogs, RmKeepsLogs
<1>4. QED
  BY <1>1, <1>3

LEMMA Logged == Spec => [](Control /\ Logs)
<1>1. Init => Control /\ Logs
  BY StartsInControl, StartsWithLogs
<1>2. Control /\ Logs /\ [Next]_vars => (Control /\ Logs)'
  BY ControlIsInductive, LogsAreInductive
<1>3. QED
  BY <1>1, <1>2, PTL DEF Spec

LEMMA LogTypes ==
  ASSUME Control, Logs, NEW r \in Runs
  PROVE  /\ disk[r].log \in Seq(Entry) /\ stream[r] \in Seq(Line) /\ book[r] \in Counts
         /\ DOMAIN disk[r].log = 1..Len(disk[r].log) /\ Len(disk[r].log) \in Nat
         /\ LogOK(r)
<1>1. disk[r].log \in Seq(Entry) /\ stream[r] \in Seq(Line) /\ book[r] \in Counts
  BY DEF Control, TypeOK, Counts
<1>2. QED
  BY <1>1, LenProperties DEF Logs

\* The log of a run never outgrows the cap, however its lines were written or
\* lost, and log.truncated comes once and last (append_event).
THEOREM NoLogOutgrows == Spec => []LogIsCapped
<1>1. ASSUME Control, Logs, NEW r \in Runs
      PROVE  /\ Bytes(disk[r].log) <= Cap
             /\ \A i \in DOMAIN disk[r].log : disk[r].log[i] = Marker => i = Len(disk[r].log)
  <2>1. /\ disk[r].log \in Seq(Entry) /\ book[r] \in Counts
        /\ DOMAIN disk[r].log = 1..Len(disk[r].log)
        /\ Sound(disk[r].log, stream[r], book[r], Flight(r))
    BY <1>1, LogTypes DEF LogOK
  <2>2. Bytes(disk[r].log) \in Nat /\ book[r].bytes <= Cap /\ book[r].bytes \in Nat
    BY <2>1, BytesType, Numbers DEF Counts
  <2>3. Bytes(disk[r].log) <= book[r].bytes
    <3>1. CASE Flight(r) = {}
      BY <2>1, <3>1 DEF Sound
    <3>2. CASE Flight(r) # {}
      <4>1. PICK line \in Entry : Bytes(disk[r].log) + Weight(line) <= book[r].bytes
        BY <2>1, <3>2 DEF Sound
      <4>2. QED
        BY <2>2, <4>1, WeightType
    <3>3. QED
      BY <3>1, <3>2
  <2>4. QED
    BY <2>1, <2>2, <2>3, Numbers DEF Sound
<1>2. Control /\ Logs => LogIsCapped
  BY <1>1 DEF LogIsCapped, Present
<1>3. QED
  BY <1>2, Logged, PTL

\* A log whose lines are the events up to its last is a prefix of them.
LEMMA FollowsIsPrefix ==
  ASSUME NEW s \in Seq(Entry), NEW t \in Seq(Line), Follows(s, t, Len(s))
  PROVE  IsPrefix(s, t)
<1>0. Len(s) \in Nat /\ Len(t) \in Nat /\ Len(s) <= Len(t)
  BY LenProperties DEF Follows
<1>1. /\ \A i \in 1..Len(s) : s[i] = t[i] /\ i \in 1..Len(t) /\ s[i] \in Entry
      /\ \A i \in 1..Len(s) : t[i] \in Entry
  BY <1>0, ElementOfSeq, Kinds DEF Follows
<1>2. 1 \in Int /\ Len(s) \in Int /\ Len(s) - 1 + 1 = Len(s)
      /\ \A i \in 1..Len(s) : 1 + i - 1 = i
  BY <1>0
<1>3. /\ SubSeq(s, 1, Len(s)) \in Seq(Entry)
      /\ Len(SubSeq(s, 1, Len(s))) = IF 1 <= Len(s) THEN Len(s) - 1 + 1 ELSE 0
      /\ \A i \in 1..Len(s) - 1 + 1 : SubSeq(s, 1, Len(s))[i] = s[1 + i - 1]
  BY <1>1, <1>2, SubSeqProperties
<1>4. /\ SubSeq(t, 1, Len(s)) \in Seq(Entry)
      /\ Len(SubSeq(t, 1, Len(s))) = IF 1 <= Len(s) THEN Len(s) - 1 + 1 ELSE 0
      /\ \A i \in 1..Len(s) - 1 + 1 : SubSeq(t, 1, Len(s))[i] = t[1 + i - 1]
  BY <1>1, <1>2, SubSeqProperties
<1>5. SubSeq(s, 1, Len(s)) = SubSeq(t, 1, Len(s))
  <2>1. Len(SubSeq(s, 1, Len(s))) = Len(SubSeq(t, 1, Len(s)))
    BY <1>3, <1>4
  <2>2. \A i \in 1..Len(SubSeq(s, 1, Len(s))) :
          SubSeq(s, 1, Len(s))[i] = SubSeq(t, 1, Len(s))[i]
    BY <1>0, <1>1, <1>2, <1>3, <1>4
  <2>3. QED
    BY <1>3, <1>4, <2>1, <2>2, SeqEqual
<1>6. QED
  BY <1>0, <1>5 DEF IsPrefix

\* What the disk keeps of a run's events is theirs, in their order, and only a
\* failed write, a crash or a removal leaves a gap in it (run_id_for,
\* append_event).
THEOREM LogsReplay == Spec => []LogReplaysStream
<1> DEFINE lines(r) == {i \in DOMAIN disk[r].log : disk[r].log[i].n > 0}
           inFlight(r) == \E w \in Writers : pending[w].run = r
           Part(r) ==
             LET log == disk[r].log
             IN  \/ r \in damaged \cup Dying
                 \/ /\ IsPrefix(log, stream[r]) /\ ~book[r].stopped
                    /\ Len(log) = Len(stream[r]) - (IF inFlight(r) THEN 1 ELSE 0)
                 \/ IsPrefix(log, stream[r]) /\ book[r].stopped /\ inFlight(r)
                 \/ /\ log # <<>> /\ Last(log) = Marker /\ book[r].stopped
                    /\ IsStrictPrefix(Front(log), stream[r])
                    /\ Bytes(log) + stream[r][Len(log)].size > Cap
<1>1. ASSUME Control, Logs, NEW r \in Present
      PROVE  /\ \A i \in lines(r) : disk[r].log[i] = stream[r][disk[r].log[i].n]
             /\ \A i, j \in lines(r) : i < j => disk[r].log[i].n < disk[r].log[j].n
  <2>1. r \in Runs
    BY DEF Present
  <2>2. /\ DOMAIN disk[r].log = 1..Len(disk[r].log)
        /\ Sound(disk[r].log, stream[r], book[r], Flight(r))
    BY <1>1, <2>1, LogTypes DEF LogOK
  <2>3. QED
    BY <2>2 DEF Sound
<1>2. ASSUME Control, Logs, NEW r \in Present PROVE Part(r)
  <2>0. r \in Runs /\ disk[r] # Absent
    BY DEF Present
  <2> DEFINE log == disk[r].log
             Whole == /\ ~book[r].stopped /\ Follows(log, stream[r], Len(log))
                      /\ Len(log) = Len(stream[r]) - (IF inFlight(r) THEN 1 ELSE 0)
             Stopping == book[r].stopped /\ inFlight(r) /\ Follows(log, stream[r], Len(log))
             Stopped ==
               /\ book[r].stopped /\ log # <<>> /\ log[Len(log)] = Marker
               /\ Len(log) <= Len(stream[r]) /\ Follows(log, stream[r], Len(log) - 1)
               /\ Bytes(log) + stream[r][Len(log)].size > Cap
  <2>1. /\ log \in Seq(Entry) /\ stream[r] \in Seq(Line) /\ book[r] \in Counts
        /\ Len(log) \in Nat /\ Len(stream[r]) \in Nat
        /\ inFlight(r) <=> Flight(r) # {}
    BY <1>2, <2>0, LogTypes, FlightIs, LenProperties
  <2>2. r \in damaged \cup Dying \/ Exact(log, stream[r], book[r], Flight(r))
    BY <1>2, <2>0, LogTypes DEF LogOK
  <2> HIDE DEF log, inFlight
  <2>3. CASE Whole
    BY <2>1, <2>3, FollowsIsPrefix DEF log
  <2>4. CASE Stopping
    BY <2>1, <2>4, FollowsIsPrefix DEF log
  <2>5. CASE Stopped
    <3>1. /\ Front(log) \in Seq(Entry) /\ Len(Front(log)) + 1 = Len(log)
          /\ Len(Front(log)) \in Nat
          /\ \A i \in 1..Len(log) - 1 : Front(log)[i] = log[i]
      BY <2>1, <2>5, BytesOfFront, LenProperties
    <3>2. Follows(Front(log), stream[r], Len(Front(log)))
      BY <2>1, <2>5, <3>1 DEF Follows
    <3>3. IsPrefix(Front(log), stream[r])
      BY <2>1, <3>1, <3>2, FollowsIsPrefix
    <3>4. Front(log) # stream[r]
      BY <2>1, <2>5, <3>1
    <3>5. QED
      BY <2>5, <3>3, <3>4 DEF IsStrictPrefix, Last, log
  <2>6. Exact(log, stream[r], book[r], Flight(r)) => Whole \/ Stopping \/ Stopped
    BY <2>1 DEF Exact
  <2>7. QED
    BY <2>2, <2>3, <2>4, <2>5, <2>6
<1>3. Control /\ Logs => LogReplaysStream
  <2> SUFFICES ASSUME Control, Logs, NEW r \in Present
               PROVE  /\ \A i \in lines(r) : disk[r].log[i] = stream[r][disk[r].log[i].n]
                      /\ \A i, j \in lines(r) : i < j => disk[r].log[i].n < disk[r].log[j].n
                      /\ Part(r)
    BY Zenon DEF LogReplaysStream
  <2>1. QED
    BY <1>1, <1>2
<1>4. QED
  BY <1>3, Logged, PTL

-----------------------------------------------------------------------------
(* The steps, as far as the sweeps are concerned.                          *)

\* A step of a writer that drives a run leaves the sweeps alone, and of the
\* store all but that run.
LEMMA GoesAlone ==
  ASSUME Control, NEW w \in Writers, Goes(w)
  PROVE  /\ UNCHANGED sweeping /\ w \in Procs /\ ~Active(w) /\ ~Active(w)'
         /\ \A q \in Procs \ {w} : pc'[q] = pc[q]
         /\ Driving(w) /\ \A r \in Runs \ {Current(w)} : disk'[r] = disk[r]
         /\ \A r : Over(r) => Over(r)'
<1>0. w \in Procs
  BY DEF Procs
<1>1. /\ pc[w] \in {"running", "appending", "saving"} /\ Driving(w) /\ UNCHANGED sweeping
      /\ \E to \in {"running", "appending", "saving", "crashed"} :
           pc' = [pc EXCEPT ![w] = to]
  <2>1. ASSUME NEW size \in Sizes, Emit(w, size)
        PROVE  /\ pc[w] = "running" /\ Driving(w) /\ UNCHANGED sweeping
               /\ pc' = [pc EXCEPT ![w] = "running"] \/ pc' = [pc EXCEPT ![w] = "appending"]
    <3>1. pc[w] = "running" /\ Driving(w) /\ UNCHANGED sweeping
      BY <2>1 DEF Emit
    <3>2. pc' = pc \/ pc' = [pc EXCEPT ![w] = "appending"]
      BY <2>1 DEF Emit, Go
    <3>3. QED
      BY <3>1, <3>2 DEF Control, TypeOK
  <2>2. ASSUME NEW to \in {"running", "crashed"}, Appended(w, to)
        PROVE  /\ pc[w] = "appending" /\ Driving(w) /\ UNCHANGED sweeping
               /\ pc' = [pc EXCEPT ![w] = to]
    BY <2>2, AppendingIsDriving DEF Appended, Go
  <2>3. ASSUME RunEndsUnrecorded(w) \/ OpenRecord(w) \/ FillRecord(w) \/ SaveFails(w)
        PROVE  /\ pc[w] \in {"running", "saving"} /\ Driving(w) /\ UNCHANGED sweeping
               /\ pc' = [pc EXCEPT ![w] = "running"] \/ pc' = [pc EXCEPT ![w] = "saving"]
    BY <2>3 DEF RunEndsUnrecorded, OpenRecord, FillRecord, SaveFails, NextRun, Go, Started,
       Control, WriterOK
  <2>4. QED
    BY <2>1, <2>2, <2>3 DEF Goes
<1>2. \A q \in Procs \ {w} : pc'[q] = pc[q]
  BY <1>1
<1>3. ~Active(w) /\ ~Active(w)'
  BY <1>0, <1>1 DEF Active, Control, TypeOK
<1>4. \A r \in Runs \ {Current(w)} : disk'[r] = disk[r]
  BY DEF Goes, Emit, Appended, Written, RunEndsUnrecorded, OpenRecord, FillRecord, SaveFails,
     Control, TypeOK
<1>5. \A r : Over(r) => Over(r)'
  <2>1. at' = at \/ at' = [at EXCEPT ![w] = at[w] + 1]
    BY DEF Goes, Emit, Appended, RunEndsUnrecorded, OpenRecord, FillRecord, SaveFails, NextRun,
       writing
  <2>2. at \in [Writers -> Nat]
    BY DEF Control, TypeOK
  <2>3. \A v \in Writers : at[v] <= at'[v]
    BY ONLY <2>1, <2>2
  <2>4. QED
    BY <2>3, GoesKeepsControl, OverStays DEF Control
<1>6. QED
  BY <1>0, <1>1, <1>2, <1>3, <1>4, <1>5

\* The process that takes a step, as the others see it.
Others(p) ==
  \A q \in Procs \ {p} :
    pc'[q] = pc[q] /\ todo'[q] = todo[q] /\ cut'[q] = cut[q] /\ owed'[q] = owed[q]

\* A sweep lists the store.
Begins(p, c) ==
  /\ pc[p] = "start" /\ Active(p)' /\ c \in Nat \ {0} /\ \A r \in Runs \ Begun : c <= r
  /\ todo'[p] = Present /\ cut'[p] = c /\ owed'[p] = {r \in Present : AgedOut(r, c)}
  /\ driven' = driven \cup {r \in Driven : r < c} /\ UNCHANGED disk

\* An rm names a run.
Names(p, r) ==
  /\ pc[p] = "start" /\ p \notin Writers /\ disk[r].record = "whole"
  /\ todo'[p] = {} /\ cut'[p] = r /\ owed'[p] = {r} /\ UNCHANGED <<driven, disk>>

\* A sweep is done with the first run it has: it is spared, or it is gone.
Drops(p) ==
  /\ Active(p) /\ Active(p)' /\ todo[p] # {}
  /\ todo'[p] = todo[p] \ {First(p)} /\ UNCHANGED <<cut, owed, driven>>
  /\ \/ UNCHANGED disk /\ pc[p] = "sweeping" /\ ~AgedOut(First(p), cut[p])
     \/ disk' = [disk EXCEPT ![First(p)] = Absent]

\* A sweep ends at a run that another took away.
Trips(p) ==
  /\ Active(p) /\ todo[p] # {} /\ disk[First(p)] = Absent
  /\ UNCHANGED <<todo, cut, owed, driven, disk>>

\* A step that leaves the listings alone, and ends none but at its end or with
\* a fault.  Only the target of an rm leaves the store in it.
Stands(p) ==
  /\ UNCHANGED <<todo, cut, owed, driven>>
  /\ Active(p)' => Active(p)
  /\ Active(p) /\ todo[p] # {} => Active(p)' \/ faults' # 0
  /\ \A r \in Runs : disk'[r] = Absent =>
       disk[r] = Absent \/ (Active(p) /\ todo[p] = {} /\ r = cut[p])

LEMMA TakesMoves ==
  ASSUME Control, NEW p \in Procs, Takes(p) \/ Leaves(p)
  PROVE  (\E c : Begins(p, c)) \/ Drops(p) \/ Trips(p) \/ Stands(p)
<1>1. pc[p] \in {"start", "sweeping", "removing", "emptied"} \/ ~Active(p)
  BY DEF Active
<1>2. \A to : Go(p, to) => pc'[p] = to
  BY DEF Go, Control, TypeOK
<1>3. Empty # Absent
  BY DEF Empty, Absent
<1>4. ASSUME NEW c \in Past, List(p, c) PROVE Begins(p, c)
  <2>1. c \in Nat \ {0} /\ \A r \in Runs \ Begun : c <= r
    BY CutsAreNumbers DEF Past
  <2>2. QED
    BY <1>2, <1>4, <2>1 DEF List, Begins, Active, Control, TypeOK
<1>5. CASE Visit(p)
  <2>1. CASE AgedOut(First(p), cut[p])
    BY <1>2, <1>5, <2>1 DEF Visit, Stands, Active
  <2>2. CASE ~AgedOut(First(p), cut[p])
    <3>1. /\ todo' = [todo EXCEPT ![p] = todo[p] \ {First(p)}]
          /\ UNCHANGED <<pc, disk, cut, owed, driven>>
          /\ pc[p] = "sweeping" /\ todo[p] # {}
      BY <1>5, <2>2 DEF Visit
    <3>2. PICK rest : rest = todo[p] \ {First(p)}
      OBVIOUS
    <3>3. todo'[p] = rest
      BY <3>1, <3>2 DEF Control, TypeOK
    <3>4. QED
      BY <2>2, <3>1, <3>2, <3>3 DEF Drops, Active
  <2>3. QED
    BY <2>1, <2>2
<1>6. CASE Unlink(p)
  <2>1. \E t : disk' = [disk EXCEPT ![t] = Empty]
    BY <1>6 DEF Unlink
  <2>2. QED
    BY <1>2, <1>3, <1>6, <2>1 DEF Unlink, sweeping, Stands, Active, Control, TypeOK
<1>7. CASE Rmdir(p)
  <2>1. PICK t : t = Target(p)
    OBVIOUS
  <2>2. PICK rest : rest = todo[p] \ {t}
    OBVIOUS
  <2>3. /\ pc[p] = "emptied" /\ UNCHANGED <<cut, owed, driven>>
        /\ disk' = [disk EXCEPT ![t] = Absent] /\ todo' = [todo EXCEPT ![p] = rest]
        /\ Go(p, IF todo[p] = {} THEN "done" ELSE "sweeping")
    BY <1>7, <2>1, <2>2, TargetIs DEF Rmdir
  <2>4. CASE todo[p] = {}
    <3>1. t = cut[p] /\ rest = {}
      BY <2>1, <2>2, <2>4, TargetIs
    <3>2. UNCHANGED todo
      BY <2>3, <2>4, <3>1 DEF Control, TypeOK
    <3>3. \A r \in Runs : disk'[r] = Absent => disk[r] = Absent \/ r = cut[p]
      BY <2>3, <3>1 DEF Control, TypeOK
    <3>4. QED
      BY <1>2, <2>3, <2>4, <3>2, <3>3 DEF Stands, Active
  <2>5. CASE todo[p] # {}
    <3>1. t = First(p)
      BY <2>1, <2>5, TargetIs DEF First
    <3>2. todo'[p] = rest /\ pc'[p] = "sweeping"
      BY <1>2, <2>3, <2>5 DEF Control, TypeOK
    <3>3. QED
      BY <2>2, <2>3, <2>5, <3>1, <3>2 DEF Drops, Active
  <2>6. QED
    BY <2>4, <2>5
<1>8. CASE SweepEnds(p)
  BY <1>2, <1>8 DEF SweepEnds, sweeping, Stands, Active
<1>9. CASE AlreadyGone(p)
  <2>1. /\ pc[p] \in {"removing", "emptied"} /\ disk[Target(p)] = Absent
        /\ UNCHANGED <<todo, cut, owed, driven, disk>>
        /\ \E to \in {"done", "running", "failed"} : Go(p, to)
    BY <1>9 DEF AlreadyGone, SweepFails, sweeping
  <2>2. CASE todo[p] = {}
    BY <1>2, <2>1, <2>2 DEF Stands, Active
  <2>3. CASE todo[p] # {}
    <3>1. Target(p) = First(p)
      BY <2>3, TargetIs DEF First
    <3>2. QED
      BY <2>1, <2>3, <3>1 DEF Trips, Active
  <2>4. QED
    BY <2>2, <2>3
<1>10. CASE RemoveRefused(p) \/ Falls(p)
  <2>1. /\ UNCHANGED <<todo, cut, owed, driven, disk>> /\ faults' = faults + 1
        /\ \E to \in {"running", "failed", "crashed"} : Go(p, to)
    BY <1>10 DEF RemoveRefused, SweepFails, Falls, Fault, sweeping
  <2>2. faults' # 0
    BY <2>1, Numbers DEF Control, TypeOK
  <2>3. QED
    BY <1>2, <2>1, <2>2 DEF Stands, Active
<1>11. CASE Leaves(p)
  <2>1. /\ UNCHANGED <<todo, cut, owed, driven, disk>> /\ pc[p] \in {"start", "running"}
        /\ \E to \in {"done", "failed"} : Go(p, to)
    BY <1>11 DEF Leaves, Query, WriterEnds, SinkRefuses, sweeping
  <2>2. QED
    BY <1>2, <2>1 DEF Stands, Active
<1>12. QED
  BY <1>4, <1>5, <1>6, <1>7, <1>8, <1>9, <1>10, <1>11 DEF Takes

LEMMA RmMoves ==
  ASSUME Control, NEW k \in Keepers, NEW r \in Runs, Rm(k, r)
  PROVE  Others(k) /\ (Names(k, r) \/ Stands(k))
<1>0. k \in Procs /\ k \notin Writers
  BY Apart
<1>1. pc[k] = "start" /\ todo[k] = {} /\ UNCHANGED <<disk, todo, driven>>
  BY <1>0 DEF Rm, Control, ProcOK
<1>2. CASE disk[r].record = "whole"
  <2>1. /\ pc' = [pc EXCEPT ![k] = "removing"]
        /\ cut' = [cut EXCEPT ![k] = r] /\ owed' = [owed EXCEPT ![k] = {r}]
    BY <1>2 DEF Rm, Go
  <2>2. QED
    BY <1>0, <1>1, <1>2, <2>1 DEF Others, Names, Control, TypeOK
<1>3. CASE disk[r].record # "whole"
  <2>1. pc' = [pc EXCEPT ![k] = "failed"] /\ UNCHANGED <<cut, owed>>
    BY <1>3 DEF Rm, Go
  <2>2. QED
    BY <1>0, <1>1, <2>1 DEF Others, Stands, Active, Control, TypeOK
<1>4. QED
  BY <1>2, <1>3

LEMMA GoesMoves ==
  ASSUME Control, NEW w \in Writers, Goes(w)
  PROVE  Others(w) /\ Stands(w)
<1>1. /\ UNCHANGED <<todo, cut, owed, driven>> /\ w \in Procs /\ ~Active(w) /\ ~Active(w)'
      /\ \A q \in Procs \ {w} : pc'[q] = pc[q]
  BY GoesAlone DEF sweeping
<1>2. \A r \in Runs : disk'[r] = Absent => disk[r] = Absent
  BY WritersTakeNothing
<1>3. QED
  BY <1>1, <1>2 DEF Others, Stands

LEMMA MovesAre ==
  ASSUME Control, Next
  PROVE  \E p \in Procs :
           /\ Others(p)
           /\ \/ \E c : Begins(p, c)
              \/ \E r \in Runs : Names(p, r)
              \/ Drops(p) \/ Trips(p) \/ Stands(p)
<1>1. ASSUME NEW p \in Procs, Takes(p) \/ Leaves(p) PROVE Others(p)
  BY <1>1, TakesShrinks DEF Others
<1>2. Writers \subseteq Procs /\ Keepers \subseteq Procs
  BY Apart
<1>3. QED
  BY <1>1, <1>2, StepsAre, TakesMoves, RmMoves, GoesMoves

\* What a step does to the runs of the store, and to the history.
LEMMA StoreMoves ==
  ASSUME Control, Next
  PROVE  /\ driven \subseteq driven'
         /\ \A r : Over(r) => Over(r)'
         /\ \A r \in Runs : DyingStays(r) /\ Shrinks(r)
         /\ faults' = 0 => faults = 0 /\ damaged' = damaged
<1>1. driven \subseteq driven'
  BY MovesAre DEF Begins, Names, Drops, Trips, Stands
<1>2. ASSUME NEW w \in Writers, Goes(w)
      PROVE  /\ \A r : Over(r) => Over(r)'
             /\ \A r \in Runs : DyingStays(r) /\ Shrinks(r)
  <2>1. /\ UNCHANGED <<todo, cut>> /\ ~Active(w) /\ \A q \in Procs \ {w} : pc'[q] = pc[q]
        /\ Driving(w) /\ \A r \in Runs \ {Current(w)} : disk'[r] = disk[r]
        /\ \A r : Over(r) => Over(r)'
    BY <1>2, GoesAlone DEF sweeping
  <2>2. ~Over(Current(w))
    BY <2>1, CurrentIsOwn
  <2>3. \A r \in Runs : DyingStays(r)
    BY <2>1, RestOfDying DEF DyingStays, Active
  <2>4. QED
    BY <2>1, <2>2, <2>3 DEF Shrinks
<1>3. ASSUME NEW k \in Keepers, NEW u \in Runs, Rm(k, u)
      PROVE  /\ \A r : Over(r) => Over(r)'
             /\ \A r \in Runs : DyingStays(r) /\ Shrinks(r)
  <2>1. pc[k] = "start" /\ UNCHANGED <<disk, writing, todo>>
    BY <1>3 DEF Rm
  <2>2. \A q \in Procs \ {k} : pc'[q] = pc[q] /\ todo'[q] = todo[q] /\ cut'[q] = cut[q]
    BY <1>3, RmMoves DEF Others
  <2>3. \A r \in Runs : DyingStays(r)
    BY <2>1, <2>2, RestOfDying DEF DyingStays
  <2>4. QED
    BY <2>1, <2>3 DEF Shrinks, Over, writing
<1>4. \E rs : NoFault \/ Fault(rs)
  <2>1. \A p : Takes(p) \/ Leaves(p) => \E rs : NoFault \/ Fault(rs)
    BY DEF Takes, Leaves, List, Visit, Unlink, Rmdir, SweepEnds, AlreadyGone, RemoveRefused,
       Falls, Query, WriterEnds, SinkRefuses
  <2>2. \A w : Goes(w) => \E rs : NoFault \/ Fault(rs)
    BY DEF Goes, Emit, Appended, RunEndsUnrecorded, OpenRecord, FillRecord, SaveFails
  <2>3. \A k, r : Rm(k, r) => NoFault
    BY DEF Rm
  <2>4. QED
    BY <2>1, <2>2, <2>3, StepsAre
<1>5. faults' = 0 => faults = 0 /\ damaged' = damaged
  <2>1. ASSUME NEW rs, Fault(rs) PROVE faults' # 0
    BY <2>1, Numbers DEF Fault, Control, TypeOK
  <2>2. QED
    BY <1>4, <2>1 DEF NoFault
<1>6. QED
  BY <1>1, <1>2, <1>3, <1>5, StepsAre, TakesShrinks

\* A sweep comes before the runs of its own writer.
OwnRunsAreLater == \A q \in Procs : \A r \in Runs : Active(q) /\ Over(r) => ~Wrote(q, r)

LEMMA SweepsComeFirst == Control => OwnRunsAreLater
<1> SUFFICES ASSUME Control, NEW q \in Procs, NEW r \in Runs, Active(q), Over(r), Wrote(q, r)
             PROVE  FALSE
  BY DEF OwnRunsAreLater
<1>1. q \in Writers /\ at[q] = 1
  BY DEF Active, Wrote, Control, WriterOK
<1>2. PICK i \in Steps(q) : Plan[q][i] = r
  <2>1. Plan[q] \in Seq(Nat \ {0})
    BY <1>1, RunStoreAssumption
  <2>2. DOMAIN Plan[q] = Steps(q)
    BY <2>1, LenProperties DEF Steps
  <2>3. QED
    BY <2>2 DEF Wrote, PlannedOf, Range
<1>3. PICK v \in Writers : \E j \in Steps(v) : j < at[v] /\ Plan[v][j] = r
  BY <1>1, <1>2, PlansAreApart DEF Over
<1>4. v = q
  BY <1>1, <1>2, <1>3, PlansAreApart
<1>5. QED
  BY <1>1, <1>3, <1>4, PlansAreFinite DEF Steps

-----------------------------------------------------------------------------
(* The aged runs go.                                                       *)

\* A run that has begun is driven by some writer or is over.
LEMMA BegunIs ==
  ASSUME Control, NEW r \in Begun, r \notin Driven
  PROVE  Over(r)
<1>1. CASE r \in OldRuns
  BY <1>1 DEF Over
<1>2. CASE r \notin OldRuns
  <2>1. PICK w \in Writers : r \in PlannedOf(w)
    BY <1>2 DEF Begun, Runs
  <2>2. PICK i \in Steps(w) : Plan[w][i] = r
    <3>1. Plan[w] \in Seq(Nat \ {0})
      BY RunStoreAssumption
    <3>2. DOMAIN Plan[w] = Steps(w)
      BY <3>1, LenProperties DEF Steps
    <3>3. QED
      BY <2>1, <3>2 DEF PlannedOf, Range
  <2>3. ~(i > at[w])
    BY <1>2, <2>2 DEF Begun, Control, WriterOK
  <2>4. i # at[w]
    BY <2>2 DEF Driven, Driving, Current, Steps
  <2>5. i < at[w]
    BY <2>3, <2>4, PlansAreFinite DEF Steps, Control, TypeOK
  <2>6. QED
    BY <2>2, <2>5 DEF Over
<1>3. QED
  BY <1>1, <1>2

LEMMA FirstOf ==
  ASSUME Control, NEW p \in Procs, todo[p] # {}
  PROVE  /\ First(p) \in todo[p] /\ First(p) \in Runs /\ First(p) \in Nat /\ todo[p] \subseteq Nat
         /\ \A u \in todo[p] : First(p) <= u
<1>1. todo[p] \in SUBSET Runs
  BY DEF Control, TypeOK
<1>2. QED
  BY <1>1, MinIsLeast, RunsAreNumbers DEF First

\* What is over and gone is gone for good.
LEMMA GoneStays ==
  ASSUME Control, Next, NEW r \in Runs, Over(r), disk[r] = Absent
  PROVE  disk'[r] = Absent
BY StoreMoves DEF Shrinks

LEMMA ListingsAre ==
  ASSUME Control, Sweeping, Next, NEW q \in Procs
  PROVE  ListingOK(q)'
<1>1. ListingOK(q)
  BY DEF Sweeping
<1>2. ASSUME todo'[q] = todo[q], cut'[q] = cut[q] PROVE ListingOK(q)'
  <2>1. ASSUME NEW r \in Runs, r \notin driven', todo[q] # {}, r < cut[q]
        PROVE  /\ Over(r)'
               /\ r \in todo[q] \/ disk'[r] = Absent \/ \A t \in todo[q] : r < t
    <3>1. r \in Runs \ driven /\ (Over(r) => Over(r)')
      BY <2>1, StoreMoves
    <3>2. Over(r) /\ (r \in todo[q] \/ disk[r] = Absent \/ \A t \in todo[q] : r < t)
      BY <1>1, <2>1, <3>1 DEF ListingOK
    <3>3. QED
      BY <3>1, <3>2, GoneStays
  <2>2. QED
    BY <1>1, <1>2, <2>1 DEF ListingOK
<1>3. ASSUME NEW c, Begins(q, c) PROVE ListingOK(q)'
  <2>1. ASSUME NEW r \in Runs, r \notin driven', r < c
        PROVE  Over(r)' /\ (r \in Present \/ disk'[r] = Absent)
    <3>1. r \notin Driven
      BY <1>3, <2>1 DEF Begins
    <3>2. r \in Begun
      BY <1>3, <2>1, RunsAreNumbers DEF Begins
    <3>3. Over(r) /\ Over(r)'
      BY <3>1, <3>2, BegunIs, StoreMoves
    <3>4. disk'[r] = disk[r]
      BY <1>3 DEF Begins
    <3>5. QED
      BY <3>3, <3>4 DEF Present
  <2>2. QED
    BY <1>3, <2>1 DEF Begins, ListingOK
<1>4. CASE Drops(q)
  <2>0. PICK m : m = First(q)
    OBVIOUS
  <2>1. /\ m \in todo[q] /\ m \in Nat /\ \A u \in todo[q] : u \in Nat /\ m <= u
        /\ todo'[q] = todo[q] \ {m} /\ cut'[q] = cut[q]
    BY <1>4, <2>0, FirstOf DEF Drops
  <2>2. ASSUME NEW r \in Runs, r \notin driven', r < cut[q]
        PROVE  /\ Over(r)'
               /\ r \in todo'[q] \/ disk'[r] = Absent \/ \A t \in todo'[q] : r < t
    <3>1. r \in Runs \ driven /\ (Over(r) => Over(r)')
      BY <2>2, StoreMoves
    <3>2. Over(r) /\ (r \in todo[q] \/ disk[r] = Absent \/ \A t \in todo[q] : r < t)
      BY <1>1, <2>1, <2>2, <3>1 DEF ListingOK
    <3>3. CASE r = m
      <4>1. \A t \in todo'[q] : r < t
        BY <2>1, <3>3
      <4>2. QED
        BY <3>1, <3>2, <4>1
    <3>4. CASE r # m
      BY <2>1, <3>1, <3>2, <3>4, GoneStays
    <3>5. QED
      BY <3>3, <3>4
  <2>3. QED
    BY <1>1, <2>1, <2>2 DEF ListingOK
<1>5. ASSUME NEW r \in Runs, Names(q, r) PROVE ListingOK(q)'
  BY <1>5 DEF Names, ListingOK
<1>6. PICK p \in Procs : /\ Others(p)
                         /\ \/ \E c : Begins(p, c)
                            \/ \E r \in Runs : Names(p, r)
                            \/ Drops(p) \/ Trips(p) \/ Stands(p)
  BY MovesAre
<1>7. CASE q # p
  BY <1>2, <1>6, <1>7 DEF Others
<1>8. CASE q = p
  BY <1>2, <1>3, <1>4, <1>5, <1>6, <1>8 DEF Trips, Stands
<1>9. QED
  BY <1>7, <1>8

\* What comes to be owed is whole.
LEMMA NewlyOwed ==
  ASSUME Control, Next, NEW r \in Runs, Owed(r)', ~Owed(r)
  PROVE  disk[r].record = "whole" /\ disk'[r] = disk[r]
<1>1. PICK q \in Procs : r \in owed'[q] /\ r \notin owed[q]
  BY DEF Owed
<1>2. PICK p \in Procs : /\ Others(p)
                         /\ \/ \E c : Begins(p, c)
                            \/ \E u \in Runs : Names(p, u)
                            \/ Drops(p) \/ Trips(p) \/ Stands(p)
  BY MovesAre
<1>3. q = p
  BY <1>1, <1>2 DEF Others
<1>4. QED
  BY <1>1, <1>2, <1>3 DEF Begins, Names, Drops, Trips, Stands, AgedOut

LEMMA OwedIs ==
  ASSUME Control, Sweeping, Next, NEW r \in Runs
  PROVE  OwedOK(r)'
<1> SUFFICES ASSUME Owed(r)'
             PROVE  /\ Over(r)'
                    /\ disk'[r].record = "whole" \/ disk'[r] \in {Absent, Empty}
                    /\ faults' = 0 /\ disk'[r] = Empty => r \in Dying'
  BY DEF OwedOK
<1>1. CASE Owed(r)
  <2>1. /\ Over(r) /\ (disk[r].record = "whole" \/ disk[r] \in {Absent, Empty})
        /\ faults = 0 /\ disk[r] = Empty => r \in Dying
    BY <1>1 DEF Sweeping, OwedOK
  <2>2. /\ Over(r)' /\ Shrinks(r) /\ DyingStays(r)
        /\ faults' = 0 => faults = 0 /\ damaged' = damaged
    BY <2>1, StoreMoves
  <2>3. faults' = 0 /\ disk'[r] = Empty => r \in Dying'
    <3>1. SUFFICES ASSUME faults' = 0, disk'[r] = Empty, disk'[r] = disk[r] PROVE r \in Dying'
      BY <2>1, <2>2 DEF Shrinks, Empty, Absent
    <3>2. r \in Dying /\ r \notin damaged'
      BY <2>1, <2>2, <3>1 DEF Sweeping
    <3>3. QED
      BY <2>2, <3>1, <3>2 DEF DyingStays, Empty, Absent
  <2>4. QED
    BY <2>1, <2>2, <2>3 DEF Shrinks
<1>2. CASE ~Owed(r)
  <2>1. disk[r].record = "whole" /\ disk'[r] = disk[r]
    BY <1>2, NewlyOwed
  <2>2. Over(r)'
    BY <2>1, StoreMoves DEF Control, RunOK
  <2>3. QED
    BY <2>1, <2>2 DEF Empty
<1>3. QED
  BY <1>1, <1>2

LEMMA UnsparedWas ==
  ASSUME Control, Next, NEW r \in Runs, Unspared(r)'
  PROVE  Unspared(r)
<1>1. PICK p \in Procs : /\ Others(p)
                         /\ \/ \E c : Begins(p, c)
                            \/ \E u \in Runs : Names(p, u)
                            \/ Drops(p) \/ Trips(p) \/ Stands(p)
  BY MovesAre
<1>2. ASSUME NEW q \in Procs, cut[q] # 0 PROVE r < cut[q] \/ Wrote(q, r)
  <2>1. pc[q] # "start"
    BY <1>2 DEF Control, ProcOK
  <2>2. cut'[q] = cut[q]
    BY <1>1, <2>1 DEF Others, Begins, Names, Drops, Trips, Stands
  <2>3. QED
    BY <1>2, <2>2 DEF Unspared, Wrote
<1>3. QED
  BY <1>2 DEF Unspared

LEMMA RipeIsOver ==
  ASSUME Control, Sweeping, NEW r \in Runs, Ripe(r)
  PROVE  Over(r)
BY DEF Ripe, Control, RunOK, Sweeping, OwedOK

LEMMA RipeWas ==
  ASSUME Control, Sweeping, Next, NEW r \in Runs, Over(r), Ripe(r)'
  PROVE  Ripe(r)
<1>1. r \notin driven /\ Unspared(r) /\ Shrinks(r)
  BY UnsparedWas, StoreMoves DEF Ripe
<1>2. disk'[r].record = "whole" => disk[r].record = "whole"
  BY <1>1 DEF Shrinks, Empty, Absent
<1>3. QED
  BY <1>1, <1>2, NewlyOwed DEF Ripe

\* A sweep reaches past every run that must go.
LEMMA SweepsReach ==
  ASSUME Control, NEW q \in Procs, Active(q), cut[q] # 0, NEW r \in Runs, Over(r), Unspared(r)
  PROVE  r < cut[q]
BY SweepsComeFirst DEF OwnRunsAreLater, Unspared

\* A run that must go stays covered: who spares it waits for its removal, who
\* trips before it leaves another behind.
LEMMA CoverMoves ==
  ASSUME Control, Sweeping, Next, NEW r \in Runs, Ripe(r), faults' = 0,
         NEW t \in Nat, Covered(r, t)
  PROVE  Covered(r, t)'
<1>1. Over(r) /\ Unspared(r) /\ faults = 0
  BY RipeIsOver, StoreMoves DEF Ripe
<1>2. ASSUME disk[r] = Absent PROVE Covered(r, t)'
  BY <1>1, <1>2, GoneStays DEF Covered
<1>3. PICK p \in Procs : /\ Others(p)
                         /\ \/ \E c : Begins(p, c)
                            \/ \E u \in Runs : Names(p, u)
                            \/ Drops(p) \/ Trips(p) \/ Stands(p)
  BY MovesAre
<1>4. ASSUME NEW q \in Procs \ {p}, Active(q), r \in todo[q], \A u \in todo[q] : t < u
      PROVE  Covered(r, t)'
  <2>1. todo'[q] = todo[q] /\ Active(q)'
    BY <1>3, <1>4 DEF Others, Active
  <2>2. QED
    BY <1>4, <2>1 DEF Covered
<1>5. ASSUME Active(p), r \in todo[p], \A u \in todo[p] : t < u, disk[r] # Absent
      PROVE  Covered(r, t)'
  <2>0. PICK m : m = First(p)
    OBVIOUS
  <2>1. /\ m \in todo[p] /\ m \in Nat /\ \A u \in todo[p] : u \in Nat /\ m <= u
        /\ t < m /\ r \in Nat
    BY <1>5, <2>0, FirstOf
  <2>2. cut[p] # 0 /\ r < cut[p]
    <3>1. cut[p] # 0
      BY <1>5 DEF Sweeping, ListingOK
    <3>2. QED
      BY <1>1, <1>5, <3>1, SweepsReach
  <2>3. CASE Stands(p)
    BY <1>5, <2>3 DEF Stands, Covered
  <2>4. CASE Trips(p)
    <3>1. disk[m] = Absent /\ m < r
      BY <1>5, <2>0, <2>1, <2>4 DEF Trips
    <3>2. Covered(r, m)
      BY <1>1, <1>5, <2>1, <3>1 DEF Sweeping, CoverOK
    <3>3. PICK q \in Procs : Active(q) /\ r \in todo[q] /\ \A u \in todo[q] : m < u
      BY <1>5, <3>2 DEF Covered
    <3>4. q # p
      BY <2>1, <3>3
    <3>5. \A u \in todo[q] : t < u
      <4>1. todo[q] \subseteq Nat
        BY <3>3, FirstOf
      <4>2. QED
        BY <2>1, <3>3, <4>1
    <3>6. QED
      BY <1>4, <3>3, <3>4, <3>5
  <2>5. CASE Drops(p) /\ r # m
    <3>1. Active(p)' /\ todo'[p] = todo[p] \ {m}
      BY <2>0, <2>5 DEF Drops
    <3>2. QED
      BY <1>5, <2>5, <3>1 DEF Covered
  <2>6. CASE Drops(p) /\ r = m
    <3>1. CASE disk' = [disk EXCEPT ![m] = Absent]
      BY <2>6, <3>1 DEF Covered, Control, TypeOK
    <3>2. CASE pc[p] = "sweeping" /\ ~AgedOut(m, cut[p])
      <4>1. disk[r].record # "whole"
        BY <2>2, <2>6, <3>2 DEF AgedOut
      <4>2. disk[r] = Empty /\ r \in Dying
        BY <1>1, <1>5, <4>1 DEF Ripe, Sweeping, OwedOK
      <4>3. PICK q \in Procs : pc[q] = "emptied" /\ r = Target(q)
        BY <4>2 DEF Dying
      <4>4. q # p /\ Active(q)
        BY <3>2, <4>3 DEF Active
      <4>5. todo[q] # {}
        <5>1. SUFFICES ASSUME todo[q] = {} PROVE FALSE
          OBVIOUS
        <5>2. cut[q] = r
          BY <4>3, <5>1, TargetIs
        <5>3. r # 0 /\ ~(r < r)
          BY <2>1, RunsAreNumbers
        <5>4. QED
          BY <1>1, <4>4, <5>2, <5>3, SweepsReach
      <4>6. First(q) = r
        BY <4>3, <4>5, TargetIs DEF First
      <4>7. r \in todo[q] /\ \A u \in todo[q] : u \in Nat /\ r <= u
        BY <4>5, <4>6, FirstOf
      <4>8. \A u \in todo[q] : t < u
        BY <2>1, <2>6, <4>7
      <4>9. QED
        BY <1>4, <4>4, <4>7, <4>8
    <3>3. QED
      BY <2>0, <2>6, <3>1, <3>2 DEF Drops
  <2>7. pc[p] # "start"
    BY <1>5 DEF Active
  <2>8. QED
    BY <1>3, <2>3, <2>4, <2>5, <2>6, <2>7 DEF Begins, Names
<1>6. QED
  BY <1>2, <1>4, <1>5 DEF Covered

LEMMA CoversAre ==
  ASSUME Control, Sweeping, Next, Control', NEW r \in Runs
  PROVE  CoverOK(r)'
<1> SUFFICES ASSUME faults' = 0, Ripe(r)'
             PROVE  /\ Owed(r)' => Covered(r, 0)'
                    /\ \A q \in Procs : \A t \in todo'[q] :
                         Active(q)' /\ r \in todo'[q] /\ t < r /\ disk'[t] = Absent
                           => Covered(r, t)'
  BY DEF CoverOK
<1>1. /\ r \notin driven /\ Unspared(r) /\ faults = 0 /\ r \in Nat \ {0}
      /\ r \notin driven' /\ Unspared(r)'
  BY UnsparedWas, StoreMoves, RunsAreNumbers DEF Ripe
<1>2. PICK p \in Procs : /\ Others(p)
                         /\ \/ \E c : Begins(p, c)
                            \/ \E u \in Runs : Names(p, u)
                            \/ Drops(p) \/ Trips(p) \/ Stands(p)
  BY MovesAre
<1>3. \A q \in Procs : todo[q] \subseteq Nat /\ todo'[q] \subseteq Nat
  BY RunsAreNumbers DEF Control, TypeOK
<1>4. ASSUME NEW q \in Procs, NEW t \in todo'[q], Active(q)', disk'[t] = Absent
      PROVE  Active(q) /\ todo'[q] \subseteq todo[q] /\ cut'[q] = cut[q]
  <2>1. CASE q # p
    BY <1>2, <1>4, <2>1 DEF Others, Active
  <2>2. ASSUME NEW c, Begins(q, c) PROVE FALSE
    BY <1>4, <2>2 DEF Begins, Present
  <2>3. ASSUME NEW u, Names(q, u) PROVE FALSE
    BY <1>4, <2>3 DEF Names
  <2>4. Drops(q) \/ Trips(q) \/ Stands(q)
           => Active(q) /\ todo'[q] \subseteq todo[q] /\ cut'[q] = cut[q]
    BY <1>4 DEF Drops, Trips, Stands
  <2>5. QED
    BY <1>2, <2>1, <2>2, <2>3, <2>4
<1>5. CASE ~Over(r)
  <2>1. disk[r].record # "whole" /\ ~Owed(r)
    BY <1>5 DEF Control, RunOK, Sweeping, OwedOK
  <2>2. ~Owed(r)'
    BY <2>1, NewlyOwed
  <2>3. Over(r)'
    BY <2>2 DEF Ripe, Control, RunOK
  <2>4. ASSUME NEW q \in Procs, NEW t \in todo'[q], Active(q)', disk'[t] = Absent
        PROVE  FALSE
    <3>1. Active(q) /\ todo[q] # {} /\ cut'[q] = cut[q]
      BY <1>4, <2>4
    <3>2. cut[q] # 0 /\ ~(r < cut[q])
      BY <1>1, <1>5, <3>1 DEF Sweeping, ListingOK
    <3>3. Wrote(q, r)
      BY <1>1, <3>1, <3>2 DEF Unspared
    <3>4. OwnRunsAreLater'
      BY SweepsComeFirst, PTL
    <3>5. QED
      BY <2>3, <2>4, <3>3, <3>4 DEF OwnRunsAreLater, Wrote
  <2>5. QED
    BY <2>2, <2>4
<1>6. CASE Over(r)
  <2>1. Ripe(r)
    BY <1>6, RipeWas
  <2>2. ASSUME Owed(r)' PROVE Covered(r, 0)'
    <3>1. CASE Owed(r)
      BY <1>1, <2>1, <3>1, CoverMoves DEF Sweeping, CoverOK
    <3>2. CASE ~Owed(r)
      <4>1. r \in owed'[p] /\ r \notin owed[p]
        BY <1>2, <2>2, <3>2 DEF Owed, Others
      <4>2. ASSUME NEW u, Names(p, u) PROVE FALSE
        <5>1. u = r /\ cut'[p] = r /\ p \notin Writers
          BY <4>1, <4>2 DEF Names
        <5>2. ~(r < r)
          BY <1>1
        <5>3. QED
          BY <1>1, <5>1, <5>2 DEF Unspared, Wrote
      <4>3. ASSUME NEW c, Begins(p, c) PROVE Covered(r, 0)'
        <5>1. r \in todo'[p] /\ Active(p)'
          BY <4>1, <4>3 DEF Begins
        <5>2. \A u \in todo'[p] : 0 < u
          <6>1. todo'[p] \subseteq Nat \ {0}
            BY <4>3, RunsAreNumbers DEF Begins, Present
          <6>2. QED
            BY <6>1
        <5>3. QED
          BY <5>1, <5>2 DEF Covered
      <4>4. QED
        BY <1>2, <4>1, <4>2, <4>3 DEF Drops, Trips, Stands
    <3>3. QED
      BY <3>1, <3>2
  <2>3. ASSUME NEW q \in Procs, NEW t \in todo'[q],
               Active(q)', r \in todo'[q], t < r, disk'[t] = Absent
        PROVE  Covered(r, t)'
    <3>1. Active(q) /\ t \in todo[q] /\ r \in todo[q] /\ t \in Nat
      BY <1>3, <1>4, <2>3
    <3>2. CASE disk[t] = Absent
      BY <1>1, <2>1, <2>3, <3>1, <3>2, CoverMoves DEF Sweeping, CoverOK
    <3>3. CASE disk[t] # Absent
      <4>1. t \in Runs
        BY <3>1 DEF Control, TypeOK
      <4>2. CASE Stands(p)
        <5>1. Active(p) /\ t = cut[p]
          BY <2>3, <3>3, <4>1, <4>2 DEF Stands
        <5>2. t # 0 /\ ~(r < t)
          <6>1. t \in Nat \ {0}
            BY <4>1, RunsAreNumbers
          <6>2. QED
            BY <1>1, <2>3, <6>1
        <5>3. QED
          BY <1>1, <1>6, <5>1, <5>2, SweepsReach
      <4>3. CASE Drops(p)
        <5>1. Active(p) /\ Active(p)' /\ todo[p] # {}
          BY <4>3 DEF Drops
        <5>2. t = First(p) /\ todo'[p] = todo[p] \ {t}
          <6>1. PICK m : m = First(p)
            OBVIOUS
          <6>2. UNCHANGED disk \/ disk' = [disk EXCEPT ![m] = Absent]
            BY <4>3, <6>1 DEF Drops
          <6>3. t = m
            BY <2>3, <3>3, <4>1, <6>2 DEF Control, TypeOK
          <6>4. QED
            BY <4>3, <6>1, <6>3 DEF Drops
        <5>3. cut[p] # 0 /\ r < cut[p]
          <6>1. cut[p] # 0
            BY <5>1 DEF Sweeping, ListingOK
          <6>2. QED
            BY <1>1, <1>6, <5>1, <6>1, SweepsReach
        <5>4. /\ t \in todo[p]
              /\ \A u \in todo'[p] : t < u
          BY <1>3, <5>1, <5>2, FirstOf
        <5>5. r \in todo[p] \/ disk[r] = Absent
          BY <1>1, <2>3, <3>1, <5>1, <5>3, <5>4 DEF Sweeping, ListingOK
        <5>6. CASE disk[r] = Absent
          BY <1>6, <5>6, GoneStays DEF Covered
        <5>7. CASE r \in todo[p]
          <6>1. r \in todo'[p]
            BY <1>1, <2>3, <3>1, <5>2, <5>7
          <6>2. QED
            BY <5>1, <5>4, <6>1 DEF Covered
        <5>8. QED
          BY <5>5, <5>6, <5>7
      <4>4. QED
        BY <1>2, <2>3, <3>3, <4>2, <4>3 DEF Begins, Names, Trips
    <3>4. QED
      BY <3>2, <3>3
  <2>4. QED
    BY <2>2, <2>3
<1>7. QED
  BY <1>5, <1>6

LEMMA StartsSweeping == Init => Sweeping
BY DEF Init, Sweeping, ListingOK, OwedOK, CoverOK, Owed

LEMMA SweepingIsInductive == Control /\ Control' /\ Sweeping /\ [Next]_vars => Sweeping'
<1> SUFFICES ASSUME Control, Control', Sweeping, [Next]_vars PROVE Sweeping'
  OBVIOUS
<1>1. CASE UNCHANGED vars
  BY <1>1 DEF vars, Sweeping, ListingOK, OwedOK, CoverOK, Owed, Ripe, Unspared, Covered,
     Active, Over, Dying, Target, First, Forgiving, Wrote
<1>2. CASE Next
  <2>1. faults' = 0 => damaged' = {}
    BY <1>2, StoreMoves DEF Sweeping
  <2>2. QED
    BY <1>2, <2>1, ListingsAre, OwedIs, CoversAre DEF Sweeping
<1>3. QED
  BY <1>1, <1>2

LEMMA Swept == Spec => [](Control /\ Sweeping)
<1>1. Init => Control /\ Sweeping
  BY StartsInControl, StartsSweeping
<1>2. Control /\ Sweeping /\ [Next]_vars => Control' /\ Sweeping'
  BY ControlIsInductive, SweepingIsInductive
<1>3. QED
  BY <1>1, <1>2, PTL DEF Spec

\* However sweeps get in each other's way, the aged runs go: when all are over
\* and nothing failed, what was owed and not spared has left the store (sweep,
\* remove_dir_all, sweep_retention).
THEOREM AgedRunsGo == Spec => []SweptTogether
<1>1. Control /\ Sweeping => SweptTogether
  <2> SUFFICES ASSUME Control, Sweeping, faults = 0,
                      \A q \in Procs : pc[q] \notin {"sweeping", "removing", "emptied"},
                      NEW p \in Procs, NEW r \in owed[p], r \notin driven,
                      \A q \in Procs : cut[q] # 0 => r < cut[q] \/ Wrote(q, r)
               PROVE  disk[r] = Absent
    BY DEF SweptTogether
  <2>1. r \in Runs /\ Owed(r)
    BY DEF Owed, Control, TypeOK
  <2>2. Ripe(r)
    BY <2>1 DEF Ripe, Unspared
  <2>3. Covered(r, 0)
    BY <2>1, <2>2 DEF Sweeping, CoverOK
  <2>4. QED
    BY <2>3 DEF Covered, Active
<1>2. QED
  BY <1>1, Swept, PTL

=============================================================================
