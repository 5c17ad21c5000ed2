-------------------------- MODULE IndexedScheduler --------------------------
(***************************************************************************)
(* What the Scheduler port promises (tmx-core/src/ports/driven.rs): every  *)
(* index runs once, never more than the concurrency at a time, and the     *)
(* call returns when all of them have finished, with one result per index. *)
(* The caller may drop the call at any time.  FanOut, with the semaphore   *)
(* of the production adapter, is shown to implement it.                    *)
(***************************************************************************)
EXTENDS Naturals, FiniteSets

CONSTANTS
  WidthMax,         \* FANOUT_WIDTH_MAX
  ConcurrencyMax,   \* CONCURRENCY_MAX
  Outcome           \* what a unit may come to

VARIABLES
  call,         \* "none", "open", "returned" or "dropped"
  count,        \* how many units the call has
  concurrency,  \* its bound
  running,      \* the indices in flight
  finished,     \* the indices that have finished
  value         \* what they came to

vars == <<call, count, concurrency, running, finished, value>>

Init ==
  /\ call = "none"
  /\ count = 0
  /\ concurrency = 0
  /\ running = {}
  /\ finished = {}
  /\ value = <<>>

RunIndexed(n, c) ==
  /\ call = "none"
  /\ call' = "open"
  /\ count' = n
  /\ concurrency' = c
  /\ UNCHANGED <<running, finished, value>>

Start(i) ==
  /\ call = "open"
  /\ i \notin running \cup finished
  /\ Cardinality(running) < concurrency
  /\ running' = running \cup {i}
  /\ UNCHANGED <<call, count, concurrency, finished, value>>

Finish(i, v) ==
  /\ call = "open"
  /\ i \in running
  /\ running' = running \ {i}
  /\ finished' = finished \cup {i}
  /\ value' = [j \in finished' |-> IF j = i THEN v ELSE value[j]]
  /\ UNCHANGED <<call, count, concurrency>>

Return ==
  /\ call = "open"
  /\ Cardinality(finished) = count
  /\ call' = "returned"
  /\ UNCHANGED <<count, concurrency, running, finished, value>>

Drop ==
  /\ call = "open"
  /\ call' = "dropped"
  /\ running' = {}
  /\ UNCHANGED <<count, concurrency, finished, value>>

Next ==
  \/ \E n \in 0 .. WidthMax, c \in 1 .. ConcurrencyMax : RunIndexed(n, c)
  \/ \E i \in 0 .. count - 1 : Start(i) \/ \E v \in Outcome : Finish(i, v)
  \/ Return
  \/ Drop

Spec == Init /\ [][Next]_vars

=============================================================================
