--------------------------- MODULE MCCancelToken ---------------------------
(* Three guards on two executor tasks: g1 and g2 are elements of one fan-out *)
(* and share their task's waker, g3 has a task of its own.                   *)
EXTENDS CancelToken

CONSTANTS g1, g2, g3, t1, t2

MCGuards == {g1, g2, g3}
MCTasks == {t1, t2}
MCTaskOf == [g \in MCGuards |-> IF g = g3 THEN t2 ELSE t1]

=============================================================================
