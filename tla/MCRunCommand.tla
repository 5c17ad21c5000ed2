---------------------------- MODULE MCRunCommand ----------------------------
(* The command lines TLC tries: every one for a single run, and for a watch  *)
(* those whose flags the watch does not merely repeat.                       *)
EXTENDS RunCommand

\* Every command line without --watch.
OneRun == {f \in Flags : ~f.watch}

\* Watches of flows with tasks that record their runs.
Watches == {f \in Flags : f.watch /\ ~f.noStore /\ ~f.noTasks}

OneOrWatched == OneRun \cup Watches

=============================================================================
