-------------------------- MODULE MCPipelineRunner --------------------------
(* Three tasks on two keys: the first has an `if`, the second is recorded     *)
(* when it fails and shares the key of the third, the third is a sub-flow.    *)
(* The state is seeded, so that a merge can change nothing.  Every hook is    *)
(* declared, or none.                                                         *)
EXTENDS PipelineRunner

CONSTANTS a, b, v1, v2

MCKey == {a, b}
MCKeyOf == <<a, b, b>>
MCValues == {v1, v2}
MCSeed == [k \in MCKey |-> IF k = a THEN v1 ELSE Absent]
MCContexts == {HookKind, {}}

=============================================================================
