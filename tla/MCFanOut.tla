------------------------------ MODULE MCFanOut ------------------------------
(* The tasks TLC tries: every map and eval, except that a map that records   *)
(* failures has leaves for its elements in the run that must pass.           *)
EXTENDS FanOut

AllShapes == Shape
SoundShapes == {s \in Shape : s.continueOnError => s.inner = "leaf"}

=============================================================================
