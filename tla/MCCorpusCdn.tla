---------------------------- MODULE MCCorpusCdn ----------------------------
EXTENDS CorpusCdn, TLC
CONSTANTS e1, e2, glb, glb1, glb2

\* A model shared by two scenes, each of which bakes its dependencies in.
PairTasks == {[ent |-> e, name |-> glb, n |-> 1] : e \in {e1, e2}}
PairBytes == (<<e1, glb>> :> glb1) @@ (<<e2, glb>> :> glb2)
=============================================================================
