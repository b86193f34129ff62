------------------------------ MODULE MCTrees ------------------------------
(***************************************************************************)
(* The two programs that fill a tree of bundles in a parallel loop and may *)
(* be run again over what they left, Regen and CorpusCdn, side by side:    *)
(* they share no state, and one of them is at work in a behaviour.         *)
(***************************************************************************)
EXTENDS Regen, CorpusCdn, TLC

CONSTANTS e1, e2, e3, glb, tex, glb1, glb2, glb3, tex0, w1, w2, a, b

VARIABLE awake

\* Two entities share the textured glb a, and one lists b and a texture as well.
Row(e, n, g) == [entity |-> e, name |-> n, gltf |-> g]
MCRows == <<Row(e1, a, TRUE), Row(e2, a, TRUE), Row(e2, b, TRUE), Row(e2, b, FALSE)>>
Mode(d, f, c) == [dry |-> d, force |-> f, compress |-> c]
MCModes == {Mode(TRUE, FALSE, TRUE), Mode(FALSE, FALSE, TRUE), Mode(FALSE, TRUE, TRUE),
            Mode(FALSE, FALSE, FALSE)}

\* A model shared by three scenes, one of which has a texture of its own; the
\* model bakes in the dependencies of its scene, the texture does not.
Task(e, n) == [ent |-> e, name |-> n, n |-> 1]
SharedTasks == {Task(e1, glb), Task(e2, glb), Task(e3, glb), Task(e1, tex)}
SharedBytes == (<<e1, glb>> :> glb1) @@ (<<e2, glb>> :> glb2) @@ (<<e3, glb>> :> glb3)
               @@ (<<e1, tex>> :> tex0)
ASSUME TreesAssumption == CdnAssumption

TreesInit == awake \in {"cdn", "regen"} /\ InitCdn /\ Init /\ (awake = "regen" => ~skip)

TreesNext ==
  /\ UNCHANGED awake
  /\ \/ awake = "cdn" /\ NextCdn /\ UNCHANGED vars
     \/ awake = "regen" /\ Next /\ UNCHANGED cdnVars

\* The fairness of the two modules, each for its own behaviours.
Fairness ==
  /\ \A k \in Tasks : WF_cdnVars(awake = "cdn" /\ TaskStep(k))
  /\ WF_cdnVars(awake = "cdn" /\ LoopDone) /\ WF_cdnVars(awake = "cdn" /\ WriteManifests)
  /\ WF_vars(awake = "regen" /\ Finish)
  /\ \A w \in Threads : WF_vars(awake = "regen" /\ Work(w))

TreesSpec == TreesInit /\ [][TreesNext]_<<awake, cdnVars, vars>> /\ Fairness

-----------------------------------------------------------------------------
\* The safety properties of both hold of a program that is not started as well.
\* Every run comes to its end, unless it is killed.
RunsEnd == (awake = "cdn" => Exits) /\ RunEnds
=============================================================================
