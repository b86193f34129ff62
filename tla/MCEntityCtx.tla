---------------------------- MODULE MCEntityCtx ----------------------------
(* Two entities that share a model, one of them with a file of its own     *)
(* that is indexed but not converted, and a pointer that moves between     *)
(* them.                                                                   *)
EXTENDS EntityCtx, TLC
CONSTANTS t1, t2, e1, e2, p, glb, script

MCCallers == {t1, t2}
MCIds == {e1, e2}
MCPointers == {p}
MCHashes == {glb, script}
MCContent == (e1 :> {glb, script}) @@ (e2 :> {glb})
MCConvertible == {glb}
MCGlbs == {glb}
MCPosts == {{p}}

Symm == Permutations(MCCallers)
=============================================================================
