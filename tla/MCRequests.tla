----------------------------- MODULE MCRequests -----------------------------
(***************************************************************************)
(* Two connections to a server of two scenes that share a model, one of    *)
(* which deploys a texture as well.  What a client may ask is drawn from a *)
(* mix that a behaviour keeps to: each explores one group of hazards in    *)
(* full, where all requests together have too many interleavings.          *)
(***************************************************************************)
EXTENDS Serve, TLC

CONSTANTS t1, t2, e1, e2, p, glb, tex,
          Mixes     \* which mixes of requests a run explores

VARIABLE mix

Scenes == (e1 :> {glb, tex}) @@ (e2 :> {glb})
Bundle(c, h) == [kind |-> "bundle", cid |-> c, hash |-> h]
Flat(h)      == [kind |-> "flat", cid |-> e1, hash |-> h]
Manifest(c)  == [kind |-> "manifest", cid |-> c, hash |-> glb]

MCCallers == {t1, t2}
MCIds     == {e1, e2}
MCHashes  == {glb, tex}
MCGlbs    == {glb}
MCPointer == {p}
MCPosts   == {{p}}
MCAsks    == {Bundle(e1, glb), Bundle(e2, glb), Bundle(e2, tex), Bundle(p, tex), Flat(tex), Manifest(e1)}
LiveAsks  == {Bundle(e2, tex), Manifest(e1)}
MCOld     == {<<e2, tex>>, <<p, tex>>}
LiveOld   == {<<e2, tex>>}

\* The shared model from both scenes, and the texture from the one without it.
SharedKeys == {<<e1, glb>>, <<e2, glb>>, <<e2, tex>>}

\* While the model is asked for, nothing is redeployed, no handler loses
\* patience and the manifests of the space, of which no one asks, stay as they
\* are: those are for the routes.
Prompt ==
  /\ UNCHANGED <<active, warm>>
  /\ \A r \in Callers : http'[r].st # "timedout"

\* A pointer that may move from one scene to the other, asked for the texture
\* that only one of them deploys; the flat route; a scene warmed by its
\* manifest; and the versions of a scene.
RouteKeys == {<<p, tex>>, <<e1, tex>>}

Arriving(states, keys) ==
  \A r \in Callers : http[r].st = "new" => http'[r].st \in states /\ http'[r].key \in keys \cup {Nil}

Kept ==
  CASE mix = "shared" -> Prompt /\ Arriving({"new", "probe"}, SharedKeys)
    [] mix = "routes" -> Arriving({"new", "probe", "manifest", "post", "done"}, RouteKeys)
    [] mix = "all"    -> TRUE

MCInit == Init /\ mix \in Mixes /\ (mix = "shared" => \A q \in Pointers : active[q] = e1)
MCNext == Next /\ Kept /\ UNCHANGED mix

MCSpec   == MCInit /\ [][MCNext]_<<vars, mix>>
LiveSpec == MCSpec /\ Fairness

Symm == Permutations({t1, t2})
=============================================================================
