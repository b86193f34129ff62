-------------------------------- MODULE Gltf --------------------------------
(***************************************************************************)
(* What src/src/gltf.rs and the read-only helpers of src/src/materials.rs  *)
(* and src/src/skeleton.rs say about one parsed document.  A document is a *)
(* record; indices start at 1 and 0 stands for None:                       *)
(*   nodes      <<[kids, mesh, skin, name]>>, name one of "", "plain",     *)
(*              "collider" (a name that contains _collider)                *)
(*   meshes     <<[name, collider, prims]>>, a primitive is [sig, morph,   *)
(*              mat, verts, weighted, idx, draco]: sig stands for its      *)
(*              vertex accessors, of verts elements each, weights among    *)
(*              them or not; idx is the number of its indices              *)
(*   skins      <<[joints, skeleton]>>                                     *)
(*   scenes     <<roots>>, the default scene first                         *)
(*   materials  <<texture of each slot>>                                   *)
(*   textures   <<[image, sampler]>>, samplers <<setting>> ("" sets none)  *)
(*   images     <<[ok, uri, raw, size]>>: decoded or not; the bundle file  *)
(*              its uri resolves to (0 embedded, -1 unresolved); its       *)
(*              profile is uncompressed; bytes of pixels                   *)
(*   clips, kind, v38, fallback, qm, animated, deps, up: what else the     *)
(*              build reads, see Builder                                   *)
(***************************************************************************)
EXTENDS Integers, Sequences, FiniteSets, TLC, Folds, SequencesExt

VARIABLE doc

N == Len(doc.nodes)
Kids(n) == doc.nodes[n].kids

(* Op of x, which is computed once. *)
With(x, Op(_)) == Op(x)

SumOver(s, Op(_)) == FoldLeft(LAMBDA a, x : a + Op(x), 0, s)

(* The primitives of a node's mesh, each with the key that identifies it. *)
Prims(n) ==
  LET m == doc.nodes[n].mesh
  IN IF m = 0 THEN <<>>
     ELSE [i \in DOMAIN doc.meshes[m].prims |->
             [mesh |-> m, pi |-> i, skin |-> doc.nodes[n].skin] @@ doc.meshes[m].prims[i]]

-----------------------------------------------------------------------------
(* Scenes.  A document without scenes has every node as a root. *)
Roots == IF doc.scenes = <<>> THEN [n \in 1..N |-> n]
         ELSE SelectSeq(doc.scenes[1], LAMBDA n : n \in 1..N)
ExtraScenes == IF doc.scenes = <<>> THEN <<>>
               ELSE [k \in 1..(Len(doc.scenes) - 1) |->
                       SelectSeq(doc.scenes[k + 1], LAMBDA n : n \in 1..N)]

RECURSIVE Reach(_)
Reach(S) == LET T == S \cup UNION {Range(Kids(n)) \cap 1..N : n \in S}
            IN IF T = S THEN S ELSE Reach(T)

RECURSIVE SimplePaths(_, _, _)
SimplePaths(n, m, on) ==
  IF n \notin 1..N \ on THEN 0
  ELSE (IF n = m THEN 1 ELSE 0) + SumOver(Kids(n), LAMBDA c : SimplePaths(c, m, on \cup {n}))
PathsTo(roots, m) == SumOver(roots, LAMBDA r : SimplePaths(r, m, {}))

-----------------------------------------------------------------------------
(* Colliders: a mesh node named as one, and everything below it; a node    *)
(* under several of them gets one more collider for each but the first, as *)
(* the last visit of the walk leaves it.  The walk visits all that hangs   *)
(* below nodes without a parent, in any document and in no scene's order,  *)
(* and knows no node again: it has no end if it comes to a cycle.          *)
NamedCollider(n) ==
  /\ Prims(n) # <<>>
  /\ IF doc.nodes[n].name = "" THEN doc.meshes[doc.nodes[n].mesh].collider
     ELSE doc.nodes[n].name = "collider"
Colliders == Reach({n \in 1..N : NamedCollider(n)})

Marked(n) == IF Prims(n) # <<>> /\ doc.nodes[n].name = "collider" THEN 1 ELSE 0
RECURSIVE Walk(_)
Walk(todo) ==
  IF todo = <<>> THEN <<>>
  ELSE LET v == Head(todo)
           below == v[2] + Marked(v[1])
       IN IF v[1] \notin 1..N THEN Walk(Tail(todo))
          ELSE <<v>> \o Walk([i \in DOMAIN Kids(v[1]) |-> <<Reverse(Kids(v[1]))[i], below>>]
                               \o Tail(todo))
Parentless == SelectSeq([n \in 1..N |-> n], LAMBDA n : \A p \in 1..N : n \notin Range(Kids(p)))
OnCycle(n) == n \in Reach(Range(Kids(n)) \cap 1..N)
WalkEnds == \A n \in Reach(Range(Parentless)) : ~OnCycle(n)
\* Of a document whose walk ends.
ExtraColliders(n) ==
  LET visits == SelectSeq(Walk([i \in DOMAIN Parentless |-> <<Parentless[i], 0>>]),
                          LAMBDA v : v[1] = n)
      above == IF visits = <<>> THEN 0 ELSE Last(visits)[2] + Marked(n)
  IN IF Prims(n) # <<>> /\ n \in Colliders /\ above > 1 THEN above - 1 ELSE 0

Collidable(p) == \E n \in Colliders : \E q \in Range(Prims(n)) :
                   q.mesh = p.mesh /\ q.pi = p.pi /\ q.skin = p.skin

-----------------------------------------------------------------------------
(* Samplers.  A texture without a sampler takes the first setting that is  *)
(* given for its image; refs with equal effective settings share a texture *)
(* object, under the sampler of the first of them.                         *)
Setting(t) == IF t.sampler = 0 THEN "" ELSE doc.samplers[t.sampler]
ImageSampler(img) ==
  LET given == SelectSeq(doc.textures, LAMBDA t : t.image = img /\ Setting(t) # "")
  IN IF given = <<>> THEN "" ELSE Setting(given[1])
Effective(t) == IF t.sampler = 0 THEN ImageSampler(t.image) ELSE Setting(t)
Canon(t) == SelectSeq(doc.textures,
                      LAMBDA u : u.image = t.image /\ Effective(u) = Effective(t))[1].sampler
DistinctSamplers(img) == Cardinality({t.sampler : t \in {u \in Range(doc.textures) : u.image = img}})

-----------------------------------------------------------------------------
(* The joint a skin hangs from (skeleton.rs): what it names, or what the   *)
(* climb from its joints finds; 0 for none.  The climb panics in a         *)
(* document with a child that is not there, and has no end on a cycle.     *)
ParentOf(n) == LET ps == {p \in 1..N : n \in Range(Kids(p))}
               IN IF ps = {} THEN 0 ELSE CHOOSE p \in ps : \A q \in ps : q <= p
MissesChild == \E n \in 1..N : ~(Range(Kids(n)) \subseteq 1..N)
RECURSIVE GoesRound(_, _)
GoesRound(n, met) == n # 0 /\ (n \in met \/ GoesRound(ParentOf(n), met \cup {n}))
RECURSIVE Chain(_, _)
Chain(n, stop) == IF n = 0 THEN <<>> ELSE IF n = stop THEN <<0>> ELSE Append(Chain(ParentOf(n), stop), n)

CompareLast(st, joint) == [st EXCEPT !.chain = Chain(joint, 0), !.common = joint]
SetMin(S) == CHOOSE i \in S : \A j \in S : i <= j
Shorten(st, c, differ) ==
  LET chain == IF st.chain = <<>> THEN c
               ELSE IF differ = {} THEN st.chain ELSE SubSeq(st.chain, 1, SetMin(differ) - 1)
  IN IF st.chain # <<>> /\ 1 \in differ THEN [st EXCEPT !.found = FALSE]
     ELSE [st EXCEPT !.chain = chain, !.common = Last(chain)]
CompareChain(st, c) ==
  IF ~st.found \/ (c # <<>> /\ c[1] = 0) THEN st
  ELSE Shorten(st, c, {i \in DOMAIN c \cap DOMAIN st.chain : c[i] # st.chain[i]})
Compare(st, joint) == CompareChain(st, Chain(joint, st.common))
Compared(joints) == FoldLeft(Compare, [found |-> TRUE, chain |-> <<>>, common |-> 0], joints)
ResolveRootJoint(skin) ==
  IF skin.skeleton # 0 THEN skin.skeleton
  ELSE With(Compared(skin.joints), LAMBDA st : IF st.found THEN st.common ELSE 0)
\* No joint is climbed from after two that have nothing above them in common.
ClimbEnds(skin) ==
  \A i \in DOMAIN skin.joints :
    LET before == SubSeq(skin.joints, 1, i - 1)
    IN GoesRound(skin.joints[i], {}) =>
         (\E j \in Range(before) : GoesRound(j, {})) \/ ~Compared(before).found
=============================================================================
