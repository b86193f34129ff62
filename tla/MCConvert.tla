----------------------------- MODULE MCConvert ------------------------------
(* Families of small documents for Convert. *)
EXTENDS Convert

Node(kids, mesh, skin, name) == [kids |-> kids, mesh |-> mesh, skin |-> skin, name |-> name]
\* The vertices of signature 1 are as many as short indices can count, with
\* weights; those of 2 are one more, without.
Prim(sig, morph, mat) == [sig |-> sig, morph |-> morph, mat |-> mat, verts |-> 65535 + sig, weighted |-> sig = 1,
                          idx |-> 3 * sig, draco |-> FALSE]
Mesh(collider, prims) == [name |-> "m", collider |-> collider, prims |-> prims]
Triangle == Mesh(FALSE, <<Prim(1, FALSE, 1)>>)
Image(ok, uri, raw, size) == [ok |-> ok, uri |-> uri, raw |-> raw, size |-> size]
Plain == [nodes |-> <<Node(<<>>, 0, 0, "")>>, meshes |-> <<>>, skins |-> <<>>, scenes |-> <<<<1>>>>,
          materials |-> <<>>, textures |-> <<>>, samplers |-> <<"", "clamp">>, images |-> <<>>,
          kind |-> "scene", clips |-> 0, animated |-> FALSE, v38 |-> FALSE, fallback |-> FALSE,
          qm |-> FALSE, ress |-> FALSE, deps |-> <<>>, up |-> TRUE, formats |-> {}]

-----------------------------------------------------------------------------
(* Graphs: every acyclic one of four nodes, under the scene of its top     *)
(* nodes or with no scene; and those of three with a cycle at the root.    *)
Graph(edges, n, scenes) ==
  [Plain EXCEPT !.nodes = [i \in 1..n |->
                             Node(Sorted({j \in 1..4 : <<i, j>> \in edges}), i % 2, 0,
                                  IF i < 3 THEN "plain" ELSE "")],
                !.meshes = <<Triangle>>, !.materials = <<<<>>>>, !.scenes = scenes]
Tops(edges) == Sorted({i \in 1..4 : \A j \in 1..4 : <<j, i>> \notin edges})
Acyclic == LET Sets == SUBSET {e \in (1..4) \X (1..4) : e[1] < e[2]}
           IN {Graph(E, 4, <<>>) : E \in Sets} \cup {Graph(E, 4, <<Tops(E)>>) : E \in Sets}
Cyclic == {Graph(E \cup {<<2, 1>>, <<1, 2>>}, 3, <<<<1>>>>)
           : E \in SUBSET {<<1, 3>>, <<2, 3>>, <<3, 2>>, <<3, 1>>, <<3, 4>>}}

(* Skins whose joints hang in a cycle that no node leads into, are tops,   *)
(* or in a document with a child that is not there.                        *)
Joints == {<<2>>, <<3, 2>>, <<3, 4, 2>>}
Tied == {[Graph({<<1, 2>>}, 4, <<<<1>>>>) EXCEPT !.nodes[1].skin = 1, !.nodes[2].kids = kids,
                                               !.skins = <<[joints |-> j, skeleton |-> k]>>]
         : kids \in {<<>>, <<1>>, <<9>>}, j \in Joints, k \in {0, 2}}

(* Bodies: what meshes are made of, on a root and two nodes below it; with *)
(* colliders, skins and morph targets.                                     *)
Primitives ==
  {<<Prim(1, FALSE, 1)>>, <<Prim(1, FALSE, 1), Prim(1, FALSE, 2)>>,
   <<Prim(1, FALSE, 1), Prim(2, FALSE, 0)>>, <<Prim(1, TRUE, 1), Prim(2, FALSE, 3)>>}
Skins == {[joints |-> <<2, 3>>, skeleton |-> 0], [joints |-> <<3, 4>>, skeleton |-> 0],
          [joints |-> <<3>>, skeleton |-> 2]}
Bodies ==
  {[Plain EXCEPT !.nodes = <<Node(<<2, 4>>, 1, 0, r), Node(<<3>>, 1, k, c), Node(<<>>, 0, 0, ""),
                             Node(<<>>, 1, 0, "plain")>>,
                 !.meshes = <<Mesh(r = "collider", [i \in DOMAIN p |-> [p[i] EXCEPT !.draco = (c = "")]])>>, !.skins = <<s>>, !.materials = m,
                 !.v38 = v, !.up = v]
   : p \in Primitives, r \in {"plain", "collider"}, c \in {"", "collider"}, k \in {0, 1}, s \in Skins,
     m \in {<<>>, <<<<>>, <<>>>>}, v \in BOOLEAN}

(* Textures: up to three uses of two images, in the file or in others.     *)
Uses == [image : {1, 2}, sampler : {0, 1, 2}]
Textures == [1..2 -> Uses] \cup [1..3 -> {u \in Uses : u.image = 1 \/ u.sampler = 2}]
Pictures(uses) ==
  {[Plain EXCEPT !.textures = ts, !.images = <<Image(TRUE, u, u = 0, 20), Image(v # -1, v, FALSE, 7)>>,
                 !.materials = IF Len(ts) = 2 THEN <<<<1>>, <<2, 1>>>> ELSE <<<<3, 1>>, <<2, 3>>>>,
                 !.up = o, !.ress = o, !.v38 = (u = 5), !.qm = o, !.deps = <<6>>]
   : ts \in uses, u \in {0, 5}, v \in {0, 5, 6, -1}, o \in BOOLEAN}

(* Scenes: the default one, others and nodes of none, with clips or not.   *)
(* No root is in two scenes, and an emote has a scene with a node.         *)
Stages == {<<<<1>>>>, <<<<1>>, <<2>>>>, <<<<1, 2>>, <<3>>, <<>>>>, <<<<>>, <<2>>>>, <<<<1>>, <<2, 3>>>>}
Staging(scenes, kind, clips, animated, up) ==
  [Plain EXCEPT !.nodes = <<Node(<<>>, 1, 0, ""), Node(<<4>>, 1, 0, "plain"), Node(<<>>, 0, 0, ""),
                            Node(<<9>>, 0, 0, "plain"), Node(<<>>, 1, 0, "")>>,
                !.meshes = <<Triangle>>, !.materials = <<<<>>>>, !.fallback = animated, !.up = up,
                !.scenes = scenes, !.kind = kind, !.clips = clips, !.animated = animated]
Stagings ==
  {Staging(s, k, n, a, o) : s \in Stages, k \in {"scene", "wearable"}, n \in 0..2, a \in BOOLEAN, o \in BOOLEAN}
  \cup {Staging(s, "emote", n, TRUE, o) : s \in {t \in Stages : t[1] # <<>>}, n \in 0..2, o \in BOOLEAN}

(* Images alone. *)
Alones == {[Plain EXCEPT !.kind = "image", !.images = <<Image(d, 0, r, 20)>>, !.qm = q, !.up = o, !.ress = o]
           : d \in BOOLEAN, r \in BOOLEAN, q \in BOOLEAN, o \in BOOLEAN}

(* Each is saved under the file versions that differ in what they hold,    *)
(* with chunks that compression makes shorter, as long and longer.         *)
Formats == {[file |-> 8, version |-> 22, growth |-> 0], [file |-> 7, version |-> 20, growth |-> 1],
            [file |-> 6, version |-> 17, growth |-> 2]}
MCDocs == {[d EXCEPT !.formats = Formats]
           : d \in Acyclic \cup Cyclic \cup Tied \cup Bodies \cup Pictures(Textures) \cup Stagings \cup Alones}

(* For the runs that fail: three textures of one image; a morphing mesh in *)
(* a further scene; primitives that share their vertices.                  *)
NamedDocs == Pictures([1..3 -> {u \in Uses : u.image = 1}])
LateDocs == {[Staging(s, "scene", n, a, TRUE) EXCEPT !.meshes = <<Mesh(FALSE, <<Prim(1, m, 1)>>)>>]
             : s \in Stages, n \in 0..1, a \in BOOLEAN, m \in BOOLEAN}
MergedDocs == {[Plain EXCEPT !.nodes = <<Node(<<2>>, 1, 0, "plain"), Node(<<>>, 1, 0, c)>>,
                             !.meshes = <<Mesh(FALSE, <<Prim(1, FALSE, i), Prim(1, FALSE, j)>>)>>, !.materials = m]
               : i \in 0..2, j \in 0..2, c \in {"", "collider"}, m \in {<<>>, <<<<>>>>, <<<<>>, <<>>>>}}
=============================================================================
