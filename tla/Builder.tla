------------------------------- MODULE Builder -------------------------------
(***************************************************************************)
(* The Builder of src/src/builder.rs: the objects of the bundle of one     *)
(* glTF document.  doc is the document with the options of its build:      *)
(*   kind      "scene", "wearable", "emote" or "image" (not a model)       *)
(*   clips     how many animation clips it yields, which needs the         *)
(*             animation prototypes (animated)                             *)
(*   v38, fallback, qm   v38 compatibility, the default material forced, a *)
(*             hash that has no metadata asset                             *)
(*   deps      the bundle files its metadata depends on                    *)
(* An object is [type, f, px, read, subs]: f maps a field to its pointers, *)
(* a pointer is <<file id, path id>>, px is the size of its pixels, read   *)
(* says that they stay in the object, subs are a mesh's sub-meshes.  A     *)
(* role says what a path id is a hash of; a hash is taken to be            *)
(* one-to-one.  The recursion over nodes is a stack of frames, one action  *)
(* for each step of it.                                                    *)
(***************************************************************************)
EXTENDS Gltf

CONSTANT Docs      \* the documents to build

VARIABLES phase, b, stack, scene

bvars == <<doc, phase, b, stack, scene>>

(* Another bundle is a number, the bundle of shaders 0. *)
ShaderFile == 0
ExtPid(file) == 1000 + file
Put(f, k, v) == (k :> v) @@ f
Get(f, k, default) == IF k \in DOMAIN f THEN f[k] ELSE default
P(pid) == <<0, pid>>
Ps(pids) == [i \in DOMAIN pids |-> P(pids[i])]

Empty == [pid |-> 0, objs |-> <<>>, roles |-> <<>>, keys |-> <<>>, scn |-> <<>>,
          tr |-> <<>>, left |-> <<>>, full |-> <<>>, bare |-> <<>>, smr |-> <<>>, comps |-> <<>>,
          mat |-> <<>>, dmat |-> 0, mats |-> <<>>, refd |-> <<>>, tex |-> <<>>, first |-> <<>>,
          texs |-> <<>>, files |-> <<>>, rec |-> <<>>, mesh |-> <<>>, clips |-> <<>>, anim |-> <<>>,
          ctrl |-> 0, root |-> 0, host |-> <<>>, orphans |-> FALSE, meta |-> 0, ab |-> 0, slots |-> <<>>]

Init ==
  /\ doc \in Docs
  /\ phase = "new" /\ b = Empty /\ stack = <<>> /\ scene = 0

-----------------------------------------------------------------------------
(* Path ids and roles. *)
Owners(c, key, pid) == LET o == Get(c.keys, key, <<>>)
                       IN IF pid \in Range(o) THEN o ELSE Append(o, pid)
SetRole(c, pid, role) ==
  LET key == <<role[2], role[3]>>
      Index(owners) == (CHOOSE i \in DOMAIN owners : owners[i] = pid) - 1
      Owned(owners) == [c EXCEPT !.keys = Put(@, key, owners),
                                 !.roles = Put(@, pid, <<"glb", role[2], role[3], Index(owners)>>)]
  IN IF role[1] # "glb" THEN [c EXCEPT !.roles = Put(@, pid, role)] ELSE Owned(Owners(c, key, pid))
Glb(type, path) == <<"glb", type, path, 0>>
In(path, name) == Append(path, <<name, 0>>)

SetObj(c, pid, type, f, role) ==
  SetRole([c EXCEPT !.objs = Put(@, pid, [type |-> type, f |-> f, px |-> 0, read |-> FALSE, subs |-> <<>>])],
          pid, role)
Add(c, type, f, role) == SetObj([c EXCEPT !.pid = @ + 1], c.pid + 1, type, f, role)
Push(c, pids) == [c EXCEPT !.scn = @ \o pids]

UniqueRecycle(c, prefix, name) ==
  LET n == Get(c.rec, <<prefix, name>>, 0)
  IN [c |-> [c EXCEPT !.rec = Put(@, <<prefix, name>>, n + 1)],
      path |-> <<<<prefix, name>>>> \o (IF n = 0 THEN <<>> ELSE <<<<"again", n - 1>>>>)]

-----------------------------------------------------------------------------
(* Textures. *)
ExternalTexture(c, t) ==
  IF t = 0 \/ doc.images[doc.textures[t].image].uri <= 0 THEN [c |-> c, p |-> <<>>]
  ELSE LET file == doc.images[doc.textures[t].image].uri
           files == IF file \in Range(c.files) THEN c.files ELSE Append(c.files, file)
           fid == 1 + CHOOSE i \in DOMAIN files : files[i] = file
       IN [c |-> [c EXCEPT !.files = files], p |-> <<<<fid, ExtPid(file)>>>>]

TextureName(img, canon, first) ==
  <<<<"image", img>>>> \o (IF canon = first \/ canon = 0 THEN <<>> ELSE <<<<"sampler", canon>>>>)

SetPixels(c, pid, px, read) == [c EXCEPT !.objs[pid].px = px, !.objs[pid].read = read]

NewTexture(c, img, role, read) ==
  SetPixels(Add(c, "Texture2D", <<>>, role), c.pid + 1, doc.images[img].size, read)
(* But for v38 a twin under a name of its own comes before each texture.   *)
Twin(c, img, name, read) ==
  IF doc.v38 THEN c
  ELSE Push(NewTexture(c, img, Glb("Texture2D", <<<<"textures", 0>>>> \o name), read), <<c.pid + 1>>)
KeepTexture(c, key, name) ==
  [c |-> [c EXCEPT !.tex = Put(@, key, c.pid), !.texs = Append(@, [key |-> name, pid |-> c.pid])],
   pid |-> c.pid]
ImageTexture(c, img, canon) ==
  LET first == Get(c.first, img, canon)
      name == TextureName(img, canon, first)
      read == doc.images[img].raw /\ DistinctSamplers(img) > 1
  IN IF <<img, canon>> \in DOMAIN c.tex THEN [c |-> c, pid |-> c.tex[<<img, canon>>]]
     ELSE KeepTexture(NewTexture(Twin([c EXCEPT !.first = Put(@, img, first)], img, name, read),
                                 img, <<"tex", "Texture2D", name, 0>>, FALSE),
                      <<img, canon>>, name)
Texture(c, t) ==
  IF t = 0 \/ ~doc.images[doc.textures[t].image].ok THEN [c |-> c, pid |-> 0]
  ELSE ImageTexture(c, doc.textures[t].image, Canon(doc.textures[t]))

-----------------------------------------------------------------------------
(* Materials: the shader first, then each slot's texture, local or in      *)
(* another bundle.                                                         *)
Refer(c, pid, referenced) ==
  IF ~referenced \/ pid \in Range(c.refd) THEN c ELSE [c EXCEPT !.refd = Append(@, pid)]
AddMaterial(c, key, local, ext) ==
  [Add(c, "Material", [m_Shader |-> <<<<1, ExtPid(ShaderFile)>>>>, m_TexEnvs |-> Ps(local) \o ext],
       <<"mat", "Material", key, 0>>)
     EXCEPT !.mats = Append(@, [key |-> key, pid |-> c.pid + 1, tex |-> local, ext |-> ext])]
DefaultMaterial(c) ==
  IF c.dmat # 0 THEN c
  ELSE [AddMaterial(c, <<<<"DCL_Scene", 0>>>>, <<>>, <<>>) EXCEPT !.dmat = c.pid + 1]

Slot(st, t) ==
  LET Elsewhere(e) == [st EXCEPT !.c = e.c, !.ext = @ \o e.p]
      Here(l) == [st EXCEPT !.c = l.c, !.local = @ \o (IF l.pid = 0 THEN <<>> ELSE <<l.pid>>)]
      e == ExternalTexture(st.c, t)
  IN IF e.p # <<>> THEN Elsewhere(e) ELSE Here(Texture(st.c, t))

MaterialInner(c, m, referenced) ==
  IF m \notin DOMAIN doc.materials
  THEN IF doc.materials = <<>> THEN [c |-> c, pid |-> 0]
       ELSE With(DefaultMaterial(c), LAMBDA d : [c |-> Refer(d, d.dmat, referenced), pid |-> d.dmat])
  ELSE IF m \in DOMAIN c.mat THEN [c |-> Refer(c, c.mat[m], referenced), pid |-> c.mat[m]]
  ELSE With(FoldLeft(Slot, [c |-> c, local |-> <<>>, ext |-> <<>>], doc.materials[m]),
            LAMBDA st : With(AddMaterial(st.c, <<<<"material", m>>>>, st.local, st.ext),
              LAMBDA d : [c |-> Refer([d EXCEPT !.mat = Put(@, m, d.pid)], d.pid, referenced),
                          pid |-> d.pid]))

(* The materials of renderers, and those that are only kept. *)
Material(st, m) ==
  IF m \notin DOMAIN doc.materials /\ doc.materials # <<>> THEN st
  ELSE With(MaterialInner(st.c, m, TRUE), LAMBDA r : [c |-> r.c, pids |-> Append(st.pids, r.pid)])
MatsOf(prims) == [i \in DOMAIN prims |-> prims[i].mat]
Materials(c, prims) == FoldLeft(Material, [c |-> c, pids |-> <<>>], MatsOf(prims))
Orphaned(c, mats) == FoldLeft(LAMBDA d, m : IF m = 0 THEN d ELSE MaterialInner(d, m, FALSE).c, c, mats)

-----------------------------------------------------------------------------
(* Meshes. *)
(* One index buffer, in which each primitive's indices are a sub-mesh of   *)
(* all the vertices, those of the first; indices are short if every        *)
(* primitive was decoded by draco and they can count the vertices.         *)
IndexWidth(prims) == IF (\A p \in Range(prims) : p.draco) /\ prims[1].verts <= 65536 THEN 2 ELSE 4
SubmeshesOf(prims, width) ==
  LET From(i) == width * SumOver(SubSeq(prims, 1, i - 1), LAMBDA p : p.idx)
  IN [i \in DOMAIN prims |-> [firstByte |-> From(i), indexCount |-> prims[i].idx,
                              firstVertex |-> 0, vertexCount |-> prims[1].verts]]
\* Faulty: as if all indices were long.
SubmeshesWide(prims) == SubmeshesOf(prims, 4)
Submeshes(prims) == SubmeshesOf(prims, IndexWidth(prims))
NewMesh(c, prims) ==
  LET u == UniqueRecycle(c, "meshes", doc.meshes[prims[1].mesh].name)
  IN [Add(u.c, "Mesh", <<>>, Glb("Mesh", u.path))
        EXCEPT !.objs[c.pid + 1].subs = [width |-> IndexWidth(prims), of |-> Submeshes(prims), verts |-> prims[1].verts]]
MeshKey(p, usage) == <<p.mesh, p.pi, usage, p.skin>>
AddMesh(c, prims, usage) ==
  LET key == MeshKey(prims[1], usage)
  IN IF key \in DOMAIN c.mesh THEN [c |-> c, pid |-> c.mesh[key]]
     ELSE [c |-> [NewMesh(c, prims) EXCEPT !.mesh = Put(@, key, c.pid + 1)], pid |-> c.pid + 1]
AddMeshMerged(c, prims, usage) ==
  [c |-> [NewMesh(c, prims) EXCEPT !.mesh = @ @@ (MeshKey(prims[1], usage) :> c.pid + 1)],
   pid |-> c.pid + 1]

(* The components of a game object. *)
Component(c, type, go, f, path) ==
  [Push(Add(c, type, [m_GameObject |-> <<P(go)>>] @@ f, Glb(type, In(path, type))), <<c.pid + 1>>)
     EXCEPT !.comps = Append(@, c.pid + 1)]
Filter(c, go, mesh, path) == Component(c, "MeshFilter", go, [m_Mesh |-> <<P(mesh)>>], path)
AddColliders(c, go, mesh, path, n) ==
  FoldLeft(LAMBDA d, i : Component(d, "MeshCollider", go, [m_Mesh |-> <<P(mesh)>>], path),
           c, [i \in 1..n |-> i])
Renderer(c, go, prims, path) ==
  With(Materials(c, prims),
       LAMBDA m : Component(m.c, "MeshRenderer", go, [m_Materials |-> Ps(m.pids)], path))
Await(c, go, mesh, prims, mats) ==
  [Push(c, <<c.pid>>) EXCEPT
     !.comps = Append(@, c.pid),
     !.smr = Append(@, [pid |-> c.pid, go |-> go, mesh |-> mesh, mats |-> mats, skin |-> prims[1].skin])]
Skinned(c, go, mesh, prims, path) ==
  With(Materials(c, prims),
       LAMBDA m : Await(Add(m.c, "SkinnedMeshRenderer", <<>>,
                            Glb("SkinnedMeshRenderer", In(path, "SkinnedMeshRenderer"))),
                        go, mesh, prims, m.pids))

(* A mesh is seen, or collided with as often as there are colliders.       *)
Unskinned(c, go, mesh, prims, collider, path, n) ==
  IF collider
  THEN AddColliders(Filter(Orphaned(c, MatsOf(prims)), go, mesh, path), go, mesh, path, n)
  ELSE Renderer(Filter(c, go, mesh, path), go, prims, path)

(* attach_primitive, and attach_cluster_v38 for several primitives at once. *)
Deforms(p) == (p.skin # 0 /\ p.weighted) \/ p.morph
Usage(p, collider, isParent) ==
  IF Deforms(p) THEN (IF collider /\ isParent THEN 0 ELSE 1) ELSE IF collider \/ Collidable(p) THEN 16 ELSE 0
Hang(c, go, mesh, prims, collider, isParent, path, n) ==
  IF ~Deforms(prims[1]) THEN Unskinned(c, go, mesh, prims, collider, path, n)
  ELSE IF collider /\ isParent THEN Orphaned(c, MatsOf(prims)) ELSE Skinned(c, go, mesh, prims, path)
Attach(c, go, prims, collider, isParent, path, extra) ==
  LET more == extra + IF isParent \/ ~doc.meshes[prims[1].mesh].collider THEN 0 ELSE 1
  IN With(AddMesh([c EXCEPT !.comps = <<>>], prims, Usage(prims[1], collider, isParent)),
          LAMBDA m : Hang(Push(m.c, <<m.pid>>), go, m.pid, prims, collider, isParent, path, 1 + more))

(* Primitives that share their vertices become one mesh on the node. *)
Merges(prims) == /\ Len(prims) > 1 /\ ~doc.v38
                 /\ \A p \in Range(prims) : p.sig = prims[1].sig /\ p.skin = 0 /\ ~p.morph
AttachMerged(c, go, prims, collider, path) ==
  With(AddMeshMerged([c EXCEPT !.comps = <<>>], prims,
                     IF collider \/ Collidable(prims[1]) THEN 16 ELSE 0),
       LAMBDA m : Unskinned(Push(m.c, <<m.pid>>), go, m.pid, prims, collider, path, 1))

ClusterKeys(prims) == [i \in DOMAIN prims |-> <<prims[i].sig, prims[i].morph>>]
Clusters(prims) ==
  IF ~doc.v38 THEN [i \in DOMAIN prims |-> <<prims[i]>>]
  ELSE LET heads == SelectSeq([i \in DOMAIN prims |-> i], LAMBDA i :
                      \A j \in 1..(i - 1) : ClusterKeys(prims)[j] # ClusterKeys(prims)[i])
       IN [k \in DOMAIN heads |-> SelectSeq(prims, LAMBDA p :
             <<p.sig, p.morph>> = ClusterKeys(prims)[heads[k]])]

(* The first cluster sits on the node, each other on a child of its own. *)
TransformOf(c, tr, go, kids, father, path) ==
  SetObj(c, tr, "Transform",
         [m_GameObject |-> <<P(go)>>, m_Children |-> Ps(kids), m_Father |-> <<P(father)>>],
         Glb("Transform", In(path, "Transform")))
GameObjectOf(c, go, comps, path) ==
  SetObj(c, go, "GameObject", [m_Component |-> Ps(comps)], Glb("GameObject", path))
Written(c, go, tr, kids, father, comps, path) ==
  TransformOf(GameObjectOf(c, go, <<tr>> \o comps, path), tr, go, kids, father, path)
ChildPrimitive(st, k) ==
  LET go == st.c.pid + 1
      path == Append(st.path, <<"prim", k>>)
  IN With(Attach([st.c EXCEPT !.pid = @ + 2], go, st.clusters[k], st.collider, FALSE, path, 0),
          LAMBDA d : [st EXCEPT !.c = Push(Written(d, go, go + 1, <<>>, st.tr, d.comps, path), <<go, go + 1>>),
                                !.kids = Append(@, go + 1)])
AttachNode(c, n, go, tr, path) ==
  LET prims == Prims(n)
      collider == n \in Colliders
      clusters == Clusters(prims)
  IN IF prims = <<>> THEN [c |-> [c EXCEPT !.comps = <<>>], kids |-> <<>>]
     ELSE IF Merges(prims) THEN [c |-> AttachMerged(c, go, prims, collider, path), kids |-> <<>>]
     ELSE With(Attach(c, go, clusters[1], collider, TRUE, path, ExtraColliders(n)),
               LAMBDA d : [FoldLeft(ChildPrimitive,
                                    [c |-> d, kids |-> <<>>, tr |-> tr, path |-> path, collider |-> collider,
                                     clusters |-> clusters],
                                    [k \in 1..(Len(clusters) - 1) |-> k + 1])
                             EXCEPT !.c.comps = d.comps])

-----------------------------------------------------------------------------
(* Frames: a node being built in full, a node built bare on a further      *)
(* path to it, or the object that wraps the roots of a scene.  todo holds  *)
(* the children still to visit, kids the transforms of those visited.      *)
Spend(left, n) == IF n \in DOMAIN left /\ left[n] > 0 THEN [left EXCEPT ![n] = @ - 1] ELSE left
CountVisits(roots) == [n \in {m \in 1..N : PathsTo(roots, m) > 0} |-> PathsTo(roots, n)]

Frame(kind, node, go, father, path, todo) ==
  [kind |-> kind, node |-> node, go |-> go, tr |-> go + 1, father |-> father, path |-> path,
   comps |-> <<go + 1>>, kids |-> <<>>, extra |-> <<>>, todo |-> todo]
NodeName(n) == IF doc.nodes[n].name = "" THEN <<"node", n>> ELSE <<doc.nodes[n].name, 0>>
FullNode(c, n, father, path) ==
  LET go == c.pid + 1
      here == Append(path, NodeName(n))
  IN With(AttachNode([c EXCEPT !.pid = @ + 2, !.left = Spend(@, n)], n, go, go + 1, here),
          LAMBDA a : [c |-> [a.c EXCEPT !.tr = Put(@, n, go + 1), !.full = Append(@, n)],
                      frame |-> [Frame("node", n, go, father, here, Kids(n))
                                   EXCEPT !.comps = @ \o a.c.comps, !.extra = a.kids]])
BareNodeFree(c, n, father, path) ==
  [c |-> [c EXCEPT !.pid = @ + 2, !.bare = Append(@, n)],
   frame |-> Frame("bare", n, c.pid + 1, father, Append(path, <<"New Game Object", 0>>), Kids(n))]
BareNode(c, n, father, path) ==
  [c |-> [c EXCEPT !.pid = @ + 2, !.left = Spend(@, n), !.bare = Append(@, n)],
   frame |-> Frame("bare", n, c.pid + 1, father, Append(path, <<"New Game Object", 0>>), Kids(n))]
WrapNode(c, kind, path, roots) ==
  [c |-> [c EXCEPT !.pid = @ + 2], frame |-> Frame(kind, 0, c.pid + 1, 0, path, roots)]

(* Closing a frame writes its two objects. *)
CloseNodeAlone(c, f) ==
  Push(TransformOf(GameObjectOf(c, f.go, f.comps, f.path), f.tr, f.go, f.kids, f.father, f.path),
       <<f.go, f.tr>>)
CloseNode(c, f) ==
  Push(TransformOf(GameObjectOf(c, f.go, f.comps, f.path), f.tr, f.go, f.kids \o f.extra, f.father, f.path),
       <<f.go, f.tr>>)
CloseWrap(c, f) ==
  Push(GameObjectOf(TransformOf(c, f.tr, f.go, f.kids, 0, f.path), f.go, f.comps, f.path),
       <<f.tr, f.go>>)

(* An Animation component, with the clips of the document. *)
AddAnimation(c, go, path) ==
  Push(Add(c, "Animation", [m_GameObject |-> <<P(go)>>, m_Animations |-> Ps(c.anim)],
           Glb("Animation", In(path, "Animation"))),
       <<c.pid + 1>>)

(* Meshes and materials of nodes that no scene reaches. *)
SceneNodes == Reach(UNION {Range(s) : s \in {Roots} \cup Range(ExtraScenes)})
KeepPrimitive(c, p) == With(AddMesh(c, <<p>>, 0), LAMBDA m : Orphaned(Push(m.c, <<m.pid>>), <<p.mat>>))
Orphans(c) ==
  LET OfNode(d, n) == IF n \in SceneNodes THEN d ELSE FoldLeft(KeepPrimitive, d, Prims(n))
  IN IF c.orphans THEN c ELSE [FoldLeft(OfNode, c, [n \in 1..N |-> n]) EXCEPT !.orphans = TRUE]

-----------------------------------------------------------------------------
(* build: the textures inside the document, then the default scene, under  *)
(* a wrapping object unless it is one root without an animation.           *)
ClipCount == IF doc.animated /\ doc.kind # "wearable" THEN doc.clips ELSE 0
Embedded == SelectSeq([t \in DOMAIN doc.textures |-> t],
                      LAMBDA t : doc.images[doc.textures[t].image].uri = 0)
Prepared(c) ==
  With(FoldLeft(LAMBDA d, t : Texture(d, t).c, c, Embedded),
       LAMBDA d : [(IF doc.v38 \/ doc.fallback THEN DefaultMaterial(d) ELSE d) EXCEPT !.left = CountVisits(Roots)])
ScenePath == <<<<"scenes", 0>>>>
WrapPath(inner) == Append(ScenePath, <<inner, 0>>)
(* A scene without nodes gets one to carry its animation. *)
InnerHost(c, f, comps, go) ==
  LET path == Append(f.path, <<"Scene", 0>>)
  IN Push(Written(c, go, go + 1, <<>>, f.tr, comps, path), <<go + 1, go>>)
OpenWrapped(w) ==
  LET go == w.c.pid + 1
      Hosted(d) == [d EXCEPT !.host = <<go, Append(w.frame.path, <<"Scene", 0>>)>>]
  IN IF Roots # <<>> \/ ClipCount = 0 THEN w
     ELSE [c |-> Orphans(Hosted(InnerHost([w.c EXCEPT !.pid = @ + 2], w.frame, <<>>, go))),
           frame |-> [w.frame EXCEPT !.kids = <<go + 1>>]]
OpenScene(c) ==
  LET inner == IF Len(Roots) <= 1 /\ ClipCount > 0 THEN "New Game Object" ELSE "Scene"
  IN IF Len(Roots) = 1 /\ ClipCount = 0 THEN FullNode(c, Roots[1], 0, ScenePath)
     ELSE OpenWrapped(WrapNode(c, "wrap", WrapPath(inner), Roots))
Begin ==
  /\ phase = "new" /\ doc.kind # "image" /\ WalkEnds
  /\ \E o \in {OpenScene(Prepared(b))} :
       b' = [o.c EXCEPT !.root = o.frame.go] /\ stack' = <<o.frame>>
  /\ phase' = "scene"
  /\ UNCHANGED <<doc, scene>>

(* The document is never read to its end.                                  *)
WalkForEver ==
  /\ phase = "new" /\ doc.kind # "image" /\ ~WalkEnds
  /\ phase' = "hangs"
  /\ UNCHANGED <<doc, b, stack, scene>>

(* The next child of the frame on top: passed over, built bare when more   *)
(* paths lead to it, or in full.                                           *)
Top == stack[Len(stack)]
NextChild == Head(Top.todo)
Passed(f, n) ==
  \/ f.kind \in {"node", "bare"} /\ n \notin 1..N
  \/ f.kind = "bare" /\ Get(b.left, n, 0) = 0
  \/ f.kind = "node" /\ Get(b.left, n, 1) <= 1 /\ n \in DOMAIN b.tr
Bare(f, n) == f.kind = "bare" \/ (f.kind = "node" /\ Get(b.left, n, 1) > 1)
Rest == [stack EXCEPT ![Len(stack)].todo = Tail(@)]
Enters(bare) == /\ stack # <<>> /\ Top.todo # <<>>
                /\ ~Passed(Top, NextChild) /\ Bare(Top, NextChild) = bare
Descend(o) ==
  /\ b' = o.c /\ stack' = Append(Rest, o.frame)
  /\ UNCHANGED <<doc, phase, scene>>
VisitFull == Enters(FALSE) /\ \E o \in {FullNode(b, NextChild, Top.tr, Top.path)} : Descend(o)
VisitBare == Enters(TRUE) /\ \E o \in {BareNode(b, NextChild, Top.tr, Top.path)} : Descend(o)
PassOver ==
  /\ stack # <<>> /\ Top.todo # <<>> /\ Passed(Top, NextChild)
  /\ stack' = Rest
  /\ UNCHANGED <<doc, phase, b, scene>>

(* An object that wraps an extra scene also carries its animation. *)
CloseExtra(c, f) ==
  LET go == c.pid + 1
      Inner(d) == InnerHost(d, f, <<d.pid>>, go)
  IN IF c.anim = <<>> THEN CloseWrap(c, f)
     ELSE IF f.kids = <<>>
     THEN CloseWrap(Inner(AddAnimation([c EXCEPT !.pid = @ + 2], go, Append(f.path, <<"Scene", 0>>))),
                    [f EXCEPT !.kids = <<go + 1>>])
     ELSE CloseWrap(AddAnimation(TransformOf(c, f.tr, f.go, f.kids, 0, f.path), f.go, f.path),
                    [f EXCEPT !.comps = Append(@, go)])
Close ==
  /\ stack # <<>> /\ Top.todo = <<>>
  /\ b' = CASE Top.kind = "wrap" -> CloseWrap(b, Top)
            [] Top.kind = "extra" -> CloseExtra(b, Top)
            [] OTHER -> CloseNode(b, Top)
  /\ stack' = [k \in 1..(Len(stack) - 1) |->
                 IF k = Len(stack) - 1 THEN [stack[k] EXCEPT !.kids = Append(@, Top.tr)] ELSE stack[k]]
  /\ UNCHANGED <<doc, phase, scene>>

-----------------------------------------------------------------------------
(* After the default scene: assets of unreached nodes, the animation, and  *)
(* the skinned renderers, whose bones exist only now.                      *)
AddClip(c, i) ==
  LET u == UniqueRecycle(c, "animations", "clip")
      added == IF doc.kind = "emote"
               THEN Add(c, "AnimationClip", <<>>, <<"sub", "AnimationClip", <<<<"clip", i>>>>, 0>>)
               ELSE Push(Add(u.c, "AnimationClip", <<>>, Glb("AnimationClip", u.path)), <<c.pid + 1>>)
  IN [added EXCEPT !.clips = Append(@, c.pid + 1)]
AddAnimator(c, path) ==
  LET ctrl == c.pid + 1
      controlled == Push(Add(c, "AnimatorController", [m_AnimationClips |-> Ps(c.clips)],
                             <<"ctrl", "AnimatorController", <<>>, 0>>), <<ctrl>>)
      animator == [m_GameObject |-> <<P(c.root)>>, m_Controller |-> <<P(ctrl)>>]
  IN Push([Add(controlled, "Animator", animator, Glb("Animator", In(path, "Animator")))
             EXCEPT !.ctrl = ctrl], <<ctrl + 1>>)
Animate(c) ==
  LET path == c.roles[c.root][3]
      host == IF c.host = <<>> THEN <<c.root, path>> ELSE c.host
      Played(d) == IF doc.kind = "emote" THEN AddAnimator(d, path)
                   ELSE AddAnimation([d EXCEPT !.anim = d.clips], host[1], host[2])
      Hung(d) == [d EXCEPT !.objs[host[1]].f.m_Component = Append(@, P(d.pid))]
  IN IF ClipCount = 0 THEN c ELSE Hung(Played(FoldLeft(AddClip, c, [i \in 1..ClipCount |-> i])))

Bind(c, s, joints, root) ==
  [c EXCEPT !.objs[s.pid].f =
     [m_GameObject |-> <<P(s.go)>>, m_Mesh |-> <<P(s.mesh)>>, m_Materials |-> Ps(s.mats),
      m_Bones |-> [i \in DOMAIN joints |-> P(Get(c.tr, joints[i], 0))],
      m_RootBone |-> <<P(Get(c.tr, root, 0))>>]]
BindSkin(c, s) ==
  IF s.skin = 0 THEN Bind(c, s, <<>>, 0)
  ELSE Bind(c, s, doc.skins[s.skin].joints, ResolveRootJoint(doc.skins[s.skin]))
BindSkins(c) == [FoldLeft(BindSkin, c, c.smr) EXCEPT !.smr = <<>>]
(* The skins whose root joint is looked for.                               *)
Searched == {k \in {s.skin : s \in Range(b.smr)} \ {0} : doc.skins[k].skeleton = 0}
LoseChild ==
  /\ phase = "scene" /\ stack = <<>> /\ Searched # {} /\ MissesChild
  /\ phase' = "panic"
  /\ UNCHANGED <<doc, b, stack, scene>>
ClimbForEver ==
  /\ phase = "scene" /\ stack = <<>> /\ ~MissesChild
  /\ \E k \in Searched : ~ClimbEnds(doc.skins[k])
  /\ phase' = "hangs"
  /\ UNCHANGED <<doc, b, stack, scene>>
Furnish ==
  /\ phase = "scene" /\ stack = <<>>
  /\ Searched = {} \/ (~MissesChild /\ \A k \in Searched : ClimbEnds(doc.skins[k]))
  /\ b' = BindSkins(Animate(Orphans(b)))
  /\ phase' = "extra"
  /\ UNCHANGED <<doc, stack, scene>>

(* build_extra_scene, for each further scene. *)
OpenExtra ==
  /\ phase = "extra" /\ stack = <<>> /\ scene < Len(ExtraScenes)
  /\ scene' = scene + 1
  /\ LET roots == ExtraScenes[scene + 1]
         c == [b EXCEPT !.left = CountVisits(roots)]
     IN \E o \in {IF ~doc.animated /\ Len(roots) = 1 THEN FullNode(c, roots[1], 0, ScenePath)
                  ELSE WrapNode(c, "extra", WrapPath("Scene"), roots)} :
          b' = o.c /\ stack' = <<o.frame>>
  /\ UNCHANGED <<doc, phase>>

(* Materials nothing uses, the metadata asset and the AssetBundle object.  *)
EmitsMetadata == doc.v38 \/ ~doc.qm
Leftover(c) == FoldLeft(LAMBDA d, m : IF m \in DOMAIN d.mat THEN d ELSE MaterialInner(d, m, FALSE).c,
                        c, [m \in DOMAIN doc.materials |-> m])
Metadata(c) ==
  IF EmitsMetadata
  THEN [Add(c, "TextAsset", <<>>, <<"meta", "TextAsset", <<>>, 0>>) EXCEPT !.meta = c.pid + 1] ELSE c
AssetBundle(c) ==
  [Add(c, "AssetBundle", <<>>, <<"bundle", "AssetBundle", <<>>, 0>>) EXCEPT !.ab = c.pid + 1]
Complete ==
  /\ phase = "extra" /\ stack = <<>> /\ scene = Len(ExtraScenes)
  /\ b' = AssetBundle(Metadata(Leftover(b)))
  /\ phase' = "built"
  /\ UNCHANGED <<doc, stack, scene>>
=============================================================================
