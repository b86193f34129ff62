------------------------------ MODULE Convert -------------------------------
(***************************************************************************)
(* What the bundle of a document must be, whatever its nodes, scenes,      *)
(* meshes, materials, textures and clips.                                  *)
(***************************************************************************)
EXTENDS Validate

Of(type) == {p \in DOMAIN out.objs : out.objs[p].type = type}
Pointed(p, field) == LET ptrs == Get(out.objs[p].f, field, <<>>) IN [i \in DOMAIN ptrs |-> ptrs[i][2]]
Father(t) == Pointed(t, "m_Father")[1]
Done == phase = "done"
Modelled == Done /\ doc.kind # "image"

-----------------------------------------------------------------------------
(* Every pointer of a written object resolves: inside the file to an       *)
(* object of a type its field can hold, outside it to the file it was made *)
(* for, after the externals are renumbered by first use (builder.rs:3680,  *)
(* 3770), and both the AssetBundle and the metadata asset name that file   *)
(* (builder.rs:2370, 3213).                                                *)
Fits(field) ==
  CASE field = "m_GameObject" -> {"GameObject"}
    [] field = "m_Component" -> {"Transform", "MeshFilter", "MeshRenderer", "MeshCollider",
                                 "SkinnedMeshRenderer", "Animation", "Animator"}
    [] field \in {"m_Children", "m_Father", "m_Bones", "m_RootBone"} -> {"Transform"}
    [] field = "m_Mesh" -> {"Mesh"}
    [] field = "m_Materials" -> {"Material"}
    [] field = "m_TexEnvs" -> {"Texture2D"}
    [] field = "m_Controller" -> {"AnimatorController"}
    [] field \in {"m_Animations", "m_AnimationClips"} -> {"AnimationClip"}
    [] OTHER -> {o.type : o \in Range(out.objs)}
MayBeNull(field) == \/ field \in {"m_Father", "m_Bones", "m_RootBone"}
                    \/ field = "m_Materials" /\ doc.materials = <<>>
                    \/ field = "m_Container" /\ doc.kind = "image" /\ ~doc.images[1].ok
Resolves(ptr, field) ==
  IF ptr[1] = 0
  THEN \/ ptr[2] \in DOMAIN out.objs /\ out.objs[ptr[2]].type \in Fits(field)
       \/ ptr[2] = 0 /\ MayBeNull(field)
  ELSE /\ ptr[1] \in DOMAIN out.externals
       /\ LET file == out.externals[ptr[1]]
          IN /\ ptr[2] = ExtPid(file) /\ file \in Dependencies(b)
             /\ file # ShaderFile /\ EmitsMetadata => file \in Listed(b)
PointersResolve ==
  Done => \A p \in DOMAIN out.objs : \A k \in DOMAIN out.objs[p].f :
            \A ptr \in Range(out.objs[p].f[k]) : Resolves(ptr, k)

(* Transforms form one tree for each scene: a transform is a child of its  *)
(* father once and of no other, game objects and components agree on one   *)
(* another, and everything hangs below the root of a scene.  The stack of  *)
(* frames allots a transform before the children that point at it, and     *)
(* writes it after them (builder.rs:2430, 2510, 2774).                     *)
RECURSIVE Below(_)
Below(S) == LET T == S \cup UNION {Range(Pointed(t, "m_Children")) : t \in S}
            IN IF T = S THEN S ELSE Below(T)
TreeAgrees ==
  LET tops == {t \in Of("Transform") : Father(t) = 0}
  IN /\ Cardinality(tops) = 1 + Len(ExtraScenes)
     /\ Below(tops) = Of("Transform")
     /\ \A t \in Of("Transform") :
          /\ IsInjective(Pointed(t, "m_Children"))
          /\ \A k \in Range(Pointed(t, "m_Children")) : Father(k) = t
          /\ Father(t) # 0 => t \in Range(Pointed(Father(t), "m_Children"))
ComponentsAgree ==
  LET Owned == {p \in DOMAIN out.objs : "m_GameObject" \in DOMAIN out.objs[p].f}
  IN /\ \A p \in Owned : p \in Range(Pointed(Pointed(p, "m_GameObject")[1], "m_Component"))
     /\ \A g \in Of("GameObject") :
          LET parts == Pointed(g, "m_Component")
          IN /\ IsInjective(parts)
             /\ \A i \in DOMAIN parts : /\ Pointed(parts[i], "m_GameObject") = <<g>>
                                        /\ (i = 1) <=> parts[i] \in Of("Transform")
HierarchyAgrees == Modelled => TreeAgrees /\ ComponentsAgree

(* Each node that a scene reaches is built in full exactly once, with its  *)
(* mesh, and bare on every other path to it: visits_left counts the paths  *)
(* down so that the last one is the full one.  A cycle is cut, and a root  *)
(* that another root reaches is not repeated there, so those are only      *)
(* built once (builder.rs:2407, 2430, 2600).                               *)
Times(s, n) == Cardinality({i \in DOMAIN s : s[i] = n})
Staged == <<Roots>> \o ExtraScenes
Paths(n) == SumOver(Staged, LAMBDA s : PathsTo(s, n))
Unfolds == /\ \A n \in 1..N : n \notin Reach(Range(Kids(n)) \cap 1..N)
           /\ \A s \in Range(Staged) : \A r \in Range(s) : PathsTo(s, r) = 1
NodesOnce ==
  Modelled => \A n \in 1..N :
                /\ Times(b.full, n) = (IF n \in SceneNodes THEN 1 ELSE 0)
                /\ Unfolds => Times(b.full, n) + Times(b.bare, n) = Paths(n)

(* The ranges of the preload table follow one another without a gap; each  *)
(* holds its asset and what that asset needs, and every object but the     *)
(* AssetBundle is in one (builder.rs:3061, sbp_order.rs:130).              *)
AbPid == CHOOSE p \in Of("AssetBundle") : TRUE
Table == out.objs[AbPid].f.m_PreloadTable
InSlot(s) == {Table[i] : i \in (s.start + 1)..(s.start + s.size)}
Needs(p) == {ptr \in UNION Range([k \in DOMAIN out.objs[p].f |-> Range(out.objs[p].f[k])]) : ptr # P(0)}
ElsewhereOf(type) == type \in {"Material", "AnimatorController"}
PreloadCovers ==
  Done =>
    LET slots == Range(b.slots)
    IN /\ UNION {(s.start + 1)..(s.start + s.size) : s \in slots} = DOMAIN Table
       /\ \A s, u \in slots : s = u \/ s.start + s.size <= u.start \/ u.start + u.size <= s.start
       /\ \A s \in slots : \A p \in DOMAIN out.objs :
            /\ P(p) = s.asset => P(p) \in InSlot(s)
            /\ P(p) \in InSlot(s) /\ (P(p) = s.asset \/ ~ElsewhereOf(out.objs[p].type))
                 => Needs(p) \subseteq InSlot(s)
       /\ \A p \in DOMAIN out.objs \ {AbPid} : \E s \in slots : P(p) \in InSlot(s)

(* Streamed textures lie apart in the stream file, each on a boundary of   *)
(* Alignment and within the payload; the bundle has the file exactly when  *)
(* a texture needs it, whatever the template held (ress.rs:62,             *)
(* builder.rs:3870).                                                       *)
StreamsApart ==
  Done =>
    /\ \A p \in DOMAIN out.at :
         LET at == out.at[p]
         IN /\ at.offset % 16 = 0 /\ at.offset + at.size <= out.payload
            /\ \A q \in DOMAIN out.at \ {p} : \/ at.offset + at.size <= out.at[q].offset
                                              \/ out.at[q].offset + out.at[q].size <= at.offset
    /\ ("cab.resS" \in out.nodes) <=> (DOMAIN out.at # {})
    /\ {p \in Of("Texture2D") : ~out.objs[p].read /\ out.objs[p].px > 0} = DOMAIN out.at

(* A skinned renderer is bound after the scene is built: each bone is the  *)
(* transform its joint got in full, and the root bone has all of them      *)
(* below it, when joints are listed from their parents down                *)
(* (builder.rs:2306, skeleton.rs:9).                                       *)
Built(p, field) == b.objs[p].f[field][1][2]
RECURSIVE Above(_)
Above(t) == IF t = 0 THEN {} ELSE {t} \cup Above(Built(t, "m_Father"))
(* The node a renderer belongs to: its object's, or that object's parent's. *)
Wearer(go) == LET t == Built(go, "m_Component")
              IN CHOOSE n \in DOMAIN b.tr :
                   b.tr[n] = IF t \in Range(b.tr) THEN t ELSE Built(t, "m_Father")
SkinsBound ==
  phase = "built" =>
    \A p \in {q \in DOMAIN b.objs : b.objs[q].type = "SkinnedMeshRenderer"} :
      /\ "m_GameObject" \in DOMAIN b.objs[p].f
      /\ LET skin == doc.nodes[Wearer(Built(p, "m_GameObject"))].skin
             joints == IF skin = 0 THEN <<>> ELSE doc.skins[skin].joints
             bones == b.objs[p].f.m_Bones
         IN /\ bones = [i \in DOMAIN joints |->
                          IF joints[i] \in Reach(Range(Roots)) THEN P(b.tr[joints[i]]) ELSE P(0)]
            /\ \A i \in DOMAIN bones : bones[i] # P(0) =>
                 Built(p, "m_RootBone") \in Above(bones[i][2]) \cup {0}

(* Every build ends, and fails only when two textures got one name: the    *)
(* roles of all else are kept apart by counting (builder.rs:756, 1461,     *)
(* 2967).  Cycles among the nodes are cut (builder.rs:2407, 2590), but for *)
(* two that nothing cuts: one that a node without a parent leads into,     *)
(* whatever the scenes are (gltf.rs:1279), and one above a joint of a skin *)
(* without a skeleton (skeleton.rs:52), a skin whose search for its root   *)
(* panics in a document with a child that is not there (skeleton.rs:21).   *)
NamesClash == \E i, j \in DOMAIN b.texs : i # j /\ b.texs[i].key = b.texs[j].key
LeadsIn(n) == \E m \in Reach({n}) : OnCycle(m)
Rootless == {s \in Range(doc.skins) : s.skeleton = 0}
EndlessWalk == \E n \in 1..N : (\A p \in 1..N : n \notin Range(Kids(p))) /\ LeadsIn(n)
EndlessClimb == \E s \in Rootless : \E j \in Range(s.joints), n \in 1..N : OnCycle(n) /\ j \in Reach({n})
Lost == Rootless # {} /\ \E n \in 1..N : \E c \in Range(Kids(n)) : c \notin 1..N

(* What load_bytes reads from a saved bundle is what was written: each     *)
(* object with its type tree and, read by it, every value; the externals;  *)
(* the stream file.  The metadata is written from offset 0 and read behind *)
(* the header, and what a chunk became is known by its flag alone          *)
(* (serialized_file.rs:376, bundle_file.rs:387, typetree_node.rs:155).     *)
RoundTrip ==
  phase = "loaded" =>
    /\ [i \in DOMAIN bundle.files |-> bundle.files[i].name] = FileNames
    /\ \A i \in DOMAIN bundle.files :
         IF bundle.files[i].name = "cab"
         THEN bundle.files[i].content =
                [ok |-> TRUE, externals |-> out.externals,
                 objects |-> [k \in DOMAIN ByPid(out.objs) |->
                                LET p == ByPid(out.objs)[k]
                                IN [pid |-> p, tree |-> TreeOf(out.objs[p].type), value |-> ValueOf(p)]]]
         ELSE bundle.files[i].content = [end |-> out.payload, at |-> out.at]

(* The validator finds no error in any bundle, and does find one when any  *)
(* texture that a material binds inside the file is not there              *)
(* (tests/validate_samples.rs:77, 105; builder.rs:1528, 3213, 3870).       *)
Unbound(sf, i, k) ==
  [sf EXCEPT !.objects[i].value.m_TexEnvs[k].m_PathID = CHOOSE p \in 1..1000 : ~Exists1(sf, p)]
ValidatesClean ==
  phase = "loaded" =>
    /\ Errors(ValidateBundle(bundle.files, {})) = {}
    /\ LET sf == Serialized(bundle.files)[1].content
       IN \A i \in DOMAIN sf.objects :
            sf.objects[i].tree.type = "Material" =>
              \A k \in DOMAIN sf.objects[i].value.m_TexEnvs :
                sf.objects[i].value.m_TexEnvs[k].m_FileID = 0 =>
                  "E2" \in Errors(Check(bundle.files, Unbound(sf, i, k), {}))

-----------------------------------------------------------------------------
(* src/docs/bundle-format/gltf_pathid_collision.md:7 says of a clash that  *)
(* abgen-rs disambiguates it "so the build succeeds and produces a         *)
(* loadable bundle"; textures are named apart in                           *)
(* src/docs/textures/per_sampler_textures.md:5.  Violated: the role of a   *)
(* texture is not counted, and a texture without a sampler after another   *)
(* takes the plain name as well (builder.rs:952).                          *)
NeverCollides == phase # "collision"

(* src/docs/mesh/meshfilter_close_11.md:3 says that the build "points      *)
(* every referencing MeshFilter or SkinnedMeshRenderer" at its mesh.       *)
(* Violated: the renderers of further scenes are not bound, because the    *)
(* pending ones are taken before those scenes are built (builder.rs:2306,  *)
(* 2356).                                                                  *)
RenderersHaveMesh ==
  Modelled => \A p \in Of("SkinnedMeshRenderer") \cup Of("MeshFilter") :
                Pointed(p, "m_Mesh") # <<>> /\ Pointed(p, "m_Mesh")[1] \in Of("Mesh")

(* src/docs/mesh/multiprim_subm_merge.md:15 says that primitives merge     *)
(* into "a single Mesh with one sub-mesh per primitive and a MeshRenderer  *)
(* carrying one material per sub-mesh".  Violated: a primitive without a   *)
(* material, in a document with some, adds none, and the materials of the  *)
(* primitives after it move to the wrong sub-mesh (builder.rs:1289, 1722). *)
MaterialPerSubmesh ==
  Modelled => \A r \in Of("MeshRenderer") : \A f \in Of("MeshFilter") :
                Pointed(r, "m_GameObject") = Pointed(f, "m_GameObject")
                  => LET subs == out.objs[Pointed(f, "m_Mesh")[1]].subs.of
                     IN Len(subs) > 1 => Len(Pointed(r, "m_Materials")) = Len(subs)
=============================================================================
