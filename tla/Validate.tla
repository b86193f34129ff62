------------------------------ MODULE Validate ------------------------------
(***************************************************************************)
(* The validator of src/src/validate.rs: the findings, <<severity, code>>, *)
(* on the files of a loaded bundle.  What the type trees of Container do   *)
(* not carry (the dependencies and spans of the AssetBundle, the           *)
(* sub-meshes, which textures stream) is taken from the written objects.   *)
(* cabs are the bundle files known to exist; in single-file mode, none.    *)
(* Left out are two checks of names, which the model does not have: E8 of  *)
(* an AssetBundle without a name (validate.rs 163-179), and the warning of *)
(* a file whose name is not CAB- and 32 digits (320-328).                  *)
(***************************************************************************)
EXTENDS Container

Finding(severity, code, found) == IF found THEN {<<severity, code>>} ELSE {}

(* files as validate_bundle reads them; a bundle that does not parse is E0. *)
Serialized(files) == SelectSeq(files, LAMBDA f : f.name = "cab")
RawFiles(files) == {f.name : f \in {g \in Range(files) : g.name # "cab"}}

Exists1(sf, pid) == \E o \in Range(sf.objects) : o.pid = pid
ResolveExternal(sf, fid) ==
  Finding("error", "E3", fid \notin DOMAIN sf.externals \/ sf.externals[fid] \notin Dependencies(b))
ResolveOne(sf, code, p) ==
  IF p.m_FileID = 0 THEN Finding("error", code, p.m_PathID # 0 /\ ~Exists1(sf, p.m_PathID))
  ELSE ResolveExternal(sf, p.m_FileID)
ResolveAll(sf, code, ptrs) == UNION {ResolveOne(sf, code, p) : p \in Range(ptrs)}
NonNull(ptrs) == SelectSeq(ptrs, LAMBDA p : p.m_PathID # 0)

(* What each class of object is asked. *)
CheckAssetBundle(sf) ==
  LET abs == SelectSeq(sf.objects, LAMBDA o : o.tree.type = "AssetBundle")
      table == abs[1].value.m_PreloadTable
  IN IF Len(abs) # 1 THEN {<<"error", "E8">>}
     ELSE ResolveAll(sf, "E1", table) \cup ResolveAll(sf, "E1", abs[1].value.m_Container)
          \cup Finding("error", "E7", \E s \in Range(b.slots) : s.start + s.size > Len(table))
CheckExternals(sf, cabs) ==
  UNION {Finding("error", "E3", e \notin Dependencies(b)) \cup Finding("warn", "E3", e \notin cabs)
         : e \in Range(sf.externals)}
CheckMaterial(sf, o) ==
  LET Binds(p) == {q.tree.type : q \in {r \in Range(sf.objects) : r.pid = p.m_PathID}}
  IN UNION {IF p.m_FileID = 0 THEN Finding("error", "E2", Binds(p) # {"Texture2D"})
            ELSE ResolveExternal(sf, p.m_FileID) : p \in Range(NonNull(o.value.m_TexEnvs))}
CheckRenderer(sf, o) ==
  ResolveAll(sf, "E4", NonNull(o.value.m_Materials))
  \cup IF "m_Mesh" \in DOMAIN o.value THEN ResolveAll(sf, "E4", NonNull(o.value.m_Mesh)) ELSE {}
CheckMeshFilter(sf, o) == ResolveAll(sf, "E4", NonNull(o.value.m_Mesh))
CheckOwned(sf, ptrs) ==
  Finding("error", "E5", \E p \in Range(NonNull(ptrs)) : p.m_FileID = 0 /\ ~Exists1(sf, p.m_PathID))
CheckMesh(o) ==
  LET m == out.objs[o.pid].subs
      bytes == m.width * SumOver(m.of, LAMBDA s : s.indexCount)
  IN Finding("error", "E6", \E s \in Range(m.of) :
               \/ m.verts > 0 /\ s.firstVertex + s.vertexCount > m.verts
               \/ bytes > 0 /\ s.firstByte + s.indexCount * m.width > bytes)
CheckTextureStreams(files, o) ==
  Finding("error", "E9", o.pid \in DOMAIN out.at /\ "cab.resS" \notin RawFiles(files))
CheckObject(files, sf, o) ==
  CASE o.tree.type = "Material" -> CheckMaterial(sf, o)
    [] o.tree.type \in {"MeshRenderer", "SkinnedMeshRenderer"} -> CheckRenderer(sf, o)
    [] o.tree.type = "MeshFilter" -> CheckMeshFilter(sf, o)
    [] o.tree.type = "GameObject" -> CheckOwned(sf, o.value.m_Component)
    [] o.tree.type = "Transform" -> CheckOwned(sf, o.value.m_GameObject)
    [] o.tree.type = "Mesh" -> CheckMesh(o)
    [] o.tree.type = "Texture2D" -> CheckTextureStreams(files, o)
    [] OTHER -> {}

Check(files, sf, cabs) ==
  LET Some1(type) == \E o \in Range(sf.objects) : o.tree.type = type
  IN CheckAssetBundle(sf) \cup CheckExternals(sf, cabs)
     \cup UNION {CheckObject(files, sf, o) : o \in Range(sf.objects)}
     \cup Finding("error", "E9", RawFiles(files) = {} /\ DOMAIN out.at # {})
     \cup Finding("warn", "W1", Some1("Mesh") /\ ~Some1("TextAsset"))
ValidateBundle(files, cabs) ==
  IF Serialized(files) = <<>> \/ ~Serialized(files)[1].content.ok THEN {<<"error", "E0">>}
  ELSE Check(files, Serialized(files)[1].content, cabs)
Errors(findings) == {f[2] : f \in {g \in findings : g[1] = "error"}}
=============================================================================
