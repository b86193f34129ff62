------------------------------- MODULE Naming -------------------------------
(***************************************************************************)
(* src/src/naming.rs: which file of an entity a URI inside a model stands  *)
(* for, and the name of a converted model.                                 *)
(*                                                                         *)
(* A file is [path, ext, upper]: its path in components without the        *)
(* extension, and whether it is spelled in upper case.  Content is looked  *)
(* up by the lower-cased name, Key.  A URI is [form, parts, ext]: form is  *)
(* "plain", or "data", "empty", "scheme", "absolute" or "query" for what   *)
(* those words say, "none" for an image without one (in a bufferView);     *)
(* parts are its components after percent-decoding.  The bytes of a        *)
(* content file are [kind, images, buffers, mats, parses], kind one of     *)
(* "glb", "gltf", "image"; a material is [normal, mr, occlusion], numbers  *)
(* of images or 0.                                                         *)
(***************************************************************************)
EXTENDS Naturals, Sequences, SequencesExt

Key(file) == [path |-> file.path, ext |-> file.ext]

ModelExts == {".glb", ".gltf"}
ImageExts == {".png", ".jpg", ".jpeg"}
IsModel(file) == file.ext \in ModelExts
IsImage(file) == file.ext \in ImageExts

-----------------------------------------------------------------------------
(* posix_normpath of a relative path: ".." takes a component back, and     *)
(* stays where there is none.                                              *)
Climb(comps, comp) ==
  IF comp \in {"", "."} THEN comps
  ELSE IF comp # ".." \/ comps = <<>> \/ Last(comps) = ".." THEN Append(comps, comp)
  ELSE Front(comps)
Normal(parts) == FoldLeft(Climb, <<>>, parts)

NoFile == [path |-> <<>>, ext |-> ""]
Joined(uri, file) == Normal(Front(file.path) \o uri.parts)
ResolveUri(uri, file) ==
  IF uri.form # "plain" THEN NoFile
  ELSE LET path == Joined(uri, file)
       IN IF path # <<>> /\ path[1] = ".." THEN NoFile ELSE [path |-> path, ext |-> uri.ext]

(* The hash a URI stands for, in content that maps keys to hashes. *)
Finds(uri, file, content) == ResolveUri(uri, file) \in DOMAIN content
HashOf(uri, file, content) == content[ResolveUri(uri, file)]

-----------------------------------------------------------------------------
(* A .gltf is JSON; whatever has another extension must be a GLB. *)
Readable(bytes, ext) == bytes.kind = (IF ext = ".gltf" THEN "gltf" ELSE "glb")

ImageUris(bytes, ext) ==
  IF Readable(bytes, ext)
  THEN SelectSeq(bytes.images, LAMBDA u : u.form \notin {"none", "data", "empty"})
  ELSE <<>>

DepRefs(bytes) == {u \in Range(bytes.images) \cup Range(bytes.buffers) : u.form \notin {"none", "data"}}

(* deps_digest_for_glb: the file and the content of each reference, sorted *)
(* and hashed, so a set; tolerant leaves out what the entity lacks.        *)
NoDigest == {<<NoFile, "">>}
Digest(bytes, file, content, tolerant) ==
  LET refs == DepRefs(bytes)
      bad == {u \in refs : \/ ResolveUri(u, file) = NoFile
                           \/ ~tolerant /\ ~Finds(u, file, content)}
  IN IF ~Readable(bytes, file.ext) \/ bad # {} THEN NoDigest
     ELSE {<<ResolveUri(u, file), HashOf(u, file, content)>> : u \in {v \in refs : Finds(v, file, content)}}

CanonicalName(hash, file, digest) ==
  IF IsModel(file) THEN <<hash, digest>> ELSE <<hash>>
=============================================================================
