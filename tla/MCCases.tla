------------------------------ MODULE MCCases ------------------------------
(* What the parts of MCStores are given.                                    *)
EXTENDS Integers, SequencesExt, Functions, TLC

File(path, ext, upper) == [path |-> path, ext |-> ext, upper |-> upper]
Uri(form, parts) == [form |-> form, parts |-> parts, ext |-> ".png"]
Item(file, hash) == [file |-> file, hash |-> hash]
Bytes(kind, images, mats) ==
  [kind |-> kind, images |-> images, buffers |-> <<>>, mats |-> mats, parses |-> TRUE]
Mat(normal, mr, occlusion) == [normal |-> normal, mr |-> mr, occlusion |-> occlusion]

-----------------------------------------------------------------------------
(* A model m under two names, in directories that differ in what they have *)
(* and under one or two extensions, in two entities; m read as what it is  *)
(* and as what it is not; URIs that climb, lead out or name nothing.       *)
Textures ==
  {<<Uri("plain", <<"..", "t">>), Uri("plain", <<"u">>)>>,
   <<Uri("none", <<>>), Uri("plain", <<".", "u">>), Uri("scheme", <<"t">>)>>,
   <<Uri("plain", <<"..", "..", "t">>)>>}
Deployed(ext, upper, known) ==
  <<[id |-> "e1", known |-> TRUE, type |-> "scene",
     items |-> <<Item(File(<<"a", "m">>, ".glb", FALSE), "m"), Item(File(<<"m">>, ext, TRUE), "m"),
                 Item(File(<<"t">>, ".png", FALSE), "t"), Item(File(<<"a", "u">>, ".png", upper), "u"),
                 Item(File(<<"a", "u">>, ".png", FALSE), "t")>>],
    [id |-> "e2", known |-> known, type |-> "wearable",
     items |-> <<Item(File(<<"a", "m">>, ".gltf", FALSE), "m"), Item(File(<<"a", "u">>, ".png", FALSE), "u"),
                 Item(File(<<"n">>, ".glb", FALSE), "n"), Item(File(<<"k">>, "", FALSE), "t")>>]>>
Named(cid, digest, dcl) == [cid |-> cid, digest |-> digest, dcl |-> dcl]
Options ==
  {[ids |-> w = "ids", collection |-> w = "collection", reference |-> w = "reference",
    cdn |-> c, flat |-> f, version |-> TRUE, paths |-> 1]
   : w \in {"ids", "collection", "reference"}, c \in BOOLEAN, f \in BOOLEAN}
PlanCases ==
  {[opts |-> o, ents |-> Deployed(x, b, k), present |-> p,
    names |-> << <<Named("m", "d", FALSE), Named("u", "", FALSE)>>,
                 <<Named("n", "d", TRUE), Named("t", "", FALSE)>> >>,
    types |-> [e \in {"e2"} |-> "emote"],
    bytes |-> [h \in {"m", "n", "t", "u"} |->
                 CASE h = "m" -> Bytes(kind, t, <<Mat(1, 0, 2), Mat(2, 1, 0)>>)
                   [] h = "n" -> Bytes("glb", <<Uri("plain", <<"a", "u">>)>>, <<Mat(1, 0, 0)>>)
                   [] OTHER -> Bytes("image", <<>>, <<>>)]]
   : o \in {q \in Options : q.cdn => q.ids /\ ~q.flat}, x \in {".glb", ".gltf"}, b \in BOOLEAN,
     k \in BOOLEAN, t \in Textures, kind \in {"glb", "gltf"},
     p \in {{"m", "n", "t", "u"}, {"m", "n", "t"}, {"n", "u"}, {}}}

-----------------------------------------------------------------------------
(* One wearable or a collection of two; an urn that no entity is active    *)
(* for; a model under two names, one that is gone, one that cannot be      *)
(* built, and one more than the limit.                                     *)
Wearable(id, pointers) ==
  [id |-> id, pointers |-> pointers,
   items |-> <<Item(File(<<"a", "m">>, ".glb", FALSE), "m"), Item(File(<<"a", "k">>, ".glb", FALSE), "m"),
               Item(File(<<"n">>, ".gltf", FALSE), "n"), Item(File(<<"a", "t">>, ".png", FALSE), "t"),
               Item(File(<<"o">>, ".glb", FALSE), "m")>>]
WearableCases ==
  {[urn |-> "c", members |-> m, present |-> p,
    active |-> <<Wearable("e1", {"u1", "c"}), Wearable("e2", {"u2"})>>,
    bytes |-> [h \in {"m", "n", "t"} |->
                 CASE h = "m" -> Bytes("glb", <<Uri("plain", <<"t">>)>>, <<>>)
                   [] h = "n" -> Bytes("gltf", <<Uri("plain", <<u>>)>>, <<>>)
                   [] OTHER -> Bytes("image", <<>>, <<>>)]]
   : m \in {{}, {"u1", "u2"}, {"u1", "u3"}}, p \in {{"m", "n"}, {"n"}}, u \in {"t", "s"}}

-----------------------------------------------------------------------------
(* Levels of two scenes, given twice, without a number, in a format that   *)
(* is refused.                                                             *)
Lod(scene, level, ext, bytes) == [scene |-> scene, level |-> level, ext |-> ext, bytes |-> bytes]
LodLists ==
  {<<Lod("s", 0, ".glb", "A")>>, <<Lod("s", -1, ".glb", "A"), Lod("s", 0, ".fbx", "B")>>,
   <<Lod("s", 0, ".glb", "A"), Lod("s", 1, ".gltf", "B"), Lod("s", 1, ".glb", "C")>>,
   <<Lod("s", 1, ".glb", "A"), Lod("r", 0, ".glb", "B"), Lod("s", 1, ".glb", "C")>>,
   <<Lod("", 0, ".glb", "A"), Lod("r", 0, ".glb", "B"), Lod("s", 0, ".gltf", "C")>>}

-----------------------------------------------------------------------------
(* Groups of three and four blocks of every class, which together call for *)
(* every mode: a ramp, an edge, one colour, ramps in two subsets and in    *)
(* three, with alpha and without.  Of the subsets one is the checkerboard; *)
(* one comes behind it in the order, and is met only in the group that the *)
(* checkerboard is of use to.                                              *)
Block(f(_)) == [i \in 1..16 |-> f(i - 1)] \o << >>
Ramp == Block(LAMBDA i : <<16 * i, 255 - 9 * i, 40, 255>>)
Edge == Block(LAMBDA i : IF i % 4 < 2 THEN <<250, 12, 3, 255>> ELSE <<4, 90, 222, 255>>)
Flat == Block(LAMBDA i : <<17, 128, 254, 200>>)
Fade == Block(LAMBDA i : <<100, 20 * (i % 4), 30, 255 - 15 * i>>)
Twin(subset, a) ==
  Block(LAMBDA i : IF (subset \div 2^i) % 2 = 0 THEN <<60 * (i \div 4), 3, 0, 255>> ELSE <<0, 90, 60 * (i \div 4), a>>)
Halves == 52428
Checks == 23130
Ring   == 1632
Rows == Block(LAMBDA i : IF i < 8 THEN <<36 * i, 0, 0, 255>> ELSE IF i < 12 THEN <<0, 255, 0, 255>> ELSE <<0, 0, 255, 255>>)
Bands == Block(LAMBDA i : LET v == 85 * (i % 4) IN
                          CASE i \div 4 \in {0, 3} -> <<v, 0, 0, 255>> [] i \div 4 = 1 -> <<0, v, 0, 255>> [] i \div 4 = 2 -> <<0, 255, v, 255>>)
Hint(mode, var) == [mode |-> mode, conf |-> 9500, var |-> var, range |-> 30]
BlockGroups ==
  {[blocks |-> g, slow |-> s, perceptual |-> p, ends |-> e, hint |-> h]
   : g \in {<<Fade, Ramp, Twin(Ring, 40), Rows>>, <<Twin(Checks, 40), Flat, Twin(Ring, 40), Twin(Halves, 40)>>, <<Edge, Bands, Twin(Halves, 255)>>},
     s \in BOOLEAN, p \in BOOLEAN, h \in {Hint(6, 100), Hint(6, 300), Hint(5, 100)},
     e \in {<< <<0, 0>>, <<7, -6>> >>, << <<-9, 4>>, <<0, 0>>, <<2, -3>> >>}}

-----------------------------------------------------------------------------
(* Four siblings with and without names of their own, a blank one, repeats *)
(* or the name of a mesh with a primitive or none, a collider and a name   *)
(* that looks like a repeat, and a second top in the scene, out of order   *)
(* in it, or in a scene of its own.                                        *)
GltfNode(name, mesh, kids, collider) == [name |-> name, mesh |-> mesh, kids |-> kids, collider |-> collider]
Channel(sampler, node, path) == [sampler |-> sampler, node |-> node, path |-> path]
Curve(interp, times, values) == [interp |-> interp, times |-> times, values |-> values]
Move == Curve("LINEAR", <<0, 60>>, << <<0, 0, 0>>, <<60, 0, 0>> >>)
Glb(emote, nodes, meshes, scenes, anims) ==
  [emote |-> emote, v38 |-> TRUE, nodes |-> nodes, meshes |-> meshes, scenes |-> scenes, anims |-> anims]
NamedGlbs ==
  {Glb(FALSE,
       <<GltfNode(<<"r">>, 0, <<2, 3, 4, 5>>, FALSE), GltfNode(a, 0, <<>>, FALSE), GltfNode(<<>>, m, <<>>, FALSE),
         GltfNode(b, 0, <<>>, FALSE), GltfNode(<<"a">>, 1, <<>>, c), GltfNode(top, 0, <<>>, FALSE)>>,
       <<mesh>>, scenes,
       <<[name |-> <<"run">>, samplers |-> <<Move>>, channels |-> [n \in 1..6 |-> Channel(1, n, "translation")]]>>)
   : a \in {<<"a">>, <<"b">>, <<>>, <<" ">>}, m \in {0, 1},
     mesh \in {[name |-> <<"a">>, prims |-> <<>>], [name |-> <<"a">>, prims |-> <<[sig |-> 1, targets |-> 0]>>],
               [name |-> <<" ">>, prims |-> <<[sig |-> 1, targets |-> 0]>>]}, b \in {<<"a">>, <<"a", "_", "0">>, <<"c">>}, c \in BOOLEAN,
     top \in {<<"r">>, <<"a">>}, scenes \in {<< <<1, 6>> >>, << <<6, 1>> >>, << <<1>>, <<6>> >>, << <<1>> >>}}

(* Curves that stand still, within and beyond the tolerances, in a frame   *)
(* or a second; that turn the long way; that stay, or go back in time.     *)
Turns(n) == [i \in 1..n |-> << <<0, 0, 0, 9>>, <<3, 0, 0, -9>>, <<0, 0, 3, 9>>, <<0, 0, 0, -9>>, <<9, 0, 0, 1>> >>[i]]
Steps(by, n) == [i \in 1..n |-> <<by * (i - 1), 1, -2>>]
Tripled(values) == [i \in 1..(3 * Len(values)) |-> values[(i + 2) \div 3]]
Over(interp, times, values) == Curve(interp, times, IF interp = "CUBICSPLINE" THEN Tripled(values) ELSE values)
Increasing == {<<6>>, <<0, 1, 2>>, <<6, 60, 180>>}
TimeLists == Increasing \cup {<<0, 60, 60, 30, 120>>}
CurvedGlbs ==
  {Glb(e, <<GltfNode(<<"r">>, 0, <<2>>, FALSE), GltfNode(<<"a">>, 0, <<>>, FALSE)>>, <<>>, << <<1>> >>,
       <<[name |-> <<"run">>, channels |-> chs,
          samplers |-> <<Over(xt[1], xt[2], Turns(Len(xt[2]))), Over(y, u, Steps(by, Len(u))), Over("LINEAR", xt[2], Steps(0, Len(xt[2])))>>]>>)
   : e \in BOOLEAN, xt \in ({"LINEAR"} \X TimeLists) \cup ({"STEP", "CUBICSPLINE"} \X Increasing),
     y \in {"LINEAR", "STEP", "CUBICSPLINE"}, by \in {0, 4, 5},
     u \in Increasing,
     chs \in {<<Channel(3, 2, "scale"), Channel(1, 2, "rotation"), Channel(2, 1, "translation"), Channel(1, 0, "rotation"),
                Channel(2, 2, "translation"), Channel(3, 1, "translation"), Channel(2, 2, "pointer")>>}}
Unsampled ==
  {Glb(e, <<GltfNode(<<"r">>, 0, <<>>, FALSE)>>, <<>>, << <<1>> >>,
       <<[name |-> <<>>, samplers |-> <<Move>>, channels |-> <<Channel(0, 1, "scale"), Channel(1, 1, "scale")>>]>>)
   : e \in BOOLEAN}

(* Clips of the same name, of names that a state cannot have, of none.     *)
ClipNames == {<<"a", ".", "b">>, <<"a", "_", "b">>, <<"run">>, <<>>}
ManyClips ==
  {Glb(e, <<GltfNode(<<"r">>, 0, <<>>, FALSE)>>, <<>>, << <<1>> >>,
       [i \in 1..3 |-> [name |-> ns[i], samplers |-> <<Move>>, channels |-> <<Channel(1, 1, "scale")>>]])
   : e \in BOOLEAN, ns \in ClipNames \X ClipNames \X ClipNames}

(* Meshes whose primitives share their accessors, morph or do not.         *)
Prim(sig, targets) == [sig |-> sig, targets |-> targets]
Morphed ==
  {[Glb(FALSE, <<GltfNode(<<"r">>, 0, <<2>>, FALSE), GltfNode(<<>>, 1, <<>>, FALSE)>>,
        <<[name |-> name, prims |-> <<Prim(1, 2)>> \o more]>>, << <<1>> >>,
        <<[name |-> <<"run">>, samplers |-> <<Over(x, <<0, 60>>, [i \in 1..n |-> <<i>>])>>,
           channels |-> <<Channel(1, 2, "weights"), Channel(1, 1, "weights")>>]>>) EXCEPT !.v38 = v]
   : name \in {<<"m">>, <<>>}, x \in {"LINEAR", "STEP", "CUBICSPLINE"}, n \in {3, 4}, v \in BOOLEAN,
     more \in {<<>>, <<Prim(2, 2)>>, <<Prim(2, 0), Prim(1, 2), Prim(3, 2)>>, <<Prim(2, 0), Prim(3, 2)>>}}
AnimatedGlbs == NamedGlbs \cup CurvedGlbs \cup Unsampled \cup ManyClips \cup Morphed

-----------------------------------------------------------------------------
(* Meshes of five vertices.  An array is packed in its buffer, or between  *)
(* others, or cut off by the buffer's end; or its second row is put over   *)
(* another, with one too far out; or all are put over nothing, backwards.  *)
Elements(type, dim, rows) == [type |-> type, dim |-> dim, rows |-> rows]
SizeOf(type) == CASE type = "u8" -> 1 [] type = "u16" -> 2 [] OTHER -> 4
Other(dim) == [d \in 1..dim |-> 7] \o <<>>
Buffer(start, stride, size, dim, rows, len) ==
  [len |-> len,
   at |-> [o \in {start + i * stride + d * size : i \in 0..(Len(rows) - 1), d \in 0..(dim - 1)} |->
             rows[((o - start) \div stride) + 1][(((o - start) % stride) \div size) + 1]]]
None == Buffer(0, 1, 1, 1, <<>>, 0)
BuffersOf(a, size, n, row, layout) ==
  CASE layout = "packed"  -> <<Buffer(0, row, size, a.dim, a.rows, n * row), None, None>>
    [] layout = "between" -> <<Buffer(12, row + 4, size, a.dim, a.rows, 12 + n * (row + 4)), None, None>>
    [] layout = "cut"     -> <<Buffer(0, row, size, a.dim, SubSeq(a.rows, 1, n - 1), (n - 1) * row), None, None>>
    [] layout = "patched" -> <<Buffer(12, row + 4, size, a.dim, [a.rows EXCEPT ![2] = Other(a.dim)], 12 + n * (row + 4)),
                               Buffer(8, 1, 1, 1, << <<1>>, <<n>> >>, 10),
                               Buffer(4, row, size, a.dim, <<a.rows[2], Other(a.dim)>>, 4 + 2 * row)>>
    [] layout = "sparse"  -> <<None, Buffer(0, 2, 2, 1, [i \in 1..n |-> <<n - i>>], 2 * n),
                               Buffer(0, row, size, a.dim, [i \in 1..n |-> a.rows[n + 1 - i]], n * row)>>
View(buffer, offset, stride) == [buffer |-> buffer, offset |-> offset, stride |-> stride]
ViewsOf(k, row, layout) ==
  IF layout \in {"between", "patched"}
  THEN <<View(3 * k - 2, 8, row + 4), View(3 * k - 1, 8, 0), View(3 * k, 4, 0)>>
  ELSE <<View(3 * k - 2, 0, 0), View(3 * k - 1, 0, 0), View(3 * k, 0, 0)>>
Bound(rows, declared, Best(_)) ==
  IF declared THEN [ax \in 1..Len(rows[1]) |-> Best({r[ax] : r \in Range(rows)})] \o <<>> ELSE <<>>
AccessorOf(a, k, layout, declared) ==
  [type |-> a.type, dim |-> a.dim, count |-> Len(a.rows),
   view |-> IF layout = "sparse" THEN 0 ELSE 3 * k - 2,
   offset |-> IF layout \in {"between", "patched"} THEN 4 ELSE 0,
   sparse |-> CASE layout = "patched" -> <<[count |-> 2, type |-> "u8", ids |-> 3 * k - 1, values |-> 3 * k]>>
                [] layout = "sparse" -> <<[count |-> Len(a.rows), type |-> "u16", ids |-> 3 * k - 1, values |-> 3 * k]>>
                [] OTHER -> <<>>,
   lo |-> Bound(a.rows, declared, LAMBDA S : CHOOSE x \in S : \A y \in S : x <= y),
   hi |-> Bound(a.rows, declared, LAMBDA S : CHOOSE x \in S : \A y \in S : x >= y)]
Held(a, layout) ==      \* what such an accessor stands for
  IF layout = "cut" THEN [a.rows EXCEPT ![Len(a.rows)] = [d \in 1..a.dim |-> 0] \o <<>>] ELSE a.rows

Arrays == <<
  Elements("f32", 3, << <<0, 0, 0>>, <<10, 0, 3>>, <<-4, 20, 0>>, <<5, -6, 7>>, <<1, 1, 1>> >>),
  Elements("f32", 3, << <<1, 2, 3>>, <<-1, 0, 4>>, <<5, 6, -7>>, <<0, 0, 1>>, <<8, 0, 0>> >>),
  Elements("f32", 3, << <<1, 2, 3>>, <<-1, 0, 4>>, <<5, 6, -7>> >>),
  Elements("f32", 4, << <<1, 2, 3, 1>>, <<-1, 0, 4, -1>>, <<5, 6, -7, 1>>, <<0, 0, 1, -1>>, <<8, 0, 0, 1>> >>),
  Elements("f32", 2, << <<0, 0>>, <<131070, 5>>, <<9, 131070>>, <<-3, 140000>>, <<1, 1>> >>),
  Elements("u16", 2, << <<1, 2>>, <<3, 4>>, <<5, 6>>, <<7, 8>>, <<9, 10>> >>),
  Elements("f32", 4, << <<0, 1, 2, 131070>>, <<-9, 140000, 3, 4>>, <<5, 6, 7, 8>>, <<131069, 1, 1, 0>>, <<9, 0, 9, 0>> >>),
  Elements("u8", 3, << <<0, 1, 255>>, <<2, 3, 4>>, <<5, 6, 7>>, <<8, 9, 10>>, <<11, 12, 13>> >>),
  Elements("u16", 4, << <<0, 1, 65535, 2>>, <<3, 4, 5, 6>>, <<7, 8, 9, 10>>, <<11, 12, 13, 14>>, <<15, 16, 17, 18>> >>),
  Elements("u8", 4, << <<51, 102, 0, 102>>, <<1, 3, 1, 0>>, <<0, 0, 0, 0>>, <<0, 1, 2, 1>>, <<1, 0, 0, 0>> >>),
  Elements("f32", 4, << <<1, 1, 1, 1>>, <<0, 0, 0, 9>>, <<4, 3, 3, 2>>, <<0, 5, 0, 5>>, <<0, 0, 1, 0>> >>),
  Elements("u8", 4, << <<0, 1, 2, 0>>, <<1, 0, 1, 0>>, <<0, 0, 0, 0>>, <<1, 1, 0, 0>>, <<0, 0, 1, 0>> >>),
  Elements("u16", 4, << <<1, 0, 0, 1>>, <<0, 1, 0, 1>>, <<0, 2, 1, 1>>, <<0, 0, 0, 0>> >>),
  Elements("u16", 1, << <<0>>, <<1>>, <<2>>, <<2>>, <<1>>, <<3>>, <<4>>, <<3>> >>),
  Elements("u8", 1, << <<0>>, <<3>> >>),
  Elements("f32", 16, << <<2, 0, 0, 0, 0, 1, 0, 0, 0, 0, 3, 0, 5, 0, 0, 1>>, <<1, -1, 0, 0, -1, 1, 0, 0, -2, 0, -3, 0, 0, 4, 0, 1>> >>),
  Elements("f32", 16, << <<1, 0, 0, 0, 0, 1, 0, 0, 0, 0, 1, 0, 0, 0, 0, 1>>, <<1, -1, 0, 0, 1, 1, 0, 0, 0, 0, 1, 0, 0, 0, 2, 1>> >>),
  Elements("f32", 3, << <<0, 0, 0>>, <<60, 80, 0>>, <<60, 79, 0>>, <<-300, 0, 200>>, <<200, 150, 0>> >>),
  Elements("f32", 3, << <<0, 50, 0>>, <<0, 0, 0>>, <<0, 0, -500>>, <<1, 1, 0>>, <<0, 0, 0>> >>),
  Elements("f32", 3, << <<1, -1, 0>>, <<-150, 0, 150>> >>),
  Elements("f32", 3, << <<0, 50, 0>>, <<0, 30, 0>>, <<0, 0, 0>>, <<1, 1, 0>>, <<0, 0, 0>> >>) >>

Plain(more) == ("POSITION" :> 1) @@ ("NORMAL" :> 2) @@ more
Skin(weights, joints) == ("WEIGHTS_0" :> weights) @@ ("JOINTS_0" :> joints)
MorphBy(p, n, t) == [POSITION |-> p, NORMAL |-> n, TANGENT |-> t]
Mesh(attrs, indices, targets, ibm) ==
  [attrs |-> attrs, indices |-> indices, targets |-> targets, ibm |-> ibm]
Meshes == {
  Mesh("NORMAL" :> 2, 0, <<>>, 0),
  Mesh("POSITION" :> 1, 15, <<>>, 0),
  Mesh(("POSITION" :> 1) @@ ("NORMAL" :> 3), 0, <<>>, 0),
  Mesh(Plain(("TANGENT" :> 4) @@ ("TEXCOORD_0" :> 5)), 14, <<>>, 0),
  Mesh(Plain(("TEXCOORD_0" :> 5) @@ ("TEXCOORD_1" :> 6) @@ ("COLOR_0" :> 7)), 14, <<MorphBy(18, 0, 0)>>, 0),
  Mesh(Plain(("TEXCOORD_1" :> 6) @@ ("COLOR_0" :> 8)), 14, <<MorphBy(0, 19, 0), MorphBy(20, 0, 20)>>, 0),
  Mesh(Plain(Skin(10, 12)), 14, <<>>, 16),
  Mesh(Plain(Skin(10, 12) @@ ("COLOR_0" :> 9)), 14, <<MorphBy(18, 19, 0), MorphBy(20, 0, 0)>>, 16),
  Mesh(Plain(Skin(11, 12) @@ ("COLOR_0" :> 7) @@ ("TEXCOORD_0" :> 5)), 14, <<MorphBy(18, 19, 20)>>, 17),
  Mesh(Plain(Skin(11, 12) @@ ("TEXCOORD_0" :> 5)), 0, <<MorphBy(20, 21, 0)>>, 0),
  Mesh(Plain(Skin(11, 13)), 0, <<>>, 0)}
MeshDocs ==
  {[buffers |-> FlattenSeq([k \in DOMAIN Arrays |->
                   BuffersOf(Arrays[k], SizeOf(Arrays[k].type), Len(Arrays[k].rows),
                             SizeOf(Arrays[k].type) * Arrays[k].dim, layout)]),
    views |-> FlattenSeq([k \in DOMAIN Arrays |-> ViewsOf(k, SizeOf(Arrays[k].type) * Arrays[k].dim, layout)]),
    accessors |-> [k \in DOMAIN Arrays |-> AccessorOf(Arrays[k], k, layout, draco /\ layout # "cut")] \o <<>>,
    want |-> [k \in DOMAIN Arrays |-> Held(Arrays[k], layout)] \o <<>>,
    attrs |-> m.attrs, indices |-> m.indices, targets |-> m.targets, ibm |-> m.ibm, joints |-> 2, draco |-> draco]
   : layout \in {"packed", "between", "cut", "patched", "sparse"}, draco \in BOOLEAN, m \in Meshes}
=============================================================================
