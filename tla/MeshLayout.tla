------------------------------ MODULE MeshLayout ------------------------------
(***************************************************************************)
(* How the arrays of one glTF primitive become a Unity mesh: read through  *)
(* accessors and mirrored in x (src/src/gltf.rs), laid out in streams of   *)
(* vertex data, as blend shapes, and as a box per bone                     *)
(* (src/src/mesh_layout.rs).  doc is a record, numbered from 1 and 0 for   *)
(* what is absent:                                                         *)
(*   buffers    <<[len, at]>>, at: offset -> the number that starts there  *)
(*   views      <<[buffer, offset, stride]>>                               *)
(*   accessors  <<[type, dim, view, offset, count, sparse, lo, hi]>>,      *)
(*              sparse is <<>> or <<[count, type, ids, values]>>           *)
(*   attrs      attribute -> accessor                                      *)
(*   indices, targets, joints, ibm   of the primitive and of its skin      *)
(*   draco      whether the primitive was Draco compressed                 *)
(*   want       what each accessor stands for, which only the properties   *)
(*              look at                                                    *)
(* Lengths are in units of 1e-7; a colour or a texture coordinate is in    *)
(* units of 1/131070, so that its rounding shows, a weight in units of     *)
(* 1/65535 as it is read and of 1/60 as a share.  Numbers are not rounded  *)
(* to 32 bits.  The recomputation of normals and tangents is left out: a   *)
(* primitive without normals has no triangle, and no material a normal map.*)
(***************************************************************************)
EXTENDS Integers, FiniteSets, SequencesExt, FiniteSetsExt

CONSTANTS Docs, Nil
VARIABLES doc,     \* the document
          stage,   \* what is done next
          prim,    \* the primitive
          vertex,  \* the vertices that are in the boxes of their bones
          data,    \* the vertex data: the bytes so far and the streams to come
          boxes,   \* of each bone, the lowest and highest corner
          shapes   \* the blend shapes
vars == <<doc, stage, prim, vertex, data, boxes, shapes>>

Unit == 10000000
Inf  == 1000000000
Junk == 77777            \* what lies between the elements of an array
Zeros(n) == [i \in 1..n |-> 0] \o <<>>
Mirror(v) == <<-v[1], v[2], v[3]>>
Abs(x) == IF x < 0 THEN -x ELSE x
\* A sequence whose elements are computed once.
Each(rows, F(_)) == [i \in 1..Len(rows) |-> F(rows[i])] \o <<>>

-----------------------------------------------------------------------------
(* Accessors.  A component that reaches past the end of a buffer is zero. *)
CompSize == [u8 |-> 1, u16 |-> 2, u32 |-> 4, f32 |-> 4]
DecodeComponent(buf, at, type) ==
  IF at + CompSize[type] > buf.len THEN 0 ELSE IF at \in DOMAIN buf.at THEN buf.at[at] ELSE Junk
Element(view, at, type, dim) ==
  [d \in 1..dim |-> DecodeComponent(doc.buffers[view.buffer], view.offset + at + (d - 1) * CompSize[type], type)] \o <<>>

PutAt(rows, n, row) == IF n \in DOMAIN rows THEN [rows EXCEPT ![n] = row] ELSE rows
ApplySparse(acc, rows) ==
  IF acc.sparse = <<>> THEN rows
  ELSE FoldLeft(LAMBDA out, s :
                  PutAt(out,
                        1 + Element(doc.views[acc.sparse[1].ids], (s - 1) * CompSize[acc.sparse[1].type], acc.sparse[1].type, 1)[1],
                        Element(doc.views[acc.sparse[1].values], (s - 1) * CompSize[acc.type] * acc.dim, acc.type, acc.dim)),
                rows, [s \in 1..acc.sparse[1].count |-> s])

Stride(view, acc) == IF view.stride # 0 THEN view.stride ELSE CompSize[acc.type] * acc.dim
Dense(view, acc) ==
  [i \in 1..acc.count |-> Element(view, acc.offset + (i - 1) * Stride(view, acc), acc.type, acc.dim)] \o <<>>
NoRows(n, dim) == [i \in 1..n |-> Zeros(dim)] \o <<>>
ReadAcc(acc) ==
  IF acc.view = 0 THEN ApplySparse(acc, NoRows(acc.count, acc.dim))
  ELSE IF acc.view \notin DOMAIN doc.views THEN NoRows(acc.count, acc.dim)
  ELSE ApplySparse(acc, Dense(doc.views[acc.view], acc))
ReadAccessor(a) == ReadAcc(doc.accessors[a])

Fitted(rows, n) == [i \in 1..n |-> IF i <= Len(rows) THEN rows[i] ELSE Zeros(3)] \o <<>>
MorphAcc(acc, n) ==
  IF acc.view = 0 THEN ApplySparse(acc, NoRows(n, 3)) ELSE ApplySparse(acc, Fitted(ReadAcc(acc), n))
ReadMorphAccessor(a, n) == MorphAcc(doc.accessors[a], n)

-----------------------------------------------------------------------------
(* The primitive.                                                          *)
Has(attr) == attr \in DOMAIN doc.attrs
Array(attr) == ReadAccessor(doc.attrs[attr])
TypeOf(attr) == doc.accessors[doc.attrs[attr]].type
TexCoords == <<"TEXCOORD_0", "TEXCOORD_1", "TEXCOORD_2", "TEXCOORD_3",
               "TEXCOORD_4", "TEXCOORD_5", "TEXCOORD_6", "TEXCOORD_7">>
UvCount == Max({k \in 0..8 : \A i \in 1..k : Has(TexCoords[i])})
Flipped(rows) == Each(rows, LAMBDA u : <<u[1], 131070 - u[2]>>)
UvSets == [i \in 1..UvCount |-> Flipped(Array(TexCoords[i]))] \o <<>>

Scaled(v, type) == CASE type = "f32" -> v [] type = "u8" -> 257 * v [] type = "u16" -> v
ColorPart(v, type) == IF type = "f32" THEN v ELSE 2 * Scaled(v, type)
NormalizeColor(c, type) ==
  [k \in 1..4 |-> IF k > Len(c) THEN 131070 ELSE ColorPart(c[k], type)] \o <<>>
NormalizeWeights(w, type) == [k \in 1..4 |-> Scaled(w[k], type)] \o <<>>

\* The bounds that the accessor of the positions declares, mirrored.
Bounds(acc) ==
  IF Len(acc.lo) < 3 \/ Len(acc.hi) < 3 THEN Nil
  ELSE << <<-acc.hi[1], acc.lo[2], acc.lo[3]>>, <<-acc.lo[1], acc.hi[2], acc.hi[3]>> >>

Skip ==
  /\ stage = "read" /\ ~Has("POSITION")
  /\ stage' = "skipped"
  /\ UNCHANGED <<doc, prim, vertex, data, boxes, shapes>>

Skinned == Has("WEIGHTS_0") /\ Has("JOINTS_0")
Read ==
  /\ stage = "read" /\ Has("POSITION")
  /\ prim' =
       [positions  |-> Each(Array("POSITION"), Mirror),
        normals    |-> IF Has("NORMAL") THEN Each(Array("NORMAL"), Mirror)
                       ELSE Each(Array("POSITION"), LAMBDA p : <<0, 0, Unit>>),
        uvSets     |-> UvSets,
        tangents   |-> IF Has("TANGENT") THEN Each(Array("TANGENT"), LAMBDA t : <<t[1], t[2], -t[3], t[4]>>) ELSE Nil,
        colors     |-> IF Has("COLOR_0") THEN Each(Array("COLOR_0"), LAMBDA c : NormalizeColor(c, TypeOf("COLOR_0"))) ELSE Nil,
        rawWeights |-> IF Skinned THEN Each(Array("WEIGHTS_0"), LAMBDA w : NormalizeWeights(w, TypeOf("WEIGHTS_0"))) ELSE <<>>,
        rawJoints  |-> IF Skinned THEN Array("JOINTS_0") ELSE <<>>,
        weights    |-> IF Skinned THEN <<>> ELSE Nil,
        joints     |-> IF Skinned THEN <<>> ELSE Nil,
        indices    |-> <<>>, targets |-> <<>>, poses |-> <<>>,
        bounds     |-> Bounds(doc.accessors[doc.attrs["POSITION"]])]
  /\ stage' = "bones"
  /\ UNCHANGED <<doc, vertex, data, boxes, shapes>>

\* The bones of a vertex by falling weight, and the weights as shares.  The
\* first of the largest is exchanged with the one whose place it takes.
Swap(s, i, k) == [s EXCEPT ![i] = s[k], ![k] = s[i]]
Top(w, i) == Min({k \in i..4 : \A m \in i..4 : w[k] >= w[m]})
Exchanged(b, i, top) == [w |-> Swap(b.w, i, top), j |-> Swap(b.j, i, top)]
Sorted(w, j) ==
  FoldLeft(LAMBDA b, i : Exchanged(b, i, Top(b.w, i)), [w |-> w, j |-> j], <<1, 2, 3, 4>>)
Total(w) == w[1] + w[2] + w[3] + w[4]
Shares(w) == IF Total(w) > 0 THEN [k \in 1..4 |-> (60 * w[k]) \div Total(w)] \o <<>> ELSE w

WithBones(b) == [prim EXCEPT !.weights = Append(@, Shares(b.w)), !.joints = Append(@, b.j)]
Paired == Min({Len(prim.rawWeights), Len(prim.rawJoints)})
BonesLeft == prim.weights # Nil /\ Len(prim.weights) < Paired
SortBones ==
  /\ stage = "bones" /\ BonesLeft
  /\ prim' = WithBones(Sorted(prim.rawWeights[Len(prim.weights) + 1], prim.rawJoints[Len(prim.weights) + 1]))
  /\ UNCHANGED <<doc, stage, vertex, data, boxes, shapes>>

\* Mirroring turns a triangle over, the exchange of two corners turns it back.
Wound(raw) == FlattenSeq([t \in 1..(Len(raw) \div 3) |-> <<raw[3 * t - 2], raw[3 * t], raw[3 * t - 1]>>])
RawIndices == IF doc.indices = 0 THEN [i \in 1..Len(prim.positions) |-> i - 1]
              ELSE Each(ReadAccessor(doc.indices), LAMBDA row : row[1])
Wind ==
  /\ stage = "bones" /\ ~BonesLeft
  /\ prim' = [prim EXCEPT !.indices = Wound(RawIndices)]
  /\ stage' = "targets"
  /\ UNCHANGED <<doc, vertex, data, boxes, shapes>>

Deltas(a, n) == Each(ReadMorphAccessor(a, n), Mirror)
Target(t, n) ==
  [positions |-> IF t.POSITION = 0 THEN NoRows(n, 3) ELSE Deltas(t.POSITION, n),
   normals   |-> IF t.NORMAL = 0 THEN Nil ELSE Deltas(t.NORMAL, n),
   tangents  |-> IF t.TANGENT = 0 THEN Nil ELSE Deltas(t.TANGENT, n)]
ReadTarget ==
  /\ stage = "targets" /\ Len(prim.targets) < Len(doc.targets)
  /\ prim' = [prim EXCEPT !.targets = Append(@, Target(doc.targets[Len(@) + 1], Len(prim.positions)))]
  /\ UNCHANGED <<doc, stage, vertex, data, boxes, shapes>>

\* A pose as its sixteen numbers, column after column.
Identity == <<1, 0, 0, 0, 0, 1, 0, 0, 0, 0, 1, 0, 0, 0, 0, 1>>
ConvertBindMatrix(m) == [i \in 1..16 |-> IF i \in {2, 3, 5, 9, 13} THEN -m[i] ELSE m[i]] \o <<>>
BindPoses ==
  IF doc.ibm # 0 THEN Each(ReadAccessor(doc.ibm), ConvertBindMatrix)
  ELSE [j \in 1..doc.joints |-> Identity] \o <<>>

-----------------------------------------------------------------------------
(* Vertex data: fourteen channels, each at an offset of a stream.          *)
FmtBytes(fmt) == IF fmt = "unorm16" THEN 2 ELSE 4
Ch(stream, offset, fmt, dim) == [stream |-> stream, offset |-> offset, format |-> fmt, dimension |-> dim]
NoChannel == Ch(0, 0, "float32", 0)
ColorFmt == IF doc.draco THEN "unorm16" ELSE "float32"
ChannelsOf(bones, color, uvs) ==
  [c \in 0..13 |->
     CASE c = 0       -> Ch(0, 0, "float32", 3)
       [] c = 1       -> Ch(0, 12, "float32", 3)
       [] c = 2       -> IF prim.tangents # Nil THEN Ch(0, 24, "float32", 4) ELSE NoChannel
       [] c = 3       -> IF color THEN Ch(1, 0, ColorFmt, 4) ELSE NoChannel
       [] c \in 4..11 -> IF c - 4 >= uvs THEN NoChannel
                         ELSE Ch(IF color /\ ~bones THEN 2 ELSE 1,
                                 8 * (c - 4) + IF color /\ bones THEN 4 * FmtBytes(ColorFmt) ELSE 0, "float32", 2)
       [] OTHER       -> IF ~bones THEN NoChannel
                         ELSE Ch(IF color \/ uvs > 0 THEN 2 ELSE 1, 16 * (c - 12),
                                 IF c = 12 THEN "float32" ELSE "uint32", 4)]
Active(channels) == {c \in DOMAIN channels : channels[c].dimension > 0}
Streams(channels) == SetToSortSeq({channels[c].stream : c \in Active(channels)}, <)

LayOutAs(channels) ==
  data' = [bytes |-> <<>>, channels |-> channels, left |-> Streams(channels)]
LayOut ==
  /\ stage = "targets" /\ Len(prim.targets) = Len(doc.targets)
  /\ prim' = [prim EXCEPT !.poses = BindPoses]
  /\ LayOutAs(ChannelsOf(prim.weights # Nil, prim.colors # Nil, Len(prim.uvSets)))
  /\ stage' = "pack"
  /\ UNCHANGED <<doc, vertex, boxes, shapes>>

\* A byte is a format, a number and which byte of the number it is.
Byte(fmt, x, k) == IF x = 0 THEN <<"", 0, 0>> ELSE <<fmt, x, k>>
Unorm16(x) == (Max({0, Min({131070, x})}) + 1) \div 2
Stored(fmt, x) == IF fmt = "unorm16" THEN Unorm16(x) ELSE x
Packed(fmt, w, xs) ==
  [b \in 1..(w * Len(xs)) |-> Byte(fmt, Stored(fmt, xs[((b - 1) \div w) + 1]), (b - 1) % w)] \o <<>>

\* A list that is shorter than that of the positions is filled up.
RowOr(rows, v, pad) == IF v <= Len(rows) THEN rows[v] ELSE pad
ValueOf(c, v) ==
  CASE c = 0       -> prim.positions[v]
    [] c = 1       -> RowOr(prim.normals, v, <<0, 0, 0>>)
    [] c = 2       -> RowOr(prim.tangents, v, <<0, 0, 0, 0>>)
    [] c = 3       -> RowOr(prim.colors, v, <<131070, 131070, 131070, 131070>>)
    [] c \in 4..11 -> RowOr(prim.uvSets[c - 3], v, <<0, 0>>)
    [] c = 12      -> RowOr(prim.weights, v, <<0, 0, 0, 0>>)
    [] c = 13      -> RowOr(prim.joints, v, <<0, 0, 0, 0>>)

RoundUp(n, to) == ((n + to - 1) \div to) * to
WidthOf(ch) == ch.dimension * FmtBytes(ch.format)
RowWidth(channels, cs) == RoundUp(Max({channels[c].offset + WidthOf(channels[c]) : c \in cs}), 4)
Over(row, offset, bytes) ==
  [b \in DOMAIN row |-> IF b - offset \in DOMAIN bytes THEN bytes[b - offset] ELSE row[b]] \o <<>>
VertexRow(channels, cs, v) ==
  FoldLeft(LAMBDA row, c : IF c \notin cs THEN row
                           ELSE Over(row, channels[c].offset,
                                     Packed(channels[c].format, FmtBytes(channels[c].format), ValueOf(c, v))),
           [b \in 1..RowWidth(channels, cs) |-> Byte("", 0, 0)], [c \in 1..14 |-> c - 1])
VertexRows(channels, cs) == FlattenSeq([v \in 1..Len(prim.positions) |-> VertexRow(channels, cs, v)])
Aligned(bytes) == bytes \o [b \in 1..(RoundUp(Len(bytes), 16) - Len(bytes)) |-> Byte("", 0, 0)]
InStream(channels, s) == {c \in Active(channels) : channels[c].stream = s}

PackStream ==
  /\ stage = "pack" /\ data.left # <<>>
  /\ data' = [data EXCEPT !.left = Tail(@),
                !.bytes = Aligned(@) \o VertexRows(data.channels, InStream(data.channels, Head(data.left)))]
  /\ UNCHANGED <<doc, stage, prim, vertex, boxes, shapes>>

\* Twice the centre, and twice the extent.
Between(lo, hi) == [center |-> [ax \in 1..3 |-> 2 * lo[ax] + (hi[ax] - lo[ax])], extent |-> [ax \in 1..3 |-> hi[ax] - lo[ax]]]
Lowest(points)  == [ax \in 1..3 |-> Min({p[ax] : p \in points})] \o <<>>
Highest(points) == [ax \in 1..3 |-> Max({p[ax] : p \in points})] \o <<>>
Aabb == IF prim.bounds # Nil THEN Between(prim.bounds[1], prim.bounds[2])
        ELSE Between(Lowest(ToSet(prim.positions)), Highest(ToSet(prim.positions)))

-----------------------------------------------------------------------------
(* The box of each bone: of a vertex with its targets, two corners of the  *)
(* box around where it may be, as the pose of the bone moves them.         *)
MulPoint(m, p) == [r \in 1..3 |-> m[r] * p[1] + m[4 + r] * p[2] + m[8 + r] * p[3] + m[12 + r]] \o <<>>
Moved(t, v) == [ax \in 1..3 |-> prim.positions[v][ax] + t.positions[v][ax]] \o <<>>
Places(v) == {prim.positions[v]} \cup {Moved(t, v) : t \in ToSet(prim.targets)}
Corners(places) == {Lowest(places), Highest(places)}
Grown(box, points) == [lo |-> Lowest({box.lo} \cup points), hi |-> Highest({box.hi} \cup points)]
Grow(bs, b, corners) ==
  IF b \in DOMAIN bs THEN [bs EXCEPT ![b] = Grown(@, {MulPoint(prim.poses[b], c) : c \in corners})] ELSE bs
Bounded(all, v, corners) ==
  FoldLeft(LAMBDA bs, k : IF prim.weights[v][k] > 0 THEN Grow(bs, prim.joints[v][k] + 1, corners) ELSE bs,
           all, <<1, 2, 3, 4>>)

\* Only a primitive with weights on a node with a skin has boxes.
NoBox == [lo |-> <<Inf, Inf, Inf>>, hi |-> <<-Inf, -Inf, -Inf>>]
Boxes ==
  /\ stage = "pack" /\ data.left = <<>>
  /\ boxes' = IF prim.weights # Nil THEN [b \in 1..Len(prim.poses) |-> NoBox] ELSE <<>>
  /\ stage' = IF prim.weights # Nil THEN "bound" ELSE "shapes"
  /\ UNCHANGED <<doc, prim, vertex, data, shapes>>

BoundVertex ==
  /\ stage = "bound" /\ vertex < Len(prim.positions)
  /\ IF vertex < Len(prim.weights)
     THEN vertex' = vertex + 1 /\ boxes' = Bounded(boxes, vertex + 1, Corners(Places(vertex + 1))) /\ stage' = stage
     ELSE stage' = "panicked" /\ UNCHANGED <<vertex, boxes>>
  /\ UNCHANGED <<doc, prim, data, shapes>>

AllBounded ==
  /\ stage = "bound" /\ vertex = Len(prim.positions)
  /\ stage' = "shapes"
  /\ UNCHANGED <<doc, prim, vertex, data, boxes, shapes>>

-----------------------------------------------------------------------------
(* Blend shapes: of each target the vertices that it moves by 1e-5, or     *)
(* turns by as much.                                                       *)
KeepEps == 100
Long(v) == \/ \E ax \in 1..3 : Abs(v[ax]) >= KeepEps
           \/ v[1] * v[1] + v[2] * v[2] + v[3] * v[3] >= KeepEps * KeepEps
Nonzero(v) == \E ax \in 1..3 : Abs(v[ax]) > 1
Turn(t, v) == IF t.normals = Nil THEN Zeros(3) ELSE t.normals[v]
KeptOf(t) == SelectSeq([v \in 1..Len(t.positions) |-> v], LAMBDA v : Long(t.positions[v]) \/ Long(Turn(t, v)))
ShapeVertex(t, v) == [vertex |-> t.positions[v], normal |-> Turn(t, v),
                      tangent |-> IF t.tangents # Nil THEN Turn(t, v) ELSE Zeros(3), index |-> v]
WithShape(t, kept) ==
  [vertices |-> shapes.vertices \o Each(kept, LAMBDA v : ShapeVertex(t, v)),
   shapes   |-> Append(shapes.shapes,
                  [firstVertex |-> Len(shapes.vertices), vertexCount |-> Len(kept),
                   hasNormals |-> \E v \in ToSet(kept) : Nonzero(Turn(t, v)), hasTangents |-> FALSE])]
Shape(t) == shapes' = WithShape(t, KeptOf(t))
AddShape ==
  /\ stage = "shapes" /\ Len(shapes.shapes) < Len(prim.targets)
  /\ Shape(prim.targets[Len(shapes.shapes) + 1])
  /\ UNCHANGED <<doc, stage, prim, vertex, data, boxes>>

Finish ==
  /\ stage = "shapes" /\ Len(shapes.shapes) = Len(prim.targets)
  /\ stage' = "done"
  /\ UNCHANGED <<doc, prim, vertex, data, boxes, shapes>>

Init ==
  /\ doc \in Docs
  /\ stage = "read"
  /\ prim = Nil /\ vertex = 0 /\ data = Nil /\ boxes = <<>>
  /\ shapes = [vertices |-> <<>>, shapes |-> <<>>]
Ended == stage \in {"done", "panicked", "skipped"} /\ UNCHANGED vars
Next ==
  \/ Skip \/ Read \/ SortBones \/ Wind \/ ReadTarget \/ LayOut \/ PackStream
  \/ Boxes \/ BoundVertex \/ AllBounded \/ AddShape \/ Finish \/ Ended
Spec == Init /\ [][Next]_vars

-----------------------------------------------------------------------------
(* The vertex data as Unity reads it: the streams one after the other,     *)
(* each from a multiple of 16, and in a stream the channels of a vertex    *)
(* side by side in the order of their numbers.                             *)
UnityStride(channels, s) ==
  RoundUp(MapThenSumSet(LAMBDA c : WidthOf(channels[c]), InStream(channels, s)), 4)
UnityStart(channels, s, n) ==
  MapThenSumSet(LAMBDA r : RoundUp(n * UnityStride(channels, r), 16), 0..(s - 1))
UnityOffset(channels, c) ==
  MapThenSumSet(LAMBDA d : WidthOf(channels[d]), {d \in InStream(channels, channels[c].stream) : d < c})
Reads(channels, c, v, k, x) ==
  \A b \in 0..(FmtBytes(channels[c].format) - 1) :
    data.bytes[UnityStart(channels, channels[c].stream, Len(prim.positions))
               + (v - 1) * UnityStride(channels, channels[c].stream) + UnityOffset(channels, c)
               + (k - 1) * FmtBytes(channels[c].format) + b + 1]
    = Byte(channels[c].format, Stored(channels[c].format, x), b)

\* What the glTF says, in Unity's coordinates.
Want(attr) == doc.want[doc.attrs[attr]]
FullColor(c, unit) == IF Len(c) = 3 THEN <<unit * c[1], unit * c[2], unit * c[3], 131070>> ELSE [k \in 1..4 |-> unit * c[k]]
WantOf(c, v) ==
  CASE c = 0       -> Mirror(Want("POSITION")[v])
    [] c = 1       -> IF ~Has("NORMAL") THEN <<0, 0, Unit>> ELSE IF v > Len(Want("NORMAL")) THEN <<0, 0, 0>> ELSE Mirror(Want("NORMAL")[v])
    [] c = 2       -> <<Want("TANGENT")[v][1], Want("TANGENT")[v][2], -Want("TANGENT")[v][3], Want("TANGENT")[v][4]>>
    [] c = 3       -> FullColor(Want("COLOR_0")[v], [f32 |-> 1, u8 |-> 514, u16 |-> 2][TypeOf("COLOR_0")])
    [] c \in 4..11 -> <<Want(TexCoords[c - 3])[v][1], 131070 - Want(TexCoords[c - 3])[v][2]>>
    [] c = 12      -> prim.weights[v]
    [] c = 13      -> prim.joints[v]
AttrOf(c) == <<"POSITION", "NORMAL", "TANGENT", "COLOR_0">>[c + 1]

(* Every attribute of the primitive is where Unity reads it, whatever the  *)
(* layout of the buffers it came from (gltf.rs:61, 114, mesh_layout.rs:51, *)
(* 182), and nothing is left over.                                         *)
VertexDataReads ==
  /\ \A c \in 0..13 : data.channels[c].dimension > 0 <=>
       \/ c \in {0, 1}
       \/ c \in {2, 3} /\ Has(AttrOf(c))
       \/ c \in 4..11 /\ \A i \in 1..(c - 3) : Has(TexCoords[i])
       \/ c \in {12, 13} /\ Skinned
  /\ \A c \in Active(data.channels) : \A v \in DOMAIN prim.positions : \A k \in 1..data.channels[c].dimension :
       Reads(data.channels, c, v, k, WantOf(c, v)[k])

(* A triangle faces where it did: its normal is the mirrored normal of the *)
(* triangle of the glTF (gltf.rs:1052).                                    *)
Cross(u, v) == <<u[2] * v[3] - u[3] * v[2], u[3] * v[1] - u[1] * v[3], u[1] * v[2] - u[2] * v[1]>>
Minus(a, b) == <<a[1] - b[1], a[2] - b[2], a[3] - b[3]>>
Facing(points, t, at) ==
  Cross(Minus(points[at[3 * t - 1] + 1], points[at[3 * t - 2] + 1]), Minus(points[at[3 * t] + 1], points[at[3 * t - 2] + 1]))
WantedIndices == IF doc.indices = 0 THEN [i \in DOMAIN prim.positions |-> i - 1]
                 ELSE [i \in DOMAIN doc.want[doc.indices] |-> doc.want[doc.indices][i][1]]
TrianglesFace ==
  /\ Len(prim.indices) = 3 * (Len(WantedIndices) \div 3)
  /\ \A t \in 1..(Len(prim.indices) \div 3) :
       Facing(prim.positions, t, prim.indices) = Mirror(Facing(Want("POSITION"), t, WantedIndices))

(* Each joint keeps its share of a vertex, and the shares fall (130, 142). *)
ShareOf(w, j, joint) == MapThenSumSet(LAMBDA k : w[k], {k \in 1..4 : j[k] = joint})
BonesKept ==
  prim.weights # Nil =>
    \A v \in DOMAIN prim.weights :
      /\ \A joint \in ToSet(Want("JOINTS_0")[v]) :
           ShareOf(prim.weights[v], prim.joints[v], joint) * Total(Want("WEIGHTS_0")[v])
           = 60 * ShareOf(Want("WEIGHTS_0")[v], Want("JOINTS_0")[v], joint)
      /\ \A k \in 1..3 : prim.weights[v][k] >= prim.weights[v][k + 1]

(* A shape moves and turns each vertex as its target does, but for less    *)
(* than 1e-5; the ranges of the shapes follow one another; and a shape     *)
(* said to have no normals turns nothing (412).                            *)
InShape(s, v) ==
  {n \in (s.firstVertex + 1)..(s.firstVertex + s.vertexCount) : shapes.vertices[n].index = v}
DeltaOf(a, v) == IF a = 0 \/ v > Len(doc.want[a]) THEN Zeros(3) ELSE Mirror(doc.want[a][v])
ShapesApply ==
  /\ \A i \in DOMAIN shapes.shapes :
       shapes.shapes[i].firstVertex = MapThenSumSet(LAMBDA k : shapes.shapes[k].vertexCount, 1..(i - 1))
  /\ Len(shapes.vertices) = MapThenSumSet(LAMBDA k : shapes.shapes[k].vertexCount, DOMAIN shapes.shapes)
  /\ \A i \in DOMAIN doc.targets : \A v \in DOMAIN prim.positions :
       IF InShape(shapes.shapes[i], v) = {}
       THEN ~Long(DeltaOf(doc.targets[i].POSITION, v)) /\ ~Long(DeltaOf(doc.targets[i].NORMAL, v))
       ELSE \A n \in InShape(shapes.shapes[i], v) :
              /\ Cardinality(InShape(shapes.shapes[i], v)) = 1
              /\ shapes.vertices[n].vertex = DeltaOf(doc.targets[i].POSITION, v)
              /\ shapes.vertices[n].normal = DeltaOf(doc.targets[i].NORMAL, v)
              /\ shapes.shapes[i].hasNormals \/ \A ax \in 1..3 : shapes.vertices[n].normal[ax] \in -1..1

(* The box of the mesh is the smallest around its vertices, if the glTF    *)
(* declares no other (gltf.rs:1549).                                       *)
BoxAround ==
  \A ax \in 1..3 :
    /\ Aabb.center[ax] - Aabb.extent[ax] = 2 * Lowest(ToSet(prim.positions))[ax]
    /\ Aabb.center[ax] + Aabb.extent[ax] = 2 * Highest(ToSet(prim.positions))[ax]

(* A pose takes the mirrored mesh to where the skin's matrix takes the     *)
(* mesh, mirrored (mesh_layout.rs:281).                                    *)
PosesMirror ==
  \A b \in DOMAIN prim.poses : \A v \in DOMAIN prim.positions :
    MulPoint(prim.poses[b], prim.positions[v])
    = Mirror(MulPoint(IF doc.ibm = 0 THEN Identity ELSE doc.want[doc.ibm][b], Want("POSITION")[v]))

(* Where the bones may take the vertices they hold is in their boxes: with *)
(* no target exactly that, with targets if the box of the targets is, for  *)
(* each row of the pose, seen from one side (mesh_layout.rs:308).          *)
HeldBy(b) == {v \in DOMAIN prim.positions : \E k \in 1..4 : prim.weights[v][k] > 0 /\ prim.joints[v][k] = b - 1}
Reached(b) == {MulPoint(prim.poses[b], p) : p \in UNION {Places(v) : v \in HeldBy(b)}}
Inside(p, box) == \A ax \in 1..3 : box.lo[ax] <= p[ax] /\ p[ax] <= box.hi[ax]
OneSided(m) == \A r \in 1..3 : \A s \in {1, -1} : (\E k \in 0..2 : s * m[4 * k + r] > 0) => \A k \in 0..2 : s * m[4 * k + r] >= 0
BoneBoxesHold ==
  stage = "done" =>
    \A b \in DOMAIN boxes : \A p \in Reached(b) : Inside(p, boxes[b])
BoneBoxes ==
  \A b \in DOMAIN boxes :
    /\ OneSided(prim.poses[b]) \/ doc.targets = <<>> => \A p \in Reached(b) : Inside(p, boxes[b])
    /\ doc.targets = <<>> /\ HeldBy(b) # {} => boxes[b].lo = Lowest(Reached(b)) /\ boxes[b].hi = Highest(Reached(b))
    /\ HeldBy(b) = {} => boxes[b] = NoBox

(* Only a primitive with fewer weights or joints than positions fails.     *)
MeshReadsBack ==
  /\ stage = "panicked" => Len(Want("WEIGHTS_0")) < Len(Want("POSITION")) \/ Len(Want("JOINTS_0")) < Len(Want("POSITION"))
  /\ stage = "done" => VertexDataReads /\ TrianglesFace /\ BonesKept /\ PosesMirror /\ ShapesApply /\ BoxAround /\ BoneBoxes
=============================================================================
