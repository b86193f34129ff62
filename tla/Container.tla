------------------------------ MODULE Container ------------------------------
(***************************************************************************)
(* The bundle as a file (src/src/unity): values by their type trees, the   *)
(* serialized file that holds them, and the UnityFS container of blocks;   *)
(* save_lz4 and load_bytes.  A stream is its cells by offset: a cell has a *)
(* width and a value, so what is read at another offset or with another    *)
(* width than it was written is lost, whatever the bytes.  A document says *)
(* in formats under which [file, version, growth] its bundle is saved:     *)
(* growth is how much longer than a chunk its compression is, from chunk   *)
(* to chunk one more, from 1 back to -1.                                   *)
(***************************************************************************)
EXTENDS Commit

CONSTANT ChunkSize
ASSUME ChunkSizeAssumption == ChunkSize \in Nat \ {0}

VARIABLE bundle    \* the saved bundle, and what loading it yields

vars == <<pvars, bundle>>

-----------------------------------------------------------------------------
(* Sequences of hundreds of cells are taken in halves: the recursion of    *)
(* the library's folds is as deep as a sequence is long.                   *)
Each(s, Op(_)) == <<>> \o [i \in DOMAIN s |-> Op(s[i])]
Joined(ss) ==
  LET RECURSIVE Go(_, _)
      Go(i, j) == LET k == (i + j) \div 2
                  IN IF i > j THEN <<>> ELSE IF i = j THEN ss[i] ELSE Go(i, k) \o Go(k + 1, j)
  IN Go(1, Len(ss))

FoldWhileOk(Op(_, _), r, s) ==
  LET RECURSIVE Go(_, _, _)
      Go(a, i, j) == LET k == (i + j) \div 2
                     IN IF i > j \/ ~a.ok THEN a
                        ELSE IF i = j THEN Op(a, s[i]) ELSE Go(Go(a, i, k), k + 1, j)
  IN Go(r, 1, Len(s))

(* Writer and Reader. *)
Cell(w, v) == <<w, v>>
Pad(n) == <<-n, 0>>
Up(n, to) == ((n + to - 1) \div to) * to
Lay(cells) ==
  LET Put1(s, c) == IF c[1] < 0 THEN [s EXCEPT !.end = Up(@, -c[1])]
                    ELSE IF c[1] = 0 THEN s
                    ELSE [s EXCEPT !.end = @ + c[1], !.at = Put(@, s.end, c)]
      all == FoldWhileOk(Put1, [ok |-> TRUE, end |-> 0, at |-> <<>>], cells)
  IN [end |-> all.end, at |-> all.at]
Cstr(len, v) == Cell(len + 1, v)

From(pos) == [pos |-> pos, ok |-> TRUE, got |-> <<>>]
(* AnyWidth is for a string, which ends where it ends. *)
AnyWidth == 1000000
TakeOne(s, r, w) ==
  IF w = 0 THEN r
  ELSE IF w < 0 THEN [r EXCEPT !.pos = Up(@, -w)]
  ELSE IF r.pos \in DOMAIN s.at /\ w \in {s.at[r.pos][1], AnyWidth}
  THEN [r EXCEPT !.pos = @ + s.at[r.pos][1], !.got = Append(@, s.at[r.pos][2])]
  ELSE [r EXCEPT !.ok = FALSE]
Take(s, r, widths) == FoldWhileOk(LAMBDA q, w : TakeOne(s, q, w), [r EXCEPT !.got = <<>>], widths)
Count(r) == IF r.ok THEN Last(r.got) ELSE 0
Copies(n, x) == [i \in 1..n |-> x]
(* Op reads one item from r and returns the reader with the item in it. *)
Many(r, n, Op(_)) ==
  LET Next1(q, i) == LET o == Op(q.r) IN [ok |-> o[1].ok, r |-> o[1], items |-> Append(q.items, o[2])]
      all == FoldWhileOk(Next1, [ok |-> r.ok, r |-> r, items |-> <<>>], Copies(n, 0))
  IN <<all.r, all.items>>

-----------------------------------------------------------------------------
(* Type trees: a pointer is an int and a long, a vector is an aligned      *)
(* array, a string aligns itself, bytes and flags align when marked.       *)
TypeNode(type, name, align, kids) == [type |-> type, name |-> name, align |-> align, kids |-> kids]
Leaf(type, name) == TypeNode(type, name, FALSE, <<>>)
Vector(name) ==
  TypeNode("vector", name, FALSE,
    <<TypeNode("Array", "Array", TRUE,
        <<Leaf("int", "size"),
          TypeNode("PPtr", "data", FALSE, <<Leaf("int", "m_FileID"), Leaf("SInt64", "m_PathID")>>)>>)>>)
FieldsOf(type) ==
  CASE type = "GameObject" -> <<"m_Component">>
    [] type = "Transform" -> <<"m_GameObject", "m_Children", "m_Father">>
    [] type = "MeshFilter" -> <<"m_GameObject", "m_Mesh">>
    [] type = "MeshCollider" -> <<"m_GameObject", "m_Mesh">>
    [] type = "MeshRenderer" -> <<"m_GameObject", "m_Materials">>
    [] type = "SkinnedMeshRenderer" -> <<"m_GameObject", "m_Materials", "m_Mesh", "m_Bones", "m_RootBone">>
    [] type = "Material" -> <<"m_Shader", "m_TexEnvs">>
    [] type = "Animation" -> <<"m_GameObject", "m_Animations">>
    [] type = "Animator" -> <<"m_GameObject", "m_Controller">>
    [] type = "AnimatorController" -> <<"m_AnimationClips">>
    [] type = "AssetBundle" -> <<"m_PreloadTable", "m_Container">>
    [] OTHER -> <<>>
TreeOf(type) ==
  LET fields == FieldsOf(type)
  IN TypeNode(type, "Base", FALSE,
       <<Leaf("string", "m_Name"), TypeNode("bool", "m_IsReadable", TRUE, <<>>)>>
       \o [i \in DOMAIN fields |-> Vector(fields[i])]
       \o (IF type = "Texture2D" THEN <<TypeNode("TypelessData", "image data", TRUE, <<>>)>> ELSE <<>>))

WidthOf(type) == CASE type = "int" -> 4 [] type = "SInt64" -> 8 [] type = "bool" -> 1 [] OTHER -> 0
IsVector(node) == node.kids # <<>> /\ node.kids[1].type = "Array"
Aligns(node) == node.align \/ (IsVector(node) /\ node.kids[1].align)
(* A string is its length, bytes are their number. *)
RECURSIVE WriteValue(_, _)
WriteValue(node, v) ==
  LET body == CASE WidthOf(node.type) > 0 -> <<Cell(WidthOf(node.type), v)>>
                [] node.type = "string" -> <<Cell(4, v), Cell(v, v), Pad(4)>>
                [] node.type = "TypelessData" -> <<Cell(4, v), Cell(v, v)>>
                [] IsVector(node) ->
                     <<Cell(4, Len(v))>> \o Joined([i \in DOMAIN v |-> WriteValue(node.kids[1].kids[2], v[i])])
                [] OTHER -> Joined([i \in DOMAIN node.kids |-> WriteValue(node.kids[i], v[node.kids[i].name])])
  IN body \o (IF Aligns(node) THEN <<Pad(4)>> ELSE <<>>)

ReadBytes(s, size, pads) == <<Take(s, size, <<Count(size)>> \o IF Count(size) > 0 THEN pads ELSE <<>>), Count(size)>>
RECURSIVE ReadValue(_, _, _)
ReadValue(node, s, r) ==
  LET Size(Op(_)) == Op(Take(s, r, <<4>>))
      Child(q, kid) == With(ReadValue(kid, s, q[1]), LAMBDA c : <<c[1], Put(q[2], kid.name, c[2])>>)
      read == CASE WidthOf(node.type) > 0 ->
                     With(Take(s, r, <<WidthOf(node.type)>>), LAMBDA one : <<one, Count(one)>>)
                [] node.type = "string" -> Size(LAMBDA size : ReadBytes(s, size, <<-4>>))
                [] node.type = "TypelessData" -> Size(LAMBDA size : ReadBytes(s, size, <<>>))
                [] IsVector(node) ->
                     Size(LAMBDA size : Many(size, Count(size), LAMBDA q : ReadValue(node.kids[1].kids[2], s, q)))
                [] OTHER -> FoldLeft(Child, <<r, <<>>>>, node.kids)
  IN IF Aligns(node) THEN With(read, LAMBDA q : <<Take(s, q[1], <<-4>>), q[2]>>) ELSE read

(* What a written object holds, for its type tree. *)
ValueOf(p) ==
  LET o == out.objs[p]
      Ptr(ptr) == [m_FileID |-> ptr[1], m_PathID |-> ptr[2]]
      Ptrs(s) == [i \in DOMAIN s |-> Ptr(s[i])]
      Field(name) == CASE name = "m_Name" -> (p * p) % 5
                       [] name = "m_IsReadable" -> o.read
                       [] name = "image data" -> IF p \in DOMAIN out.at THEN 0 ELSE o.px
                       [] OTHER -> Ptrs(Get(o.f, name, <<>>))
  IN [name \in {k.name : k \in Range(TreeOf(o.type).kids)} |-> Field(name)]

(* A tree as a list of its nodes with their levels, and back. *)
RECURSIVE Traverse(_, _)
Traverse(node, level) ==
  <<[type |-> node.type, name |-> node.name, align |-> node.align, level |-> level]>>
  \o Joined([i \in DOMAIN node.kids |-> Traverse(node.kids[i], level + 1)])
ParentIn(flat, i) ==
  LET above == {j \in 1..(i - 1) : flat[j].level = flat[i].level - 1}
  IN IF above = {} THEN 0 ELSE CHOOSE j \in above : \A k \in above : k <= j
Indices(s) == [i \in DOMAIN s |-> i]
RECURSIVE Assemble(_, _, _)
Assemble(flat, parents, i) ==
  TypeNode(flat[i].type, flat[i].name, flat[i].align,
           Each(SelectSeq(Indices(flat), LAMBDA j : parents[j] = i), LAMBDA j : Assemble(flat, parents, j)))
BuildTree(flat) == Assemble(flat, Each(Indices(flat), LAMBDA i : ParentIn(flat, i)), 1)

(* Names are numbers in a table all readers have, or places in a buffer.   *)
Common == {"Array", "Base", "data", "int", "string", "vector", "bool", "TypelessData", "m_Name",
           "PPtr", "m_FileID", "m_PathID", "SInt64", "size"}
NameWidth == 8
Intern(flat) == Unique(SelectSeq(Joined([i \in DOMAIN flat |-> <<flat[i].type, flat[i].name>>]),
                                 LAMBDA n : n \notin Common))
Reference(names, n) == IF n \in Common THEN <<"common", n>>
                       ELSE <<"local", NameWidth * ((CHOOSE i \in DOMAIN names : names[i] = n) - 1)>>
Resolve(names, ref) == IF ref[1] = "common" THEN ref[2] ELSE names[(ref[2] \div NameWidth) + 1]
NodeWidth(version) == IF version >= 19 THEN 32 ELSE 24
DumpNodes(flat, names, version) ==
  LET Raw(n) == [n EXCEPT !.type = Reference(names, n.type), !.name = Reference(names, n.name)]
  IN <<Cell(4, Len(flat)), Cell(4, NameWidth * Len(names))>>
     \o [i \in DOMAIN flat |-> Cell(NodeWidth(version), Raw(flat[i]))]
     \o <<Cell(NameWidth * Len(names), names)>>
DumpBlob(tree, version) ==
  With(Traverse(tree, 0), LAMBDA flat : DumpNodes(flat, Intern(flat), version))
ParseNodes(raw, n, names) ==
  LET Named(x) == [x EXCEPT !.type = Resolve(names, x.type), !.name = Resolve(names, x.name)]
  IN <<raw, IF raw.ok THEN BuildTree(Each(SubSeq(raw.got, 1, n), Named)) ELSE 0>>
ParseBlob(s, r, version) ==
  With(Take(s, r, <<4, 4>>), LAMBDA counts :
    LET n == IF counts.ok THEN counts.got[1] ELSE 0
    IN With(Take(s, counts, Copies(n, NodeWidth(version)) \o <<Count(counts)>>), LAMBDA raw :
         ParseNodes(raw, n, IF Count(counts) = 0 THEN <<>> ELSE Last(raw.got))))

-----------------------------------------------------------------------------
(* The serialized file: types, objects in the order of their path ids,     *)
(* externals, and the objects' data, each from a multiple of 16.  The      *)
(* metadata is written from offset 0 and read behind the header.           *)
WriteType(t, version) ==
  <<Cell(4, t), Cell(1, FALSE), Cell(2, -1), Cell(16, t)>> \o DumpBlob(TreeOf(t), version)
  \o (IF version >= 21 THEN <<Cell(4, 0)>> ELSE <<>>)
ReadType(s, r, version) ==
  With(ParseBlob(s, Take(s, r, <<4, 1, 2, 16>>), version), LAMBDA tree :
    IF version < 21 THEN tree
    ELSE With(Take(s, tree[1], <<4>>), LAMBDA deps : <<Take(s, deps, Copies(Count(deps), 4)), tree[2]>>))

HeaderSize(version) == 16 + (IF version < 22 THEN 4 ELSE 4 + 28)
OffsetWidth(version) == IF version >= 22 THEN 8 ELSE 4
Held(pids) == Each(pids, LAMBDA p : Lay(WriteValue(TreeOf(out.objs[p].type), ValueOf(p))))
Arrange(held) ==
  LET Place1(d, x) == With(Up(d.end, 16), LAMBDA at : [end |-> at + x.end, from |-> Append(d.from, at)])
  IN FoldLeft(Place1, [end |-> 0, from |-> <<>>], held)
WriteMetadata(version, pids, types, held, data) ==
  LET Entry1(i) == <<Pad(4), Cell(8, pids[i]), Cell(OffsetWidth(version), data.from[i]),
                     Cell(4, held[i].end), Cell(4, Position(types, out.objs[pids[i]].type))>>
      External1(i) == <<Cstr(0, 0), Cell(16, 0), Cell(4, 0), Cstr(5 + (i % 3), out.externals[i])>>
  IN Lay(<<Cstr(8, "unity"), Cell(4, "platform"), Cell(1, TRUE), Cell(4, Len(types))>>
         \o Joined([i \in DOMAIN types |-> WriteType(types[i], version)])
         \o <<Cell(4, Len(pids))>> \o Joined([i \in DOMAIN pids |-> Entry1(i)])
         \o <<Cell(4, 0), Cell(4, Len(out.externals))>>
         \o Joined([i \in DOMAIN out.externals |-> External1(i)])
         \o (IF version >= 20 THEN <<Cell(4, 0)>> ELSE <<>>) \o <<Cstr(0, 0)>>)
WriteHeader(version, meta, offset, data) ==
  Lay(<<Cell(4, 0), Cell(4, 0), Cell(4, version)>>
      \o (IF version < 22 THEN <<Cell(4, offset), Cell(4, 0)>>
          ELSE <<Cell(4, 0), Cell(4, 0), Cell(4, meta.end), Cell(8, offset + data.end),
                 Cell(8, offset), Cell(8, 0)>>))
Together(version, held, data, meta) ==
  LET from == HeaderSize(version)
      offset == Up(from + meta.end, 16)
  IN [end |-> offset + data.end,
      at |-> WriteHeader(version, meta, offset, data).at
             @@ [k \in {from + m : m \in DOMAIN meta.at} |-> meta.at[k - from]]
             @@ [k \in {offset + at : at \in Range(data.from)} |->
                   LET x == held[Position(data.from, k - offset)] IN Cell(x.end, x)]]
SaveFile(version) ==
  LET pids == ByPid(out.objs)
      types == Unique(Each(pids, LAMBDA p : out.objs[p].type))
  IN With(Held(pids), LAMBDA held : With(Arrange(held), LAMBDA data :
       Together(version, held, data, WriteMetadata(version, pids, types, held, data))))

ReadObject(s, r, version, offset, types) ==
  With(Take(s, r, <<-4, 8, OffsetWidth(version), 4, 4>>), LAMBDA e :
    With(Take(s, From(offset + e.got[2]), <<e.got[3]>>), LAMBDA data :
      IF ~e.ok \/ ~data.ok THEN <<[e EXCEPT !.ok = FALSE], 0>>
      ELSE With(ReadValue(types[e.got[4]], data.got[1], From(0)), LAMBDA read :
             <<[e EXCEPT !.ok = read[1].ok], [pid |-> e.got[1], tree |-> types[e.got[4]], value |-> read[2]]>>)))
ReadExternal(s, r) == With(Take(s, r, <<AnyWidth, 16, 4, AnyWidth>>), LAMBDA e : <<e, Count(e)>>)
(* As many items as the next number says. *)
Counted(s, r, Op(_)) == With(Take(s, r, <<4>>), LAMBDA n : Many(n, Count(n), Op))
ReadTail(s, version, objects) ==
  With(Counted(s, Take(s, objects[1], <<4>>), LAMBDA r : ReadExternal(s, r)), LAMBDA externals :
    [ok |-> Take(s, externals[1], IF version >= 20 THEN <<4, AnyWidth>> ELSE <<AnyWidth>>).ok,
     objects |-> objects[2], externals |-> externals[2]])
ParseMetadata(s, head, version, offset) ==
  With(Counted(s, Take(s, head, <<AnyWidth, 4, 1>>), LAMBDA r : ReadType(s, r, version)), LAMBDA types :
    With(Counted(s, types[1], LAMBDA r : ReadObject(s, r, version, offset, types[2])), LAMBDA objects :
      ReadTail(s, version, objects)))
ParseFile(s) ==
  With(Take(s, From(0), <<4, 4, 4, 4, 4>>), LAMBDA head :
    LET version == head.got[3]
    IN With(IF version < 22 THEN head ELSE Take(s, head, <<4, 8, 8, 8>>), LAMBDA wide :
         ParseMetadata(s, wide, version, IF version < 22 THEN head.got[4] ELSE wide.got[3])))

-----------------------------------------------------------------------------
(* The container: the files one behind the other, cut into chunks that are *)
(* compressed, or kept when that would be longer; the list of blocks and   *)
(* files before them.                                                      *)
Compressed(n, i, growth) == IF n + ((growth + i) % 3) - 1 < 1 THEN 1 ELSE n + ((growth + i) % 3) - 1
BlockAlwaysPacked(from, n, i, growth) ==
  LET packed == Compressed(n, i, growth) <= n
  IN [size |-> n, width |-> IF packed THEN Compressed(n, i, growth) ELSE n, flag |-> TRUE,
      holds |-> <<packed, from, from + n>>]
Block(from, n, i, growth) ==
  LET packed == Compressed(n, i, growth) <= n
  IN [size |-> n, width |-> IF packed THEN Compressed(n, i, growth) ELSE n, flag |-> packed,
      holds |-> <<packed, from, from + n>>]
ChunkBasedCompress(length, growth) ==
  LET Chunk(i) == LET from == (i - 1) * ChunkSize
                  IN Block(from, IF length - from < ChunkSize THEN length - from ELSE ChunkSize, i, growth)
  IN Each([i \in 1..((length + ChunkSize - 1) \div ChunkSize) |-> i], Chunk)

FileNames == IF "cab.resS" \in out.nodes THEN <<"cab", "cab.resS">> ELSE <<"cab">>
ContentOf(name, version) == IF name = "cab" THEN SaveFile(version) ELSE [end |-> out.payload, at |-> out.at]
WriteInfo(blocks, names, files, start) ==
  Lay(<<Cell(16, 0), Cell(4, Len(blocks))>>
      \o Joined([i \in DOMAIN blocks |-> <<Cell(4, blocks[i].size), Cell(4, blocks[i].width),
                                            Cell(2, blocks[i].flag)>>])
      \o <<Cell(4, Len(files))>>
      \o Joined([i \in DOMAIN files |-> <<Cell(8, start[i]), Cell(8, files[i].end), Cell(4, 0),
                                           Cstr(6 * i, names[i])>>]))
WriteBundle(format, blocks, info, packed) ==
  Lay(<<Cstr(7, "UnityFS"), Cell(4, format.file), Cstr(5, 0), Cstr(9, 0), Cell(8, 0),
        Cell(4, packed), Cell(4, info.end), Cell(4, 0)>>
      \o (IF format.file >= 7 THEN <<Pad(16)>> ELSE <<>>)
      \o <<Cell(packed, info), Pad(16)>>
      \o [i \in DOMAIN blocks |-> Cell(blocks[i].width, blocks[i].holds)])
Packed(format, files, start, blocks) ==
  With(WriteInfo(blocks, FileNames, files, start), LAMBDA info :
    [bytes |-> WriteBundle(format, blocks, info, Compressed(info.end, 0, format.growth)),
     data |-> [from \in Range(start) |-> files[Position(start, from)]]])
SaveLz4(format) ==
  With(Each(FileNames, LAMBDA n : ContentOf(n, format.version)), LAMBDA files :
    Packed(format, files, Each(Indices(files), LAMBDA i : SumOver(SubSeq(files, 1, i - 1), LAMBDA f : f.end)),
           ChunkBasedCompress(SumOver(files, LAMBDA f : f.end), format.growth)))

(* Decompressing yields the data when its blocks hold it piece by piece.   *)
Decompressed(blocks, held) ==
  /\ \A i \in DOMAIN blocks : /\ held[i][1] = blocks[i][3]
                              /\ held[i][3] - held[i][2] = blocks[i][1]
                              /\ held[i][2] = IF i = 1 THEN 0 ELSE held[i - 1][3]
Content(f, node) == IF node[4] = "cab" THEN ParseFile(f.data[node[1]]) ELSE f.data[node[1]]
Contents(f, nodes) ==
  IF \E node \in Range(nodes) : node[1] \notin DOMAIN f.data \/ f.data[node[1]].end # node[2] THEN <<>>
  ELSE [i \in DOMAIN nodes |-> [name |-> nodes[i][4], content |-> Content(f, nodes[i])]]
Items(s, r, widths) == Counted(s, r, LAMBDA q : With(Take(s, q, widths), LAMBDA o : <<o, o.got>>))
ReadFiles(f, info, body, blocks) ==
  With(Items(info, blocks[1], <<8, 8, 4, AnyWidth>>), LAMBDA nodes :
    With(Take(f.bytes, body, [i \in DOMAIN blocks[2] |-> blocks[2][i][2]]), LAMBDA held :
      IF blocks[1].ok /\ nodes[1].ok /\ held.ok /\ Decompressed(blocks[2], held.got)
      THEN Contents(f, nodes[2]) ELSE <<>>))
ReadInfo(f, body, info) ==
  With(Items(info, Take(info, From(0), <<16>>), <<4, 4, 2>>), LAMBDA blocks : ReadFiles(f, info, body, blocks))
LoadBytes(f) ==
  With(Take(f.bytes, From(0), <<AnyWidth, 4, AnyWidth, AnyWidth, 8, 4, 4, 4>>), LAMBDA head :
    With(Take(f.bytes, head, (IF head.got[2] >= 7 THEN <<-16>> ELSE <<>>) \o <<head.got[6], -16>>), LAMBDA body :
      IF head.ok /\ body.ok THEN ReadInfo(f, body, Last(body.got)) ELSE <<>>))

Save ==
  /\ phase = "done"
  /\ \E format \in doc.formats : bundle' = SaveLz4(format)
  /\ phase' = "saved"
  /\ UNCHANGED <<doc, b, stack, scene, out>>
Load ==
  /\ phase = "saved"
  /\ bundle' = [files |-> LoadBytes(bundle)]
  /\ phase' = "loaded"
  /\ UNCHANGED <<doc, b, stack, scene, out>>

Over == phase \in {"collision", "panic", "hangs", "loaded"} \/ (phase = "done" /\ doc.formats = {})
Ended == Over /\ UNCHANGED vars
ContainerInit == CommitInit /\ bundle = [files |-> <<>>]
Next == \/ Making /\ UNCHANGED bundle
        \/ Save \/ Load \/ Ended

(* A build that has not ended goes on: it is one sequence of calls.  (The   *)
(* weak fairness of Next, written without the ENABLED of steps this large.) *)
Fairness == []<>Over \/ []<><<Next>>_vars
Spec == ContainerInit /\ [][Next]_vars /\ Fairness
=============================================================================
