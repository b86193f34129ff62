------------------------------- MODULE Commit -------------------------------
(***************************************************************************)
(* The end of a build: path ids become hashes (finalize_pathids), the      *)
(* AssetBundle lists what each entry loads (fill_assetbundle, sbp_order),  *)
(* and the objects are written with their externals in order of first use  *)
(* and their pixels in a stream file (commit_objects, ress).  An image     *)
(* alone has its own builder.  up chooses the order hashes give to path    *)
(* ids, guids and cab names, one way or the other; ress says that the      *)
(* template holds a stream file.                                           *)
(***************************************************************************)
EXTENDS Builder

VARIABLE out      \* the written file

pvars == <<bvars, out>>

Unwritten == [objs |-> <<>>, externals |-> <<>>, at |-> <<>>, payload |-> 0, nodes |-> {}]
CommitInit == Init /\ out = Unwritten

Unique(s) == FoldLeft(LAMBDA a, x : IF x \in Range(a) THEN a ELSE Append(a, x), <<>>, s)
Flatten(ss) == FoldLeft(LAMBDA a, x : a \o x, <<>>, ss)

-----------------------------------------------------------------------------
(* Path ids: one-to-one in the role, and 1 for the AssetBundle. *)
NewId(c, pid) ==
  LET same == {q \in DOMAIN c.roles : c.roles[q] = c.roles[pid]}
      first == CHOOSE q \in same : \A r \in same : q <= r
  IN IF pid = c.ab THEN 1 ELSE IF doc.up THEN first + 1 ELSE -first
Collide(c) == Cardinality({NewId(c, p) : p \in DOMAIN c.roles}) < Cardinality(DOMAIN c.roles)

Renamed(c) ==
  LET New(p) == IF p \in DOMAIN c.roles THEN NewId(c, p) ELSE p
      All(s) == [i \in DOMAIN s |-> New(s[i])]
      Ptr(p) == IF p[1] = 0 THEN <<0, New(p[2])>> ELSE p
      Object(o) == [o EXCEPT !.f = [k \in DOMAIN @ |-> [i \in DOMAIN @[k] |-> Ptr(@[k][i])]]]
      Old(n) == CHOOSE p \in DOMAIN c.objs : New(p) = n
  IN [c EXCEPT !.objs = [n \in {New(p) : p \in DOMAIN c.objs} |-> Object(c.objs[Old(n)])],
               !.scn = All(@), !.refd = All(@), !.clips = All(@),
               !.root = New(@), !.ctrl = New(@), !.meta = New(@), !.ab = New(@),
               !.mats = [i \in DOMAIN @ |-> [@[i] EXCEPT !.pid = New(@), !.tex = All(@)]],
               !.texs = [i \in DOMAIN @ |-> [@[i] EXCEPT !.pid = New(@)]]]

-----------------------------------------------------------------------------
(* The AssetBundle: for each entry, in the order of the guids, the objects *)
(* to load; and for its key, which of them to load and what it names.      *)
Entry(key, objs, asset) == [key |-> key, objs |-> objs, asset |-> asset]
Alone(key, pid) == Entry(key, <<P(pid)>>, P(pid))
ModelEntryOwn(c) == Entry(<<"model", <<>>>>, Unique(<<P(c.root)>> \o Ps(c.scn)), P(c.root))
ModelEntry(c) == Entry(<<"model", <<>>>>, Unique(<<P(c.root)>> \o Ps(c.scn) \o Ps(c.refd)), P(c.root))
MaterialEntry(m) ==
  Entry(<<"material", m.key>>, Unique(<<P(m.pid), <<1, ExtPid(ShaderFile)>>>> \o Ps(m.tex) \o m.ext), P(m.pid))
Entries(c) ==
  <<ModelEntry(c)>>
  \o (IF EmitsMetadata THEN <<Alone(<<"metadata", <<>>>>, c.meta)>> ELSE <<>>)
  \o [i \in DOMAIN c.mats |-> MaterialEntry(c.mats[i])]
  \o [i \in DOMAIN c.texs |-> Alone(<<"texture", c.texs[i].key>>, c.texs[i].pid)]
  \o (IF c.ctrl = 0 THEN <<>>
      ELSE <<Entry(<<"controller", <<>>>>, Ps(c.clips) \o <<P(c.ctrl)>>, P(c.ctrl))>>)

InRun(x, y) == \/ (IF doc.up THEN x[1] < y[1] ELSE x[1] > y[1])
               \/ x[1] = y[1] /\ x[2] < y[2]
Run(objs) == SortSeq(objs, InRun)
Place(st, e) ==
  LET run == Run(e.objs)
      slot == [key |-> e.key, start |-> Len(st.table), size |-> Len(run), asset |-> e.asset]
      same == {i \in DOMAIN st.slots : st.slots[i].key = e.key}
  IN [table |-> st.table \o run,
      slots |-> IF same = {} THEN Append(st.slots, slot)
                ELSE [i \in DOMAIN st.slots |-> IF i \in same THEN slot ELSE st.slots[i]]]
Placed(entries) ==
  FoldLeft(Place, [table |-> <<>>, slots |-> <<>>], IF doc.up THEN entries ELSE Reverse(entries))
Dependencies(c) ==
  (IF c.mats = <<>> THEN {} ELSE {ShaderFile}) \cup Range(c.files) \cup Range(doc.deps)
(* What the metadata asset lists, with one name that is no bundle's.       *)
IgnoreFile == -1
Listed(c) == Range(doc.deps) \cup Range(c.files)
             \cup (IF doc.v38 /\ c.mats # <<>> THEN {IgnoreFile} ELSE {})
FillAssetBundle(c, entries) ==
  LET p == Placed(entries)
      assets == [i \in DOMAIN p.slots |-> p.slots[i].asset]
  IN [c EXCEPT !.objs[c.ab].f = [m_PreloadTable |-> p.table, m_Container |-> assets],
               !.slots = p.slots]

Finalize ==
  /\ phase = "built"
  /\ IF Collide(b) THEN phase' = "collision" /\ UNCHANGED b
     ELSE /\ phase' = "named"
          /\ b' = FillAssetBundle(Renamed(b), Entries(Renamed(b)))
  /\ UNCHANGED <<doc, stack, scene, out>>

-----------------------------------------------------------------------------
(* Writing.  Pixels that are not readable go to the stream file, each      *)
(* texture from a multiple of Alignment on.                                *)
Alignment == 16
AlignDown(n) == (n \div Alignment) * Alignment
AlignUp(n) == ((n + Alignment - 1) \div Alignment) * Alignment
Sorted(S) == [i \in 1..Cardinality(S) |-> CHOOSE x \in S : Cardinality({y \in S : y < x}) = i - 1]
ByPid(objs) == Sorted(DOMAIN objs)
Streamed(objs) == SelectSeq(ByPid(objs), LAMBDA p :
                    objs[p].type = "Texture2D" /\ ~objs[p].read /\ objs[p].px > 0)
Stream(objs) ==
  LET Put1(st, p) == LET from == AlignUp(st.end)
                     IN [end |-> from + objs[p].px,
                         at |-> Put(st.at, p, [offset |-> from, size |-> objs[p].px])]
      all == FoldLeft(Put1, [end |-> 0, at |-> <<>>], Streamed(objs))
  IN [all EXCEPT !.end = AlignUp(@)]

(* External files are numbered anew, in the order objects first use them.  *)
FieldOrder == <<"m_Shader", "m_TexEnvs", "m_PreloadTable", "m_Container">>
Pointers(o) == Flatten([i \in DOMAIN FieldOrder |-> Get(o.f, FieldOrder[i], <<>>)])
Used(objs) ==
  LET all == Flatten([i \in DOMAIN ByPid(objs) |-> Pointers(objs[ByPid(objs)[i]])])
      files == SelectSeq([i \in DOMAIN all |-> all[i][1]], LAMBDA f : f >= 1)
  IN Unique(files)
FirstUse(objs, n) == Unique(Used(objs) \o [f \in 1..n |-> f])
Position(order, f) == CHOOSE i \in DOMAIN order : order[i] = f
Numbered(o, order) ==
  LET Ptr(p) == IF p[1] = 0 THEN p ELSE <<Position(order, p[1]), p[2]>>
  IN [o EXCEPT !.f = [k \in DOMAIN @ |-> [i \in DOMAIN @[k] |-> Ptr(@[k][i])]]]

External(files) == <<ShaderFile>> \o files
AsListed(externals, order) == externals
Permuted(externals, order) == [i \in DOMAIN externals |-> externals[order[i]]]

(* The nodes of the bundle: a stream file exactly when something streams.  *)
Nodes(streams) ==
  LET template == {"cab"} \cup (IF doc.ress THEN {"cab.resS"} ELSE {})
  IN IF streams THEN template \cup {"cab.resS"} ELSE template \ {"cab.resS"}

Write(objs, clear, files) ==
  LET s == Stream(objs)
      externals == IF clear THEN <<>> ELSE External(files)
      order == IF clear \/ Len(externals) = 1 THEN <<1>> ELSE FirstUse(objs, Len(externals))
  IN [objs |-> [p \in DOMAIN objs |-> Numbered(objs[p], order)],
      externals |-> IF clear THEN <<>> ELSE Permuted(externals, order),
      at |-> s.at, payload |-> s.end, nodes |-> Nodes(Streamed(objs) # <<>>)]

CommitObjects ==
  /\ phase = "named"
  /\ out' = Write(b.objs, b.mats = <<>> /\ b.files = <<>>, b.files)
  /\ phase' = "done"
  /\ UNCHANGED <<doc, b, stack, scene>>

(* An image alone is one texture, its metadata and the AssetBundle; one    *)
(* that does not decode leaves an entry that names nothing.                *)
BuildImage ==
  /\ phase = "new" /\ doc.kind = "image"
  /\ LET img == doc.images[1]
         tex == IF doc.up THEN 2 ELSE -2
         meta == IF doc.up THEN 3 ELSE -3
         Object(type, px, read) == [type |-> type, f |-> <<>>, px |-> px, read |-> read, subs |-> <<>>]
         first == IF img.ok THEN Alone(<<"texture", <<>>>>, tex) ELSE Entry(<<"texture", <<>>>>, <<>>, P(0))
         second == IF EmitsMetadata THEN <<Alone(<<"metadata", <<>>>>, meta)>> ELSE <<>>
         objs == (IF img.ok THEN tex :> Object("Texture2D", img.size, img.raw) ELSE <<>>)
                 @@ (IF EmitsMetadata THEN meta :> Object("TextAsset", 0, FALSE) ELSE <<>>)
                 @@ (1 :> Object("AssetBundle", 0, FALSE))
         c == FillAssetBundle([b EXCEPT !.objs = objs, !.ab = 1, !.meta = IF EmitsMetadata THEN meta ELSE 0],
                              <<first>> \o second)
     IN b' = c /\ out' = Write(c.objs, TRUE, <<>>)
  /\ phase' = "done"
  /\ UNCHANGED <<doc, stack, scene>>

Build == \/ Begin \/ WalkForEver \/ LoseChild \/ ClimbForEver \/ VisitFull \/ VisitBare \/ PassOver \/ Close
         \/ Furnish \/ OpenExtra \/ Complete
Making == \/ Build /\ UNCHANGED out
          \/ Finalize \/ CommitObjects \/ BuildImage
=============================================================================
