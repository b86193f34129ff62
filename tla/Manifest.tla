------------------------------ MODULE Manifest ------------------------------
(***************************************************************************)
(* What abgen-corpus is going to build: the options, the four ways to the  *)
(* list of bundles (a list of entity ids, a collection of wearables, a     *)
(* directory of reference bundles, a file), and the context in which       *)
(* build_one then builds each.  Entities and their models are read in      *)
(* parallel and share UriCache, which keeps the image URIs of a hash read  *)
(* under an extension.                                                     *)
(*                                                                         *)
(* A case is a record:                                                     *)
(*   opts     [ids, cdn, flat, collection, reference, version, paths]      *)
(*   ents     <<[id, known, type, items]>>, items <<[file, hash]>>; for a  *)
(*            collection its wearables; for a directory its subdirectories *)
(*   names    for a directory, the bundles in each: <<[cid, digest, dcl]>> *)
(*   types    for a directory, the types that --entities gives: [id, type] *)
(*   present  the hashes that the store has; bytes, what each holds        *)
(***************************************************************************)
EXTENDS Naming, FiniteSets

CONSTANTS
  Cases,
  Readers     \* the threads of the pool

ManifestAssumption ==
  /\ Readers # {}
  /\ \A c \in Cases : c.present \subseteq DOMAIN c.bytes

VARIABLES
  case,
  uris,      \* UriCache: [(hash, ext) -> URIs], as far as it is filled
  scan,      \* [<<entity, model>> -> what scan_one found], as far as it ended
  reader,    \* what each thread is at: nothing, or the model it parses
  entries,   \* [entity -> its bundles], as far as they are derived
  plan       \* what run goes on with: [state, entries], state one of "none", "ok", "error"

vars == <<case, uris, scan, reader, entries, plan>>

Idle == [at |-> "idle"]
NoPlan == [state |-> "none", entries |-> <<>>]

-----------------------------------------------------------------------------
(* run: the options that go together, and which way is taken.              *)
Opts == case.opts
Flat == Opts.flat \/ Opts.collection
Refuses == \/ Opts.cdn /\ (Flat \/ ~Opts.ids \/ ~Opts.version)
           \/ Opts.paths # (IF Opts.ids \/ Opts.collection \/ Opts.reference THEN 1 ELSE 2)
Way == IF Opts.ids THEN "ids"
       ELSE IF Opts.collection THEN "collection"
       ELSE IF Opts.reference THEN "reference" ELSE "file"

Init ==
  /\ case \in Cases
  /\ uris = <<>> /\ scan = <<>> /\ entries = <<>> /\ plan = NoPlan
  /\ reader = [r \in Readers |-> Idle]

Ents == DOMAIN case.ents
Present(hash) == hash \in case.present

(* Of the files of a wearable's representations, the first of each name. *)
FirstOf(items) ==
  LET first == {k \in DOMAIN items : \A j \in 1..(k - 1) : Key(items[j].file) # Key(items[k].file)}
  IN [n \in 1..Cardinality(first) |->
        items[CHOOSE k \in first : Cardinality({j \in first : j <= k}) = n]]
Items(i) == IF Way = "collection" THEN FirstOf(case.ents[i].items) ELSE case.ents[i].items

(* content_by_file: the last of the files that differ only in their case.  *)
Content(i) ==
  [k \in {Key(x.file) : x \in Range(Items(i))} |->
     LET at == {n \in DOMAIN Items(i) : Key(Items(i)[n].file) = k}
     IN Items(i)[CHOOSE n \in at : \A m \in at : m <= n].hash]

-----------------------------------------------------------------------------
(* scan_one, given the URIs of the model: the images a model that resolves *)
(* in full refers to; those of which a use is not a colour; those that are *)
(* normal maps and nothing else of that kind.                              *)
HashesOf(images, bytes, model, content) ==
  {HashOf(bytes.images[n], model, content) :
     n \in {m \in images \cap DOMAIN bytes.images :
            bytes.images[m].form # "none" /\ Finds(bytes.images[m], model, content)}}
Uses(bytes, ext) == IF Readable(bytes, ext) /\ bytes.parses THEN Range(bytes.mats) ELSE {}
UsedAs(use, mats) == {m[use] : m \in mats} \ {0}
ScannedIn(bytes, mats, model, content, found) ==
  [uris |-> found,
   refs |-> IF \A n \in DOMAIN found : Finds(found[n], model, content)
            THEN {HashOf(u, model, content) : u \in Range(found)} ELSE {},
   linear |-> HashesOf(UsedAs("normal", mats) \cup UsedAs("mr", mats), bytes, model, content),
   normal |-> HashesOf(UsedAs("normal", mats) \ (UsedAs("mr", mats) \cup {m.occlusion : m \in mats}),
                       bytes, model, content)]
ScannedAs(bytes, model, content, found) == ScannedIn(bytes, Uses(bytes, model.ext), model, content, found)
Scanned(i, model, found) == ScannedAs(case.bytes[Content(i)[model]], model, Content(i), found)
NotScanned == [uris |-> <<>>, refs |-> {}, linear |-> {}, normal |-> {}]

(* What collect_model_referenced_hashes and collect_linear_texture_hashes  *)
(* find, which read every model themselves.                                *)
Collected(i, model) ==
  LET hash == Content(i)[model]
  IN IF Present(hash) THEN Scanned(i, model, ImageUris(case.bytes[hash], model.ext)) ELSE NotScanned

Models(i) == {k \in DOMAIN Content(i) : IsModel(k)}
Listed == {i \in Ents : case.ents[i].known /\ (Way = "ids" => Items(i) # <<>>)}
Open == {t \in UNION {{i} \X Models(i) : i \in Listed} :
           /\ t \notin DOMAIN scan
           /\ \A r \in Readers : reader[r].at = "idle" \/ reader[r].task # t}
Parallel == plan = NoPlan /\ ~Refuses /\ Way \in {"ids", "reference"}

\* Faulty: without the extension, which says how the bytes are read.
UriKeyByHash(t) == <<Content(t[1])[t[2]], "">>
UriKey(t) == <<Content(t[1])[t[2]], t[2].ext>>
EndScan(t, result) == scan' = scan @@ (t :> result)

(* A thread takes up a model: it is gone, its URIs are known, or it is     *)
(* parsed; what is parsed is kept unless another thread was first.         *)
TakeGone ==
  \E t \in Open : /\ Parallel /\ ~Present(UriKey(t)[1])
                  /\ EndScan(t, NotScanned)
                  /\ UNCHANGED <<case, uris, reader, entries, plan>>
TakeKnown ==
  \E t \in Open : /\ Parallel /\ Present(UriKey(t)[1]) /\ UriKey(t) \in DOMAIN uris
                  /\ EndScan(t, Scanned(t[1], t[2], uris[UriKey(t)]))
                  /\ UNCHANGED <<case, uris, reader, entries, plan>>
TakeNew(r) ==
  \E t \in Open : /\ Parallel /\ reader[r].at = "idle"
                  /\ Present(UriKey(t)[1]) /\ UriKey(t) \notin DOMAIN uris
                  /\ reader' = [reader EXCEPT ![r] = [at |-> "parse", task |-> t]]
                  /\ UNCHANGED <<case, uris, scan, entries, plan>>
Keep(r) ==
  /\ reader[r].at = "parse"
  /\ LET t == reader[r].task
         kept == uris @@ (UriKey(t) :> ImageUris(case.bytes[UriKey(t)[1]], t[2].ext))
     IN uris' = kept /\ EndScan(t, Scanned(t[1], t[2], kept[UriKey(t)]))
  /\ reader' = [reader EXCEPT ![r] = Idle]
  /\ UNCHANGED <<case, entries, plan>>

-----------------------------------------------------------------------------
(* The bundles of an entity.  In a scan, what was found is what its models *)
(* found; a collection reads them again.                                   *)
Found(i, model) == IF Way = "collection" THEN Collected(i, model) ELSE scan[<<i, model>>]

(* metadata_deps: the bundles of the images it can find, in order; what    *)
(* the scan did not read under that name and extension is read now.        *)
FirstOnly(s) == FoldLeft(LAMBDA a, x : IF x \in Range(a) THEN a ELSE Append(a, x), <<>>, s)
ReadAs(known, i, file, hash) ==
  IF known # {} /\ Way # "collection" THEN Found(i, CHOOSE k \in known : TRUE).uris
  ELSE IF Present(hash) THEN ImageUris(case.bytes[hash], file.ext) ELSE <<>>
HashesFound(hits, file, content) == FirstOnly([n \in DOMAIN hits |-> HashOf(hits[n], file, content)])
DepsIn(content, i, file, hash) ==
  HashesFound(SelectSeq(ReadAs({k \in Models(i) : content[k] = hash /\ k.ext = file.ext}, i, file, hash),
                        LAMBDA u : Finds(u, file, content)), file, content)
MetadataDeps(i, file, hash) == DepsIn(Content(i), i, file, hash)

SpecIn(found, i, file, source, hash, name) ==
  [hash |-> hash, name |-> name, source |-> source,
   deps |-> IF IsModel(file) \/ Way = "reference" THEN MetadataDeps(i, file, hash) ELSE <<>>,
   modelRef |-> IsImage(file) /\ \E s \in found : hash \in s.refs,
   space |-> IF ~IsImage(file) THEN -1 ELSE IF \E s \in found : hash \in s.linear THEN 0 ELSE 1,
   normal |-> IsImage(file) /\ \E s \in found : hash \in s.normal,
   type |-> "", dcl |-> FALSE]
SpecOf(i, file, source, hash, name) ==
  SpecIn({Found(i, k) : k \in Models(i)}, i, file, source, hash, name)

(* from_entity_ids and from_collection_urn: each hash that is there and    *)
(* can be converted, under the first of its names; the latter leaves out   *)
(* what an earlier wearable has.                                           *)
Fits(x) == (IsModel(x.file) \/ IsImage(x.file)) /\ Present(x.hash)
Wanted(items, k, seen) ==
  /\ Fits(items[k]) /\ items[k].hash \notin seen
  /\ \A j \in 1..(k - 1) : ~(Fits(items[j]) /\ items[j].hash = items[k].hash)
BundleOf(i, x) ==
  [SpecOf(i, x.file, x.file, x.hash, <<x.hash>>) EXCEPT !.type = IF Way = "ids" THEN case.ents[i].type ELSE ""]
BundlesOf(i, items, wanted) == [n \in DOMAIN wanted |-> BundleOf(i, items[wanted[n]])]
BundlesIn(i, items, seen) ==
  BundlesOf(i, items, SelectSeq([k \in DOMAIN items |-> k], LAMBDA k : Wanted(items, k, seen)))
Bundles(i, seen) == BundlesIn(i, Items(i), seen)

(* best_glb_file: of the names of a hash the first under which most of its *)
(* images are found.                                                       *)
Hits(i, file, hash) ==
  Len(SelectSeq(ImageUris(case.bytes[hash], file.ext), LAMBDA u : Finds(u, file, Content(i))))
FirstBest(hits) == CHOOSE n \in DOMAIN hits : \A m \in DOMAIN hits : hits[m] <= hits[n] /\ (m < n => hits[m] < hits[n])
BestOf(i, names, hash) ==
  IF names = <<>> THEN [path |-> <<hash>>, ext |-> ".glb", upper |-> FALSE]
  ELSE names[FirstBest([n \in DOMAIN names |-> Hits(i, names[n].file, hash)] \o <<>>)].file
BestFile(i, hash) == BestOf(i, SelectSeq(Items(i), LAMBDA x : x.hash = hash), hash)

(* from_reference: each bundle of the directory whose content is there.    *)
NoFileName == [path |-> <<>>, ext |-> "", upper |-> FALSE]
TypeOf(i) == IF case.ents[i].id \in DOMAIN case.types THEN case.types[case.ents[i].id]
             ELSE case.ents[i].type
Deployed(i, cid) == \E x \in Range(Items(i)) : x.hash = cid
SourceAs(i, cid, file) == IF (Deployed(i, cid) /\ IsModel(file)) \/ IsImage(file) THEN file ELSE NoFileName
ReferenceAs(i, name, file) ==
  [SpecOf(i, file, SourceAs(i, name.cid, file), name.cid, <<name.cid, name.digest>>)
     EXCEPT !.type = IF TypeOf(i) = "scene" THEN "" ELSE TypeOf(i), !.dcl = name.dcl]
ReferencesOf(i, names) == [n \in DOMAIN names |-> ReferenceAs(i, names[n], BestFile(i, names[n].cid))]
References(i) == ReferencesOf(i, SelectSeq(case.names[i], LAMBDA n : Present(n.cid)))

Derive(i) ==
  /\ Parallel /\ i \in Listed \ DOMAIN entries
  /\ \A k \in Models(i) : <<i, k>> \in DOMAIN scan
  /\ entries' = entries @@ (i :> IF Way = "ids" THEN Bundles(i, {}) ELSE References(i))
  /\ UNCHANGED <<case, uris, scan, reader, plan>>

-----------------------------------------------------------------------------
(* The entities in their order, without those that have nothing to build;  *)
(* without --cdn-layout a bundle is left to the first entity that has it.  *)
Entry(i, bundles) == [id |-> case.ents[i].id, ent |-> i, bundles |-> bundles]
NamesOf(out) == UNION {{b.name : b \in Range(e.bundles)} : e \in Range(out)}
AddOnce(out, e) ==
  LET new == SelectSeq(e.bundles, LAMBDA b : Opts.cdn \/ Way = "reference" \/ b.name \notin NamesOf(out))
  IN IF new = <<>> THEN out ELSE Append(out, [e EXCEPT !.bundles = new])
InOrder == SelectSeq([i \in Ents |-> i], LAMBDA i : i \in DOMAIN entries)
Finish(out) == plan' = [state |-> IF out = <<>> THEN "error" ELSE "ok", entries |-> out]

Combine ==
  /\ Parallel /\ DOMAIN entries = Listed
  /\ Finish(FoldLeft(LAMBDA out, i : AddOnce(out, Entry(i, entries[i])), <<>>, InOrder))
  /\ UNCHANGED <<case, uris, scan, reader, entries>>

FromCollection ==
  /\ plan = NoPlan /\ ~Refuses /\ Way = "collection"
  /\ Finish(FoldLeft(LAMBDA out, i :
              AddOnce(out, Entry(i, Bundles(i, {n[1] : n \in NamesOf(out)}))),
              <<>>, [i \in Ents |-> i]))
  /\ UNCHANGED <<case, uris, scan, reader, entries>>

Next == \/ TakeGone \/ TakeKnown \/ \E r \in Readers : TakeNew(r) \/ Keep(r)
        \/ \E i \in Ents : Derive(i)
        \/ Combine \/ FromCollection
        \/ (Refuses \/ plan # NoPlan) /\ UNCHANGED vars

-----------------------------------------------------------------------------
(* run and build_one: where a bundle goes, and what its build may ask for. *)
OutPath(e, b) == IF Flat THEN <<b.name>>
                 ELSE IF Opts.cdn THEN <<e.id, "platform", b.name>> ELSE <<e.id, b.name>>
Source(b) == IF b.source = NoFileName THEN [path |-> <<b.hash>>, ext |-> ".glb", upper |-> FALSE]
             ELSE b.source
Asks(e, b, uri) ==      \* resolve: the hash whose bytes stand for a URI
  IF Finds(uri, Source(b), Content(e.ent)) THEN {HashOf(uri, Source(b), Content(e.ent))} \cap case.present
  ELSE {}
AsksHash(e, b, uri) ==  \* resolve_hash, which needs a source file
  IF b.source = NoFileName \/ ~Finds(uri, Source(b), Content(e.ent)) THEN {}
  ELSE {HashOf(uri, Source(b), Content(e.ent))}

-----------------------------------------------------------------------------
(* The plan is complete and consistent, whatever the order in which models *)
(* were read.                                                              *)
(*  - What the threads found through the cache is what reading each model  *)
(*    under its own name finds (glbscan.rs:29, abgen-corpus.rs:626, 668).  *)
(*  - Everything that is there and can be converted is built, and once:    *)
(*    in each entity of a CDN layout, else in the first (894, 949, 1058).  *)
(*  - No two bundles are written to one path by the parallel loop, which   *)
(*    locks nothing (abgen-corpus.rs:334, 348); a flat tree of references  *)
(*    and an id listed twice are not guarded against.                      *)
(*  - A bundle names as its dependencies what the build of its source will *)
(*    look up, and what is there of that is built as well (903, 466, 479). *)
Built(out) == UNION {{<<e.id, b.hash>> : b \in Range(e.bundles)} : e \in Range(out)}
Convertible(i) == {x.hash : x \in {y \in Range(Items(i)) : (IsModel(y.file) \/ IsImage(y.file)) /\ Present(y.hash)}}
ScanRight == \A t \in DOMAIN scan : scan[t] = Collected(t[1], t[2])
AllOnce ==
  /\ \A i \in Listed : \A h \in Convertible(i) :
       IF Opts.cdn THEN <<case.ents[i].id, h>> \in Built(plan.entries)
       ELSE \E e \in Range(plan.entries) : <<e.id, h>> \in Built(plan.entries)
  /\ ~Opts.cdn => \A p, q \in DOMAIN plan.entries : \A m \in DOMAIN plan.entries[p].bundles :
       \A n \in DOMAIN plan.entries[q].bundles :
         <<p, m>> # <<q, n>> => plan.entries[p].bundles[m].hash # plan.entries[q].bundles[n].hash
PathsApart ==
  \A p, q \in DOMAIN plan.entries : \A m \in DOMAIN plan.entries[p].bundles :
    \A n \in DOMAIN plan.entries[q].bundles :
      <<p, m>> # <<q, n>> => OutPath(plan.entries[p], plan.entries[p].bundles[m])
                             # OutPath(plan.entries[q], plan.entries[q].bundles[n])
DepsAreLookedUp ==
  \A e \in Range(plan.entries) : \A b \in Range(e.bundles) :
    LET read == ImageUris(case.bytes[b.hash], Source(b).ext)
    IN b.source # NoFileName =>
         /\ Range(b.deps) = UNION {AsksHash(e, b, u) : u \in Range(read)}
         /\ Way # "reference" => \A d \in Range(b.deps) \cap Convertible(e.ent) :
              \E f \in Range(plan.entries) : (Opts.cdn => f = e) /\ \E c \in Range(f.bundles) : c.hash = d
PlanComplete ==
  /\ ScanRight
  /\ plan.state = "ok" =>
       /\ Way # "reference" => AllOnce
       /\ ~(Flat /\ Way = "reference") => PathsApart
       /\ DepsAreLookedUp
=============================================================================
