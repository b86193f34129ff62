----------------------------- MODULE CorpusCdn -----------------------------
(***************************************************************************)
(* abgen-corpus --cdn-layout: the parallel loop over the bundles of every  *)
(* entity, which builds a bundle once and hard-links it into the other     *)
(* entities that deploy the same hash, and the per-entity manifests that   *)
(* are written when the loop has ended.  The program may be run again over *)
(* the tree it left, with or without --skip-existing.                      *)
(*                                                                         *)
(* The file system is modelled with its inodes, because a hard link makes  *)
(* two paths one file.  Nothing here unlinks a path, so the inode that a   *)
(* write creates at a path can be named after the path.                    *)
(***************************************************************************)
EXTENDS Naturals, FiniteSets

CONSTANTS
  Tasks,      \* the (entity, bundle) pairs of the loop: records [ent, name, n],
              \* n telling apart the occurrences of an id listed twice
  Bytes,      \* [Paths -> bytes]: what a build in the entity's context gives
  MaxStarts,  \* bound: how often the program is run
  SkipModes,  \* whether a run after the first has --skip-existing (and no --force)
  MaxErrs,    \* bound: iterations of a run that fail
  Mishaps,    \* what may go wrong outside a build: "disk" (full), "kill"
  Empty, Part, Mixed,  \* the bytes of a file that is no whole bundle: none, the
              \* beginning of one, two written over each other
  None

Paths == {<<k.ent, k.name>> : k \in Tasks}
BundleNames == {k.name : k \in Tasks}
Ents  == {k.ent : k \in Tasks}
Path(k) == <<k.ent, k.name>>

\* The bytes of a file.
Whole == {Bytes[p] : p \in Paths}
Data  == Whole \cup {Empty, Part, Mixed}

CdnAssumption ==
  /\ MaxStarts \in Nat \ {0} /\ MaxErrs \in Nat
  /\ SkipModes \subseteq BOOLEAN
  /\ Mishaps \subseteq {"disk", "kill"}
  /\ None \notin Paths /\ \A names \in SUBSET BundleNames : names # None
  /\ Whole \cap {Empty, Part, Mixed} = {}

VARIABLES
  dir,           \* the tree: [Paths -> inode, or None]
  data,          \* [inode -> Data]
  firstWritten,  \* the map of the same name: [BundleNames -> Paths \cup {None}]
  iteration,     \* where each iteration of the loop is
  errs,          \* the iterations and manifests that were counted as errors
  listing,       \* [Ents -> the names listed in the manifest file, or None]
  start,         \* how many times the program has been started
  skip,          \* --skip-existing of this run
  phase          \* "loop", "manifests", "exited" or "killed"

cdnVars == <<dir, data, firstWritten, iteration, errs, listing, start, skip, phase>>
tree    == <<dir, data>>

Fresh == [pc |-> "todo", src |-> None]
Done  == [pc |-> "done", src |-> None]

InitCdn ==
  /\ dir = [p \in Paths |-> None]
  /\ data = [p \in Paths |-> Empty]
  /\ firstWritten = [n \in BundleNames |-> None]
  /\ iteration = [k \in Tasks |-> Fresh]
  /\ errs = {}
  /\ listing = [e \in Ents |-> None]
  /\ start = 1
  /\ skip \in SkipModes \cup {FALSE}
  /\ phase = "loop"

-----------------------------------------------------------------------------
Goes(k, pc) == iteration' = [iteration EXCEPT ![k].pc = pc]

MayFail == Cardinality(errs) < MaxErrs

\* The iteration ends and is counted in errs.
FailTask(k) ==
  /\ MayFail
  /\ iteration' = [iteration EXCEPT ![k] = Done]
  /\ errs' = errs \cup {k}

\* or_insert_with under the mutex: the first path recorded for a name stays.
Record(k) ==
  firstWritten' = IF firstWritten[k.name] = None
                  THEN [firstWritten EXCEPT ![k.name] = Path(k)] ELSE firstWritten

\* Faulty: the size is not looked at.
AnyFile(p) == dir[p] # None

NonEmptyFile(p) == dir[p] # None /\ data[dir[p]] # Empty

\* create_dir_all fails: only a directory that is not there has to be made.
MkdirFail(k) ==
  /\ "disk" \in Mishaps
  /\ iteration[k].pc = "todo" /\ \A p \in Paths : p[1] = k.ent => dir[p] = None
  /\ FailTask(k)
  /\ UNCHANGED <<tree, firstWritten, listing, start, skip, phase>>

SkipExisting(k) ==
  /\ iteration[k].pc = "todo" /\ skip /\ NonEmptyFile(Path(k))
  /\ Record(k)
  /\ iteration' = [iteration EXCEPT ![k] = Done]
  /\ UNCHANGED <<tree, errs, listing, start, skip, phase>>

FindPrior(k) ==
  /\ iteration[k].pc = "todo" /\ ~(skip /\ NonEmptyFile(Path(k)))
  /\ iteration' = [iteration EXCEPT ![k] = IF firstWritten[k.name] = None
                                 THEN [pc |-> "build", src |-> None]
                                 ELSE [pc |-> "link", src |-> firstWritten[k.name]]]
  /\ UNCHANGED <<tree, firstWritten, errs, listing, start, skip, phase>>

\* fs::hard_link fails if the path exists; then fs::copy is tried.
HardLink(k) ==
  /\ iteration[k].pc = "link" /\ dir[Path(k)] = None
  /\ dir' = [dir EXCEPT ![Path(k)] = dir[iteration[k].src]]
  /\ iteration' = [iteration EXCEPT ![k] = Done]
  /\ UNCHANGED <<data, firstWritten, errs, listing, start, skip, phase>>

LinkExists(k) ==
  /\ iteration[k].pc = "link" /\ dir[Path(k)] # None
  /\ Goes(k, "copy")
  /\ UNCHANGED <<tree, firstWritten, errs, listing, start, skip, phase>>

\* fs::copy opens the source, truncates the target, and copies what it reads:
\* nothing, if the two are one file.
CopyTruncate(k) ==
  /\ iteration[k].pc = "copy"
  /\ data' = [data EXCEPT ![dir[Path(k)]] = Empty]
  /\ Goes(k, "copying")
  /\ UNCHANGED <<dir, firstWritten, errs, listing, start, skip, phase>>

CopyBytes(k) ==
  /\ iteration[k].pc = "copying"
  /\ data' = [data EXCEPT ![dir[Path(k)]] = data[dir[iteration[k].src]]]
  /\ iteration' = [iteration EXCEPT ![k] = Done]
  /\ UNCHANGED <<dir, firstWritten, errs, listing, start, skip, phase>>

\* build_bundle fails or panics: counted, nothing is written.
BuildFail(k) ==
  /\ iteration[k].pc = "build"
  /\ FailTask(k)
  /\ UNCHANGED <<tree, firstWritten, listing, start, skip, phase>>

\* Faulty: the path is recorded when its file is created.
OpenOutputRecords(k) ==
  LET i == IF dir[Path(k)] = None THEN Path(k) ELSE dir[Path(k)] IN
  /\ iteration[k].pc = "build"
  /\ dir' = [dir EXCEPT ![Path(k)] = i]
  /\ data' = [data EXCEPT ![i] = Empty]
  /\ Record(k)
  /\ Goes(k, "begin")
  /\ UNCHANGED <<errs, listing, start, skip, phase>>

\* fs::write in place: create or truncate, then write.
OpenOutput(k) ==
  LET i == IF dir[Path(k)] = None THEN Path(k) ELSE dir[Path(k)] IN
  /\ iteration[k].pc = "build"
  /\ dir' = [dir EXCEPT ![Path(k)] = i]
  /\ data' = [data EXCEPT ![i] = Empty]
  /\ Goes(k, "begin")
  /\ UNCHANGED <<firstWritten, errs, listing, start, skip, phase>>

\* Writing over the bytes of another writer of the same file leaves a mixture,
\* unless both write the same bundle.
Over(old, new) == IF old \in {Empty, Part, new} THEN new ELSE Mixed

WriteBegin(k) ==
  /\ iteration[k].pc = "begin"
  /\ data' = [data EXCEPT ![dir[Path(k)]] = IF @ = Empty THEN Part ELSE @]
  /\ Goes(k, "end")
  /\ UNCHANGED <<dir, firstWritten, errs, listing, start, skip, phase>>

WriteEnd(k) ==
  /\ iteration[k].pc = "end"
  /\ data' = [data EXCEPT ![dir[Path(k)]] = Over(@, Bytes[Path(k)])]
  /\ Goes(k, "record")
  /\ UNCHANGED <<dir, firstWritten, errs, listing, start, skip, phase>>

\* The disk is full: what was written so far, or nothing, stays.
WriteFail(k) ==
  /\ "disk" \in Mishaps
  /\ iteration[k].pc \in {"begin", "end", "copying"}
  /\ FailTask(k)
  /\ UNCHANGED <<tree, firstWritten, listing, start, skip, phase>>

RecordBuilt(k) ==
  /\ iteration[k].pc = "record"
  /\ Record(k)
  /\ iteration' = [iteration EXCEPT ![k] = Done]
  /\ UNCHANGED <<tree, errs, listing, start, skip, phase>>

TaskStep(k) ==
  /\ phase = "loop"
  /\ \/ MkdirFail(k) \/ SkipExisting(k) \/ FindPrior(k) \/ HardLink(k) \/ LinkExists(k)
     \/ CopyTruncate(k) \/ CopyBytes(k) \/ BuildFail(k) \/ OpenOutput(k)
     \/ WriteBegin(k) \/ WriteEnd(k) \/ WriteFail(k) \/ RecordBuilt(k)

-----------------------------------------------------------------------------
LoopDone ==
  /\ phase = "loop" /\ \A k \in Tasks : iteration[k].pc = "done"
  /\ phase' = "manifests"
  /\ UNCHANGED <<tree, firstWritten, iteration, errs, listing, start, skip>>

\* Faulty: every bundle is listed.
ListedAll(e)   == {n \in BundleNames : <<e, n>> \in Paths}

\* write_cdn_manifest, for each entity in turn: the bundles whose file exists;
\* an entity with none keeps the manifest it had.
Listed(e) == {n \in BundleNames : <<e, n>> \in Paths /\ dir[<<e, n>>] # None}

\* A manifest that cannot be written is counted in errs, and may be left
\* empty.
WriteManifests ==
  /\ phase = "manifests"
  /\ \E bad \in IF "disk" \in Mishaps THEN SUBSET Ents ELSE {{}} :
       /\ listing' = [e \in Ents |-> IF Listed(e) = {} THEN listing[e]
                                     ELSE IF e \in bad THEN None ELSE Listed(e)]
       /\ errs' = errs \cup bad
  /\ phase' = "exited"
  /\ UNCHANGED <<tree, firstWritten, iteration, start, skip>>

\* The process is killed, in the loop or while it writes the manifests.
KillCdn ==
  /\ "kill" \in Mishaps /\ phase \in {"loop", "manifests"}
  /\ \E some \in IF phase = "manifests" THEN SUBSET Ents ELSE {{}} :
       listing' = [e \in Ents |-> IF e \in some /\ Listed(e) # {} THEN Listed(e)
                                  ELSE listing[e]]
  /\ phase' = "killed"
  /\ UNCHANGED <<tree, firstWritten, iteration, errs, start, skip>>

\* The next run starts with an empty map and the tree as it is.
RunAgain ==
  /\ phase \in {"exited", "killed"} /\ start < MaxStarts
  /\ start' = start + 1
  /\ skip' \in SkipModes
  /\ firstWritten' = [n \in BundleNames |-> None]
  /\ iteration' = [k \in Tasks |-> Fresh]
  /\ errs' = {}
  /\ phase' = "loop"
  /\ UNCHANGED <<tree, listing>>

EndedCdn == phase \in {"exited", "killed"} /\ start = MaxStarts /\ UNCHANGED cdnVars

NextCdn == (\E k \in Tasks : TaskStep(k)) \/ LoopDone \/ WriteManifests \/ KillCdn \/ RunAgain \/ EndedCdn

SpecCdn == InitCdn /\ [][NextCdn]_cdnVars

\* rayon runs every iteration to its end; each step of one is a system call.
FairSpec == SpecCdn /\ (\A k \in Tasks : WF_cdnVars(TaskStep(k)))
                 /\ WF_cdnVars(LoopDone) /\ WF_cdnVars(WriteManifests)

-----------------------------------------------------------------------------
Succeeded == phase = "exited" /\ errs = {}

\* A run that reports no error has written, for every entity, a manifest that
\* lists all its bundles, and every file it lists is a whole bundle of that
\* name.  Topping off a tree that an interrupted run left cannot tell a
\* beginning of a bundle from a bundle, but it leaves no empty file.
SuccessMeansWhole ==
  Succeeded => \A k \in Tasks :
    /\ listing[k.ent] # None /\ k.name \in listing[k.ent]
    /\ dir[Path(k)] # None
    /\ IF start = 1 \/ ~skip
       THEN data[dir[Path(k)]] \in {Bytes[p] : p \in {q \in Paths : q[2] = k.name}}
       ELSE data[dir[Path(k)]] # Empty

\* A manifest lists only files that are there, whatever failed.
ListedExists ==
  \A e \in Ents : listing[e] # None =>
    \A n \in listing[e] : dir[<<e, n>>] # None

\* What is whole stays: once a bundle of this run is complete, no other
\* iteration changes the bytes of its file or points its path elsewhere, though
\* iterations share inodes; and with --skip-existing a run changes no whole
\* bundle that it found.
Stays(p) == dir'[p] = dir[p] /\ data'[dir[p]] = data[dir[p]]
WholeStay ==
  start' = start =>
    /\ \A k \in Tasks : iteration[k].pc = "done" /\ k \notin errs => Stays(Path(k))
    /\ \A p \in Paths : skip /\ dir[p] # None /\ data[dir[p]] \in Whole => Stays(p)
WholeStays == [][WholeStay]_cdnVars

\* The loop ends and the manifests are written, whatever fails in it.
Exits == phase = "loop" ~> phase \in {"exited", "killed"}
=============================================================================
