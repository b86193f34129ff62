-------------------------- MODULE CorpusCdn_proofs --------------------------
(***************************************************************************)
(* Proofs about CorpusCdn for any entities, bundles, errors, kills and     *)
(* runs: a run that reports no error leaves a complete tree, a manifest    *)
(* lists what is there, and what is whole is not written again.  They hold *)
(* of a list that has each bundle once, and of a program that is only run  *)
(* again with --skip-existing; MCCorpusRerun shows what happens without.   *)
(***************************************************************************)
EXTENDS CorpusCdn, TLAPS

ListedOnce == \A k, l \in Tasks : Path(k) = Path(l) => k = l
ToppedOff  == SkipModes \subseteq {TRUE}
Usage == CdnAssumption /\ ListedOnce /\ ToppedOff

-----------------------------------------------------------------------------
(* The inductive invariant.                                                *)

Linking == {"link", "copy", "copying"}
Pcs == Linking \cup {"todo", "build", "begin", "end", "record", "done"}

\* What a manifest file says.
Lists == (SUBSET BundleNames) \cup {None}

Types ==
  /\ dir \in [Paths -> Paths \cup {None}] /\ data \in [Paths -> Data]
  /\ firstWritten \in [BundleNames -> Paths \cup {None}]
  /\ iteration \in [Tasks -> [pc : Pcs, src : Paths \cup {None}]]
  /\ listing \in [Ents -> Lists]
  /\ start \in Nat \ {0} /\ skip \in BOOLEAN /\ (start > 1 => skip)
  /\ phase \in {"loop", "manifests", "exited", "killed"}

Alone(p) == dir[p] = p /\ \A q \in Paths : dir[q] = p => q = p

\* An inode keeps the path it is named after, and an empty file has no other.
Tree ==
  \A p \in Paths : dir[p] # None =>
    dir[dir[p]] = dir[p] /\ (data[dir[p]] = Empty => Alone(p))

Builds(n) == {Bytes[q] : q \in {r \in Paths : r[2] = n}}
Good(p) ==
  /\ dir[p] # None /\ data[dir[p]] # Empty
  /\ start = 1 => data[dir[p]] \in Builds(p[2])

\* What an iteration knows of its own path.
Own(k) ==
  LET p == Path(k)  pc == iteration[k].pc IN
  /\ pc = "todo" /\ start = 1 => dir[p] = None
  /\ pc \in {"build", "link"} => dir[p] = None \/ data[dir[p]] = Empty
  /\ pc \in {"begin", "copy", "copying"} => dir[p] # None /\ data[dir[p]] = Empty
  /\ pc \in {"end", "record"} => Alone(p) /\ data[p] = IF pc = "end" THEN Part ELSE Bytes[p]
  /\ pc = "done" /\ k \notin errs => Good(p)

\* A path that no iteration of this run writes to any more.
Settled(p) == p \in Paths /\ Good(p) /\ \A k \in Tasks : Path(k) = p => iteration[k].pc = "done"
Source(k) == iteration[k].pc \in Linking => Settled(iteration[k].src) /\ iteration[k].src[2] = k.name
Recorded ==
  \A n \in BundleNames :
    firstWritten[n] # None => Settled(firstWritten[n]) /\ firstWritten[n][2] = n

Manifests ==
  /\ phase \in {"manifests", "exited"} => \A k \in Tasks : iteration[k].pc = "done"
  /\ phase = "exited" => \A e \in Ents : e \in errs \/ Listed(e) \in {{}, listing[e]}
  /\ \A e \in Ents : listing[e] # None => \A n \in listing[e] : <<e, n>> \in Paths
  /\ ListedExists

CdnInv == Types /\ Tree /\ (\A k \in Tasks : Own(k) /\ Source(k)) /\ Recorded /\ Manifests

-----------------------------------------------------------------------------
LEMMA PathOf == \A k \in Tasks : Path(k) \in Paths /\ Path(k)[2] = k.name /\ k.name \in BundleNames
BY DEF Path, Paths, BundleNames

LEMMA BytesOf ==
  ASSUME CdnAssumption, NEW p \in Paths
  PROVE  /\ Bytes[p] \in Builds(p[2]) /\ Bytes[p] \in Data
         /\ Bytes[p] \notin {Empty, Part, Mixed} /\ Builds(p[2]) \subseteq Whole
BY DEF CdnAssumption, Whole, Data, Builds

\* What a step of iteration k leaves to the others: it changes no other path,
\* and the bytes of none.
Near(k) ==
  /\ \A q \in Paths \ {Path(k)} :
       dir'[q] = dir[q] /\ (dir[q] # None => data'[dir[q]] = data[dir[q]])
  /\ dir[Path(k)] # None => dir'[Path(k)] = dir[Path(k)]
  /\ \A l \in Tasks \ {k} : iteration'[l] = iteration[l] /\ (l \notin errs' => l \notin errs)
  /\ iteration[k].pc # "done"
  /\ UNCHANGED <<listing, start, skip, phase>>

\* The path of iteration k is given no inode that another one is writing.
Clear(k) ==
  \A l \in Tasks \ {k} : iteration[l].pc \in {"end", "record"} => dir'[Path(k)] # Path(l)

\* A whole bundle that is at the path of iteration k is not written.
Spared(k) ==
  LET i == dir[Path(k)] IN i # None /\ data[i] \in Whole => data'[i] = data[i]

\* What a step of iteration k makes of its own path and of the record.
Moved(k) ==
  /\ Near(k) /\ Clear(k) /\ Types' /\ Tree' /\ Own(k)' /\ Spared(k)
  /\ \/ firstWritten' = firstWritten
     \/ Record(k) /\ Good(Path(k))' /\ iteration'[k].pc = "done"
  /\ iteration'[k].pc \in Linking =>
       \/ iteration[k].pc \in Linking /\ iteration'[k].src = iteration[k].src
       \/ iteration'[k].src = firstWritten[k.name] /\ firstWritten[k.name] # None

\* Whoever shares the inode of a path that is written has settled.
LEMMA Unshared ==
  ASSUME Tree, NEW k \in Tasks, dir[Path(k)] = None, Types, CdnAssumption
  PROVE  \A q \in Paths : dir[q] # Path(k)
BY PathOf DEF Tree, Types, CdnAssumption

\* Whoever writes a file is alone with it, so a path that has settled is another.
LEMMA Apart ==
  ASSUME NEW q, Settled(q), NEW l \in Tasks, Own(l), iteration[l].pc \in {"end", "record"}
  PROVE  dir[q] # Path(l)
BY PathOf DEF Settled, Own, Alone

\* So a path that keeps its inode, or gets its own, does not disturb a writer.
LEMMA KeepsClear ==
  ASSUME CdnInv, Usage, NEW k \in Tasks, dir'[Path(k)] \in {dir[Path(k)], Path(k)}
  PROVE  Clear(k)
<1> SUFFICES ASSUME NEW l \in Tasks \ {k}, iteration[l].pc \in {"end", "record"}
             PROVE  dir'[Path(k)] # Path(l)
  BY DEF Clear
<1>1. Alone(Path(l))
  BY DEF CdnInv, Own
<1>2. Path(k) # Path(l)
  BY DEF Usage, ListedOnce
<1> QED
  BY <1>1, <1>2, PathOf DEF Alone

Iterations == [pc : Pcs, src : Paths \cup {None}]

\* A step that leaves the tree alone.
LEMMA Unmoved ==
  ASSUME CdnInv, Usage, NEW k \in Tasks, iteration[k].pc # "done",
         NEW t \in Iterations, iteration' = [iteration EXCEPT ![k] = t],
         NEW fw \in [BundleNames -> Paths \cup {None}], firstWritten' = fw,
         errs' \in {errs, errs \cup {k}},
         UNCHANGED <<dir, data, listing, start, skip, phase>>
  PROVE  Near(k) /\ Clear(k) /\ Types' /\ Tree' /\ iteration'[k] = t
<1> USE DEF CdnInv, Types, Iterations
<1>1. iteration'[k] = t /\ \A l \in Tasks \ {k} : iteration'[l] = iteration[l]
  OBVIOUS
<1>2. Near(k)
  BY <1>1 DEF Near
<1>3. Clear(k)
  BY KeepsClear
<1>4. Types'
  OBVIOUS
<1>5. Tree'
  BY DEF Tree, Alone
<1> QED
  BY <1>1, <1>2, <1>3, <1>4, <1>5

\* A step that writes the file at its own path, which no other path shares.
LEMMA Rewritten ==
  ASSUME CdnInv, Usage, NEW k \in Tasks, iteration[k].pc # "done",
         NEW t \in Iterations, iteration' = [iteration EXCEPT ![k] = t],
         dir[Path(k)] = None \/ Alone(Path(k)), NEW b \in Data,
         dir' = [dir EXCEPT ![Path(k)] = Path(k)], data' = [data EXCEPT ![Path(k)] = b],
         UNCHANGED <<firstWritten, errs, listing, start, skip, phase>>
  PROVE  /\ Near(k) /\ Clear(k) /\ Types' /\ Tree' /\ iteration'[k] = t
         /\ Alone(Path(k))' /\ data'[Path(k)] = b
<1> USE DEF CdnInv, Types, Iterations
<1> DEFINE p == Path(k)
<1>1. p \in Paths /\ p # None
  BY PathOf DEF Usage, CdnAssumption
<1>2. iteration'[k] = t /\ \A l \in Tasks \ {k} : iteration'[l] = iteration[l]
  OBVIOUS
<1>3. dir'[p] = p /\ data'[p] = b
  BY <1>1
<1>4. \A q \in Paths \ {p} : dir[q] # p
  BY <1>1, Unshared DEF Alone, Usage
<1>5. \A q \in Paths \ {p} :
        dir'[q] = dir[q] /\ (dir[q] # None => dir[q] \in Paths /\ data'[dir[q]] = data[dir[q]])
  BY <1>1, <1>4
<1>6. Near(k)
  BY <1>1, <1>2, <1>3, <1>5 DEF Near, Alone
<1>7. Clear(k)
  BY <1>3, KeepsClear
<1>8. Types'
  BY <1>1
<1>9. Alone(p)'
  BY <1>3, <1>4, <1>5 DEF Alone
<1>10. ASSUME NEW q \in Paths \ {p}, dir'[q] # None
       PROVE  dir'[dir'[q]] = dir'[q] /\ (data'[dir'[q]] = Empty => Alone(q)')
  <2>1. /\ dir'[q] = dir[q] /\ dir[q] \in Paths \ {p} /\ data'[dir[q]] = data[dir[q]]
        /\ dir[dir[q]] = dir[q] /\ (data[dir[q]] = Empty => Alone(q))
    BY <1>4, <1>5, <1>10 DEF Tree
  <2>2. ASSUME Alone(q)
        PROVE  Alone(q)'
    BY <1>3, <1>5, <2>1, <2>2 DEF Alone
  <2> QED
    BY <1>5, <2>1, <2>2
<1>11. Tree'
  BY <1>3, <1>9, <1>10 DEF Tree
<1> QED
  BY <1>2, <1>3, <1>6, <1>7, <1>8, <1>9, <1>11

LEMMA MineAlone ==
  ASSUME CdnInv, Usage, NEW k \in Tasks,
         iteration[k].pc \in {"build", "begin", "copy", "copying", "end", "record"}
  PROVE  /\ iteration[k].pc # "build" => dir[Path(k)] = Path(k)
         /\ dir[Path(k)] = None \/ Alone(Path(k))
BY PathOf DEF CdnInv, Own, Tree, Alone, Usage, CdnAssumption

\* Every step of an iteration moves it so.
LEMMA TaskMoves ==
  ASSUME CdnInv, Usage, NEW k \in Tasks, TaskStep(k)
  PROVE  Moved(k)
<1> DEFINE p == Path(k)
<1> USE DEF CdnInv, Types, Iterations
<1>t. /\ iteration[k] \in Iterations /\ p \in Paths /\ p # None /\ p[2] = k.name
      /\ k.name \in BundleNames
  BY PathOf DEF Usage, CdnAssumption
<1>1. CASE SkipExisting(k)
  <2>1. iteration' = [iteration EXCEPT ![k] = Done] /\ iteration[k].pc = "todo" /\ Done \in Iterations
    BY <1>1 DEF SkipExisting, Done, Pcs
  <2>2. Good(p)
    <3>1. dir[p] # None /\ data[dir[p]] # Empty
      BY <1>1 DEF SkipExisting, NonEmptyFile
    <3>2. start # 1
      BY <2>1, <3>1 DEF Own
    <3> QED
      BY <3>1, <3>2 DEF Good
  <2>3. /\ Record(k) /\ UNCHANGED <<dir, data, errs, listing, start, skip, phase>>
        /\ firstWritten' \in [BundleNames -> Paths \cup {None}]
    BY <1>1, <1>t DEF SkipExisting, Record, tree
  <2>4. Near(k) /\ Clear(k) /\ Types' /\ Tree' /\ iteration'[k] = Done
    BY <2>1, <2>3, Unmoved
  <2>5. Good(p)'
    BY <2>2, <2>3 DEF Good
  <2> QED
    BY <2>3, <2>4, <2>5 DEF Moved, Spared, Own, Done, Linking
<1>2. CASE FindPrior(k)
  <2> DEFINE t == IF firstWritten[k.name] = None THEN [pc |-> "build", src |-> None]
                  ELSE [pc |-> "link", src |-> firstWritten[k.name]]
  <2>1. /\ iteration' = [iteration EXCEPT ![k] = t] /\ iteration[k].pc = "todo" /\ t \in Iterations
        /\ UNCHANGED <<dir, data, firstWritten, errs, listing, start, skip, phase>>
    BY <1>2, <1>t DEF FindPrior, tree, Pcs, Linking
  <2>2. dir[p] = None \/ data[dir[p]] = Empty
    <3>1. CASE start = 1
      BY <2>1, <3>1 DEF Own
    <3>2. CASE start # 1
      BY <1>2, <3>2 DEF NonEmptyFile, FindPrior
    <3> QED
      BY <3>1, <3>2
  <2>3. Near(k) /\ Clear(k) /\ Types' /\ Tree' /\ iteration'[k] = t
    <3> HIDE DEF t
    <3> QED
      BY <2>1, Unmoved
  <2> QED
    BY <2>1, <2>2, <2>3 DEF Moved, Spared, Own, Linking, Usage, CdnAssumption
<1>3. CASE HardLink(k)
  <2> DEFINE q == iteration[k].src
  <2>1. /\ iteration' = [iteration EXCEPT ![k] = Done] /\ iteration[k].pc = "link" /\ Done \in Iterations
        /\ dir[p] = None /\ dir' = [dir EXCEPT ![p] = dir[q]]
        /\ UNCHANGED <<data, firstWritten, errs, listing, start, skip, phase>>
    BY <1>3 DEF HardLink, Done, Pcs
  <2>2. Settled(q) /\ q[2] = k.name /\ q \in Paths /\ Good(q)
    BY <2>1 DEF Source, Linking, Settled
  <2>3. dir[q] # p /\ q # p /\ dir[q] # None /\ dir[q] \in Paths
    BY <1>t, <2>1, <2>2, Unshared DEF Good, Usage
  <2>4. dir'[p] = dir[q] /\ \A r \in Paths \ {p} : dir'[r] = dir[r]
    BY <1>t, <2>1
  <2>5. Near(k)
    BY <2>1, <2>4 DEF Near
  <2>6. Clear(k)
    BY <2>2, <2>4, Apart DEF Clear
  <2>7. Types' /\ iteration'[k] = Done
    BY <1>t, <2>1, <2>3
  <2>8. Good(p)'
    BY <1>t, <2>1, <2>2, <2>4 DEF Good
  <2>9. ASSUME NEW r \in Paths, dir'[r] # None
        PROVE  dir'[dir'[r]] = dir'[r] /\ (data'[dir'[r]] = Empty => Alone(r)')
    <3>1. CASE r = p
      BY <2>1, <2>2, <2>3, <2>4, <3>1 DEF Tree, Good
    <3>2. CASE r # p
      <4>1. /\ dir'[r] = dir[r] /\ dir[dir[r]] = dir[r] /\ dir[r] # p /\ dir[r] \in Paths
            /\ (data[dir[r]] = Empty => Alone(r))
        BY <2>1, <2>4, <2>9, <3>2 DEF Tree
      <4>2. data[dir[r]] = Empty => dir[q] # r
        BY <2>2, <2>3, <4>1 DEF Good, Alone
      <4> QED
        BY <2>1, <2>4, <4>1, <4>2 DEF Alone
    <3> QED
      BY <3>1, <3>2
  <2> QED
    BY <2>1, <2>5, <2>6, <2>7, <2>8, <2>9 DEF Moved, Spared, Tree, Own, Done, Linking
<1>4. CASE LinkExists(k)
  <2> DEFINE t == [iteration[k] EXCEPT !.pc = "copy"]
  <2>1. /\ iteration' = [iteration EXCEPT ![k] = t] /\ iteration[k].pc = "link" /\ t \in Iterations
        /\ dir[p] # None /\ t.pc = "copy" /\ t.src = iteration[k].src
        /\ UNCHANGED <<dir, data, firstWritten, errs, listing, start, skip, phase>>
    BY <1>4, <1>t DEF LinkExists, Goes, tree, Pcs, Linking
  <2>2. data[dir[p]] = Empty
    BY <2>1 DEF Own
  <2>3. Near(k) /\ Clear(k) /\ Types' /\ Tree' /\ iteration'[k] = t
    BY <2>1, Unmoved
  <2> QED
    BY <2>1, <2>2, <2>3 DEF Moved, Spared, Own, Linking, Usage, CdnAssumption
<1>5. CASE CopyTruncate(k)
  <2> DEFINE t == [iteration[k] EXCEPT !.pc = "copying"]
  <2>1. /\ iteration' = [iteration EXCEPT ![k] = t] /\ iteration[k].pc = "copy" /\ t \in Iterations
        /\ t.pc = "copying" /\ t.src = iteration[k].src
        /\ data' = [data EXCEPT ![dir[p]] = Empty]
        /\ UNCHANGED <<dir, firstWritten, errs, listing, start, skip, phase>>
    BY <1>5, <1>t DEF CopyTruncate, Goes, Pcs, Linking
  <2>2. dir[p] = p /\ Alone(p) /\ Empty \in Data
    BY <1>t, <2>1, MineAlone DEF Data
  <2>3. /\ Near(k) /\ Clear(k) /\ Types' /\ Tree' /\ iteration'[k] = t
        /\ Alone(p)' /\ data'[p] = Empty
    <3>1. dir' = [dir EXCEPT ![p] = p] /\ data' = [data EXCEPT ![p] = Empty]
      BY <2>1, <2>2
    <3> QED
      BY <2>1, <2>2, <3>1, Rewritten
  <2> QED
    BY <1>t, <2>1, <2>2, <2>3 DEF Moved, Spared, Own, Linking, Usage, CdnAssumption
<1>6. CASE CopyBytes(k)
  <2> DEFINE q == iteration[k].src  b == data[dir[q]]
  <2>1. /\ iteration' = [iteration EXCEPT ![k] = Done] /\ iteration[k].pc = "copying" /\ Done \in Iterations
        /\ data' = [data EXCEPT ![dir[p]] = b]
        /\ UNCHANGED <<dir, firstWritten, errs, listing, start, skip, phase>>
    BY <1>6 DEF CopyBytes, Done, Pcs
  <2>2. Settled(q) /\ q[2] = k.name /\ q \in Paths /\ Good(q)
    BY <2>1 DEF Source, Linking, Settled
  <2>3. b \in Data /\ b # Empty /\ (start = 1 => b \in Builds(p[2]))
    BY <1>t, <2>2 DEF Good
  <2>4. dir[p] = p /\ Alone(p)
    BY <1>t, <2>1, MineAlone
  <2>5. /\ Near(k) /\ Clear(k) /\ Types' /\ Tree' /\ iteration'[k] = Done
        /\ Alone(p)' /\ data'[p] = b
    <3>1. dir' = [dir EXCEPT ![p] = p] /\ data' = [data EXCEPT ![p] = b]
      BY <2>1, <2>4
    <3> HIDE DEF b
    <3> QED
      BY <2>1, <2>3, <2>4, <3>1, Rewritten
  <2>6. Good(p)'
    BY <1>t, <2>1, <2>3, <2>5 DEF Good, Alone
  <2> QED
    BY <2>1, <2>4, <2>5, <2>6 DEF Moved, Spared, Own, Done, Linking, Usage, CdnAssumption
<1>7. CASE iteration' = [iteration EXCEPT ![k] = Done] /\ errs' = errs \cup {k} /\ iteration[k].pc # "done"
           /\ UNCHANGED <<dir, data, firstWritten, listing, start, skip, phase>>
  <2>1. Done \in Iterations
    BY DEF Done, Pcs
  <2>2. Near(k) /\ Clear(k) /\ Types' /\ Tree' /\ iteration'[k] = Done
    BY <1>7, <2>1, Unmoved
  <2> QED
    BY <1>7, <2>2 DEF Moved, Spared, Own, Done, Linking
<1>8. CASE OpenOutput(k)
  <2> DEFINE t == [iteration[k] EXCEPT !.pc = "begin"]
  <2>1. /\ iteration' = [iteration EXCEPT ![k] = t] /\ iteration[k].pc = "build" /\ t \in Iterations
        /\ t.pc = "begin" /\ Empty \in Data /\ (dir[p] = None \/ Alone(p))
        /\ UNCHANGED <<firstWritten, errs, listing, start, skip, phase>>
    BY <1>8, <1>t, MineAlone DEF OpenOutput, Goes, Pcs, Data
  <2>2. dir' = [dir EXCEPT ![p] = p] /\ data' = [data EXCEPT ![p] = Empty]
    BY <1>8, <1>t, <2>1 DEF OpenOutput, Alone
  <2>3. /\ Near(k) /\ Clear(k) /\ Types' /\ Tree' /\ iteration'[k] = t
        /\ Alone(p)' /\ data'[p] = Empty
    BY <2>1, <2>2, Rewritten
  <2>4. dir'[p] = p
    BY <2>3 DEF Alone
  <2> QED
    BY <1>t, <2>1, <2>3, <2>4 DEF Moved, Spared, Own, Linking, Usage, CdnAssumption
<1>9. CASE WriteBegin(k)
  <2> DEFINE t == [iteration[k] EXCEPT !.pc = "end"]
  <2>1. /\ iteration' = [iteration EXCEPT ![k] = t] /\ iteration[k].pc = "begin" /\ t \in Iterations
        /\ t.pc = "end" /\ Part \in Data /\ dir[p] = p /\ Alone(p) /\ data[p] = Empty
        /\ UNCHANGED <<dir, firstWritten, errs, listing, start, skip, phase>>
    BY <1>9, <1>t, MineAlone DEF WriteBegin, Goes, Pcs, Data, Own
  <2>2. dir' = [dir EXCEPT ![p] = p] /\ data' = [data EXCEPT ![p] = Part]
    BY <1>9, <1>t, <2>1 DEF WriteBegin
  <2>3. /\ Near(k) /\ Clear(k) /\ Types' /\ Tree' /\ iteration'[k] = t
        /\ Alone(p)' /\ data'[p] = Part
    BY <2>1, <2>2, Rewritten
  <2> QED
    BY <2>1, <2>3 DEF Moved, Spared, Own, Linking, Usage, CdnAssumption
<1>10. CASE WriteEnd(k)
  <2> DEFINE t == [iteration[k] EXCEPT !.pc = "record"]
  <2>1. /\ iteration' = [iteration EXCEPT ![k] = t] /\ iteration[k].pc = "end" /\ t \in Iterations
        /\ t.pc = "record" /\ Bytes[p] \in Data /\ dir[p] = p /\ Alone(p) /\ data[p] = Part
        /\ UNCHANGED <<dir, firstWritten, errs, listing, start, skip, phase>>
    BY <1>10, <1>t, MineAlone, BytesOf DEF WriteEnd, Goes, Pcs, Own, Usage
  <2>2. dir' = [dir EXCEPT ![p] = p] /\ data' = [data EXCEPT ![p] = Bytes[p]]
    BY <1>10, <1>t, <2>1 DEF WriteEnd, Over
  <2>3. /\ Near(k) /\ Clear(k) /\ Types' /\ Tree' /\ iteration'[k] = t
        /\ Alone(p)' /\ data'[p] = Bytes[p]
    BY <2>1, <2>2, Rewritten
  <2> QED
    BY <2>1, <2>3 DEF Moved, Spared, Own, Linking, Usage, CdnAssumption
<1>11. CASE RecordBuilt(k)
  <2>1. /\ iteration' = [iteration EXCEPT ![k] = Done] /\ iteration[k].pc = "record" /\ Done \in Iterations
        /\ UNCHANGED <<dir, data, errs, listing, start, skip, phase>> /\ Record(k)
        /\ firstWritten' \in [BundleNames -> Paths \cup {None}]
    BY <1>11, <1>t DEF RecordBuilt, Record, tree, Done, Pcs
  <2>2. Near(k) /\ Clear(k) /\ Types' /\ Tree' /\ iteration'[k] = Done
    BY <2>1, Unmoved
  <2>3. Good(p)
    BY <1>t, <2>1, BytesOf DEF Own, Alone, Good, Usage
  <2>4. Good(p)'
    BY <2>1, <2>3 DEF Good
  <2> QED
    BY <2>1, <2>2, <2>4 DEF Moved, Spared, Own, Done, Linking
<1> QED
  <2>1. CASE MkdirFail(k) \/ BuildFail(k) \/ WriteFail(k)
    BY <1>7, <2>1 DEF MkdirFail, BuildFail, WriteFail, FailTask, tree
  <2> QED
    BY <1>1, <1>2, <1>3, <1>4, <1>5, <1>6, <1>8, <1>9, <1>10, <1>11, <2>1 DEF TaskStep

\* What has settled stays so while the others go on.
LEMMA SettledStays ==
  ASSUME CdnInv, Usage, NEW k \in Tasks, Moved(k), NEW q, Settled(q)
  PROVE  Settled(q)' /\ q # Path(k)
<1>1. q # Path(k)
  BY DEF Moved, Near, Settled
<1>2. dir'[q] = dir[q] /\ data'[dir[q]] = data[dir[q]] /\ start' = start
  BY <1>1 DEF Moved, Near, Settled, Good
<1>3. \A l \in Tasks : Path(l) = q => iteration'[l].pc = "done"
  BY <1>1 DEF Moved, Near, Settled
<1> QED
  BY <1>1, <1>2, <1>3 DEF Settled, Good

LEMMA TaskKeeps ==
  ASSUME CdnInv, Usage, NEW k \in Tasks, TaskStep(k)
  PROVE  CdnInv'
<1> USE DEF CdnInv
<1>1. Moved(k) /\ Near(k) /\ Clear(k) /\ Types' /\ Tree' /\ Own(k)'
  BY TaskMoves DEF Moved
<1>2. ASSUME NEW l \in Tasks \ {k}
      PROVE  Own(l)' /\ Source(l)'
  <2>1. /\ iteration'[l] = iteration[l] /\ Path(l) # Path(k) /\ Path(l) \in Paths /\ start' = start
        /\ dir'[Path(l)] = dir[Path(l)]
        /\ dir[Path(l)] # None => data'[dir[Path(l)]] = data[dir[Path(l)]]
        /\ l \notin errs' => l \notin errs
    BY <1>1, PathOf DEF Near, Usage, ListedOnce
  <2>2. ASSUME iteration[l].pc \in {"end", "record"}
        PROVE  Alone(Path(l))' /\ data'[Path(l)] = data[Path(l)]
    <3>1. Alone(Path(l)) /\ Path(l) # None
      BY <2>1, <2>2 DEF Own, Usage, CdnAssumption
    <3>2. dir'[Path(k)] # Path(l) /\ \A q \in Paths \ {Path(k)} : dir'[q] = dir[q]
      BY <1>1, <2>2 DEF Clear, Near
    <3> QED
      BY <2>1, <3>1, <3>2 DEF Alone
  <2>3. Own(l)'
    BY <2>1, <2>2 DEF Own, Good
  <2>4. Source(l)'
    BY <1>1, <2>1, SettledStays DEF Source
  <2> QED
    BY <2>3, <2>4
<1>3. Source(k)'
  <2> SUFFICES ASSUME iteration'[k].pc \in Linking
               PROVE  Settled(iteration[k].src)' /\ iteration'[k].src[2] = k.name
    BY DEF Source
  <2>1. PICK q : q = iteration'[k].src
    OBVIOUS
  <2>2. Settled(q) /\ q[2] = k.name
    BY <1>1, <2>1, PathOf DEF Moved, Source, Recorded
  <2>3. Settled(q)'
    BY <1>1, <2>2, SettledStays
  <2> QED
    BY <2>1, <2>2, <2>3 DEF Settled, Good
<1>4. Recorded'
  <2> SUFFICES ASSUME NEW n \in BundleNames, firstWritten'[n] # None
               PROVE  Settled(firstWritten[n])' /\ firstWritten'[n][2] = n
    BY DEF Recorded
  <2>1. PICK q : q = firstWritten'[n]
    OBVIOUS
  <2>2. CASE q = firstWritten[n]
    <3>1. Settled(q) /\ q[2] = n
      BY <2>1, <2>2 DEF Recorded
    <3>2. Settled(q)'
      BY <1>1, <3>1, SettledStays
    <3> QED
      BY <2>1, <3>1, <3>2 DEF Settled, Good
  <2>3. CASE q # firstWritten[n]
    <3>1. n = k.name /\ q = Path(k) /\ Good(Path(k))' /\ iteration'[k].pc = "done"
      BY <1>1, <2>1, <2>3, PathOf DEF Moved, Record, Types
    <3>2. \A l \in Tasks : Path(l) = q => l = k
      BY <3>1 DEF Usage, ListedOnce
    <3> QED
      BY <2>1, <3>1, <3>2, PathOf DEF Settled, Good
  <2> QED
    BY <2>2, <2>3
<1>5. Manifests'
  <2>1. phase = "loop" /\ phase' = phase /\ listing' = listing
    BY <1>1 DEF TaskStep, Near
  <2>2. \A q \in Paths : dir[q] # None => dir'[q] # None
    BY <1>1 DEF Near
  <2>3. \A e \in Ents : listing[e] # None => \A n \in listing[e] : <<e, n>> \in Paths
    BY DEF Manifests
  <2> QED
    BY <2>1, <2>2, <2>3 DEF Manifests, ListedExists
<1> QED
  BY <1>1, <1>2, <1>3, <1>4, <1>5

LEMMA NilListed == None \in Lists
BY DEF Lists

LEMMA CdnStarts ==
  ASSUME Usage, InitCdn
  PROVE  CdnInv
<1> USE DEF Usage, CdnAssumption, InitCdn
<1>1. Types
  <2>1. iteration \in [Tasks -> [pc : Pcs, src : Paths \cup {None}]]
    BY DEF Fresh, Pcs
  <2>2. skip \in BOOLEAN
    BY DEF ToppedOff
  <2>3. start = 1 /\ start \in Nat \ {0} /\ ~(start > 1)
    OBVIOUS
  <2>4. /\ dir \in [Paths -> Paths \cup {None}] /\ data \in [Paths -> Data]
        /\ firstWritten \in [BundleNames -> Paths \cup {None}]
    BY DEF Data
  <2>5. listing \in [Ents -> Lists]
    BY NilListed
  <2> QED
    BY <2>1, <2>2, <2>3, <2>4, <2>5 DEF Types
<1>2. Tree /\ Recorded
  BY DEF Tree, Recorded
<1>3. \A k \in Tasks : Own(k) /\ Source(k)
  BY PathOf DEF Own, Source, Fresh, Linking
<1>4. Manifests
  BY DEF Manifests, ListedExists
<1> QED
  BY <1>1, <1>2, <1>3, <1>4 DEF CdnInv

\* A manifest that is written lists paths that are there.
LEMMA ListedRight ==
  ASSUME NEW e \in Ents
  PROVE  /\ Listed(e) \in Lists /\ Listed(e) \in SUBSET BundleNames
         /\ \A n \in Listed(e) : <<e, n>> \in Paths /\ dir[<<e, n>>] # None
BY DEF Listed, Lists

LEMMA CdnStep ==
  ASSUME CdnInv, Usage, [NextCdn]_cdnVars
  PROVE  CdnInv'
<1> USE DEF CdnInv
<1>1. ASSUME UNCHANGED <<dir, data, firstWritten, iteration, start, skip>>, errs \subseteq errs',
             Manifests', phase' \in {"loop", "manifests", "exited", "killed"},
             listing' \in [Ents -> Lists]
      PROVE  CdnInv'
  <2>1. Types' /\ Tree'
    BY <1>1 DEF Types, Tree, Alone
  <2>2. \A q : Settled(q) => Settled(q)'
    BY <1>1 DEF Settled, Good
  <2>3. Recorded' /\ \A k \in Tasks : Source(k)'
    BY <1>1, <2>2 DEF Recorded, Source, Settled, Good
  <2>4. \A k \in Tasks : Own(k)'
    BY <1>1 DEF Own, Alone, Good
  <2> QED
    BY <1>1, <2>1, <2>3, <2>4
<1>2. CASE LoopDone
  <2>1. /\ UNCHANGED <<dir, data, firstWritten, iteration, errs, listing, start, skip>>
        /\ phase' = "manifests" /\ \A k \in Tasks : iteration[k].pc = "done"
    BY <1>2 DEF LoopDone, tree
  <2>2. Manifests'
    BY <2>1 DEF Manifests, ListedExists
  <2> QED
    BY <1>1, <2>1, <2>2 DEF Types
<1>3. CASE WriteManifests
  <2>1. PICK bad \in SUBSET Ents :
          /\ listing' = [e \in Ents |-> IF Listed(e) = {} THEN listing[e]
                                        ELSE IF e \in bad THEN None ELSE Listed(e)]
          /\ errs' = errs \cup bad
    BY <1>3 DEF WriteManifests
  <2>2. /\ UNCHANGED <<dir, data, firstWritten, iteration, start, skip>>
        /\ phase = "manifests" /\ phase' = "exited"
    BY <1>3 DEF WriteManifests, tree
  <2>3. listing' \in [Ents -> Lists]
    <3>1. ASSUME NEW e \in Ents PROVE listing'[e] \in Lists
      <4>1. listing'[e] \in {listing[e], None, Listed(e)}
        BY <2>1
      <4>2. listing[e] \in Lists
        BY DEF Types
      <4> QED
        BY <4>1, <4>2, ListedRight, NilListed
    <3> QED
      BY <2>1, <3>1
  <2>4. \A e \in Ents : Listed(e)' = Listed(e)
    BY <2>2 DEF Listed
  <2>5. \A e \in Ents : listing'[e] \in {listing[e], None, Listed(e)}
    BY <2>1
  <2>6. \A e \in Ents : e \in errs' \/ Listed(e) \in {{}, listing'[e]}
    BY <2>1
  <2>7. \A e \in Ents : listing'[e] # None => \A n \in listing'[e] :
           <<e, n>> \in Paths /\ dir'[<<e, n>>] # None
    BY <2>2, <2>5, ListedRight DEF Manifests, ListedExists
  <2>8. Manifests'
    BY <2>2, <2>4, <2>6, <2>7 DEF Manifests, ListedExists
  <2> QED
    BY <1>1, <2>1, <2>2, <2>3, <2>8
<1>4. CASE KillCdn
  <2>1. PICK some \in SUBSET Ents :
          listing' = [e \in Ents |-> IF e \in some /\ Listed(e) # {} THEN Listed(e)
                                     ELSE listing[e]]
    BY <1>4 DEF KillCdn
  <2>2. /\ UNCHANGED <<dir, data, firstWritten, iteration, errs, start, skip>> /\ phase' = "killed"
    BY <1>4 DEF KillCdn, tree
  <2>3. listing' \in [Ents -> Lists]
    <3>1. \A e \in Ents : listing[e] \in Lists /\ Listed(e) \in Lists
      BY ListedRight DEF Types
    <3> QED
      BY <2>1, <3>1
  <2>4. \A e \in Ents : listing'[e] \in {listing[e], Listed(e)}
    BY <2>1
  <2>5. \A e \in Ents : listing'[e] # None => \A n \in listing'[e] :
           <<e, n>> \in Paths /\ dir'[<<e, n>>] # None
    BY <2>2, <2>4, ListedRight DEF Manifests, ListedExists
  <2>6. Manifests'
    BY <2>2, <2>5 DEF Manifests, ListedExists
  <2> QED
    BY <1>1, <2>2, <2>3, <2>6
<1>5. CASE RunAgain
  <2>1. /\ UNCHANGED <<dir, data, listing>> /\ errs' = {} /\ phase' = "loop"
        /\ start' = start + 1 /\ skip' \in SkipModes
        /\ firstWritten' = [n \in BundleNames |-> None] /\ iteration' = [k \in Tasks |-> Fresh]
    BY <1>5 DEF RunAgain, tree
  <2>n. start' \in Nat \ {0} /\ start' # 1
    BY <2>1 DEF Types
  <2>s. skip' = TRUE
    BY <2>1 DEF Usage, ToppedOff
  <2>2. Types' /\ Tree'
    <3>1. iteration' \in [Tasks -> [pc : Pcs, src : Paths \cup {None}]]
      BY <2>1 DEF Fresh, Pcs
    <3> QED
      BY <2>1, <2>n, <2>s, <3>1 DEF Types, Tree, Alone
  <2>3. Recorded' /\ \A k \in Tasks : Own(k)' /\ Source(k)'
    BY <2>1, <2>n DEF Recorded, Own, Source, Fresh, Linking
  <2>4. Manifests'
    BY <2>1 DEF Manifests, ListedExists
  <2> QED
    BY <2>2, <2>3, <2>4
<1>6. CASE UNCHANGED cdnVars
  <2>1. /\ UNCHANGED <<dir, data, firstWritten, iteration, errs, listing, start, skip, phase>>
        /\ \A e \in Ents : Listed(e)' = Listed(e)
    BY <1>6 DEF cdnVars, tree, Listed
  <2>2. Manifests'
    BY <2>1 DEF Manifests, ListedExists, Listed
  <2> QED
    BY <1>1, <2>1, <2>2 DEF Types
<1> QED
  BY <1>2, <1>3, <1>4, <1>5, <1>6, TaskKeeps DEF NextCdn, EndedCdn

-----------------------------------------------------------------------------
LEMMA CdnInvariant == ASSUME Usage PROVE SpecCdn => []CdnInv
BY CdnStarts, CdnStep, PTL DEF SpecCdn

\* A run that reports no error has listed every bundle of every entity, and what
\* it lists is whole; topping off what an interrupted run left, it is not empty.
\* So it is although iterations link to the files of others, and the next run
\* writes into inodes that paths share (src/src/bin/abgen-corpus.rs, run).
THEOREM SuccessIsWhole == ASSUME Usage PROVE SpecCdn => []SuccessMeansWhole
<1>1. CdnInv => SuccessMeansWhole
  <2> SUFFICES ASSUME CdnInv, phase = "exited", errs = {}, NEW k \in Tasks
               PROVE  /\ listing[k.ent] # None /\ k.name \in listing[k.ent]
                      /\ dir[Path(k)] # None
                      /\ IF start = 1 \/ ~skip THEN data[dir[Path(k)]] \in Builds(k.name)
                         ELSE data[dir[Path(k)]] # Empty
    BY DEF SuccessMeansWhole, Succeeded, Builds
  <2>1. Good(Path(k)) /\ Path(k)[2] = k.name
    BY PathOf DEF CdnInv, Manifests, Own
  <2>2. start = 1 \/ skip
    BY DEF CdnInv, Types
  <2>3. k.ent \in Ents /\ k.name \in Listed(k.ent)
    BY <2>1, PathOf DEF Ents, Listed, Path, Good
  <2>4. listing[k.ent] = Listed(k.ent)
    BY <2>3 DEF CdnInv, Manifests
  <2>5. Listed(k.ent) # None
    BY <2>3, ListedRight DEF Usage, CdnAssumption
  <2> QED
    BY <2>1, <2>2, <2>3, <2>4, <2>5 DEF Good
<1> QED
  BY <1>1, CdnInvariant, PTL

\* A manifest lists only files that are there, in the middle of a run and after a
\* kill too (write_cdn_manifest).
THEOREM ListedIsThere == ASSUME Usage PROVE SpecCdn => []ListedExists
<1>1. CdnInv => ListedExists
  BY DEF CdnInv, Manifests
<1> QED
  BY <1>1, CdnInvariant, PTL

\* No step of a run writes a bundle that an iteration of it has completed, or a
\* whole one that it was told to skip, although an inode has many paths.
THEOREM WholeIsKept == ASSUME Usage PROVE SpecCdn => WholeStays
<1>1. ASSUME CdnInv, [NextCdn]_cdnVars, start' = start
      PROVE  WholeStay
  <2>1. CASE UNCHANGED <<dir, data>>
    BY <2>1 DEF WholeStay, Stays
  <2>2. ASSUME NEW k \in Tasks, TaskStep(k)
        PROVE  WholeStay
    <3>1. Near(k) /\ Spared(k)
      BY <1>1, <2>2, TaskMoves DEF Moved
    <3>2. \A l \in Tasks : iteration[l].pc = "done" /\ l \notin errs => Stays(Path(l))
      <4> SUFFICES ASSUME NEW l \in Tasks, iteration[l].pc = "done", l \notin errs
                   PROVE  Stays(Path(l))
        OBVIOUS
      <4>1. Path(l) \in Paths \ {Path(k)} /\ dir[Path(l)] # None
        BY <1>1, <3>1, PathOf DEF Near, CdnInv, Own, Good, Usage, ListedOnce
      <4> QED
        BY <3>1, <4>1 DEF Near, Stays
    <3>3. \A p \in Paths : dir[p] # None /\ data[dir[p]] \in Whole => Stays(p)
      BY <3>1 DEF Near, Spared, Stays
    <3> QED
      BY <3>2, <3>3 DEF WholeStay
  <2>3. start \in Nat
    BY <1>1 DEF CdnInv, Types
  <2>4. CASE LoopDone \/ WriteManifests \/ KillCdn \/ RunAgain \/ UNCHANGED cdnVars
    BY <2>1, <2>4 DEF LoopDone, WriteManifests, KillCdn, RunAgain, tree, cdnVars
  <2> QED
    BY <1>1, <2>2, <2>4 DEF NextCdn, EndedCdn
<1>2. CdnInv /\ [NextCdn]_cdnVars => [WholeStay]_cdnVars
  BY <1>1 DEF WholeStay
<1> QED
  BY <1>2, CdnInvariant, PTL DEF SpecCdn, WholeStays
=============================================================================
