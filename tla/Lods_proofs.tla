---------------------------- MODULE Lods_proofs ----------------------------
(***************************************************************************)
(* Proofs about Lods for any lists of sources, runs and faults: a finished *)
(* run has accounted for every source, and all it lists is there.          *)
(***************************************************************************)
EXTENDS Lods, TLAPS

Pcs == {"off", "build", "write", "writing", "done", "failed"}
Writes == run.pc \in {"write", "writing", "done"}

\* What a run has come to, and what of that it has built.
Handled == 1 .. (run.at - 1)
Built   == Handled \ skipped

ResultOf(i) == [scene |-> sources[i].scene, level |-> sources[i].level, source |-> i]

Types ==
  /\ sources \in SourceLists
  /\ run = [pc |-> run.pc, at |-> run.at, path |-> run.path]
  /\ run.pc \in Pcs /\ run.at \in Nat \ {0}
  /\ results \in Seq({ResultOf(i) : i \in DOMAIN sources})

\* What is to be written under a name is the last that was built of it.
Newest(name) ==
  /\ written[name] \in Built /\ BundleName(sources[written[name]]) = name
  /\ \A i \in Built : BundleName(sources[i]) = name => i <= written[name]

BuildInv ==
  At("build") \/ Writes =>
    /\ At("build") => run.path = <<>>
    /\ run.at <= Len(sources) + 1 /\ skipped \subseteq Handled
    /\ {r.source : r \in Range(results)} = Built
    /\ DOMAIN written = {BundleName(sources[i]) : i \in Built}
    /\ \A name \in DOMAIN written : Newest(name)

Has(path, what) == path \in DOMAIN tree /\ tree[path] = what

\* A bundle is still to be written, being written, or there.
BundleKept(name, br) ==
  \/ <<name, br>> \in todo
  \/ At("writing") /\ run.path = Path(name, br)
  \/ Has(Path(name, br), sources[written[name]].bytes)

\* The manifest is written when all bundles are, and its copy after it.
AtPath(name, br) ==
  /\ run.path = Path(name, br)
  /\ name = Manifest => /\ todo = {}
                        /\ At("write") => ~br
                        /\ At("write") \/ br => Has(Path(Manifest, FALSE), Files)

WriteInv ==
  Writes =>
    /\ run.at = Len(sources) + 1 /\ results # <<>>
    /\ todo \subseteq (DOMAIN written) \X BOOLEAN
    /\ \A name \in DOMAIN written, br \in BOOLEAN : BundleKept(name, br)
    /\ \/ At("write") /\ run.path = <<>>
       \/ \E name \in DOMAIN written \cup {Manifest}, br \in BOOLEAN : AtPath(name, br)
    /\ At("done") => todo = {} /\ \A br \in BOOLEAN : Has(Path(Manifest, br), Files)

LodsInv == Types /\ BuildInv /\ WriteInv

-----------------------------------------------------------------------------
LEMMA PutHas ==
  ASSUME NEW path, NEW what, Put(path, what)
  PROVE  /\ Has(path, what)'
         /\ \A other : other # path /\ other \in DOMAIN tree =>
              other \in DOMAIN tree' /\ tree'[other] = tree[other]
BY DEF Put, Has, With

LEMMA NamesApart ==
  ASSUME NEW s
  PROVE  BundleName(s) # Manifest
BY DEF BundleName, Manifest

LEMMA PathsApart ==
  ASSUME NEW a, NEW b, NEW c, NEW d, Path(a, b) = Path(c, d)
  PROVE  a = c /\ b = d
BY DEF Path

LEMMA SourcesAreLists ==
  ASSUME LodsAssumption, Types
  PROVE  Len(sources) \in Nat \ {0} /\ DOMAIN sources = 1 .. Len(sources)
<1>1. sources # <<>> /\ sources \in Seq(Range(sources))
  BY DEF LodsAssumption, Types
<1> QED
  BY <1>1

LEMMA InitInv == Init => LodsInv
BY DEF Init, Rest, LodsInv, Types, BuildInv, WriteInv, Writes, At, Pcs

-----------------------------------------------------------------------------
LEMMA TypesStep ==
  ASSUME LodsAssumption, Types, [Next]_vars
  PROVE  Types'
<1> DEFINE Results == {ResultOf(i) : i \in DOMAIN sources}
<1>1. CASE Build
  <2>1. /\ run' = [run EXCEPT !.at = @ + 1] /\ sources' = sources
        /\ run.at \in DOMAIN sources /\ results' = Append(results, ResultOf(run.at))
    BY <1>1 DEF Build, NextSource, Source, ResultOf
  <2>2. results' \in Seq(Results)
    <3>1. results \in Seq(Results)
      BY DEF Types
    <3>2. ResultOf(run.at) \in Results
      BY <2>1
    <3> HIDE DEF Results
    <3> QED
      BY <2>1, <3>1, <3>2
  <2>3. Results' = Results
    BY <2>1 DEF ResultOf
  <2>4. run' = [pc |-> run.pc, at |-> run.at + 1, path |-> run.path]
    BY <2>1 DEF Types
  <2>5. run' = [pc |-> run'.pc, at |-> run'.at, path |-> run'.path]
        /\ run'.pc \in Pcs /\ run'.at \in Nat \ {0}
    BY <2>4 DEF Types
  <2>6. results' \in Seq(Results')
    <3> HIDE DEF Results
    <3> QED
      BY <2>2, <2>3
  <2>7. sources' \in SourceLists
    BY <2>1 DEF Types
  <2> QED
    BY <2>5, <2>6, <2>7 DEF Types
<1>2. CASE StartRun
  <2>1. /\ run' = [pc |-> "build", at |-> 1, path |-> <<>>]
        /\ sources' = sources /\ results' = <<>>
    BY <1>2 DEF StartRun, Rest
  <2>2. results' \in Seq(Results')
    BY <2>1
  <2> QED
    BY <2>1, <2>2 DEF Types, Pcs
<1>3. CASE ~Build /\ ~StartRun
  <2>1. sources' = sources /\ results' = results
    BY <1>3 DEF Next, Skip, EndBuild, Open, Close, WriteFail, Stop, Kill, vars
  <2>2. results' \in Seq(Results')
    BY <2>1 DEF Types, ResultOf
  <2>3. \E pc \in Pcs, at \in {run.at, run.at + 1, 1} : \E path : run' = [pc |-> pc, at |-> at, path |-> path]
    <3>1. CASE Stop \/ Kill
      BY <3>1 DEF Stop, Kill, Rest, Pcs
    <3>2. CASE Skip
      BY <3>2 DEF Skip, NextSource, Types
    <3>3. CASE EndBuild \/ Close \/ WriteFail \/ UNCHANGED vars
      BY <3>3 DEF EndBuild, Close, WriteFail, vars, Types, Pcs
    <3>4. CASE \E name \in DOMAIN written \cup {Manifest}, br \in BOOLEAN : Open(name, br)
      BY <3>4 DEF Open, Types, Pcs
    <3> QED
      BY <1>3, <3>1, <3>2, <3>3, <3>4 DEF Next
  <2> QED
    BY <2>1, <2>2, <2>3 DEF Types
<1> QED
  BY <1>1, <1>2, <1>3

LEMMA BuildStep ==
  ASSUME LodsAssumption, Types, BuildInv, [Next]_vars
  PROVE  BuildInv'
<1>1. Len(sources) \in Nat \ {0} /\ DOMAIN sources = 1 .. Len(sources)
  BY SourcesAreLists
<1>2. CASE StartRun
  <2>1. /\ run'.at = 1 /\ run'.path = <<>> /\ sources' = sources
        /\ results' = <<>> /\ skipped' = {} /\ written' = <<>>
    BY <1>2 DEF StartRun, Rest
  <2>2. Handled' = {} /\ Built' = {} /\ Range(results') = {} /\ DOMAIN written' = {}
    BY <2>1 DEF Handled, Built, Range
  <2> QED
    BY <1>1, <2>1, <2>2 DEF BuildInv
<1>3. CASE Build
  <2> DEFINE i == run.at
             name == BundleName(sources[i])
  <2>1. /\ At("build") /\ i \in DOMAIN sources /\ i \in Nat \ {0} /\ i <= Len(sources)
        /\ run'.at = i + 1 /\ run'.path = run.path /\ sources' = sources /\ skipped' = skipped
        /\ results' = Append(results, ResultOf(i)) /\ written' = With(written, name, i)
    BY <1>1, <1>3 DEF Build, NextSource, Source, ResultOf, Types
  <2>2. /\ run.path = <<>> /\ skipped \subseteq Handled
        /\ {r.source : r \in Range(results)} = Built
        /\ DOMAIN written = {BundleName(sources[j]) : j \in Built}
        /\ \A n \in DOMAIN written : Newest(n)
    BY <2>1 DEF BuildInv
  <2>3. Handled' = Handled \cup {i} /\ i \notin Handled /\ Handled \in SUBSET (1 .. i - 1)
    BY <2>1 DEF Handled
  <2>4. Built' = Built \cup {i} /\ \A j \in Built : j \in Nat /\ j < i
    BY <2>1, <2>2, <2>3 DEF Built
  <2>5. Range(results') = Range(results) \cup {ResultOf(i)}
    <3> DEFINE Results == {ResultOf(j) : j \in DOMAIN sources}
    <3>1. results \in Seq(Results) /\ ResultOf(i) \in Results
      BY <2>1 DEF Types
    <3> HIDE DEF Results
    <3>2. /\ Len(results) \in Nat /\ DOMAIN results = 1 .. Len(results)
          /\ DOMAIN results' = 1 .. (Len(results) + 1) /\ results'[Len(results) + 1] = ResultOf(i)
          /\ \A k \in 1 .. Len(results) : results'[k] = results[k]
      BY <2>1, <3>1
    <3>3. DOMAIN results' = DOMAIN results \cup {Len(results) + 1}
      BY <3>2
    <3> QED
      BY <3>2, <3>3 DEF Range
  <2>6. {r.source : r \in Range(results')} = Built'
    <3>1. ResultOf(i).source = i
      BY DEF ResultOf
    <3>2. {r.source : r \in Range(results')} = {r.source : r \in Range(results)} \cup {ResultOf(i).source}
      BY <2>5
    <3> QED
      BY <2>2, <2>4, <3>1, <3>2
  <2>7. DOMAIN written' = DOMAIN written \cup {name} /\ written'[name] = i
    BY <2>1 DEF With
  <2>8. DOMAIN written' = {BundleName(sources'[j]) : j \in Built'}
    BY <2>1, <2>2, <2>4, <2>7
  <2>9. ASSUME NEW n \in DOMAIN written' PROVE Newest(n)'
    <3>1. CASE n = name
      BY <2>1, <2>4, <2>7, <3>1 DEF Newest
    <3>2. CASE n # name
      <4>1. n \in DOMAIN written /\ written'[n] = written[n]
        BY <2>1, <2>7, <2>9, <3>2 DEF With
      <4> QED
        BY <2>1, <2>2, <2>4, <3>2, <4>1 DEF Newest
    <3> QED
      BY <3>1, <3>2
  <2> QED
    BY <2>1, <2>2, <2>3, <2>6, <2>8, <2>9 DEF BuildInv
<1>4. CASE Skip
  <2> DEFINE i == run.at
  <2>1. /\ At("build") /\ i \in DOMAIN sources /\ i \in Nat \ {0} /\ i <= Len(sources)
        /\ run'.at = i + 1 /\ run'.path = run.path /\ skipped' = skipped \cup {i}
        /\ UNCHANGED <<sources, results, written>>
    BY <1>1, <1>4 DEF Skip, NextSource, Types
  <2>2. Handled' = Handled \cup {i} /\ i \notin Handled
    BY <2>1 DEF Handled
  <2>3. Built' = Built
    BY <2>1, <2>2 DEF Built
  <2>4. BuildInv => \A name \in DOMAIN written : Newest(name)'
    BY <2>1, <2>3 DEF BuildInv, Newest
  <2> QED
    BY <1>1, <2>1, <2>2, <2>3, <2>4 DEF BuildInv
<1>5. CASE ~StartRun /\ ~Build /\ ~Skip
  <2>1. UNCHANGED <<sources, results, skipped, written>>
    BY <1>5 DEF Next, EndBuild, Open, Close, WriteFail, Stop, Kill, vars
  <2>2. /\ At("build")' \/ Writes' => (At("build") \/ Writes) /\ run'.at = run.at
        /\ At("build")' => At("build") /\ run'.path = run.path
    <3>1. CASE EndBuild
      BY <3>1 DEF EndBuild, At, Writes, Types
    <3>2. CASE Stop \/ Kill \/ WriteFail
      BY <3>2 DEF Stop, Kill, WriteFail, Rest, At, Writes, Types
    <3>3. CASE Close \/ UNCHANGED vars
      BY <3>3 DEF Close, vars, At, Writes, Types
    <3>4. CASE \E name \in DOMAIN written \cup {Manifest}, br \in BOOLEAN : Open(name, br)
      BY <3>4 DEF Open, At, Writes, Types
    <3> QED
      BY <1>5, <3>1, <3>2, <3>3, <3>4 DEF Next
  <2> QED
    BY <2>1, <2>2 DEF BuildInv, Newest, Handled, Built
<1> QED
  BY <1>2, <1>3, <1>4, <1>5

\* Where the bundles go does not change while they are written.
LEMMA WriteStep ==
  ASSUME LodsAssumption, Types, BuildInv, WriteInv, [Next]_vars
  PROVE  WriteInv'
<1>1. Len(sources) \in Nat \ {0} /\ DOMAIN sources = 1 .. Len(sources)
  BY SourcesAreLists
<1>2. Writes => Manifest \notin DOMAIN written
  BY NamesApart DEF BuildInv
<1>3. CASE EndBuild
  <2>1. /\ At("build") /\ run.at = Len(sources) + 1 /\ UNCHANGED <<sources, results, written, tree>>
    BY <1>1, <1>3 DEF EndBuild, BuildInv, Types
  <2>2. CASE results = <<>>
    BY <1>3, <2>1, <2>2 DEF EndBuild, Types, WriteInv, Writes
  <2>3. CASE results # <<>>
    <3>1. /\ run' = [pc |-> "write", at |-> run.at, path |-> run.path]
          /\ todo' = (DOMAIN written) \X BOOLEAN
      BY <1>3, <2>3 DEF EndBuild, Types
    <3>2. run.path = <<>>
      BY <2>1 DEF BuildInv
    <3> QED
      BY <2>1, <2>3, <3>1, <3>2 DEF WriteInv, Writes, At, BundleKept
  <2> QED
    BY <2>2, <2>3
<1>4. ASSUME NEW name \in DOMAIN written \cup {Manifest}, NEW br \in BOOLEAN, Open(name, br)
      PROVE  WriteInv'
  <2>1. /\ At("write") /\ Writes /\ todo' = todo \ {<<name, br>>}
        /\ Put(Path(name, br), "part") /\ UNCHANGED <<sources, results, written>>
        /\ run' = [pc |-> "writing", at |-> run.at, path |-> Path(name, br)]
    BY <1>4 DEF Open, At, Writes, Types
  <2>2. /\ results # <<>> /\ run.at = Len(sources) + 1 /\ todo \subseteq (DOMAIN written) \X BOOLEAN
        /\ \A n \in DOMAIN written, b \in BOOLEAN : BundleKept(n, b)
        /\ run.path # <<>> => \E n \in DOMAIN written \cup {Manifest}, b \in BOOLEAN : AtPath(n, b)
    BY <2>1 DEF WriteInv, At
  <2>3. Files' = Files /\ \A n, b : Path(n, b)' = Path(n, b)
    BY <2>1 DEF Files, Path, Dir
  <2>4. ASSUME NEW n, NEW b, NEW what, <<n, b>> # <<name, br>>, Has(Path(n, b), what)
        PROVE  Has(Path(n, b), what)'
    <3>1. Path(n, b) # Path(name, br)
      BY <2>4, PathsApart
    <3> QED
      BY <2>1, <2>3, <2>4, <3>1, PutHas DEF Has
  <2>5. ASSUME NEW n \in DOMAIN written, NEW b \in BOOLEAN
        PROVE  BundleKept(n, b)'
    <3>1. CASE <<n, b>> = <<name, br>>
      BY <2>1, <2>3, <3>1 DEF BundleKept, At
    <3>2. CASE <<n, b>> # <<name, br>>
      <4>1. <<n, b>> \in todo \/ Has(Path(n, b), sources[written[n]].bytes)
        BY <2>1, <2>2 DEF BundleKept, At
      <4> QED
        BY <2>1, <2>4, <3>2, <4>1 DEF BundleKept
    <3> QED
      BY <3>1, <3>2
  <2>6. ASSUME name = Manifest
        PROVE  /\ todo = {}
               /\ br => Has(Path(Manifest, FALSE), Files)'
    <3>1. todo = {} /\ br = (run.path = Path(Manifest, FALSE))
      BY <1>2, <1>4, <2>1, <2>2, <2>6 DEF Open
    <3>2. ASSUME br PROVE Has(Path(Manifest, FALSE), Files)
      <4>1. run.path = Path(Manifest, FALSE) /\ run.path # <<>>
        <5>1. run.path = Path(Manifest, FALSE)
          BY <3>1, <3>2
        <5>2. Path(Manifest, FALSE) # <<>>
          BY DEF Path
        <5> QED
          BY <5>1, <5>2
      <4>2. PICK n \in DOMAIN written \cup {Manifest}, b \in BOOLEAN : AtPath(n, b)
        BY <2>2, <4>1
      <4>3. n = Manifest /\ b = FALSE
        <5>1. run.path = Path(n, b)
          BY <4>2 DEF AtPath
        <5>2. Path(n, b) = Path(Manifest, FALSE)
          BY <4>1, <5>1
        <5> QED
          BY <5>2, PathsApart DEF Path
      <4> QED
        BY <2>1, <4>2, <4>3 DEF AtPath
    <3>3. br => <<Manifest, FALSE>> # <<name, br>>
      OBVIOUS
    <3> QED
      BY <2>3, <2>4, <3>1, <3>2, <3>3
  <2>7. AtPath(name, br)'
    BY <2>1, <2>3, <2>6 DEF AtPath, At
  <2> QED
    BY <2>1, <2>2, <2>5, <2>7 DEF WriteInv, Writes, At
<1>5. CASE Close
  <2>1. At("writing") /\ Writes /\ UNCHANGED <<sources, results, written, todo>>
    BY <1>5 DEF Close, At, Writes
  <2>2. /\ results # <<>> /\ run.at = Len(sources) + 1 /\ todo \subseteq (DOMAIN written) \X BOOLEAN
        /\ \A n \in DOMAIN written, b \in BOOLEAN : BundleKept(n, b)
    BY <2>1 DEF WriteInv
  <2>3. PICK name \in DOMAIN written \cup {Manifest}, br \in BOOLEAN : AtPath(name, br)
    BY <2>1 DEF WriteInv, At
  <2> DEFINE what == IF name = Manifest THEN Files ELSE sources[written[name]].bytes
  <2>4. run.path = Path(name, br) /\ run.path[2] = name
    BY <2>3 DEF AtPath, Path
  <2>5. Put(Path(name, br), what)
    BY <1>5, <2>4 DEF Close
  <2>6. run' = [pc |-> IF <<name, br>> = <<Manifest, TRUE>> THEN "done" ELSE "write",
                at |-> run.at, path |-> Path(name, br)]
    <3>1. run.path = Path(Manifest, TRUE) <=> <<name, br>> = <<Manifest, TRUE>>
      <4>1. Path(name, br) = Path(Manifest, TRUE) => name = Manifest /\ br = TRUE
        BY PathsApart
      <4> QED
        BY <2>4, <4>1
    <3> QED
      BY <1>5, <2>4, <3>1 DEF Close, Types
  <2>7. Files' = Files /\ \A n, b : Path(n, b)' = Path(n, b)
    BY <2>1 DEF Files, Path, Dir
  <2>8. what' = what /\ Has(Path(name, br), what)'
    <3>1. Path(name, br) \in DOMAIN tree' /\ tree'[Path(name, br)] = what
      BY <2>5, PutHas DEF Has
    <3>2. what' = what
      BY <2>1, <2>7
    <3> QED
      BY <2>7, <3>1, <3>2 DEF Has
  <2>9. ASSUME NEW n, NEW b, NEW it, <<n, b>> # <<name, br>>, Has(Path(n, b), it)
        PROVE  Has(Path(n, b), it)'
    <3>1. Path(n, b) # Path(name, br)
      BY <2>9, PathsApart
    <3> QED
      BY <2>5, <2>7, <2>9, <3>1, PutHas DEF Has
  <2>10. ASSUME NEW n \in DOMAIN written, NEW b \in BOOLEAN
         PROVE  BundleKept(n, b)'
    <3>1. CASE <<n, b>> = <<name, br>>
      <4>1. what = sources[written[n]].bytes
        BY <1>2, <2>1, <3>1
      <4> QED
        BY <2>1, <2>7, <2>8, <3>1, <4>1 DEF BundleKept, Has
    <3>2. CASE <<n, b>> # <<name, br>>
      <4>1. Path(n, b) # Path(name, br)
        BY <3>2, PathsApart
      <4>2. <<n, b>> \in todo \/ Has(Path(n, b), sources[written[n]].bytes)
        BY <2>2, <2>4, <4>1 DEF BundleKept
      <4> QED
        BY <2>1, <2>9, <3>2, <4>2 DEF BundleKept
    <3> QED
      BY <3>1, <3>2
  <2>11. CASE name = Manifest
    <3>1. todo' = {} /\ Has(Path(Manifest, br), Files)'
      BY <2>1, <2>3, <2>7, <2>8, <2>11 DEF AtPath, Has
    <3>2. br => Has(Path(Manifest, FALSE), Files)'
      BY <2>3, <2>7, <2>9, <2>11 DEF AtPath
    <3>3. AtPath(name, br)'
      BY <2>6, <2>7, <2>11, <3>1, <3>2 DEF AtPath, At
    <3>4. At("done")' => todo' = {} /\ \A b \in BOOLEAN : Has(Path(Manifest, b), Files)'
      BY <2>6, <2>11, <3>1, <3>2 DEF At
    <3> QED
      BY <2>1, <2>2, <2>6, <2>10, <3>3, <3>4 DEF WriteInv, Writes, At
  <2>12. CASE name # Manifest
    <3>1. AtPath(name, br)' /\ ~At("done")'
      BY <2>6, <2>7, <2>12 DEF AtPath, At
    <3> QED
      BY <2>1, <2>2, <2>6, <2>10, <3>1 DEF WriteInv, Writes, At
  <2> QED
    BY <2>11, <2>12
<1>6. CASE StartRun \/ Build \/ Skip \/ WriteFail \/ Stop \/ Kill
  <2>1. ~Writes'
    BY <1>6 DEF StartRun, Build, Skip, NextSource, WriteFail, Stop, Kill, Rest, At, Writes, Types
  <2> QED
    BY <2>1 DEF WriteInv
<1>7. CASE UNCHANGED vars
  <2>1. /\ Files' = Files /\ \A n, b : Path(n, b)' = Path(n, b)
        /\ UNCHANGED <<sources, run, results, written, todo, tree>>
    BY <1>7 DEF vars, Files, Path, Dir
  <2>2. \A n, b : BundleKept(n, b)' = BundleKept(n, b) /\ AtPath(n, b)' = AtPath(n, b)
    BY <2>1 DEF BundleKept, AtPath, At, Has
  <2> QED
    BY <2>1, <2>2 DEF WriteInv, Writes, At, Has
<1> QED
  BY <1>3, <1>4, <1>5, <1>6, <1>7 DEF Next

-----------------------------------------------------------------------------
LEMMA InvImplies ==
  ASSUME LodsAssumption, LodsInv
  PROVE  AllLevels
<1> SUFFICES ASSUME At("done") PROVE AllLevels
  BY DEF AllLevels
<1>1. Len(sources) \in Nat \ {0} /\ DOMAIN sources = 1 .. Len(sources)
  BY SourcesAreLists DEF LodsInv
<1>2. /\ run.at = Len(sources) + 1 /\ skipped \subseteq Handled
      /\ {r.source : r \in Range(results)} = Built
      /\ DOMAIN written = {BundleName(sources[i]) : i \in Built}
      /\ \A name \in DOMAIN written : Newest(name)
  BY DEF LodsInv, BuildInv, WriteInv, Writes, At
<1>3. /\ todo = {} /\ \A br \in BOOLEAN : Has(Path(Manifest, br), Files)
      /\ \A name \in DOMAIN written, br \in BOOLEAN : BundleKept(name, br)
  BY DEF LodsInv, WriteInv, Writes, At
<1>4. Handled = DOMAIN sources /\ Built = DOMAIN sources \ skipped
  BY <1>1, <1>2 DEF Handled, Built
<1>5. {r.source : r \in Range(results)} \cup skipped = DOMAIN sources
  BY <1>2, <1>4
<1>6. tree[Path(Manifest, TRUE)] = Files /\ tree[Path(Manifest, FALSE)] = Files
  BY <1>3 DEF Has
<1>7. \A r \in Range(results) : r.source \in DOMAIN sources /\ r = ResultOf(r.source)
  <2> DEFINE Results == {ResultOf(i) : i \in DOMAIN sources}
  <2>1. results \in Seq(Results)
    BY DEF LodsInv, Types
  <2>2. \A r \in Results : r.source \in DOMAIN sources /\ r = ResultOf(r.source)
    BY DEF ResultOf
  <2> HIDE DEF Results
  <2>3. Range(results) \subseteq Results
    BY <2>1 DEF Range
  <2> QED
    BY <2>2, <2>3
<1>8. Files.names = DOMAIN written
  <2>1. Files.names = {BundleName(sources[r.source]) : r \in Range(results)}
    BY DEF Files
  <2> QED
    BY <1>2, <2>1
<1>9. {n[2] : n \in Files.names} = Files.levels
  <2>1. Files.names = {BundleName(sources[r.source]) : r \in Range(results)}
    BY DEF Files
  <2>2. Files.levels = {r.level : r \in Range(results)}
    BY DEF Files
  <2>3. \A r \in Range(results) : BundleName(sources[r.source])[2] = r.level
    BY <1>7 DEF ResultOf, BundleName
  <2> QED
    BY <2>1, <2>2, <2>3
<1>10. ASSUME NEW name \in Files.names
       PROVE  LET last == CHOOSE i \in DOMAIN sources \ skipped :
                            /\ BundleName(sources[i]) = name
                            /\ \A j \in DOMAIN sources \ skipped : BundleName(sources[j]) = name => j <= i
              IN \A br \in BOOLEAN : tree[Path(name, br)] = sources[last].bytes
  <2> DEFINE IsLast(i) == /\ BundleName(sources[i]) = name
                          /\ \A j \in DOMAIN sources \ skipped : BundleName(sources[j]) = name => j <= i
             last == CHOOSE i \in DOMAIN sources \ skipped : IsLast(i)
  <2>1. name \in DOMAIN written /\ Newest(name)
    BY <1>2, <1>8
  <2>2. written[name] \in DOMAIN sources \ skipped /\ IsLast(written[name])
    BY <1>4, <2>1 DEF Newest
  <2>3. last \in DOMAIN sources \ skipped /\ IsLast(last)
    BY <2>2
  <2>4. last = written[name]
    <3>1. last <= written[name] /\ written[name] <= last
      BY <2>2, <2>3
    <3> QED
      BY <1>1, <2>2, <2>3, <3>1
  <2>5. ASSUME NEW br \in BOOLEAN PROVE tree[Path(name, br)] = sources[last].bytes
    <3>1. Has(Path(name, br), sources[written[name]].bytes)
      BY <1>3, <2>1 DEF BundleKept, At
    <3> QED
      BY <2>4, <3>1 DEF Has
  <2> QED
    BY <2>5
<1> QED
  <2>1. Files.count = Len(results)
    BY DEF Files
  <2> HIDE DEF Files
  <2> QED
    BY <1>5, <1>6, <1>9, <1>10, <2>1 DEF AllLevels

(* However many sources fail and runs are killed: a run that finishes has  *)
(* accounted for every source, and its manifest lists, with an equal copy, *)
(* of each scene and level the last that was built, which is there whole   *)
(* (convert_lods, lods.rs:128).                                            *)
THEOREM LevelsComplete == ASSUME LodsAssumption PROVE Spec => []AllLevels
<1>1. LodsInv /\ [Next]_vars => LodsInv'
  BY TypesStep, BuildStep, WriteStep DEF LodsInv
<1>2. LodsInv => AllLevels
  BY InvImplies
<1> QED
  BY InitInv, <1>1, <1>2, PTL DEF Spec
=============================================================================
