-------------------------- MODULE Wearables_proofs --------------------------
(***************************************************************************)
(* Proofs about Wearables for any collections, entities, limits, runs and  *)
(* faults: what a finished run reports is what is there.                   *)
(***************************************************************************)
EXTENDS Wearables, FiniteSetTheorems, FunctionTheorems, TLAPS

Pcs == {"off", "list", "post", "entity", "write", "writing", "done", "failed"}

\* The entities are being converted, or have been; one is being written.
Converts == job.pc \in {"entity", "write", "writing", "done"}
Busy     == job.pc \in {"write", "writing"}

\* What bundles may be called, and which models may be skipped.
Active == Range(case.active)
Names  == (UNION {{NameOf(e, Models(e)[n]) : n \in DOMAIN Models(e)} : e \in Active}) \ {Listing}
Skips  == {0} \cup UNION {DOMAIN Models(e) : e \in Active}
Result == [ok : BOOLEAN, files : SUBSET Names, skipped : SUBSET Skips]

Types ==
  /\ case \in Cases
  /\ job = [pc |-> job.pc, attempt |-> job.attempt, urns |-> job.urns,
            found |-> job.found, k |-> job.k, name |-> job.name]
  /\ job.pc \in Pcs
  /\ job.found \in Seq(Active) /\ result \in Seq(Result)

\* There is a result for each entity up to the k-th, for that once it is converted.
LoopInv ==
  Converts =>
    /\ \A i, j \in DOMAIN job.found : job.found[i].id = job.found[j].id => i = j
    /\ \A u \in job.urns : u \in unresolved \/ \E i \in DOMAIN job.found : u \in job.found[i].pointers
    /\ job.k \in Nat \ {0}
    /\ IF At("done") THEN job.k = Len(job.found) + 1 ELSE job.k <= Len(job.found)
    /\ Len(result) = IF Busy THEN job.k ELSE job.k - 1
StartInv == job.pc \in {"list", "post"} => result = <<>>

Has(id, name) == <<id, name>> \in DOMAIN tree /\ tree[<<id, name>>] = "whole"

\* Each model of an entity is in a bundle or was skipped.
Covered(i) ==
  \A n \in DOMAIN Models(job.found[i]) :
    \/ n \in result[i].skipped
    \/ NameOf(job.found[i], Models(job.found[i])[n]) \in result[i].files

\* The entities that were written stay what they are while others are written.
Written(i) ==
  LET id == job.found[i].id IN
  /\ Covered(i)
  /\ Has(id, Listing) /\ id \in DOMAIN listed /\ listed[id] = result[i].files
  /\ \A name \in result[i].files : Has(id, name)
WrittenInv ==
  Converts => \A i \in DOMAIN result : result[i].ok => Written(i)

\* A bundle of the entity at work is to be written, being written, or there.
Kept(name) ==
  \/ name \in bundles
  \/ At("writing") /\ job.name = name
  \/ Has(Entity.id, name)
WritingInv ==
  Busy =>
    /\ ~result[job.k].ok /\ Covered(job.k)
    /\ bundles \subseteq result[job.k].files
    /\ \A name \in result[job.k].files : Kept(name)
    /\ At("writing") => \/ job.name \in result[job.k].files
                        \/ job.name = Listing /\ bundles = {}

WearablesInv == Types /\ StartInv /\ LoopInv /\ WrittenInv /\ WritingInv

-----------------------------------------------------------------------------
LEMMA PutHas ==
  ASSUME NEW name, NEW state, Put(name, state)
  PROVE  /\ <<Entity.id, name>> \in DOMAIN tree' /\ tree'[<<Entity.id, name>>] = state
         /\ \A path \in DOMAIN tree : path # <<Entity.id, name>> =>
              path \in DOMAIN tree' /\ tree'[path] = tree[path]
BY DEF Put, With

\* The catalyst answers with entities of different ids.
LEMMA AnswersApart ==
  ASSUME WearablesAssumption, case \in Cases, NEW found \in Answers
  PROVE  /\ found \in Seq(Active)
         /\ \A i, j \in DOMAIN found : found[i].id = found[j].id => i = j
<1> DEFINE S == {e \in Active : e.pointers \cap job.urns # {}}
           n == Cardinality(S)
<1>1. IsFiniteSet(S)
  <2> DEFINE m == Len(case.active)
  <2>1. case.active \in Seq(Active)
    BY DEF WearablesAssumption, Active
  <2>2. case.active \in Surjection(1 .. m, Active) /\ m \in Nat
    BY <2>1 DEF Surjection, Active, Range
  <2>3. IsFiniteSet(1 .. m)
    BY <2>2, 1 \in Int, m \in Int, FS_Interval
  <2>4. IsFiniteSet(Active)
    BY <2>2, <2>3, FS_Surjection
  <2>5. S \in SUBSET Active
    OBVIOUS
  <2> QED
    BY <2>4, <2>5, FS_Subset
<1>2. n \in Nat
  BY <1>1, FS_CardinalityType
<1>3. found \in [1 .. n -> S] /\ \A i, j \in 1 .. n : i # j => found[i] # found[j]
  BY DEF Answers, SetToSeqs, Active
<1>4. found \in Seq(Active) /\ DOMAIN found = 1 .. n
  BY <1>2, <1>3
<1>5. \A d, e \in Active : d.id = e.id => d = e
  BY DEF WearablesAssumption, Active
<1> QED
  BY <1>3, <1>4, <1>5

LEMMA SameNames ==
  ASSUME case' = case
  PROVE  /\ \A e, x : NameOf(e, x)' = NameOf(e, x)
         /\ Active' = Active /\ Result' = Result
<1>1. Active' = Active /\ \A e, x : NameOf(e, x)' = NameOf(e, x)
  BY DEF Active, NameOf
<1>2. Names' = Names /\ Skips' = Skips
  BY <1>1 DEF Names, Skips
<1> QED
  BY <1>1, <1>2 DEF Result

\* What a run knows of its entities, but for the results and what is there.
Keeps == case' = case /\ job'.found = job.found /\ job'.urns = job.urns /\ unresolved' = unresolved

\* An entity that was written stays so while nothing of it is touched.
LEMMA StaysWritten ==
  ASSUME Keeps, NEW i, Written(i), result'[i] = result[i],
         \A name : LET path == <<job.found[i].id, name>> IN
                     path \in DOMAIN tree => path \in DOMAIN tree' /\ tree'[path] = tree[path],
         LET id == job.found[i].id IN
           id \in DOMAIN listed => id \in DOMAIN listed' /\ listed'[id] = listed[id]
  PROVE  Written(i)'
<1>1. Covered(i)'
  BY SameNames DEF Keeps, Written, Covered
<1> QED
  BY <1>1 DEF Keeps, Written, Has

\* Where a run is when an entity is at work.
LEMMA AtWork ==
  ASSUME Types, LoopInv, Busy \/ At("entity")
  PROVE  /\ Converts /\ job.k \in Nat \ {0} /\ job.k \in DOMAIN job.found /\ Entity \in Active
         /\ DOMAIN job.found = 1 .. Len(job.found) /\ Len(job.found) \in Nat
         /\ DOMAIN result = 1 .. Len(result) /\ Len(result) = IF Busy THEN job.k ELSE job.k - 1
         /\ \A i \in DOMAIN result : i \in DOMAIN job.found /\ result[i] \in Result
<1>1. /\ Converts /\ job.k \in Nat \ {0} /\ job.k <= Len(job.found)
      /\ Len(result) = IF Busy THEN job.k ELSE job.k - 1
  BY DEF LoopInv, Converts, Busy, At
<1>2. /\ DOMAIN job.found = 1 .. Len(job.found) /\ Len(job.found) \in Nat
      /\ DOMAIN result = 1 .. Len(result) /\ Len(result) \in Nat
      /\ \A i \in DOMAIN job.found : job.found[i] \in Active
      /\ \A i \in DOMAIN result : result[i] \in Result
  BY DEF Types
<1> QED
  BY <1>1, <1>2 DEF Entity

-----------------------------------------------------------------------------
LEMMA InitInv == Init => WearablesInv
<1> SUFFICES ASSUME Init PROVE WearablesInv
  OBVIOUS
<1>1. Types
  BY DEF Init, Rest, Types, Pcs
<1> QED
  BY <1>1 DEF Init, Rest, WearablesInv, StartInv, LoopInv, WrittenInv, WritingInv, Converts, Busy

LEMMA QuietStep ==
  ASSUME WearablesInv,
         StartRun \/ ListOk \/ ListFail \/ ListGone \/ PostFail \/ PostBreaks \/ Stop \/ Kill
  PROVE  WearablesInv'
<1>1. /\ case' = case /\ ~Converts' /\ ~Busy'
      /\ result' \in {result, <<>>} /\ job'.found \in {job.found, <<>>}
      /\ job'.pc \in {"list", "post"} => result' = <<>>
  <2>1. CASE StartRun \/ Kill
    BY <2>1 DEF StartRun, Kill, Rest, Converts, Busy
  <2>2. CASE ListOk \/ ListFail \/ ListGone
    BY <2>2 DEF ListOk, ListFail, ListGone, ToPost, At, Converts, Busy, WearablesInv, StartInv, Types
  <2>3. CASE PostFail \/ PostBreaks \/ Stop
    BY <2>3 DEF PostFail, PostBreaks, Stop, At, Converts, Busy, WearablesInv, StartInv, Types
  <2> QED
    BY <2>1, <2>2, <2>3
<1>2. \E pc \in Pcs : \E attempt, urns, found, k, name :
        job' = [pc |-> pc, attempt |-> attempt, urns |-> urns, found |-> found, k |-> k, name |-> name]
  <2>1. CASE StartRun \/ Kill
    BY <2>1 DEF StartRun, Kill, Rest, Pcs
  <2>2. CASE ListOk \/ ListFail \/ ListGone
    BY <2>2 DEF ListOk, ListFail, ListGone, ToPost, WearablesInv, Types, Pcs
  <2>3. CASE PostFail \/ PostBreaks \/ Stop
    BY <2>3 DEF PostFail, PostBreaks, Stop, WearablesInv, Types, Pcs
  <2> QED
    BY <2>1, <2>2, <2>3
<1>3. Types'
  <2>1. case' \in Cases /\ job'.found \in Seq(Active) /\ result' \in Seq(Result)
    <3>1. /\ case \in Cases /\ job.found \in Seq(Active) /\ result \in Seq(Result)
          /\ <<>> \in Seq(Active) /\ <<>> \in Seq(Result)
      BY DEF WearablesInv, Types
    <3> QED
      BY <1>1, <3>1
  <2> QED
    BY <1>1, <1>2, <2>1, SameNames DEF Types
<1> QED
  BY <1>1, <1>3 DEF WearablesInv, StartInv, LoopInv, WrittenInv, WritingInv

LEMMA PostStep ==
  ASSUME WearablesAssumption, WearablesInv, NEW found \in Answers, PostOk(found)
  PROVE  WearablesInv'
<1>1. found \in Seq(Active) /\ \A i, j \in DOMAIN found : found[i].id = found[j].id => i = j
  BY AnswersApart DEF WearablesInv, Types
<1>2. Len(found) \in Nat /\ DOMAIN found = 1 .. Len(found)
  BY <1>1
<1>3. /\ job' = [pc |-> IF 1 > Len(found) THEN "done" ELSE "entity", attempt |-> job.attempt,
                 urns |-> job.urns, found |-> found, k |-> 1, name |-> job.name]
      /\ case' = case /\ result' = result /\ result = <<>>
      /\ unresolved' = job.urns \ Pointers(found)
  BY DEF PostOk, ToEntity, At, WearablesInv, StartInv, Types
<1>4. Types' /\ StartInv'
  BY <1>1, <1>3, SameNames DEF WearablesInv, Types, StartInv, Pcs
<1>5. LoopInv'
  <2>1. \A u \in job'.urns : u \in unresolved' \/ \E i \in DOMAIN found : u \in found[i].pointers
    BY <1>3 DEF Pointers
  <2>2. IF At("done")' THEN job'.k = Len(found) + 1 ELSE job'.k <= Len(found)
    BY <1>2, <1>3 DEF At
  <2>3. Len(result') = 0 /\ job'.k = 1 /\ ~Busy'
    BY <1>3 DEF Busy
  <2> QED
    BY <1>1, <1>3, <2>1, <2>2, <2>3 DEF LoopInv
<1> QED
  BY <1>3, <1>4, <1>5 DEF WearablesInv, WrittenInv, WritingInv, Busy

LEMMA ConvertStep ==
  ASSUME WearablesInv, NEW bad, Convert(bad)
  PROVE  WearablesInv'
<1> DEFINE e == Entity
           models == Models(e)
           built == {n \in DOMAIN models \ bad : NameOf(e, models[n]) # <<>>}
           names == {NameOf(e, models[n]) : n \in built}
           new == [ok |-> FALSE, files |-> names, skipped |-> DOMAIN models \ built]
<1>1. /\ At("entity") /\ ~Busy /\ UNCHANGED <<case, unresolved, tree, listed>>
      /\ bundles' = names /\ result' = Append(result, new)
      /\ job' = [pc |-> "write", attempt |-> job.attempt, urns |-> job.urns,
                 found |-> job.found, k |-> job.k, name |-> job.name]
  BY DEF Convert, At, Busy, WearablesInv, Types
<1>2. /\ Converts /\ job.k \in Nat \ {0} /\ job.k \in DOMAIN job.found /\ e \in Active
      /\ DOMAIN job.found = 1 .. Len(job.found) /\ Len(job.found) \in Nat
      /\ DOMAIN result = 1 .. Len(result) /\ Len(result) = job.k - 1
      /\ \A i \in DOMAIN result : i \in DOMAIN job.found /\ result[i] \in Result
  BY <1>1, AtWork DEF WearablesInv
<1>3. new \in Result
  <2>1. names \in SUBSET Names
    <3>1. \A n \in DOMAIN models :
            NameOf(e, models[n]) \in UNION {{NameOf(a, Models(a)[m]) : m \in DOMAIN Models(a)} : a \in Active}
      BY <1>2
    <3> QED
      BY <3>1 DEF Names, Listing
  <2>2. DOMAIN models \in SUBSET Skips
    BY <1>2 DEF Skips
  <2>3. DOMAIN models \ built \in SUBSET Skips
    BY <2>2
  <2> HIDE DEF models, built, names
  <2> QED
    BY <2>1, <2>3 DEF Result
<1>4. /\ result' \in Seq(Result) /\ Len(result') = job.k /\ result'[job.k] = new
      /\ DOMAIN result' = 1 .. job.k /\ \A i \in 1 .. (job.k - 1) : result'[i] = result[i]
  <2>1. result \in Seq(Result)
    BY DEF WearablesInv, Types
  <2> HIDE DEF new
  <2> QED
    BY <1>1, <1>2, <1>3, <2>1
<1>5. Types' /\ StartInv'
  BY <1>1, <1>4, SameNames DEF WearablesInv, Types, StartInv, Pcs
<1>6. LoopInv'
  BY <1>1, <1>2, <1>4 DEF WearablesInv, LoopInv, Converts, Busy, At
<1>7. ASSUME NEW i \in DOMAIN result', result'[i].ok PROVE Written(i)'
  <2>1. i \in DOMAIN result /\ result'[i] = result[i]
    BY <1>2, <1>4, <1>7
  <2>2. Written(i)
    BY <1>2, <1>7, <2>1 DEF WearablesInv, WrittenInv
  <2> QED
    BY <1>1, <2>1, <2>2, StaysWritten DEF Keeps
<1>8. Covered(job.k)'
  <2>1. \A n \in DOMAIN models : n \in new.skipped \/ NameOf(e, models[n]) \in new.files
    OBVIOUS
  <2> HIDE DEF new
  <2> QED
    BY <1>1, <1>4, <2>1, SameNames DEF Covered, Entity
<1>9. WritingInv'
  <2>1. ~result'[job'.k].ok /\ result'[job'.k].files = names /\ ~At("writing")' /\ job'.k = job.k
    BY <1>1, <1>4 DEF At
  <2> QED
    BY <1>1, <1>8, <2>1 DEF WritingInv, Kept, Covered
<1> QED
  BY <1>5, <1>6, <1>7, <1>9 DEF WearablesInv, WrittenInv

LEMMA OpenStep ==
  ASSUME WearablesInv, OpenListing \/ \E name \in bundles : OpenBundle(name)
  PROVE  WearablesInv'
<1> DEFINE files == result[job.k].files
<1>1. PICK name :
        /\ At("write") /\ Busy /\ Put(name, "part") /\ bundles' = bundles \ {name}
        /\ job' = [pc |-> "writing", attempt |-> job.attempt, urns |-> job.urns,
                   found |-> job.found, k |-> job.k, name |-> name]
        /\ name \in bundles \/ (name = Listing /\ bundles = {})
        /\ UNCHANGED <<case, result, unresolved, listed>>
  <2>1. CASE OpenListing
    BY <2>1 DEF OpenListing, At, Busy, WearablesInv, Types
  <2>2. CASE \E name \in bundles : OpenBundle(name)
    BY <2>2 DEF OpenBundle, At, Busy, WearablesInv, Types
  <2> QED
    BY <2>1, <2>2
<1>2. /\ Converts /\ job.k \in DOMAIN job.found /\ job.k \in Nat \ {0} /\ job.k \in DOMAIN result
      /\ \A i \in DOMAIN result : i \in DOMAIN job.found /\ result[i] \in Result
  BY <1>1, AtWork DEF WearablesInv
<1>3. /\ ~result[job.k].ok /\ Covered(job.k) /\ bundles \subseteq files
      /\ \A m \in files : Kept(m)
  BY <1>1 DEF WearablesInv, WritingInv
<1>4. Types' /\ StartInv'
  BY <1>1, SameNames DEF WearablesInv, Types, StartInv, Pcs
<1>5. LoopInv'
  BY <1>1, <1>2 DEF WearablesInv, LoopInv, Converts, Busy, At
<1>6. ASSUME NEW i \in DOMAIN result', result'[i].ok PROVE Written(i)'
  <2>1. i \in DOMAIN result /\ result'[i] = result[i] /\ Written(i) /\ i # job.k
    BY <1>1, <1>2, <1>3, <1>6 DEF WearablesInv, WrittenInv
  <2>2. job.found[i].id # Entity.id
    BY <1>2, <2>1 DEF WearablesInv, LoopInv, Entity
  <2> QED
    BY <1>1, <2>1, <2>2, PutHas, StaysWritten DEF Keeps
<1>7. Covered(job.k)'
  BY <1>1, <1>3, SameNames DEF Covered
<1>8. ASSUME NEW m \in files PROVE Kept(m)'
  <2>1. CASE m = name
    BY <1>1, <2>1 DEF Kept, At
  <2>2. CASE m # name
    <3>1. m \in bundles \/ Has(Entity.id, m)
      BY <1>1, <1>3 DEF Kept, At
    <3>2. Has(Entity.id, m) => Has(Entity.id, m)'
      BY <1>1, <2>2, PutHas DEF Has, Entity
    <3> QED
      BY <1>1, <2>2, <3>1, <3>2 DEF Kept
  <2> QED
    BY <2>1, <2>2
<1>9. WritingInv'
  BY <1>1, <1>3, <1>7, <1>8 DEF WritingInv, At, Covered
<1> QED
  BY <1>4, <1>5, <1>6, <1>9 DEF WearablesInv, WrittenInv

LEMMA EndBundleStep ==
  ASSUME WearablesInv, EndBundle
  PROVE  WearablesInv'
<1> DEFINE files == result[job.k].files
           name  == job.name
<1>1. /\ At("writing") /\ Busy /\ Put(name, "whole") /\ name # Listing
      /\ job' = [pc |-> "write", attempt |-> job.attempt, urns |-> job.urns,
                 found |-> job.found, k |-> job.k, name |-> job.name]
      /\ UNCHANGED <<case, bundles, result, unresolved, listed>>
  BY DEF EndBundle, At, Busy, WearablesInv, Types
<1>2. /\ Converts /\ job.k \in DOMAIN job.found /\ job.k \in Nat \ {0} /\ job.k \in DOMAIN result
      /\ \A i \in DOMAIN result : i \in DOMAIN job.found /\ result[i] \in Result
  BY <1>1, AtWork DEF WearablesInv
<1>3. /\ ~result[job.k].ok /\ Covered(job.k) /\ bundles \subseteq files
      /\ \A m \in files : Kept(m)
  BY <1>1 DEF WearablesInv, WritingInv
<1>4. Types' /\ StartInv'
  BY <1>1, SameNames DEF WearablesInv, Types, StartInv, Pcs
<1>5. LoopInv'
  BY <1>1, <1>2 DEF WearablesInv, LoopInv, Converts, Busy, At
<1>6. ASSUME NEW i \in DOMAIN result', result'[i].ok PROVE Written(i)'
  <2>1. i \in DOMAIN result /\ result'[i] = result[i] /\ Written(i) /\ i # job.k
    BY <1>1, <1>2, <1>3, <1>6 DEF WearablesInv, WrittenInv
  <2>2. job.found[i].id # Entity.id
    BY <1>2, <2>1 DEF WearablesInv, LoopInv, Entity
  <2> QED
    BY <1>1, <2>1, <2>2, PutHas, StaysWritten DEF Keeps
<1>7. Covered(job.k)'
  BY <1>1, <1>3, SameNames DEF Covered
<1>8. ASSUME NEW m \in files PROVE Kept(m)'
  <2>1. CASE m = name
    BY <1>1, <2>1, PutHas DEF Kept, Has, Entity
  <2>2. CASE m # name
    <3>1. m \in bundles \/ Has(Entity.id, m)
      BY <1>3, <2>2 DEF Kept
    <3>2. Has(Entity.id, m) => Has(Entity.id, m)'
      BY <1>1, <2>2, PutHas DEF Has, Entity
    <3> QED
      BY <1>1, <3>1, <3>2 DEF Kept
  <2> QED
    BY <2>1, <2>2
<1>9. WritingInv'
  BY <1>1, <1>3, <1>7, <1>8 DEF WritingInv, At, Covered
<1> QED
  BY <1>4, <1>5, <1>6, <1>9 DEF WearablesInv, WrittenInv

\* The next entity, or the end.
LEMMA Onward ==
  ASSUME WearablesInv, Busy, ToEntity(job, job.k + 1),
         case' = case, unresolved' = unresolved,
         result' \in Seq(Result), Len(result') = job.k
  PROVE  Types' /\ StartInv' /\ LoopInv' /\ ~Busy' /\ Keeps
<1>1. /\ job' = [pc |-> IF job.k + 1 > Len(job.found) THEN "done" ELSE "entity", attempt |-> job.attempt,
                 urns |-> job.urns, found |-> job.found, k |-> job.k + 1, name |-> job.name]
  BY DEF ToEntity, WearablesInv, Types
<1>2. /\ Converts /\ job.k \in DOMAIN job.found /\ job.k \in Nat \ {0}
      /\ DOMAIN job.found = 1 .. Len(job.found) /\ Len(job.found) \in Nat
  BY AtWork DEF WearablesInv
<1>3. Types' /\ StartInv' /\ ~Busy' /\ Keeps
  BY <1>1, SameNames DEF WearablesInv, Types, StartInv, Busy, Keeps, Pcs
<1>4. LoopInv'
  <2>1. IF At("done")' THEN job'.k = Len(job.found) + 1 ELSE job'.k <= Len(job.found)
    BY <1>1, <1>2 DEF At
  <2> QED
    <3>1. /\ \A i, j \in DOMAIN job.found : job.found[i].id = job.found[j].id => i = j
          /\ \A u \in job.urns : u \in unresolved \/ \E i \in DOMAIN job.found : u \in job.found[i].pointers
      BY <1>2 DEF WearablesInv, LoopInv
    <3>2. job'.k = job.k + 1 /\ Len(result') = job'.k - 1
      BY <1>1, <1>2
    <3>3. Len(result') = IF Busy' THEN job'.k ELSE job'.k - 1
      BY <1>3, <3>2
    <3>4. /\ job'.found = job.found /\ job'.urns = job.urns /\ unresolved' = unresolved
          /\ job'.k \in Nat \ {0}
      BY <1>1, <1>2, <3>2
    <3> QED
      BY <2>1, <3>1, <3>3, <3>4 DEF LoopInv
<1> QED
  BY <1>3, <1>4

LEMMA EndListingStep ==
  ASSUME WearablesInv, EndListing
  PROVE  WearablesInv'
<1> DEFINE files == result[job.k].files
<1>1. /\ At("writing") /\ Busy /\ job.name = Listing /\ Put(Listing, "whole")
      /\ listed' = With(listed, Entity.id, files) /\ result' = [result EXCEPT ![job.k].ok = TRUE]
      /\ ToEntity(job, job.k + 1) /\ UNCHANGED <<case, bundles, unresolved>>
  BY DEF EndListing, At, Busy
<1>2. /\ Converts /\ job.k \in DOMAIN job.found /\ job.k \in Nat \ {0} /\ job.k \in DOMAIN result
      /\ DOMAIN result = 1 .. Len(result) /\ Len(result) = job.k
      /\ \A i \in DOMAIN result : i \in DOMAIN job.found /\ result[i] \in Result
  BY <1>1, AtWork DEF WearablesInv
<1>3. /\ ~result[job.k].ok /\ Covered(job.k) /\ \A m \in files : Has(Entity.id, m)
  <2>1. /\ ~result[job.k].ok /\ Covered(job.k) /\ bundles \subseteq files
        /\ job.name \in files \/ bundles = {}
        /\ \A m \in files : Kept(m)
    BY <1>1 DEF WearablesInv, WritingInv
  <2>2. Listing \notin files
    <3>1. files \in SUBSET Names
      BY <1>2 DEF Result
    <3>2. Listing \notin Names
      BY DEF Names
    <3> QED
      BY <3>1, <3>2
  <2> QED
    BY <1>1, <2>1, <2>2 DEF Kept
<1>4. /\ result' \in [1 .. job.k -> Result] /\ result'[job.k].ok /\ result'[job.k].files = files
      /\ result'[job.k].skipped = result[job.k].skipped
      /\ \A i \in 1 .. job.k : i # job.k => result'[i] = result[i]
  BY <1>1, <1>2 DEF Result
<1>5. result' \in Seq(Result) /\ Len(result') = job.k
  BY <1>2, <1>4
<1>6. Types' /\ StartInv' /\ LoopInv' /\ ~Busy' /\ Keeps
  BY <1>1, <1>5, Onward
<1>7. ASSUME NEW i \in DOMAIN result', result'[i].ok PROVE Written(i)'
  <2>1. CASE i = job.k
    <3>1. Covered(i)'
      BY <1>3, <1>4, <1>6, <2>1, SameNames DEF Covered, Keeps
    <3>2. Entity.id \in DOMAIN listed' /\ listed'[Entity.id] = files
      BY <1>1 DEF With
    <3>3. \A m \in files \cup {Listing} :
            <<Entity.id, m>> \in DOMAIN tree' /\ tree'[<<Entity.id, m>>] = "whole"
      BY <1>1, <1>3, PutHas DEF Has
    <3> QED
      BY <1>4, <1>6, <2>1, <3>1, <3>2, <3>3 DEF Written, Has, Entity, Keeps
  <2>2. CASE i # job.k
    <3>1. i \in DOMAIN result /\ result'[i] = result[i] /\ Written(i)
      BY <1>2, <1>4, <1>7, <2>2 DEF WearablesInv, WrittenInv
    <3>2. job.found[i].id # Entity.id
      BY <1>2, <2>2, <3>1 DEF WearablesInv, LoopInv, Entity
    <3>3. LET id == job.found[i].id IN id \in DOMAIN listed => id \in DOMAIN listed' /\ listed'[id] = listed[id]
      BY <1>1, <3>2 DEF With
    <3> QED
      BY <1>1, <1>6, <3>1, <3>2, <3>3, PutHas, StaysWritten
  <2> QED
    BY <2>1, <2>2
<1> QED
  BY <1>6, <1>7 DEF WearablesInv, WrittenInv, WritingInv

LEMMA WriteFailStep ==
  ASSUME WearablesInv, WriteFail
  PROVE  WearablesInv'
<1>1. /\ At("writing") /\ Busy /\ UNCHANGED <<case, unresolved, tree, listed>>
      /\ result' = [result EXCEPT ![job.k].files = {}, ![job.k].skipped = {0}]
      /\ ToEntity(job, job.k + 1)
  BY DEF WriteFail, At, Busy
<1>2. /\ Converts /\ job.k \in Nat \ {0} /\ job.k \in DOMAIN result
      /\ DOMAIN result = 1 .. Len(result) /\ Len(result) = job.k
      /\ \A i \in DOMAIN result : result[i] \in Result
  BY <1>1, AtWork DEF WearablesInv
<1>3. ~result[job.k].ok
  BY <1>1 DEF WearablesInv, WritingInv
<1>4. /\ result' \in [1 .. job.k -> Result] /\ ~result'[job.k].ok
      /\ \A i \in 1 .. job.k : i # job.k => result'[i] = result[i]
  BY <1>1, <1>2, <1>3 DEF Result, Skips
<1>5. result' \in Seq(Result) /\ Len(result') = job.k
  BY <1>2, <1>4
<1>6. Types' /\ StartInv' /\ LoopInv' /\ ~Busy' /\ Keeps
  BY <1>1, <1>5, Onward
<1>7. ASSUME NEW i \in DOMAIN result', result'[i].ok PROVE Written(i)'
  <2>1. result'[i] = result[i] /\ Written(i)
    BY <1>2, <1>4, <1>7 DEF WearablesInv, WrittenInv
  <2> QED
    BY <1>1, <1>6, <2>1, StaysWritten
<1> QED
  BY <1>6, <1>7 DEF WearablesInv, WrittenInv, WritingInv

-----------------------------------------------------------------------------
LEMMA InvStep ==
  ASSUME WearablesAssumption, WearablesInv, [Next]_vars
  PROVE  WearablesInv'
<1>1. CASE UNCHANGED vars
  <2>1. UNCHANGED <<case, job, bundles, result, unresolved, tree, listed>>
    BY <1>1 DEF vars
  <2>2. Types' /\ StartInv' /\ LoopInv'
    BY <2>1, SameNames DEF WearablesInv, Types, StartInv, LoopInv, Converts, Busy, At
  <2>3. \A i : Covered(i)' = Covered(i) /\ Written(i)' = Written(i)
    BY <2>1, SameNames DEF Covered, Written, Has
  <2>4. \A name : Kept(name)' = Kept(name)
    BY <2>1 DEF Kept, Has, Entity, At
  <2> QED
    BY <2>1, <2>2, <2>3, <2>4 DEF WearablesInv, WrittenInv, WritingInv, Converts, Busy, At
<1>2. CASE Next
  BY <1>1, <1>2, QuietStep, PostStep, ConvertStep, OpenStep, EndBundleStep, EndListingStep, WriteFailStep
  DEF Next
<1> QED
  BY <1>1, <1>2

LEMMA InvImplies ==
  ASSUME WearablesInv
  PROVE  ReportsTruly
<1> SUFFICES ASSUME At("done") PROVE ReportsTruly
  BY DEF ReportsTruly
<1>1. Converts /\ ~Busy
  BY DEF At, Converts, Busy
<1>2. /\ \A u \in job.urns : u \in unresolved \/ \E i \in DOMAIN job.found : u \in job.found[i].pointers
      /\ Len(result) = Len(job.found)
  BY <1>1 DEF WearablesInv, Types, LoopInv
<1>3. \A i \in DOMAIN result : result[i].ok => Written(i)
  BY <1>1 DEF WearablesInv, WrittenInv
<1> QED
  BY <1>2, <1>3 DEF ReportsTruly, Written, Covered, Has

(* Whatever requests, builds and writes fail and runs are killed: a run    *)
(* that finishes tells of each urn it asked for and of each entity it      *)
(* found, and an entity it tells was written is there whole, with each     *)
(* model built or skipped and a manifest that lists just its bundles       *)
(* (convert_collection, wearables.rs:200).                                 *)
THEOREM CollectionsReported == ASSUME WearablesAssumption PROVE Spec => []ReportsTruly
<1>1. WearablesInv /\ [Next]_vars => WearablesInv'
  BY InvStep
<1>2. WearablesInv => ReportsTruly
  BY InvImplies
<1> QED
  BY InitInv, <1>1, <1>2, PTL DEF Spec
=============================================================================
