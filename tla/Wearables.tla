----------------------------- MODULE Wearables -----------------------------
(***************************************************************************)
(* Converting a collection of wearables (src/src/wearables.rs): ask the    *)
(* catalyst for the members of a collection and for the entities that are  *)
(* active under them, build the models of each entity, write the bundles   *)
(* and the manifest of the entity (src/src/manifest.rs).  Requests are     *)
(* tried again after most failures (src/src/catalyst.rs), a model that     *)
(* fails is left out, an entity that cannot be written is reported.  Runs  *)
(* may be killed and follow one another over one tree.                     *)
(*                                                                         *)
(* A case is [urn, members, active, bytes, present]: the urn asked for,    *)
(* the urns its collection lists, the active entities                      *)
(* <<[id, pointers, items]>> and what their content is, as in Manifest.    *)
(***************************************************************************)
EXTENDS Naming, FiniteSets

CONSTANTS
  Cases,
  Limit,      \* per_entity_limit, 0 for none
  Retries,    \* HTTP_RETRIES
  MaxRuns, MaxFaults   \* bounds

\* An id is the hash of the entity.
WearablesAssumption ==
  /\ {Retries, MaxRuns} \subseteq Nat \ {0} /\ {Limit, MaxFaults} \subseteq Nat
  /\ \A c \in Cases : /\ c.active \in Seq(Range(c.active))
                       /\ \A d, e \in Range(c.active) : d.id = e.id => d = e

VARIABLES
  case,
  job,      \* where convert_collection is: [pc, attempt, urns, found, k, name]
  bundles,  \* the bundles of entity k by name: those still to be written
  result,   \* [k -> [ok, files, skipped]]: the EntityResults so far
  unresolved,
  tree,     \* [<<entity, name>> -> "part" or "whole"]; the manifest's name is Listing
  listed,   \* [entity -> the names its manifest lists]
  past      \* [runs, faults]

vars == <<case, job, bundles, result, unresolved, tree, listed, past>>

Listing == <<>>   \* which no bundle is called
Rest == [pc |-> "off", attempt |-> 1, urns |-> {}, found |-> <<>>, k |-> 1, name |-> Listing]

Init ==
  /\ case \in Cases
  /\ job = Rest /\ bundles = {} /\ result = <<>> /\ unresolved = {}
  /\ tree = <<>> /\ listed = <<>>
  /\ past = [runs |-> 0, faults |-> 0]

At(pc) == job.pc = pc
With(map, key, value) == [k \in DOMAIN map \cup {key} |-> IF k = key THEN value ELSE map[k]]
Fault == past.faults < MaxFaults /\ past' = [past EXCEPT !.faults = @ + 1]

StartRun ==
  /\ At("off") /\ past.runs < MaxRuns
  /\ past' = [past EXCEPT !.runs = @ + 1]
  /\ job' = [Rest EXCEPT !.pc = "list"]
  /\ result' = <<>> /\ unresolved' = {} /\ bundles' = {}
  /\ UNCHANGED <<case, tree, listed>>

-----------------------------------------------------------------------------
(* collection_member_urns and resolve_member_urns: a broken answer counts  *)
(* as a failure that is tried again; a 404 ends it; without an answer, or  *)
(* with an empty one, the urn is taken for that of one wearable.           *)
Members(urns) == IF urns = {} THEN {case.urn} ELSE urns
ToPost(urns) == job' = [job EXCEPT !.pc = "post", !.attempt = 1, !.urns = Members(urns)]

ListOk ==
  /\ At("list") /\ ToPost(case.members)
  /\ UNCHANGED <<case, bundles, result, unresolved, tree, listed, past>>
ListFail ==
  /\ At("list") /\ Fault
  /\ IF job.attempt < Retries THEN job' = [job EXCEPT !.attempt = @ + 1] ELSE ToPost({})
  /\ UNCHANGED <<case, bundles, result, unresolved, tree, listed>>
ListGone ==
  /\ At("list") /\ Fault /\ ToPost({})
  /\ UNCHANGED <<case, bundles, result, unresolved, tree, listed>>

(* post_json and resolve_entities: the entities that are active, in any    *)
(* order; any status is tried again, an answer that breaks off is not.     *)
Pointers(found) == UNION {found[i].pointers : i \in DOMAIN found}
ToEntity(j, k) == job' = [j EXCEPT !.pc = IF k > Len(j.found) THEN "done" ELSE "entity", !.k = k]
Answers == SetToSeqs({e \in Range(case.active) : e.pointers \cap job.urns # {}})
PostOk(found) ==
  /\ At("post")
  /\ unresolved' = job.urns \ Pointers(found)
  /\ ToEntity([job EXCEPT !.found = found], 1)
  /\ UNCHANGED <<case, bundles, result, tree, listed, past>>
PostFail ==
  /\ At("post") /\ Fault
  /\ job' = IF job.attempt < Retries THEN [job EXCEPT !.attempt = @ + 1] ELSE [job EXCEPT !.pc = "failed"]
  /\ UNCHANGED <<case, bundles, result, unresolved, tree, listed>>
PostBreaks ==
  /\ At("post") /\ Fault /\ job' = [job EXCEPT !.pc = "failed"]
  /\ UNCHANGED <<case, bundles, result, unresolved, tree, listed>>

-----------------------------------------------------------------------------
(* convert_entity: the models of the entity that are there and have all    *)
(* they refer to, each built under its canonical name; of two with one     *)
(* name the first is kept.  A build or a fetch may also fail for reasons   *)
(* of its own.                                                             *)
Entity == job.found[job.k]
Models(e) ==
  LET models == SelectSeq(e.items, LAMBDA x : IsModel(x.file))
  IN IF Limit = 0 \/ Len(models) <= Limit THEN models ELSE SubSeq(models, 1, Limit)
Content(e) ==
  [key \in {Key(x.file) : x \in Range(e.items)} |->
     LET at == {n \in DOMAIN e.items : Key(e.items[n].file) = key}
     IN e.items[CHOOSE n \in at : \A m \in at : m <= n].hash]
NameOf(e, x) ==
  LET digest == Digest(case.bytes[x.hash], Key(x.file), Content(e), FALSE)
  IN IF x.hash \notin case.present \/ digest = NoDigest THEN <<>>
     ELSE CanonicalName(x.hash, x.file, digest)

Convert(bad) ==
  LET models == Models(Entity)
      built == {n \in DOMAIN models \ bad : NameOf(Entity, models[n]) # <<>>}
      names == {NameOf(Entity, models[n]) : n \in built}
  IN /\ At("entity") /\ bad \subseteq DOMAIN models
     /\ IF bad = {} THEN UNCHANGED past ELSE Fault
     /\ bundles' = names
     /\ result' = Append(result, [ok |-> FALSE, files |-> names, skipped |-> DOMAIN models \ built])
     /\ job' = [job EXCEPT !.pc = "write"]
     /\ UNCHANGED <<case, unresolved, tree, listed>>

(* write_scene: the bundles in any order, though the code takes them by    *)
(* name, each in place, and then the manifest.                             *)
Put(name, state) == tree' = With(tree, <<Entity.id, name>>, state)
OpenBundle(name) ==
  /\ At("write") /\ name \in bundles
  /\ Put(name, "part") /\ bundles' = bundles \ {name}
  /\ job' = [job EXCEPT !.pc = "writing", !.name = name]
  /\ UNCHANGED <<case, result, unresolved, listed, past>>
OpenListing ==
  /\ At("write") /\ bundles = {}
  /\ Put(Listing, "part")
  /\ job' = [job EXCEPT !.pc = "writing", !.name = Listing]
  /\ UNCHANGED <<case, bundles, result, unresolved, listed, past>>
EndBundle ==
  /\ At("writing") /\ job.name # Listing
  /\ Put(job.name, "whole") /\ job' = [job EXCEPT !.pc = "write"]
  /\ UNCHANGED <<case, bundles, result, unresolved, listed, past>>
EndListing ==
  /\ At("writing") /\ job.name = Listing
  /\ Put(Listing, "whole")
  /\ listed' = With(listed, Entity.id, result[job.k].files)
  /\ result' = [result EXCEPT ![job.k].ok = TRUE]
  /\ ToEntity(job, job.k + 1)
  /\ UNCHANGED <<case, bundles, unresolved, past>>
\* Faulty: as if a bundle that cannot be written were written.
WriteFailIgnored ==
  /\ At("writing") /\ Fault
  /\ job' = [job EXCEPT !.pc = "write"]
  /\ UNCHANGED <<case, bundles, result, unresolved, tree, listed>>
(* An entity that cannot be written counts as one without bundles.         *)
WriteFail ==
  /\ At("writing") /\ Fault
  /\ bundles' = {}
  /\ result' = [result EXCEPT ![job.k].files = {}, ![job.k].skipped = {0}]
  /\ ToEntity(job, job.k + 1)
  /\ UNCHANGED <<case, unresolved, tree, listed>>

Stop ==
  /\ job.pc \in {"done", "failed"} /\ job' = [job EXCEPT !.pc = "off"]
  /\ UNCHANGED <<case, bundles, result, unresolved, tree, listed, past>>
Kill ==
  /\ job.pc \notin {"off", "done", "failed"} /\ Fault
  /\ job' = Rest /\ bundles' = {} /\ result' = <<>> /\ unresolved' = {}
  /\ UNCHANGED <<case, tree, listed>>

Next ==
  \/ StartRun \/ ListOk \/ ListFail \/ ListGone \/ PostFail \/ PostBreaks
  \/ \E found \in Answers : PostOk(found)
  \/ At("entity") /\ \E bad \in SUBSET DOMAIN Models(Entity) : Convert(bad)
  \/ \E name \in bundles : OpenBundle(name)
  \/ OpenListing \/ EndBundle \/ EndListing \/ WriteFail \/ Stop \/ Kill
  \/ At("off") /\ past.runs = MaxRuns /\ UNCHANGED vars

Spec == Init /\ [][Next]_vars

-----------------------------------------------------------------------------
(* What a finished run says is what is there: each urn it asked for is     *)
(* unresolved or has an entity; each entity has one result; each model of  *)
(* an entity that was written is in a bundle or was skipped, and its       *)
(* manifest is whole and lists just the bundles, all whole, whatever       *)
(* failed, broke off or was killed before (wearables.rs:75, 147, 183, 202; *)
(* manifest.rs:10).                                                        *)
ReportsTruly ==
  At("done") =>
    /\ \A u \in job.urns : u \in unresolved \/ \E i \in DOMAIN job.found : u \in job.found[i].pointers
    /\ Len(result) = Len(job.found)
    /\ \A i \in DOMAIN result : result[i].ok =>
         LET e == job.found[i] IN
         /\ \A n \in DOMAIN Models(e) : \/ n \in result[i].skipped
                                        \/ NameOf(e, Models(e)[n]) \in result[i].files
         /\ tree[<<e.id, Listing>>] = "whole" /\ listed[e.id] = result[i].files
         /\ \A name \in listed[e.id] : tree[<<e.id, name>>] = "whole"
=============================================================================
