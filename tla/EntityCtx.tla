----------------------------- MODULE EntityCtx -----------------------------
(***************************************************************************)
(* Proxy::entity_ctx of abgen-serve: the table of resolved entities, the   *)
(* per-entity lock that makes its fill single-flight, and the hash index   *)
(* that maps a content hash to the entity it was first seen in.            *)
(*                                                                         *)
(* A caller is a thread inside entity_ctx or inside the handler of         *)
(* POST entities/versions, the only other writer of the hash index.  The   *)
(* mutexes around the two maps are held for one statement each, so a read  *)
(* or a write of a map is one step; everything else interleaves.           *)
(*                                                                         *)
(* No lock is about a content hash, and the temporary a content file is    *)
(* written through is named after the process alone: threads that fill two *)
(* entities with a file in common write one temporary, and can publish it  *)
(* truncated.  Module ContentStore has those writes step by step; here a   *)
(* fetch is opened and then published or not, and a file that two threads  *)
(* had open at once may be read in part from then on.                      *)
(***************************************************************************)
EXTENDS FiniteSets

CONSTANTS
  Callers,      \* threads
  Ids,          \* content-addressed entity ids
  Pointers,     \* "x,y" pointers, which the catalyst may redeploy
  Hashes,       \* content hashes
  Content,      \* [Ids -> SUBSET Hashes]: what each entity deploys
  Convertible,  \* the hashes deployed as .glb/.gltf/.png/.jpg/.jpeg
  Glbs,         \* those deployed as .glb/.gltf
  Posts,        \* the sets of names a POST entities/versions may ask about
  Nil           \* "absent"

Cids == Ids \cup Pointers

\* What the proxy keeps of an entity: the entity the name resolved to, the
\* models its scan could read, and (history) those whose fetch had failed.
Ctx == [id : Ids, seen : SUBSET Hashes, lost : SUBSET Hashes]

ASSUME EntityCtxAssumption ==
  /\ Content \in [Ids -> SUBSET Hashes]
  /\ Glbs \subseteq Convertible
  /\ Convertible \subseteq Hashes
  /\ Ids \cap Pointers = {}
  /\ Posts \subseteq SUBSET Cids
  /\ Nil \notin Callers \cup Cids
  /\ Nil \notin Ctx

VARIABLES
  active,       \* the catalyst: the entity deployed at each pointer
  store,        \* hashes whose content is in the local content store
  torn,         \* (history) those whose temporary two threads had open at once
  entities,     \* Proxy.entities: [Cids -> Ctx \cup {Nil}]
  entityLock,   \* Proxy.entity_locks: the thread that holds each lock, or Nil
  hashIndex,    \* Proxy.hash_index: [Hashes -> Cids \cup {Nil}]
  call          \* where each thread is

evars == <<active, store, torn, entities, entityLock, hashIndex, call>>

-----------------------------------------------------------------------------
\* The program points of entity_ctx between taking the entity lock and
\* returning, and those at which the entry is known to be missing.
Working == {"resolve", "ensure", "scan", "insert"}
Holding == Working \cup {"recheck"}
InCall  == Holding \cup {"check", "lock"}
Pcs     == InCall \cup {"idle", "ok", "err", "post", "fetch"}

\* todo: hashes the current loop has still to visit; miss: the one being
\* fetched, which was not in the store when it was looked for; open: the one
\* whose temporary has been opened; ptrs and found: what a POST has still to
\* resolve and what it has resolved.  "fetch": in the ensure_content of `build'.
CallState == [pc : Pcs, cid : Cids \cup {Nil}, id : Ids \cup {Nil},
              todo : SUBSET Hashes, miss : SUBSET Hashes, open : SUBSET Hashes,
              seen : SUBSET Hashes, lost : SUBSET Hashes,
              ctx : Ctx \cup {Nil}, ptrs : SUBSET Cids, found : SUBSET Ids]

IdleCall == [pc |-> "idle", cid |-> Nil, id |-> Nil, todo |-> {}, miss |-> {}, open |-> {},
             seen |-> {}, lost |-> {}, ctx |-> Nil, ptrs |-> {}, found |-> {}]

\* resolve_scene: a pointer is whatever is active there now, anything else is
\* fetched by its id.
Resolved(c) == IF c \in Pointers THEN active[c] ELSE c

InitEntity ==
  /\ active \in [Pointers -> Ids]
  /\ store = {} /\ torn = {}
  /\ entities = [c \in Cids |-> Nil]
  /\ entityLock = [c \in Cids |-> Nil]
  /\ hashIndex = [h \in Hashes |-> Nil]
  /\ call = [t \in Callers |-> IdleCall]

-----------------------------------------------------------------------------
Call(t, c) ==
  /\ call[t].pc = "idle"
  /\ call' = [call EXCEPT ![t] = [IdleCall EXCEPT !.pc = "check", !.cid = c]]
  /\ UNCHANGED <<active, store, torn, entities, entityLock, hashIndex>>

\* The unlocked look-up.
Check(t) ==
  LET c == call[t].cid IN
  /\ call[t].pc = "check"
  /\ call' = IF entities[c] # Nil
             THEN [call EXCEPT ![t].pc = "ok", ![t].ctx = entities[c]]
             ELSE [call EXCEPT ![t].pc = "lock"]
  /\ UNCHANGED <<active, store, torn, entities, entityLock, hashIndex>>

\* Faulty: the entity lock is not waited for.
LockBlind(t) ==
  /\ call[t].pc = "lock"
  /\ entityLock' = [entityLock EXCEPT ![call[t].cid] = t]
  /\ call' = [call EXCEPT ![t].pc = "recheck"]
  /\ UNCHANGED <<active, store, torn, entities, hashIndex>>

Lock(t) ==
  /\ call[t].pc = "lock"
  /\ entityLock[call[t].cid] = Nil
  /\ entityLock' = [entityLock EXCEPT ![call[t].cid] = t]
  /\ call' = [call EXCEPT ![t].pc = "recheck"]
  /\ UNCHANGED <<active, store, torn, entities, hashIndex>>

\* Every return with the lock held drops the guard.
Release(t) == entityLock' = [entityLock EXCEPT ![call[t].cid] = Nil]

RecheckHit(t) ==
  LET c == call[t].cid IN
  /\ call[t].pc = "recheck"
  /\ entities[c] # Nil
  /\ call' = [call EXCEPT ![t].pc = "ok", ![t].ctx = entities[c]]
  /\ Release(t)
  /\ UNCHANGED <<active, store, torn, entities, hashIndex>>

RecheckMiss(t) ==
  /\ call[t].pc = "recheck"
  /\ entities[call[t].cid] = Nil
  /\ call' = [call EXCEPT ![t].pc = "resolve"]
  /\ UNCHANGED <<active, store, torn, entities, entityLock, hashIndex>>

ResolveOk(t) ==
  LET i == Resolved(call[t].cid) IN
  /\ call[t].pc = "resolve"
  /\ call' = [call EXCEPT ![t].pc = "ensure", ![t].id = i,
                          ![t].todo = Content[i] \cap Convertible]
  /\ UNCHANGED <<active, store, torn, entities, entityLock, hashIndex>>

\* Faulty: a failure leaves the lock taken.
ResolveFailKeepsLock(t) ==
  /\ call[t].pc = "resolve"
  /\ call' = [call EXCEPT ![t].pc = "err"]
  /\ UNCHANGED <<active, store, torn, entities, entityLock, hashIndex>>

\* The catalyst does not answer, or nothing is deployed: `?' returns, and
\* nothing is remembered.
ResolveFail(t) ==
  /\ call[t].pc = "resolve"
  /\ call' = [call EXCEPT ![t].pc = "err"]
  /\ Release(t)
  /\ UNCHANGED <<active, store, torn, entities, hashIndex>>

\* ensure_content of one hash, a convertible file of the entity: nothing to do
\* if the content store has it, ...
EnsureHave(t, h) ==
  /\ call[t].pc = "ensure" /\ call[t].miss = {} /\ call[t].open = {}
  /\ h \in call[t].todo \cap store
  /\ call' = [call EXCEPT ![t].todo = @ \ {h}]
  /\ UNCHANGED <<active, store, torn, entities, entityLock, hashIndex>>

EnsureMiss(t, h) ==
  /\ call[t].pc = "ensure" /\ call[t].miss = {} /\ call[t].open = {}
  /\ h \in call[t].todo \ store
  /\ call' = [call EXCEPT ![t].todo = @ \ {h}, ![t].miss = {h}]
  /\ UNCHANGED <<active, store, torn, entities, entityLock, hashIndex>>

\* ... else it is fetched, and fs::write opens or truncates the temporary,
\* whether or not another thread is writing it, ...
OpenContent(t, pc) ==
  /\ call[t].pc = pc /\ call[t].miss # {}
  /\ call' = [call EXCEPT ![t].open = @ \cup call[t].miss, ![t].miss = {}]
  /\ torn' = torn \cup UNION {call[u].open \cap call[t].miss : u \in Callers \ {t}}
  /\ UNCHANGED <<active, store, entities, entityLock, hashIndex>>

\* ... and renames it into place.
FetchOk(t) ==
  /\ call[t].pc = "ensure" /\ call[t].open # {}
  /\ store' = store \cup call[t].open
  /\ call' = [call EXCEPT ![t].open = {}]
  /\ UNCHANGED <<active, torn, entities, entityLock, hashIndex>>

\* The fetch, the write or the rename fails (the last because another thread
\* has renamed the temporary): the loop of entity_ctx only warns.
FetchFail(t) ==
  /\ call[t].pc = "ensure"
  /\ call[t].miss \cup call[t].open # {}
  /\ call' = [call EXCEPT ![t].lost = @ \cup call[t].miss \cup call[t].open,
                          ![t].miss = {}, ![t].open = {}]
  /\ UNCHANGED <<active, store, torn, entities, entityLock, hashIndex>>

\* Faulty: the scan does not wait for the content.
BeginScanEarly(t) ==
  /\ call[t].pc = "ensure" /\ call[t].miss = {} /\ call[t].open = {}
  /\ call' = [call EXCEPT ![t].pc = "scan", ![t].todo = Content[call[t].id] \cap Glbs]
  /\ UNCHANGED <<active, store, torn, entities, entityLock, hashIndex>>

BeginScan(t) ==
  /\ call[t].pc = "ensure"
  /\ call[t].todo = {} /\ call[t].miss = {} /\ call[t].open = {}
  /\ call' = [call EXCEPT ![t].pc = "scan", ![t].todo = Content[call[t].id] \cap Glbs]
  /\ UNCHANGED <<active, store, torn, entities, entityLock, hashIndex>>

\* scan_one: a model that cannot be read or parsed contributes nothing to the
\* scan; the parse of a model read in part may be remembered (UriCache).
ScanOne(t, h) ==
  /\ call[t].pc = "scan"
  /\ h \in call[t].todo
  /\ \E got \in SUBSET ({h} \cap store) :
       /\ h \notin torn => got = {h} \cap store
       /\ call' = [call EXCEPT ![t].todo = @ \ {h}, ![t].seen = @ \cup got]
  /\ UNCHANGED <<active, store, torn, entities, entityLock, hashIndex>>

\* Faulty: the last entity to deploy a hash takes it over (insert for or_insert).
IndexTakesOver(t) ==
  /\ call[t].pc = "scan"
  /\ call[t].todo = {}
  /\ hashIndex' = [h \in Hashes |-> IF h \in Content[call[t].id]
                                    THEN call[t].cid ELSE hashIndex[h]]
  /\ call' = [call EXCEPT ![t].pc = "insert"]
  /\ UNCHANGED <<active, store, torn, entities, entityLock>>

\* Faulty: only the models are indexed.
IndexModels(t) ==
  /\ call[t].pc = "scan"
  /\ call[t].todo = {}
  /\ hashIndex' = [h \in Hashes |-> IF h \in Content[call[t].id] \cap Glbs /\ hashIndex[h] = Nil
                                    THEN call[t].cid ELSE hashIndex[h]]
  /\ call' = [call EXCEPT ![t].pc = "insert"]
  /\ UNCHANGED <<active, store, torn, entities, entityLock>>

\* entry(..).or_insert_with(..): the first entity to deploy a hash keeps it.
Index(t) ==
  /\ call[t].pc = "scan"
  /\ call[t].todo = {}
  /\ hashIndex' = [h \in Hashes |-> IF h \in Content[call[t].id] /\ hashIndex[h] = Nil
                                    THEN call[t].cid ELSE hashIndex[h]]
  /\ call' = [call EXCEPT ![t].pc = "insert"]
  /\ UNCHANGED <<active, store, torn, entities, entityLock>>

Insert(t) ==
  LET ctx == [id |-> call[t].id, seen |-> call[t].seen, lost |-> call[t].lost] IN
  /\ call[t].pc = "insert"
  /\ entities' = [entities EXCEPT ![call[t].cid] = ctx]
  /\ call' = [call EXCEPT ![t].pc = "ok", ![t].ctx = ctx]
  /\ Release(t)
  /\ UNCHANGED <<active, store, torn, hashIndex>>

Return(t) ==
  /\ call[t].pc \in {"ok", "err"}
  /\ call' = [call EXCEPT ![t] = IdleCall]
  /\ UNCHANGED <<active, store, torn, entities, entityLock, hashIndex>>

-----------------------------------------------------------------------------
\* POST entities/versions: resolve every name, dropping those that fail, then
\* add all the pairs under one hold of the index mutex, first pair first.
PostBegin(t, names) ==
  /\ call[t].pc = "idle"
  /\ call' = [call EXCEPT ![t] = [IdleCall EXCEPT !.pc = "post", !.ptrs = names]]
  /\ UNCHANGED <<active, store, torn, entities, entityLock, hashIndex>>

PostResolve(t, c) ==
  /\ call[t].pc = "post"
  /\ c \in call[t].ptrs
  /\ \E got \in {{}, {Resolved(c)}} :
       call' = [call EXCEPT ![t].ptrs = @ \ {c}, ![t].found = @ \cup got]
  /\ UNCHANGED <<active, store, torn, entities, entityLock, hashIndex>>

\* Faulty: hashes are indexed under the names asked for, pointers included.
PostIndexByName(t) ==
  /\ call[t].pc = "post"
  /\ call[t].ptrs = {}
  /\ \E order \in [Hashes -> Cids \cup {Nil}] :
       /\ \A h \in Hashes :
            LET owners == {c \in Pointers : /\ Resolved(c) \in call[t].found
                                            /\ h \in Content[Resolved(c)]} IN
            IF owners = {} THEN order[h] = Nil ELSE order[h] \in owners
       /\ hashIndex' = [h \in Hashes |-> IF hashIndex[h] = Nil THEN order[h]
                                         ELSE hashIndex[h]]
  /\ call' = [call EXCEPT ![t] = IdleCall]
  /\ UNCHANGED <<active, store, torn, entities, entityLock>>

PostIndex(t) ==
  /\ call[t].pc = "post"
  /\ call[t].ptrs = {}
  /\ \E order \in [Hashes -> Ids \cup {Nil}] :
       /\ \A h \in Hashes :
            LET owners == {i \in call[t].found : h \in Content[i]} IN
            IF owners = {} THEN order[h] = Nil ELSE order[h] \in owners
       /\ hashIndex' = [h \in Hashes |-> IF hashIndex[h] = Nil THEN order[h]
                                         ELSE hashIndex[h]]
  /\ call' = [call EXCEPT ![t] = IdleCall]
  /\ UNCHANGED <<active, store, torn, entities, entityLock>>

\* ensure_content in the build of a bundle (Proxy::build), by a thread that is
\* in no call of entity_ctx, of a hash it has found to be convertible: the same
\* fetch, but a failure is returned.
BuildMiss(t, h) ==
  /\ call[t].pc = "idle"
  /\ h \in Convertible \ store
  /\ call' = [call EXCEPT ![t] = [IdleCall EXCEPT !.pc = "fetch", !.miss = {h}]]
  /\ UNCHANGED <<active, store, torn, entities, entityLock, hashIndex>>

BuildFetched(t) ==
  /\ call[t].pc = "fetch" /\ call[t].open # {}
  /\ store' = store \cup call[t].open
  /\ call' = [call EXCEPT ![t] = IdleCall]
  /\ UNCHANGED <<active, torn, entities, entityLock, hashIndex>>

BuildFetchFail(t) ==
  /\ call[t].pc = "fetch"
  /\ call' = [call EXCEPT ![t] = IdleCall]
  /\ UNCHANGED <<active, store, torn, entities, entityLock, hashIndex>>

\* The catalyst activates another entity at a pointer, at any time.
Redeploy(p, i) ==
  /\ active' = [active EXCEPT ![p] = i]
  /\ UNCHANGED <<store, torn, entities, entityLock, hashIndex, call>>

\* The process stops at any point and starts again: its tables, locks and
\* threads are gone, the content store on disk stays.
Restart ==
  /\ entities' = [c \in Cids |-> Nil]
  /\ entityLock' = [c \in Cids |-> Nil]
  /\ hashIndex' = [h \in Hashes |-> Nil]
  /\ call' = [t \in Callers |-> IdleCall]
  /\ UNCHANGED <<active, store, torn>>

-----------------------------------------------------------------------------
\* One step of a thread inside entity_ctx.
CtxStep(t) ==
  \/ Check(t) \/ Lock(t) \/ RecheckHit(t) \/ RecheckMiss(t)
  \/ ResolveOk(t) \/ ResolveFail(t)
  \/ \E h \in Hashes : EnsureHave(t, h) \/ EnsureMiss(t, h) \/ ScanOne(t, h)
  \/ OpenContent(t, "ensure")
  \/ FetchOk(t) \/ FetchFail(t) \/ BeginScan(t) \/ Index(t) \/ Insert(t)

\* One step of a thread inside the ensure_content of a build.
FetchStep(t) ==
  \/ OpenContent(t, "fetch")
  \/ BuildFetched(t) \/ BuildFetchFail(t)

\* One step of a thread inside the POST handler.
PostStep(t) ==
  \/ \E c \in Cids : PostResolve(t, c)
  \/ PostIndex(t)

NextEntity ==
  \/ \E t \in Callers :
       \/ CtxStep(t) \/ PostStep(t) \/ FetchStep(t) \/ Return(t)
       \/ \E c \in Cids : Call(t, c)
       \/ \E names \in Posts : PostBegin(t, names)
       \/ \E h \in Hashes : BuildMiss(t, h)
  \/ \E p \in Pointers, i \in Ids : Redeploy(p, i)
  \/ Restart

SpecEntity == InitEntity /\ [][NextEntity]_evars

-----------------------------------------------------------------------------
TypeOK ==
  /\ active \in [Pointers -> Ids]
  /\ store \in SUBSET Hashes
  /\ torn \in SUBSET Hashes
  /\ entities \in [Cids -> Ctx \cup {Nil}]
  /\ entityLock \in [Cids -> Callers \cup {Nil}]
  /\ hashIndex \in [Hashes -> Cids \cup {Nil}]
  /\ call \in [Callers -> CallState]

\* Two threads are never resolving, fetching, scanning or publishing the same
\* entity at the same time: the entity lock makes the fill single-flight.
SingleFlight ==
  \A t, u \in Callers :
    t # u /\ call[t].pc \in Holding /\ call[u].pc \in Holding => call[t].cid # call[u].cid

\* A thread only does the work of a fill while the entry is missing: a thread
\* that waited for another one's fill takes its result (the second look-up).
WorkOnlyWhenMissing ==
  \A t \in Callers : call[t].pc \in Working => entities[call[t].cid] = Nil

\* A successful entity_ctx returns the entry that is in the table, so every
\* request for an entity is served from one and the same scan of it.
AnswerIsEntry ==
  \A t \in Callers : call[t].pc = "ok" => call[t].ctx = entities[call[t].cid]

\* Following the hash index leads to an entity that deploys the hash: at once
\* for an id, and for a pointer in the entry its lock holder is about to
\* publish or has published, though the pointer may have been redeployed since.
\* This is what ends the re-resolution of `build' after one step.
IndexedOwnerDeploys(h, o) ==
  \/ o \in Ids /\ h \in Content[o]
  \/ entities[o] # Nil /\ h \in Content[entities[o].id]
  \/ \E t \in Callers : /\ call[t].pc = "insert" /\ call[t].cid = o
                        /\ h \in Content[call[t].id]

IndexSound ==
  \A h \in Hashes : hashIndex[h] # Nil => IndexedOwnerDeploys(h, hashIndex[h])

\* A client that saw the entity's manifest answered (entity_ctx returned) can
\* fetch each of its files by the flat route: all its hashes are indexed
\* before the entry is visible.
EntryIsIndexed ==
  \A c \in Cids : entities[c] # Nil =>
    \A h \in Content[entities[c].id] : hashIndex[h] # Nil

\* So the flat route finds, for every hash of an entity that was answered, an
\* entity that deploys it.
IndexAgrees == IndexSound /\ EntryIsIndexed

\* The scan of a published entry saw every model of the entity except those
\* whose own fetch failed, and those that two threads were writing at once (see
\* ContentStore): no model is missed by scanning too early.
ScanMissesOnlyLostOrTorn ==
  \A c \in Cids : entities[c] # Nil =>
    Content[entities[c].id] \cap Glbs \subseteq entities[c].seen \cup entities[c].lost \cup torn

\* An entry, once visible, is never replaced or dropped while the process
\* lives, and neither is an owner recorded for a hash: requests that overlap a
\* second resolution or a redeployment do not see two owners.
EntriesAndOwnersStable ==
  [][ \/ Restart
      \/ /\ \A c \in Cids : entities[c] # Nil => entities'[c] = entities[c]
         /\ \A h \in Hashes : hashIndex[h] # Nil => hashIndex'[h] = hashIndex[h] ]_evars

-----------------------------------------------------------------------------
\* entity_ctx implements a single-flight memo table of entity contexts.
MemoAnswer(t) ==
  CASE call[t].pc \in InCall  -> [st |-> "busy", key |-> call[t].cid]
    [] call[t].pc = "ok"      -> [st |-> "ok", key |-> call[t].cid, val |-> call[t].ctx]
    [] call[t].pc = "err"     -> [st |-> "err", key |-> call[t].cid]
    [] OTHER                  -> [st |-> "idle"]

Memo == INSTANCE OnceMemo WITH Keys <- Cids, Values <- Ctx, memo <- entities,
                               ans <- [t \in Callers |-> MemoAnswer(t)]

\* entity_ctx is a single-flight memo: an entry is filled at most once, by a
\* call in progress for it, and what a successful call returns is the entry.
ImplementsMemo == Memo!Spec
=============================================================================
