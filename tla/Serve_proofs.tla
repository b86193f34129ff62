---------------------------- MODULE Serve_proofs ----------------------------
(***************************************************************************)
(* Proofs about abgen-serve for any number of connections, entities,       *)
(* pointers and hashes, any requests and any redeployments and crashes.    *)
(* First the entity table, for callers that do as they like: EntityCtx.    *)
(* Then the request path over it, Serve: it uses the table as EntityCtx    *)
(* allows, a bundle is built by one worker at a time and only while it is  *)
(* missing, and what is cached or answered is whole, right for its path,   *)
(* and complete unless a fetch of its entity failed or two threads wrote a *)
(* file of it at once.                                                     *)
(***************************************************************************)
EXTENDS Serve, TLAPS

-----------------------------------------------------------------------------
\* The entity table: type correctness, single flight, and the relations between
\* the table, the hash index and what the threads are doing.

\* The fields of a thread's state that its program point makes meaningful.
FieldsOK ==
  \A t \in Callers :
    /\ call[t].pc \in InCall \cup {"ok", "err"} => call[t].cid \in Cids
    /\ call[t].pc \in {"ensure", "scan", "insert"} => call[t].id \in Ids
    /\ call[t].pc = "ok" => call[t].ctx \in Ctx

\* Whoever is past the lock holds it.
LockHeld ==
  \A t \in Callers : call[t].pc \in Holding => entityLock[call[t].cid] = t

\* The index is complete for the entity about to be published.
InsertIsIndexed ==
  \A t \in Callers : call[t].pc = "insert" =>
    \A h \in Content[call[t].id] : hashIndex[h] # Nil

\* An entity that is asked for by its id is the one that is set up.
EntryIsNamed ==
  /\ \A t \in Callers : call[t].pc \in {"ensure", "scan", "insert"} /\ call[t].cid \in Ids
                          => call[t].id = call[t].cid
  /\ \A c \in Ids : entities[c] # Nil => entities[c].id = c

\* How far the two loops over the content have got.
EnsureLoop ==
  \A t \in Callers : call[t].pc = "ensure" =>
    Content[call[t].id] \cap Convertible
      \subseteq call[t].todo \cup call[t].miss \cup call[t].open \cup store \cup call[t].lost

ScanLoop ==
  \A t \in Callers : call[t].pc = "scan" =>
    /\ Content[call[t].id] \cap Convertible \subseteq store \cup call[t].lost
    /\ Content[call[t].id] \cap Glbs \subseteq call[t].todo \cup call[t].seen \cup call[t].lost \cup torn

InsertSaw ==
  \A t \in Callers : call[t].pc = "insert" =>
    /\ Content[call[t].id] \cap Convertible \subseteq store \cup call[t].lost
    /\ Content[call[t].id] \cap Glbs \subseteq call[t].seen \cup call[t].lost \cup torn

\* What a published entry lacks in the content store had failed to be fetched.
EntryStored ==
  \A c \in Cids : entities[c] # Nil =>
    Content[entities[c].id] \cap Convertible \subseteq store \cup entities[c].lost

\* The inductive invariant: the lock part, the table part, the scan part.
FlightInv == TypeOK /\ FieldsOK /\ LockHeld /\ WorkOnlyWhenMissing /\ AnswerIsEntry
TableInv  == InsertIsIndexed /\ EntryIsIndexed /\ IndexSound /\ EntryIsNamed
ScanInv   == EnsureLoop /\ ScanLoop /\ InsertSaw /\ EntryStored /\ ScanMissesOnlyLostOrTorn

USE DEF Cids

-----------------------------------------------------------------------------
\* A thread that is in no call has a well-formed state.
LEMMA IdleTyped == IdleCall \in CallState
  BY DEF IdleCall, CallState, Pcs

\* Every step of entity_ctx, of the POST handler, of the catalyst and of a
\* restart keeps the types, given the types of the fields of a call.
LEMMA TypeStep == TypeOK /\ FieldsOK /\ [NextEntity]_evars => TypeOK'
<1> SUFFICES ASSUME TypeOK, FieldsOK, [NextEntity]_evars PROVE TypeOK'
  OBVIOUS
<1>a. \A t \in Callers : call[t] \in CallState
  BY DEF TypeOK
<1>1. ASSUME NEW t \in Callers, NEW c \in Cids, Call(t, c) PROVE TypeOK'
  <2>1. [IdleCall EXCEPT !.pc = "check", !.cid = c] \in CallState
    BY DEF IdleCall, CallState, Pcs, InCall
  <2> QED
    BY <1>1, <2>1 DEF TypeOK, Call
<1>2. ASSUME NEW t \in Callers, Check(t) PROVE TypeOK'
  <2>1. ASSUME NEW x \in Ctx PROVE [call[t] EXCEPT !.pc = "ok", !.ctx = x] \in CallState
    BY <1>a DEF CallState, Pcs
  <2>2. [call[t] EXCEPT !.pc = "lock"] \in CallState
    BY <1>a DEF CallState, Pcs, InCall
  <2>3. call[t].cid \in Cids
    BY <1>2 DEF FieldsOK, Check, InCall
  <2>4. CASE entities[call[t].cid] # Nil
    BY <1>2, <2>1, <2>3, <2>4 DEF TypeOK, Check
  <2>5. CASE entities[call[t].cid] = Nil
    BY <1>2, <2>2, <2>5 DEF TypeOK, Check
  <2> QED
    BY <2>4, <2>5
<1>3. ASSUME NEW t \in Callers, Lock(t) PROVE TypeOK'
  <2>1. [call[t] EXCEPT !.pc = "recheck"] \in CallState
    BY <1>a DEF CallState, Pcs, InCall, Holding, Working
  <2> QED
    BY <1>3, <2>1 DEF TypeOK, Lock
<1>4. ASSUME NEW t \in Callers, RecheckHit(t) PROVE TypeOK'
  <2>0. entities[call[t].cid] \in Ctx
    BY <1>4 DEF RecheckHit, TypeOK, FieldsOK, InCall, Holding
  <2>1. [call[t] EXCEPT !.pc = "ok", !.ctx = entities[call[t].cid]] \in CallState
    BY <1>a, <2>0 DEF CallState, Pcs, InCall, Holding, Working
  <2> QED
    BY <1>4, <2>1 DEF TypeOK, RecheckHit, Release
<1>5. ASSUME NEW t \in Callers, RecheckMiss(t) PROVE TypeOK'
  <2>1. [call[t] EXCEPT !.pc = "resolve"] \in CallState
    BY <1>a DEF CallState, Pcs, InCall, Holding, Working
  <2> QED
    BY <1>5, <2>1 DEF TypeOK, RecheckMiss
<1>6. ASSUME NEW t \in Callers, ResolveOk(t) PROVE TypeOK'
  <2>1. Resolved(call[t].cid) \in Ids
    BY <1>6 DEF ResolveOk, TypeOK, FieldsOK, InCall, Holding, Working, Resolved
  <2>2. ASSUME NEW i \in Ids, NEW S \in SUBSET Hashes
        PROVE [call[t] EXCEPT !.pc = "ensure", !.id = i, !.todo = S] \in CallState
    BY <1>a DEF CallState, Pcs, InCall, Holding, Working
  <2>3. \A i \in Ids : Content[i] \cap Convertible \in SUBSET Hashes
    BY EntityCtxAssumption
  <2> QED
    BY <1>6, <2>1, <2>2, <2>3 DEF TypeOK, ResolveOk
<1>7. ASSUME NEW t \in Callers, ResolveFail(t) PROVE TypeOK'
  <2>1. [call[t] EXCEPT !.pc = "err"] \in CallState
    BY <1>a DEF CallState, Pcs, InCall, Holding, Working
  <2> QED
    BY <1>7, <2>1 DEF TypeOK, ResolveFail, Release
<1>8. ASSUME NEW t \in Callers, NEW h \in Hashes, EnsureHave(t, h) PROVE TypeOK'
  <2>1. [call[t] EXCEPT !.todo = @ \ {h}] \in CallState
    BY <1>a DEF CallState, Pcs, InCall, Holding, Working
  <2> QED
    BY <1>8, <2>1 DEF TypeOK, EnsureHave
<1>9. ASSUME NEW t \in Callers, NEW h \in Hashes, EnsureMiss(t, h) PROVE TypeOK'
  <2>1. [call[t] EXCEPT !.todo = @ \ {h}, !.miss = {h}] \in CallState
    BY <1>a DEF CallState, Pcs, InCall, Holding, Working
  <2> QED
    BY <1>9, <2>1 DEF TypeOK, EnsureMiss
<1>22. ASSUME NEW t \in Callers, FetchOk(t) PROVE TypeOK'
  <2>1. [call[t] EXCEPT !.open = {}] \in CallState
    BY <1>a DEF CallState, Pcs, InCall, Holding, Working
  <2> QED
    BY <1>22, <2>1 DEF TypeOK, FetchOk, CallState
<1>23. ASSUME NEW t \in Callers, FetchFail(t) PROVE TypeOK'
  <2>1. [call[t] EXCEPT !.lost = @ \cup call[t].miss \cup call[t].open,
                        !.miss = {}, !.open = {}] \in CallState
    BY <1>a DEF CallState, Pcs, InCall, Holding, Working
  <2> QED
    BY <1>23, <2>1 DEF TypeOK, FetchFail
<1>24. ASSUME NEW t \in Callers, NEW pc, OpenContent(t, pc) PROVE TypeOK'
  <2>1. [call[t] EXCEPT !.open = @ \cup call[t].miss, !.miss = {}] \in CallState
    BY <1>a DEF CallState, Pcs, InCall, Holding, Working
  <2>2. \A u \in Callers : call[u].open \subseteq Hashes
    BY <1>a DEF CallState
  <2> QED
    BY <1>24, <2>1, <2>2 DEF TypeOK, OpenContent
<1>10. ASSUME NEW t \in Callers, BeginScan(t) PROVE TypeOK'
  <2>0. call[t].id \in Ids
    BY <1>10 DEF BeginScan, FieldsOK
  <2>1. ASSUME NEW S \in SUBSET Hashes
        PROVE [call[t] EXCEPT !.pc = "scan", !.todo = S] \in CallState
    BY <1>a DEF CallState, Pcs, InCall, Holding, Working
  <2>2. Content[call[t].id] \cap Glbs \in SUBSET Hashes
    BY <2>0, EntityCtxAssumption
  <2> QED
    BY <1>10, <2>1, <2>2 DEF TypeOK, BeginScan
<1>11. ASSUME NEW t \in Callers, NEW h \in Hashes, ScanOne(t, h) PROVE TypeOK'
  <2>1. PICK got \in SUBSET ({h} \cap store) :
          call' = [call EXCEPT ![t].todo = @ \ {h}, ![t].seen = @ \cup got]
    BY <1>11 DEF ScanOne
  <2>a. call \in [Callers -> CallState] /\ got \subseteq Hashes
    BY DEF TypeOK
  <2>2. [call[t] EXCEPT !.todo = @ \ {h}, !.seen = @ \cup got] \in CallState
    BY ONLY <1>a, <2>a, t \in Callers DEF CallState
  <2>3. call' = [call EXCEPT ![t] = [call[t] EXCEPT !.todo = @ \ {h}, !.seen = @ \cup got]]
    BY ONLY <2>1, <2>a
  <2>4. call' \in [Callers -> CallState]
    BY ONLY <2>a, <2>2, <2>3, t \in Callers
  <2> QED
    BY <1>11, <2>4 DEF TypeOK, ScanOne
<1>12. ASSUME NEW t \in Callers, Index(t) PROVE TypeOK'
  <2>1. [call[t] EXCEPT !.pc = "insert"] \in CallState
    BY <1>a DEF CallState, Pcs, InCall, Holding, Working
  <2>2. call[t].cid \in Cids
    BY <1>12 DEF Index, FieldsOK, InCall, Holding, Working
  <2> QED
    BY <1>12, <2>1, <2>2 DEF TypeOK, Index
<1>13. ASSUME NEW t \in Callers, Insert(t) PROVE TypeOK'
  <2> DEFINE ctx == [id |-> call[t].id, seen |-> call[t].seen, lost |-> call[t].lost]
  <2>1. ctx \in Ctx /\ call[t].cid \in Cids
    BY <1>13, <1>a DEF Insert, FieldsOK, CallState, Ctx, InCall, Holding, Working
  <2>2. [call[t] EXCEPT !.pc = "ok", !.ctx = ctx] \in CallState
    BY <1>a, <2>1 DEF CallState, Pcs
  <2> HIDE DEF ctx
  <2> QED
    BY <1>13, <2>1, <2>2 DEF TypeOK, Insert, Release, ctx
<1>14. ASSUME NEW t \in Callers, Return(t) PROVE TypeOK'
  BY <1>14, IdleTyped DEF TypeOK, Return
<1>15. ASSUME NEW t \in Callers, NEW names \in Posts, PostBegin(t, names) PROVE TypeOK'
  <2>1. [IdleCall EXCEPT !.pc = "post", !.ptrs = names] \in CallState
    BY EntityCtxAssumption DEF IdleCall, CallState, Pcs
  <2> QED
    BY <1>15, <2>1 DEF TypeOK, PostBegin
<1>16. ASSUME NEW t \in Callers, NEW c \in Cids, PostResolve(t, c) PROVE TypeOK'
  <2>1. Resolved(c) \in Ids
    BY DEF TypeOK, Resolved
  <2>2. ASSUME NEW got \in SUBSET Ids
        PROVE [call[t] EXCEPT !.ptrs = @ \ {c}, !.found = @ \cup got] \in CallState
    BY <1>a DEF CallState
  <2>3. PICK got \in {{}, {Resolved(c)}} :
          call' = [call EXCEPT ![t].ptrs = @ \ {c}, ![t].found = @ \cup got]
    BY <1>16 DEF PostResolve
  <2>4. got \in SUBSET Ids
    BY <2>1
  <2> QED
    BY <1>16, <2>2, <2>3, <2>4 DEF TypeOK, PostResolve
<1>17. ASSUME NEW t \in Callers, PostIndex(t) PROVE TypeOK'
  BY <1>17, IdleTyped DEF TypeOK, PostIndex
<1>18. ASSUME NEW t \in Callers, NEW h \in Hashes, BuildMiss(t, h) PROVE TypeOK'
  <2>1. [IdleCall EXCEPT !.pc = "fetch", !.miss = {h}] \in CallState
    BY DEF IdleCall, CallState, Pcs
  <2> QED
    BY <1>18, <2>1 DEF TypeOK, BuildMiss
<1>25. ASSUME NEW t \in Callers, BuildFetched(t) PROVE TypeOK'
  <2>1. call[t].open \subseteq Hashes
    BY <1>a DEF CallState
  <2> QED
    BY <1>25, <2>1, IdleTyped DEF TypeOK, BuildFetched
<1>26. ASSUME NEW t \in Callers, BuildFetchFail(t) PROVE TypeOK'
  BY <1>26, IdleTyped DEF TypeOK, BuildFetchFail
<1>19. ASSUME NEW p \in Pointers, NEW i \in Ids, Redeploy(p, i) PROVE TypeOK'
  BY <1>19 DEF TypeOK, Redeploy
<1>20. CASE Restart
  BY <1>20, IdleTyped DEF TypeOK, Restart
<1>21. CASE UNCHANGED evars
  BY <1>21 DEF TypeOK, evars
<1> QED
  BY <1>1, <1>2, <1>3, <1>4, <1>5, <1>6, <1>7, <1>8, <1>9, <1>10,
     <1>11, <1>12, <1>13, <1>14, <1>15, <1>16, <1>17, <1>18, <1>19, <1>20, <1>21, <1>22, <1>23,
     <1>24, <1>25, <1>26
     DEF NextEntity, CtxStep, PostStep, FetchStep

\* A fetch that fails leaves a mark in its own call and nowhere else.
LEMMA FailsAlone ==
  ASSUME TypeOK, NEW t \in Callers, FetchFail(t)
  PROVE  /\ call[t].pc = "ensure" /\ call[t].cid = call'[t].cid /\ call[t].id = call'[t].id
         /\ call'[t].pc = "ensure" /\ call'[t].todo = call[t].todo /\ call'[t].seen = call[t].seen
         /\ call'[t].ctx = call[t].ctx
         /\ call'[t].ptrs = call[t].ptrs /\ call'[t].found = call[t].found
         /\ call'[t].lost = call[t].lost \cup call[t].miss \cup call[t].open
         /\ call'[t].miss = {} /\ call'[t].open = {}
         /\ \A u \in Callers \ {t} : call'[u] = call[u]
         /\ UNCHANGED <<active, store, torn, entities, entityLock, hashIndex>>
<1>1. call[t] \in CallState /\ call \in [Callers -> CallState]
  BY DEF TypeOK
<1>2. call' = [call EXCEPT ![t] = [call[t] EXCEPT !.lost = @ \cup call[t].miss \cup call[t].open,
                                                 !.miss = {}, !.open = {}]]
  BY DEF FetchFail
<1>3. call'[t] = [call[t] EXCEPT !.lost = @ \cup call[t].miss \cup call[t].open, !.miss = {}, !.open = {}]
  BY ONLY <1>1, <1>2
<1>4. \A u \in Callers \ {t} : call'[u] = call[u]
  BY ONLY <1>1, <1>2
<1> QED
  BY <1>1, <1>3, <1>4 DEF FetchFail, CallState

\* Single flight and its strengthening hold when the server starts.
LEMMA InitFlight == InitEntity => FlightInv
  BY EntityCtxAssumption, IdleTyped
     DEF InitEntity, FlightInv, TypeOK, FieldsOK, LockHeld, WorkOnlyWhenMissing, AnswerIsEntry,
         IdleCall, InCall, Holding, Working

\* Every step keeps them: only the holder of an entity's lock works on the
\* entity, and it only does while the entry is missing.
LEMMA FlightStep == FlightInv /\ [NextEntity]_evars => FlightInv'
<1> SUFFICES ASSUME FlightInv, [NextEntity]_evars PROVE FlightInv'
  OBVIOUS
<1>t. TypeOK'
  BY TypeStep DEF FlightInv
<1> USE <1>t, EntityCtxAssumption
        DEF FlightInv, TypeOK, FieldsOK, LockHeld, WorkOnlyWhenMissing, AnswerIsEntry,
            InCall, Holding, Working
<1>1. ASSUME NEW t \in Callers, NEW c \in Cids, Call(t, c) PROVE FlightInv'
  BY <1>1 DEF Call, IdleCall
<1>2. ASSUME NEW t \in Callers, Check(t) PROVE FlightInv'
  BY <1>2 DEF Check
<1>3. ASSUME NEW t \in Callers, Lock(t) PROVE FlightInv'
  BY <1>3 DEF Lock
<1>4. ASSUME NEW t \in Callers, RecheckHit(t) PROVE FlightInv'
  BY <1>4 DEF RecheckHit, Release
<1>5. ASSUME NEW t \in Callers, RecheckMiss(t) PROVE FlightInv'
  BY <1>5 DEF RecheckMiss
<1>6. ASSUME NEW t \in Callers, ResolveOk(t) PROVE FlightInv'
  <2>1. Resolved(call[t].cid) \in Ids
    BY <1>6 DEF ResolveOk, Resolved
  <2> QED
    BY <1>6, <2>1 DEF ResolveOk
<1>7. ASSUME NEW t \in Callers, ResolveFail(t) PROVE FlightInv'
  BY <1>7 DEF ResolveFail, Release
<1>8. ASSUME NEW t \in Callers, NEW h \in Hashes, EnsureHave(t, h) PROVE FlightInv'
  BY <1>8 DEF EnsureHave
<1>9. ASSUME NEW t \in Callers, NEW h \in Hashes, EnsureMiss(t, h) PROVE FlightInv'
  BY <1>9 DEF EnsureMiss
<1>22. ASSUME NEW t \in Callers, FetchOk(t) PROVE FlightInv'
  BY <1>22 DEF FetchOk
<1>23. ASSUME NEW t \in Callers, FetchFail(t) PROVE FlightInv'
  BY <1>23, FailsAlone
<1>24. ASSUME NEW t \in Callers, NEW pc, OpenContent(t, pc) PROVE FlightInv'
  BY <1>24 DEF OpenContent
<1>10. ASSUME NEW t \in Callers, BeginScan(t) PROVE FlightInv'
  BY <1>10 DEF BeginScan
<1>11. ASSUME NEW t \in Callers, NEW h \in Hashes, ScanOne(t, h) PROVE FlightInv'
  BY <1>11 DEF ScanOne
<1>12. ASSUME NEW t \in Callers, Index(t) PROVE FlightInv'
  BY <1>12 DEF Index
<1>13. ASSUME NEW t \in Callers, Insert(t) PROVE FlightInv'
  <2>1. [id |-> call[t].id, seen |-> call[t].seen, lost |-> call[t].lost] \in Ctx
    BY <1>13 DEF Insert, CallState, Ctx
  <2>2. FieldsOK'
    BY <1>13, <2>1 DEF Insert, Release
  <2>3. LockHeld'
    BY <1>13 DEF Insert, Release
  <2>4. WorkOnlyWhenMissing'
    BY <1>13 DEF Insert, Release
  <2>5. AnswerIsEntry'
    BY <1>13, <2>1 DEF Insert, Release
  <2> QED
    BY <2>2, <2>3, <2>4, <2>5
<1>14. ASSUME NEW t \in Callers, Return(t) PROVE FlightInv'
  BY <1>14 DEF Return, IdleCall
<1>15. ASSUME NEW t \in Callers, NEW names \in Posts, PostBegin(t, names) PROVE FlightInv'
  BY <1>15 DEF PostBegin, IdleCall
<1>16. ASSUME NEW t \in Callers, NEW c \in Cids, PostResolve(t, c) PROVE FlightInv'
  BY <1>16 DEF PostResolve
<1>17. ASSUME NEW t \in Callers, PostIndex(t) PROVE FlightInv'
  BY <1>17 DEF PostIndex, IdleCall
<1>18. ASSUME NEW t \in Callers, NEW h \in Hashes, BuildMiss(t, h) PROVE FlightInv'
  BY <1>18 DEF BuildMiss, IdleCall
<1>25. ASSUME NEW t \in Callers, BuildFetched(t) PROVE FlightInv'
  BY <1>25 DEF BuildFetched, IdleCall
<1>26. ASSUME NEW t \in Callers, BuildFetchFail(t) PROVE FlightInv'
  BY <1>26 DEF BuildFetchFail, IdleCall
<1>19. ASSUME NEW p \in Pointers, NEW i \in Ids, Redeploy(p, i) PROVE FlightInv'
  BY <1>19 DEF Redeploy
<1>20. CASE Restart
  BY <1>20 DEF Restart, IdleCall
<1>21. CASE UNCHANGED evars
  BY <1>21 DEF evars
<1> QED
  BY <1>1, <1>2, <1>3, <1>4, <1>5, <1>6, <1>7, <1>8, <1>9, <1>10, <1>11, <1>12, <1>13,
     <1>14, <1>15, <1>16, <1>17, <1>18, <1>19, <1>20, <1>21, <1>22, <1>23, <1>24, <1>25, <1>26
     DEF NextEntity, CtxStep, PostStep, FetchStep

-----------------------------------------------------------------------------
\* The tables agree when they are empty.
LEMMA InitTable == InitEntity => TableInv
  BY DEF InitEntity, TableInv, InsertIsIndexed, EntryIsIndexed, IndexSound, EntryIsNamed, IdleCall

\* Every step keeps the entry table and the hash index in agreement; Index,
\* which comes before Insert, is the step that matters.
LEMMA IndexStep == FlightInv /\ FlightInv' /\ TableInv /\ [NextEntity]_evars => TableInv'
<1> SUFFICES ASSUME FlightInv, FlightInv', TableInv, [NextEntity]_evars PROVE TableInv'
  OBVIOUS
<1> USE EntityCtxAssumption
        DEF FlightInv, TypeOK, FieldsOK, LockHeld, WorkOnlyWhenMissing, TableInv,
            InsertIsIndexed, EntryIsIndexed, IndexSound, IndexedOwnerDeploys, EntryIsNamed,
            InCall, Holding, Working
<1>1. ASSUME NEW t \in Callers, NEW c \in Cids, Call(t, c) PROVE TableInv'
  BY <1>1 DEF Call, IdleCall
<1>2. ASSUME NEW t \in Callers, Check(t) PROVE TableInv'
  BY <1>2 DEF Check
<1>3. ASSUME NEW t \in Callers, Lock(t) PROVE TableInv'
  BY <1>3 DEF Lock
<1>4. ASSUME NEW t \in Callers, RecheckHit(t) PROVE TableInv'
  BY <1>4 DEF RecheckHit, Release
<1>5. ASSUME NEW t \in Callers, RecheckMiss(t) PROVE TableInv'
  BY <1>5 DEF RecheckMiss
<1>6. ASSUME NEW t \in Callers, ResolveOk(t) PROVE TableInv'
  <2>1. InsertIsIndexed' /\ EntryIsIndexed' /\ IndexSound'
    BY <1>6 DEF ResolveOk
  <2>2. EntryIsNamed'
    <3>1. EntryIsNamed /\ \A c \in Ids : Resolved(c) = c
      BY DEF Resolved
    <3>2. /\ call'[t].id = Resolved(call[t].cid) /\ call'[t].cid = call[t].cid
          /\ \A u \in Callers \ {t} : call'[u] = call[u]
          /\ UNCHANGED entities
      BY <1>6 DEF ResolveOk
    <3> QED
      BY ONLY <3>1, <3>2 DEF EntryIsNamed
  <2> QED
    BY <2>1, <2>2
<1>7. ASSUME NEW t \in Callers, ResolveFail(t) PROVE TableInv'
  BY <1>7 DEF ResolveFail, Release
<1>8. ASSUME NEW t \in Callers, NEW h \in Hashes, EnsureHave(t, h) PROVE TableInv'
  BY <1>8 DEF EnsureHave
<1>9. ASSUME NEW t \in Callers, NEW h \in Hashes, EnsureMiss(t, h) PROVE TableInv'
  BY <1>9 DEF EnsureMiss
<1>22. ASSUME NEW t \in Callers, FetchOk(t) PROVE TableInv'
  BY <1>22 DEF FetchOk
<1>23. ASSUME NEW t \in Callers, FetchFail(t) PROVE TableInv'
  <2>1. \A u \in Callers : /\ call'[u].pc = call[u].pc /\ call'[u].cid = call[u].cid
                           /\ call'[u].id = call[u].id
    BY <1>23, FailsAlone
  <2> QED
    BY <1>23, <2>1, FailsAlone
<1>24. ASSUME NEW t \in Callers, NEW pc, OpenContent(t, pc) PROVE TableInv'
  BY <1>24 DEF OpenContent
<1>10. ASSUME NEW t \in Callers, BeginScan(t) PROVE TableInv'
  BY <1>10 DEF BeginScan
<1>11. ASSUME NEW t \in Callers, NEW h \in Hashes, ScanOne(t, h) PROVE TableInv'
  BY <1>11 DEF ScanOne
<1>12. ASSUME NEW t \in Callers, Index(t) PROVE TableInv'
  <2>1. \A h \in Hashes : hashIndex[h] # Nil => hashIndex'[h] # Nil
    BY <1>12 DEF Index
  <2>2. \A c \in Cids : entities[c] # Nil => Content[entities[c].id] \subseteq Hashes
    BY DEF Ctx
  <2>3. InsertIsIndexed'
    BY <1>12 DEF Index
  <2>4. EntryIsIndexed'
    BY <1>12, <2>1, <2>2 DEF Index
  <2>5. IndexSound'
    BY <1>12 DEF Index
  <2>6. EntryIsNamed'
    BY <1>12 DEF Index
  <2> QED
    BY <2>3, <2>4, <2>5, <2>6
<1>13. ASSUME NEW t \in Callers, Insert(t) PROVE TableInv'
  BY <1>13 DEF Insert, Release
<1>14. ASSUME NEW t \in Callers, Return(t) PROVE TableInv'
  BY <1>14 DEF Return, IdleCall
<1>15. ASSUME NEW t \in Callers, NEW names \in Posts, PostBegin(t, names) PROVE TableInv'
  BY <1>15 DEF PostBegin, IdleCall
<1>16. ASSUME NEW t \in Callers, NEW c \in Cids, PostResolve(t, c) PROVE TableInv'
  BY <1>16 DEF PostResolve
<1>17. ASSUME NEW t \in Callers, PostIndex(t) PROVE TableInv'
  <2>1. \A h \in Hashes : hashIndex[h] # Nil => hashIndex'[h] # Nil
    BY <1>17 DEF PostIndex, IdleCall
  <2>2. \A c \in Cids : entities[c] # Nil => Content[entities[c].id] \subseteq Hashes
    BY DEF Ctx
  <2>3. InsertIsIndexed'
    BY <1>17 DEF PostIndex, IdleCall
  <2>4. EntryIsIndexed'
    BY <1>17, <2>1, <2>2 DEF PostIndex, IdleCall
  <2>5. IndexSound'
    BY <1>17 DEF PostIndex, IdleCall
  <2>6. EntryIsNamed'
    BY <1>17 DEF PostIndex, IdleCall
  <2> QED
    BY <2>3, <2>4, <2>5, <2>6
<1>18. ASSUME NEW t \in Callers, NEW h \in Hashes, BuildMiss(t, h) PROVE TableInv'
  BY <1>18 DEF BuildMiss, IdleCall
<1>25. ASSUME NEW t \in Callers, BuildFetched(t) PROVE TableInv'
  BY <1>25 DEF BuildFetched, IdleCall
<1>26. ASSUME NEW t \in Callers, BuildFetchFail(t) PROVE TableInv'
  BY <1>26 DEF BuildFetchFail, IdleCall
<1>19. ASSUME NEW p \in Pointers, NEW i \in Ids, Redeploy(p, i) PROVE TableInv'
  BY <1>19 DEF Redeploy
<1>20. CASE Restart
  BY <1>20 DEF Restart, IdleCall
<1>21. CASE UNCHANGED evars
  BY <1>21 DEF evars
<1> QED
  BY <1>1, <1>2, <1>3, <1>4, <1>5, <1>6, <1>7, <1>8, <1>9, <1>10, <1>11, <1>12, <1>13,
     <1>14, <1>15, <1>16, <1>17, <1>18, <1>19, <1>20, <1>21, <1>22, <1>23, <1>24, <1>25, <1>26
     DEF NextEntity, CtxStep, PostStep, FetchStep

-----------------------------------------------------------------------------
\* No scan has missed a model when none has run.
LEMMA InitScan == InitEntity => ScanInv
  BY DEF InitEntity, ScanInv, EnsureLoop, ScanLoop, InsertSaw, EntryStored, ScanMissesOnlyLostOrTorn, IdleCall

\* Every step keeps the scan complete but for the lost fetches and the files
\* that two threads wrote at once: content is ensured before it is scanned, and
\* the store never loses a file.
LEMMA ScanStep == FlightInv /\ FlightInv' /\ ScanInv /\ [NextEntity]_evars => ScanInv'
<1> SUFFICES ASSUME FlightInv, FlightInv', ScanInv, [NextEntity]_evars PROVE ScanInv'
  OBVIOUS
<1> USE EntityCtxAssumption
        DEF FlightInv, TypeOK, FieldsOK, ScanInv, EnsureLoop, ScanLoop, InsertSaw,
            EntryStored, ScanMissesOnlyLostOrTorn, InCall, Holding, Working
<1>1. ASSUME NEW t \in Callers, NEW c \in Cids, Call(t, c) PROVE ScanInv'
  BY <1>1 DEF Call, IdleCall
<1>2. ASSUME NEW t \in Callers, Check(t) PROVE ScanInv'
  BY <1>2 DEF Check
<1>3. ASSUME NEW t \in Callers, Lock(t) PROVE ScanInv'
  BY <1>3 DEF Lock
<1>4. ASSUME NEW t \in Callers, RecheckHit(t) PROVE ScanInv'
  BY <1>4 DEF RecheckHit, Release
<1>5. ASSUME NEW t \in Callers, RecheckMiss(t) PROVE ScanInv'
  BY <1>5 DEF RecheckMiss
<1>6. ASSUME NEW t \in Callers, ResolveOk(t) PROVE ScanInv'
  BY <1>6 DEF ResolveOk
<1>7. ASSUME NEW t \in Callers, ResolveFail(t) PROVE ScanInv'
  BY <1>7 DEF ResolveFail, Release
<1>8. ASSUME NEW t \in Callers, NEW h \in Hashes, EnsureHave(t, h) PROVE ScanInv'
  BY <1>8 DEF EnsureHave
<1>9. ASSUME NEW t \in Callers, NEW h \in Hashes, EnsureMiss(t, h) PROVE ScanInv'
  BY <1>9 DEF EnsureMiss
<1>22. ASSUME NEW t \in Callers, FetchOk(t) PROVE ScanInv'
  BY <1>22 DEF FetchOk
<1>23. ASSUME NEW t \in Callers, FetchFail(t) PROVE ScanInv'
  BY <1>23, FailsAlone
<1>24. ASSUME NEW t \in Callers, NEW pc, OpenContent(t, pc) PROVE ScanInv'
  BY <1>24 DEF OpenContent
<1>10. ASSUME NEW t \in Callers, BeginScan(t) PROVE ScanInv'
  BY <1>10 DEF BeginScan
<1>11. ASSUME NEW t \in Callers, NEW h \in Hashes, ScanOne(t, h) PROVE ScanInv'
  BY <1>11 DEF ScanOne
<1>12. ASSUME NEW t \in Callers, Index(t) PROVE ScanInv'
  BY <1>12 DEF Index
<1>13. ASSUME NEW t \in Callers, Insert(t) PROVE ScanInv'
  BY <1>13 DEF Insert, Release
<1>14. ASSUME NEW t \in Callers, Return(t) PROVE ScanInv'
  BY <1>14 DEF Return, IdleCall
<1>15. ASSUME NEW t \in Callers, NEW names \in Posts, PostBegin(t, names) PROVE ScanInv'
  BY <1>15 DEF PostBegin, IdleCall
<1>16. ASSUME NEW t \in Callers, NEW c \in Cids, PostResolve(t, c) PROVE ScanInv'
  BY <1>16 DEF PostResolve
<1>17. ASSUME NEW t \in Callers, PostIndex(t) PROVE ScanInv'
  BY <1>17 DEF PostIndex, IdleCall
<1>18. ASSUME NEW t \in Callers, NEW h \in Hashes, BuildMiss(t, h) PROVE ScanInv'
  BY <1>18 DEF BuildMiss, IdleCall
<1>25. ASSUME NEW t \in Callers, BuildFetched(t) PROVE ScanInv'
  BY <1>25 DEF BuildFetched, IdleCall
<1>26. ASSUME NEW t \in Callers, BuildFetchFail(t) PROVE ScanInv'
  BY <1>26 DEF BuildFetchFail, IdleCall
<1>19. ASSUME NEW p \in Pointers, NEW i \in Ids, Redeploy(p, i) PROVE ScanInv'
  BY <1>19 DEF Redeploy
<1>20. CASE Restart
  BY <1>20 DEF Restart, IdleCall
<1>21. CASE UNCHANGED evars
  BY <1>21 DEF evars
<1> QED
  BY <1>1, <1>2, <1>3, <1>4, <1>5, <1>6, <1>7, <1>8, <1>9, <1>10, <1>11, <1>12, <1>13,
     <1>14, <1>15, <1>16, <1>17, <1>18, <1>19, <1>20, <1>21, <1>22, <1>23, <1>24, <1>25, <1>26
     DEF NextEntity, CtxStep, PostStep, FetchStep

-----------------------------------------------------------------------------
\* The inductive invariant of the specification.
LEMMA Invariants == SpecEntity => [](FlightInv /\ TableInv /\ ScanInv)
<1>1. InitEntity => FlightInv /\ TableInv /\ ScanInv
  BY InitFlight, InitTable, InitScan
<1>2. FlightInv /\ TableInv /\ ScanInv /\ [NextEntity]_evars
      => (FlightInv /\ TableInv /\ ScanInv)'
  BY FlightStep, IndexStep, ScanStep
<1> QED
  BY <1>1, <1>2, PTL DEF SpecEntity

\* Every variable of entity_ctx keeps its type, so no reader of the tables
\* finds an owner or an entry that is not one.
THEOREM TypeCorrect == SpecEntity => []TypeOK
<1>1. FlightInv => TypeOK
  BY DEF FlightInv
<1> QED
  BY <1>1, Invariants, PTL

\* The entity lock makes the fill of an entry single-flight: no two threads
\* are ever past the lock for the same entity.
THEOREM OneFillAtATime == SpecEntity => []SingleFlight
<1>1. FlightInv => SingleFlight
  BY DEF FlightInv, LockHeld, SingleFlight
<1> QED
  BY <1>1, Invariants, PTL

\* A fill is only worked on while the entry is missing, and a call that
\* succeeds returns the entry: the two look-ups around the lock do their job.
THEOREM FillOnceReturnEntry == SpecEntity => [](WorkOnlyWhenMissing /\ AnswerIsEntry)
<1>1. FlightInv => WorkOnlyWhenMissing /\ AnswerIsEntry
  BY DEF FlightInv
<1> QED
  BY <1>1, Invariants, PTL

\* Following the hash index leads to an entity that deploys the hash, and a
\* visible entry has all its hashes indexed.
THEOREM IndexCorrect == SpecEntity => []IndexAgrees
<1>1. TableInv => IndexAgrees
  BY DEF TableInv, IndexAgrees
<1> QED
  BY <1>1, Invariants, PTL

\* No model of an entity is missing from its scan for another reason than that
\* its own fetch failed, or that another thread was writing the same file.
THEOREM ScanCorrect == SpecEntity => []ScanMissesOnlyLostOrTorn
<1>1. ScanInv => ScanMissesOnlyLostOrTorn
  BY DEF ScanInv
<1> QED
  BY <1>1, Invariants, PTL

-----------------------------------------------------------------------------
\* Nothing recorded is changed: what the threads inside entity_ctx and the POST
\* handler leave, and with them every step but a restart.
RecordsKept ==
  /\ \A c \in Cids : entities[c] # Nil => entities'[c] = entities[c]
  /\ \A h \in Hashes : hashIndex[h] # Nil => hashIndex'[h] = hashIndex[h]

LEMMA ThreadsKeepRecords ==
  ASSUME FlightInv, NEW t \in Callers, CtxStep(t) \/ PostStep(t)
  PROVE  RecordsKept
<1>1. CASE Index(t)
  BY <1>1 DEF Index, RecordsKept
<1>2. CASE PostIndex(t)
  BY <1>2 DEF PostIndex, RecordsKept
<1>3. CASE Insert(t)
  BY <1>3 DEF Insert, FlightInv, TypeOK, WorkOnlyWhenMissing, Working, RecordsKept
<1>4. CASE UNCHANGED <<entities, hashIndex>>
  BY <1>4 DEF RecordsKept
<1>5. Index(t) \/ PostIndex(t) \/ Insert(t) \/ UNCHANGED <<entities, hashIndex>>
  BY DEF CtxStep, PostStep, Check, Lock, RecheckHit, RecheckMiss, ResolveOk, ResolveFail,
         EnsureHave, EnsureMiss, OpenContent, FetchOk, FetchFail, BeginScan, ScanOne, PostResolve
<1> QED
  BY <1>1, <1>2, <1>3, <1>4, <1>5

\* Content that is in the store stays there, restarts included, and so does what
\* is known of a file that two threads wrote at once.
LEMMA StoreGrows == [NextEntity]_evars => store \subseteq store' /\ torn \subseteq torn'
<1> SUFFICES ASSUME [NextEntity]_evars PROVE store \subseteq store' /\ torn \subseteq torn'
  OBVIOUS
<1>1. ASSUME NEW t \in Callers, CtxStep(t) \/ PostStep(t) \/ FetchStep(t)
      PROVE  store \subseteq store' /\ torn \subseteq torn'
  BY <1>1 DEF CtxStep, PostStep, FetchStep, Check, Lock, RecheckHit, RecheckMiss, ResolveOk,
              ResolveFail, EnsureHave, EnsureMiss, OpenContent, FetchOk, FetchFail, BeginScan,
              ScanOne, Index, Insert, PostResolve, PostIndex, BuildFetched, BuildFetchFail
<1>2. ASSUME NEW t \in Callers,
             Return(t) \/ (\E c \in Cids : Call(t, c)) \/ (\E names \in Posts : PostBegin(t, names))
               \/ (\E h \in Hashes : BuildMiss(t, h))
      PROVE  store \subseteq store' /\ torn \subseteq torn'
  BY <1>2 DEF Return, Call, PostBegin, BuildMiss
<1>3. ASSUME \/ \E p \in Pointers, i \in Ids : Redeploy(p, i)
             \/ Restart
             \/ UNCHANGED evars
      PROVE  store \subseteq store' /\ torn \subseteq torn'
  BY <1>3 DEF Redeploy, Restart, evars
<1> QED
  BY <1>1, <1>2, <1>3 DEF NextEntity

\* Entries and owners, once recorded, stay until the process restarts.
THEOREM StableUntilRestart == SpecEntity => EntriesAndOwnersStable
<1>1. ASSUME FlightInv, [NextEntity]_evars PROVE Restart \/ RecordsKept \/ UNCHANGED evars
  <2>1. ASSUME NEW t \in Callers, CtxStep(t) \/ PostStep(t) PROVE RecordsKept
    BY <1>1, <2>1, ThreadsKeepRecords
  <2>2. ASSUME NEW t \in Callers,
               Return(t) \/ (\E c \in Cids : Call(t, c))
                 \/ (\E names \in Posts : PostBegin(t, names))
                 \/ (\E h \in Hashes : BuildMiss(t, h))
        PROVE RecordsKept
    BY <2>2 DEF Return, Call, PostBegin, BuildMiss, RecordsKept
  <2>3. ASSUME NEW t \in Callers, FetchStep(t) PROVE RecordsKept
    BY <2>3 DEF FetchStep, OpenContent, BuildFetched, BuildFetchFail, RecordsKept
  <2>4. ASSUME \E p \in Pointers, i \in Ids : Redeploy(p, i) PROVE RecordsKept
    BY <2>4 DEF Redeploy, RecordsKept
  <2> QED
    BY <1>1, <2>1, <2>2, <2>3, <2>4 DEF NextEntity
<1>2. SpecEntity => []FlightInv
  BY Invariants, PTL
<1>3. ASSUME FlightInv, [NextEntity]_evars
      PROVE  \/ Restart
             \/ /\ \A c \in Cids : entities[c] # Nil => entities'[c] = entities[c]
                /\ \A h \in Hashes : hashIndex[h] # Nil => hashIndex'[h] = hashIndex[h]
             \/ UNCHANGED evars
  BY <1>1, <1>3 DEF RecordsKept
<1> QED
  BY <1>2, <1>3, PTL DEF SpecEntity, EntriesAndOwnersStable

-----------------------------------------------------------------------------
\* entity_ctx implements the single-flight memo table for any number of
\* threads and entities: every step is a step of the table or leaves it alone.
THEOREM RefinesMemo == SpecEntity => ImplementsMemo
<1>1. InitEntity => Memo!Init
  BY DEF InitEntity, Memo!Init, MemoAnswer, Memo!Idle, IdleCall, InCall, Holding, Working
<1>2. ASSUME FlightInv, FlightInv', [NextEntity]_evars PROVE [Memo!Next]_(Memo!mvars)
  <2> USE <1>2, EntityCtxAssumption
          DEF MemoAnswer, FlightInv, TypeOK, FieldsOK, WorkOnlyWhenMissing, AnswerIsEntry,
              InCall, Holding, Working, Memo!mvars
  <2>1. ASSUME NEW t \in Callers, NEW c \in Cids, Call(t, c)
        PROVE Memo!Begin(t, c)
    <3>1. MemoAnswer(t) = Memo!Idle /\ MemoAnswer(t)' = Memo!Busy(c)
      BY <2>1 DEF Call, IdleCall, Memo!Busy, Memo!Idle
    <3>2. UNCHANGED entities /\ \A u \in Callers \ {t} : MemoAnswer(u)' = MemoAnswer(u)
      BY <2>1 DEF Call
    <3>3. [u \in Callers |-> MemoAnswer(u)]'
            = [[u \in Callers |-> MemoAnswer(u)] EXCEPT ![t] = Memo!Busy(c)]
      <4> HIDE DEF InCall
      <4> QED
        BY ONLY <3>1, <3>2, t \in Callers DEF MemoAnswer
    <3> QED
      BY ONLY <3>1, <3>2, <3>3, t \in Callers DEF Memo!Begin
  <2>2. ASSUME NEW t \in Callers, Check(t)
        PROVE Memo!Hit(t, call[t].cid) \/ UNCHANGED Memo!mvars
    <3>1. CASE entities[call[t].cid] = Nil
      BY <2>2, <3>1 DEF Check
    <3>2. CASE entities[call[t].cid] # Nil
      <4>1. [u \in Callers |-> MemoAnswer(u)][t] = Memo!Busy(call[t].cid)
        BY <2>2, <3>2 DEF Check, Memo!Busy
      <4>2. MemoAnswer(t)' = Memo!Ok(call[t].cid, entities[call[t].cid])
        BY <2>2, <3>2 DEF Check, Memo!Ok
      <4>3. \A u \in Callers \ {t} : MemoAnswer(u)' = MemoAnswer(u)
        BY <2>2, <3>2 DEF Check
      <4>4. [u \in Callers |-> MemoAnswer(u)]'
              = [[u \in Callers |-> MemoAnswer(u)] EXCEPT ![t] = Memo!Ok(call[t].cid, entities[call[t].cid])]
        BY ONLY <4>2, <4>3, t \in Callers DEF MemoAnswer
      <4> QED
        BY <2>2, <3>2, <4>1, <4>4 DEF Check, Memo!Hit
    <3> QED
      BY <3>1, <3>2
  <2>3. ASSUME NEW t \in Callers, Lock(t)
        PROVE UNCHANGED Memo!mvars
    BY <2>3 DEF Lock
  <2>4. ASSUME NEW t \in Callers, RecheckHit(t)
        PROVE Memo!Hit(t, call[t].cid)
    <3>1. [u \in Callers |-> MemoAnswer(u)][t] = Memo!Busy(call[t].cid)
      BY <2>4 DEF RecheckHit, Memo!Busy
    <3>2. MemoAnswer(t)' = Memo!Ok(call[t].cid, entities[call[t].cid])
      BY <2>4 DEF RecheckHit, Memo!Ok
    <3>3. \A u \in Callers \ {t} : MemoAnswer(u)' = MemoAnswer(u)
      BY <2>4 DEF RecheckHit
    <3>4. [u \in Callers |-> MemoAnswer(u)]'
            = [[u \in Callers |-> MemoAnswer(u)] EXCEPT ![t] = Memo!Ok(call[t].cid, entities[call[t].cid])]
      BY ONLY <3>2, <3>3, t \in Callers DEF MemoAnswer
    <3> QED
      BY <2>4, <3>1, <3>4 DEF RecheckHit, Memo!Hit
  <2>5. ASSUME NEW t \in Callers, RecheckMiss(t)
        PROVE UNCHANGED Memo!mvars
    BY <2>5 DEF RecheckMiss
  <2>6. ASSUME NEW t \in Callers, ResolveOk(t)
        PROVE UNCHANGED Memo!mvars
    BY <2>6 DEF ResolveOk
  <2>7. ASSUME NEW t \in Callers, ResolveFail(t)
        PROVE Memo!Fail(t, call[t].cid)
    <3>1. [u \in Callers |-> MemoAnswer(u)][t] = Memo!Busy(call[t].cid)
      BY <2>7 DEF ResolveFail, Memo!Busy
    <3>2. MemoAnswer(t)' = Memo!Err(call[t].cid)
      BY <2>7 DEF ResolveFail, Memo!Err
    <3>3. \A u \in Callers \ {t} : MemoAnswer(u)' = MemoAnswer(u)
      BY <2>7 DEF ResolveFail
    <3>4. [u \in Callers |-> MemoAnswer(u)]'
            = [[u \in Callers |-> MemoAnswer(u)] EXCEPT ![t] = Memo!Err(call[t].cid)]
      BY ONLY <3>2, <3>3, t \in Callers DEF MemoAnswer
    <3> QED
      BY <2>7, <3>1, <3>4 DEF ResolveFail, Memo!Fail
  <2>8. ASSUME NEW t \in Callers, NEW h \in Hashes, EnsureHave(t, h)
        PROVE UNCHANGED Memo!mvars
    BY <2>8 DEF EnsureHave
  <2>9. ASSUME NEW t \in Callers, NEW h \in Hashes, EnsureMiss(t, h)
        PROVE UNCHANGED Memo!mvars
    BY <2>9 DEF EnsureMiss
  <2>25. ASSUME NEW t \in Callers, FetchOk(t) PROVE UNCHANGED Memo!mvars
    BY <2>25 DEF FetchOk
  <2>26. ASSUME NEW t \in Callers, FetchFail(t) PROVE UNCHANGED Memo!mvars
    BY <2>26, FailsAlone
  <2>27. ASSUME NEW t \in Callers, NEW pc, OpenContent(t, pc) PROVE UNCHANGED Memo!mvars
    BY <2>27 DEF OpenContent
  <2>10. ASSUME NEW t \in Callers, BeginScan(t)
        PROVE UNCHANGED Memo!mvars
    BY <2>10 DEF BeginScan
  <2>11. ASSUME NEW t \in Callers, NEW h \in Hashes, ScanOne(t, h)
        PROVE UNCHANGED Memo!mvars
    BY <2>11 DEF ScanOne
  <2>12. ASSUME NEW t \in Callers, Index(t)
        PROVE UNCHANGED Memo!mvars
    BY <2>12 DEF Index
  <2>13. ASSUME NEW t \in Callers, Insert(t)
        PROVE Memo!Fill(t, call[t].cid)
    <3>1. [u \in Callers |-> MemoAnswer(u)][t] = Memo!Busy(call[t].cid)
      BY <2>13 DEF Insert, Memo!Busy
    <3>2. MemoAnswer(t)' = Memo!Ok(call[t].cid, entities'[call[t].cid])
      BY <2>13 DEF Insert, Memo!Ok
    <3>3. \A u \in Callers \ {t} : MemoAnswer(u)' = MemoAnswer(u)
      BY <2>13 DEF Insert
    <3>4. [u \in Callers |-> MemoAnswer(u)]'
            = [[u \in Callers |-> MemoAnswer(u)] EXCEPT ![t] = Memo!Ok(call[t].cid, entities'[call[t].cid])]
      BY ONLY <3>2, <3>3, t \in Callers DEF MemoAnswer
    <3> QED
      BY <2>13, <3>1, <3>4 DEF Insert, Memo!Fill, Ctx, CallState
  <2>14. ASSUME NEW t \in Callers, Return(t)
        PROVE Memo!End(t)
    <3>1. call[t].pc \in {"ok", "err"} /\ call'[t] = IdleCall /\ UNCHANGED entities
      BY <2>14 DEF Return
    <3>2. MemoAnswer(t).st \in {"ok", "err"}
      BY ONLY <3>1 DEF MemoAnswer, InCall, Holding, Working
    <3>3. MemoAnswer(t)' = Memo!Idle
      BY ONLY <3>1 DEF MemoAnswer, IdleCall, InCall, Holding, Working, Memo!Idle
    <3>4. \A u \in Callers \ {t} : MemoAnswer(u)' = MemoAnswer(u)
      BY <2>14 DEF Return
    <3>5. [u \in Callers |-> MemoAnswer(u)]'
            = [[u \in Callers |-> MemoAnswer(u)] EXCEPT ![t] = Memo!Idle]
      <4> HIDE DEF InCall
      <4> QED
        BY ONLY <3>3, <3>4, t \in Callers DEF MemoAnswer, Memo!Idle
    <3> QED
      BY ONLY <3>1, <3>2, <3>5, t \in Callers DEF Memo!End
  <2>15. ASSUME NEW t \in Callers, NEW names \in Posts, PostBegin(t, names)
        PROVE UNCHANGED Memo!mvars
    BY <2>15 DEF PostBegin, IdleCall
  <2>16. ASSUME NEW t \in Callers, NEW c \in Cids, PostResolve(t, c)
        PROVE UNCHANGED Memo!mvars
    BY <2>16 DEF PostResolve
  <2>17. ASSUME NEW t \in Callers, PostIndex(t)
        PROVE UNCHANGED Memo!mvars
    BY <2>17 DEF PostIndex, IdleCall
  <2>18. ASSUME NEW t \in Callers, NEW h \in Hashes, BuildMiss(t, h)
        PROVE UNCHANGED Memo!mvars
    BY <2>18 DEF BuildMiss, IdleCall
  <2>28. ASSUME NEW t \in Callers, BuildFetched(t) PROVE UNCHANGED Memo!mvars
    BY <2>28 DEF BuildFetched, IdleCall
  <2>29. ASSUME NEW t \in Callers, BuildFetchFail(t) PROVE UNCHANGED Memo!mvars
    BY <2>29 DEF BuildFetchFail, IdleCall
  <2>19. ASSUME NEW p \in Pointers, NEW i \in Ids, Redeploy(p, i)
        PROVE UNCHANGED Memo!mvars
    BY <2>19 DEF Redeploy
  <2>20. ASSUME Restart PROVE Memo!Reset
    BY <2>20 DEF Restart, IdleCall, Memo!Reset, Memo!Idle
  <2>21. ASSUME UNCHANGED evars PROVE UNCHANGED Memo!mvars
    BY <2>21 DEF evars
  <2>22. \A t \in Callers : call[t].pc \in InCall => call[t].cid \in Cids
    OBVIOUS
  <2> HIDE DEF MemoAnswer, FlightInv
  <2>23. ASSUME NEW t \in Callers, CtxStep(t)
         PROVE (\E k \in Cids : Memo!Fill(t, k) \/ Memo!Hit(t, k) \/ Memo!Fail(t, k))
                 \/ UNCHANGED Memo!mvars
    <3>1. CASE Check(t) \/ RecheckHit(t) \/ ResolveFail(t) \/ Insert(t)
      <4>1. call[t].cid \in Cids
        BY <3>1, <2>22 DEF Check, RecheckHit, ResolveFail, Insert
      <4> QED
        BY ONLY <3>1, <4>1, <2>2, <2>4, <2>7, <2>13, t \in Callers
    <3>2. CASE Lock(t) \/ RecheckMiss(t) \/ ResolveOk(t) \/ BeginScan(t) \/ Index(t)
      BY ONLY <3>2, <2>3, <2>5, <2>6, <2>10, <2>12, t \in Callers
    <3>3. CASE \E h \in Hashes : EnsureHave(t, h) \/ EnsureMiss(t, h) \/ ScanOne(t, h)
      BY ONLY <3>3, <2>8, <2>9, <2>11, t \in Callers
    <3>4. CASE OpenContent(t, "ensure") \/ FetchOk(t) \/ FetchFail(t)
      BY ONLY <3>4, <2>25, <2>26, <2>27, t \in Callers
    <3> QED
      BY ONLY <2>23, <3>1, <3>2, <3>3, <3>4 DEF CtxStep
  <2>24. ASSUME NEW t \in Callers, PostStep(t) PROVE UNCHANGED Memo!mvars
    BY ONLY <2>24, <2>16, <2>17, t \in Callers DEF PostStep
  <2>30. ASSUME NEW t \in Callers, FetchStep(t) PROVE UNCHANGED Memo!mvars
    BY ONLY <2>30, <2>27, <2>28, <2>29, t \in Callers DEF FetchStep
  <2> QED
    BY ONLY <1>2, <2>1, <2>14, <2>15, <2>18, <2>19, <2>20, <2>21, <2>23, <2>24, <2>30
       DEF NextEntity, Memo!Next
<1>3. SpecEntity => []FlightInv
  BY Invariants, PTL
<1> QED
  BY <1>1, <1>2, <1>3, PTL DEF SpecEntity, ImplementsMemo, Memo!Spec

-----------------------------------------------------------------------------
\* The request path, which uses the table.

HttpState == [st : HttpPcs, key : Keys \cup {Nil}, reply : Reply]
JobState  == [st : JobPcs, ctx : Ctx \cup {Nil}, hops : Nat, data : File \cup {Nil}]

ServeTypes ==
  /\ http \in [Callers -> HttpState]
  /\ job \in [Callers -> JobState]
  /\ bundleLock \in [Keys -> Callers \cup {Nil}]
  /\ cache \in [Keys -> File \cup {Nil}]
  /\ tmp \in [Keys -> {Nil, "part", "whole"}]
  /\ space \in [Keys -> File \cup {Nil}]
  /\ warm \subseteq Cids

\* How far a connection has got says how far its worker and its call can have.
Phases ==
  \A r \in Callers :
    /\ http[r].st \in {"new", "probe", "manifest", "post"} => job[r].st = "none"
    /\ http[r].st = "failed" => job[r].st = "sent" /\ job[r].data = Nil
    /\ http[r].st \in {"probe", "wait", "failed", "timedout", "block"} => http[r].key \in Keys
    /\ http[r].st # "done" => http[r].reply = NoReply
    /\ job[r].st # "none" => http[r].key \in Keys
    /\ job[r].st \in {"none", "probe", "lock", "recheck"} => job[r].hops = 0
    /\ job[r].st \in {"none", "probe", "lock", "recheck", "ctx", "find", "ensure", "fetch", "build"}
         => job[r].data = Nil
    /\ job[r].st \in {"write", "writing", "rename", "put", "putmanifest"} => job[r].data # Nil
    /\ job[r].st \in {"find", "ensure", "fetch", "build"} => job[r].ctx # Nil
    /\ http[r].st = "manifest" \/ job[r].st = "ctx" => call[r].pc \in InCall \cup {"ok", "err"}

CallersInv == ServeTypes /\ Phases

-----------------------------------------------------------------------------
\* The request path starts in its types.
LEMMA InitCallers == Init => CallersInv
<1> SUFFICES ASSUME Init PROVE CallersInv
  OBVIOUS
<1> USE EntityCtxAssumption, ServeAssumption DEF Init
<1>1. NoReply \in Reply
  BY DEF NoReply, Reply, Sources
<1>2. NewHttp \in HttpState
  BY <1>1 DEF NewHttp, HttpState, HttpPcs
<1>3. NoJob \in JobState
  BY DEF NoJob, JobState, JobPcs
<1>4. \A k \in Keys : OldFile(k) \in File
  BY DEF OldFile, File, Keys
<1>5. ServeTypes
  BY <1>2, <1>3, <1>4 DEF ServeTypes
<1>6. Phases
  BY DEF Phases, NewHttp, NoJob
<1> QED
  BY <1>5, <1>6 DEF CallersInv

\* What the handlers and the workers assign to a state leaves it well-formed.
LEMMA HttpMoves ==
  /\ \A x \in HttpState, s \in HttpPcs : [x EXCEPT !.st = s] \in HttpState
  /\ \A x \in HttpState, s \in HttpPcs, k \in Keys : [x EXCEPT !.st = s, !.key = k] \in HttpState
  /\ \A x \in HttpState, y \in Reply : [x EXCEPT !.st = "done", !.reply = y] \in HttpState
<1>1. \A x \in HttpState, s \in HttpPcs : [x EXCEPT !.st = s] \in HttpState
  BY DEF HttpState
<1>2. \A x \in HttpState, s \in HttpPcs, k \in Keys : [x EXCEPT !.st = s, !.key = k] \in HttpState
  BY DEF HttpState
<1>3. \A x \in HttpState, y \in Reply : [x EXCEPT !.st = "done", !.reply = y] \in HttpState
  BY DEF HttpState, HttpPcs
<1> QED
  BY <1>1, <1>2, <1>3

LEMMA JobMoves ==
  /\ \A x \in JobState, s \in JobPcs : [x EXCEPT !.st = s] \in JobState
  /\ \A x \in JobState, s \in JobPcs, d \in File \cup {Nil} :
       [x EXCEPT !.st = s, !.data = d] \in JobState
  /\ \A x \in JobState, s \in JobPcs, c \in Ctx : [x EXCEPT !.st = s, !.ctx = c] \in JobState
  /\ \A x \in JobState, s \in JobPcs : [x EXCEPT !.st = s, !.hops = @ + 1] \in JobState
<1>1. \A x \in JobState, s \in JobPcs : [x EXCEPT !.st = s] \in JobState
  BY DEF JobState
<1>2. \A x \in JobState, s \in JobPcs, d \in File \cup {Nil} :
        [x EXCEPT !.st = s, !.data = d] \in JobState
  BY DEF JobState
<1>3. \A x \in JobState, s \in JobPcs, c \in Ctx : [x EXCEPT !.st = s, !.ctx = c] \in JobState
  BY DEF JobState
<1>4. ASSUME NEW x \in JobState, NEW s \in JobPcs
      PROVE [x EXCEPT !.st = s, !.hops = @ + 1] \in JobState
  <2>1. \A n \in Nat : [x EXCEPT !.st = s, !.hops = n] \in JobState
    BY DEF JobState
  <2>2. x.hops + 1 \in Nat
    BY DEF JobState
  <2> QED
    BY <2>1, <2>2
<1> QED
  BY <1>1, <1>2, <1>3, <1>4

\* So does every answer.
Replies(r) == \E y \in Reply : http' = [http EXCEPT ![r].st = "done", ![r].reply = y]

LEMMA AnswerTyped ==
  ASSUME ServeTypes, NEW r \in Callers, Replies(r)
  PROVE  http' \in [Callers -> HttpState]
<1>1. PICK y \in Reply : http' = [http EXCEPT ![r].st = "done", ![r].reply = y]
  BY DEF Replies
<1>2. [http[r] EXCEPT !.st = "done", !.reply = y] \in HttpState
  BY DEF ServeTypes, HttpState, HttpPcs
<1> QED
  BY <1>1, <1>2 DEF ServeTypes

\* An answer ends the connection and changes nothing else.
Replied(r, y) == http' = [http EXCEPT ![r].st = "done", ![r].reply = y]

LEMMA AnswerIs ==
  ASSUME ServeTypes, NEW r \in Callers, NEW y, Replied(r, y)
  PROVE  /\ http'[r].st = "done" /\ http'[r].key = http[r].key
         /\ http'[r].reply = y
         /\ \A q \in Callers \ {r} : http'[q] = http[q]
         /\ \A q \in Callers : http'[q].key = http[q].key
<1>1. http'[r] = [http[r] EXCEPT !.st = "done", !.reply = y] /\ http[r] \in HttpState
  BY DEF ServeTypes, Replied
<1>2. http'[r].st = "done" /\ http'[r].key = http[r].key /\ http'[r].reply = y
  BY <1>1 DEF HttpState
<1>3. \A q \in Callers \ {r} : http'[q] = http[q]
  BY DEF ServeTypes, Replied
<1> QED
  BY <1>2, <1>3

\* The key of a running request, and what the disk cache and the space have for it.
LEMMA KeysTyped ==
  ASSUME CallersInv, NEW r \in Callers,
         http[r].st \in {"probe", "wait", "failed", "timedout", "block"} \/ job[r].st # "none"
  PROVE  /\ http[r].key \in Keys
         /\ http[r].key[1] \in Cids /\ http[r].key[2] \in Hashes
         /\ cache[http[r].key] \in File \cup {Nil}
         /\ space[http[r].key] \in File \cup {Nil}
         /\ job[r].data \in File \cup {Nil}
         /\ Fallback(http[r].key) \in File \cup {Nil}
<1>1. http[r].key \in Keys
  BY DEF CallersInv, Phases
<1>2. http[r].key[1] \in Cids /\ http[r].key[2] \in Hashes
  BY <1>1 DEF Keys
<1>3. OldFile(http[r].key) \in File
  BY <1>2 DEF OldFile, File
<1>4. job[r].data \in File \cup {Nil}
  BY DEF CallersInv, ServeTypes, JobState
<1> QED
  BY <1>1, <1>2, <1>3, <1>4 DEF CallersInv, ServeTypes, Fallback

\* What the branching steps of a handler do to the connections.
OnlyHttp(r) == \A q \in Callers \ {r} : http'[q] = http[q]

ReplyIs(r, code, from, file) ==
  /\ http'[r].reply.code = code /\ http'[r].reply.from = from /\ http'[r].reply.file = file

LEMMA FlatRouted ==
  ASSUME ServeTypes, NEW r \in Callers, NEW a \in Asks, RouteFlat(r, a)
  PROVE  /\ OnlyHttp(r) /\ http[r].st = "new"
         /\ \/ http'[r].st = "done" /\ http'[r].key = http[r].key
               /\ ReplyIs(r, 404, "unknown-asset", Nil)
            \/ http'[r].st = "probe" /\ http'[r].reply = http[r].reply
<1>1. CASE hashIndex[a.hash] = Nil
  <2>1. PICK y : Replied(r, y) /\ y = [code |-> 404, from |-> "unknown-asset", file |-> Nil]
    BY <1>1 DEF RouteFlat, Answer, Replied
  <2>r. Replied(r, y)
    BY <2>1
  <2>2. /\ http'[r].st = "done" /\ http'[r].key = http[r].key /\ http'[r].reply = y
        /\ \A q \in Callers \ {r} : http'[q] = http[q]
    BY <2>r, AnswerIs
  <2> QED
    BY <1>1, <2>1, <2>2 DEF OnlyHttp, ReplyIs, RouteFlat
<1>2. CASE hashIndex[a.hash] # Nil
  <2>1. http' = [http EXCEPT ![r].st = "probe", ![r].key = <<hashIndex[a.hash], a.hash>>]
    BY <1>2 DEF RouteFlat
  <2>2. http[r].st = "new"
    BY DEF RouteFlat
  <2> QED
    BY <2>1, <2>2 DEF ServeTypes, HttpState, OnlyHttp
<1> QED
  BY <1>1, <1>2

LEMMA ManifestGone ==
  ASSUME ServeTypes, NEW r \in Callers, ManifestErr(r)
  PROVE  /\ OnlyHttp(r) /\ http'[r].st = "done" /\ http'[r].key = http[r].key
         /\ http'[r].reply.code # 500 /\ http'[r].reply.file = Nil
         /\ http'[r].reply.from \in {"manifest-from-space", "unknown-entity"}
<1>1. CASE Answer(r, 200, "manifest-from-space", Nil)
  <2>1. PICK y : Replied(r, y) /\ y = [code |-> 200, from |-> "manifest-from-space", file |-> Nil]
    BY <1>1 DEF ManifestErr, Answer, Replied
  <2>r. Replied(r, y)
    BY <2>1
  <2>2. /\ http'[r].st = "done" /\ http'[r].key = http[r].key /\ http'[r].reply = y
        /\ \A q \in Callers \ {r} : http'[q] = http[q]
    BY <2>r, AnswerIs
  <2>y. y = [code |-> 200, from |-> "manifest-from-space", file |-> Nil]
    BY <2>1
  <2>3. y.code # 500
    BY <2>y
  <2>5. y.file = Nil
    BY <2>y
  <2>4. y.from \in {"manifest-from-space", "unknown-entity"}
    BY <2>1
  <2> QED
    BY <2>2, <2>3, <2>4, <2>5 DEF OnlyHttp, ReplyIs
<1>2. CASE Answer(r, 404, "unknown-entity", Nil)
  <2>1. PICK y : Replied(r, y) /\ y = [code |-> 404, from |-> "unknown-entity", file |-> Nil]
    BY <1>2 DEF ManifestErr, Answer, Replied
  <2>r. Replied(r, y)
    BY <2>1
  <2>2. /\ http'[r].st = "done" /\ http'[r].key = http[r].key /\ http'[r].reply = y
        /\ \A q \in Callers \ {r} : http'[q] = http[q]
    BY <2>r, AnswerIs
  <2>y. y = [code |-> 404, from |-> "unknown-entity", file |-> Nil]
    BY <2>1
  <2>3. y.code # 500
    BY <2>y
  <2>5. y.file = Nil
    BY <2>y
  <2>4. y.from \in {"manifest-from-space", "unknown-entity"}
    BY <2>1
  <2> QED
    BY <2>2, <2>3, <2>4, <2>5 DEF OnlyHttp, ReplyIs
<1> QED
  BY <1>1, <1>2 DEF ManifestErr

LEMMA Received ==
  ASSUME ServeTypes, NEW r \in Callers, Receive(r)
  PROVE  /\ OnlyHttp(r) /\ http'[r].key = http[r].key
         /\ \/ job[r].data = Nil /\ http'[r].reply = http[r].reply
            \/ /\ job[r].data # Nil
               /\ ReplyIs(r, 200, "fresh", job[r].data)
<1>1. CASE job[r].data # Nil
  <2>1. PICK y : Replied(r, y) /\ y = [code |-> 200, from |-> "fresh", file |-> job[r].data]
    BY <1>1 DEF Receive, Answer, Replied
  <2>r. Replied(r, y)
    BY <2>1
  <2>2. /\ http'[r].st = "done" /\ http'[r].key = http[r].key /\ http'[r].reply = y
        /\ \A q \in Callers \ {r} : http'[q] = http[q]
    BY <2>r, AnswerIs
  <2> QED
    BY <1>1, <2>1, <2>2 DEF OnlyHttp, ReplyIs
<1>2. CASE job[r].data = Nil
  <2>1. http' = [http EXCEPT ![r].st = "failed"]
    BY <1>2 DEF Receive
  <2> QED
    BY <1>2, <2>1 DEF ServeTypes, HttpState, OnlyHttp
<1> QED
  BY <1>1, <1>2

LEMMA GaveUp ==
  ASSUME ServeTypes, NEW r \in Callers, FallbackMiss(r)
  PROVE  /\ OnlyHttp(r) /\ http'[r].key = http[r].key
         /\ \/ http[r].st # "failed" /\ http'[r].reply = http[r].reply
            \/ /\ http[r].st = "failed"
               /\ ReplyIs(r, 500, "build-failed", Nil)
<1>1. CASE http[r].st = "failed"
  <2>1. PICK y : Replied(r, y) /\ y = [code |-> 500, from |-> "build-failed", file |-> Nil]
    BY <1>1 DEF FallbackMiss, Answer, Replied
  <2>r. Replied(r, y)
    BY <2>1
  <2>2. /\ http'[r].st = "done" /\ http'[r].key = http[r].key /\ http'[r].reply = y
        /\ \A q \in Callers \ {r} : http'[q] = http[q]
    BY <2>r, AnswerIs
  <2> QED
    BY <1>1, <2>1, <2>2 DEF OnlyHttp, ReplyIs
<1>2. CASE http[r].st # "failed"
  <2>1. http' = [http EXCEPT ![r].st = "block"]
    BY <1>2 DEF FallbackMiss
  <2> QED
    BY <1>2, <2>1 DEF ServeTypes, HttpState, OnlyHttp
<1> QED
  BY <1>1, <1>2

LEMMA ReceivedSlow ==
  ASSUME ServeTypes, NEW r \in Callers, ReceiveSlow(r)
  PROVE  /\ OnlyHttp(r) /\ http'[r].key = http[r].key
         /\ \/ /\ job[r].data = Nil
               /\ ReplyIs(r, 500, "build-failed", Nil)
            \/ /\ job[r].data # Nil
               /\ ReplyIs(r, 200, "fresh-slow", job[r].data)
<1>1. CASE job[r].data # Nil
  <2>1. PICK y : Replied(r, y) /\ y = [code |-> 200, from |-> "fresh-slow", file |-> job[r].data]
    BY <1>1 DEF ReceiveSlow, Answer, Replied
  <2>r. Replied(r, y)
    BY <2>1
  <2>2. /\ http'[r].st = "done" /\ http'[r].key = http[r].key /\ http'[r].reply = y
        /\ \A q \in Callers \ {r} : http'[q] = http[q]
    BY <2>r, AnswerIs
  <2> QED
    BY <1>1, <2>1, <2>2 DEF OnlyHttp, ReplyIs
<1>2. CASE job[r].data = Nil
  <2>1. PICK y : Replied(r, y) /\ y = [code |-> 500, from |-> "build-failed", file |-> Nil]
    BY <1>2 DEF ReceiveSlow, Answer, Replied
  <2>r. Replied(r, y)
    BY <2>1
  <2>2. /\ http'[r].st = "done" /\ http'[r].key = http[r].key /\ http'[r].reply = y
        /\ \A q \in Callers \ {r} : http'[q] = http[q]
    BY <2>r, AnswerIs
  <2> QED
    BY <1>2, <2>1, <2>2 DEF OnlyHttp, ReplyIs
<1> QED
  BY <1>1, <1>2

\* The bundle that the worker of r would build now, from files read in full or not.
Built(r, full) == [hash |-> http[r].key[2], id |-> job[r].ctx.id,
                   complete |-> full /\ Complete(job[r].ctx, http[r].key[2]),
                   lost |-> job[r].ctx.lost # {}, whole |-> TRUE, saved |-> TRUE]

LEMMA BuiltTyped ==
  ASSUME CallersInv, NEW r \in Callers, NEW full \in BOOLEAN, job[r].st = "build"
  PROVE  job[r].ctx \in Ctx /\ Built(r, full) \in File
<1>1. job[r].ctx \in Ctx
  BY DEF CallersInv, ServeTypes, Phases, JobState
<1>2. (full /\ Complete(job[r].ctx, http[r].key[2])) \in BOOLEAN
  BY DEF Complete
<1>3. http[r].key[2] \in Hashes
  BY KeysTyped
<1> QED
  BY <1>1, <1>2, <1>3 DEF Built, File, Ctx

\* Whether or not the file is there, the worker goes on with its own call.
Ensured(r, st) ==
  /\ job[r].st = "ensure" /\ job' = [job EXCEPT ![r].st = st]
  /\ UNCHANGED <<http, bundleLock, cache, tmp, space, warm, hashIndex>>
  /\ \A q \in Callers \ {r} : call'[q] = call[q]

LEMMA EnsureMoves ==
  ASSUME NEW r \in Callers, JobEnsure(r)
  PROVE  \E st \in {"build", "fetch"} : Ensured(r, st)
<1>1. CASE /\ job' = [job EXCEPT ![r].st = "build"]
           /\ UNCHANGED evars
  BY <1>1 DEF JobEnsure, Ensured, evars
<1>2. CASE /\ BuildMiss(r, http[r].key[2])
           /\ job' = [job EXCEPT ![r].st = "fetch"]
  BY <1>2 DEF JobEnsure, Ensured, BuildMiss
<1> QED
  BY <1>1, <1>2 DEF JobEnsure

\* Handlers and workers keep their states well-formed.
LEMMA TypesStep == CallersInv /\ FlightInv /\ [Next]_vars => ServeTypes'
<1> SUFFICES ASSUME CallersInv, FlightInv, [Next]_vars PROVE ServeTypes'
  OBVIOUS
<1>t. ServeTypes
  BY DEF CallersInv
<1>h. \A r \in Callers : http[r] \in HttpState /\ job[r] \in JobState
  BY <1>t DEF ServeTypes
<1> USE <1>t
<1>1. ASSUME NEW r \in Callers, NEW a \in Asks, RouteBundle(r, a) PROVE ServeTypes'
  <2>1. <<a.cid, a.hash>> \in Keys
    BY ServeAssumption DEF Ask, Keys
  <2>2. [http[r] EXCEPT !.st = "probe", !.key = <<a.cid, a.hash>>] \in HttpState
    BY <2>1, <1>h, HttpMoves DEF HttpPcs
  <2> QED
    BY <1>1, <2>2 DEF RouteBundle, ServeTypes, evars
<1>2. ASSUME NEW r \in Callers, NEW a \in Asks, RouteFlat(r, a) PROVE ServeTypes'
  <2>1. a.hash \in Hashes
    BY ServeAssumption DEF Ask
  <2>2. hashIndex[a.hash] # Nil => <<hashIndex[a.hash], a.hash>> \in Keys
    BY <2>1 DEF Keys, FlightInv, TypeOK
  <2>3. CASE hashIndex[a.hash] = Nil
    <3>a. Answer(r, 404, "unknown-asset", Nil)
      BY <1>2, <2>3 DEF RouteFlat
    <3>1. Replies(r)
      BY <3>a DEF Answer, Replies, Reply, Sources
    <3>2. http' \in [Callers -> HttpState]
      BY ONLY <3>1, <1>t, AnswerTyped, r \in Callers
    <3> QED
      BY <1>2, <3>2 DEF RouteFlat, ServeTypes, evars
  <2>4. CASE hashIndex[a.hash] # Nil
    <3>1. [http[r] EXCEPT !.st = "probe", !.key = <<hashIndex[a.hash], a.hash>>] \in HttpState
      BY <2>2, <2>4, <1>h, HttpMoves DEF HttpPcs
    <3> QED
      BY <1>2, <2>4, <3>1 DEF RouteFlat, ServeTypes, evars
  <2> QED
    BY <2>3, <2>4
<1>3. ASSUME NEW r \in Callers, NEW a \in Asks, RouteManifest(r, a) PROVE ServeTypes'
  BY <1>3, HttpMoves, JobMoves DEF RouteManifest, Call, IdleCall, ServeTypes, HttpPcs, JobPcs
<1>4. ASSUME NEW r \in Callers, NEW names \in Posts, RoutePost(r, names) PROVE ServeTypes'
  BY <1>4, HttpMoves, JobMoves DEF RoutePost, PostBegin, IdleCall, ServeTypes, HttpPcs, JobPcs
<1>5. ASSUME NEW r \in Callers, ManifestOk(r) PROVE ServeTypes'
  <2>1. Replies(r)
    BY <1>5 DEF ManifestOk, Answer, Replies, Reply, Sources
  <2>2. http' \in [Callers -> HttpState]
    BY ONLY <2>1, <1>t, AnswerTyped, r \in Callers
  <2>3. call[r].cid \in Cids
    BY <1>5 DEF ManifestOk, FlightInv, FieldsOK
  <2> QED
    BY <1>5, <2>2, <2>3 DEF ManifestOk, ServeTypes
<1>6. ASSUME NEW r \in Callers, ManifestErr(r) PROVE ServeTypes'
  <2>a. Answer(r, 200, "manifest-from-space", Nil) \/ Answer(r, 404, "unknown-entity", Nil)
    BY <1>6 DEF ManifestErr
  <2>1. Replies(r)
    BY <2>a DEF Answer, Replies, Reply, Sources
  <2>2. http' \in [Callers -> HttpState]
    BY ONLY <2>1, <1>t, AnswerTyped, r \in Callers
  <2> QED
    BY <1>6, <2>2 DEF ManifestErr, ServeTypes
<1>7. ASSUME NEW r \in Callers, PostReply(r) PROVE ServeTypes'
  <2>1. Replies(r)
    BY <1>7 DEF PostReply, Answer, Replies, Reply, Sources
  <2>2. http' \in [Callers -> HttpState]
    BY ONLY <2>1, <1>t, AnswerTyped, r \in Callers
  <2> QED
    BY <1>7, <2>2 DEF PostReply, ServeTypes, evars
<1>8. ASSUME NEW r \in Callers, ProbeHit(r) PROVE ServeTypes'
  <2>k. cache[http[r].key] \in File \cup {Nil}
    BY <1>8, KeysTyped DEF ProbeHit
  <2>1. Replies(r)
    BY <1>8, <2>k DEF ProbeHit, Answer, Replies, Reply, Sources
  <2>2. http' \in [Callers -> HttpState]
    BY ONLY <2>1, <1>t, AnswerTyped, r \in Callers
  <2> QED
    BY <1>8, <2>2 DEF ProbeHit, ServeTypes, evars
<1>9. ASSUME NEW r \in Callers, ProbeMiss(r) PROVE ServeTypes'
  BY <1>9, HttpMoves, JobMoves DEF ProbeMiss, evars, ServeTypes, HttpPcs, JobPcs
<1>10. ASSUME NEW r \in Callers, Receive(r) PROVE ServeTypes'
  <2>1. CASE job[r].data # Nil
    <3>k. job[r].data \in File \cup {Nil}
      BY <1>10, KeysTyped DEF Receive
    <3>a. Answer(r, 200, "fresh", job[r].data)
      BY <1>10, <2>1 DEF Receive
    <3>1. Replies(r)
      BY <3>k, <3>a DEF Answer, Replies, Reply, Sources
    <3>2. http' \in [Callers -> HttpState]
      BY ONLY <3>1, <1>t, AnswerTyped, r \in Callers
    <3> QED
      BY <1>10, <3>2 DEF Receive, ServeTypes, evars
  <2>2. CASE job[r].data = Nil
    <3>1. [http[r] EXCEPT !.st = "failed"] \in HttpState
      BY <1>h, HttpMoves DEF HttpPcs
    <3> QED
      BY <1>10, <2>2, <3>1 DEF Receive, ServeTypes, evars
  <2> QED
    BY <2>1, <2>2
<1>11. ASSUME NEW r \in Callers, TimeOut(r) PROVE ServeTypes'
  BY <1>11, HttpMoves, JobMoves DEF TimeOut, evars, ServeTypes, HttpPcs, JobPcs
<1>12. ASSUME NEW r \in Callers, FallbackHit(r) PROVE ServeTypes'
  <2>k. Fallback(http[r].key) \in File \cup {Nil}
    BY <1>12, KeysTyped DEF FallbackHit
  <2>1. Replies(r)
    BY <1>12, <2>k DEF FallbackHit, Answer, Replies, Reply, Sources
  <2>2. http' \in [Callers -> HttpState]
    BY ONLY <2>1, <1>t, AnswerTyped, r \in Callers
  <2> QED
    BY <1>12, <2>2 DEF FallbackHit, ServeTypes, evars
<1>13. ASSUME NEW r \in Callers, FallbackMiss(r) PROVE ServeTypes'
  <2>1. CASE http[r].st = "failed"
    <3>1. Replies(r)
      BY <1>13, <2>1 DEF FallbackMiss, Answer, Replies, Reply, Sources
    <3>2. http' \in [Callers -> HttpState]
      BY ONLY <3>1, <1>t, AnswerTyped, r \in Callers
    <3> QED
      BY <1>13, <3>2 DEF FallbackMiss, ServeTypes, evars
  <2>2. CASE http[r].st # "failed"
    <3>1. [http[r] EXCEPT !.st = "block"] \in HttpState
      BY <1>h, HttpMoves DEF HttpPcs
    <3> QED
      BY <1>13, <2>2, <3>1 DEF FallbackMiss, ServeTypes, evars
  <2> QED
    BY <2>1, <2>2
<1>14. ASSUME NEW r \in Callers, ReceiveSlow(r) PROVE ServeTypes'
  <2>k. job[r].data \in File \cup {Nil}
    BY <1>14, KeysTyped DEF ReceiveSlow
  <2>a. Answer(r, 200, "fresh-slow", job[r].data) \/ Answer(r, 500, "build-failed", Nil)
    BY <1>14 DEF ReceiveSlow
  <2>1. Replies(r)
    BY <2>k, <2>a DEF Answer, Replies, Reply, Sources
  <2>2. http' \in [Callers -> HttpState]
    BY ONLY <2>1, <1>t, AnswerTyped, r \in Callers
  <2> QED
    BY <1>14, <2>2 DEF ReceiveSlow, ServeTypes, evars
<1>15. ASSUME NEW r \in Callers, JobProbe(r) PROVE ServeTypes'
  BY <1>15, JobMoves, KeysTyped DEF JobProbe, ServeTypes, JobPcs, evars
<1>16. ASSUME NEW r \in Callers, JobLock(r) PROVE ServeTypes'
  BY <1>16, HttpMoves, JobMoves DEF JobLock, evars, ServeTypes, HttpPcs, JobPcs
<1>17. ASSUME NEW r \in Callers, JobRecheckHit(r) PROVE ServeTypes'
  BY <1>17, JobMoves, KeysTyped DEF JobRecheckHit, Unlock, ServeTypes, JobPcs, evars
<1>18. ASSUME NEW r \in Callers, JobRecheckMiss(r) PROVE ServeTypes'
  BY <1>18, HttpMoves, JobMoves DEF JobRecheckMiss, Call, IdleCall, ServeTypes, HttpPcs, JobPcs
<1>19. ASSUME NEW r \in Callers, JobCtxOk(r) PROVE ServeTypes'
  <2>1. call[r].ctx \in Ctx
    BY <1>19 DEF JobCtxOk, FlightInv, FieldsOK
  <2>2. [job[r] EXCEPT !.st = "find", !.ctx = call[r].ctx] \in JobState
    BY <2>1, <1>h, JobMoves DEF JobPcs
  <2> QED
    BY <1>19, <2>2 DEF JobCtxOk, ServeTypes
<1>20. ASSUME NEW r \in Callers, JobCtxErr(r) PROVE ServeTypes'
  BY <1>20, HttpMoves, JobMoves DEF JobCtxErr, FailJob, Unlock, Return, IdleCall, ServeTypes,
       HttpPcs, JobPcs
<1>21. ASSUME NEW r \in Callers, JobFound(r) PROVE ServeTypes'
  BY <1>21, HttpMoves, JobMoves DEF JobFound, evars, ServeTypes, HttpPcs, JobPcs
<1>22. ASSUME NEW r \in Callers, JobFindOwner(r) PROVE ServeTypes'
  BY <1>22, HttpMoves, JobMoves DEF JobFindOwner, Call, IdleCall, ServeTypes, HttpPcs, JobPcs
<1>23. ASSUME NEW r \in Callers, JobNotFound(r) PROVE ServeTypes'
  BY <1>23, HttpMoves, JobMoves DEF JobNotFound, FailJob, Unlock, evars, ServeTypes, HttpPcs, JobPcs
<1>24. ASSUME NEW r \in Callers, JobEnsure(r) PROVE ServeTypes'
  <2>1. PICK st \in {"build", "fetch"} : Ensured(r, st)
    BY <1>24, EnsureMoves
  <2> QED
    BY <2>1, JobMoves DEF Ensured, ServeTypes, JobPcs
<1>25. ASSUME NEW r \in Callers, JobFetchOk(r) PROVE ServeTypes'
  BY <1>25, HttpMoves, JobMoves DEF JobFetchOk, BuildFetched, IdleCall, ServeTypes, HttpPcs, JobPcs
<1>26. ASSUME NEW r \in Callers, JobFetchFail(r) PROVE ServeTypes'
  BY <1>26, HttpMoves, JobMoves DEF JobFetchFail, FailJob, Unlock, evars, ServeTypes, HttpPcs,
       JobPcs
<1>27. ASSUME NEW r \in Callers, JobBuildOk(r) PROVE ServeTypes'
  <2> PICK full \in BOOLEAN :
         job' = [job EXCEPT ![r].st = "write", ![r].data = Built(r, full)]
    BY <1>27 DEF JobBuildOk, Built
  <2>4. Built(r, full) \in File
    BY <1>27, BuiltTyped DEF JobBuildOk
  <2>5. [job[r] EXCEPT !.st = "write", !.data = Built(r, full)] \in JobState
    BY <2>4, <1>h, JobMoves DEF JobPcs
  <2> QED
    BY <1>27, <2>5 DEF JobBuildOk, ServeTypes, evars
<1>28. ASSUME NEW r \in Callers, JobBuildFail(r) PROVE ServeTypes'
  BY <1>28, HttpMoves, JobMoves DEF JobBuildFail, FailJob, Unlock, evars, ServeTypes, HttpPcs,
       JobPcs
<1>29. ASSUME NEW r \in Callers, JobWrite(r) PROVE ServeTypes'
  BY <1>29, HttpMoves, JobMoves DEF JobWrite, evars, ServeTypes, HttpPcs, JobPcs
<1>30. ASSUME NEW r \in Callers, JobWritten(r) PROVE ServeTypes'
  BY <1>30, HttpMoves, JobMoves DEF JobWritten, evars, ServeTypes, HttpPcs, JobPcs
<1>31. ASSUME NEW r \in Callers, JobWriteFail(r) PROVE ServeTypes'
  BY <1>31, HttpMoves, JobMoves DEF JobWriteFail, FailJob, Unlock, evars, ServeTypes, HttpPcs,
       JobPcs
<1>32. ASSUME NEW r \in Callers, JobRename(r) PROVE ServeTypes'
  <2>1. http[r].key \in Keys /\ job[r].data \in File
    BY <1>32, KeysTyped DEF JobRename, CallersInv, Phases
  <2>2. [job[r].data EXCEPT !.whole = (tmp[http[r].key] = "whole")] \in File
    BY <2>1 DEF File
  <2>3. cache' \in [Keys -> File \cup {Nil}]
    BY <1>32, <2>1, <2>2 DEF JobRename, ServeTypes
  <2>4. [job[r] EXCEPT !.st = "put"] \in JobState
    BY <1>h, JobMoves DEF JobPcs
  <2> QED
    BY <1>32, <2>1, <2>3, <2>4 DEF JobRename, Unlock, ServeTypes, evars
<1>33. ASSUME NEW r \in Callers, JobPut(r) PROVE ServeTypes'
  BY <1>33, JobMoves, KeysTyped DEF JobPut, ServeTypes, JobPcs, evars
<1>34. ASSUME NEW r \in Callers, JobPutManifest(r) PROVE ServeTypes'
  BY <1>34, JobMoves, KeysTyped DEF JobPutManifest, ServeTypes, JobPcs, evars
<1>35. ASSUME NEW r \in Callers, JobEvict(r) PROVE ServeTypes'
  BY <1>35, HttpMoves, JobMoves DEF JobEvict, evars, ServeTypes, HttpPcs, JobPcs
<1>36. ASSUME NEW r \in Callers, JobSend(r) PROVE ServeTypes'
  BY <1>36, HttpMoves, JobMoves DEF JobSend, evars, ServeTypes, HttpPcs, JobPcs
<1>37. ASSUME NEW r \in Callers, TableStep(r) PROVE ServeTypes'
  BY <1>37, HttpMoves, JobMoves DEF TableStep, svars, ServeTypes, HttpPcs, JobPcs
<1>38. CASE CatalystStep
  BY <1>38, HttpMoves, JobMoves DEF CatalystStep, svars, ServeTypes, HttpPcs, JobPcs
<1>39. CASE Crash
  <2>1. \A r \in Callers : [http[r] EXCEPT !.st = "done"] \in HttpState
    BY <1>h, HttpMoves DEF HttpPcs
  <2>2. NoJob \in JobState
    BY DEF NoJob, JobState, JobPcs
  <2> QED
    BY <1>39, <2>1, <2>2 DEF Crash, ServeTypes
<1>40. CASE Finished
  BY <1>40, HttpMoves, JobMoves DEF Finished, vars, svars, evars, ServeTypes, HttpPcs, JobPcs
<1>41. CASE UNCHANGED vars
  BY <1>41, HttpMoves, JobMoves DEF vars, svars, evars, ServeTypes, HttpPcs, JobPcs
<1>42. ASSUME NEW r \in Callers, JobFetchOpen(r) PROVE ServeTypes'
  BY <1>42 DEF JobFetchOpen, svars, ServeTypes
<1>43. ASSUME NEW r \in Callers, JobRenameFail(r) PROVE ServeTypes'
  <2>1. http[r].key \in Keys /\ job[r].data \in File
    BY <1>43, KeysTyped DEF JobRenameFail, CallersInv, Phases
  <2>2. [job[r].data EXCEPT !.saved = FALSE] \in File
    BY <2>1 DEF File
  <2>3. [job[r] EXCEPT !.st = "put", !.data = [job[r].data EXCEPT !.saved = FALSE]] \in JobState
    BY <2>2, <1>h, JobMoves DEF JobPcs
  <2> QED
    BY <1>43, <2>1, <2>3 DEF JobRenameFail, Unlock, ServeTypes, evars
<1> QED
  BY <1>1, <1>2, <1>3, <1>4, <1>5, <1>6, <1>7, <1>8, <1>9, <1>10, <1>11, <1>12, <1>13,
     <1>14, <1>15, <1>16, <1>17, <1>18, <1>19, <1>20, <1>21, <1>22, <1>23, <1>24, <1>25,
     <1>26, <1>27, <1>28, <1>29, <1>30, <1>31, <1>32, <1>33, <1>34, <1>35, <1>36, <1>37,
     <1>38, <1>39, <1>40, <1>41, <1>42, <1>43
     DEF Next, Arrive, HandlerStep, JobStep

\* A step of a thread inside entity_ctx or of the POST handler is about that
\* thread's call, and entity_ctx stays with its entity until it returns.
KeepsCall(t) ==
  /\ \A u \in Callers \ {t} : call'[u] = call[u]
  /\ call[t].pc \in InCall \cup {"ok", "err"} =>
       call'[t].pc \in InCall \cup {"ok", "err"} /\ call'[t].cid = call[t].cid

LEMMA OpenKept ==
  ASSUME FlightInv, NEW t \in Callers, NEW pc, OpenContent(t, pc)
  PROVE  KeepsCall(t)
  BY DEF FlightInv, TypeOK, OpenContent, KeepsCall

LEMMA CallKept ==
  ASSUME FlightInv, NEW t \in Callers, CtxStep(t) \/ PostStep(t)
  PROVE  KeepsCall(t)
<1> USE DEF InCall, Holding, Working
<1>a. call \in [Callers -> CallState]
  BY DEF FlightInv, TypeOK
<1> USE <1>a
<1>1. CASE Check(t)
  BY <1>1 DEF Check, KeepsCall
<1>2. CASE Lock(t)
  BY <1>2 DEF Lock, KeepsCall
<1>3. CASE RecheckHit(t)
  BY <1>3 DEF RecheckHit, KeepsCall
<1>4. CASE RecheckMiss(t)
  BY <1>4 DEF RecheckMiss, KeepsCall
<1>5. CASE ResolveOk(t)
  BY <1>5 DEF ResolveOk, KeepsCall
<1>6. CASE ResolveFail(t)
  BY <1>6 DEF ResolveFail, KeepsCall
<1>7. ASSUME NEW h \in Hashes, EnsureHave(t, h) PROVE KeepsCall(t)
  BY <1>7 DEF EnsureHave, KeepsCall
<1>8. ASSUME NEW h \in Hashes, EnsureMiss(t, h) PROVE KeepsCall(t)
  BY <1>8 DEF EnsureMiss, KeepsCall
<1>9. ASSUME NEW h \in Hashes, ScanOne(t, h) PROVE KeepsCall(t)
  BY <1>9 DEF ScanOne, KeepsCall
<1>10. CASE FetchOk(t)
  BY <1>10 DEF FetchOk, KeepsCall
<1>11. CASE FetchFail(t)
  BY <1>11 DEF FetchFail, KeepsCall
<1>12. CASE BeginScan(t)
  BY <1>12 DEF BeginScan, KeepsCall
<1>13. CASE Index(t)
  BY <1>13 DEF Index, KeepsCall
<1>14. CASE Insert(t)
  BY <1>14 DEF Insert, KeepsCall
<1>15. CASE PostStep(t)
  BY <1>15 DEF PostStep, PostResolve, PostIndex, KeepsCall
<1>16. CASE OpenContent(t, "ensure")
  BY <1>16, OpenKept
<1> QED
  BY <1>1, <1>2, <1>3, <1>4, <1>5, <1>6, <1>7, <1>8, <1>9, <1>10, <1>11, <1>12, <1>13, <1>14,
     <1>15, <1>16 DEF CtxStep

\* The phases of a connection, its worker and its call go together.
LEMMA PhasesStep == CallersInv /\ FlightInv /\ [Next]_vars => Phases'
<1> SUFFICES ASSUME CallersInv, FlightInv, [Next]_vars PROVE Phases'
  OBVIOUS
<1>t. ServeTypes /\ Phases
  BY DEF CallersInv
<1>c. call \in [Callers -> CallState]
  BY DEF FlightInv, TypeOK
<1> USE <1>t, <1>c DEF Phases
<1>1. ASSUME NEW r \in Callers, NEW a \in Asks, RouteBundle(r, a) PROVE Phases'
  <2>1. <<a.cid, a.hash>> \in Keys
    BY ServeAssumption DEF Ask, Keys
  <2> QED
    BY <1>1, <2>1 DEF RouteBundle, ServeTypes, evars
<1>2. ASSUME NEW r \in Callers, NEW a \in Asks, RouteFlat(r, a) PROVE Phases'
  <2>0. http[r].st = "new" /\ job' = job /\ call' = call
    BY <1>2 DEF RouteFlat, evars
  <2>1. hashIndex[a.hash] # Nil => <<hashIndex[a.hash], a.hash>> \in Keys
    BY ServeAssumption DEF Ask, Keys, FlightInv, TypeOK
  <2>2. CASE hashIndex[a.hash] = Nil
    <3>1. Answer(r, 404, "unknown-asset", Nil)
      BY <1>2, <2>2 DEF RouteFlat
    <3>2. PICK y : http' = [http EXCEPT ![r].st = "done", ![r].reply = y]
      BY <3>1 DEF Answer
    <3> QED
      BY <2>0, <3>2 DEF ServeTypes
  <2>3. CASE hashIndex[a.hash] # Nil
    <3>1. http' = [http EXCEPT ![r].st = "probe", ![r].key = <<hashIndex[a.hash], a.hash>>]
      BY <1>2, <2>3 DEF RouteFlat
    <3> QED
      BY <2>0, <2>1, <2>3, <3>1 DEF ServeTypes
  <2> QED
    BY <2>2, <2>3
<1>3. ASSUME NEW r \in Callers, NEW a \in Asks, RouteManifest(r, a) PROVE Phases'
  BY <1>3 DEF RouteManifest, Call, IdleCall, InCall, ServeTypes
<1>4. ASSUME NEW r \in Callers, NEW names \in Posts, RoutePost(r, names) PROVE Phases'
  BY <1>4 DEF RoutePost, PostBegin, IdleCall, ServeTypes
<1>5. ASSUME NEW r \in Callers, ManifestOk(r) PROVE Phases'
  BY <1>5 DEF ManifestOk, Answer, Return, IdleCall, ServeTypes
<1>6. ASSUME NEW r \in Callers, ManifestErr(r) PROVE Phases'
  <2>0. http[r].st = "manifest" /\ job' = job /\ call' = [call EXCEPT ![r] = IdleCall]
    BY <1>6 DEF ManifestErr, Return
  <2>1. PICK y : http' = [http EXCEPT ![r].st = "done", ![r].reply = y]
    BY <1>6 DEF ManifestErr, Answer
  <2> QED
    BY <2>0, <2>1 DEF ServeTypes
<1>7. ASSUME NEW r \in Callers, PostReply(r) PROVE Phases'
  BY <1>7 DEF PostReply, Answer, evars, ServeTypes
<1>8. ASSUME NEW r \in Callers, ProbeHit(r) PROVE Phases'
  BY <1>8 DEF ProbeHit, Answer, evars, ServeTypes
<1>9. ASSUME NEW r \in Callers, ProbeMiss(r) PROVE Phases'
  BY <1>9 DEF ProbeMiss, evars, ServeTypes
<1>10. ASSUME NEW r \in Callers, Receive(r) PROVE Phases'
  <2>1. CASE job[r].data # Nil
    <3>1. Answer(r, 200, "fresh", job[r].data)
      BY <1>10, <2>1 DEF Receive
    <3> QED
      BY <1>10, <3>1 DEF Receive, Answer, ServeTypes, evars
  <2>2. CASE job[r].data = Nil
    <3>1. http' = [http EXCEPT ![r].st = "failed"]
      BY <1>10, <2>2 DEF Receive
    <3> QED
      BY <1>10, <2>2, <3>1 DEF Receive, ServeTypes, evars
  <2> QED
    BY <2>1, <2>2
<1>11. ASSUME NEW r \in Callers, TimeOut(r) PROVE Phases'
  BY <1>11 DEF TimeOut, evars, ServeTypes
<1>12. ASSUME NEW r \in Callers, FallbackHit(r) PROVE Phases'
  BY <1>12 DEF FallbackHit, Answer, evars, ServeTypes
<1>13. ASSUME NEW r \in Callers, FallbackMiss(r) PROVE Phases'
  <2>0. http[r].st \in {"failed", "timedout"} /\ job' = job /\ call' = call
    BY <1>13 DEF FallbackMiss, evars
  <2>1. CASE http[r].st = "failed"
    <3>1. Answer(r, 500, "build-failed", Nil)
      BY <1>13, <2>1 DEF FallbackMiss
    <3>2. PICK y : http' = [http EXCEPT ![r].st = "done", ![r].reply = y]
      BY <3>1 DEF Answer
    <3> QED
      BY <2>0, <3>2 DEF ServeTypes
  <2>2. CASE http[r].st # "failed"
    <3>1. http' = [http EXCEPT ![r].st = "block"]
      BY <1>13, <2>2 DEF FallbackMiss
    <3> QED
      BY <2>0, <2>2, <3>1 DEF ServeTypes
  <2> QED
    BY <2>1, <2>2
<1>14. ASSUME NEW r \in Callers, ReceiveSlow(r) PROVE Phases'
  <2>0. http[r].st = "block" /\ job' = job /\ call' = call
    BY <1>14 DEF ReceiveSlow, evars
  <2>1. PICK y : http' = [http EXCEPT ![r].st = "done", ![r].reply = y]
    BY <1>14 DEF ReceiveSlow, Answer
  <2> QED
    BY <2>0, <2>1 DEF ServeTypes
<1>15. ASSUME NEW r \in Callers, JobProbe(r) PROVE Phases'
  BY <1>15 DEF JobProbe, evars, ServeTypes
<1>16. ASSUME NEW r \in Callers, JobLock(r) PROVE Phases'
  BY <1>16 DEF JobLock, evars, ServeTypes
<1>17. ASSUME NEW r \in Callers, JobRecheckHit(r) PROVE Phases'
  BY <1>17 DEF JobRecheckHit, Unlock, evars, ServeTypes
<1>18. ASSUME NEW r \in Callers, JobRecheckMiss(r) PROVE Phases'
  BY <1>18 DEF JobRecheckMiss, Call, IdleCall, InCall, ServeTypes
<1>19. ASSUME NEW r \in Callers, JobCtxOk(r) PROVE Phases'
  <2>1. call[r].ctx # Nil
    BY <1>19, EntityCtxAssumption DEF JobCtxOk, FlightInv, FieldsOK
  <2> QED
    BY <1>19, <2>1 DEF JobCtxOk, Return, IdleCall, ServeTypes
<1>20. ASSUME NEW r \in Callers, JobCtxErr(r) PROVE Phases'
  BY <1>20 DEF JobCtxErr, FailJob, Unlock, Return, IdleCall, ServeTypes
<1>21. ASSUME NEW r \in Callers, JobFound(r) PROVE Phases'
  BY <1>21 DEF JobFound, evars, ServeTypes
<1>22. ASSUME NEW r \in Callers, JobFindOwner(r) PROVE Phases'
  BY <1>22 DEF JobFindOwner, Call, IdleCall, InCall, ServeTypes
<1>23. ASSUME NEW r \in Callers, JobNotFound(r) PROVE Phases'
  BY <1>23 DEF JobNotFound, FailJob, Unlock, evars, ServeTypes
<1>24. ASSUME NEW r \in Callers, JobEnsure(r) PROVE Phases'
  <2>1. PICK st \in {"build", "fetch"} : Ensured(r, st)
    BY <1>24, EnsureMoves
  <2> QED
    BY <2>1 DEF Ensured, ServeTypes
<1>25. ASSUME NEW r \in Callers, JobFetchOk(r) PROVE Phases'
  BY <1>25 DEF JobFetchOk, BuildFetched, IdleCall, ServeTypes
<1>26. ASSUME NEW r \in Callers, JobFetchFail(r) PROVE Phases'
  BY <1>26 DEF JobFetchFail, BuildFetchFail, IdleCall, FailJob, Unlock, ServeTypes
<1>27. ASSUME NEW r \in Callers, JobBuildOk(r) PROVE Phases'
  <2>2. PICK full \in BOOLEAN : job' = [job EXCEPT ![r].st = "write", ![r].data = Built(r, full)]
    BY <1>27 DEF JobBuildOk, Built
  <2>1. Built(r, full) # Nil
    BY <1>27, BuiltTyped, ServeAssumption DEF JobBuildOk
  <2>3. job[r].st = "build" /\ http' = http /\ call' = call
    BY <1>27 DEF JobBuildOk, evars
  <2> QED
    BY <2>1, <2>2, <2>3 DEF ServeTypes
<1>28. ASSUME NEW r \in Callers, JobBuildFail(r) PROVE Phases'
  BY <1>28 DEF JobBuildFail, FailJob, Unlock, evars, ServeTypes
<1>29. ASSUME NEW r \in Callers, JobWrite(r) PROVE Phases'
  BY <1>29 DEF JobWrite, evars, ServeTypes
<1>30. ASSUME NEW r \in Callers, JobWritten(r) PROVE Phases'
  BY <1>30 DEF JobWritten, evars, ServeTypes
<1>31. ASSUME NEW r \in Callers, JobWriteFail(r) PROVE Phases'
  BY <1>31 DEF JobWriteFail, FailJob, Unlock, evars, ServeTypes
<1>32. ASSUME NEW r \in Callers, JobRename(r) PROVE Phases'
  BY <1>32 DEF JobRename, Unlock, evars, ServeTypes
<1>33. ASSUME NEW r \in Callers, JobPut(r) PROVE Phases'
  BY <1>33 DEF JobPut, evars, ServeTypes
<1>34. ASSUME NEW r \in Callers, JobPutManifest(r) PROVE Phases'
  BY <1>34 DEF JobPutManifest, evars, ServeTypes
<1>35. ASSUME NEW r \in Callers, JobEvict(r) PROVE Phases'
  BY <1>35 DEF JobEvict, evars, ServeTypes
<1>36. ASSUME NEW r \in Callers, JobSend(r) PROVE Phases'
  BY <1>36 DEF JobSend, evars, ServeTypes
<1>37. ASSUME NEW r \in Callers, TableStep(r) PROVE Phases'
  BY <1>37, CallKept DEF TableStep, KeepsCall, svars
<1>38. CASE CatalystStep
  BY <1>38 DEF CatalystStep, Redeploy, svars, ServeTypes
<1>39. CASE Crash
  BY <1>39 DEF Crash, Restart, NoJob, IdleCall, ServeTypes
<1>40. CASE Finished
  BY <1>40 DEF Finished, vars, svars, evars, ServeTypes
<1>41. CASE UNCHANGED vars
  BY <1>41 DEF vars, svars, evars, ServeTypes
<1>42. ASSUME NEW r \in Callers, JobFetchOpen(r) PROVE Phases'
  BY <1>42 DEF JobFetchOpen, OpenContent, svars, ServeTypes, InCall, Holding, Working
<1>43. ASSUME NEW r \in Callers, JobRenameFail(r) PROVE Phases'
  <2>1. [job[r].data EXCEPT !.saved = FALSE] # Nil
    BY <1>43, KeysTyped, ServeAssumption DEF JobRenameFail, Phases, File
  <2> QED
    BY <1>43, <2>1 DEF JobRenameFail, Unlock, evars, ServeTypes
<1> QED
  BY <1>1, <1>2, <1>3, <1>4, <1>5, <1>6, <1>7, <1>8, <1>9, <1>10, <1>11, <1>12, <1>13,
     <1>14, <1>15, <1>16, <1>17, <1>18, <1>19, <1>20, <1>21, <1>22, <1>23, <1>24, <1>25,
     <1>26, <1>27, <1>28, <1>29, <1>30, <1>31, <1>32, <1>33, <1>34, <1>35, <1>36, <1>37,
     <1>38, <1>39, <1>40, <1>41, <1>42, <1>43
     DEF Next, Arrive, HandlerStep, JobStep

-----------------------------------------------------------------------------
\* Whatever the request path does to the entity table, EntityCtx allows.
LEMMA TableUsed == CallersInv /\ FlightInv /\ [Next]_vars => [NextEntity]_evars
<1> SUFFICES ASSUME CallersInv, FlightInv, [Next]_vars PROVE [NextEntity]_evars
  OBVIOUS
<1>1. ASSUME NEW r \in Callers, NEW a \in Asks, RouteBundle(r, a) PROVE [NextEntity]_evars
  BY <1>1 DEF RouteBundle
<1>2. ASSUME NEW r \in Callers, NEW a \in Asks, RouteFlat(r, a) PROVE [NextEntity]_evars
  BY <1>2 DEF RouteFlat
<1>3. ASSUME NEW r \in Callers, NEW a \in Asks, RouteManifest(r, a) PROVE [NextEntity]_evars
  <2>1. a.cid \in Cids
    BY ServeAssumption DEF Ask
  <2> QED
    BY <1>3, <2>1 DEF RouteManifest, NextEntity
<1>4. ASSUME NEW r \in Callers, NEW names \in Posts, RoutePost(r, names) PROVE [NextEntity]_evars
  BY <1>4 DEF RoutePost, NextEntity
<1>5. ASSUME NEW r \in Callers, ManifestOk(r) PROVE [NextEntity]_evars
  BY <1>5 DEF ManifestOk, NextEntity
<1>6. ASSUME NEW r \in Callers, ManifestErr(r) PROVE [NextEntity]_evars
  BY <1>6 DEF ManifestErr, NextEntity
<1>7. ASSUME NEW r \in Callers, PostReply(r) PROVE [NextEntity]_evars
  BY <1>7 DEF PostReply
<1>8. ASSUME NEW r \in Callers, ProbeHit(r) PROVE [NextEntity]_evars
  BY <1>8 DEF ProbeHit
<1>9. ASSUME NEW r \in Callers, ProbeMiss(r) PROVE [NextEntity]_evars
  BY <1>9 DEF ProbeMiss
<1>10. ASSUME NEW r \in Callers, Receive(r) PROVE [NextEntity]_evars
  BY <1>10 DEF Receive
<1>11. ASSUME NEW r \in Callers, TimeOut(r) PROVE [NextEntity]_evars
  BY <1>11 DEF TimeOut
<1>12. ASSUME NEW r \in Callers, FallbackHit(r) PROVE [NextEntity]_evars
  BY <1>12 DEF FallbackHit
<1>13. ASSUME NEW r \in Callers, FallbackMiss(r) PROVE [NextEntity]_evars
  BY <1>13 DEF FallbackMiss
<1>14. ASSUME NEW r \in Callers, ReceiveSlow(r) PROVE [NextEntity]_evars
  BY <1>14 DEF ReceiveSlow
<1>15. ASSUME NEW r \in Callers, JobProbe(r) PROVE [NextEntity]_evars
  BY <1>15 DEF JobProbe
<1>16. ASSUME NEW r \in Callers, JobLock(r) PROVE [NextEntity]_evars
  BY <1>16 DEF JobLock
<1>17. ASSUME NEW r \in Callers, JobRecheckHit(r) PROVE [NextEntity]_evars
  BY <1>17 DEF JobRecheckHit
<1>18. ASSUME NEW r \in Callers, JobRecheckMiss(r) PROVE [NextEntity]_evars
  <2>1. http[r].key[1] \in Cids
    BY <1>18, KeysTyped DEF JobRecheckMiss
  <2> QED
    BY <1>18, <2>1 DEF JobRecheckMiss, NextEntity
<1>19. ASSUME NEW r \in Callers, JobCtxOk(r) PROVE [NextEntity]_evars
  BY <1>19 DEF JobCtxOk, NextEntity
<1>20. ASSUME NEW r \in Callers, JobCtxErr(r) PROVE [NextEntity]_evars
  BY <1>20 DEF JobCtxErr, NextEntity
<1>21. ASSUME NEW r \in Callers, JobFound(r) PROVE [NextEntity]_evars
  BY <1>21 DEF JobFound
<1>22. ASSUME NEW r \in Callers, JobFindOwner(r) PROVE [NextEntity]_evars
  <2>1. http[r].key[2] \in Hashes
    BY <1>22, KeysTyped DEF JobFindOwner
  <2>2. Owner(r) \in Cids
    BY <1>22, <2>1 DEF JobFindOwner, Foreign, Owner, FlightInv, TypeOK
  <2> QED
    BY <1>22, <2>2 DEF JobFindOwner, NextEntity
<1>23. ASSUME NEW r \in Callers, JobNotFound(r) PROVE [NextEntity]_evars
  BY <1>23 DEF JobNotFound
<1>24. ASSUME NEW r \in Callers, JobEnsure(r) PROVE [NextEntity]_evars
  <2>1. http[r].key[2] \in Hashes
    BY <1>24, KeysTyped DEF JobEnsure
  <2> QED
    BY <1>24, <2>1 DEF JobEnsure, NextEntity
<1>25. ASSUME NEW r \in Callers, JobFetchOk(r) PROVE [NextEntity]_evars
  BY <1>25 DEF JobFetchOk, FetchStep, NextEntity
<1>26. ASSUME NEW r \in Callers, JobFetchFail(r) PROVE [NextEntity]_evars
  BY <1>26 DEF JobFetchFail, FetchStep, NextEntity
<1>27. ASSUME NEW r \in Callers, JobBuildOk(r) PROVE [NextEntity]_evars
  BY <1>27 DEF JobBuildOk
<1>28. ASSUME NEW r \in Callers, JobBuildFail(r) PROVE [NextEntity]_evars
  BY <1>28 DEF JobBuildFail
<1>29. ASSUME NEW r \in Callers, JobWrite(r) PROVE [NextEntity]_evars
  BY <1>29 DEF JobWrite
<1>30. ASSUME NEW r \in Callers, JobWritten(r) PROVE [NextEntity]_evars
  BY <1>30 DEF JobWritten
<1>31. ASSUME NEW r \in Callers, JobWriteFail(r) PROVE [NextEntity]_evars
  BY <1>31 DEF JobWriteFail
<1>32. ASSUME NEW r \in Callers, JobRename(r) PROVE [NextEntity]_evars
  BY <1>32 DEF JobRename
<1>33. ASSUME NEW r \in Callers, JobPut(r) PROVE [NextEntity]_evars
  BY <1>33 DEF JobPut
<1>34. ASSUME NEW r \in Callers, JobPutManifest(r) PROVE [NextEntity]_evars
  BY <1>34 DEF JobPutManifest
<1>35. ASSUME NEW r \in Callers, JobEvict(r) PROVE [NextEntity]_evars
  BY <1>35 DEF JobEvict
<1>36. ASSUME NEW r \in Callers, JobSend(r) PROVE [NextEntity]_evars
  BY <1>36 DEF JobSend
<1>37. ASSUME NEW r \in Callers, TableStep(r) PROVE [NextEntity]_evars
  BY <1>37 DEF TableStep, NextEntity
<1>38. CASE CatalystStep
  BY <1>38 DEF CatalystStep, NextEntity
<1>39. CASE Crash
  BY <1>39 DEF Crash, NextEntity
<1>40. CASE Finished
  BY <1>40 DEF Finished, vars
<1>41. CASE UNCHANGED vars
  BY <1>41 DEF vars
<1>42. ASSUME NEW r \in Callers, JobFetchOpen(r) PROVE [NextEntity]_evars
  BY <1>42 DEF JobFetchOpen, FetchStep, NextEntity
<1>43. ASSUME NEW r \in Callers, JobRenameFail(r) PROVE [NextEntity]_evars
  BY <1>43 DEF JobRenameFail
<1> QED
  BY <1>1, <1>2, <1>3, <1>4, <1>5, <1>6, <1>7, <1>8, <1>9, <1>10, <1>11, <1>12, <1>13,
     <1>14, <1>15, <1>16, <1>17, <1>18, <1>19, <1>20, <1>21, <1>22, <1>23, <1>24, <1>25,
     <1>26, <1>27, <1>28, <1>29, <1>30, <1>31, <1>32, <1>33, <1>34, <1>35, <1>36, <1>37,
     <1>38, <1>39, <1>40, <1>41, <1>42, <1>43
     DEF Next, Arrive, HandlerStep, JobStep

-----------------------------------------------------------------------------
\* Whoever is past the bundle lock holds it, and its bundle is not cached.
LockInv ==
  \A r \in Callers :
    /\ job[r].st \in Locked => bundleLock[http[r].key] = r
    /\ job[r].st \in Building => cache[http[r].key] = Nil
    /\ job[r].st = "rename" => tmp[http[r].key] \in {Nil, "whole"}

\* The content store has what a context needs, except what had failed to be
\* fetched, and its scan has seen the models, except what may be read in part.
Ready(ctx, have, bad) ==
  /\ Content[ctx.id] \cap Convertible \subseteq have \cup ctx.lost
  /\ Content[ctx.id] \cap Glbs \subseteq ctx.seen \cup ctx.lost \cup bad

\* The bundle's hash is not of the entity in its path.
Borrowed(k) == k[1] \in Ids => k[2] \notin Content[k[1]]

\* A build starts in the entity of the path; after its one re-resolution it is
\* in the entity that the hash was indexed under, which deploys it.
Hop(r) ==
  /\ job[r].hops \in {0, 1}
  /\ job[r].hops = 1 => Borrowed(http[r].key)
  /\ job[r].st = "ctx" => call[r].cid = IF job[r].hops = 0 THEN http[r].key[1]
                                        ELSE hashIndex[http[r].key[2]]
  /\ job[r].st \in {"find", "ensure", "fetch", "build"} =>
       /\ Ready(job[r].ctx, store, torn)
       /\ job[r].hops = 0 /\ http[r].key[1] \in Ids => job[r].ctx.id = http[r].key[1]
       /\ job[r].hops = 1 => Deployed(r)
  /\ job[r].st \in {"ensure", "fetch", "build"} => Deployed(r)

HopInv == \A r \in Callers : Hop(r)

\* What is built, cached, put in the space and answered.
Good(k, f, bad) == /\ f.whole /\ RightFile(k, f)
                   /\ ~f.complete => f.lost \/ Content[f.id] \cap bad # {}
Servable(k, f) == f.whole /\ (f.id = Nil \/ RightFile(k, f))

CacheGood == \A k \in Keys : cache[k] # Nil => Good(k, cache[k], torn)

SpaceGood == \A k \in Keys : space[k] # Nil => Servable(k, space[k])

DataGood == \A r \in Callers : job[r].data # Nil => Good(http[r].key, job[r].data, torn)

AnswerGood(r) ==
  /\ http[r].reply.file # Nil => Servable(http[r].key, http[r].reply.file)
  /\ http[r].reply.code = 500 => job[r].st \in {"sent", "none"} /\ job[r].data = Nil

AnswersGood == \A r \in Callers : AnswerGood(r)

\* Without a cap nothing leaves the cache.
Fresh(r) ==
  /\ /\ job[r].st \in {"put", "putmanifest", "lru", "send", "sent"}
     /\ job[r].data # Nil /\ job[r].data.saved
     => cache[http[r].key] = job[r].data
  /\ http[r].reply.from \in {"fresh", "fresh-slow", "cache"} =>
       /\ http[r].key \in Keys /\ http[r].reply.file # Nil
       /\ http[r].reply.file.saved => cache[http[r].key] = http[r].reply.file

FreshInv == ~Capped => \A r \in Callers : Fresh(r)

-----------------------------------------------------------------------------
\* The bundle lock is with its holder until a worker of the bundle lets it go.
LEMMA LockStep == CallersInv /\ LockInv /\ [Next]_vars => LockInv'
<1> SUFFICES ASSUME CallersInv, LockInv, [Next]_vars PROVE LockInv'
  OBVIOUS
<1>t. ServeTypes /\ Phases
  BY DEF CallersInv
<1>k. \A r \in Callers : job[r].st # "none" => http[r].key \in Keys
  BY DEF CallersInv, Phases
<1> USE <1>t, <1>k DEF LockInv
<1>1. ASSUME NEW r \in Callers, NEW a \in Asks, RouteBundle(r, a) PROVE LockInv'
  <2>1. /\ http[r].st = "new" /\ job' = job /\ bundleLock' = bundleLock /\ cache' = cache
        /\ tmp' = tmp /\ \A q \in Callers \ {r} : http'[q] = http[q]
    BY <1>1 DEF RouteBundle, ServeTypes, evars
  <2>2. job[r].st = "none"
    BY <2>1 DEF Phases
  <2> QED
    BY <2>1, <2>2 DEF Locked, Building
<1>2. ASSUME NEW r \in Callers, NEW a \in Asks, RouteFlat(r, a) PROVE LockInv'
  <2>1. /\ http[r].st = "new" /\ job' = job /\ bundleLock' = bundleLock /\ cache' = cache
        /\ tmp' = tmp /\ \A q \in Callers \ {r} : http'[q] = http[q]
    BY <1>2 DEF RouteFlat, ServeTypes, evars, Answer
  <2>2. job[r].st = "none"
    BY <2>1 DEF Phases
  <2> QED
    BY <2>1, <2>2 DEF Locked, Building
<1>3. ASSUME NEW r \in Callers, NEW a \in Asks, RouteManifest(r, a) PROVE LockInv'
  BY <1>3 DEF RouteManifest, Call, IdleCall, ServeTypes, Locked, Building
<1>4. ASSUME NEW r \in Callers, NEW names \in Posts, RoutePost(r, names) PROVE LockInv'
  BY <1>4 DEF RoutePost, PostBegin, IdleCall, ServeTypes, Locked, Building
<1>5. ASSUME NEW r \in Callers, ManifestOk(r) PROVE LockInv'
  BY <1>5 DEF ManifestOk, Answer, Return, IdleCall, ServeTypes, Locked, Building
<1>6. ASSUME NEW r \in Callers, ManifestErr(r) PROVE LockInv'
  <2>1. /\ http[r].st = "manifest" /\ job' = job /\ bundleLock' = bundleLock /\ cache' = cache
        /\ tmp' = tmp /\ \A q \in Callers \ {r} : http'[q] = http[q]
    BY <1>6 DEF ManifestErr, ServeTypes, evars, Answer
  <2>2. job[r].st = "none"
    BY <2>1 DEF Phases
  <2> QED
    BY <2>1, <2>2 DEF Locked, Building
<1>7. ASSUME NEW r \in Callers, PostReply(r) PROVE LockInv'
  BY <1>7 DEF PostReply, Answer, evars, ServeTypes, Locked, Building
<1>8. ASSUME NEW r \in Callers, ProbeHit(r) PROVE LockInv'
  BY <1>8 DEF ProbeHit, Answer, evars, ServeTypes, Locked, Building
<1>9. ASSUME NEW r \in Callers, ProbeMiss(r) PROVE LockInv'
  BY <1>9 DEF ProbeMiss, evars, ServeTypes, Locked, Building
<1>10. ASSUME NEW r \in Callers, Receive(r) PROVE LockInv'
  BY <1>10 DEF Receive, Answer, evars, ServeTypes, Locked, Building
<1>11. ASSUME NEW r \in Callers, TimeOut(r) PROVE LockInv'
  BY <1>11 DEF TimeOut, evars, ServeTypes, Locked, Building
<1>12. ASSUME NEW r \in Callers, FallbackHit(r) PROVE LockInv'
  BY <1>12 DEF FallbackHit, Answer, evars, ServeTypes, Locked, Building
<1>13. ASSUME NEW r \in Callers, FallbackMiss(r) PROVE LockInv'
  <2>1. /\ job' = job /\ bundleLock' = bundleLock /\ cache' = cache /\ tmp' = tmp
    BY <1>13 DEF FallbackMiss
  <2>2. \A q \in Callers : http'[q].key = http[q].key
    <3>1. CASE http[r].st = "failed"
      BY <1>13, GaveUp DEF OnlyHttp
    <3>2. CASE http[r].st # "failed"
      <4>1. http' = [http EXCEPT ![r].st = "block"]
        BY <1>13, <3>2 DEF FallbackMiss
      <4> QED
        BY <4>1 DEF ServeTypes
    <3> QED
      BY <3>1, <3>2
  <2> QED
    BY <2>1, <2>2 DEF Locked, Building
<1>14. ASSUME NEW r \in Callers, ReceiveSlow(r) PROVE LockInv'
  BY <1>14 DEF ReceiveSlow, Answer, evars, ServeTypes, Locked, Building
<1>15. ASSUME NEW r \in Callers, JobProbe(r) PROVE LockInv'
  BY <1>15 DEF JobProbe, evars, ServeTypes, Locked, Building
<1>16. ASSUME NEW r \in Callers, JobLock(r) PROVE LockInv'
  <2>1. /\ bundleLock[http[r].key] = Nil /\ bundleLock' = [bundleLock EXCEPT ![http[r].key] = r]
        /\ job' = [job EXCEPT ![r].st = "recheck"] /\ http' = http /\ cache' = cache /\ tmp' = tmp
        /\ http[r].key \in Keys
    BY <1>16, <1>k DEF JobLock
  <2>2. Nil \notin Callers
    BY EntityCtxAssumption
  <2>3. /\ bundleLock'[http[r].key] = r
        /\ job'[r].st = "recheck"
        /\ \A q \in Callers \ {r} : job'[q] = job[q]
    BY <2>1 DEF ServeTypes
  <2>4. ASSUME NEW q \in Callers \ {r}, job[q].st \in Locked PROVE bundleLock'[http[q].key] = q
    BY <2>1, <2>2, <2>4, <1>k DEF Locked, Building, ServeTypes
  <2> QED
    BY <2>1, <2>3, <2>4 DEF Locked, Building
<1>17. ASSUME NEW r \in Callers, JobRecheckHit(r) PROVE LockInv'
  BY <1>17 DEF JobRecheckHit, Unlock, evars, ServeTypes, Locked, Building
<1>18. ASSUME NEW r \in Callers, JobRecheckMiss(r) PROVE LockInv'
  BY <1>18 DEF JobRecheckMiss, Call, IdleCall, ServeTypes, Locked, Building
<1>19. ASSUME NEW r \in Callers, JobCtxOk(r) PROVE LockInv'
  BY <1>19 DEF JobCtxOk, Return, IdleCall, ServeTypes, Locked, Building
<1>20. ASSUME NEW r \in Callers, JobCtxErr(r) PROVE LockInv'
  BY <1>20 DEF JobCtxErr, FailJob, Unlock, Return, IdleCall, ServeTypes, Locked, Building
<1>21. ASSUME NEW r \in Callers, JobFound(r) PROVE LockInv'
  BY <1>21 DEF JobFound, evars, ServeTypes, Locked, Building
<1>22. ASSUME NEW r \in Callers, JobFindOwner(r) PROVE LockInv'
  BY <1>22 DEF JobFindOwner, Call, IdleCall, ServeTypes, Locked, Building
<1>23. ASSUME NEW r \in Callers, JobNotFound(r) PROVE LockInv'
  BY <1>23 DEF JobNotFound, FailJob, Unlock, evars, ServeTypes, Locked, Building
<1>24. ASSUME NEW r \in Callers, JobEnsure(r) PROVE LockInv'
  <2>1. PICK st \in {"build", "fetch"} : Ensured(r, st)
    BY <1>24, EnsureMoves
  <2> QED
    BY <2>1 DEF Ensured, ServeTypes, Locked, Building
<1>25. ASSUME NEW r \in Callers, JobFetchOk(r) PROVE LockInv'
  BY <1>25 DEF JobFetchOk, BuildFetched, IdleCall, ServeTypes, Locked, Building
<1>26. ASSUME NEW r \in Callers, JobFetchFail(r) PROVE LockInv'
  BY <1>26 DEF JobFetchFail, FailJob, Unlock, evars, ServeTypes, Locked, Building
<1>27. ASSUME NEW r \in Callers, JobBuildOk(r) PROVE LockInv'
  BY <1>27 DEF JobBuildOk, evars, ServeTypes, Locked, Building
<1>28. ASSUME NEW r \in Callers, JobBuildFail(r) PROVE LockInv'
  BY <1>28 DEF JobBuildFail, FailJob, Unlock, evars, ServeTypes, Locked, Building
<1>29. ASSUME NEW r \in Callers, JobWrite(r) PROVE LockInv'
  BY <1>29 DEF JobWrite, evars, ServeTypes, Locked, Building
<1>30. ASSUME NEW r \in Callers, JobWritten(r) PROVE LockInv'
  BY <1>30 DEF JobWritten, evars, ServeTypes, Locked, Building
<1>31. ASSUME NEW r \in Callers, JobWriteFail(r) PROVE LockInv'
  BY <1>31 DEF JobWriteFail, FailJob, Unlock, evars, ServeTypes, Locked, Building
<1>32. ASSUME NEW r \in Callers, JobRename(r) PROVE LockInv'
  BY <1>32 DEF JobRename, Unlock, evars, ServeTypes, Locked, Building
<1>33. ASSUME NEW r \in Callers, JobPut(r) PROVE LockInv'
  BY <1>33 DEF JobPut, evars, ServeTypes, Locked, Building
<1>34. ASSUME NEW r \in Callers, JobPutManifest(r) PROVE LockInv'
  BY <1>34 DEF JobPutManifest, evars, ServeTypes, Locked, Building
<1>35. ASSUME NEW r \in Callers, JobEvict(r) PROVE LockInv'
  BY <1>35 DEF JobEvict, evars, ServeTypes, Locked, Building
<1>36. ASSUME NEW r \in Callers, JobSend(r) PROVE LockInv'
  BY <1>36 DEF JobSend, evars, ServeTypes, Locked, Building
<1>37. ASSUME NEW r \in Callers, TableStep(r) PROVE LockInv'
  BY <1>37 DEF TableStep, svars, ServeTypes, Locked, Building
<1>38. CASE CatalystStep
  BY <1>38 DEF CatalystStep, svars, ServeTypes, Locked, Building
<1>39. CASE Crash
  <2>1. \A q \in Callers : job'[q].st = "none"
    BY <1>39 DEF Crash, NoJob
  <2> QED
    BY <2>1 DEF Locked, Building
<1>40. CASE Finished
  BY <1>40 DEF Finished, vars, svars, evars, ServeTypes, Locked, Building
<1>41. CASE UNCHANGED vars
  BY <1>41 DEF vars, svars, evars, ServeTypes, Locked, Building
<1>42. ASSUME NEW r \in Callers, JobFetchOpen(r) PROVE LockInv'
  BY <1>42 DEF JobFetchOpen, svars, ServeTypes, Locked, Building
<1>43. ASSUME NEW r \in Callers, JobRenameFail(r) PROVE LockInv'
  BY <1>43 DEF JobRenameFail, Unlock, evars, ServeTypes, Locked, Building
<1> QED
  BY <1>1, <1>2, <1>3, <1>4, <1>5, <1>6, <1>7, <1>8, <1>9, <1>10, <1>11, <1>12, <1>13,
     <1>14, <1>15, <1>16, <1>17, <1>18, <1>19, <1>20, <1>21, <1>22, <1>23, <1>24, <1>25,
     <1>26, <1>27, <1>28, <1>29, <1>30, <1>31, <1>32, <1>33, <1>34, <1>35, <1>36, <1>37,
     <1>38, <1>39, <1>40, <1>41, <1>42, <1>43
     DEF Next, Arrive, HandlerStep, JobStep

-----------------------------------------------------------------------------
\* What other threads do does not disturb a build.
LEMMA HopFrame ==
  ASSUME CallersInv, FlightInv, NEW r \in Callers, Hop(r),
         store \subseteq store', torn \subseteq torn',
         \A h \in Hashes : hashIndex[h] # Nil => hashIndex'[h] = hashIndex[h],
         job'[r] = job[r], http'[r].key = http[r].key,
         job[r].st = "ctx" => call'[r].cid = call[r].cid
  PROVE  Hop(r)'
<1>1. job[r].st = "ctx" =>
        /\ http[r].key[2] \in Hashes
        /\ call[r].cid # Nil
  BY KeysTyped, EntityCtxAssumption DEF CallersInv, Phases, FlightInv, FieldsOK
<1>2. job[r].st = "ctx" => call'[r].cid = IF job[r].hops = 0 THEN http[r].key[1]
                                          ELSE hashIndex'[http[r].key[2]]
  BY <1>1 DEF Hop
<1>3. Ready(job[r].ctx, store, torn) => Ready(job[r].ctx, store', torn')
  BY DEF Ready
<1>4. Deployed(r) => Deployed(r)'
  BY DEF Deployed
<1> QED
  BY <1>2, <1>3, <1>4 DEF Hop, Borrowed

\* An index entry that entity_ctx was called for has led to an entity that
\* deploys the hash.
LEMMA OwnerFound ==
  ASSUME FlightInv, TableInv, ScanInv, NEW r \in Callers, NEW h \in Hashes, call[r].pc = "ok"
  PROVE  /\ Ready(call[r].ctx, store, torn)
         /\ call[r].cid \in Ids => call[r].ctx.id = call[r].cid
         /\ call[r].cid = hashIndex[h] => h \in Content[call[r].ctx.id]
<1>1. call[r].cid \in Cids /\ call[r].ctx \in Ctx /\ call[r].ctx = entities[call[r].cid]
  BY DEF FlightInv, FieldsOK, AnswerIsEntry
<1>2. entities[call[r].cid] # Nil
  BY <1>1, EntityCtxAssumption
<1>3. Ready(call[r].ctx, store, torn)
  BY <1>1, <1>2 DEF ScanInv, EntryStored, ScanMissesOnlyLostOrTorn, Ready
<1>4. call[r].cid \in Ids => call[r].ctx.id = call[r].cid
  BY <1>1, <1>2 DEF TableInv, EntryIsNamed
<1>5. ASSUME call[r].cid = hashIndex[h] PROVE h \in Content[call[r].ctx.id]
  <2>1. IndexedOwnerDeploys(h, call[r].cid)
    BY <1>1, <1>5, EntityCtxAssumption DEF TableInv, IndexSound
  <2>2. ASSUME NEW t \in Callers, call[t].pc = "insert" PROVE call[t].cid # call[r].cid
    BY <1>2, <2>2 DEF FlightInv, WorkOnlyWhenMissing, Working
  <2> QED
    BY <1>1, <1>4, <2>1, <2>2 DEF IndexedOwnerDeploys
<1> QED
  BY <1>3, <1>4, <1>5

\* A build re-resolves its hash once at most.
LEMMA HopStep ==
  CallersInv /\ FlightInv /\ TableInv /\ ScanInv /\ HopInv /\ [Next]_vars => HopInv'
<1> SUFFICES ASSUME CallersInv, FlightInv, TableInv, ScanInv, HopInv, [Next]_vars PROVE HopInv'
  OBVIOUS
<1>t. ServeTypes /\ Phases
  BY DEF CallersInv
<1>s. store \subseteq store' /\ torn \subseteq torn'
  BY TableUsed, StoreGrows
<1>f. ASSUME \A h \in Hashes : hashIndex[h] # Nil => hashIndex'[h] = hashIndex[h]
      PROVE  \A q \in Callers :
               /\ job'[q] = job[q] /\ http'[q].key = http[q].key
               /\ job[q].st = "ctx" => call'[q].cid = call[q].cid
               => Hop(q)'
  BY <1>f, <1>s, HopFrame DEF HopInv
<1>h. \A r \in Callers : Hop(r)
  BY DEF HopInv
<1> USE <1>t
<1>1. ASSUME NEW r \in Callers, NEW a \in Asks, RouteBundle(r, a) PROVE HopInv'
  <2>1. /\ hashIndex' = hashIndex
        /\ \A q \in Callers \ {r} : job'[q] = job[q] /\ http'[q] = http[q] /\ call'[q] = call[q]
    BY <1>1 DEF RouteBundle, evars, ServeTypes, JobState
  <2>2. Hop(r)'
    BY <1>1, <1>h DEF RouteBundle, evars, ServeTypes, JobState, HopInv, Hop, Phases, Deployed,
         Borrowed
  <2> QED
    BY <1>f, <2>1, <2>2 DEF HopInv
<1>2. ASSUME NEW r \in Callers, NEW a \in Asks, RouteFlat(r, a) PROVE HopInv'
  <2>1. hashIndex' = hashIndex /\ job' = job /\ http[r].st = "new" /\ call' = call
    BY <1>2 DEF RouteFlat, Return, evars, FlightInv, TypeOK
  <2>2. \A q \in Callers \ {r} : http'[q] = http[q]
    BY <1>2, FlatRouted DEF OnlyHttp
  <2>3. Hop(r)'
    BY <2>1 DEF Phases, Hop
  <2> QED
    BY <1>f, <2>1, <2>2, <2>3 DEF HopInv
<1>3. ASSUME NEW r \in Callers, NEW a \in Asks, RouteManifest(r, a) PROVE HopInv'
  <2>1. /\ hashIndex' = hashIndex
        /\ \A q \in Callers \ {r} : job'[q] = job[q] /\ http'[q] = http[q] /\ call'[q] = call[q]
    BY <1>3 DEF RouteManifest, Call, IdleCall, ServeTypes, JobState
  <2>2. Hop(r)'
    BY <1>3, <1>h DEF RouteManifest, Call, IdleCall, ServeTypes, JobState, HopInv, Hop, Phases,
         Deployed, Borrowed
  <2> QED
    BY <1>f, <2>1, <2>2 DEF HopInv
<1>4. ASSUME NEW r \in Callers, NEW names \in Posts, RoutePost(r, names) PROVE HopInv'
  <2>1. /\ hashIndex' = hashIndex
        /\ \A q \in Callers \ {r} : job'[q] = job[q] /\ http'[q] = http[q] /\ call'[q] = call[q]
    BY <1>4 DEF RoutePost, PostBegin, IdleCall, ServeTypes, JobState
  <2>2. Hop(r)'
    BY <1>4, <1>h DEF RoutePost, PostBegin, IdleCall, ServeTypes, JobState, HopInv, Hop, Phases,
         Deployed, Borrowed
  <2> QED
    BY <1>f, <2>1, <2>2 DEF HopInv
<1>5. ASSUME NEW r \in Callers, ManifestOk(r) PROVE HopInv'
  <2>1. /\ hashIndex' = hashIndex
        /\ \A q \in Callers \ {r} : job'[q] = job[q] /\ http'[q] = http[q] /\ call'[q] = call[q]
    BY <1>5 DEF ManifestOk, Answer, Return, IdleCall, ServeTypes, JobState
  <2>2. Hop(r)'
    BY <1>5, <1>h DEF ManifestOk, Answer, Return, IdleCall, ServeTypes, JobState, HopInv, Hop,
         Phases, Deployed, Borrowed
  <2> QED
    BY <1>f, <2>1, <2>2 DEF HopInv
<1>6. ASSUME NEW r \in Callers, ManifestErr(r) PROVE HopInv'
  <2>1. /\ hashIndex' = hashIndex
        /\ job' = job
        /\ http[r].st = "manifest"
        /\ \A q \in Callers \ {r} : call'[q] = call[q]
    BY <1>6 DEF ManifestErr, Return, evars, FlightInv, TypeOK
  <2>2. \A q \in Callers \ {r} : http'[q] = http[q]
    BY <1>6, ManifestGone DEF OnlyHttp
  <2>3. Hop(r)'
    BY <2>1 DEF Phases, Hop
  <2> QED
    BY <1>f, <2>1, <2>2, <2>3 DEF HopInv
<1>7. ASSUME NEW r \in Callers, PostReply(r) PROVE HopInv'
  <2>1. /\ hashIndex' = hashIndex
        /\ \A q \in Callers : job'[q] = job[q] /\ http'[q].key = http[q].key /\ call'[q] = call[q]
    BY <1>7 DEF PostReply, Answer, ServeTypes, evars
  <2> QED
    BY <1>f, <2>1 DEF HopInv
<1>8. ASSUME NEW r \in Callers, ProbeHit(r) PROVE HopInv'
  <2>1. /\ hashIndex' = hashIndex
        /\ \A q \in Callers : job'[q] = job[q] /\ http'[q].key = http[q].key /\ call'[q] = call[q]
    BY <1>8 DEF ProbeHit, Answer, ServeTypes, evars
  <2> QED
    BY <1>f, <2>1 DEF HopInv
<1>9. ASSUME NEW r \in Callers, ProbeMiss(r) PROVE HopInv'
  <2>1. /\ hashIndex' = hashIndex
        /\ \A q \in Callers \ {r} : job'[q] = job[q] /\ http'[q] = http[q] /\ call'[q] = call[q]
    BY <1>9 DEF ProbeMiss, evars, ServeTypes, JobState
  <2>2. Hop(r)'
    BY <1>9, <1>h DEF ProbeMiss, evars, ServeTypes, JobState, HopInv, Hop, Phases, Deployed,
         Borrowed
  <2> QED
    BY <1>f, <2>1, <2>2 DEF HopInv
<1>10. ASSUME NEW r \in Callers, Receive(r) PROVE HopInv'
  <2>1. hashIndex' = hashIndex /\ job' = job /\ call' = call
    BY <1>10 DEF Receive, evars
  <2>2. \A q \in Callers : http'[q].key = http[q].key
    BY <1>10, Received DEF OnlyHttp
  <2> QED
    BY <1>f, <2>1, <2>2 DEF HopInv
<1>11. ASSUME NEW r \in Callers, TimeOut(r) PROVE HopInv'
  <2>1. /\ hashIndex' = hashIndex
        /\ \A q \in Callers : job'[q] = job[q] /\ http'[q].key = http[q].key /\ call'[q] = call[q]
    BY <1>11 DEF TimeOut, ServeTypes, evars
  <2> QED
    BY <1>f, <2>1 DEF HopInv
<1>12. ASSUME NEW r \in Callers, FallbackHit(r) PROVE HopInv'
  <2>1. /\ hashIndex' = hashIndex
        /\ \A q \in Callers : job'[q] = job[q] /\ http'[q].key = http[q].key /\ call'[q] = call[q]
    BY <1>12 DEF FallbackHit, Answer, ServeTypes, evars
  <2> QED
    BY <1>f, <2>1 DEF HopInv
<1>13. ASSUME NEW r \in Callers, FallbackMiss(r) PROVE HopInv'
  <2>1. hashIndex' = hashIndex /\ job' = job /\ call' = call
    BY <1>13 DEF FallbackMiss, evars
  <2>2. \A q \in Callers : http'[q].key = http[q].key
    BY <1>13, GaveUp DEF OnlyHttp
  <2> QED
    BY <1>f, <2>1, <2>2 DEF HopInv
<1>14. ASSUME NEW r \in Callers, ReceiveSlow(r) PROVE HopInv'
  <2>1. hashIndex' = hashIndex /\ job' = job /\ call' = call
    BY <1>14 DEF ReceiveSlow, evars
  <2>2. \A q \in Callers : http'[q].key = http[q].key
    BY <1>14, ReceivedSlow DEF OnlyHttp
  <2> QED
    BY <1>f, <2>1, <2>2 DEF HopInv
<1>15. ASSUME NEW r \in Callers, JobProbe(r) PROVE HopInv'
  <2>1. /\ hashIndex' = hashIndex
        /\ \A q \in Callers \ {r} : job'[q] = job[q] /\ http'[q] = http[q] /\ call'[q] = call[q]
    BY <1>15 DEF JobProbe, evars, ServeTypes, JobState
  <2>2. Hop(r)'
    BY <1>15, <1>h DEF JobProbe, evars, ServeTypes, JobState, HopInv, Hop, Phases, Deployed,
         Borrowed
  <2> QED
    BY <1>f, <2>1, <2>2 DEF HopInv
<1>16. ASSUME NEW r \in Callers, JobLock(r) PROVE HopInv'
  <2>1. /\ hashIndex' = hashIndex
        /\ \A q \in Callers \ {r} : job'[q] = job[q] /\ http'[q] = http[q] /\ call'[q] = call[q]
    BY <1>16 DEF JobLock, evars, ServeTypes, JobState
  <2>2. Hop(r)'
    BY <1>16, <1>h DEF JobLock, evars, ServeTypes, JobState, HopInv, Hop, Phases, Deployed, Borrowed
  <2> QED
    BY <1>f, <2>1, <2>2 DEF HopInv
<1>17. ASSUME NEW r \in Callers, JobRecheckHit(r) PROVE HopInv'
  <2>1. /\ hashIndex' = hashIndex
        /\ \A q \in Callers \ {r} : job'[q] = job[q] /\ http'[q] = http[q] /\ call'[q] = call[q]
    BY <1>17 DEF JobRecheckHit, Unlock, evars, ServeTypes, JobState
  <2>2. Hop(r)'
    BY <1>17, <1>h DEF JobRecheckHit, Unlock, evars, ServeTypes, JobState, HopInv, Hop, Phases,
         Deployed, Borrowed
  <2> QED
    BY <1>f, <2>1, <2>2 DEF HopInv
<1>18. ASSUME NEW r \in Callers, JobRecheckMiss(r) PROVE HopInv'
  <2>1. /\ hashIndex' = hashIndex
        /\ \A q \in Callers \ {r} : job'[q] = job[q] /\ http'[q] = http[q] /\ call'[q] = call[q]
    BY <1>18 DEF JobRecheckMiss, Call, ServeTypes
  <2>2. call'[r].cid = http[r].key[1]
    BY <1>18 DEF JobRecheckMiss, Call, IdleCall, FlightInv, TypeOK
  <2>3. job'[r].st = "ctx" /\ job'[r].hops = 0 /\ http' = http
    BY <1>18 DEF JobRecheckMiss, ServeTypes, JobState, Phases
  <2>4. Hop(r)'
    BY <2>2, <2>3 DEF Hop
  <2> QED
    BY <1>f, <2>1, <2>4 DEF HopInv
<1>19. ASSUME NEW r \in Callers, JobCtxOk(r) PROVE HopInv'
  <2>1. /\ hashIndex' = hashIndex
        /\ \A q \in Callers \ {r} : job'[q] = job[q] /\ http'[q] = http[q] /\ call'[q] = call[q]
    BY <1>19 DEF JobCtxOk, Return, ServeTypes
  <2>2. /\ job'[r].st = "find"
        /\ job'[r].hops = job[r].hops
        /\ job'[r].ctx = call[r].ctx
        /\ http' = http
        /\ store' = store /\ torn' = torn
    BY <1>19 DEF JobCtxOk, Return, ServeTypes, JobState
  <2>3. /\ job[r].st = "ctx" /\ call[r].pc = "ok" /\ http[r].key[2] \in Hashes
    BY <1>19, KeysTyped DEF JobCtxOk
  <2>4. /\ Ready(call[r].ctx, store, torn)
        /\ call[r].cid \in Ids => call[r].ctx.id = call[r].cid
        /\ call[r].cid = hashIndex[http[r].key[2]] => http[r].key[2] \in Content[call[r].ctx.id]
    BY <2>3, OwnerFound
  <2>5. Hop(r)
    BY <1>h
  <2>6. Ready(job'[r].ctx, store', torn')
    BY <2>2, <2>4 DEF Ready
  <2>7. job[r].hops = 1 => Deployed(r)'
    BY <2>2, <2>3, <2>4, <2>5 DEF Hop, Deployed
  <2>8. job[r].hops = 0 /\ http[r].key[1] \in Ids => call[r].ctx.id = http[r].key[1]
    BY <2>3, <2>4, <2>5 DEF Hop
  <2>9. Hop(r)'
    BY <2>2, <2>5, <2>6, <2>7, <2>8 DEF Hop, Borrowed
  <2> QED
    BY <1>f, <2>1, <2>9 DEF HopInv
<1>20. ASSUME NEW r \in Callers, JobCtxErr(r) PROVE HopInv'
  <2>1. /\ hashIndex' = hashIndex
        /\ \A q \in Callers \ {r} : job'[q] = job[q] /\ http'[q] = http[q] /\ call'[q] = call[q]
    BY <1>20 DEF JobCtxErr, FailJob, Unlock, Return, IdleCall, ServeTypes, JobState
  <2>2. Hop(r)'
    BY <1>20, <1>h DEF JobCtxErr, FailJob, Unlock, Return, IdleCall, ServeTypes, JobState, HopInv,
         Hop, Phases, Deployed, Borrowed
  <2> QED
    BY <1>f, <2>1, <2>2 DEF HopInv
<1>21. ASSUME NEW r \in Callers, JobFound(r) PROVE HopInv'
  <2>1. /\ hashIndex' = hashIndex
        /\ \A q \in Callers \ {r} : job'[q] = job[q] /\ http'[q] = http[q] /\ call'[q] = call[q]
    BY <1>21 DEF JobFound, evars, ServeTypes
  <2>2. /\ job'[r].st = "ensure"
        /\ job'[r].hops = job[r].hops
        /\ job'[r].ctx = job[r].ctx
        /\ http' = http
        /\ job[r].st \in {"find", "ensure", "fetch", "build"}
    BY <1>21 DEF JobFound, evars, ServeTypes, JobState
  <2>3. Hop(r) /\ Deployed(r)
    BY <1>21, <1>h DEF JobFound, Hop
  <2>4. Ready(job[r].ctx, store, torn) => Ready(job[r].ctx, store', torn')
    BY <1>s DEF Ready
  <2>5. (Deployed(r) => Deployed(r)')
    BY <2>2 DEF Ready, Deployed
  <2>6. Hop(r)'
    BY <2>2, <2>3, <2>4, <2>5 DEF Hop, Borrowed
  <2> QED
    BY <1>f, <2>1, <2>6 DEF HopInv
<1>22. ASSUME NEW r \in Callers, JobFindOwner(r) PROVE HopInv'
  <2>1. /\ hashIndex' = hashIndex
        /\ \A q \in Callers \ {r} : job'[q] = job[q] /\ http'[q] = http[q] /\ call'[q] = call[q]
    BY <1>22 DEF JobFindOwner, Call, IdleCall, ServeTypes, JobState
  <2>2. Hop(r)'
    BY <1>22, <1>h DEF JobFindOwner, Call, IdleCall, ServeTypes, JobState, HopInv, Hop, Phases,
         Deployed, Borrowed
  <2> QED
    BY <1>f, <2>1, <2>2 DEF HopInv
<1>23. ASSUME NEW r \in Callers, JobNotFound(r) PROVE HopInv'
  <2>1. /\ hashIndex' = hashIndex
        /\ \A q \in Callers \ {r} : job'[q] = job[q] /\ http'[q] = http[q] /\ call'[q] = call[q]
    BY <1>23 DEF JobNotFound, FailJob, Unlock, evars, ServeTypes, JobState
  <2>2. Hop(r)'
    BY <1>23, <1>h DEF JobNotFound, FailJob, Unlock, evars, ServeTypes, JobState, HopInv, Hop,
         Phases, Deployed, Borrowed
  <2> QED
    BY <1>f, <2>1, <2>2 DEF HopInv
<1>24. ASSUME NEW r \in Callers, JobEnsure(r) PROVE HopInv'
  <2>1. /\ hashIndex' = hashIndex
        /\ \A q \in Callers \ {r} : job'[q] = job[q] /\ http'[q] = http[q] /\ call'[q] = call[q]
    BY <1>24, EnsureMoves DEF Ensured, ServeTypes
  <2>2. /\ job'[r].st \in {"build", "fetch"}
        /\ job'[r].hops = job[r].hops
        /\ job'[r].ctx = job[r].ctx
        /\ http' = http
        /\ job[r].st \in {"find", "ensure", "fetch", "build"}
    BY <1>24, EnsureMoves DEF Ensured, ServeTypes, JobState
  <2>3. Hop(r) /\ Deployed(r)
    BY <1>24, <1>h DEF JobEnsure, Hop
  <2>4. Ready(job[r].ctx, store, torn) => Ready(job[r].ctx, store', torn')
    BY <1>s DEF Ready
  <2>5. (Deployed(r) => Deployed(r)')
    BY <2>2 DEF Ready, Deployed
  <2>6. Hop(r)'
    BY <2>2, <2>3, <2>4, <2>5 DEF Hop, Borrowed
  <2> QED
    BY <1>f, <2>1, <2>6 DEF HopInv
<1>25. ASSUME NEW r \in Callers, JobFetchOk(r) PROVE HopInv'
  <2>1. /\ hashIndex' = hashIndex
        /\ \A q \in Callers \ {r} : job'[q] = job[q] /\ http'[q] = http[q] /\ call'[q] = call[q]
    BY <1>25 DEF JobFetchOk, BuildFetched, IdleCall, ServeTypes
  <2>2. /\ job'[r].st = "build"
        /\ job'[r].hops = job[r].hops
        /\ job'[r].ctx = job[r].ctx
        /\ http' = http
        /\ job[r].st \in {"find", "ensure", "fetch", "build"}
    BY <1>25 DEF JobFetchOk, BuildFetched, IdleCall, ServeTypes, JobState
  <2>3. Hop(r) /\ Deployed(r)
    BY <1>25, <1>h DEF JobFetchOk, Hop
  <2>4. Ready(job[r].ctx, store, torn) => Ready(job[r].ctx, store', torn')
    BY <1>s DEF Ready
  <2>5. (Deployed(r) => Deployed(r)')
    BY <2>2 DEF Ready, Deployed
  <2>6. Hop(r)'
    BY <2>2, <2>3, <2>4, <2>5 DEF Hop, Borrowed
  <2> QED
    BY <1>f, <2>1, <2>6 DEF HopInv
<1>26. ASSUME NEW r \in Callers, JobFetchFail(r) PROVE HopInv'
  <2>1. /\ hashIndex' = hashIndex
        /\ \A q \in Callers \ {r} : job'[q] = job[q] /\ http'[q] = http[q] /\ call'[q] = call[q]
    BY <1>26 DEF JobFetchFail, BuildFetchFail, FailJob, Unlock, ServeTypes, JobState
  <2>2. Hop(r)'
    BY <1>26, <1>h DEF JobFetchFail, BuildFetchFail, FailJob, Unlock, ServeTypes, JobState, HopInv,
         Hop, Phases, Deployed, Borrowed
  <2> QED
    BY <1>f, <2>1, <2>2 DEF HopInv
<1>27. ASSUME NEW r \in Callers, JobBuildOk(r) PROVE HopInv'
  <2>1. /\ hashIndex' = hashIndex
        /\ \A q \in Callers \ {r} : job'[q] = job[q] /\ http'[q] = http[q] /\ call'[q] = call[q]
    BY <1>27 DEF JobBuildOk, evars, ServeTypes, JobState
  <2>2. Hop(r)'
    BY <1>27, <1>h DEF JobBuildOk, evars, ServeTypes, JobState, HopInv, Hop, Phases, Deployed,
         Borrowed
  <2> QED
    BY <1>f, <2>1, <2>2 DEF HopInv
<1>28. ASSUME NEW r \in Callers, JobBuildFail(r) PROVE HopInv'
  <2>1. /\ hashIndex' = hashIndex
        /\ \A q \in Callers \ {r} : job'[q] = job[q] /\ http'[q] = http[q] /\ call'[q] = call[q]
    BY <1>28 DEF JobBuildFail, FailJob, Unlock, evars, ServeTypes, JobState
  <2>2. Hop(r)'
    BY <1>28, <1>h DEF JobBuildFail, FailJob, Unlock, evars, ServeTypes, JobState, HopInv, Hop,
         Phases, Deployed, Borrowed
  <2> QED
    BY <1>f, <2>1, <2>2 DEF HopInv
<1>29. ASSUME NEW r \in Callers, JobWrite(r) PROVE HopInv'
  <2>1. /\ hashIndex' = hashIndex
        /\ \A q \in Callers \ {r} : job'[q] = job[q] /\ http'[q] = http[q] /\ call'[q] = call[q]
    BY <1>29 DEF JobWrite, evars, ServeTypes, JobState
  <2>2. Hop(r)'
    BY <1>29, <1>h DEF JobWrite, evars, ServeTypes, JobState, HopInv, Hop, Phases, Deployed,
         Borrowed
  <2> QED
    BY <1>f, <2>1, <2>2 DEF HopInv
<1>30. ASSUME NEW r \in Callers, JobWritten(r) PROVE HopInv'
  <2>1. /\ hashIndex' = hashIndex
        /\ \A q \in Callers \ {r} : job'[q] = job[q] /\ http'[q] = http[q] /\ call'[q] = call[q]
    BY <1>30 DEF JobWritten, evars, ServeTypes, JobState
  <2>2. Hop(r)'
    BY <1>30, <1>h DEF JobWritten, evars, ServeTypes, JobState, HopInv, Hop, Phases, Deployed,
         Borrowed
  <2> QED
    BY <1>f, <2>1, <2>2 DEF HopInv
<1>31. ASSUME NEW r \in Callers, JobWriteFail(r) PROVE HopInv'
  <2>1. /\ hashIndex' = hashIndex
        /\ \A q \in Callers \ {r} : job'[q] = job[q] /\ http'[q] = http[q] /\ call'[q] = call[q]
    BY <1>31 DEF JobWriteFail, FailJob, Unlock, evars, ServeTypes, JobState
  <2>2. Hop(r)'
    BY <1>31, <1>h DEF JobWriteFail, FailJob, Unlock, evars, ServeTypes, JobState, HopInv, Hop,
         Phases, Deployed, Borrowed
  <2> QED
    BY <1>f, <2>1, <2>2 DEF HopInv
<1>32. ASSUME NEW r \in Callers, JobRename(r) PROVE HopInv'
  <2>1. /\ hashIndex' = hashIndex
        /\ \A q \in Callers \ {r} : job'[q] = job[q] /\ http'[q] = http[q] /\ call'[q] = call[q]
    BY <1>32 DEF JobRename, Unlock, evars, ServeTypes, JobState
  <2>2. Hop(r)'
    BY <1>32, <1>h DEF JobRename, Unlock, evars, ServeTypes, JobState, HopInv, Hop, Phases,
         Deployed, Borrowed
  <2> QED
    BY <1>f, <2>1, <2>2 DEF HopInv
<1>33. ASSUME NEW r \in Callers, JobPut(r) PROVE HopInv'
  <2>1. /\ hashIndex' = hashIndex
        /\ \A q \in Callers \ {r} : job'[q] = job[q] /\ http'[q] = http[q] /\ call'[q] = call[q]
    BY <1>33 DEF JobPut, evars, ServeTypes, JobState
  <2>2. Hop(r)'
    BY <1>33, <1>h DEF JobPut, evars, ServeTypes, JobState, HopInv, Hop, Phases, Deployed, Borrowed
  <2> QED
    BY <1>f, <2>1, <2>2 DEF HopInv
<1>34. ASSUME NEW r \in Callers, JobPutManifest(r) PROVE HopInv'
  <2>1. /\ hashIndex' = hashIndex
        /\ \A q \in Callers \ {r} : job'[q] = job[q] /\ http'[q] = http[q] /\ call'[q] = call[q]
    BY <1>34 DEF JobPutManifest, evars, ServeTypes, JobState
  <2>2. Hop(r)'
    BY <1>34, <1>h DEF JobPutManifest, evars, ServeTypes, JobState, HopInv, Hop, Phases, Deployed,
         Borrowed
  <2> QED
    BY <1>f, <2>1, <2>2 DEF HopInv
<1>35. ASSUME NEW r \in Callers, JobEvict(r) PROVE HopInv'
  <2>1. /\ hashIndex' = hashIndex
        /\ \A q \in Callers \ {r} : job'[q] = job[q] /\ http'[q] = http[q] /\ call'[q] = call[q]
    BY <1>35 DEF JobEvict, evars, ServeTypes, JobState
  <2>2. Hop(r)'
    BY <1>35, <1>h DEF JobEvict, evars, ServeTypes, JobState, HopInv, Hop, Phases, Deployed,
         Borrowed
  <2> QED
    BY <1>f, <2>1, <2>2 DEF HopInv
<1>36. ASSUME NEW r \in Callers, JobSend(r) PROVE HopInv'
  <2>1. /\ hashIndex' = hashIndex
        /\ \A q \in Callers \ {r} : job'[q] = job[q] /\ http'[q] = http[q] /\ call'[q] = call[q]
    BY <1>36 DEF JobSend, evars, ServeTypes, JobState
  <2>2. Hop(r)'
    BY <1>36, <1>h DEF JobSend, evars, ServeTypes, JobState, HopInv, Hop, Phases, Deployed, Borrowed
  <2> QED
    BY <1>f, <2>1, <2>2 DEF HopInv
<1>37. ASSUME NEW r \in Callers, TableStep(r) PROVE HopInv'
  <2>1. RecordsKept /\ KeepsCall(r)
    BY <1>37, ThreadsKeepRecords, CallKept DEF TableStep
  <2>2. \A q \in Callers : job[q].st = "ctx" => call'[q].cid = call[q].cid
    BY <2>1 DEF KeepsCall, Phases
  <2> QED
    BY <1>37, <1>f, <2>1, <2>2 DEF TableStep, svars, RecordsKept, HopInv
<1>38. CASE CatalystStep
  BY <1>38, <1>f DEF CatalystStep, Redeploy, svars, HopInv
<1>39. CASE Crash
  BY <1>39 DEF Crash, NoJob, HopInv, Hop
<1>40. CASE Finished
  BY <1>40, <1>f DEF Finished, vars, evars, svars, HopInv
<1>41. CASE UNCHANGED vars
  BY <1>41, <1>f DEF vars, evars, svars, HopInv
<1>42. ASSUME NEW r \in Callers, JobFetchOpen(r) PROVE HopInv'
  <2>1. hashIndex' = hashIndex /\ job' = job /\ http' = http /\ job[r].st = "fetch"
    BY <1>42 DEF JobFetchOpen, OpenContent, svars
  <2>2. KeepsCall(r)
    BY <1>42, OpenKept DEF JobFetchOpen
  <2> QED
    BY <1>f, <2>1, <2>2 DEF KeepsCall, HopInv
<1>43. ASSUME NEW r \in Callers, JobRenameFail(r) PROVE HopInv'
  <2>1. /\ hashIndex' = hashIndex
        /\ \A q \in Callers \ {r} : job'[q] = job[q] /\ http'[q] = http[q] /\ call'[q] = call[q]
    BY <1>43 DEF JobRenameFail, Unlock, evars, ServeTypes, JobState
  <2>2. Hop(r)'
    BY <1>43, <1>h DEF JobRenameFail, Unlock, evars, ServeTypes, JobState, HopInv, Hop, Phases,
         Deployed, Borrowed
  <2> QED
    BY <1>f, <2>1, <2>2 DEF HopInv
<1> QED
  BY <1>1, <1>2, <1>3, <1>4, <1>5, <1>6, <1>7, <1>8, <1>9, <1>10, <1>11, <1>12, <1>13,
     <1>14, <1>15, <1>16, <1>17, <1>18, <1>19, <1>20, <1>21, <1>22, <1>23, <1>24, <1>25,
     <1>26, <1>27, <1>28, <1>29, <1>30, <1>31, <1>32, <1>33, <1>34, <1>35, <1>36, <1>37,
     <1>38, <1>39, <1>40, <1>41, <1>42, <1>43
     DEF Next, Arrive, HandlerStep, JobStep

-----------------------------------------------------------------------------
\* What is built is right for its path.
LEMMA BuiltGood ==
  ASSUME CallersInv, HopInv, NEW r \in Callers, NEW full \in BOOLEAN, job[r].st = "build",
         Reads(job[r].ctx, http[r].key[2]) \cap torn = {} => full
  PROVE  Good(http[r].key, Built(r, full), torn)
<1>1. job[r].ctx \in Ctx /\ Hop(r)
  BY BuiltTyped DEF HopInv
<1>4. http[r].key[2] \in Content[job[r].ctx.id]
  BY <1>1 DEF Hop, Deployed
<1>2. \/ full /\ Complete(job[r].ctx, http[r].key[2])
      \/ job[r].ctx.lost # {}
      \/ Content[job[r].ctx.id] \cap torn # {}
  <2> SUFFICES ASSUME job[r].ctx.lost = {}, Content[job[r].ctx.id] \cap torn = {}
               PROVE  full /\ Complete(job[r].ctx, http[r].key[2])
    OBVIOUS
  <2>1. /\ Content[job[r].ctx.id] \cap Convertible \subseteq store
        /\ Content[job[r].ctx.id] \cap Glbs \subseteq job[r].ctx.seen
    BY <1>1 DEF Hop, Ready
  <2>2. Complete(job[r].ctx, http[r].key[2])
    BY <2>1 DEF Complete
  <2>3. Reads(job[r].ctx, http[r].key[2]) \subseteq Content[job[r].ctx.id]
    BY <1>4 DEF Reads
  <2>4. Reads(job[r].ctx, http[r].key[2]) \cap torn = {}
    BY <2>3
  <2> QED
    BY <2>2, <2>4
<1>3. RightFile(http[r].key, Built(r, full))
  <2>2. http[r].key[1] \in Ids /\ http[r].key[2] \in Content[http[r].key[1]] =>
          job[r].ctx.id = http[r].key[1]
    BY <1>1 DEF Hop, Borrowed
  <2> QED
    BY <1>4, <2>2 DEF RightFile, Built
<1> QED
  BY <1>2, <1>3 DEF Good, Built

\* So is what the cache holds and what a worker carries.
LEMMA GoodStep ==
  CallersInv /\ FlightInv /\ LockInv /\ HopInv /\ CacheGood /\ DataGood /\ [Next]_vars
    => CacheGood' /\ DataGood'
<1> SUFFICES ASSUME CallersInv, FlightInv, LockInv, HopInv, CacheGood, DataGood, [Next]_vars
             PROVE  (CacheGood /\ DataGood)'
  OBVIOUS
<1>t. ServeTypes /\ Phases
  BY DEF CallersInv
<1>k. \A r \in Callers : job[r].st # "none" \/ job[r].data # Nil => http[r].key \in Keys
  BY DEF CallersInv, Phases
<1>n. \A r \in Callers : http[r].st \in {"new", "manifest"} => job[r].data = Nil
  BY DEF CallersInv, Phases
<1>m. \A k, f : Good(k, f, torn) => Good(k, f, torn')
  <2>1. torn \subseteq torn'
    BY TableUsed, StoreGrows
  <2> QED
    BY <2>1 DEF Good
<1>c. \A k \in Keys : cache[k] # Nil => Good(k, cache[k], torn')
  BY <1>m DEF CacheGood
<1>d. \A r \in Callers : job[r].data # Nil => Good(http[r].key, job[r].data, torn')
  BY <1>m DEF DataGood
<1> USE <1>t, <1>k, <1>n, <1>c, <1>d DEF CacheGood, DataGood
<1>1. ASSUME NEW r \in Callers, NEW a \in Asks, RouteBundle(r, a) PROVE (CacheGood /\ DataGood)'
  BY <1>1 DEF RouteBundle, evars, ServeTypes
<1>2. ASSUME NEW r \in Callers, NEW a \in Asks, RouteFlat(r, a) PROVE (CacheGood /\ DataGood)'
  <2>1. /\ job' = job
        /\ cache' = cache
        /\ job[r].data = Nil
        /\ \A q \in Callers \ {r} : http'[q] = http[q]
    BY <1>2, FlatRouted DEF RouteFlat, OnlyHttp
  <2> QED
    BY <2>1
<1>3. ASSUME NEW r \in Callers, NEW a \in Asks, RouteManifest(r, a) PROVE (CacheGood /\ DataGood)'
  BY <1>3 DEF RouteManifest, Call, IdleCall, ServeTypes
<1>4. ASSUME NEW r \in Callers, NEW names \in Posts, RoutePost(r, names)
      PROVE  (CacheGood /\ DataGood)'
  BY <1>4 DEF RoutePost, PostBegin, IdleCall, ServeTypes
<1>5. ASSUME NEW r \in Callers, ManifestOk(r) PROVE (CacheGood /\ DataGood)'
  BY <1>5 DEF ManifestOk, Answer, Return, IdleCall, ServeTypes
<1>6. ASSUME NEW r \in Callers, ManifestErr(r) PROVE (CacheGood /\ DataGood)'
  <2>1. job' = job /\ cache' = cache
    BY <1>6 DEF ManifestErr
  <2>2. \A q \in Callers : http'[q].key = http[q].key
    BY <1>6, ManifestGone DEF OnlyHttp
  <2> QED
    BY <2>1, <2>2
<1>7. ASSUME NEW r \in Callers, PostReply(r) PROVE (CacheGood /\ DataGood)'
  BY <1>7 DEF PostReply, Answer, evars, ServeTypes
<1>8. ASSUME NEW r \in Callers, ProbeHit(r) PROVE (CacheGood /\ DataGood)'
  BY <1>8 DEF ProbeHit, Answer, evars, ServeTypes
<1>9. ASSUME NEW r \in Callers, ProbeMiss(r) PROVE (CacheGood /\ DataGood)'
  BY <1>9 DEF ProbeMiss, evars, ServeTypes
<1>10. ASSUME NEW r \in Callers, Receive(r) PROVE (CacheGood /\ DataGood)'
  <2>1. job' = job /\ cache' = cache
    BY <1>10 DEF Receive
  <2>2. \A q \in Callers : http'[q].key = http[q].key
    BY <1>10, Received DEF OnlyHttp
  <2> QED
    BY <2>1, <2>2
<1>11. ASSUME NEW r \in Callers, TimeOut(r) PROVE (CacheGood /\ DataGood)'
  BY <1>11 DEF TimeOut, evars, ServeTypes
<1>12. ASSUME NEW r \in Callers, FallbackHit(r) PROVE (CacheGood /\ DataGood)'
  BY <1>12 DEF FallbackHit, Answer, evars, ServeTypes
<1>13. ASSUME NEW r \in Callers, FallbackMiss(r) PROVE (CacheGood /\ DataGood)'
  <2>1. job' = job /\ cache' = cache
    BY <1>13 DEF FallbackMiss
  <2>2. \A q \in Callers : http'[q].key = http[q].key
    BY <1>13, GaveUp DEF OnlyHttp
  <2> QED
    BY <2>1, <2>2
<1>14. ASSUME NEW r \in Callers, ReceiveSlow(r) PROVE (CacheGood /\ DataGood)'
  <2>1. job' = job /\ cache' = cache
    BY <1>14 DEF ReceiveSlow
  <2>2. \A q \in Callers : http'[q].key = http[q].key
    BY <1>14, ReceivedSlow DEF OnlyHttp
  <2> QED
    BY <2>1, <2>2
<1>15. ASSUME NEW r \in Callers, JobProbe(r) PROVE (CacheGood /\ DataGood)'
  BY <1>15 DEF JobProbe, evars, ServeTypes
<1>16. ASSUME NEW r \in Callers, JobLock(r) PROVE (CacheGood /\ DataGood)'
  BY <1>16 DEF JobLock, evars, ServeTypes
<1>17. ASSUME NEW r \in Callers, JobRecheckHit(r) PROVE (CacheGood /\ DataGood)'
  BY <1>17 DEF JobRecheckHit, Unlock, evars, ServeTypes
<1>18. ASSUME NEW r \in Callers, JobRecheckMiss(r) PROVE (CacheGood /\ DataGood)'
  BY <1>18 DEF JobRecheckMiss, Call, IdleCall, ServeTypes
<1>19. ASSUME NEW r \in Callers, JobCtxOk(r) PROVE (CacheGood /\ DataGood)'
  BY <1>19 DEF JobCtxOk, Return, IdleCall, ServeTypes
<1>20. ASSUME NEW r \in Callers, JobCtxErr(r) PROVE (CacheGood /\ DataGood)'
  BY <1>20 DEF JobCtxErr, FailJob, Unlock, Return, IdleCall, ServeTypes
<1>21. ASSUME NEW r \in Callers, JobFound(r) PROVE (CacheGood /\ DataGood)'
  BY <1>21 DEF JobFound, evars, ServeTypes
<1>22. ASSUME NEW r \in Callers, JobFindOwner(r) PROVE (CacheGood /\ DataGood)'
  BY <1>22 DEF JobFindOwner, Call, IdleCall, ServeTypes
<1>23. ASSUME NEW r \in Callers, JobNotFound(r) PROVE (CacheGood /\ DataGood)'
  BY <1>23 DEF JobNotFound, FailJob, Unlock, evars, ServeTypes
<1>24. ASSUME NEW r \in Callers, JobEnsure(r) PROVE (CacheGood /\ DataGood)'
  <2>1. PICK st \in {"build", "fetch"} : Ensured(r, st)
    BY <1>24, EnsureMoves
  <2> QED
    BY <2>1 DEF Ensured, ServeTypes
<1>25. ASSUME NEW r \in Callers, JobFetchOk(r) PROVE (CacheGood /\ DataGood)'
  BY <1>25 DEF JobFetchOk, BuildFetched, IdleCall, ServeTypes
<1>26. ASSUME NEW r \in Callers, JobFetchFail(r) PROVE (CacheGood /\ DataGood)'
  BY <1>26 DEF JobFetchFail, FailJob, Unlock, evars, ServeTypes
<1>27. ASSUME NEW r \in Callers, JobBuildOk(r) PROVE (CacheGood /\ DataGood)'
  <2>1. PICK full \in BOOLEAN :
          /\ Reads(job[r].ctx, http[r].key[2]) \cap torn = {} => full
          /\ job' = [job EXCEPT ![r].st = "write", ![r].data = Built(r, full)]
    BY <1>27 DEF JobBuildOk, Built
  <2>4. job[r].st = "build"
    BY <1>27 DEF JobBuildOk
  <2>2. Good(http[r].key, Built(r, full), torn')
    BY <2>1, <2>4, <1>m, BuiltGood
  <2>3. http' = http /\ cache' = cache
    BY <1>27 DEF JobBuildOk
  <2> QED
    BY <2>1, <2>2, <2>3 DEF ServeTypes
<1>28. ASSUME NEW r \in Callers, JobBuildFail(r) PROVE (CacheGood /\ DataGood)'
  BY <1>28 DEF JobBuildFail, FailJob, Unlock, evars, ServeTypes
<1>29. ASSUME NEW r \in Callers, JobWrite(r) PROVE (CacheGood /\ DataGood)'
  BY <1>29 DEF JobWrite, evars, ServeTypes
<1>30. ASSUME NEW r \in Callers, JobWritten(r) PROVE (CacheGood /\ DataGood)'
  BY <1>30 DEF JobWritten, evars, ServeTypes
<1>31. ASSUME NEW r \in Callers, JobWriteFail(r) PROVE (CacheGood /\ DataGood)'
  BY <1>31 DEF JobWriteFail, FailJob, Unlock, evars, ServeTypes
<1>32. ASSUME NEW r \in Callers, JobRename(r) PROVE (CacheGood /\ DataGood)'
  <2> DEFINE k == http[r].key
  <2>1. /\ job[r].st = "rename" /\ k \in Keys /\ job[r].data \in File /\ job[r].data # Nil
        /\ tmp[k] = "whole"
    BY <1>32, KeysTyped DEF JobRename, Phases, LockInv
  <2>2. Good(k, job[r].data, torn')
    BY <2>1
  <2>3. [job[r].data EXCEPT !.whole = (tmp[k] = "whole")] = job[r].data
    BY <2>1, <2>2 DEF File, Good
  <2>4. cache' = [cache EXCEPT ![k] = job[r].data]
    BY <1>32, <2>3 DEF JobRename
  <2>5. http' = http /\ job' = [job EXCEPT ![r].st = "put"]
    BY <1>32 DEF JobRename
  <2> HIDE DEF k
  <2>6. CacheGood'
    BY <2>2, <2>4 DEF ServeTypes
  <2>7. DataGood'
    BY <2>5 DEF ServeTypes
  <2> QED
    BY <2>6, <2>7
<1>33. ASSUME NEW r \in Callers, JobPut(r) PROVE (CacheGood /\ DataGood)'
  BY <1>33 DEF JobPut, evars, ServeTypes
<1>34. ASSUME NEW r \in Callers, JobPutManifest(r) PROVE (CacheGood /\ DataGood)'
  BY <1>34 DEF JobPutManifest, evars, ServeTypes
<1>35. ASSUME NEW r \in Callers, JobEvict(r) PROVE (CacheGood /\ DataGood)'
  BY <1>35 DEF JobEvict, evars, ServeTypes
<1>36. ASSUME NEW r \in Callers, JobSend(r) PROVE (CacheGood /\ DataGood)'
  BY <1>36 DEF JobSend, evars, ServeTypes
<1>37. ASSUME NEW r \in Callers, TableStep(r) PROVE (CacheGood /\ DataGood)'
  BY <1>37 DEF TableStep, svars, ServeTypes
<1>38. CASE CatalystStep
  BY <1>38 DEF CatalystStep, svars, ServeTypes
<1>39. CASE Crash
  BY <1>39 DEF Crash, Restart, NoJob, ServeTypes
<1>40. CASE Finished
  BY <1>40 DEF Finished, vars, svars, evars, ServeTypes
<1>41. CASE UNCHANGED vars
  BY <1>41 DEF vars, svars, evars, ServeTypes
<1>42. ASSUME NEW r \in Callers, JobFetchOpen(r) PROVE (CacheGood /\ DataGood)'
  BY <1>42 DEF JobFetchOpen, svars, ServeTypes
<1>43. ASSUME NEW r \in Callers, JobRenameFail(r) PROVE (CacheGood /\ DataGood)'
  <2> DEFINE data == [job[r].data EXCEPT !.saved = FALSE]
  <2>1. job[r].st = "rename" /\ job[r].data \in File /\ job[r].data # Nil
    BY <1>43, KeysTyped DEF JobRenameFail, Phases
  <2>2. Good(http[r].key, job[r].data, torn')
    BY <2>1
  <2>3. Good(http[r].key, data, torn')
    BY <2>1, <2>2 DEF Good, RightFile, File
  <2>4. http' = http /\ cache' = cache /\ job' = [job EXCEPT ![r].st = "put", ![r].data = data]
    BY <1>43 DEF JobRenameFail
  <2> HIDE DEF data
  <2> QED
    BY <2>3, <2>4 DEF ServeTypes
<1> QED
  BY <1>1, <1>2, <1>3, <1>4, <1>5, <1>6, <1>7, <1>8, <1>9, <1>10, <1>11, <1>12, <1>13,
     <1>14, <1>15, <1>16, <1>17, <1>18, <1>19, <1>20, <1>21, <1>22, <1>23, <1>24, <1>25,
     <1>26, <1>27, <1>28, <1>29, <1>30, <1>31, <1>32, <1>33, <1>34, <1>35, <1>36, <1>37,
     <1>38, <1>39, <1>40, <1>41, <1>42, <1>43
     DEF Next, Arrive, HandlerStep, JobStep

\* What is right for its path may be served, and so may what an earlier
\* converter made for it.
LEMMA GoodIsServable ==
  /\ \A k \in Keys, f \in File : Good(k, f, torn) => Servable(k, f)
  /\ \A k \in Keys : Servable(k, OldFile(k))
  BY DEF Good, Servable, OldFile

\* So is what the space has.
LEMMA SpaceStep == CallersInv /\ DataGood /\ SpaceGood /\ [Next]_vars => SpaceGood'
<1> SUFFICES ASSUME CallersInv, DataGood, SpaceGood, [Next]_vars PROVE SpaceGood'
  OBVIOUS
<1>1. CASE UNCHANGED space
  BY <1>1 DEF SpaceGood
<1>2. ASSUME NEW r \in Callers, JobPut(r) PROVE SpaceGood'
  <2>1. /\ http[r].key \in Keys /\ job[r].data \in File
        /\ space \in [Keys -> File \cup {Nil}]
        /\ space' \in {space, [space EXCEPT ![http[r].key] = job[r].data]}
    BY <1>2, KeysTyped DEF JobPut, CallersInv, ServeTypes, Phases
  <2>2. job[r].data # Nil => Servable(http[r].key, job[r].data)
    BY <2>1, GoodIsServable DEF DataGood
  <2> QED
    BY <2>1, <2>2 DEF SpaceGood
<1>3. UNCHANGED space \/ \E r \in Callers : JobPut(r)
  <2>1. ASSUME NEW r \in Callers, Arrive(r) \/ HandlerStep(r) \/ TableStep(r) PROVE UNCHANGED space
    BY <2>1 DEF Arrive, HandlerStep, TableStep, svars, RouteBundle, RouteFlat, RouteManifest,
                RoutePost,
                ManifestOk, ManifestErr, PostReply, ProbeHit, ProbeMiss, Receive, TimeOut,
                FallbackHit, FallbackMiss, ReceiveSlow
  <2>2. ASSUME NEW r \in Callers, JobStep(r) PROVE UNCHANGED space \/ JobPut(r)
    BY <2>2 DEF JobStep, JobProbe, JobLock, JobRecheckHit, JobRecheckMiss, JobCtxOk, JobCtxErr,
                JobFound, JobFindOwner, JobNotFound, JobEnsure, JobFetchOpen, JobFetchOk,
                JobFetchFail, JobBuildOk, JobBuildFail, JobWrite, JobWritten, JobWriteFail,
                JobRename, JobRenameFail, JobPutManifest, JobEvict, JobSend, svars
  <2> QED
    BY <2>1, <2>2 DEF Next, CatalystStep, Crash, Finished, vars, svars
<1> QED
  BY <1>1, <1>2, <1>3

\* So is what is answered, and a 500 means that the worker came to nothing.
LEMMA AnswersStep ==
  CallersInv /\ CacheGood /\ SpaceGood /\ DataGood /\ AnswersGood /\ [Next]_vars => AnswersGood'
<1> SUFFICES ASSUME CallersInv, CacheGood, SpaceGood, DataGood, AnswersGood, [Next]_vars
             PROVE  AnswersGood'
  OBVIOUS
<1>t. ServeTypes /\ Phases
  BY DEF CallersInv
<1>h. \A r \in Callers : AnswerGood(r)
  BY DEF AnswersGood
<1>f. \A q \in Callers : /\ http'[q].reply = http[q].reply /\ http'[q].key = http[q].key
                         /\ job'[q] = job[q]
                         => AnswerGood(q)'
  BY <1>h DEF AnswerGood
<1>z. NoReply.file = Nil /\ NoReply.code # 500
  BY DEF NoReply
<1>u. \A q \in Callers : http'[q].reply = NoReply => AnswerGood(q)'
  BY <1>z DEF AnswerGood
<1>n. \A q \in Callers : job[q].st \notin {"none", "sent"} => http[q].reply.code # 500
  BY <1>h DEF AnswerGood
<1> USE <1>t
<1>1. ASSUME NEW r \in Callers, NEW a \in Asks, RouteBundle(r, a) PROVE AnswersGood'
  <2>1. /\ job' = job
        /\ \A q \in Callers \ {r} : http'[q] = http[q]
    BY <1>1 DEF RouteBundle, ServeTypes
  <2>2. http'[r].reply = NoReply
    BY <1>1 DEF RouteBundle, ServeTypes, HttpState, Phases
  <2> QED
    BY <2>1, <2>2, <1>f, <1>u DEF AnswersGood
<1>2. ASSUME NEW r \in Callers, NEW a \in Asks, RouteFlat(r, a) PROVE AnswersGood'
  <2>1. /\ job' = job
        /\ http[r].st = "new"
        /\ http[r].reply = NoReply
        /\ \A q \in Callers \ {r} : http'[q] = http[q]
    BY <1>2, FlatRouted DEF RouteFlat, OnlyHttp, Phases
  <2>2. http'[r].reply.file = Nil /\ http'[r].reply.code # 500
    BY <1>2, <2>1, <1>z, FlatRouted DEF ReplyIs
  <2>3. AnswerGood(r)'
    BY <2>2 DEF AnswerGood
  <2> QED
    BY <2>1, <2>3, <1>f DEF AnswersGood
<1>3. ASSUME NEW r \in Callers, NEW a \in Asks, RouteManifest(r, a) PROVE AnswersGood'
  <2>1. /\ job' = job
        /\ \A q \in Callers \ {r} : http'[q] = http[q]
    BY <1>3 DEF RouteManifest, ServeTypes
  <2>2. http'[r].reply = NoReply
    BY <1>3 DEF RouteManifest, ServeTypes, HttpState, Phases
  <2> QED
    BY <2>1, <2>2, <1>f, <1>u DEF AnswersGood
<1>4. ASSUME NEW r \in Callers, NEW names \in Posts, RoutePost(r, names) PROVE AnswersGood'
  <2>1. /\ job' = job
        /\ \A q \in Callers \ {r} : http'[q] = http[q]
    BY <1>4 DEF RoutePost, ServeTypes
  <2>2. http'[r].reply = NoReply
    BY <1>4 DEF RoutePost, ServeTypes, HttpState, Phases
  <2> QED
    BY <2>1, <2>2, <1>f, <1>u DEF AnswersGood
<1>5. ASSUME NEW r \in Callers, ManifestOk(r) PROVE AnswersGood'
  <2>1. PICK y : Replied(r, y) /\ y = [code |-> 200, from |-> "manifest", file |-> Nil]
    BY <1>5 DEF ManifestOk, Answer, Replied
  <2>r. Replied(r, y)
    BY <2>1
  <2>2. /\ http'[r].key = http[r].key /\ http'[r].reply = y
        /\ \A q \in Callers \ {r} : http'[q] = http[q]
    BY <2>r, AnswerIs
  <2>3. job' = job
    BY <1>5 DEF ManifestOk
  <2>4. http'[r].reply.file = Nil /\ http'[r].reply.code # 500
    BY <2>1, <2>2
  <2>5. AnswerGood(r)'
    BY <2>1, <2>2, <2>4 DEF AnswerGood
  <2> QED
    BY <2>2, <2>3, <2>5, <1>f DEF AnswersGood
<1>6. ASSUME NEW r \in Callers, ManifestErr(r) PROVE AnswersGood'
  <2>1. /\ job' = job /\ \A q \in Callers \ {r} : http'[q] = http[q]
        /\ http'[r].reply.file = Nil /\ http'[r].reply.code # 500
    BY <1>6, ManifestGone DEF ManifestErr, OnlyHttp
  <2>2. AnswerGood(r)'
    BY <2>1 DEF AnswerGood
  <2> QED
    BY <2>1, <2>2, <1>f DEF AnswersGood
<1>7. ASSUME NEW r \in Callers, PostReply(r) PROVE AnswersGood'
  <2>1. PICK y : Replied(r, y) /\ y = [code |-> 200, from |-> "versions", file |-> Nil]
    BY <1>7 DEF PostReply, Answer, Replied
  <2>r. Replied(r, y)
    BY <2>1
  <2>2. /\ http'[r].key = http[r].key /\ http'[r].reply = y
        /\ \A q \in Callers \ {r} : http'[q] = http[q]
    BY <2>r, AnswerIs
  <2>3. job' = job
    BY <1>7 DEF PostReply
  <2>4. http'[r].reply.file = Nil /\ http'[r].reply.code # 500
    BY <2>1, <2>2
  <2>5. AnswerGood(r)'
    BY <2>1, <2>2, <2>4 DEF AnswerGood
  <2> QED
    BY <2>2, <2>3, <2>5, <1>f DEF AnswersGood
<1>8. ASSUME NEW r \in Callers, ProbeHit(r) PROVE AnswersGood'
  <2>1. PICK y : Replied(r, y) /\ y = [code |-> 200, from |-> "cache", file |-> cache[http[r].key]]
    BY <1>8 DEF ProbeHit, Answer, Replied
  <2>r. Replied(r, y)
    BY <2>1
  <2>2. /\ http'[r].key = http[r].key /\ http'[r].reply = y
        /\ \A q \in Callers \ {r} : http'[q] = http[q]
    BY <2>r, AnswerIs
  <2>3. job' = job
    BY <1>8 DEF ProbeHit
  <2>a. cache[http[r].key] \in File /\ http[r].key \in Keys
    BY <1>8, KeysTyped DEF ProbeHit
  <2>4. Servable(http[r].key, cache[http[r].key])
    BY <2>a, <1>8, GoodIsServable DEF ProbeHit, CacheGood
  <2>5. AnswerGood(r)'
    BY <2>1, <2>2, <2>4 DEF AnswerGood
  <2> QED
    BY <2>2, <2>3, <2>5, <1>f DEF AnswersGood
<1>9. ASSUME NEW r \in Callers, ProbeMiss(r) PROVE AnswersGood'
  <2>1. /\ \A q \in Callers \ {r} : http'[q] = http[q] /\ job'[q] = job[q]
        /\ http'[r].reply = NoReply
    BY <1>9 DEF ProbeMiss, ServeTypes, HttpState, Phases
  <2> QED
    BY <2>1, <1>f, <1>u DEF AnswersGood
<1>10. ASSUME NEW r \in Callers, Receive(r) PROVE AnswersGood'
  <2>1. job' = job /\ \A q \in Callers \ {r} : http'[q] = http[q]
    BY <1>10, Received DEF Receive, OnlyHttp
  <2>2. http'[r].key = http[r].key
    BY <1>10, Received
  <2>3. job[r].data # Nil => Servable(http[r].key, job[r].data)
    BY <1>10, KeysTyped, GoodIsServable DEF Receive, DataGood
  <2>4. \/ http'[r].reply = NoReply
        \/ job[r].data # Nil /\ http'[r].reply.file = job[r].data /\ http'[r].reply.code # 500
    BY <1>10, Received DEF Receive, Phases, ReplyIs
  <2>5. AnswerGood(r)'
    BY <2>1, <2>2, <2>3, <2>4, <1>u DEF AnswerGood
  <2> QED
    BY <2>1, <2>5, <1>f DEF AnswersGood
<1>11. ASSUME NEW r \in Callers, TimeOut(r) PROVE AnswersGood'
  <2>1. /\ job' = job
        /\ \A q \in Callers \ {r} : http'[q] = http[q]
    BY <1>11 DEF TimeOut, ServeTypes
  <2>2. http'[r].reply = NoReply
    BY <1>11 DEF TimeOut, ServeTypes, HttpState, Phases
  <2> QED
    BY <2>1, <2>2, <1>f, <1>u DEF AnswersGood
<1>12. ASSUME NEW r \in Callers, FallbackHit(r) PROVE AnswersGood'
  <2>1. PICK y :
            Replied(r, y) /\ y = [code |-> 200, from |-> "fallback", file |-> Fallback(http[r].key)]
    BY <1>12 DEF FallbackHit, Answer, Replied
  <2>r. Replied(r, y)
    BY <2>1
  <2>2. /\ http'[r].key = http[r].key /\ http'[r].reply = y
        /\ \A q \in Callers \ {r} : http'[q] = http[q]
    BY <2>r, AnswerIs
  <2>3. job' = job
    BY <1>12 DEF FallbackHit
  <2>a. Fallback(http[r].key) \in File /\ http[r].key \in Keys
    BY <1>12, KeysTyped DEF FallbackHit
  <2>4. Servable(http[r].key, Fallback(http[r].key))
    BY <2>a, <1>12, GoodIsServable DEF FallbackHit, Fallback, SpaceGood
  <2>5. AnswerGood(r)'
    BY <2>1, <2>2, <2>4 DEF AnswerGood
  <2> QED
    BY <2>2, <2>3, <2>5, <1>f DEF AnswersGood
<1>13. ASSUME NEW r \in Callers, FallbackMiss(r) PROVE AnswersGood'
  <2>1. job' = job /\ \A q \in Callers \ {r} : http'[q] = http[q]
    BY <1>13, GaveUp DEF FallbackMiss, OnlyHttp
  <2>2. http'[r].key = http[r].key
    BY <1>13, GaveUp
  <2>3. /\ http[r].reply = NoReply
        /\ (http[r].st = "failed" => job[r].st = "sent" /\ job[r].data = Nil)
    BY <1>13 DEF FallbackMiss, Phases
  <2>4. http'[r].reply = NoReply \/ (http[r].st = "failed" /\ http'[r].reply.file = Nil)
    BY <1>13, <2>3, GaveUp DEF ReplyIs
  <2>5. AnswerGood(r)'
    BY <2>1, <2>2, <2>3, <2>4, <1>u DEF AnswerGood
  <2> QED
    BY <2>1, <2>5, <1>f DEF AnswersGood
<1>14. ASSUME NEW r \in Callers, ReceiveSlow(r) PROVE AnswersGood'
  <2>1. job' = job /\ \A q \in Callers \ {r} : http'[q] = http[q]
    BY <1>14, ReceivedSlow DEF ReceiveSlow, OnlyHttp
  <2>2. http'[r].key = http[r].key
    BY <1>14, ReceivedSlow
  <2>3. job[r].data # Nil => Servable(http[r].key, job[r].data)
    BY <1>14, KeysTyped, GoodIsServable DEF ReceiveSlow, DataGood
  <2>4. \/ job[r].data = Nil /\ job[r].st = "sent" /\ http'[r].reply.file = Nil
        \/ job[r].data # Nil /\ http'[r].reply.file = job[r].data /\ http'[r].reply.code # 500
    BY <1>14, ReceivedSlow DEF ReceiveSlow, ReplyIs
  <2>5. AnswerGood(r)'
    BY <2>1, <2>2, <2>3, <2>4 DEF AnswerGood
  <2> QED
    BY <2>1, <2>5, <1>f DEF AnswersGood
<1>15. ASSUME NEW r \in Callers, JobProbe(r) PROVE AnswersGood'
  <2>1. /\ http' = http /\ http[r].reply.code # 500
        /\ \A q \in Callers \ {r} : job'[q] = job[q]
    BY <1>15, <1>n DEF JobProbe, ServeTypes
  <2>2. AnswerGood(r)'
    BY <2>1, <1>h DEF AnswerGood
  <2> QED
    BY <2>1, <2>2, <1>f DEF AnswersGood
<1>16. ASSUME NEW r \in Callers, JobLock(r) PROVE AnswersGood'
  <2>1. /\ http' = http /\ http[r].reply.code # 500
        /\ \A q \in Callers \ {r} : job'[q] = job[q]
    BY <1>16, <1>n DEF JobLock, ServeTypes
  <2>2. AnswerGood(r)'
    BY <2>1, <1>h DEF AnswerGood
  <2> QED
    BY <2>1, <2>2, <1>f DEF AnswersGood
<1>17. ASSUME NEW r \in Callers, JobRecheckHit(r) PROVE AnswersGood'
  <2>1. /\ http' = http /\ http[r].reply.code # 500
        /\ \A q \in Callers \ {r} : job'[q] = job[q]
    BY <1>17, <1>n DEF JobRecheckHit, ServeTypes
  <2>2. AnswerGood(r)'
    BY <2>1, <1>h DEF AnswerGood
  <2> QED
    BY <2>1, <2>2, <1>f DEF AnswersGood
<1>18. ASSUME NEW r \in Callers, JobRecheckMiss(r) PROVE AnswersGood'
  <2>1. /\ http' = http /\ http[r].reply.code # 500
        /\ \A q \in Callers \ {r} : job'[q] = job[q]
    BY <1>18, <1>n DEF JobRecheckMiss, ServeTypes
  <2>2. AnswerGood(r)'
    BY <2>1, <1>h DEF AnswerGood
  <2> QED
    BY <2>1, <2>2, <1>f DEF AnswersGood
<1>19. ASSUME NEW r \in Callers, JobCtxOk(r) PROVE AnswersGood'
  <2>1. /\ http' = http /\ http[r].reply.code # 500
        /\ \A q \in Callers \ {r} : job'[q] = job[q]
    BY <1>19, <1>n DEF JobCtxOk, ServeTypes
  <2>2. AnswerGood(r)'
    BY <2>1, <1>h DEF AnswerGood
  <2> QED
    BY <2>1, <2>2, <1>f DEF AnswersGood
<1>20. ASSUME NEW r \in Callers, JobCtxErr(r) PROVE AnswersGood'
  <2>1. /\ http' = http /\ http[r].reply.code # 500
        /\ \A q \in Callers \ {r} : job'[q] = job[q]
    BY <1>20, <1>n DEF JobCtxErr, FailJob, ServeTypes
  <2>2. AnswerGood(r)'
    BY <2>1, <1>h DEF AnswerGood
  <2> QED
    BY <2>1, <2>2, <1>f DEF AnswersGood
<1>21. ASSUME NEW r \in Callers, JobFound(r) PROVE AnswersGood'
  <2>1. /\ http' = http /\ http[r].reply.code # 500
        /\ \A q \in Callers \ {r} : job'[q] = job[q]
    BY <1>21, <1>n DEF JobFound, ServeTypes
  <2>2. AnswerGood(r)'
    BY <2>1, <1>h DEF AnswerGood
  <2> QED
    BY <2>1, <2>2, <1>f DEF AnswersGood
<1>22. ASSUME NEW r \in Callers, JobFindOwner(r) PROVE AnswersGood'
  <2>1. /\ http' = http /\ http[r].reply.code # 500
        /\ \A q \in Callers \ {r} : job'[q] = job[q]
    BY <1>22, <1>n DEF JobFindOwner, ServeTypes
  <2>2. AnswerGood(r)'
    BY <2>1, <1>h DEF AnswerGood
  <2> QED
    BY <2>1, <2>2, <1>f DEF AnswersGood
<1>23. ASSUME NEW r \in Callers, JobNotFound(r) PROVE AnswersGood'
  <2>1. /\ http' = http /\ http[r].reply.code # 500
        /\ \A q \in Callers \ {r} : job'[q] = job[q]
    BY <1>23, <1>n DEF JobNotFound, FailJob, ServeTypes
  <2>2. AnswerGood(r)'
    BY <2>1, <1>h DEF AnswerGood
  <2> QED
    BY <2>1, <2>2, <1>f DEF AnswersGood
<1>24. ASSUME NEW r \in Callers, JobEnsure(r) PROVE AnswersGood'
  <2>1. /\ http' = http /\ http[r].reply.code # 500
        /\ \A q \in Callers \ {r} : job'[q] = job[q]
    BY <1>24, <1>n, EnsureMoves DEF Ensured, ServeTypes
  <2>2. AnswerGood(r)'
    BY <2>1, <1>h DEF AnswerGood
  <2> QED
    BY <2>1, <2>2, <1>f DEF AnswersGood
<1>25. ASSUME NEW r \in Callers, JobFetchOk(r) PROVE AnswersGood'
  <2>1. /\ http' = http /\ http[r].reply.code # 500
        /\ \A q \in Callers \ {r} : job'[q] = job[q]
    BY <1>25, <1>n DEF JobFetchOk, ServeTypes
  <2>2. AnswerGood(r)'
    BY <2>1, <1>h DEF AnswerGood
  <2> QED
    BY <2>1, <2>2, <1>f DEF AnswersGood
<1>26. ASSUME NEW r \in Callers, JobFetchFail(r) PROVE AnswersGood'
  <2>1. /\ http' = http /\ http[r].reply.code # 500
        /\ \A q \in Callers \ {r} : job'[q] = job[q]
    BY <1>26, <1>n DEF JobFetchFail, FailJob, ServeTypes
  <2>2. AnswerGood(r)'
    BY <2>1, <1>h DEF AnswerGood
  <2> QED
    BY <2>1, <2>2, <1>f DEF AnswersGood
<1>27. ASSUME NEW r \in Callers, JobBuildOk(r) PROVE AnswersGood'
  <2>1. /\ http' = http /\ http[r].reply.code # 500
        /\ \A q \in Callers \ {r} : job'[q] = job[q]
    BY <1>27, <1>n DEF JobBuildOk, ServeTypes
  <2>2. AnswerGood(r)'
    BY <2>1, <1>h DEF AnswerGood
  <2> QED
    BY <2>1, <2>2, <1>f DEF AnswersGood
<1>28. ASSUME NEW r \in Callers, JobBuildFail(r) PROVE AnswersGood'
  <2>1. /\ http' = http /\ http[r].reply.code # 500
        /\ \A q \in Callers \ {r} : job'[q] = job[q]
    BY <1>28, <1>n DEF JobBuildFail, FailJob, ServeTypes
  <2>2. AnswerGood(r)'
    BY <2>1, <1>h DEF AnswerGood
  <2> QED
    BY <2>1, <2>2, <1>f DEF AnswersGood
<1>29. ASSUME NEW r \in Callers, JobWrite(r) PROVE AnswersGood'
  <2>1. /\ http' = http /\ http[r].reply.code # 500
        /\ \A q \in Callers \ {r} : job'[q] = job[q]
    BY <1>29, <1>n DEF JobWrite, ServeTypes
  <2>2. AnswerGood(r)'
    BY <2>1, <1>h DEF AnswerGood
  <2> QED
    BY <2>1, <2>2, <1>f DEF AnswersGood
<1>30. ASSUME NEW r \in Callers, JobWritten(r) PROVE AnswersGood'
  <2>1. /\ http' = http /\ http[r].reply.code # 500
        /\ \A q \in Callers \ {r} : job'[q] = job[q]
    BY <1>30, <1>n DEF JobWritten, ServeTypes
  <2>2. AnswerGood(r)'
    BY <2>1, <1>h DEF AnswerGood
  <2> QED
    BY <2>1, <2>2, <1>f DEF AnswersGood
<1>31. ASSUME NEW r \in Callers, JobWriteFail(r) PROVE AnswersGood'
  <2>1. /\ http' = http /\ http[r].reply.code # 500
        /\ \A q \in Callers \ {r} : job'[q] = job[q]
    BY <1>31, <1>n DEF JobWriteFail, FailJob, ServeTypes
  <2>2. AnswerGood(r)'
    BY <2>1, <1>h DEF AnswerGood
  <2> QED
    BY <2>1, <2>2, <1>f DEF AnswersGood
<1>32. ASSUME NEW r \in Callers, JobRename(r) PROVE AnswersGood'
  <2>1. /\ http' = http /\ http[r].reply.code # 500
        /\ \A q \in Callers \ {r} : job'[q] = job[q]
    BY <1>32, <1>n DEF JobRename, ServeTypes
  <2>2. AnswerGood(r)'
    BY <2>1, <1>h DEF AnswerGood
  <2> QED
    BY <2>1, <2>2, <1>f DEF AnswersGood
<1>33. ASSUME NEW r \in Callers, JobPut(r) PROVE AnswersGood'
  <2>1. /\ http' = http /\ http[r].reply.code # 500
        /\ \A q \in Callers \ {r} : job'[q] = job[q]
    BY <1>33, <1>n DEF JobPut, ServeTypes
  <2>2. AnswerGood(r)'
    BY <2>1, <1>h DEF AnswerGood
  <2> QED
    BY <2>1, <2>2, <1>f DEF AnswersGood
<1>34. ASSUME NEW r \in Callers, JobPutManifest(r) PROVE AnswersGood'
  <2>1. /\ http' = http /\ http[r].reply.code # 500
        /\ \A q \in Callers \ {r} : job'[q] = job[q]
    BY <1>34, <1>n DEF JobPutManifest, ServeTypes
  <2>2. AnswerGood(r)'
    BY <2>1, <1>h DEF AnswerGood
  <2> QED
    BY <2>1, <2>2, <1>f DEF AnswersGood
<1>35. ASSUME NEW r \in Callers, JobEvict(r) PROVE AnswersGood'
  <2>1. /\ http' = http /\ http[r].reply.code # 500
        /\ \A q \in Callers \ {r} : job'[q] = job[q]
    BY <1>35, <1>n DEF JobEvict, ServeTypes
  <2>2. AnswerGood(r)'
    BY <2>1, <1>h DEF AnswerGood
  <2> QED
    BY <2>1, <2>2, <1>f DEF AnswersGood
<1>36. ASSUME NEW r \in Callers, JobSend(r) PROVE AnswersGood'
  <2>1. /\ http' = http /\ http[r].reply.code # 500
        /\ \A q \in Callers \ {r} : job'[q] = job[q]
    BY <1>36, <1>n DEF JobSend, ServeTypes
  <2>2. AnswerGood(r)'
    BY <2>1, <1>h DEF AnswerGood
  <2> QED
    BY <2>1, <2>2, <1>f DEF AnswersGood
<1>37. ASSUME NEW r \in Callers, TableStep(r) PROVE AnswersGood'
  BY <1>37, <1>f DEF TableStep, svars, AnswersGood
<1>38. CASE CatalystStep
  BY <1>38, <1>f DEF CatalystStep, svars, AnswersGood
<1>39. CASE Crash
  <2>1. \A q \in Callers : /\ http'[q].reply = http[q].reply /\ http'[q].key = http[q].key
                            /\ job'[q] = NoJob
    BY <1>39 DEF Crash, ServeTypes, HttpState
  <2>2. \A q \in Callers : AnswerGood(q)'
    BY <2>1, <1>h DEF AnswerGood, NoJob
  <2> QED
    BY <2>2 DEF AnswersGood
<1>40. CASE Finished
  BY <1>40, <1>f DEF Finished, vars, svars, AnswersGood
<1>41. CASE UNCHANGED vars
  BY <1>41, <1>f DEF vars, svars, AnswersGood
<1>42. ASSUME NEW r \in Callers, JobFetchOpen(r) PROVE AnswersGood'
  BY <1>42, <1>f DEF JobFetchOpen, svars, AnswersGood
<1>43. ASSUME NEW r \in Callers, JobRenameFail(r) PROVE AnswersGood'
  <2>1. /\ http' = http /\ http[r].reply.code # 500
        /\ \A q \in Callers \ {r} : job'[q] = job[q]
    BY <1>43, <1>n DEF JobRenameFail, ServeTypes
  <2>2. AnswerGood(r)'
    BY <2>1, <1>h DEF AnswerGood
  <2> QED
    BY <2>1, <2>2, <1>f DEF AnswersGood
<1> QED
  BY <1>1, <1>2, <1>3, <1>4, <1>5, <1>6, <1>7, <1>8, <1>9, <1>10, <1>11, <1>12, <1>13,
     <1>14, <1>15, <1>16, <1>17, <1>18, <1>19, <1>20, <1>21, <1>22, <1>23, <1>24, <1>25,
     <1>26, <1>27, <1>28, <1>29, <1>30, <1>31, <1>32, <1>33, <1>34, <1>35, <1>36, <1>37,
     <1>38, <1>39, <1>40, <1>41, <1>42, <1>43
     DEF Next, Arrive, HandlerStep, JobStep

-----------------------------------------------------------------------------
\* Without a cap a cached bundle is never replaced.
LEMMA CacheStays ==
  ASSUME CallersInv, LockInv, ~Capped, [Next]_vars
  PROVE  \A k \in Keys : cache[k] # Nil => cache'[k] = cache[k]
<1>t. ServeTypes /\ Phases
  BY DEF CallersInv
<1>1. CASE UNCHANGED cache
  BY <1>1
<1>2. ASSUME NEW r \in Callers, JobRename(r)
      PROVE  \A k \in Keys : cache[k] # Nil => cache'[k] = cache[k]
  <2>1. cache[http[r].key] = Nil /\ http[r].key \in Keys
    BY <1>2, <1>t DEF JobRename, LockInv, Building, Phases
  <2>2. \A k \in Keys \ {http[r].key} : cache'[k] = cache[k]
    BY <1>2, <1>t DEF JobRename, ServeTypes
  <2> QED
    BY <2>1, <2>2
<1>3. ASSUME NEW r \in Callers, JobEvict(r)
      PROVE  \A k \in Keys : cache[k] # Nil => cache'[k] = cache[k]
  BY <1>3 DEF JobEvict
<1>4. UNCHANGED cache \/ \E r \in Callers : JobRename(r) \/ JobEvict(r)
  <2>1. ASSUME NEW r \in Callers, Arrive(r) \/ HandlerStep(r) \/ TableStep(r) PROVE UNCHANGED cache
    BY <2>1 DEF Arrive, HandlerStep, TableStep, svars, RouteBundle, RouteFlat, RouteManifest,
                RoutePost,
                ManifestOk, ManifestErr, PostReply, ProbeHit, ProbeMiss, Receive, TimeOut,
                FallbackHit, FallbackMiss, ReceiveSlow
  <2>2. ASSUME NEW r \in Callers, JobStep(r) PROVE UNCHANGED cache \/ JobRename(r) \/ JobEvict(r)
    BY <2>2 DEF JobStep, JobProbe, JobLock, JobRecheckHit, JobRecheckMiss, JobCtxOk, JobCtxErr,
                JobFound, JobFindOwner, JobNotFound, JobEnsure, JobFetchOpen, JobFetchOk,
                JobFetchFail, JobBuildOk, JobBuildFail, JobWrite, JobWritten, JobWriteFail,
                JobRenameFail, JobPut, JobPutManifest, JobSend, svars
  <2> QED
    BY <2>1, <2>2 DEF Next, CatalystStep, Crash, Finished, vars, svars
<1> QED
  BY <1>1, <1>2, <1>3, <1>4

\* What was built or answered fresh stays in the cache.
LEMMA FreshStep ==
  CallersInv /\ LockInv /\ DataGood /\ CacheGood /\ FreshInv /\ [Next]_vars => FreshInv'
<1> SUFFICES ASSUME CallersInv, LockInv, DataGood, CacheGood, FreshInv, ~Capped, [Next]_vars
             PROVE  FreshInv'
  BY DEF FreshInv
<1>t. ServeTypes /\ Phases
  BY DEF CallersInv
<1>h. \A r \in Callers : Fresh(r)
  BY DEF FreshInv
<1>c. \A k \in Keys : cache[k] # Nil => cache'[k] = cache[k]
  BY CacheStays
<1>k. \A r \in Callers : job[r].st # "none" => http[r].key \in Keys
  BY <1>t DEF Phases
<1>f. \A q \in Callers : /\ http'[q].reply = http[q].reply /\ http'[q].key = http[q].key
                         /\ job'[q] = job[q]
                         => Fresh(q)'
  BY <1>h, <1>c, <1>k DEF Fresh
<1>z. NoReply.from = "" /\ \A r \in Callers : http[r].st # "done" => http[r].reply = NoReply
  BY <1>t DEF NoReply, Phases
<1> USE <1>t
<1>1. ASSUME NEW r \in Callers, NEW a \in Asks, RouteBundle(r, a) PROVE FreshInv'
  <2>1. job' = job /\ http[r].st = "new" /\ \A q \in Callers \ {r} : http'[q] = http[q]
    BY <1>1 DEF RouteBundle, ServeTypes
  <2>2. http'[r].reply = http[r].reply
    BY <1>1 DEF RouteBundle, ServeTypes, HttpState
  <2>3. job[r].st = "none" /\ http'[r].reply.from = ""
    BY <2>1, <2>2, <1>z DEF Phases
  <2>4. Fresh(r)'
    BY <2>1, <2>3 DEF Fresh
  <2> QED
    BY <2>1, <2>4, <1>f DEF FreshInv
<1>2. ASSUME NEW r \in Callers, NEW a \in Asks, RouteFlat(r, a) PROVE FreshInv'
  <2>1. /\ job' = job
        /\ job[r].st = "none"
        /\ http[r].reply = NoReply
        /\ \A q \in Callers \ {r} : http'[q] = http[q]
    BY <1>2, <1>z, FlatRouted DEF RouteFlat, OnlyHttp, Phases
  <2>2. http'[r].reply.from \in {"", "unknown-asset"}
    BY <1>2, <2>1, <1>z, FlatRouted DEF ReplyIs
  <2>3. Fresh(r)'
    BY <2>1, <2>2 DEF Fresh
  <2> QED
    BY <2>1, <2>3, <1>f DEF FreshInv
<1>3. ASSUME NEW r \in Callers, NEW a \in Asks, RouteManifest(r, a) PROVE FreshInv'
  <2>1. /\ job' = job
        /\ \A q \in Callers \ {r} : http'[q] = http[q]
    BY <1>3 DEF RouteManifest, ServeTypes
  <2>2. http'[r].reply = NoReply /\ (job[r].st # "none" => http'[r].key = http[r].key)
    BY <1>3, <1>z DEF RouteManifest, ServeTypes, HttpState, Phases
  <2>3. Fresh(r)'
    BY <2>1, <2>2, <1>h, <1>c, <1>k, <1>z DEF Fresh
  <2> QED
    BY <2>1, <2>3, <1>f DEF FreshInv
<1>4. ASSUME NEW r \in Callers, NEW names \in Posts, RoutePost(r, names) PROVE FreshInv'
  <2>1. /\ job' = job
        /\ \A q \in Callers \ {r} : http'[q] = http[q]
    BY <1>4 DEF RoutePost, ServeTypes
  <2>2. http'[r].reply = NoReply /\ (job[r].st # "none" => http'[r].key = http[r].key)
    BY <1>4, <1>z DEF RoutePost, ServeTypes, HttpState, Phases
  <2>3. Fresh(r)'
    BY <2>1, <2>2, <1>h, <1>c, <1>k, <1>z DEF Fresh
  <2> QED
    BY <2>1, <2>3, <1>f DEF FreshInv
<1>5. ASSUME NEW r \in Callers, ManifestOk(r) PROVE FreshInv'
  <2>1. PICK y : Replied(r, y) /\ y = [code |-> 200, from |-> "manifest", file |-> Nil]
    BY <1>5 DEF ManifestOk, Answer, Replied
  <2>r. Replied(r, y)
    BY <2>1
  <2>2. /\ http'[r].key = http[r].key /\ http'[r].reply = y
        /\ \A q \in Callers \ {r} : http'[q] = http[q]
    BY <2>r, AnswerIs
  <2>3. job' = job
    BY <1>5 DEF ManifestOk
  <2>4. http'[r].reply.from = "manifest"
    BY <2>1, <2>2
  <2>k. job[r].st # "none" => http[r].key \in Keys
    BY <1>k
  <2>5. Fresh(r)'
    BY <2>2, <2>3, <2>4, <1>h, <1>c, <1>k DEF Fresh
  <2> QED
    BY <2>2, <2>3, <2>5, <1>f DEF FreshInv
<1>6. ASSUME NEW r \in Callers, ManifestErr(r) PROVE FreshInv'
  <2>1. /\ job' = job /\ job[r].st = "none" /\ \A q \in Callers \ {r} : http'[q] = http[q]
        /\ http'[r].reply.from \in {"manifest-from-space", "unknown-entity"}
    BY <1>6, ManifestGone DEF ManifestErr, OnlyHttp, Phases
  <2>2. Fresh(r)'
    BY <2>1 DEF Fresh
  <2> QED
    BY <2>1, <2>2, <1>f DEF FreshInv
<1>7. ASSUME NEW r \in Callers, PostReply(r) PROVE FreshInv'
  <2>1. PICK y : Replied(r, y) /\ y = [code |-> 200, from |-> "versions", file |-> Nil]
    BY <1>7 DEF PostReply, Answer, Replied
  <2>r. Replied(r, y)
    BY <2>1
  <2>2. /\ http'[r].key = http[r].key /\ http'[r].reply = y
        /\ \A q \in Callers \ {r} : http'[q] = http[q]
    BY <2>r, AnswerIs
  <2>3. job' = job
    BY <1>7 DEF PostReply
  <2>4. http'[r].reply.from = "versions"
    BY <2>1, <2>2
  <2>k. job[r].st # "none" => http[r].key \in Keys
    BY <1>k
  <2>5. Fresh(r)'
    BY <2>2, <2>3, <2>4, <1>h, <1>c, <1>k DEF Fresh
  <2> QED
    BY <2>2, <2>3, <2>5, <1>f DEF FreshInv
<1>8. ASSUME NEW r \in Callers, ProbeHit(r) PROVE FreshInv'
  <2>1. PICK y : Replied(r, y) /\ y = [code |-> 200, from |-> "cache", file |-> cache[http[r].key]]
    BY <1>8 DEF ProbeHit, Answer, Replied
  <2>r. Replied(r, y)
    BY <2>1
  <2>2. /\ http'[r].key = http[r].key /\ http'[r].reply = y
        /\ \A q \in Callers \ {r} : http'[q] = http[q]
    BY <2>r, AnswerIs
  <2>3. job' = job
    BY <1>8 DEF ProbeHit
  <2>a. http[r].key \in Keys /\ cache[http[r].key] # Nil
    BY <1>8, KeysTyped DEF ProbeHit
  <2>4. http'[r].reply.file = cache[http[r].key] /\ cache[http[r].key] # Nil /\ http[r].key \in Keys
    BY <2>1, <2>2, <2>a
  <2>5. Fresh(r)'
    BY <2>2, <2>3, <2>4, <1>h, <1>c, <1>k DEF Fresh
  <2> QED
    BY <2>2, <2>3, <2>5, <1>f DEF FreshInv
<1>9. ASSUME NEW r \in Callers, ProbeMiss(r) PROVE FreshInv'
  <2>1. /\ \A q \in Callers \ {r} : http'[q] = http[q] /\ job'[q] = job[q]
        /\ http'[r].reply = http[r].reply /\ job'[r].st = "probe" /\ http[r].st = "probe"
    BY <1>9 DEF ProbeMiss, ServeTypes, HttpState
  <2>2. Fresh(r)'
    BY <2>1, <1>z DEF Fresh
  <2> QED
    BY <2>1, <2>2, <1>f DEF FreshInv
<1>10. ASSUME NEW r \in Callers, Receive(r) PROVE FreshInv'
  <2>1. job' = job /\ \A q \in Callers \ {r} : http'[q] = http[q]
    BY <1>10, Received DEF Receive, OnlyHttp
  <2>2. http'[r].key = http[r].key
    BY <1>10, Received
  <2>3. job[r].st = "sent" /\ http[r].reply.from = ""
    BY <1>10, <1>z DEF Receive
  <2>4. \/ http'[r].reply.from \notin {"fresh", "fresh-slow", "cache"} /\ job[r].st = "sent"
        \/ job[r].st = "sent" /\ job[r].data # Nil /\ http'[r].reply.file = job[r].data
    BY <1>10, <2>3, Received DEF ReplyIs
  <2>5. Fresh(r)'
    BY <2>1, <2>2, <2>4, <1>h, <1>c, <1>k DEF Fresh
  <2> QED
    BY <2>1, <2>5, <1>f DEF FreshInv
<1>11. ASSUME NEW r \in Callers, TimeOut(r) PROVE FreshInv'
  <2>1. /\ job' = job
        /\ \A q \in Callers \ {r} : http'[q] = http[q]
    BY <1>11 DEF TimeOut, ServeTypes
  <2>2. http'[r].reply = NoReply /\ (job[r].st # "none" => http'[r].key = http[r].key)
    BY <1>11, <1>z DEF TimeOut, ServeTypes, HttpState, Phases
  <2>3. Fresh(r)'
    BY <2>1, <2>2, <1>h, <1>c, <1>k, <1>z DEF Fresh
  <2> QED
    BY <2>1, <2>3, <1>f DEF FreshInv
<1>12. ASSUME NEW r \in Callers, FallbackHit(r) PROVE FreshInv'
  <2>1. PICK y :
            Replied(r, y) /\ y = [code |-> 200, from |-> "fallback", file |-> Fallback(http[r].key)]
    BY <1>12 DEF FallbackHit, Answer, Replied
  <2>r. Replied(r, y)
    BY <2>1
  <2>2. /\ http'[r].key = http[r].key /\ http'[r].reply = y
        /\ \A q \in Callers \ {r} : http'[q] = http[q]
    BY <2>r, AnswerIs
  <2>3. job' = job
    BY <1>12 DEF FallbackHit
  <2>4. http'[r].reply.from = "fallback"
    BY <2>1, <2>2
  <2>5. Fresh(r)'
    BY <2>2, <2>3, <2>4, <1>h, <1>c, <1>k DEF Fresh
  <2> QED
    BY <2>2, <2>3, <2>5, <1>f DEF FreshInv
<1>13. ASSUME NEW r \in Callers, FallbackMiss(r) PROVE FreshInv'
  <2>1. job' = job /\ \A q \in Callers \ {r} : http'[q] = http[q]
    BY <1>13, GaveUp DEF FallbackMiss, OnlyHttp
  <2>2. http'[r].key = http[r].key
    BY <1>13, GaveUp
  <2>3. http[r].reply.from = ""
    BY <1>13, <1>z DEF FallbackMiss
  <2>4. http'[r].reply.from \notin {"fresh", "fresh-slow", "cache"}
    BY <1>13, <2>3, GaveUp DEF ReplyIs
  <2>5. Fresh(r)'
    BY <2>1, <2>2, <2>4, <1>h, <1>c, <1>k DEF Fresh
  <2> QED
    BY <2>1, <2>5, <1>f DEF FreshInv
<1>14. ASSUME NEW r \in Callers, ReceiveSlow(r) PROVE FreshInv'
  <2>1. job' = job /\ \A q \in Callers \ {r} : http'[q] = http[q]
    BY <1>14, ReceivedSlow DEF ReceiveSlow, OnlyHttp
  <2>2. http'[r].key = http[r].key
    BY <1>14, ReceivedSlow
  <2>3. job[r].st = "sent" /\ http[r].reply.from = ""
    BY <1>14, <1>z DEF ReceiveSlow
  <2>4. \/ http'[r].reply.from \notin {"fresh", "fresh-slow", "cache"} /\ job[r].st = "sent"
        \/ job[r].st = "sent" /\ job[r].data # Nil /\ http'[r].reply.file = job[r].data
    BY <1>14, <2>3, ReceivedSlow DEF ReplyIs
  <2>5. Fresh(r)'
    BY <2>1, <2>2, <2>4, <1>h, <1>c, <1>k DEF Fresh
  <2> QED
    BY <2>1, <2>5, <1>f DEF FreshInv
<1>15. ASSUME NEW r \in Callers, JobProbe(r) PROVE FreshInv'
  <2>1. /\ http' = http /\ \A q \in Callers \ {r} : job'[q] = job[q]
    BY <1>15 DEF JobProbe, ServeTypes
  <2>2. /\ job'[r].st # "none"
        /\ job[r].st # "none"
        /\ (job'[r].st = "put" => job'[r].data = cache[http[r].key])
        /\ job'[r].st \in {"put", "lock"}
    BY <1>15 DEF JobProbe, ServeTypes, JobState
  <2>3. Fresh(r)'
    BY <2>1, <2>2, <1>h, <1>c, <1>k DEF Fresh
  <2> QED
    BY <2>1, <2>3, <1>f DEF FreshInv
<1>16. ASSUME NEW r \in Callers, JobLock(r) PROVE FreshInv'
  <2>1. /\ http' = http /\ \A q \in Callers \ {r} : job'[q] = job[q]
    BY <1>16 DEF JobLock, ServeTypes
  <2>2. job[r].st # "none" /\ job'[r].st \notin {"put", "putmanifest", "lru", "send", "sent"}
    BY <1>16 DEF JobLock, ServeTypes, JobState
  <2>3. Fresh(r)'
    BY <2>1, <2>2, <1>h, <1>c, <1>k DEF Fresh
  <2> QED
    BY <2>1, <2>3, <1>f DEF FreshInv
<1>17. ASSUME NEW r \in Callers, JobRecheckHit(r) PROVE FreshInv'
  <2>1. /\ http' = http /\ \A q \in Callers \ {r} : job'[q] = job[q]
    BY <1>17 DEF JobRecheckHit, ServeTypes
  <2>2. /\ job'[r].st # "none"
        /\ job[r].st # "none"
        /\ (job'[r].st = "put" => job'[r].data = cache[http[r].key])
        /\ job'[r].st = "put"
    BY <1>17 DEF JobRecheckHit, ServeTypes, JobState
  <2>3. Fresh(r)'
    BY <2>1, <2>2, <1>h, <1>c, <1>k DEF Fresh
  <2> QED
    BY <2>1, <2>3, <1>f DEF FreshInv
<1>18. ASSUME NEW r \in Callers, JobRecheckMiss(r) PROVE FreshInv'
  <2>1. /\ http' = http /\ \A q \in Callers \ {r} : job'[q] = job[q]
    BY <1>18 DEF JobRecheckMiss, ServeTypes
  <2>2. job[r].st # "none" /\ job'[r].st \notin {"put", "putmanifest", "lru", "send", "sent"}
    BY <1>18 DEF JobRecheckMiss, ServeTypes, JobState
  <2>3. Fresh(r)'
    BY <2>1, <2>2, <1>h, <1>c, <1>k DEF Fresh
  <2> QED
    BY <2>1, <2>3, <1>f DEF FreshInv
<1>19. ASSUME NEW r \in Callers, JobCtxOk(r) PROVE FreshInv'
  <2>1. /\ http' = http /\ \A q \in Callers \ {r} : job'[q] = job[q]
    BY <1>19 DEF JobCtxOk, ServeTypes
  <2>2. job[r].st # "none" /\ job'[r].st \notin {"put", "putmanifest", "lru", "send", "sent"}
    BY <1>19 DEF JobCtxOk, ServeTypes, JobState
  <2>3. Fresh(r)'
    BY <2>1, <2>2, <1>h, <1>c, <1>k DEF Fresh
  <2> QED
    BY <2>1, <2>3, <1>f DEF FreshInv
<1>20. ASSUME NEW r \in Callers, JobCtxErr(r) PROVE FreshInv'
  <2>1. /\ http' = http /\ \A q \in Callers \ {r} : job'[q] = job[q]
    BY <1>20 DEF JobCtxErr, FailJob, ServeTypes
  <2>2. job[r].st # "none" /\ job'[r].data = Nil
    BY <1>20 DEF JobCtxErr, FailJob, ServeTypes, JobState
  <2>3. Fresh(r)'
    BY <2>1, <2>2, <1>h, <1>c, <1>k DEF Fresh
  <2> QED
    BY <2>1, <2>3, <1>f DEF FreshInv
<1>21. ASSUME NEW r \in Callers, JobFound(r) PROVE FreshInv'
  <2>1. /\ http' = http /\ \A q \in Callers \ {r} : job'[q] = job[q]
    BY <1>21 DEF JobFound, ServeTypes
  <2>2. job[r].st # "none" /\ job'[r].st \notin {"put", "putmanifest", "lru", "send", "sent"}
    BY <1>21 DEF JobFound, ServeTypes, JobState
  <2>3. Fresh(r)'
    BY <2>1, <2>2, <1>h, <1>c, <1>k DEF Fresh
  <2> QED
    BY <2>1, <2>3, <1>f DEF FreshInv
<1>22. ASSUME NEW r \in Callers, JobFindOwner(r) PROVE FreshInv'
  <2>1. /\ http' = http /\ \A q \in Callers \ {r} : job'[q] = job[q]
    BY <1>22 DEF JobFindOwner, ServeTypes
  <2>2. job[r].st # "none" /\ job'[r].st \notin {"put", "putmanifest", "lru", "send", "sent"}
    BY <1>22 DEF JobFindOwner, ServeTypes, JobState
  <2>3. Fresh(r)'
    BY <2>1, <2>2, <1>h, <1>c, <1>k DEF Fresh
  <2> QED
    BY <2>1, <2>3, <1>f DEF FreshInv
<1>23. ASSUME NEW r \in Callers, JobNotFound(r) PROVE FreshInv'
  <2>1. /\ http' = http /\ \A q \in Callers \ {r} : job'[q] = job[q]
    BY <1>23 DEF JobNotFound, FailJob, ServeTypes
  <2>2. job[r].st # "none" /\ job'[r].data = Nil
    BY <1>23 DEF JobNotFound, FailJob, ServeTypes, JobState
  <2>3. Fresh(r)'
    BY <2>1, <2>2, <1>h, <1>c, <1>k DEF Fresh
  <2> QED
    BY <2>1, <2>3, <1>f DEF FreshInv
<1>24. ASSUME NEW r \in Callers, JobEnsure(r) PROVE FreshInv'
  <2>1. /\ http' = http /\ \A q \in Callers \ {r} : job'[q] = job[q]
    BY <1>24, EnsureMoves DEF Ensured, ServeTypes
  <2>2. job[r].st # "none" /\ job'[r].st \notin {"put", "putmanifest", "lru", "send", "sent"}
    BY <1>24, EnsureMoves DEF Ensured, ServeTypes, JobState
  <2>3. Fresh(r)'
    BY <2>1, <2>2, <1>h, <1>c, <1>k DEF Fresh
  <2> QED
    BY <2>1, <2>3, <1>f DEF FreshInv
<1>25. ASSUME NEW r \in Callers, JobFetchOk(r) PROVE FreshInv'
  <2>1. /\ http' = http /\ \A q \in Callers \ {r} : job'[q] = job[q]
    BY <1>25 DEF JobFetchOk, ServeTypes
  <2>2. job[r].st # "none" /\ job'[r].st \notin {"put", "putmanifest", "lru", "send", "sent"}
    BY <1>25 DEF JobFetchOk, ServeTypes, JobState
  <2>3. Fresh(r)'
    BY <2>1, <2>2, <1>h, <1>c, <1>k DEF Fresh
  <2> QED
    BY <2>1, <2>3, <1>f DEF FreshInv
<1>26. ASSUME NEW r \in Callers, JobFetchFail(r) PROVE FreshInv'
  <2>1. /\ http' = http /\ \A q \in Callers \ {r} : job'[q] = job[q]
    BY <1>26 DEF JobFetchFail, FailJob, ServeTypes
  <2>2. job[r].st # "none" /\ job'[r].data = Nil
    BY <1>26 DEF JobFetchFail, FailJob, ServeTypes, JobState
  <2>3. Fresh(r)'
    BY <2>1, <2>2, <1>h, <1>c, <1>k DEF Fresh
  <2> QED
    BY <2>1, <2>3, <1>f DEF FreshInv
<1>27. ASSUME NEW r \in Callers, JobBuildOk(r) PROVE FreshInv'
  <2>1. /\ http' = http /\ \A q \in Callers \ {r} : job'[q] = job[q]
    BY <1>27 DEF JobBuildOk, ServeTypes
  <2>2. job[r].st # "none" /\ job'[r].st \notin {"put", "putmanifest", "lru", "send", "sent"}
    BY <1>27 DEF JobBuildOk, ServeTypes, JobState
  <2>3. Fresh(r)'
    BY <2>1, <2>2, <1>h, <1>c, <1>k DEF Fresh
  <2> QED
    BY <2>1, <2>3, <1>f DEF FreshInv
<1>28. ASSUME NEW r \in Callers, JobBuildFail(r) PROVE FreshInv'
  <2>1. /\ http' = http /\ \A q \in Callers \ {r} : job'[q] = job[q]
    BY <1>28 DEF JobBuildFail, FailJob, ServeTypes
  <2>2. job[r].st # "none" /\ job'[r].data = Nil
    BY <1>28 DEF JobBuildFail, FailJob, ServeTypes, JobState
  <2>3. Fresh(r)'
    BY <2>1, <2>2, <1>h, <1>c, <1>k DEF Fresh
  <2> QED
    BY <2>1, <2>3, <1>f DEF FreshInv
<1>29. ASSUME NEW r \in Callers, JobWrite(r) PROVE FreshInv'
  <2>1. /\ http' = http /\ \A q \in Callers \ {r} : job'[q] = job[q]
    BY <1>29 DEF JobWrite, ServeTypes
  <2>2. job[r].st # "none" /\ job'[r].st \notin {"put", "putmanifest", "lru", "send", "sent"}
    BY <1>29 DEF JobWrite, ServeTypes, JobState
  <2>3. Fresh(r)'
    BY <2>1, <2>2, <1>h, <1>c, <1>k DEF Fresh
  <2> QED
    BY <2>1, <2>3, <1>f DEF FreshInv
<1>30. ASSUME NEW r \in Callers, JobWritten(r) PROVE FreshInv'
  <2>1. /\ http' = http /\ \A q \in Callers \ {r} : job'[q] = job[q]
    BY <1>30 DEF JobWritten, ServeTypes
  <2>2. job[r].st # "none" /\ job'[r].st \notin {"put", "putmanifest", "lru", "send", "sent"}
    BY <1>30 DEF JobWritten, ServeTypes, JobState
  <2>3. Fresh(r)'
    BY <2>1, <2>2, <1>h, <1>c, <1>k DEF Fresh
  <2> QED
    BY <2>1, <2>3, <1>f DEF FreshInv
<1>31. ASSUME NEW r \in Callers, JobWriteFail(r) PROVE FreshInv'
  <2>1. /\ http' = http /\ \A q \in Callers \ {r} : job'[q] = job[q]
    BY <1>31 DEF JobWriteFail, FailJob, ServeTypes
  <2>2. job[r].st # "none" /\ job'[r].data = Nil
    BY <1>31 DEF JobWriteFail, FailJob, ServeTypes, JobState
  <2>3. Fresh(r)'
    BY <2>1, <2>2, <1>h, <1>c, <1>k DEF Fresh
  <2> QED
    BY <2>1, <2>3, <1>f DEF FreshInv
<1>32. ASSUME NEW r \in Callers, JobRename(r) PROVE FreshInv'
  <2> DEFINE k == http[r].key
  <2>1. /\ job[r].st = "rename" /\ k \in Keys /\ job[r].data \in File /\ job[r].data # Nil
        /\ tmp[k] = "whole"
    BY <1>32, KeysTyped DEF JobRename, Phases, LockInv
  <2>2. [job[r].data EXCEPT !.whole = (tmp[k] = "whole")] = job[r].data
    BY <2>1 DEF DataGood, File, Good
  <2>3. cache' = [cache EXCEPT ![k] = job[r].data]
    BY <1>32, <2>2 DEF JobRename
  <2>4. /\ http' = http /\ job'[r].data = job[r].data /\ \A q \in Callers \ {r} : job'[q] = job[q]
    BY <1>32 DEF JobRename, ServeTypes, JobState
  <2>5. cache'[k] = job'[r].data
    BY <2>1, <2>3, <2>4 DEF ServeTypes
  <2>6. Fresh(r)'
    BY <2>4, <2>5, <1>h, <1>c DEF Fresh
  <2> QED
    BY <2>4, <2>6, <1>f DEF FreshInv
<1>33. ASSUME NEW r \in Callers, JobPut(r) PROVE FreshInv'
  <2>1. /\ http' = http /\ \A q \in Callers \ {r} : job'[q] = job[q]
    BY <1>33 DEF JobPut, ServeTypes
  <2>2. job[r].st \in {"put", "putmanifest", "lru", "send"} /\ job'[r].data = job[r].data
    BY <1>33 DEF JobPut, ServeTypes, JobState
  <2>3. Fresh(r)'
    BY <2>1, <2>2, <1>h, <1>c, <1>k DEF Fresh
  <2> QED
    BY <2>1, <2>3, <1>f DEF FreshInv
<1>34. ASSUME NEW r \in Callers, JobPutManifest(r) PROVE FreshInv'
  <2>1. /\ http' = http /\ \A q \in Callers \ {r} : job'[q] = job[q]
    BY <1>34 DEF JobPutManifest, ServeTypes
  <2>2. job[r].st \in {"put", "putmanifest", "lru", "send"} /\ job'[r].data = job[r].data
    BY <1>34 DEF JobPutManifest, ServeTypes, JobState
  <2>3. Fresh(r)'
    BY <2>1, <2>2, <1>h, <1>c, <1>k DEF Fresh
  <2> QED
    BY <2>1, <2>3, <1>f DEF FreshInv
<1>35. ASSUME NEW r \in Callers, JobEvict(r) PROVE FreshInv'
  <2>1. /\ http' = http /\ \A q \in Callers \ {r} : job'[q] = job[q]
    BY <1>35 DEF JobEvict, ServeTypes
  <2>2. job[r].st \in {"put", "putmanifest", "lru", "send"} /\ job'[r].data = job[r].data
    BY <1>35 DEF JobEvict, ServeTypes, JobState
  <2>3. Fresh(r)'
    BY <2>1, <2>2, <1>h, <1>c, <1>k DEF Fresh
  <2> QED
    BY <2>1, <2>3, <1>f DEF FreshInv
<1>36. ASSUME NEW r \in Callers, JobSend(r) PROVE FreshInv'
  <2>1. /\ http' = http /\ \A q \in Callers \ {r} : job'[q] = job[q]
    BY <1>36 DEF JobSend, ServeTypes
  <2>2. job[r].st \in {"put", "putmanifest", "lru", "send"} /\ job'[r].data = job[r].data
    BY <1>36 DEF JobSend, ServeTypes, JobState
  <2>3. Fresh(r)'
    BY <2>1, <2>2, <1>h, <1>c, <1>k DEF Fresh
  <2> QED
    BY <2>1, <2>3, <1>f DEF FreshInv
<1>37. ASSUME NEW r \in Callers, TableStep(r) PROVE FreshInv'
  BY <1>37, <1>f DEF TableStep, svars, FreshInv
<1>38. CASE CatalystStep
  BY <1>38, <1>f DEF CatalystStep, svars, FreshInv
<1>39. CASE Crash
  <2>1. /\ cache' = cache
        /\ \A q \in Callers : /\ http'[q].reply = http[q].reply /\ http'[q].key = http[q].key
                             /\ job'[q].st = "none"
    BY <1>39 DEF Crash, ServeTypes, HttpState, NoJob
  <2>2. \A q \in Callers : Fresh(q)'
    BY <2>1, <1>h DEF Fresh
  <2> QED
    BY <2>2 DEF FreshInv
<1>40. CASE Finished
  BY <1>40, <1>f DEF Finished, vars, svars, FreshInv
<1>41. CASE UNCHANGED vars
  BY <1>41, <1>f DEF vars, svars, FreshInv
<1>42. ASSUME NEW r \in Callers, JobFetchOpen(r) PROVE FreshInv'
  BY <1>42, <1>f DEF JobFetchOpen, svars, FreshInv
<1>43. ASSUME NEW r \in Callers, JobRenameFail(r) PROVE FreshInv'
  <2>1. /\ http' = http /\ \A q \in Callers \ {r} : job'[q] = job[q]
    BY <1>43 DEF JobRenameFail, ServeTypes
  <2>2. job[r].st = "rename" /\ job[r].data \in File
    BY <1>43, KeysTyped, ServeAssumption DEF JobRenameFail, Phases
  <2>3. job'[r].data = [job[r].data EXCEPT !.saved = FALSE]
    BY <1>43 DEF JobRenameFail, ServeTypes, JobState
  <2>4. ~job'[r].data.saved
    BY <2>2, <2>3 DEF File
  <2>5. Fresh(r)'
    BY <2>1, <2>2, <2>4, <1>h, <1>c, <1>k DEF Fresh
  <2> QED
    BY <2>1, <2>5, <1>f DEF FreshInv
<1> QED
  BY <1>1, <1>2, <1>3, <1>4, <1>5, <1>6, <1>7, <1>8, <1>9, <1>10, <1>11, <1>12, <1>13,
     <1>14, <1>15, <1>16, <1>17, <1>18, <1>19, <1>20, <1>21, <1>22, <1>23, <1>24, <1>25,
     <1>26, <1>27, <1>28, <1>29, <1>30, <1>31, <1>32, <1>33, <1>34, <1>35, <1>36, <1>37,
     <1>38, <1>39, <1>40, <1>41, <1>42, <1>43
     DEF Next, Arrive, HandlerStep, JobStep

-----------------------------------------------------------------------------
\* The inductive invariant of the request path: the invariant of the entity
\* table, the types and phases, who holds which lock, how a build got to its
\* entity, and what files and answers are.
ServeInv ==
  /\ FlightInv /\ TableInv /\ ScanInv
  /\ CallersInv /\ LockInv /\ HopInv
  /\ CacheGood /\ DataGood /\ SpaceGood /\ AnswersGood
  /\ FreshInv

LEMMA InitServe == Init => ServeInv
<1> SUFFICES ASSUME Init PROVE ServeInv
  OBVIOUS
<1>1. FlightInv /\ TableInv /\ ScanInv
  BY InitFlight, InitTable, InitScan DEF Init
<1>2. CallersInv
  BY InitCallers
<1>3. \A r \in Callers : http[r] = NewHttp /\ job[r] = NoJob
  BY DEF Init
<1>4. LockInv /\ HopInv /\ DataGood
  BY <1>3 DEF NoJob, LockInv, Locked, Building, HopInv, Hop, DataGood
<1>5. CacheGood
  BY DEF Init, CacheGood
<1>6. SpaceGood
  BY GoodIsServable DEF Init, SpaceGood
<1>7. NewHttp.reply = NoReply /\ NoReply.file = Nil /\ NoReply.code # 500 /\ NoReply.from = ""
  BY DEF NewHttp, NoReply
<1>8. AnswersGood
  BY <1>3, <1>7 DEF AnswersGood, AnswerGood
<1>9. FreshInv
  <2>1. \A r \in Callers : job[r].data = Nil
    BY <1>3 DEF NoJob
  <2>2. \A r \in Callers : http[r].reply.from = ""
    BY <1>3, <1>7
  <2> QED
    BY <2>1, <2>2 DEF FreshInv, Fresh
<1> QED
  BY <1>1, <1>2, <1>4, <1>5, <1>6, <1>8, <1>9 DEF ServeInv

LEMMA ServeStep == ServeInv /\ [Next]_vars => ServeInv'
<1> SUFFICES ASSUME ServeInv, [Next]_vars PROVE ServeInv'
  OBVIOUS
<1> USE DEF ServeInv
<1>1. [NextEntity]_evars
  BY TableUsed
<1>2. FlightInv'
  BY <1>1, FlightStep
<1>3. TableInv' /\ ScanInv'
  BY <1>1, <1>2, IndexStep, ScanStep
<1>4. CallersInv'
  BY TypesStep, PhasesStep DEF CallersInv
<1>5. LockInv' /\ HopInv'
  BY LockStep, HopStep
<1>6. CacheGood' /\ DataGood' /\ SpaceGood' /\ AnswersGood'
  BY GoodStep, SpaceStep, AnswersStep
<1>7. FreshInv'
  BY FreshStep
<1> QED
  BY <1>2, <1>3, <1>4, <1>5, <1>6, <1>7

LEMMA ServeInvariant == Spec => []ServeInv
  BY InitServe, ServeStep, PTL DEF Spec

-----------------------------------------------------------------------------
\* Handlers, workers, redeployments and crashes do to the entity table what
\* EntityCtx allows, so all that is proved of EntityCtx holds of the server.
THEOREM TableAsSpecified == Spec => UsesEntityCtx
<1>1. Init => InitEntity
  BY DEF Init
<1>2. ServeInv /\ [Next]_vars => [NextEntity]_evars
  BY TableUsed DEF ServeInv
<1> QED
  BY <1>1, <1>2, ServeInvariant, PTL DEF Spec, UsesEntityCtx, SpecEntity

\* A bundle is built by one worker at a time and only while the disk cache
\* lacks it, however many connections ask for it.
THEOREM BuiltOnce == Spec => []BuildOnce
<1>1. ServeInv => BuildOnce
  BY DEF ServeInv, LockInv, Locked, BuildOnce
<1> QED
  BY <1>1, ServeInvariant, PTL

\* A worker re-resolves its hash once at most, to an entity that deploys it,
\* whatever has been redeployed since and whatever a restart lost.
THEOREM HopsOnce == Spec => []OneHop
<1>1. ServeInv => OneHop
  BY DEF ServeInv, HopInv, Hop, OneHop
<1> QED
  BY <1>1, ServeInvariant, PTL

\* What the disk cache shows is written to the end, and is the bundle of its
\* hash, from the entity in its path if that entity deploys the hash.
THEOREM CachedIsWhole == Spec => []CacheWhole
<1>1. ServeInv => CacheWhole
  BY DEF ServeInv, CacheGood, Good, CacheWhole
<1> QED
  BY <1>1, ServeInvariant, PTL

\* So is what clients are answered with, unless an earlier converter made it,
\* and a 500 only tells of a worker that came to nothing.
THEOREM AnswersAreRight == Spec => []AnswersRight
<1>1. ServeInv => AnswersRight
  BY DEF ServeInv, AnswersGood, AnswerGood, Servable, AnswersRight
<1> QED
  BY <1>1, ServeInvariant, PTL

\* A cached bundle lacks a dependency only if a fetch of its entity failed or
\* two threads had a file of its entity open for writing at once.
THEOREM CachedIsComplete == Spec => []IncompleteOnlyIfLostOrTorn
<1>1. ServeInv => IncompleteOnlyIfLostOrTorn
  BY DEF ServeInv, CacheGood, Good, IncompleteOnlyIfLostOrTorn
<1> QED
  BY <1>1, ServeInvariant, PTL

\* Without a cap a bundle that was answered fresh, or from the cache, is in the
\* disk cache from then on, unless its rename failed.
THEOREM FreshStaysCached == Spec => []FreshIsCached
<1>1. ServeInv => FreshIsCached
  BY DEF ServeInv, FreshInv, Fresh, FreshIsCached
<1> QED
  BY <1>1, ServeInvariant, PTL

\* So the server, too, is a single-flight memo of entity contexts with a sound
\* and complete hash index, and its scans have missed no model that was fetched
\* and that no two threads had open for writing at once.
THEOREM ServerIsMemo == Spec => ImplementsMemo /\ []IndexAgrees /\ []ScanMissesOnlyLostOrTorn
<1>1. Spec => SpecEntity
  BY TableAsSpecified DEF UsesEntityCtx
<1> QED
  BY <1>1, RefinesMemo, IndexCorrect, ScanCorrect
=============================================================================
