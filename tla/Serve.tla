------------------------------- MODULE Serve -------------------------------
(***************************************************************************)
(* The request path of abgen-serve.  Every connection has a thread of its  *)
(* own (`handle', serve_or_fallback); a bundle that is not in the disk     *)
(* cache is built by a worker thread (Proxy::bundle, Proxy::build,         *)
(* put_generated, enforce_lru) that the handler waits for, up to a         *)
(* time-out, before it tries the remote space.  Handlers and workers share *)
(* the entity table of EntityCtx, the bundle locks, the disk cache, its    *)
(* temporary files and the space.                                          *)
(*                                                                         *)
(* A caller is one connection together with its worker: at most one of the *)
(* two is inside entity_ctx or ensure_content, so `call' of EntityCtx is   *)
(* shared by them.                                                         *)
(* One platform is modelled: a bundle name is its hash.                    *)
(***************************************************************************)
EXTENDS EntityCtx, Naturals

CONSTANTS
  Asks,         \* the requests a client may send, see Ask
  SameVersion,  \* whether --fallback-version is --version (the default)
  OldBundles,   \* keys the space has under the fallback version to begin with
  Capped        \* whether --cache-cap-gb is set, i.e. enforce_lru does anything

Keys == Cids \X Hashes

Ask == [kind : {"bundle", "flat", "manifest"}, cid : Cids, hash : Hashes]

\* What a bundle is to the properties: the hash it was built for, the entity
\* in whose context (Nil: an earlier converter's), whether everything it
\* depends on was there and read in full, (history) whether a fetch had failed
\* while that entity was set up, whether its file was written to the end, and
\* (history) whether the rename that puts it in the disk cache did not fail.
File == [hash : Hashes, id : Ids \cup {Nil}, complete : BOOLEAN, lost : BOOLEAN,
         whole : BOOLEAN, saved : BOOLEAN]

OldFile(k) == [hash |-> k[2], id |-> Nil, complete |-> TRUE, lost |-> FALSE, whole |-> TRUE,
               saved |-> TRUE]

ASSUME ServeAssumption ==
  /\ Asks \subseteq Ask
  /\ SameVersion \in BOOLEAN
  /\ Capped \in BOOLEAN
  /\ OldBundles \subseteq Keys
  /\ Nil \notin File \cup {"part", "whole"}

VARIABLES
  http,        \* the handler thread of each connection
  job,         \* its worker thread
  bundleLock,  \* Proxy.bundle_locks: [Keys -> Callers \cup {Nil}]
  cache,       \* the file <bundle_dir>/<cid>/<name>, or Nil
  tmp,         \* its temporary: Nil, "part" (being written) or "whole"
  space,       \* bundles in the remote space under --version
  warm         \* entities with a manifest in the space

svars == <<http, job, bundleLock, cache, tmp, space, warm>>
vars == <<evars, svars>>

HttpPcs == {"new", "probe", "wait", "failed", "timedout", "block", "manifest", "post", "done"}
JobPcs  == {"none", "probe", "lock", "recheck", "ctx", "find", "ensure", "fetch", "build", "write",
            "writing", "rename", "put", "putmanifest", "lru", "send", "sent"}

\* The program points of Proxy::bundle with the bundle lock held.
Building == {"ctx", "find", "ensure", "fetch", "build", "write", "writing", "rename"}
Locked   == Building \cup {"recheck"}

Sources == {"", "cache", "fresh", "fresh-slow", "fallback", "manifest", "manifest-from-space",
            "versions", "unknown-asset", "unknown-entity", "build-failed"}
Reply == [code : {0, 200, 404, 500}, from : Sources, file : File \cup {Nil}]
NoReply == [code |-> 0, from |-> "", file |-> Nil]
NewHttp == [st |-> "new", key |-> Nil, reply |-> NoReply]
NoJob   == [st |-> "none", ctx |-> Nil, hops |-> 0, data |-> Nil]

Init ==
  /\ InitEntity
  /\ http = [r \in Callers |-> NewHttp]
  /\ job = [r \in Callers |-> NoJob]
  /\ bundleLock = [k \in Keys |-> Nil]
  /\ cache = [k \in Keys |-> Nil]
  /\ tmp = [k \in Keys |-> Nil]
  /\ space = [k \in Keys |-> IF SameVersion /\ k \in OldBundles THEN OldFile(k) ELSE Nil]
  /\ warm = {}

-----------------------------------------------------------------------------
\* handle: route the request.
Answer(r, code, from, file) ==
  http' = [http EXCEPT ![r].st = "done",
                       ![r].reply = [code |-> code, from |-> from, file |-> file]]

RouteBundle(r, a) ==
  /\ http[r].st = "new" /\ a.kind = "bundle"
  /\ http' = [http EXCEPT ![r].st = "probe", ![r].key = <<a.cid, a.hash>>]
  /\ UNCHANGED <<evars, job, bundleLock, cache, tmp, space, warm>>

\* The flat two-part path: the entity is the one the hash was indexed under.
RouteFlat(r, a) ==
  LET owner == hashIndex[a.hash] IN
  /\ http[r].st = "new" /\ a.kind = "flat"
  /\ IF owner = Nil
     THEN Answer(r, 404, "unknown-asset", Nil)
     ELSE http' = [http EXCEPT ![r].st = "probe", ![r].key = <<owner, a.hash>>]
  /\ UNCHANGED <<evars, job, bundleLock, cache, tmp, space, warm>>

RouteManifest(r, a) ==
  /\ http[r].st = "new" /\ a.kind = "manifest"
  /\ Call(r, a.cid)
  /\ http' = [http EXCEPT ![r].st = "manifest"]
  /\ UNCHANGED <<job, bundleLock, cache, tmp, space, warm>>

\* The entity is warmed: 200, and the manifest is put in the space, if it can.
ManifestOk(r) ==
  /\ http[r].st = "manifest" /\ call[r].pc = "ok"
  /\ Answer(r, 200, "manifest", Nil)
  /\ warm' \in {warm, warm \cup {call[r].cid}}
  /\ Return(r)
  /\ UNCHANGED <<job, bundleLock, cache, tmp, space>>

\* Otherwise the manifest of an earlier conversion, if the space has one.
ManifestErr(r) ==
  /\ http[r].st = "manifest" /\ call[r].pc = "err"
  /\ \/ call[r].cid \in warm /\ Answer(r, 200, "manifest-from-space", Nil)
     \/ Answer(r, 404, "unknown-entity", Nil)
  /\ Return(r)
  /\ UNCHANGED <<job, bundleLock, cache, tmp, space, warm>>

RoutePost(r, names) ==
  /\ http[r].st = "new"
  /\ PostBegin(r, names)
  /\ http' = [http EXCEPT ![r].st = "post"]
  /\ UNCHANGED <<job, bundleLock, cache, tmp, space, warm>>

PostReply(r) ==
  /\ http[r].st = "post" /\ call[r].pc = "idle"
  /\ Answer(r, 200, "versions", Nil)
  /\ UNCHANGED <<evars, job, bundleLock, cache, tmp, space, warm>>

-----------------------------------------------------------------------------
\* serve_or_fallback.
ProbeHit(r) ==
  /\ http[r].st = "probe" /\ cache[http[r].key] # Nil
  /\ Answer(r, 200, "cache", cache[http[r].key])
  /\ UNCHANGED <<evars, job, bundleLock, cache, tmp, space, warm>>

ProbeMiss(r) ==
  /\ http[r].st = "probe" /\ cache[http[r].key] = Nil
  /\ http' = [http EXCEPT ![r].st = "wait"]
  /\ job' = [job EXCEPT ![r].st = "probe"]
  /\ UNCHANGED <<evars, bundleLock, cache, tmp, space, warm>>

\* recv_timeout: the worker's result arrives in time, or it does not.
Receive(r) ==
  /\ http[r].st = "wait" /\ job[r].st = "sent"
  /\ IF job[r].data # Nil
     THEN Answer(r, 200, "fresh", job[r].data)
     ELSE http' = [http EXCEPT ![r].st = "failed"]
  /\ UNCHANGED <<evars, job, bundleLock, cache, tmp, space, warm>>

TimeOut(r) ==
  /\ http[r].st = "wait" /\ job[r].st # "sent"
  /\ http' = [http EXCEPT ![r].st = "timedout"]
  /\ UNCHANGED <<evars, job, bundleLock, cache, tmp, space, warm>>

\* fetch_fallback: the bundle under the fallback version; absent and an
\* error of the space both count as none.
Fallback(k) == IF SameVersion THEN space[k]
               ELSE IF k \in OldBundles THEN OldFile(k) ELSE Nil

FallbackHit(r) ==
  /\ http[r].st \in {"failed", "timedout"}
  /\ Fallback(http[r].key) # Nil
  /\ Answer(r, 200, "fallback", Fallback(http[r].key))
  /\ UNCHANGED <<evars, job, bundleLock, cache, tmp, space, warm>>

\* Faulty: a time-out without a fallback is answered like a failed build.
FallbackMissGivesUp(r) ==
  /\ http[r].st \in {"failed", "timedout"}
  /\ Answer(r, 500, "build-failed", Nil)
  /\ UNCHANGED <<evars, job, bundleLock, cache, tmp, space, warm>>

\* With no fallback, a failed build is a 500; after a time-out the handler
\* waits for the worker without limit.
FallbackMiss(r) ==
  /\ http[r].st \in {"failed", "timedout"}
  /\ IF http[r].st = "failed"
     THEN Answer(r, 500, "build-failed", Nil)
     ELSE http' = [http EXCEPT ![r].st = "block"]
  /\ UNCHANGED <<evars, job, bundleLock, cache, tmp, space, warm>>

ReceiveSlow(r) ==
  /\ http[r].st = "block" /\ job[r].st = "sent"
  /\ IF job[r].data # Nil
     THEN Answer(r, 200, "fresh-slow", job[r].data)
     ELSE Answer(r, 500, "build-failed", Nil)
  /\ UNCHANGED <<evars, job, bundleLock, cache, tmp, space, warm>>

-----------------------------------------------------------------------------
\* Proxy::bundle, in the worker.
Unlock(r) == bundleLock' = [bundleLock EXCEPT ![http[r].key] = Nil]

JobProbe(r) ==
  LET file == cache[http[r].key] IN
  /\ job[r].st = "probe"
  /\ job' = [job EXCEPT ![r].st = IF file # Nil THEN "put" ELSE "lock", ![r].data = file]
  /\ UNCHANGED <<evars, http, bundleLock, cache, tmp, space, warm>>

\* Faulty: the bundle lock is not waited for.
JobLockBlind(r) ==
  /\ job[r].st = "lock"
  /\ bundleLock' = [bundleLock EXCEPT ![http[r].key] = r]
  /\ job' = [job EXCEPT ![r].st = "recheck"]
  /\ UNCHANGED <<evars, http, cache, tmp, space, warm>>

JobLock(r) ==
  /\ job[r].st = "lock"
  /\ bundleLock[http[r].key] = Nil
  /\ bundleLock' = [bundleLock EXCEPT ![http[r].key] = r]
  /\ job' = [job EXCEPT ![r].st = "recheck"]
  /\ UNCHANGED <<evars, http, cache, tmp, space, warm>>

JobRecheckHit(r) ==
  LET file == cache[http[r].key] IN
  /\ job[r].st = "recheck" /\ file # Nil
  /\ job' = [job EXCEPT ![r].st = "put", ![r].data = file]
  /\ Unlock(r)
  /\ UNCHANGED <<evars, http, cache, tmp, space, warm>>

JobRecheckMiss(r) ==
  /\ job[r].st = "recheck" /\ cache[http[r].key] = Nil
  /\ Call(r, http[r].key[1])
  /\ job' = [job EXCEPT ![r].st = "ctx"]
  /\ UNCHANGED <<http, bundleLock, cache, tmp, space, warm>>

\* Faulty: a failure leaves the bundle lock taken.
FailJobKeepsLock(r) ==
  /\ job' = [job EXCEPT ![r].st = "send", ![r].data = Nil]
  /\ UNCHANGED bundleLock

\* Every `?' and bail! under the lock: the guard is dropped, nothing is cached.
FailJob(r) ==
  /\ job' = [job EXCEPT ![r].st = "send", ![r].data = Nil]
  /\ Unlock(r)

JobCtxOk(r) ==
  /\ job[r].st = "ctx" /\ call[r].pc = "ok"
  /\ job' = [job EXCEPT ![r].st = "find", ![r].ctx = call[r].ctx]
  /\ Return(r)
  /\ UNCHANGED <<http, bundleLock, cache, tmp, space, warm>>

JobCtxErr(r) ==
  /\ job[r].st = "ctx" /\ call[r].pc = "err"
  /\ FailJob(r)
  /\ Return(r)
  /\ UNCHANGED <<http, cache, tmp, space, warm>>

\* Faulty: the hash is looked for among all entities.
DeployedSomewhere(r) == \E i \in Ids : http[r].key[2] \in Content[i]

\* build: the hash is looked for in the entity; if it is not there, in the
\* entity it was indexed under (build calls itself in that context).
Deployed(r) == http[r].key[2] \in Content[job[r].ctx.id]
Owner(r)    == hashIndex[http[r].key[2]]
Foreign(r)  == ~Deployed(r) /\ Owner(r) # Nil /\ Owner(r) # job[r].ctx.id

JobFound(r) ==
  /\ job[r].st = "find" /\ Deployed(r) /\ http[r].key[2] \in Convertible
  /\ job' = [job EXCEPT ![r].st = "ensure"]
  /\ UNCHANGED <<evars, http, bundleLock, cache, tmp, space, warm>>

JobFindOwner(r) ==
  /\ job[r].st = "find" /\ Foreign(r)
  /\ Call(r, Owner(r))
  /\ job' = [job EXCEPT ![r].st = "ctx", ![r].hops = @ + 1]
  /\ UNCHANGED <<http, bundleLock, cache, tmp, space, warm>>

JobNotFound(r) ==
  /\ job[r].st = "find"
  /\ IF Deployed(r) THEN http[r].key[2] \notin Convertible ELSE ~Foreign(r)
  /\ FailJob(r)
  /\ UNCHANGED <<evars, http, cache, tmp, space, warm>>

\* ensure_content(hash)?: here a failure fails the build.
JobEnsure(r) ==
  LET h == http[r].key[2] IN
  /\ job[r].st = "ensure"
  /\ \/ /\ h \in store
        /\ job' = [job EXCEPT ![r].st = "build"]
        /\ UNCHANGED evars
     \/ /\ BuildMiss(r, h)
        /\ job' = [job EXCEPT ![r].st = "fetch"]
  /\ UNCHANGED <<http, bundleLock, cache, tmp, space, warm>>

JobFetchOpen(r) ==
  /\ job[r].st = "fetch"
  /\ OpenContent(r, "fetch")
  /\ UNCHANGED svars

JobFetchOk(r) ==
  /\ job[r].st = "fetch"
  /\ BuildFetched(r)
  /\ job' = [job EXCEPT ![r].st = "build"]
  /\ UNCHANGED <<http, bundleLock, cache, tmp, space, warm>>

\* Faulty: a failed fetch removes the file, which another thread may have
\* written.
JobFetchFailCleans(r) ==
  /\ job[r].st = "fetch"
  /\ store' = store \ {http[r].key[2]}
  /\ call' = [call EXCEPT ![r] = IdleCall]
  /\ FailJob(r)
  /\ UNCHANGED <<active, torn, entities, entityLock, hashIndex, http, cache, tmp, space, warm>>

JobFetchFail(r) ==
  /\ job[r].st = "fetch"
  /\ BuildFetchFail(r)
  /\ FailJob(r)
  /\ UNCHANGED <<http, cache, tmp, space, warm>>

\* build_bundle: a model takes its textures from the content store, leaving
\* out those that are not there; a texture takes its colour space and its
\* normal-map role from the scan of the entity's models.
Complete(ctx, h) ==
  IF h \in Glbs THEN (Content[ctx.id] \cap Convertible) \ Glbs \subseteq store
                ELSE Content[ctx.id] \cap Glbs \subseteq ctx.seen

\* The content that the build reads, any of which it may get in part.
Reads(ctx, h) == {h} \cup (IF h \in Glbs THEN Content[ctx.id] \cap Convertible ELSE {})

JobBuildOk(r) ==
  LET h == http[r].key[2]
      ctx == job[r].ctx
  IN
  /\ job[r].st = "build"
  /\ \E full \in BOOLEAN :
       /\ Reads(ctx, h) \cap torn = {} => full
       /\ job' = [job EXCEPT ![r].st = "write",
                             ![r].data = [hash |-> h, id |-> ctx.id,
                                          complete |-> full /\ Complete(ctx, h),
                                          lost |-> ctx.lost # {},
                                          whole |-> TRUE, saved |-> TRUE]]
  /\ UNCHANGED <<evars, http, bundleLock, cache, tmp, space, warm>>

\* An error of the converter, or a panic that regen::guard turned into one.
JobBuildFail(r) ==
  /\ job[r].st = "build"
  /\ FailJob(r)
  /\ UNCHANGED <<evars, http, cache, tmp, space, warm>>

\* Faulty: the temporary is renamed before it is written to the end.
JobWriteHurried(r) ==
  /\ job[r].st = "write"
  /\ tmp' = [tmp EXCEPT ![http[r].key] = "part"]
  /\ job' = [job EXCEPT ![r].st = "rename"]
  /\ UNCHANGED <<evars, http, bundleLock, cache, space, warm>>

\* fs::write of the temporary creates or truncates it, then fills it.
JobWrite(r) ==
  /\ job[r].st = "write"
  /\ tmp' = [tmp EXCEPT ![http[r].key] = "part"]
  /\ job' = [job EXCEPT ![r].st = "writing"]
  /\ UNCHANGED <<evars, http, bundleLock, cache, space, warm>>

\* (enforce_lru of another worker may have unlinked it meanwhile.)
JobWritten(r) ==
  LET k == http[r].key IN
  /\ job[r].st = "writing"
  /\ tmp' = [tmp EXCEPT ![k] = IF @ = Nil THEN Nil ELSE "whole"]
  /\ job' = [job EXCEPT ![r].st = "rename"]
  /\ UNCHANGED <<evars, http, bundleLock, cache, space, warm>>

\* Faulty: a failed write is ignored, like a failed rename.
JobWriteFailIgnored(r) ==
  /\ job[r].st = "writing"
  /\ job' = [job EXCEPT ![r].st = "put"]
  /\ Unlock(r)
  /\ UNCHANGED <<evars, http, cache, tmp, space, warm>>

\* The temporary cannot be opened (the entity's directory may not be there: an
\* error of create_dir_all is dropped) or not be written to the end.
JobWriteFail(r) ==
  /\ job[r].st \in {"write", "writing"}
  /\ FailJob(r)
  /\ UNCHANGED <<evars, http, cache, tmp, space, warm>>

JobRename(r) ==
  LET k == http[r].key IN
  /\ job[r].st = "rename" /\ tmp[k] # Nil
  /\ cache' = [cache EXCEPT ![k] = [job[r].data EXCEPT !.whole = (tmp[k] = "whole")]]
  /\ tmp' = [tmp EXCEPT ![k] = Nil]
  /\ job' = [job EXCEPT ![r].st = "put"]
  /\ Unlock(r)
  /\ UNCHANGED <<evars, http, space, warm>>

\* rename(..).ok(): the temporary is gone, or the system refuses the rename;
\* nothing is cached, and the bundle is served all the same.
JobRenameFail(r) ==
  /\ job[r].st = "rename"
  /\ job' = [job EXCEPT ![r].st = "put", ![r].data.saved = FALSE]
  /\ Unlock(r)
  /\ UNCHANGED <<evars, http, cache, tmp, space, warm>>

-----------------------------------------------------------------------------
\* put_generated, enforce_lru, send.  A failed put is only logged.
JobPut(r) ==
  /\ job[r].st = "put"
  /\ space' \in {space, [space EXCEPT ![http[r].key] = job[r].data]}
  /\ job' = [job EXCEPT ![r].st = "putmanifest"]
  /\ UNCHANGED <<evars, http, bundleLock, cache, tmp, warm>>

JobPutManifest(r) ==
  /\ job[r].st = "putmanifest"
  /\ warm' \in {warm, warm \cup {http[r].key[1]}}
  /\ job' = [job EXCEPT ![r].st = "lru"]
  /\ UNCHANGED <<evars, http, bundleLock, cache, tmp, space>>

\* What enforce_lru removes depends on sizes and times (module CacheEviction);
\* here it is any set of files, temporaries of other workers included.
JobEvict(r) ==
  /\ job[r].st = "lru"
  /\ \E gone \in IF Capped THEN SUBSET Keys ELSE {{}} :
       \E goneTmp \in IF Capped THEN SUBSET {k \in Keys : tmp[k] # Nil} ELSE {{}} :
         /\ cache' = [k \in Keys |-> IF k \in gone THEN Nil ELSE cache[k]]
         /\ tmp' = [k \in Keys |-> IF k \in goneTmp THEN Nil ELSE tmp[k]]
  /\ job' = [job EXCEPT ![r].st = "send"]
  /\ UNCHANGED <<evars, http, bundleLock, space, warm>>

JobSend(r) ==
  /\ job[r].st = "send"
  /\ job' = [job EXCEPT ![r].st = "sent"]
  /\ UNCHANGED <<evars, http, bundleLock, cache, tmp, space, warm>>

-----------------------------------------------------------------------------
HandlerStep(r) ==
  \/ ManifestOk(r) \/ ManifestErr(r) \/ PostReply(r)
  \/ ProbeHit(r) \/ ProbeMiss(r) \/ Receive(r) \/ TimeOut(r)
  \/ FallbackHit(r) \/ FallbackMiss(r) \/ ReceiveSlow(r)

JobStep(r) ==
  \/ JobProbe(r) \/ JobLock(r) \/ JobRecheckHit(r) \/ JobRecheckMiss(r)
  \/ JobCtxOk(r) \/ JobCtxErr(r) \/ JobFound(r) \/ JobFindOwner(r) \/ JobNotFound(r)
  \/ JobEnsure(r) \/ JobFetchOpen(r) \/ JobFetchOk(r) \/ JobFetchFail(r)
  \/ JobBuildOk(r) \/ JobBuildFail(r)
  \/ JobWrite(r) \/ JobWritten(r) \/ JobWriteFail(r) \/ JobRename(r) \/ JobRenameFail(r)
  \/ JobPut(r) \/ JobPutManifest(r) \/ JobEvict(r) \/ JobSend(r)

TableStep(r) == (CtxStep(r) \/ PostStep(r)) /\ UNCHANGED svars

Arrive(r) ==
  \/ \E a \in Asks : RouteBundle(r, a) \/ RouteFlat(r, a) \/ RouteManifest(r, a)
  \/ \E names \in Posts : RoutePost(r, names)

CatalystStep == (\E p \in Pointers, i \in Ids : Redeploy(p, i)) /\ UNCHANGED svars

\* The connections of a stopped process are dropped unanswered; its temporary
\* files are named after its pid and are never renamed by another process.
Crash ==
  /\ Restart
  /\ http' = [r \in Callers |->
                IF http[r].st = "new" THEN http[r] ELSE [http[r] EXCEPT !.st = "done"]]
  /\ job' = [r \in Callers |-> NoJob]
  /\ bundleLock' = [k \in Keys |-> Nil]
  /\ tmp' = [k \in Keys |-> Nil]
  /\ UNCHANGED <<cache, space, warm>>

\* Every connection has been answered and every worker has ended.
Finished ==
  /\ \A r \in Callers : http[r].st = "done" /\ job[r].st \in {"none", "sent"}
  /\ UNCHANGED vars

Next ==
  \/ \E r \in Callers : Arrive(r) \/ HandlerStep(r) \/ JobStep(r) \/ TableStep(r)
  \/ CatalystStep
  \/ Crash
  \/ Finished

Spec == Init /\ [][Next]_vars

\* Threads are scheduled: a handler, a worker or a table operation that can
\* move does so eventually.  Requests, redeployments and crashes need not
\* happen.  A remote call returns because the HTTP agents have time-outs.
Fairness == \A r \in Callers :
  WF_vars(HandlerStep(r)) /\ WF_vars(JobStep(r)) /\ WF_vars(TableStep(r))

FairSpec == Spec /\ Fairness

-----------------------------------------------------------------------------
\* One bundle of one entity is never built by two workers at a time, though
\* any number of requests for it may be waiting, and it is built only while
\* the disk cache lacks it: a worker that waited takes the other's result.
BuildOnce ==
  \A r \in Callers : job[r].st \in Building =>
    /\ cache[http[r].key] = Nil
    /\ \A q \in Callers \ {r} : job[q].st \in Building => http[q].key # http[r].key

\* A cached bundle is for the hash in its name, from an entity that deploys the
\* hash, and from the entity in its path whenever that entity deploys it: a
\* model shared by two scenes is never served with the other scene's
\* dependencies.
RightFile(k, f) ==
  /\ f.hash = k[2]
  /\ k[2] \in Content[f.id]
  /\ k[1] \in Ids /\ k[2] \in Content[k[1]] => f.id = k[1]

\* A file never shows up in the disk cache before it is written to the end,
\* although the workers of one bundle share the name of its temporary and the
\* process may stop at any point; and it is the right one for its path.
CacheWhole == \A k \in Keys : cache[k] # Nil => cache[k].whole /\ RightFile(k, cache[k])

\* The same of every bundle a client is answered with, unless an earlier
\* converter made it; and a 500 is never sent for a bundle that the worker built.
AnswersRight ==
  \A r \in Callers :
    LET f == http[r].reply.file IN
    /\ f # Nil => f.whole /\ (f.id = Nil \/ RightFile(http[r].key, f))
    /\ http[r].reply.code = 500 => job[r].st \in {"sent", "none"} /\ job[r].data = Nil

\* Re-resolving a hash to its owner happens at most once per build, and finds
\* the hash there, even when a pointer that the index names has moved on or
\* when the index was lost in a restart.
OneHop ==
  \A r \in Callers :
    /\ job[r].hops <= 1
    /\ job[r].st = "find" /\ job[r].hops = 1 => Deployed(r)

\* Without a cap, a client that was answered with a fresh bundle finds that
\* very bundle in the disk cache from then on, and so does everyone else: no
\* other worker, retry or restart replaces it.  The one exception is a bundle
\* whose rename into the cache failed, an error that the code drops.
FreshIsCached ==
  ~Capped => \A r \in Callers :
    /\ http[r].reply.from \in {"fresh", "fresh-slow", "cache"}
    /\ http[r].reply.file.saved
    => cache[http[r].key] = http[r].reply.file

\* Every request that was accepted is answered (or its process stops).
Answered == \A r \in Callers : http[r].st # "new" ~> http[r].st = "done"

\* A worker goes on to its end even when its client has been answered from
\* the fallback, so no bundle lock stays taken.
WorkersEnd == \A r \in Callers : job[r].st # "none" ~> job[r].st \in {"sent", "none"}

\* The request path uses the entity table as EntityCtx says.
UsesEntityCtx == SpecEntity

\* A bundle only lacks something it depends on if a fetch of its entity failed
\* or two threads were writing a file of its entity at once: no other race with
\* a second scene's set-up, and no restart between set-up and build, leaves
\* anything out.
IncompleteOnlyIfLostOrTorn ==
  \A k \in Keys : cache[k] # Nil /\ ~cache[k].complete =>
    cache[k].lost \/ Content[cache[k].id] \cap torn # {}
=============================================================================
