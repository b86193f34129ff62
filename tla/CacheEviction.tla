--------------------------- MODULE CacheEviction ---------------------------
(***************************************************************************)
(* The disk cache of abgen-serve when --cache-cap-gb is set: every worker   *)
(* that delivered a bundle runs enforce_lru, which lists the whole cache   *)
(* directory, adds up the sizes, and unlinks the oldest files of its       *)
(* listing until what is left fits.  Nothing locks the directory: workers  *)
(* create, rename and unlink files while another one lists or unlinks.     *)
(***************************************************************************)
EXTENDS Naturals, FiniteSets

CONSTANTS
  Workers,
  Keys,       \* bundles
  Size,       \* [Keys -> Nat]: their sizes
  Cap,        \* --cache-cap-gb, in the same unit
  Faults,     \* whether a write (disk full) or a rename may fail
  MaxWrites,  \* bound: how many bundles are ever written
  Absent

\* <entity>/<bundle> and its temporary, <entity>/<bundle>.tmp.<pid>.
CachePaths == Keys \X {"file", "tmp"}

ASSUME EvictionAssumption ==
  /\ IsFiniteSet(Keys) /\ Size \in [Keys -> Nat]
  /\ Cap \in Nat \ {0}
  /\ Faults \in BOOLEAN
  /\ MaxWrites \in Nat
  /\ Absent \notin [len : Nat, time : Nat]

VARIABLES
  cache,   \* [CachePaths -> [len, time] or Absent]
  worker,  \* where each worker is
  alone,   \* (history) the workers that no other one has overlapped so far
  clock    \* modification time of the last file written

evictionVars == <<cache, worker, alone, clock>>

\* todo: the paths the listing has not come to; files: what it has collected;
\* total: what enforce_lru believes the cache holds.
Idle == [pc |-> "idle", key |-> Absent, todo |-> {}, files |-> {}, total |-> 0]

InitEviction ==
  /\ cache = [p \in CachePaths |-> Absent]
  /\ worker = [w \in Workers |-> Idle]
  /\ alone = {}
  /\ clock = 0

\* What a listing tells of paths: those that are there, with size and time.
Entries(paths) ==
  {[path |-> p, len |-> cache[p].len, time |-> cache[p].time] : p \in {q \in paths : cache[q] # Absent}}

\* The sum of their sizes: how many bytes they have, the i-th of f being <<f, i>>.
BytesOf(files) == UNION {{f} \X (1 .. f.len) : f \in files}
SumLen(files)  == Cardinality(BytesOf(files))

-----------------------------------------------------------------------------
Goes(w, pc) == worker' = [worker EXCEPT ![w].pc = pc]

Starts(w) == alone' = IF \A v \in Workers : worker[v].pc = "idle" THEN {w} ELSE {}

\* The bundle lock lets one worker at a time write a bundle, and only if it is
\* not cached.
StartWrite(w, k) ==
  /\ worker[w].pc = "idle" /\ cache[<<k, "file">>] = Absent
  /\ \A v \in Workers : worker[v].pc \in {"write", "rename"} => worker[v].key # k
  /\ clock < MaxWrites
  /\ clock' = clock + 1
  /\ cache' = [cache EXCEPT ![<<k, "tmp">>] = [len |-> 0, time |-> clock']]
  /\ worker' = [worker EXCEPT ![w].pc = "write", ![w].key = k]
  /\ Starts(w)

\* The temporary may be unlinked while it is written, which goes on unseen.
FinishWrite(w) ==
  LET k == worker[w].key IN
  /\ worker[w].pc = "write"
  /\ cache' = IF cache[<<k, "tmp">>] = Absent THEN cache
             ELSE [cache EXCEPT ![<<k, "tmp">>].len = Size[k]]
  /\ Goes(w, "rename")
  /\ UNCHANGED <<alone, clock>>

\* The write fails: some of the temporary stays, and enforce_lru is not run.
FailWrite(w) ==
  LET p == <<worker[w].key, "tmp">> IN
  /\ Faults /\ worker[w].pc = "write"
  /\ \E n \in {0, Size[p[1]]} :
       cache' = IF cache[p] = Absent THEN cache ELSE [cache EXCEPT ![p].len = n]
  /\ worker' = [worker EXCEPT ![w] = Idle]
  /\ UNCHANGED <<alone, clock>>

BeginList(w) == worker' = [worker EXCEPT ![w] = [Idle EXCEPT !.pc = "list", !.todo = CachePaths]]

\* Faulty: only a hit enforces the cap.
RenameOnly(w) ==
  LET k == worker[w].key IN
  /\ worker[w].pc = "rename"
  /\ cache' = IF cache[<<k, "tmp">>] = Absent THEN cache
             ELSE [cache EXCEPT ![<<k, "file">>] = cache[<<k, "tmp">>], ![<<k, "tmp">>] = Absent]
  /\ worker' = [worker EXCEPT ![w] = Idle]
  /\ UNCHANGED <<alone, clock>>

\* rename(..).ok()
Rename(w) ==
  LET k == worker[w].key IN
  /\ worker[w].pc = "rename"
  /\ cache' = IF cache[<<k, "tmp">>] = Absent THEN cache
             ELSE [cache EXCEPT ![<<k, "file">>] = cache[<<k, "tmp">>], ![<<k, "tmp">>] = Absent]
  /\ BeginList(w)
  /\ UNCHANGED <<alone, clock>>

\* The system refuses the rename, which nobody hears of: the temporary stays.
RenameFail(w) ==
  /\ Faults /\ worker[w].pc = "rename"
  /\ BeginList(w)
  /\ UNCHANGED <<cache, alone, clock>>

\* A worker that finds its bundle in the cache enforces the cap as well.
CacheHit(w, k) ==
  /\ worker[w].pc = "idle" /\ cache[<<k, "file">>] # Absent
  /\ BeginList(w)
  /\ Starts(w)
  /\ UNCHANGED <<cache, clock>>

\* read_dir comes to one path, in an order of its own.
ListOne(w, p) ==
  /\ worker[w].pc = "list" /\ p \in worker[w].todo
  /\ worker' = [worker EXCEPT ![w].todo = @ \ {p}, ![w].files = @ \cup Entries({p})]
  /\ UNCHANGED <<cache, alone, clock>>

AddUp(w) ==
  /\ worker[w].pc = "list" /\ worker[w].todo = {}
  /\ worker' = [worker EXCEPT ![w].pc = "evict", ![w].total = SumLen(worker[w].files)]
  /\ UNCHANGED <<cache, alone, clock>>

Oldest(files) == {f \in files : \A g \in files : f.time <= g.time}

\* Faulty: a cache that is exactly full is emptied further.
EvictAtCap(w, f) ==
  /\ worker[w].pc = "evict" /\ worker[w].total >= Cap
  /\ f \in Oldest(worker[w].files)
  /\ cache' = [cache EXCEPT ![f.path] = Absent]
  /\ worker' = [worker EXCEPT ![w].files = @ \ {f},
                              ![w].total = IF cache[f.path] = Absent THEN @
                                           ELSE IF @ >= f.len THEN @ - f.len ELSE 0]
  /\ UNCHANGED <<alone, clock>>

\* remove_file of the oldest file left in the listing; total only falls if
\* there was something to remove.
Evict(w, f) ==
  /\ worker[w].pc = "evict" /\ worker[w].total > Cap
  /\ f \in Oldest(worker[w].files)
  /\ cache' = [cache EXCEPT ![f.path] = Absent]
  /\ worker' = [worker EXCEPT ![w].files = @ \ {f},
                              ![w].total = IF cache[f.path] = Absent THEN @
                                           ELSE IF @ >= f.len THEN @ - f.len ELSE 0]
  /\ UNCHANGED <<alone, clock>>

EndEvict(w) ==
  /\ worker[w].pc = "evict"
  /\ worker[w].total <= Cap \/ worker[w].files = {}
  /\ worker' = [worker EXCEPT ![w] = Idle]
  /\ UNCHANGED <<cache, alone, clock>>

\* No request is being served.
Quiet == \A w \in Workers : worker[w].pc = "idle"

NextEviction ==
  \/ \E w \in Workers :
       \/ \E k \in Keys : StartWrite(w, k) \/ CacheHit(w, k)
       \/ FinishWrite(w) \/ FailWrite(w) \/ Rename(w) \/ RenameFail(w)
       \/ \E p \in CachePaths : ListOne(w, p)
       \/ AddUp(w)
       \/ \E f \in worker[w].files : Evict(w, f)
       \/ EndEvict(w)
  \/ Quiet /\ clock = MaxWrites /\ UNCHANGED evictionVars

SpecEviction == InitEviction /\ [][NextEviction]_evictionVars

-----------------------------------------------------------------------------
Total(paths) == SumLen(Entries(paths))

\* When no worker is busy the bundles fit, although each worker judged by a
\* listing that others changed while it was taken and after.  (A temporary that
\* a failed write left behind stays until the next bundle is delivered.)
FitsWhenQuiet == Quiet => Total(Keys \X {"file"}) <= Cap

\* The path is unlinked by a worker that has had the cache to itself.
UnlinkedAlone(p) ==
  cache[p] # Absent /\ cache'[p] = Absent /\ \E w \in alone : worker[w].pc = "evict"

\* A lone worker unlinks nothing while the cache fits, and what it unlinks is
\* older than all that stays.
OldestOver ==
  \A p \in CachePaths : UnlinkedAlone(p) =>
    /\ Total(CachePaths) > Cap
    /\ \A q \in CachePaths : cache'[q] # Absent => cache[p].time <= cache'[q].time

UnlinksOldestOver == [][OldestOver]_evictionVars
=============================================================================
