------------------------------- MODULE Regen -------------------------------
(***************************************************************************)
(* Whole-catalyst regeneration (src/src/regen.rs): a rayon loop over the   *)
(* entities of a content database.  A task takes the glbs of its entity in *)
(* turn: plan (fetch the glb, derive the canonical name), skip a name that *)
(* is on disk or claimed, convert it, publish it by rename, write its      *)
(* compressed twin, and at the end write the manifest of the entity.  A    *)
(* dry run only plans.  Every fetch goes through CatalystClient::get,      *)
(* which tries again after a transient fault (src/src/catalyst.rs).        *)
(*                                                                         *)
(* Several runs follow one another over the same output tree, each with    *)
(* flags of its own, and a run may be killed at any step.  The canonical   *)
(* name is a function of the content, so a glb is modelled by its name.    *)
(***************************************************************************)
EXTENDS Integers, Sequences, FiniteSetsExt

CONSTANTS
  Threads,   \* rayon's workers (cfg.jobs)
  Entities,
  Names,     \* canonical names of the glbs
  Rows,      \* the database's answer: Seq([entity, name, gltf]), by entity and key
  Textured,  \* the names whose glb references a texture
  Retries,   \* HTTP_RETRIES
  Modes,     \* flags a run may be started with: [dry, force, compress]
  MaxRuns,   \* bound: runs over one tree
  MaxFaults, \* bound: faults over one history
  Nil

ASSUME RegenAssumption ==
  /\ Rows \in Seq([entity : Entities, name : Names, gltf : BOOLEAN])
  /\ Textured \subseteq Names
  /\ Modes \subseteq [dry : BOOLEAN, force : BOOLEAN, compress : BOOLEAN]
  /\ {Retries, MaxRuns, MaxFaults} \subseteq Nat /\ Retries > 0
  /\ Nil \notin Entities \cup Names \cup Modes

\* enumerate_entities: the rows of an entity with a glTF extension, taken in
\* order; an entity with none is enumerated too.
Glbs(e) == {i \in DOMAIN Rows : Rows[i].entity = e /\ Rows[i].gltf}

VARIABLES
  run,       \* the process: Nil or its flags
  todo,      \* entities no worker has taken
  task,      \* [Threads -> [pc, ent, at, tries, whole, names]]; at: a row
  claimed,   \* names being or having been converted in this run
  unique,    \* the dry run's set of names
  report,    \* the counters [converted, already, failed, manifests]
  asset,     \* [Names -> "absent", "whole" or "untextured"]
  tmp,       \* [Names -> "absent", "partial" or "full"]: .<name>.tmp<pid>
  twin,      \* [Names -> the same, or "partial"]: what <name>.br holds
  manifest,  \* [Entities -> Nil, Partial or the set of names listed]
  runs,      \* bound
  past       \* history: [kills, transient, definite, plain, forecast, ended]

fs   == <<asset, tmp, twin, manifest>>
vars == <<run, todo, task, claimed, unique, report, fs, runs, past>>

Idle == [pc |-> "idle", ent |-> Nil, at |-> 0, tries |-> 0,
         whole |-> TRUE, names |-> {}]
\* A manifest that is opened, or was cut.
Partial == {Nil}
NoReport == [converted |-> 0, already |-> 0, failed |-> 0, manifests |-> 0]

Init ==
  /\ run = Nil /\ todo = {} /\ claimed = {} /\ unique = {} /\ runs = 0
  /\ task = [w \in Threads |-> Idle]
  /\ report = NoReport
  /\ asset = [n \in Names |-> "absent"]
  /\ tmp = [n \in Names |-> "absent"]
  /\ twin = [n \in Names |-> "absent"]
  /\ manifest = [e \in Entities |-> Nil]
  /\ past = [kills |-> 0, transient |-> 0, definite |-> 0, plain |-> FALSE,
             forecast |-> Nil, ended |-> Nil]

-----------------------------------------------------------------------------
Faults == past.kills + past.transient + past.definite
At(w, pc) == run # Nil /\ task[w].pc = pc
Name(w) == Rows[task[w].at].name
Later(w) == {i \in Glbs(task[w].ent) : i > task[w].at}
To(w, pc) == task' = [task EXCEPT ![w].pc = pc, ![w].tries = 0]
Count(field) == report' = [report EXCEPT ![field] = @ + 1]
Suffer(kind) == Faults < MaxFaults /\ past' = [past EXCEPT ![kind] = @ + 1]

\* The next glb of the entity, or its manifest when there is none; a dry run
\* writes no manifest, and an entity none of whose glbs could be planned
\* gets none either.
AdvanceWith(w, names) ==
  LET t == [task[w] EXCEPT !.names = names, !.tries = 0, !.whole = TRUE] IN
  task' = [task EXCEPT ![w] =
    IF Later(w) # {} THEN [t EXCEPT !.pc = "plan", !.at = Min(Later(w))]
    ELSE IF run.dry \/ names = {} THEN Idle ELSE [t EXCEPT !.pc = "manifest"]]

Advance(w) == AdvanceWith(w, task[w].names)

\* regenerate / dry_run: a new process over the tree as it is.
Start(mode) ==
  /\ run = Nil /\ runs < MaxRuns
  /\ run' = mode /\ runs' = runs + 1
  /\ todo' = Entities
  /\ past' = [past EXCEPT !.ended = Nil, !.plain = @ \/ ~mode.compress,
                          !.forecast = IF past.ended # Nil /\ past.ended.mode.dry THEN @ ELSE Nil]
  /\ UNCHANGED <<task, claimed, unique, report, fs>>

\* par_iter: an idle worker takes an entity.
Take(w, e) ==
  /\ At(w, "idle") /\ e \in todo
  /\ todo' = todo \ {e}
  /\ task' = [task EXCEPT ![w] = IF Glbs(e) = {} THEN Idle
                         ELSE [Idle EXCEPT !.pc = "plan", !.ent = e, !.at = Min(Glbs(e))]]
  /\ UNCHANGED <<run, claimed, unique, report, fs, runs, past>>

\* What a process that is gone leaves behind: the tree.  Its temporaries bear
\* its process id and are never looked at again.
Gone ==
  /\ run' = Nil
  /\ todo' = {} /\ claimed' = {} /\ unique' = {} /\ report' = NoReport
  /\ task' = [w \in Threads |-> Idle]
  /\ tmp' = [n \in Names |-> "absent"]
  /\ UNCHANGED <<asset, twin, manifest, runs>>

-----------------------------------------------------------------------------
(* CatalystClient::get.  `pc` is the fetch's place in the task.            *)

\* A status other than 404, or no connection: sleep and try again.
Retry(w, pc) ==
  /\ At(w, pc) /\ task[w].tries + 1 < Retries
  /\ Suffer("transient")
  /\ task' = [task EXCEPT ![w].tries = @ + 1]
  /\ UNCHANGED <<run, todo, claimed, unique, report, fs, runs>>

\* Faulty: the last attempt is never made.
GivesUpEarly(w) ==
  \/ task[w].tries + 2 >= Retries /\ Suffer("transient")
  \/ Suffer("definite")

\* The last attempt failed too, or a 404 or a broken body ended the fetch early.
GivesUp(w) ==
  \/ task[w].tries + 1 = Retries /\ Suffer("transient")
  \/ Suffer("definite")

PlanFail(w) ==
  /\ At(w, "plan") /\ GivesUp(w)
  /\ Count("failed") /\ Advance(w)
  /\ UNCHANGED <<run, todo, claimed, unique, fs, runs>>

\* The name is pushed before the asset exists; a dry run only counts it.
PlanOk(w) ==
  LET names == task[w].names \cup {Name(w)} IN
  /\ At(w, "plan")
  /\ IF run.dry
     THEN /\ unique' = unique \cup {Name(w)}
          /\ report' = [report EXCEPT !.already =
               @ + IF Name(w) \notin unique /\ ~run.force /\ asset[Name(w)] # "absent"
                   THEN 1 ELSE 0]
          /\ AdvanceWith(w, names)
     ELSE /\ task' = [task EXCEPT ![w].pc = "check", ![w].tries = 0, ![w].names = names]
          /\ UNCHANGED <<unique, report>>
  /\ UNCHANGED <<run, todo, claimed, fs, runs, past>>

\* !force && exists.
Check(w) ==
  /\ At(w, "check")
  /\ IF ~run.force /\ asset[Name(w)] # "absent"
     THEN Count("already") /\ Advance(w)
     ELSE To(w, "claim") /\ UNCHANGED report
  /\ UNCHANGED <<run, todo, claimed, unique, fs, runs, past>>

\* Faulty: the set of claims is written and never looked at; or a worker that
\* finds a name claimed looks again until it is on disk.
ClaimBlindly(w) ==
  /\ At(w, "claim")
  /\ claimed' = claimed \cup {Name(w)}
  /\ To(w, IF Name(w) \in Textured THEN "texture" ELSE "convert")
  /\ UNCHANGED <<run, todo, unique, report, fs, runs, past>>

ClaimSpins(w) ==
  /\ At(w, "claim")
  /\ IF Name(w) \in claimed
     THEN To(w, "check") /\ UNCHANGED claimed
     ELSE /\ claimed' = claimed \cup {Name(w)}
          /\ To(w, IF Name(w) \in Textured THEN "texture" ELSE "convert")
  /\ UNCHANGED <<run, todo, unique, report, fs, runs, past>>

Claim(w) ==
  /\ At(w, "claim")
  /\ IF Name(w) \in claimed
     THEN Count("already") /\ UNCHANGED claimed /\ Advance(w)
     ELSE /\ claimed' = claimed \cup {Name(w)}
          /\ To(w, IF Name(w) \in Textured THEN "texture" ELSE "convert")
          /\ UNCHANGED report
  /\ UNCHANGED <<run, todo, unique, fs, runs, past>>

\* resolve_fn: a texture that cannot be fetched is `.ok()`-ed away.
TextureOk(w) ==
  /\ At(w, "texture") /\ To(w, "convert")
  /\ UNCHANGED <<run, todo, claimed, unique, report, fs, runs, past>>

TextureLost(w) ==
  /\ At(w, "texture") /\ GivesUp(w)
  /\ task' = [task EXCEPT ![w].pc = "convert", ![w].tries = 0, ![w].whole = FALSE]
  /\ UNCHANGED <<run, todo, claimed, unique, report, fs, runs>>

\* Faulty: the failure is told, not counted.
FailUncounted(w) ==
  /\ claimed' = claimed \ {Name(w)}
  /\ Suffer("definite")
  /\ UNCHANGED report /\ Advance(w)

\* Any error of convert_and_write: counted, and the claim is dropped.
Fail(w) ==
  /\ Count("failed")
  /\ claimed' = claimed \ {Name(w)}
  /\ Suffer("definite")
  /\ Advance(w)

\* build_bundle fails or panics: nothing is written yet.
ConvertFail(w) ==
  /\ At(w, "convert") /\ Fail(w)
  /\ UNCHANGED <<run, todo, unique, fs, runs>>

\* fs::write of the temporary, which is named after the name and the process.
OpenTmp(w) ==
  /\ At(w, "convert")
  /\ tmp' = [tmp EXCEPT ![Name(w)] = "partial"]
  /\ To(w, "write")
  /\ UNCHANGED <<run, todo, claimed, unique, report, asset, twin, manifest, runs, past>>

WriteTmp(w) ==
  /\ At(w, "write")
  /\ tmp' = [tmp EXCEPT ![Name(w)] = "full"]
  /\ To(w, "rename")
  /\ UNCHANGED <<run, todo, claimed, unique, report, asset, twin, manifest, runs, past>>

WriteTmpFail(w) ==
  /\ At(w, "write") /\ Fail(w)
  /\ UNCHANGED <<run, todo, unique, fs, runs>>

Rename(w) ==
  /\ At(w, "rename")
  /\ asset' = [asset EXCEPT ![Name(w)] = IF tmp[Name(w)] # "full" THEN "partial"
                                         ELSE IF task[w].whole THEN "whole" ELSE "untextured"]
  /\ tmp' = [tmp EXCEPT ![Name(w)] = "absent"]
  /\ IF run.compress THEN To(w, "twin") /\ UNCHANGED report
                     ELSE Count("converted") /\ Advance(w)
  /\ UNCHANGED <<run, todo, claimed, unique, twin, manifest, runs, past>>

\* Faulty: a twin that exists is kept.
OpenTwinOnce(w) ==
  /\ At(w, "twin")
  /\ IF twin[Name(w)] \in {"absent", "partial"}
     THEN /\ twin' = [twin EXCEPT ![Name(w)] = "partial"]
          /\ To(w, "twinning") /\ UNCHANGED report
     ELSE Count("converted") /\ Advance(w) /\ UNCHANGED twin
  /\ UNCHANGED <<run, todo, claimed, unique, asset, tmp, manifest, runs, past>>

\* fs::write of <name>.br, in place.
OpenTwin(w) ==
  /\ At(w, "twin")
  /\ twin' = [twin EXCEPT ![Name(w)] = "partial"]
  /\ To(w, "twinning")
  /\ UNCHANGED <<run, todo, claimed, unique, report, asset, tmp, manifest, runs, past>>

WriteTwin(w) ==
  /\ At(w, "twinning")
  /\ twin' = [twin EXCEPT ![Name(w)] = asset[Name(w)]]
  /\ Count("converted") /\ Advance(w)
  /\ UNCHANGED <<run, todo, claimed, unique, asset, tmp, manifest, runs, past>>

WriteTwinFail(w) ==
  /\ At(w, "twinning") /\ Fail(w)
  /\ UNCHANGED <<run, todo, unique, fs, runs>>

\* write_entity_manifest: exit code 0 whatever failed; written in place.
OpenManifest(w) ==
  /\ At(w, "manifest")
  /\ manifest' = [manifest EXCEPT ![task[w].ent] = Partial]
  /\ To(w, "listing")
  /\ UNCHANGED <<run, todo, claimed, unique, report, asset, tmp, twin, runs, past>>

WriteManifest(w) ==
  /\ At(w, "listing")
  /\ manifest' = [manifest EXCEPT ![task[w].ent] = task[w].names]
  /\ task' = [task EXCEPT ![w] = Idle]
  /\ UNCHANGED <<run, todo, claimed, unique, report, asset, tmp, twin, runs, past>>

\* The text or its compressed twin is not written: a failure that the report
\* tells and does not count.
WriteManifestFail(w) ==
  /\ At(w, "listing") /\ Suffer("definite")
  /\ \E left \in {Partial, task[w].names} :
       manifest' = [manifest EXCEPT ![task[w].ent] = left]
  /\ Count("manifests")
  /\ task' = [task EXCEPT ![w] = Idle]
  /\ UNCHANGED <<run, todo, claimed, unique, asset, tmp, twin, runs>>

\* The report; a dry run forecasts what is left to convert.
Finish ==
  /\ run # Nil /\ todo = {} /\ \A w \in Threads : task[w].pc = "idle"
  /\ past' = [past EXCEPT
       !.ended = [mode |-> run, report |-> report],
       !.forecast = IF run.dry THEN [force |-> run.force, failed |-> report.failed,
                                     converted |-> Cardinality(unique) - report.already]
                    ELSE @]
  /\ Gone

Kill == run # Nil /\ Suffer("kills") /\ Gone

Work(w) ==
  \/ \E e \in Entities : Take(w, e)
  \/ Retry(w, "plan") \/ PlanFail(w) \/ PlanOk(w) \/ Check(w) \/ Claim(w)
  \/ Retry(w, "texture") \/ TextureOk(w) \/ TextureLost(w) \/ ConvertFail(w)
  \/ OpenTmp(w) \/ WriteTmp(w) \/ WriteTmpFail(w) \/ Rename(w)
  \/ OpenTwin(w) \/ WriteTwin(w) \/ WriteTwinFail(w)
  \/ OpenManifest(w) \/ WriteManifest(w) \/ WriteManifestFail(w)

Next ==
  \/ \E mode \in Modes : Start(mode)
  \/ \E w \in Threads : Work(w)
  \/ Finish \/ Kill
  \/ run = Nil /\ runs = MaxRuns /\ UNCHANGED vars

\* The machine runs its threads, and a process whose work is done exits.
Spec == Init /\ [][Next]_vars /\ WF_vars(Finish) /\ \A w \in Threads : WF_vars(Work(w))

-----------------------------------------------------------------------------
RegenTypeOK ==
  /\ run \in Modes \cup {Nil}
  /\ todo \subseteq Entities /\ claimed \subseteq Names /\ unique \subseteq Names
  /\ \A w \in Threads :
       /\ task[w].ent \in Entities \cup {Nil}
       /\ task[w].ent # Nil => task[w].at \in Glbs(task[w].ent)
       /\ task[w].tries \in 0 .. Retries - 1 /\ task[w].names \subseteq Names
  /\ asset \in [Names -> {"absent", "whole", "untextured"}]
  /\ tmp \in [Names -> {"absent", "partial", "full"}]
  /\ twin \in [Names -> {"absent", "partial", "whole", "untextured"}]
  /\ runs \in 0 .. MaxRuns /\ Faults \in 0 .. MaxFaults

\* The temporary is named after the name and the process alone, so two workers
\* on one name would publish each other's half-written file: claims, and their
\* removal on a failure, keep every published asset complete, whatever is killed.
AssetWhole == \A n \in Names : asset[n] # "partial"

Ended == past.ended # Nil /\ ~past.ended.mode.dry
Planned(e) == {Rows[i].name : i \in Glbs(e)}

\* A run that counts no failure leaves every glb of every entity converted and
\* (when no manifest failed) although a worker counts a name another has
\* only claimed, and lists it before it exists.
CleanMeansComplete ==
  Ended /\ past.ended.report.failed = 0 =>
    \A e \in Entities :
      /\ \A n \in Planned(e) : asset[n] # "absent"
      /\ past.ended.report.manifests = 0 /\ Planned(e) # {} => manifest[e] = Planned(e)

\* What a dry run says will be converted is what the next run with the same
\* --force converts, when neither counts a failure: each name once.
ForecastExact ==
  LET f == past.forecast r == past.ended.report IN
  Ended /\ f # Nil =>
    (f.failed = 0 /\ r.failed = 0 /\ f.force = past.ended.mode.force => r.converted = f.converted)

\* Fewer transient faults than attempts, and nothing worse: no glb fails and no
\* bundle silently lacks its texture, whichever fetches the faults hit.
TransientTolerated ==
  past.transient < Retries /\ past.definite = 0 =>
    /\ \A n \in Names : asset[n] # "untextured"
    /\ report.failed = 0

\* While no run is killed, fails to write or goes without compression, each asset
\* and its compressed twin agree between runs; a forced run that replaces an
\* asset that lacked its texture replaces the twin too.
TwinAgrees ==
  run = Nil /\ past.kills = 0 /\ past.definite = 0 /\ ~past.plain => twin = asset

\* Retries are bounded and no worker waits for another: every run ends.
RunEnds == run # Nil ~> run = Nil
=============================================================================
