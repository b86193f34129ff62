---------------------------- MODULE ContentStore ----------------------------
(***************************************************************************)
(* One file of the content store (LocalContentStore) and the threads that  *)
(* ensure and read it (Proxy::ensure_content, then fetch).  Nothing        *)
(* serialises two threads that need one content hash: the entity and       *)
(* bundle locks are about other keys, so they may all find the file        *)
(* missing and write it, through a temporary that is named after the       *)
(* process alone.                                                          *)
(*                                                                         *)
(* Every writer writes the same bytes.  A file is modelled by the parts of *)
(* them that it holds, so that what a truncation and the late writes of    *)
(* another thread do to a file that is already published can be told.      *)
(***************************************************************************)
EXTENDS Naturals

CONSTANTS
  Threads,
  Procs,     \* processes that share the store
  ProcOf,    \* [Threads -> Procs]
  Crashes,   \* whether a process may be killed
  Nil

ContentStoreAssumption ==
  /\ ProcOf \in [Threads -> Procs]
  /\ Crashes \in BOOLEAN
  /\ Nil \notin Threads

Parts == {1, 2}
Whole == Parts

VARIABLES
  path,   \* the inode at <root>/<shard>/<cid>, or Nil
  tmp,    \* [Procs -> the inode at <cid>.tmp.<pid>, or Nil]
  held,   \* [inode -> the parts it holds]; an inode is named by its creator
  thread  \* [Threads -> [pc, ino, got]]

vars == <<path, tmp, held, thread>>

Init ==
  /\ path = Nil
  /\ tmp = [p \in Procs |-> Nil]
  /\ held = [t \in Threads |-> {}]
  /\ thread = [t \in Threads |-> [pc |-> "exists", ino |-> Nil, got |-> {}]]

-----------------------------------------------------------------------------
To(t, pc) == thread' = [thread EXCEPT ![t].pc = pc]
\* Faulty: the temporary's name is the same for all.
TmpOfAll(t) == CHOOSE p \in Procs : TRUE

\* The temporary's name tells the process, not the thread.
TmpOf(t) == ProcOf[t]
MyTmp(t) == tmp[TmpOf(t)]

\* ensure_content: nothing is done for a file that exists.
Ensure(t) ==
  /\ thread[t].pc = "exists"
  /\ To(t, IF path = Nil THEN "fetch" ELSE "read")
  /\ UNCHANGED <<path, tmp, held>>

\* The bytes come from the local mirror or the catalyst, or from nowhere.
Fetch(t) ==
  /\ thread[t].pc = "fetch"
  /\ \E next \in {"open", "err"} : To(t, next)
  /\ UNCHANGED <<path, tmp, held>>

\* write: fs::write creates or truncates the temporary ...
OpenTmp(t) ==
  LET i == IF MyTmp(t) = Nil THEN t ELSE MyTmp(t) IN
  /\ thread[t].pc = "open"
  /\ tmp' = [tmp EXCEPT ![TmpOf(t)] = i]
  /\ held' = [held EXCEPT ![i] = {}]
  /\ thread' = [thread EXCEPT ![t].pc = "write1", ![t].ino = i]
  /\ UNCHANGED path

\* ... and writes to the inode it opened, wherever that is linked by now.
WritePart(t, n) ==
  /\ thread[t].pc = <<"write1", "write2">>[n]
  /\ held' = [held EXCEPT ![thread[t].ino] = @ \cup {n}]
  /\ To(t, <<"write2", "rename">>[n])
  /\ UNCHANGED <<path, tmp>>

RenameTmp(t) ==
  /\ thread[t].pc = "rename" /\ MyTmp(t) # Nil
  /\ path' = MyTmp(t)
  /\ tmp' = [tmp EXCEPT ![TmpOf(t)] = Nil]
  /\ To(t, "read")
  /\ UNCHANGED held

\* Another thread has renamed the temporary.
RenameFails(t) ==
  /\ thread[t].pc = "rename" /\ MyTmp(t) = Nil
  /\ To(t, "err")
  /\ UNCHANGED <<path, tmp, held>>

\* fetch: map the file, then copy it out of the mapping.
OpenRead(t) ==
  /\ thread[t].pc = "read"
  /\ thread' = [thread EXCEPT ![t].pc = "copy", ![t].ino = path]
  /\ UNCHANGED <<path, tmp, held>>

Copy(t) ==
  /\ thread[t].pc = "copy"
  /\ thread' = [thread EXCEPT ![t].pc = "ok", ![t].got = held[thread[t].ino]]
  /\ UNCHANGED <<path, tmp, held>>

\* A process is killed.  Its temporary stays, and is never looked at again.
Crash(p) ==
  /\ Crashes
  /\ thread' = [t \in Threads |->
                  IF ProcOf[t] = p /\ thread[t].pc \notin {"ok", "err"}
                  THEN [thread[t] EXCEPT !.pc = "killed"] ELSE thread[t]]
  /\ UNCHANGED <<path, tmp, held>>

Step(t) ==
  \/ Ensure(t) \/ Fetch(t) \/ OpenTmp(t) \/ WritePart(t, 1) \/ WritePart(t, 2)
  \/ RenameTmp(t) \/ RenameFails(t) \/ OpenRead(t) \/ Copy(t)

Ended == /\ \A t \in Threads : thread[t].pc \in {"ok", "err", "killed"}
         /\ UNCHANGED vars

Next == (\E t \in Threads : Step(t)) \/ (\E p \in Procs : Crash(p)) \/ Ended

Spec == Init /\ [][Next]_vars

-----------------------------------------------------------------------------
\* Every reader gets the whole content, so what is built from a hash depends on
\* the hash alone, not on who else was fetching it.
ReadsWhole == \A t \in Threads : thread[t].pc = "ok" => thread[t].got = Whole

\* A file that exists is whole from the start: ensure_content never looks at it
\* again, so a partial one would stay.
PublishedWhole == path # Nil => held[path] = Whole

\* However the writers of one process interleave, when none is at work the file
\* is whole, provided that none was killed; and in the end it is there, and read
\* by someone, if any thread could have the bytes.
QuietWhole ==
  /\ (\A t \in Threads : thread[t].pc \notin {"write1", "write2", "killed"}) /\ path # Nil
       => held[path] = Whole
  /\ (\A t \in Threads : thread[t].pc \in {"ok", "err"}) /\ (\E t \in Threads : held[t] # {})
       => path # Nil /\ \E t \in Threads : thread[t].pc = "ok"
=============================================================================
