------------------------------ MODULE Lz4Cache ------------------------------
(***************************************************************************)
(* The cache of compressed blocks (lz4hc_compress_cached in                *)
(* src/src/unity/bundle_file.rs): a map in memory, then a file per block   *)
(* in a directory that processes share, then the compressor.  What is read *)
(* from the directory is taken as it is; what is computed is written to    *)
(* <key>.tmp, a name that all writers of the key share, and renamed.       *)
(*                                                                         *)
(* One block.  "whole" is what the compressor gives for it, "part" what is *)
(* left of a file that was truncated and not yet, or never, written.       *)
(***************************************************************************)
EXTENDS Inodes

CONSTANTS
  Callers,
  Processes,
  ProcessOf,  \* [Callers -> Processes]
  MaxFaults,  \* bound: failed writes and kills
  NoBlock

Lz4CacheAssumption ==
  /\ IsFiniteSet(Callers) /\ ProcessOf \in [Callers -> Processes]
  /\ MaxFaults \in Nat

BlockPaths == {"key", "tmp"}

VARIABLES
  call,    \* [Callers -> [pc, ino, got]]
  mem,     \* [Processes -> NoBlock or the block]
  disk,
  faults,
  shared   \* history: two writers have had the temporary open at once

blockVars == <<call, mem, disk, faults, shared>>

New == [pc |-> "mem", ino |-> NoInode, got |-> NoBlock]

InitBlocks ==
  /\ call = [t \in Callers |-> New]
  /\ mem = [p \in Processes |-> NoBlock]
  /\ disk = [link |-> [p \in BlockPaths |-> NoInode],
             held |-> [i \in 1 .. 2 + Cardinality(Callers) |-> "part"]]
  /\ faults = 0 /\ shared = FALSE

-----------------------------------------------------------------------------
Is(t, pc) == call[t].pc = pc
Goto(t, pc) == call' = [call EXCEPT ![t].pc = pc]
Open == {call[t].ino : t \in Callers}
Returns(t, block) == call' = [call EXCEPT ![t] = [pc |-> "done", ino |-> NoInode, got |-> block]]
Fault == faults < MaxFaults /\ faults' = faults + 1

MemHit(t) ==
  /\ Is(t, "mem") /\ mem[ProcessOf[t]] # NoBlock
  /\ Returns(t, mem[ProcessOf[t]])
  /\ UNCHANGED <<mem, disk, faults, shared>>

MemMiss(t) ==
  /\ Is(t, "mem") /\ mem[ProcessOf[t]] = NoBlock
  /\ IF Exists(disk, "key")
     THEN call' = [call EXCEPT ![t].pc = "read", ![t].ino = disk.link["key"]]
     ELSE Goto(t, "open")  \* and compress_hc
  /\ UNCHANGED <<mem, disk, faults, shared>>

\* fs::read: whatever the inode holds by now.
Read(t) ==
  LET block == disk.held[call[t].ino] IN
  /\ Is(t, "read")
  /\ mem' = [mem EXCEPT ![ProcessOf[t]] = block]
  /\ Returns(t, block)
  /\ UNCHANGED <<disk, faults, shared>>

OpenBlockTmp(t) ==
  LET i == Opened(disk, "tmp", Open) IN
  /\ Is(t, "open")
  /\ disk' = Truncated(disk, "tmp", i)
  /\ call' = [call EXCEPT ![t].pc = "write", ![t].ino = i]
  /\ shared' = (shared \/ \E u \in Callers : call[u].pc \in {"write", "rename"})
  /\ UNCHANGED <<mem, faults>>

WriteTmp(t) ==
  /\ Is(t, "write")
  /\ disk' = Written(disk, call[t].ino)
  /\ call' = [call EXCEPT ![t].pc = "rename", ![t].ino = NoInode]
  /\ UNCHANGED <<mem, faults, shared>>

\* Faulty: the result of the write is not looked at.
WriteTmpFailIgnored(t) ==
  /\ Is(t, "write") /\ Fault
  /\ call' = [call EXCEPT ![t].pc = "rename", ![t].ino = NoInode]
  /\ UNCHANGED <<mem, disk, shared>>

\* Nothing is renamed; the block is returned all the same.
WriteTmpFail(t) ==
  /\ Is(t, "write") /\ Fault
  /\ call' = [call EXCEPT ![t].pc = "insert", ![t].ino = NoInode]
  /\ UNCHANGED <<mem, disk, shared>>

\* The result of the rename is not looked at.
RenameBlockTmp(t) ==
  /\ Is(t, "rename")
  /\ disk' = IF Exists(disk, "tmp") THEN Swept(Renamed(disk, "tmp", "key"), Open) ELSE disk
  /\ Goto(t, "insert")
  /\ UNCHANGED <<mem, faults, shared>>

Insert(t) ==
  /\ Is(t, "insert")
  /\ mem' = [mem EXCEPT ![ProcessOf[t]] = "whole"]
  /\ Returns(t, "whole")
  /\ UNCHANGED <<disk, faults, shared>>

\* A process is killed and started again: its threads compress the block anew.
Restart(p) ==
  /\ Fault
  /\ mem' = [mem EXCEPT ![p] = NoBlock]
  /\ call' = [t \in Callers |-> IF ProcessOf[t] = p THEN New ELSE call[t]]
  /\ disk' = Swept(disk, {call[t].ino : t \in {u \in Callers : ProcessOf[u] # p}})
  /\ UNCHANGED shared

Compress(t) ==
  \/ MemHit(t) \/ MemMiss(t) \/ Read(t) \/ OpenBlockTmp(t) \/ WriteTmp(t) \/ WriteTmpFail(t)
  \/ RenameBlockTmp(t) \/ Insert(t)

NextBlocks ==
  \/ \E t \in Callers : Compress(t)
  \/ \E p \in Processes : Restart(p)
  \/ UNCHANGED blockVars /\ \A t \in Callers : Is(t, "done")

SpecBlocks == InitBlocks /\ [][NextBlocks]_blockVars

-----------------------------------------------------------------------------
\* A call returns what the compressor gives, through kills and failed writes, as
\* long as no two writers have had the temporary open together: that is what the
\* cache needs of its users, for it never validates what it reads.  Writers that
\* overlap may publish a truncated block, but when no write fails and no process
\* is killed the file is whole again once they are done.
BlocksRight ==
  /\ ~shared => \A t \in Callers : call[t].got \in {NoBlock, "whole"}
  /\ faults = 0 /\ (\A t \in Callers : ~Is(t, "write")) /\ Exists(disk, "key")
       => Content(disk, "key") = "whole"
=============================================================================
