--------------------------- MODULE MCContentStore ---------------------------
EXTENDS ContentStore, TLC
CONSTANTS t1, t2, t3, p1, p2, p3

\* Three processes with a thread each; three threads of one process.
Apart    == (t1 :> p1) @@ (t2 :> p2) @@ (t3 :> p3)
Together == [t \in Threads |-> p1]
=============================================================================
