------------------------------ MODULE OnceMemo ------------------------------
(***************************************************************************)
(* What a single-flight memo table promises its callers, whatever it does  *)
(* to compute an entry: an entry is computed while some call that asked    *)
(* for it is in progress, is computed at most once in the life of the      *)
(* process, and every call that succeeds returns it.  A call may fail, and *)
(* a failure is not remembered.  A restart forgets everything.             *)
(***************************************************************************)
CONSTANTS
  Callers,   \* the threads that call the table
  Keys,      \* what they ask for
  Values,    \* what they may get
  Nil        \* "no entry"

VARIABLES
  memo,      \* [Keys -> Values \cup {Nil}]
  ans        \* what each caller is doing, see Answer

Idle        == [st |-> "idle"]
Busy(k)     == [st |-> "busy", key |-> k]
Ok(k, v)    == [st |-> "ok", key |-> k, val |-> v]
Err(k)      == [st |-> "err", key |-> k]

mvars == <<memo, ans>>

Init == /\ memo = [k \in Keys |-> Nil]
        /\ ans = [t \in Callers |-> Idle]

Begin(t, k) == /\ ans[t] = Idle
               /\ ans' = [ans EXCEPT ![t] = Busy(k)]
               /\ UNCHANGED memo

\* The entry may become any value.
Fill(t, k) == /\ ans[t] = Busy(k)
              /\ memo[k] = Nil
              /\ memo'[k] \in Values
              /\ memo' = [memo EXCEPT ![k] = memo'[k]]
              /\ ans' = [ans EXCEPT ![t] = Ok(k, memo'[k])]

Hit(t, k) == /\ ans[t] = Busy(k)
             /\ memo[k] # Nil
             /\ ans' = [ans EXCEPT ![t] = Ok(k, memo[k])]
             /\ UNCHANGED memo

Fail(t, k) == /\ ans[t] = Busy(k)
              /\ ans' = [ans EXCEPT ![t] = Err(k)]
              /\ UNCHANGED memo

End(t) == /\ ans[t].st \in {"ok", "err"}
          /\ ans' = [ans EXCEPT ![t] = Idle]
          /\ UNCHANGED memo

Reset == /\ memo' = [k \in Keys |-> Nil]
         /\ ans' = [t \in Callers |-> Idle]

Next == \/ Reset
        \/ \E t \in Callers :
             \/ \E k \in Keys :
                  Begin(t, k) \/ Fill(t, k) \/ Hit(t, k) \/ Fail(t, k)
             \/ End(t)

Spec == Init /\ [][Next]_mvars
=============================================================================
