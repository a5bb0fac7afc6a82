------------------------------ MODULE DurableLog ------------------------------
(***************************************************************************)
(* What the Raft host may rely on from its storage (raft.Storage): a Save  *)
(* that returned is part of every later state; a Save that failed, or that *)
(* the end of the process cut short, leaves some prefix of its records;    *)
(* and nothing else ever changes the stored state.  This is the storage    *)
(* Raft.tla takes for granted.                                             *)
(***************************************************************************)
EXTENDS LogRecords

CONSTANTS MaxEntries
VARIABLES
    served,     \* the state reads see, or saw last
    serving,    \* Save may be called
    partial     \* the records of the Save whose outcome is still open

vars == <<served, serving, partial>>

Batches ==
    {EncodeBatch(r, Len(served.entries)) :
        r \in Requests(Len(served.entries), Value, MaxEntries)}

Init ==
    /\ served = EmptyLog
    /\ serving \in BOOLEAN
    /\ partial = <<>>

Save ==
    /\ serving
    /\ \E b \in Batches : served' = Replay(served, b)
    /\ UNCHANGED <<serving, partial>>

\* The storage stops, in the middle of a Save or between two.
Stop ==
    /\ serving
    /\ partial' \in Batches \cup {<<>>}
    /\ serving' = FALSE
    /\ UNCHANGED served

\* A Save returns and the storage stops before anything else is asked of it.
SaveThenStop ==
    /\ serving
    /\ \E b \in Batches \cup {<<>>} : served' = Replay(served, b)
    /\ serving' = FALSE
    /\ UNCHANGED partial

Reopen ==
    /\ ~ serving
    /\ \E k \in 0..Len(partial) : served' = Replay(served, SubSeq(partial, 1, k))
    /\ serving' = TRUE
    /\ partial' = <<>>

Next == Save \/ Stop \/ SaveThenStop \/ Reopen

Spec == Init /\ [][Next]_vars
=============================================================================
