--------------------------- MODULE ReplicatedLog ---------------------------
(***************************************************************************)
(* What the cluster promises its state machines: one log of chosen         *)
(* entries that only ever grows at its end.  Every node applies a prefix   *)
(* of it, in order, and starts again from the first entry when its process *)
(* is restarted.                                                           *)
(***************************************************************************)
EXTENDS Integers, Sequences

CONSTANTS Node, Entry

VARIABLES chosen, applied

Init == chosen = << >> /\ applied = [i \in Node |-> << >>]

\* s extends t.
Extends(s, t) == Len(s) >= Len(t) /\ SubSeq(s, 1, Len(t)) = t

\* A node applies further entries: those already chosen first, then new ones.
Apply(i) ==
    /\ \/ chosen' = chosen
       \/ chosen' = applied'[i] /\ Len(applied'[i]) > Len(chosen)
    /\ Extends(chosen', chosen)
    /\ Extends(applied'[i], applied[i])
    /\ Extends(chosen', applied'[i])
    /\ applied' = [applied EXCEPT ![i] = applied'[i]]

\* A node's process ends; its applied entries go with it, what was chosen stays.
\* The batch it was handling may have chosen one more piece of the log.
Restart(i) ==
    /\ Extends(chosen', chosen)
    /\ applied' = [applied EXCEPT ![i] = << >>]

Next == \E i \in Node : Apply(i) \/ Restart(i)

Spec == Init /\ [][Next]_<<chosen, applied>>
=============================================================================
