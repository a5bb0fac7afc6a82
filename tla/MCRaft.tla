------------------------------- MODULE MCRaft -------------------------------
(***************************************************************************)
(* Small instances of Raft for TLC: three or five nodes, and the elections *)
(* and links each run allows.                                              *)
(***************************************************************************)
EXTENDS Raft, TLC

CONSTANTS n1, n2, n3, n4, n5

\* Every message of every term may get through.
AllLinks == Node \X Node \X Nat

\* Every node may campaign in term 1.
SplitVote == {<<n1, 1>>, <<n2, 1>>, <<n3, 1>>}

\* One leader for the whole run.
OneLeader == {<<n1, 1>>}

\* A leader of term 1 and its successor, which is n2 or n3.
Handover == {<<n1, 1>>, <<n2, 2>>, <<n3, 2>>}
\* n2 may elect n1 and get its entries; what n3 answers n1 in term 1 is lost.
HandoverLinks == AllLinks \ {<<n3, n1, 1>>}

\* All processes have just been restarted over the stores d; nothing is in flight.
StoreOf(t, v, log) == [term |-> t, votedFor |-> v, log |-> log]
NoopOf(t) == <<[term |-> t, cmd |-> Noop]>>
Restarted(d) ==
    /\ disk = d
    /\ node = [i \in Node |-> NewNode(d[i])]
    /\ up = [i \in Node |-> TRUE]
    /\ applied = [i \in Node |-> << >>]
    /\ msgs = {}
    /\ chosen = << >>
    /\ failures = 0

\* n1 led term 1 with the vote of n2 and reached nobody.  n1 may lead again and
\* must back up to the others, or n2 may lead and must replace what n1 has.
DivergedInit ==
    /\ Restarted(n1 :> StoreOf(1, n1, NoopOf(1)) @@
                 n2 :> StoreOf(1, n1, << >>) @@ n3 :> StoreOf(1, Nil, << >>))
    /\ led = {<<1, n1>>}
    /\ ballots = {<<n1, 1, n1>>, <<n2, 1, n1>>}
DivergedSpec == DivergedInit /\ [][Next]_vars /\ Fairness
Diverged == {<<n1, 2>>, <<n2, 2>>}

\* Five nodes, after n1 led term 1 and reached only n2, n5 led term 2 with the
\* votes of n3 and n4 and reached nobody, and both were restarted: the entry of
\* term 1 gets onto a majority only in term 3, when n5 holds a later one.
ContestInit ==
    /\ Restarted(n1 :> StoreOf(2, Nil, NoopOf(1)) @@ n2 :> StoreOf(1, n1, NoopOf(1)) @@
                 n3 :> StoreOf(2, n5, << >>) @@ n4 :> StoreOf(2, n5, << >>) @@
                 n5 :> StoreOf(2, n5, NoopOf(2)))
    /\ led = {<<1, n1>>, <<2, n5>>}
    /\ ballots = {<<n1, 1, n1>>, <<n2, 1, n1>>, <<n3, 1, n1>>,
                  <<n3, 2, n5>>, <<n4, 2, n5>>, <<n5, 2, n5>>}
ContestSpec == ContestInit /\ [][Next]_vars
Contest == {<<n1, 3>>, <<n5, 4>>}
Between(a, b, t) == {<<a, b, t>>, <<b, a, t>>}
ContestLinks ==
    Between(n1, n2, 3) \cup Between(n1, n3, 3) \cup {<<n1, n5, 3>>} \cup
    Between(n5, n2, 4) \cup Between(n5, n4, 4) \cup {<<n5, n1, 4>>}

\* The histories of ballots do not influence any step.
NoBallots == <<node, up, disk, applied, msgs, chosen, led, failures>>
=============================================================================
