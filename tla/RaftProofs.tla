----------------------------- MODULE RaftProofs -----------------------------
(***************************************************************************)
(* The cluster of Raft.tla is type correct, keeps its storage current and  *)
(* elects at most one leader per term, for any set of peers, any bounds    *)
(* and any number of failures.                                             *)
(***************************************************************************)
EXTENDS Raft, RaftNodeProofs

-----------------------------------------------------------------------------
\* The inductive invariant: between two events nothing is pending in any node,
\* only leaders have requests in flight, and the votes add up.
Quiet ==
    \A i \in Node : InflightOK(node[i]) /\ node[i].out = {} /\ ~ node[i].dirty

IInv == TypeOK /\ StorageCurrent /\ Quiet /\ ElectionInv

\* The durable votes once the hard state of r is saved by i.
With(B, i, r) == IF r.votedFor = Nil THEN B ELSE B \cup {<<i, r.term, r.votedFor>>}

\* More durable votes do no harm.
LEMMA WorkingMonotone ==
    ASSUME NEW i \in Node, NEW n, NEW d \in Stored, NEW B, NEW C, B \subseteq C,
           Working(i, n, d, B)
    PROVE  Working(i, n, d, C)
<1>1. Supported(i, n, B) BY DEF Working
<1>2. Supported(i, n, C)
    <2>. DEFINE S == {v \in Node : <<v, n.term, i>> \in B}
                T == {v \in Node : <<v, n.term, i>> \in C}
    <2>1. S \in SUBSET Node /\ T \in SUBSET Node /\ S \subseteq T OBVIOUS
    <2>2. Majority(S) => Majority(T) BY <2>1, MajorityMonotone
    <2>. QED BY <1>1, <2>2 DEF Supported
<1>. QED BY <1>2 DEF Working

\* Between two events every node is fit to handle the next one.
LEMMA IdleWorks ==
    ASSUME IInv, NEW i \in Node
    PROVE  Working(i, node[i], disk[i], ballots) /\ node[i].out = {} /\ disk[i] \in Stored
<1>. DEFINE n == node[i]
            d == disk[i]
<1>1. n \in NodeState /\ d \in Stored BY DEF IInv, TypeOK
<1>2. InflightOK(n) /\ n.out = {} BY DEF IInv, Quiet
<1>3. d.term = n.term /\ d.votedFor = n.votedFor /\ d.log = n.log
      /\ n.unstable = Len(n.log) + 1
    <2>1. /\ d = [term |-> n.term, votedFor |-> n.votedFor, log |-> n.log]
          /\ n.unstable = Len(n.log) + 1
        BY DEF IInv, StorageCurrent
    <2>. HIDE DEF n, d
    <2>. QED BY <2>1
<1>4. n.log \in Seq(Entry) /\ n.term \in Nat BY <1>1 DEF NodeState
<1>. HIDE DEF n, d
<1>5. LogOver(n, d) BY <1>3, <1>4 DEF LogOver
<1>6. VoteOver(n, d) BY <1>3, <1>4 DEF VoteOver
<1>7. OutOK(i, n) BY <1>2 DEF OutOK
<1>8. Supported(i, n, ballots)
    BY DEF IInv, ElectionInv, VotesDurable, LeadersElected, Elected, Supported, n
<1>. QED BY <1>1, <1>2, <1>5, <1>6, <1>7, <1>8 DEF Working, n, d

-----------------------------------------------------------------------------
\* Save

\* What survives of a batch, torn anywhere, is a store whose term and vote are the
\* old ones or those of the batch.
LEMMA WrittenIsStore ==
    ASSUME NEW i \in Node, NEW n, NEW d \in Stored, NEW B, Working(i, n, d, B), NEW kinds
    PROVE  /\ Written(d, n, kinds) \in Stored
           /\ \/ Written(d, n, kinds).term = n.term /\ Written(d, n, kinds).votedFor = n.votedFor
              \/ Written(d, n, kinds).term = d.term /\ Written(d, n, kinds).votedFor = d.votedFor
<1>. DEFINE kept == SubSeq(d.log, 1, n.unstable - 1)
            new == SubSeq(n.log, n.unstable, Len(n.log))
<1>1. n \in NodeState /\ n.unstable <= Len(d.log) + 1 BY DEF Working, LogOver
<1>2. n.log \in Seq(Entry) /\ n.unstable \in Nat \ {0} /\ n.term \in Nat
      /\ n.votedFor \in Node \cup {Nil}
    BY <1>1 DEF NodeState
<1>3. d.log \in Seq(Entry) /\ d.term \in Nat /\ d.votedFor \in Node \cup {Nil} BY DEF Stored
<1>4. kept \in Seq(Entry)
    <2>1. \A x \in 1..(n.unstable - 1) : d.log[x] \in Entry BY <1>1, <1>2, <1>3
    <2>. QED BY <1>2, <2>1, SubSeqProperties
<1>5. new \in Seq(Entry)
    <2>1. \A x \in n.unstable..Len(n.log) : n.log[x] \in Entry BY <1>2
    <2>. QED BY <1>2, <2>1, SubSeqProperties
<1>6. kept \o new \in Seq(Entry) BY <1>4, <1>5, ConcatProperties
<1>7. Written(d, n, kinds) =
        [term |-> IF "HardState" \in kinds THEN n.term ELSE d.term,
         votedFor |-> IF "HardState" \in kinds THEN n.votedFor ELSE d.votedFor,
         log |-> IF "Entries" \in kinds THEN kept \o new
                 ELSE IF "Truncate" \in kinds THEN kept ELSE d.log]
    BY DEF Written
<1>. HIDE DEF kept, new
<1>. QED BY <1>2, <1>3, <1>4, <1>6, <1>7 DEF Stored

\* A Save that returns leaves the storage with the term, vote and log of the memory.
LEMMA SavedIsMemory ==
    ASSUME NEW i \in Node, NEW n, NEW d \in Stored, NEW B, Working(i, n, d, B)
    PROVE  Saved(d, n) = [term |-> n.term, votedFor |-> n.votedFor, log |-> n.log]
<1>. DEFINE kinds == Records(d, n)
            kept == SubSeq(d.log, 1, n.unstable - 1)
            new == SubSeq(n.log, n.unstable, Len(n.log))
            log == IF "Entries" \in kinds THEN kept \o new
                   ELSE IF "Truncate" \in kinds THEN kept ELSE d.log
<1>1. n \in NodeState /\ LogOver(n, d) BY DEF Working
<1>2. n.log \in Seq(Entry) /\ n.unstable \in Nat \ {0} /\ n.dirty \in BOOLEAN
    BY <1>1 DEF NodeState
<1>3. d.log \in Seq(Entry) BY DEF Stored
<1>4. "HardState" \in kinds <=> n.dirty BY <1>2 DEF Records
<1>5. "Entries" \in kinds <=> n.unstable <= Len(n.log) BY DEF Records
<1>6. Saved(d, n) = [term |-> IF "HardState" \in kinds THEN n.term ELSE d.term,
                     votedFor |-> IF "HardState" \in kinds THEN n.votedFor ELSE d.votedFor,
                     log |-> log]
    BY DEF Saved, Written
<1>7. ~ n.dirty => d.term = n.term /\ d.votedFor = n.votedFor BY DEF Working, VoteOver
<1>8. CASE n.unstable <= Len(n.log)
    <2>1. /\ kept \in Seq(Entry) /\ Len(kept) = n.unstable - 1
          /\ \A x \in 1..(n.unstable - 1) : kept[x] = n.log[x]
        <3>1. \A x \in 1..(n.unstable - 1) : d.log[x] \in Entry /\ d.log[x] = n.log[x]
            <4>1. \A x \in 1..(n.unstable - 1) : d.log[x] = n.log[x] BY <1>1 DEF LogOver
            <4>2. \A x \in 1..(n.unstable - 1) : x \in 1..Len(n.log) BY <1>2, <1>8
            <4>. QED BY <1>2, <4>1, <4>2
        <3>2. /\ kept \in Seq(Entry)
              /\ Len(kept) = IF 1 <= n.unstable - 1 THEN n.unstable - 1 - 1 + 1 ELSE 0
              /\ \A x \in 1..(n.unstable - 1 - 1 + 1) : kept[x] = d.log[1 + x - 1]
            BY <1>2, <3>1, SubSeqProperties
        <3>. QED BY <1>2, <3>1, <3>2
    <2>2. /\ new \in Seq(Entry) /\ Len(new) = Len(n.log) - n.unstable + 1
          /\ \A x \in 1..(Len(n.log) - n.unstable + 1) : new[x] = n.log[n.unstable + x - 1]
        <3>1. \A x \in n.unstable..Len(n.log) : n.log[x] \in Entry BY <1>2
        <3>. QED BY <1>2, <1>8, <3>1, SubSeqProperties
    <2>. HIDE DEF kept, new
    <2>3. /\ kept \o new \in Seq(Entry)
          /\ Len(kept \o new) = Len(kept) + Len(new)
          /\ \A x \in 1..(Len(kept) + Len(new)) :
                (kept \o new)[x] = IF x <= Len(kept) THEN kept[x] ELSE new[x - Len(kept)]
        BY <2>1, <2>2, ConcatProperties
    <2>4. Len(kept \o new) = Len(n.log)
        <3>. DEFINE u == n.unstable
                    l == Len(n.log)
        <3>1. u \in Nat /\ l \in Nat BY <1>2
        <3>2. Len(kept) = u - 1 /\ Len(new) = l - u + 1 BY <2>1, <2>2
        <3>. HIDE DEF u, l
        <3>3. Len(kept) + Len(new) = l BY <3>1, <3>2
        <3>. QED BY <2>3, <3>3 DEF l
    <2>5. ASSUME NEW x \in 1..Len(n.log) PROVE (kept \o new)[x] = n.log[x]
        <3>1. x \in 1..(Len(kept) + Len(new)) BY <1>2, <2>1, <2>2
        <3>2. CASE x <= Len(kept) BY <1>2, <2>1, <2>3, <3>1, <3>2
        <3>3. CASE ~ (x <= Len(kept))
            <4>. DEFINE u == n.unstable
                        l == Len(n.log)
            <4>0. u \in Nat /\ l \in Nat /\ Len(kept) = u - 1 /\ x \in 1..l
                BY <1>2, <2>1
            <4>. HIDE DEF u, l
            <4>1. x - Len(kept) \in 1..(l - u + 1) /\ u + (x - Len(kept)) - 1 = x
                BY <3>3, <4>0
            <4>. USE DEF u, l
            <4>2. new[x - Len(kept)] = n.log[x] BY <2>2, <4>1
            <4>. QED BY <2>3, <3>1, <3>3, <4>2
        <3>. QED BY <3>2, <3>3
    <2>6. kept \o new = n.log
        <3>. DEFINE w == kept \o new
        <3>1. w \in Seq(Entry) /\ Len(w) = Len(n.log) /\ \A x \in 1..Len(w) : w[x] = n.log[x]
            BY <2>3, <2>4, <2>5
        <3>. HIDE DEF w
        <3>2. w = n.log BY <1>2, <3>1, SeqEqual
        <3>. QED BY <3>2 DEF w
    <2>7. log = n.log BY <1>5, <1>8, <2>6
    <2>. QED BY <1>4, <1>6, <1>7, <2>7
<1>9. CASE ~ (n.unstable <= Len(n.log))
    <2>1. n.unstable = Len(n.log) + 1 /\ Len(n.log) = Len(d.log)
        BY <1>1, <1>2, <1>9 DEF LogOver
    <2>2. \A x \in 1..Len(n.log) : n.log[x] = d.log[x] BY <1>1, <1>2, <2>1 DEF LogOver
    <2>3. d.log = n.log BY <1>2, <1>3, <2>1, <2>2, SeqEqual
    <2>4. "Truncate" \notin kinds BY <1>9 DEF Records
    <2>5. log = n.log BY <1>5, <1>9, <2>3, <2>4
    <2>. QED BY <1>4, <1>6, <1>7, <2>5
<1>. QED BY <1>8, <1>9

-----------------------------------------------------------------------------
\* What an event does to the votes

\* Saving a hard state that is not older, and keeps the vote of its term, casts no
\* second vote and forgets none.
LEMMA StoreKeepsVotes ==
    ASSUME IInv, NEW i \in Node, NEW d \in Stored, Store(i, d),
           d.term >= disk[i].term,
           d.term = disk[i].term /\ disk[i].votedFor # Nil => d.votedFor = disk[i].votedFor
    PROVE  /\ disk' \in [Node -> Stored] /\ disk'[i] = d
           /\ \A j \in Node \ {i} : disk'[j] = disk[j]
           /\ ballots' \subseteq Node \X Nat \X Node
           /\ ballots' = With(ballots, i, d)
           /\ OneBallotPerTerm' /\ BallotsKept'
<1>1. /\ disk \in [Node -> Stored] /\ ballots \subseteq Node \X Nat \X Node
      /\ OneBallotPerTerm /\ BallotsKept
    BY DEF IInv, TypeOK, ElectionInv
<1>2. /\ disk' = [disk EXCEPT ![i] = d] /\ ballots' = With(ballots, i, d)
    BY DEF Store, With
<1>3. disk' \in [Node -> Stored] /\ disk'[i] = d /\ \A j \in Node \ {i} : disk'[j] = disk[j]
    BY <1>1, <1>2
<1>4. d.term \in Nat /\ d.votedFor \in Node \cup {Nil} /\ disk[i].term \in Nat
    BY <1>1 DEF Stored
<1>5. \A b \in ballots : b[1] \in Node /\ b[2] \in Nat /\ b[3] \in Node BY <1>1
<1>6. \A b \in ballots : b[1] = i /\ b[2] >= d.term => b[2] = d.term /\ b[3] = d.votedFor
    <2>. SUFFICES ASSUME NEW b \in ballots, b[1] = i, b[2] >= d.term
                  PROVE  b[2] = d.term /\ b[3] = d.votedFor
        OBVIOUS
    <2>1. disk[i].term > b[2] \/ (disk[i].term = b[2] /\ disk[i].votedFor = b[3])
        BY <1>1 DEF BallotsKept
    <2>2. disk[i].term = b[2] /\ disk[i].votedFor = b[3] BY <1>4, <1>5, <2>1
    <2>3. b[3] # Nil BY <1>5, NilAssumption
    <2>. QED BY <1>4, <1>5, <2>2, <2>3
<1>7. ballots' \subseteq Node \X Nat \X Node BY <1>1, <1>2, <1>4 DEF With
<1>8. OneBallotPerTerm'
    <2>1. CASE d.votedFor = Nil BY <1>1, <1>2, <2>1 DEF With, OneBallotPerTerm
    <2>2. CASE d.votedFor # Nil
        <3>1. ballots' = ballots \cup {<<i, d.term, d.votedFor>>} BY <1>2, <2>2 DEF With
        <3>2. \A a, b \in ballots : a[1] = b[1] /\ a[2] = b[2] => a[3] = b[3]
            BY <1>1 DEF OneBallotPerTerm
        <3>3. \A a \in ballots : a[1] = i /\ a[2] = d.term => a[3] = d.votedFor
            BY <1>4, <1>6
        <3>. QED BY <3>1, <3>2, <3>3 DEF OneBallotPerTerm
    <2>. QED BY <2>1, <2>2
<1>9. BallotsKept'
    <2>. SUFFICES ASSUME NEW b \in ballots'
                  PROVE  \/ disk'[b[1]].term > b[2]
                         \/ disk'[b[1]].term = b[2] /\ disk'[b[1]].votedFor = b[3]
        BY DEF BallotsKept
    <2>1. CASE b \in ballots /\ b[1] # i
        BY <1>1, <1>3, <1>5, <2>1 DEF BallotsKept
    <2>2. CASE b \in ballots /\ b[1] = i
        BY <1>3, <1>4, <1>5, <1>6, <2>2
    <2>3. CASE b \notin ballots
        <3>1. b = <<i, d.term, d.votedFor>> BY <1>2, <2>3 DEF With
        <3>. QED BY <1>3, <3>1
    <2>. QED BY <2>1, <2>2, <2>3
<1>. QED BY <1>2, <1>3, <1>7, <1>8, <1>9

\* What was a majority of durable votes stays one.
LEMMA ElectedStays ==
    ASSUME NEW t, NEW j, Elected(t, j), ballots \subseteq ballots'
    PROVE  Elected(t, j)'
<1>. DEFINE S == {v \in Node : <<v, t, j>> \in ballots}
            T == {v \in Node : <<v, t, j>> \in ballots'}
<1>1. S \in SUBSET Node /\ T \in SUBSET Node /\ S \subseteq T OBVIOUS
<1>2. Majority(S) BY DEF Elected
<1>3. Majority(T) BY <1>1, <1>2, MajorityMonotone
<1>. QED BY <1>3 DEF Elected

\* The messages of a batch that is durable: the votes among them are durable, and
\* the requests are those of an elected leader.
LEMMA SendAllKeepsVotes ==
    ASSUME IInv, NEW i \in Node, NEW r, Working(i, r, disk[i], ballots'),
           ballots \subseteq ballots', r.votedFor # Nil => <<i, r.term, r.votedFor>> \in ballots',
           SendAll(r)
    PROVE  /\ msgs' \subseteq Message /\ led' \subseteq Nat \X Node
           /\ \A a \in led' : Elected(a[1], a[2])'
           /\ \A m \in msgs' : m.type = "RequestVoteResp" /\ m.granted
                                => <<m.from, m.term, m.to>> \in ballots'
<1>1. r \in NodeState /\ OutOK(i, r) /\ Supported(i, r, ballots') BY DEF Working
<1>2. r.out \subseteq Message /\ r.term \in Nat BY <1>1 DEF NodeState
<1>3. /\ msgs \subseteq Message /\ led \subseteq Nat \X Node
      /\ \A a \in led : Elected(a[1], a[2])
      /\ \A m \in msgs : m.type = "RequestVoteResp" /\ m.granted
                            => <<m.from, m.term, m.to>> \in ballots
    BY DEF IInv, TypeOK, ElectionInv, LeadersElected, VotesDurable
<1>4. msgs' \subseteq msgs \cup r.out BY DEF SendAll, Deliverable
<1>5. \A a \in led' \ led : a = <<r.term, i>> /\ r.role = Leader
    <2>. SUFFICES ASSUME NEW a \in led' \ led PROVE a = <<r.term, i>> /\ r.role = Leader
        OBVIOUS
    <2>1. PICK m \in r.out : m.type = "AppendEntries" /\ a = <<m.term, m.from>>
        BY DEF SendAll
    <2>. QED BY <1>1, <2>1 DEF OutOK
<1>6. msgs' \subseteq Message BY <1>2, <1>3, <1>4
<1>7. led' \subseteq Nat \X Node BY <1>2, <1>3, <1>5
<1>8. ASSUME NEW a \in led' PROVE Elected(a[1], a[2])'
    <2>1. CASE a \in led BY <1>3, <2>1, ElectedStays
    <2>2. CASE a \notin led
        <3>1. a[1] = r.term /\ a[2] = i /\ r.role = Leader BY <1>5, <2>2
        <3>2. Majority({v \in Node : <<v, r.term, i>> \in ballots'})
            BY <1>1, <3>1 DEF Supported
        <3>. QED BY <3>1, <3>2 DEF Elected
    <2>. QED BY <2>1, <2>2
<1>9. ASSUME NEW m \in msgs', m.type = "RequestVoteResp" /\ m.granted
      PROVE  <<m.from, m.term, m.to>> \in ballots'
    <2>1. CASE m \in msgs BY <1>3, <1>9, <2>1
    <2>2. CASE m \in r.out
        <3>1. m.from = i /\ m.term = r.term /\ m.to = r.votedFor
            BY <1>1, <1>9, <2>2 DEF OutOK
        <3>2. r.votedFor # Nil BY <1>2, <2>2, <3>1, MessageFields, NilAssumption
        <3>. QED BY <3>1, <3>2
    <2>. QED BY <1>4, <2>1, <2>2
<1>. QED BY <1>6, <1>7, <1>8, <1>9

-----------------------------------------------------------------------------
\* What an event does to one node

\* Ready hands out entries of the log.
LEMMA CommittedAreEntries ==
    ASSUME NEW n \in NodeState
    PROVE  CommittedEntries(n) \in Seq(Entry)
<1>. DEFINE hi == Min({n.commitIndex, Len(n.log)})
            lo == n.lastApplied + 1
<1>1. n.log \in Seq(Entry) /\ n.commitIndex \in Nat /\ n.lastApplied \in Nat
    BY DEF NodeState
<1>2. Len(n.log) \in Nat BY <1>1
<1>3. hi \in Nat /\ hi <= Len(n.log) BY <1>1, <1>2, MinPair
<1>. HIDE DEF hi
<1>4. \A x \in lo..hi : n.log[x] \in Entry BY <1>1, <1>2, <1>3
<1>5. SubSeq(n.log, lo, hi) \in Seq(Entry) BY <1>1, <1>3, <1>4, SubSeqProperties
<1>. QED BY <1>5 DEF CommittedEntries, hi

\* Advance leaves nothing pending and touches neither term, vote, role nor log.
LEMMA AdvanceSettles ==
    ASSUME NEW i \in Node, NEW n, NEW d \in Stored, NEW B, Working(i, n, d, B)
    PROVE  LET a == Advance(n)
           IN  /\ a \in NodeState /\ InflightOK(a) /\ a.out = {} /\ ~ a.dirty
               /\ a.term = n.term /\ a.votedFor = n.votedFor /\ a.log = n.log
               /\ a.unstable = Len(a.log) + 1 /\ a.role = n.role /\ a.votes = n.votes
<1>. DEFINE a == Advance(n)
            u == IF n.unstable <= Len(n.log) THEN Len(n.log) + 1 ELSE n.unstable
            l == n.lastApplied + Len(CommittedEntries(n))
<1>1. n \in NodeState /\ InflightOK(n) /\ n.unstable <= Len(n.log) + 1
    BY DEF Working, LogOver
<1>2. n.log \in Seq(Entry) /\ n.unstable \in Nat \ {0} /\ n.lastApplied \in Nat
    BY <1>1 DEF NodeState
<1>3. u = Len(n.log) + 1 /\ u \in Nat \ {0} BY <1>1, <1>2
<1>4. l \in Nat BY <1>1, <1>2, CommittedAreEntries
<1>5. a = [n EXCEPT !.dirty = FALSE, !.unstable = u, !.lastApplied = l, !.out = {}]
    BY DEF Advance
<1>. HIDE DEF a, u, l
<1>6. FALSE \in BOOLEAN /\ {} \in SUBSET Message OBVIOUS
<1>7. a \in NodeState BY <1>1, <1>3, <1>4, <1>5, <1>6 DEF NodeState
<1>8. /\ a.out = {} /\ a.dirty = FALSE /\ a.term = n.term /\ a.votedFor = n.votedFor
      /\ a.log = n.log /\ a.unstable = u /\ a.role = n.role /\ a.votes = n.votes
      /\ a.inflight = n.inflight
    BY <1>1, <1>5 DEF NodeState
<1>9. InflightOK(a) BY <1>1, <1>8 DEF InflightOK
<1>. QED BY <1>3, <1>7, <1>8, <1>9 DEF a

\* A recovered node has the stored term, vote and log, and nothing pending.
LEMMA NewNodeSettled ==
    ASSUME NEW d \in Stored
    PROVE  LET a == NewNode(d)
           IN  /\ a \in NodeState /\ InflightOK(a) /\ a.out = {} /\ ~ a.dirty
               /\ a.term = d.term /\ a.votedFor = d.votedFor /\ a.log = d.log
               /\ a.unstable = Len(a.log) + 1 /\ a.role = Follower
<1>. DEFINE a == NewNode(d)
<1>1. d.term \in Nat /\ d.votedFor \in Node \cup {Nil} /\ d.log \in Seq(Entry) BY DEF Stored
<1>2. Len(d.log) + 1 \in Nat \ {0} BY <1>1
<1>3. 0 \in Nat /\ FALSE \in BOOLEAN /\ {} \in SUBSET Message /\ {} \in SUBSET Node OBVIOUS
<1>4. NoIndex \in [Node -> Nat] /\ NoInflight \in [Node -> Inflight \cup {Nil}]
    BY DEF NoIndex, NoInflight
<1>5. a = [term |-> d.term, votedFor |-> d.votedFor, dirty |-> FALSE,
           role |-> Follower, votes |-> {},
           log |-> d.log, unstable |-> Len(d.log) + 1, commitIndex |-> 0,
           lastApplied |-> 0, nextIndex |-> NoIndex, matchIndex |-> NoIndex,
           inflight |-> NoInflight, out |-> {}]
    BY DEF NewNode
<1>6. /\ a.out = {} /\ a.dirty = FALSE /\ a.term = d.term /\ a.votedFor = d.votedFor
      /\ a.log = d.log /\ a.unstable = Len(d.log) + 1 /\ a.role = Follower
      /\ a.inflight = NoInflight
    BY <1>5
<1>. HIDE DEF a
<1>7. a \in NodeState BY <1>1, <1>2, <1>3, <1>4, <1>5 DEF NodeState
<1>8. InflightOK(a) BY <1>6 DEF InflightOK, NoInflight
<1>. QED BY <1>6, <1>7, <1>8 DEF a

\* The whole invariant after a step of i, from what i and its store have become
\* and what the votes of the others still are.
LEMMA NodeStepKeeps ==
    ASSUME IInv, NEW i \in Node, NEW a, NEW d,
           node' = [node EXCEPT ![i] = a], disk'[i] = d,
           \A j \in Node \ {i} : disk'[j] = disk[j],
           disk' \in [Node -> Stored],
           a \in NodeState, InflightOK(a), a.out = {}, ~ a.dirty,
           d = [term |-> a.term, votedFor |-> a.votedFor, log |-> a.log],
           a.unstable = Len(a.log) + 1,
           Supported(i, a, ballots'), ballots \subseteq ballots',
           ballots' \subseteq Node \X Nat \X Node, OneBallotPerTerm', BallotsKept',
           \A m \in msgs' : m.type = "RequestVoteResp" /\ m.granted
                                => <<m.from, m.term, m.to>> \in ballots',
           \A l \in led' : Elected(l[1], l[2])',
           msgs' \subseteq Message, led' \subseteq Nat \X Node,
           up' \in [Node -> BOOLEAN], applied' \in [Node -> Seq(Entry)],
           chosen' \in Seq(Entry), failures' \in 0..MaxFail
    PROVE  IInv'
<1>1. node \in [Node -> NodeState] BY DEF IInv, TypeOK
<1>2. node'[i] = a /\ \A j \in Node \ {i} : node'[j] = node[j] BY <1>1
<1>3. node' \in [Node -> NodeState] BY <1>1
<1>4. TypeOK' BY <1>3 DEF TypeOK
<1>5. StorageCurrent'
    <2>1. /\ disk'[i] = [term |-> node'[i].term, votedFor |-> node'[i].votedFor,
                         log |-> node'[i].log]
          /\ node'[i].unstable = Len(node'[i].log) + 1
        BY <1>2
    <2>2. ASSUME NEW j \in Node \ {i}
          PROVE  /\ disk'[j] = [term |-> node'[j].term, votedFor |-> node'[j].votedFor,
                                log |-> node'[j].log]
                 /\ node'[j].unstable = Len(node'[j].log) + 1
        BY <1>2 DEF IInv, StorageCurrent
    <2>. QED BY <2>1, <2>2 DEF StorageCurrent
<1>6. Quiet'
    <2>1. ASSUME NEW j \in Node PROVE InflightOK(node'[j]) /\ node'[j].out = {} /\ ~ node'[j].dirty
        BY <1>2 DEF IInv, Quiet
    <2>. QED BY <2>1 DEF Quiet, InflightOK
<1>7. LeadersElected'
    <2>1. ASSUME NEW j \in Node, node'[j].role = Leader
          PROVE  Majority({v \in Node : <<v, node'[j].term, j>> \in ballots'})
        <3>1. CASE j = i
            <4>1. Majority({v \in Node : <<v, a.term, i>> \in ballots'})
                BY <1>2, <2>1, <3>1 DEF Supported
            <4>. QED BY <1>2, <3>1, <4>1
        <3>2. CASE j # i
            <4>. DEFINE t == node[j].term
                        S == {v \in Node : <<v, t, j>> \in ballots}
                        T == {v \in Node : <<v, t, j>> \in ballots'}
            <4>1. node'[j] = node[j] BY <1>2, <3>2
            <4>2. Majority(S)
                BY <2>1, <4>1 DEF IInv, ElectionInv, LeadersElected, Elected
            <4>3. S \in SUBSET Node /\ T \in SUBSET Node /\ S \subseteq T OBVIOUS
            <4>4. Majority(T) BY <4>2, <4>3, MajorityMonotone
            <4>. QED BY <4>1, <4>4
        <3>. QED BY <3>1, <3>2
    <2>. QED BY <2>1 DEF LeadersElected, Elected
<1>8. VotesDurable'
    <2>1. ASSUME NEW j \in Node, node'[j].role = Candidate, NEW v \in node'[j].votes
          PROVE  <<v, node'[j].term, j>> \in ballots'
        <3>1. CASE j = i BY <1>2, <2>1, <3>1 DEF Supported
        <3>2. CASE j # i BY <1>2, <2>1, <3>2 DEF IInv, ElectionInv, VotesDurable
        <3>. QED BY <3>1, <3>2
    <2>. QED BY <2>1 DEF VotesDurable
<1>. QED BY <1>4, <1>5, <1>6, <1>7, <1>8 DEF IInv, ElectionInv

-----------------------------------------------------------------------------
\* The outcomes of a batch.  r is the memory after the event.

Handled(i, r) ==
    /\ Working(i, r, disk[i], With(ballots, i, r))
    /\ disk[i] \in Stored

\* A batch whose Save returns, and that is sent, keeps the votes in order.
LEMMA SavedAndSent ==
    ASSUME IInv, NEW i \in Node, NEW r, Handled(i, r),
           Store(i, Saved(disk[i], r)), SendAll(r)
    PROVE  /\ disk' \in [Node -> Stored]
           /\ disk'[i] = [term |-> r.term, votedFor |-> r.votedFor, log |-> r.log]
           /\ \A j \in Node \ {i} : disk'[j] = disk[j]
           /\ ballots' = With(ballots, i, r) /\ ballots \subseteq ballots'
           /\ ballots' \subseteq Node \X Nat \X Node
           /\ OneBallotPerTerm' /\ BallotsKept'
           /\ msgs' \subseteq Message /\ led' \subseteq Nat \X Node
           /\ \A l \in led' : Elected(l[1], l[2])'
           /\ \A m \in msgs' : m.type = "RequestVoteResp" /\ m.granted
                                => <<m.from, m.term, m.to>> \in ballots'
<1>. DEFINE d == Saved(disk[i], r)
<1>1. Working(i, r, disk[i], With(ballots, i, r)) /\ disk[i] \in Stored BY DEF Handled
<1>2. r \in NodeState /\ VoteOver(r, disk[i]) BY <1>1 DEF Working
<1>3. d = [term |-> r.term, votedFor |-> r.votedFor, log |-> r.log]
    BY <1>1, SavedIsMemory
<1>. HIDE DEF d
<1>4. d \in Stored BY <1>2, <1>3 DEF NodeState, Stored
<1>5. d.term = r.term /\ d.votedFor = r.votedFor BY <1>3
<1>6. /\ d.term >= disk[i].term
      /\ d.term = disk[i].term /\ disk[i].votedFor # Nil => d.votedFor = disk[i].votedFor
    BY <1>2, <1>5 DEF VoteOver
<1>7. Store(i, d) BY DEF d
<1>8. /\ disk' \in [Node -> Stored] /\ disk'[i] = d
      /\ \A j \in Node \ {i} : disk'[j] = disk[j]
      /\ ballots' \subseteq Node \X Nat \X Node
      /\ ballots' = With(ballots, i, d)
      /\ OneBallotPerTerm' /\ BallotsKept'
    BY <1>4, <1>6, <1>7, StoreKeepsVotes
<1>9. ballots' = With(ballots, i, r) /\ ballots \subseteq ballots'
    BY <1>5, <1>8 DEF With
<1>10. r.votedFor # Nil => <<i, r.term, r.votedFor>> \in ballots' BY <1>9 DEF With
<1>11. Working(i, r, disk[i], ballots') BY <1>1, <1>9
<1>12. /\ msgs' \subseteq Message /\ led' \subseteq Nat \X Node
       /\ \A l \in led' : Elected(l[1], l[2])'
       /\ \A m \in msgs' : m.type = "RequestVoteResp" /\ m.granted
                            => <<m.from, m.term, m.to>> \in ballots'
    BY <1>9, <1>10, <1>11, SendAllKeepsVotes
<1>. QED BY <1>3, <1>8, <1>9, <1>12

\* Of two typed sequences, the longer one is typed.
LEMMA ChosenTyped ==
    ASSUME IInv, NEW i \in Node, NEW r \in NodeState, NEW k \in Nat,
           k <= Len(CommittedEntries(r)), ApplyCommitted(i, r, k)
    PROVE  chosen' \in Seq(Entry)
<1>. DEFINE c == CommittedEntries(r)
<1>1. c \in Seq(Entry) BY CommittedAreEntries
<1>2. applied[i] \in Seq(Entry) /\ chosen \in Seq(Entry) BY DEF IInv, TypeOK
<1>3. chosen' = Longer(applied[i] \o SubSeq(c, 1, k), chosen) BY DEF ApplyCommitted
<1>4. k <= Len(c) OBVIOUS
<1>. HIDE DEF c
<1>5. \A x \in 1..k : c[x] \in Entry BY <1>1, <1>4
<1>6. SubSeq(c, 1, k) \in Seq(Entry) BY <1>5, SubSeqProperties
<1>7. applied[i] \o SubSeq(c, 1, k) \in Seq(Entry) BY <1>2, <1>6, ConcatProperties
<1>. QED BY <1>2, <1>3, <1>7 DEF Longer

\* A process that ends leaves typed state, and memory to be recovered from its store.
LEMMA StopTyped ==
    ASSUME IInv, NEW i \in Node, Stop(i)
    PROVE  /\ up' \in [Node -> BOOLEAN] /\ applied' \in [Node -> Seq(Entry)]
           /\ failures' \in 0..MaxFail
           /\ node' = [node EXCEPT ![i] = NewNode(disk'[i])]
<1>1. /\ up \in [Node -> BOOLEAN] /\ applied \in [Node -> Seq(Entry)]
      /\ failures \in 0..MaxFail
    BY DEF IInv, TypeOK
<1>2. MaxFail \in Nat BY BoundAssumption
<1>3. << >> \in Seq(Entry) OBVIOUS
<1>. QED BY <1>1, <1>2, <1>3 DEF Stop

\* A batch that completes keeps the invariant.
LEMMA CompleteKeeps ==
    ASSUME IInv, NEW i \in Node, NEW r, Handled(i, r), Complete(i, r)
    PROVE  IInv'
<1>. DEFINE a == Advance(r)
            c == CommittedEntries(r)
<1>1. Store(i, Saved(disk[i], r)) /\ SendAll(r) /\ node' = [node EXCEPT ![i] = a]
    BY DEF Complete
<1>2. Working(i, r, disk[i], With(ballots, i, r)) /\ disk[i] \in Stored BY DEF Handled
<1>3. r \in NodeState /\ Supported(i, r, With(ballots, i, r)) BY <1>2 DEF Working
<1>4. c \in Seq(Entry) BY <1>3, CommittedAreEntries
<1>5. chosen' \in Seq(Entry)
    <2>1. ApplyCommitted(i, r, Len(c)) BY DEF Complete
    <2>2. Len(c) \in Nat /\ Len(c) <= Len(CommittedEntries(r)) BY <1>4
    <2>. QED BY <1>3, <2>1, <2>2, ChosenTyped
<1>6. applied' \in [Node -> Seq(Entry)]
    <2>1. applied' = [applied EXCEPT ![i] = @ \o c] BY DEF Complete
    <2>2. applied \in [Node -> Seq(Entry)] BY DEF IInv, TypeOK
    <2>. HIDE DEF c
    <2>3. applied[i] \o c \in Seq(Entry) BY <1>4, <2>2, ConcatProperties
    <2>. QED BY <2>1, <2>2, <2>3
<1>7. up' \in [Node -> BOOLEAN] /\ failures' \in 0..MaxFail BY DEF Complete, IInv, TypeOK
<1>8. /\ a \in NodeState /\ InflightOK(a) /\ a.out = {} /\ ~ a.dirty
      /\ a.term = r.term /\ a.votedFor = r.votedFor /\ a.log = r.log
      /\ a.unstable = Len(a.log) + 1 /\ a.role = r.role /\ a.votes = r.votes
    BY <1>2, AdvanceSettles
<1>. HIDE DEF a
<1>9. Supported(i, a, With(ballots, i, r)) BY <1>3, <1>8 DEF Supported
<1>10. /\ disk' \in [Node -> Stored]
       /\ disk'[i] = [term |-> r.term, votedFor |-> r.votedFor, log |-> r.log]
       /\ \A j \in Node \ {i} : disk'[j] = disk[j]
       /\ ballots' = With(ballots, i, r) /\ ballots \subseteq ballots'
       /\ ballots' \subseteq Node \X Nat \X Node
       /\ OneBallotPerTerm' /\ BallotsKept'
       /\ msgs' \subseteq Message /\ led' \subseteq Nat \X Node
       /\ \A l \in led' : Elected(l[1], l[2])'
       /\ \A m \in msgs' : m.type = "RequestVoteResp" /\ m.granted
                            => <<m.from, m.term, m.to>> \in ballots'
    BY <1>1, SavedAndSent
<1>11. disk'[i] = [term |-> a.term, votedFor |-> a.votedFor, log |-> a.log]
    BY <1>8, <1>10
<1>12. Supported(i, a, ballots') BY <1>9, <1>10
<1>. QED BY <1>1, <1>5, <1>6, <1>7, <1>8, <1>10, <1>11, <1>12, NodeStepKeeps

\* A process that ends keeps the invariant, when its store and its messages do.
LEMMA StopKeeps ==
    ASSUME IInv, NEW i \in Node, Stop(i),
           disk' \in [Node -> Stored], \A j \in Node \ {i} : disk'[j] = disk[j],
           ballots \subseteq ballots', ballots' \subseteq Node \X Nat \X Node,
           OneBallotPerTerm', BallotsKept',
           \A m \in msgs' : m.type = "RequestVoteResp" /\ m.granted
                                => <<m.from, m.term, m.to>> \in ballots',
           \A l \in led' : Elected(l[1], l[2])',
           msgs' \subseteq Message, led' \subseteq Nat \X Node, chosen' \in Seq(Entry)
    PROVE  IInv'
<1>. DEFINE d == disk'[i]
            a == NewNode(d)
<1>1. d \in Stored OBVIOUS
<1>2. /\ up' \in [Node -> BOOLEAN] /\ applied' \in [Node -> Seq(Entry)]
      /\ failures' \in 0..MaxFail /\ node' = [node EXCEPT ![i] = a]
    BY StopTyped
<1>. HIDE DEF d
<1>3. /\ a \in NodeState /\ InflightOK(a) /\ a.out = {} /\ ~ a.dirty
      /\ a.term = d.term /\ a.votedFor = d.votedFor /\ a.log = d.log
      /\ a.unstable = Len(a.log) + 1 /\ a.role = Follower
    BY <1>1, NewNodeSettled
<1>. HIDE DEF a
<1>4. Supported(i, a, ballots') BY <1>3 DEF Supported, Follower, Candidate, Leader
<1>5. d = [term |-> a.term, votedFor |-> a.votedFor, log |-> a.log] BY <1>1, <1>3 DEF Stored
<1>6. disk'[i] = d BY DEF d
<1>. QED BY <1>2, <1>3, <1>4, <1>5, <1>6, NodeStepKeeps

\* A batch that fails after Save and send keeps the invariant.
LEMMA ApplyFailsKeeps ==
    ASSUME IInv, NEW i \in Node, NEW r, Handled(i, r), ApplyFails(i, r)
    PROVE  IInv'
<1>1. Store(i, Saved(disk[i], r)) /\ SendAll(r) /\ Stop(i) BY DEF ApplyFails
<1>2. r \in NodeState BY DEF Handled, Working
<1>3. chosen' \in Seq(Entry)
    <2>1. PICK k \in 0..(Len(CommittedEntries(r)) - 1) : ApplyCommitted(i, r, k)
        BY DEF ApplyFails
    <2>2. Len(CommittedEntries(r)) \in Nat BY <1>2, CommittedAreEntries
    <2>3. k \in Nat /\ k <= Len(CommittedEntries(r)) BY <2>2
    <2>. QED BY <1>2, <2>1, <2>3, ChosenTyped
<1>4. /\ disk' \in [Node -> Stored]
      /\ \A j \in Node \ {i} : disk'[j] = disk[j]
      /\ ballots \subseteq ballots' /\ ballots' \subseteq Node \X Nat \X Node
      /\ OneBallotPerTerm' /\ BallotsKept'
      /\ msgs' \subseteq Message /\ led' \subseteq Nat \X Node
      /\ \A l \in led' : Elected(l[1], l[2])'
      /\ \A m \in msgs' : m.type = "RequestVoteResp" /\ m.granted
                            => <<m.from, m.term, m.to>> \in ballots'
    BY <1>1, SavedAndSent
<1>. QED BY <1>1, <1>3, <1>4, StopKeeps

\* When nothing is sent, more durable votes leave what was sent in order.
LEMMA SilentKeepsVotes ==
    ASSUME IInv, ballots \subseteq ballots', msgs' \subseteq msgs, led' = led
    PROVE  /\ msgs' \subseteq Message /\ led' \subseteq Nat \X Node
           /\ \A l \in led' : Elected(l[1], l[2])'
           /\ \A m \in msgs' : m.type = "RequestVoteResp" /\ m.granted
                                => <<m.from, m.term, m.to>> \in ballots'
<1>1. /\ msgs \subseteq Message /\ led \subseteq Nat \X Node
      /\ \A l \in led : Elected(l[1], l[2])
      /\ \A m \in msgs : m.type = "RequestVoteResp" /\ m.granted
                            => <<m.from, m.term, m.to>> \in ballots
    BY DEF IInv, TypeOK, ElectionInv, LeadersElected, VotesDurable
<1>2. ASSUME NEW l \in led' PROVE Elected(l[1], l[2])'
    BY <1>1, ElectedStays
<1>. QED BY <1>1, <1>2

\* A batch that is torn in Save keeps the invariant: what survived is the old hard
\* state or the new one, and nobody was told.
LEMMA SaveFailsKeeps ==
    ASSUME IInv, NEW i \in Node, NEW r, Handled(i, r), SaveFails(i, r)
    PROVE  IInv'
<1>1. Working(i, r, disk[i], With(ballots, i, r)) /\ disk[i] \in Stored BY DEF Handled
<1>2. PICK k \in 1..3 : Store(i, Written(disk[i], r, FirstRecords(disk[i], r, k)))
    BY DEF SaveFails
<1>. DEFINE kinds == FirstRecords(disk[i], r, k)
            B == With(ballots, i, r)
            d == Written(disk[i], r, kinds)
<1>3. /\ d \in Stored
      /\ \/ d.term = r.term /\ d.votedFor = r.votedFor
         \/ d.term = disk[i].term /\ d.votedFor = disk[i].votedFor
    <2>. DEFINE c == disk[i]
    <2>1. Working(i, r, c, B) /\ c \in Stored BY <1>1
    <2>. HIDE DEF kinds, B, c
    <2>2. /\ Written(c, r, kinds) \in Stored
          /\ \/ Written(c, r, kinds).term = r.term /\ Written(c, r, kinds).votedFor = r.votedFor
             \/ Written(c, r, kinds).term = c.term /\ Written(c, r, kinds).votedFor = c.votedFor
        BY <2>1, WrittenIsStore
    <2>. QED BY <2>2 DEF c
<1>4. Store(i, d) BY <1>2
<1>. HIDE DEF d
<1>5. VoteOver(r, disk[i]) BY <1>1 DEF Working
<1>6. disk[i].term \in Nat BY <1>1 DEF Stored
<1>7. /\ d.term >= disk[i].term
      /\ d.term = disk[i].term /\ disk[i].votedFor # Nil => d.votedFor = disk[i].votedFor
    BY <1>3, <1>5, <1>6 DEF VoteOver
<1>8. /\ disk' \in [Node -> Stored]
      /\ \A j \in Node \ {i} : disk'[j] = disk[j]
      /\ ballots' \subseteq Node \X Nat \X Node
      /\ ballots' = With(ballots, i, d)
      /\ OneBallotPerTerm' /\ BallotsKept'
    BY <1>3, <1>4, <1>7, StoreKeepsVotes
<1>9. ballots \subseteq ballots' BY <1>8 DEF With
<1>10. msgs' \subseteq msgs /\ led' = led /\ chosen' = chosen /\ Stop(i)
    BY DEF SaveFails, Deliverable
<1>11. /\ msgs' \subseteq Message /\ led' \subseteq Nat \X Node
       /\ \A l \in led' : Elected(l[1], l[2])'
       /\ \A m \in msgs' : m.type = "RequestVoteResp" /\ m.granted
                            => <<m.from, m.term, m.to>> \in ballots'
    BY <1>9, <1>10, SilentKeepsVotes
<1>12. chosen' \in Seq(Entry) BY <1>10 DEF IInv, TypeOK
<1>. QED BY <1>8, <1>9, <1>10, <1>11, <1>12, StopKeeps

\* Whatever becomes of the batch, the invariant holds.
LEMMA ProcessReadyKeeps ==
    ASSUME IInv, NEW i \in Node, NEW r, Handled(i, r), ProcessReady(i, r)
    PROVE  IInv'
BY CompleteKeeps, SaveFailsKeeps, ApplyFailsKeeps DEF ProcessReady

\* A crash between two events keeps the invariant.
LEMMA CrashKeeps ==
    ASSUME IInv, NEW i \in Node, Crash(i)
    PROVE  IInv'
<1>1. /\ disk' = disk /\ ballots' = ballots /\ led' = led /\ chosen' = chosen
      /\ msgs' \subseteq msgs /\ Stop(i)
    BY DEF Crash, Deliverable
<1>2. /\ disk' \in [Node -> Stored] /\ ballots' \subseteq Node \X Nat \X Node
      /\ chosen' \in Seq(Entry)
    BY <1>1 DEF IInv, TypeOK
<1>3. OneBallotPerTerm' /\ BallotsKept'
    BY <1>1 DEF IInv, ElectionInv, OneBallotPerTerm, BallotsKept
<1>4. /\ msgs' \subseteq Message /\ led' \subseteq Nat \X Node
      /\ \A l \in led' : Elected(l[1], l[2])'
      /\ \A m \in msgs' : m.type = "RequestVoteResp" /\ m.granted
                            => <<m.from, m.term, m.to>> \in ballots'
    BY <1>1, SilentKeepsVotes
<1>. QED BY <1>1, <1>2, <1>3, <1>4, StopKeeps

\* A recovery keeps the invariant.
LEMMA RestartKeeps ==
    ASSUME IInv, NEW i \in Node, Restart(i)
    PROVE  IInv'
<1>. DEFINE d == disk[i]
            a == NewNode(d)
<1>1. /\ disk' = disk /\ ballots' = ballots /\ led' = led /\ chosen' = chosen
      /\ msgs' = msgs /\ applied' = applied /\ failures' = failures
      /\ up' = [up EXCEPT ![i] = TRUE] /\ node' = [node EXCEPT ![i] = a]
    BY DEF Restart
<1>2. /\ disk' \in [Node -> Stored] /\ ballots' \subseteq Node \X Nat \X Node
      /\ chosen' \in Seq(Entry) /\ applied' \in [Node -> Seq(Entry)]
      /\ failures' \in 0..MaxFail /\ up' \in [Node -> BOOLEAN] /\ d \in Stored
    BY <1>1 DEF IInv, TypeOK
<1>3. OneBallotPerTerm' /\ BallotsKept'
    BY <1>1 DEF IInv, ElectionInv, OneBallotPerTerm, BallotsKept
<1>4. /\ msgs' \subseteq Message /\ led' \subseteq Nat \X Node
      /\ \A l \in led' : Elected(l[1], l[2])'
      /\ \A m \in msgs' : m.type = "RequestVoteResp" /\ m.granted
                            => <<m.from, m.term, m.to>> \in ballots'
    BY <1>1, SilentKeepsVotes
<1>5. disk'[i] = d /\ \A j \in Node \ {i} : disk'[j] = disk[j] BY <1>1
<1>. HIDE DEF d
<1>6. /\ a \in NodeState /\ InflightOK(a) /\ a.out = {} /\ ~ a.dirty
      /\ a.term = d.term /\ a.votedFor = d.votedFor /\ a.log = d.log
      /\ a.unstable = Len(a.log) + 1 /\ a.role = Follower
    BY <1>2, NewNodeSettled
<1>. HIDE DEF a
<1>7. Supported(i, a, ballots') BY <1>6 DEF Supported, Follower, Candidate, Leader
<1>8. d = [term |-> a.term, votedFor |-> a.votedFor, log |-> a.log] BY <1>2, <1>6 DEF Stored
<1>. QED BY <1>1, <1>2, <1>3, <1>4, <1>5, <1>6, <1>7, <1>8, NodeStepKeeps

-----------------------------------------------------------------------------
\* The events of a host

\* An event that leaves the memory fit for the votes there are leaves it fit for
\* those there will be.
LEMMA WorkingIsHandled ==
    ASSUME NEW i \in Node, NEW r, disk[i] \in Stored, Working(i, r, disk[i], ballots)
    PROVE  Handled(i, r)
<1>. DEFINE B == With(ballots, i, r)
            d == disk[i]
<1>1. ballots \subseteq B BY DEF With
<1>2. d \in Stored /\ Working(i, r, d, ballots) OBVIOUS
<1>. HIDE DEF B, d
<1>3. Working(i, r, d, B) BY <1>1, <1>2, WorkingMonotone
<1>. QED BY <1>2, <1>3 DEF Handled, B, d

\* Every step keeps the invariant.
LEMMA NextKeeps ==
    ASSUME IInv, Next
    PROVE  IInv'
<1>1. PICK i \in Node :
        \/ ElectionTick(i)
        \/ HeartbeatTick(i)
        \/ \E m \in msgs : Deliver(i, m)
        \/ \E cmd \in Command : ClientPropose(i, cmd)
        \/ Crash(i)
        \/ Restart(i)
    BY DEF Next
<1>. DEFINE n == node[i]
            d == disk[i]
<1>2. Working(i, n, d, ballots) /\ n.out = {} /\ d \in Stored BY IdleWorks
<1>3. CASE ElectionTick(i)
    <2>. DEFINE r == StartElection(i, n)
                B == ballots \cup {<<i, n.term + 1, i>>}
    <2>1. n.role # Leader /\ ProcessReady(i, r) BY <1>3 DEF ElectionTick
    <2>. HIDE DEF n, d
    <2>2. /\ Working(i, r, d, B)
          /\ r.term = n.term + 1 /\ r.votedFor = i
        BY <1>2, <2>1, StartElectionWorks
    <2>. HIDE DEF r
    <2>3. With(ballots, i, r) = B BY <2>2, NilAssumption DEF With
    <2>4. Handled(i, r) BY <1>2, <2>2, <2>3 DEF Handled, d
    <2>. QED BY <2>1, <2>4, ProcessReadyKeeps
<1>4. CASE HeartbeatTick(i)
    <2>. DEFINE r == SendHeartbeats(i, n)
    <2>1. n.role = Leader /\ ProcessReady(i, r) BY <1>4 DEF HeartbeatTick
    <2>. HIDE DEF n, d
    <2>2. Working(i, r, d, ballots) BY <1>2, <2>1, SendHeartbeatsWorks
    <2>. HIDE DEF r
    <2>3. Handled(i, r) BY <1>2, <2>2, WorkingIsHandled DEF d
    <2>. QED BY <2>1, <2>3, ProcessReadyKeeps
<1>5. ASSUME NEW m \in msgs, Deliver(i, m) PROVE IInv'
    <2>. DEFINE r == Step(i, n, m)
    <2>1. m.to = i /\ ProcessReady(i, r) BY <1>5 DEF Deliver
    <2>2. m \in Message BY DEF IInv, TypeOK
    <2>3. m.type = "RequestVoteResp" /\ m.granted => <<m.from, m.term, i>> \in ballots
        BY <2>1 DEF IInv, ElectionInv, VotesDurable
    <2>. HIDE DEF n, d
    <2>4. Working(i, r, d, ballots) BY <1>2, <2>2, <2>3, StepWorks
    <2>. HIDE DEF r
    <2>5. Handled(i, r) BY <1>2, <2>4, WorkingIsHandled DEF d
    <2>. QED BY <2>1, <2>5, ProcessReadyKeeps
<1>6. ASSUME NEW cmd \in Command, ClientPropose(i, cmd) PROVE IInv'
    <2>. DEFINE r == Propose(i, n, cmd)
    <2>1. n.role = Leader /\ ProcessReady(i, r) BY <1>6 DEF ClientPropose
    <2>. HIDE DEF n, d
    <2>2. Working(i, r, d, ballots) BY <1>2, <2>1, ProposeWorks
    <2>. HIDE DEF r
    <2>3. Handled(i, r) BY <1>2, <2>2, WorkingIsHandled DEF d
    <2>. QED BY <2>1, <2>3, ProcessReadyKeeps
<1>7. CASE Crash(i) BY <1>7, CrashKeeps
<1>8. CASE Restart(i) BY <1>8, RestartKeeps
<1>. QED BY <1>1, <1>3, <1>4, <1>5, <1>6, <1>7, <1>8

\* A step that changes nothing keeps the invariant.
LEMMA StutterKeeps ==
    ASSUME IInv, UNCHANGED vars
    PROVE  IInv'
<1>1. TypeOK' BY DEF IInv, TypeOK, vars
<1>2. StorageCurrent' BY DEF IInv, StorageCurrent, vars
<1>3. Quiet' BY DEF IInv, Quiet, InflightOK, vars
<1>4. ElectionInv'
    BY DEF IInv, ElectionInv, OneBallotPerTerm, LeadersElected, Elected, VotesDurable,
           BallotsKept, vars
<1>. QED BY <1>1, <1>2, <1>3, <1>4 DEF IInv

\* The invariant holds in the initial state.
LEMMA InitKeeps ==
    ASSUME Init
    PROVE  IInv
<1>. DEFINE a == NewNode(EmptyStore)
<1>1. EmptyStore \in Stored
    <2>1. 0 \in Nat /\ << >> \in Seq(Entry) OBVIOUS
    <2>. QED BY <2>1 DEF EmptyStore, Stored
<1>2. /\ a \in NodeState /\ InflightOK(a) /\ a.out = {} /\ ~ a.dirty
      /\ a.term = EmptyStore.term /\ a.votedFor = EmptyStore.votedFor
      /\ a.log = EmptyStore.log
      /\ a.unstable = Len(a.log) + 1 /\ a.role = Follower
    BY <1>1, NewNodeSettled
<1>3. \A i \in Node : node[i] = a /\ disk[i] = EmptyStore BY DEF Init
<1>4. node \in [Node -> NodeState] /\ disk \in [Node -> Stored] BY <1>1, <1>2 DEF Init
<1>. HIDE DEF a
<1>5. TypeOK
    <2>1. << >> \in Seq(Entry) /\ 0 \in 0..MaxFail BY BoundAssumption
    <2>2. /\ up \in [Node -> BOOLEAN] /\ applied \in [Node -> Seq(Entry)]
          /\ chosen \in Seq(Entry) /\ failures \in 0..MaxFail
          /\ msgs = {} /\ led = {} /\ ballots = {}
        BY <2>1 DEF Init
    <2>. QED BY <1>4, <2>2 DEF TypeOK
<1>6. StorageCurrent
    <2>1. EmptyStore = [term |-> a.term, votedFor |-> a.votedFor, log |-> a.log]
        BY <1>1, <1>2 DEF Stored
    <2>. QED BY <1>2, <1>3, <2>1 DEF StorageCurrent
<1>7. Quiet BY <1>2, <1>3 DEF Quiet
<1>8. ElectionInv
    <2>1. msgs = {} /\ led = {} /\ ballots = {} BY DEF Init
    <2>2. \A i \in Node : node[i].role = Follower BY <1>2, <1>3
    <2>3. OneBallotPerTerm /\ BallotsKept BY <2>1 DEF OneBallotPerTerm, BallotsKept
    <2>4. LeadersElected BY <2>1, <2>2 DEF LeadersElected, Follower, Leader
    <2>5. VotesDurable BY <2>1, <2>2 DEF VotesDurable, Follower, Candidate
    <2>. QED BY <2>3, <2>4, <2>5 DEF ElectionInv
<1>. QED BY <1>5, <1>6, <1>7, <1>8 DEF IInv

-----------------------------------------------------------------------------
\* Theorems

\* The inductive invariant holds of every reachable state.
THEOREM Inductive == Spec => []IInv
<1>1. Init => IInv BY InitKeeps
<1>2. IInv /\ [Next]_vars => IInv' BY NextKeeps, StutterKeeps
<1>. QED BY <1>1, <1>2, PTL DEF Spec

\* NewNode, every handler, every torn or completed Save and every recovery leave
\* each piece of state with its type.
THEOREM TypeCorrect == Spec => []TypeOK
<1>1. IInv => TypeOK BY DEF IInv
<1>. QED BY <1>1, Inductive, PTL

\* After each event the storage holds the very term, vote and log of the node's
\* memory: hardStateDirty and unstableIndex never miss a change.
THEOREM StorageAlwaysCurrent == Spec => []StorageCurrent
<1>1. IInv => StorageCurrent BY DEF IInv
<1>. QED BY <1>1, Inductive, PTL

\* A node makes one vote durable per term, keeps it until a later term, sends and
\* counts only durable votes, and leads only with a majority of them, through any
\* crash before, in and after Save.
THEOREM ElectionsSound == Spec => []ElectionInv
<1>1. IInv => ElectionInv BY DEF IInv
<1>. QED BY <1>1, Inductive, PTL

\* No two nodes ever send AppendEntries for the same term.
THEOREM ElectionSafety == Spec => []SingleLeaderPerTerm
<1>1. ElectionInv => SingleLeaderPerTerm
    <2>. SUFFICES ASSUME ElectionInv, NEW a \in led, NEW b \in led, a[1] = b[1]
                  PROVE  a[2] = b[2]
        BY DEF SingleLeaderPerTerm
    <2>. DEFINE S == {v \in Node : <<v, a[1], a[2]>> \in ballots}
                T == {v \in Node : <<v, b[1], b[2]>> \in ballots}
    <2>1. Majority(S) /\ Majority(T) BY DEF ElectionInv, LeadersElected, Elected
    <2>2. S \in SUBSET Node /\ T \in SUBSET Node OBVIOUS
    <2>3. S \cap T # {} BY <2>1, <2>2, MajoritiesIntersect
    <2>4. PICK v \in Node : <<v, a[1], a[2]>> \in ballots /\ <<v, b[1], b[2]>> \in ballots
        BY <2>3
    <2>. QED BY <2>4 DEF ElectionInv, OneBallotPerTerm
<1>. QED BY <1>1, ElectionsSound, PTL
=============================================================================
