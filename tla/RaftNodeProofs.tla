--------------------------- MODULE RaftNodeProofs ---------------------------
(***************************************************************************)
(* What the handlers of one Raft node preserve, for any set of peers.      *)
(***************************************************************************)
EXTENDS RaftNode, FiniteSetTheorems, SequenceTheorems, WellFoundedInduction, TLAPS

-----------------------------------------------------------------------------
\* Minima and maxima

\* Every non-empty set of natural numbers has a least element.
LEMMA LeastElement ==
    ASSUME NEW S, S \subseteq Nat, S # {}
    PROVE  \E x \in S : \A y \in S : x <= y
<1>1. \E x \in S : \A y \in S : ~ (<<y, x>> \in OpToRel(<, Nat))
    BY NatLessThanWellFounded, WFMin
<1>2. PICK x \in S : \A y \in S : ~ (<<y, x>> \in OpToRel(<, Nat))
    BY <1>1
<1>3. ASSUME NEW y \in S PROVE x <= y
    <2>1. ~ (<<y, x>> \in OpToRel(<, Nat)) BY <1>2
    <2>2. x \in Nat /\ y \in Nat OBVIOUS
    <2>3. ~ (y < x) BY <2>1, <2>2 DEF OpToRel
    <2>. QED BY <2>2, <2>3
<1>. QED BY <1>3

\* The least index appendFromLeader finds in conflict is one of those it looked at.
LEMMA MinOfNats ==
    ASSUME NEW S, S \subseteq Nat, S # {}
    PROVE  Min(S) \in S /\ \A y \in S : Min(S) <= y
BY LeastElement DEF Min

\* The last index advanceCommit may commit is one of those it looked at.
LEMMA MaxOfInterval ==
    ASSUME NEW a \in Nat, NEW b \in Nat, NEW S, S \subseteq a..b, S # {}
    PROVE  Max(S) \in S /\ \A y \in S : y <= Max(S)
<1>. DEFINE T == {k \in Nat : b - k \in S}
<1>1. T \subseteq Nat /\ T # {}
    <2>1. PICK s \in S : TRUE OBVIOUS
    <2>2. b - s \in Nat /\ b - (b - s) = s BY <2>1
    <2>. QED BY <2>1, <2>2
<1>2. PICK x \in T : \A y \in T : x <= y BY <1>1, LeastElement
<1>3. b - x \in S OBVIOUS
<1>4. ASSUME NEW y \in S PROVE (b - x) >= y
    <2>1. y \in Nat /\ b - y \in Nat /\ b - (b - y) = y OBVIOUS
    <2>2. b - y \in T BY <2>1
    <2>3. x <= b - y BY <1>2, <2>2
    <2>. QED BY <2>1, <2>3
<1>5. \E z \in S : \A y \in S : z >= y BY <1>3, <1>4
<1>6. Max(S) \in S /\ \A y \in S : Max(S) >= y BY <1>5 DEF Max
<1>. QED BY <1>6

\* The minimum of two indices, which the code takes when it clamps one.
LEMMA MinPair ==
    ASSUME NEW a \in Nat, NEW b \in Nat
    PROVE  Min({a, b}) = IF a <= b THEN a ELSE b
<1>1. Min({a, b}) \in {a, b} /\ \A y \in {a, b} : Min({a, b}) <= y
    BY MinOfNats
<1>. QED BY <1>1

\* The maximum of two indices.
LEMMA MaxPair ==
    ASSUME NEW a \in Nat, NEW b \in Nat
    PROVE  Max({a, b}) = IF a >= b THEN a ELSE b
<1>1. \E x \in {a, b} : \A y \in {a, b} : x >= y OBVIOUS
<1>2. Max({a, b}) \in {a, b} /\ \A y \in {a, b} : Max({a, b}) >= y
    BY <1>1 DEF Max
<1>. QED BY <1>2

-----------------------------------------------------------------------------
\* Types

\* What a message of each kind carries.
LEMMA MessageFields ==
    ASSUME NEW m \in Message
    PROVE  /\ m.type \in {"RequestVote", "RequestVoteResp", "AppendEntries", "AppendEntriesResp"}
           /\ m.from \in Node /\ m.to \in Node /\ m.term \in Nat
           /\ m.type = "RequestVoteResp" => m.granted \in BOOLEAN
           /\ m.type = "AppendEntries" =>
                /\ m.prevLogIndex \in Nat /\ m.prevLogTerm \in Nat
                /\ m.entries \in Seq(Entry) /\ m.leaderCommit \in Nat
           /\ m.type = "AppendEntriesResp" => m.success \in BOOLEAN /\ m.matchIndex \in Nat
BY DEF Message

\* A set of peers that contains a majority is one.
LEMMA MajorityMonotone ==
    ASSUME NEW S \in SUBSET Node, NEW T \in SUBSET Node, S \subseteq T, Majority(S)
    PROVE  Majority(T)
<1>1. IsFiniteSet(Node) BY NodeAssumption
<1>2. IsFiniteSet(T) /\ IsFiniteSet(S) BY <1>1, FS_Subset
<1>3. Cardinality(S) <= Cardinality(T) BY <1>2, FS_Subset
<1>4. Cardinality(S) \in Nat /\ Cardinality(T) \in Nat /\ Cardinality(Node) \in Nat
    BY <1>1, <1>2, FS_CardinalityType
<1>. QED BY <1>3, <1>4 DEF Majority

\* Two majorities have a peer in common.
LEMMA MajoritiesIntersect ==
    ASSUME NEW S \in SUBSET Node, NEW T \in SUBSET Node, Majority(S), Majority(T)
    PROVE  S \cap T # {}
<1>1. IsFiniteSet(Node) /\ Cardinality(Node) \in Nat
    BY NodeAssumption, FS_CardinalityType
<1>2. Cardinality(S) \in Nat /\ Cardinality(T) \in Nat
    BY <1>1, FS_Subset, FS_CardinalityType
<1>3. Cardinality(S) + Cardinality(T) > Cardinality(Node)
    BY <1>1, <1>2 DEF Majority
<1>. QED BY <1>1, <1>3, FS_MajoritiesIntersect

-----------------------------------------------------------------------------
\* A node in the middle of an event: n is its memory, d what its storage holds,
\* B the durable votes of all nodes.

\* Only a leader has requests in flight, and they lie within its log.
InflightOK(n) ==
    /\ n.role # Leader => n.inflight = NoInflight
    /\ \A p \in Node : n.inflight[p] # Nil =>
            /\ n.inflight[p].prevIndex <= n.inflight[p].lastIndex
            /\ n.inflight[p].lastIndex <= Len(n.log)

\* The log differs from the stored one at unstable or above, if anywhere: when
\* there is nothing to persist they are the same.
LogOver(n, d) ==
    /\ n.unstable <= Len(n.log) + 1
    /\ n.unstable <= Len(d.log) + 1
    /\ n.unstable = Len(n.log) + 1 => Len(n.log) = Len(d.log)
    /\ \A k \in 1..(n.unstable - 1) : n.log[k] = d.log[k]

\* The hard state is not older than the stored one, and marked when it differs.
VoteOver(n, d) ==
    /\ n.term >= d.term
    /\ n.term = d.term /\ d.votedFor # Nil => n.votedFor = d.votedFor
    /\ ~ n.dirty => n.term = d.term /\ n.votedFor = d.votedFor

\* A granted vote is the node's vote, and requests are those of a leader.
OutOK(i, n) ==
    \A m \in n.out :
        /\ m.type = "RequestVoteResp" /\ m.granted
            => m.from = i /\ m.term = n.term /\ m.to = n.votedFor
        /\ m.type = "AppendEntries"
            => m.from = i /\ m.term = n.term /\ n.role = Leader

\* The votes a candidate counts, and those that made a leader, are in B.
Supported(i, n, B) ==
    /\ n.role = Candidate => \A v \in n.votes : <<v, n.term, i>> \in B
    /\ n.role = Leader => Majority({v \in Node : <<v, n.term, i>> \in B})

Working(i, n, d, B) ==
    /\ n \in NodeState
    /\ InflightOK(n)
    /\ LogOver(n, d)
    /\ VoteOver(n, d)
    /\ OutOK(i, n)
    /\ Supported(i, n, B)

\* The term and the vote stay.
SameVote(r, n) == r.term = n.term /\ r.votedFor = n.votedFor

\* Stepping down for a later term (becomeFollower) before anything is sent.
LEMMA BecomeFollowerWorks ==
    ASSUME NEW i \in Node, NEW n, NEW d \in Stored, NEW B, Working(i, n, d, B), n.out = {}, NEW t \in Nat, t > n.term
    PROVE  /\ Working(i, BecomeFollower(n, t), d, B)
           /\ BecomeFollower(n, t).out = {}
           /\ BecomeFollower(n, t).term = t
           /\ BecomeFollower(n, t).role = Follower
<1>. DEFINE r == BecomeFollower(n, t)
<1>1. n \in NodeState BY DEF Working
<1>2. r \in NodeState BY <1>1 DEF BecomeFollower, NodeState, NoIndex, NoInflight, Follower
<1>3. InflightOK(r) BY <1>1 DEF InflightOK, BecomeFollower, NodeState, NoInflight
<1>4. LogOver(r, d) BY <1>1 DEF Working, LogOver, BecomeFollower, NodeState
<1>5. VoteOver(r, d) BY <1>1 DEF Working, VoteOver, BecomeFollower, NodeState, Stored
<1>6. r.out = {} /\ r.term = t /\ r.role = Follower
    BY <1>1 DEF BecomeFollower, NodeState
<1>7. OutOK(i, r) BY <1>6 DEF OutOK
<1>8. Supported(i, r, B) BY <1>6 DEF Supported, Follower, Candidate, Leader
<1>. QED BY <1>2, <1>3, <1>4, <1>5, <1>6, <1>7, <1>8 DEF Working

\* Stepping down within the term (becomeFollowerSameTerm) before anything is sent.
LEMMA BecomeFollowerSameTermWorks ==
    ASSUME NEW i \in Node, NEW n, NEW d \in Stored, NEW B,
           Working(i, n, d, B), n.out = {}
    PROVE  /\ Working(i, BecomeFollowerSameTerm(n), d, B)
           /\ BecomeFollowerSameTerm(n).out = {}
           /\ BecomeFollowerSameTerm(n).role = Follower
<1>. DEFINE r == BecomeFollowerSameTerm(n)
<1>1. n \in NodeState BY DEF Working
<1>2. r \in NodeState
    BY <1>1 DEF BecomeFollowerSameTerm, NodeState, NoIndex, NoInflight, Follower
<1>3. InflightOK(r) BY <1>1 DEF InflightOK, BecomeFollowerSameTerm, NodeState, NoInflight
<1>4. LogOver(r, d) BY <1>1 DEF Working, LogOver, BecomeFollowerSameTerm, NodeState
<1>5. VoteOver(r, d) BY <1>1 DEF Working, VoteOver, BecomeFollowerSameTerm, NodeState
<1>6. r.out = {} /\ r.role = Follower
    BY <1>1 DEF BecomeFollowerSameTerm, NodeState
<1>7. OutOK(i, r) BY <1>6 DEF OutOK
<1>8. Supported(i, r, B) BY <1>6 DEF Supported, Follower, Candidate, Leader
<1>. QED BY <1>2, <1>3, <1>4, <1>5, <1>6, <1>7, <1>8 DEF Working

\* The request sendAppend sends to p lies within the log.
LEMMA PendingWithinLog ==
    ASSUME NEW n \in NodeState, InflightOK(n), NEW p \in Node, NEW probe \in BOOLEAN
    PROVE  /\ Pending(n, p, probe) \in Inflight
           /\ Pending(n, p, probe).prevIndex <= Pending(n, p, probe).lastIndex
           /\ Pending(n, p, probe).lastIndex <= Len(n.log)
<1>. DEFINE last == Len(n.log)
            first == Max({n.nextIndex[p], 1})
            next == Min({first, last + 1})
<1>1. n.log \in Seq(Entry) /\ n.nextIndex[p] \in Nat /\ n.commitIndex \in Nat
      /\ n.inflight[p] \in Inflight \cup {Nil}
    BY DEF NodeState
<1>2. CASE n.inflight[p] # Nil
    BY <1>1, <1>2 DEF Pending, InflightOK
<1>3. CASE n.inflight[p] = Nil
    <2>1. last \in Nat BY <1>1
    <2>2. first \in Nat /\ first >= 1 BY <1>1, MaxPair
    <2>3. next \in 1..(last + 1)
        <3>. HIDE DEF first, last
        <3>1. next = IF first <= last + 1 THEN first ELSE last + 1
            BY <2>1, <2>2, MinPair
        <3>. QED BY <2>1, <2>2, <3>1
    <2>4. TermAt(n.log, next - 1) \in Nat
        <3>. HIDE DEF next
        <3>1. next - 1 # 0 => n.log[next - 1] \in Entry BY <1>1, <2>3
        <3>. QED BY <3>1 DEF TermAt, Entry
    <2>5. Pending(n, p, probe) =
            [prevIndex |-> next - 1, prevTerm |-> TermAt(n.log, next - 1),
             lastIndex |-> IF probe THEN next - 1 ELSE last,
             leaderCommit |-> n.commitIndex]
        BY <1>3 DEF Pending
    <2>. HIDE DEF next
    <2>. QED BY <1>1, <2>1, <2>3, <2>4, <2>5 DEF Inflight
<1>. QED BY <1>2, <1>3

\* A leader's requests to any peers (sendAppend).
LEMMA SendAppendWorks ==
    ASSUME NEW i \in Node, NEW n, NEW d \in Stored, NEW B, Working(i, n, d, B),
           n.role = Leader, NEW S \in SUBSET Node, NEW probe \in BOOLEAN
    PROVE  /\ Working(i, SendAppend(i, n, S, probe), d, B)
           /\ SameVote(SendAppend(i, n, S, probe), n)
<1>. DEFINE r == SendAppend(i, n, S, probe)
            P(p) == Pending(n, p, probe)
            E(p) == EmitAppend(i, n, p, P(p))
<1>1. n \in NodeState /\ InflightOK(n) BY DEF Working
<1>2. ASSUME NEW p \in Node
      PROVE  P(p) \in Inflight /\ P(p).prevIndex <= P(p).lastIndex /\ P(p).lastIndex <= Len(n.log)
    BY <1>1, PendingWithinLog
<1>3. ASSUME NEW p \in Node
      PROVE  E(p) \in Message /\ E(p).type = "AppendEntries" /\ E(p).from = i /\ E(p).term = n.term
    <2>1. n.log \in Seq(Entry) /\ n.term \in Nat BY <1>1 DEF NodeState
    <2>2. P(p).prevIndex \in Nat /\ P(p).lastIndex \in Nat /\ P(p).prevTerm \in Nat
          /\ P(p).leaderCommit \in Nat
        BY <1>2 DEF Inflight
    <2>3. \A k \in (P(p).prevIndex + 1)..P(p).lastIndex : n.log[k] \in Entry
        BY <1>2, <2>1, <2>2
    <2>4. SubSeq(n.log, P(p).prevIndex + 1, P(p).lastIndex) \in Seq(Entry)
        BY <2>2, <2>3, SubSeqProperties
    <2>. HIDE DEF P
    <2>. QED BY <2>1, <2>2, <2>4 DEF EmitAppend, Message
<1>. HIDE DEF P, E
<1>4. r = [n EXCEPT
            !.nextIndex = [p \in Node |-> IF p \in S /\ n.inflight[p] = Nil
                                          THEN P(p).prevIndex + 1 ELSE n.nextIndex[p]],
            !.inflight = [p \in Node |-> IF p \in S THEN P(p) ELSE n.inflight[p]],
            !.out = @ \cup {E(p) : p \in S}]
    BY DEF SendAppend, P, E
<1>. HIDE DEF r
<1>5. /\ r.nextIndex = [p \in Node |-> IF p \in S /\ n.inflight[p] = Nil
                                       THEN P(p).prevIndex + 1 ELSE n.nextIndex[p]]
      /\ r.inflight = [p \in Node |-> IF p \in S THEN P(p) ELSE n.inflight[p]]
      /\ r.out = n.out \cup {E(p) : p \in S}
      /\ r.term = n.term /\ r.votedFor = n.votedFor /\ r.dirty = n.dirty
      /\ r.role = n.role /\ r.votes = n.votes /\ r.log = n.log /\ r.unstable = n.unstable
    BY <1>1, <1>4 DEF NodeState
<1>6. r \in NodeState
    <2>1. r.nextIndex \in [Node -> Nat]
        <3>1. n.nextIndex \in [Node -> Nat] BY <1>1 DEF NodeState
        <3>2. \A p \in Node : P(p).prevIndex + 1 \in Nat BY <1>2 DEF Inflight
        <3>. QED BY <1>5, <3>1, <3>2
    <2>2. r.inflight \in [Node -> Inflight \cup {Nil}] BY <1>1, <1>2, <1>5 DEF NodeState
    <2>3. r.out \subseteq Message BY <1>1, <1>3, <1>5 DEF NodeState
    <2>. QED BY <1>1, <1>4, <2>1, <2>2, <2>3 DEF NodeState
<1>7. InflightOK(r) BY <1>1, <1>2, <1>5 DEF InflightOK
<1>8. LogOver(r, d) /\ VoteOver(r, d) BY <1>5 DEF Working, LogOver, VoteOver
<1>9. OutOK(i, r) BY <1>3, <1>5 DEF Working, OutOK
<1>10. Supported(i, r, B) BY <1>5 DEF Working, Supported
<1>. QED BY <1>5, <1>6, <1>7, <1>8, <1>9, <1>10 DEF Working, SameVote, r

\* advanceCommit moves commitIndex only, and to an index of the log.
LEMMA AdvanceCommitWorks ==
    ASSUME NEW i \in Node, NEW n, NEW d \in Stored, NEW B, Working(i, n, d, B)
    PROVE  /\ Working(i, AdvanceCommit(n), d, B)
           /\ AdvanceCommit(n).role = n.role
           /\ AdvanceCommit(n).inflight = n.inflight
           /\ SameVote(AdvanceCommit(n), n)
<1>. DEFINE r == AdvanceCommit(n)
<1>1. n \in NodeState BY DEF Working
<1>2. CASE n.role # Leader \/ Committable(n) = {}
    BY <1>2 DEF AdvanceCommit, SameVote
<1>3. CASE ~ (n.role # Leader \/ Committable(n) = {})
    <2>1. Committable(n) \subseteq (n.commitIndex + 1)..Len(n.log) BY DEF Committable
    <2>2. n.commitIndex + 1 \in Nat /\ Len(n.log) \in Nat BY <1>1 DEF NodeState
    <2>3. Max(Committable(n)) \in Nat BY <1>3, <2>1, <2>2, MaxOfInterval
    <2>4. r = [n EXCEPT !.commitIndex = Max(Committable(n))] BY <1>3 DEF AdvanceCommit
    <2>. HIDE DEF r
    <2>5. r \in NodeState BY <1>1, <2>3, <2>4 DEF NodeState
    <2>6. /\ r.inflight = n.inflight /\ r.out = n.out
          /\ r.term = n.term /\ r.votedFor = n.votedFor /\ r.dirty = n.dirty
          /\ r.role = n.role /\ r.votes = n.votes /\ r.log = n.log /\ r.unstable = n.unstable
        BY <1>1, <2>4 DEF NodeState
    <2>7. InflightOK(r) /\ LogOver(r, d) /\ VoteOver(r, d)
        BY <2>6 DEF Working, InflightOK, LogOver, VoteOver
    <2>8. OutOK(i, r) /\ Supported(i, r, B) BY <2>6 DEF Working, OutOK, Supported
    <2>. QED BY <2>5, <2>6, <2>7, <2>8 DEF Working, SameVote, r
<1>. QED BY <1>2, <1>3

\* A leader's own entry (appendLocal) lies at or above unstable.
LEMMA AppendLocalWorks ==
    ASSUME NEW i \in Node, NEW n, NEW d \in Stored, NEW B, Working(i, n, d, B),
           n.role = Leader, NEW cmd \in Command \cup {Noop}
    PROVE  /\ Working(i, AppendLocal(i, n, cmd), d, B)
           /\ AppendLocal(i, n, cmd).role = Leader
           /\ AppendLocal(i, n, cmd).inflight = n.inflight
           /\ SameVote(AppendLocal(i, n, cmd), n)
<1>. DEFINE r == AppendLocal(i, n, cmd)
            e == [term |-> n.term, cmd |-> cmd]
            index == Len(n.log) + 1
<1>1. n \in NodeState /\ LogOver(n, d) BY DEF Working
<1>2. n.log \in Seq(Entry) /\ n.unstable \in Nat \ {0} /\ n.term \in Nat
    BY <1>1 DEF NodeState
<1>3. e \in Entry BY <1>2 DEF Entry
<1>4. index \in Nat \ {0} BY <1>2
<1>5. ~ (index < n.unstable) BY <1>1, <1>2 DEF LogOver
<1>. HIDE DEF e
<1>6. /\ Append(n.log, e) \in Seq(Entry)
      /\ Len(Append(n.log, e)) = Len(n.log) + 1
      /\ \A k \in 1..Len(n.log) : Append(n.log, e)[k] = n.log[k]
    BY <1>2, <1>3, AppendProperties
<1>7. r = [n EXCEPT !.log = Append(n.log, e),
                    !.unstable = n.unstable,
                    !.matchIndex = [n.matchIndex EXCEPT ![i] = index],
                    !.nextIndex = [n.nextIndex EXCEPT ![i] = index + 1]]
    BY <1>1, <1>5 DEF AppendLocal, NodeState, e
<1>. HIDE DEF r, index
<1>8. r \in NodeState
    <2>1. [n.matchIndex EXCEPT ![i] = index] \in [Node -> Nat] BY <1>1, <1>4 DEF NodeState
    <2>2. [n.nextIndex EXCEPT ![i] = index + 1] \in [Node -> Nat] BY <1>1, <1>4 DEF NodeState
    <2>. QED BY <1>1, <1>6, <1>7, <2>1, <2>2 DEF NodeState
<1>9. /\ r.inflight = n.inflight /\ r.out = n.out
      /\ r.term = n.term /\ r.votedFor = n.votedFor /\ r.dirty = n.dirty
      /\ r.role = n.role /\ r.votes = n.votes /\ r.unstable = n.unstable
      /\ r.log = Append(n.log, e)
    BY <1>1, <1>7 DEF NodeState
<1>10. InflightOK(r)
    <2>1. n.inflight \in [Node -> Inflight \cup {Nil}] BY <1>1 DEF NodeState
    <2>2. \A p \in Node : n.inflight[p] # Nil => n.inflight[p].lastIndex \in Nat
        BY <2>1 DEF Inflight
    <2>. QED BY <1>2, <1>6, <1>9, <2>2 DEF Working, InflightOK
<1>11. LogOver(r, d) BY <1>1, <1>2, <1>6, <1>9 DEF LogOver
<1>12. VoteOver(r, d) BY <1>9 DEF Working, VoteOver
<1>13. OutOK(i, r) /\ Supported(i, r, B) BY <1>9 DEF Working, OutOK, Supported
<1>. QED BY <1>8, <1>9, <1>10, <1>11, <1>12, <1>13 DEF Working, SameVote, r

\* A candidate with the votes of a majority (becomeLeader), before anything is sent.
LEMMA BecomeLeaderWorks ==
    ASSUME NEW i \in Node, NEW n, NEW d \in Stored, NEW B, Working(i, n, d, B),
           n.role = Candidate, n.out = {}, Majority(n.votes)
    PROVE  Working(i, BecomeLeader(i, n), d, B) /\ SameVote(BecomeLeader(i, n), n)
<1>. DEFINE l == [n EXCEPT !.role = Leader, !.votes = {},
                           !.nextIndex = [p \in Node |-> Len(n.log) + 1],
                           !.matchIndex = NoIndex, !.inflight = NoInflight]
            a == AppendLocal(i, l, Noop)
            c == AdvanceCommit(a)
<1>1. n \in NodeState BY DEF Working
<1>2. l \in NodeState
    <2>1. [p \in Node |-> Len(n.log) + 1] \in [Node -> Nat] BY <1>1 DEF NodeState
    <2>. QED BY <1>1, <2>1 DEF NodeState, NoIndex, NoInflight, Leader
<1>3. /\ l.role = Leader /\ l.inflight = NoInflight /\ l.out = {} /\ l.votes = {}
      /\ l.term = n.term /\ l.votedFor = n.votedFor /\ l.dirty = n.dirty
      /\ l.log = n.log /\ l.unstable = n.unstable
    BY <1>1 DEF NodeState
<1>. HIDE DEF l
<1>4. InflightOK(l) BY <1>3 DEF InflightOK, NoInflight
<1>5. LogOver(l, d) /\ VoteOver(l, d) BY <1>3 DEF Working, LogOver, VoteOver
<1>6. OutOK(i, l) BY <1>3 DEF OutOK
<1>7. Supported(i, l, B)
    <2>1. n.votes \in SUBSET Node BY <1>1 DEF NodeState
    <2>2. n.votes \subseteq {v \in Node : <<v, n.term, i>> \in B}
        BY <2>1 DEF Working, Supported
    <2>3. Majority({v \in Node : <<v, n.term, i>> \in B})
        BY <2>1, <2>2, MajorityMonotone
    <2>. QED BY <1>3, <2>3 DEF Supported, Candidate, Leader
<1>8. Working(i, l, d, B) BY <1>2, <1>4, <1>5, <1>6, <1>7 DEF Working
<1>9. Working(i, a, d, B) /\ a.role = Leader /\ SameVote(a, l) BY <1>3, <1>8, AppendLocalWorks
<1>. HIDE DEF a
<1>10. Working(i, c, d, B) /\ c.role = Leader /\ SameVote(c, a) BY <1>9, AdvanceCommitWorks
<1>. HIDE DEF c
<1>11. /\ Working(i, SendAppend(i, c, Node \ {i}, TRUE), d, B)
       /\ SameVote(SendAppend(i, c, Node \ {i}, TRUE), c)
    BY <1>10, SendAppendWorks
<1>12. SameVote(SendAppend(i, c, Node \ {i}, TRUE), n)
    BY <1>3, <1>9, <1>10, <1>11 DEF SameVote
<1>. QED BY <1>11, <1>12 DEF BecomeLeader, l, a, c

\* An election started by a node that does not lead: its own vote is the only new one.
LEMMA StartElectionWorks ==
    ASSUME NEW i \in Node, NEW n, NEW d \in Stored, NEW B, Working(i, n, d, B),
           n.role # Leader, n.out = {}
    PROVE  /\ Working(i, StartElection(i, n), d, B \cup {<<i, n.term + 1, i>>})
           /\ StartElection(i, n).term = n.term + 1
           /\ StartElection(i, n).votedFor = i
           /\ StartElection(i, n).dirty
<1>. DEFINE c == [n EXCEPT !.term = @ + 1, !.votedFor = i, !.dirty = TRUE,
                           !.role = Candidate, !.votes = {i}]
            B1 == B \cup {<<i, n.term + 1, i>>}
            Q(p) == [type |-> "RequestVote", from |-> i, to |-> p, term |-> c.term,
                     lastLogIndex |-> Len(c.log), lastLogTerm |-> LastTerm(c.log)]
            r == StartElection(i, n)
<1>1. n \in NodeState BY DEF Working
<1>2. c \in NodeState
    <2>1. n.term + 1 \in Nat /\ {i} \in SUBSET Node BY <1>1 DEF NodeState
    <2>. QED BY <1>1, <2>1 DEF NodeState
<1>3. /\ c.role = Candidate /\ c.votes = {i} /\ c.votedFor = i /\ c.dirty = TRUE
      /\ c.term = n.term + 1 /\ c.out = {} /\ c.inflight = n.inflight
      /\ c.log = n.log /\ c.unstable = n.unstable
    BY <1>1 DEF NodeState
<1>4. r = IF Majority(c.votes) THEN BecomeLeader(i, c)
          ELSE [c EXCEPT !.out = c.out \cup {Q(p) : p \in Node \ {i}}]
    BY DEF StartElection
<1>. HIDE DEF c, r
<1>5. Working(i, c, d, B1)
    <2>1. InflightOK(c) BY <1>3 DEF Working, InflightOK, Candidate, Leader
    <2>2. LogOver(c, d) BY <1>3 DEF Working, LogOver
    <2>3. n.term \in Nat /\ d.term \in Nat BY <1>1 DEF NodeState, Stored
    <2>4. VoteOver(c, d) BY <1>3, <2>3 DEF Working, VoteOver
    <2>5. OutOK(i, c) BY <1>3 DEF OutOK
    <2>6. Supported(i, c, B1) BY <1>3 DEF Supported, Candidate, Leader
    <2>. QED BY <1>2, <2>1, <2>2, <2>4, <2>5, <2>6 DEF Working
<1>6. CASE Majority(c.votes)
    <2>. HIDE DEF B1
    <2>1. Working(i, r, d, B1) /\ SameVote(r, c)
        BY <1>3, <1>4, <1>5, <1>6, BecomeLeaderWorks
    <2>2. r.dirty
        <3>1. r.dirty \in BOOLEAN BY <2>1 DEF Working, NodeState
        <3>2. n.term \in Nat /\ d.term \in Nat /\ n.term >= d.term
            BY <1>1 DEF NodeState, Stored, Working, VoteOver
        <3>3. r.term # d.term BY <1>3, <2>1, <3>2 DEF SameVote
        <3>. QED BY <2>1, <3>1, <3>3 DEF Working, VoteOver
    <2>. QED BY <1>3, <2>1, <2>2 DEF SameVote, r, B1
<1>7. CASE ~ Majority(c.votes)
    <2>1. \A p \in Node \ {i} : Q(p) \in Message
        <3>1. c.log \in Seq(Entry) /\ c.term \in Nat BY <1>2 DEF NodeState
        <3>2. LastTerm(c.log) \in Nat
            <4>1. Len(c.log) # 0 => c.log[Len(c.log)] \in Entry BY <3>1
            <4>. QED BY <4>1 DEF LastTerm, TermAt, Entry
        <3>. QED BY <3>1, <3>2 DEF Message
    <2>2. r = [c EXCEPT !.out = {Q(p) : p \in Node \ {i}}] BY <1>3, <1>4, <1>7
    <2>3. \A m \in {Q(p) : p \in Node \ {i}} : m \in Message /\ m.type = "RequestVote"
        BY <2>1
    <2>. DEFINE M == {Q(p) : p \in Node \ {i}}
    <2>. HIDE DEF Q, M
    <2>4. r \in NodeState BY <1>2, <2>2, <2>3 DEF NodeState, M
    <2>5. /\ r.role = c.role /\ r.votes = c.votes /\ r.votedFor = c.votedFor
          /\ r.dirty = c.dirty /\ r.term = c.term /\ r.inflight = c.inflight
          /\ r.log = c.log /\ r.unstable = c.unstable /\ r.out = M
        BY <1>2, <2>2 DEF NodeState, M
    <2>6. InflightOK(r) /\ LogOver(r, d) /\ VoteOver(r, d) /\ Supported(i, r, B1)
        BY <1>5, <2>5 DEF Working, InflightOK, LogOver, VoteOver, Supported
    <2>7. OutOK(i, r) BY <2>3, <2>5 DEF OutOK, M
    <2>. QED BY <1>3, <2>4, <2>5, <2>6, <2>7 DEF Working, r
<1>. QED BY <1>6, <1>7

\* Sending one message.
LEMMA SendWorks ==
    ASSUME NEW i \in Node, NEW n, NEW d \in Stored, NEW B, Working(i, n, d, B),
           NEW m \in Message, m.type # "AppendEntries",
           m.type = "RequestVoteResp" /\ m.granted
                => m.from = i /\ m.term = n.term /\ m.to = n.votedFor
    PROVE  Working(i, Send(n, m), d, B)
<1>. DEFINE r == Send(n, m)
<1>1. n \in NodeState BY DEF Working
<1>2. r = [n EXCEPT !.out = n.out \cup {m}] BY DEF Send
<1>. HIDE DEF r
<1>3. r \in NodeState BY <1>1, <1>2 DEF NodeState
<1>4. /\ r.role = n.role /\ r.votes = n.votes /\ r.votedFor = n.votedFor
      /\ r.dirty = n.dirty /\ r.term = n.term /\ r.inflight = n.inflight
      /\ r.log = n.log /\ r.unstable = n.unstable /\ r.out = n.out \cup {m}
    BY <1>1, <1>2 DEF NodeState
<1>5. InflightOK(r) /\ LogOver(r, d) /\ VoteOver(r, d) /\ Supported(i, r, B)
    BY <1>4 DEF Working, InflightOK, LogOver, VoteOver, Supported
<1>6. OutOK(i, r) BY <1>4 DEF Working, OutOK
<1>. QED BY <1>3, <1>5, <1>6 DEF Working, r

\* The responses to a vote request and to an append request are messages.
LEMMA VoteResponseTyped ==
    ASSUME NEW i \in Node, NEW n \in NodeState, NEW to \in Node, NEW ok \in BOOLEAN
    PROVE  /\ VoteResponse(i, n, to, ok) \in Message
           /\ VoteResponse(i, n, to, ok).type = "RequestVoteResp"
           /\ VoteResponse(i, n, to, ok).granted = ok
           /\ VoteResponse(i, n, to, ok).from = i
           /\ VoteResponse(i, n, to, ok).to = to
           /\ VoteResponse(i, n, to, ok).term = n.term
<1>1. n.term \in Nat BY DEF NodeState
<1>2. VoteResponse(i, n, to, ok) \in Message BY <1>1 DEF VoteResponse, Message
<1>. QED BY <1>2 DEF VoteResponse

\* The answer to an AppendEntries is a message.
LEMMA AppendResponseTyped ==
    ASSUME NEW i \in Node, NEW n \in NodeState, NEW to \in Node,
           NEW ok \in BOOLEAN, NEW index \in Nat
    PROVE  /\ AppendResponse(i, n, to, ok, index) \in Message
           /\ AppendResponse(i, n, to, ok, index).type = "AppendEntriesResp"
<1>1. n.term \in Nat BY DEF NodeState
<1>2. AppendResponse(i, n, to, ok, index) \in Message BY <1>1 DEF AppendResponse, Message
<1>. QED BY <1>2 DEF AppendResponse

\* handleRequestVote grants only the node's one vote of the term, and marks it.
LEMMA HandleRequestVoteWorks ==
    ASSUME NEW i \in Node, NEW n, NEW d \in Stored, NEW B, Working(i, n, d, B),
           NEW m \in Message, m.type = "RequestVote"
    PROVE  Working(i, HandleRequestVote(i, n, m), d, B)
<1>. DEFINE granted == /\ n.votedFor = Nil \/ n.votedFor = m.from
                       /\ CandidateLogIsUpToDate(n, m.lastLogIndex, m.lastLogTerm)
            v == IF granted THEN RecordVote(n, m.from) ELSE n
            resp == VoteResponse(i, n, m.from, granted)
<1>1. n \in NodeState /\ m.from \in Node BY MessageFields DEF Working
<1>2. granted \in BOOLEAN BY DEF CandidateLogIsUpToDate
<1>3. granted => n.votedFor = Nil \/ n.votedFor = m.from OBVIOUS
<1>4. HandleRequestVote(i, n, m) = Send(v, resp) BY DEF HandleRequestVote
<1>. HIDE DEF granted
<1>5. resp \in Message /\ resp.type = "RequestVoteResp" /\ resp.granted = granted
      /\ resp.from = i /\ resp.to = m.from /\ resp.term = n.term
    BY <1>1, <1>2, VoteResponseTyped
<1>. HIDE DEF resp
<1>6. CASE granted /\ n.votedFor = Nil
    <2>1. v = [n EXCEPT !.votedFor = m.from, !.dirty = TRUE] BY <1>6 DEF RecordVote
    <2>. HIDE DEF v
    <2>2. v \in NodeState BY <1>1, <2>1 DEF NodeState
    <2>3. /\ v.role = n.role /\ v.votes = n.votes /\ v.votedFor = m.from
          /\ v.dirty = TRUE /\ v.term = n.term /\ v.inflight = n.inflight
          /\ v.log = n.log /\ v.unstable = n.unstable /\ v.out = n.out
        BY <1>1, <2>1 DEF NodeState
    <2>4. InflightOK(v) /\ LogOver(v, d) /\ Supported(i, v, B)
        BY <2>3 DEF Working, InflightOK, LogOver, Supported
    <2>5. VoteOver(v, d) BY <1>6, <2>3 DEF Working, VoteOver
    <2>6. OutOK(i, v)
        <3>1. \A o \in n.out : o.type = "RequestVoteResp" /\ o.granted => o.to = Nil
            BY <1>6 DEF Working, OutOK
        <3>2. \A o \in n.out : o.to # Nil
            BY <1>1, MessageFields, NilAssumption DEF NodeState
        <3>. QED BY <2>3, <3>1, <3>2 DEF Working, OutOK
    <2>7. Working(i, v, d, B) BY <2>2, <2>4, <2>5, <2>6 DEF Working
    <2>. QED BY <1>4, <1>5, <2>3, <2>7, SendWorks
<1>7. CASE granted /\ n.votedFor # Nil
    <2>1. v = n /\ n.votedFor = m.from BY <1>3, <1>7 DEF RecordVote
    <2>. QED BY <1>4, <1>5, <2>1, SendWorks
<1>8. CASE ~ granted
    BY <1>4, <1>5, <1>8, SendWorks
<1>. QED BY <1>6, <1>7, <1>8

\* handleRequestVoteResponse counts a vote that is durable (it is in B).
LEMMA HandleRequestVoteResponseWorks ==
    ASSUME NEW i \in Node, NEW n, NEW d \in Stored, NEW B, Working(i, n, d, B),
           n.out = {}, NEW m \in Message, m.type = "RequestVoteResp",
           m.granted => <<m.from, n.term, i>> \in B
    PROVE  Working(i, HandleRequestVoteResponse(i, n, m), d, B)
<1>. DEFINE c == [n EXCEPT !.votes = n.votes \cup {m.from}]
<1>1. n \in NodeState /\ m.from \in Node BY MessageFields DEF Working
<1>2. HandleRequestVoteResponse(i, n, m) =
        IF n.role # Candidate \/ ~ m.granted THEN n
        ELSE IF Majority(c.votes) THEN BecomeLeader(i, c) ELSE c
    BY DEF HandleRequestVoteResponse
<1>3. CASE n.role # Candidate \/ ~ m.granted BY <1>2, <1>3
<1>4. CASE ~ (n.role # Candidate \/ ~ m.granted)
    <2>1. c \in NodeState BY <1>1 DEF NodeState
    <2>2. /\ c.role = n.role /\ c.votes = n.votes \cup {m.from} /\ c.votedFor = n.votedFor
          /\ c.dirty = n.dirty /\ c.term = n.term /\ c.inflight = n.inflight
          /\ c.log = n.log /\ c.unstable = n.unstable /\ c.out = n.out
        BY <1>1 DEF NodeState
    <2>. HIDE DEF c
    <2>3. InflightOK(c) /\ LogOver(c, d) /\ VoteOver(c, d) /\ OutOK(i, c)
        BY <2>2 DEF Working, InflightOK, LogOver, VoteOver, OutOK
    <2>4. Supported(i, c, B) BY <1>4, <2>2 DEF Working, Supported, Candidate, Leader
    <2>5. Working(i, c, d, B) BY <2>1, <2>3, <2>4 DEF Working
    <2>6. c.role = Candidate /\ c.out = {} BY <1>4, <2>2
    <2>7. Majority(c.votes) => Working(i, BecomeLeader(i, c), d, B)
        BY <2>5, <2>6, BecomeLeaderWorks
    <2>. QED BY <1>2, <1>4, <2>5, <2>7
<1>. QED BY <1>3, <1>4

\* What appendFromLeader does to a log that holds index prev: it keeps everything
\* before the first index it changes, and that index is at most one past the end.
LEMMA AppendFromLeaderKeeps ==
    ASSUME NEW log \in Seq(Entry), NEW entries \in Seq(Entry), NEW prev \in Nat,
           prev <= Len(log)
    PROVE  LET changed == FirstChanged(log, prev, entries)
               after == AppendFromLeader(log, prev, entries)
           IN  /\ after \in Seq(Entry)
               /\ changed = 0 => after = log
               /\ changed # 0 =>
                    /\ changed \in Nat /\ changed <= Len(log) + 1 /\ changed <= Len(after)
                    /\ \A k \in 1..(changed - 1) : after[k] = log[k]
<1>. DEFINE C == Conflicts(log, prev, entries)
            changed == FirstChanged(log, prev, entries)
            after == AppendFromLeader(log, prev, entries)
<1>1. CASE C = {}
    BY <1>1 DEF FirstChanged, AppendFromLeader
<1>2. CASE C # {}
    <2>. DEFINE k == Min(C)
                front == SubSeq(log, 1, changed - 1)
                back == SubSeq(entries, changed - prev, Len(entries))
    <2>1. C \subseteq 1..Len(entries) /\ C \subseteq Nat BY DEF Conflicts
    <2>2. k \in C /\ \A y \in C : k <= y BY <1>2, <2>1, MinOfNats
    <2>. HIDE DEF k
    <2>3. k \in 1..Len(entries) /\ k \in Nat /\ Len(entries) \in Nat /\ Len(log) \in Nat
        BY <2>1, <2>2
    <2>4. changed = prev + k BY <1>2 DEF FirstChanged, k
    <2>5. changed <= Len(log) + 1
        <3>1. CASE k = 1 BY <2>3, <2>4, <3>1
        <3>2. CASE k # 1
            <4>1. k - 1 \in 1..Len(entries) /\ k - 1 \notin C BY <2>2, <2>3, <3>2
            <4>2. Matches(log, prev + (k - 1), entries[k - 1].term) BY <4>1 DEF Conflicts
            <4>. QED BY <2>3, <2>4, <4>2 DEF Matches
        <3>. QED BY <3>1, <3>2
    <2>6. changed \in Nat \ {0} BY <2>3, <2>4
    <2>7. after = front \o back BY <2>6 DEF AppendFromLeader
    <2>. HIDE DEF C, changed, after
    <2>8. /\ front \in Seq(Entry) /\ Len(front) = changed - 1
          /\ \A x \in 1..(changed - 1) : front[x] = log[x]
        <3>1. \A x \in 1..(changed - 1) : log[x] \in Entry BY <2>3, <2>5, <2>6
        <3>2. /\ front \in Seq(Entry)
              /\ Len(front) = IF 1 <= changed - 1 THEN changed - 1 - 1 + 1 ELSE 0
              /\ \A x \in 1..(changed - 1 - 1 + 1) : front[x] = log[1 + x - 1]
            BY <2>6, <3>1, SubSeqProperties
        <3>. QED BY <2>6, <3>2
    <2>9. back \in Seq(Entry) /\ Len(back) = Len(entries) - k + 1
        <3>1. changed - prev = k BY <2>3, <2>4
        <3>2. \A x \in k..Len(entries) : entries[x] \in Entry BY <2>3
        <3>3. /\ SubSeq(entries, k, Len(entries)) \in Seq(Entry)
              /\ Len(SubSeq(entries, k, Len(entries)))
                    = IF k <= Len(entries) THEN Len(entries) - k + 1 ELSE 0
            BY <2>3, <3>2, SubSeqProperties
        <3>. QED BY <2>3, <3>1, <3>3
    <2>. HIDE DEF front, back
    <2>10. /\ after \in Seq(Entry) /\ Len(after) = Len(front) + Len(back)
           /\ \A x \in 1..(Len(front) + Len(back)) :
                after[x] = IF x <= Len(front) THEN front[x] ELSE back[x - Len(front)]
        BY <2>7, <2>8, <2>9, ConcatProperties
    <2>11. Len(after) >= changed BY <2>3, <2>6, <2>8, <2>9, <2>10
    <2>12. ASSUME NEW x \in 1..(changed - 1) PROVE after[x] = log[x]
        <3>1. x \in 1..(Len(front) + Len(back)) /\ x <= Len(front)
            BY <2>3, <2>6, <2>8, <2>9
        <3>. QED BY <2>8, <2>10, <3>1
    <2>. QED BY <2>5, <2>6, <2>10, <2>11, <2>12 DEF after, changed
<1>. QED BY <1>1, <1>2

\* handleAppendEntries lowers unstable to the first index it changed.
LEMMA HandleAppendEntriesWorks ==
    ASSUME NEW i \in Node, NEW n, NEW d \in Stored, NEW B, Working(i, n, d, B),
           n.out = {}, NEW m \in Message, m.type = "AppendEntries"
    PROVE  Working(i, HandleAppendEntries(i, n, m), d, B)
<1>. DEFINE f == IF n.role # Follower THEN BecomeFollowerSameTerm(n) ELSE n
            last == m.prevLogIndex + Len(m.entries)
            changed == FirstChanged(f.log, m.prevLogIndex, m.entries)
            after == AppendFromLeader(f.log, m.prevLogIndex, m.entries)
            low == LowerUnstable(f.unstable, changed)
            commit == FollowerCommit(f.commitIndex, m.leaderCommit, last)
            r == [f EXCEPT !.log = after, !.unstable = low, !.commitIndex = commit]
<1>1. Working(i, f, d, B) /\ f.role = Follower /\ f.out = {}
    BY BecomeFollowerSameTermWorks
<1>2. f \in NodeState /\ m.from \in Node /\ m.prevLogIndex \in Nat
      /\ m.entries \in Seq(Entry) /\ m.leaderCommit \in Nat
    BY <1>1, MessageFields DEF Working
<1>. HIDE DEF f
<1>3. last \in Nat BY <1>2
<1>4. HandleAppendEntries(i, n, m) =
        IF Matches(f.log, m.prevLogIndex, m.prevLogTerm)
        THEN Send(r, AppendResponse(i, f, m.from, TRUE, last))
        ELSE Send(f, AppendResponse(i, f, m.from, FALSE, 0))
    BY <1>2 DEF HandleAppendEntries, f, NodeState
<1>5. CASE ~ Matches(f.log, m.prevLogIndex, m.prevLogTerm)
    <2>1. /\ AppendResponse(i, f, m.from, FALSE, 0) \in Message
          /\ AppendResponse(i, f, m.from, FALSE, 0).type = "AppendEntriesResp"
        <3>1. 0 \in Nat /\ FALSE \in BOOLEAN OBVIOUS
        <3>. QED BY <1>2, <3>1, AppendResponseTyped
    <2>. QED BY <1>1, <1>4, <1>5, <2>1, SendWorks
<1>6. CASE Matches(f.log, m.prevLogIndex, m.prevLogTerm)
    <2>1. f.log \in Seq(Entry) /\ f.unstable \in Nat \ {0} /\ f.commitIndex \in Nat
        BY <1>2 DEF NodeState
    <2>2. m.prevLogIndex <= Len(f.log) BY <1>6 DEF Matches
    <2>3. /\ after \in Seq(Entry)
          /\ changed = 0 => after = f.log
          /\ changed # 0 =>
               /\ changed \in Nat /\ changed <= Len(f.log) + 1 /\ changed <= Len(after)
               /\ \A k \in 1..(changed - 1) : after[k] = f.log[k]
        BY <1>2, <2>1, <2>2, AppendFromLeaderKeeps
    <2>. HIDE DEF after, changed
    <2>4. low = (IF changed # 0 /\ changed < f.unstable THEN changed ELSE f.unstable)
        BY DEF LowerUnstable
    <2>5. commit \in Nat
        <3>1. Min({m.leaderCommit, last}) \in Nat BY <1>2, <1>3, MinPair
        <3>. QED BY <2>1, <3>1 DEF FollowerCommit
    <2>. HIDE DEF low, commit
    <2>6. low \in Nat \ {0} BY <2>1, <2>3, <2>4
    <2>7. r \in NodeState BY <1>2, <2>3, <2>5, <2>6 DEF NodeState
    <2>8. /\ r.role = f.role /\ r.votes = f.votes /\ r.votedFor = f.votedFor
          /\ r.dirty = f.dirty /\ r.term = f.term /\ r.inflight = f.inflight
          /\ r.log = after /\ r.unstable = low /\ r.out = f.out
        BY <1>2 DEF NodeState
    <2>. HIDE DEF r
    <2>9. InflightOK(r)
        <3>1. r.inflight = NoInflight BY <1>1, <2>8 DEF Working, InflightOK, Follower, Leader
        <3>. QED BY <3>1 DEF InflightOK, NoInflight
    <2>10. LogOver(r, d)
        <3>1. /\ f.unstable <= Len(f.log) + 1 /\ f.unstable <= Len(d.log) + 1
              /\ f.unstable = Len(f.log) + 1 => Len(f.log) = Len(d.log)
              /\ \A k \in 1..(f.unstable - 1) : f.log[k] = d.log[k]
            BY <1>1 DEF Working, LogOver
        <3>2. Len(f.log) \in Nat /\ Len(d.log) \in Nat /\ Len(after) \in Nat
            BY <2>1, <2>3 DEF Stored
        <3>3. low <= f.unstable /\ low <= Len(d.log) + 1 /\ low <= Len(after) + 1
            BY <2>1, <2>3, <2>4, <3>1, <3>2
        <3>4. ASSUME NEW k \in 1..(low - 1) PROVE after[k] = d.log[k]
            <4>1. k \in 1..(f.unstable - 1) BY <2>1, <2>6, <3>3
            <4>2. after[k] = f.log[k] BY <2>1, <2>3, <2>4, <2>6
            <4>. QED BY <3>1, <4>1, <4>2
        <3>5. low = Len(after) + 1 => Len(after) = Len(d.log)
            BY <2>1, <2>3, <2>4, <3>1, <3>2
        <3>. QED BY <2>8, <3>3, <3>4, <3>5 DEF LogOver
    <2>11. VoteOver(r, d) /\ OutOK(i, r) /\ Supported(i, r, B)
        BY <1>1, <2>8 DEF Working, VoteOver, OutOK, Supported
    <2>12. Working(i, r, d, B) BY <2>7, <2>9, <2>10, <2>11 DEF Working
    <2>13. /\ AppendResponse(i, f, m.from, TRUE, last) \in Message
           /\ AppendResponse(i, f, m.from, TRUE, last).type = "AppendEntriesResp"
        BY <1>2, <1>3, AppendResponseTyped
    <2>14. Working(i, Send(r, AppendResponse(i, f, m.from, TRUE, last)), d, B)
        BY <2>12, <2>13, SendWorks
    <2>. QED BY <1>4, <1>6, <2>14
<1>. QED BY <1>5, <1>6

\* A late or repeated answer (handleAppendEntriesResponse) keeps the requests in
\* flight within the log.
LEMMA HandleAppendEntriesResponseWorks ==
    ASSUME NEW i \in Node, NEW n, NEW d \in Stored, NEW B, Working(i, n, d, B),
           NEW m \in Message, m.type = "AppendEntriesResp"
    PROVE  Working(i, HandleAppendEntriesResponse(i, n, m), d, B)
<1>. DEFINE p == m.from
            back == BackOff(n, p)
            freed == [n EXCEPT !.inflight[p] = Nil,
                               !.matchIndex[p] = m.matchIndex,
                               !.nextIndex[p] = m.matchIndex + 1]
            acked == AdvanceCommit(freed)
<1>1. n \in NodeState /\ p \in Node /\ m.success \in BOOLEAN /\ m.matchIndex \in Nat
    BY MessageFields DEF Working
<1>2. HandleAppendEntriesResponse(i, n, m) \in
        {n, acked, SendAppend(i, back, {p}, FALSE), SendAppend(i, acked, {p}, FALSE)}
    BY DEF HandleAppendEntriesResponse
<1>3. n.role # Leader => HandleAppendEntriesResponse(i, n, m) = n
    BY DEF HandleAppendEntriesResponse
<1>4. ASSUME n.role = Leader, NEW r \in NodeState,
             /\ r.role = n.role /\ r.votes = n.votes /\ r.votedFor = n.votedFor
             /\ r.dirty = n.dirty /\ r.term = n.term /\ r.log = n.log
             /\ r.unstable = n.unstable /\ r.out = n.out,
             r.inflight = [n.inflight EXCEPT ![p] = Nil]
      PROVE  Working(i, r, d, B)
    <2>1. InflightOK(r)
        <3>1. n.inflight \in [Node -> Inflight \cup {Nil}] BY <1>1 DEF NodeState
        <3>2. \A q \in Node : r.inflight[q] = IF q = p THEN Nil ELSE n.inflight[q]
            BY <1>4, <3>1
        <3>. QED BY <1>4, <3>2 DEF Working, InflightOK
    <2>2. LogOver(r, d) /\ VoteOver(r, d) /\ OutOK(i, r) /\ Supported(i, r, B)
        BY <1>4 DEF Working, LogOver, VoteOver, OutOK, Supported
    <2>. QED BY <2>1, <2>2 DEF Working
<1>5. ASSUME n.role = Leader PROVE Working(i, back, d, B) /\ back.role = Leader
    <2>. DEFINE next == IF n.nextIndex[p] > RetryFloor(n, p) THEN n.nextIndex[p] - 1
                                                             ELSE n.nextIndex[p]
    <2>1. n.nextIndex \in [Node -> Nat] /\ n.matchIndex \in [Node -> Nat]
        BY <1>1 DEF NodeState
    <2>2. next \in Nat BY <1>1, <2>1 DEF RetryFloor
    <2>3. back = [n EXCEPT !.inflight = [n.inflight EXCEPT ![p] = Nil],
                           !.nextIndex = [n.nextIndex EXCEPT ![p] = next]]
        BY <1>1 DEF BackOff, NodeState
    <2>. HIDE DEF next, back
    <2>4. [n.inflight EXCEPT ![p] = Nil] \in [Node -> Inflight \cup {Nil}]
          /\ [n.nextIndex EXCEPT ![p] = next] \in [Node -> Nat]
        BY <1>1, <2>1, <2>2 DEF NodeState
    <2>5. back \in NodeState BY <1>1, <2>3, <2>4 DEF NodeState
    <2>6. /\ back.role = n.role /\ back.votes = n.votes /\ back.votedFor = n.votedFor
          /\ back.dirty = n.dirty /\ back.term = n.term /\ back.log = n.log
          /\ back.unstable = n.unstable /\ back.out = n.out
          /\ back.inflight = [n.inflight EXCEPT ![p] = Nil]
        BY <1>1, <2>3 DEF NodeState
    <2>7. Working(i, back, d, B) BY <1>4, <1>5, <2>5, <2>6
    <2>. QED BY <1>5, <2>6, <2>7
<1>6. ASSUME n.role = Leader PROVE Working(i, acked, d, B) /\ acked.role = Leader
    <2>1. freed = [n EXCEPT !.inflight = [n.inflight EXCEPT ![p] = Nil],
                            !.matchIndex = [n.matchIndex EXCEPT ![p] = m.matchIndex],
                            !.nextIndex = [n.nextIndex EXCEPT ![p] = m.matchIndex + 1]]
        BY <1>1 DEF NodeState
    <2>. HIDE DEF freed
    <2>2. /\ [n.inflight EXCEPT ![p] = Nil] \in [Node -> Inflight \cup {Nil}]
          /\ [n.matchIndex EXCEPT ![p] = m.matchIndex] \in [Node -> Nat]
          /\ [n.nextIndex EXCEPT ![p] = m.matchIndex + 1] \in [Node -> Nat]
        BY <1>1 DEF NodeState
    <2>3. freed \in NodeState BY <1>1, <2>1, <2>2 DEF NodeState
    <2>4. /\ freed.role = n.role /\ freed.votes = n.votes /\ freed.votedFor = n.votedFor
          /\ freed.dirty = n.dirty /\ freed.term = n.term /\ freed.log = n.log
          /\ freed.unstable = n.unstable /\ freed.out = n.out
          /\ freed.inflight = [n.inflight EXCEPT ![p] = Nil]
        BY <1>1, <2>1 DEF NodeState
    <2>5. Working(i, freed, d, B) BY <1>4, <1>6, <2>3, <2>4
    <2>. QED BY <1>6, <2>4, <2>5, AdvanceCommitWorks
<1>. HIDE DEF back, acked
<1>7. ASSUME n.role = Leader
      PROVE  /\ Working(i, SendAppend(i, back, {p}, FALSE), d, B)
             /\ Working(i, SendAppend(i, acked, {p}, FALSE), d, B)
    <2>1. {p} \in SUBSET Node /\ FALSE \in BOOLEAN BY <1>1
    <2>2. Working(i, SendAppend(i, back, {p}, FALSE), d, B)
        BY <1>5, <1>7, <2>1, SendAppendWorks
    <2>3. Working(i, SendAppend(i, acked, {p}, FALSE), d, B)
        BY <1>6, <1>7, <2>1, SendAppendWorks
    <2>. QED BY <2>2, <2>3
<1>. QED BY <1>1, <1>2, <1>3, <1>6, <1>7 DEF NodeState, Follower, Candidate, Leader

\* Step: any message, in any term; a vote granted in a later term than the node's
\* cannot count, as the node is no candidate in that term.
LEMMA StepWorks ==
    ASSUME NEW i \in Node, NEW n, NEW d \in Stored, NEW B, Working(i, n, d, B),
           n.out = {}, NEW m \in Message,
           m.type = "RequestVoteResp" /\ m.granted => <<m.from, m.term, i>> \in B
    PROVE  Working(i, Step(i, n, m), d, B)
<1>. DEFINE f == IF m.term > n.term THEN BecomeFollower(n, m.term) ELSE n
<1>1. n \in NodeState /\ m.from \in Node /\ m.term \in Nat /\ n.term \in Nat
      /\ m.type \in {"RequestVote", "RequestVoteResp", "AppendEntries", "AppendEntriesResp"}
    BY MessageFields DEF Working, NodeState
<1>2. CASE m.term < n.term
    <2>1. Step(i, n, m) = RejectLowerTermRequest(i, n, m) BY <1>2 DEF Step
    <2>2. CASE m.type = "RequestVote"
        <3>1. FALSE \in BOOLEAN OBVIOUS
        <3>2. /\ VoteResponse(i, n, m.from, FALSE) \in Message
              /\ VoteResponse(i, n, m.from, FALSE).type = "RequestVoteResp"
              /\ ~ VoteResponse(i, n, m.from, FALSE).granted
            BY <1>1, <3>1, VoteResponseTyped DEF VoteResponse
        <3>3. Working(i, Send(n, VoteResponse(i, n, m.from, FALSE)), d, B)
            BY <3>2, SendWorks
        <3>. QED BY <2>1, <2>2, <3>3 DEF RejectLowerTermRequest
    <2>3. CASE m.type = "AppendEntries"
        <3>1. 0 \in Nat /\ FALSE \in BOOLEAN OBVIOUS
        <3>2. /\ AppendResponse(i, n, m.from, FALSE, 0) \in Message
              /\ AppendResponse(i, n, m.from, FALSE, 0).type = "AppendEntriesResp"
            BY <1>1, <3>1, AppendResponseTyped
        <3>3. Working(i, Send(n, AppendResponse(i, n, m.from, FALSE, 0)), d, B)
            BY <3>2, SendWorks
        <3>. QED BY <2>1, <2>3, <3>3 DEF RejectLowerTermRequest
    <2>4. CASE m.type \notin {"RequestVote", "AppendEntries"}
        BY <2>1, <2>4 DEF RejectLowerTermRequest
    <2>. QED BY <2>2, <2>3, <2>4
<1>3. CASE ~ (m.term < n.term)
    <2>1. Step(i, n, m) = Handle(i, f, m) BY <1>3 DEF Step
    <2>2. Working(i, f, d, B) /\ f.out = {} /\ f.term = m.term
        BY <1>1, <1>3, BecomeFollowerWorks
    <2>. HIDE DEF f
    <2>3. CASE m.type = "RequestVote"
        BY <2>1, <2>2, <2>3, HandleRequestVoteWorks DEF Handle
    <2>4. CASE m.type = "AppendEntries"
        BY <2>1, <2>2, <2>4, HandleAppendEntriesWorks DEF Handle
    <2>5. CASE m.type = "RequestVoteResp"
        BY <2>1, <2>2, <2>5, HandleRequestVoteResponseWorks DEF Handle
    <2>6. CASE m.type = "AppendEntriesResp"
        BY <2>1, <2>2, <2>6, HandleAppendEntriesResponseWorks DEF Handle
    <2>. QED BY <1>1, <2>3, <2>4, <2>5, <2>6
<1>. QED BY <1>2, <1>3

\* A leader's heartbeat tick keeps it fit.
LEMMA SendHeartbeatsWorks ==
    ASSUME NEW i \in Node, NEW n, NEW d \in Stored, NEW B, Working(i, n, d, B),
           n.role = Leader
    PROVE  Working(i, SendHeartbeats(i, n), d, B)
<1>1. Node \ {i} \in SUBSET Node /\ FALSE \in BOOLEAN OBVIOUS
<1>. QED BY <1>1, SendAppendWorks DEF SendHeartbeats

\* A proposal the leader accepts keeps it fit.
LEMMA ProposeWorks ==
    ASSUME NEW i \in Node, NEW n, NEW d \in Stored, NEW B, Working(i, n, d, B),
           n.role = Leader, NEW cmd \in Command
    PROVE  Working(i, Propose(i, n, cmd), d, B)
<1>. DEFINE l == AppendLocal(i, n, cmd)
            a == AdvanceCommit(l)
            idle == {p \in Node \ {i} : a.inflight[p] = Nil}
<1>1. Working(i, l, d, B) /\ l.role = Leader BY AppendLocalWorks
<1>. HIDE DEF l
<1>2. Working(i, a, d, B) /\ a.role = Leader BY <1>1, AdvanceCommitWorks
<1>. HIDE DEF a
<1>3. idle \in SUBSET Node /\ FALSE \in BOOLEAN OBVIOUS
<1>. HIDE DEF idle
<1>4. Working(i, SendAppend(i, a, idle, FALSE), d, B) BY <1>2, <1>3, SendAppendWorks
<1>. QED BY <1>4 DEF Propose, l, a, idle
=============================================================================
