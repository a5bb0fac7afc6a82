------------------------------ MODULE RaftNode ------------------------------
(***************************************************************************)
(* The deterministic Raft core of internal/raft: what Tick, Step and       *)
(* Propose do to one Node.  Each handler is an operator from the node's    *)
(* record to its next record, as each method of the code mutates one Node  *)
(* struct; messages accumulate in the field out until the host's Ready     *)
(* takes them.                                                             *)
(*                                                                         *)
(* A log is a sequence whose positions are the indices of the code:        *)
(* NewNode is only ever given the zero SnapshotMeta, so firstIndex is 1    *)
(* and lastIndex is the length.  An entry keeps its term and its command;  *)
(* Noop stands for EntryType_NOOP.  The election and heartbeat counters    *)
(* are left out: a tick on which a timer fires is an event of its own.     *)
(***************************************************************************)
EXTENDS Integers, Sequences, FiniteSets, FiniteSetsExt

CONSTANTS
    Node,       \* the configured peers, the same on every node
    Command,    \* the payloads a client may propose
    Noop,       \* the payload of the entry a new leader appends
    Nil         \* VotedFor = 0, and a nil pointer in the inflight map

ASSUME NodeAssumption == IsFiniteSet(Node) /\ Node # {}
ASSUME NilAssumption == Nil \notin Node
ASSUME NoopAssumption == Noop \notin Command

Follower == "follower"
Candidate == "candidate"
Leader == "leader"

Entry == [term : Nat, cmd : Command \cup {Noop}]
Inflight == [prevIndex : Nat, prevTerm : Nat, lastIndex : Nat, leaderCommit : Nat]

\* The four bodies of raftpb.Message.  The envelope and the body always carry
\* the same term, so one field stands for both.
Message ==
    [type : {"RequestVote"}, from : Node, to : Node, term : Nat,
     lastLogIndex : Nat, lastLogTerm : Nat]
    \cup
    [type : {"RequestVoteResp"}, from : Node, to : Node, term : Nat, granted : BOOLEAN]
    \cup
    [type : {"AppendEntries"}, from : Node, to : Node, term : Nat, prevLogIndex : Nat,
     prevLogTerm : Nat, entries : Seq(Entry), leaderCommit : Nat]
    \cup
    [type : {"AppendEntriesResp"}, from : Node, to : Node, term : Nat,
     success : BOOLEAN, matchIndex : Nat]

NodeState ==
    [term : Nat, votedFor : Node \cup {Nil}, dirty : BOOLEAN,
     role : {Follower, Candidate, Leader}, votes : SUBSET Node,
     log : Seq(Entry), unstable : Nat \ {0}, commitIndex : Nat, lastApplied : Nat,
     nextIndex : [Node -> Nat], matchIndex : [Node -> Nat],
     inflight : [Node -> Inflight \cup {Nil}], out : SUBSET Message]

\* What a node's storage holds: the hard state and the log.
Stored == [term : Nat, votedFor : Node \cup {Nil}, log : Seq(Entry)]

-----------------------------------------------------------------------------
\* The in-memory log

TermAt(log, index) == IF index = 0 THEN 0 ELSE log[index].term
LastTerm(log) == TermAt(log, Len(log))
\* mutant: the consistency check forgets the term
MatchesIndexOnly(log, index, term) == index <= Len(log)
Matches(log, index, term) == index <= Len(log) /\ TermAt(log, index) = term

\* The positions of entries (which follow prev) whose term the log does not have.
Conflicts(log, prev, entries) ==
    {k \in 1..Len(entries) : ~ Matches(log, prev + k, entries[k].term)}

\* The first index appendFromLeader changes, or 0.
FirstChanged(log, prev, entries) ==
    IF Conflicts(log, prev, entries) = {} THEN 0
    ELSE prev + Min(Conflicts(log, prev, entries))

\* Matching entries stay; the first other one truncates the log there.
AppendFromLeader(log, prev, entries) ==
    LET changed == FirstChanged(log, prev, entries)
    IN  IF changed = 0 THEN log
        ELSE SubSeq(log, 1, changed - 1) \o SubSeq(entries, changed - prev, Len(entries))

-----------------------------------------------------------------------------
\* Majorities

\* mutant: half of the peers is a majority
HalfIsEnough(S) == Cardinality(S) >= Cardinality(Node) \div 2
Majority(S) == Cardinality(S) >= (Cardinality(Node) \div 2) + 1

-----------------------------------------------------------------------------
\* NewNode, from what the storage retained.

NoIndex == [p \in Node |-> 0]
NoInflight == [p \in Node |-> Nil]

\* mutant: a recovered node takes its last entry for unstable
NewNodeUnstableLast(store) ==
    [term |-> store.term, votedFor |-> store.votedFor, dirty |-> FALSE,
     role |-> Follower, votes |-> {},
     log |-> store.log, unstable |-> Len(store.log), commitIndex |-> 0,
     lastApplied |-> 0, nextIndex |-> NoIndex, matchIndex |-> NoIndex,
     inflight |-> NoInflight, out |-> {}]
NewNode(store) ==
    [term |-> store.term, votedFor |-> store.votedFor, dirty |-> FALSE,
     role |-> Follower, votes |-> {},
     log |-> store.log, unstable |-> Len(store.log) + 1, commitIndex |-> 0,
     lastApplied |-> 0, nextIndex |-> NoIndex, matchIndex |-> NoIndex,
     inflight |-> NoInflight, out |-> {}]

-----------------------------------------------------------------------------
\* Replication, on the leader's side

\* The request in flight to p, or the one sendAppend starts when there is none:
\* the suffix from nextIndex (clamped to the log), or nothing for a probe.
Pending(n, p, probe) ==
    IF n.inflight[p] # Nil THEN n.inflight[p]
    ELSE LET last == Len(n.log)
             next == Min({Max({n.nextIndex[p], 1}), last + 1})
         IN  [prevIndex |-> next - 1, prevTerm |-> TermAt(n.log, next - 1),
              lastIndex |-> IF probe THEN next - 1 ELSE last,
              leaderCommit |-> n.commitIndex]

EmitAppend(i, n, p, pending) ==
    [type |-> "AppendEntries", from |-> i, to |-> p, term |-> n.term,
     prevLogIndex |-> pending.prevIndex, prevLogTerm |-> pending.prevTerm,
     entries |-> SubSeq(n.log, pending.prevIndex + 1, pending.lastIndex),
     leaderCommit |-> pending.leaderCommit]

\* sendAppend to every peer of S.
SendAppend(i, n, S, probe) ==
    [n EXCEPT
        !.nextIndex = [p \in Node |-> IF p \in S /\ n.inflight[p] = Nil
                                      THEN Pending(n, p, probe).prevIndex + 1
                                      ELSE n.nextIndex[p]],
        !.inflight = [p \in Node |-> IF p \in S THEN Pending(n, p, probe)
                                                ELSE n.inflight[p]],
        !.out = @ \cup {EmitAppend(i, n, p, Pending(n, p, probe)) : p \in S}]

\* mutant: section 5.4.2 is ignored, as in the build tagged buggy
AnyTermEligible(entryTerm, currentTerm) == TRUE
CommitTermEligible(entryTerm, currentTerm) == entryTerm = currentTerm

\* The indices above commitIndex that a majority holds and whose term allows it.
Committable(n) ==
    {k \in (n.commitIndex + 1)..Len(n.log) :
        /\ CommitTermEligible(n.log[k].term, n.term)
        /\ Majority({p \in Node : n.matchIndex[p] >= k})}

AdvanceCommit(n) ==
    IF n.role # Leader \/ Committable(n) = {} THEN n
    ELSE [n EXCEPT !.commitIndex = Max(Committable(n))]

\* The leader counts itself as a replica at once: its own entry is durable
\* before anything that depends on it leaves the node.
AppendLocal(i, n, cmd) ==
    LET index == Len(n.log) + 1
    IN  [n EXCEPT !.log = Append(@, [term |-> n.term, cmd |-> cmd]),
                  !.unstable = IF index < @ THEN index ELSE @,
                  !.matchIndex[i] = index,
                  !.nextIndex[i] = index + 1]

-----------------------------------------------------------------------------
\* Roles

BecomeFollower(n, term) ==
    [n EXCEPT !.term = term, !.votedFor = Nil, !.dirty = TRUE,
              !.role = Follower, !.votes = {},
              !.nextIndex = NoIndex, !.matchIndex = NoIndex, !.inflight = NoInflight]

BecomeFollowerSameTerm(n) ==
    [n EXCEPT !.role = Follower, !.votes = {},
              !.nextIndex = NoIndex, !.matchIndex = NoIndex, !.inflight = NoInflight]

\* Probe the end of the log as it was before the Noop, which is appended (and
\* perhaps committed) before the probes are built.
BecomeLeader(i, n) ==
    LET elected == [n EXCEPT !.role = Leader, !.votes = {},
                             !.nextIndex = [p \in Node |-> Len(n.log) + 1],
                             !.matchIndex = NoIndex, !.inflight = NoInflight]
    IN  SendAppend(i, AdvanceCommit(AppendLocal(i, elected, Noop)), Node \ {i}, TRUE)

StartElection(i, n) ==
    LET c == [n EXCEPT !.term = @ + 1, !.votedFor = i, !.dirty = TRUE,
                       !.role = Candidate, !.votes = {i}]
    IN  IF Majority(c.votes) THEN BecomeLeader(i, c)
        ELSE [c EXCEPT !.out = @ \cup
                {[type |-> "RequestVote", from |-> i, to |-> p, term |-> c.term,
                  lastLogIndex |-> Len(c.log), lastLogTerm |-> LastTerm(c.log)] :
                    p \in Node \ {i}}]

-----------------------------------------------------------------------------
\* Step: one inbound message

VoteResponse(i, n, to, granted) ==
    [type |-> "RequestVoteResp", from |-> i, to |-> to, term |-> n.term,
     granted |-> granted]

AppendResponse(i, n, to, success, matchIndex) ==
    [type |-> "AppendEntriesResp", from |-> i, to |-> to, term |-> n.term,
     success |-> success, matchIndex |-> matchIndex]

Send(n, m) == [n EXCEPT !.out = @ \cup {m}]

\* mutant: a vote does not compare logs
AnyLogIsUpToDate(n, index, term) == TRUE
CandidateLogIsUpToDate(n, index, term) ==
    \/ term > LastTerm(n.log)
    \/ term = LastTerm(n.log) /\ index >= Len(n.log)

RecordVote(n, candidate) ==
    IF n.votedFor = Nil THEN [n EXCEPT !.votedFor = candidate, !.dirty = TRUE] ELSE n

HandleRequestVote(i, n, m) ==
    LET canVote == n.votedFor = Nil \/ n.votedFor = m.from
        granted == canVote /\ CandidateLogIsUpToDate(n, m.lastLogIndex, m.lastLogTerm)
    IN  Send(IF granted THEN RecordVote(n, m.from) ELSE n,
             VoteResponse(i, n, m.from, granted))

HandleRequestVoteResponse(i, n, m) ==
    LET counted == [n EXCEPT !.votes = @ \cup {m.from}]
    IN  IF n.role # Candidate \/ ~ m.granted THEN n
        ELSE IF Majority(counted.votes) THEN BecomeLeader(i, counted)
        ELSE counted

\* mutant: a truncation below unstableIndex is not persisted
UnstableNotLowered(unstable, changed) == unstable
\* The first index Ready must persist, once appendFromLeader has changed the log.
LowerUnstable(unstable, changed) ==
    IF changed # 0 /\ changed < unstable THEN changed ELSE unstable

\* mutant: the announced commit index is followed downwards too
FollowLeaderCommit(commitIndex, leaderCommit, last) == Min({leaderCommit, last})
\* The follower's commit index after a request that covers the log through last.
FollowerCommit(commitIndex, leaderCommit, last) ==
    IF leaderCommit > commitIndex THEN Min({leaderCommit, last}) ELSE commitIndex

\* The entries of a request are numbered from prevLogIndex + 1 by their place
\* in the sequence, so appendRequestLastIndex cannot find them invalid.
HandleAppendEntries(i, n, m) ==
    LET f == IF n.role # Follower THEN BecomeFollowerSameTerm(n) ELSE n
        last == m.prevLogIndex + Len(m.entries)
        changed == FirstChanged(f.log, m.prevLogIndex, m.entries)
        appended ==
            [f EXCEPT !.log = AppendFromLeader(@, m.prevLogIndex, m.entries),
                      !.unstable = LowerUnstable(@, changed),
                      !.commitIndex = FollowerCommit(@, m.leaderCommit, last)]
    IN  IF Matches(f.log, m.prevLogIndex, m.prevLogTerm)
        THEN Send(appended, AppendResponse(i, f, m.from, TRUE, last))
        ELSE Send(f, AppendResponse(i, f, m.from, FALSE, 0))

\* mutant: a late rejection may undo what is matched
RetryFromStart(n, p) == 1
\* A rejection moves nextIndex back by one, but not to an index already matched.
RetryFloor(n, p) == n.matchIndex[p] + 1

\* mutant: the rejected request stays in flight
BackOffStillInflight(n, p) ==
    [n EXCEPT !.nextIndex[p] = IF @ > RetryFloor(n, p) THEN @ - 1 ELSE @]
BackOff(n, p) ==
    [n EXCEPT !.inflight[p] = Nil,
              !.nextIndex[p] = IF @ > RetryFloor(n, p) THEN @ - 1 ELSE @]

\* A success names its request by the index it covers; any other success is
\* dropped.  A rejection names nothing: it always resolves the request in flight.
HandleAppendEntriesResponse(i, n, m) ==
    LET p == m.from
        acked == AdvanceCommit([n EXCEPT !.inflight[p] = Nil,
                                         !.matchIndex[p] = m.matchIndex,
                                         !.nextIndex[p] = m.matchIndex + 1])
    IN  IF n.role # Leader \/ p = i \/ n.inflight[p] = Nil THEN n
        ELSE IF ~ m.success THEN SendAppend(i, BackOff(n, p), {p}, FALSE)
        ELSE IF \/ m.matchIndex # n.inflight[p].lastIndex
                \/ m.matchIndex < n.matchIndex[p]
                \/ m.matchIndex > Len(n.log)
             THEN n
        ELSE IF \/ acked.nextIndex[p] <= Len(acked.log)
                \/ acked.commitIndex # n.commitIndex
             THEN SendAppend(i, acked, {p}, FALSE)
        ELSE acked

RejectLowerTermRequest(i, n, m) ==
    CASE m.type = "RequestVote" -> Send(n, VoteResponse(i, n, m.from, FALSE))
      [] m.type = "AppendEntries" -> Send(n, AppendResponse(i, n, m.from, FALSE, 0))
      [] OTHER -> n

\* The dispatch on the message body.
Handle(i, n, m) ==
    CASE m.type = "RequestVote" -> HandleRequestVote(i, n, m)
      [] m.type = "AppendEntries" -> HandleAppendEntries(i, n, m)
      [] m.type = "RequestVoteResp" -> HandleRequestVoteResponse(i, n, m)
      [] m.type = "AppendEntriesResp" -> HandleAppendEntriesResponse(i, n, m)

Step(i, n, m) ==
    IF m.term < n.term THEN RejectLowerTermRequest(i, n, m)
    ELSE Handle(i, IF m.term > n.term THEN BecomeFollower(n, m.term) ELSE n, m)

-----------------------------------------------------------------------------
\* A leader's heartbeat tick, a proposal, and Advance.

SendHeartbeats(i, n) == SendAppend(i, n, Node \ {i}, FALSE)

\* Idle followers get the new suffix now, the others when their request resolves.
Propose(i, n, cmd) ==
    LET a == AdvanceCommit(AppendLocal(i, n, cmd))
    IN  SendAppend(i, a, {p \in Node \ {i} : a.inflight[p] = Nil}, FALSE)

\* The committed entries of Ready: after lastApplied, through commitIndex or the
\* end of the log.
CommittedEntries(n) ==
    SubSeq(n.log, n.lastApplied + 1, Min({n.commitIndex, Len(n.log)}))

\* The whole Ready batch has been handled.
Advance(n) ==
    [n EXCEPT !.dirty = FALSE,
              !.unstable = IF @ <= Len(n.log) THEN Len(n.log) + 1 ELSE @,
              !.lastApplied = @ + Len(CommittedEntries(n)),
              !.out = {}]
=============================================================================
