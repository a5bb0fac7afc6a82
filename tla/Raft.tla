-------------------------------- MODULE Raft --------------------------------
(***************************************************************************)
(* A cluster of Raft nodes, each driven by its host: Tick, Step or Propose *)
(* on the core, then the Ready batch, in the order every host of the       *)
(* repository uses (Save, send, apply, Advance).  A host handles one event *)
(* at a time and nobody sees its memory, so an action is one event with    *)
(* its whole batch, completed or cut short by a failure at any point.      *)
(***************************************************************************)
EXTENDS RaftNode

CONSTANTS
    Campaigns,  \* bound: the elections <<node, term>> that timers may start
    Links,      \* bound: the <<from, to, term>> of messages that may get through
    MaxLog,     \* bound: no proposal when the log has this many entries
    MaxFail     \* bound: how many batches or processes may fail

ASSUME BoundAssumption ==
    Campaigns \subseteq Node \X Nat /\ MaxLog \in Nat /\ MaxFail \in Nat

VARIABLES
    node,       \* node[i]: the core's memory; of a stopped i, what it will recover
    up,         \* up[i]: the process is live (not crashed, not fail-stopped)
    disk,       \* disk[i]: the hard state and log in i's storage
    applied,    \* applied[i]: what i's state machine applied in this process
    msgs,       \* the messages that may still arrive, once, often or never
    chosen,     \* history: the longest sequence any state machine has applied
    led,        \* history: the <<term, node>> of every AppendEntries ever sent
    ballots,    \* history: the <<voter, term, candidate>> ever made durable
    failures    \* how many failures there have been

vars == <<node, up, disk, applied, msgs, chosen, led, ballots, failures>>

EmptyStore == [term |-> 0, votedFor |-> Nil, log |-> << >>]

Init ==
    /\ node = [i \in Node |-> NewNode(EmptyStore)]
    /\ up = [i \in Node |-> TRUE]
    /\ disk = [i \in Node |-> EmptyStore]
    /\ applied = [i \in Node |-> << >>]
    /\ msgs = {}
    /\ chosen = << >>
    /\ led = {}
    /\ ballots = {}
    /\ failures = 0

-----------------------------------------------------------------------------
\* The transport: a message may be delivered late, repeatedly, out of order or
\* never.  One that no link carries, or that its receiver n would drop from now
\* on whatever happens, is lost at once.

Spent(m, n) ==
    \/ m.type \in {"RequestVoteResp", "AppendEntriesResp"} /\ m.term < n.term
    \/ /\ m.type = "RequestVoteResp" /\ m.term = n.term
       /\ ~ m.granted \/ n.role # Candidate \/ m.from \in n.votes
    \/ /\ m.type = "AppendEntriesResp" /\ m.term = n.term
       /\ n.role = Follower \/ (m.success /\ m.matchIndex < n.matchIndex[m.from])

Deliverable(M, nodes) ==
    {m \in M : <<m.from, m.to, m.term>> \in Links /\ ~ Spent(m, nodes[m.to])}

-----------------------------------------------------------------------------
\* One Ready batch

\* The records Save writes for the batch of n over the store d, and their order.
Records(d, n) ==
    {kind \in {"HardState", "Truncate", "Entries"} :
        CASE kind = "HardState" -> n.dirty
          [] kind = "Truncate" -> n.unstable <= Len(n.log) /\ n.unstable <= Len(d.log)
          [] kind = "Entries" -> n.unstable <= Len(n.log)}
Order == <<"HardState", "Truncate", "Entries">>

\* What a recovery reads when the records of the set kinds survive.
Written(d, n, kinds) ==
    LET kept == SubSeq(d.log, 1, n.unstable - 1)
    IN  [term |-> IF "HardState" \in kinds THEN n.term ELSE d.term,
         votedFor |-> IF "HardState" \in kinds THEN n.votedFor ELSE d.votedFor,
         log |-> IF "Entries" \in kinds THEN kept \o SubSeq(n.log, n.unstable, Len(n.log))
                 ELSE IF "Truncate" \in kinds THEN kept
                 ELSE d.log]

FirstRecords(d, n, k) == Records(d, n) \cap {Order[j] : j \in 1..k}

Saved(d, n) == Written(d, n, Records(d, n))

\* i's store becomes d; the vote in it, if any, is cast.
Store(i, d) ==
    /\ disk' = [disk EXCEPT ![i] = d]
    /\ ballots' = IF d.votedFor = Nil THEN ballots
                  ELSE ballots \cup {<<i, d.term, d.votedFor>>}

\* The batch's messages leave; the ones to still deliver depend on every node.
SendAll(n) ==
    /\ msgs' = Deliverable(msgs \cup n.out, node')
    /\ led' = led \cup {<<m.term, m.from>> : m \in {o \in n.out : o.type = "AppendEntries"}}

Longer(s, t) == IF Len(s) > Len(t) THEN s ELSE t

\* The first k committed entries of the batch reach i's state machine.
ApplyCommitted(i, n, k) ==
    chosen' = Longer(applied[i] \o SubSeq(CommittedEntries(n), 1, k), chosen)

\* The process of i ends: memory and state machine are gone, storage stays.
Stop(i) ==
    /\ failures < MaxFail
    /\ failures' = failures + 1
    /\ up' = [up EXCEPT ![i] = FALSE]
    /\ node' = [node EXCEPT ![i] = NewNode(disk'[i])]
    /\ applied' = [applied EXCEPT ![i] = << >>]

\* Save, send, apply and Advance all succeed.
Complete(i, n) ==
    /\ Store(i, Saved(disk[i], n))
    /\ node' = [node EXCEPT ![i] = Advance(n)]
    /\ SendAll(n)
    /\ ApplyCommitted(i, n, Len(CommittedEntries(n)))
    /\ applied' = [applied EXCEPT ![i] = @ \o CommittedEntries(n)]
    /\ UNCHANGED <<up, failures>>

\* mutant: messages leave before Save
SaveFailsAfterSend(i, n) ==
    /\ \E k \in 0..3 : Store(i, Written(disk[i], n, FirstRecords(disk[i], n, k)))
    /\ Stop(i)
    /\ SendAll(n)
    /\ UNCHANGED chosen
\* Save fails or the process dies in it: a prefix of the records may survive,
\* nothing is sent.  (When no record survives this is Crash, before the event.)
SaveFails(i, n) ==
    /\ \E k \in 1..3 :
            /\ FirstRecords(disk[i], n, k) # {}
            /\ Store(i, Written(disk[i], n, FirstRecords(disk[i], n, k)))
    /\ Stop(i)
    /\ msgs' = Deliverable(msgs, node')
    /\ UNCHANGED <<chosen, led>>

\* The batch is durable and sent; the process dies, or Apply fails, after
\* some of the committed entries, but not all, were applied.
ApplyFails(i, n) ==
    /\ Store(i, Saved(disk[i], n))
    /\ Stop(i)
    /\ SendAll(n)
    /\ \E k \in 0..(Len(CommittedEntries(n)) - 1) : ApplyCommitted(i, n, k)

ProcessReady(i, n) == Complete(i, n) \/ SaveFails(i, n) \/ ApplyFails(i, n)

-----------------------------------------------------------------------------
\* The events of a host

\* A tick on which the election timer of a follower or candidate fires.
ElectionTick(i) ==
    /\ up[i]
    /\ node[i].role # Leader
    /\ <<i, node[i].term + 1>> \in Campaigns
    /\ ProcessReady(i, StartElection(i, node[i]))

\* A tick on which the heartbeat timer of a leader fires.
HeartbeatTick(i) ==
    /\ up[i]
    /\ node[i].role = Leader
    /\ ProcessReady(i, SendHeartbeats(i, node[i]))

Deliver(i, m) ==
    /\ up[i]
    /\ m.to = i
    /\ ProcessReady(i, Step(i, node[i], m))

\* A client's command reaches i; a node that does not lead refuses it.
ClientPropose(i, cmd) ==
    /\ up[i]
    /\ node[i].role = Leader
    /\ Len(node[i].log) < MaxLog
    /\ ProcessReady(i, Propose(i, node[i], cmd))

\* The process dies between two events.
Crash(i) ==
    /\ up[i]
    /\ UNCHANGED <<disk, chosen, led, ballots>>
    /\ Stop(i)
    /\ msgs' = Deliverable(msgs, node')

\* Recovery has read the hard state and the log, nothing else: what was
\* committed is learnt again, and a fresh state machine applies from entry 1.
Restart(i) ==
    /\ ~ up[i]
    /\ up' = [up EXCEPT ![i] = TRUE]
    /\ node' = [node EXCEPT ![i] = NewNode(disk[i])]
    /\ UNCHANGED <<disk, applied, msgs, chosen, led, ballots, failures>>

Next ==
    \E i \in Node :
        \/ ElectionTick(i)
        \/ HeartbeatTick(i)
        \/ \E m \in msgs : Deliver(i, m)
        \/ \E cmd \in Command : ClientPropose(i, cmd)
        \/ Crash(i)
        \/ Restart(i)

Spec == Init /\ [][Next]_vars

\* Whether completing the batch of n changes anything.
Changes(i, n) ==
    LET after == [node EXCEPT ![i] = Advance(n)]
    IN  after # node \/ Deliverable(msgs \cup n.out, after) # msgs

\* What j sent that i may still receive: everything, or what is of a later term.
FromTo(j, i, later) ==
    {m \in msgs : m.from = j /\ m.to = i /\ (later => m.term > node[i].term)}
DeliverFrom(j, i, later) == \E m \in FromTo(j, i, later) : Deliver(i, m)

\* The host ticks its node for ever and a failed process is restarted; what one
\* node keeps sending to another gets through, and repeats of old messages do not
\* keep out those of a later term.  Elections need no fairness.  (The first two are
\* WF_vars(HeartbeatTick(i)) and WF_vars(DeliverFrom(j, i, later)), with what
\* enables a changing step written as a state predicate.)
Fairness ==
    \A i \in Node :
        /\ \/ []<>~(/\ up[i] /\ node[i].role = Leader
                    /\ Changes(i, SendHeartbeats(i, node[i])))
           \/ []<><<HeartbeatTick(i)>>_vars
        /\ \A j \in Node, later \in BOOLEAN :
              \/ []<>~(/\ up[i]
                       /\ \E m \in FromTo(j, i, later) : Changes(i, Step(i, node[i], m)))
              \/ []<><<DeliverFrom(j, i, later)>>_vars
        /\ WF_vars(Restart(i))

FairSpec == Spec /\ Fairness

-----------------------------------------------------------------------------
\* Properties

\* Every piece of state has its type.
TypeOK ==
    /\ node \in [Node -> NodeState]
    /\ up \in [Node -> BOOLEAN]
    /\ disk \in [Node -> Stored]
    /\ applied \in [Node -> Seq(Entry)]
    /\ msgs \subseteq Message
    /\ chosen \in Seq(Entry)
    /\ led \subseteq Nat \X Node
    /\ ballots \subseteq Node \X Nat \X Node
    /\ failures \in 0..MaxFail

\* At most one node leads a term.  As in the simulator's leader tracker, a
\* leader is known by the AppendEntries it sent, so one that crashed, restarted
\* and campaigned again still counts.
SingleLeaderPerTerm == \A a, b \in led : a[1] = b[1] => a[2] = b[2]

\* A node votes once in a term, whatever it forgot in a crash: of all the votes
\* that ever reached its storage, two in the same term name the same candidate.
OneBallotPerTerm ==
    \A a, b \in ballots : a[1] = b[1] /\ a[2] = b[2] => a[3] = b[3]

\* Why there is one leader per term, in parts that hold together at every step.
\* A leader, past or present, had the durable votes of a majority.
Elected(t, i) == Majority({v \in Node : <<v, t, i>> \in ballots})
LeadersElected ==
    /\ \A a \in led : Elected(a[1], a[2])
    /\ \A i \in Node : node[i].role = Leader => Elected(node[i].term, i)

\* No vote counts, or is on its way, before it is durable: Save precedes send.
VotesDurable ==
    /\ \A m \in msgs : m.type = "RequestVoteResp" /\ m.granted
                        => <<m.from, m.term, m.to>> \in ballots
    /\ \A i \in Node : node[i].role = Candidate
                        => \A v \in node[i].votes : <<v, node[i].term, i>> \in ballots

\* A durable vote is overwritten only in a later term.
BallotsKept ==
    \A b \in ballots :
        \/ disk[b[1]].term > b[2]
        \/ disk[b[1]].term = b[2] /\ disk[b[1]].votedFor = b[3]

\* The votes behind every leader, through crashes between Save and send: see the
\* four parts above.
ElectionInv == OneBallotPerTerm /\ LeadersElected /\ VotesDurable /\ BallotsKept

\* Between two events nothing waits to be persisted: storage holds the very term,
\* vote and log of the memory, so hardStateDirty was set by every change of the
\* first two and unstableIndex followed every truncation of the third.
StorageCurrent ==
    \A i \in Node :
        /\ disk[i] = [term |-> node[i].term, votedFor |-> node[i].votedFor,
                      log |-> node[i].log]
        /\ node[i].unstable = Len(node[i].log) + 1

\* Between two events nothing waits to be applied: the state machine holds the
\* committed prefix of the log, which no truncation has changed under it.
AppliedCurrent ==
    \A i \in Node :
        LET n == node[i]
        IN  /\ n.lastApplied = n.commitIndex
            /\ n.commitIndex <= Len(n.log)
            /\ applied[i] = SubSeq(n.log, 1, n.commitIndex)

\* Two stored logs with an entry of the same index and term are the same up to
\* it, payloads included, through every truncation.
LogMatching ==
    \A i, j \in Node : \A k \in 1..Min({Len(disk[i].log), Len(disk[j].log)}) :
        disk[i].log[k].term = disk[j].log[k].term
            => SubSeq(disk[i].log, 1, k) = SubSeq(disk[j].log, 1, k)

\* A leader that no node's term has overtaken has every entry any state machine
\* ever applied, in place, even after all those state machines were lost.
LeaderCompleteness ==
    \A i \in Node :
        node[i].role = Leader /\ (\A j \in Node : disk[j].term <= node[i].term)
            => /\ Len(chosen) <= Len(node[i].log)
               /\ SubSeq(node[i].log, 1, Len(chosen)) = chosen

\* What a leader counts as replicated is in the peer's storage, the leader's own
\* copy included, until the peer moves to a later term: no stale, repeated or
\* misattributed acknowledgement ever raises matchIndex too far.
MatchIndexSound ==
    \A i, p \in Node :
        node[i].role = Leader /\ disk[p].term <= node[i].term
            => /\ node[i].matchIndex[p] <= Len(disk[p].log)
               /\ \A k \in 1..node[i].matchIndex[p] : disk[p].log[k] = node[i].log[k]

\* A leader's bookkeeping for a peer stays in order whatever rejections arrive
\* late or twice: nextIndex is above matchIndex and within the log, and a request
\* in flight starts at nextIndex, at or after the match, with a predecessor term
\* of the leader's log, and never announces a commit index it does not cover.
ProgressSound ==
    \A i, p \in Node :
        LET n == node[i]
            r == n.inflight[p]
        IN  n.role = Leader =>
                /\ n.matchIndex[p] < n.nextIndex[p]
                /\ n.nextIndex[p] <= Len(n.log) + 1
                /\ r # Nil => /\ r.prevIndex + 1 = n.nextIndex[p]
                              /\ r.prevTerm = TermAt(n.log, r.prevIndex)
                              /\ r.lastIndex \in r.prevIndex..Len(n.log)
                              /\ r.leaderCommit <= r.lastIndex

\* A running node never takes back a commit: commitIndex does not decrease, though
\* handleAppendEntries sets it to a minimum that could, and no truncation reaches
\* an entry at or below it.
CommitStable ==
    [][\A i \in Node : up[i] /\ up'[i] =>
            /\ node[i].commitIndex <= node'[i].commitIndex
            /\ \A k \in 1..node[i].commitIndex : node'[i].log[k] = node[i].log[k]]_vars

\* A leader that stays in office brings every node up to date: no lost, late or
\* repeated answer leaves a peer's inflight slot or nextIndex stuck, and all
\* state machines come to hold the whole of its log.
InOffice(i) ==
    up[i] /\ node[i].role = Leader /\ \A j \in Node : disk[j].term <= node[i].term
UpToDate(i) == \A j \in Node : applied[j] = node[i].log
LeaderCatchesUp == \A i \in Node : <>[]InOffice(i) => <>[]UpToDate(i)

\* The cluster is one replicated log: what any state machine applied stays chosen
\* at its place for good, and every node applies that log in order from entry 1.
Log == INSTANCE ReplicatedLog
RefinesReplicatedLog == Log!Spec
=============================================================================
