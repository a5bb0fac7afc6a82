------------------------------- MODULE Workload -------------------------------
(***************************************************************************)
(* The simulated clients: the session runner (sim/workload/runner.go), the *)
(* simulator's side of it (sim/workload.go) and the retry scan of the seed *)
(* harness (internal/simharness/run.go), against a replicated log that     *)
(* changes leaders.                                                        *)
(*                                                                         *)
(* A client has one logical operation at a time.  It submits the operation *)
(* to one target after the other, each time as a new attempt, until one    *)
(* attempt is applied; after OperationTimeout it gives up waiting, and the *)
(* harness makes it try again under the same sequence number.              *)
(*                                                                         *)
(* Raft is here what its own module shows of it: one log, of which a       *)
(* leader change keeps the committed part and any prefix of the rest; a    *)
(* deposed leader that has not noticed and still accepts proposals; nodes  *)
(* that apply the committed entries one by one, and from the first again   *)
(* after a restart.                                                        *)
(***************************************************************************)
EXTENDS History, EventQueue

CONSTANTS
    ClientCount,            \* the clients are 1..ClientCount
    Inputs,                 \* client -> operation -> what the generator may draw: [op, key]
    Targets,                \* sequence of nodes
    OperationsPerClient, OperationTimeout, RetryDelay, ThinkTime,
    RetryScanInterval, Duration,
    MaxTerm, MaxLog, MaxRestarts    \* bounds on the log's changes

ASSUME ConfigAssumption ==
    /\ ClientCount \in Nat \ {0} /\ Client = 1..ClientCount
    /\ Targets # <<>>
    /\ OperationsPerClient \in Nat \ {0}
    /\ OperationTimeout \in Nat \ {0} /\ RetryDelay \in Nat \ {0} /\ ThinkTime \in Nat
    /\ RetryScanInterval \in Nat \ {0} /\ Duration \in Nat

VARIABLES
    now,        \* virtual time
    queue,      \* the scheduled workload events
    clients,    \* client -> its session
    recorder,   \* the history
    pending,    \* <<node, index>> -> the accepted attempts that wait there
    byAttempt,  \* attempt -> where it waits
    failed,     \* a handler returned an error
    log,        \* the replicated log: [term, command]
    commit, leader, term,
    deposed,    \* node -> the term and last index it still leads with, if it does
    machines,   \* node -> its state machine
    restarts

host == <<log, commit, leader, term, deposed, machines, restarts>>
vars == <<now, queue, clients, recorder, pending, byAttempt, failed, host>>

Node == {Targets[i] : i \in DOMAIN Targets}

NoOperation == [seq |-> 0]
NotDeposed == [term |-> 0, last |-> 0]

AttemptID(c, op) == [client |-> c, seq |-> op.seq, attempt |-> op.attempt]

Schedule(q, at, kind, id, rest) ==
    q \cup {[time |-> at, seq |-> NextSeq(q, at), kind |-> kind, id |-> id] @@ rest}

NewClient(c) ==
    [nextSeq |-> 1, generated |-> 0, completed |-> 0,
     targetCursor |-> (c - 1) % Len(Targets), active |-> NoOperation]

StartID(c) == [client |-> c, seq |-> 0, attempt |-> 0]

Init ==
    /\ now = 0
    /\ queue = {[time |-> 0, seq |-> c, kind |-> "Start", id |-> StartID(c)] : c \in Client}
    /\ clients = [c \in Client |-> NewClient(c)]
    /\ recorder = NewRecorder
    /\ pending = <<>> /\ byAttempt = <<>>
    /\ failed = FALSE
    /\ log = <<>> /\ commit = 0
    /\ leader \in Node /\ term = 1
    /\ deposed = [n \in Node |-> NotDeposed]
    /\ machines = [n \in Node |-> New]
    /\ restarts = 0

-----------------------------------------------------------------------------
\* The simulator's side.

\* registerWorkloadAttempt.
Register(node, index, t, id) ==
    LET key == <<node, index>>
        there == IF key \in DOMAIN pending THEN pending[key] ELSE <<>>
    IN  /\ pending' = (key :> Append(there, [id |-> id, term |-> t])) @@ pending
        /\ byAttempt' = (id :> key) @@ byAttempt

\* mutant: forgets the attempt but leaves it among those that wait
CancelledByAttempt(id) ==
    /\ byAttempt' = Restrict(byAttempt, DOMAIN byAttempt \ {id})
    /\ UNCHANGED pending

\* cancelWorkloadAttempt.
Cancel(id) ==
    IF id \notin DOMAIN byAttempt THEN UNCHANGED <<pending, byAttempt>>
    ELSE LET key == byAttempt[id]
             kept == SelectSeq(pending[key], LAMBDA p : p.id # id)
         IN  /\ byAttempt' = Restrict(byAttempt, DOMAIN byAttempt \ {id})
             /\ pending' = IF kept = <<>> THEN Restrict(pending, DOMAIN pending \ {key})
                           ELSE [pending EXCEPT ![key] = kept]

\* mutant: whatever was applied at the index answers the attempt
AnsweredAnyTerm(p, entry, output) == [kind |-> "Applied", output |-> output]

\* An attempt has its answer if the entry applied is the one it proposed.
Answered(p, entry, output) ==
    IF entry.term = p.term THEN [kind |-> "Applied", output |-> output]
    ELSE [kind |-> "LeadershipLost", output |-> EmptyResult]

\* observeWorkloadApply: one event at this time for every attempt that waits
\* for the index on the node.
Observe(node, index, entry, output) ==
    LET key == <<node, index>>
        there == IF key \in DOMAIN pending THEN pending[key] ELSE <<>>
        Event(i) == [time |-> now, seq |-> NextSeq(queue, now) + i - 1, id |-> there[i].id]
                        @@ Answered(there[i], entry, output)
    IN  /\ pending' = Restrict(pending, DOMAIN pending \ {key})
        /\ byAttempt' = Restrict(byAttempt, DOMAIN byAttempt \ {there[i].id : i \in DOMAIN there})
        /\ queue' = queue \cup {Event(i) : i \in DOMAIN there}

\* Submit of the host: an unavailable or following node answers NotLeader,
\* the leader appends, a deposed leader appends what will be lost.
NotLeader == UNCHANGED <<pending, byAttempt, log, deposed>>

LeaderAccepts(node, id, command) ==
    /\ node = leader /\ Len(log) < MaxLog
    /\ log' = Append(log, [term |-> term, command |-> command])
    /\ Register(node, Len(log) + 1, term, id)
    /\ UNCHANGED deposed

DeposedAccepts(node, id) ==
    /\ deposed[node] # NotDeposed /\ deposed[node].last < MaxLog
    /\ deposed' = [deposed EXCEPT ![node].last = @ + 1]
    /\ Register(node, deposed[node].last + 1, deposed[node].term, id)
    /\ UNCHANGED log

-----------------------------------------------------------------------------
\* The runner.

\* mutant: lets a retry fall on the deadline
RetryOnDeadline(q, c, op) ==
    IF now + RetryDelay > op.deadline THEN q
    ELSE Schedule(q, now + RetryDelay, "Retry", AttemptID(c, op), <<>>)

\* scheduleRetry.
ScheduleRetry(q, c, op) ==
    IF now + RetryDelay >= op.deadline THEN q
    ELSE Schedule(q, now + RetryDelay, "Retry", AttemptID(c, op), <<>>)

\* A new deadline, and scheduleDeadline for it.
Armed(op) == [op EXCEPT !.deadline = now + OperationTimeout, !.generation = @ + 1]

ScheduleDeadline(q, c, op) ==
    Schedule(q, op.deadline, "Deadline", [client |-> c, seq |-> op.seq, attempt |-> 0],
             [generation |-> op.generation])

\* submit: client c, now cl with its operation op, submits one more attempt to
\* its next target.  q is the queue so far.
Submit(c, cl, op, q) ==
    LET target == Targets[cl.targetCursor + 1]
        tried == [op EXCEPT !.attempt = @ + 1, !.waiting = TRUE]
        given == [tried EXCEPT !.waiting = FALSE]
        Client2(o) == [cl EXCEPT !.targetCursor = (@ + 1) % Len(Targets), !.active = o]
    IN  \/ /\ \/ LeaderAccepts(target, AttemptID(c, tried), op.command)
              \/ DeposedAccepts(target, AttemptID(c, tried))
           /\ clients' = [clients EXCEPT ![c] = Client2(tried)]
           /\ queue' = q
        \/ /\ NotLeader
           /\ clients' = [clients EXCEPT ![c] = Client2(given)]
           /\ queue' = ScheduleRetry(q, c, given)

\* The events below change neither time nor, but for a submission, the host.
HostUnchanged == UNCHANGED <<commit, leader, term, machines, restarts>>
NothingSubmitted == UNCHANGED <<log, deposed>>
NothingWaits == UNCHANGED <<pending, byAttempt>>

\* handleWorkloadEvent: the event is next, it is due, and no error stopped
\* the run.
Due(ev, kind) ==
    /\ ev.kind = kind /\ ev.time = now /\ First(queue, ev)
    /\ ~ failed
    /\ UNCHANGED now /\ HostUnchanged

\* A handler that ignores its event or returns an error leaves everything.
Dropped(ev, err) ==
    /\ queue' = queue \ {ev}
    /\ failed' = err
    /\ NothingSubmitted /\ NothingWaits
    /\ UNCHANGED <<clients, recorder>>

\* Next of the generator, and commandFor.
CommandFor(c, seq, input) ==
    [op |-> input.op, key |-> input.key, client |-> c, seq |-> seq,
     value |-> IF input.op = "PUT" THEN <<c, seq>> ELSE Absent]

HandleStart ==
    \E ev \in queue :
        LET c == ev.id.client
            cl == clients[c]
        IN  /\ Due(ev, "Start")
            /\ IF cl.active # NoOperation THEN Dropped(ev, TRUE)
               ELSE IF cl.generated >= OperationsPerClient THEN Dropped(ev, FALSE)
               ELSE \E input \in Inputs[c][cl.nextSeq] :
                        LET command == CommandFor(c, cl.nextSeq, input)
                            invoked == Invoke(recorder, c, cl.nextSeq, now, command)
                            op == Armed([seq |-> cl.nextSeq, command |-> command, deadline |-> 0,
                                         generation |-> 0, attempt |-> 0,
                                         waiting |-> FALSE, timedOut |-> FALSE])
                        IN  IF invoked.err THEN Dropped(ev, TRUE)
                            ELSE /\ recorder' = invoked.recorder
                                 /\ failed' = FALSE
                                 /\ Submit(c, [cl EXCEPT !.generated = @ + 1], op,
                                           ScheduleDeadline(queue \ {ev}, c, op))

\* mutant: a timed-out operation resumes under its old deadline
ResumedUnarmed(op) == [op EXCEPT !.timedOut = FALSE]

\* The operation a retry resumes: a timed-out one gets a new deadline.
Resumed(op) == IF op.timedOut THEN Armed([op EXCEPT !.timedOut = FALSE]) ELSE op

\* A retry's event names the attempt that failed, or none when the harness
\* asks for it.
HandleRetry ==
    \E ev \in queue :
        LET c == ev.id.client
            cl == clients[c]
            op == cl.active
            relevant == /\ op # NoOperation /\ ev.id.seq \in {0, op.seq}
                        /\ ev.id.attempt \in {0, op.attempt}
                        /\ ~ op.waiting
        IN  /\ Due(ev, "Retry")
            /\ IF ~ relevant THEN Dropped(ev, FALSE)
               ELSE IF Retry(recorder, c, op.seq).err THEN Dropped(ev, TRUE)
               ELSE LET resumed == Resumed(op)
                        q == queue \ {ev}
                    IN  /\ UNCHANGED <<recorder, failed>>
                        /\ Submit(c, cl, resumed,
                                  IF resumed.generation # op.generation
                                  THEN ScheduleDeadline(q, c, resumed) ELSE q)

HandleDeadline ==
    \E ev \in queue :
        LET c == ev.id.client
            op == clients[c].active
        IN  /\ Due(ev, "Deadline")
            /\ IF op = NoOperation \/ ev.id.seq # op.seq \/ ev.generation # op.generation
               THEN Dropped(ev, FALSE)
               ELSE /\ IF op.waiting THEN Cancel(AttemptID(c, op)) ELSE NothingWaits
                    /\ failed' = Timeout(recorder, c, op.seq, now).err
                    /\ clients' = IF failed' THEN clients
                                  ELSE [clients EXCEPT ![c].active.waiting = FALSE,
                                                       ![c].active.timedOut = TRUE]
                    /\ queue' = queue \ {ev}
                    /\ NothingSubmitted
                    /\ UNCHANGED recorder

MatchesWaitingAttempt(op, id) ==
    op # NoOperation /\ op.waiting /\ id.seq = op.seq /\ id.attempt = op.attempt

\* mutant: the next operation reuses the sequence number
FinishedSameSeq(cl) == [cl EXCEPT !.completed = @ + 1, !.active = NoOperation]

Finished(cl) ==
    [cl EXCEPT !.completed = @ + 1, !.nextSeq = @ + 1, !.active = NoOperation]

HandleApplied ==
    \E ev \in queue :
        LET c == ev.id.client
            cl == clients[c]
            q == queue \ {ev}
        IN  /\ Due(ev, "Applied")
            /\ IF ~ MatchesWaitingAttempt(cl.active, ev.id) THEN Dropped(ev, FALSE)
               ELSE LET completed == Complete(recorder, c, cl.active.seq, now, ev.output)
                    IN  IF completed.err THEN Dropped(ev, TRUE)
                        ELSE /\ recorder' = completed.recorder
                             /\ failed' = FALSE
                             /\ clients' = [clients EXCEPT ![c] = Finished(cl)]
                             /\ queue' = IF cl.generated < OperationsPerClient
                                         THEN Schedule(q, now + ThinkTime, "Start", StartID(c), <<>>)
                                         ELSE q
                             /\ NothingSubmitted /\ NothingWaits

HandleLeadershipLost ==
    \E ev \in queue :
        LET c == ev.id.client
            lost == [clients[c].active EXCEPT !.waiting = FALSE]
        IN  /\ Due(ev, "LeadershipLost")
            /\ IF ~ MatchesWaitingAttempt(clients[c].active, ev.id) THEN Dropped(ev, FALSE)
               ELSE /\ clients' = [clients EXCEPT ![c].active = lost]
                    /\ queue' = ScheduleRetry(queue \ {ev}, c, lost)
                    /\ NothingSubmitted /\ NothingWaits
                    /\ UNCHANGED <<recorder, failed>>

-----------------------------------------------------------------------------
\* The harness and the cluster.

TimedOut(c) == clients[c].active # NoOperation /\ clients[c].active.timedOut

\* RunSeed: time goes on when everything due has been handled; at the end of
\* a slice every timed-out client is made to retry.
Advance ==
    /\ \A ev \in queue : ev.time > now
    /\ now < Duration
    /\ now' = now + 1
    /\ queue' = IF now > 0 /\ now % RetryScanInterval = 0
                THEN queue \cup {[time |-> now + 1, seq |-> NextSeq(queue, now + 1) + c, kind |-> "Retry",
                                  id |-> [client |-> c, seq |-> clients[c].active.seq, attempt |-> 0]] :
                                    c \in {d \in Client : TimedOut(d)}}
                ELSE queue
    /\ UNCHANGED <<clients, recorder, pending, byAttempt, failed, host>>

\* A new leader keeps what is committed and any prefix of the rest, and
\* appends its no-op.  The old leader may not notice.
Elect ==
    \E n \in Node, keep \in commit..Len(log), notices \in BOOLEAN :
        /\ term < MaxTerm /\ keep < MaxLog
        /\ term' = term + 1
        /\ leader' = n
        /\ log' = Append(SubSeq(log, 1, keep), [term |-> term + 1, command |-> [op |-> "NOOP"]])
        /\ deposed' = [deposed EXCEPT
                ![leader] = IF notices THEN NotDeposed ELSE [term |-> term, last |-> Len(log)],
                ![n] = NotDeposed]
        /\ UNCHANGED <<now, queue, clients, recorder, pending, byAttempt, failed,
                       commit, machines, restarts>>

\* Everything up to an entry of the leader's own term.
Commit ==
    \E index \in (commit + 1)..Len(log) :
        /\ log[index].term = term
        /\ commit' = index
        /\ UNCHANGED <<now, queue, clients, recorder, pending, byAttempt, failed,
                       log, leader, term, deposed, machines, restarts>>

\* A node applies its next committed entry.  Whoever has an entry of a later
\* term no longer leads.
Apply ==
    \E n \in Node :
        LET index == machines[n].applied + 1
        IN  /\ index <= commit
            /\ Observe(n, index, log[index], Answer(machines[n], log[index].command))
            /\ machines' = [machines EXCEPT ![n] = ApplyEntry(@, log[index].command)]
            /\ deposed' = IF log[index].term > deposed[n].term
                          THEN [deposed EXCEPT ![n] = NotDeposed] ELSE deposed
            /\ UNCHANGED <<now, clients, recorder, failed, log, commit, leader, term, restarts>>

\* A restarted node replays the log into an empty state machine; the attempts
\* that wait on it stay.
Restart ==
    \E n \in Node \ {leader} :
        /\ restarts < MaxRestarts
        /\ restarts' = restarts + 1
        /\ machines' = [machines EXCEPT ![n] = New]
        /\ deposed' = [deposed EXCEPT ![n] = NotDeposed]
        /\ UNCHANGED <<now, queue, clients, recorder, pending, byAttempt, failed,
                       log, commit, leader, term>>

Next ==
    \/ HandleStart \/ HandleRetry \/ HandleDeadline \/ HandleApplied \/ HandleLeadershipLost
    \/ Advance \/ Elect \/ Commit \/ Apply \/ Restart

Spec == Init /\ [][Next]_vars

-----------------------------------------------------------------------------
(* Linearizable: what the clients were told can be explained by executing   *)
(* every operation once, between its call and its return: the verdict that *)
(* checker.Check gives on the recorded history, across lost attempts,      *)
(* retries under the same number, leader changes and replays.              *)
Linearizable == Check(recorder.history)

Deadlines(c, op) ==
    {ev \in queue : /\ ev.kind = "Deadline" /\ ev.id.client = c /\ ev.id.seq = op.seq
                    /\ ev.generation = op.generation}

(* DeadlineArmed: an operation that is not timed out has exactly one        *)
(* deadline event of its current generation in the queue, at its deadline,  *)
(* so no operation waits for ever; a timed-out one has none left, so no     *)
(* old deadline cuts short the attempt that resumes it                      *)
(* (scheduleDeadline, handleDeadline).                                      *)
DeadlineArmed ==
    \A c \in Client :
        LET op == clients[c].active
        IN  op # NoOperation =>
                IF op.timedOut THEN Deadlines(c, op) = {}
                ELSE \E ev \in queue : Deadlines(c, op) = {ev} /\ ev.time = op.deadline

Waiting(id) == MatchesWaitingAttempt(clients[id.client].active, id)

Answers(id) == {ev \in queue : ev.kind \in {"Applied", "LeadershipLost"} /\ ev.id = id}

(* WaitingTracked: an attempt the client waits for is registered with the  *)
(* simulator, at the one place byAttempt names, or its answer is in the    *)
(* queue, and never both; nothing else is registered.  So a wait is always *)
(* ended by the apply loop or by the deadline, and a cancelled or answered *)
(* attempt leaves nothing behind (registerWorkloadAttempt,                 *)
(* cancelWorkloadAttempt, observeWorkloadApply).                           *)
WaitingTracked ==
    /\ \A key \in DOMAIN pending : \A i \in DOMAIN pending[key] :
            LET id == pending[key][i].id
            IN  /\ id \in DOMAIN byAttempt /\ byAttempt[id] = key
                /\ \A j \in DOMAIN pending[key] : pending[key][j].id = id => i = j
    /\ \A id \in DOMAIN byAttempt :
            /\ byAttempt[id] \in DOMAIN pending
            /\ \E i \in DOMAIN pending[byAttempt[id]] : pending[byAttempt[id]][i].id = id
            /\ Waiting(id) /\ Answers(id) = {}
    /\ \A c \in Client :
            LET op == clients[c].active
            IN  op # NoOperation /\ op.waiting =>
                    \/ AttemptID(c, op) \in DOMAIN byAttempt
                    \/ Cardinality(Answers(AttemptID(c, op))) = 1

Starts(c) == {ev \in queue : ev.kind = "Start" /\ ev.id.client = c}

(* SessionsAgree: the runner and the history recorder never disagree about *)
(* what a client does, so no handler ever returns an error: the operation  *)
(* that is active is the one the recorder has open, the numbers the client *)
(* used are 1 to nextSeq - 1, and a client is idle with more to do exactly *)
(* when its one Start event is in the queue (handleStart, handleApplied).  *)
SessionsAgree ==
    /\ ~ failed
    /\ \A c \in Client :
        LET cl == clients[c]
            idle == cl.active = NoOperation
        IN  /\ idle <=> recorder.active[c] = 0
            /\ ~ idle => /\ IsActive(recorder, c, cl.active.seq)
                         /\ cl.active.seq = cl.nextSeq
                         /\ recorder.history[recorder.active[c]].client = c
            /\ cl.completed = cl.nextSeq - 1
            /\ cl.generated = cl.completed + (IF idle THEN 0 ELSE 1)
            /\ cl.generated = Cardinality({i \in DOMAIN recorder.history : recorder.history[i].client = c})
            /\ Cardinality(Starts(c)) = IF idle /\ cl.generated < OperationsPerClient THEN 1 ELSE 0

(* TimeoutHolds: a timed-out operation stays timed out until a retry that  *)
(* the harness scheduled for it: no retry of the runner's own falls on or   *)
(* behind the deadline and revives it, and no late answer completes it     *)
(* (scheduleRetry, handleDeadline, handleApplied).                         *)
TimeoutHolds ==
    [][\A c \in Client :
        TimedOut(c) => \/ clients'[c] = clients[c]
                       \/ \E ev \in queue : /\ ev.kind = "Retry" /\ ev.id.client = c /\ ev.id.attempt = 0
                                            /\ ev \notin queue']_vars
=============================================================================
