------------------------------ MODULE Simulator ------------------------------
(***************************************************************************)
(* The deterministic simulator (sim/sim.go, sim/ready.go, sim/event.go):   *)
(* one event queue ordered by virtual time, and nodes that tick, receive,  *)
(* die and are rebuilt as its events say.  Every event is one action, with *)
(* the whole Ready batch it leads to: save, send, apply.                   *)
(*                                                                         *)
(* The Raft core is left to Raft.tla: a Ready is any batch to store and    *)
(* any set of peers to write to, and it may or may not apply an entry.     *)
(* A random draw is a choice.  What is applied, and the results, are left  *)
(* to KVServer and LSM.                                                    *)
(***************************************************************************)
EXTENDS CrashStorage, FaultSchedule, EventQueue

CONSTANTS
    Runs,           \* fault schedules, each with what the caller pushes before Run
                    \* and a bound on the errors of the state machines
    TickInterval,
    MinDelay, MaxDelay,
    Duration,       \* Run's until
    MaxEntries,     \* entries of one Ready
    MaxIndex        \* bound on the log of a node

ASSUME TimeAssumption ==
    /\ TickInterval \in Nat \ {0} /\ Duration \in Nat
    /\ MinDelay \in Nat \ {0} /\ MaxDelay \in Nat /\ MinDelay <= MaxDelay

\* The callers of the simulator push commands, crashes and restarts of nodes;
\* ticks are the simulator's own.
ASSUME PushedAssumption ==
    \A run \in Runs : \A i \in 1..Len(run.pushed) : run.pushed[i].kind # "Tick"

VARIABLES
    version,            \* of the fault schedule of this run
    now,                \* virtual time
    queue,              \* the set of pending events
    nodes,              \* per node: up, halted, generation, paused, multiplier
    stores,             \* per node: its CrashStorage
    partition,          \* the blocked links, as <<from, to>>
    dropRate, dupRate,
    restartAfterCrash,  \* the directives that ask for a restart and have not fired
    lsmRestartOnCrash,  \* the LSM directives that have not fired
    errors              \* errors the state machines may still meet

vars == <<version, now, queue, nodes, stores, partition, dropRate, dupRate,
          restartAfterCrash, lsmRestartOnCrash, errors>>

\* What only some of the handlers change.
faults == <<partition, dropRate, dupRate>>
crashes == <<restartAfterCrash, lsmRestartOnCrash>>

-----------------------------------------------------------------------------
\* The queue.

TickEvent(q, t, n, generation) ==
    [time |-> t, seq |-> NextSeq(q, t), kind |-> "Tick", node |-> n, generation |-> generation]
RestartEvent(q, t, n) == [time |-> t, seq |-> NextSeq(q, t), kind |-> "Restart", node |-> n]

\* Run pops the first event, up to and including Duration.
Pop(ev, kind) ==
    /\ ev.kind = kind
    /\ ev.time <= Duration
    /\ First(queue, ev)
    /\ now' = ev.time
    /\ UNCHANGED version

-----------------------------------------------------------------------------
\* Nodes.

Live(sn) == sn.up /\ ~ sn.halted

\* mutant: a paused node's clock is frozen with it
FrozenTickDelay(sn) == IF sn.paused THEN 0 ELSE TickInterval

NextTickDelay(sn) ==
    LET m == IF sn.multiplier = 0 THEN 2 ELSE sn.multiplier
        scaled == (4 * TickInterval + m) \div (2 * m)
    IN  IF scaled < 1 THEN 1 ELSE scaled

InvalidateTickStream(sn) == [sn EXCEPT !.generation = @ + 1]

MarkProcessCrashed(sn) ==
    [InvalidateTickStream(sn) EXCEPT !.up = FALSE, !.halted = FALSE, !.paused = FALSE]

\* mutant: the pending tick of the process keeps its generation
HaltedKeepsTicks(sn) == [sn EXCEPT !.halted = TRUE]

MarkProcessHalted(sn) ==
    [(IF sn.halted THEN sn ELSE InvalidateTickStream(sn)) EXCEPT !.halted = TRUE]

ReplaceProcess(sn) == [InvalidateTickStream(sn) EXCEPT !.up = TRUE, !.halted = FALSE]

\* handleTick and handleRestart schedule the next tick of a node that lives.
WithTick(q, t, n, sn) ==
    IF Live(sn) THEN q \cup {TickEvent(q, t + NextTickDelay(sn), n, sn.generation)} ELSE q

-----------------------------------------------------------------------------
\* Crashes and the restarts they cause.

\* scheduleRestartAfterStorageCrash: the directive that fired, consumed.
FiredDirectives(n, cs) ==
    {d \in restartAfterCrash : d.node = n /\ d.save = cs.last.save /\ d.point = cs.last.point}

\* mutant: the restart is only scheduled for crashes inside Save
RestartedUnlessSent(q, t, n, cs) ==
    IF FiredDirectives(n, cs) = {} \/ cs.last.point = "AfterSend" THEN q
    ELSE q \cup {RestartEvent(q, t, n)}

RestartedAfterStorageCrash(q, t, n, cs) ==
    IF FiredDirectives(n, cs) = {} THEN q ELSE q \cup {RestartEvent(q, t, n)}

StorageCrash(n, q, t, cs) ==
    /\ stores' = [stores EXCEPT ![n] = cs]
    /\ nodes' = [nodes EXCEPT ![n] = MarkProcessCrashed(@)]
    /\ queue' = RestartedAfterStorageCrash(q, t, n, cs)
    /\ restartAfterCrash' = restartAfterCrash \ FiredDirectives(n, cs)
    /\ UNCHANGED <<lsmRestartOnCrash, faults, errors>>

\* handleLSMProcessCrash: directive d fired; the storage of the log lives on.
LSMCrash(n, q, t, sn, cs, d) ==
    /\ stores' = [stores EXCEPT ![n] = cs]
    /\ nodes' = [nodes EXCEPT ![n] = MarkProcessCrashed(sn)]
    /\ queue' = IF d.restart THEN q \cup {RestartEvent(q, t, n)} ELSE q
    /\ lsmRestartOnCrash' = lsmRestartOnCrash \ {d}
    /\ UNCHANGED <<restartAfterCrash, faults, errors>>

Halt(n, q, sn, cs) ==
    /\ stores' = [stores EXCEPT ![n] = cs]
    /\ nodes' = [nodes EXCEPT ![n] = MarkProcessHalted(sn)]
    /\ queue' = q
    /\ UNCHANGED <<crashes, faults>>

-----------------------------------------------------------------------------
\* processReady.

Readies(n) ==
    LET last == Len(stores[n].view.entries)
    IN  {NothingToSave(last)} \cup
        {r \in Requests(last, Value, MaxEntries) : r.first + Len(r.entries) <= MaxIndex + 1}

\* scheduleMessage: the copies of a message that are enqueued.
Copies == {{1}} \cup (IF dropRate > 0 THEN {{}} ELSE {}) \cup (IF dupRate > 0 THEN {{1, 2}} ELSE {})

\* enqueueMessage: every copy is delayed on its own.
Sent(q, t, n, to, copies, delay) ==
    q \cup {[time |-> t + delay[c], seq |-> NextSeq(q, t + delay[c]) + 2 * c[1] + c[2],
             kind |-> "Message", from |-> n, to |-> c[1]] :
               c \in {d \in to \X {1, 2} : d[2] \in copies[d[1]]}}

\* The batch was saved and sent: its entries are applied, and a tick handler
\* schedules the next tick.
Apply(n, q, t, cs, ticking) ==
    \/ /\ stores' = [stores EXCEPT ![n] = cs]
       /\ queue' = IF ticking THEN WithTick(q, t, n, nodes[n]) ELSE q
       /\ UNCHANGED <<nodes, crashes, faults, errors>>
    \/ \E d \in lsmRestartOnCrash : d.node = n /\ LSMCrash(n, q, t, nodes[n], cs, d)
    \/ errors > 0 /\ errors' = errors - 1 /\ Halt(n, q, nodes[n], cs)

ProcessReady(n, q, t, ticking) ==
    \E r \in Readies(n) :
        LET saved == Save(stores[n], r)
        IN  IF saved.err THEN StorageCrash(n, q, t, saved.cs)
            ELSE \E to \in {{}, Node \ {n}} :
                 \E copies \in [to -> Copies], delay \in [to \X {1, 2} -> MinDelay..MaxDelay] :
                    LET sent == Sent(q, t, n, to, copies, delay)
                    IN  IF saved.cs.armed # 0 THEN StorageCrash(n, sent, t, CrashArmed(saved.cs))
                        ELSE Apply(n, sent, t, saved.cs, ticking)

-----------------------------------------------------------------------------
\* The handlers.

\* An event without effect.
Skip(q) == queue' = q /\ UNCHANGED <<nodes, stores, crashes, faults, errors>>

CrashNode(n, q) ==
    /\ stores' = [stores EXCEPT ![n] = CrashHost(@)]
    /\ nodes' = [nodes EXCEPT ![n] = MarkProcessCrashed(@)]
    /\ queue' = q
    /\ UNCHANGED <<crashes, faults, errors>>

RestartNode(n, q, t) ==
    LET cs == IF stores[n].crashed THEN Recover(stores[n]) ELSE stores[n]
        sn == ReplaceProcess(nodes[n])
    IN  IF Live(nodes[n]) THEN Skip(q)
        ELSE IF ~ cs.view.ok THEN Halt(n, q, nodes[n], stores[n]) /\ UNCHANGED errors
        ELSE \/ /\ stores' = [stores EXCEPT ![n] = cs]
                /\ nodes' = [nodes EXCEPT ![n] = sn]
                /\ queue' = WithTick(q, t, n, sn)
                /\ UNCHANGED <<crashes, faults, errors>>
             \/ \E d \in lsmRestartOnCrash : d.node = n /\ LSMCrash(n, q, t, sn, cs, d)
             \/ errors > 0 /\ errors' = errors - 1 /\ Halt(n, q, sn, cs)

TickIsStale(ev) == ev.generation # nodes[ev.node].generation

HandleTick ==
    \E ev \in queue :
        LET n == ev.node
            q == queue \ {ev}
        IN  /\ Pop(ev, "Tick")
            /\ IF TickIsStale(ev) \/ ~ Live(nodes[n]) THEN Skip(q)
               ELSE IF nodes[n].paused THEN Skip(WithTick(q, ev.time, n, nodes[n]))
               ELSE ProcessReady(n, q, ev.time, TRUE)

HandleMessage ==
    \E ev \in queue :
        /\ Pop(ev, "Message")
        /\ IF \/ <<ev.from, ev.to>> \in partition
              \/ ~ Live(nodes[ev.to])
              \/ nodes[ev.to].paused
           THEN Skip(queue \ {ev})
           ELSE ProcessReady(ev.to, queue \ {ev}, ev.time, FALSE)

\* A client's command; a node that is down or paused refuses it.
Propose ==
    \E ev \in queue :
        /\ Pop(ev, "Workload")
        /\ IF ~ Live(nodes[ev.node]) \/ nodes[ev.node].paused THEN Skip(queue \ {ev})
           ELSE ProcessReady(ev.node, queue \ {ev}, ev.time, FALSE)

HandleCrash == \E ev \in queue : Pop(ev, "Crash") /\ CrashNode(ev.node, queue \ {ev})
HandleRestart ==
    \E ev \in queue : Pop(ev, "Restart") /\ RestartNode(ev.node, queue \ {ev}, ev.time)

-----------------------------------------------------------------------------
\* applyFault, for the kinds of fault given.

PopFault(ev, kinds) == Pop(ev, "Fault") /\ ev.fault.kind \in kinds

SetDropRate ==
    \E ev \in queue :
        /\ PopFault(ev, {"DropRate"}) /\ queue' = queue \ {ev}
        /\ dropRate' = ev.fault.rate
        /\ UNCHANGED <<nodes, stores, partition, dupRate, crashes, errors>>

SetDuplicateRate ==
    \E ev \in queue :
        /\ PopFault(ev, {"DuplicateRate"}) /\ queue' = queue \ {ev}
        /\ dupRate' = ev.fault.rate
        /\ UNCHANGED <<nodes, stores, partition, dropRate, crashes, errors>>

\* PartitionGroups and HealGroups: both directions between every two groups.
CrossLinks(groups) ==
    {l \in Node \X Node : \E g, h \in 1..Len(groups) :
        g # h /\ l[1] \in groups[g] /\ l[2] \in groups[h]}

Links(f) == IF f.kind \in {"Partition", "Heal"} THEN {<<f.from, f.to>>} ELSE CrossLinks(f.groups)

Partition ==
    \E ev \in queue :
        /\ PopFault(ev, {"Partition", "PartitionGroups"}) /\ queue' = queue \ {ev}
        /\ partition' = partition \cup Links(ev.fault)
        /\ UNCHANGED <<nodes, stores, dropRate, dupRate, crashes, errors>>

Heal ==
    \E ev \in queue :
        /\ PopFault(ev, {"Heal", "HealGroups"}) /\ queue' = queue \ {ev}
        /\ partition' = partition \ Links(ev.fault)
        /\ UNCHANGED <<nodes, stores, dropRate, dupRate, crashes, errors>>

PauseResume ==
    \E ev \in queue :
        /\ PopFault(ev, {"Pause", "Resume"}) /\ queue' = queue \ {ev}
        /\ nodes' = [nodes EXCEPT ![ev.fault.node].paused = ev.fault.kind = "Pause"]
        /\ UNCHANGED <<stores, faults, crashes, errors>>

SetClockSkew ==
    \E ev \in queue :
        /\ PopFault(ev, {"ClockSkew"}) /\ queue' = queue \ {ev}
        /\ nodes' = [nodes EXCEPT ![ev.fault.node].multiplier = ev.fault.multiplier]
        /\ UNCHANGED <<stores, faults, crashes, errors>>

FaultCrash ==
    \E ev \in queue : PopFault(ev, {"Crash"}) /\ CrashNode(ev.fault.node, queue \ {ev})
FaultRestart ==
    \E ev \in queue :
        PopFault(ev, {"Restart"}) /\ RestartNode(ev.fault.node, queue \ {ev}, ev.time)

-----------------------------------------------------------------------------
\* NewFaultSim: the first ticks, then the faults, then what the caller pushes.
InitialQueue(s, pushed) ==
    {[time |-> TickInterval, seq |-> n, kind |-> "Tick", node |-> n, generation |-> 0] : n \in Node}
    \cup {[time |-> s.events[i].time, seq |-> N + i, kind |-> "Fault", fault |-> s.events[i]] :
            i \in 1..Len(s.events)}
    \cup {[time |-> pushed[i].time, seq |-> N + Len(s.events) + i, kind |-> pushed[i].kind,
            node |-> pushed[i].node] : i \in 1..Len(pushed)}

Init ==
    /\ \E run \in Runs :
        /\ ValidateForCluster(run.faults)
        /\ version = run.faults.version
        /\ queue = InitialQueue(run.faults, run.pushed)
        /\ stores = [n \in Node |-> NewCrashStorage({d \in run.faults.crashes : d.node = n})]
        /\ restartAfterCrash = {d \in run.faults.crashes : d.restart}
        /\ lsmRestartOnCrash = run.faults.lsm
        /\ errors = run.errors
    /\ now = 0
    /\ nodes = [n \in Node |-> [up |-> TRUE, halted |-> FALSE, generation |-> 0,
                                paused |-> FALSE, multiplier |-> 0]]
    /\ partition = {} /\ dropRate = 0 /\ dupRate = 0

Next ==
    \/ HandleTick \/ HandleMessage \/ Propose \/ HandleCrash \/ HandleRestart
    \/ SetDropRate \/ SetDuplicateRate \/ Partition \/ Heal
    \/ PauseResume \/ SetClockSkew \/ FaultCrash \/ FaultRestart

\* Run takes the next event as long as there is one.
Spec == Init /\ [][Next]_vars /\ WF_vars(Next)

-----------------------------------------------------------------------------
\* Properties.

Ticks(n) == {e \in queue : e.kind = "Tick" /\ e.node = n /\ e.generation = nodes[n].generation}

\* A live node has exactly one tick coming, however it was crashed, stopped and
\* rebuilt: a second would make its clock run double, and none would stop it.
\* A node that is down has none (tickIsStale, invalidateTickStream).
OneTickStream ==
    \A n \in Node :
        IF Live(nodes[n]) THEN \E e \in Ticks(n) : Ticks(n) = {e} ELSE Ticks(n) = {}

\* A generated schedule ends with a healthy cluster: once its faults and the
\* restarts they caused are over, every node is up (fail-stopped at the most,
\* by an error of its state machine) and no fault is left
\* (the closing halves of the pairs, RestartAfterCrash, the recovery tail).
Recovered ==
    version = Version /\ ~ (\E e \in queue : e.kind \in {"Fault", "Restart"})
    => /\ \A n \in Node : /\ nodes[n].up /\ ~ nodes[n].paused /\ nodes[n].multiplier = 2
       /\ partition = {} /\ dropRate = 0 /\ dupRate = 0

\* What fault f finds when it opens something that is not open yet.  A node may
\* be down already only by its own directive, its restart about to happen.
Opens(f) ==
    CASE f.kind = "Pause" -> ~ nodes[f.node].paused
      [] f.kind = "Crash" -> \/ nodes[f.node].up
                             \/ \E e \in queue : /\ e.kind = "Restart" /\ e.node = f.node
                                                  /\ e.time = now
      [] f.kind \in {"Partition", "PartitionGroups"} -> Links(f) \cap partition = {}
      [] OTHER -> TRUE

\* Every fault a generated schedule opens is a real transition: no pause of a
\* paused node, no block of a blocked link, whatever pairs were drawn
\* (normalizeFaultPairTimes keeps the pairs apart).
OpensAreTransitions ==
    [][version = Version =>
        \A ev \in queue \ queue' : ev.kind = "Fault" => Opens(ev.fault)]_vars

\* Run reaches the end of its time: no handler keeps the queue busy at one
\* instant forever.
RunEnds == <>(\A e \in queue : e.time > Duration)
=============================================================================
