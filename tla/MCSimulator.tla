----------------------------- MODULE MCSimulator -----------------------------
EXTENDS Simulator

CONSTANTS none, v, Until

MCValue == {v}
MCSaveDraws == <<{1}>>

Generated == GenerateFaultSchedule(Until)

\* The generator only returns schedules NewFaultSim accepts.
ASSUME GeneratedAreValid == \A s \in Generated : ValidateForCluster(s)

\* Written by hand: crashes of the file systems with and without a restart, on
\* the way to a restart too, with a kill and restarts asked for by the caller, a
\* slow clock, and an error of a state machine ...
ScriptedLSM ==
    LET lsm(restart) == {[node |-> 1, occurrence |-> 1, restart |-> restart],
                         [node |-> 1, occurrence |-> 2, restart |-> TRUE]}
        pushed == <<[time |-> 0, kind |-> "Crash", node |-> 2],
                    [time |-> 1, kind |-> "Restart", node |-> 2],
                    [time |-> 1, kind |-> "Restart", node |-> 1]>>
    IN  {[faults |-> [version |-> 0, events |-> <<ClockSkew(0, 1, MinMultiplier)>>,
                      crashes |-> {}, lsm |-> lsm(restart)],
          pushed |-> pushed, errors |-> 1] : restart \in BOOLEAN}

\* ... and a storage that dies twice, a torn record behind it, while clients write
\* and messages are repeated, the other node paused meanwhile.
ScriptedStorage ==
    {[faults |-> [version |-> 0, lsm |-> {},
                  events |-> <<DuplicateRate(0, 1), NodeFault(0, "Pause", 2), NodeFault(2, "Resume", 2)>>,
                  crashes |-> {[node |-> 1, save |-> 1, point |-> "BeforeSync", retain |-> retain,
                                restart |-> TRUE],
                               [node |-> 1, save |-> 3, point |-> point, retain |-> 0,
                                restart |-> FALSE]}],
      pushed |-> <<[time |-> 0, kind |-> "Workload", node |-> 1],
                   [time |-> 1, kind |-> "Workload", node |-> 1]>>, errors |-> 0] :
        retain \in {1, 3}, point \in {"BeforeSync", "AfterSync"}}

\* Of the faults that are not paired, the loss of messages from the start; of the
\* two orders of a split's groups, one.
Explored(s) ==
    LET solo == s.events[2 * PairCount + 1]
    IN  /\ solo = DropRate(0, 1)
        /\ \A i \in 1..Len(s.events) :
            s.events[i].kind = "PartitionGroups" => 1 \in s.events[i].groups[1]

MCRuns ==
    {[faults |-> s, pushed |-> <<>>, errors |-> 0] : s \in {g \in Generated : Explored(g)}}
    \cup ScriptedLSM \cup ScriptedStorage

-----------------------------------------------------------------------------
\* The storage of every node keeps the promise the Raft core relies on, at
\* every crash point and with every prefix retained (CrashStorage).
Storage(n) == INSTANCE DurableLog WITH
    served <- stores[n].served, serving <- ~ stores[n].crashed, partial <- stores[n].partial
StorageDurable ==
    /\ \A n \in Node : Storage(n)!Init
    /\ [][\A n \in Node : UNCHANGED Storage(n)!vars \/ Storage(n)!Next]_vars
=============================================================================
