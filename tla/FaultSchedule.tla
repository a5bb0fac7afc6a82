---------------------------- MODULE FaultSchedule ----------------------------
(***************************************************************************)
(* Fault schedules (sim/faultschedule.go) and their generator              *)
(* (sim/faultgen.go).  A schedule is                                       *)
(*   version  the generator's, or 0 for one written by hand                *)
(*   events   the faults, each with its virtual time, in order             *)
(*   crashes  the crash directives of the nodes' storages                  *)
(*   lsm      the crash directives of the nodes' LSM file systems          *)
(* A rate is 0 or 1, 1 standing for any probability above zero; a          *)
(* multiplier counts halves, so 2 is the normal speed of a clock.  Which   *)
(* value a random draw returns is a choice: the generator is the set of    *)
(* the schedules it can return.                                            *)
(***************************************************************************)
EXTENDS Integers, Sequences, FiniteSets, SequencesExt, TLC

CONSTANTS
    N,              \* the nodes are 1..N
    PairCount,      \* pairs of faults a generated schedule opens and closes
    SoloCount,      \* faults it sets without closing them
    CrashCount,     \* crash directives
    SaveDraws       \* SaveDraws[i]: the Saves directive i may name

ASSUME NAssumption == N \in Nat \ {0}

Node == 1..N
Version == 5
MinMultiplier == 1
MaxMultiplier == 4

DropRate(t, rate) == [time |-> t, kind |-> "DropRate", rate |-> rate]
DuplicateRate(t, rate) == [time |-> t, kind |-> "DuplicateRate", rate |-> rate]
ClockSkew(t, n, m) == [time |-> t, kind |-> "ClockSkew", node |-> n, multiplier |-> m]
NodeFault(t, kind, n) == [time |-> t, kind |-> kind, node |-> n]
LinkFault(t, kind, from, to) == [time |-> t, kind |-> kind, from |-> from, to |-> to]
GroupFault(t, kind, groups) == [time |-> t, kind |-> kind, groups |-> groups]

-----------------------------------------------------------------------------
\* Validate and ValidateForCluster.

ValidPartitionGroups(groups) ==
    /\ Len(groups) >= 2
    /\ \A g \in 1..Len(groups) : groups[g] # {}
    /\ \A g, h \in 1..Len(groups) : g # h => groups[g] \cap groups[h] = {}

ValidEvent(e) ==
    /\ e.time >= 0
    /\ CASE e.kind \in {"DropRate", "DuplicateRate"} -> e.rate \in 0..1
         [] e.kind = "ClockSkew" -> e.multiplier \in MinMultiplier..MaxMultiplier
         [] e.kind \in {"Partition", "Heal"} -> e.from # e.to
         [] e.kind \in {"PartitionGroups", "HealGroups"} -> ValidPartitionGroups(e.groups)
         [] e.kind \in {"Pause", "Resume", "Crash", "Restart"} -> TRUE
         [] OTHER -> FALSE

ValidCrashDirectives(ds) ==
    /\ \A d \in ds : d.save > 0 /\ d.retain >= -1
                     /\ d.point \in {"BeforeSync", "AfterSync", "AfterSend"}
    /\ \A d, e \in ds : d.node = e.node /\ d.save = e.save => d = e

\* The file system operation a directive names is left to its occurrence.
ValidLSMCrashDirectives(ds) ==
    /\ \A d \in ds : d.occurrence > 0
    /\ \A d, e \in ds : d.node = e.node /\ d.occurrence = e.occurrence => d = e

Member(e) ==
    CASE e.kind \in {"Pause", "Resume", "ClockSkew", "Crash", "Restart"} -> e.node \in Node
      [] e.kind \in {"Partition", "Heal"} -> {e.from, e.to} \subseteq Node
      [] e.kind \in {"PartitionGroups", "HealGroups"} ->
            \A g \in 1..Len(e.groups) : e.groups[g] \subseteq Node
      [] OTHER -> TRUE

ValidateForCluster(s) ==
    /\ s.version \in {0, Version}
    /\ \A i \in 1..Len(s.events) : ValidEvent(s.events[i]) /\ Member(s.events[i])
    /\ ValidCrashDirectives(s.crashes)
    /\ ValidLSMCrashDirectives(s.lsm)
    /\ \A d \in s.crashes \cup s.lsm : d.node \in Node

-----------------------------------------------------------------------------
\* GenerateFaultSchedule.

RandTimePairs(until) ==
    {p \in (0..(until - 1)) \X (0..(until - 1)) :
        p[2] > p[1] \/ (p[1] = until - 1 /\ p[2] = p[1])}

RandomGroupSplits == {<<left, Node \ left>> : left \in SUBSET Node \ {{}, Node}}

\* What a pair opens and closes; only a cluster of two or more has links.
PairKinds ==
    LET pair(open, close) == [open |-> open, close |-> close]
    IN  {pair(NodeFault(0, "Pause", n), NodeFault(0, "Resume", n)) : n \in Node}
        \cup {pair(NodeFault(0, "Crash", n), NodeFault(0, "Restart", n)) : n \in Node}
        \cup {pair(LinkFault(0, "Partition", l[1], l[2]), LinkFault(0, "Heal", l[1], l[2])) :
                l \in {m \in Node \X Node : m[1] # m[2]}}
        \cup {pair(GroupFault(0, "PartitionGroups", g), GroupFault(0, "HealGroups", g)) :
                g \in RandomGroupSplits}

\* normalizeFaultPairTimes: the sorted endpoints, two to each pair in turn.
\* mutant: the pairs keep the times that were drawn for them
NormalizeKeepsTimes(times) == times

NormalizeFaultPairTimes(times) == SortSeq(times, <)

Pairs(until) ==
    {FlattenSeq([i \in 1..PairCount |->
        <<[kinds[i].open EXCEPT !.time = times[2 * i - 1]],
          [kinds[i].close EXCEPT !.time = times[2 * i]]>>]) :
       kinds \in [1..PairCount -> PairKinds],
       times \in {NormalizeFaultPairTimes(FlattenSeq(ts)) :
                    ts \in [1..PairCount -> RandTimePairs(until)]}}

Solos(until) ==
    {DropRate(t, 1) : t \in 0..(until - 1)} \cup {DuplicateRate(t, 1) : t \in 0..(until - 1)}
    \cup {ClockSkew(t, n, m) :
            t \in 0..(until - 1), n \in Node, m \in MinMultiplier..MaxMultiplier}

\* A crash before the sync keeps none, part or all of what was staged.
GeneratedUnsyncedRetention(point) == IF point = "BeforeSync" THEN {0, 1, 3, -1} ELSE {-1}

GeneratedDirectives(i) ==
    UNION {{[node |-> 1 + ((i - 1) % N), save |-> save, point |-> point, retain |-> retain,
             restart |-> TRUE] : retain \in GeneratedUnsyncedRetention(point)} :
                save \in SaveDraws[i], point \in {"BeforeSync", "AfterSync", "AfterSend"}}

\* The recovery tail: a clean network and true clocks.
RecoveryTail(until) ==
    <<DropRate(until, 0), DuplicateRate(until, 0)>> \o [n \in Node |-> ClockSkew(until, n, 2)]

GenerateFaultSchedule(until) ==
    {[version |-> Version, events |-> pairs \o solos \o RecoveryTail(until),
      crashes |-> {ds[i] : i \in 1..CrashCount}, lsm |-> {}] :
        pairs \in Pairs(until), solos \in [1..SoloCount -> Solos(until)],
        ds \in {f \in [1..CrashCount -> UNION {GeneratedDirectives(i) : i \in 1..CrashCount}] :
                  \A i \in 1..CrashCount : f[i] \in GeneratedDirectives(i)}}
=============================================================================
