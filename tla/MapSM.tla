-------------------------------- MODULE MapSM --------------------------------
(***************************************************************************)
(* The replicated state machine as its host sees it, in its in-memory      *)
(* implementation mapsm: the committed entries are applied one by one, and *)
(* a restart of the process starts again from nothing, with the whole log  *)
(* to apply anew.                                                          *)
(***************************************************************************)
EXTENDS KVCommands

CONSTANT Logs       \* the committed logs considered

VARIABLES
    log,        \* the committed entries; Raft never changes one
    values,     \* key -> value
    dedup,      \* client -> [lastSeq, lastResult]
    applied     \* the index of the last entry applied

vars == <<log, values, dedup, applied>>

state == [values |-> values, dedup |-> dedup, applied |-> applied]

Init ==
    /\ log \in Logs
    /\ values = <<>> /\ dedup = <<>> /\ applied = 0

Become(sm) == values' = sm.values /\ dedup' = sm.dedup /\ applied' = sm.applied

Apply ==
    /\ applied < Len(log)
    /\ Become(ApplyEntry(state, log[applied + 1]))
    /\ UNCHANGED log

Restart == Become(New) /\ UNCHANGED log

Next == Apply \/ Restart

Spec == Init /\ [][Next]_vars
=============================================================================
