------------------------------ MODULE KVCommands ------------------------------
(***************************************************************************)
(* What one committed entry does to a key/value state machine and what it  *)
(* returns: Apply of internal/statemachine/mapsm, as functions of the      *)
(* state.  The state is a key/value map, the last sequence number and      *)
(* result of every client, and the index applied.                          *)
(*                                                                         *)
(* A committed entry is a record with op NOOP, PUT, DELETE or GET; all but *)
(* NOOP carry a key, a client and the client's sequence number, a PUT also *)
(* a value.                                                                *)
(***************************************************************************)
EXTENDS Integers, Sequences, Functions, TLC

CONSTANT Absent     \* the value of a result that found nothing

EmptyResult == [value |-> Absent, found |-> FALSE]

\* Read, and what a GET returns.
ReadIn(vals, key) ==
    IF key \in DOMAIN vals THEN [value |-> vals[key], found |-> TRUE] ELSE EmptyResult

Duplicate(dups, c) == c.client \in DOMAIN dups /\ c.seq <= dups[c.client].lastSeq

\* execute: the map after a command, and the command's result.
Executed(vals, c) ==
    CASE c.op = "PUT" -> (c.key :> c.value) @@ vals
      [] c.op = "DELETE" -> Restrict(vals, DOMAIN vals \ {c.key})
      [] c.op = "GET" -> vals

Result(vals, c) == IF c.op = "GET" THEN ReadIn(vals, c.key) ELSE EmptyResult

Recorded(dups, c, result) ==
    (c.client :> [lastSeq |-> c.seq, lastResult |-> result]) @@ dups

\* Apply: the whole state after one more entry.
ApplyEntry(sm, c) ==
    IF c.op = "NOOP" \/ Duplicate(sm.dedup, c) THEN [sm EXCEPT !.applied = @ + 1]
    ELSE [values |-> Executed(sm.values, c),
          dedup |-> Recorded(sm.dedup, c, Result(sm.values, c)),
          applied |-> sm.applied + 1]

\* What the host gets from Apply and hands to the client that waits.
Answer(sm, c) ==
    IF c.op = "NOOP" THEN EmptyResult
    ELSE IF Duplicate(sm.dedup, c) THEN sm.dedup[c.client].lastResult
    ELSE Result(sm.values, c)

New == [values |-> <<>>, dedup |-> <<>>, applied |-> 0]
=============================================================================
