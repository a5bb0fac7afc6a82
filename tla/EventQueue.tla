------------------------------ MODULE EventQueue ------------------------------
(***************************************************************************)
(* The simulator's event queue (sim/event.go): a heap ordered by virtual   *)
(* time and, at one time, by the order of the pushes.  The queue is the    *)
(* set of its events.  Only the order at one time matters, so an event's   *)
(* seq counts the events of its own time.                                  *)
(***************************************************************************)
EXTENDS Integers, FiniteSets, FiniteSetsExt

\* pushAt: behind every event of the same time.
NextSeq(q, t) == Max({e.seq : e \in {f \in q : f.time = t}} \cup {0}) + 1

Before(e, f) == e.time < f.time \/ (e.time = f.time /\ e.seq < f.seq)

\* ev is the event the heap yields next.
First(q, ev) == ev \in q /\ \A f \in q \ {ev} : Before(ev, f)
=============================================================================
