------------------------------- MODULE History -------------------------------
(***************************************************************************)
(* The history recorder and the linearizability model (checker/history.go, *)
(* checker/model.go).  A recorder is                                       *)
(*   history  the logical operations in the order of their invocations     *)
(*   active   client -> position of its open operation, or 0               *)
(*   lastSeq  client -> the sequence number it invoked last, or 0          *)
(* An operation returned at time ret, or has ret = Open.  Every recorder   *)
(* call returns the recorder after it and whether it was refused.          *)
(***************************************************************************)
EXTENDS KVCommands, FiniteSets

CONSTANT Client

Open == -1

NewRecorder ==
    [history |-> <<>>, active |-> [c \in Client |-> 0], lastSeq |-> [c \in Client |-> 0]]

Refused(r) == [recorder |-> r, err |-> TRUE]
Done(r) == [recorder |-> r, err |-> FALSE]

Invoke(r, c, seq, at, input) ==
    IF r.active[c] # 0 \/ seq <= r.lastSeq[c] THEN Refused(r)
    ELSE Done([history |-> Append(r.history, [client |-> c, seq |-> seq, call |-> at, ret |-> Open,
                                              input |-> input, output |-> EmptyResult]),
               active |-> [r.active EXCEPT ![c] = Len(r.history) + 1],
               lastSeq |-> [r.lastSeq EXCEPT ![c] = seq]])

\* activeIndex finds the client's open operation, and it has this number.
IsActive(r, c, seq) == r.active[c] # 0 /\ r.history[r.active[c]].seq = seq

\* Retry and Timeout only check; the operation stays open.
Retry(r, c, seq) == IF IsActive(r, c, seq) THEN Done(r) ELSE Refused(r)
Timeout(r, c, seq, at) ==
    IF IsActive(r, c, seq) /\ at >= r.history[r.active[c]].call THEN Done(r) ELSE Refused(r)

Complete(r, c, seq, at, output) ==
    IF ~ IsActive(r, c, seq) \/ at < r.history[r.active[c]].call THEN Refused(r)
    ELSE Done([r EXCEPT !.history[r.active[c]].ret = at,
                        !.history[r.active[c]].output = output,
                        !.active[c] = 0])

-----------------------------------------------------------------------------
\* Check.

\* KVModel.Step on the value of one key; Absent stands for none.
Accepts(value, op) ==
    op.input.op = "GET" /\ op.ret # Open =>
        op.output.value = value /\ op.output.found = (value # Absent)

Step(value, op) ==
    CASE op.input.op = "PUT" -> op.input.value
      [] op.input.op = "DELETE" -> Absent
      [] op.input.op = "GET" -> value

\* PorcupineEvents puts a return behind the calls of the same time, and the
\* returns of open operations behind everything.
ReturnsBefore(a, b) == a.ret # Open /\ a.ret < b.call

\* partitionEvents: the operations on one key.
OperationsOn(history, key) == {i \in DOMAIN history : history[i].input.key = key}

\* The orders of the operations that respect their times.
Orders(history, ops) ==
    {order \in [1..Cardinality(ops) -> ops] :
        \A i, j \in 1..Cardinality(ops) :
            i < j => order[i] # order[j] /\ ~ ReturnsBefore(history[order[j]], history[order[i]])}

\* Some order of the operations explains every observed output.  values[i] is
\* the value before the i-th of them.
Check(history) ==
    \A key \in {history[i].input.key : i \in DOMAIN history} :
        LET ops == OperationsOn(history, key)
            n == Cardinality(ops)
        IN  \E order \in Orders(history, ops) :
                LET values[i \in 1..(n + 1)] ==
                        IF i = 1 THEN Absent ELSE Step(values[i - 1], history[order[i - 1]])
                IN  \A i \in 1..n : Accepts(values[i], history[order[i]])
=============================================================================
