---------------------------- MODULE KVServerProofs ----------------------------
(***************************************************************************)
(* Every Execute call of a server is answered with its own entry, told the *)
(* truth about a lost one, and never stranded, for any number of calls and *)
(* any terms and logs.                                                     *)
(*                                                                         *)
(* The inductive invariant follows an entry from its creation: what this   *)
(* node created in a term it led is unique in that term and index, the log *)
(* never contradicts it, and its call waits under exactly that key until   *)
(* the index is applied or the host has stopped.                           *)
(***************************************************************************)
EXTENDS KVServer, SequenceTheorems, TLAPS

\* The entries this node created: none of a later term, none twice, and while
\* the node leads all those of its term are in the log.
OwnOK ==
    /\ \A o \in own : o.term <= term
    /\ \A o, p \in own : o.index = p.index /\ o.term = p.term => o = p
    /\ leading => term >= 1 /\ \A o \in own : o.term = term => o.index <= Len(log)

\* The log and the created entries agree wherever they meet, and a call's entry
\* is in the log only as this node created it.
LogOK ==
    \A k \in 1..Len(log) :
        /\ \A o \in own : o.index = k /\ o.term = log[k].term => o.call = log[k].call
        /\ log[k].call \in Call => [index |-> k, term |-> log[k].term, call |-> log[k].call] \in own

\* A call has created at most one entry, under its key, and has done so before it waits.
KeyOK ==
    /\ \A o \in own : o.call \in Call => key[o.call] = <<o.index, o.term>> /\ pc[o.call] # "new"
    /\ \A c \in Call : pc[c] \in {"proposing", "waiting", "expired"} =>
            [index |-> key[c][1], term |-> key[c][2], call |-> c] \in own

WaitersOK ==
    /\ byIndex = {<<w.index, w.term>> : w \in waiters}
    /\ \A w \in waiters : /\ w \in own
                          /\ w.index > applied
                          /\ ch[w.call] = Nil
                          /\ pc[w.call] \in {"proposing", "waiting", "expired"}
    /\ stopped /\ mu = Nil => waiters = {}

\* An answer on its way or given: a result is of the call's entry, which was
\* applied; a loss means that another entry was applied in its place.
Truth(l, a, k, c, r) ==
    r # Nil =>
        /\ r.kind = "result" => /\ r.of = c /\ k[1] \in 1..a
                                /\ l[k[1]] = [term |-> k[2], call |-> c]
        /\ r.kind = "stale" => k[1] \in 1..a /\ l[k[1]].term # k[2]

CallsOK ==
    \A c \in Call :
        /\ pc[c] = "proposing" <=> mu = c
        /\ pc[c] \in {"proposing", "waiting"} /\ ch[c] = Nil =>
              [index |-> key[c][1], term |-> key[c][2], call |-> c] \in waiters
        /\ pc[c] = "new" => ch[c] = Nil /\ reply[c] = Nil
        /\ pc[c] = "hint" => reply[c] = Nil \/ reply[c].kind = "stale"
        /\ Truth(log, applied, key[c], c, ch[c]) /\ Truth(log, applied, key[c], c, reply[c])

IInv == TypeOK /\ OwnOK /\ LogOK /\ KeyOK /\ WaitersOK /\ CallsOK

-----------------------------------------------------------------------------
\* The core.

\* Appending one entry to a log, or to a prefix of it.
LEMMA AppendEntry ==
    ASSUME NEW l \in Seq(Entry), NEW k \in 0..Len(l), NEW e \in Entry
    PROVE  LET m == Append(SubSeq(l, 1, k), e)
           IN  /\ m \in Seq(Entry) /\ Len(m) = k + 1 /\ m[k + 1] = e
               /\ \A i \in 1..k : m[i] = l[i]
<1>. DEFINE p == SubSeq(l, 1, k)
            m == Append(p, e)
<1>1. p \in Seq(Entry) /\ Len(p) = k /\ \A i \in 1..k : p[i] = l[i]
    <2>1. \A i \in 1..k : l[i] \in Entry BY ElementOfSeq
    <2>. QED BY <2>1, SubSeqProperties
<1>. HIDE DEF p
<1>2. m \in Seq(Entry) /\ Len(m) = k + 1 /\ m[k + 1] = e /\ \A i \in 1..k : m[i] = p[i]
    BY <1>1, AppendProperties
<1>. QED BY <1>1, <1>2 DEF p

\* What the core leaves to the rest of the server: a log that keeps its committed
\* part, and created entries that are kept.
CoreKept ==
    /\ log' \in Seq(Entry) /\ Len(log') <= MaxLog
    /\ commit' \in commit..Len(log')
    /\ \A k \in 1..commit : log'[k] = log[k]
    /\ own \subseteq own'
    /\ own' \subseteq [index : 1..MaxLog, term : 1..MaxTerm, call : Call \cup {Other}]
    /\ solo' = solo /\ term' \in 0..MaxTerm /\ leading' \in BOOLEAN

\* A leader creates an entry, in its term or in the new one it was elected for.
LEMMA Created ==
    ASSUME TypeOK, Len(log) < MaxLog, OwnOK, LogOK,
           NEW t \in 1..MaxTerm, NEW c \in Call \cup {Other}, Create(t, c),
           \A o \in own : o.term <= t /\ (o.term = t => o.index <= Len(log)),
           term' = t, leading' = TRUE
    PROVE  /\ CoreKept /\ OwnOK' /\ LogOK'
           /\ own' = own \cup {[index |-> Len(log) + 1, term |-> t, call |-> c]}
<1>. DEFINE e == [term |-> t, call |-> c]
            n == [index |-> Len(log) + 1, term |-> t, call |-> c]
<1>1. log \in Seq(Entry) /\ commit \in 0..Len(log) /\ MaxLog \in Nat /\ MaxTerm \in Nat
      /\ own \subseteq [index : 1..MaxLog, term : 1..MaxTerm, call : Call \cup {Other}]
    BY ServerAssumption DEF TypeOK
<1>2. e \in Entry BY DEF Entry
<1>3. /\ log' \in Seq(Entry) /\ Len(log') = Len(log) + 1 /\ log'[Len(log) + 1] = e
      /\ \A i \in 1..Len(log) : log'[i] = log[i]
    <2>1. log' = Append(log, e) BY DEF Create
    <2>. QED BY <1>1, <1>2, <2>1, AppendProperties
<1>4. own' = own \cup {n} BY DEF Create
<1>5. n.index = Len(log) + 1 /\ n.term = t /\ n.call = c /\ e.term = t /\ e.call = c OBVIOUS
<1>6. Len(log) \in Nat BY <1>1
<1>7. n \in [index : 1..MaxLog, term : 1..MaxTerm, call : Call \cup {Other}]
    BY <1>1, <1>6
<1>8. CoreKept
    <2>1. commit' \in commit..Len(log') BY <1>1, <1>3 DEF Create
    <2>2. term' \in 0..MaxTerm BY <1>1
    <2>3. solo' = solo BY DEF Create
    <2>4. Len(log') <= MaxLog BY <1>1, <1>3
    <2>5. \A k \in 1..commit : log'[k] = log[k] BY <1>1, <1>3
    <2>. QED BY <1>1, <1>3, <1>4, <1>7, <2>1, <2>2, <2>3, <2>4, <2>5 DEF CoreKept
<1>. HIDE DEF n
<1>9. OwnOK'
    <2>1. \A o \in own' : o.term <= t BY <1>1, <1>4, <1>5
    <2>2. \A o \in own : ~ (o.index = n.index /\ o.term = n.term) BY <1>1, <1>5, <1>6
    <2>3. \A o, p \in own' : o.index = p.index /\ o.term = p.term => o = p
        BY <1>4, <2>2 DEF OwnOK
    <2>4. \A o \in own' : o.term = t => o.index <= Len(log') BY <1>1, <1>3, <1>4, <1>5
    <2>. QED BY <2>1, <2>3, <2>4 DEF OwnOK
<1>10. LogOK'
    <2>. SUFFICES ASSUME NEW k \in 1..Len(log')
                  PROVE  /\ \A o \in own' : o.index = k /\ o.term = log'[k].term => o.call = log'[k].call
                         /\ log'[k].call \in Call =>
                              [index |-> k, term |-> log'[k].term, call |-> log'[k].call] \in own'
        BY DEF LogOK
    <2>1. CASE k \in 1..Len(log)
        <3>1. log'[k] = log[k] BY <1>3, <2>1
        <3>2. n.index # k BY <1>5, <1>6, <2>1
        <3>. QED BY <1>4, <2>1, <3>1, <3>2 DEF LogOK
    <2>2. CASE k = Len(log) + 1
        <3>1. log'[k] = e BY <1>3, <2>2
        <3>2. \A o \in own : ~ (o.index = k /\ o.term = t) BY <1>1, <1>6, <2>2
        <3>3. [index |-> k, term |-> log'[k].term, call |-> log'[k].call] = n
            BY <1>5, <2>2, <3>1 DEF n
        <3>. QED BY <1>4, <1>5, <3>1, <3>2, <3>3
    <2>. QED BY <1>3, <1>6, <2>1, <2>2
<1>. QED BY <1>4, <1>8, <1>9, <1>10 DEF n

\* Another leader's entry takes its place in the log.
LEMMA Appended ==
    ASSUME TypeOK, OwnOK, LogOK, CoreAppends
    PROVE  CoreKept /\ OwnOK' /\ LogOK' /\ own' = own
<1>1. PICK t \in {term, term + 1} :
        /\ t \in 1..MaxTerm /\ ~ \E o \in own : o.term = t
        /\ term' = t /\ leading' = FALSE
        /\ \/ UNCHANGED log
           \/ \E k \in commit..Len(log), u \in 1..t :
                 \E e \in Possible(k + 1, u) :
                    /\ k < MaxLog
                    /\ log' = Append(SubSeq(log, 1, k), e)
        /\ commit' \in commit..Len(log')
        /\ UNCHANGED <<solo, own>>
    BY DEF CoreAppends
<1>2. log \in Seq(Entry) /\ commit \in 0..Len(log) /\ MaxLog \in Nat /\ MaxTerm \in Nat
      /\ own \subseteq [index : 1..MaxLog, term : 1..MaxTerm, call : Call \cup {Other}]
      /\ term \in 0..MaxTerm
      /\ Len(log) <= MaxLog
    BY ServerAssumption DEF TypeOK
<1>2a. term' \in 0..MaxTerm /\ leading' \in BOOLEAN
    <2>1. term' \in 0..MaxTerm BY <1>1, <1>2
    <2>2. leading' = FALSE BY <1>1
    <2>3. leading' \in BOOLEAN BY <2>2
    <2>. QED BY <2>1, <2>3
<1>3. OwnOK'
    <2>1. t >= term BY <1>1, <1>2
    <2>2. \A o \in own : o.term <= t BY <1>1, <1>2, <2>1 DEF OwnOK
    <2>. QED BY <1>1, <2>2 DEF OwnOK
<1>4. CASE UNCHANGED log
    <2>1. LogOK' BY <1>1, <1>4 DEF LogOK
    <2>2. CoreKept BY <1>1, <1>2, <1>2a, <1>4 DEF CoreKept
    <2>. QED BY <1>1, <1>3, <2>1, <2>2
<1>5. CASE \E k \in commit..Len(log), u \in 1..t :
                 \E e \in Possible(k + 1, u) :
                    /\ k < MaxLog
                    /\ log' = Append(SubSeq(log, 1, k), e)
    <2>1. PICK k \in commit..Len(log), u \in 1..t :
                 \E e \in Possible(k + 1, u) : k < MaxLog /\ log' = Append(SubSeq(log, 1, k), e)
        BY <1>5
    <2>2. PICK e \in Possible(k + 1, u) : k < MaxLog /\ log' = Append(SubSeq(log, 1, k), e)
        BY <2>1
    <2>3. /\ e \in Entry /\ e.term = u
          /\ \A o \in own : o.index = k + 1 /\ o.term = u => o.call = e.call
          /\ e.call \in Call => [index |-> k + 1, term |-> u, call |-> e.call] \in own
        <3>1. CASE \E o \in own : o.term = u
            <4>1. PICK o \in own : o.index = k + 1 /\ o.term = u /\ e = [term |-> u, call |-> o.call]
                BY <3>1 DEF Possible
            <4>2. e \in Entry /\ e.term = u /\ e.call = o.call
                BY <1>1, <1>2, <4>1 DEF Entry
            <4>3. \A p \in own : p.index = k + 1 /\ p.term = u => p.call = e.call
                BY <4>1, <4>2 DEF OwnOK
            <4>4. o = [index |-> k + 1, term |-> u, call |-> o.call] BY <1>2, <4>1
            <4>. QED BY <4>1, <4>2, <4>3, <4>4
        <3>2. CASE ~ \E o \in own : o.term = u
            <4>1. e = [term |-> u, call |-> Other] BY <3>2 DEF Possible
            <4>2. e \in Entry /\ e.term = u /\ e.call = Other BY <1>1, <1>2, <4>1 DEF Entry
            <4>. QED BY <3>2, <4>2, ServerAssumption
        <3>. QED BY <3>1, <3>2
    <2>4. k \in 0..Len(log) /\ k \in Nat BY <1>2
    <2>5. /\ log' \in Seq(Entry) /\ Len(log') = k + 1 /\ log'[k + 1] = e
          /\ \A i \in 1..k : log'[i] = log[i]
        BY <1>2, <2>2, <2>3, <2>4, AppendEntry
    <2>6. CoreKept
        <3>1. Len(log') <= MaxLog BY <1>2, <2>2, <2>4, <2>5
        <3>2. \A i \in 1..commit : log'[i] = log[i] BY <1>2, <2>5
        <3>. QED BY <1>1, <1>2, <1>2a, <2>5, <3>1, <3>2 DEF CoreKept
    <2>7. LogOK'
        <3>. SUFFICES ASSUME NEW i \in 1..Len(log')
                      PROVE  /\ \A o \in own : o.index = i /\ o.term = log'[i].term => o.call = log'[i].call
                             /\ log'[i].call \in Call =>
                                  [index |-> i, term |-> log'[i].term, call |-> log'[i].call] \in own
            BY <1>1 DEF LogOK
        <3>1. CASE i \in 1..k
            <4>1. log'[i] = log[i] /\ i \in 1..Len(log) BY <2>4, <2>5, <3>1
            <4>. QED BY <4>1 DEF LogOK
        <3>2. CASE i = k + 1 BY <2>3, <2>5, <3>2
        <3>. QED BY <2>4, <2>5, <3>1, <3>2
    <2>. QED BY <1>1, <1>3, <2>6, <2>7
<1>. QED BY <1>1, <1>4, <1>5

\* A step of the core keeps what the rest of the server relies on.
LEMMA CoreStep ==
    ASSUME TypeOK, OwnOK, LogOK,
           CoreElected \/ CoreDeposed \/ CoreCommits \/ CoreAppends \/ CoreRejects
    PROVE  /\ CoreKept /\ OwnOK' /\ LogOK' /\ hint' \in {Nil, "self", "peer"}
           /\ \A o \in own' : o.call \in Call => o \in own
<1>1. log \in Seq(Entry) /\ commit \in 0..Len(log) /\ MaxLog \in Nat /\ MaxTerm \in Nat
      /\ own \subseteq [index : 1..MaxLog, term : 1..MaxTerm, call : Call \cup {Other}]
      /\ term \in 0..MaxTerm /\ Len(log) <= MaxLog /\ Len(log) \in Nat
      /\ leading \in BOOLEAN /\ hint \in {Nil, "self", "peer"}
    BY ServerAssumption DEF TypeOK
<1>2. CASE CoreElected
    <2>1. term + 1 \in 1..MaxTerm /\ Other \in Call \cup {Other} BY <1>1, <1>2 DEF CoreElected
    <2>2. \A o \in own : o.term <= term + 1 /\ (o.term = term + 1 => o.index <= Len(log))
        BY <1>1 DEF OwnOK
    <2>3. Create(term + 1, Other) /\ term' = term + 1 /\ leading' = TRUE /\ hint' = hint
          /\ Len(log) < MaxLog
        BY <1>2 DEF CoreElected
    <2>4. /\ CoreKept /\ OwnOK' /\ LogOK'
          /\ own' = own \cup {[index |-> Len(log) + 1, term |-> term + 1, call |-> Other]}
        BY <2>1, <2>2, <2>3, Created
    <2>. QED BY <1>1, <2>3, <2>4, ServerAssumption
<1>3. CASE CoreDeposed
    <2>1. UNCHANGED <<solo, log, commit, own, hint>> /\ leading' = FALSE /\ term' = term + 1
          /\ term' \in 0..MaxTerm
        BY <1>1, <1>3 DEF CoreDeposed
    <2>2. LogOK' BY <2>1 DEF LogOK
    <2>3. OwnOK' BY <1>1, <2>1 DEF OwnOK
    <2>5. leading' \in BOOLEAN BY <2>1
    <2>4. CoreKept BY <1>1, <2>1, <2>5 DEF CoreKept
    <2>. QED BY <1>1, <2>1, <2>2, <2>3, <2>4
<1>4. CASE CoreCommits
    <2>1. UNCHANGED <<solo, term, leading, log, own, hint>> /\ commit' \in commit..Len(log)
        BY <1>1, <1>4 DEF CoreCommits
    <2>2. LogOK' BY <2>1 DEF LogOK
    <2>3. OwnOK' BY <2>1 DEF OwnOK
    <2>4. CoreKept BY <1>1, <2>1 DEF CoreKept
    <2>. QED BY <1>1, <2>1, <2>2, <2>3, <2>4
<1>5. CASE CoreAppends
    <2>1. hint' = "peer" BY <1>5 DEF CoreAppends
    <2>. QED BY <1>5, <2>1, Appended
<1>6. CASE CoreRejects
    <2>1. UNCHANGED <<solo, term, leading, log, commit, own>> /\ hint' = "peer"
        BY <1>6 DEF CoreRejects, core
    <2>2. LogOK' BY <2>1 DEF LogOK
    <2>3. OwnOK' BY <2>1 DEF OwnOK
    <2>4. CoreKept BY <1>1, <2>1 DEF CoreKept
    <2>. QED BY <2>1, <2>2, <2>3, <2>4
<1>. QED BY <1>2, <1>3, <1>4, <1>5, <1>6

\* What was true of an answer stays true.
LEMMA TruthKept ==
    ASSUME NEW l, NEW m, NEW a \in Nat, NEW b \in Nat, a <= b, \A i \in 1..a : m[i] = l[i],
           NEW k, NEW c, NEW r, Truth(l, a, k, c, r)
    PROVE  Truth(m, b, k, c, r)
BY DEF Truth

-----------------------------------------------------------------------------
\* The applier.

\* Handing out outcomes: every waiter that is resolved goes, and its call finds
\* an outcome of one of its waiters.
LEMMA Resolved ==
    ASSUME TypeOK, NEW out, DOMAIN out \subseteq waiters,
           \A w \in DOMAIN out : out[w] \in Answer, Resolve(out)
    PROVE  /\ waiters' = waiters \ DOMAIN out
           /\ ch' \in [Call -> Answer \cup {Nil}]
           /\ \A c \in Call :
                \/ \E w \in DOMAIN out : w.call = c /\ ch'[c] = out[w]
                \/ (~ \E w \in DOMAIN out : w.call = c) /\ ch'[c] = ch[c]
<1>1. waiters' = waiters \ DOMAIN out BY DEF Resolve
<1>2. ch' = [c \in Call |-> IF \E w \in DOMAIN out : w.call = c
                            THEN out[CHOOSE w \in DOMAIN out : w.call = c] ELSE ch[c]]
    BY DEF Resolve
<1>3. ASSUME NEW c \in Call
      PROVE  /\ ch'[c] \in Answer \cup {Nil}
             /\ \/ \E w \in DOMAIN out : w.call = c /\ ch'[c] = out[w]
                \/ (~ \E w \in DOMAIN out : w.call = c) /\ ch'[c] = ch[c]
    <2>1. CASE \E w \in DOMAIN out : w.call = c
        <3>. DEFINE w == CHOOSE w \in DOMAIN out : w.call = c
        <3>1. w \in DOMAIN out /\ w.call = c BY <2>1
        <3>2. ch'[c] = out[w] BY <1>2, <2>1
        <3>. QED BY <3>1, <3>2
    <2>2. CASE ~ \E w \in DOMAIN out : w.call = c
        <3>1. ch'[c] = ch[c] BY <1>2, <2>2
        <3>. QED BY <2>2, <3>1 DEF TypeOK
    <2>. QED BY <2>1, <2>2
<1>4. ch' \in [Call -> Answer \cup {Nil}] BY <1>2, <1>3
<1>. QED BY <1>1, <1>3, <1>4

\* A call waits under one key at a time.
LEMMA OneWaiter ==
    ASSUME IInv, NEW v \in waiters, NEW w \in waiters, v.call = w.call
    PROVE  v = w /\ v.call \in Call /\ key[v.call] = <<v.index, v.term>>
<1>1. v \in own /\ w \in own /\ v.call \in Call BY DEF IInv, WaitersOK, TypeOK, Waiter
<1>2. key[v.call] = <<v.index, v.term>> /\ key[w.call] = <<w.index, w.term>>
    BY <1>1 DEF IInv, KeyOK
<1>3. v.index = w.index /\ v.term = w.term BY <1>2
<1>. QED BY <1>1, <1>2, <1>3 DEF IInv, OwnOK

-----------------------------------------------------------------------------
\* The steps.

LEMMA TurnKeeps == IInv /\ Turn => IInv'
<1>. SUFFICES ASSUME IInv, Turn PROVE IInv' OBVIOUS
<1>1. TypeOK /\ OwnOK /\ LogOK /\ KeyOK /\ WaitersOK /\ CallsOK BY DEF IInv
<1>2. /\ CoreKept /\ OwnOK' /\ LogOK' /\ hint' \in {Nil, "self", "peer"}
      /\ \A o \in own' : o.call \in Call => o \in own
    BY <1>1, CoreStep DEF Turn
<1>3. /\ mu = Nil /\ mu' = Other /\ saved' = FALSE /\ ~ stopped /\ stopped' = stopped
      /\ UNCHANGED <<applied, waiters, byIndex, ch, pc, key, reply>>
    BY DEF Turn, Lock, Free, applier, calls
<1>4. /\ applied \in Nat /\ applied <= commit /\ commit \in Nat
      /\ \A k \in 1..applied : log'[k] = log[k]
    BY <1>1, <1>2 DEF TypeOK, CoreKept
<1>5. TypeOK'
    <2>1. applied' \in 0..commit' BY <1>2, <1>3, <1>4 DEF CoreKept
    <2>2. saved' \in BOOLEAN /\ stopped' \in BOOLEAN BY <1>1, <1>3 DEF TypeOK
    <2>3. solo' \in BOOLEAN /\ leading' \in BOOLEAN BY <1>1, <1>2 DEF TypeOK, CoreKept
    <2>4. commit' \in 0..Len(log') BY <1>2, <1>4 DEF CoreKept
    <2>. QED BY <1>1, <1>2, <1>3, <2>1, <2>2, <2>3, <2>4 DEF TypeOK, CoreKept
<1>6. KeyOK' BY <1>1, <1>2, <1>3 DEF KeyOK, CoreKept
<1>7. WaitersOK' BY <1>1, <1>2, <1>3 DEF WaitersOK, CoreKept
<1>8. CallsOK'
    <2>. SUFFICES ASSUME NEW c \in Call
                  PROVE  /\ pc[c] = "proposing" <=> Other = c
                         /\ pc[c] \in {"proposing", "waiting"} /\ ch[c] = Nil =>
                               [index |-> key[c][1], term |-> key[c][2], call |-> c] \in waiters
                         /\ pc[c] = "new" => ch[c] = Nil /\ reply[c] = Nil
                         /\ pc[c] = "hint" => reply[c] = Nil \/ reply[c].kind = "stale"
                         /\ Truth(log', applied, key[c], c, ch[c])
                         /\ Truth(log', applied, key[c], c, reply[c])
        BY <1>3 DEF CallsOK
    <2>1. pc[c] # "proposing" /\ Other # c BY <1>1, <1>3, ServerAssumption DEF CallsOK
    <2>2. Truth(log', applied, key[c], c, ch[c]) /\ Truth(log', applied, key[c], c, reply[c])
        <3>1. Truth(log, applied, key[c], c, ch[c]) /\ Truth(log, applied, key[c], c, reply[c])
            BY <1>1 DEF CallsOK
        <3>. QED BY <1>4, <3>1 DEF Truth
    <2>. QED BY <1>1, <2>1, <2>2 DEF CallsOK
<1>. QED BY <1>2, <1>5, <1>6, <1>7, <1>8 DEF IInv

\* Steps that leave the core, the applier and the keys alone.
LEMMA SaveFailKeeps == IInv /\ (Save \/ Fail) => IInv'
<1>. SUFFICES ASSUME IInv, Save \/ Fail PROVE IInv' OBVIOUS
<1>1. TypeOK /\ OwnOK /\ LogOK /\ KeyOK /\ WaitersOK /\ CallsOK BY DEF IInv
<1>2. /\ UNCHANGED <<solo, term, leading, log, commit, own, applied, mu, hint,
                     waiters, byIndex, ch, pc, key, reply>>
      /\ mu # Nil
    BY DEF Save, Fail, Processing, Free, core, applier, calls
<1>3. saved' \in BOOLEAN /\ stopped' \in BOOLEAN BY <1>1 DEF TypeOK, Save, Fail
<1>4. TypeOK' BY <1>1, <1>2, <1>3 DEF TypeOK
<1>5. OwnOK' /\ LogOK' /\ KeyOK' BY <1>1, <1>2 DEF OwnOK, LogOK, KeyOK
<1>6. WaitersOK' BY <1>1, <1>2 DEF WaitersOK
<1>7. CallsOK' BY <1>1, <1>2 DEF CallsOK
<1>. QED BY <1>4, <1>5, <1>6, <1>7 DEF IInv

LEMMA ApplyKeeps == IInv /\ ApplyEntry => IInv'
<1>. SUFFICES ASSUME IInv, ApplyEntry PROVE IInv' OBVIOUS
<1>1. TypeOK /\ OwnOK /\ LogOK /\ KeyOK /\ WaitersOK /\ CallsOK BY DEF IInv
<1>. DEFINE i == applied + 1
            e == log[i]
            here == {w \in waiters : w.index = i}
            out == [w \in here |-> Outcome(w, e.term, e.call)]
<1>2. /\ applied < commit /\ applied' = i /\ mu # Nil
      /\ UNCHANGED <<solo, term, leading, log, commit, own, mu, saved, stopped, hint, pc, key, reply>>
      /\ Fulfill(i, e.term, e.call)
    BY DEF ApplyEntry, Processing, Free, core, calls
<1>3. /\ applied \in Nat /\ commit \in Nat /\ i \in 1..commit /\ i \in 1..Len(log) /\ e \in Entry
      /\ commit <= Len(log)
    <2>1. /\ applied \in Nat /\ commit \in Nat /\ i \in 1..commit /\ i \in 1..Len(log)
          /\ commit <= Len(log) /\ log \in Seq(Entry)
        BY <1>1, <1>2 DEF TypeOK
    <2>. QED BY <2>1, ElementOfSeq
<1>4. here = {w \in waiters : w.index = i /\ <<i, w.term>> \in byIndex} BY <1>1 DEF WaitersOK
<1>5. Resolve(out) /\ byIndex' = {p \in byIndex : p[1] # i} BY <1>2, <1>4 DEF Fulfill
<1>6. DOMAIN out = here /\ here \subseteq waiters
      /\ \A w \in here : out[w] = Outcome(w, e.term, e.call)
    OBVIOUS
<1>7. \A w \in here : Outcome(w, e.term, e.call) \in Answer
    BY <1>3 DEF Outcome, Answer, Kinds, Entry
<1>. HIDE DEF here, out, i, e
<1>8. /\ waiters' = waiters \ here
      /\ ch' \in [Call -> Answer \cup {Nil}]
      /\ \A c \in Call :
            \/ \E w \in here : w.call = c /\ ch'[c] = Outcome(w, e.term, e.call)
            \/ (~ \E w \in here : w.call = c) /\ ch'[c] = ch[c]
    <2>1. \A w \in DOMAIN out : out[w] \in Answer BY <1>6, <1>7
    <2>2. /\ waiters' = waiters \ DOMAIN out
          /\ ch' \in [Call -> Answer \cup {Nil}]
          /\ \A c \in Call :
                \/ \E w \in DOMAIN out : w.call = c /\ ch'[c] = out[w]
                \/ (~ \E w \in DOMAIN out : w.call = c) /\ ch'[c] = ch[c]
        BY <1>1, <1>5, <1>6, <2>1, Resolved
    <2>. QED BY <1>6, <2>2
<1>9. TypeOK'
    <2>1. applied' \in 0..commit' BY <1>2, <1>3
    <2>2. waiters' \subseteq Waiter /\ byIndex' \subseteq (1..MaxLog) \X (1..MaxTerm)
        BY <1>1, <1>5, <1>8 DEF TypeOK
    <2>. QED BY <1>1, <1>2, <1>8, <2>1, <2>2 DEF TypeOK
<1>10. OwnOK' /\ LogOK' /\ KeyOK' BY <1>1, <1>2 DEF OwnOK, LogOK, KeyOK
<1>11. WaitersOK'
    <2>1. \A w \in waiters' : w \in waiters /\ w.index # i BY <1>8 DEF here
    <2>2. \A w \in waiters : w.index \in Nat /\ w.index > applied /\ w.call \in Call
        BY <1>1 DEF WaitersOK, TypeOK, Waiter
    <2>3. \A w \in waiters' : w.index > applied' BY <1>2, <1>3, <2>1, <2>2 DEF i
    <2>4. ASSUME NEW w \in waiters' PROVE ch'[w.call] = Nil
        <3>1. ASSUME NEW v \in here, v.call = w.call PROVE FALSE
            <4>1. v \in waiters /\ v.index = i BY DEF here
            <4>2. v = w BY <2>1, <3>1, <4>1, OneWaiter
            <4>. QED BY <2>1, <4>1, <4>2
        <3>2. ch'[w.call] = ch[w.call] BY <1>8, <2>1, <2>2, <3>1
        <3>. QED BY <1>1, <2>1, <3>2 DEF WaitersOK
    <2>5. byIndex' = {<<w.index, w.term>> : w \in waiters'}
        <3>1. \A p \in byIndex' : \E w \in waiters' : p = <<w.index, w.term>>
            <4>. SUFFICES ASSUME NEW p \in byIndex' PROVE \E w \in waiters' : p = <<w.index, w.term>>
                OBVIOUS
            <4>1. p \in byIndex /\ p[1] # i BY <1>5
            <4>2. PICK w \in waiters : p = <<w.index, w.term>> BY <1>1, <4>1 DEF WaitersOK
            <4>3. w \notin here BY <4>1, <4>2 DEF here
            <4>. QED BY <1>8, <4>2, <4>3
        <3>2. \A w \in waiters' : <<w.index, w.term>> \in byIndex'
            BY <1>1, <1>5, <2>1 DEF WaitersOK
        <3>. QED BY <3>1, <3>2
    <2>. QED BY <1>1, <1>2, <2>1, <2>3, <2>4, <2>5 DEF WaitersOK
<1>12. CallsOK'
    <2>. SUFFICES ASSUME NEW c \in Call
                  PROVE  /\ pc[c] = "proposing" <=> mu = c
                         /\ pc[c] \in {"proposing", "waiting"} /\ ch'[c] = Nil =>
                               [index |-> key[c][1], term |-> key[c][2], call |-> c] \in waiters'
                         /\ pc[c] = "new" => ch'[c] = Nil /\ reply[c] = Nil
                         /\ pc[c] = "hint" => reply[c] = Nil \/ reply[c].kind = "stale"
                         /\ Truth(log, i, key[c], c, ch'[c])
                         /\ Truth(log, i, key[c], c, reply[c])
        BY <1>2 DEF CallsOK
    <2>1. Truth(log, i, key[c], c, reply[c]) /\ Truth(log, i, key[c], c, ch[c])
        <3>1. i \in Nat /\ applied <= i BY <1>3 DEF i
        <3>. QED BY <1>1, <1>3, <3>1, TruthKept DEF CallsOK
    <2>2. CASE \E w \in here : w.call = c /\ ch'[c] = Outcome(w, e.term, e.call)
        <3>1. PICK w \in here : w.call = c /\ ch'[c] = Outcome(w, e.term, e.call) BY <2>2
        <3>2. w \in waiters /\ w.index = i /\ w \in own BY <1>1 DEF here, WaitersOK
        <3>3. key[c] = <<i, w.term>> BY <3>1, <3>2, OneWaiter
        <3>4. ch'[c] # Nil BY <1>7, <3>1, ServerAssumption
        <3>5. pc[c] \notin {"new", "hint"} BY <1>1, <3>1, <3>2 DEF WaitersOK
        <3>6. Truth(log, i, key[c], c, ch'[c])
            <4>1. CASE w.term = e.term
                <5>1. ch'[c] = [kind |-> "result", of |-> e.call] BY <3>1, <4>1 DEF Outcome
                <5>2. e.call = c BY <1>1, <1>3, <3>1, <3>2, <4>1 DEF LogOK, e
                <5>3. e = [term |-> w.term, call |-> c] BY <1>3, <4>1, <5>2 DEF Entry
                <5>. QED BY <1>3, <3>3, <5>1, <5>2, <5>3 DEF Truth, e
            <4>2. CASE w.term # e.term
                <5>1. ch'[c] = [kind |-> "stale", of |-> Nil] BY <3>1, <4>2 DEF Outcome
                <5>. QED BY <1>3, <3>3, <4>2, <5>1 DEF Truth, e
            <4>. QED BY <4>1, <4>2
        <3>. QED BY <1>1, <2>1, <3>4, <3>5, <3>6 DEF CallsOK
    <2>3. CASE (~ \E w \in here : w.call = c) /\ ch'[c] = ch[c]
        <3>1. [index |-> key[c][1], term |-> key[c][2], call |-> c] \notin here BY <2>3
        <3>. QED BY <1>1, <1>8, <2>1, <2>3, <3>1 DEF CallsOK
    <2>. QED BY <1>8, <2>2, <2>3
<1>. QED BY <1>9, <1>10, <1>11, <1>12 DEF IInv

LEMMA FailStopKeeps == IInv /\ FailStop => IInv'
<1>. SUFFICES ASSUME IInv, FailStop PROVE IInv' OBVIOUS
<1>1. TypeOK /\ OwnOK /\ LogOK /\ KeyOK /\ WaitersOK /\ CallsOK BY DEF IInv
<1>. DEFINE out == [w \in waiters |-> Stopped]
<1>2. /\ mu # Nil /\ mu' = Nil /\ Resolve(out) /\ key' = key
      /\ byIndex' = byIndex \ {<<w.index, w.term>> : w \in waiters}
      /\ UNCHANGED <<solo, term, leading, log, commit, own, applied, saved, stopped, hint>>
    BY DEF FailStop, Free, Drain, Unavailable, core, calls
<1>3. DOMAIN out = waiters /\ \A w \in waiters : out[w] = Stopped OBVIOUS
<1>4. Stopped \in Answer /\ Stopped.kind = "stopped" BY DEF Stopped, Answer, Kinds
<1>. HIDE DEF out
<1>5. /\ waiters' = {} /\ byIndex' = {}
      /\ ch' \in [Call -> Answer \cup {Nil}]
      /\ \A c \in Call :
            \/ \E w \in waiters : w.call = c /\ ch'[c] = Stopped
            \/ (~ \E w \in waiters : w.call = c) /\ ch'[c] = ch[c]
    <2>1. \A w \in DOMAIN out : out[w] \in Answer BY <1>3, <1>4
    <2>2. /\ waiters' = waiters \ DOMAIN out
          /\ ch' \in [Call -> Answer \cup {Nil}]
          /\ \A c \in Call :
                \/ \E w \in DOMAIN out : w.call = c /\ ch'[c] = out[w]
                \/ (~ \E w \in DOMAIN out : w.call = c) /\ ch'[c] = ch[c]
        BY <1>1, <1>2, <1>3, <2>1, Resolved
    <2>3. byIndex' = {} BY <1>1, <1>2 DEF WaitersOK
    <2>. QED BY <1>3, <2>2, <2>3
\* The call whose batch it was returns the error, the others stay where they are.
<1>6. /\ pc' \in [Call -> {"new", "proposing", "waiting", "expired", "hint", "done"}]
      /\ reply' \in [Call -> Answer \cup {Nil}]
      /\ \A c \in Call : IF c = mu THEN /\ pc'[c] = "done"
                                        /\ reply'[c] = [kind |-> "unavailable", of |-> Nil]
                                   ELSE pc'[c] = pc[c] /\ reply'[c] = reply[c]
    <2>1. [kind |-> "unavailable", of |-> Nil] \in Answer BY DEF Answer, Kinds
    <2>2. CASE mu \in Call
        <3>1. /\ pc' = [pc EXCEPT ![mu] = "done"]
              /\ reply' = [reply EXCEPT ![mu] = [kind |-> "unavailable", of |-> Nil]]
            BY <2>2 DEF FailStop, Unavailable
        <3>. QED BY <1>1, <2>1, <2>2, <3>1 DEF TypeOK
    <2>3. CASE mu \notin Call
        <3>1. pc' = pc /\ reply' = reply BY <2>3 DEF FailStop, calls
        <3>. QED BY <1>1, <2>3, <3>1 DEF TypeOK
    <2>. QED BY <2>2, <2>3
<1>7. TypeOK' BY <1>1, <1>2, <1>5, <1>6 DEF TypeOK
<1>8. OwnOK' /\ LogOK' BY <1>1, <1>2 DEF OwnOK, LogOK
<1>9. KeyOK' BY <1>1, <1>2, <1>6 DEF KeyOK
<1>10. WaitersOK' BY <1>5 DEF WaitersOK
<1>11. CallsOK'
    <2>. SUFFICES ASSUME NEW c \in Call
                  PROVE  /\ pc'[c] # "proposing"
                         /\ pc'[c] \in {"proposing", "waiting"} => ch'[c] # Nil
                         /\ pc'[c] = "new" => ch'[c] = Nil /\ reply'[c] = Nil
                         /\ pc'[c] = "hint" => reply'[c] = Nil \/ reply'[c].kind = "stale"
                         /\ Truth(log, applied, key[c], c, ch'[c])
                         /\ Truth(log, applied, key[c], c, reply'[c])
        BY <1>2, ServerAssumption DEF CallsOK
    <2>1. pc'[c] # "proposing" BY <1>1, <1>6 DEF CallsOK
    <2>2. pc'[c] = "waiting" => ch'[c] # Nil
        <3>. SUFFICES ASSUME pc'[c] = "waiting", ch'[c] = Nil PROVE FALSE OBVIOUS
        <3>1. pc[c] = "waiting" BY <1>6
        <3>2. ch[c] = Nil /\ ~ \E w \in waiters : w.call = c BY <1>4, <1>5, ServerAssumption
        <3>. QED BY <1>1, <3>1, <3>2 DEF CallsOK
    <2>3. pc'[c] = "new" => ch'[c] = Nil /\ reply'[c] = Nil
        <3>. SUFFICES ASSUME pc'[c] = "new" PROVE ch'[c] = Nil /\ reply'[c] = Nil OBVIOUS
        <3>1. pc[c] = "new" /\ reply'[c] = reply[c] BY <1>6
        <3>2. ~ \E w \in waiters : w.call = c BY <1>1, <3>1 DEF WaitersOK
        <3>. QED BY <1>1, <1>5, <3>1, <3>2 DEF CallsOK
    <2>4. pc'[c] = "hint" => reply'[c] = Nil \/ reply'[c].kind = "stale" BY <1>1, <1>6 DEF CallsOK
    <2>5. Truth(log, applied, key[c], c, ch'[c])
        <3>1. Truth(log, applied, key[c], c, Stopped) BY <1>4 DEF Truth
        <3>2. Truth(log, applied, key[c], c, ch[c]) BY <1>1 DEF CallsOK
        <3>. QED BY <1>5, <3>1, <3>2
    <2>6. Truth(log, applied, key[c], c, reply'[c])
        <3>1. Truth(log, applied, key[c], c, [kind |-> "unavailable", of |-> Nil]) BY DEF Truth
        <3>2. Truth(log, applied, key[c], c, reply[c]) BY <1>1 DEF CallsOK
        <3>. QED BY <1>6, <3>1, <3>2
    <2>. QED BY <2>1, <2>2, <2>3, <2>4, <2>5, <2>6
<1>. QED BY <1>7, <1>8, <1>9, <1>10, <1>11 DEF IInv

LEMMA AdvanceKeeps == IInv /\ Advance => IInv'
<1>. SUFFICES ASSUME IInv, Advance PROVE IInv' OBVIOUS
<1>1. TypeOK /\ OwnOK /\ LogOK /\ KeyOK /\ WaitersOK /\ CallsOK BY DEF IInv
<1>2. /\ mu # Nil /\ mu' = Nil /\ ~ stopped
      /\ pc' = [c \in Call |-> IF c = mu THEN "waiting" ELSE pc[c]]
      /\ UNCHANGED <<solo, term, leading, log, commit, own, applied, saved, stopped, hint,
                     waiters, byIndex, ch, key, reply>>
    BY DEF Advance, Processing, Free, core, applier
<1>3. TypeOK' BY <1>1, <1>2 DEF TypeOK
<1>4. OwnOK' /\ LogOK' BY <1>1, <1>2 DEF OwnOK, LogOK
<1>4a. KeyOK' BY <1>1, <1>2 DEF KeyOK, CallsOK
<1>5. WaitersOK'
    <2>1. \A w \in waiters : w.call \in Call BY <1>1 DEF TypeOK, Waiter
    <2>. QED BY <1>1, <1>2, <2>1 DEF WaitersOK
<1>6. CallsOK'
    <2>. SUFFICES ASSUME NEW c \in Call
                  PROVE  /\ pc'[c] # "proposing"
                         /\ pc'[c] = "waiting" /\ ch[c] = Nil =>
                               [index |-> key[c][1], term |-> key[c][2], call |-> c] \in waiters
                         /\ pc'[c] = "new" => ch[c] = Nil /\ reply[c] = Nil
                         /\ pc'[c] = "hint" => reply[c] = Nil \/ reply[c].kind = "stale"
                         /\ Truth(log, applied, key[c], c, ch[c])
                         /\ Truth(log, applied, key[c], c, reply[c])
        BY <1>2, ServerAssumption DEF CallsOK
    <2>. QED BY <1>1, <1>2 DEF CallsOK
<1>. QED BY <1>3, <1>4, <1>4a, <1>5, <1>6 DEF IInv

\* A handler that goes on without creating an entry: it may take its outcome, or
\* drop its waiter.
LEMMA HandlerKeeps ==
    ASSUME IInv, NEW c \in Call, pc[c] # "proposing",
           NEW a \in {"expired", "hint", "done"}, pc' = [pc EXCEPT ![c] = a],
           NEW b \in Answer \cup {Nil}, reply' = [reply EXCEPT ![c] = b],
           NEW x \in {ch[c], Nil}, ch' = [ch EXCEPT ![c] = x],
           waiters' \subseteq waiters, byIndex' = {<<w.index, w.term>> : w \in waiters'},
           \A w \in waiters : w.call # c => w \in waiters',
           a # "expired" => \A w \in waiters' : w.call # c,
           a = "expired" => pc[c] = "waiting",
           a = "hint" => b = Nil \/ b.kind = "stale",
           Truth(log, applied, key[c], c, b),
           UNCHANGED <<solo, term, leading, log, commit, own, applied, mu, saved, stopped, hint, key>>
    PROVE  IInv'
<1>1. TypeOK /\ OwnOK /\ LogOK /\ KeyOK /\ WaitersOK /\ CallsOK BY DEF IInv
<1>2. /\ pc'[c] = a /\ reply'[c] = b /\ ch'[c] = x
      /\ \A d \in Call : d # c => pc'[d] = pc[d] /\ reply'[d] = reply[d] /\ ch'[d] = ch[d]
    BY <1>1 DEF TypeOK
<1>3. TypeOK'
    <2>1. byIndex' \subseteq byIndex BY <1>1 DEF WaitersOK
    <2>. QED BY <1>1, <2>1 DEF TypeOK
<1>4. OwnOK' /\ LogOK' BY <1>1 DEF OwnOK, LogOK
<1>5. KeyOK' BY <1>1, <1>2 DEF KeyOK
<1>6. WaitersOK'
    <2>1. \A w \in waiters' : w \in waiters /\ w.call \in Call BY <1>1 DEF TypeOK, Waiter
    <2>2. \A w \in waiters' : ch'[w.call] = Nil BY <1>1, <1>2, <2>1 DEF WaitersOK
    <2>3. \A w \in waiters' : pc'[w.call] \in {"proposing", "waiting", "expired"}
        BY <1>1, <1>2, <2>1 DEF WaitersOK
    <2>. QED BY <1>1, <2>1, <2>2, <2>3 DEF WaitersOK
<1>7. CallsOK'
    <2>. SUFFICES ASSUME NEW d \in Call
                  PROVE  /\ pc'[d] = "proposing" <=> mu = d
                         /\ pc'[d] \in {"proposing", "waiting"} /\ ch'[d] = Nil =>
                               [index |-> key[d][1], term |-> key[d][2], call |-> d] \in waiters'
                         /\ pc'[d] = "new" => ch'[d] = Nil /\ reply'[d] = Nil
                         /\ pc'[d] = "hint" => reply'[d] = Nil \/ reply'[d].kind = "stale"
                         /\ Truth(log, applied, key[d], d, ch'[d])
                         /\ Truth(log, applied, key[d], d, reply'[d])
        BY DEF CallsOK
    <2>1. CASE d = c
        <3>1. Truth(log, applied, key[c], c, x)
            <4>1. Truth(log, applied, key[c], c, ch[c]) BY <1>1 DEF CallsOK
            <4>2. Truth(log, applied, key[c], c, Nil) BY DEF Truth
            <4>. QED BY <4>1, <4>2
        <3>2. mu # c BY <1>1 DEF CallsOK
        <3>. QED BY <1>2, <2>1, <3>1, <3>2
    <2>2. CASE d # c
        <3>1. pc'[d] = pc[d] /\ reply'[d] = reply[d] /\ ch'[d] = ch[d] BY <1>2, <2>2
        <3>. DEFINE w == [index |-> key[d][1], term |-> key[d][2], call |-> d]
        <3>2. w \in waiters => w \in waiters' BY <2>2
        <3>. HIDE DEF w
        <3>3. pc[d] \in {"proposing", "waiting"} /\ ch[d] = Nil => w \in waiters
            BY <1>1 DEF CallsOK, w
        <3>4. pc'[d] \in {"proposing", "waiting"} /\ ch'[d] = Nil => w \in waiters'
            BY <3>1, <3>2, <3>3
        <3>. QED BY <1>1, <3>1, <3>4 DEF CallsOK, w
    <2>. QED BY <2>1, <2>2
<1>. QED BY <1>3, <1>4, <1>5, <1>6, <1>7 DEF IInv

LEMMA AcceptedKeeps ==
    ASSUME IInv, NEW c \in Call, ProposeAccepted(c)
    PROVE  IInv'
<1>1. TypeOK /\ OwnOK /\ LogOK /\ KeyOK /\ WaitersOK /\ CallsOK BY DEF IInv
<1>. DEFINE i == Len(log) + 1
            n == [index |-> i, term |-> term, call |-> c]
<1>2. /\ pc[c] = "new" /\ ~ stopped /\ leading /\ Len(log) < MaxLog
      /\ mu = Nil /\ mu' = c /\ saved' = FALSE /\ hint' = "self"
      /\ Create(term, c)
      /\ waiters' = {w \in waiters : w.index # i \/ w.term # term} \cup {n}
      /\ byIndex' = byIndex \cup {<<i, term>>}
      /\ key' = [key EXCEPT ![c] = <<i, term>>]
      /\ pc' = [pc EXCEPT ![c] = "proposing"]
      /\ UNCHANGED <<term, leading, applied, stopped, ch, reply>>
    BY DEF ProposeAccepted, Lock, Free, Register
<1>3. /\ log \in Seq(Entry) /\ Len(log) \in Nat /\ MaxLog \in Nat /\ MaxTerm \in Nat
      /\ term \in 1..MaxTerm /\ leading = TRUE
      /\ commit \in 0..Len(log) /\ applied \in 0..commit /\ i \in 1..MaxLog
      /\ own \subseteq [index : 1..MaxLog, term : 1..MaxTerm, call : Call \cup {Other}]
      /\ ch[c] = Nil /\ reply[c] = Nil
    <2>1. leading = TRUE BY <1>1, <1>2 DEF TypeOK
    <2>2. ch[c] = Nil /\ reply[c] = Nil BY <1>1, <1>2 DEF CallsOK
    <2>3. term >= 1 BY <1>1, <1>2 DEF OwnOK
    <2>4. MaxLog \in Nat /\ MaxTerm \in Nat BY ServerAssumption
    <2>5. /\ log \in Seq(Entry) /\ term \in 0..MaxTerm
          /\ commit \in 0..Len(log) /\ applied \in 0..commit
          /\ own \subseteq [index : 1..MaxLog, term : 1..MaxTerm, call : Call \cup {Other}]
        BY <1>1 DEF TypeOK
    <2>6. Len(log) \in Nat BY <2>5
    <2>. QED BY <1>2, <2>1, <2>2, <2>3, <2>4, <2>5, <2>6
<1>4. /\ CoreKept /\ OwnOK' /\ LogOK' /\ own' = own \cup {n}
    <2>1. \A o \in own : o.term <= term /\ (o.term = term => o.index <= Len(log))
        BY <1>1, <1>2 DEF OwnOK
    <2>2. term' = term /\ leading' = TRUE BY <1>2, <1>3
    <2>. QED BY <1>1, <1>2, <1>3, <2>1, <2>2, Created
<1>5. n.index = i /\ n.term = term /\ n.call = c OBVIOUS
<1>6. waiters' = waiters \cup {n}
    <2>1. \A w \in waiters : w.index # i \/ w.term # term
        BY <1>1, <1>2, <1>3 DEF WaitersOK, OwnOK
    <2>. QED BY <1>2, <2>1
<1>7. n \in Waiter BY <1>3 DEF Waiter
<1>8. TypeOK'
    <2>1. applied' \in 0..commit' /\ commit' \in 0..Len(log') BY <1>2, <1>3, <1>4 DEF CoreKept
    <2>2. saved' \in BOOLEAN BY <1>2
    <2>3. stopped' \in BOOLEAN BY <1>1, <1>2 DEF TypeOK
    <2>4. solo' \in BOOLEAN BY <1>1, <1>4 DEF TypeOK, CoreKept
    <2>5. waiters' \subseteq Waiter BY <1>1, <1>6, <1>7 DEF TypeOK
    <2>6. byIndex' \subseteq (1..MaxLog) \X (1..MaxTerm) BY <1>1, <1>2, <1>3 DEF TypeOK
    <2>7. key' \in [Call -> (0..MaxLog) \X (0..MaxTerm)] BY <1>1, <1>2, <1>3 DEF TypeOK
    <2>8. pc' \in [Call -> {"new", "proposing", "waiting", "expired", "hint", "done"}]
        BY <1>1, <1>2 DEF TypeOK
    <2>. QED BY <1>1, <1>2, <1>4, <2>1, <2>2, <2>3, <2>4, <2>5, <2>6, <2>7, <2>8 DEF TypeOK, CoreKept
<1>9. /\ key'[c] = <<i, term>> /\ pc'[c] = "proposing"
      /\ \A d \in Call : d # c => key'[d] = key[d] /\ pc'[d] = pc[d]
    BY <1>1, <1>2 DEF TypeOK
<1>10. KeyOK'
    <2>1. \A o \in own : o.call # c BY <1>1, <1>2 DEF KeyOK
    <2>2. ASSUME NEW o \in own', o.call \in Call
          PROVE  key'[o.call] = <<o.index, o.term>> /\ pc'[o.call] # "new"
        BY <1>1, <1>4, <1>5, <1>9, <2>1, <2>2 DEF KeyOK
    <2>3. ASSUME NEW d \in Call, pc'[d] \in {"proposing", "waiting", "expired"}
          PROVE  [index |-> key'[d][1], term |-> key'[d][2], call |-> d] \in own'
        <3>1. CASE d = c BY <1>4, <1>9, <3>1
        <3>2. CASE d # c BY <1>1, <1>4, <1>9, <2>3, <3>2 DEF KeyOK
        <3>. QED BY <3>1, <3>2
    <2>. QED BY <2>2, <2>3 DEF KeyOK
<1>11. WaitersOK'
    <2>1. byIndex' = {<<w.index, w.term>> : w \in waiters'}
        <3>1. byIndex = {<<w.index, w.term>> : w \in waiters} BY <1>1 DEF WaitersOK
        <3>. HIDE DEF n, i
        <3>2. byIndex' = byIndex \cup {<<n.index, n.term>>} BY <1>2, <1>5
        <3>. QED BY <1>6, <3>1, <3>2
    <2>2. ASSUME NEW w \in waiters'
          PROVE  /\ w \in own' /\ w.index > applied' /\ ch'[w.call] = Nil
                 /\ pc'[w.call] \in {"proposing", "waiting", "expired"}
        <3>1. CASE w = n BY <1>2, <1>3, <1>4, <1>5, <1>9, <3>1
        <3>2. CASE w \in waiters
            <4>1. w.call \in Call BY <1>1, <3>2 DEF TypeOK, Waiter
            <4>. QED BY <1>1, <1>2, <1>4, <1>9, <3>2, <4>1 DEF WaitersOK
        <3>. QED BY <1>6, <3>1, <3>2
    <2>. QED BY <1>2, <2>1, <2>2 DEF WaitersOK
<1>12. CallsOK'
    <2>. SUFFICES ASSUME NEW d \in Call
                  PROVE  /\ pc'[d] = "proposing" <=> c = d
                         /\ pc'[d] \in {"proposing", "waiting"} /\ ch[d] = Nil =>
                               [index |-> key'[d][1], term |-> key'[d][2], call |-> d] \in waiters'
                         /\ pc'[d] = "new" => ch[d] = Nil /\ reply[d] = Nil
                         /\ pc'[d] = "hint" => reply[d] = Nil \/ reply[d].kind = "stale"
                         /\ Truth(log', applied, key'[d], d, ch[d])
                         /\ Truth(log', applied, key'[d], d, reply[d])
        BY <1>2 DEF CallsOK
    <2>1. CASE d = c
        <3>1. [index |-> key'[d][1], term |-> key'[d][2], call |-> d] = n
            <4>. HIDE DEF i
            <4>1. key'[d][1] = i /\ key'[d][2] = term BY <1>9, <2>1
            <4>. QED BY <2>1, <4>1, Zenon
        <3>2. Truth(log', applied, key'[d], d, Nil) BY DEF Truth
        <3>. QED BY <1>3, <1>6, <1>9, <2>1, <3>1, <3>2
    <2>2. CASE d # c
        <3>1. key'[d] = key[d] /\ pc'[d] = pc[d] BY <1>9, <2>2
        <3>2. pc[d] # "proposing" BY <1>1, <1>2, ServerAssumption DEF CallsOK
        <3>3. Truth(log, applied, key[d], d, ch[d]) /\ Truth(log, applied, key[d], d, reply[d])
            BY <1>1 DEF CallsOK
        <3>4. \A k \in 1..applied : log'[k] = log[k] BY <1>3, <1>4 DEF CoreKept
        <3>5. Truth(log', applied, key[d], d, ch[d]) /\ Truth(log', applied, key[d], d, reply[d])
            BY <3>3, <3>4 DEF Truth
        <3>. QED BY <1>1, <1>6, <2>2, <3>1, <3>2, <3>5 DEF CallsOK
    <2>. QED BY <2>1, <2>2
<1>. QED BY <1>4, <1>8, <1>10, <1>11, <1>12 DEF IInv

LEMMA ExecuteKeeps ==
    ASSUME IInv, NEW c \in Call, Execute(c)
    PROVE  IInv'
<1>1. TypeOK /\ OwnOK /\ LogOK /\ KeyOK /\ WaitersOK /\ CallsOK BY DEF IInv
<1>2. /\ pc = [pc EXCEPT ![c] = pc[c]] /\ reply = [reply EXCEPT ![c] = reply[c]]
      /\ ch = [ch EXCEPT ![c] = ch[c]]
      /\ reply[c] \in Answer \cup {Nil} /\ ch[c] \in Answer \cup {Nil}
      /\ hint \in {Nil, "self", "peer"}
    BY <1>1 DEF TypeOK
<1>3. pc[c] \notin {"proposing", "waiting", "expired"} \/ ch[c] # Nil =>
         \A w \in waiters : w.call # c
    BY <1>1 DEF WaitersOK
<1>4. /\ byIndex = {<<w.index, w.term>> : w \in waiters}
      /\ Truth(log, applied, key[c], c, ch[c]) /\ Truth(log, applied, key[c], c, reply[c])
    BY <1>1 DEF WaitersOK, CallsOK
<1>5. CASE ProposeStopped(c)
    <2>. DEFINE b == [kind |-> "unavailable", of |-> Nil]
    <2>1. b \in Answer /\ Truth(log, applied, key[c], c, b) BY DEF Answer, Kinds, Truth
    <2>2. /\ pc[c] = "new" /\ pc' = [pc EXCEPT ![c] = "done"] /\ reply' = [reply EXCEPT ![c] = b]
          /\ UNCHANGED <<solo, term, leading, log, commit, own, applied, mu, saved, stopped, hint, key,
                         waiters, byIndex, ch>>
        BY <1>5 DEF ProposeStopped, Unavailable, core, host, applier
    <2>. HIDE DEF b
    <2>. QED BY <1>2, <1>3, <1>4, <2>1, <2>2, HandlerKeeps
<1>6. CASE ProposeRefused(c)
    <2>1. /\ pc[c] = "new" /\ pc' = [pc EXCEPT ![c] = "hint"] /\ reply' = reply
          /\ UNCHANGED <<solo, term, leading, log, commit, own, applied, mu, saved, stopped, hint, key,
                         waiters, byIndex, ch>>
        BY <1>6 DEF ProposeRefused, core, host, applier
    <2>2. reply[c] = Nil BY <1>1, <2>1 DEF CallsOK
    <2>. QED BY <1>2, <1>3, <1>4, <2>1, <2>2, HandlerKeeps
<1>7. CASE ProposeAccepted(c) BY <1>7, AcceptedKeeps
<1>8. CASE Receive(c)
    <2>. DEFINE a == IF ch[c].kind = "stale" THEN "hint" ELSE "done"
    <2>1. /\ pc[c] = "waiting" /\ ch[c] # Nil /\ pc' = [pc EXCEPT ![c] = a]
          /\ reply' = [reply EXCEPT ![c] = ch[c]] /\ ch' = [ch EXCEPT ![c] = Nil]
          /\ UNCHANGED <<solo, term, leading, log, commit, own, applied, mu, saved, stopped, hint, key,
                         waiters, byIndex>>
        BY <1>8 DEF Receive, core, host
    <2>2. a \in {"hint", "done"} /\ (a = "hint" => ch[c].kind = "stale") OBVIOUS
    <2>. HIDE DEF a
    <2>. QED BY <1>2, <1>3, <1>4, <2>1, <2>2, HandlerKeeps
<1>9. CASE Expire(c)
    <2>1. /\ pc[c] = "waiting" /\ pc' = [pc EXCEPT ![c] = "expired"] /\ reply' = reply
          /\ UNCHANGED <<solo, term, leading, log, commit, own, applied, mu, saved, stopped, hint, key,
                         waiters, byIndex, ch>>
        BY <1>9 DEF Expire, core, host, applier
    <2>. QED BY <1>2, <1>4, <2>1, HandlerKeeps
<1>10. CASE Cancel(c)
    <2>. DEFINE b == [kind |-> "expired", of |-> Nil]
    <2>1. b \in Answer /\ Truth(log, applied, key[c], c, b) BY DEF Answer, Kinds, Truth
    <2>2. /\ pc[c] = "expired" /\ pc' = [pc EXCEPT ![c] = "done"] /\ reply' = [reply EXCEPT ![c] = b]
          /\ waiters' = {w \in waiters : <<w.index, w.term>> # key[c]}
          /\ byIndex' = IF \E w \in waiters : <<w.index, w.term>> = key[c]
                        THEN byIndex \ {key[c]} ELSE byIndex
          /\ UNCHANGED <<solo, term, leading, log, commit, own, applied, mu, saved, stopped, hint, key, ch>>
        BY <1>10 DEF Cancel, CancelWaiter, core, host
    <2>. HIDE DEF b
    <2>3. byIndex' = {<<w.index, w.term>> : w \in waiters'} BY <1>4, <2>2
    \* The key is the call's own: the entry under it is the one it created.
    <2>4. ASSUME NEW w \in waiters PROVE w.call # c <=> w \in waiters'
        <3>. DEFINE n == [index |-> key[c][1], term |-> key[c][2], call |-> c]
        <3>1. n \in own /\ n.index = key[c][1] /\ n.term = key[c][2] /\ n.call = c
            BY <1>1, <2>2 DEF KeyOK
        <3>. HIDE DEF n
        <3>2. w \in own BY <1>1 DEF WaitersOK
        <3>3. w.call = c => <<w.index, w.term>> = key[c] BY <1>1, <3>2 DEF KeyOK
        <3>4. <<w.index, w.term>> = key[c] => w.index = n.index /\ w.term = n.term BY <3>1
        <3>5. <<w.index, w.term>> = key[c] => w.call = c BY <1>1, <3>1, <3>2, <3>4 DEF OwnOK
        <3>. QED BY <2>2, <3>3, <3>5
    <2>5. waiters' \subseteq waiters BY <2>2
    <2>6. \A w \in waiters' : w.call # c BY <2>4, <2>5
    <2>7. \A w \in waiters : w.call # c => w \in waiters' BY <2>4
    <2>. QED BY <1>2, <2>1, <2>2, <2>3, <2>5, <2>6, <2>7, HandlerKeeps
<1>11. CASE NotLeader(c)
    <2>. DEFINE b == IF reply[c] = Nil THEN [kind |-> "notleader", of |-> hint]
                     ELSE [reply[c] EXCEPT !.of = hint]
    <2>1. /\ pc[c] = "hint" /\ pc' = [pc EXCEPT ![c] = "done"] /\ reply' = [reply EXCEPT ![c] = b]
          /\ UNCHANGED <<solo, term, leading, log, commit, own, applied, mu, saved, stopped, hint, key,
                         waiters, byIndex, ch>>
        BY <1>1, <1>11 DEF NotLeader, core, host, applier, TypeOK
    <2>2. b \in Answer
        <3>1. [kind |-> "notleader", of |-> hint] \in Answer BY <1>2 DEF Answer, Kinds
        <3>2. reply[c] # Nil => [reply[c] EXCEPT !.of = hint] \in Answer BY <1>2 DEF Answer
        <3>. QED BY <3>1, <3>2
    <2>3. Truth(log, applied, key[c], c, b)
        <3>1. CASE reply[c] = Nil BY <3>1 DEF Truth
        <3>2. CASE reply[c] # Nil
            <4>1. reply[c].kind = "stale" BY <1>1, <2>1, <3>2 DEF CallsOK
            <4>2. b.kind = "stale" BY <1>2, <3>2, <4>1 DEF Answer
            <4>. QED BY <1>4, <3>2, <4>1, <4>2 DEF Truth
        <3>. QED BY <3>1, <3>2
    <2>. HIDE DEF b
    <2>. QED BY <1>2, <1>3, <1>4, <2>1, <2>2, <2>3, HandlerKeeps
<1>. QED BY <1>5, <1>6, <1>7, <1>8, <1>9, <1>10, <1>11 DEF Execute

-----------------------------------------------------------------------------
\* The server.

\* The invariant is inductive, whatever the core and the handlers do.
THEOREM Inductive == Spec => []IInv
<1>1. Init => IInv
    <2>. SUFFICES ASSUME Init PROVE IInv OBVIOUS
    <2>1. Len(log) = 0 /\ log \in Seq(Entry) BY DEF Init
    <2>2. TypeOK
        <3>1. /\ log \in Seq(Entry) /\ Len(log) <= MaxLog /\ commit \in 0..Len(log) /\ applied \in 0..commit
              /\ term \in 0..MaxTerm
            BY <2>1, ServerAssumption DEF Init
        <3>2. solo \in BOOLEAN BY DEF Init
        <3>3. leading \in BOOLEAN BY DEF Init
        <3>4. saved \in BOOLEAN /\ stopped \in BOOLEAN BY DEF Init
        <3>5. key \in [Call -> (0..MaxLog) \X (0..MaxTerm)] BY ServerAssumption DEF Init
        <3>6. /\ ch \in [Call -> Answer \cup {Nil}] /\ reply \in [Call -> Answer \cup {Nil}]
              /\ pc \in [Call -> {"new", "proposing", "waiting", "expired", "hint", "done"}]
              /\ mu \in Call \cup {Nil, Other} /\ hint \in {Nil, "self", "peer"}
              /\ waiters = {} /\ byIndex = {} /\ own = {}
            BY DEF Init
        <3>. QED BY <3>1, <3>2, <3>3, <3>4, <3>5, <3>6 DEF TypeOK
    <2>3. OwnOK /\ LogOK /\ KeyOK BY <2>1 DEF Init, OwnOK, LogOK, KeyOK
    <2>4. WaitersOK BY DEF Init, WaitersOK
    <2>5. CallsOK BY ServerAssumption DEF Init, CallsOK, Truth
    <2>. QED BY <2>2, <2>3, <2>4, <2>5 DEF IInv
<1>2. IInv /\ [Next]_vars => IInv'
    <2>. SUFFICES ASSUME IInv, [Next]_vars PROVE IInv' OBVIOUS
    <2>1. CASE Turn BY <2>1, TurnKeeps
    <2>2. CASE Save \/ Fail BY <2>2, SaveFailKeeps
    <2>3. CASE ApplyEntry BY <2>3, ApplyKeeps
    <2>4. CASE FailStop BY <2>4, FailStopKeeps
    <2>5. CASE Advance BY <2>5, AdvanceKeeps
    <2>6. CASE \E c \in Call : Execute(c) BY <2>6, ExecuteKeeps
    <2>7. CASE UNCHANGED vars
        BY <2>7, ZenonT(60) DEF vars, core, host, applier, calls, IInv, TypeOK, OwnOK, LogOK, KeyOK, WaitersOK, CallsOK
    <2>. QED BY <2>1, <2>2, <2>3, <2>4, <2>5, <2>6, <2>7 DEF Next
<1>. QED BY <1>1, <1>2, PTL DEF Spec

\* Every piece of state keeps its type.
THEOREM Typed == Spec => []TypeOK
<1>1. IInv => TypeOK BY DEF IInv
<1>. QED BY <1>1, Inductive, PTL

\* A stale answer names an index that was applied with another term.
LEMMA TruthOfStale ==
    ASSUME NEW l, NEW a, NEW k, NEW c, NEW r, Truth(l, a, k, c, r), r # Nil, r.kind = "stale"
    PROVE  k[1] \in 1..a /\ l[k[1]].term # k[2]
BY Zenon DEF Truth

\* A result that Execute returns is that of the call's own entry, which was applied.
THEOREM OwnAnswers == Spec => []AnswersOwnEntry
<1>1. IInv => AnswersOwnEntry
    <2>. SUFFICES ASSUME IInv, NEW c \in Call, reply[c] # Nil, reply[c].kind = "result"
                  PROVE  /\ reply[c].of = c
                         /\ key[c][1] <= applied /\ log[key[c][1]] = [term |-> key[c][2], call |-> c]
        BY Zenon DEF AnswersOwnEntry
    <2>1. applied \in Nat BY DEF IInv, TypeOK
    <2>2. Truth(log, applied, key[c], c, reply[c]) BY DEF IInv, CallsOK
    <2>. DEFINE k == key[c]
                r == reply[c]
    <2>3. Truth(log, applied, k, c, r) /\ r # Nil /\ r.kind = "result" BY <2>2
    <2>. HIDE DEF k, r
    <2>4. r.of = c /\ k[1] \in 1..applied /\ log[k[1]] = [term |-> k[2], call |-> c]
        BY <2>3 DEF Truth
    <2>5. k[1] <= applied
        <3>. DEFINE x == k[1]
        <3>1. x \in 1..applied BY <2>4
        <3>. HIDE DEF x
        <3>2. x <= applied BY <2>1, <3>1
        <3>. QED BY <3>2 DEF x
    <2>. QED BY <2>4, <2>5, Zenon DEF k, r
<1>. QED BY <1>1, Inductive, PTL

\* A call that was told its proposal is lost has no entry among those applied.
THEOREM LostIsLost == Spec => []StaleIsLost
<1>1. IInv => StaleIsLost
    <2>. SUFFICES ASSUME IInv, NEW c \in Call, reply[c] # Nil, reply[c].kind = "stale",
                         NEW k \in 1..applied, log[k].call = c
                  PROVE  FALSE
        BY DEF StaleIsLost
    <2>1. k \in 1..Len(log) BY DEF IInv, TypeOK
    <2>. DEFINE o == [index |-> k, term |-> log[k].term, call |-> c]
    <2>2. o \in own /\ o.call = c /\ o.index = k /\ o.term = log[k].term BY <2>1 DEF IInv, LogOK
    <2>. HIDE DEF o
    <2>3. key[c] = <<k, log[k].term>> BY <2>2 DEF IInv, KeyOK
    <2>4. Truth(log, applied, key[c], c, reply[c]) BY DEF IInv, CallsOK
    <2>5. log[key[c][1]].term # key[c][2] BY <2>4, TruthOfStale, Zenon
    <2>6. key[c][1] = k /\ key[c][2] = log[k].term BY <2>3
    <2>. QED BY <2>5, <2>6, Zenon
<1>. QED BY <1>1, Inductive, PTL

\* A handler that waits on an empty channel has its waiter where an outcome will come from.
THEOREM NobodyStranded == Spec => []NoneStranded
<1>1. IInv => NoneStranded
    <2>. SUFFICES ASSUME IInv, NEW c \in Call, pc[c] \in {"proposing", "waiting"}, ch[c] = Nil
                  PROVE  /\ [index |-> key[c][1], term |-> key[c][2], call |-> c] \in waiters
                         /\ key[c] \in byIndex /\ key[c][1] > applied /\ (stopped => ~ Free)
        BY DEF NoneStranded
    <2>. DEFINE w == [index |-> key[c][1], term |-> key[c][2], call |-> c]
    <2>1. w \in waiters BY DEF IInv, CallsOK
    <2>2. w.index = key[c][1] /\ w.term = key[c][2] OBVIOUS
    <2>3. key[c] = <<key[c][1], key[c][2]>> BY DEF IInv, TypeOK
    <2>. HIDE DEF w
    <2>4. key[c] \in byIndex BY <2>1, <2>2, <2>3 DEF IInv, WaitersOK
    <2>5. key[c][1] > applied BY <2>1, <2>2 DEF IInv, WaitersOK
    <2>6. stopped => ~ Free BY <2>1 DEF IInv, WaitersOK, Free
    <2>. QED BY <2>1, <2>4, <2>5, <2>6 DEF w
<1>. QED BY <1>1, Inductive, PTL

\* The applier's two maps describe the same waiters, all of handlers that have not returned.
THEOREM MapsAlwaysAgree == Spec => []MapsAgree
<1>1. IInv => MapsAgree
    <2>. SUFFICES ASSUME IInv PROVE MapsAgree OBVIOUS
    <2>1. \A w \in waiters : w \in own /\ pc[w.call] \in {"proposing", "waiting", "expired"}
        BY DEF IInv, WaitersOK
    <2>2. \A v, w \in waiters : v.index = w.index /\ v.term = w.term => v = w
        BY <2>1 DEF IInv, OwnOK
    <2>3. byIndex = {<<w.index, w.term>> : w \in waiters} BY DEF IInv, WaitersOK
    <2>. QED BY <2>1, <2>2, <2>3 DEF MapsAgree
<1>. QED BY <1>1, Inductive, PTL
=============================================================================
