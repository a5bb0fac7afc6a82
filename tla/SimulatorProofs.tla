--------------------------- MODULE SimulatorProofs ---------------------------
(***************************************************************************)
(* Every live node of the simulator has exactly one tick coming, for any   *)
(* cluster, any fault schedules and any times.                             *)
(*                                                                         *)
(* OneTickStream says nothing about the ticks of former processes that are *)
(* still queued.  The inductive invariant adds that they all belong to     *)
(* earlier generations: so a new generation never meets an old tick.       *)
(***************************************************************************)
EXTENDS Simulator, TLAPS

Shape(sn) ==
    /\ DOMAIN sn = {"up", "halted", "generation", "paused", "multiplier"}
    /\ sn.generation \in Nat

\* The ticks of node n for a generation, in the queue q.
TicksIn(q, n, generation) ==
    {e \in q : e.kind = "Tick" /\ e.node = n /\ e.generation = generation}

\* Every tick of n in q is of this generation or an earlier one.
Old(q, sn, n) ==
    \A e \in q : e.kind = "Tick" /\ e.node = n =>
        e.generation \in Nat /\ e.generation <= sn.generation

Stream(q, sn, n) ==
    IF Live(sn) THEN \E e \in q : TicksIn(q, n, sn.generation) = {e}
    ELSE TicksIn(q, n, sn.generation) = {}

SameTicks(q, r, n) ==
    \A e : e.kind = "Tick" /\ e.node = n => (e \in q <=> e \in r)

Shapes == DOMAIN nodes = Node /\ \A n \in Node : Shape(nodes[n])

TickInv == Shapes /\ \A n \in Node : Old(queue, nodes[n], n) /\ Stream(queue, nodes[n], n)

-----------------------------------------------------------------------------
\* What the operators on nodes and queues do to the ticks of one node.

\* Queues with the same ticks of a node, and a node of the same generation that
\* is as much alive, are the same stream.
LEMMA SameStream ==
    ASSUME NEW q, NEW r, NEW n, NEW sn, NEW tn, SameTicks(q, r, n),
           tn.generation = sn.generation, Live(tn) <=> Live(sn)
    PROVE  /\ Old(q, sn, n) => Old(r, tn, n)
           /\ TicksIn(q, n, sn.generation) = TicksIn(r, n, tn.generation)
           /\ Stream(q, sn, n) => Stream(r, tn, n)
<1>1. TicksIn(q, n, sn.generation) = TicksIn(r, n, tn.generation)
    BY DEF SameTicks, TicksIn
<1>2. Old(q, sn, n) => Old(r, tn, n) BY DEF Old, SameTicks
<1>3. ASSUME Stream(q, sn, n) PROVE Stream(r, tn, n)
    <2>1. CASE Live(sn)
        <3>1. PICK e \in q : TicksIn(q, n, sn.generation) = {e} BY <1>3, <2>1 DEF Stream
        <3>2. e \in r BY <3>1, <1>1 DEF TicksIn
        <3>. QED BY <3>1, <3>2, <1>1, <2>1 DEF Stream
    <2>2. CASE ~ Live(sn) BY <1>1, <1>3, <2>2 DEF Stream
    <2>. QED BY <2>1, <2>2
<1>. QED BY <1>1, <1>2, <1>3

\* A tick stream that was invalidated has no tick.
LEMMA Invalidated ==
    ASSUME NEW q, NEW n, NEW sn, Shape(sn), Old(q, sn, n),
           NEW tn, Shape(tn), tn.generation = sn.generation + 1
    PROVE  Old(q, tn, n) /\ TicksIn(q, n, tn.generation) = {}
<1>1. sn.generation \in Nat BY DEF Shape
<1>2. Old(q, tn, n) BY <1>1 DEF Old
<1>3. \A e \in q : ~ (e.kind = "Tick" /\ e.node = n /\ e.generation = tn.generation)
    BY <1>1 DEF Old
<1>. QED BY <1>2, <1>3 DEF TicksIn

\* A process that crashed has no tick coming.
LEMMA CrashedStream ==
    ASSUME NEW q, NEW n, NEW sn, Shape(sn), Old(q, sn, n)
    PROVE  /\ Shape(MarkProcessCrashed(sn))
           /\ Old(q, MarkProcessCrashed(sn), n) /\ Stream(q, MarkProcessCrashed(sn), n)
<1>. DEFINE tn == MarkProcessCrashed(sn)
<1>1. Shape(tn) /\ tn.generation = sn.generation + 1 /\ tn.up = FALSE
    BY DEF Shape, MarkProcessCrashed, InvalidateTickStream
<1>. HIDE DEF tn
<1>2. Old(q, tn, n) /\ TicksIn(q, n, tn.generation) = {} BY <1>1, Invalidated
<1>. QED BY <1>1, <1>2 DEF Stream, Live, tn

\* Neither has one that stopped, whether it was stopped before or not.
LEMMA HaltedStream ==
    ASSUME NEW q, NEW n, NEW sn, Shape(sn), Old(q, sn, n),
           sn.halted => TicksIn(q, n, sn.generation) = {}
    PROVE  /\ Shape(MarkProcessHalted(sn))
           /\ Old(q, MarkProcessHalted(sn), n) /\ Stream(q, MarkProcessHalted(sn), n)
<1>. DEFINE tn == MarkProcessHalted(sn)
<1>1. CASE sn.halted
    <2>1. Shape(tn) /\ tn.generation = sn.generation /\ tn.halted = TRUE
        BY <1>1 DEF Shape, MarkProcessHalted
    <2>. HIDE DEF tn
    <2>2. Old(q, tn, n) /\ TicksIn(q, n, tn.generation) = {} BY <1>1, <2>1 DEF Old
    <2>. QED BY <2>1, <2>2 DEF Stream, Live, tn
<1>2. CASE ~ sn.halted
    <2>1. Shape(tn) /\ tn.generation = sn.generation + 1 /\ tn.halted = TRUE
        BY <1>2 DEF Shape, MarkProcessHalted, InvalidateTickStream
    <2>. HIDE DEF tn
    <2>2. Old(q, tn, n) /\ TicksIn(q, n, tn.generation) = {} BY <2>1, Invalidated
    <2>. QED BY <2>1, <2>2 DEF Stream, Live, tn
<1>. QED BY <1>1, <1>2

\* A new process starts without ticks.
LEMMA ReplacedStream ==
    ASSUME NEW q, NEW n, NEW sn, Shape(sn), Old(q, sn, n)
    PROVE  /\ Shape(ReplaceProcess(sn)) /\ ReplaceProcess(sn).halted = FALSE
           /\ Old(q, ReplaceProcess(sn), n)
           /\ TicksIn(q, n, ReplaceProcess(sn).generation) = {}
<1>. DEFINE tn == ReplaceProcess(sn)
<1>1. Shape(tn) /\ tn.generation = sn.generation + 1 /\ tn.halted = FALSE
    BY DEF Shape, ReplaceProcess, InvalidateTickStream
<1>. HIDE DEF tn
<1>. QED BY <1>1, Invalidated DEF tn

\* Scheduling the next tick where there is none makes a stream of one, and
\* leaves the other nodes alone.
LEMMA TickedStream ==
    ASSUME NEW q, NEW t, NEW n, NEW sn, Shape(sn), Old(q, sn, n),
           TicksIn(q, n, sn.generation) = {}
    PROVE  /\ Old(WithTick(q, t, n, sn), sn, n) /\ Stream(WithTick(q, t, n, sn), sn, n)
           /\ \A m : m # n => SameTicks(q, WithTick(q, t, n, sn), m)
<1>1. CASE Live(sn)
    <2>. DEFINE e == TickEvent(q, t + NextTickDelay(sn), n, sn.generation)
                r == q \cup {e}
    <2>1. WithTick(q, t, n, sn) = r BY <1>1 DEF WithTick
    <2>2. e.kind = "Tick" /\ e.node = n /\ e.generation = sn.generation BY DEF TickEvent
    <2>. HIDE DEF e
    <2>3. Old(r, sn, n) BY <2>2 DEF Old, Shape
    <2>4. TicksIn(r, n, sn.generation) = {e} BY <2>2 DEF TicksIn
    <2>5. \A m : m # n => SameTicks(q, r, m) BY <2>2 DEF SameTicks
    <2>. QED BY <1>1, <2>1, <2>3, <2>4, <2>5 DEF Stream
<1>2. CASE ~ Live(sn) BY <1>2 DEF WithTick, Stream, SameTicks
<1>. QED BY <1>1, <1>2

-----------------------------------------------------------------------------
\* Steps.

\* A step that changes the process of one node and the ticks of no other node.
LEMMA OneNode ==
    ASSUME Shapes, NEW n, NEW q, NEW r, NEW sn,
           \A m \in Node \ {n} : Old(q, nodes[m], m) /\ Stream(q, nodes[m], m) /\ SameTicks(q, r, m),
           n \in Node => Shape(sn) /\ Old(r, sn, n) /\ Stream(r, sn, n),
           nodes' = [nodes EXCEPT ![n] = sn], queue' = r
    PROVE  TickInv'
<1>1. DOMAIN nodes' = Node BY DEF Shapes
<1>2. ASSUME NEW m \in Node
      PROVE  Shape(nodes'[m]) /\ Old(queue', nodes'[m], m) /\ Stream(queue', nodes'[m], m)
    <2>1. CASE m = n
        <3>1. nodes'[m] = sn BY <2>1 DEF Shapes
        <3>. QED BY <2>1, <3>1
    <2>2. CASE m # n
        <3>1. nodes'[m] = nodes[m] BY <2>2 DEF Shapes
        <3>2. Shape(nodes[m]) BY DEF Shapes
        <3>3. Old(r, nodes[m], m) /\ Stream(r, nodes[m], m) BY <2>2, SameStream
        <3>. QED BY <3>1, <3>2, <3>3
    <2>. QED BY <2>1, <2>2
<1>. QED BY <1>1, <1>2 DEF TickInv, Shapes

\* What else is pushed is no tick.
LEMMA MessagesAreNoTicks ==
    ASSUME NEW q, NEW t, NEW n, NEW to, NEW copies, NEW delay, NEW m
    PROVE  SameTicks(q, Sent(q, t, n, to, copies, delay), m)
BY DEF SameTicks, Sent

LEMMA RestartsAreNoTicks ==
    ASSUME NEW q, NEW t, NEW n, NEW m
    PROVE  SameTicks(q, q \cup {RestartEvent(q, t, n)}, m)
BY DEF SameTicks, RestartEvent

\* The queue q without the event being handled: every stream is as it was, but
\* the one of a node whose tick is handled has run out.
Handling(q, n, ticking) ==
    \A m \in Node :
        /\ Old(q, nodes[m], m)
        /\ IF m = n /\ ticking THEN TicksIn(q, m, nodes[m].generation) = {}
           ELSE Stream(q, nodes[m], m)

LEMMA HandlingSame ==
    ASSUME NEW q, NEW r, NEW n, NEW ticking, Handling(q, n, ticking), \A m : SameTicks(q, r, m)
    PROVE  Handling(r, n, ticking)
<1>1. ASSUME NEW m \in Node
      PROVE  /\ Old(r, nodes[m], m)
             /\ IF m = n /\ ticking THEN TicksIn(r, m, nodes[m].generation) = {}
                ELSE Stream(r, nodes[m], m)
    <2>1. /\ Old(q, nodes[m], m) => Old(r, nodes[m], m)
          /\ TicksIn(q, m, nodes[m].generation) = TicksIn(r, m, nodes[m].generation)
          /\ Stream(q, nodes[m], m) => Stream(r, nodes[m], m)
        BY SameStream
    <2>. QED BY <2>1 DEF Handling
<1>. QED BY <1>1 DEF Handling

\* A crash of the process, with or without the restart of a directive.
LEMMA CrashKeeps ==
    ASSUME Shapes, NEW n, NEW ticking, NEW q, Handling(q, n, ticking), NEW r,
           \A m : SameTicks(q, r, m), queue' = r,
           nodes' = [nodes EXCEPT ![n] = MarkProcessCrashed(nodes[n])]
    PROVE  TickInv'
<1>1. Handling(r, n, ticking) BY HandlingSame
<1>2. n \in Node => /\ Shape(MarkProcessCrashed(nodes[n]))
                    /\ Old(r, MarkProcessCrashed(nodes[n]), n)
                    /\ Stream(r, MarkProcessCrashed(nodes[n]), n)
    BY <1>1, CrashedStream DEF Handling, Shapes
<1>3. \A m \in Node \ {n} : Old(r, nodes[m], m) /\ Stream(r, nodes[m], m) /\ SameTicks(r, r, m)
    BY <1>1 DEF Handling, SameTicks
<1>. QED BY <1>2, <1>3, OneNode

LEMMA StorageCrashKeeps ==
    ASSUME Shapes, NEW n, NEW ticking, NEW q, Handling(q, n, ticking), NEW t, NEW cs,
           StorageCrash(n, q, t, cs)
    PROVE  TickInv'
<1>1. nodes' = [nodes EXCEPT ![n] = MarkProcessCrashed(nodes[n])] BY DEF StorageCrash
<1>2. queue' = q \/ queue' = q \cup {RestartEvent(q, t, n)}
    BY DEF StorageCrash, RestartedAfterStorageCrash
<1>3. \A m : SameTicks(q, queue', m) BY <1>2, RestartsAreNoTicks DEF SameTicks
<1>. QED BY <1>1, <1>3, CrashKeeps

\* A crash of the LSM engine or a stop, of the process sn that handles or starts.
LEMMA LSMCrashKeeps ==
    ASSUME Shapes, NEW n, NEW q, NEW t, NEW sn, NEW cs, NEW d,
           \A m \in Node \ {n} : Old(q, nodes[m], m) /\ Stream(q, nodes[m], m),
           n \in Node => Shape(sn) /\ Old(q, sn, n),
           LSMCrash(n, q, t, sn, cs, d)
    PROVE  TickInv'
<1>. DEFINE tn == MarkProcessCrashed(sn)
<1>1. nodes' = [nodes EXCEPT ![n] = tn] BY DEF LSMCrash
<1>2. queue' = q \/ queue' = q \cup {RestartEvent(q, t, n)} BY DEF LSMCrash
<1>3. \A m : SameTicks(q, queue', m) BY <1>2, RestartsAreNoTicks DEF SameTicks
<1>4. ASSUME n \in Node PROVE Shape(tn) /\ Old(queue', tn, n) /\ Stream(queue', tn, n)
    <2>1. Shape(tn) /\ Old(q, tn, n) /\ Stream(q, tn, n) BY <1>4, CrashedStream
    <2>. HIDE DEF tn
    <2>. QED BY <2>1, <1>3, SameStream
<1>. HIDE DEF tn
<1>. QED BY <1>1, <1>3, <1>4, OneNode

LEMMA HaltKeeps ==
    ASSUME Shapes, NEW n, NEW q, NEW sn, NEW cs,
           \A m \in Node \ {n} : Old(q, nodes[m], m) /\ Stream(q, nodes[m], m),
           n \in Node => /\ Shape(sn) /\ Old(q, sn, n)
                         /\ sn.halted => TicksIn(q, n, sn.generation) = {},
           Halt(n, q, sn, cs)
    PROVE  TickInv'
<1>. DEFINE tn == MarkProcessHalted(sn)
<1>1. nodes' = [nodes EXCEPT ![n] = tn] /\ queue' = q BY DEF Halt
<1>2. n \in Node => Shape(tn) /\ Old(q, tn, n) /\ Stream(q, tn, n) BY HaltedStream
<1>3. \A m : SameTicks(q, q, m) BY DEF SameTicks
<1>. HIDE DEF tn
<1>. QED BY <1>1, <1>2, <1>3, OneNode

\* A step that leaves the nodes alone and has the streams it needs.
LEMMA QueueOnly ==
    ASSUME Shapes, NEW r, UNCHANGED nodes, queue' = r,
           \A m \in Node : Old(r, nodes[m], m) /\ Stream(r, nodes[m], m)
    PROVE  TickInv'
BY DEF TickInv, Shapes

LEMMA ApplyKeeps ==
    ASSUME Shapes, NEW n, NEW ticking \in BOOLEAN, NEW q, Handling(q, n, ticking),
           n \in Node => Live(nodes[n]), NEW t, NEW cs, Apply(n, q, t, cs, ticking)
    PROVE  TickInv'
<1>1. \A m \in Node \ {n} : Old(q, nodes[m], m) /\ Stream(q, nodes[m], m) BY DEF Handling
<1>2. n \in Node => Shape(nodes[n]) /\ Old(q, nodes[n], n) BY DEF Handling, Shapes
<1>3. CASE /\ queue' = IF ticking THEN WithTick(q, t, n, nodes[n]) ELSE q
           /\ UNCHANGED nodes
    <2>1. CASE ~ ticking
        <3>1. \A m \in Node : Old(q, nodes[m], m) /\ Stream(q, nodes[m], m)
            BY <2>1 DEF Handling
        <3>. QED BY <1>3, <2>1, <3>1, QueueOnly
    <2>2. CASE ticking /\ n \in Node
        <3>. DEFINE r == WithTick(q, t, n, nodes[n])
        <3>1. TicksIn(q, n, nodes[n].generation) = {} BY <2>2 DEF Handling
        <3>2. /\ Old(r, nodes[n], n) /\ Stream(r, nodes[n], n)
              /\ \A m : m # n => SameTicks(q, r, m)
            BY <1>2, <2>2, <3>1, TickedStream
        <3>3. queue' = r BY <1>3, <2>2
        <3>. HIDE DEF r
        <3>4. \A m \in Node : Old(r, nodes[m], m) /\ Stream(r, nodes[m], m)
            BY <1>1, <3>2, SameStream
        <3>. QED BY <1>3, <3>3, <3>4, QueueOnly
    <2>3. CASE ticking /\ n \notin Node
        <3>1. queue' = q \/ \E e : queue' = q \cup {e} /\ e.node = n
            BY <1>3, <2>3 DEF WithTick, TickEvent
        <3>2. \A m \in Node : SameTicks(q, queue', m) BY <2>3, <3>1 DEF SameTicks
        <3>3. \A m \in Node : Old(queue', nodes[m], m) /\ Stream(queue', nodes[m], m)
            BY <1>1, <2>3, <3>2, SameStream
        <3>. QED BY <1>3, <3>3, QueueOnly
    <2>. QED BY <2>1, <2>2, <2>3
<1>4. CASE \E d \in lsmRestartOnCrash : d.node = n /\ LSMCrash(n, q, t, nodes[n], cs, d)
    BY <1>1, <1>2, <1>4, LSMCrashKeeps
<1>5. CASE Halt(n, q, nodes[n], cs)
    <2>1. n \in Node => ~ nodes[n].halted BY DEF Live
    <2>. QED BY <1>1, <1>2, <1>5, <2>1, HaltKeeps
<1>. QED BY <1>3, <1>4, <1>5 DEF Apply

\* A whole batch: save, send, apply, with the crashes in between.
LEMMA ReadyKeeps ==
    ASSUME Shapes, NEW n, NEW ticking \in BOOLEAN, NEW q, Handling(q, n, ticking),
           n \in Node => Live(nodes[n]), NEW t, ProcessReady(n, q, t, ticking)
    PROVE  TickInv'
<1>1. PICK r \in Readies(n) :
          IF Save(stores[n], r).err THEN StorageCrash(n, q, t, Save(stores[n], r).cs)
          ELSE \E to \in {{}, Node \ {n}} :
               \E copies \in [to -> Copies], delay \in [to \X {1, 2} -> MinDelay..MaxDelay] :
                  IF Save(stores[n], r).cs.armed # 0
                  THEN StorageCrash(n, Sent(q, t, n, to, copies, delay), t,
                                    CrashArmed(Save(stores[n], r).cs))
                  ELSE Apply(n, Sent(q, t, n, to, copies, delay), t, Save(stores[n], r).cs, ticking)
    BY DEF ProcessReady
<1>2. CASE Save(stores[n], r).err BY <1>1, <1>2, StorageCrashKeeps
<1>3. CASE ~ Save(stores[n], r).err
    <2>1. PICK to \in {{}, Node \ {n}} :
               \E copies \in [to -> Copies], delay \in [to \X {1, 2} -> MinDelay..MaxDelay] :
                  IF Save(stores[n], r).cs.armed # 0
                  THEN StorageCrash(n, Sent(q, t, n, to, copies, delay), t,
                                    CrashArmed(Save(stores[n], r).cs))
                  ELSE Apply(n, Sent(q, t, n, to, copies, delay), t, Save(stores[n], r).cs, ticking)
        BY <1>1, <1>3
    <2>2. PICK copies, delay :
                  IF Save(stores[n], r).cs.armed # 0
                  THEN StorageCrash(n, Sent(q, t, n, to, copies, delay), t,
                                    CrashArmed(Save(stores[n], r).cs))
                  ELSE Apply(n, Sent(q, t, n, to, copies, delay), t, Save(stores[n], r).cs, ticking)
        BY <2>1
    <2>. DEFINE sent == Sent(q, t, n, to, copies, delay)
    <2>3. Handling(sent, n, ticking) BY MessagesAreNoTicks, HandlingSame
    <2>. HIDE DEF sent
    <2>. QED BY <2>2, <2>3, StorageCrashKeeps, ApplyKeeps DEF sent
<1>. QED BY <1>2, <1>3

LEMMA SkipKeeps ==
    ASSUME Shapes, NEW n, NEW q, Handling(q, n, FALSE), Skip(q)
    PROVE  TickInv'
BY QueueOnly DEF Handling, Skip

LEMMA RestartKeeps ==
    ASSUME Shapes, NEW n, NEW q, Handling(q, n, FALSE), NEW t, RestartNode(n, q, t)
    PROVE  TickInv'
<1>. DEFINE sn == ReplaceProcess(nodes[n])
<1>1. \A m \in Node : Shape(nodes[m]) /\ Old(q, nodes[m], m) /\ Stream(q, nodes[m], m)
    BY DEF Handling, Shapes
<1>2. n \in Node => /\ Shape(sn) /\ sn.halted = FALSE /\ Old(q, sn, n)
                    /\ TicksIn(q, n, sn.generation) = {}
    BY <1>1, ReplacedStream
<1>3. CASE Live(nodes[n]) BY <1>3, SkipKeeps DEF RestartNode
<1>4. CASE ~ Live(nodes[n])
    <2>1. PICK cs : \/ Halt(n, q, nodes[n], stores[n])
                    \/ nodes' = [nodes EXCEPT ![n] = sn] /\ queue' = WithTick(q, t, n, sn)
                    \/ \E d \in lsmRestartOnCrash : LSMCrash(n, q, t, sn, cs, d)
                    \/ Halt(n, q, sn, cs)
        BY <1>4 DEF RestartNode
    <2>. HIDE DEF sn
    <2>2. CASE Halt(n, q, nodes[n], stores[n])
        <3>1. n \in Node => TicksIn(q, n, nodes[n].generation) = {} BY <1>1, <1>4 DEF Stream
        <3>. QED BY <1>1, <2>2, <3>1, HaltKeeps
    <2>3. CASE nodes' = [nodes EXCEPT ![n] = sn] /\ queue' = WithTick(q, t, n, sn)
        <3>1. n \in Node => Old(queue', sn, n) /\ Stream(queue', sn, n) BY <1>2, <2>3, TickedStream
        <3>2. queue' = q \/ \E e : queue' = q \cup {e} /\ e.node = n
            BY <2>3 DEF WithTick, TickEvent
        <3>3. \A m \in Node \ {n} : SameTicks(q, queue', m) BY <3>2 DEF SameTicks
        <3>. QED BY <1>1, <1>2, <2>3, <3>1, <3>3, OneNode
    <2>4. CASE \E d \in lsmRestartOnCrash : LSMCrash(n, q, t, sn, cs, d)
        BY <1>1, <1>2, <2>4, LSMCrashKeeps
    <2>5. CASE Halt(n, q, sn, cs) BY <1>1, <1>2, <2>5, HaltKeeps
    <2>. QED BY <2>1, <2>2, <2>3, <2>4, <2>5
<1>. QED BY <1>3, <1>4

-----------------------------------------------------------------------------
\* Popping an event.

LEMMA PoppedOther ==
    ASSUME TickInv, NEW ev, ev.kind # "Tick", NEW n
    PROVE  Handling(queue \ {ev}, n, FALSE)
<1>1. Handling(queue, n, FALSE) BY DEF TickInv, Handling
<1>2. \A m : SameTicks(queue, queue \ {ev}, m) BY DEF SameTicks
<1>. QED BY <1>1, <1>2, HandlingSame

LEMMA PoppedTick ==
    ASSUME TickInv, NEW ev \in queue, ev.kind = "Tick"
    PROVE  IF TickIsStale(ev) \/ ~ Live(nodes[ev.node]) THEN Handling(queue \ {ev}, ev.node, FALSE)
           ELSE Handling(queue \ {ev}, ev.node, TRUE)
<1>. DEFINE n == ev.node
            q == queue \ {ev}
            current == ~ TickIsStale(ev) /\ Live(nodes[n])
<1>1. ASSUME NEW m \in Node, m # n PROVE Old(q, nodes[m], m) /\ Stream(q, nodes[m], m)
    <2>1. SameTicks(queue, q, m) BY <1>1 DEF SameTicks
    <2>. HIDE DEF q
    <2>. QED BY <2>1, SameStream DEF TickInv
<1>2. ASSUME n \in Node PROVE Old(q, nodes[n], n)
    BY <1>2 DEF TickInv, Old
<1>3. ASSUME n \in Node, current PROVE TicksIn(q, n, nodes[n].generation) = {}
    <2>1. PICK e \in queue : TicksIn(queue, n, nodes[n].generation) = {e}
        BY <1>3 DEF TickInv, Stream
    <2>2. ev \in TicksIn(queue, n, nodes[n].generation) BY <1>3 DEF TicksIn, TickIsStale
    <2>3. ev = e BY <2>1, <2>2
    <2>. QED BY <2>1, <2>3 DEF TicksIn
<1>4. ASSUME n \in Node, ~ current PROVE Stream(q, nodes[n], n)
    <2>1. Stream(queue, nodes[n], n) BY <1>4 DEF TickInv
    <2>2. ev \notin TicksIn(queue, n, nodes[n].generation)
        BY <1>4, <2>1 DEF Stream, TicksIn, TickIsStale
    <2>3. TicksIn(q, n, nodes[n].generation) = TicksIn(queue, n, nodes[n].generation)
        BY <2>2 DEF TicksIn
    <2>4. CASE Live(nodes[n])
        <3>1. PICK e \in queue : TicksIn(queue, n, nodes[n].generation) = {e}
            BY <2>1, <2>4 DEF Stream
        <3>2. e \in q BY <2>2, <3>1
        <3>. QED BY <2>3, <2>4, <3>1, <3>2 DEF Stream
    <2>5. CASE ~ Live(nodes[n]) BY <2>1, <2>3, <2>5 DEF Stream
    <2>. QED BY <2>4, <2>5
<1>. QED BY <1>1, <1>2, <1>3, <1>4 DEF Handling

-----------------------------------------------------------------------------

LEMMA InitTicks == Init => TickInv
<1>. SUFFICES ASSUME Init PROVE TickInv OBVIOUS
<1>1. PICK run \in Runs : queue = InitialQueue(run.faults, run.pushed) BY DEF Init
<1>2. nodes = [n \in Node |-> [up |-> TRUE, halted |-> FALSE, generation |-> 0,
                               paused |-> FALSE, multiplier |-> 0]]
    BY DEF Init
<1>3. ASSUME NEW n \in Node
      PROVE  /\ Shape(nodes[n]) /\ Live(nodes[n]) /\ nodes[n].generation = 0
    BY <1>2 DEF Shape, Live
<1>. DEFINE first(n) == [time |-> TickInterval, seq |-> n, kind |-> "Tick", node |-> n,
                         generation |-> 0]
<1>4. \A e \in queue : e.kind = "Tick" => \E n \in Node : e = first(n)
    BY <1>1, PushedAssumption DEF InitialQueue
<1>5. \A n \in Node : first(n) \in queue BY <1>1 DEF InitialQueue
<1>6. \A n : first(n).kind = "Tick" /\ first(n).node = n /\ first(n).generation = 0 OBVIOUS
<1>. HIDE DEF first
<1>7. ASSUME NEW n \in Node PROVE Old(queue, nodes[n], n) /\ Stream(queue, nodes[n], n)
    <2>1. Old(queue, nodes[n], n) BY <1>3, <1>4, <1>6 DEF Old
    <2>2. TicksIn(queue, n, nodes[n].generation) = {first(n)}
        BY <1>3, <1>4, <1>5, <1>6 DEF TicksIn
    <2>. QED BY <1>3, <1>5, <2>1, <2>2 DEF Stream
<1>8. DOMAIN nodes = Node BY <1>2
<1>. QED BY <1>3, <1>7, <1>8 DEF TickInv, Shapes

\* Faults of the network change no stream; pauses and skews change a node but
\* neither its generation nor whether it lives.
LEMMA FaultKeeps ==
    ASSUME TickInv, NEW ev, ev.kind # "Tick", queue' = queue \ {ev}, NEW n, NEW sn,
           n \in Node => /\ Shape(sn) /\ sn.generation = nodes[n].generation
                         /\ Live(sn) <=> Live(nodes[n]),
           UNCHANGED nodes \/ nodes' = [nodes EXCEPT ![n] = sn]
    PROVE  TickInv'
<1>1. Shapes /\ Handling(queue \ {ev}, n, FALSE) BY PoppedOther DEF TickInv
<1>2. \A m \in Node : Old(queue', nodes[m], m) /\ Stream(queue', nodes[m], m)
    BY <1>1 DEF Handling
<1>3. CASE UNCHANGED nodes BY <1>1, <1>2, <1>3, QueueOnly
<1>4. CASE nodes' = [nodes EXCEPT ![n] = sn]
    <2>1. \A m : SameTicks(queue', queue', m) BY DEF SameTicks
    <2>2. n \in Node => Old(queue', sn, n) /\ Stream(queue', sn, n)
        BY <1>2, <2>1, SameStream
    <2>. QED BY <1>1, <1>2, <1>4, <2>1, <2>2, OneNode
<1>. QED BY <1>3, <1>4

LEMMA NextTicks == TickInv /\ [Next]_vars => TickInv'
<1>. SUFFICES ASSUME TickInv, [Next]_vars PROVE TickInv' OBVIOUS
<1>1. Shapes BY DEF TickInv
<1>2. CASE HandleTick
    <2>1. PICK ev \in queue :
            /\ ev.kind = "Tick"
            /\ IF TickIsStale(ev) \/ ~ Live(nodes[ev.node]) THEN Skip(queue \ {ev})
               ELSE IF nodes[ev.node].paused
               THEN Skip(WithTick(queue \ {ev}, ev.time, ev.node, nodes[ev.node]))
               ELSE ProcessReady(ev.node, queue \ {ev}, ev.time, TRUE)
        BY <1>2 DEF HandleTick, Pop
    <2>. DEFINE n == ev.node
                q == queue \ {ev}
    <2>2. CASE TickIsStale(ev) \/ ~ Live(nodes[n])
        <3>1. Handling(q, n, FALSE) BY <2>1, <2>2, PoppedTick
        <3>. QED BY <1>1, <2>1, <2>2, <3>1, SkipKeeps
    <2>3. CASE ~ (TickIsStale(ev) \/ ~ Live(nodes[n]))
        <3>1. Handling(q, n, TRUE) /\ Live(nodes[n]) BY <2>1, <2>3, PoppedTick
        <3>. HIDE DEF n, q
        <3>2. CASE ProcessReady(n, q, ev.time, TRUE) BY <1>1, <3>1, <3>2, ReadyKeeps
        <3>3. CASE Skip(WithTick(q, ev.time, n, nodes[n]))
            <4>1. queue' = WithTick(q, ev.time, n, nodes[n]) /\ UNCHANGED nodes BY <3>3 DEF Skip
            <4>3. CASE n \in Node
                <5>1. /\ Old(queue', nodes[n], n) /\ Stream(queue', nodes[n], n)
                      /\ \A m : m # n => SameTicks(q, queue', m)
                    BY <1>1, <3>1, <4>1, <4>3, TickedStream DEF Handling, Shapes
                <5>2. \A m \in Node : Old(queue', nodes[m], m) /\ Stream(queue', nodes[m], m)
                    BY <3>1, <5>1, SameStream DEF Handling
                <5>. QED BY <1>1, <4>1, <5>2, QueueOnly
            <4>2. CASE n \notin Node
                <5>1. queue' = q \/ \E e : queue' = q \cup {e} /\ e.node = n
                    BY <4>1 DEF WithTick, TickEvent
                <5>2. \A m \in Node : SameTicks(q, queue', m) BY <4>2, <5>1 DEF SameTicks
                <5>3. \A m \in Node : Old(queue', nodes[m], m) /\ Stream(queue', nodes[m], m)
                    BY <3>1, <4>2, <5>2, SameStream DEF Handling
                <5>. QED BY <1>1, <4>1, <5>3, QueueOnly
            <4>. QED BY <4>2, <4>3
        <3>. QED BY <2>1, <2>3, <3>2, <3>3 DEF n, q
    <2>. QED BY <2>2, <2>3
<1>3. CASE HandleMessage
    <2>1. PICK ev \in queue :
            /\ ev.kind = "Message"
            /\ \/ Skip(queue \ {ev})
               \/ Live(nodes[ev.to]) /\ ProcessReady(ev.to, queue \ {ev}, ev.time, FALSE)
        BY <1>3 DEF HandleMessage, Pop
    <2>2. Handling(queue \ {ev}, ev.to, FALSE) BY <2>1, PoppedOther
    <2>. QED BY <1>1, <2>1, <2>2, SkipKeeps, ReadyKeeps
<1>4. CASE Propose
    <2>1. PICK ev \in queue :
            /\ ev.kind = "Workload"
            /\ \/ Skip(queue \ {ev})
               \/ Live(nodes[ev.node]) /\ ProcessReady(ev.node, queue \ {ev}, ev.time, FALSE)
        BY <1>4 DEF Propose, Pop
    <2>2. Handling(queue \ {ev}, ev.node, FALSE) BY <2>1, PoppedOther
    <2>. QED BY <1>1, <2>1, <2>2, SkipKeeps, ReadyKeeps
<1>5. ASSUME NEW ev, ev.kind # "Tick", NEW n, CrashNode(n, queue \ {ev}) PROVE TickInv'
    <2>1. Handling(queue \ {ev}, n, FALSE) BY <1>5, PoppedOther
    <2>2. \A m : SameTicks(queue \ {ev}, queue \ {ev}, m) BY DEF SameTicks
    <2>. QED BY <1>1, <1>5, <2>1, <2>2, CrashKeeps DEF CrashNode
<1>6. ASSUME NEW ev, ev.kind # "Tick", NEW n, RestartNode(n, queue \ {ev}, ev.time) PROVE TickInv'
    BY <1>1, <1>6, PoppedOther, RestartKeeps
<1>7. CASE HandleCrash BY <1>5, <1>7 DEF HandleCrash, Pop
<1>8. CASE HandleRestart BY <1>6, <1>8 DEF HandleRestart, Pop
<1>9. CASE FaultCrash BY <1>5, <1>9 DEF FaultCrash, PopFault, Pop
<1>10. CASE FaultRestart BY <1>6, <1>10 DEF FaultRestart, PopFault, Pop
<1>11. CASE SetDropRate \/ SetDuplicateRate \/ Partition \/ Heal
    <2>1. PICK ev \in queue : ev.kind = "Fault" /\ queue' = queue \ {ev} /\ UNCHANGED nodes
        BY <1>11 DEF SetDropRate, SetDuplicateRate, Partition, Heal, PopFault, Pop
    <2>2. \A n \in Node : Shape(nodes[n]) BY <1>1 DEF Shapes
    <2>. QED BY <2>1, <2>2, FaultKeeps
<1>12. CASE PauseResume
    <2>1. PICK ev \in queue :
            /\ ev.kind = "Fault" /\ queue' = queue \ {ev}
            /\ nodes' = [nodes EXCEPT ![ev.fault.node] =
                            [nodes[ev.fault.node] EXCEPT !.paused = ev.fault.kind = "Pause"]]
        BY <1>12 DEF PauseResume, PopFault, Pop
    <2>. DEFINE n == ev.fault.node
                sn == [nodes[n] EXCEPT !.paused = ev.fault.kind = "Pause"]
    <2>2. n \in Node => /\ Shape(sn) /\ sn.generation = nodes[n].generation
                        /\ Live(sn) <=> Live(nodes[n])
        BY <1>1 DEF Shapes, Shape, Live
    <2>3. nodes' = [nodes EXCEPT ![n] = sn] BY <2>1
    <2>. HIDE DEF sn, n
    <2>. QED BY <2>1, <2>2, <2>3, FaultKeeps
<1>13. CASE SetClockSkew
    <2>1. PICK ev \in queue :
            /\ ev.kind = "Fault" /\ queue' = queue \ {ev}
            /\ nodes' = [nodes EXCEPT ![ev.fault.node] =
                            [nodes[ev.fault.node] EXCEPT !.multiplier = ev.fault.multiplier]]
        BY <1>13 DEF SetClockSkew, PopFault, Pop
    <2>. DEFINE n == ev.fault.node
                sn == [nodes[n] EXCEPT !.multiplier = ev.fault.multiplier]
    <2>2. n \in Node => /\ Shape(sn) /\ sn.generation = nodes[n].generation
                        /\ Live(sn) <=> Live(nodes[n])
        BY <1>1 DEF Shapes, Shape, Live
    <2>3. nodes' = [nodes EXCEPT ![n] = sn] BY <2>1
    <2>. HIDE DEF sn, n
    <2>. QED BY <2>1, <2>2, <2>3, FaultKeeps
<1>14. CASE UNCHANGED vars BY <1>14 DEF vars, TickInv, Shapes
<1>. QED BY <1>2, <1>3, <1>4, <1>7, <1>8, <1>9, <1>10, <1>11, <1>12, <1>13, <1>14 DEF Next

\* In every run of the simulator, whatever crashes, stops, restarts, pauses and
\* skews it goes through, a live node has exactly one tick coming and a dead one
\* none (tickIsStale, invalidateTickStream).
THEOREM TickStreams == Spec => []OneTickStream
<1>1. TickInv => OneTickStream
    <2>1. \A n \in Node : Ticks(n) = TicksIn(queue, n, nodes[n].generation)
        BY DEF Ticks, TicksIn
    <2>. QED BY <2>1 DEF TickInv, Stream, OneTickStream
<1>. QED BY <1>1, InitTicks, NextTicks, PTL DEF Spec
=============================================================================
