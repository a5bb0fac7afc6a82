# MiniQuorum: specifications, model checking and proofs

MiniQuorum is a replicated key-value store: a Raft core without I/O, hosts that drive
it (a gRPC daemon and a deterministic simulator), a disk log for Raft's state, an LSM
tree for the data, and a checker for linearizability.  These modules model the code of
`src/`; every definition that models code names its lines in `PROJECT.json` ("map").
In the modules a definition commented `mutant:` is wrong on purpose: put in the place of
the definition after it, it makes the property named in `PROJECT.json` fail.

## 1. The system

| Part | State | Operations | What makes it hard |
|---|---|---|---|
| Raft core, `internal/raft` | term, vote, role, log, unstableIndex, commitIndex, nextIndex, matchIndex, one in-flight request per peer | `Tick`, `Step` (four handlers), `Propose`, `Ready`, `Advance` | lost, late and repeated messages; answers that do not name their request; truncation below what is stored; section 5.4.2 |
| Host, `internal/server/server.go`, `recovery.go`; `sim/ready.go` | mutex, stopped, leader hint | Save, send, apply, Advance in that order; crash, restart, fail-stop | a failure inside every step; a restart knows only the storage |
| KV service, `kv_service.go`, `waiter.go` | waiters by (index, term), by index, one channel per call | `Execute`, register, cancel, fulfill, `FailStop` | a deadline, an apply and a fail-stop race for one waiter; the index of a lost proposal is reused in another term |
| Disk log, `internal/storage/disklog` | segment files, mirror, poison | `Open` (recovery, torn tail, syncs), `Save` (rotate, write, sync), `Close` | what reads back need not be durable; torn frames; names of files |
| State machines, `mapsm`, `internal/lsm/statemachine.go` | map, last (seq, result) per client, applied index | `Apply`, `Read`, replay | retries of applied commands; replay over an engine that is ahead |
| LSM engine, `internal/lsm` | memtables, tables, manifest, flushed index, obsolete files | put, delete, flush, compact, open, reads | ordering of table, directory and manifest syncs; an append whose outcome is unknown |
| Simulator, `sim` | event queue, node generations, crash storage | network and process faults, ticks, crash points | events of a process that no longer exists |
| Workload and history, `sim/workload`, `checker` | one operation per client, attempts, deadlines | start, retry, deadline, applied, leadership lost | late events of an attempt that is over |
| Tools: `cmd`, `bench`, `simharness`, fault schedules | files | | measuring and driving; no protocol |

The host is what connects them.  It hands an event to the core, stores what the core's
Ready says must be stored, only then sends and applies, and acknowledges with Advance.
The core relies on the storage contract, the state machines rely on one log being
applied in order, and a call relies on the waiter that its own entry resolves.

Correctness, part by part: one leader per term, one log, no commit taken back, every
follower caught up (core and host); each call answered once and with its own entry's
result, no call stranded, the mutex always released (service); what was acknowledged is
durable and what was not is a prefix (disk log); a command takes effect once, between
its call and its answer (state machine, workload); the engine never loses or revives a
write (LSM).

## 2. Modules

| Module | Models |
|---|---|
| `RaftNode` | the pure core: one operator per handler, from a node's record to its next |
| `Raft` | a cluster: each event with its whole Ready batch, failures in it, crashes, restarts, the network |
| `ReplicatedLog` | abstract: one sequence of chosen entries that only grows, applied in order |
| `RaftNodeProofs`, `RaftProofs` | lemmas about the handlers; theorems about `Raft` |
| `KVServer` | one server: `Execute` calls, waiters, `Host.mu`, fail-stop |
| `KVServerProofs` | theorems about `KVServer` |
| `LogRecords` | the records of the disk log and their replay |
| `DurableLog` | abstract: the storage contract Raft relies on |
| `DiskLog` | the disk log on a file system that loses what was not synced |
| `KVCommands` | what one committed command does to a key/value state, and returns: execution and deduplication |
| `MapSM` | abstract for `LSM`, and itself `mapsm`: entries applied one by one, from nothing after a restart |
| `SimFS` | the LSM engine's file system: names and bytes become durable separately |
| `SSTable`, `Manifest` | tables (blocks, index, filter, lookup), selection and merge of compactions; version edits and their replay |
| `LSM` | the LSM engine and its state machine, one file system call per step |
| `CrashStorage` | the simulator's storage, which dies at a chosen point of a chosen Save |
| `FaultSchedule` | schedules of faults, their validation and their generator |
| `EventQueue` | the simulator's queue |
| `Simulator` | `sim.go`, `ready.go`: events, ticks, faults, crashes, restarts |
| `SimulatorProofs` | the theorem about tick streams |
| `History` | the history recorder and linearizability |
| `Workload` | the client sessions of the simulator over a log that changes leaders |
| `MCRaft`, `MCKVServer`, `MCDiskLog`, `MCLSM`, `MCSimulator`, `MCWorkload` | instances for TLC |

How they compose: `Raft` implements `ReplicatedLog`; `DiskLog` and `CrashStorage` implement
`DurableLog`, whose outcomes are those `Raft` gives a batch; `LSM` implements `MapSM`;
`Simulator` drives `CrashStorage` with the schedules of `FaultSchedule`; `Workload` runs
clients over the machines of `KVCommands` and judges their answers with `History`.

### Raft

`node[i]` is the Node struct (its raftLog included; `dirty` is hardStateDirty, `unstable`
is unstableIndex, `out` the messages that wait for Ready).  Indices are positions: the
code never constructs a node with a snapshot.  The election and heartbeat counters are
abstracted to the tick on which they fire.  `disk[i]` is the storage, `applied[i]` the
entries the state machine of the current process has applied; `chosen`, `led` and
`ballots` are history.

An action is one event of a host: a tick that fires, the delivery of a message, a
proposal, a crash, a restart.  A host handles events one at a time and its memory is
seen by nobody else, so an event and its Ready batch are one step with three outcomes
(`ProcessReady`): completed; `SaveFails`, which leaves a prefix of the batch's records
(hard state, truncation, entries: the order of `encodeBatch` and of the simulator's
CrashStorage) and sends nothing; `ApplyFails`, after some entries were applied.  In the
last two the process ends.

`msgs` is a set from which nothing has to be taken: every message may arrive late,
again, out of order or never.  A message that its receiver would ignore for ever
(`Spent`) is dropped at once, which only makes the state space smaller.

### KVServer

One server with the core reduced to what its host sees: term, leading, log, commit.  What
the rest of the cluster can do to it is bounded by what `Raft` guarantees.  The holder of
`Host.mu` goes through Save, ApplyEntry, Advance (or Fail and FailStop) in steps, between
which calls receive, expire and cancel.  Whether the node is the whole cluster (a
proposal then commits inside `Propose`) is chosen initially.

### DiskLog

A file is what reads see and what is durable; a power cut keeps the durable part and any
leading part of what was appended since, down to part of a frame, and may drop a name
that was not synced.  The end of the process alone (`Exit`) loses nothing, which is the
harder case for recovery: frames that were never synced read back.  `Save` is split at
rotation, directory sync, write and sync, `Open` at the truncation of the torn tail and
at every sync.  Frames are units; the marker and symbol encoding, whose purpose is to
tell unterminated from damaged frames, is modelled by that distinction.  `mirror` and
`request` keep their last value while no process runs, as history for the refinement.
`Frames` and the size that decides rotation are read from the files; the code keeps the
size in `activeSize`.

The refinement `DiskLog => DurableLog` closes the gap to `Raft`: the outcomes of
`DurableLog`'s Save are those that `Raft` gives to a Ready batch.

### LSM

`eng` is the engine's memory (active and frozen memtables, published tables, the manifest
state, pending removals, poison), `sm` the state machine's (deduplication, and while the
log is replayed over a recovered engine its shadow values with their ceiling), `fs` a
`SimFS`.  The engine's lock admits one operation at a time, so an operation is a chain of
steps, one per file system call (`pc` names the next), and between any two of them the
process may end, the power may fail, or the call may return an error before or after it
took effect.  `CrashImages` are the states a power failure can leave: the synced names and,
of the bytes since, a prefix in the order they were written, across all files, down to part
of a write.  A table is kept as its records, blocks, index, filter bits and footer; its
image is whole or fails its checks.  Hashing is a constant function from keys to bits, with
overlapping bits in the instance.

### Simulator, CrashStorage, FaultSchedule

A schedule is a choice from `GenerateFaultSchedule`, the set of all schedules the generator
can return, or one of a few scripted ones.  `queue` is a set of events with time and push
order; each action pops the first event and runs its whole handler, the Ready batch
included.  The core is left to `Raft`: a Ready is any batch to store, any peers to write
to, and an entry applied or not.  Probabilities are 0 or 1 (some), clock multipliers count
halves.  `CrashStorage` keeps the state its durable bytes give and whether a torn record
follows them.

### Workload

`clients[c]` is a session of the runner, `pending` and `byAttempt` the two maps of the
simulator, `recorder` the history.  The log is what `Raft` was shown to provide: a change of
leader keeps the committed part and any prefix of the rest, and a deposed leader may go on
accepting proposals.  Events at one instant are handled in the order they were pushed, so a
deadline, a retry and an answer meet in every order the code can produce.

## 3. Runs

| Run | States | Asks |
|---|---|---|
| `RaftElections` | 24,444 | three candidates split the votes of one term, two failures: one leader per term, votes durable before they count |
| `RaftReplication` | 31,823 | one leader, two entries, one failure: matchIndex is backed by storage, commits are kept |
| `RaftHandover` | 95,020 | a leader and one of two successors, two failures: storage and state machine current, progress in order, refinement of `ReplicatedLog` |
| `RaftContest` | 19,449 | five nodes in the situation of section 5.4.2: logs match, leaders are complete |
| `RaftCatchUp` | 29,714 | liveness: from diverged logs and with a failure, a leader that stays brings all state machines up to date |
| `ServerWaiters` | 542,639 | three calls, three terms: answers belong to their calls, nobody is stranded, the maps agree |
| `ServerProgress` | 51,103 | liveness: the mutex is released, calls return without their deadline |
| `DiskLog` | 155,708 | three Saves, three ends of the process: nothing lost, nothing taken for damage, refinement of `DurableLog` |
| `DiskLogAtomic` | (violated) | a Save is not atomic, though the Storage interface says so |
| `LSM` | 205,370 | flush, compaction and recovery with failures: what was published survives every power cut, lookups return the newest write, refinement of `MapSM` |
| `Simulator` | 80,645 | schedules of the generator and scripted ones: one tick stream per live node, faults that open are transitions and all are over at the end, the storage keeps its promise, the run ends |
| `Workload` | 334,527 | two clients: linearizable answers, waits tracked, deadlines armed, runner and recorder agree |

**Bounds.**  `Campaigns` names the elections timers may start.  Two terms suffice for a
handover, in which a truncation, a stale answer from the previous term and a rejection
with a later term all occur; two candidates contest a third node's vote, three split it.
The contest of section 5.4.2 needs five nodes and four terms; it starts from the restart
of all nodes after terms 1 and 2 and lets messages through only along `ContestLinks`,
which leave its known order and the disturbances around it.  `HandoverLinks` loses one
follower's answers to the first leader: one successor then has that leader's entries and
the other has not, which is what decides the election and the truncations.  `MaxFail` 1 puts a crash,
a torn batch or a failed apply anywhere in the run, 2 lets a voter fail twice.  `MaxLog`
bounds proposals only; the no-op of each leader comes on top.  In `ServerWaiters` three
terms and three entries let two calls wait at one index in different terms while a third
is resolved.  In `DiskLog` a segment holds three frames and a Save up to three, so a
batch fits, just fits, or rotates; three ends of the process allow a failed Save, a
recovery that is cut off, and the power cut that tests what the next one served.

In `LSM` two logs of five entries overwrite, delete, read and retry; with a threshold of
three units a memtable holds one or two entries, and with a fan-in of two the flushes of one
log reach a compaction.  One call fails anywhere, the process ends twice (so a recovery can
be cut off and repeated), and one of ForceFlush, compact and Close is called between
entries.  In `Simulator` two nodes, two pairs of faults, one lasting fault and one crash
directive over three instants put every kind of pair before, inside and across another; the
scripted schedules add crashes of the LSM file system, a storage that dies twice, a slow
clock, duplicates and calls of the test driver.  Times are small because only their order
and equality count.  In `Workload` each client has two operations on one key, an operation
times out after two instants and is retried after one, leadership changes once, a node
restarts once, and the log holds four entries: enough for a retry to be answered by the
deduplication record of its first attempt, after operations of the other client.  A second
execution of one command would need more entries than that; that duplicates execute once is
`ImplementsMap`'s and `KVCommands`' matter.

**Deadlock** is not checked: with the bounded elections, calls, Saves, entries and failures
used up, all messages delivered, or the simulated time over, the models have nothing left
to do, as a quiet cluster has not.

**Symmetry and views.**  Calls are interchangeable (`CallSymmetry`, safety run only).
`NoBallots` leaves a history variable that no property of its runs reads out of the
fingerprint.

**Fairness.**  `Raft`: hosts tick for ever, a stopped process is restarted, and what one
node keeps sending to another arrives; a heartbeat repeats the request in flight, so this
is no more than a link that is not dead.  Repeats of old messages may not keep out those
of a later term.  Elections get no fairness: `LeaderCatchesUp` assumes a leader that stays.
`KVServer`: a goroutine that can run does; a handler that asks for `Host.mu` gets it
eventually, as Go's mutex guarantees in starvation mode.  Contexts need not expire.
`Simulator`: `Run` is a loop that takes the next event as long as there is one, which is
weak fairness of `Next`; `RunEnds` shows that time then passes.

**Finding.**  `internal/storage/storage.go:12` calls Save "one atomic durable operation
per Ready"; `DiskLogAtomic` shows the state in between: the hard state of a batch without
its entries.  The comment of `encodeBatch` knows, and Raft does not need more than
`DurableLog`; it is the interface's comment that says too much.

## 4. Proofs

`RaftProofs` proves for every finite set of nodes, all bounds and any history of failures:

- `TypeCorrect`: `Spec => []TypeOK`;
- `StorageAlwaysCurrent`: `Spec => []StorageCurrent`: between two events the storage
  holds the term, vote and log of the memory;
- `ElectionsSound`: `Spec => []ElectionInv`;
- `ElectionSafety`: `Spec => []SingleLeaderPerTerm`;
- `Inductive`: `Spec => []IInv`, from which the others follow.

`IInv == TypeOK /\ StorageCurrent /\ Quiet /\ ElectionInv`.  One leader per term is not
inductive: it needs that a leader has the durable votes of a majority (`LeadersElected`),
that a node's durable votes in a term agree (`OneBallotPerTerm`), that no vote counts or
travels before it is durable (`VotesDurable`), and that a durable vote stays until a later
term (`BallotsKept`).  The last rests on `StorageCurrent`: a node refuses a second vote
because its memory has the first one, and memory is storage between two events.  `Quiet`
says that nothing is pending between two events: no message waits for Ready, the hard
state is clean, and only a leader has requests in flight.

Inside an event these do not hold.  `RaftNodeProofs` therefore states what does, as
`Working(i, n, d, B)`: `n` is a node on its way from the store `d` with durable votes `B`,
and what it changed is marked for Save.  Each handler preserves `Working`; `RaftProofs`
then shows that each outcome of the batch leads from a `Working` node back to `IInv`
(`CompleteKeeps`, `SaveFailsKeeps`, `ApplyFailsKeeps`), and that two majorities of a
finite set meet.

Assumptions: the set of nodes is finite and not empty, `Nil` is no node, `Noop` no
command, and the bounds have their types (`NodeAssumption`, `NilAssumption`,
`NoopAssumption`, `BoundAssumption`).

`KVServerProofs` proves for any number of calls, any terms and any log `Typed`
(`TypeOK`), `OwnAnswers` (`AnswersOwnEntry`), `LostIsLost` (`StaleIsLost`),
`NobodyStranded` (`NoneStranded`) and `MapsAlwaysAgree` (`MapsAgree`).  Its invariant
`TypeOK /\ OwnOK /\ LogOK /\ KeyOK /\ WaitersOK /\ CallsOK` follows an entry from its
creation.  None of the properties is inductive: that an answer is the call's own needs that
the (index, term) under which the call is registered names one entry only (`OwnOK`), that
the log, however it was rewritten by other leaders, holds no other entry under that key
(`LogOK`), and that nothing above the applied index has been answered (`WaitersOK`).  There
is one lemma per action (`TurnKeeps`, `ApplyKeeps`, `FailStopKeeps`, `AdvanceKeeps`,
`ExecuteKeeps`, ...).

`SimulatorProofs` proves `TickStreams` (`OneTickStream`) for any cluster, schedules and
times.  A new process must not meet a tick of a former one, so the invariant `TickInv` adds
that every queued tick belongs to the node's generation or an earlier one.

Only model-checked: `CommitStable`, `AppliedCurrent` and `LeaderCompleteness` of `Raft`, the
refinements, `DiskLog`, `LSM`, `Workload` and the other properties of `Simulator`.
Liveness, and what recursive definitions such as replay compute for every input, are out
of the prover's reach and stay with TLC.

## 5. Not modelled

- Benchmarks, generated code and command line tools: no protocol state.  `mqctl` sends one
  command to one server after the other, under one client id and sequence number, until
  one answers: the retries of `Workload`, without its deadlines.
- Corpora, batches, artifacts and reports of the simulation harness; the text encoding of
  fault schedules and of histories; parsing of configurations: files.
- Byte formats: offsets, checksums, markers and symbol encodings of tables, manifest and
  disk log are reduced to what they are for, telling whole, torn and damaged apart.
- `fs_real` and `bench_fs`: thin wrappers of the operating system.
- Porcupine's search: linearizability is a quantifier over orders.
- Timing: election timeouts are choices, so nothing is said about how soon a leader is
  elected; connections and RPC timeouts of the transport are lost or late messages.
- The hint in a NotLeader answer is advice and may be stale.
