--------------------------------- MODULE LSM ---------------------------------
(***************************************************************************)
(* The LSM state machine (internal/lsm/statemachine.go) on its engine      *)
(* (engine.go, compaction.go), its manifest and its file system.  The      *)
(* engine's lock admits one operation at a time; an operation is a         *)
(* sequence of file system calls, each of them a step here, so that the    *)
(* process can end, the power can fail and a call can return an error      *)
(* between any two.                                                        *)
(*                                                                         *)
(* pc is "down" without a process, "idle" between operations, "corrupt"    *)
(* once Open refused what it found, and else names the next call.  Calls   *)
(* that only read are one step together; the Close after a Sync is part of *)
(* it, since its failure is the failure of a Sync that took effect.        *)
(***************************************************************************)
EXTENDS Manifest, KVCommands

CONSTANTS
    Logs,           \* the committed logs considered
    Key,            \* the keys they use
    FlushThreshold, \* Options.FlushThreshold, in units of MemtableEntrySize
    FanIn,          \* compactionFanIn
    MaxErrors,      \* bound: the file system calls that fail
    MaxStops,       \* bound: the processes that end
    MaxCalls        \* bound: the calls of ForceFlush, compact and Close

VARIABLES
    log,        \* the committed entries
    fs,         \* the file system
    eng,        \* the memory of the engine
    sm,         \* the memory of the state machine
    pc, job,    \* the operation under way
    errors, stops, calls,   \* how much of each bound is used
    reached,    \* history: the highest index any process applied
    promised    \* history: the flushed index last published

bounds == <<errors, stops, calls>>
history == <<reached, promised>>
vars == <<log, fs, eng, sm, pc, job, bounds, history>>

NewEngine(manifest) ==
    [list |-> <<>>, immutables |-> <<>>, tables |-> {}, manifest |-> manifest,
     next |-> 1, obsolete |-> <<>>, dirDirty |-> FALSE, poisoned |-> FALSE, applied |-> 0]

NewStateMachine ==
    [values |-> <<>>, dedup |-> <<>>, applied |-> 0,
     replaying |-> FALSE, ceiling |-> 0, halted |-> FALSE]

\* op: the caller; target: flushThrough's index; kind: what is being committed
\* ("flush", "compact" or "mark"); todo: names, or obsolete files, still to do.
NoJob ==
    [op |-> "none", target |-> 0, kind |-> "none", file |-> 0, tier |-> 0,
     inputs |-> {}, todo |-> <<>>, err |-> FALSE]

Init ==
    /\ log \in Logs
    /\ fs = NewSimFS
    /\ eng = NewEngine(NewManifest) /\ sm = NewStateMachine
    /\ pc = "down" /\ job = NoJob
    /\ errors = 0 /\ stops = 0 /\ calls = 0
    /\ reached = 0 /\ promised = 0

\* A call that changes the file system to next: it succeeds, or it returns an
\* error before or after its effect.
Fault == errors < MaxErrors /\ errors' = errors + 1 /\ UNCHANGED calls

FSCall(next, Ok, Failed) ==
    \/ fs' = next /\ Ok /\ UNCHANGED <<errors, calls>>
    \/ Fault /\ fs' \in {fs, next} /\ Failed

NoCall == UNCHANGED <<fs, errors, calls>>

ReadCall(Ok, Failed) == FSCall(fs, Ok, Failed)

-----------------------------------------------------------------------------
\* Memtables and lookups.

MemtableEntrySize(value) == IF value = Tombstone THEN 1 ELSE 2

ActiveSize(list) == MapThenSumSet(LAMBDA k : MemtableEntrySize(list[k].value), DOMAIN list)

RecordsOf(list) == {[key |-> k, seq |-> list[k].seq, value |-> list[k].value] : k \in DOMAIN list}

MaxSeq(list) == IF list = <<>> THEN 0 ELSE Max({list[k].seq : k \in DOMAIN list})

\* The skip list takes a write only if it is newer than what it holds for the key.
PutActive(e, key, value, seq) ==
    IF key \in DOMAIN e.list /\ seq <= e.list[key].seq THEN e
    ELSE [e EXCEPT !.list = (key :> [seq |-> seq, value |-> value]) @@ @]

TableAt(f, name) == Contents(f, name)[1].of

\* Every version of the key in the memtables and the published tables.
Candidates(e, f, key) ==
    {r \in RecordsOf(e.list) \cup UNION {RecordsOf(im.list) : im \in Range(e.immutables)} :
        r.key = key}
    \cup UNION {Get(TableAt(f, name), key) : name \in e.tables}

\* lookup: the newest version, as a set with that record or none.
Lookup(e, f, key) ==
    LET found == Candidates(e, f, key)
    IN  IF found = {} THEN {} ELSE {Newest(found)}

EngineRead(e, f, key) ==
    LET hit == {r \in Lookup(e, f, key) : r.value # Tombstone}
    IN  IF hit = {} THEN EmptyResult
        ELSE [value |-> (CHOOSE r \in hit : TRUE).value, found |-> TRUE]

\* A table opens if it is there, whole, as its metadata says, and holds no entry
\* beyond maxSeq.
Opens(f, name, meta, maxSeq) ==
    /\ Exists(f, name)
    /\ OpenSSTable(Contents(f, name))
    /\ LET t == TableAt(f, name)
       IN  /\ t.count = meta.count /\ t.minKey = meta.minKey /\ t.maxKey = meta.maxKey
           /\ ValidTable(t)
           /\ \A r \in Range(AllEntries(t)) : r.seq <= maxSeq

-----------------------------------------------------------------------------
\* Apply of the state machine, once the engine has done its part.

LeaveReplay(m, index) == [m EXCEPT !.replaying = @ /\ index < m.ceiling]

Effect(m, c, result) ==
    LET index == m.applied + 1
        done == [m EXCEPT !.applied = index]
    IN  LeaveReplay(
          IF c.op = "NOOP" \/ Duplicate(m.dedup, c) THEN done
          ELSE [done EXCEPT !.values = Executed(@, c),
                            !.dedup = Recorded(@, c, result)],
          index)

\* FlushedIndex tells what is published, once Open has returned.
Promise(e, j) ==
    promised' = IF j.op = "open" THEN promised ELSE Max({promised, e.manifest.flushed})

\* The operation returns to its caller; the host never calls Apply again after
\* an error of Apply.
Return(e, j, err) ==
    /\ eng' = e
    /\ job' = NoJob
    /\ pc' = IF j.op = "close" THEN "down" ELSE "idle"
    /\ sm' = IF j.op # "apply" THEN sm
             ELSE IF err THEN [sm EXCEPT !.halted = TRUE]
             ELSE Effect(sm, log[sm.applied + 1], EmptyResult)
    /\ reached' = Max({reached, sm'.applied})
    /\ Promise(e, j)
    /\ UNCHANGED <<log, stops>>

\* The operation goes on with another call.
Continue(e, j, label) ==
    /\ eng' = e /\ job' = j /\ pc' = label
    /\ Promise(e, j)
    /\ UNCHANGED <<log, sm, stops, reached>>

GoTo(label) == Continue(eng, job, label)

-----------------------------------------------------------------------------
\* flushThrough and compactAll: what comes after each part.

\* The loop of flushThrough: the oldest immutable memtable first, then an edit
\* that only moves the flushed index.
FlushNext(e, j) ==
    IF e.immutables # <<>>
    THEN Continue([e EXCEPT !.next = @ + 1],
                  [j EXCEPT !.kind = "flush", !.file = e.next, !.inputs = {},
                            !.tier = TableSizeClass(Cardinality(DOMAIN Head(e.immutables).list))],
                  "create")
    ELSE IF j.target > e.manifest.flushed
    THEN Continue(e, [j EXCEPT !.kind = "mark"], "append")
    ELSE Return(e, j, FALSE)

\* Refused at once: a target that regresses, or with anything newer in memory.
FlushThrough(e, j) ==
    IF \/ j.target < e.manifest.flushed
       \/ j.target > e.applied /\ j.target > e.manifest.flushed
       \/ MaxSeq(e.list) > j.target
       \/ \E im \in Range(e.immutables) : im.watermark > j.target
    THEN Return(e, j, TRUE)
    ELSE FlushNext(
           IF e.list = <<>> THEN e
           ELSE [e EXCEPT !.immutables = Append(@, [list |-> e.list, watermark |-> j.target]),
                          !.list = <<>>],
           j)

\* selectCompactionInputs: the lowest tier with enough tables, its first names.
Eligible(e) ==
    {t \in {e.manifest.files[n].tier : n \in e.tables} :
        Cardinality({n \in e.tables : e.manifest.files[n].tier = t}) >= FanIn}

Inputs(e, tier) ==
    LET names == SetToSortSeq({n \in e.tables : e.manifest.files[n].tier = tier}, <)
    IN  {names[i] : i \in 1..FanIn}

CompactNext(e, j) ==
    IF Eligible(e) # {}
    THEN LET tier == Min(Eligible(e))
         IN  Continue([e EXCEPT !.next = @ + 1],
                      [j EXCEPT !.kind = "compact", !.file = e.next, !.tier = tier + 1,
                                !.inputs = Inputs(e, tier)],
                      "create")
    ELSE IF j.op = "compact" THEN Return(e, j, FALSE)
    ELSE FlushNext(e, j)

\* reconcileObsolete is done: its caller stops on an error, Close stops anyway.
Reconciled(e, j) ==
    IF j.err \/ j.op = "close" THEN Return(e, j, j.err) ELSE CompactNext(e, j)

ReconcileDir(e, j) ==
    IF e.dirDirty THEN Continue(e, j, "rdir") ELSE Reconciled(e, j)

Reconcile(e, j) ==
    IF e.obsolete = <<>> THEN ReconcileDir(e, j)
    ELSE Continue([e EXCEPT !.obsolete = <<>>], [j EXCEPT !.todo = e.obsolete], "reconcile")

\* A flush that fails leaves its file to the next Open; a compaction discards
\* its output, with the handle it may still hold.
BuildFailed(open) ==
    IF job.kind # "compact" THEN Return(eng, job, TRUE)
    ELSE Reconcile([eng EXCEPT !.obsolete = Append(@, [name |-> job.file, open |-> open])],
                   [job EXCEPT !.err = TRUE])

-----------------------------------------------------------------------------
\* Building a table, for a flush or a compaction.

CreateTable ==
    /\ pc = "create"
    /\ IF Exists(fs, job.file) THEN BuildFailed(FALSE) /\ NoCall
       ELSE FSCall(Create(fs, job.file), GoTo("write"), BuildFailed(FALSE))

Records ==
    IF job.kind = "flush" THEN RecordsOf(Head(eng.immutables).list)
    ELSE UNION {Range(AllEntries(TableAt(fs, n))) : n \in job.inputs}

WriteTable ==
    /\ pc = "write"
    /\ IF Conflicting(Records) THEN BuildFailed(TRUE) /\ NoCall
       ELSE FSCall(Write(fs, job.file, Cells(Finish(KWayMerge(Records)))),
                   GoTo("sync"), BuildFailed(TRUE))

SyncTable ==
    /\ pc = "sync"
    /\ FSCall(Sync(fs, job.file), GoTo("dir"), BuildFailed(TRUE))

\* mutant: the name of the new table is not synced
SyncTableDirSkipped == pc = "dir" /\ GoTo("verify") /\ NoCall

SyncTableDir ==
    /\ pc = "dir"
    /\ FSCall(SyncDir(fs), GoTo("verify"), BuildFailed(FALSE))

\* The metadata the edit will carry, and the flushed index it will set.
Metadata ==
    LET added == KWayMerge(Records)
    IN  [tier |-> job.tier, count |-> Len(added),
         minKey |-> Head(added).key, maxKey |-> Last(added).key]

Watermark ==
    CASE job.kind = "flush" -> Head(eng.immutables).watermark
      [] job.kind = "mark" -> job.target
      [] job.kind = "compact" -> eng.manifest.flushed

VerifyTable ==
    /\ pc = "verify"
    /\ ReadCall(IF Opens(fs, job.file, Metadata, Watermark) THEN GoTo("append")
                ELSE BuildFailed(TRUE),
                BuildFailed(TRUE))

-----------------------------------------------------------------------------
\* Committing a version edit to the manifest.

NextEdit ==
    Edit(IF job.kind = "mark" THEN <<>> ELSE job.file :> Metadata, job.inputs, Watermark)

\* The append may or may not survive: the engine takes no more writes, and the
\* file the edit names is kept.
Poison == Return([eng EXCEPT !.poisoned = TRUE], job, TRUE)

\* An edit that is refused, or a manifest that cannot be opened, is not written.
AppendEdit ==
    /\ pc = "append"
    /\ IF ~ ValidEdit(eng.manifest, NextEdit) THEN BuildFailed(TRUE) /\ NoCall
       ELSE \/ Fault /\ BuildFailed(TRUE) /\ UNCHANGED fs
            \/ FSCall(Write(fs, ManifestName, Cells(NextEdit)), GoTo("msync"), Poison)

Published ==
    [eng EXCEPT !.manifest = ApplyEdit(@, NextEdit),
                !.tables = (@ \ job.inputs) \cup DOMAIN NextEdit.added,
                !.immutables = IF job.kind = "flush" THEN Tail(@) ELSE @,
                !.obsolete = @ \o [i \in 1..Cardinality(job.inputs) |->
                    [name |-> SetToSortSeq(job.inputs, <)[i], open |-> TRUE]]]

\* The edit is durable.  err: closing the manifest failed, which stops the
\* caller but not the publication.
Publish(err) ==
    CASE job.kind = "mark" -> Return(Published, job, err)
      [] job.kind = "flush" /\ err -> Return(Published, job, TRUE)
      [] OTHER -> Reconcile(Published, [job EXCEPT !.err = err])

SyncEdit ==
    /\ pc = "msync"
    /\ \/ FSCall(Sync(fs, ManifestName), Publish(FALSE), Poison)
       \/ Fault /\ fs' = Sync(fs, ManifestName) /\ Publish(TRUE)

-----------------------------------------------------------------------------
\* Removing obsolete tables.

Kept(item) == [eng EXCEPT !.obsolete = Append(@, item)]

ReconcileRest(e, j) ==
    LET rest == [j EXCEPT !.todo = Tail(@)]
    IN  IF rest.todo = <<>> THEN ReconcileDir(e, rest) ELSE Continue(e, rest, "reconcile")

\* Once a removal is attempted the directory is dirty, even if Remove failed: it
\* may have failed after its effect.
RemoveObsolete ==
    /\ pc = "reconcile"
    /\ LET item == Head(job.todo)
           failed == [job EXCEPT !.err = TRUE]
       IN  \/ /\ item.open /\ Fault
              /\ ReconcileRest(Kept(item), failed) /\ UNCHANGED fs
           \/ FSCall(IF Exists(fs, item.name) THEN RemoveName(fs, item.name) ELSE fs,
                     ReconcileRest([eng EXCEPT !.dirDirty = TRUE], job),
                     ReconcileRest([Kept([item EXCEPT !.open = FALSE]) EXCEPT !.dirDirty = TRUE], failed))

\* mutant: a sync that fails is forgotten
SyncObsoleteDirForgets ==
    /\ pc = "rdir"
    /\ FSCall(SyncDir(fs),
              Reconciled([eng EXCEPT !.dirDirty = FALSE], job),
              Reconciled([eng EXCEPT !.dirDirty = FALSE], [job EXCEPT !.err = TRUE]))

SyncObsoleteDir ==
    /\ pc = "rdir"
    /\ FSCall(SyncDir(fs),
              Reconciled([eng EXCEPT !.dirDirty = FALSE], job),
              Reconciled(eng, [job EXCEPT !.err = TRUE]))

-----------------------------------------------------------------------------
\* Open.

\* The process gives up, or refuses what it found.
OpenFailed == Continue(NewEngine(NewManifest), NoJob, "down")
Refused == Continue(NewEngine(NewManifest), NoJob, "corrupt")

Start ==
    /\ pc = "down"
    /\ fs' = Recover(fs)
    /\ eng' = NewEngine(NewManifest) /\ sm' = NewStateMachine
    /\ pc' = "load" /\ job' = [NoJob EXCEPT !.op = "open"]
    /\ UNCHANGED <<log, bounds, history>>

LoadManifest ==
    /\ pc = "load"
    /\ LET found == ReplayManifest(Contents(fs, ManifestName))
       IN  ReadCall(
             CASE ~ Exists(fs, ManifestName) -> GoTo("mcreate")
               [] ~ found.ok -> Refused
               [] OTHER -> Continue(NewEngine(found.state), job,
                                    IF found.torn THEN "mtrunc" ELSE "tables"),
             OpenFailed)

CreateManifest ==
    \/ pc = "mcreate" /\ FSCall(Create(fs, ManifestName), GoTo("mcsync"), OpenFailed)
    \/ pc = "mcsync" /\ FSCall(Sync(fs, ManifestName), GoTo("mcdir"), OpenFailed)
    \/ pc = "mcdir" /\ FSCall(SyncDir(fs), GoTo("tables"), OpenFailed)

TruncateManifest ==
    \/ /\ pc = "mtrunc"
       /\ FSCall(Truncate(fs, ManifestName, ReplayManifest(Contents(fs, ManifestName)).complete),
                 GoTo("mtsync"), OpenFailed)
    \/ pc = "mtsync" /\ FSCall(Sync(fs, ManifestName), GoTo("tables"), OpenFailed)

OpenReferencedTables ==
    /\ pc = "tables"
    /\ LET m == eng.manifest
           names == DOMAIN m.files
       IN  ReadCall(
             IF \A n \in names : Opens(fs, n, m.files[n], m.flushed)
             THEN Continue([eng EXCEPT !.tables = names],
                           [job EXCEPT !.todo = SetToSortSeq(names, <)], "tsync")
             ELSE Refused,
             OpenFailed)

\* Tables, their names, then the manifest: only then is what was read durable.
SyncRecovered ==
    \/ /\ pc = "tsync" /\ job.todo # <<>>
       /\ FSCall(Sync(fs, Head(job.todo)),
                 Continue(eng, [job EXCEPT !.todo = Tail(@)], "tsync"), OpenFailed)
    \/ /\ pc = "tsync" /\ job.todo = <<>>
       /\ FSCall(SyncDir(fs), GoTo("omsync"), OpenFailed)
    \/ /\ pc = "omsync"
       /\ FSCall(Sync(fs, ManifestName),
                 Continue(eng, [job EXCEPT !.todo =
                            SetToSortSeq(DOMAIN fs.live \ ({ManifestName} \cup eng.tables), <)],
                          "orphans"),
                 OpenFailed)

\* The engine is open.  The host has read its own log meanwhile: its last index
\* is at least the highest ever applied.
Opened ==
    /\ eng' = [eng EXCEPT !.next = Max({0} \cup eng.tables) + 1]
    /\ \E last \in reached..Len(log) :
          sm' = [sm EXCEPT !.replaying = last > 0, !.ceiling = last]
    /\ job' = NoJob /\ pc' = "idle"
    /\ Promise(eng, job')
    /\ UNCHANGED <<log, stops, reached>>

\* job.file marks that a name was removed.
RemoveOrphan ==
    /\ pc = "orphans" /\ job.todo # <<>>
    /\ FSCall(RemoveName(fs, Head(job.todo)),
              Continue(eng, [job EXCEPT !.todo = Tail(@), !.file = 1], "orphans"),
              OpenFailed)

\* mutant: the removals are not synced
OrphansGoneUnsynced == pc = "orphans" /\ job.todo = <<>> /\ Opened /\ NoCall

OrphansGone ==
    /\ pc = "orphans" /\ job.todo = <<>>
    /\ IF job.file = 1 THEN FSCall(SyncDir(fs), Opened, OpenFailed)
       ELSE Opened /\ NoCall

-----------------------------------------------------------------------------
\* The calls of the host, and the ends of the process.

Call(op, target) == [NoJob EXCEPT !.op = op, !.target = target]

\* What a GET returns: in replay the map rebuilt so far is read, not the engine,
\* which may hold later entries already.
\* mutant: the engine is read in replay too
ReadResultOfEngine(replaying, key) == EngineRead(eng, fs, key)

ReadResult(replaying, key) ==
    IF replaying THEN ReadIn(sm.values, key) ELSE EngineRead(eng, fs, key)

\* Put and Delete of the engine: a memtable that is full is flushed before the
\* call returns.
ShouldFlush(e) == ActiveSize(e.list) >= FlushThreshold
AutomaticFlushTarget(e) == Max({e.applied, e.manifest.flushed})

PutEngine(key, value, seq) ==
    LET advanced == [eng EXCEPT !.applied = Max({@, seq})]
        written == PutActive(advanced, key, value, seq)
    IN  IF written # advanced /\ ShouldFlush(written)
        THEN FlushThrough(written, Call("apply", AutomaticFlushTarget(written)))
        ELSE Return(written, Call("apply", 0), FALSE)

\* Apply.  A poisoned engine refuses every entry.
Apply ==
    /\ pc = "idle" /\ ~ sm.halted /\ sm.applied < Len(log)
    /\ LET index == sm.applied + 1
           c == log[index]
           replaying == sm.replaying /\ index <= sm.ceiling
           result == IF c.op = "GET" THEN ReadResult(replaying, c.key) ELSE EmptyResult
       IN  IF eng.poisoned \/ (c.op = "GET" /\ ~ replaying /\ Conflicting(Candidates(eng, fs, c.key)))
           THEN Return(eng, Call("apply", 0), TRUE)
           ELSE IF c.op \in {"NOOP", "GET"} \/ Duplicate(sm.dedup, c)
           THEN /\ eng' = [eng EXCEPT !.applied = index]
                /\ sm' = Effect([sm EXCEPT !.replaying = replaying], c, result)
                /\ reached' = Max({reached, index})
                /\ UNCHANGED <<log, pc, job, stops, promised>>
           ELSE PutEngine(c.key, IF c.op = "PUT" THEN c.value ELSE Tombstone, index)
    /\ NoCall

\* A call of the host between two entries.
Requested == pc = "idle" /\ calls < MaxCalls /\ calls' = calls + 1 /\ UNCHANGED <<fs, errors>>

ForceFlush == Requested /\ ~ eng.poisoned /\ FlushThrough(eng, Call("force", eng.applied))

Compact == Requested /\ ~ eng.poisoned /\ Reconcile(eng, Call("compact", 0))

\* Close retries the pending removals before the process ends.
Close == Requested /\ Reconcile(eng, Call("close", 0))

\* The process dies where it stands, and the power may fail with it.
Stop ==
    /\ pc \notin {"down", "corrupt"} /\ stops < MaxStops
    /\ stops' = stops + 1
    /\ fs' \in {fs} \cup CrashImages(fs)
    /\ pc' = "down" /\ eng' = NewEngine(NewManifest) /\ job' = NoJob
    /\ sm' = NewStateMachine
    /\ UNCHANGED <<log, errors, calls, history>>

Next ==
    \/ CreateTable \/ WriteTable \/ SyncTable \/ SyncTableDir \/ VerifyTable
    \/ AppendEdit \/ SyncEdit \/ RemoveObsolete \/ SyncObsoleteDir
    \/ LoadManifest \/ CreateManifest \/ TruncateManifest \/ OpenReferencedTables
    \/ SyncRecovered \/ RemoveOrphan \/ OrphansGone
    \/ Start \/ Apply \/ ForceFlush \/ Compact \/ Close \/ Stop

Spec == Init /\ [][Next]_vars

-----------------------------------------------------------------------------
\* Properties.

\* Entry i had an effect: no entry before it carries its client and a sequence
\* number as high.
Effective(i) ==
    /\ log[i].op \in {"PUT", "DELETE"}
    /\ ~ \E h \in 1..(i - 1) :
          log[h].op # "NOOP" /\ log[h].client = log[i].client /\ log[h].seq >= log[i].seq

\* The newest version of the key among the first n entries, as a set.
Version(key, n) ==
    LET writes == {i \in 1..n : Effective(i) /\ log[i].key = key}
    IN  IF writes = {} THEN {}
        ELSE LET i == Max(writes)
             IN  {[key |-> key, seq |-> i,
                   value |-> IF log[i].op = "PUT" THEN log[i].value ELSE Tombstone]}

\* A file system from which Open succeeds, with every effect up to a flushed
\* index that is at least n.
RecoversTo(f, n) ==
    IF ~ Exists(f, ManifestName) THEN n = 0
    ELSE LET found == ReplayManifest(Contents(f, ManifestName))
             m == found.state
             e == [NewEngine(m) EXCEPT !.tables = DOMAIN m.files]
         IN  /\ found.ok
             /\ m.flushed >= n
             /\ \A name \in DOMAIN m.files : Opens(f, name, m.files[name], m.flushed)
             /\ \A k \in Key : Lookup(e, f, k) = Version(k, m.flushed)

\* Whatever the power failure keeps, and whenever it strikes, the engine opens
\* again and its tables hold exactly the effects of the entries up to a flushed
\* index no lower than the one FlushedIndex last reported.
Recoverable == \A f \in {fs} \cup CrashImages(fs) : RecoversTo(f, promised)

\* A lookup returns the newest write of its key, in every state between two calls
\* of a flush, a compaction or their failures: the entries applied so far, and in
\* replay also those the tables already held.
ReadsNewest ==
    pc \in {"idle", "create", "write", "sync", "dir", "verify", "append", "msync",
           "reconcile", "rdir"} =>
        \A k \in Key : /\ Lookup(eng, fs, k) = Version(k, Max({eng.applied, eng.manifest.flushed}))
                       /\ ~ Conflicting(Candidates(eng, fs, k))

\* Every result, value and deduplication record is that of the in-memory state
\* machine, whatever was flushed, compacted, lost or replayed.
RefinesMap == INSTANCE MapSM WITH values <- sm.values, dedup <- sm.dedup, applied <- sm.applied
ImplementsMap == RefinesMap!Spec

\* A name whose removal is not durable is remembered until a directory sync
\* succeeds, so that no removed table comes back in a running engine.
RemovalsRemembered ==
    pc = "idle" /\ DOMAIN fs.synced \ DOMAIN fs.live # {} => eng.dirDirty

\* Open returns with no table on disk but the referenced ones, and all of it durable.
OpenCleans ==
    [][pc # "idle" /\ pc' = "idle" /\ job.op = "open" =>
         /\ DOMAIN fs'.live = {ManifestName} \cup eng'.tables
         /\ fs'.synced = fs'.live /\ fs'.dirty = <<>>]_vars
=============================================================================
