------------------------------- MODULE DiskLog -------------------------------
(***************************************************************************)
(* internal/storage/disklog: the segmented append-only log that keeps a    *)
(* node's hard state and entries, on a file system that loses what was not *)
(* synced.  Save holds the log's mutex, so its steps (rotate, write, sync) *)
(* interleave only with the end of the process and with power cuts.        *)
(*                                                                         *)
(* A file is what reads see (live) and what a power cut cannot take away   *)
(* (durable).  Its contents are complete frames, one record each, and      *)
(* possibly an unterminated one; a frame is the unit of size.  Names of    *)
(* segments are durable once the directory is synced.                      *)
(***************************************************************************)
EXTENDS LogRecords, FiniteSets

CONSTANTS
    RotateSize,     \* Options.RotateSize, in frames
    MaxEntries,     \* bound: entries of one Save
    MaxSaves,       \* bound: Saves that write
    MaxRestarts     \* bound: ends of the process

VARIABLES
    segs,       \* the segment files, in sequence
    names,      \* how many of their names are durable
    pc,         \* where the process is
    synced,     \* recovery: segments synced so far
    request,    \* what the Save in progress, or the last interrupted one, stores
    mirror,     \* l.hard and l.entries; while no process serves, the last served
    saves, restarts

vars == <<segs, names, pc, synced, request, mirror, saves, restarts>>

NoRequest == [hard |-> NoHard, first |-> 1, entries |-> <<>>]
NoFrames == [frames |-> <<>>, torn |-> FALSE]
NewFile == [live |-> NoFrames, durable |-> NoFrames]

Active == Len(segs)
Batch == EncodeBatch(request, Len(mirror.entries))

\* The frames of all segments, in order.
Frames == FlattenSeq([s \in DOMAIN segs |-> segs[s].live.frames])

\* Contents after some of the batch reached the file: k frames, and part of the
\* next one if cut.
Extended(c, batch, k, cut) ==
    IF c.torn /\ (k > 0 \/ cut)
    THEN [frames |-> c.frames \o <<Garbled>> \o SubSeq(batch, 2, k), torn |-> cut]
    ELSE [frames |-> c.frames \o SubSeq(batch, 1, k), torn |-> c.torn \/ cut]

\* Sync(s): what was written to segment s is durable.
Synced(file) == [file EXCEPT !.durable = file.live]

\* mutant: a failed write or sync leaves the log usable
PoisonNothing == pc' = "serving"
Poison == pc' = "failed"

-----------------------------------------------------------------------------
\* Save

\* Save up to rotateIfNeeded's decision.  An empty segment accepts any batch.
Save ==
    /\ pc = "serving"
    /\ saves < MaxSaves
    /\ request' \in Requests(Len(mirror.entries), {saves + 1}, MaxEntries)
    /\ LET size == Len(segs[Active].live.frames)
           batch == Len(EncodeBatch(request', Len(mirror.entries)))
       IN  pc' = IF size = 0 \/ size + batch <= RotateSize THEN "write" ELSE "rotate"
    /\ saves' = saves + 1
    /\ UNCHANGED <<segs, names, synced, mirror, restarts>>

\* createSegment, the file: the next name, never an existing one.
CreateSegment ==
    /\ pc = "rotate"
    /\ segs' = Append(segs, NewFile)
    /\ pc' = "created"
    /\ UNCHANGED <<names, synced, request, mirror, saves, restarts>>

\* createSegment, the directory.
\* mutant: the new name is not synced
SyncDirSkipped ==
    /\ pc = "created"
    /\ pc' = "write"
    /\ UNCHANGED <<segs, names, synced, request, mirror, saves, restarts>>
SyncDir ==
    /\ pc = "created"
    /\ names' = Len(segs)
    /\ pc' = "write"
    /\ UNCHANGED <<segs, synced, request, mirror, saves, restarts>>

Write ==
    /\ pc = "write"
    /\ segs' = [segs EXCEPT ![Active].live = Extended(@, Batch, Len(Batch), FALSE)]
    /\ pc' = "sync"
    /\ UNCHANGED <<names, synced, request, mirror, saves, restarts>>

\* The write stopped early, with an error or because the process ended.
WriteFails ==
    /\ pc = "write"
    /\ \E k \in 0..Len(Batch), cut \in BOOLEAN :
        /\ cut => k < Len(Batch)
        /\ segs' = [segs EXCEPT ![Active].live = Extended(@, Batch, k, cut)]
    /\ Poison
    /\ UNCHANGED <<names, synced, request, mirror, saves, restarts>>

\* Closing or creating a segment, or a sync, fails: the files are as they were.
StepFails ==
    /\ pc \in {"rotate", "created", "sync"}
    /\ Poison
    /\ UNCHANGED <<segs, names, synced, request, mirror, saves, restarts>>

\* Save's update of the mirror.
\* mutant: an overwrite keeps the entries beyond the new ones
MirroredKeepsSuffix(m, r) ==
    [m EXCEPT !.hard = IF r.hard = NoHard THEN @ ELSE r.hard,
              !.entries = IF r.entries = <<>> THEN @
                          ELSE TruncateEntries(@, r.first) \o r.entries
                               \o SubSeq(@, r.first + Len(r.entries), Len(@))]
Mirrored(m, r) ==
    [m EXCEPT !.hard = IF r.hard = NoHard THEN @ ELSE r.hard,
              !.entries = IF r.entries = <<>> THEN @
                          ELSE TruncateEntries(@, r.first) \o r.entries]

\* The batch is durable, and Save returns.
SyncFile ==
    /\ pc = "sync"
    /\ segs' = [segs EXCEPT ![Active] = Synced(@)]
    /\ mirror' = Mirrored(mirror, request)
    /\ request' = NoRequest
    /\ pc' = "serving"
    /\ UNCHANGED <<names, synced, saves, restarts>>

-----------------------------------------------------------------------------
\* Open.  Any failing step ends Open with an error: Exit.

\* An empty directory: createSegment(1).
OpenFresh ==
    /\ pc = "down"
    /\ segs = <<>>
    /\ segs' = <<NewFile>>
    /\ synced' = 1
    /\ pc' = "recovering"
    /\ UNCHANGED <<names, request, mirror, saves, restarts>>

\* replaySegment's ErrCorrupt: a frame without its end anywhere but at the end of
\* the last segment, or a record that does not apply.
Corrupt ==
    \/ \E s \in 1..(Active - 1) : segs[s].live.torn
    \/ ~ Replay(EmptyLog, Frames).ok

\* recover up to its syncs: replay, and cut the unterminated frame off.
TruncateTail(file) == [file EXCEPT !.live.torn = FALSE]
Recover ==
    /\ pc = "down"
    /\ segs # <<>>
    /\ IF Corrupt
       THEN pc' = "corrupt" /\ UNCHANGED segs
       ELSE /\ segs' = [segs EXCEPT ![Active] = TruncateTail(@)]
            /\ pc' = IF segs[Active].live.torn THEN "truncated" ELSE "recovering"
    /\ synced' = 0
    /\ UNCHANGED <<names, request, mirror, saves, restarts>>

\* truncateTail's sync of the shortened file.
SyncTail ==
    /\ pc = "truncated"
    /\ segs' = [segs EXCEPT ![Active] = Synced(@)]
    /\ pc' = "recovering"
    /\ UNCHANGED <<names, synced, request, mirror, saves, restarts>>

\* recover's syncs of the closed segments and of the active one.
\* mutant: what reads back is taken for durable
SyncSegmentSkipped ==
    /\ pc = "recovering"
    /\ synced < Active
    /\ synced' = Active
    /\ UNCHANGED <<segs, names, pc, request, mirror, saves, restarts>>
SyncSegment ==
    /\ pc = "recovering"
    /\ synced < Active
    /\ segs' = [segs EXCEPT ![synced + 1] = Synced(@)]
    /\ synced' = synced + 1
    /\ UNCHANGED <<names, pc, request, mirror, saves, restarts>>

\* The directory sync, and Open's return.
OpenReturns ==
    /\ pc = "recovering"
    /\ synced = Active
    /\ names' = Len(segs)
    /\ mirror' = Replay(EmptyLog, Frames)
    /\ request' = NoRequest
    /\ pc' = "serving"
    /\ synced' = 0
    /\ UNCHANGED <<segs, saves, restarts>>

-----------------------------------------------------------------------------
\* The end of the process, and of the machine

Down == pc \in {"down", "corrupt"}

\* Close, a failing Open, or the process is killed: the files keep what was written.
Exit ==
    /\ ~ Down
    /\ restarts < MaxRestarts
    /\ pc' = "down"
    /\ restarts' = restarts + 1
    /\ synced' = 0
    /\ UNCHANGED <<segs, names, request, mirror, saves>>

\* The contents a power cut may leave: the durable ones and any leading part of
\* what was appended since; or, of a file that was shortened, the old contents.
Survivors(file) ==
    LET d == Len(file.durable.frames)
        l == Len(file.live.frames)
        Kept(k, cut) == [frames |-> SubSeq(file.live.frames, 1, k), torn |-> cut]
    IN  {file.durable}
        \cup {Kept(k, TRUE) : k \in d..(IF file.live.torn THEN l ELSE l - 1)}
        \cup {Kept(k, FALSE) : k \in (IF file.durable.torn /\ file.live.torn THEN d + 1 ELSE d)..l}

\* At most the last name is not durable (TypeOK), so the names that survive are
\* the first n ones.
PowerCut ==
    /\ pc # "corrupt"
    /\ restarts < MaxRestarts
    /\ \E n \in names..Len(segs) :
        /\ \E f \in [1..n -> UNION {Survivors(segs[s]) : s \in 1..n}] :
            /\ \A s \in 1..n : f[s] \in Survivors(segs[s])
            /\ segs' = [s \in 1..n |-> [live |-> f[s], durable |-> f[s]]]
        /\ names' = n
    /\ pc' = "down"
    /\ restarts' = restarts + 1
    /\ synced' = 0
    /\ UNCHANGED <<request, mirror, saves>>

-----------------------------------------------------------------------------
Init ==
    /\ segs = <<>>
    /\ names = 0
    /\ pc = "down"
    /\ synced = 0
    /\ request = NoRequest
    /\ mirror = EmptyLog
    /\ saves = 0
    /\ restarts = 0

Next ==
    \/ Save \/ CreateSegment \/ SyncDir \/ Write \/ WriteFails \/ StepFails \/ SyncFile
    \/ OpenFresh \/ Recover \/ SyncTail \/ SyncSegment \/ OpenReturns
    \/ Exit \/ PowerCut

Spec == Init /\ [][Next]_vars

-----------------------------------------------------------------------------
\* Properties

\* Every variable has its type; of the segment names at most the newest is not
\* durable, since createSegment and Open sync the directory before anything else
\* is created.
TypeOK ==
    LET Record == [kind : {"HardState"}, hard : Value]
                  \cup [kind : {"Truncate"}, from : 1..(MaxSaves * MaxEntries)]
        IsFrame(r) == \/ r \in Record \/ r = Garbled
                      \/ r.kind = "Entries" /\ r.first \in 1..(MaxSaves * MaxEntries)
        IsContents(c) == /\ c.torn \in BOOLEAN
                         /\ \A k \in DOMAIN c.frames : IsFrame(c.frames[k])
    IN  /\ \A s \in DOMAIN segs : IsContents(segs[s].live) /\ IsContents(segs[s].durable)
        /\ names \in {Active, Active - 1} \cap Nat
        /\ pc \in {"down", "recovering", "truncated", "corrupt", "serving", "rotate",
                   "created", "write", "sync", "failed"}
        /\ synced \in 0..Active
        /\ mirror.hard \in Value \cup {NoHard}
        /\ \A k \in DOMAIN mirror.entries : mirror.entries[k] \in Value
        /\ saves \in 0..MaxSaves
        /\ restarts \in 0..MaxRestarts

\* Open never refuses what Saves, failures and power cuts can leave behind: an
\* unterminated frame is never followed by another segment or by more frames, and
\* every entries record that is replayed extends the entries before it (ErrCorrupt
\* in replaySegment and applyRecord is for damage only).
NeverCorrupt == pc # "corrupt"

\* While Saves are accepted the mirror that reads are served from is exactly the
\* state a recovery would compute, whatever a power cut takes: everything the
\* mirror shows is durable, names included, and nothing else is in the files
\* ("bytes and names that read back are not evidence of durability").
ServedIsDurable ==
    pc = "serving" =>
        /\ names = Len(segs)
        /\ \A s \in DOMAIN segs : segs[s].live = segs[s].durable /\ ~ segs[s].live.torn
        /\ Replay(EmptyLog, Frames) = mirror

\* storage.Storage's promise that a Save is atomic: what Open serves after a Save
\* was cut off is the state before the Save or the state after it.
SaveIsAtomic ==
    [][pc = "recovering" /\ pc' = "serving" => mirror' \in {mirror, Mirrored(mirror, request)}]_vars

\* The log is the durable storage that the host and Raft rely on: a Save that
\* returned, or a state that Open served, is never lost, and a Save that did not
\* return leaves a prefix of its records.
Serving == pc \in {"serving", "rotate", "created", "write", "sync"}
Storage == INSTANCE DurableLog WITH
    served <- mirror, serving <- Serving, partial <- IF Serving THEN <<>> ELSE Batch
RefinesDurableLog == Storage!Spec
=============================================================================
