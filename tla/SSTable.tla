------------------------------- MODULE SSTable -------------------------------
(***************************************************************************)
(* SSTables (internal/lsm/sstable.go, bloom.go) and the merge that         *)
(* compacts them (compaction.go).  A table is written whole: data blocks,  *)
(* the first key of each (the index), a Bloom filter, and a footer with    *)
(* the number of records and their key bounds.  A record is                *)
(* [key, seq, value], value being Tombstone for a delete; keys are numbers *)
(* in byte order.  Offsets, checksums and encodings are left out: a table  *)
(* image is either complete or fails its checks (see OpenSSTable).         *)
(***************************************************************************)
EXTENDS SimFS, FiniteSetsExt

CONSTANTS
    Tombstone,      \* the value of a deletion
    Probes,         \* Probes[k]: the filter bits key k hashes to
    BlockTarget,    \* dataBlockTarget, in records
    SizeClassBase   \* sizeClassBaseBytes, in records

ValidRecordOrder(previous, e) ==
    e.key > previous.key \/ (e.key = previous.key /\ e.seq < previous.seq)

\* A block is closed when it is full, but never between two versions of a key.
BuildDataBlocks(entries) ==
    FoldLeft(
        LAMBDA blocks, e :
            IF blocks # <<>> /\ (Len(Last(blocks)) < BlockTarget \/ Last(Last(blocks)).key = e.key)
            THEN [blocks EXCEPT ![Len(blocks)] = Append(@, e)]
            ELSE Append(blocks, <<e>>),
        <<>>, entries)

BloomOf(entries) == UNION {Probes[e.key] : e \in Range(entries)}
MayContain(bloom, key) == Probes[key] \subseteq bloom

\* Add refuses a record out of order, Finish writes the table.
Writable(entries) ==
    \A i \in 2..Len(entries) : ValidRecordOrder(entries[i - 1], entries[i])

Finish(entries) ==
    LET blocks == BuildDataBlocks(entries)
    IN  [kind |-> "table", blocks |-> blocks,
         index |-> [b \in 1..Len(blocks) |-> blocks[b][1].key],
         bloom |-> BloomOf(entries), count |-> Len(entries),
         minKey |-> Head(entries).key, maxKey |-> Last(entries).key]

\* The footer is the last thing in the file: a torn table has none, and a file
\* with anything else in it fails a checksum.
OpenSSTable(cells) ==
    Len(cells) = 2 /\ cells[1].of.kind = "table" /\ cells = Cells(cells[1].of)

AllEntries(t) == FlattenSeq(t.blocks)

\* AllEntries validates every block against the index, the filter and the footer.
ValidTable(t) ==
    LET es == AllEntries(t)
    IN  /\ \A b \in 1..Len(t.blocks) : Head(t.blocks[b]).key = t.index[b]
        /\ \A b \in 2..Len(t.blocks) :
              Head(t.blocks[b]).key > Last(t.blocks[b - 1]).key
        /\ Writable(es)
        /\ \A e \in Range(es) : MayContain(t.bloom, e.key)
        /\ Len(es) = t.count /\ Head(es).key = t.minKey /\ Last(es).key = t.maxKey

\* The block the index names for a key that is not below the first one.
\* mutant: a key that opens a block is looked up in the block before
FindBlockBefore(t, key) == Max({1} \cup {i \in 1..Len(t.index) : t.index[i] < key})

FindBlock(t, key) == Max({i \in 1..Len(t.index) : t.index[i] <= key})

\* get: the newest record of the key, as a set with that record or none.
Get(t, key) ==
    IF t.count = 0 \/ ~ MayContain(t.bloom, key) \/ key < t.minKey \/ key > t.maxKey
    THEN {}
    ELSE LET b == FindBlock(t, key)
             run == SelectSeq(t.blocks[b], LAMBDA e : e.key = key)
         IN  IF run = <<>> THEN {} ELSE {Head(run)}

-----------------------------------------------------------------------------
\* Compaction's merge.

\* Two versions of a key at one index that differ: the merge and a lookup fail.
Conflicting(records) ==
    \E d, e \in records : d.key = e.key /\ d.seq = e.seq /\ d.value # e.value

Newest(records) == CHOOSE e \in records : \A d \in records : d.seq <= e.seq

\* One record per key, in key order: the newest, tombstones included.
KWayMerge(records) ==
    LET keys == SetToSortSeq({e.key : e \in records}, <)
    IN  [i \in 1..Len(keys) |-> Newest({e \in records : e.key = keys[i]})]

\* The class of a freshly flushed table: 0 below the base, then four times wider each.
TableSizeClass(size) == Min({c \in 0..size : size < SizeClassBase * 4^c})
=============================================================================
