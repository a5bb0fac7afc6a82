-------------------------------- MODULE SimFS --------------------------------
(***************************************************************************)
(* The file system under the LSM engine, as internal/lsm/fs_sim.go defines *)
(* it: names and the bytes of a file become durable separately, a name by  *)
(* a sync of its directory and bytes by a sync of their file.  A crash     *)
(* keeps the synced names and, of the bytes still dirty, a prefix in the   *)
(* order in which they were written, whatever file they went to.           *)
(*                                                                         *)
(* A file system is a record:                                              *)
(*   live, synced   name -> inode, as seen now and as the directory's sync *)
(*                  left it                                                *)
(*   data, durable  inode -> cells, as seen now and as its sync left it    *)
(*   dirty          the mutations no sync has covered, oldest first        *)
(*   crashed        between Crash and Recover nothing can be called        *)
(*                                                                         *)
(* One Write is two cells, the bytes up to its last one and the last one,  *)
(* so that a crash can keep all, none or part of it.                       *)
(***************************************************************************)
EXTENDS Integers, Sequences, FiniteSets, Functions, SequencesExt

NewSimFS ==
    [live |-> <<>>, synced |-> <<>>, data |-> <<>>, durable |-> <<>>,
     dirty |-> <<>>, crashed |-> FALSE]

\* The cells of one Write of a payload, and the zero a write past the end leaves.
Cells(payload) == <<[part |-> 1, of |-> payload], [part |-> 2, of |-> payload]>>
Zero == [part |-> 0, of |-> [kind |-> "zero"]]

Inodes(f) == Range(f.live) \cup Range(f.synced)

\* An inode no name reaches any more is gone, and so are its mutations: they
\* only took up room in the prefix a crash keeps, whose length is arbitrary.
Collect(f) ==
    [f EXCEPT !.data = Restrict(@, Inodes(f)),
              !.durable = Restrict(@, Inodes(f)),
              !.dirty = SelectSeq(@, LAMBDA m : m.node \in Inodes(f))]

FreshInode(f) == CHOOSE i \in 1..(Cardinality(Inodes(f)) + 1) : i \notin Inodes(f)

Exists(f, name) == name \in DOMAIN f.live
Contents(f, name) == f.data[f.live[name]]

\* Create refuses a name that exists: its caller checks Exists.
Create(f, name) ==
    LET i == FreshInode(f)
    IN  [f EXCEPT !.live = (name :> i) @@ @,
                  !.data = (i :> <<>>) @@ @,
                  !.durable = (i :> <<>>) @@ @]

\* Every handle of the engine writes at the end of its file.
Write(f, name, cells) ==
    LET i == f.live[name]
    IN  [f EXCEPT !.data[i] = @ \o cells,
                  !.dirty = Append(@, [node |-> i, kind |-> "write",
                                       offset |-> Len(f.data[i]), cells |-> cells])]

\* The engine only ever shortens a file.
Truncate(f, name, size) ==
    LET i == f.live[name]
        cut == Len(f.data[i]) - size
    IN  [f EXCEPT !.data[i] = SubSeq(@, 1, size),
                  !.dirty = IF cut = 0 THEN @
                            ELSE Append(@, [node |-> i, kind |-> "truncate", cut |-> cut])]

Sync(f, name) ==
    LET i == f.live[name]
    IN  [f EXCEPT !.durable[i] = f.data[i],
                  !.dirty = SelectSeq(@, LAMBDA m : m.node # i)]

SyncDir(f) == Collect([f EXCEPT !.synced = f.live])

RemoveName(f, name) ==
    Collect([f EXCEPT !.live = Restrict(@, DOMAIN @ \ {name})])

-----------------------------------------------------------------------------
\* Crash.

ByteCount(m) == IF m.kind = "write" THEN Len(m.cells) ELSE m.cut

\* The image of a file after the first `keep` bytes of a mutation.
ApplyPrefix(image, m, keep) ==
    IF m.kind = "truncate" THEN SubSeq(image, 1, Len(image) - keep)
    ELSE LET end == m.offset + keep
             size == IF end > Len(image) THEN end ELSE Len(image)
         IN  [p \in 1..size |->
                IF p > m.offset /\ p <= end THEN m.cells[p - m.offset]
                ELSE IF p <= Len(image) THEN image[p] ELSE Zero]

DirtyBytes(f) == FoldLeft(LAMBDA n, m : n + ByteCount(m), 0, f.dirty)

\* The bytes of every file that survive when `retain` dirty bytes do.
Survivors(f, retain) ==
    FoldLeft(
        LAMBDA acc, m :
            LET keep == IF acc.left < ByteCount(m) THEN acc.left ELSE ByteCount(m)
            IN  [left |-> acc.left - keep,
                 image |-> IF keep = 0 THEN acc.image
                           ELSE [acc.image EXCEPT ![m.node] = ApplyPrefix(@, m, keep)]],
        [left |-> retain, image |-> f.durable], f.dirty).image

Crash(f, retain) ==
    LET image == Restrict(Survivors(f, retain), Range(f.synced))
    IN  [live |-> f.synced, synced |-> f.synced, data |-> image, durable |-> image,
         dirty |-> <<>>, crashed |-> TRUE]

CrashImages(f) == {Crash(f, retain) : retain \in 0..DirtyBytes(f)}

Recover(f) == [f EXCEPT !.crashed = FALSE]
=============================================================================
