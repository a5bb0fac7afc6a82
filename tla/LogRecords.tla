------------------------------ MODULE LogRecords ------------------------------
(***************************************************************************)
(* The records of internal/storage/disklog.  One Save is one batch of      *)
(* records (HardState, Truncate, Entries, in that order), and the state of *)
(* a log is what replaying its records yields.  A hard state and an entry  *)
(* are opaque values here; an entry's index is its position.               *)
(***************************************************************************)
EXTENDS Naturals, Sequences, SequencesExt

CONSTANTS
    Value,      \* hard states, and the contents of entries
    NoHard      \* the hard state of a fresh log, and of a Save without one

ASSUME NoHardAssumption == NoHard \notin Value

HardStateRecord(h) == [kind |-> "HardState", hard |-> h]
TruncateRecord(from) == [kind |-> "Truncate", from |-> from]
EntriesRecord(first, es) == [kind |-> "Entries", first |-> first, entries |-> es]

\* Bytes after an unterminated frame: the frame they end never decodes.
Garbled == [kind |-> "Garbled"]

\* What Save is asked to store: a hard state or NoHard, and the entries from
\* index first on, possibly none.  checkContiguous refuses a gap, and an empty
\* request returns at once, before anything is written.
Requests(last, values, maxEntries) ==
    {r \in [hard : values \cup {NoHard}, first : 1..(last + 1),
            entries : UNION {[1..k -> values] : k \in 0..maxEntries}] :
        /\ r.entries = <<>> => r.hard # NoHard /\ r.first = last + 1}

EncodeBatch(r, last) ==
    (IF r.hard = NoHard THEN <<>> ELSE <<HardStateRecord(r.hard)>>)
    \o (IF r.entries # <<>> /\ r.first <= last THEN <<TruncateRecord(r.first)>> ELSE <<>>)
    \o (IF r.entries = <<>> THEN <<>> ELSE <<EntriesRecord(r.first, r.entries)>>)

-----------------------------------------------------------------------------
\* A replayed log; ok is FALSE once a record could not be applied.

EmptyLog == [hard |-> NoHard, entries |-> <<>>, ok |-> TRUE]

TruncateEntries(es, from) == SubSeq(es, 1, IF from <= Len(es) THEN from - 1 ELSE Len(es))

ApplyRecord(log, r) ==
    CASE r.kind = "HardState" -> [log EXCEPT !.hard = r.hard]
      [] r.kind = "Truncate" -> [log EXCEPT !.entries = TruncateEntries(@, r.from)]
      [] r.kind = "Entries" /\ r.first <= Len(log.entries) + 1 ->
            [log EXCEPT !.entries = TruncateEntries(@, r.first) \o r.entries]
      [] OTHER -> [log EXCEPT !.ok = FALSE]

Replay(log, records) == FoldLeft(ApplyRecord, log, records)
=============================================================================
