------------------------------- MODULE Manifest -------------------------------
(***************************************************************************)
(* The MANIFEST (internal/lsm/manifest.go): a file of framed version       *)
(* edits.  An edit names the tables it adds, with their metadata, the      *)
(* tables it removes, and the flushed index: every effect of an entry up   *)
(* to that index is in the tables.  Replaying the edits gives the tables   *)
(* of the engine.  A frame without its end marker is a torn write.         *)
(***************************************************************************)
EXTENDS SSTable

\* The names of a data directory: the manifest, and the tables by their number.
ManifestName == 0

Edit(added, removed, flushed) ==
    [kind |-> "edit", added |-> added, removed |-> removed, flushed |-> flushed]

NewManifest == [files |-> <<>>, flushed |-> 0]

\* What apply insists on.
ValidEdit(state, edit) ==
    /\ edit.flushed >= state.flushed
    /\ DOMAIN edit.added # {} \/ edit.removed # {} \/ edit.flushed > state.flushed
    /\ edit.removed \subseteq DOMAIN state.files
    /\ DOMAIN edit.added \cap DOMAIN state.files = {}
    /\ \A n \in DOMAIN edit.added :
          edit.added[n].count > 0 /\ edit.added[n].minKey <= edit.added[n].maxKey

ApplyEdit(state, edit) ==
    [files |-> edit.added @@ Restrict(state.files, DOMAIN state.files \ edit.removed),
     flushed |-> edit.flushed]

\* replayManifestBytes: the state the complete frames give, how many cells they
\* take, whether a torn frame follows, and whether all is well.
ReplayManifest(cells) ==
    LET frames == Len(cells) \div 2
        framed == \A i \in 1..Len(cells) :
                     /\ cells[i].of.kind = "edit"
                     /\ cells[i].part = IF i % 2 = 1 THEN 1 ELSE 2
                     /\ i % 2 = 0 => cells[i].of = cells[i - 1].of
        step(acc, edit) ==
            IF acc.ok /\ ValidEdit(acc.state, edit)
            THEN [acc EXCEPT !.state = ApplyEdit(@, edit)]
            ELSE [acc EXCEPT !.ok = FALSE]
        start == [ok |-> framed, state |-> NewManifest,
                  complete |-> 2 * frames, torn |-> Len(cells) > 2 * frames]
    IN  IF framed
        THEN FoldLeft(step, start, [i \in 1..frames |-> cells[2 * i].of])
        ELSE start
=============================================================================
