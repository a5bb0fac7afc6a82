---------------------------- MODULE CrashStorage ----------------------------
(***************************************************************************)
(* The storage of a simulated node (sim/crashstorage.go), which dies at    *)
(* the Save a crash directive names: before the sync barrier, with a       *)
(* prefix of the bytes the Save staged; after it, before Save returns; or  *)
(* after the host has sent the batch's messages.  Its records are those of *)
(* the disk log.                                                           *)
(*                                                                         *)
(* A storage is a record:                                                  *)
(*   pending   the directives that have not fired                          *)
(*   saves     the Saves accepted so far                                   *)
(*   view      the state reads see                                         *)
(*   platter   the durable bytes: the state their complete records give,   *)
(*             and whether a torn record follows them                      *)
(*   crashed, armed (the Save that dies once its messages are sent, or 0)  *)
(*   last      the Save and the point of the last crash                    *)
(* and, for the promise it keeps (DurableLog):                             *)
(*   served    the state when Save or Recover last returned                *)
(*   partial   the records of the Save that died                           *)
(***************************************************************************)
EXTENDS LogRecords, Integers

NewCrashStorage(directives) ==
    [pending |-> directives, saves |-> 0, view |-> EmptyLog,
     platter |-> [log |-> EmptyLog, torn |-> FALSE],
     crashed |-> FALSE, armed |-> 0, last |-> [save |-> 0, point |-> "None"],
     served |-> EmptyLog, partial |-> <<>>]

\* A batch that stores nothing still is a Save.
NothingToSave(last) == [hard |-> NoHard, first |-> last + 1, entries |-> <<>>]

\* MemStorage.Save: the entries replace whatever follows their first index.
MemSave(view, r) ==
    [view EXCEPT !.hard = IF r.hard = NoHard THEN @ ELSE r.hard,
                 !.entries = IF r.entries = <<>> THEN @
                             ELSE SubSeq(@, 1, r.first - 1) \o r.entries]

\* Records behind a torn one cannot be told apart from its end.
AppendRecords(platter, records) ==
    [platter EXCEPT !.log = IF platter.torn /\ records # <<>> THEN [@ EXCEPT !.ok = FALSE]
                            ELSE Replay(@, records)]

\* crash: a record is two bytes here, so that a prefix may end inside one.
Crash(cs, staged, save, point, retain) ==
    LET bytes == 2 * Len(staged)
        keep == IF retain = -1 \/ retain > bytes THEN bytes ELSE retain
        kept == AppendRecords(cs.platter, SubSeq(staged, 1, keep \div 2))
        platter == [kept EXCEPT !.torn = @ \/ keep % 2 = 1]
    IN  [cs EXCEPT !.platter = platter, !.view = platter.log, !.crashed = TRUE,
                   !.armed = 0, !.last = [save |-> save, point |-> point]]

\* mutant: the batch is served without crossing the barrier
SyncedInMemory(cs, r, staged) == [cs EXCEPT !.view = MemSave(@, r)]

\* The sync barrier, and the batch as the live view takes it.
Synced(cs, r, staged) ==
    [cs EXCEPT !.platter = AppendRecords(@, staged), !.view = MemSave(@, r)]

\* Save: the storage after it, and whether it failed.
Save(cs, r) ==
    LET n == cs.saves + 1
        staged == EncodeBatch(r, Len(cs.view.entries))
        due == {d \in cs.pending : d.save = n}
        counted == [cs EXCEPT !.saves = n, !.pending = @ \ due]
        synced == Synced(counted, r, staged)
        at(point) == \E d \in due : d.point = point
        dies(c) == [cs |-> [c EXCEPT !.partial = staged], err |-> TRUE]
        returns(c) == [cs |-> [c EXCEPT !.served = c.view], err |-> FALSE]
    IN  IF cs.crashed THEN [cs |-> cs, err |-> TRUE]
        ELSE IF cs.armed # 0
             THEN [cs |-> Crash(cs, <<>>, cs.armed, "AfterSend", 0), err |-> TRUE]
        ELSE IF at("BeforeSync")
             THEN dies(Crash(counted, staged, n, "BeforeSync", (CHOOSE d \in due : TRUE).retain))
        ELSE IF at("AfterSync") THEN dies(Crash(synced, <<>>, n, "AfterSync", 0))
        ELSE returns([synced EXCEPT !.armed = IF at("AfterSend") THEN n ELSE 0])

\* A kill between two batches, and the one due after the messages were sent.
CrashHost(cs) == IF cs.crashed THEN cs ELSE Crash(cs, <<>>, cs.saves, "Host", 0)
CrashArmed(cs) == Crash(cs, <<>>, cs.armed, "AfterSend", 0)

Recover(cs) ==
    [cs EXCEPT !.view = cs.platter.log, !.platter.torn = FALSE, !.crashed = FALSE,
               !.served = cs.platter.log, !.partial = <<>>]
=============================================================================
