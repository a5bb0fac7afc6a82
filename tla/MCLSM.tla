-------------------------------- MODULE MCLSM --------------------------------
(***************************************************************************)
(* An instance of LSM: two keys whose filter bits overlap, and logs in     *)
(* which keys are overwritten, deleted and read, with a retried command.   *)
(***************************************************************************)
EXTENDS LSM

Put(c, s, k, v) == [op |-> "PUT", client |-> c, seq |-> s, key |-> k, value |-> v]
Del(c, s, k) == [op |-> "DELETE", client |-> c, seq |-> s, key |-> k]
Read(c, s, k) == [op |-> "GET", client |-> c, seq |-> s, key |-> k]
Noop == [op |-> "NOOP"]

MCKey == {1, 2}
MCProbes == (1 :> {1, 2}) @@ (2 :> {2})

MCLogs ==
    {<<Put(1, 1, 1, "a"), Del(1, 2, 2), Read(2, 1, 1), Put(1, 3, 1, "b"), Put(2, 2, 2, "c")>>,
     <<Noop, Put(1, 1, 1, "a"), Put(1, 1, 1, "a"), Put(2, 1, 2, "b"), Read(1, 2, 1)>>}
=============================================================================
