------------------------------ MODULE MCWorkload ------------------------------
(***************************************************************************)
(* Two clients and two nodes: the smallest instance in which an operation  *)
(* that was applied but timed out is retried behind operations of the      *)
(* other client that its result has to respect.                            *)
(***************************************************************************)
EXTENDS Workload

MCClient == 1..ClientCount
MCTargets == <<1, 2>>

Draw(ops) == [op : ops, key : {"k"}]
MCInputs == << <<Draw({"PUT"}), Draw({"GET"})>>, <<Draw({"GET"}), Draw({"DELETE"})>> >>
=============================================================================
