---------------------------- MODULE MCBatchPool ----------------------------
(* Batches from empty to larger than the pool.                             *)
EXTENDS BatchPool
=============================================================================
