---------------------------- MODULE MCWorkerPool ----------------------------
(* Small instances of WorkerPool: the constants are given in the cfg files. *)
EXTENDS WorkerPool
=============================================================================
