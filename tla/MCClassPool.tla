----------------------------- MODULE MCClassPool -----------------------------
(* Small instances of ClassPool; the threads are model values.             *)
EXTENDS ClassPool
CONSTANTS t1, t2
=============================================================================
