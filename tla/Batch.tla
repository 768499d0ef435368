------------------------------- MODULE Batch -------------------------------
(***************************************************************************)
(* What `run_jobs` (crates/cli/src/main.rs) promises its caller: every job *)
(* of the batch is attempted exactly once, in any order, and the call      *)
(* returns the number of jobs that wrote a source file.  How many threads  *)
(* do it, and how they are replaced, is left to the implementation.        *)
(***************************************************************************)
EXTENDS Naturals

CONSTANT NJobs      \* jobs.len()

VARIABLES attempted,  \* the jobs whose attempt is over and counted
          total,      \* files written so far, the value returned at the end
          returned    \* whether the call has returned

batchVars == <<attempted, total, returned>>

BatchJobs == 0 .. NJobs - 1

BatchInit ==
    /\ attempted = {}
    /\ total = 0
    /\ returned = FALSE

(* One job is attempted: it wrote a file, or (nested class, error, panic)  *)
(* it did not.                                                             *)
Attempt(j) ==
    /\ ~returned
    /\ j \notin attempted
    /\ attempted' = attempted \cup {j}
    /\ \E n \in {0, 1} : total' = total + n
    /\ UNCHANGED returned

(* The call returns, and only when nothing is left to attempt.             *)
Return ==
    /\ ~returned
    /\ attempted = BatchJobs
    /\ returned' = TRUE
    /\ UNCHANGED <<attempted, total>>

BatchNext == Return \/ \E j \in BatchJobs : Attempt(j)

BatchSpec == BatchInit /\ [][BatchNext]_batchVars /\ WF_batchVars(BatchNext)
=============================================================================
