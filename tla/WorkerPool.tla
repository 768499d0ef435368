----------------------------- MODULE WorkerPool -----------------------------
(***************************************************************************)
(* `run_jobs` of crates/cli/src/main.rs: a batch of render jobs shared by  *)
(* a pool of worker threads through one atomic counter.                    *)
(*                                                                         *)
(* A worker claims the next index, renders that class, reports, and goes   *)
(* on.  A render that panics leaves the thread's renderer thread-locals    *)
(* dirty, so the worker ends itself; the supervisor (the calling thread)   *)
(* joins the workers slot by slot and puts a fresh thread in the slot of   *)
(* one that panicked while unclaimed jobs remain.                          *)
(*                                                                         *)
(* Slot s is handles[s-1] of the code; a slot holds one live thread at a   *)
(* time, so a thread's state is kept by slot.  Every load and fetch_add of *)
(* the two counters is one action.  SpawnMayFail and StderrMayFail let the *)
(* operating system refuse a thread and let `eprintln!` panic (a closed    *)
(* stderr), which happens outside the worker's catch_unwind.               *)
(***************************************************************************)
EXTENDS Integers, FiniteSets

CONSTANTS NJobs,          \* jobs.len()
          Threads,        \* JCDC_THREADS, else available_parallelism()
          SpawnMayFail,   \* can the operating system refuse a thread?
          StderrMayFail   \* can writing a diagnostic fail?

ASSUME NJobsNat == NJobs \in Nat
ASSUME ThreadsNat == Threads \in Nat
ASSUME FaultsBoolean == SpawnMayFail \in BOOLEAN /\ StderrMayFail \in BOOLEAN

Jobs == 0 .. NJobs - 1
NoJob == -1

AtLeast(a, b) == IF a < b THEN b ELSE a
AtMost(a, b) == IF a < b THEN a ELSE b

(* `.clamp(1, 64).min(n_jobs.max(1))`                                      *)
Workers == AtMost(AtMost(AtLeast(Threads, 1), 64), AtLeast(NJobs, 1))
Slots == 1 .. Workers

(* What `process_job` under `catch_unwind` comes to: Ok(1) a file was      *)
(* written, Ok(0) a nested class or a failed render or write, Err an input *)
(* that could not be read, or a panic.                                     *)
Outcomes == {"wrote", "skipped", "err", "panic"}

VARIABLES
    next,      \* the shared counter: the first unclaimed index
    written,   \* the shared count of files written
    fate,      \* fate[j]: "pending", "claimed", or the outcome of job j
    pc,        \* pc[s]: where the thread of slot s is
    job,       \* job[s]: the index it claimed
    dirty,     \* dirty[s]: its thread-locals were left by a panic
    tries,     \* initial spawns tried so far
    spawned,   \* handles.len()
    sup,       \* where the supervisor is
    cur        \* the slot it is joining

workerVars == <<next, written, fate, pc, job, dirty>>
supVars == <<tries, spawned, sup, cur>>
vars == <<workerVars, supVars>>

(* "clean" and "panicked" are the closure's false and true; "died" is a    *)
(* panic that escaped it.                                                  *)
Exits == {"clean", "panicked", "died"}
PcStates == {"none", "claim", "render", "report"} \cup Exits
SupStates == {"spawn", "take", "join", "replace", "returned", "crashed"}

TypeOK ==
    /\ next \in Nat
    /\ written \in Nat
    /\ fate \in [Jobs -> {"pending", "claimed"} \cup Outcomes]
    /\ pc \in [Slots -> PcStates]
    /\ job \in [Slots -> Jobs \cup {NoJob}]
    /\ dirty \in [Slots -> BOOLEAN]
    /\ tries \in 0 .. Workers
    /\ spawned \in 0 .. tries
    /\ sup \in SupStates
    /\ cur \in 1 .. Workers + 1

Init ==
    /\ next = 0
    /\ written = 0
    /\ fate = [j \in Jobs |-> "pending"]
    /\ pc = [s \in Slots |-> "none"]
    /\ job = [s \in Slots |-> NoJob]
    /\ dirty = [s \in Slots |-> FALSE]
    /\ tries = 0
    /\ spawned = 0
    /\ sup = "spawn"
    /\ cur = 1

-----------------------------------------------------------------------------
(* The worker threads.  When the calling thread has panicked the process   *)
(* is gone, and its threads with it.                                       *)

Running == sup # "crashed"

(* Mutant: the counter is read and used, but another worker can read it    *)
(* before it moves on (a load instead of the fetch_add).                   *)
ClaimJobNoAdd(s) ==
    /\ next < NJobs
    /\ next' \in {next, next + 1}
    /\ job' = [job EXCEPT ![s] = next]
    /\ fate' = [fate EXCEPT ![next] = "claimed"]
    /\ pc' = [pc EXCEPT ![s] = "render"]

(* `next.fetch_add(1)`, and the test of the index it returned.             *)
ClaimJob(s) ==
    /\ next < NJobs
    /\ next' = next + 1
    /\ job' = [job EXCEPT ![s] = next]
    /\ fate' = [fate EXCEPT ![next] = "claimed"]
    /\ pc' = [pc EXCEPT ![s] = "render"]

(* Mutant: the index before the last ends the thread (off by one).         *)
QueueDrainedEarly(s) ==
    /\ next + 1 >= NJobs
    /\ next' = next + 1
    /\ job' = [job EXCEPT ![s] = NoJob]
    /\ pc' = [pc EXCEPT ![s] = "clean"]
    /\ UNCHANGED fate

QueueDrained(s) ==
    /\ next >= NJobs
    /\ next' = next + 1
    /\ job' = [job EXCEPT ![s] = NoJob]
    /\ pc' = [pc EXCEPT ![s] = "clean"]
    /\ UNCHANGED fate

Claim(s) ==
    /\ Running
    /\ pc[s] = "claim"
    /\ ClaimJob(s) \/ QueueDrained(s)
    /\ UNCHANGED <<written, dirty, supVars>>

(* `process_job` inside `catch_unwind`.                                    *)
Render(s) ==
    /\ Running
    /\ pc[s] = "render"
    /\ \E o \in Outcomes :
          /\ fate' = [fate EXCEPT ![job[s]] = o]
          /\ dirty' = [dirty EXCEPT ![s] = @ \/ o = "panic"]
    /\ pc' = [pc EXCEPT ![s] = "report"]
    /\ UNCHANGED <<next, written, job, supVars>>

(* Mutant: every job without an error is counted.                          *)
CountAll(s) ==
    /\ fate[job[s]] \in {"wrote", "skipped"}
    /\ written' = written + 1
    /\ pc' = [pc EXCEPT ![s] = "claim"]

(* `Ok(Ok(n))`: written.fetch_add(n).                                      *)
Count(s) ==
    /\ fate[job[s]] \in {"wrote", "skipped"}
    /\ written' = written + (IF fate[job[s]] = "wrote" THEN 1 ELSE 0)
    /\ pc' = [pc EXCEPT ![s] = "claim"]

(* `Ok(Err(e))`: the job is reported and the thread goes on.               *)
ReportError(s) ==
    /\ fate[job[s]] = "err"
    /\ pc' = [pc EXCEPT ![s] = "claim"]
    /\ UNCHANGED written

(* Mutant: the worker goes on after a panic, as it does after an error.    *)
ReportPanicGoesOn(s) ==
    /\ fate[job[s]] = "panic"
    /\ pc' = [pc EXCEPT ![s] = "claim"]
    /\ UNCHANGED written

(* `Err(_)`: "contaminated TLS: exit for replacement".                     *)
ReportPanic(s) ==
    /\ fate[job[s]] = "panic"
    /\ pc' = [pc EXCEPT ![s] = "panicked"]
    /\ UNCHANGED written

(* The diagnostic itself panics, and nothing catches that.                 *)
ReportFails(s) ==
    /\ StderrMayFail
    /\ fate[job[s]] \in {"err", "panic"}
    /\ pc' = [pc EXCEPT ![s] = "died"]
    /\ UNCHANGED written

Report(s) ==
    /\ Running
    /\ pc[s] = "report"
    /\ Count(s) \/ ReportError(s) \/ ReportPanic(s) \/ ReportFails(s)
    /\ UNCHANGED <<next, fate, job, dirty, supVars>>

Worker(s) == Claim(s) \/ Render(s) \/ Report(s)

-----------------------------------------------------------------------------
(* The supervisor.                                                         *)

(* Mutant: the loop runs to `workers` inclusive.                           *)
SpawnOneMore ==
    /\ sup = "spawn"
    /\ tries <= Workers
    /\ tries' = tries + 1
    /\ spawned' = spawned + 1
    /\ pc' = [pc EXCEPT ![spawned + 1] = "claim"]
    /\ UNCHANGED <<sup, next, written, fate, job, dirty, cur>>

(* One turn of the initial spawn loop: a thread starts at once, or         *)
(* "cannot spawn worker" is printed (which may itself panic) and the slot  *)
(* is never made.                                                          *)
SpawnWorker ==
    /\ sup = "spawn"
    /\ tries < Workers
    /\ tries' = tries + 1
    /\ \/ /\ spawned' = spawned + 1
          /\ pc' = [pc EXCEPT ![spawned + 1] = "claim"]
          /\ UNCHANGED sup
       \/ /\ SpawnMayFail
          /\ sup' \in {sup} \cup (IF StderrMayFail THEN {"crashed"} ELSE {})
          /\ UNCHANGED <<spawned, pc>>
    /\ UNCHANGED <<next, written, fate, job, dirty, cur>>

SpawnLoopEnds ==
    /\ sup = "spawn"
    /\ tries = Workers
    /\ sup' = "take"
    /\ UNCHANGED <<workerVars, tries, spawned, cur>>

(* `mem::replace(&mut handles[i], thread::spawn(|| false))`: the handle is *)
(* taken, a thread that only returns is left in its place; `thread::spawn` *)
(* panics when it cannot get one.                                          *)
TakeHandle ==
    /\ sup = "take"
    /\ cur <= spawned
    /\ \/ sup' = "join"
       \/ SpawnMayFail /\ sup' = "crashed"
    /\ UNCHANGED <<workerVars, tries, spawned, cur>>

(* `h.join()` returns, and the match on what the thread returned.  For a   *)
(* thread that died "worker thread failed" is printed, which may panic.    *)
NextSlot == sup' = "take" /\ cur' = cur + 1

(* Mutant: a panicked worker is never replaced.                            *)
JoinNeverReplaces ==
    /\ sup = "join"
    /\ pc[cur] \in Exits
    /\ NextSlot
    /\ UNCHANGED <<workerVars, tries, spawned>>

(* Mutant: a panicked worker is replaced even when nothing is left, and    *)
(* the join of the slot is retried for ever.                               *)
JoinWaitsForQueue ==
    /\ sup = "join"
    /\ pc[cur] \in Exits
    /\ IF pc[cur] = "panicked"
       THEN IF next < NJobs THEN sup' = "replace" /\ UNCHANGED cur
                            ELSE UNCHANGED <<sup, cur>>
       ELSE NextSlot
    /\ UNCHANGED <<workerVars, tries, spawned>>

Join ==
    /\ sup = "join"
    /\ pc[cur] \in Exits
    /\ IF pc[cur] = "panicked" /\ next < NJobs
       THEN sup' = "replace" /\ UNCHANGED cur
       ELSE \/ NextSlot
            \/ /\ pc[cur] = "died"
               /\ sup' = "crashed" /\ UNCHANGED cur
    /\ UNCHANGED <<workerVars, tries, spawned>>

(* Mutant: the replacement is not joined (no `continue`).                  *)
ReplaceNotJoined ==
    /\ sup = "replace"
    /\ pc' = [pc EXCEPT ![cur] = "claim"]
    /\ job' = [job EXCEPT ![cur] = NoJob]
    /\ dirty' = [dirty EXCEPT ![cur] = FALSE]
    /\ cur' = cur + 1
    /\ sup' = "take"
    /\ UNCHANGED <<next, written, fate, tries, spawned>>

(* A fresh thread takes the slot, which is joined again; when it cannot be *)
(* spawned the slot is given up without a word.                            *)
Replace ==
    /\ sup = "replace"
    /\ \/ /\ pc' = [pc EXCEPT ![cur] = "claim"]
          /\ job' = [job EXCEPT ![cur] = NoJob]
          /\ dirty' = [dirty EXCEPT ![cur] = FALSE]
          /\ UNCHANGED cur
       \/ /\ SpawnMayFail
          /\ cur' = cur + 1
          /\ UNCHANGED <<pc, job, dirty>>
    /\ sup' = "take"
    /\ UNCHANGED <<next, written, fate, tries, spawned>>

(* `while i < handles.len()` is over: the count is read and returned.      *)
Return ==
    /\ sup = "take"
    /\ cur > spawned
    /\ sup' = "returned"
    /\ UNCHANGED <<workerVars, tries, spawned, cur>>

Supervisor == SpawnWorker \/ SpawnLoopEnds \/ TakeHandle \/ Join \/ Replace \/ Return

(* The call is over: the program goes on with the next input, or ends.     *)
CallIsOver == sup \in {"returned", "crashed"}

Over ==
    /\ CallIsOver
    /\ UNCHANGED vars

Next == Supervisor \/ Over \/ \E s \in Slots : Worker(s)

(* Every thread the operating system started is scheduled, and a render    *)
(* ends: `process_job` has no wait of its own.                             *)
Fairness == WF_vars(Supervisor) /\ \A s \in Slots : WF_vars(Worker(s))

Spec == Init /\ [][Next]_vars /\ Fairness

-----------------------------------------------------------------------------
(* Properties.                                                             *)

(* "a contaminated thread must never render another class": no worker is   *)
(* inside process_job on a thread whose thread-locals a panic left behind, *)
(* however panics, replacements and claims interleave.                     *)
NoContaminatedRender ==
    \A s \in Slots : pc[s] = "render" => ~dirty[s]

FatesOnlyAdvance ==
    \A j \in Jobs : /\ fate[j] = "claimed" => fate'[j] # "pending"
                    /\ fate[j] \in Outcomes => fate'[j] = fate[j]

(* A job is attempted once: no index is claimed by two threads, and the    *)
(* outcome of an attempt is never replaced by that of another.             *)
AttemptedOnce == [][FatesOnlyAdvance]_vars

Wrote == {j \in Jobs : fate[j] = "wrote"}
Reporting == {s \in Slots : pc[s] = "report" /\ fate[job[s]] = "wrote"}

(* The count of written files is exact at every moment: it lags the files  *)
(* by the threads that have written one and not yet added it.              *)
WrittenIsExact ==
    written + Cardinality(Reporting) = Cardinality(Wrote)

(* When the call returns no thread of its own is left that could still     *)
(* write a file: the caller prints "wrote N file(s)" after the last write. *)
NothingRunsAfterReturn ==
    sup = "returned" => \A s \in Slots : pc[s] \in Exits \cup {"none"}

(* "replace panicked ones while work remains": when the call returns every *)
(* job has been attempted, whatever panicked.                              *)
ReturnIsComplete ==
    sup = "returned" => \A j \in Jobs : fate[j] \in Outcomes

(* Even when threads cannot be spawned or die in a diagnostic, jobs are    *)
(* lost only if no thread of the batch survived: one clean exit means that *)
(* the whole queue was claimed, and what is claimed is attempted.          *)
LostOnlyIfNoThreadSurvived ==
    (sup = "returned" /\ \E j \in Jobs : fate[j] \notin Outcomes)
        => \A s \in Slots : pc[s] # "clean"

(* The call ends: no join waits for a thread that never exits, and no slot *)
(* is replaced for ever.                                                   *)
CallEnds == <>CallIsOver

(* A job counts as attempted from the moment its report is over.           *)
Attempted ==
    {j \in Jobs : /\ fate[j] \in Outcomes
                  /\ \A s \in Slots : ~(pc[s] = "report" /\ job[s] = j)}

Attempts ==
    INSTANCE Batch WITH
        attempted <- Attempted, total <- written, returned <- sup = "returned"

(* What the caller is promised: every job attempted once, the files        *)
(* counted, and only then the return (refinement of Batch).                *)
RefinesBatch == Attempts!BatchSpec
=============================================================================
