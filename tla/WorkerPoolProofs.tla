--------------------------- MODULE WorkerPoolProofs ---------------------------
(***************************************************************************)
(* What the worker pool of `run_jobs` guarantees for every number of jobs  *)
(* and of threads.                                                         *)
(*                                                                         *)
(* The invariant PoolInv says who owns which job.  The counter separates   *)
(* the indices that were claimed from the pending ones; a claimed job has  *)
(* exactly one thread, that of the slot that is rendering or reporting it; *)
(* thread-locals are dirty only while that thread reports the panic and    *)
(* after it has ended.  The supervisor part says which slots are joined.   *)
(* At the end: what of the call's liveness needs no fairness, that every   *)
(* step uses up one of a fixed number and that there is one to take.       *)
(***************************************************************************)
EXTENDS WorkerPool, FiniteSetTheorems, TLAPS

Busy(s) == pc[s] \in {"render", "report"}

(* A thread inside process_job, or reporting its outcome, has a job.       *)
BusyHasJob == \A s \in Slots : Busy(s) => job[s] \in Jobs

(* ... and no other thread has it.                                         *)
OneThreadPerJob ==
    \A s, t \in Slots : s # t /\ Busy(s) /\ Busy(t) => job[s] # job[t]

(* The counter separates claimed jobs from pending ones.                   *)
CounterSplits == \A j \in Jobs : fate[j] = "pending" <=> next <= j

(* A job is "claimed" just while its thread renders it.                    *)
RenderingIsClaimed ==
    /\ \A s \in Slots : pc[s] = "render" => fate[job[s]] = "claimed"
    /\ \A s \in Slots : pc[s] = "report" => fate[job[s]] \in Outcomes
    /\ \A j \in Jobs : fate[j] = "claimed" =>
           \E s \in Slots : pc[s] = "render" /\ job[s] = j

(* Thread-locals are dirty after a panic and until the thread is replaced. *)
DirtyIsEnding ==
    \A s \in Slots : dirty[s] =>
        \/ pc[s] \in {"panicked", "died"}
        \/ pc[s] = "report" /\ fate[job[s]] = "panic"

(* A clean exit means that the queue was drained.                          *)
CleanMeansDrained == \A s \in Slots : pc[s] = "clean" => next >= NJobs

(* Slots that were not spawned are empty, those before the one being       *)
(* joined have exited, and a slot is refilled only after a panic.          *)
SlotsJoined ==
    /\ \A s \in Slots : s > spawned => pc[s] = "none" /\ ~dirty[s]
    /\ \A s \in Slots : s < cur /\ s <= spawned => pc[s] \in Exits
    /\ sup = "spawn" => cur = 1
    /\ sup = "take" => cur <= spawned + 1
    /\ sup \in {"join", "replace"} => cur <= spawned
    /\ sup = "replace" => pc[cur] = "panicked"
    /\ sup = "returned" => cur > spawned

PoolInv ==
    /\ TypeOK
    /\ BusyHasJob
    /\ OneThreadPerJob
    /\ CounterSplits
    /\ RenderingIsClaimed
    /\ DirtyIsEnding
    /\ CleanMeansDrained
    /\ SlotsJoined

-----------------------------------------------------------------------------
LEMMA WorkersPositive == Workers \in Nat \ {0} /\ Slots \subseteq Nat
BY NJobsNat, ThreadsNat DEF Workers, Slots, AtLeast, AtMost

LEMMA PoolInit == Init => PoolInv
<1> SUFFICES ASSUME Init PROVE PoolInv
  OBVIOUS
<1> USE WorkersPositive, NJobsNat DEF Init
<1>1. TypeOK
  BY DEF TypeOK, Jobs, Slots, NoJob, PcStates, Exits, SupStates, Outcomes
<1>2. BusyHasJob /\ OneThreadPerJob
  BY DEF BusyHasJob, OneThreadPerJob, Busy
<1>3. CounterSplits
  BY DEF CounterSplits, Jobs
<1>4. RenderingIsClaimed
  BY DEF RenderingIsClaimed, Outcomes
<1>5. DirtyIsEnding /\ CleanMeansDrained
  BY DEF DirtyIsEnding, CleanMeansDrained
<1>6. SlotsJoined
  BY DEF SlotsJoined, Slots
<1> QED
  BY <1>1, <1>2, <1>3, <1>4, <1>5, <1>6 DEF PoolInv

(* A worker claims a job. *)
LEMMA ClaimJobInv ==
  ASSUME PoolInv, NEW s \in Slots, Claim(s), ClaimJob(s)
  PROVE  PoolInv'
<1> USE WorkersPositive, NJobsNat DEF PoolInv, TypeOK, Claim, ClaimJob, supVars
<1>1. TypeOK'
  BY DEF Jobs, NoJob, PcStates, Exits, SupStates, Outcomes, Slots
<1>2. BusyHasJob'
  BY DEF BusyHasJob, Busy, Jobs
<1>3. OneThreadPerJob'
  BY DEF OneThreadPerJob, BusyHasJob, Busy, CounterSplits, RenderingIsClaimed, Jobs, Outcomes
<1>4. CounterSplits'
  BY DEF CounterSplits, RenderingIsClaimed, BusyHasJob, Busy, Jobs, Outcomes
<1>5. RenderingIsClaimed'
  BY DEF RenderingIsClaimed, BusyHasJob, OneThreadPerJob, Busy, CounterSplits, Jobs, Outcomes
<1>6. DirtyIsEnding'
  BY DEF DirtyIsEnding, RenderingIsClaimed, OneThreadPerJob, BusyHasJob, Busy, CounterSplits, Jobs, Outcomes
<1>7. CleanMeansDrained'
  BY DEF CleanMeansDrained
<1>8. SlotsJoined'
  BY DEF SlotsJoined, Slots, Exits, BusyHasJob, Busy
<1> QED
  BY <1>1, <1>2, <1>3, <1>4, <1>5, <1>6, <1>7, <1>8

(* A worker finds the queue drained. *)
LEMMA DrainedInv ==
  ASSUME PoolInv, NEW s \in Slots, Claim(s), QueueDrained(s)
  PROVE  PoolInv'
<1> USE WorkersPositive, NJobsNat DEF PoolInv, TypeOK, Claim, QueueDrained, supVars
<1>1. TypeOK'
  BY DEF Jobs, NoJob, PcStates, Exits, SupStates, Outcomes, Slots
<1>2. BusyHasJob'
  BY DEF BusyHasJob, Busy, Jobs
<1>3. OneThreadPerJob'
  BY DEF OneThreadPerJob, BusyHasJob, Busy, CounterSplits, RenderingIsClaimed, Jobs, Outcomes
<1>4. CounterSplits'
  BY DEF CounterSplits, RenderingIsClaimed, BusyHasJob, Busy, Jobs, Outcomes
<1>5. RenderingIsClaimed'
  BY DEF RenderingIsClaimed, BusyHasJob, OneThreadPerJob, Busy, CounterSplits, Jobs, Outcomes
<1>6. DirtyIsEnding'
  BY DEF DirtyIsEnding, RenderingIsClaimed, OneThreadPerJob, BusyHasJob, Busy, CounterSplits, Jobs, Outcomes
<1>7. CleanMeansDrained'
  BY DEF CleanMeansDrained
<1>8. SlotsJoined'
  BY DEF SlotsJoined, Slots, Exits, BusyHasJob, Busy
<1> QED
  BY <1>1, <1>2, <1>3, <1>4, <1>5, <1>6, <1>7, <1>8

(* A worker renders its job. *)
LEMMA RenderInv ==
  ASSUME PoolInv, NEW s \in Slots, Render(s)
  PROVE  PoolInv'
<1> USE WorkersPositive, NJobsNat DEF PoolInv, TypeOK, Render, supVars
<1>1. TypeOK'
  BY DEF Jobs, NoJob, PcStates, Exits, SupStates, Outcomes, Slots
<1>2. BusyHasJob'
  BY DEF BusyHasJob, Busy, Jobs
<1>3. OneThreadPerJob'
  BY DEF OneThreadPerJob, BusyHasJob, Busy, CounterSplits, RenderingIsClaimed, Jobs, Outcomes
<1>4. CounterSplits'
  BY DEF CounterSplits, RenderingIsClaimed, BusyHasJob, Busy, Jobs, Outcomes
<1>5. RenderingIsClaimed'
  BY DEF RenderingIsClaimed, BusyHasJob, OneThreadPerJob, Busy, CounterSplits, Jobs, Outcomes
<1>6. DirtyIsEnding'
  BY DEF DirtyIsEnding, RenderingIsClaimed, OneThreadPerJob, BusyHasJob, Busy, CounterSplits, Jobs, Outcomes
<1>7. CleanMeansDrained'
  BY DEF CleanMeansDrained
<1>8. SlotsJoined'
  BY DEF SlotsJoined, Slots, Exits, BusyHasJob, Busy
<1> QED
  BY <1>1, <1>2, <1>3, <1>4, <1>5, <1>6, <1>7, <1>8

(* A worker reports the outcome. *)
LEMMA ReportInv ==
  ASSUME PoolInv, NEW s \in Slots, Report(s)
  PROVE  PoolInv'
<1> USE WorkersPositive, NJobsNat DEF PoolInv, TypeOK, Report, Count, ReportError, ReportPanic, ReportFails, supVars
<1>1. TypeOK'
  BY DEF Jobs, NoJob, PcStates, Exits, SupStates, Outcomes, Slots
<1>2. BusyHasJob'
  BY DEF BusyHasJob, Busy, Jobs
<1>3. OneThreadPerJob'
  BY DEF OneThreadPerJob, BusyHasJob, Busy, CounterSplits, RenderingIsClaimed, Jobs, Outcomes
<1>4. CounterSplits'
  BY DEF CounterSplits, RenderingIsClaimed, BusyHasJob, Busy, Jobs, Outcomes
<1>5. RenderingIsClaimed'
  BY DEF RenderingIsClaimed, BusyHasJob, OneThreadPerJob, Busy, CounterSplits, Jobs, Outcomes
<1>6. DirtyIsEnding'
  BY DEF DirtyIsEnding, RenderingIsClaimed, OneThreadPerJob, BusyHasJob, Busy, CounterSplits, Jobs, Outcomes
<1>7. CleanMeansDrained'
  BY DEF CleanMeansDrained
<1>8. SlotsJoined'
  BY DEF SlotsJoined, Slots, Exits, BusyHasJob, Busy
<1> QED
  BY <1>1, <1>2, <1>3, <1>4, <1>5, <1>6, <1>7, <1>8

(* The supervisor spawns a worker. *)
LEMMA SpawnInv ==
  ASSUME PoolInv, SpawnWorker
  PROVE  PoolInv'
<1> USE WorkersPositive, NJobsNat DEF PoolInv, TypeOK, SpawnWorker
<1>1. TypeOK'
  BY DEF Jobs, NoJob, PcStates, Exits, SupStates, Outcomes, Slots
<1>2. BusyHasJob'
  BY DEF BusyHasJob, Busy, Jobs
<1>3. OneThreadPerJob'
  BY DEF OneThreadPerJob, BusyHasJob, Busy, CounterSplits, RenderingIsClaimed, Jobs, Outcomes
<1>4. CounterSplits'
  BY DEF CounterSplits, RenderingIsClaimed, BusyHasJob, Busy, Jobs, Outcomes
<1>5. RenderingIsClaimed'
  BY DEF RenderingIsClaimed, BusyHasJob, OneThreadPerJob, Busy, CounterSplits, Jobs, Outcomes, SlotsJoined, Slots
<1>6. DirtyIsEnding'
  BY DEF DirtyIsEnding, RenderingIsClaimed, OneThreadPerJob, BusyHasJob, Busy, CounterSplits, Jobs, Outcomes, SlotsJoined, Slots
<1>7. CleanMeansDrained'
  BY DEF CleanMeansDrained
<1>8. SlotsJoined'
  BY DEF SlotsJoined, Slots, Exits, BusyHasJob, Busy
<1> QED
  BY <1>1, <1>2, <1>3, <1>4, <1>5, <1>6, <1>7, <1>8

(* The supervisor replaces a worker that panicked. *)
LEMMA ReplaceInv ==
  ASSUME PoolInv, Replace
  PROVE  PoolInv'
<1> USE WorkersPositive, NJobsNat DEF PoolInv, TypeOK, Replace
<1>a. cur \in Slots /\ cur <= spawned /\ pc[cur] = "panicked"
  BY DEF SlotsJoined, Slots
<1>b. cur + 1 \in 1 .. Workers + 1
  BY <1>a DEF Slots
<1>1. TypeOK'
  BY <1>a, <1>b DEF PcStates, SupStates
<1>2. BusyHasJob'
  BY DEF BusyHasJob, Busy, Jobs
<1>3. OneThreadPerJob'
  BY DEF OneThreadPerJob, Busy
<1>4. CounterSplits'
  BY DEF CounterSplits
<1>5. RenderingIsClaimed'
  BY <1>a DEF RenderingIsClaimed
<1>6. DirtyIsEnding'
  BY DEF DirtyIsEnding
<1>7. CleanMeansDrained'
  BY DEF CleanMeansDrained
<1>8. SlotsJoined'
  BY DEF SlotsJoined, Slots, Exits, BusyHasJob, Busy
<1> QED
  BY <1>1, <1>2, <1>3, <1>4, <1>5, <1>6, <1>7, <1>8

(* The supervisor joins a worker. *)
LEMMA JoinInv ==
  ASSUME PoolInv, Join
  PROVE  PoolInv'
<1> USE WorkersPositive, NJobsNat DEF PoolInv, TypeOK, Join, NextSlot, workerVars
<1>1. TypeOK'
  BY DEF Jobs, NoJob, PcStates, Exits, SupStates, Outcomes, Slots, SlotsJoined
<1>2. BusyHasJob'
  BY DEF BusyHasJob, Busy, Jobs
<1>3. OneThreadPerJob'
  BY DEF OneThreadPerJob, BusyHasJob, Busy, CounterSplits, RenderingIsClaimed, Jobs, Outcomes
<1>4. CounterSplits'
  BY DEF CounterSplits, RenderingIsClaimed, BusyHasJob, Busy, Jobs, Outcomes
<1>5. RenderingIsClaimed'
  BY DEF RenderingIsClaimed, BusyHasJob, OneThreadPerJob, Busy, CounterSplits, Jobs, Outcomes
<1>6. DirtyIsEnding'
  BY DEF DirtyIsEnding, RenderingIsClaimed, OneThreadPerJob, BusyHasJob, Busy, CounterSplits, Jobs, Outcomes
<1>7. CleanMeansDrained'
  BY DEF CleanMeansDrained
<1>8. SlotsJoined'
  BY DEF SlotsJoined, Slots, Exits, BusyHasJob, Busy
<1> QED
  BY <1>1, <1>2, <1>3, <1>4, <1>5, <1>6, <1>7, <1>8

(* The supervisor's steps that touch neither a worker nor the join.       *)
LEMMA SupervisorInv ==
  ASSUME PoolInv, SpawnLoopEnds \/ TakeHandle \/ Return
  PROVE  PoolInv'
<1> USE WorkersPositive, NJobsNat
        DEF PoolInv, TypeOK, SpawnLoopEnds, TakeHandle, Return, workerVars
<1>1. TypeOK'
  BY DEF SupStates
<1>2. BusyHasJob' /\ OneThreadPerJob' /\ CounterSplits' /\ RenderingIsClaimed'
  BY DEF BusyHasJob, OneThreadPerJob, CounterSplits, RenderingIsClaimed, Busy
<1>3. DirtyIsEnding' /\ CleanMeansDrained'
  BY DEF DirtyIsEnding, CleanMeansDrained
<1>4. SlotsJoined'
  BY DEF SlotsJoined
<1> QED
  BY <1>1, <1>2, <1>3, <1>4

LEMMA StutterInv ==
  ASSUME PoolInv, UNCHANGED vars
  PROVE  PoolInv'
BY DEF PoolInv, TypeOK, BusyHasJob, OneThreadPerJob, CounterSplits, RenderingIsClaimed,
       DirtyIsEnding, CleanMeansDrained, SlotsJoined, Busy, vars, workerVars, supVars

LEMMA PoolNext == PoolInv /\ [Next]_vars => PoolInv'
<1> SUFFICES ASSUME PoolInv, [Next]_vars PROVE PoolInv'
  OBVIOUS
<1>1. CASE UNCHANGED vars
  BY <1>1, StutterInv
<1>2. CASE Over
  BY <1>2, StutterInv DEF Over
<1>3. CASE Supervisor
  BY <1>3, SpawnInv, SupervisorInv, JoinInv, ReplaceInv DEF Supervisor
<1>4. ASSUME NEW s \in Slots, Worker(s) PROVE PoolInv'
  <2>1. CASE Claim(s)
    BY <2>1, ClaimJobInv, DrainedInv DEF Claim
  <2>2. CASE Render(s)
    BY <2>2, RenderInv
  <2>3. CASE Report(s)
    BY <2>3, ReportInv
  <2> QED
    BY <1>4, <2>1, <2>2, <2>3 DEF Worker
<1> QED
  BY <1>1, <1>2, <1>3, <1>4 DEF Next

(* The invariant holds in every behaviour of the pool.                     *)
THEOREM PoolInvariant == Spec => []PoolInv
BY PoolInit, PoolNext, PTL DEF Spec

-----------------------------------------------------------------------------
(* Type correctness, for every number of jobs and threads.                 *)
THEOREM TypeCorrect == Spec => []TypeOK
BY PoolInvariant, PTL DEF PoolInv

(* "a contaminated thread must never render another class": no thread      *)
(* whose thread-locals a panic left behind is ever inside process_job.     *)
THEOREM NeverContaminated == Spec => []NoContaminatedRender
<1>1. PoolInv => NoContaminatedRender
  BY DEF PoolInv, DirtyIsEnding, NoContaminatedRender
<1> QED
  BY <1>1, PoolInvariant, PTL

(* No job is attempted twice: in each step a claimed job stays claimed or  *)
(* gets its outcome, and an outcome is final.                              *)
THEOREM EachJobOnce == Spec => AttemptedOnce
<1>1. PoolInv /\ [Next]_vars => [FatesOnlyAdvance]_vars
  <2> SUFFICES ASSUME PoolInv, Next PROVE FatesOnlyAdvance
    OBVIOUS
  <2> USE DEF PoolInv, TypeOK, Outcomes, FatesOnlyAdvance
  <2>1. CASE UNCHANGED fate
    BY <2>1
  <2>2. ASSUME NEW s \in Slots, Claim(s), ClaimJob(s) PROVE FatesOnlyAdvance
    BY <2>2, NJobsNat DEF ClaimJob, CounterSplits, Jobs
  <2>3. ASSUME NEW s \in Slots, Render(s) PROVE FatesOnlyAdvance
    BY <2>3 DEF Render, RenderingIsClaimed, BusyHasJob, Busy
  <2>4. CASE Supervisor \/ Over
    BY <2>1, <2>4 DEF Supervisor, Over, SpawnWorker, SpawnLoopEnds, TakeHandle, Join,
                      Replace, Return, vars, workerVars
  <2>5. ASSUME NEW s \in Slots, Worker(s) PROVE FatesOnlyAdvance
    BY <2>1, <2>2, <2>3, <2>5 DEF Worker, Claim, QueueDrained, Report
  <2> QED
    BY <2>4, <2>5 DEF Next
<1> QED
  BY <1>1, PoolInvariant, PTL DEF Spec, AttemptedOnce

(* When the call returns every thread it spawned was joined, so nothing is *)
(* written after the count is reported.                                    *)
THEOREM NothingOutlivesTheCall == Spec => []NothingRunsAfterReturn
<1>1. PoolInv => NothingRunsAfterReturn
  BY WorkersPositive DEF PoolInv, TypeOK, SlotsJoined, NothingRunsAfterReturn, Slots
<1> QED
  BY <1>1, PoolInvariant, PTL

(* Whatever threads and diagnostics fail, one worker that ended normally   *)
(* is enough for every job to have been attempted.                         *)
THEOREM OneSurvivorIsEnough == Spec => []LostOnlyIfNoThreadSurvived
<1>1. PoolInv => LostOnlyIfNoThreadSurvived
  <2> SUFFICES ASSUME PoolInv, sup = "returned",
                      NEW j \in Jobs, fate[j] \notin Outcomes,
                      NEW s \in Slots, pc[s] = "clean"
               PROVE  FALSE
    BY DEF LostOnlyIfNoThreadSurvived
  <2>1. NothingRunsAfterReturn
    BY WorkersPositive DEF PoolInv, TypeOK, SlotsJoined, NothingRunsAfterReturn, Slots
  <2>2. fate[j] # "claimed"
    BY <2>1 DEF PoolInv, RenderingIsClaimed, NothingRunsAfterReturn, Exits
  <2>3. fate[j] = "pending"
    BY <2>2 DEF PoolInv, TypeOK
  <2> QED
    BY <2>3, NJobsNat DEF PoolInv, TypeOK, CounterSplits, CleanMeansDrained, Jobs
<1> QED
  BY <1>1, PoolInvariant, PTL

-----------------------------------------------------------------------------
(* Where threads are granted and diagnostics can be printed.               *)

Faultless == ~SpawnMayFail /\ ~StderrMayFail

(* Every slot has a thread, and a slot is only left behind when the queue  *)
(* is drained: a worker that panics earlier is replaced and joined again.  *)
JoinedMeansDrained ==
    /\ spawned = tries
    /\ sup # "spawn" => tries = Workers
    /\ \A s \in Slots : pc[s] # "died"
    /\ cur > 1 => next >= NJobs

LEMMA DrainedInvariant ==
  ASSUME Faultless
  PROVE  Spec => []JoinedMeansDrained
<1> USE WorkersPositive, NJobsNat DEF Faultless
<1>1. Init => JoinedMeansDrained
  BY DEF Init, JoinedMeansDrained
<1>2. ASSUME PoolInv, JoinedMeansDrained, [Next]_vars
      PROVE  JoinedMeansDrained'
  <2> USE <1>2 DEF PoolInv, TypeOK, JoinedMeansDrained
  <2>1. CASE UNCHANGED vars
    BY <2>1 DEF vars, workerVars, supVars
  <2>2. CASE SpawnWorker
    BY <2>2 DEF SpawnWorker, SlotsJoined
  <2>3. CASE SpawnLoopEnds \/ TakeHandle \/ Return
    BY <2>3 DEF SpawnLoopEnds, TakeHandle, Return, workerVars
  <2>4. CASE Join
    BY <2>4 DEF Join, NextSlot, workerVars, Exits, SlotsJoined, CleanMeansDrained, Slots
  <2>5. CASE Replace
    BY <2>5 DEF Replace, SlotsJoined
  <2>6. ASSUME NEW s \in Slots, Worker(s) PROVE JoinedMeansDrained'
    BY <2>6 DEF Worker, Claim, ClaimJob, QueueDrained, Render, Report, Count,
                ReportError, ReportPanic, ReportFails, supVars
  <2> QED
    BY <1>2, <2>1, <2>2, <2>3, <2>4, <2>5, <2>6 DEF Next, Supervisor, Over
<1> QED
  BY <1>1, <1>2, PoolInvariant, PTL DEF Spec

(* When the last slot was joined nothing is pending or in progress.        *)
LEMMA ReturningMeansAttempted ==
  ASSUME PoolInv, JoinedMeansDrained, sup # "spawn", cur > spawned
  PROVE  (\A j \in Jobs : fate[j] \in Outcomes) /\ Attempted = Jobs
<1> USE DEF PoolInv, TypeOK
<1>1. next >= NJobs
  BY WorkersPositive DEF JoinedMeansDrained
<1>2. \A s \in Slots : pc[s] \in Exits \cup {"none"}
  BY WorkersPositive DEF SlotsJoined, Slots
<1>3. \A j \in Jobs : fate[j] # "pending"
  BY <1>1, NJobsNat DEF CounterSplits, Jobs
<1>4. \A j \in Jobs : fate[j] # "claimed"
  BY <1>2 DEF RenderingIsClaimed, Exits
<1>5. \A j \in Jobs : fate[j] \in Outcomes
  BY <1>3, <1>4
<1> QED
  BY <1>2, <1>5 DEF Attempted, Exits

(* "replace panicked ones while work remains": every job has been          *)
(* attempted when the call returns, however many renders panicked.         *)
THEOREM EveryJobAttempted ==
  ASSUME Faultless
  PROVE  Spec => []ReturnIsComplete
<1>1. PoolInv /\ JoinedMeansDrained => ReturnIsComplete
  BY ReturningMeansAttempted DEF PoolInv, SlotsJoined, ReturnIsComplete
<1> QED
  BY <1>1, PoolInvariant, DrainedInvariant, PTL

-----------------------------------------------------------------------------
(* The counting of files.                                                  *)

LEMMA FiniteCounts ==
  ASSUME PoolInv
  PROVE  /\ IsFiniteSet(Wrote) /\ Cardinality(Wrote) \in Nat
         /\ IsFiniteSet(Reporting) /\ Cardinality(Reporting) \in Nat
<1>1. IsFiniteSet(Jobs)
  BY NJobsNat, FS_Interval DEF Jobs
<1>2. IsFiniteSet(Slots)
  BY WorkersPositive, FS_Interval DEF Slots
<1>3. Wrote \in SUBSET Jobs /\ Reporting \in SUBSET Slots
  BY DEF Wrote, Reporting
<1> QED
  BY <1>1, <1>2, <1>3, FS_Subset, FS_CardinalityType

(* A render that writes its file puts one job and one thread more into the *)
(* balance; any other outcome puts none.                                   *)
LEMMA RenderKeepsCount ==
  ASSUME PoolInv, WrittenIsExact, NEW s \in Slots, Render(s)
  PROVE  WrittenIsExact'
<1>0. /\ IsFiniteSet(Wrote) /\ Cardinality(Wrote) \in Nat
      /\ IsFiniteSet(Reporting) /\ Cardinality(Reporting) \in Nat
  BY FiniteCounts
<1> USE DEF PoolInv, TypeOK, Render
<1>1. job[s] \in Jobs /\ fate[job[s]] = "claimed"
  BY DEF BusyHasJob, Busy, RenderingIsClaimed
<1>2. \A t \in Slots : t # s /\ pc[t] = "report" => job[t] # job[s]
  BY DEF OneThreadPerJob, Busy
<1>3. CASE fate'[job[s]] = "wrote"
  <2>1. Wrote' = Wrote \cup {job[s]} /\ job[s] \notin Wrote
    BY <1>1, <1>3 DEF Wrote
  <2>2. Reporting' = Reporting \cup {s} /\ s \notin Reporting
    BY <1>1, <1>2, <1>3 DEF Reporting
  <2>3. /\ Cardinality(Wrote') = Cardinality(Wrote) + 1
        /\ Cardinality(Reporting') = Cardinality(Reporting) + 1
    BY <1>0, <2>1, <2>2, FS_AddElement
  <2> QED
    BY <1>0, <2>3 DEF WrittenIsExact
<1>4. CASE fate'[job[s]] # "wrote"
  <2>1. Wrote' = Wrote
    BY <1>1, <1>4 DEF Wrote
  <2>2. Reporting' = Reporting
    BY <1>1, <1>2, <1>4 DEF Reporting
  <2> QED
    BY <2>1, <2>2 DEF WrittenIsExact
<1> QED
  BY <1>3, <1>4

(* A report takes the thread out, and counts its file.                     *)
LEMMA ReportKeepsCount ==
  ASSUME PoolInv, WrittenIsExact, NEW s \in Slots, Report(s)
  PROVE  WrittenIsExact'
<1>0. IsFiniteSet(Reporting) /\ Cardinality(Reporting) \in Nat
  BY FiniteCounts
<1> USE DEF PoolInv, TypeOK, Report
<1>1. Wrote' = Wrote
  BY DEF Wrote
<1>2. CASE Count(s) /\ fate[job[s]] = "wrote"
  <2>1. Reporting' = Reporting \ {s} /\ s \in Reporting
    BY <1>2 DEF Reporting, Count
  <2>2. written' = written + 1
    BY <1>2 DEF Count
  <2>3. Cardinality(Reporting') = Cardinality(Reporting) - 1
    BY <1>0, <2>1, FS_RemoveElement
  <2>4. Cardinality(Wrote') = Cardinality(Wrote)
    BY <1>1
  <2> QED
    BY <1>0, <2>2, <2>3, <2>4 DEF WrittenIsExact
<1>3. CASE ~(Count(s) /\ fate[job[s]] = "wrote")
  <2>1. fate[job[s]] # "wrote" /\ written' = written
    BY <1>3 DEF Count, ReportError, ReportPanic, ReportFails
  <2>2. Reporting' = Reporting
    BY <2>1 DEF Reporting, Count, ReportError, ReportPanic, ReportFails
  <2> QED
    BY <1>1, <2>1, <2>2 DEF WrittenIsExact
<1> QED
  BY <1>2, <1>3

LEMMA OthersKeepCount ==
  ASSUME PoolInv, WrittenIsExact,
         (\E s \in Slots : Claim(s)) \/ Supervisor \/ UNCHANGED vars
  PROVE  WrittenIsExact'
<1> USE DEF PoolInv, TypeOK
<1>1. CASE \E s \in Slots : Claim(s)
  <2>1. PICK s \in Slots : Claim(s)
    BY <1>1
  <2>2. Wrote' = Wrote
    BY <2>1, NJobsNat DEF Claim, ClaimJob, QueueDrained, Wrote, CounterSplits, Jobs
  <2>3. \A t \in Slots : pc[t] = "report" => fate'[job[t]] = fate[job[t]]
    BY <2>1, NJobsNat DEF Claim, ClaimJob, QueueDrained, CounterSplits, RenderingIsClaimed,
                          BusyHasJob, Busy, Jobs, Outcomes
  <2>4. Reporting' = Reporting
    BY <2>1, <2>3 DEF Claim, ClaimJob, QueueDrained, Reporting
  <2> QED
    BY <2>1, <2>2, <2>4 DEF WrittenIsExact, Claim
<1>2. CASE SpawnWorker
  <2>1. Wrote' = Wrote
    BY <1>2 DEF SpawnWorker, Wrote
  <2>2. \A t \in Slots : (pc'[t] = "report") <=> (pc[t] = "report")
    BY <1>2, WorkersPositive DEF SpawnWorker, SlotsJoined
  <2>3. Reporting' = Reporting
    BY <1>2, <2>2 DEF SpawnWorker, Reporting
  <2> QED
    BY <1>2, <2>1, <2>3 DEF SpawnWorker, WrittenIsExact
<1>3. CASE Replace
  <2>1. Wrote' = Wrote
    BY <1>3 DEF Replace, Wrote
  <2>2. pc[cur] = "panicked"
    BY <1>3 DEF Replace, SlotsJoined
  <2>3. \A t \in Slots : /\ (pc'[t] = "report") <=> (pc[t] = "report")
                         /\ pc[t] = "report" => job'[t] = job[t]
    BY <1>3, <2>2 DEF Replace
  <2>4. Reporting' = Reporting
    BY <1>3, <2>3 DEF Replace, Reporting
  <2> QED
    BY <1>3, <2>1, <2>4 DEF Replace, WrittenIsExact
<1>4. CASE UNCHANGED workerVars
  BY <1>4 DEF workerVars, WrittenIsExact, Wrote, Reporting
<1> QED
  BY <1>1, <1>2, <1>3, <1>4 DEF Supervisor, SpawnLoopEnds, TakeHandle, Join, Return, vars

(* "wrote N file(s)": the shared count differs from the files written by   *)
(* the threads that have not reported theirs yet, at every moment.         *)
THEOREM CountIsExact == Spec => []WrittenIsExact
<1>1. Init => WrittenIsExact
  <2> SUFFICES ASSUME Init PROVE WrittenIsExact
    OBVIOUS
  <2>1. Wrote = {} /\ Reporting = {}
    BY DEF Init, Wrote, Reporting
  <2> QED
    BY <2>1, FS_EmptySet DEF Init, WrittenIsExact
<1>2. ASSUME PoolInv, WrittenIsExact, [Next]_vars PROVE WrittenIsExact'
  BY <1>2, RenderKeepsCount, ReportKeepsCount, OthersKeepCount DEF Next, Worker, Over
<1> QED
  BY <1>1, <1>2, PoolInvariant, PTL DEF Spec

-----------------------------------------------------------------------------
(* The pool implements Batch.                                              *)

LEMMA ReportAttempts ==
  ASSUME PoolInv, NEW s \in Slots, Report(s)
  PROVE  \E j \in Jobs :
            /\ j \notin Attempted
            /\ Attempted' = Attempted \cup {j}
            /\ \E n \in {0, 1} : written' = written + n
<1> USE DEF PoolInv, TypeOK, Report
<1>1. job[s] \in Jobs /\ fate[job[s]] \in Outcomes
  BY DEF BusyHasJob, Busy, RenderingIsClaimed
<1>2. job[s] \notin Attempted
  BY DEF Attempted
<1>3. /\ pc'[s] # "report"
      /\ \A t \in Slots \ {s} : pc'[t] = pc[t]
      /\ \E n \in {0, 1} : written' = written + n
  BY DEF Count, ReportError, ReportPanic, ReportFails, Exits
<1>4. \A t \in Slots \ {s} : pc[t] = "report" => job[t] # job[s]
  BY DEF OneThreadPerJob, Busy
<1>5. Attempted' = Attempted \cup {job[s]}
  BY <1>1, <1>3, <1>4 DEF Attempted
<1> QED
  BY <1>1, <1>2, <1>3, <1>5

(* Every other step leaves the attempted jobs and the count as they are.   *)
LEMMA OthersAttemptNothing ==
  ASSUME PoolInv, (\E s \in Slots : Claim(s) \/ Render(s)) \/ Supervisor
  PROVE  Attempted' = Attempted /\ written' = written
<1> USE DEF PoolInv, TypeOK
<1>1. ASSUME NEW s \in Slots, Claim(s)
      PROVE  Attempted' = Attempted /\ written' = written
  <2>1. \A j \in Jobs : fate'[j] \in Outcomes <=> fate[j] \in Outcomes
    BY <1>1, NJobsNat DEF Claim, ClaimJob, QueueDrained, CounterSplits, Jobs, Outcomes
  <2>2. \A t \in Slots : /\ (pc'[t] = "report") <=> (pc[t] = "report")
                         /\ pc[t] = "report" => job'[t] = job[t]
    BY <1>1 DEF Claim, ClaimJob, QueueDrained
  <2> QED
    BY <1>1, <2>1, <2>2 DEF Attempted, Claim
<1>2. ASSUME NEW s \in Slots, Render(s)
      PROVE  Attempted' = Attempted /\ written' = written
  <2>1. job[s] \in Jobs /\ fate[job[s]] = "claimed"
    BY <1>2 DEF Render, BusyHasJob, Busy, RenderingIsClaimed
  <2> QED
    BY <1>2, <2>1 DEF Render, Attempted, Outcomes
<1>3. CASE SpawnWorker
  BY <1>3, WorkersPositive DEF SpawnWorker, SlotsJoined, Attempted
<1>4. CASE Replace
  <2>1. \A t \in Slots : /\ (pc'[t] = "report") <=> (pc[t] = "report")
                         /\ pc[t] = "report" => job'[t] = job[t]
    BY <1>4 DEF Replace, SlotsJoined
  <2> QED
    BY <1>4, <2>1 DEF Replace, Attempted
<1>5. CASE UNCHANGED workerVars
  BY <1>5 DEF workerVars, Attempted
<1> QED
  BY <1>1, <1>2, <1>3, <1>4, <1>5 DEF Supervisor, SpawnLoopEnds, TakeHandle, Join, Return

(* Every behaviour of a pool that is granted its threads is one of Batch:  *)
(* each job attempted exactly once, files counted as they are reported,    *)
(* and the call returns only when nothing is left.                         *)
THEOREM ImplementsBatch ==
  ASSUME Faultless
  PROVE  Spec => Attempts!BatchInit /\ [][Attempts!BatchNext]_(Attempts!batchVars)
<1>1. Init => Attempts!BatchInit
  BY DEF Init, Attempts!BatchInit, Attempted, Outcomes
<1>2. ASSUME PoolInv, JoinedMeansDrained, [Next]_vars
      PROVE  [Attempts!BatchNext]_(Attempts!batchVars)
  <2> USE DEF Attempts!BatchNext, Attempts!batchVars
  <2>1. CASE UNCHANGED vars \/ Over
    BY <2>1 DEF vars, workerVars, supVars, Over, Attempted
  <2>2. ASSUME NEW s \in Slots, Report(s)
        PROVE  Attempts!BatchNext
    <3>1. sup # "returned" /\ sup' = sup
      BY <1>2, <2>2, WorkersPositive
         DEF Report, supVars, PoolInv, TypeOK, SlotsJoined, Slots, Exits
    <3> QED
      BY <1>2, <2>2, <3>1, ReportAttempts DEF Attempts!Attempt, Attempts!BatchJobs, Jobs
  <2>3. CASE Return
    <3>1. Attempted = Jobs
      BY <1>2, <2>3, ReturningMeansAttempted DEF Return
    <3> QED
      BY <1>2, <2>3, <3>1, OthersAttemptNothing
         DEF Return, Supervisor, Attempts!Return, Attempts!BatchJobs, Jobs
  <2>4. ASSUME Supervisor, ~Return
        PROVE  UNCHANGED Attempts!batchVars
    BY <1>2, <2>4, OthersAttemptNothing
       DEF Supervisor, SpawnWorker, SpawnLoopEnds, TakeHandle, Join, NextSlot, Replace
  <2>5. ASSUME NEW s \in Slots, Claim(s) \/ Render(s)
        PROVE  UNCHANGED Attempts!batchVars
    BY <1>2, <2>5, OthersAttemptNothing DEF Claim, Render, supVars
  <2> QED
    BY <1>2, <2>1, <2>2, <2>3, <2>4, <2>5 DEF Next, Worker
<1> QED
  BY <1>1, <1>2, PoolInvariant, DrainedInvariant, PTL DEF Spec

-----------------------------------------------------------------------------
(* How far the call has to go.                                             *)
(*                                                                         *)
(* CallEnds needs the scheduler and is TLC's to check.  What the steps     *)
(* contribute to it is proved here: every step of the batch uses up one of *)
(* a supply that is fixed when the call starts, and until the call is over *)
(* some thread has a step to take.                                         *)

(* The steps a thread may still take on the job it has; one that goes back *)
(* for the next job pays for its steps there out of the queue, and one     *)
(* that panicked pays for its replacement.                                 *)
ThreadSteps ==
    [p \in PcStates |->
        CASE p = "claim" -> 1
          [] p = "render" -> 7
          [] p = "report" -> 6
          [] p = "panicked" -> 5
          [] p \in {"none", "clean", "died"} -> 0]

(* The thread in each slot, with each of the steps it may still take.      *)
StepsOf(threads) ==
    {x \in Slots \X (1 .. 7) : x[2] <= ThreadSteps[threads[x[1]]]}

Unclaimed == IF next < NJobs THEN NJobs - next ELSE 0

(* The supervisor takes, joins and perhaps replaces each slot once; a slot *)
(* that was replaced is paid for by the thread that panicked.              *)
SupervisorSteps ==
    CASE sup = "spawn" -> 3 * Workers + 7
      [] sup = "take" -> 3 * (spawned + 1 - cur) + 3
      [] sup = "join" -> 3 * (spawned + 1 - cur) + 2
      [] sup = "replace" -> 3 * (spawned + 1 - cur) + 1
      [] sup \in {"returned", "crashed"} -> 0

StepsLeft ==
    7 * Unclaimed + 2 * (Workers - tries) + SupervisorSteps
        + Cardinality(StepsOf(pc))

(* What a call starts with.                                                *)
StepsOfACall == 7 * NJobs + 5 * Workers + 7

UsesUpAStep == StepsLeft' < StepsLeft

(* The guards under which a worker or the supervisor takes a step.         *)
WorkerMoves(s) ==
    /\ Running
    /\ \/ pc[s] = "claim"
       \/ pc[s] = "render"
       \/ pc[s] = "report" /\ fate[job[s]] \in Outcomes

SupervisorMoves ==
    \/ sup = "spawn"
    \/ sup = "take"
    \/ sup = "join" /\ pc[cur] \in Exits
    \/ sup = "replace"

(* The supervisor only ever waits for one thread, and that one can go on.  *)
JoinWaitsForAWorker == sup = "join" => pc[cur] \in Exits \/ WorkerMoves(cur)

SomebodyMoves ==
    CallIsOver \/ SupervisorMoves \/ \E s \in Slots : WorkerMoves(s)

LEMMA StepsTyped ==
  ASSUME NEW threads \in [Slots -> PcStates]
  PROVE  /\ IsFiniteSet(StepsOf(threads))
         /\ Cardinality(StepsOf(threads)) \in Nat
<1>1. IsFiniteSet(Slots)
  BY WorkersPositive, FS_Interval DEF Slots
<1>2. IsFiniteSet(1 .. 7)
  <2>1. 1 \in Int /\ 7 \in Int
    OBVIOUS
  <2> QED
    BY <2>1, FS_Interval, Zenon
<1>3. IsFiniteSet(Slots \X (1 .. 7))
  BY <1>1, <1>2, FS_Product
<1>4. StepsOf(threads) \in SUBSET (Slots \X (1 .. 7))
  BY DEF StepsOf
<1> QED
  BY <1>3, <1>4, FS_Subset, FS_CardinalityType

(* A step of one thread changes what is left by its own part.              *)
LEMMA OneThreadSteps ==
  ASSUME NEW threads \in [Slots -> PcStates], NEW s \in Slots, NEW p \in PcStates
  PROVE  LET after == [threads EXCEPT ![s] = p]
         IN  Cardinality(StepsOf(after)) - ThreadSteps[p]
                = Cardinality(StepsOf(threads)) - ThreadSteps[threads[s]]
<1> DEFINE after == [threads EXCEPT ![s] = p]
           Rest == {x \in Slots \X (1 .. 7) :
                        x[1] # s /\ x[2] <= ThreadSteps[threads[x[1]]]}
           Own(k) == {s} \X (1 .. k)
<1>1. \A q \in PcStates : ThreadSteps[q] \in 0 .. 7
  BY DEF ThreadSteps, PcStates, Exits
<1>2. StepsOf(threads) = Rest \cup Own(ThreadSteps[threads[s]])
  <2>1. ThreadSteps[threads[s]] \in 0 .. 7
    BY <1>1
  <2> QED
    BY <2>1 DEF StepsOf
<1>3. StepsOf(after) = Rest \cup Own(ThreadSteps[p])
  <2>1. ThreadSteps[p] \in 0 .. 7
    BY <1>1
  <2>2. \A t \in Slots : after[t] = IF t = s THEN p ELSE threads[t]
    OBVIOUS
  <2> HIDE DEF after
  <2> QED
    BY <2>1, <2>2 DEF StepsOf
<1>4. IsFiniteSet(Rest) /\ Cardinality(Rest) \in Nat
  <2>1. Rest \in SUBSET StepsOf(threads)
    BY DEF StepsOf
  <2> QED
    BY <2>1, StepsTyped, FS_Subset, FS_CardinalityType
<1>5. ASSUME NEW k \in 0 .. 7
      PROVE  IsFiniteSet(Own(k)) /\ Cardinality(Own(k)) = k
  <2>1. IsFiniteSet(1 .. k) /\ Cardinality(1 .. k) = k
    <3>1. 1 \in Int /\ k \in Int /\ (IF 1 > k THEN 0 ELSE k - 1 + 1) = k
      OBVIOUS
    <3>2. Cardinality(1 .. k) = IF 1 > k THEN 0 ELSE k - 1 + 1
      BY <3>1, FS_Interval, Zenon
    <3> QED
      BY <3>1, <3>2, FS_Interval, Zenon
  <2>2. IsFiniteSet({s}) /\ Cardinality({s}) = 1
    BY FS_Singleton
  <2>3. /\ IsFiniteSet(Own(k))
        /\ Cardinality(Own(k)) = Cardinality({s}) * Cardinality(1 .. k)
    BY <2>1, <2>2, FS_Product, Zenon
  <2>4. Cardinality({s}) * Cardinality(1 .. k) = k
    <3>1. 1 * k = k
      OBVIOUS
    <3> QED
      BY <2>1, <2>2, <3>1, Zenon
  <2> QED
    BY <2>3, <2>4
<1>6. ASSUME NEW k \in 0 .. 7
      PROVE  Cardinality(Rest \cup Own(k)) = Cardinality(Rest) + k
  <2>1. Rest \cap Own(k) = {}
    OBVIOUS
  <2>2. Cardinality(Rest \cup Own(k))
            = Cardinality(Rest) + Cardinality(Own(k)) - Cardinality(Rest \cap Own(k))
    BY <1>4, <1>5, FS_Union
  <2>3. Cardinality(Rest \cap Own(k)) = 0
    BY <2>1, FS_EmptySet
  <2> HIDE DEF Rest, Own
  <2> QED
    BY <1>4, <1>5, <2>2, <2>3
<1>7. Cardinality(StepsOf(threads)) = Cardinality(Rest) + ThreadSteps[threads[s]]
  BY <1>1, <1>2, <1>6
<1>8. Cardinality(StepsOf(after)) = Cardinality(Rest) + ThreadSteps[p]
  BY <1>1, <1>3, <1>6
<1> HIDE DEF Rest, Own, after
<1> QED
  BY <1>1, <1>4, <1>7, <1>8 DEF after

(* Every spawned slot has, or had, a thread.                               *)
SpawnedHaveThreads == \A s \in Slots : s <= spawned => pc[s] # "none"

LEMMA SpawnedInvariant == Spec => []SpawnedHaveThreads
<1> USE WorkersPositive
<1>1. Init => SpawnedHaveThreads
  BY DEF Init, SpawnedHaveThreads, Slots
<1>2. ASSUME PoolInv, SpawnedHaveThreads, [Next]_vars
      PROVE  SpawnedHaveThreads'
  <2> USE <1>2 DEF PoolInv, TypeOK, SpawnedHaveThreads
  <2>1. CASE UNCHANGED vars \/ Over
    BY <2>1 DEF Over, vars, workerVars, supVars
  <2>2. CASE SpawnWorker
    BY <2>2 DEF SpawnWorker, Slots
  <2>3. CASE SpawnLoopEnds \/ TakeHandle \/ Join \/ Return
    BY <2>3 DEF SpawnLoopEnds, TakeHandle, Join, Return, workerVars
  <2>4. CASE Replace
    BY <2>4 DEF Replace
  <2>5. ASSUME NEW s \in Slots, Worker(s) PROVE SpawnedHaveThreads'
    BY <2>5 DEF Worker, Claim, ClaimJob, QueueDrained, Render, Report, Count,
                ReportError, ReportPanic, ReportFails, supVars
  <2> QED
    BY <1>2, <2>1, <2>2, <2>3, <2>4, <2>5 DEF Next, Supervisor
<1> QED
  BY <1>1, <1>2, PoolInvariant, PTL DEF Spec

LEMMA SupervisorTyped ==
  ASSUME PoolInv
  PROVE  /\ SupervisorSteps \in 0 .. 3 * Workers + 7
         /\ sup = "spawn" => SupervisorSteps = 3 * Workers + 7
         /\ sup = "take" => SupervisorSteps = 3 * (spawned + 1 - cur) + 3
         /\ sup = "join" => SupervisorSteps = 3 * (spawned + 1 - cur) + 2
         /\ sup = "replace" => SupervisorSteps = 3 * (spawned + 1 - cur) + 1
         /\ sup \in {"returned", "crashed"} => SupervisorSteps = 0
BY WorkersPositive DEF SupervisorSteps, PoolInv, TypeOK, SupStates, SlotsJoined

LEMMA LeftTyped ==
  ASSUME PoolInv
  PROVE  /\ Unclaimed \in 0 .. NJobs
         /\ Workers - tries \in Nat
         /\ Cardinality(StepsOf(pc)) \in Nat
         /\ StepsLeft \in Nat
<1>1. Unclaimed \in 0 .. NJobs /\ Workers - tries \in Nat
  BY NJobsNat, WorkersPositive DEF Unclaimed, PoolInv, TypeOK
<1>2. Cardinality(StepsOf(pc)) \in Nat
  BY StepsTyped DEF PoolInv, TypeOK
<1> QED
  BY <1>1, <1>2, SupervisorTyped, NJobsNat, WorkersPositive DEF StepsLeft

(* A worker's step: what it claims was in the queue.                       *)
LEMMA WorkerUsesUp ==
  ASSUME PoolInv, PoolInv', NEW s \in Slots, Worker(s)
  PROVE  UsesUpAStep
<1> USE DEF PoolInv, TypeOK
<1>0. /\ ThreadSteps["claim"] = 1 /\ ThreadSteps["render"] = 7
      /\ ThreadSteps["report"] = 6 /\ ThreadSteps["panicked"] = 5
      /\ ThreadSteps["clean"] = 0 /\ ThreadSteps["died"] = 0
  BY DEF ThreadSteps, PcStates, Exits
<1>1. PICK p \in PcStates :
          /\ pc' = [pc EXCEPT ![s] = p]
          /\ 7 * Unclaimed' + ThreadSteps[p] < 7 * Unclaimed + ThreadSteps[pc[s]]
  <2> USE <1>0, NJobsNat DEF PcStates, Exits
  <2>0. Unclaimed \in Int
    BY LeftTyped
  <2>1. CASE Claim(s) /\ ClaimJob(s)
    <3>1. Unclaimed' + 1 = Unclaimed
      BY <2>1 DEF Claim, ClaimJob, Unclaimed
    <3>2. pc[s] = "claim" /\ pc' = [pc EXCEPT ![s] = "render"]
      BY <2>1 DEF Claim, ClaimJob
    <3>3. Unclaimed' = Unclaimed - 1
      BY <2>0, <2>1, <3>1, NJobsNat DEF Unclaimed, Claim, ClaimJob
    <3>4. 7 * Unclaimed' + ThreadSteps["render"] < 7 * Unclaimed + ThreadSteps[pc[s]]
      BY <2>0, <3>2, <3>3
    <3> QED
      BY <3>2, <3>4
  <2>2. CASE Claim(s) /\ QueueDrained(s)
    <3>1. Unclaimed' = Unclaimed
      BY <2>2 DEF Claim, QueueDrained, Unclaimed
    <3>2. pc[s] = "claim" /\ pc' = [pc EXCEPT ![s] = "clean"]
      BY <2>2 DEF Claim, QueueDrained
    <3> QED
      BY <2>0, <3>1, <3>2
  <2>3. CASE Render(s)
    <3>1. Unclaimed' = Unclaimed
      BY <2>3 DEF Render, Unclaimed
    <3>2. pc[s] = "render" /\ pc' = [pc EXCEPT ![s] = "report"]
      BY <2>3 DEF Render
    <3> QED
      BY <2>0, <3>1, <3>2
  <2>4. CASE Report(s)
    <3>1. Unclaimed' = Unclaimed
      BY <2>4 DEF Report, Unclaimed
    <3>2. pc[s] = "report"
      BY <2>4 DEF Report
    <3>3. \E p \in {"claim", "panicked", "died"} : pc' = [pc EXCEPT ![s] = p]
      BY <2>4 DEF Report, Count, ReportError, ReportPanic, ReportFails
    <3> QED
      <4> PICK p \in {"claim", "panicked", "died"} : pc' = [pc EXCEPT ![s] = p]
        BY <3>3
      <4>1. p \in PcStates /\ ThreadSteps[p] < ThreadSteps[pc[s]]
        BY <3>2
      <4>2. ThreadSteps[p] \in Int /\ ThreadSteps[pc[s]] \in Int
        BY <3>2
      <4>3. 7 * Unclaimed' + ThreadSteps[p] < 7 * Unclaimed + ThreadSteps[pc[s]]
        BY <2>0, <3>1, <4>1, <4>2
      <4> QED
        BY <4>1, <4>3
  <2> QED
    BY <2>1, <2>2, <2>3, <2>4 DEF Worker, Claim
<1>2. tries' = tries /\ SupervisorSteps' = SupervisorSteps
  BY DEF Worker, Claim, Render, Report, supVars, SupervisorSteps
<1>3. Cardinality(StepsOf(pc')) - ThreadSteps[p]
          = Cardinality(StepsOf(pc)) - ThreadSteps[pc[s]]
  BY <1>1, OneThreadSteps
<1>4. Cardinality(StepsOf(pc')) \in Nat
  BY StepsTyped
<1>5. ThreadSteps[p] \in 0 .. 7 /\ ThreadSteps[pc[s]] \in 0 .. 7
  BY DEF ThreadSteps, PcStates, Exits
<1>6. Unclaimed' \in Int
  BY NJobsNat DEF Unclaimed
<1> HIDE DEF PoolInv, TypeOK
<1> QED
  BY <1>1, <1>2, <1>3, <1>4, <1>5, <1>6, LeftTyped, SupervisorTyped
     DEF UsesUpAStep, StepsLeft

(* A step of the supervisor: a replacement is paid for by the panic.       *)
LEMMA SupervisorUsesUp ==
  ASSUME PoolInv, PoolInv', Supervisor
  PROVE  UsesUpAStep
<1> USE WorkersPositive DEF PoolInv, TypeOK
<1>0. /\ ThreadSteps["claim"] = 1 /\ ThreadSteps["panicked"] = 5
      /\ ThreadSteps["none"] = 0
  BY DEF ThreadSteps, PcStates, Exits
<1>1. Cardinality(StepsOf(pc)) \in Nat /\ Cardinality(StepsOf(pc')) \in Nat
  BY StepsTyped
<1>2. Unclaimed \in Int /\ Unclaimed' = Unclaimed
  <2>1. next' = next
    BY DEF Supervisor, SpawnWorker, SpawnLoopEnds, TakeHandle, Join, Replace, Return,
           workerVars
  <2> QED
    BY <2>1, LeftTyped DEF Unclaimed
<1>3. /\ SupervisorSteps \in Int /\ SupervisorSteps' \in Int
      /\ sup' \in {"spawn", "crashed"} => SupervisorSteps' <= 3 * Workers + 7
  <2>1. sup' \in SupStates /\ cur' \in Int /\ spawned' \in Int
    OBVIOUS
  <2> QED
    BY <2>1, SupervisorTyped DEF SupervisorSteps, SupStates
<1>4. CASE SpawnWorker
  <2>1. tries' = tries + 1
    BY <1>4 DEF SpawnWorker
  <2>2. SupervisorSteps' <= SupervisorSteps
    <3>1. SupervisorSteps = 3 * Workers + 7
      BY <1>4, SupervisorTyped DEF SpawnWorker
    <3>2. sup' \in {"spawn", "crashed"}
      BY <1>4 DEF SpawnWorker
    <3> QED
      BY <1>3, <3>1, <3>2
  <2>3. Cardinality(StepsOf(pc')) <= Cardinality(StepsOf(pc)) + 1
    <3>1. CASE UNCHANGED pc
      BY <1>1, <3>1
    <3>2. CASE pc' = [pc EXCEPT ![spawned + 1] = "claim"]
      <4>1. spawned + 1 \in Slots /\ pc[spawned + 1] = "none" /\ "claim" \in PcStates
        BY <1>4 DEF SpawnWorker, SlotsJoined, Slots, PcStates
      <4>2. Cardinality(StepsOf(pc')) - ThreadSteps["claim"]
                = Cardinality(StepsOf(pc)) - ThreadSteps[pc[spawned + 1]]
        BY <3>2, <4>1, OneThreadSteps
      <4> QED
        BY <1>0, <1>1, <4>1, <4>2
    <3> QED
      BY <1>4, <3>1, <3>2 DEF SpawnWorker
  <2> QED
    BY <1>1, <1>2, <1>3, <2>1, <2>2, <2>3 DEF UsesUpAStep, StepsLeft
<1>5. ASSUME UNCHANGED workerVars, tries' = tries, SupervisorSteps' < SupervisorSteps
      PROVE  UsesUpAStep
  <2>1. StepsOf(pc') = StepsOf(pc)
    BY <1>5 DEF workerVars
  <2> QED
    BY <1>1, <1>2, <1>3, <1>5, <2>1 DEF UsesUpAStep, StepsLeft
<1>6. CASE SpawnLoopEnds
  <2>1. SupervisorSteps = 3 * Workers + 7
    BY <1>6, SupervisorTyped DEF SpawnLoopEnds
  <2>2. SupervisorSteps' = 3 * (spawned + 1 - cur) + 3
    BY <1>6 DEF SpawnLoopEnds, SupervisorSteps
  <2>3. cur = 1 /\ spawned <= Workers
    BY <1>6 DEF SpawnLoopEnds, SlotsJoined
  <2> QED
    BY <1>5, <1>6, <2>1, <2>2, <2>3 DEF SpawnLoopEnds
<1>7. CASE TakeHandle
  <2>1. SupervisorSteps = 3 * (spawned + 1 - cur) + 3
    BY <1>7, SupervisorTyped DEF TakeHandle
  <2>2. SupervisorSteps' \in {3 * (spawned + 1 - cur) + 2, 0}
    BY <1>7 DEF TakeHandle, SupervisorSteps
  <2>3. spawned + 1 - cur \in Nat
    BY <1>7 DEF TakeHandle
  <2> QED
    BY <1>5, <1>7, <2>1, <2>2, <2>3 DEF TakeHandle
<1>8. CASE Join
  <2>1. SupervisorSteps = 3 * (spawned + 1 - cur) + 2
    BY <1>8, SupervisorTyped DEF Join
  <2>2. SupervisorSteps' \in {3 * (spawned + 1 - cur) + 1, 3 * (spawned - cur) + 3, 0}
    BY <1>8 DEF Join, NextSlot, SupervisorSteps
  <2>3. spawned + 1 - cur \in Nat
    BY <1>8 DEF Join, SlotsJoined
  <2> QED
    BY <1>5, <1>8, <2>1, <2>2, <2>3 DEF Join
<1>9. CASE Return
  <2>1. SupervisorSteps = 3 * (spawned + 1 - cur) + 3
    BY <1>9, SupervisorTyped DEF Return
  <2>2. SupervisorSteps' = 0
    BY <1>9 DEF Return, SupervisorSteps
  <2>3. spawned + 1 - cur \in Nat
    BY <1>9 DEF Return, SlotsJoined
  <2> QED
    BY <1>5, <1>9, <2>1, <2>2, <2>3 DEF Return
<1>10. CASE Replace
  <2>1. SupervisorSteps = 3 * (spawned + 1 - cur) + 1
    BY <1>10, SupervisorTyped DEF Replace
  <2>2. CASE cur' = cur + 1 /\ UNCHANGED pc
    <3>1. SupervisorSteps' = 3 * (spawned - cur) + 3
      BY <1>10, <2>2 DEF Replace, SupervisorSteps
    <3>2. StepsOf(pc') = StepsOf(pc) /\ tries' = tries
      BY <1>10, <2>2 DEF Replace
    <3> QED
      BY <1>1, <1>2, <2>1, <3>1, <3>2 DEF UsesUpAStep, StepsLeft
  <2>3. CASE pc' = [pc EXCEPT ![cur] = "claim"] /\ UNCHANGED cur
    <3>1. SupervisorSteps' = 3 * (spawned + 1 - cur) + 3
      BY <1>10, <2>3 DEF Replace, SupervisorSteps
    <3>2. cur \in Slots /\ pc[cur] = "panicked" /\ "claim" \in PcStates
      BY <1>10 DEF Replace, SlotsJoined, Slots, PcStates
    <3>3. Cardinality(StepsOf(pc')) - ThreadSteps["claim"]
              = Cardinality(StepsOf(pc)) - ThreadSteps[pc[cur]]
      BY <2>3, <3>2, OneThreadSteps
    <3>4. tries' = tries
      BY <1>10 DEF Replace
    <3>5. Cardinality(StepsOf(pc')) = Cardinality(StepsOf(pc)) - 4
      BY <1>0, <1>1, <3>2, <3>3
    <3> QED
      BY <1>1, <1>2, <2>1, <3>1, <3>4, <3>5 DEF UsesUpAStep, StepsLeft
  <2> QED
    BY <1>10, <2>2, <2>3 DEF Replace
<1> QED
  BY <1>4, <1>6, <1>7, <1>8, <1>9, <1>10 DEF Supervisor

(* However renders panic, threads are refused and diagnostics fail: a call *)
(* takes at most StepsOfACall steps, of all its threads together, and      *)
(* every one of them brings its end nearer.  No slot is replaced for ever, *)
(* and no thread goes round without claiming.                              *)
THEOREM CallWindsDown ==
    Spec => /\ [](StepsLeft \in 0 .. StepsOfACall)
            /\ [][UsesUpAStep]_vars
<1>1. Init /\ PoolInv => StepsLeft \in 0 .. StepsOfACall
  <2> SUFFICES ASSUME Init, PoolInv PROVE StepsLeft \in 0 .. StepsOfACall
    OBVIOUS
  <2>1. StepsOf(pc) = {}
    BY DEF Init, StepsOf, ThreadSteps, PcStates, Exits
  <2>2. Cardinality(StepsOf(pc)) = 0
    BY <2>1, FS_EmptySet
  <2>3. Unclaimed = NJobs
    BY NJobsNat DEF Init, Unclaimed
  <2>4. SupervisorSteps = 3 * Workers + 7
    BY DEF Init, SupervisorSteps
  <2>5. tries = 0
    BY DEF Init
  <2> QED
    BY <2>2, <2>3, <2>4, <2>5, NJobsNat, WorkersPositive DEF StepsLeft, StepsOfACall
<1>2. PoolInv /\ PoolInv' /\ [Next]_vars => [UsesUpAStep]_vars
  BY WorkerUsesUp, SupervisorUsesUp DEF Next, Over
<1>3. PoolInv => StepsLeft \in Nat
  BY LeftTyped
<1>4. ASSUME StepsLeft \in 0 .. StepsOfACall, [UsesUpAStep]_vars, (StepsLeft \in Nat)'
      PROVE  (StepsLeft \in 0 .. StepsOfACall)'
  <2>1. StepsOfACall \in Int /\ StepsOfACall' = StepsOfACall
    BY NJobsNat, WorkersPositive DEF StepsOfACall
  <2>2. CASE UNCHANGED vars
    <3>1. StepsLeft' = StepsLeft
      BY <2>2 DEF vars, workerVars, supVars, StepsLeft, Unclaimed, SupervisorSteps
    <3> QED
      BY <1>4, <2>1, <3>1
  <2>3. CASE UsesUpAStep
    BY <1>4, <2>1, <2>3 DEF UsesUpAStep
  <2> QED
    BY <1>4, <2>2, <2>3
<1> QED
  BY <1>1, <1>2, <1>3, <1>4, PoolInvariant, PTL DEF Spec

(* The join of the supervisor waits for a thread that was started and can  *)
(* take its next step, never for an empty slot; so until the call is over  *)
(* the supervisor or a worker has a step to take.                          *)
THEOREM NobodyWaitsForNobody == Spec => [](JoinWaitsForAWorker /\ SomebodyMoves)
<1>1. ASSUME PoolInv, SpawnedHaveThreads
      PROVE  JoinWaitsForAWorker
  <2> SUFFICES ASSUME sup = "join", pc[cur] \notin Exits
               PROVE  WorkerMoves(cur)
    BY DEF JoinWaitsForAWorker
  <2> USE <1>1 DEF PoolInv, TypeOK
  <2>1. cur \in Slots /\ cur <= spawned
    BY WorkersPositive DEF SlotsJoined, Slots
  <2>2. pc[cur] \in {"claim", "render", "report"}
    BY <2>1 DEF SpawnedHaveThreads, PcStates
  <2> QED
    BY <2>1, <2>2 DEF WorkerMoves, Running, RenderingIsClaimed
<1>2. ASSUME PoolInv, JoinWaitsForAWorker
      PROVE  SomebodyMoves
  <2> USE <1>2 DEF PoolInv, TypeOK
  <2>1. CASE sup = "join"
    <3>1. cur \in Slots
      BY <2>1, WorkersPositive DEF SlotsJoined, Slots
    <3> QED
      BY <2>1, <3>1 DEF JoinWaitsForAWorker, SomebodyMoves, SupervisorMoves
  <2>2. CASE sup # "join"
    BY <2>2 DEF SomebodyMoves, SupervisorMoves, CallIsOver, SupStates
  <2> QED
    BY <2>1, <2>2
<1> QED
  BY <1>1, <1>2, PoolInvariant, SpawnedInvariant, PTL
=============================================================================
