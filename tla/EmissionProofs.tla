---------------------------- MODULE EmissionProofs ----------------------------
(***************************************************************************)
(* What holds of every command, any inputs, any number of workers, any     *)
(* case folding and any failing writes: what the plan of an input          *)
(* promises, that no two workers ever write one file, that what is         *)
(* reported as written is where it was written, that the command winds     *)
(* down without anyone waiting for anyone, and that each input's batch is  *)
(* a Batch.                                                                *)
(***************************************************************************)
EXTENDS Emission, FiniteSetTheorems, WellFoundedInduction, TLAPS

-----------------------------------------------------------------------------
(***************************************************************************)
(* What `plan_rels` guarantees for every list of paths, every cleaning and *)
(* every case folding.                                                     *)
(*                                                                         *)
(* The argument is PlanInv: `used` holds the keys of exactly the paths     *)
(* given so far, and the key of a path is the file it names.               *)
(***************************************************************************)

UsedIsTaken ==
    /\ Len(notes) = Len(plan)
    /\ used = {Key(plan[k]) : k \in 1 .. Len(plan)}

PlanInv ==
    /\ PlanTypeOK
    /\ UsedIsTaken
    /\ PathsDistinct
    /\ NotedIffRenamed
    /\ KeptUnlessTaken

LEMMA PathTypes ==
  ASSUME NEW p \in Rels
  PROVE  /\ Sanitize(p) \in Rels
         /\ Key(p) \in Rels
         /\ Key(p) = File(p)
         /\ \A n \in Nat : /\ Candidate(p, n) \in Rels
                           /\ Len(Candidate(p, n).tail) = Len(p.tail) + 1
<1>1. Sanitize(p) \in Rels
  BY StemFunctions DEF Rels, Sanitize
<1>2. Key(p) \in Rels /\ Key(p) = File(p)
  BY StemFunctions DEF Rels, Key, File
<1>3. ASSUME NEW n \in Nat
      PROVE  Candidate(p, n) \in Rels /\ Len(Candidate(p, n).tail) = Len(p.tail) + 1
  <2>1. p.tail \in Seq(Nat) /\ Append(p.tail, n) \in Seq(Nat)
    BY DEF Rels
  <2>2. Candidate(p, n) \in Rels /\ Candidate(p, n).tail = Append(p.tail, n)
    BY <2>1 DEF Rels, Candidate
  <2> QED
    BY <2>1, <2>2
<1> QED
  BY <1>1, <1>2, <1>3

(* A renamed path is neither the path the class asked for nor its safe form. *)
LEMMA CandidateIsNew ==
  ASSUME NEW p \in Rels, NEW n \in Nat
  PROVE  Candidate(Sanitize(p), n) # p /\ Candidate(Sanitize(p), n) # Sanitize(p)
<1>1. Sanitize(p) \in Rels /\ Sanitize(p).tail = p.tail
  BY PathTypes DEF Sanitize, Rels
<1>2. Len(Candidate(Sanitize(p), n).tail) = Len(p.tail) + 1
  BY <1>1, PathTypes
<1>3. Len(p.tail) \in Nat
  BY DEF Rels
<1> QED
  BY <1>1, <1>2, <1>3

LEMMA InitHolds == PlanInit => PlanInv
<1> SUFFICES ASSUME PlanInit PROVE PlanInv
  OBVIOUS
<1>1. rels \in Seq(Rels) /\ Len(rels) <= MaxJobs
  BY PlanBounds DEF PlanInit
<1>2. PlanTypeOK
  BY <1>1 DEF PlanInit, PlanTypeOK
<1>3. UsedIsTaken /\ PathsDistinct /\ NotedIffRenamed /\ KeptUnlessTaken
  BY DEF PlanInit, UsedIsTaken, PathsDistinct, NotedIffRenamed, KeptUnlessTaken
<1> QED
  BY <1>2, <1>3 DEF PlanInv

(* A path is taken, by its key, exactly when some earlier path is its file. *)
LEMMA TakenMeansSameFile ==
  ASSUME PlanInv, NEW p \in Rels
  PROVE  Key(p) \in used <=> \E k \in 1 .. Len(plan) : File(plan[k]) = File(p)
<1>1. \A k \in 1 .. Len(plan) : plan[k] \in Rels
  BY DEF PlanInv, PlanTypeOK
<1>2. Key(p) = File(p) /\ \A k \in 1 .. Len(plan) : Key(plan[k]) = File(plan[k])
  BY <1>1, PathTypes
<1> QED
  BY <1>2 DEF PlanInv, UsedIsTaken

(* Every choice of a path whose key is free keeps the invariant, if the    *)
(* note and the reason for the choice are the right ones.                  *)
LEMMA ChoiceKeeps ==
  ASSUME PlanInv, Job <= Len(rels),
         NEW p \in Rels, Key(p) \notin used,
         NEW note \in {"none", "sanitized", "collided"},
         note = "none" <=> p = rels[Job],
         p = Wanted <=> Key(Wanted) \notin used,
         Choose(p, note)
  PROVE  PlanInv'
<1> DEFINE n == Len(plan)
<1> USE DEF PlanInv, Choose
<1>1. /\ plan \in Seq(Rels) /\ rels \in Seq(Rels) /\ n \in Nat
      /\ notes \in Seq({"none", "sanitized", "collided"}) /\ Len(notes) = n
      /\ Job = n + 1 /\ rels[Job] \in Rels
  BY DEF PlanTypeOK, UsedIsTaken, Job
<1>2. Wanted \in Rels /\ Key(p) \in Rels
  BY <1>1, PathTypes DEF Wanted
<1>3. /\ plan' \in Seq(Rels) /\ Len(plan') = n + 1 /\ plan'[n + 1] = p
      /\ notes' \in Seq({"none", "sanitized", "collided"}) /\ Len(notes') = n + 1
      /\ notes'[n + 1] = note
      /\ \A k \in 1 .. n : plan'[k] = plan[k] /\ notes'[k] = notes[k]
      /\ rels' = rels
  BY <1>1
<1>4. \A k \in 1 .. n : File(plan[k]) # File(p)
  BY TakenMeansSameFile
<1>5. PlanTypeOK'
  BY <1>1, <1>2, <1>3 DEF PlanTypeOK
<1>6. UsedIsTaken'
  <2>1. used = {Key(plan[k]) : k \in 1 .. n} /\ used' = used \cup {Key(p)}
    BY DEF UsedIsTaken
  <2>2. {Key(plan'[k]) : k \in 1 .. n + 1} = {Key(plan[k]) : k \in 1 .. n} \cup {Key(p)}
    BY <1>1, <1>3
  <2> QED
    BY <1>3, <2>1, <2>2 DEF UsedIsTaken
<1>7. PathsDistinct'
  BY <1>1, <1>3, <1>4 DEF PathsDistinct
<1>8. NotedIffRenamed'
  BY <1>1, <1>3 DEF NotedIffRenamed
<1>9. KeptUnlessTaken'
  <2>1. p = Wanted <=> \A j \in 1 .. n : File(plan[j]) # File(Wanted)
    BY <1>2, TakenMeansSameFile
  <2>2. Wanted = Sanitize(rels[n + 1])
    BY <1>1 DEF Wanted
  <2>3. ASSUME NEW k \in 1 .. n
        PROVE  (plan'[k] = Sanitize(rels'[k]))
                 <=> \A j \in 1 .. k - 1 : File(plan'[j]) # File(Sanitize(rels'[k]))
    <3>1. \A j \in 1 .. k - 1 : plan'[j] = plan[j]
      BY <1>1, <1>3
    <3> QED
      BY <1>3, <3>1 DEF KeptUnlessTaken
  <2>4. (plan'[n + 1] = Sanitize(rels'[n + 1]))
           <=> \A j \in 1 .. n : File(plan'[j]) # File(Sanitize(rels'[n + 1]))
    BY <1>3, <2>1, <2>2
  <2>5. \A k \in 1 .. n + 1 : k \in 1 .. n \/ k = n + 1
    BY <1>1
  <2>6. (n + 1) - 1 = n
    BY <1>1
  <2> QED
    BY <1>3, <2>3, <2>4, <2>5, <2>6 DEF KeptUnlessTaken
<1> QED
  BY <1>5, <1>6, <1>7, <1>8, <1>9

LEMMA StepHolds == PlanInv /\ [PlanStep]_planVars => PlanInv'
<1> SUFFICES ASSUME PlanInv, [PlanStep]_planVars PROVE PlanInv'
  OBVIOUS
<1>1. CASE UNCHANGED planVars
  BY <1>1 DEF planVars, PlanInv, PlanTypeOK, UsedIsTaken, PathsDistinct, NotedIffRenamed,
              KeptUnlessTaken
<1>2. ASSUME Job <= Len(rels)
      PROVE  Job \in 1 .. Len(rels) /\ rels[Job] \in Rels /\ Wanted \in Rels
  <2>1. Job \in 1 .. Len(rels) /\ rels[Job] \in Rels
    BY <1>2 DEF PlanInv, PlanTypeOK, Job
  <2> QED
    BY <2>1, PathTypes DEF Wanted
<1>3. CASE PlanFree
  BY <1>2, <1>3, ChoiceKeeps DEF PlanFree
<1>4. CASE PlanTaken
  <2>1. PICK n \in 0 .. Len(plan) :
            FirstFree(Wanted, n) /\ Choose(Candidate(Wanted, n), "collided")
    BY <1>4 DEF PlanTaken
  <2>2. n \in Nat
    BY <2>1
  <2>3. Candidate(Wanted, n) \in Rels /\ Key(Candidate(Wanted, n)) \notin used
    BY <1>2, <1>4, <2>1, <2>2, PathTypes DEF PlanTaken, FirstFree
  <2>4. Candidate(Wanted, n) # rels[Job] /\ Candidate(Wanted, n) # Wanted
    BY <1>2, <1>4, <2>2, CandidateIsNew DEF PlanTaken, Wanted
  <2> QED
    BY <1>4, <2>1, <2>3, <2>4, ChoiceKeeps DEF PlanTaken
<1> QED
  BY <1>1, <1>3, <1>4 DEF PlanStep

THEOREM PlanInvariant == PlanSpec => []PlanInv
BY InitHolds, StepHolds, PTL DEF PlanSpec

(* Type correctness of the plan.                                           *)
THEOREM PlanTypeCorrect == PlanSpec => []PlanTypeOK
BY PlanInvariant, PTL DEF PlanInv

-----------------------------------------------------------------------------
(***************************************************************************)
(* What holds of every command, any inputs, any number of workers and any  *)
(* case folding: the state has its type, every plan is collision-free, and *)
(* no two workers ever write one file.                                     *)
(*                                                                         *)
(* The argument is EmissionInv: while a worker has a job the input is open *)
(* and planned, the jobs the workers have are theirs alone and below the   *)
(* counter, and the plan is what OutputPlan promises (PlanInv).            *)
(***************************************************************************)

JobsClaimed ==
    /\ \A w \in Writers : pc[w] # "claim" => Ready /\ job[w] < next
    /\ \A v, w \in Writers :
          v # w /\ pc[v] # "claim" /\ pc[w] # "claim" => job[v] # job[w]

ListingIsOpen == phase = "work" => rels = This.lists /\ Target # Bail

EmissionInv ==
    /\ TypeOK
    /\ PlanInv
    /\ JobsClaimed
    /\ ListingIsOpen

-----------------------------------------------------------------------------
LEMMA CommandTypes ==
  ASSUME NEW c \in Commands, NEW i \in 1 .. Len(c.inputs)
  PROVE  /\ c.inputs \in Seq(Inputs)
         /\ Len(c.inputs) \in Nat
         /\ c.inputs[i].lists \in Seq(Rels)
         /\ Len(c.inputs[i].lists) <= MaxJobs
         /\ c.inputs[i].kind = "class" => Len(c.inputs[i].lists) = 1
<1>1. /\ c.inputs \in Seq(Inputs)
      /\ Len(c.inputs) \in Nat
      /\ Len(c.inputs[i].lists) <= MaxJobs
      /\ c.inputs[i].kind = "class" => Len(c.inputs[i].lists) = 1
  BY CommandShapes
<1>2. c.inputs[i] \in Inputs
  BY <1>1
<1>3. c.inputs[i].lists \in Seq(Paths)
  BY <1>2 DEF Inputs
<1>4. c.inputs[i].lists \in Seq(Rels)
  BY <1>3, PlanBounds
<1> QED
  BY <1>1, <1>4

(* An input that is opened starts with an empty plan.                      *)
LEMMA EmptyPlanHolds ==
  ASSUME rels \in Seq(Rels), Len(rels) <= MaxJobs,
         plan = <<>>, notes = <<>>, used = {}
  PROVE  PlanInv
BY DEF PlanInv, PlanTypeOK, UsedIsTaken, PathsDistinct, NotedIffRenamed, KeptUnlessTaken

LEMMA EmissionInitHolds == Init => EmissionInv
<1> SUFFICES ASSUME Init PROVE EmissionInv
  OBVIOUS
<1>1. command.inputs \in Seq(Inputs)
      /\ command.inputs # <<>>
  BY CommandShapes DEF Init
<1>2. 1 \in 1 .. Len(command.inputs)
  BY <1>1
<1>3. PlanInv
  <2>1. rels \in Seq(Rels) /\ Len(rels) <= MaxJobs
    BY PlanBounds DEF Init
  <2> QED
    BY <2>1, EmptyPlanHolds DEF Init
<1>4. TypeOK
  <2>1. rels = <<>> /\ Len(rels) = 0 /\ next \in 1 .. Len(rels) + 1
    BY DEF Init
  <2>2. files \in [DOMAIN files -> Sources \cup {Nothing}]
    BY DEF Init
  <2>3. stdout \in Seq([part : {"separator", "body"}, of : Sources])
    BY DEF Init
  <2> QED
    BY <1>2, <1>3, <2>1, <2>2, <2>3, PlanBounds DEF Init, TypeOK, PlanInv
<1>5. JobsClaimed /\ ListingIsOpen
  BY DEF Init, JobsClaimed, ListingIsOpen
<1> QED
  BY <1>3, <1>4, <1>5 DEF EmissionInv

-----------------------------------------------------------------------------
(* The steps of the main thread.                                           *)

LEMMA PlanKept == PlanInv /\ UNCHANGED planVars => PlanInv'
BY DEF planVars, PlanInv, PlanTypeOK, UsedIsTaken, PathsDistinct, NotedIffRenamed, KeptUnlessTaken

LEMMA OpenHolds == EmissionInv /\ Open => EmissionInv'
<1> SUFFICES ASSUME EmissionInv, Open PROVE EmissionInv'
  OBVIOUS
<1>1. /\ command' = command /\ input' = input /\ pc' = pc /\ job' = job
      /\ files' = files /\ stdout' = stdout /\ written' = written
      /\ phase' = "work" /\ rels' = This.lists /\ next' = 1
      /\ plan' = <<>> /\ notes' = <<>> /\ used' = {}
  BY DEF Open, outputs
<1>2. This.lists \in Seq(Rels) /\ Len(This.lists) <= MaxJobs /\ Len(This.lists) \in Nat
  BY CommandTypes DEF EmissionInv, TypeOK, This
<1>3. \A w \in Writers : pc[w] = "claim"
  BY DEF EmissionInv, JobsClaimed, Open, Ready
<1>4. PlanInv'
  BY <1>1, <1>2 DEF PlanInv, PlanTypeOK, UsedIsTaken, PathsDistinct, NotedIffRenamed, KeptUnlessTaken
<1>5. TypeOK'
  BY <1>1, <1>2, <1>3, <1>4 DEF EmissionInv, TypeOK, Sources, PlanInv
<1>6. JobsClaimed' /\ ListingIsOpen'
  BY <1>1, <1>3 DEF JobsClaimed, ListingIsOpen, This, Target, Open
<1> QED
  BY <1>4, <1>5, <1>6 DEF EmissionInv

LEMMA OpenFailsHolds == EmissionInv /\ OpenFails => EmissionInv'
<1> SUFFICES ASSUME EmissionInv, OpenFails PROVE EmissionInv'
  OBVIOUS
<1>1. \A w \in Writers : pc[w] = "claim"
  BY DEF EmissionInv, JobsClaimed, OpenFails, Ready
<1>2. PlanInv'
  BY PlanKept DEF EmissionInv, OpenFails
<1>3. TypeOK'
  BY DEF EmissionInv, TypeOK, OpenFails, planVars, batchVars, outputs, PlanTypeOK, Sources
<1>4. JobsClaimed' /\ ListingIsOpen'
  BY <1>1 DEF JobsClaimed, ListingIsOpen, OpenFails, batchVars
<1> QED
  BY <1>2, <1>3, <1>4 DEF EmissionInv

LEMMA PlanHolds == EmissionInv /\ Plan => EmissionInv'
<1> SUFFICES ASSUME EmissionInv, Plan PROVE EmissionInv'
  OBVIOUS
<1>1. PlanInv'
  BY StepHolds DEF EmissionInv, Plan
<1>2. rels' = rels /\ Len(plan) < Len(rels)
  <2>1. Job <= Len(rels) /\ rels' = rels
    BY DEF Plan, PlanStep, PlanFree, PlanTaken, Choose
  <2> QED
    BY <2>1 DEF Job, EmissionInv, TypeOK, PlanTypeOK
<1>3. \A w \in Writers : pc[w] = "claim"
  <2>1. ~Ready
    BY <1>2 DEF Ready, Plan, Planned, EmissionInv, TypeOK, PlanTypeOK
  <2> QED
    BY <2>1 DEF EmissionInv, JobsClaimed
<1>4. TypeOK'
  BY <1>1, <1>2 DEF EmissionInv, TypeOK, Plan, batchVars, outputs, PlanInv, Sources
<1>5. JobsClaimed' /\ ListingIsOpen'
  BY <1>2, <1>3 DEF EmissionInv, JobsClaimed, ListingIsOpen, Plan, batchVars, This, Target
<1> QED
  BY <1>1, <1>4, <1>5 DEF EmissionInv

LEMMA CloseHolds == EmissionInv /\ CloseInput => EmissionInv'
<1> SUFFICES ASSUME EmissionInv, CloseInput PROVE EmissionInv'
  OBVIOUS
<1>1. PlanInv'
  BY PlanKept DEF EmissionInv, CloseInput
<1>2. \A w \in Writers : pc[w] = "claim"
  BY DEF CloseInput
<1>3. /\ input' \in 1 .. Len(command.inputs) /\ phase' \in {"open", "ended"}
      /\ command' = command
  <2>1. Len(command.inputs) \in Nat
    BY CommandTypes DEF EmissionInv, TypeOK
  <2> QED
    BY <2>1 DEF CloseInput, EmissionInv, TypeOK
<1>4. TypeOK'
  BY <1>1, <1>2, <1>3 DEF EmissionInv, TypeOK, CloseInput, planVars, batchVars, outputs, PlanInv, Sources
<1>5. JobsClaimed' /\ ListingIsOpen'
  BY <1>2, <1>3 DEF JobsClaimed, ListingIsOpen, CloseInput, batchVars
<1> QED
  BY <1>1, <1>4, <1>5 DEF EmissionInv

-----------------------------------------------------------------------------
(* The steps of a worker.                                                  *)

(* What a worker's step leaves alone: the input, its listing and plan.     *)
InputKept == UNCHANGED <<planVars, command, input, phase>>

LEMMA InputKeptHolds ==
  ASSUME EmissionInv, InputKept
  PROVE  PlanInv' /\ ListingIsOpen' /\ (Ready' = Ready) /\ (Sources' = Sources)
         /\ PlanTypeOK' /\ rels' = rels /\ command' = command /\ input' = input /\ phase' = phase
<1>1. PlanInv' /\ PlanTypeOK'
  BY PlanKept DEF EmissionInv, InputKept, PlanInv
<1>2. ListingIsOpen'
  BY DEF EmissionInv, InputKept, ListingIsOpen, planVars, This, Target
<1>3. Ready' = Ready
  BY DEF InputKept, planVars, Ready, HasPlan, Target, This, Planned
<1>4. Sources' = Sources
  BY DEF InputKept, Sources
<1> QED
  BY <1>1, <1>2, <1>3, <1>4 DEF InputKept, planVars

LEMMA ClaimHolds ==
  ASSUME EmissionInv, NEW w \in Writers, Claim(w)
  PROVE  EmissionInv'
<1>1. InputKept
  BY DEF Claim, InputKept
<1>2. /\ next \in 1 .. Len(rels) /\ Len(rels) \in Nat /\ next \in 0 .. MaxJobs
      /\ next' = next + 1
      /\ pc' = [pc EXCEPT ![w] = "begin"] /\ job' = [job EXCEPT ![w] = next]
      /\ files' = files /\ stdout' = stdout /\ written' = written /\ Ready
  BY PlanBounds DEF EmissionInv, TypeOK, PlanTypeOK, Claim, outputs
<1>3. TypeOK'
  <2>1. pc' \in [Writers -> {"claim", "begin", "fill"}]
    BY <1>2 DEF EmissionInv, TypeOK
  <2>2. job' \in [Writers -> 0 .. MaxJobs] /\ \A v \in Writers : job'[v] \in 1 .. Len(rels) \/ pc'[v] = "claim"
    BY <1>2 DEF EmissionInv, TypeOK
  <2>3. next' \in 1 .. Len(rels) + 1
    BY <1>2
  <2> QED
    BY <1>1, <1>2, <2>1, <2>2, <2>3, InputKeptHolds DEF EmissionInv, TypeOK
<1>4. JobsClaimed'
  <2>1. ASSUME NEW v \in Writers, pc'[v] # "claim" PROVE Ready /\ job'[v] < next' /\ (v = w <=> job'[v] = next)
    BY <1>2, <2>1 DEF EmissionInv, TypeOK, JobsClaimed
  <2>2. ASSUME NEW u \in Writers, NEW v \in Writers, u # v, pc'[u] # "claim", pc'[v] # "claim"
        PROVE  job'[u] # job'[v]
    <3>1. CASE u = w \/ v = w
      BY <2>1, <2>2, <3>1
    <3>2. CASE u # w /\ v # w
      BY <1>2, <2>2, <3>2 DEF EmissionInv, TypeOK, JobsClaimed
    <3> QED
      BY <3>1, <3>2
  <2> QED
    BY <1>1, <2>1, <2>2, InputKeptHolds DEF JobsClaimed
<1> QED
  BY <1>1, <1>3, <1>4, InputKeptHolds DEF EmissionInv

(* A worker that has its job moves on or gives it up.                      *)
LEMMA MoveHolds ==
  ASSUME EmissionInv, InputKept, NEW w \in Writers,
         pc[w] # "claim", UNCHANGED <<next, job>>,
         NEW at \in {"claim", "begin", "fill"}, pc' = [pc EXCEPT ![w] = at],
         files' \in [DOMAIN files' -> Sources \cup {Nothing}],
         stdout' \in Seq([part : {"separator", "body"}, of : Sources]),
         written' \subseteq Sources
  PROVE  EmissionInv'
<1>1. TypeOK'
  <2>1. pc' \in [Writers -> {"claim", "begin", "fill"}]
    BY DEF EmissionInv, TypeOK
  <2>2. \A v \in Writers : job'[v] \in 1 .. Len(rels) \/ pc'[v] = "claim"
    BY DEF EmissionInv, TypeOK
  <2> QED
    BY <2>1, <2>2, InputKeptHolds DEF EmissionInv, TypeOK
<1>2. JobsClaimed'
  <2>1. \A v \in Writers : pc'[v] # "claim" => pc[v] # "claim"
    BY DEF EmissionInv, TypeOK
  <2> QED
    BY <2>1, InputKeptHolds DEF EmissionInv, JobsClaimed
<1> QED
  BY <1>1, <1>2, InputKeptHolds DEF EmissionInv

(* The source of a job a worker has is a source of the command.            *)
LEMMA SourceTypes ==
  ASSUME EmissionInv, NEW w \in Writers, pc[w] # "claim"
  PROVE  Source(job[w]) \in Sources
<1>1. job[w] \in 1 .. Len(rels) /\ Len(rels) \in Nat /\ Len(rels) <= MaxJobs
  BY DEF EmissionInv, TypeOK, PlanTypeOK
<1>2. job[w] \in 1 .. MaxJobs
  BY <1>1, PlanBounds
<1> QED
  BY <1>2 DEF EmissionInv, TypeOK, Source, Sources

LEMMA PutTypes ==
  ASSUME EmissionInv, NEW k, NEW content \in Sources \cup {Nothing}, Put(k, content)
  PROVE  files' \in [DOMAIN files' -> Sources \cup {Nothing}]
BY DEF Put, EmissionInv, TypeOK

LEMMA WriteHolds ==
  ASSUME EmissionInv, NEW w \in Writers, Write(w)
  PROVE  EmissionInv'
<1> USE DEF outputs
<1>1. /\ files \in [DOMAIN files -> Sources \cup {Nothing}]
      /\ stdout \in Seq([part : {"separator", "body"}, of : Sources])
      /\ written \subseteq Sources
  BY DEF EmissionInv, TypeOK
<1>2. CASE Claim(w)
  BY <1>2, ClaimHolds
<1>3. CASE Skip(w)
  BY <1>1, <1>3, MoveHolds DEF Skip, InputKept
<1>4. CASE CreateFile(w)
  <2>1. files' \in [DOMAIN files' -> Sources \cup {Nothing}]
    BY <1>1, <1>4, PutTypes DEF CreateFile
  <2>2. InputKept /\ pc[w] # "claim" /\ UNCHANGED <<next, job, stdout, written>>
    BY <1>4 DEF CreateFile, InputKept
  <2>3. CASE pc' = [pc EXCEPT ![w] = "fill"]
    BY <1>1, <2>1, <2>2, <2>3, MoveHolds
  <2>4. CASE pc' = [pc EXCEPT ![w] = "claim"]
    BY <1>1, <2>1, <2>2, <2>4, MoveHolds
  <2> QED
    BY <1>4, <2>3, <2>4 DEF CreateFile
<1>5. CASE FillFile(w)
  <2>1. Source(job[w]) \in Sources
    BY <1>5, SourceTypes DEF FillFile
  <2>2. files' \in [DOMAIN files' -> Sources \cup {Nothing}] /\ written' \subseteq Sources
    BY <1>1, <1>5, <2>1, PutTypes DEF FillFile
  <2> QED
    BY <1>1, <1>5, <2>2, MoveHolds DEF FillFile, InputKept
<1>6. CASE PrintSeparator(w)
  <2>1. Source(job[w]) \in Sources
    BY <1>6, SourceTypes DEF PrintSeparator
  <2>2. stdout' \in Seq([part : {"separator", "body"}, of : Sources])
    <3>1. CASE HasSeparator(job[w])
      <4>1. stdout' = Append(stdout, [part |-> "separator", of |-> Source(job[w])])
        BY <1>6, <3>1 DEF PrintSeparator, ToStdout
      <4> QED
        BY <1>1, <2>1, <4>1
    <3>2. CASE ~HasSeparator(job[w])
      BY <1>1, <1>6, <3>2 DEF PrintSeparator
    <3> QED
      BY <3>1, <3>2
  <2> QED
    BY <1>1, <1>6, <2>2, MoveHolds DEF PrintSeparator, InputKept
<1>7. CASE PrintBody(w)
  <2>1. Source(job[w]) \in Sources
    BY <1>7, SourceTypes DEF PrintBody
  <2>2. stdout' \in Seq([part : {"separator", "body"}, of : Sources]) /\ written' \subseteq Sources
    BY <1>1, <1>7, <2>1 DEF PrintBody, ToStdout
  <2> QED
    BY <1>1, <1>7, <2>2, MoveHolds DEF PrintBody, InputKept
<1> QED
  BY <1>2, <1>3, <1>4, <1>5, <1>6, <1>7 DEF Write

LEMMA EmissionStepHolds == EmissionInv /\ [Next]_vars => EmissionInv'
<1> SUFFICES ASSUME EmissionInv, [Next]_vars PROVE EmissionInv'
  OBVIOUS
<1>1. CASE UNCHANGED vars
  <2>1. PlanInv'
    BY <1>1, PlanKept DEF vars, EmissionInv
  <2> QED
    BY <1>1, <2>1 DEF vars, planVars, batchVars, outputs, EmissionInv, TypeOK, PlanTypeOK, Sources,
       JobsClaimed, ListingIsOpen, Ready, HasPlan, Target, This, Planned
<1>2. CASE Main
  BY <1>2, OpenHolds, OpenFailsHolds, PlanHolds, CloseHolds DEF Main
<1>3. CASE \E w \in Writers : Write(w)
  BY <1>3, WriteHolds
<1> QED
  BY <1>1, <1>2, <1>3 DEF Next, Over

THEOREM EmissionInvariant == Spec => []EmissionInv
BY EmissionInitHolds, EmissionStepHolds, PTL DEF Spec

(* The state of a command has its type, whatever its inputs and workers.   *)
THEOREM EmissionTypeCorrect == Spec => []TypeOK
BY EmissionInvariant, PTL DEF EmissionInv

(* No two classes of one input are ever planned to one file.               *)
THEOREM CollisionFree == Spec => []PathsDistinct
BY EmissionInvariant, PTL DEF EmissionInv, PlanInv

(* The note in a file is there exactly when its path is not the class's.   *)
THEOREM NotesAreExact == Spec => []NotedIffRenamed
BY EmissionInvariant, PTL DEF EmissionInv, PlanInv

(* No class loses its path to a class that does not have it.               *)
THEOREM NoNeedlessRename == Spec => []KeptUnlessTaken
BY EmissionInvariant, PTL DEF EmissionInv, PlanInv

(* Two workers are never in the middle of one file, planned or not.        *)
LEMMA OneWriterPerFile == EmissionInv => NoSharedFile
<1> SUFFICES ASSUME EmissionInv, NEW v \in Writers, NEW w \in Writers,
                    v # w, pc[v] = "fill", pc[w] = "fill", Target.to # "stdout"
             PROVE  Place(job[v]) # Place(job[w])
  BY DEF NoSharedFile
<1>1. /\ job[v] \in 1 .. Len(rels) /\ job[w] \in 1 .. Len(rels) /\ job[v] # job[w]
      /\ Ready /\ rels = This.lists
  BY DEF EmissionInv, TypeOK, JobsClaimed, ListingIsOpen, Ready
<1>2. This.kind # "class"
  <2>1. SUFFICES ASSUME This.kind = "class" PROVE FALSE
    OBVIOUS
  <2>2. Len(rels) = 1
    BY <1>1, <2>1, CommandTypes DEF EmissionInv, TypeOK, This
  <2> QED
    BY <1>1, <2>2
<1>3. HasPlan
  <2>1. Target # Bail
    BY <1>1 DEF EmissionInv, ListingIsOpen, Ready
  <2>2. Target.to \in {"stdout", "dir"} \/ Target = Bail
    BY <1>2 DEF Target, ResolveTarget, Stdout, OneFile, Bail, Dir
  <2> QED
    BY <1>2, <2>1, <2>2 DEF HasPlan
<1>4. File(plan[job[v]]) # File(plan[job[w]])
  BY <1>1, <1>3 DEF Ready, Planned, EmissionInv, PlanInv, PathsDistinct
<1>5. Place(job[v]) = <<Target.dir, File(plan[job[v]])>>
      /\ Place(job[w]) = <<Target.dir, File(plan[job[w]])>>
  BY <1>3 DEF Place, HasPlan
<1> QED
  BY <1>4, <1>5

THEOREM FilesAreNotShared == Spec => []NoSharedFile
BY EmissionInvariant, OneWriterPerFile, PTL

-----------------------------------------------------------------------------
(***************************************************************************)
(* What a command reports as written is where it wrote it, in a file or on *)
(* stdout, for any inputs, any number of workers, any case folding and any *)
(* failing writes.                                                         *)
(*                                                                         *)
(* DeliveryInv adds to EmissionInv that a reported class is behind the     *)
(* counter and in nobody's hands (Reported), that a file holds a reported  *)
(* class whose place it is (FilesHold), and how far the printing of each   *)
(* class has come (Printed).                                               *)
(***************************************************************************)

TargetOf(s) == ResolveTarget(command, command.inputs[s[1]])

\* The class s may be held by the file k.
MayHold(k, s) ==
  /\ \/ k = <<"file">> /\ Len(command.inputs) = 1
     \/ TargetOf(s).to = "dir" /\ k[1] = TargetOf(s).dir
  /\ s[1] = input => k = Place(s[2])

Reported ==
  \A s \in written :
    /\ s[1] <= input
    /\ s[1] = input => /\ Ready \/ phase = "ended"
                       /\ s[2] < next
                       /\ \A w \in Writers : pc[w] # "claim" => job[w] # s[2]

FilesHold ==
  \A k \in DOMAIN files : files[k] # Nothing => files[k] \in written /\ MayHold(k, files[k])

\* Where a part of a class is in a list of printed parts.
Shown(list, p, s) == {k \in 1 .. Len(list) : list[k] = [part |-> p, of |-> s]}
Packaged(s) ==
  command.inputs[s[1]].kind # "class" /\ command.inputs[s[1]].lists[s[2]].stem \in InPackage

Printed ==
  \A s \in Sources :
    /\ Shown(stdout, "body", s) # {} <=> s \in written /\ ~InFile(s)
    /\ \A p \in {"separator", "body"} : \A j, k \in Shown(stdout, p, s) : j = k
    /\ \A b \in Shown(stdout, "body", s) : (\E h \in Shown(stdout, "separator", s) : h < b) <=> Packaged(s)
    /\ Shown(stdout, "separator", s) # {} =>
         ~InFile(s) /\ (s \in written \/ \E w \in Writers : pc[w] = "fill" /\ Source(job[w]) = s)

Separated ==
  \A w \in Writers :
    pc[w] = "fill" /\ Target.to = "stdout" =>
      (Shown(stdout, "separator", Source(job[w])) # {} <=> HasSeparator(job[w]))

DeliveryInv == EmissionInv /\ Reported /\ FilesHold /\ KeptUnlessShared /\ Printed /\ Separated

-----------------------------------------------------------------------------
\* What a worker's job is.
LEMMA JobInHand ==
  ASSUME DeliveryInv, NEW w \in Writers, pc[w] # "claim"
  PROVE  /\ Source(job[w]) \in Sources /\ Source(job[w])[1] = input /\ Source(job[w])[2] = job[w]
         /\ Source(job[w]) \notin written
         /\ job[w] \in 1 .. Len(rels) /\ job[w] < next
         /\ Ready /\ Target # Bail /\ rels = This.lists
         /\ TargetOf(Source(job[w])) = Target
         /\ InFile(Source(job[w])) <=> Target.to # "stdout"
         /\ Packaged(Source(job[w])) <=> HasSeparator(job[w])
<1>1. Source(job[w]) \in Sources /\ Source(job[w])[1] = input /\ Source(job[w])[2] = job[w]
  BY SourceTypes DEF DeliveryInv, Source
<1>2. Ready /\ job[w] < next /\ job[w] \in 1 .. Len(rels)
  BY DEF DeliveryInv, EmissionInv, TypeOK, JobsClaimed
<1>3. rels = This.lists /\ Target # Bail
  BY <1>2 DEF DeliveryInv, EmissionInv, ListingIsOpen, Ready
<1>4. Source(job[w]) \notin written
  BY <1>1 DEF DeliveryInv, Reported
<1>5. TargetOf(Source(job[w])) = Target
  BY <1>1 DEF TargetOf, Target, This
<1>6. InFile(Source(job[w])) <=> Target.to # "stdout"
  BY <1>1 DEF InFile, Target, This
<1>7. Packaged(Source(job[w])) <=> HasSeparator(job[w])
  BY <1>1, <1>3 DEF Packaged, HasSeparator, This
<1> QED
  BY <1>1, <1>2, <1>3, <1>4, <1>5, <1>6, <1>7

\* Where a job's file is, and that it is no other's.
LEMMA TargetKinds ==
  ASSUME NEW c, NEW in
  PROVE  /\ ResolveTarget(c, in) \in {Stdout, Bail, OneFile} \/ ResolveTarget(c, in) = Dir(ResolveTarget(c, in).dir)
         /\ ResolveTarget(c, in).to \in {"stdout", "bail", "file", "dir"}
         /\ ResolveTarget(c, in).to = "bail" => ResolveTarget(c, in) = Bail
         /\ ResolveTarget(c, in).to = "file" => in.kind = "class" /\ Len(c.inputs) = 1
         /\ ResolveTarget(c, in).to = "dir" => ResolveTarget(c, in) = Dir(ResolveTarget(c, in).dir)
BY DEF ResolveTarget, Stdout, Bail, OneFile, Dir

LEMMA OwnPlaces ==
  ASSUME EmissionInv, Ready, Target.to # "stdout", NEW i \in 1 .. Len(rels), NEW j \in 1 .. Len(rels)
  PROVE  /\ \/ Place(i) = <<"file">> /\ Len(command.inputs) = 1
            \/ Target.to = "dir" /\ Place(i)[1] = Target.dir
         /\ i # j => Place(i) # Place(j)
<1>1. rels = This.lists /\ Target # Bail
  BY DEF EmissionInv, ListingIsOpen, Ready
<1>2. Target.to \in {"file", "dir"} /\ (Target.to = "file" => This.kind = "class" /\ Len(command.inputs) = 1)
  BY <1>1, TargetKinds DEF Target
<1>3. This.kind = "class" => Len(rels) = 1
  BY <1>1, CommandTypes DEF EmissionInv, TypeOK, This
<1>4. \/ Place(i) = <<"file">> /\ Len(command.inputs) = 1
      \/ Target.to = "dir" /\ Place(i)[1] = Target.dir
  <2>1. CASE Target.to = "file"
    <3>1. Place(i) = <<"file">>
      BY <2>1 DEF Place, HasPlan
    <3> QED
      BY <1>2, <2>1, <3>1
  <2>2. CASE Target.to = "dir"
    <3>1. Place(i)[1] = Target.dir
      BY <2>2 DEF Place
    <3> QED
      BY <2>2, <3>1
  <2> QED
    BY <1>2, <2>1, <2>2
<1>5. ASSUME i # j PROVE Place(i) # Place(j)
  <2>1. Len(rels) # 1
    BY <1>5
  <2> HIDE DEF Place
  <2>5. This.kind # "class"
    BY <1>3, <2>1
  <2>2. HasPlan
    BY <1>2, <2>5 DEF HasPlan
  <2>3. File(plan[i]) # File(plan[j])
    BY <1>5, <2>2 DEF Ready, Planned, EmissionInv, PlanInv, PathsDistinct
  <2>4. Place(i) = <<Target.dir, File(plan[i])>> /\ Place(j) = <<Target.dir, File(plan[j])>>
    BY <2>2 DEF Place, HasPlan
  <2> QED
    BY <2>3, <2>4
<1> QED
  BY <1>4, <1>5

\* A class whose file a worker opens is one of an earlier input, with the
\* directory of this one.
LEMMA OverwrittenIsShared ==
  ASSUME DeliveryInv, NEW w \in Writers, pc[w] # "claim", Target.to # "stdout",
         Place(job[w]) \in DOMAIN files, files[Place(job[w])] # Nothing
  PROVE  LET s == files[Place(job[w])] IN
           /\ input \in s[1] + 1 .. input
           /\ Target.to = "dir" /\ Target = TargetOf(s)
<1> SUFFICES ASSUME NEW k, NEW s, k = Place(job[w]), s = files[k]
             PROVE  input \in s[1] + 1 .. input /\ Target.to = "dir" /\ Target = TargetOf(s)
  OBVIOUS
<1>1. s \in written /\ MayHold(k, s)
  BY DEF DeliveryInv, FilesHold
<1>2. s[1] \in Nat /\ s[2] \in 1 .. MaxJobs /\ s[1] >= 1 /\ s[1] <= input /\ input \in Nat
      /\ Len(command.inputs) \in Nat /\ input <= Len(command.inputs) /\ Len(rels) \in Nat /\ MaxJobs \in Nat /\ next \in 1 .. Len(rels) + 1
  BY <1>1, PlanBounds DEF DeliveryInv, EmissionInv, TypeOK, PlanTypeOK, Reported, Sources
<1>3. Ready /\ job[w] \in 1 .. Len(rels)
  BY JobInHand
<1>4. s[1] # input
  <2> SUFFICES ASSUME s[1] = input PROVE FALSE
    OBVIOUS
  <2>1. s[2] < next /\ job[w] # s[2] /\ k = Place(s[2])
    BY <1>1 DEF DeliveryInv, Reported, MayHold
  <2>2. s[2] \in 1 .. Len(rels)
    BY <1>2, <2>1
  <2> QED
    BY <1>3, <2>1, <2>2, OwnPlaces DEF DeliveryInv
<1>5. Len(command.inputs) # 1
  <2>1. \A a, b, n \in Nat : a >= 1 /\ a <= b /\ b <= n /\ a # b => n # 1
    OBVIOUS
  <2> QED
    BY <1>2, <1>4, <2>1
<1>6. Target.to = "dir" /\ k[1] = Target.dir
  BY <1>3, <1>5, OwnPlaces DEF DeliveryInv
<1>7. TargetOf(s).to = "dir" /\ k[1] = TargetOf(s).dir
  BY <1>1, <1>5 DEF MayHold
<1>8. Target = Dir(k[1]) /\ TargetOf(s) = Dir(k[1])
  <2>1. \A c, in : ResolveTarget(c, in).to = "dir" => ResolveTarget(c, in) = Dir(ResolveTarget(c, in).dir)
    BY TargetKinds
  <2>2. Target = Dir(Target.dir)
    BY <1>6, <2>1 DEF Target
  <2>3. TargetOf(s) = Dir(TargetOf(s).dir)
    BY <1>7, <2>1 DEF TargetOf
  <2> QED
    BY <1>6, <1>7, <2>2, <2>3
<1>9. input \in s[1] + 1 .. input
  BY <1>2, <1>4
<1> QED
  BY <1>6, <1>8, <1>9

-----------------------------------------------------------------------------
\* The main thread's steps: nobody has a job, and what was reported is of an
\* earlier input or of the one that stays.
LEMMA MainKeeps ==
  ASSUME DeliveryInv, UNCHANGED <<outputs, command, pc, job>>,
         input' \in {input, input + 1}, \A w \in Writers : pc[w] = "claim",
         \A s \in written : s[1] = input' =>
           /\ input' = input /\ UNCHANGED <<rels, plan, next>>
           /\ Ready' \/ phase' = "ended"
  PROVE  Reported' /\ FilesHold' /\ KeptUnlessShared' /\ Printed' /\ Separated'
<1>1. /\ files' = files /\ stdout' = stdout /\ written' = written /\ command' = command /\ pc' = pc /\ job' = job
      /\ input \in Nat /\ \A s \in written : s[1] \in Nat /\ s[1] <= input
  BY DEF outputs, DeliveryInv, EmissionInv, TypeOK, Reported, Sources
<1>2. \A s : TargetOf(s)' = TargetOf(s) /\ (InFile(s)' <=> InFile(s)) /\ (Packaged(s)' <=> Packaged(s))
  BY <1>1 DEF TargetOf, InFile, Packaged
<1>3. Reported'
  <2> SUFFICES ASSUME NEW s \in written
               PROVE  /\ s[1] <= input'
                      /\ s[1] = input' => /\ Ready' \/ phase' = "ended"
                                          /\ s[2] < next'
                                          /\ \A w \in Writers : pc'[w] # "claim" => job'[w] # s[2]
    BY <1>1 DEF Reported
  <2>1. s[1] <= input'
    BY <1>1
  <2>2. s[1] = input' => s[2] < next'
    BY DEF DeliveryInv, Reported
  <2> QED
    BY <1>1, <2>1, <2>2
<1>4. FilesHold'
  <2> SUFFICES ASSUME NEW k \in DOMAIN files, files[k] # Nothing
               PROVE  files[k] \in written /\ MayHold(k, files[k])'
    BY <1>1 DEF FilesHold
  <2>1. files[k] \in written /\ MayHold(k, files[k])
    BY DEF DeliveryInv, FilesHold
  <2>2. files[k][1] = input' => \A j : Place(j)' = Place(j)
    <3>1. SUFFICES ASSUME files[k][1] = input' PROVE \A j : Place(j)' = Place(j)
      OBVIOUS
    <3>2. input' = input /\ rels' = rels /\ plan' = plan
      BY <2>1, <3>1
    <3>3. Target' = Target /\ This' = This
      BY <1>1, <3>2 DEF Target, This
    <3> QED
      BY <3>2, <3>3 DEF Place, HasPlan
  <2>3. files[k][1] = input' => input' = input
    BY <2>1
  <2> QED
    BY <1>1, <1>2, <2>1, <2>2, <2>3 DEF MayHold
<1>5. KeptUnlessShared'
  <2> SUFFICES ASSUME NEW s \in written, InFile(s), ~\E k \in DOMAIN files : files[k] = s
               PROVE  \E i \in s[1] + 1 .. input' :
                        ResolveTarget(command, command.inputs[i]).to = "dir"
                        /\ ResolveTarget(command, command.inputs[i]) = ResolveTarget(command, command.inputs[s[1]])
    BY <1>1, <1>2 DEF KeptUnlessShared
  <2>1. PICK i \in s[1] + 1 .. input :
               ResolveTarget(command, command.inputs[i]).to = "dir"
               /\ ResolveTarget(command, command.inputs[i]) = ResolveTarget(command, command.inputs[s[1]])
    BY DEF DeliveryInv, KeptUnlessShared
  <2>2. i \in s[1] + 1 .. input'
    BY <1>1
  <2> QED
    BY <2>1, <2>2
<1>6. Printed'
  <2>1. Sources' = Sources
    BY <1>1 DEF Sources
  <2> SUFFICES ASSUME NEW s \in Sources
               PROVE  /\ Shown(stdout, "body", s) # {} <=> s \in written /\ ~InFile(s)
                      /\ \A p \in {"separator", "body"} : \A j, k \in Shown(stdout, p, s) : j = k
                      /\ \A b \in Shown(stdout, "body", s) : (\E h \in Shown(stdout, "separator", s) : h < b) <=> Packaged(s)
                      /\ Shown(stdout, "separator", s) # {} => ~InFile(s) /\ s \in written
    BY <1>1, <1>2, <2>1 DEF Printed
  <2>2. \A w \in Writers : pc[w] # "fill"
    OBVIOUS
  <2> QED
    BY <2>2 DEF DeliveryInv, Printed
<1>7. Separated'
  BY <1>1 DEF Separated
<1> QED
  BY <1>3, <1>4, <1>5, <1>6, <1>7

LEMMA MainDelivers ==
  ASSUME DeliveryInv, Main
  PROVE  Reported' /\ FilesHold' /\ KeptUnlessShared' /\ Printed' /\ Separated'
<1>1. ASSUME phase = "open" \/ (~Ready /\ phase = "work")
      PROVE  /\ \A w \in Writers : pc[w] = "claim"
             /\ \A s \in written : s[1] # input
  BY <1>1 DEF DeliveryInv, EmissionInv, JobsClaimed, Reported, Ready
<1>2. CASE Open
  BY <1>1, <1>2, MainKeeps DEF Open
<1>3. CASE OpenFails
  BY <1>1, <1>3, MainKeeps DEF OpenFails, batchVars
<1>4. CASE Plan
  <2>1. ~Ready
    <3>1. Job <= Len(rels)
      BY <1>4 DEF Plan, PlanStep, PlanFree, PlanTaken, Choose
    <3>2. Len(plan) < Len(rels)
      BY <3>1 DEF Job, DeliveryInv, EmissionInv, TypeOK, PlanTypeOK
    <3> QED
      BY <1>4, <3>2 DEF Ready, Plan, Planned, DeliveryInv, EmissionInv, TypeOK, PlanTypeOK
  <2> QED
    BY <1>1, <1>4, <2>1, MainKeeps DEF Plan, batchVars
<1>5. CASE CloseInput
  <2>1. /\ UNCHANGED <<outputs, command, pc, job, rels, plan, next>>
        /\ \A w \in Writers : pc[w] = "claim"
        /\ \/ input' = input + 1
           \/ input' = input /\ phase' = "ended"
    BY <1>5 DEF CloseInput, planVars, batchVars
  <2>2. \A s \in written : s[1] # input + 1
    BY DEF DeliveryInv, EmissionInv, TypeOK, Reported, Sources
  <2> QED
    BY <2>1, <2>2, MainKeeps
<1> QED
  BY <1>2, <1>3, <1>4, <1>5 DEF Main

-----------------------------------------------------------------------------
\* A worker's steps leave the input, its plan and the places alone.
LEMMA SamePlaces ==
  ASSUME InputKept
  PROVE  /\ \A s : TargetOf(s)' = TargetOf(s) /\ (InFile(s)' <=> InFile(s)) /\ (Packaged(s)' <=> Packaged(s))
         /\ \A k, s : MayHold(k, s)' <=> MayHold(k, s)
         /\ \A j : Place(j)' = Place(j) /\ Source(j)' = Source(j) /\ (HasSeparator(j)' <=> HasSeparator(j))
         /\ Target' = Target /\ Sources' = Sources /\ (Ready' <=> Ready)
<1>1. command' = command /\ input' = input /\ rels' = rels /\ plan' = plan /\ phase' = phase
  BY DEF InputKept, planVars
<1>2. Target' = Target /\ This' = This /\ Sources' = Sources
  BY <1>1 DEF Target, This, Sources
<1>3. \A s : TargetOf(s)' = TargetOf(s) /\ (InFile(s)' <=> InFile(s)) /\ (Packaged(s)' <=> Packaged(s))
  BY <1>1 DEF TargetOf, InFile, Packaged
<1>4. \A j : Place(j)' = Place(j) /\ Source(j)' = Source(j) /\ (HasSeparator(j)' <=> HasSeparator(j))
  BY <1>1, <1>2 DEF Place, HasPlan, Source, HasSeparator
<1>5. \A k, s : MayHold(k, s)' <=> MayHold(k, s)
  BY <1>1, <1>3, <1>4 DEF MayHold
<1>6. Ready' <=> Ready
  BY <1>1, <1>2 DEF Ready, HasPlan, Planned
<1> QED
  BY <1>2, <1>3, <1>4, <1>5, <1>6

LEMMA OutputsKept ==
  ASSUME DeliveryInv, InputKept, UNCHANGED <<files, written>>
  PROVE  FilesHold' /\ KeptUnlessShared'
<1>1. FilesHold'
  BY SamePlaces DEF DeliveryInv, FilesHold
<1>2. KeptUnlessShared'
  <2>1. command' = command /\ input' = input
    BY DEF InputKept
  <2> QED
    BY <2>1, SamePlaces DEF DeliveryInv, KeptUnlessShared
<1> QED
  BY <1>1, <1>2

\* A job that is claimed is that of no reported class.
LEMMA ClaimDelivers ==
  ASSUME DeliveryInv, NEW w \in Writers, Claim(w)
  PROVE  DeliveryInv'
<1>1. /\ InputKept /\ Ready /\ UNCHANGED <<files, stdout, written>>
      /\ pc[w] = "claim" /\ next' = next + 1
      /\ job' = [job EXCEPT ![w] = next] /\ pc' = [pc EXCEPT ![w] = "begin"]
  BY DEF Claim, InputKept, outputs
<1>2. /\ next \in Nat /\ input' = input /\ phase' = phase
      /\ \A v \in Writers : v # w => job'[v] = job[v] /\ pc'[v] = pc[v]
      /\ job'[w] = next /\ pc'[w] = "begin"
      /\ \A s \in written : s[2] \in Nat
  BY <1>1 DEF InputKept, DeliveryInv, EmissionInv, TypeOK, PlanTypeOK, Sources
<1>3. EmissionInv'
  BY ClaimHolds DEF DeliveryInv
<1>4. Reported'
  <2> SUFFICES ASSUME NEW s \in written
               PROVE  /\ s[1] <= input
                      /\ s[1] = input => /\ Ready
                                         /\ s[2] < next + 1
                                         /\ \A v \in Writers : pc'[v] # "claim" => job'[v] # s[2]
    BY <1>1, <1>2, SamePlaces DEF Reported
  <2>1. s[1] <= input
    BY DEF DeliveryInv, Reported
  <2>2. s[1] = input => s[2] < next /\ \A v \in Writers : pc[v] # "claim" => job[v] # s[2]
    BY DEF DeliveryInv, Reported
  <2> QED
    BY <1>1, <1>2, <2>1, <2>2
<1>5. FilesHold' /\ KeptUnlessShared'
  BY <1>1, OutputsKept
<1>6. \A v \in Writers : pc'[v] = "fill" <=> pc[v] = "fill"
  BY <1>1, <1>2
<1>7. \A v \in Writers : pc[v] = "fill" => job'[v] = job[v]
  BY <1>1, <1>2
<1>8. Printed'
  BY <1>1, <1>6, <1>7, SamePlaces DEF DeliveryInv, Printed
<1>9. Separated'
  BY <1>1, <1>6, <1>7, SamePlaces DEF DeliveryInv, Separated
<1> QED
  BY <1>3, <1>4, <1>5, <1>8, <1>9 DEF DeliveryInv

\* A worker that has its job.
Moves(w, at) ==
  /\ InputKept
  /\ pc[w] # "claim"
  /\ UNCHANGED <<next, job>>
  /\ at \in {"claim", "fill"}
  /\ pc' = [pc EXCEPT ![w] = at]

LEMMA MovesOnly ==
  ASSUME DeliveryInv, NEW w \in Writers, NEW at, Moves(w, at)
  PROVE  /\ pc'[w] = at /\ \A v \in Writers : v # w => pc'[v] = pc[v]
         /\ \A v \in Writers : pc'[v] # "claim" => pc[v] # "claim"
         /\ job' = job /\ next' = next /\ input' = input /\ phase' = phase /\ command' = command
BY DEF Moves, InputKept, DeliveryInv, EmissionInv, TypeOK

LEMMA MoveReports ==
  ASSUME DeliveryInv, NEW w \in Writers, NEW at, Moves(w, at),
         \/ written' = written
         \/ written' = written \cup {Source(job[w])} /\ at = "claim"
  PROVE  Reported'
<1>1. InputKept /\ pc[w] # "claim"
  BY DEF Moves
<1>2. ASSUME NEW s \in written
      PROVE  /\ s[1] <= input
             /\ s[1] = input => Ready /\ s[2] < next /\ \A v \in Writers : pc[v] # "claim" => job[v] # s[2]
  BY <1>1, JobInHand DEF DeliveryInv, Reported
<1>3. ASSUME NEW s, s = Source(job[w]), at = "claim"
      PROVE  /\ s[1] <= input /\ Ready /\ s[2] < next
             /\ \A v \in Writers : pc'[v] # "claim" => job[v] # s[2]
  <2>1. s[1] = input /\ s[2] = job[w] /\ Ready /\ job[w] < next /\ input \in Nat
    BY <1>1, <1>3, JobInHand DEF DeliveryInv, EmissionInv, TypeOK
  <2>2. \A v \in Writers : pc'[v] # "claim" => v # w /\ pc[v] # "claim"
    BY <1>3, MovesOnly
  <2>3. \A v \in Writers : v # w /\ pc[v] # "claim" => job[v] # job[w]
    BY <1>1 DEF DeliveryInv, EmissionInv, JobsClaimed
  <2> QED
    BY <2>1, <2>2, <2>3
<1>4. ASSUME NEW s \in written'
      PROVE  /\ s[1] <= input
             /\ s[1] = input => Ready /\ s[2] < next /\ \A v \in Writers : pc'[v] # "claim" => job[v] # s[2]
  <2>1. CASE s \in written
    BY <1>2, <2>1, MovesOnly
  <2>2. CASE s = Source(job[w]) /\ at = "claim"
    BY <1>3, <2>2
  <2> QED
    BY <1>4, <2>1, <2>2
<1> QED
  BY <1>1, <1>4, MovesOnly, SamePlaces DEF Reported

LEMMA PutDelivers ==
  ASSUME DeliveryInv, NEW w \in Writers, pc[w] # "claim", InputKept, Target.to # "stdout",
         NEW content, Put(Place(job[w]), content),
         \/ content = Nothing /\ written' = written
         \/ content = Source(job[w]) /\ written' = written \cup {content}
  PROVE  FilesHold' /\ KeptUnlessShared'
<1> DEFINE here == Place(job[w])
<1>1. /\ DOMAIN files' = DOMAIN files \cup {here} /\ files'[here] = content
      /\ \A k \in DOMAIN files : k # here => files'[k] = files[k]
  BY DEF Put
<1>2. /\ Ready /\ Target # Bail /\ job[w] \in 1 .. Len(rels)
      /\ Source(job[w])[1] = input /\ Source(job[w])[2] = job[w] /\ TargetOf(Source(job[w])) = Target
  BY JobInHand
<1>3. command' = command /\ input' = input
  BY DEF InputKept
<1>4. MayHold(here, Source(job[w]))
  <2>1. \/ here = <<"file">> /\ Len(command.inputs) = 1
        \/ Target.to = "dir" /\ here[1] = Target.dir
    BY <1>2, OwnPlaces DEF DeliveryInv
  <2> HIDE DEF here
  <2>2. here = Place(job[w])
    BY DEF here
  <2> QED
    BY <1>2, <2>1, <2>2 DEF MayHold
<1> HIDE DEF here
<1>5. FilesHold'
  <2> SUFFICES ASSUME NEW k \in DOMAIN files', files'[k] # Nothing
               PROVE  files'[k] \in written' /\ MayHold(k, files'[k])
    BY SamePlaces DEF FilesHold
  <2>1. CASE k = here
    BY <1>1, <1>4, <2>1
  <2>2. CASE k # here
    <3>1. k \in DOMAIN files /\ files'[k] = files[k]
      BY <1>1, <2>2
    <3> QED
      BY <3>1 DEF DeliveryInv, FilesHold
  <2> QED
    BY <2>1, <2>2
<1>6. KeptUnlessShared'
  <2> SUFFICES ASSUME NEW s \in written', InFile(s), ~\E k \in DOMAIN files' : files'[k] = s
               PROVE  \E i \in s[1] + 1 .. input :
                        ResolveTarget(command, command.inputs[i]).to = "dir"
                        /\ ResolveTarget(command, command.inputs[i]) = ResolveTarget(command, command.inputs[s[1]])
    BY <1>3, SamePlaces DEF KeptUnlessShared
  <2>1. s \in written
    BY <1>1
  <2>2. CASE \E k \in DOMAIN files : files[k] = s
    <3>1. here \in DOMAIN files /\ files[here] = s
      BY <1>1, <2>2
    <3>2. s # Nothing
      <4>1. s \in Sources
        BY <2>1 DEF DeliveryInv, EmissionInv, TypeOK
      <4>2. PICK i, j : s = <<i, j>>
        BY <4>1 DEF Sources
      <4>3. <<i, j>> # <<>>
        OBVIOUS
      <4> QED
        BY <4>2, <4>3 DEF Nothing
    <3>3. input \in s[1] + 1 .. input /\ Target.to = "dir" /\ Target = TargetOf(s)
      BY <3>1, <3>2, OverwrittenIsShared DEF here
    <3> QED
      BY <3>3 DEF Target, This, TargetOf
  <2>3. CASE ~\E k \in DOMAIN files : files[k] = s
    BY <2>1, <2>3 DEF DeliveryInv, KeptUnlessShared
  <2> QED
    BY <2>2, <2>3
<1> QED
  BY <1>5, <1>6

LEMMA NothingPrinted ==
  ASSUME DeliveryInv, NEW w \in Writers, NEW at, Moves(w, at), stdout' = stdout,
         \/ pc[w] = "begin" /\ at = "claim" /\ written' = written
         \/ /\ Target.to # "stdout"
            /\ written' = written \/ written' = written \cup {Source(job[w])}
  PROVE  Printed' /\ Separated'
<1>1. InputKept /\ pc[w] # "claim"
  BY DEF Moves
<1>2. /\ Source(job[w]) \in Sources
      /\ InFile(Source(job[w])) <=> Target.to # "stdout"
  BY <1>1, JobInHand
<1>3. ASSUME NEW s, ~InFile(s)
      PROVE  /\ s \in written' <=> s \in written
             /\ \A v \in Writers : pc[v] = "fill" /\ Source(job[v]) = s => pc'[v] = "fill"
  <2>1. s \in written' <=> s \in written
    BY <1>2, <1>3
  <2>2. ASSUME NEW v \in Writers, pc[v] = "fill", Source(job[v]) = s PROVE pc'[v] = "fill"
    <3>1. CASE v = w
      BY <1>2, <1>3, <2>2, <3>1
    <3>2. CASE v # w
      BY <2>2, <3>2, MovesOnly
    <3> QED
      BY <3>1, <3>2
  <2> QED
    BY <2>1, <2>2
<1>4. Printed'
  <2> SUFFICES ASSUME NEW s \in Sources
               PROVE  /\ Shown(stdout, "body", s) # {} <=> s \in written' /\ ~InFile(s)
                      /\ \A p \in {"separator", "body"} : \A j, k \in Shown(stdout, p, s) : j = k
                      /\ \A b \in Shown(stdout, "body", s) : (\E h \in Shown(stdout, "separator", s) : h < b) <=> Packaged(s)
                      /\ Shown(stdout, "separator", s) # {} =>
                           ~InFile(s) /\ (s \in written' \/ \E v \in Writers : pc'[v] = "fill" /\ Source(job[v]) = s)
    BY <1>1, SamePlaces, MovesOnly DEF Printed
  <2> QED
    BY <1>3 DEF DeliveryInv, Printed
<1>5. Separated'
  <2> SUFFICES ASSUME NEW v \in Writers, pc'[v] = "fill", Target.to = "stdout"
               PROVE  Shown(stdout, "separator", Source(job[v])) # {} <=> HasSeparator(job[v])
    BY <1>1, SamePlaces, MovesOnly DEF Separated
  <2>1. v # w /\ pc[v] = "fill"
    BY MovesOnly
  <2> QED
    BY <2>1 DEF DeliveryInv, Separated
<1> QED
  BY <1>4, <1>5

\* A part that is printed is shown at the end, and nothing else changes.
LEMMA PartAppended ==
  ASSUME DeliveryInv, NEW p \in {"separator", "body"}, NEW s \in Sources,
         stdout' = Append(stdout, [part |-> p, of |-> s])
  PROVE  /\ Shown(stdout', p, s) = Shown(stdout, p, s) \cup {Len(stdout) + 1}
         /\ \A q, t : ~(q = p /\ t = s) => Shown(stdout', q, t) = Shown(stdout, q, t)
         /\ \A q, t : \A k \in Shown(stdout, q, t) : k < Len(stdout) + 1
<1>1. /\ stdout \in Seq([part : {"separator", "body"}, of : Sources])
      /\ [part |-> p, of |-> s] \in [part : {"separator", "body"}, of : Sources]
  BY DEF DeliveryInv, EmissionInv, TypeOK
<1>2. /\ Len(stdout) \in Nat /\ Len(stdout') = Len(stdout) + 1
      /\ stdout'[Len(stdout) + 1] = [part |-> p, of |-> s]
      /\ \A k \in 1 .. Len(stdout) : stdout'[k] = stdout[k]
  BY <1>1
<1>3. 1 .. Len(stdout') = (1 .. Len(stdout)) \cup {Len(stdout) + 1}
      /\ \A k \in 1 .. Len(stdout) : k < Len(stdout) + 1
  BY <1>2
<1>4. ASSUME NEW q, NEW t, ~(q = p /\ t = s) PROVE [part |-> p, of |-> s] # [part |-> q, of |-> t]
  BY <1>4
<1>5. Shown(stdout', p, s) = Shown(stdout, p, s) \cup {Len(stdout) + 1}
  BY <1>2, <1>3 DEF Shown
<1>6. ASSUME NEW q, NEW t, ~(q = p /\ t = s) PROVE Shown(stdout', q, t) = Shown(stdout, q, t)
  BY <1>2, <1>3, <1>4, <1>6 DEF Shown
<1>7. \A q, t : \A k \in Shown(stdout, q, t) : k < Len(stdout) + 1
  BY <1>3 DEF Shown
<1> QED
  BY <1>5, <1>6, <1>7

LEMMA SeparatorDelivers ==
  ASSUME DeliveryInv, NEW w \in Writers, PrintSeparator(w)
  PROVE  Printed' /\ Separated'
<1> DEFINE mine == Source(job[w])
           sep(s) == Shown(stdout, "separator", s)
<1>1. /\ Moves(w, "fill") /\ pc[w] = "begin" /\ Target.to = "stdout" /\ written' = written
      /\ stdout' = IF HasSeparator(job[w]) THEN Append(stdout, [part |-> "separator", of |-> mine]) ELSE stdout
  BY DEF PrintSeparator, Moves, InputKept, ToStdout
<1>2. /\ InputKept /\ mine \in Sources /\ mine \notin written /\ ~InFile(mine)
      /\ mine[2] = job[w]
  BY <1>1, JobInHand DEF Moves
<1>3. \A v \in Writers : v # w /\ pc[v] # "claim" => Source(job[v]) # mine
  BY <1>1 DEF DeliveryInv, EmissionInv, JobsClaimed, Source
<1>4. sep(mine) = {} /\ Shown(stdout, "body", mine) = {}
  BY <1>1, <1>2, <1>3 DEF DeliveryInv, Printed
<1>5. ASSUME NEW p \in {"separator", "body"}, NEW s \in Sources
      PROVE  /\ ~(p = "separator" /\ s = mine) => Shown(stdout', p, s) = Shown(stdout, p, s)
             /\ HasSeparator(job[w]) => Shown(stdout', "separator", mine) = {Len(stdout) + 1}
             /\ ~HasSeparator(job[w]) => Shown(stdout', "separator", mine) = {}
  <2>1. CASE HasSeparator(job[w])
    <3>2. stdout' = Append(stdout, [part |-> "separator", of |-> mine])
      BY <1>1, <2>1
    <3> HIDE DEF mine
    <3>3. ~(p = "separator" /\ s = mine) => Shown(stdout', p, s) = Shown(stdout, p, s)
      BY <1>2, <3>2, PartAppended
    <3>4. Shown(stdout', "separator", mine) = sep(mine) \cup {Len(stdout) + 1}
      BY <1>2, <3>2, PartAppended
    <3> QED
      BY <1>4, <2>1, <3>3, <3>4
  <2>2. CASE ~HasSeparator(job[w])
    BY <1>1, <1>4, <2>2
  <2> QED
    BY <2>1, <2>2
<1> HIDE DEF mine
<1>6. \A v \in Writers : pc[v] = "fill" => pc'[v] = "fill"
  BY <1>1, MovesOnly
<1>7. Printed'
  <2> SUFFICES ASSUME NEW s \in Sources
               PROVE  /\ Shown(stdout', "body", s) # {} <=> s \in written /\ ~InFile(s)
                      /\ \A p \in {"separator", "body"} : \A j, k \in Shown(stdout', p, s) : j = k
                      /\ \A b \in Shown(stdout', "body", s) : (\E h \in Shown(stdout', "separator", s) : h < b) <=> Packaged(s)
                      /\ Shown(stdout', "separator", s) # {} =>
                           ~InFile(s) /\ (s \in written \/ \E v \in Writers : pc'[v] = "fill" /\ Source(job[v]) = s)
    <3>1. written' = written /\ job' = job
      BY <1>1, MovesOnly
    <3> QED
      BY <1>2, <3>1, SamePlaces DEF Printed
  <2>1. Shown(stdout', "body", s) = Shown(stdout, "body", s)
    BY <1>5
  <2>2. CASE s = mine
    <3>1. Shown(stdout', "body", s) = {}
      BY <1>4, <2>1, <2>2
    <3>2. \A j, k \in Shown(stdout', "separator", s) : j = k
      BY <1>2, <1>5, <2>2
    <3>3. pc'[w] = "fill" /\ Source(job[w]) = s
      BY <1>1, <2>2, MovesOnly DEF mine
    <3> QED
      BY <1>2, <2>2, <3>1, <3>2, <3>3
  <2>3. CASE s # mine
    <3>1. Shown(stdout', "separator", s) = Shown(stdout, "separator", s)
      BY <1>5, <2>3
    <3> QED
      BY <1>6, <2>1, <3>1 DEF DeliveryInv, Printed
  <2> QED
    BY <2>2, <2>3
<1>8. Separated'
  <2> SUFFICES ASSUME NEW v \in Writers, pc'[v] = "fill", Target.to = "stdout"
               PROVE  Shown(stdout', "separator", Source(job[v])) # {} <=> HasSeparator(job[v])
    BY <1>2, <1>1, SamePlaces, MovesOnly DEF Separated
  <2>1. CASE v = w
    <3>1. Source(job[v]) = mine
      BY <2>1 DEF mine
    <3> QED
      BY <1>2, <1>5, <2>1, <3>1
  <2>2. CASE v # w
    <3>1. pc[v] = "fill"
      BY <1>1, <2>2, MovesOnly
    <3>2. Source(job[v]) # mine /\ Source(job[v]) \in Sources
      BY <1>3, <2>2, <3>1, JobInHand
    <3> QED
      BY <1>5, <3>1, <3>2 DEF DeliveryInv, Separated
  <2> QED
    BY <2>1, <2>2
<1> QED
  BY <1>7, <1>8

LEMMA BodyDelivers ==
  ASSUME DeliveryInv, NEW w \in Writers, PrintBody(w)
  PROVE  Printed' /\ Separated'
<1> DEFINE mine == Source(job[w])
           sep(s) == Shown(stdout, "separator", s)
<1>1. /\ Moves(w, "claim") /\ pc[w] = "fill" /\ Target.to = "stdout" /\ written' = written \cup {mine}
      /\ stdout' = Append(stdout, [part |-> "body", of |-> mine])
  BY DEF PrintBody, Moves, InputKept, ToStdout
<1>2. /\ InputKept /\ mine \in Sources /\ mine \notin written /\ ~InFile(mine)
      /\ mine[2] = job[w] /\ (Packaged(mine) <=> HasSeparator(job[w]))
  BY <1>1, JobInHand DEF Moves
<1>3. \A v \in Writers : v # w /\ pc[v] # "claim" => Source(job[v]) # mine
  BY <1>1 DEF DeliveryInv, EmissionInv, JobsClaimed, Source
<1>4. Shown(stdout, "body", mine) = {}
  BY <1>2 DEF DeliveryInv, Printed
<1>6. sep(mine) # {} <=> Packaged(mine)
  BY <1>1, <1>2 DEF DeliveryInv, Separated
<1> HIDE DEF mine
<1>7. ASSUME NEW p \in {"separator", "body"}, NEW s
      PROVE  ~(p = "body" /\ s = mine) => Shown(stdout', p, s) = Shown(stdout, p, s)
  BY <1>1, <1>2, PartAppended
<1>8. Shown(stdout', "body", mine) = {Len(stdout) + 1}
  <2>1. Shown(stdout', "body", mine) = Shown(stdout, "body", mine) \cup {Len(stdout) + 1}
    BY <1>1, <1>2, PartAppended
  <2> QED
    BY <1>4, <2>1
<1>9. \A h \in sep(mine) : h < Len(stdout) + 1
  BY <1>1, <1>2, PartAppended
<1>10. Printed'
  <2> SUFFICES ASSUME NEW s \in Sources
               PROVE  /\ Shown(stdout', "body", s) # {} <=> s \in written' /\ ~InFile(s)
                      /\ \A p \in {"separator", "body"} : \A j, k \in Shown(stdout', p, s) : j = k
                      /\ \A b \in Shown(stdout', "body", s) : (\E h \in Shown(stdout', "separator", s) : h < b) <=> Packaged(s)
                      /\ Shown(stdout', "separator", s) # {} =>
                           ~InFile(s) /\ (s \in written' \/ \E v \in Writers : pc'[v] = "fill" /\ Source(job[v]) = s)
    BY <1>1, <1>2, SamePlaces, MovesOnly DEF Printed
  <2>1. Shown(stdout', "separator", s) = sep(s)
    BY <1>7
  <2>2. CASE s = mine
    <3>1. \A b \in Shown(stdout', "body", s) : (\E h \in sep(s) : h < b) <=> Packaged(s)
      BY <1>6, <1>8, <1>9, <2>2
    <3>2. \A j, k \in sep(s) : j = k
      BY DEF DeliveryInv, Printed
    <3>3. \A j, k \in Shown(stdout', "body", s) : j = k
      BY <1>8, <2>2
    <3> QED
      BY <1>1, <1>2, <1>8, <2>1, <2>2, <3>1, <3>2, <3>3
  <2>3. CASE s # mine
    <3>1. Shown(stdout', "body", s) = Shown(stdout, "body", s)
      BY <1>7, <2>3
    <3>2. s \in written' <=> s \in written
      BY <1>1, <2>3
    <3>3. \A v \in Writers : pc[v] = "fill" /\ Source(job[v]) = s => pc'[v] = "fill"
      <4>1. \A v \in Writers : Source(job[v]) = s => v # w
        BY <2>3 DEF mine
      <4> QED
        BY <1>1, <4>1, MovesOnly
    <3> QED
      BY <2>1, <3>1, <3>2, <3>3 DEF DeliveryInv, Printed
  <2> QED
    BY <2>2, <2>3
<1>11. Separated'
  <2> SUFFICES ASSUME NEW v \in Writers, pc'[v] = "fill", Target.to = "stdout"
               PROVE  Shown(stdout', "separator", Source(job[v])) # {} <=> HasSeparator(job[v])
    BY <1>1, <1>2, SamePlaces, MovesOnly DEF Separated
  <2>1. v # w /\ pc[v] = "fill"
    BY <1>1, MovesOnly
  <2> QED
    BY <1>7, <2>1 DEF DeliveryInv, Separated
<1> QED
  BY <1>10, <1>11

-----------------------------------------------------------------------------
LEMMA WriteDelivers ==
  ASSUME DeliveryInv, NEW w \in Writers, Write(w)
  PROVE  DeliveryInv'
<1>1. EmissionInv'
  BY WriteHolds DEF DeliveryInv
<1>2. CASE Claim(w)
  BY <1>2, ClaimDelivers
<1>3. CASE Skip(w)
  <2>1. Moves(w, "claim") /\ pc[w] = "begin" /\ UNCHANGED <<files, stdout, written>>
    BY <1>3 DEF Skip, Moves, InputKept, outputs
  <2>2. Reported' /\ Printed' /\ Separated'
    BY <2>1, MoveReports, NothingPrinted
  <2>3. FilesHold' /\ KeptUnlessShared'
    BY <2>1, OutputsKept DEF Moves
  <2> QED
    BY <1>1, <2>2, <2>3 DEF DeliveryInv
<1>4. CASE CreateFile(w)
  <2>1. PICK at \in {"claim", "fill"} :
          /\ Moves(w, at)
          /\ Put(Place(job[w]), Nothing) \/ UNCHANGED files
    BY <1>4 DEF CreateFile, Moves, InputKept
  <2>2. Target.to # "stdout" /\ UNCHANGED <<stdout, written>>
    BY <1>4 DEF CreateFile
  <2>3. Reported' /\ Printed' /\ Separated'
    BY <2>1, <2>2, MoveReports, NothingPrinted
  <2>4. FilesHold' /\ KeptUnlessShared'
    BY <2>1, <2>2, OutputsKept, PutDelivers DEF Moves
  <2> QED
    BY <1>1, <2>3, <2>4 DEF DeliveryInv
<1>5. CASE FillFile(w)
  <2>1. Moves(w, "claim") /\ Target.to # "stdout" /\ stdout' = stdout
    BY <1>5 DEF FillFile, Moves, InputKept
  <2>2. \/ Put(Place(job[w]), Source(job[w])) /\ written' = written \cup {Source(job[w])}
        \/ UNCHANGED <<files, written>>
    BY <1>5 DEF FillFile
  <2>3. Reported' /\ Printed' /\ Separated'
    BY <2>1, <2>2, MoveReports, NothingPrinted
  <2>4. FilesHold' /\ KeptUnlessShared'
    BY <2>1, <2>2, OutputsKept, PutDelivers DEF Moves
  <2> QED
    BY <1>1, <2>3, <2>4 DEF DeliveryInv
<1>6. CASE PrintSeparator(w)
  <2>1. Moves(w, "fill") /\ UNCHANGED <<files, written>>
    BY <1>6 DEF PrintSeparator, Moves, InputKept
  <2>2. Reported' /\ FilesHold' /\ KeptUnlessShared'
    BY <2>1, MoveReports, OutputsKept DEF Moves
  <2> QED
    BY <1>1, <1>6, <2>2, SeparatorDelivers DEF DeliveryInv
<1>7. CASE PrintBody(w)
  <2>1. Moves(w, "claim") /\ files' = files /\ written' = written \cup {Source(job[w])} /\ Target.to = "stdout"
    BY <1>7 DEF PrintBody, Moves, InputKept
  <2>2. Reported'
    BY <2>1, MoveReports
  <2>3. FilesHold' /\ KeptUnlessShared'
    <3>1. InputKept /\ ~InFile(Source(job[w]))
      BY <2>1, JobInHand DEF Moves
    <3>2. FilesHold'
      BY <2>1, <3>1, SamePlaces DEF DeliveryInv, FilesHold
    <3>3. KeptUnlessShared'
      <4>1. command' = command /\ input' = input
        BY <3>1 DEF InputKept
      <4> QED
        BY <2>1, <3>1, <4>1, SamePlaces DEF DeliveryInv, KeptUnlessShared
    <3> QED
      BY <3>2, <3>3
  <2> QED
    BY <1>1, <1>7, <2>2, <2>3, BodyDelivers DEF DeliveryInv
<1> QED
  BY <1>2, <1>3, <1>4, <1>5, <1>6, <1>7 DEF Write

LEMMA DeliveryInitHolds == Init => DeliveryInv
<1> SUFFICES ASSUME Init PROVE DeliveryInv
  OBVIOUS
<1>1. EmissionInv
  BY EmissionInitHolds
<1>2. Reported /\ FilesHold /\ KeptUnlessShared /\ Separated
  BY DEF Init, Reported, FilesHold, KeptUnlessShared, Separated
<1>3. Len(stdout) = 0 /\ \A p, s : Shown(stdout, p, s) = {}
  BY DEF Init, Shown
<1>4. Printed
  BY <1>3 DEF Init, Printed
<1> QED
  BY <1>1, <1>2, <1>4 DEF DeliveryInv

(* Reports, files and what was printed agree in every reachable state.     *)
THEOREM DeliveryInvariant == Spec => []DeliveryInv
<1>1. DeliveryInv /\ [Next]_vars => DeliveryInv'
  <2> SUFFICES ASSUME DeliveryInv, [Next]_vars PROVE DeliveryInv'
    OBVIOUS
  <2>1. EmissionInv'
    BY EmissionStepHolds DEF DeliveryInv
  <2>2. CASE Main
    BY <2>1, <2>2, MainDelivers DEF DeliveryInv
  <2>3. CASE \E w \in Writers : Write(w)
    BY <2>3, WriteDelivers
  <2>4. CASE UNCHANGED vars
    <3>1. InputKept /\ UNCHANGED <<outputs, pc, job, next>>
      BY <2>4 DEF vars, batchVars, InputKept
    <3>2. command' = command /\ input' = input /\ phase' = phase
      BY <3>1 DEF InputKept
    <3>3. FilesHold' /\ KeptUnlessShared'
      BY <3>1, OutputsKept DEF outputs
    <3>4. Reported' /\ Printed' /\ Separated'
      BY <3>1, <3>2, SamePlaces DEF outputs, DeliveryInv, Reported, Printed, Separated
    <3> QED
      BY <2>1, <3>3, <3>4 DEF DeliveryInv
  <2> QED
    BY <2>2, <2>3, <2>4 DEF Next, Over
<1> QED
  BY <1>1, DeliveryInitHolds, PTL DEF Spec

(* What was reported written is in a file, unless a later input has the    *)
(* same directory: no class of an input is lost to another of it, to case  *)
(* folding, to a failing write or to another target.                       *)
THEOREM ReportedIsKept == Spec => []KeptUnlessShared
BY DeliveryInvariant, PTL DEF DeliveryInv

(* A dump to stdout has one body for every class reported, after the       *)
(* separator that a class of a package gets, however the workers           *)
(* interleave.                                                             *)
THEOREM DumpIsExact == Spec => []PrintedOnce
<1>1. DeliveryInv => PrintedOnce
  <2> SUFFICES ASSUME DeliveryInv, NEW s \in Sources
               PROVE  /\ Cardinality(Shown(stdout, "body", s)) = IF s \in written /\ ~InFile(s) THEN 1 ELSE 0
                      /\ Cardinality(Shown(stdout, "separator", s)) <= 1
                      /\ \A b \in Shown(stdout, "body", s) :
                           (\E h \in Shown(stdout, "separator", s) : h < b) <=> Packaged(s)
    BY DEF PrintedOnce, Shown, Packaged
  <2>1. ASSUME NEW p \in {"separator", "body"}
        PROVE  Cardinality(Shown(stdout, p, s)) = IF Shown(stdout, p, s) = {} THEN 0 ELSE 1
    <3>1. CASE Shown(stdout, p, s) = {}
      BY <3>1, FS_EmptySet
    <3>2. CASE Shown(stdout, p, s) # {}
      <4>1. PICK k : k \in Shown(stdout, p, s)
        BY <3>2
      <4>2. Shown(stdout, p, s) = {k}
        BY <4>1 DEF DeliveryInv, Printed
      <4> QED
        BY <3>2, <4>2, FS_Singleton
    <3> QED
      BY <3>1, <3>2
  <2> QED
    BY <2>1 DEF DeliveryInv, Printed
<1> QED
  BY <1>1, DeliveryInvariant, PTL

-----------------------------------------------------------------------------
(***************************************************************************)
(* How far a command has to go, whatever its inputs, its workers and the   *)
(* failures of its writes: the search for a free name of `plan_rels` ends, *)
(* somebody can always go on, and every step uses up one of a number of    *)
(* steps that the command line fixes.                                      *)
(***************************************************************************)

(* A path that is taken has a free renaming among the first suffixes, no   *)
(* more of them than paths planned so far: the loop over n ends.           *)
FreeSuffix ==
    Job <= Len(rels) /\ Key(Wanted) \in used
        => \E n \in 0 .. Len(plan) : FirstFree(Wanted, n)

LEMMA SuffixesDiffer ==
  ASSUME NEW p \in Rels, NEW m \in Nat, NEW n \in Nat, m # n
  PROVE  Key(Candidate(p, m)) # Key(Candidate(p, n))
<1>1. p.tail \in Seq(Nat) /\ Len(p.tail) \in Nat
  BY DEF Rels
<1>2. Append(p.tail, m)[Len(p.tail) + 1] = m /\ Append(p.tail, n)[Len(p.tail) + 1] = n
  BY <1>1
<1>3. ASSUME NEW k \in Nat
      PROVE  Key(Candidate(p, k)).tail = Append(p.tail, k)
  <2>1. Candidate(p, k) \in Rels /\ Candidate(p, k).tail = Append(p.tail, k)
    BY PathTypes DEF Candidate, Rels
  <2> QED
    BY <2>1 DEF Key, Rels
<1> QED
  BY <1>2, <1>3

LEMMA SearchEnds == PlanInv => FreeSuffix
<1> SUFFICES ASSUME PlanInv, Job <= Len(rels), Key(Wanted) \in used
             PROVE  \E n \in 0 .. Len(plan) : FirstFree(Wanted, n)
  BY DEF FreeSuffix
<1> DEFINE L == Len(plan)
           K == [n \in 0 .. L |-> Key(Candidate(Wanted, n))]
           Free == {n \in Nat : Key(Candidate(Wanted, n)) \notin used}
<1>1. L \in Nat /\ Wanted \in Rels
  <2>1. L \in Nat /\ rels[Job] \in Rels
    BY DEF PlanInv, PlanTypeOK, Job
  <2> QED
    BY <2>1, PathTypes DEF Wanted
<1>2. IsFiniteSet(used) /\ Cardinality(used) <= L /\ Cardinality(used) \in Nat
  <2>1. [k \in 1 .. L |-> Key(plan[k])] \in Surjection(1 .. L, used)
    BY DEF PlanInv, UsedIsTaken, Surjection
  <2>2. IsFiniteSet(1 .. L) /\ Cardinality(1 .. L) = L
    <3>1. 1 \in Int /\ L \in Int
      BY <1>1
    <3>2. IsFiniteSet(1 .. L) /\ Cardinality(1 .. L) = IF 1 > L THEN 0 ELSE L - 1 + 1
      BY <3>1, FS_Interval, Zenon
    <3> QED
      BY <1>1, <3>2
  <2> QED
    BY <2>1, <2>2, FS_Surjection, FS_CardinalityType
<1>3. IsFiniteSet(0 .. L) /\ Cardinality(0 .. L) = L + 1
  <2>1. 0 \in Int /\ L \in Int
    BY <1>1
  <2>2. IsFiniteSet(0 .. L) /\ Cardinality(0 .. L) = IF 0 > L THEN 0 ELSE L - 0 + 1
    BY <2>1, FS_Interval, Zenon
  <2> QED
    BY <1>1, <2>2
<1>4. \E n \in 0 .. L : n \in Free
  <2> SUFFICES ASSUME \A n \in 0 .. L : n \notin Free
               PROVE  FALSE
    OBVIOUS
  <2>1. K \in [0 .. L -> used]
    BY <1>1
  <2>2. Cardinality(used) < Cardinality(0 .. L)
    BY <1>1, <1>2, <1>3
  <2>3. PICK m, n \in 0 .. L : m # n /\ K[m] = K[n]
    <3> HIDE DEF K
    <3> QED
      BY <1>2, <1>3, <2>1, <2>2, FS_PigeonHole
  <2> QED
    BY <1>1, <2>3, SuffixesDiffer
<1>5. PICK n \in Free : \A m \in Free : n <= m
  <2>1. Free \subseteq Nat /\ Free # {}
    BY <1>1, <1>4
  <2>2. PICK n \in Free : \A m \in Free : ~(<<m, n>> \in OpToRel(<, Nat))
    <3> HIDE DEF Free
    <3> QED
      BY <2>1, NatLessThanWellFounded, WFMin
  <2>3. \A m \in Free : ~(m < n)
    BY <2>1, <2>2 DEF OpToRel
  <2> QED
    BY <2>1, <2>3
<1>6. n \in 0 .. L /\ n \in Nat
  BY <1>1, <1>4, <1>5
<1>7. FirstFree(Wanted, n)
  <2>1. ASSUME NEW m \in 0 .. n - 1
        PROVE  Key(Candidate(Wanted, m)) \in used
    <3>1. m \in Nat /\ ~(n <= m)
      BY <1>6
    <3> QED
      BY <1>5, <3>1
  <2> QED
    BY <1>5, <2>1 DEF FirstFree
<1> QED
  BY <1>6, <1>7

(* Planning never gets stuck: for every class of every input the search    *)
(* for a free suffix ends, after at most as many tries as there are        *)
(* classes before it.                                                      *)
THEOREM SuffixIsFound == Spec => []FreeSuffix
BY EmissionInvariant, SearchEnds, PTL DEF EmissionInv

(* What the batch of a listed input has left: the paths to choose, three   *)
(* steps of a worker for each class not claimed (the claim, the file or    *)
(* separator, the source), what the workers have begun, and the joins.     *)
Holding == {w \in Writers : pc[w] # "claim"}
Beginning == {w \in Writers : pc[w] = "begin"}
ListingLeft == (Len(rels) - Len(plan)) + 3 * (Len(rels) + 1 - next)
BatchLeft == ListingLeft + Cardinality(Holding) + Cardinality(Beginning) + 1

StepsOfAnInput == 4 * MaxJobs + 2
LaterInputs == (Len(command.inputs) - input) * StepsOfAnInput
StepsOfACommand == Len(command.inputs) * StepsOfAnInput

StepsLeft ==
    CASE phase = "open" -> LaterInputs + StepsOfAnInput
      [] phase = "work" -> LaterInputs + BatchLeft
      [] OTHER -> 0

UsesUpAStep == StepsLeft' < StepsLeft

LEMMA HoldersTyped ==
  ASSUME NEW at
  PROVE  LET H == {w \in Writers : at[w] # "claim"}
             G == {w \in Writers : at[w] = "begin"}
         IN  /\ IsFiniteSet(H) /\ IsFiniteSet(G)
             /\ Cardinality(H) \in Nat /\ Cardinality(G) \in Nat
BY SomeWriters, FS_Subset, FS_CardinalityType

LEMMA InputsMultiply ==
  ASSUME NEW n \in Nat, NEW i \in 1 .. n
  PROVE  /\ StepsOfAnInput \in Nat
         /\ (n - i) * StepsOfAnInput \in Nat
         /\ n * StepsOfAnInput \in Nat
         /\ (n - i) * StepsOfAnInput + StepsOfAnInput <= n * StepsOfAnInput
         /\ i < n => (n - (i + 1)) * StepsOfAnInput + StepsOfAnInput = (n - i) * StepsOfAnInput
<1> DEFINE k == StepsOfAnInput
<1>1. k \in Nat
  BY PlanBounds DEF StepsOfAnInput
<1> HIDE DEF k
<1>2. ASSUME NEW a \in Nat
      PROVE  a * k \in Nat /\ (a + 1) * k = a * k + k
  BY <1>1
<1>3. ASSUME NEW a \in Nat, NEW b \in Nat
      PROVE  (a + b) * k = a * k + b * k
  BY <1>1
<1>4. n - i \in Nat /\ n = (n - i) + i /\ i - 1 \in Nat /\ i = (i - 1) + 1
  OBVIOUS
<1>5. n * k = (n - i) * k + i * k /\ i * k = (i - 1) * k + k
  BY <1>2, <1>3, <1>4
<1>6. (i - 1) * k \in Nat /\ (n - i) * k \in Nat /\ n * k \in Nat
  BY <1>2, <1>4
<1>7. ASSUME i < n PROVE (n - (i + 1)) * k + k = (n - i) * k
  <2>1. n - (i + 1) \in Nat /\ n - i = (n - (i + 1)) + 1
    BY <1>7
  <2> QED
    BY <1>2, <2>1
<1>8. (n - i) * k + k <= n * k
  BY <1>1, <1>5, <1>6
<1> QED
  BY <1>1, <1>6, <1>7, <1>8 DEF k

LEMMA BatchTyped ==
  ASSUME EmissionInv
  PROVE  /\ Len(rels) \in Nat /\ Len(plan) \in 0 .. Len(rels) /\ next \in 1 .. Len(rels) + 1
         /\ Len(command.inputs) \in Nat /\ input \in 1 .. Len(command.inputs)
         /\ ListingLeft \in Nat
         /\ Cardinality(Holding) \in Nat /\ Cardinality(Beginning) \in Nat
         /\ BatchLeft \in Nat /\ BatchLeft >= 1
<1>1. /\ Len(rels) \in Nat /\ Len(plan) \in 0 .. Len(rels) /\ next \in 1 .. Len(rels) + 1
      /\ input \in 1 .. Len(command.inputs)
  BY DEF EmissionInv, TypeOK, PlanTypeOK
<1>2. Len(command.inputs) \in Nat
  BY CommandTypes DEF EmissionInv, TypeOK
<1>3. Cardinality(Holding) \in Nat /\ Cardinality(Beginning) \in Nat
  BY HoldersTyped DEF Holding, Beginning
<1>4. ListingLeft \in Nat
  BY <1>1 DEF ListingLeft
<1> QED
  BY <1>1, <1>2, <1>3, <1>4 DEF BatchLeft

LEMMA LeftTyped == EmissionInv => StepsLeft \in Nat
<1> SUFFICES ASSUME EmissionInv PROVE StepsLeft \in Nat
  OBVIOUS
<1>1. LaterInputs \in Nat /\ StepsOfAnInput \in Nat /\ BatchLeft \in Nat
  BY BatchTyped, InputsMultiply DEF LaterInputs
<1> QED
  BY <1>1 DEF StepsLeft

LEMMA SumsGrow ==
  ASSUME NEW a \in Int, NEW b \in Int, NEW c \in Int, b < c
  PROVE  a + b < a + c
OBVIOUS

LEMMA MainUsesUp ==
  ASSUME EmissionInv, EmissionInv', Main
  PROVE  UsesUpAStep /\ command' = command
<1>1. /\ LaterInputs \in Nat /\ StepsOfAnInput \in Nat /\ BatchLeft \in Nat /\ BatchLeft >= 1
      /\ Len(command.inputs) \in Nat /\ input \in 1 .. Len(command.inputs)
  BY BatchTyped, InputsMultiply DEF LaterInputs
<1>2. CASE Open
  <2>1. /\ phase = "open" /\ phase' = "work" /\ command' = command /\ input' = input /\ pc' = pc
        /\ plan' = <<>> /\ next' = 1
    BY <1>2 DEF Open
  <2>2. Holding' = {} /\ Beginning' = {}
    BY <2>1 DEF EmissionInv, JobsClaimed, Ready, Holding, Beginning
  <2>3. Cardinality(Holding') = 0 /\ Cardinality(Beginning') = 0
    BY <2>2, FS_EmptySet
  <2>4. Len(rels') \in Nat /\ Len(rels') <= MaxJobs /\ Len(plan') = 0
    BY <2>1 DEF EmissionInv, TypeOK, PlanTypeOK
  <2>5. BatchLeft' = 4 * Len(rels') + 1
    BY <2>1, <2>3, <2>4 DEF BatchLeft, ListingLeft
  <2>6. BatchLeft' < StepsOfAnInput
    BY <2>4, <2>5, PlanBounds DEF StepsOfAnInput
  <2>7. LaterInputs' = LaterInputs
    BY <2>1 DEF LaterInputs
  <2>8. StepsLeft = LaterInputs + StepsOfAnInput /\ StepsLeft' = LaterInputs' + BatchLeft'
    BY <2>1 DEF StepsLeft
  <2>9. BatchLeft' \in Nat
    BY <2>4, <2>5
  <2>10. StepsLeft' < StepsLeft
    <3>1. LaterInputs + BatchLeft' < LaterInputs + StepsOfAnInput
      <4>1. LaterInputs \in Int /\ BatchLeft' \in Int /\ StepsOfAnInput \in Int
        BY <1>1, <2>9
      <4> QED
        BY <2>6, <4>1, SumsGrow, Zenon
    <3> QED
      BY <2>7, <2>8, <3>1, Zenon
  <2> QED
    BY <2>1, <2>10 DEF UsesUpAStep
<1>3. CASE OpenFails
  <2>1. phase = "open" /\ phase' = "failed" /\ command' = command
    BY <1>3 DEF OpenFails
  <2>2. StepsLeft = LaterInputs + StepsOfAnInput /\ StepsLeft' = 0
    BY <2>1 DEF StepsLeft
  <2>3. StepsOfAnInput > 0
    BY PlanBounds DEF StepsOfAnInput
  <2> QED
    BY <1>1, <2>1, <2>2, <2>3 DEF UsesUpAStep
<1>4. CASE Plan
  <2>1. /\ phase = "work" /\ UNCHANGED <<command, input, phase, next, pc>> /\ rels' = rels
        /\ \E p, note : plan' = Append(plan, p)
    BY <1>4 DEF Plan, PlanStep, PlanFree, PlanTaken, Choose, batchVars
  <2>2. Len(plan') = Len(plan) + 1
    BY <2>1 DEF EmissionInv, TypeOK, PlanTypeOK
  <2>3. Holding' = Holding /\ Beginning' = Beginning /\ LaterInputs' = LaterInputs
    BY <2>1 DEF Holding, Beginning, LaterInputs
  <2>4. ListingLeft' = ListingLeft - 1 /\ ListingLeft \in Nat
    <3>1. Len(rels) \in Nat /\ Len(plan) \in Nat /\ next \in Nat /\ ListingLeft \in Nat
      BY BatchTyped
    <3> QED
      BY <2>1, <2>2, <3>1 DEF ListingLeft
  <2>5. BatchLeft' = BatchLeft - 1
    <3>1. Cardinality(Holding) \in Nat /\ Cardinality(Beginning) \in Nat
      BY BatchTyped
    <3> QED
      BY <2>3, <2>4, <3>1 DEF BatchLeft
  <2>6. StepsLeft = LaterInputs + BatchLeft /\ StepsLeft' = LaterInputs' + BatchLeft'
    BY <2>1 DEF StepsLeft
  <2>7. StepsLeft' < StepsLeft
    BY <1>1, <2>3, <2>5, <2>6
  <2> QED
    BY <2>1, <2>7 DEF UsesUpAStep
<1>5. CASE CloseInput
  <2>1. phase = "work" /\ command' = command
    BY <1>5 DEF CloseInput, Ready
  <2>2. StepsLeft = LaterInputs + BatchLeft
    BY <2>1 DEF StepsLeft
  <2>3. CASE input < Len(command.inputs)
    <3>1. input' = input + 1 /\ phase' = "open"
      BY <1>5, <2>3 DEF CloseInput
    <3>2. StepsLeft' = LaterInputs' + StepsOfAnInput
      BY <3>1 DEF StepsLeft
    <3>3. LaterInputs' + StepsOfAnInput = LaterInputs
      BY <1>1, <2>1, <2>3, <3>1, InputsMultiply DEF LaterInputs
    <3> QED
      BY <1>1, <2>1, <2>2, <3>2, <3>3 DEF UsesUpAStep
  <2>4. CASE ~(input < Len(command.inputs))
    <3>1. phase' = "ended"
      BY <1>5, <2>4 DEF CloseInput
    <3>2. StepsLeft' = 0
      BY <3>1 DEF StepsLeft
    <3> QED
      BY <1>1, <2>1, <2>2, <3>2 DEF UsesUpAStep
  <2> QED
    BY <2>3, <2>4
<1> QED
  BY <1>2, <1>3, <1>4, <1>5 DEF Main

LEMMA WriterUsesUp ==
  ASSUME EmissionInv, NEW w \in Writers, Write(w)
  PROVE  UsesUpAStep /\ command' = command
<1>1. /\ LaterInputs \in Nat /\ ListingLeft \in Nat /\ next \in Nat /\ Len(rels) \in Nat /\ Len(plan) \in Nat
  <2>1. /\ Len(command.inputs) \in Nat /\ input \in 1 .. Len(command.inputs) /\ ListingLeft \in Nat
        /\ next \in 1 .. Len(rels) + 1 /\ Len(rels) \in Nat /\ Len(plan) \in 0 .. Len(rels)
    BY BatchTyped
  <2>2. LaterInputs \in Nat
    BY <2>1, InputsMultiply DEF LaterInputs
  <2> QED
    BY <2>1, <2>2
<1>2. /\ IsFiniteSet(Holding) /\ IsFiniteSet(Beginning)
      /\ Cardinality(Holding) \in Nat /\ Cardinality(Beginning) \in Nat
  BY HoldersTyped DEF Holding, Beginning
<1>3. /\ UNCHANGED <<planVars, command, input, phase>>
      /\ phase = "work"
  BY DEF Write, Claim, Skip, CreateFile, FillFile, PrintSeparator, PrintBody,
         EmissionInv, JobsClaimed, Ready
<1>4. LaterInputs' = LaterInputs /\ rels' = rels /\ plan' = plan
  BY <1>3 DEF LaterInputs, planVars
<1>5. StepsLeft = LaterInputs + BatchLeft /\ StepsLeft' = LaterInputs' + BatchLeft'
  BY <1>3 DEF StepsLeft
<1>6. CASE Claim(w)
  <2>1. pc[w] = "claim" /\ pc' = [pc EXCEPT ![w] = "begin"] /\ next' = next + 1
    BY <1>6 DEF Claim
  <2>2. /\ Holding' = Holding \cup {w} /\ w \notin Holding
        /\ Beginning' = Beginning \cup {w} /\ w \notin Beginning
    BY <2>1 DEF Holding, Beginning, EmissionInv, TypeOK
  <2>3. Cardinality(Holding') = Cardinality(Holding) + 1 /\ Cardinality(Beginning') = Cardinality(Beginning) + 1
    BY <1>2, <2>2, FS_AddElement
  <2>4. ListingLeft' = ListingLeft - 3
    BY <1>1, <1>4, <2>1 DEF ListingLeft
  <2>5. BatchLeft' = BatchLeft - 1 /\ BatchLeft \in Int
    BY <1>1, <1>2, <2>3, <2>4 DEF BatchLeft
  <2>6. StepsLeft' < StepsLeft
    BY <1>1, <1>4, <1>5, <2>5
  <2> QED
    BY <1>3, <2>6 DEF UsesUpAStep
<1>7. ASSUME next' = next, NEW at \in {"claim", "fill"},
             pc[w] = "begin" \/ (pc[w] = "fill" /\ at = "claim"),
             pc' = [pc EXCEPT ![w] = at]
      PROVE  UsesUpAStep
  <2>1. ListingLeft' = ListingLeft
    BY <1>4, <1>7 DEF ListingLeft
  <2>2. /\ Holding' \subseteq Holding /\ Beginning' \subseteq Beginning
        /\ (w \in Holding /\ w \notin Holding') \/ (w \in Beginning /\ w \notin Beginning')
    BY <1>7 DEF Holding, Beginning, EmissionInv, TypeOK
  <2>3. ASSUME NEW S, NEW T, IsFiniteSet(S), T \subseteq S
        PROVE  /\ Cardinality(T) \in Nat /\ Cardinality(T) <= Cardinality(S)
               /\ T # S => Cardinality(T) < Cardinality(S)
    <3>1. /\ IsFiniteSet(T) /\ Cardinality(T) <= Cardinality(S)
          /\ Cardinality(S) = Cardinality(T) => S = T
      BY <2>3, FS_Subset
    <3>2. Cardinality(T) \in Nat /\ Cardinality(S) \in Nat
      BY <2>3, <3>1, FS_CardinalityType
    <3> QED
      BY <3>1, <3>2
  <2>4. /\ Cardinality(Holding') \in Nat /\ Cardinality(Holding') <= Cardinality(Holding)
        /\ Holding' # Holding => Cardinality(Holding') < Cardinality(Holding)
    BY <1>2, <2>2, <2>3
  <2>5. /\ Cardinality(Beginning') \in Nat /\ Cardinality(Beginning') <= Cardinality(Beginning)
        /\ Beginning' # Beginning => Cardinality(Beginning') < Cardinality(Beginning)
    BY <1>2, <2>2, <2>3
  <2>6. Cardinality(Holding') + Cardinality(Beginning') < Cardinality(Holding) + Cardinality(Beginning)
    <3>1. Holding' # Holding \/ Beginning' # Beginning
      BY <2>2
    <3> QED
      BY <1>2, <2>4, <2>5, <3>1
  <2>7. BatchLeft' < BatchLeft /\ BatchLeft \in Int /\ BatchLeft' \in Int
    BY <1>1, <1>2, <2>1, <2>4, <2>5, <2>6 DEF BatchLeft
  <2>8. StepsLeft' < StepsLeft
    <3>1. LaterInputs + BatchLeft' < LaterInputs + BatchLeft
      <4>1. LaterInputs \in Int
        BY <1>1
      <4> QED
        BY <2>7, <4>1, SumsGrow, Zenon
    <3> QED
      BY <1>4, <1>5, <3>1, Zenon
  <2> QED
    BY <2>8 DEF UsesUpAStep
<1>8. CASE Skip(w) \/ CreateFile(w) \/ PrintSeparator(w) \/ FillFile(w) \/ PrintBody(w)
  <2>1. /\ next' = next
        /\ \E at \in {"claim", "fill"} :
             /\ pc[w] = "begin" \/ (pc[w] = "fill" /\ at = "claim")
             /\ pc' = [pc EXCEPT ![w] = at]
    BY <1>8 DEF Skip, CreateFile, PrintSeparator, FillFile, PrintBody
  <2>2. PICK at \in {"claim", "fill"} :
             /\ pc[w] = "begin" \/ (pc[w] = "fill" /\ at = "claim")
             /\ pc' = [pc EXCEPT ![w] = at]
    BY <2>1
  <2> QED
    BY <1>3, <1>7, <2>1, <2>2, Zenon
<1> QED
  BY <1>3, <1>6, <1>8 DEF Write, UsesUpAStep

(* A command takes no more steps than its line fixes, 4 * MaxJobs + 2 for  *)
(* each input, and every step but idling after the end uses one up, so     *)
(* that no worker, failing write or renaming can keep it busy for ever.    *)
THEOREM CommandWindsDown ==
    Spec => [](StepsLeft \in 0 .. StepsOfACommand) /\ [][UsesUpAStep]_vars
<1> DEFINE Bounded == StepsLeft <= StepsOfACommand
<1>1. Init => Bounded
  <2> SUFFICES ASSUME Init PROVE Bounded
    OBVIOUS
  <2>1. EmissionInv /\ phase = "open"
    BY EmissionInitHolds DEF Init
  <2>2. StepsLeft = LaterInputs + StepsOfAnInput
    BY <2>1 DEF StepsLeft
  <2>3. LaterInputs + StepsOfAnInput <= StepsOfACommand
    BY <2>1, BatchTyped, InputsMultiply DEF LaterInputs, StepsOfACommand
  <2> QED
    BY <2>2, <2>3
<1>2. EmissionInv /\ EmissionInv' /\ [Next]_vars
        => (UsesUpAStep \/ UNCHANGED vars) /\ command' = command
  <2> SUFFICES ASSUME EmissionInv, EmissionInv', [Next]_vars
               PROVE  (UsesUpAStep \/ UNCHANGED vars) /\ command' = command
    OBVIOUS
  <2>1. CASE UNCHANGED vars
    BY <2>1 DEF vars
  <2>2. CASE Main
    BY <2>2, MainUsesUp
  <2>3. CASE \E w \in Writers : Write(w)
    BY <2>3, WriterUsesUp
  <2> QED
    BY <2>1, <2>2, <2>3 DEF Next, Over
<1>3. EmissionInv /\ EmissionInv' /\ Bounded /\ [Next]_vars => Bounded'
  <2> SUFFICES ASSUME EmissionInv, EmissionInv', Bounded, [Next]_vars PROVE Bounded'
    OBVIOUS
  <2>1. StepsOfACommand' = StepsOfACommand /\ StepsOfACommand \in Nat
    BY <1>2, BatchTyped, InputsMultiply DEF StepsOfACommand, StepsOfAnInput
  <2>2. StepsLeft \in Nat /\ StepsLeft' \in Nat
    <3>1. (EmissionInv => StepsLeft \in Nat)'
      BY LeftTyped, PTL
    <3> QED
      BY <3>1, LeftTyped
  <2>3. StepsLeft' <= StepsLeft
    <3>1. CASE UNCHANGED vars
      <4>1. StepsLeft' = StepsLeft
        BY <3>1 DEF vars, planVars, batchVars, StepsLeft, LaterInputs, StepsOfAnInput, BatchLeft,
                    ListingLeft, Holding, Beginning
      <4> QED
        BY <2>2, <4>1
    <3>2. CASE UsesUpAStep
      BY <2>2, <3>2 DEF UsesUpAStep
    <3> QED
      BY <1>2, <3>1, <3>2
  <2> QED
    BY <2>1, <2>2, <2>3
<1>4. EmissionInv /\ Bounded => StepsLeft \in 0 .. StepsOfACommand
  <2> SUFFICES ASSUME EmissionInv, Bounded PROVE StepsLeft \in 0 .. StepsOfACommand
    OBVIOUS
  <2>1. StepsLeft \in Nat /\ StepsOfACommand \in Nat
    BY LeftTyped, BatchTyped, InputsMultiply DEF StepsOfACommand
  <2> QED
    BY <2>1
<1>5. EmissionInv /\ EmissionInv' /\ [Next]_vars => [UsesUpAStep]_vars
  BY <1>2
<1> QED
  BY <1>1, <1>3, <1>4, <1>5, EmissionInvariant, PTL DEF Spec

(* When the main thread has a step to take, and when a worker has: to      *)
(* claim a class that is left, or to go on with the one it holds.          *)
CanPlan ==
    /\ phase = "work" /\ HasPlan /\ Job <= Len(rels)
    /\ \/ Key(Wanted) \notin used
       \/ \E n \in 0 .. Len(plan) : FirstFree(Wanted, n)

CanClose == Ready /\ next > Len(rels) /\ \A w \in Writers : pc[w] = "claim"

MainMoves == phase = "open" \/ CanPlan \/ CanClose

WriterMoves(w) ==
    \/ pc[w] # "claim"
    \/ Ready /\ next <= Len(rels)

SomebodyMoves == phase \in {"ended", "failed"} \/ MainMoves \/ \E w \in Writers : WriterMoves(w)

(* Before the command is over somebody can go on, the main thread or a     *)
(* worker: it never waits for a worker that has nothing to do, nor a       *)
(* worker for a path that is not found.                                    *)
THEOREM NobodyWaitsForNobody == Spec => []SomebodyMoves
<1>1. ASSUME EmissionInv, FreeSuffix
      PROVE  SomebodyMoves
  <2> USE <1>1 DEF EmissionInv, TypeOK
  <2>1. PICK w \in Writers : TRUE
    BY SomeWriters
  <2>2. CASE phase = "work" /\ ~Ready
    <3>1. HasPlan /\ Len(plan) # Len(rels)
      BY <2>2 DEF Ready, Planned
    <3>2. Job <= Len(rels)
      BY <3>1 DEF Job, PlanTypeOK
    <3> QED
      BY <2>2, <3>1, <3>2 DEF FreeSuffix, SomebodyMoves, MainMoves, CanPlan
  <2>3. CASE Ready
    <3>1. CASE next <= Len(rels)
      BY <2>1, <2>3, <3>1 DEF SomebodyMoves, WriterMoves
    <3>2. CASE ~(next <= Len(rels))
      <4>1. next > Len(rels)
        BY <3>2 DEF PlanTypeOK
      <4> QED
        BY <2>3, <4>1 DEF SomebodyMoves, MainMoves, CanClose, WriterMoves
    <3> QED
      BY <3>1, <3>2
  <2>4. CASE phase # "work"
    BY <2>4 DEF SomebodyMoves, MainMoves
  <2> QED
    BY <2>2, <2>3, <2>4
<1> QED
  BY <1>1, EmissionInvariant, SuffixIsFound, PTL

-----------------------------------------------------------------------------
(***************************************************************************)
(* The batch of every input is the Batch that WorkerPool implements in     *)
(* detail: while input i of n classes is worked off, each class is         *)
(* attempted once, what is counted are the sources reported for the input, *)
(* and the input is closed only after the last of its classes.             *)
(***************************************************************************)

\* The jobs of an input of n classes that are behind the counter and in nobody's hands.
Attempted(n) ==
    {j \in 0 .. n - 1 : j + 1 < next /\ \A w \in Writers : pc[w] # "claim" => job[w] # j + 1}
ReportedOf(i) == {s \in written : s[1] = i}
WorkedOff(i) == phase = "work" /\ input = i

B(i, n) == INSTANCE Batch WITH
    NJobs <- n,
    attempted <- Attempted(n),
    total <- Cardinality(ReportedOf(i)),
    returned <- ~WorkedOff(i)

BatchStarts(i, n) == (~WorkedOff(i) /\ WorkedOff(i)' /\ Len(rels') = n) => B(i, n)!BatchInit'
BatchGoesOn(i, n) == (WorkedOff(i) /\ Len(rels) = n) => [B(i, n)!BatchNext]_(B(i, n)!batchVars)

LEMMA ReportedFinite ==
  ASSUME DeliveryInv, NEW i
  PROVE  IsFiniteSet(ReportedOf(i)) /\ Cardinality(ReportedOf(i)) \in Nat
<1> DEFINE T == {<<i, j>> : j \in 1 .. MaxJobs}
<1>1. IsFiniteSet(1 .. MaxJobs)
  <2>1. 1 \in Int /\ MaxJobs \in Int
    BY PlanBounds
  <2> QED
    BY <2>1, FS_Interval, Zenon
<1>2. [j \in 1 .. MaxJobs |-> <<i, j>>] \in Surjection(1 .. MaxJobs, T)
  BY DEF Surjection
<1>3. IsFiniteSet(T)
  BY <1>1, <1>2, FS_Surjection
<1>4. ReportedOf(i) \subseteq T
  BY DEF ReportedOf, DeliveryInv, EmissionInv, TypeOK, Sources
<1> HIDE DEF T
<1> QED
  BY <1>3, <1>4, FS_Subset, FS_CardinalityType

LEMMA BatchIdles ==
  ASSUME NEW i, NEW n,
         Attempted(n)' = Attempted(n), written' = written, WorkedOff(i)' = WorkedOff(i)
  PROVE  BatchStarts(i, n) /\ BatchGoesOn(i, n)
<1>1. ReportedOf(i)' = ReportedOf(i)
  BY DEF ReportedOf
<1>2. UNCHANGED B(i, n)!batchVars
  BY <1>1 DEF B!batchVars
<1> QED
  BY <1>2 DEF BatchStarts, BatchGoesOn

LEMMA MainBatches ==
  ASSUME DeliveryInv, Main, NEW i \in Nat, NEW n \in Nat
  PROVE  BatchStarts(i, n) /\ BatchGoesOn(i, n)
<1>1. CASE Open
  <2>1. /\ phase = "open" /\ phase' = "work" /\ next' = 1
        /\ UNCHANGED <<input, written>>
    BY <1>1 DEF Open, outputs
  <2>2. ~WorkedOff(i)
    BY <2>1 DEF WorkedOff
  <2>3. ASSUME WorkedOff(i)'
        PROVE  B(i, n)!BatchInit'
    <3>1. Attempted(n)' = {}
      BY <2>1 DEF Attempted
    <3>2. ReportedOf(i)' = {}
      BY <2>1, <2>3 DEF DeliveryInv, Reported, Ready, WorkedOff, ReportedOf
    <3>3. Cardinality(ReportedOf(i)') = 0
      BY <3>2, FS_EmptySet
    <3> QED
      BY <2>3, <3>1, <3>3 DEF B!BatchInit
  <2> QED
    BY <2>2, <2>3 DEF BatchStarts, BatchGoesOn
<1>2. CASE OpenFails
  <2>1. ~WorkedOff(i) /\ ~WorkedOff(i)'
    BY <1>2 DEF OpenFails, WorkedOff
  <2> QED
    BY <2>1 DEF BatchStarts, BatchGoesOn
<1>3. CASE Plan
  <2>1. UNCHANGED <<input, phase, next, pc, job, written>>
    BY <1>3 DEF Plan, batchVars, outputs
  <2>2. Attempted(n)' = Attempted(n) /\ written' = written /\ WorkedOff(i)' = WorkedOff(i)
    BY <2>1 DEF Attempted, WorkedOff
  <2> QED
    BY <2>2, BatchIdles
<1>4. CASE CloseInput
  <2>1. /\ phase = "work" /\ phase' # "work" /\ next > Len(rels)
        /\ \A w \in Writers : pc[w] = "claim"
        /\ UNCHANGED <<next, pc, job, written>>
    BY <1>4 DEF CloseInput, Ready, batchVars, outputs
  <2>2. ~WorkedOff(i)'
    BY <2>1 DEF WorkedOff
  <2>3. ASSUME WorkedOff(i), Len(rels) = n
        PROVE  B(i, n)!Return
    <3>1. next \in Nat
      BY DEF DeliveryInv, EmissionInv, TypeOK, PlanTypeOK
    <3>2. Attempted(n) = 0 .. n - 1
      BY <2>1, <2>3, <3>1 DEF Attempted
    <3>3. Attempted(n)' = Attempted(n) /\ ReportedOf(i)' = ReportedOf(i)
      BY <2>1 DEF Attempted, ReportedOf
    <3> QED
      BY <2>2, <2>3, <3>2, <3>3 DEF B!Return, B!BatchJobs
  <2> QED
    BY <2>2, <2>3 DEF BatchStarts, BatchGoesOn, B!BatchNext
<1> QED
  BY <1>1, <1>2, <1>3, <1>4 DEF Main

LEMMA ClaimBatches ==
  ASSUME DeliveryInv, NEW w \in Writers, Claim(w), NEW i \in Nat, NEW n \in Nat
  PROVE  BatchStarts(i, n) /\ BatchGoesOn(i, n)
<1>1. /\ pc[w] = "claim" /\ pc' = [pc EXCEPT ![w] = "begin"]
      /\ job' = [job EXCEPT ![w] = next] /\ next' = next + 1
      /\ UNCHANGED <<input, phase, written>>
      /\ next \in Nat /\ pc \in [Writers -> {"claim", "begin", "fill"}] /\ DOMAIN job = Writers
  BY DEF Claim, outputs, DeliveryInv, EmissionInv, TypeOK, PlanTypeOK
<1>2. /\ pc'[w] # "claim" /\ job'[w] = next
      /\ \A v \in Writers : v # w => pc'[v] = pc[v] /\ job'[v] = job[v]
  BY <1>1
<1>3. ASSUME NEW j \in 0 .. n - 1
      PROVE  j \in Attempted(n)' <=> j \in Attempted(n)
  <2>1. (\A v \in Writers : pc'[v] # "claim" => job'[v] # j + 1)
          <=> next # j + 1 /\ \A v \in Writers : pc[v] # "claim" => job[v] # j + 1
    BY <1>1, <1>2
  <2>2. j + 1 < next' /\ next # j + 1 <=> j + 1 < next
    BY <1>1
  <2>3. j + 1 < next => next # j + 1
    BY <1>1
  <2> QED
    BY <2>1, <2>2, <2>3 DEF Attempted
<1>4. Attempted(n)' = Attempted(n)
  BY <1>3 DEF Attempted
<1>5. WorkedOff(i)' = WorkedOff(i)
  BY <1>1 DEF WorkedOff
<1> QED
  BY <1>1, <1>4, <1>5, BatchIdles

LEMMA MoveBatches ==
  ASSUME DeliveryInv, NEW w \in Writers, NEW at, Moves(w, at), NEW i \in Nat, NEW n \in Nat,
         \/ written' = written
         \/ written' = written \cup {Source(job[w])} /\ at = "claim"
  PROVE  BatchStarts(i, n) /\ BatchGoesOn(i, n)
<1>1. /\ pc[w] # "claim" /\ at \in {"claim", "fill"}
      /\ pc'[w] = at /\ \A v \in Writers : v # w => pc'[v] = pc[v]
      /\ job' = job /\ next' = next /\ input' = input /\ phase' = phase
  BY MovesOnly DEF Moves
<1>2. /\ Source(job[w])[1] = input /\ Source(job[w]) \notin written
      /\ job[w] \in 1 .. Len(rels) /\ job[w] < next
      /\ \A v \in Writers : v # w /\ pc[v] # "claim" => job[v] # job[w]
  BY <1>1, JobInHand DEF DeliveryInv, EmissionInv, JobsClaimed
<1>3. WorkedOff(i)' = WorkedOff(i)
  BY <1>1 DEF WorkedOff
<1>4. CASE at = "fill"
  <2>1. written' = written /\ \A v \in Writers : pc'[v] # "claim" <=> pc[v] # "claim"
    BY <1>1, <1>4
  <2>2. Attempted(n)' = Attempted(n)
    BY <1>1, <2>1 DEF Attempted
  <2> QED
    BY <1>3, <2>1, <2>2, BatchIdles
<1>5. ASSUME at = "claim", WorkedOff(i), Len(rels) = n
      PROVE  B(i, n)!Attempt(job[w] - 1)
  <2> DEFINE j == job[w] - 1
  <2>1. j \in 0 .. n - 1 /\ j + 1 = job[w]
    BY <1>2, <1>5
  <2>2. j \notin Attempted(n)
    BY <1>1, <2>1 DEF Attempted
  <2>3. Attempted(n)' = Attempted(n) \cup {j}
    <3>1. ASSUME NEW k \in 0 .. n - 1
          PROVE  k \in Attempted(n)' <=> k \in Attempted(n) \/ k = j
      <4>1. k + 1 = job[w] <=> k = j
        BY <2>1
      <4>2. (\A v \in Writers : pc'[v] # "claim" => job'[v] # k + 1)
               <=> \A v \in Writers : v # w /\ pc[v] # "claim" => job[v] # k + 1
        BY <1>1, <1>5
      <4>3. k \in Attempted(n)' <=>
               k + 1 < next /\ \A v \in Writers : v # w /\ pc[v] # "claim" => job[v] # k + 1
        BY <1>1, <4>2 DEF Attempted
      <4>4. k \in Attempted(n) <=>
               k + 1 < next /\ \A v \in Writers : pc[v] # "claim" => job[v] # k + 1
        BY DEF Attempted
      <4>5. CASE k = j
        BY <1>2, <4>1, <4>3, <4>5
      <4>6. CASE k # j
        BY <4>1, <4>3, <4>4, <4>6
      <4> QED
        BY <4>5, <4>6
    <3> QED
      BY <2>1, <3>1 DEF Attempted
  <2>4. \E m \in {0, 1} : Cardinality(ReportedOf(i)') = Cardinality(ReportedOf(i)) + m
    <3>1. IsFiniteSet(ReportedOf(i)) /\ Cardinality(ReportedOf(i)) \in Nat
      BY ReportedFinite
    <3>2. CASE written' = written
      <4>1. ReportedOf(i)' = ReportedOf(i)
        BY <3>2 DEF ReportedOf
      <4> QED
        BY <3>1, <4>1
    <3>3. CASE written' = written \cup {Source(job[w])}
      <4>1. ReportedOf(i)' = ReportedOf(i) \cup {Source(job[w])} /\ Source(job[w]) \notin ReportedOf(i)
        BY <1>2, <1>5, <3>3 DEF ReportedOf, WorkedOff
      <4>2. Cardinality(ReportedOf(i)') = Cardinality(ReportedOf(i)) + 1
        BY <3>1, <4>1, FS_AddElement
      <4> QED
        BY <4>2
    <3> QED
      BY <3>2, <3>3
  <2> HIDE DEF j
  <2> QED
    BY <1>3, <1>5, <2>2, <2>3, <2>4 DEF B!Attempt, j
<1>6. CASE at = "claim"
  <2>1. ASSUME WorkedOff(i), Len(rels) = n
        PROVE  B(i, n)!BatchNext
    <3>1. job[w] - 1 \in 0 .. n - 1
      BY <1>2, <2>1
    <3> QED
      BY <1>5, <1>6, <2>1, <3>1 DEF B!BatchNext, B!BatchJobs
  <2> QED
    BY <1>3, <2>1 DEF BatchStarts, BatchGoesOn
<1> QED
  BY <1>1, <1>4, <1>6

(* The batch of every input, whatever its place on the command line and    *)
(* the number of its classes, starts and goes on as Batch: no class is     *)
(* attempted twice, none is left out, the count is of the sources that     *)
(* were reported, and the input is not closed before its last class.       *)
THEOREM InputIsABatch ==
  ASSUME NEW i \in Nat, NEW n \in Nat
  PROVE  Spec => [][BatchStarts(i, n) /\ BatchGoesOn(i, n)]_vars
<1>1. DeliveryInv /\ [Next]_vars => [BatchStarts(i, n) /\ BatchGoesOn(i, n)]_vars
  <2> SUFFICES ASSUME DeliveryInv, Next
               PROVE  (BatchStarts(i, n) /\ BatchGoesOn(i, n)) \/ UNCHANGED vars
    OBVIOUS
  <2>1. CASE Main
    BY <2>1, MainBatches
  <2>2. ASSUME NEW w \in Writers, Write(w)
        PROVE  BatchStarts(i, n) /\ BatchGoesOn(i, n)
    <3>1. CASE Claim(w)
      BY <3>1, ClaimBatches
    <3>2. CASE ~Claim(w)
      <4>1. PICK at \in {"claim", "fill"} :
               /\ Moves(w, at)
               /\ \/ written' = written
                  \/ written' = written \cup {Source(job[w])} /\ at = "claim"
        BY <2>2, <3>2 DEF Write, Skip, CreateFile, FillFile, PrintSeparator, PrintBody,
                          Moves, InputKept, outputs
      <4> QED
        BY <4>1, MoveBatches
    <3> QED
      BY <3>1, <3>2
  <2> QED
    BY <2>1, <2>2 DEF Next, Over
<1> QED
  BY <1>1, DeliveryInvariant, PTL DEF Spec
=============================================================================
