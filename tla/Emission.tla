------------------------------ MODULE Emission ------------------------------
(***************************************************************************)
(* One command of crates/cli/src/main.rs from its -o option and its inputs *)
(* to the sources it leaves behind.  The inputs are worked off one after   *)
(* the other (`run`): each gets its target (`resolve_target`), the classes *)
(* of a directory or jar that goes to a directory get their paths          *)
(* (OutputPlan), and a batch of workers renders the classes and writes     *)
(* them (`emit_to_target`, `write_source`).  WorkerPool is the batch in    *)
(* detail; here a worker claims, renders and writes.                       *)
(*                                                                         *)
(* A command is [out, inputs].  An input is [kind, home, lists]: a class   *)
(* file, a directory or a jar, the sibling directory it is written to      *)
(* where no -o is given (x.jar and the directory x have the same, x-dec),  *)
(* and the paths of its classes in job order.                              *)
(***************************************************************************)
EXTENDS OutputPlan, FiniteSets

CONSTANTS Commands,     \* the commands considered
          Writers,      \* worker threads of a batch
          InPackage,    \* the stems with a `/`
          WriteMayFail  \* may creating or filling a file fail?

Options == {"none", "-", "file", "dir"}
Kinds == {"class", "dir", "jar"}
Inputs == [kind : Kinds, home : STRING, lists : Seq(Paths)]

ASSUME SomeWriters == IsFiniteSet(Writers) /\ Writers # {}
ASSUME CommandShapes ==
    \A c \in Commands :
        /\ c.out \in Options
        /\ c.inputs \in Seq(Inputs)
        /\ c.inputs # <<>>
        /\ \A i \in 1 .. Len(c.inputs) :
              /\ Len(c.inputs[i].lists) <= MaxJobs
              /\ c.inputs[i].kind = "class" => Len(c.inputs[i].lists) = 1

VARIABLES
    command,  \* the command line
    input,    \* the input being worked off
    phase,    \* "open" (its target is not known yet), "work", "ended", "failed"
    next,     \* the batch's job counter
    pc, job,  \* per worker: where it is, and its job
    files,    \* what each file that was created holds
    stdout,   \* what was printed: separators and bodies, by source
    written   \* the sources reported written

batchVars == <<next, pc, job>>
outputs == <<files, stdout, written>>
vars == <<planVars, command, input, phase, batchVars, outputs>>

Nothing == <<>>
This == command.inputs[input]
Source(j) == <<input, j>>
Sources == {<<i, j>> : i \in 1 .. Len(command.inputs), j \in 1 .. MaxJobs}

TypeOK ==
    /\ command \in Commands
    /\ PlanTypeOK
    /\ input \in 1 .. Len(command.inputs)
    /\ phase \in {"open", "work", "ended", "failed"}
    /\ next \in 1 .. Len(rels) + 1
    /\ pc \in [Writers -> {"claim", "begin", "fill"}]
    /\ job \in [Writers -> 0 .. MaxJobs]
    /\ \A w \in Writers : job[w] \in 1 .. Len(rels) \/ pc[w] = "claim"
    /\ files \in [DOMAIN files -> Sources \cup {Nothing}]
    /\ stdout \in Seq([part : {"separator", "body"}, of : Sources])
    /\ written \subseteq Sources

Init ==
    /\ command \in Commands
    /\ input = 1
    /\ phase = "open"
    /\ rels = <<>> /\ plan = <<>> /\ notes = <<>> /\ used = {}
    /\ next = 1
    /\ pc = [w \in Writers |-> "claim"]
    /\ job = [w \in Writers |-> 0]
    /\ files = [k \in {} |-> Nothing]
    /\ stdout = <<>>
    /\ written = {}

-----------------------------------------------------------------------------
(* Targets.                                                                *)

Stdout == [to |-> "stdout", dir |-> "none"]
Bail == [to |-> "bail", dir |-> "none"]
OneFile == [to |-> "file", dir |-> "none"]
Dir(d) == [to |-> "dir", dir |-> d]

(* resolve_target: a file serves a single class of a single input, and     *)
(* without -o a class goes to stdout, anything else to its sibling.        *)
ResolveTarget(c, in) ==
    CASE c.out = "-" -> Stdout
      [] c.out = "file" -> IF in.kind = "class" /\ Len(c.inputs) = 1 THEN OneFile ELSE Bail
      [] c.out = "dir" -> Dir("out")
      [] OTHER -> IF in.kind = "class" THEN Stdout ELSE Dir(in.home)

Target == ResolveTarget(command, This)

(* Only the classes of a directory or a jar that go to a directory are     *)
(* planned; a lone class file's path is sanitized when it is written.      *)
HasPlan == Target.to = "dir" /\ This.kind # "class"

(* The file the source of job j goes to.                                   *)
Place(j) ==
    CASE Target.to = "file" -> <<"file">>
      [] HasPlan -> <<Target.dir, File(plan[j])>>
      [] OTHER -> <<Target.dir, File(Sanitize(rels[j]))>>

(* "multi-file mode without -o": a lone class file has no `/` in the name  *)
(* it is printed under.                                                    *)
HasSeparator(j) == This.kind # "class" /\ rels[j].stem \in InPackage

-----------------------------------------------------------------------------
(* The inputs.                                                             *)

(* The target is known and the classes are listed.                         *)
Open ==
    /\ phase = "open"
    /\ Target # Bail
    /\ phase' = "work"
    /\ rels' = This.lists
    /\ plan' = <<>> /\ notes' = <<>> /\ used' = {}
    /\ next' = 1
    /\ UNCHANGED <<command, input, pc, job, outputs>>

(* There is no target for the input, or its listing fails (`?`): the       *)
(* command ends, and what earlier inputs wrote stays.                      *)
OpenFails ==
    /\ phase = "open"
    /\ Target = Bail \/ This.kind # "class"
    /\ phase' = "failed"
    /\ UNCHANGED <<planVars, command, input, batchVars, outputs>>

(* plan_rels, before the workers of the input exist.                       *)
Plan ==
    /\ phase = "work"
    /\ HasPlan
    /\ PlanStep
    /\ UNCHANGED <<command, input, phase, batchVars, outputs>>

Ready == phase = "work" /\ (HasPlan => Planned)

(* Every thread of the batch has been joined.                              *)
CloseInput ==
    /\ Ready
    /\ next > Len(rels)
    /\ \A w \in Writers : pc[w] = "claim"
    /\ IF input < Len(command.inputs)
       THEN input' = input + 1 /\ phase' = "open"
       ELSE phase' = "ended" /\ UNCHANGED input
    /\ UNCHANGED <<planVars, command, batchVars, outputs>>

-----------------------------------------------------------------------------
(* A worker of the batch.                                                  *)

Put(k, content) ==
    files' = [f \in DOMAIN files \cup {k} |-> IF f = k THEN content ELSE files[f]]

(* Mutant: the index is read and advanced in two steps (a load and a       *)
(* store), so that two threads can take one job.                           *)
ClaimByLoad(w) ==
    /\ Ready
    /\ pc[w] = "claim"
    /\ next <= Len(rels)
    /\ next' \in {next, next + 1}
    /\ job' = [job EXCEPT ![w] = next]
    /\ pc' = [pc EXCEPT ![w] = "begin"]
    /\ UNCHANGED <<planVars, command, input, phase, outputs>>

(* `next.fetch_add(1)`.                                                    *)
Claim(w) ==
    /\ Ready
    /\ pc[w] = "claim"
    /\ next <= Len(rels)
    /\ next' = next + 1
    /\ job' = [job EXCEPT ![w] = next]
    /\ pc' = [pc EXCEPT ![w] = "begin"]
    /\ UNCHANGED <<planVars, command, input, phase, outputs>>

(* The class is nested in another, or cannot be rendered.                  *)
Skip(w) ==
    /\ pc[w] = "begin"
    /\ pc' = [pc EXCEPT ![w] = "claim"]
    /\ UNCHANGED <<planVars, command, input, phase, next, job, outputs>>

(* Mutant: a job whose file cannot be created is queued again.             *)
CreateFileRetries(w) ==
    /\ Target.to # "stdout"
    /\ pc[w] = "begin"
    /\ \/ /\ Put(Place(job[w]), Nothing)
          /\ pc' = [pc EXCEPT ![w] = "fill"]
          /\ UNCHANGED next
       \/ /\ WriteMayFail
          /\ pc' = [pc EXCEPT ![w] = "claim"]
          /\ next' = next - 1
          /\ UNCHANGED files
    /\ UNCHANGED <<planVars, command, input, phase, job, stdout, written>>

(* create_dir_all, and the file created or truncated; false on an error.   *)
CreateFile(w) ==
    /\ Target.to # "stdout"
    /\ pc[w] = "begin"
    /\ \/ /\ Put(Place(job[w]), Nothing)
          /\ pc' = [pc EXCEPT ![w] = "fill"]
       \/ /\ WriteMayFail
          /\ pc' = [pc EXCEPT ![w] = "claim"]
          /\ UNCHANGED files
    /\ UNCHANGED <<planVars, command, input, phase, next, job, stdout, written>>

(* Mutant: the source is the job's the shared counter stands at.           *)
FillFileByCounter(w) ==
    /\ Target.to # "stdout"
    /\ pc[w] = "fill"
    /\ Put(Place(job[w]), Source(next))
    /\ written' = written \cup {Source(next)}
    /\ pc' = [pc EXCEPT ![w] = "claim"]
    /\ UNCHANGED <<planVars, command, input, phase, next, job, stdout>>

(* ... and filled.                                                         *)
FillFile(w) ==
    /\ Target.to # "stdout"
    /\ pc[w] = "fill"
    /\ \/ /\ Put(Place(job[w]), Source(job[w]))
          /\ written' = written \cup {Source(job[w])}
       \/ /\ WriteMayFail
          /\ UNCHANGED <<files, written>>
    /\ pc' = [pc EXCEPT ![w] = "claim"]
    /\ UNCHANGED <<planVars, command, input, phase, next, job, stdout>>

ToStdout(part, w) == stdout' = Append(stdout, [part |-> part, of |-> Source(job[w])])

PrintSeparator(w) ==
    /\ Target.to = "stdout"
    /\ pc[w] = "begin"
    /\ IF HasSeparator(job[w]) THEN ToStdout("separator", w) ELSE UNCHANGED stdout
    /\ pc' = [pc EXCEPT ![w] = "fill"]
    /\ UNCHANGED <<planVars, command, input, phase, next, job, files, written>>

PrintBody(w) ==
    /\ Target.to = "stdout"
    /\ pc[w] = "fill"
    /\ ToStdout("body", w)
    /\ written' = written \cup {Source(job[w])}
    /\ pc' = [pc EXCEPT ![w] = "claim"]
    /\ UNCHANGED <<planVars, command, input, phase, next, job, files>>

Write(w) ==
    Claim(w) \/ Skip(w) \/ CreateFile(w) \/ FillFile(w) \/ PrintSeparator(w) \/ PrintBody(w)

Over == phase \in {"ended", "failed"} /\ UNCHANGED vars

Main == Open \/ OpenFails \/ Plan \/ CloseInput

Next == Main \/ Over \/ \E w \in Writers : Write(w)

(* The main thread goes on, and the scheduler runs every worker.           *)
Spec ==
    /\ Init
    /\ [][Next]_vars
    /\ WF_vars(Main)
    /\ \A w \in Writers : WF_vars(Write(w))

-----------------------------------------------------------------------------
(* Properties, besides those of OutputPlan for the plan of every input.    *)

(* No two threads ever have one file open: a file holds one whole source,  *)
(* not the middle of two.                                                  *)
NoSharedFile ==
    \A v, w \in Writers :
        v # w /\ pc[v] = "fill" /\ pc[w] = "fill" /\ Target.to # "stdout"
            => Place(job[v]) # Place(job[w])

InFile(s) == ResolveTarget(command, command.inputs[s[1]]).to # "stdout"

(* What was reported written is there, as long as no later input shares    *)
(* the directory: nothing is lost to the same input, to case folding or to *)
(* another target, and a single output file is never written twice.        *)
KeptUnlessShared ==
    \A s \in written :
        InFile(s) =>
            \/ \E k \in DOMAIN files : files[k] = s
            \/ \E i \in s[1] + 1 .. input :
                  ResolveTarget(command, command.inputs[i]).to = "dir"
                  /\ ResolveTarget(command, command.inputs[i])
                        = ResolveTarget(command, command.inputs[s[1]])

(* A dump to stdout is exact however the threads interleave: one body for  *)
(* every class reported, after its separator, which every class of a       *)
(* package gets and no other.                                              *)
PrintedOnce ==
    LET At(p, s) == {k \in 1 .. Len(stdout) : stdout[k] = [part |-> p, of |-> s]}
        Packaged(s) == command.inputs[s[1]].kind # "class"
                       /\ command.inputs[s[1]].lists[s[2]].stem \in InPackage
    IN  \A s \in Sources :
          /\ Cardinality(At("body", s)) = IF s \in written /\ ~InFile(s) THEN 1 ELSE 0
          /\ Cardinality(At("separator", s)) <= 1
          /\ \A b \in At("body", s) : (\E h \in At("separator", s) : h < b) <=> Packaged(s)

(* The command ends: planning finds a free path for every class, and every *)
(* input is worked off or refused.                                         *)
CommandEnds == <>(phase \in {"ended", "failed"})
=============================================================================
