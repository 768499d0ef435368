----------------------------- MODULE OutputPlan -----------------------------
(***************************************************************************)
(* `plan_rels` of crates/cli/src/main.rs: before the workers start, every  *)
(* job of one input gets the relative path its source will be written to,  *)
(* in job order.  A path is made safe for the file system, and when an     *)
(* earlier job already has it (up to case, where the file system folds     *)
(* case) the first free of stem_0.java, stem_1.java, ... is taken instead. *)
(*                                                                         *)
(* A path is a stem and the suffixes it carries: <<"A">> is A.java, and    *)
(* <<"A", 0>> is A_0.java, which may be a candidate for a second A.java or *)
(* the path of a class named A_0.  Clean and Lower are what sanitize_rel   *)
(* and to_lowercase do to a stem: neither touches an `_n` suffix.          *)
(***************************************************************************)
EXTENDS Integers, Sequences

CONSTANTS Stems,   \* the stems of paths
          Clean,   \* Clean[s]: s with the characters no file name may have replaced
          Lower,   \* Lower[s]: s in lower case
          Folds,   \* does the output file system fold case?
          Paths,   \* the paths of the classes an input may hold
          MaxJobs  \* bound: classes in one input

Rels == [stem : Stems, tail : Seq(Nat)]

ASSUME StemFunctions ==
    /\ Clean \in [Stems -> Stems]
    /\ Lower \in [Stems -> Stems]
    /\ \A s \in Stems : Clean[Clean[s]] = Clean[s]
ASSUME PlanBounds ==
    /\ Folds \in BOOLEAN
    /\ MaxJobs \in Nat
    /\ Paths \subseteq Rels

(* The file a path names on the output file system: the environment's.     *)
File(p) == IF Folds THEN [p EXCEPT !.stem = Lower[@]] ELSE p

(* sanitize_rel.                                                           *)
Sanitize(p) == [p EXCEPT !.stem = Clean[@]]

(* Mutant: the key of `used` forgets the case folding.                     *)
KeyAsIs(p) == p

(* The key of `used`, lower case where fs_is_case_insensitive says so.     *)
Key(p) == IF Folds THEN [p EXCEPT !.stem = Lower[@]] ELSE p

(* `{stem}_{n}{ext}`.                                                      *)
Candidate(p, n) == [p EXCEPT !.tail = Append(@, n)]

VARIABLES rels,    \* the paths of the input's classes, in job order
          plan,    \* plan[k]: the chosen path of job k
          notes,   \* notes[k]: the comment the file will start with
          used     \* the keys taken

planVars == <<rels, plan, notes, used>>

PlanTypeOK ==
    /\ rels \in Seq(Rels)
    /\ Len(rels) <= MaxJobs
    /\ plan \in Seq(Rels)
    /\ Len(plan) <= Len(rels)
    /\ notes \in Seq({"none", "sanitized", "collided"})
    /\ used \subseteq Rels

PlanInit ==
    /\ rels \in UNION {[1 .. n -> Paths] : n \in 0 .. MaxJobs}
    /\ plan = <<>>
    /\ notes = <<>>
    /\ used = {}

Job == Len(plan) + 1
Wanted == Sanitize(rels[Job])

(* Mutant: the first suffix of a path is reserved with it.                 *)
ChooseReserving(p, note) ==
    /\ plan' = Append(plan, p)
    /\ notes' = Append(notes, note)
    /\ used' = used \cup {Key(p), Key(Candidate(p, 0))}
    /\ UNCHANGED rels

(* The chosen path and its note go to the plan, its key to `used`.         *)
Choose(p, note) ==
    /\ plan' = Append(plan, p)
    /\ notes' = Append(notes, note)
    /\ used' = used \cup {Key(p)}
    /\ UNCHANGED rels

(* The path is free.                                                       *)
PlanFree ==
    /\ Job <= Len(rels)
    /\ Key(Wanted) \notin used
    /\ Choose(Wanted, IF Wanted = rels[Job] THEN "none" ELSE "sanitized")

(* Mutant: the number of classes that collided so far is the suffix, not   *)
(* the first one that is free.                                             *)
CountedSuffix(p, n) ==
    n = Len(SelectSeq(notes, LAMBDA q : q = "collided"))

(* The loop over n: the first candidate that is free.                      *)
FirstFree(p, n) ==
    /\ Key(Candidate(p, n)) \notin used
    /\ \A m \in 0 .. n - 1 : Key(Candidate(p, m)) \in used

(* Mutant: the rename leaves the note of the sanitizing as it was.         *)
PlanTakenUnnoted ==
    /\ Job <= Len(rels)
    /\ Key(Wanted) \in used
    /\ \E n \in 0 .. Len(plan) :
          /\ FirstFree(Wanted, n)
          /\ Choose(Candidate(Wanted, n), IF Wanted = rels[Job] THEN "none" ELSE "sanitized")

(* The path is taken by an earlier job of the input.                       *)
PlanTaken ==
    /\ Job <= Len(rels)
    /\ Key(Wanted) \in used
    /\ \E n \in 0 .. Len(plan) :
          /\ FirstFree(Wanted, n)
          /\ Choose(Candidate(Wanted, n), "collided")

PlanStep == PlanFree \/ PlanTaken

Planned == Len(plan) = Len(rels)

PlanSpec == PlanInit /\ [][PlanStep]_planVars

-----------------------------------------------------------------------------
(* Properties.                                                             *)

(* "collision-free": no two jobs of an input are given paths that are one  *)
(* file on the output file system, a class really named A_0 and the        *)
(* renamed second A included.                                              *)
PathsDistinct ==
    \A j, k \in 1 .. Len(plan) : j # k => File(plan[j]) # File(plan[k])

(* A rename is explained in the file, and only a rename is: the note is    *)
(* there exactly when the file's path is not the class's own.              *)
NotedIffRenamed ==
    \A k \in 1 .. Len(plan) : notes[k] = "none" <=> plan[k] = rels[k]

(* "a rename would needlessly break the public class/file-name match": a   *)
(* class keeps its safe path unless an earlier job's path is that file.    *)
KeptUnlessTaken ==
    \A k \in 1 .. Len(plan) :
        plan[k] = Sanitize(rels[k])
            <=> \A j \in 1 .. k - 1 : File(plan[j]) # File(Sanitize(rels[k]))
=============================================================================
