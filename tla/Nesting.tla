------------------------------- MODULE Nesting -------------------------------
(***************************************************************************)
(* Which source file a class is printed in.  A class file is a job of its  *)
(* own; the job is skipped when the class "will be emitted inside another  *)
(* compilation unit" (`is_nested_in_pool`), and a job that is not skipped  *)
(* prints its class with everything `Family::collect` and                  *)
(* `direct_children` put inside it (crates/decompiler/src/classdec.rs).    *)
(* The two decisions are made by different threads, from different         *)
(* questions to the pool; a class is printed once when they agree.         *)
(*                                                                         *)
(* A name is the sequence of the parts between its `$`s.  A world is the   *)
(* classes of the inputs (primary) and of the class path (library), and    *)
(* what their files say: of[n].is is what n was declared as, own whether   *)
(* its InnerClasses attribute has an entry for n itself that says so, and  *)
(* by the classes whose attribute has an entry for n.  An anonymous or     *)
(* local class is printed where its enclosing body makes an instance of    *)
(* it, which every one is taken to do.                                     *)
(***************************************************************************)
EXTENDS Integers, Sequences, FiniteSets

CONSTANTS Names,   \* names of classes, sequences of parts
          Digits,  \* the parts that are all digits: $1
          Locals,  \* the parts that are digits and an identifier: $1L
          Lambda,  \* the part `lambda`, as in $lambda$
          Libraries,    \* the sets of names the class path may hold
          Declarations  \* what class files may say of the names

Kinds == {"none", "member", "local", "anonymous"}

(* The proper prefixes of a name, by `rfind('$')`.                         *)
Prefixes(n) == {SubSeq(n, 1, k) : k \in 1 .. Len(n) - 1}
Longest(S) == CHOOSE p \in S : \A q \in S : Len(q) <= Len(p)
Parent(n) == SubSeq(n, 1, Len(n) - 1)

(* The classes around n in the source: up to the first that is not nested. *)
Around(w, n) ==
    {p \in Prefixes(n) : \A q \in Prefixes(n) : Len(q) > Len(p) => w.of[q].is # "none"}

(* What a compiler writes: a nested class is named after the class it is   *)
(* declared in, which is there and lists it, and either has an entry of    *)
(* its own or is listed by every class around it; a class that is not      *)
(* nested is listed by none.                                               *)
Compiled(w) ==
    \A n \in w.primary \cup w.library :
        /\ w.of[n].is = "none" => ~w.of[n].own /\ w.of[n].by = {}
        /\ w.of[n].is # "none" =>
              /\ Len(n) > 1
              /\ n \in w.primary => Parent(n) \in w.primary
              /\ Parent(n) \in w.of[n].by /\ w.of[n].by \subseteq Around(w, n)
              /\ w.of[n].own \/ w.of[n].by = Around(w, n)
        /\ w.of[n].is = "anonymous" <=> w.of[n].is # "none" /\ n[Len(n)] \in Digits
        /\ w.of[n].is = "local" <=> w.of[n].is # "none" /\ n[Len(n)] \in Locals

ASSUME NameParts ==
    /\ IsFiniteSet(Names)
    /\ \A n \in Names : n \in Seq(STRING) /\ n # <<>>
    /\ Digits \cap Locals = {}
ASSUME WorldShapes ==
    /\ Libraries \subseteq SUBSET Names
    /\ Declarations \subseteq [Names -> [is : Kinds, own : BOOLEAN, by : SUBSET Names]]

(* The worlds considered: no class is in an input and on the class path,   *)
(* which the pool would not tell apart.                                    *)
Worlds ==
    {w \in [primary : SUBSET Names, library : Libraries, of : Declarations, jar : BOOLEAN] :
        w.primary \cap w.library = {} /\ Compiled(w)}

VARIABLES
    world,  \* the classes; world.jar tells a jar input from a directory
    todo,   \* the jobs left
    files   \* files[n]: the files n was printed in, by their job

vars == <<world, todo, files>>

Pool == world.primary \cup world.library

-----------------------------------------------------------------------------
(* has_inner_class_evidence: its own entry, or one of the candidate outer. *)
Evidence(n, outer) ==
    world.of[n].own \/ (outer \in Pool /\ outer \in world.of[n].by)

(* find_outer: the longest prefix in the pool that has evidence, if any.   *)
Outers(n) == {p \in Prefixes(n) \cap Pool : Evidence(n, p)}

(* Mutant: the InnerClasses attributes are not asked.                      *)
IsNestedByName(n) == Prefixes(n) \cap Pool # {}

(* is_nested_in_pool: only the longest prefix in the pool is asked for     *)
(* evidence, and a class that is not in the pool is nested in any.         *)
IsNested(n) ==
    LET outers == Prefixes(n) \cap Pool IN
    /\ outers # {}
    /\ n \in Pool => Evidence(n, Longest(outers))

(* The question as decompile_class_file asks it: with the name that        *)
(* class_rel_name makes, `.java` and all, which no class of the pool has.  *)
IsNestedAsFile(n) == Prefixes(n) \cap Pool # {}

(* The test that skips a job of a jar (process_job) or of a directory.     *)
Skipped(n) == IF world.jar THEN IsNested(n) ELSE IsNestedAsFile(n)

(* decompile_class goes from outer to outer, ...                          *)
OutersOf(n) ==
    LET Closed(S) == \A m \in S : Outers(m) # {} => Longest(Outers(m)) \in S
    IN  {p \in Names : \A S \in SUBSET Names : n \in S /\ Closed(S) => p \in S}

(* ... up to the root of the unit, which has none.                         *)
RootOf(n) == CHOOSE p \in OutersOf(n) : Outers(p) = {}

(* Mutant: a name under the root's is of the family, without evidence.     *)
FamilyByName(r) == {n \in world.primary : r \in Prefixes(n)}

(* Family::collect: the input's classes under the root's name, with        *)
(* evidence.                                                               *)
Family(r) == {n \in world.primary : r \in Prefixes(n) /\ Evidence(n, r)}

(* classify_nested, for a class of the family of r.                        *)
ByLastPart(n, other) ==
    CASE n[Len(n)] \in Digits -> "anonymous"
      [] n[Len(n)] \in Locals -> "local"
      [] OTHER -> other

Kind(n, r) ==
    CASE \E k \in Len(r) + 1 .. Len(n) - 1 : n[k] = Lambda -> "lambda"
      [] world.of[n].own /\ world.of[n].is # "anonymous" -> world.of[n].is
      [] world.of[n].own /\ world.of[n].is = "anonymous" -> ByLastPart(n, "anonymous")
      [] OTHER -> ByLastPart(n, "member")

(* What is printed inside the class around it, if that is printed: direct  *)
(* children, and anonymous and local classes the code instantiates.        *)
PrintedInside(n, r) == n \in Family(r) /\ Kind(n, r) # "lambda"

(* The classes a unit prints: its root, and a class when it and every      *)
(* class between the root and it are printed inside the one around them.   *)
Unit(r) ==
    {n \in Names :
        \/ n = r
        \/ /\ r \in Prefixes(n)
           /\ \A q \in Prefixes(n) \cup {n} : Len(q) > Len(r) => PrintedInside(q, r)}

-----------------------------------------------------------------------------
Init ==
    /\ world \in Worlds
    /\ todo = world.primary
    /\ files = [n \in Names |-> {}]

(* A worker takes the job of class file n.                                 *)
Skip(n) ==
    /\ n \in todo
    /\ Skipped(n)
    /\ todo' = todo \ {n}
    /\ UNCHANGED <<world, files>>

PrintUnit(n) ==
    /\ n \in todo
    /\ ~Skipped(n)
    /\ todo' = todo \ {n}
    /\ LET unit == Unit(RootOf(n))
       IN  files' = [m \in Names |-> IF m \in unit THEN files[m] \cup {n} ELSE files[m]]
    /\ UNCHANGED world

Next == \E n \in Names : Skip(n) \/ PrintUnit(n)

Spec == Init /\ [][Next]_vars

-----------------------------------------------------------------------------
(* Properties.                                                             *)

(* A class of the input that has a `$` in its own name: no nested class,   *)
(* but a class of the pool is its prefix.                                  *)
Siblings == {n \in world.primary : world.of[n].is = "none" /\ Prefixes(n) \cap Pool # {}}

Lost == {n \in world.primary : files[n] = {} /\ ~\E k \in 2 .. Len(n) - 1 : n[k] = Lambda}

(* Every class of a jar is printed when the jobs are done, and every class *)
(* of a directory without literal-$ siblings.                              *)
NoneLost == (todo = {} /\ (world.jar \/ Siblings = {})) => Lost = {}

(* No class is printed twice, a duplicate definition for javac, and none   *)
(* that is only on the class path: "classpath jars must not leak foreign   *)
(* nested classes into the emitted family".                                *)
PrintedOnce == \A n \in Names : Cardinality(files[n]) <= IF n \in world.primary THEN 1 ELSE 0
=============================================================================
