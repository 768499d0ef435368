----------------------------- MODULE SourceIndex -----------------------------
(***************************************************************************)
(* Which file a class name stands for: `ClassPool::add_source_with`,       *)
(* `index_dir`, `index_jar` and the order in which `get` searches          *)
(* (crates/jvm/src/pool.rs), with the snapshot that `family_names` keeps   *)
(* of the primary names.                                                   *)
(*                                                                         *)
(* A source is a directory, a jar or a single .class file and holds copies *)
(* of classes; a directory's files are listed in the order of its sorted   *)
(* walk, a jar's in that of its central directory.  A copy is told apart   *)
(* by the source it came with and its place there.  Every copy parses, and *)
(* the cache holds single .class files only: what a lookup adds to it is   *)
(* ClassPool's.                                                            *)
(***************************************************************************)
EXTENDS Integers, Sequences, FiniteSets

CONSTANTS Names,      \* internal class names
          Libraries,  \* the sources a command may be given
          MaxSources  \* bound: sources added

ASSUME LibraryShape ==
    /\ Libraries \subseteq [kind : {"dir", "jar", "class"}, files : Seq(Names)]
    /\ \A lib \in Libraries : lib.kind = "class" => Len(lib.files) = 1
    /\ MaxSources \in Nat

VARIABLES
    added,     \* the sources added: the library, and is it an input?
    dirIndex,  \* dir_index
    jars,      \* jar_indexes
    cache,     \* cache, as far as sources fill it
    primary,   \* primary
    family     \* the names family_index was built from, or Unbuilt

vars == <<added, dirIndex, jars, cache, primary, family>>

Unbuilt == {"unbuilt"}
Copy(s, k) == [source |-> s, place |-> k]
NoCopy == Copy(0, 0)
EmptyIndex == [n \in {} |-> NoCopy]
NamesIn(files) == {files[k] : k \in 1 .. Len(files)}

IsIndex(f) ==
    /\ DOMAIN f \subseteq Names
    /\ \A n \in DOMAIN f :
          /\ f[n].source \in 1 .. Len(added)
          /\ f[n].place \in 1 .. Len(added[f[n].source].lib.files)

TypeOK ==
    /\ added \in Seq([lib : Libraries, input : BOOLEAN])
    /\ IsIndex(dirIndex) /\ IsIndex(cache)
    /\ \A i \in 1 .. Len(jars) : IsIndex(jars[i])
    /\ primary \subseteq Names
    /\ family = Unbuilt \/ family \subseteq Names

Init ==
    /\ added = <<>>
    /\ dirIndex = EmptyIndex
    /\ jars = <<>>
    /\ cache = EmptyIndex
    /\ primary = {}
    /\ family = Unbuilt

-----------------------------------------------------------------------------
Places(files, n) == {k \in 1 .. Len(files) : files[k] = n}
Least(S) == CHOOSE k \in S : \A j \in S : k <= j
Greatest(S) == CHOOSE k \in S : \A j \in S : k >= j

(* index_dir: `out.insert(key, path)`, the last file of the walk stays.    *)
IndexDir(s, files) == [n \in NamesIn(files) |-> Copy(s, Greatest(Places(files, n)))]

(* index_jar: `or_insert_with`, the first entry stays.                     *)
IndexJar(s, files) == [n \in NamesIn(files) |-> Copy(s, Least(Places(files, n)))]

(* Mutant: `insert` for `or_insert`, the later directory wins.             *)
OverInsert(f, g) == [n \in DOMAIN f \cup DOMAIN g |-> IF n \in DOMAIN g THEN g[n] ELSE f[n]]

(* `f.entry(k).or_insert(v)` for every (k, v) of g.                        *)
OrInsert(f, g) == [n \in DOMAIN f \cup DOMAIN g |-> IF n \in DOMAIN f THEN f[n] ELSE g[n]]

(* Mutant: the names are registered, the snapshot stays.                   *)
RegisterKeepsSnapshot(names, input) ==
    /\ primary' = IF input THEN primary \cup names ELSE primary
    /\ UNCHANGED family

(* An input's names are registered as primary, and the snapshots dropped.  *)
Register(names, input) ==
    IF input
    THEN primary' = primary \cup names /\ family' = Unbuilt
    ELSE UNCHANGED <<primary, family>>

NextSource(lib, input) ==
    /\ Len(added) < MaxSources
    /\ added' = Append(added, [lib |-> lib, input |-> input])

AddDir(lib, input) ==
    /\ lib.kind = "dir"
    /\ NextSource(lib, input)
    /\ Register(NamesIn(lib.files), input)
    /\ dirIndex' = OrInsert(dirIndex, IndexDir(Len(added'), lib.files))
    /\ UNCHANGED <<jars, cache>>

(* Mutant: the names of a jar are registered, its index is not kept.       *)
AddJarUnindexed(lib, input) ==
    /\ lib.kind = "jar"
    /\ NextSource(lib, input)
    /\ Register(NamesIn(lib.files), input)
    /\ UNCHANGED <<dirIndex, jars, cache>>

AddJar(lib, input) ==
    /\ lib.kind = "jar"
    /\ NextSource(lib, input)
    /\ Register(NamesIn(lib.files), input)
    /\ jars' = Append(jars, IndexJar(Len(added'), lib.files))
    /\ UNCHANGED <<dirIndex, cache>>

(* A single .class file is parsed at once and goes to the cache, over what *)
(* another such file put there.                                            *)
AddClass(lib, input) ==
    /\ lib.kind = "class"
    /\ NextSource(lib, input)
    /\ Register({lib.files[1]}, input)
    /\ cache' = [n \in DOMAIN cache \cup {lib.files[1]} |->
                    IF n = lib.files[1] THEN Copy(Len(added'), 1) ELSE cache[n]]
    /\ UNCHANGED <<dirIndex, jars>>

(* Every input is added before the first classpath entry.                  *)
Add(lib, input) ==
    /\ input => \A s \in 1 .. Len(added) : added[s].input
    /\ AddDir(lib, input) \/ AddJar(lib, input) \/ AddClass(lib, input)

AllNames ==
    DOMAIN dirIndex \cup DOMAIN cache \cup UNION {DOMAIN jars[i] : i \in 1 .. Len(jars)}

(* primary_names: every name where nothing was registered as primary.      *)
PrimaryNames == IF primary = {} THEN AllNames ELSE primary

(* family_names builds its index when there is none.                       *)
AskFamily ==
    /\ family = Unbuilt
    /\ family' = PrimaryNames
    /\ UNCHANGED <<added, dirIndex, jars, cache, primary>>

Next == AskFamily \/ \E lib \in Libraries, input \in BOOLEAN : Add(lib, input)

Spec == Init /\ [][Next]_vars

(* `get`: the cache, then read_class_bytes: the directories, the jars.     *)
Lookup(n) ==
    LET holding == {i \in 1 .. Len(jars) : n \in DOMAIN jars[i]} IN
    IF n \in DOMAIN cache THEN cache[n]
    ELSE IF n \in DOMAIN dirIndex THEN dirIndex[n]
    ELSE IF holding # {} THEN jars[Least(holding)][n]
    ELSE NoCopy

-----------------------------------------------------------------------------
(* Properties.                                                             *)

Holding(n) == {s \in 1 .. Len(added) : n \in NamesIn(added[s].lib.files)}

(* What is enumerated can be looked up, and what can be looked up is       *)
(* enumerated: every name of a source leads to a copy that some source     *)
(* really holds under that name.                                           *)
NamesResolve ==
    \A n \in Names :
        /\ Holding(n) # {} <=> Lookup(n) # NoCopy
        /\ n \in AllNames <=> Lookup(n) # NoCopy
        /\ Lookup(n) # NoCopy =>
               added[Lookup(n).source].lib.files[Lookup(n).place] = n

(* "A stale platform copy must never mask the freshly compiled family      *)
(* class": a class held by an input directory is the copy of an input, and *)
(* of the first input directory that holds it where no single .class file  *)
(* does.                                                                   *)
InputDirNotMasked ==
    \A n \in Names :
        LET dirs == {s \in Holding(n) : added[s].input /\ added[s].lib.kind = "dir"} IN
        (dirs # {} /\ \A s \in Holding(n) : added[s].lib.kind # "class")
            => Lookup(n).source = Least(dirs)

(* "classpath jars leak foreign nested classes into the output": once an   *)
(* input is there the names families are collected from are those of the   *)
(* inputs, all of them, however adding and asking alternate.               *)
FamilyIsPrimary ==
    (family # Unbuilt /\ primary # {}) =>
        family = UNION {NamesIn(added[s].lib.files) :
                            s \in {t \in 1 .. Len(added) : added[t].input}}
=============================================================================
