--------------------------- MODULE SourceIndexProofs ---------------------------
(***************************************************************************)
(* What a class name stands for, for any names, any libraries and any      *)
(* number of sources added in any order the command allows.                *)
(*                                                                         *)
(* SourceInv says of each index what it holds: the directories' one copy   *)
(* of every name of a directory, that of the first; each jar's one of      *)
(* every name of it; the cache one of every name of a single .class file.  *)
(* And it says that inputs come first and that the primary names are       *)
(* theirs.                                                                 *)
(***************************************************************************)
EXTENDS SourceIndex, ExtremeTheorems, SequenceTheorems

Added == Seq([lib : Libraries, input : BOOLEAN])

\* The sources in list of a kind that hold n, and the copies of n they hold.
Of(list, kind, n) == {s \in 1 .. Len(list) : list[s].lib.kind = kind /\ n \in NamesIn(list[s].lib.files)}
IsCopy(list, c, kind, n) ==
  /\ c.source \in Of(list, kind, n)
  /\ c.place \in 1 .. Len(list[c.source].lib.files)
  /\ list[c.source].lib.files[c.place] = n

Copies == [source : Nat, place : Nat]
Indexes == UNION {[D -> Copies] : D \in SUBSET Names}

DirsIndexed ==
  /\ DOMAIN dirIndex = {n \in Names : Of(added, "dir", n) # {}}
  /\ \A n \in DOMAIN dirIndex : /\ IsCopy(added, dirIndex[n], "dir", n)
                                /\ \A s \in Of(added, "dir", n) : dirIndex[n].source <= s
JarsIndexed ==
  /\ \A i \in 1 .. Len(jars) : \A n \in DOMAIN jars[i] : IsCopy(added, jars[i][n], "jar", n)
  /\ \A n \in Names : Of(added, "jar", n) # {} => \E i \in 1 .. Len(jars) : n \in DOMAIN jars[i]
FilesCached ==
  /\ DOMAIN cache = {n \in Names : Of(added, "class", n) # {}}
  /\ \A n \in DOMAIN cache : IsCopy(added, cache[n], "class", n)

InputsFirst == \A s, t \in 1 .. Len(added) : s < t /\ added[t].input => added[s].input
PrimaryOfInputs ==
  primary = UNION {NamesIn(added[s].lib.files) : s \in {t \in 1 .. Len(added) : added[t].input}}
SnapshotFresh == family = Unbuilt \/ primary = {} \/ family = primary

SourceInv ==
  /\ added \in Added
  /\ jars \in Seq(Indexes)
  /\ DirsIndexed /\ JarsIndexed /\ FilesCached
  /\ InputsFirst /\ PrimaryOfInputs /\ SnapshotFresh

-----------------------------------------------------------------------------
LEMMA LibraryTypes ==
  ASSUME NEW lib \in Libraries
  PROVE  /\ lib.kind \in {"dir", "jar", "class"}
         /\ lib.files \in Seq(Names)
         /\ Len(lib.files) \in Nat
         /\ NamesIn(lib.files) \in SUBSET Names
         /\ lib.kind = "class" => Len(lib.files) = 1
BY LibraryShape DEF NamesIn

LEMMA LeastIs ==
  ASSUME NEW n \in Nat, NEW S \in SUBSET (1 .. n), S # {}
  PROVE  Least(S) \in S /\ \A j \in S : Least(S) <= j
<1>1. S \in SUBSET (0 .. n)
  OBVIOUS
<1>2. PICK k \in S : \A j \in 0 .. k - 1 : j \notin S
  BY <1>1, LeastInRange
<1>3. \A j \in S : k <= j
  BY <1>2
<1> QED
  BY <1>3 DEF Least

LEMMA GreatestIs ==
  ASSUME NEW n \in Nat, NEW S \in SUBSET (1 .. n), S # {}
  PROVE  Greatest(S) \in S
<1>1. S \in SUBSET (0 .. n)
  OBVIOUS
<1>2. PICK k \in S : \A j \in S : j <= k
  BY <1>1, GreatestInRange
<1> QED
  BY <1>2 DEF Greatest

\* What index_dir and index_jar make of the files of a library.
LEMMA IndexesOfFiles ==
  ASSUME NEW lib \in Libraries, NEW s \in Nat
  PROVE  /\ DOMAIN IndexDir(s, lib.files) = NamesIn(lib.files)
         /\ DOMAIN IndexJar(s, lib.files) = NamesIn(lib.files)
         /\ IndexJar(s, lib.files) \in Indexes
         /\ \A n \in NamesIn(lib.files) : \A c \in {IndexDir(s, lib.files)[n], IndexJar(s, lib.files)[n]} :
              /\ c.source = s
              /\ c.place \in 1 .. Len(lib.files)
              /\ lib.files[c.place] = n
<1>1. ASSUME NEW n \in NamesIn(lib.files)
      PROVE  /\ Places(lib.files, n) \in SUBSET (1 .. Len(lib.files))
             /\ Least(Places(lib.files, n)) \in Places(lib.files, n)
             /\ Greatest(Places(lib.files, n)) \in Places(lib.files, n)
  <2>1. Places(lib.files, n) \in SUBSET (1 .. Len(lib.files)) /\ Places(lib.files, n) # {}
    BY DEF Places, NamesIn
  <2> QED
    BY <2>1, LibraryTypes, LeastIs, GreatestIs
<1>2. IndexJar(s, lib.files) \in [NamesIn(lib.files) -> Copies]
  BY <1>1, LibraryTypes DEF IndexJar, Copy, Copies
<1>3. DOMAIN IndexDir(s, lib.files) = NamesIn(lib.files) /\ DOMAIN IndexJar(s, lib.files) = NamesIn(lib.files)
  BY DEF IndexDir, IndexJar
<1>4. IndexJar(s, lib.files) \in Indexes
  BY <1>2, LibraryTypes DEF Indexes
<1>5. ASSUME NEW n \in NamesIn(lib.files), NEW c \in {IndexDir(s, lib.files)[n], IndexJar(s, lib.files)[n]}
      PROVE  c.source = s /\ c.place \in 1 .. Len(lib.files) /\ lib.files[c.place] = n
  <2>1. PICK k \in Places(lib.files, n) : c = Copy(s, k)
    BY <1>1 DEF IndexDir, IndexJar
  <2> QED
    BY <2>1 DEF Copy, Places
<1> QED
  BY <1>3, <1>4, <1>5

\* A source that is added leaves the others where they are.
LEMMA SourceAppended ==
  ASSUME added \in Added, NEW lib \in Libraries, NEW input \in BOOLEAN,
         added' = Append(added, [lib |-> lib, input |-> input])
  PROVE  /\ added' \in Added
         /\ Len(added) \in Nat /\ Len(added') = Len(added) + 1
         /\ added'[Len(added')] = [lib |-> lib, input |-> input]
         /\ \A s \in 1 .. Len(added) : added'[s] = added[s]
         /\ \A kind, n : Of(added', kind, n) = Of(added, kind, n) \cup
              (IF kind = lib.kind /\ n \in NamesIn(lib.files) THEN {Len(added')} ELSE {})
         /\ \A c, kind, n : IsCopy(added, c, kind, n) => IsCopy(added', c, kind, n)
<1>1. /\ added' \in Added
      /\ Len(added) \in Nat /\ Len(added') = Len(added) + 1
      /\ added'[Len(added')] = [lib |-> lib, input |-> input]
      /\ \A s \in 1 .. Len(added) : added'[s] = added[s]
  BY DEF Added
<1>2. ASSUME NEW kind, NEW n
      PROVE  Of(added', kind, n) = Of(added, kind, n) \cup
               (IF kind = lib.kind /\ n \in NamesIn(lib.files) THEN {Len(added')} ELSE {})
  <2>1. 1 .. Len(added') = (1 .. Len(added)) \cup {Len(added')}
    BY <1>1
  <2> QED
    BY <1>1, <2>1 DEF Of
<1>3. ASSUME NEW c, NEW kind, NEW n, IsCopy(added, c, kind, n) PROVE IsCopy(added', c, kind, n)
  BY <1>1, <1>2, <1>3 DEF IsCopy, Of
<1> QED
  BY <1>1, <1>2, <1>3

-----------------------------------------------------------------------------
LEMMA SourceInitHolds == Init => SourceInv
<1> SUFFICES ASSUME Init PROVE SourceInv
  OBVIOUS
<1>1. added = <<>> /\ Len(added) = 0 /\ 1 .. Len(added) = {}
  BY DEF Init
<1>2. \A kind, n : Of(added, kind, n) = {}
  BY <1>1 DEF Of
<1>3. added \in Added /\ jars \in Seq(Indexes)
  BY <1>1 DEF Init, Added
<1>4. DirsIndexed /\ JarsIndexed /\ FilesCached
  BY <1>2 DEF Init, EmptyIndex, DirsIndexed, JarsIndexed, FilesCached
<1>5. InputsFirst /\ PrimaryOfInputs /\ SnapshotFresh
  BY <1>1 DEF Init, InputsFirst, PrimaryOfInputs, SnapshotFresh
<1> QED
  BY <1>3, <1>4, <1>5 DEF SourceInv

\* What each arm of add_source_with does besides its own index.
LEMMA RegisterHolds ==
  ASSUME SourceInv, NEW lib \in Libraries, NEW input \in BOOLEAN,
         input => \A s \in 1 .. Len(added) : added[s].input,
         NextSource(lib, input), Register(NamesIn(lib.files), input)
  PROVE  InputsFirst' /\ PrimaryOfInputs' /\ SnapshotFresh'
<1> DEFINE new == Len(added')
<1>1. /\ Len(added) \in Nat /\ new = Len(added) + 1
      /\ added'[new] = [lib |-> lib, input |-> input]
      /\ \A s \in 1 .. Len(added) : added'[s] = added[s]
  BY SourceAppended DEF SourceInv, NextSource
<1>2. 1 .. new = (1 .. Len(added)) \cup {new}
  BY <1>1
<1> HIDE DEF new
<1>3. InputsFirst'
  <2>1. ASSUME NEW s \in 1 .. new, NEW t \in 1 .. new, s < t, added'[t].input PROVE added'[s].input
    <3>1. s \in 1 .. Len(added)
      BY <1>1, <2>1
    <3>2. CASE t = new
      BY <1>1, <2>1, <3>1, <3>2
    <3>3. CASE t # new
      BY <1>1, <1>2, <2>1, <3>1, <3>3 DEF SourceInv, InputsFirst
    <3> QED
      BY <3>2, <3>3
  <2> QED
    BY <2>1 DEF InputsFirst, new
<1>4. PrimaryOfInputs'
  <2> DEFINE inputs == {t \in 1 .. Len(added) : added[t].input}
             inputsNow == {t \in 1 .. new : added'[t].input}
  <2>1. inputsNow = inputs \cup (IF input THEN {new} ELSE {})
    BY <1>1, <1>2
  <2>2. \A s \in inputs : added'[s] = added[s]
    BY <1>1
  <2>3. UNION {NamesIn(added'[s].lib.files) : s \in inputsNow}
          = (UNION {NamesIn(added[s].lib.files) : s \in inputs}) \cup (IF input THEN NamesIn(lib.files) ELSE {})
    <3>1. UNION {NamesIn(added'[s].lib.files) : s \in inputs} = UNION {NamesIn(added[s].lib.files) : s \in inputs}
      BY <2>2
    <3>2. NamesIn(added'[new].lib.files) = NamesIn(lib.files)
      BY <1>1
    <3> HIDE DEF inputs, inputsNow
    <3>3. CASE input
      BY <2>1, <3>1, <3>2, <3>3
    <3>4. CASE ~input
      BY <2>1, <3>1, <3>4
    <3> QED
      BY <3>3, <3>4
  <2>4. primary' = primary \cup (IF input THEN NamesIn(lib.files) ELSE {})
    BY DEF Register
  <2>5. primary = UNION {NamesIn(added[s].lib.files) : s \in inputs}
    BY DEF SourceInv, PrimaryOfInputs
  <2>6. primary' = UNION {NamesIn(added'[s].lib.files) : s \in inputsNow}
    BY <2>3, <2>4, <2>5
  <2> QED
    BY <2>6 DEF PrimaryOfInputs, new
<1>5. SnapshotFresh'
  BY DEF Register, SourceInv, SnapshotFresh
<1> QED
  BY <1>3, <1>4, <1>5

LEMMA AddDirHolds ==
  ASSUME SourceInv, NEW lib \in Libraries, NEW input \in BOOLEAN,
         input => \A s \in 1 .. Len(added) : added[s].input, AddDir(lib, input)
  PROVE  SourceInv'
<1> DEFINE new == Len(added')
           index == IndexDir(new, lib.files)
<1>1. /\ added' \in Added
      /\ Len(added) \in Nat /\ new = Len(added) + 1 /\ new \in Nat
      /\ added'[new] = [lib |-> lib, input |-> input]
      /\ \A kind, n : Of(added', kind, n) = Of(added, kind, n) \cup (IF kind = lib.kind /\ n \in NamesIn(lib.files) THEN {new} ELSE {})
      /\ \A c, kind, n : IsCopy(added, c, kind, n) => IsCopy(added', c, kind, n)
  BY SourceAppended DEF SourceInv, AddDir, NextSource
<1>2. InputsFirst' /\ PrimaryOfInputs' /\ SnapshotFresh'
  BY RegisterHolds DEF AddDir
<1>3. JarsIndexed' /\ FilesCached' /\ jars' \in Seq(Indexes)
  <2>1. lib.kind = "dir" /\ jars' = jars /\ cache' = cache
    BY DEF AddDir
  <2>2. \A n : Of(added', "jar", n) = Of(added, "jar", n) /\ Of(added', "class", n) = Of(added, "class", n)
    BY <1>1, <2>1
  <2> QED
    BY <1>1, <2>1, <2>2 DEF SourceInv, JarsIndexed, FilesCached
<1>4. DirsIndexed'
  <2>1. /\ lib.kind = "dir"
        /\ DOMAIN index = NamesIn(lib.files)
        /\ \A n \in NamesIn(lib.files) : /\ index[n].source = new
                                         /\ index[n].place \in 1 .. Len(lib.files)
                                         /\ lib.files[index[n].place] = n
    BY <1>1, IndexesOfFiles DEF AddDir
  <2>2. dirIndex' = OrInsert(dirIndex, index)
    BY DEF AddDir
  <2>3. NamesIn(lib.files) \in SUBSET Names
    BY LibraryTypes
  <2> HIDE DEF index, new
  <2>4. DOMAIN dirIndex' = DOMAIN dirIndex \cup NamesIn(lib.files)
    BY <2>1, <2>2 DEF OrInsert
  <2>5. DOMAIN dirIndex' = {n \in Names : Of(added', "dir", n) # {}}
    <3>1. DOMAIN dirIndex = {n \in Names : Of(added, "dir", n) # {}}
      BY DEF SourceInv, DirsIndexed
    <3>2. ASSUME NEW n \in Names
          PROVE  Of(added', "dir", n) # {} <=> Of(added, "dir", n) # {} \/ n \in NamesIn(lib.files)
      <4>1. Of(added', "dir", n) = Of(added, "dir", n) \cup (IF n \in NamesIn(lib.files) THEN {new} ELSE {})
        BY <1>1, <2>1
      <4> QED
        BY <4>1
    <3> QED
      BY <2>3, <2>4, <3>1, <3>2
  <2>6. ASSUME NEW n \in DOMAIN dirIndex'
        PROVE  IsCopy(added', dirIndex'[n], "dir", n) /\ \A s \in Of(added', "dir", n) : dirIndex'[n].source <= s
    <3>1. CASE n \in DOMAIN dirIndex
      <4>1. dirIndex'[n] = dirIndex[n]
        BY <2>2, <3>1 DEF OrInsert
      <4>2. IsCopy(added, dirIndex[n], "dir", n) /\ \A s \in Of(added, "dir", n) : dirIndex[n].source <= s
        BY <3>1 DEF SourceInv, DirsIndexed
      <4>3. dirIndex[n].source \in 1 .. Len(added)
        BY <4>2 DEF IsCopy, Of
      <4> QED
        BY <1>1, <4>1, <4>2, <4>3
    <3>2. CASE n \notin DOMAIN dirIndex
      <4>1. n \in NamesIn(lib.files) /\ dirIndex'[n] = index[n]
        BY <2>1, <2>2, <2>4, <3>2 DEF OrInsert
      <4>2. Of(added, "dir", n) = {}
        BY <2>3, <3>2, <4>1 DEF SourceInv, DirsIndexed
      <4>3. Of(added', "dir", n) = {new}
        BY <1>1, <2>1, <4>1, <4>2
      <4> QED
        BY <1>1, <2>1, <4>1, <4>3 DEF IsCopy
    <3> QED
      BY <3>1, <3>2
  <2> QED
    BY <2>5, <2>6 DEF DirsIndexed
<1> QED
  BY <1>1, <1>2, <1>3, <1>4 DEF SourceInv

LEMMA AddJarHolds ==
  ASSUME SourceInv, NEW lib \in Libraries, NEW input \in BOOLEAN,
         input => \A s \in 1 .. Len(added) : added[s].input, AddJar(lib, input)
  PROVE  SourceInv'
<1> DEFINE new == Len(added')
           index == IndexJar(new, lib.files)
<1>1. /\ added' \in Added
      /\ Len(added) \in Nat /\ new = Len(added) + 1 /\ new \in Nat
      /\ added'[new] = [lib |-> lib, input |-> input]
      /\ \A kind, n : Of(added', kind, n) = Of(added, kind, n) \cup (IF kind = lib.kind /\ n \in NamesIn(lib.files) THEN {new} ELSE {})
      /\ \A c, kind, n : IsCopy(added, c, kind, n) => IsCopy(added', c, kind, n)
  BY SourceAppended DEF SourceInv, AddJar, NextSource
<1>2. InputsFirst' /\ PrimaryOfInputs' /\ SnapshotFresh'
  BY RegisterHolds DEF AddJar
<1>3. DirsIndexed' /\ FilesCached'
  <2>1. lib.kind = "jar" /\ dirIndex' = dirIndex /\ cache' = cache
    BY DEF AddJar
  <2>2. \A n : Of(added', "dir", n) = Of(added, "dir", n) /\ Of(added', "class", n) = Of(added, "class", n)
    BY <1>1, <2>1
  <2> QED
    BY <1>1, <2>1, <2>2 DEF SourceInv, DirsIndexed, FilesCached
<1>4. JarsIndexed' /\ jars' \in Seq(Indexes)
  <2>1. /\ lib.kind = "jar"
        /\ DOMAIN index = NamesIn(lib.files)
        /\ index \in Indexes
        /\ \A n \in NamesIn(lib.files) : /\ index[n].source = new
                                         /\ index[n].place \in 1 .. Len(lib.files)
                                         /\ lib.files[index[n].place] = n
    BY <1>1, IndexesOfFiles DEF AddJar
  <2>2. jars' = Append(jars, index)
    BY DEF AddJar
  <2> HIDE DEF index, new
  <2>3. /\ jars' \in Seq(Indexes) /\ Len(jars) \in Nat /\ Len(jars') = Len(jars) + 1
        /\ jars'[Len(jars')] = index
        /\ \A i \in 1 .. Len(jars) : jars'[i] = jars[i]
    BY <2>1, <2>2 DEF SourceInv
  <2>4. 1 .. Len(jars') = (1 .. Len(jars)) \cup {Len(jars')}
    BY <2>3
  <2>5. ASSUME NEW n \in NamesIn(lib.files) PROVE IsCopy(added', index[n], "jar", n)
    <3>1. new \in Of(added', "jar", n)
      BY <1>1, <2>1
    <3> QED
      BY <1>1, <2>1, <3>1 DEF IsCopy
  <2>6. ASSUME NEW i \in 1 .. Len(jars'), NEW n \in DOMAIN jars'[i] PROVE IsCopy(added', jars'[i][n], "jar", n)
    BY <1>1, <2>1, <2>3, <2>4, <2>5 DEF SourceInv, JarsIndexed
  <2>7. ASSUME NEW n \in Names, Of(added', "jar", n) # {} PROVE \E i \in 1 .. Len(jars') : n \in DOMAIN jars'[i]
    <3>1. CASE Of(added, "jar", n) # {}
      BY <2>3, <2>4, <3>1 DEF SourceInv, JarsIndexed
    <3>2. CASE n \in NamesIn(lib.files)
      BY <2>1, <2>3, <2>4, <3>2
    <3> QED
      BY <1>1, <2>7, <3>1, <3>2
  <2> QED
    BY <2>3, <2>6, <2>7 DEF JarsIndexed
<1> QED
  BY <1>1, <1>2, <1>3, <1>4 DEF SourceInv

LEMMA AddClassHolds ==
  ASSUME SourceInv, NEW lib \in Libraries, NEW input \in BOOLEAN,
         input => \A s \in 1 .. Len(added) : added[s].input, AddClass(lib, input)
  PROVE  SourceInv'
<1> DEFINE new == Len(added')
           only == lib.files[1]
<1>1. /\ added' \in Added
      /\ Len(added) \in Nat /\ new = Len(added) + 1 /\ new \in Nat
      /\ added'[new] = [lib |-> lib, input |-> input]
      /\ \A kind, n : Of(added', kind, n) = Of(added, kind, n) \cup (IF kind = lib.kind /\ n \in NamesIn(lib.files) THEN {new} ELSE {})
      /\ \A c, kind, n : IsCopy(added, c, kind, n) => IsCopy(added', c, kind, n)
  BY SourceAppended DEF SourceInv, AddClass, NextSource
<1>2. lib.kind = "class" /\ Len(lib.files) = 1 /\ NamesIn(lib.files) = {only} /\ only \in Names
  BY LibraryTypes DEF AddClass, NamesIn
<1>3. InputsFirst' /\ PrimaryOfInputs' /\ SnapshotFresh'
  BY <1>2, RegisterHolds DEF AddClass
<1>4. DirsIndexed' /\ JarsIndexed' /\ jars' \in Seq(Indexes)
  <2>1. dirIndex' = dirIndex /\ jars' = jars
    BY DEF AddClass
  <2>2. \A n : Of(added', "dir", n) = Of(added, "dir", n) /\ Of(added', "jar", n) = Of(added, "jar", n)
    <3> SUFFICES ASSUME NEW n PROVE Of(added', "dir", n) = Of(added, "dir", n) /\ Of(added', "jar", n) = Of(added, "jar", n)
      OBVIOUS
    <3> HIDE DEF new, only
    <3>1. lib.kind # "dir" /\ lib.kind # "jar"
      BY <1>2
    <3>2. Of(added', "dir", n) = Of(added, "dir", n) \cup {}
      BY <1>1, <3>1
    <3>3. Of(added', "jar", n) = Of(added, "jar", n) \cup {}
      BY <1>1, <3>1
    <3> QED
      BY <3>2, <3>3
  <2>3. DirsIndexed'
    BY <1>1, <2>1, <2>2 DEF SourceInv, DirsIndexed
  <2>4. JarsIndexed'
    BY <1>1, <2>1, <2>2 DEF SourceInv, JarsIndexed
  <2> QED
    BY <2>1, <2>3, <2>4 DEF SourceInv
<1>5. FilesCached'
  <2>1. cache' = [n \in DOMAIN cache \cup {only} |-> IF n = only THEN Copy(new, 1) ELSE cache[n]]
    BY DEF AddClass
  <2> HIDE DEF new, only
  <2>2. DOMAIN cache' = {n \in Names : Of(added', "class", n) # {}}
    BY <1>1, <1>2, <2>1 DEF SourceInv, FilesCached
  <2>3. IsCopy(added', Copy(new, 1), "class", only)
    <3>1. new \in Of(added', "class", only)
      BY <1>1, <1>2
    <3> QED
      BY <1>1, <1>2, <3>1 DEF IsCopy, Copy, only
  <2>4. ASSUME NEW n \in DOMAIN cache' PROVE IsCopy(added', cache'[n], "class", n)
    <3>1. CASE n = only
      BY <2>1, <2>3, <3>1
    <3>2. CASE n # only
      BY <1>1, <2>1, <3>2 DEF SourceInv, FilesCached
    <3> QED
      BY <3>1, <3>2
  <2> QED
    BY <2>2, <2>4 DEF FilesCached
<1> QED
  BY <1>1, <1>3, <1>4, <1>5 DEF SourceInv

LEMMA SourcesKept ==
  ASSUME SourceInv, UNCHANGED <<added, dirIndex, jars, cache, primary>>, SnapshotFresh'
  PROVE  SourceInv'
<1>1. DirsIndexed'
  BY DEF SourceInv, DirsIndexed
<1>2. JarsIndexed'
  BY DEF SourceInv, JarsIndexed
<1>3. FilesCached'
  BY DEF SourceInv, FilesCached
<1>4. InputsFirst' /\ PrimaryOfInputs'
  BY DEF SourceInv, InputsFirst, PrimaryOfInputs
<1> QED
  BY <1>1, <1>2, <1>3, <1>4 DEF SourceInv

\* An index that is built holds the primary names, all the names where
\* there are no primary ones.
LEMMA AskFamilyHolds == SourceInv /\ AskFamily => SourceInv'
<1>1. AskFamily => SnapshotFresh'
  BY DEF AskFamily, PrimaryNames, SnapshotFresh
<1> QED
  BY <1>1, SourcesKept DEF AskFamily

(* The indexes hold what the sources hold, in every reachable state.       *)
THEOREM SourceInvariant == Spec => []SourceInv
<1>1. SourceInv /\ [Next]_vars => SourceInv'
  <2> SUFFICES ASSUME SourceInv, [Next]_vars PROVE SourceInv'
    OBVIOUS
  <2>1. CASE AskFamily
    BY <2>1, AskFamilyHolds
  <2>2. ASSUME NEW lib \in Libraries, NEW input \in BOOLEAN, Add(lib, input) PROVE SourceInv'
    BY <2>2, AddDirHolds, AddJarHolds, AddClassHolds DEF Add
  <2>3. CASE UNCHANGED vars
    <3>1. SnapshotFresh'
      BY <2>3 DEF vars, SourceInv, SnapshotFresh
    <3> QED
      BY <2>3, <3>1, SourcesKept DEF vars
  <2> QED
    BY <2>1, <2>2, <2>3 DEF Next
<1> QED
  BY <1>1, SourceInitHolds, PTL DEF Spec

-----------------------------------------------------------------------------
\* Where get finds a name, and what it finds there.
LEMMA LookupFinds ==
  ASSUME SourceInv, NEW n \in Names
  PROVE  /\ n \in DOMAIN cache => IsCopy(added, Lookup(n), "class", n)
         /\ n \notin DOMAIN cache /\ n \in DOMAIN dirIndex => Lookup(n) = dirIndex[n]
         /\ n \in AllNames /\ n \notin DOMAIN cache \cup DOMAIN dirIndex => IsCopy(added, Lookup(n), "jar", n)
         /\ n \notin AllNames => Lookup(n) = NoCopy
<1> DEFINE holding == {i \in 1 .. Len(jars) : n \in DOMAIN jars[i]}
<1>1. n \in AllNames <=> n \in DOMAIN cache \/ n \in DOMAIN dirIndex \/ holding # {}
  BY DEF AllNames
<1>2. ASSUME holding # {}, n \notin DOMAIN cache, n \notin DOMAIN dirIndex PROVE IsCopy(added, Lookup(n), "jar", n)
  <2>1. Len(jars) \in Nat /\ holding \in SUBSET (1 .. Len(jars))
    BY DEF SourceInv
  <2>2. Least(holding) \in holding
    <3> HIDE DEF holding
    <3> QED BY <1>2, <2>1, LeastIs
  <2>3. Lookup(n) = jars[Least(holding)][n]
    BY <1>2 DEF Lookup
  <2> QED
    BY <2>2, <2>3 DEF SourceInv, JarsIndexed
<1> QED
  BY <1>1, <1>2 DEF Lookup, SourceInv, FilesCached

LEMMA CopyExists ==
  ASSUME SourceInv, NEW c, NEW kind, NEW n, IsCopy(added, c, kind, n)
  PROVE  c # NoCopy /\ Holding(n) # {} /\ added[c.source].lib.files[c.place] = n
BY DEF IsCopy, Of, Holding, NoCopy, Copy

LEMMA HoldingKinds ==
  ASSUME SourceInv, NEW n
  PROVE  Holding(n) = Of(added, "dir", n) \cup Of(added, "jar", n) \cup Of(added, "class", n)
<1>1. \A s \in 1 .. Len(added) : added[s].lib.kind \in {"dir", "jar", "class"}
  <2>1. added \in Seq([lib : Libraries, input : BOOLEAN])
    BY DEF SourceInv, Added
  <2>2. \A s \in 1 .. Len(added) : added[s].lib \in Libraries
    <3> SUFFICES ASSUME NEW s \in 1 .. Len(added) PROVE added[s].lib \in Libraries
      OBVIOUS
    <3>1. added[s] \in [lib : Libraries, input : BOOLEAN]
      BY <2>1, ElementOfSeq
    <3> QED
      BY <3>1
  <2> QED
    BY <2>2, LibraryTypes
<1> QED
  BY <1>1 DEF Holding, Of

(* Every name a source holds is enumerated and found, as a copy of that    *)
(* name that its source really holds, and no other name is.                *)
THEOREM NamesAlwaysResolve == Spec => []NamesResolve
<1>1. SourceInv => NamesResolve
  <2> SUFFICES ASSUME SourceInv, NEW n \in Names
               PROVE  /\ Holding(n) # {} <=> Lookup(n) # NoCopy
                      /\ n \in AllNames <=> Lookup(n) # NoCopy
                      /\ Lookup(n) # NoCopy => added[Lookup(n).source].lib.files[Lookup(n).place] = n
    BY DEF NamesResolve
  <2>1. CASE n \in AllNames
    <3>1. \E kind \in {"dir", "jar", "class"} : IsCopy(added, Lookup(n), kind, n)
      <4>1. n \in DOMAIN dirIndex => IsCopy(added, dirIndex[n], "dir", n)
        BY DEF SourceInv, DirsIndexed
      <4> QED
        BY <2>1, <4>1, LookupFinds
    <3> QED
      BY <2>1, <3>1, CopyExists
  <2>2. CASE n \notin AllNames
    <3>1. Of(added, "class", n) = {} /\ Of(added, "dir", n) = {} /\ Of(added, "jar", n) = {}
      BY <2>2 DEF AllNames, SourceInv, DirsIndexed, JarsIndexed, FilesCached
    <3> QED
      BY <2>2, <3>1, LookupFinds, HoldingKinds
  <2> QED
    BY <2>1, <2>2
<1> QED
  BY <1>1, SourceInvariant, PTL

(* A class an input directory holds is looked up in the first such         *)
(* directory, unless a single .class file was given for it.                *)
THEOREM InputDirsComeFirst == Spec => []InputDirNotMasked
<1>1. SourceInv => InputDirNotMasked
  <2> SUFFICES ASSUME SourceInv, NEW n \in Names,
                      {s \in Holding(n) : added[s].input /\ added[s].lib.kind = "dir"} # {},
                      \A s \in Holding(n) : added[s].lib.kind # "class"
               PROVE  Lookup(n).source = Least({s \in Holding(n) : added[s].input /\ added[s].lib.kind = "dir"})
    BY DEF InputDirNotMasked
  <2> DEFINE dirs == {s \in Holding(n) : added[s].input /\ added[s].lib.kind = "dir"}
  <2>1. dirs \subseteq Of(added, "dir", n) /\ dirs \in SUBSET (1 .. Len(added)) /\ Len(added) \in Nat /\ Of(added, "class", n) = {}
    BY HoldingKinds DEF Holding, Of, SourceInv, Added
  <2>2. Least(dirs) \in dirs /\ \A j \in dirs : Least(dirs) <= j
    <3>1. dirs # {}
      OBVIOUS
    <3> HIDE DEF dirs
    <3> QED
      BY <2>1, <3>1, LeastIs
  <2>3. n \notin DOMAIN cache /\ n \in DOMAIN dirIndex
    BY <2>1, <2>2 DEF SourceInv, FilesCached, DirsIndexed
  <2>4. Lookup(n) = dirIndex[n] /\ IsCopy(added, dirIndex[n], "dir", n) /\ \A s \in Of(added, "dir", n) : dirIndex[n].source <= s
    BY <2>3, LookupFinds DEF SourceInv, DirsIndexed
  <2> DEFINE found == dirIndex[n].source
  <2>5. found \in Of(added, "dir", n) /\ found \in 1 .. Len(added) /\ found <= Least(dirs)
    BY <2>1, <2>2, <2>4 DEF IsCopy, Of
  <2>6. found \in dirs
    <3>1. added[Least(dirs)].input
      BY <2>2
    <3>2. added[found].input
      BY <2>1, <2>2, <2>5, <3>1 DEF SourceInv, InputsFirst
    <3> QED
      BY <2>5, <3>2, HoldingKinds DEF Of
  <2>7. found = Least(dirs)
    <3>1. Least(dirs) <= found /\ found \in Int /\ Least(dirs) \in Int
      BY <2>1, <2>2, <2>6
    <3> HIDE DEF dirs, found
    <3> QED
      BY <2>5, <3>1
  <2> QED
    BY <2>4, <2>7
<1> QED
  BY <1>1, SourceInvariant, PTL

(* Families are collected from the names of the inputs, however adding and *)
(* asking alternate.                                                       *)
THEOREM FamiliesArePrimary == Spec => []FamilyIsPrimary
<1>1. SourceInv => FamilyIsPrimary
  BY DEF SourceInv, PrimaryOfInputs, SnapshotFresh, FamilyIsPrimary
<1> QED
  BY <1>1, SourceInvariant, PTL
=============================================================================
