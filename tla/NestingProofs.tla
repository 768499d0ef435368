---------------------------- MODULE NestingProofs ----------------------------
(***************************************************************************)
(* Every class is printed once, in every world a compiler can have         *)
(* written: `NoneLost` and `PrintedOnce`.                                  *)
(*                                                                         *)
(* A job that is not skipped belongs to a class that is nested in none     *)
(* (SkippedIfNested), which is the root of its unit (NotNestedIsRoot).     *)
(* Two units do not meet (UnitsDisjoint), since a class between a root     *)
(* and its member has evidence and a root has none; and from a nested      *)
(* class the way out ends at a root whose unit holds it (InSomeUnit).      *)
(***************************************************************************)
EXTENDS Nesting, ExtremeTheorems, SequenceTheorems

-----------------------------------------------------------------------------
(* Names and their prefixes.                                               *)

LEMMA NameIsSeq ==
  ASSUME NEW n \in Names
  PROVE  n \in Seq(STRING) /\ Len(n) \in Nat \ {0}
BY NameParts, EmptySeq

(* A prefix of a name, by its length.                                      *)
LEMMA Cut ==
  ASSUME NEW n \in Seq(STRING), NEW k \in 1 .. Len(n)
  PROVE  /\ SubSeq(n, 1, k) \in Seq(STRING)
         /\ Len(SubSeq(n, 1, k)) = k
         /\ \A i \in 1 .. k : SubSeq(n, 1, k)[i] = n[i]
         /\ \A j \in 1 .. k : SubSeq(SubSeq(n, 1, k), 1, j) = SubSeq(n, 1, j)
<1>1. \A i \in 1 .. Len(n) : n[i] \in STRING
  BY ElementOfSeq
<1>2. /\ SubSeq(n, 1, k) \in Seq(STRING)
      /\ Len(SubSeq(n, 1, k)) = k
      /\ \A i \in 1 .. k : SubSeq(n, 1, k)[i] = n[i]
  <2>1. Len(n) \in Nat
    BY LenProperties
  <2> QED
    BY <1>1, <2>1, SubSeqProperties
<1>3. ASSUME NEW j \in 1 .. k PROVE SubSeq(SubSeq(n, 1, k), 1, j) = SubSeq(n, 1, j)
  <2>1. Len(n) \in Nat /\ j \in 1 .. Len(n)
    BY LenProperties
  <2>2. /\ SubSeq(n, 1, j) \in Seq(STRING)
        /\ Len(SubSeq(n, 1, j)) = j
        /\ \A i \in 1 .. j : SubSeq(n, 1, j)[i] = n[i]
    BY <1>1, <2>1, SubSeqProperties
  <2> DEFINE p == SubSeq(n, 1, k)
  <2>3. \A i \in 1 .. j : p[i] = n[i] /\ p[i] \in STRING
    BY <1>1, <1>2, <2>1
  <2>4. /\ SubSeq(p, 1, j) \in Seq(STRING)
        /\ Len(SubSeq(p, 1, j)) = j
        /\ \A i \in 1 .. j : SubSeq(p, 1, j)[i] = p[i]
    <3> HIDE DEF p
    <3> QED
      BY <2>1, <2>3, SubSeqProperties
  <2> HIDE DEF p
  <2>5. SubSeq(p, 1, j) = SubSeq(n, 1, j)
    BY <2>2, <2>3, <2>4, SeqEqual
  <2> QED
    BY <2>5 DEF p
<1> QED
  BY <1>2, <1>3

(* A name with its prefixes: each is the cut of its length.                *)
LEMMA PrefixIsCut ==
  ASSUME NEW n \in Names, NEW p \in Prefixes(n) \cup {n}
  PROVE  /\ p \in Seq(STRING) /\ Len(p) \in 1 .. Len(n) /\ p = SubSeq(n, 1, Len(p))
         /\ p # n => Len(p) < Len(n)
         /\ p \in Prefixes(n) => Len(p) < Len(n)
<1>1. n \in Seq(STRING) /\ Len(n) \in Nat \ {0}
  BY NameIsSeq
<1>2. CASE p \in Prefixes(n)
  <2>1. PICK k \in 1 .. Len(n) - 1 : p = SubSeq(n, 1, k)
    BY <1>2 DEF Prefixes
  <2>2. p \in Seq(STRING) /\ Len(p) = k
    BY <1>1, <2>1, Cut
  <2> QED
    BY <1>1, <2>1, <2>2
<1>3. CASE p = n /\ p \notin Prefixes(n)
  BY <1>1, <1>3, SubSeqFull
<1> QED
  BY <1>2, <1>3

(* The prefixes of a name, itself included, are ordered by their length.   *)
LEMMA PrefixOfPrefix ==
  ASSUME NEW n \in Names, NEW p \in Prefixes(n) \cup {n}, NEW q \in Prefixes(n) \cup {n}
  PROVE  /\ Len(p) = Len(q) => p = q
         /\ Len(q) < Len(p) => q \in Prefixes(p)
<1>1. n \in Seq(STRING) /\ Len(n) \in Nat \ {0}
  BY NameIsSeq
<1>2. /\ Len(p) \in 1 .. Len(n) /\ p = SubSeq(n, 1, Len(p))
      /\ Len(q) \in 1 .. Len(n) /\ q = SubSeq(n, 1, Len(q))
  BY PrefixIsCut
<1>3. ASSUME Len(q) < Len(p) PROVE q \in Prefixes(p)
  <2>1. Len(q) \in 1 .. Len(p) - 1
    BY <1>1, <1>2, <1>3
  <2>2. SubSeq(SubSeq(n, 1, Len(p)), 1, Len(q)) = SubSeq(n, 1, Len(q))
    BY <1>1, <1>2, <2>1, Cut
  <2> QED
    BY <1>2, <2>1, <2>2 DEF Prefixes
<1> QED
  BY <1>2, <1>3

LEMMA PrefixTransitive ==
  ASSUME NEW n \in Names, NEW p \in Prefixes(n), NEW q \in Prefixes(p)
  PROVE  q \in Prefixes(n) /\ Len(q) < Len(p)
<1>1. n \in Seq(STRING) /\ Len(n) \in Nat \ {0}
  BY NameIsSeq
<1>2. Len(p) \in 1 .. Len(n) - 1 /\ p = SubSeq(n, 1, Len(p))
  BY <1>1, PrefixIsCut
<1>3. PICK k \in 1 .. Len(p) - 1 : q = SubSeq(p, 1, k)
  BY DEF Prefixes
<1>4. q = SubSeq(n, 1, k) /\ Len(q) = k
  BY <1>1, <1>2, <1>3, Cut
<1>5. k \in 1 .. Len(n) - 1 /\ k < Len(p)
  BY <1>1, <1>2, <1>3
<1> QED
  BY <1>4, <1>5 DEF Prefixes

(* The class a nested name is declared in is its longest prefix.           *)
LEMMA ParentIsLongest ==
  ASSUME NEW n \in Names, Len(n) > 1
  PROVE  /\ Parent(n) \in Prefixes(n) /\ Len(Parent(n)) = Len(n) - 1
         /\ \A S : Parent(n) \in S /\ S \subseteq Prefixes(n) => Longest(S) = Parent(n)
<1>1. n \in Seq(STRING) /\ Len(n) \in Nat \ {0}
  BY NameIsSeq
<1>2. Len(n) - 1 \in 1 .. Len(n) - 1
  BY <1>1
<1>3. Parent(n) \in Prefixes(n)
  BY <1>2 DEF Parent, Prefixes
<1>4. Len(Parent(n)) = Len(n) - 1
  BY <1>1, <1>2, Cut DEF Parent
<1>5. ASSUME NEW S, Parent(n) \in S, S \subseteq Prefixes(n) PROVE Longest(S) = Parent(n)
  <2>1. \A q \in S : Len(q) \in 1 .. Len(n) - 1
    BY <1>1, <1>5, PrefixIsCut
  <2>2. \A q \in S : Len(q) <= Len(Parent(n))
    BY <1>1, <1>4, <2>1
  <2>3. Longest(S) \in S /\ \A q \in S : Len(q) <= Len(Longest(S))
    BY <1>5, <2>2 DEF Longest
  <2>4. Len(Longest(S)) = Len(Parent(n))
    BY <1>1, <1>4, <1>5, <2>1, <2>2, <2>3
  <2> QED
    BY <1>3, <1>5, <2>3, <2>4, PrefixOfPrefix
<1> QED
  BY <1>3, <1>4, <1>5
-----------------------------------------------------------------------------
(* What a compiler writes, and the two questions about it.                 *)

LEMMA WorldType ==
  ASSUME world \in Worlds
  PROVE  /\ world.primary \subseteq Names /\ world.library \subseteq Names
         /\ world.of \in [Names -> [is : Kinds, own : BOOLEAN, by : SUBSET Names]]
         /\ world.jar \in BOOLEAN
         /\ Compiled(world)
BY WorldShapes DEF Worlds

(* A class that is nested is declared in the class it is named after,      *)
(* which is there, and its job is skipped.                                 *)
LEMMA SkippedIfNested ==
  ASSUME world \in Worlds, NEW n \in world.primary, world.of[n].is # "none"
  PROVE  /\ Len(n) > 1 /\ Parent(n) \in world.primary
         /\ Skipped(n)
<1>1. /\ Len(n) > 1 /\ Parent(n) \in world.primary
      /\ Parent(n) \in world.of[n].by
  BY WorldType DEF Compiled
<1>2. n \in Names
  BY WorldType
<1> DEFINE outers == Prefixes(n) \cap Pool
<1>3. Parent(n) \in outers /\ outers \subseteq Prefixes(n)
  BY <1>1, <1>2, ParentIsLongest DEF Pool
<1>4. Longest(outers) = Parent(n)
  <2> HIDE DEF outers
  <2> QED
    BY <1>1, <1>2, <1>3, ParentIsLongest
<1>5. Evidence(n, Parent(n))
  BY <1>1, <1>3 DEF Evidence
<1>6. Skipped(n)
  BY <1>3, <1>4, <1>5 DEF Skipped, IsNested, IsNestedAsFile
<1> QED
  BY <1>1, <1>6

(* A class that is nested in none has no evidence, so it is its own root.  *)
LEMMA NotNestedIsRoot ==
  ASSUME world \in Worlds, NEW n \in world.primary, world.of[n].is = "none"
  PROVE  /\ \A p : ~Evidence(n, p)
         /\ RootOf(n) = n
<1>1. ~world.of[n].own /\ world.of[n].by = {}
  BY WorldType DEF Compiled
<1>2. \A p : ~Evidence(n, p)
  BY <1>1 DEF Evidence
<1>3. n \in Names /\ Outers(n) = {}
  BY <1>2, WorldType DEF Outers
<1>4. OutersOf(n) = {n}
  <2>1. n \in OutersOf(n)
    BY <1>3 DEF OutersOf
  <2>2. ASSUME NEW p \in OutersOf(n) PROVE p = n
    <3>1. {n} \in SUBSET Names /\ n \in {n}
      BY <1>3
    <3>2. \A m \in {n} : Outers(m) # {} => Longest(Outers(m)) \in {n}
      BY <1>3
    <3>3. p \in {n}
      BY <3>1, <3>2 DEF OutersOf
    <3> QED
      BY <3>3
  <2> QED
    BY <2>1, <2>2
<1>5. RootOf(n) = n
  BY <1>3, <1>4 DEF RootOf
<1> QED
  BY <1>2, <1>5

(* A unit holds classes of the input only, and two units have none in      *)
(* common.                                                                 *)
LEMMA UnitIsPrimary ==
  ASSUME world \in Worlds, NEW r \in world.primary, NEW m \in Unit(r)
  PROVE  m \in world.primary /\ m \in Names /\ r \in Prefixes(m) \cup {m}
<1>1. m \in Names
  BY DEF Unit
<1>2. CASE m = r
  BY <1>1, <1>2
<1>3. CASE m # r
  <2>1. r \in Prefixes(m) /\ (Len(m) > Len(r) => PrintedInside(m, r))
    BY <1>3 DEF Unit
  <2>2. Len(m) > Len(r)
    BY <1>1, <2>1, NameIsSeq, PrefixIsCut
  <2>3. m \in world.primary
    BY <2>1, <2>2 DEF PrintedInside, Family
  <2> QED
    BY <1>1, <2>1, <2>3
<1> QED
  BY <1>2, <1>3

LEMMA UnitsDisjoint ==
  ASSUME world \in Worlds,
         NEW r \in world.primary, world.of[r].is = "none",
         NEW s \in world.primary, world.of[s].is = "none",
         NEW m, m \in Unit(r), m \in Unit(s)
  PROVE  r = s
<1>1. m \in Names /\ r \in Prefixes(m) \cup {m} /\ s \in Prefixes(m) \cup {m}
  BY UnitIsPrimary
<1>2. Len(r) \in 1 .. Len(m) /\ Len(s) \in 1 .. Len(m) /\ Len(m) \in Nat
  BY <1>1, PrefixIsCut, NameIsSeq
<1>3. ASSUME NEW a \in world.primary, NEW b \in world.primary, world.of[b].is = "none",
             m \in Unit(a), b \in Prefixes(m) \cup {m}, Len(m) >= Len(b), Len(b) > Len(a)
      PROVE  FALSE
  <2>1. m # a
    BY <1>2, <1>3
  <2>2. PrintedInside(b, a)
    BY <1>3, <2>1 DEF Unit
  <2>3. Evidence(b, a)
    BY <2>2 DEF PrintedInside, Family
  <2> QED
    BY <1>3, <2>3, NotNestedIsRoot
<1>4. ~(Len(r) < Len(s)) /\ ~(Len(s) < Len(r))
  BY <1>1, <1>2, <1>3
<1>5. Len(r) = Len(s)
  BY <1>2, <1>4
<1> QED
  BY <1>1, <1>5, PrefixOfPrefix

(* From a class of the input the classes around it lead, one part of the   *)
(* name less each, to one that is nested in none, all of the input.        *)
LEMMA WayOut ==
  ASSUME world \in Worlds, NEW m \in world.primary
  PROVE  \E r \in Prefixes(m) \cup {m} :
            /\ r \in world.primary /\ world.of[r].is = "none"
            /\ \A q \in Prefixes(m) \cup {m} :
                  Len(q) > Len(r) => q \in world.primary /\ world.of[q].is # "none"
<1>1. m \in Names /\ m \in Seq(STRING) /\ Len(m) \in Nat \ {0}
  BY WorldType, NameIsSeq
<1> DEFINE up(d) == SubSeq(m, 1, Len(m) - d)
           Ends == {d \in 0 .. Len(m) - 1 : ~(up(d) \in world.primary /\ world.of[up(d)].is # "none")}
<1>2. \A d \in 0 .. Len(m) - 1 : Len(up(d)) = Len(m) - d /\ up(d) \in Prefixes(m) \cup {m}
  <2> SUFFICES ASSUME NEW d \in 0 .. Len(m) - 1
               PROVE  Len(up(d)) = Len(m) - d /\ up(d) \in Prefixes(m) \cup {m}
    OBVIOUS
  <2>1. Len(m) - d \in 1 .. Len(m)
    BY <1>1
  <2>2. CASE d = 0
    BY <1>1, <2>2, SubSeqFull
  <2>3. CASE d # 0
    <3>1. Len(m) - d \in 1 .. Len(m) - 1
      BY <1>1, <2>3
    <3>2. up(d) \in Prefixes(m)
      BY <3>1 DEF Prefixes
    <3> QED
      BY <1>1, <2>1, <3>2, Cut
  <2> QED
    BY <2>2, <2>3
<1>3. Len(m) - 1 \in Ends
  <2>1. Len(m) - 1 \in 0 .. Len(m) - 1
    BY <1>1
  <2>2. Len(up(Len(m) - 1)) = 1
    BY <1>1, <1>2, <2>1
  <2>3. ~(up(Len(m) - 1) \in world.primary /\ world.of[up(Len(m) - 1)].is # "none")
    <3>1. PICK q : q = up(Len(m) - 1)
      OBVIOUS
    <3>2. ~(q \in world.primary /\ world.of[q].is # "none")
      <4>1. ~(Len(q) > 1)
        BY <2>2, <3>1
      <4> QED
        BY <4>1, SkippedIfNested
    <3> QED
      BY <3>1, <3>2
  <2> QED
    BY <2>1, <2>3
<1>4. PICK d \in Ends : \A e \in 0 .. d - 1 : e \notin Ends
  <2>1. Len(m) - 1 \in Nat
    BY <1>1
  <2>2. Ends \in SUBSET (0 .. Len(m) - 1)
    OBVIOUS
  <2> HIDE DEF Ends
  <2> QED
    BY <1>3, <2>1, <2>2, LeastInRange
<1>5. d \in 0 .. Len(m) - 1 /\ Len(up(d)) = Len(m) - d /\ up(d) \in Prefixes(m) \cup {m}
  BY <1>2
<1>6. \A e \in 0 .. d - 1 : up(e) \in world.primary /\ world.of[up(e)].is # "none"
  <2>1. \A e \in 0 .. d - 1 : e \in 0 .. Len(m) - 1
    BY <1>1, <1>5
  <2> QED
    BY <1>4, <2>1
<1>7. up(d) \in world.primary
  <2>1. CASE d = 0
    <3>1. Len(m) - d = Len(m)
      BY <1>1, <2>1
    <3>2. up(d) = m
      BY <1>1, <3>1, SubSeqFull
    <3> QED
      BY <3>2
  <2>2. CASE d # 0
    <3>1. d - 1 \in 0 .. d - 1 /\ d - 1 \in 0 .. Len(m) - 1
      BY <1>1, <1>5, <2>2
    <3>2. up(d - 1) \in world.primary /\ world.of[up(d - 1)].is # "none"
      BY <1>6, <3>1
    <3>3. Parent(up(d - 1)) \in world.primary
      <4> HIDE DEF up
      <4> QED
        BY <3>2, SkippedIfNested
    <3>4. Len(m) - (d - 1) \in 1 .. Len(m) /\ Len(m) - d \in 1 .. Len(m) - (d - 1)
      BY <1>1, <1>5, <2>2
    <3>5. SubSeq(SubSeq(m, 1, Len(m) - (d - 1)), 1, Len(m) - d) = SubSeq(m, 1, Len(m) - d)
      BY <1>1, <3>4, Cut
    <3>6. Len(up(d - 1)) - 1 = Len(m) - d
      BY <1>1, <1>2, <1>5, <3>1
    <3>7. Parent(up(d - 1)) = up(d)
      BY <3>5, <3>6 DEF Parent
    <3> QED
      BY <3>3, <3>7
  <2> QED
    BY <2>1, <2>2
<1>8. world.of[up(d)].is = "none"
  BY <1>4, <1>7
<1>9. ASSUME NEW q \in Prefixes(m) \cup {m}, Len(q) > Len(up(d))
      PROVE  q \in world.primary /\ world.of[q].is # "none"
  <2>1. Len(q) \in 1 .. Len(m) /\ q = SubSeq(m, 1, Len(q))
    BY <1>1, PrefixIsCut
  <2>2. Len(m) - Len(q) \in 0 .. d - 1 /\ Len(m) - (Len(m) - Len(q)) = Len(q)
    BY <1>1, <1>5, <1>9, <2>1
  <2>3. up(Len(m) - Len(q)) = q
    BY <2>1, <2>2
  <2> HIDE DEF up
  <2> QED
    BY <1>6, <2>2, <2>3
<1> HIDE DEF up, Ends
<1> QED
  BY <1>5, <1>7, <1>8, <1>9

(* A nested class is printed inside the class around it, in the unit of    *)
(* any root from which all classes are nested.                             *)
LEMMA NestedIsPrinted ==
  ASSUME world \in Worlds, NEW q \in world.primary, world.of[q].is # "none",
         NEW r \in Prefixes(q), r \in world.primary,
         \A p \in Prefixes(q) : Len(p) > Len(r) => world.of[p].is # "none",
         \A k \in Len(r) + 1 .. Len(q) - 1 : q[k] # Lambda
  PROVE  PrintedInside(q, r)
<1>1. q \in Names /\ r \in Names
  BY WorldType
<1>2. world.of[q].own \/ world.of[q].by = Around(world, q)
  BY WorldType DEF Compiled
<1>3. r \in Around(world, q)
  BY DEF Around
<1>4. Evidence(q, r)
  BY <1>2, <1>3 DEF Evidence, Pool
<1>5. q \in Family(r)
  BY <1>4 DEF Family
<1>6. world.of[q].is \in Kinds
  BY <1>1, WorldType
<1>7. Kind(q, r) # "lambda"
  BY <1>6 DEF Kind, Kinds, ByLastPart
<1> QED
  BY <1>5, <1>7 DEF PrintedInside

(* So every class is in the unit of a job that is not skipped: of a jar    *)
(* always, of a directory if no prefix of a class that is nested in none   *)
(* names a class.                                                          *)
LEMMA InSomeUnit ==
  ASSUME world \in Worlds, world.jar \/ Siblings = {},
         NEW m \in world.primary, ~\E k \in 2 .. Len(m) - 1 : m[k] = Lambda
  PROVE  \E r \in world.primary : /\ world.of[r].is = "none" /\ ~Skipped(r)
                                   /\ m \in Unit(r)
<1>1. m \in Names /\ m \in Seq(STRING) /\ Len(m) \in Nat \ {0}
  BY WorldType, NameIsSeq
<1>2. PICK r \in Prefixes(m) \cup {m} :
            /\ r \in world.primary /\ world.of[r].is = "none"
            /\ \A q \in Prefixes(m) \cup {m} :
                  Len(q) > Len(r) => q \in world.primary /\ world.of[q].is # "none"
  BY WayOut
<1>3. Len(r) \in 1 .. Len(m)
  BY <1>1, PrefixIsCut
<1>4. ~Skipped(r)
  <2>1. CASE world.jar
    <3>1. r \in Pool /\ \A p : ~Evidence(r, p)
      BY <1>2, NotNestedIsRoot DEF Pool
    <3> QED
      BY <2>1, <3>1 DEF Skipped, IsNested
  <2>2. CASE ~world.jar /\ Siblings = {}
    BY <1>2, <2>2 DEF Siblings, Skipped, IsNestedAsFile
  <2> QED
    BY <2>1, <2>2
<1>5. ASSUME NEW q \in Prefixes(m) \cup {m}, Len(q) > Len(r) PROVE PrintedInside(q, r)
  <2>1. q \in world.primary /\ world.of[q].is # "none"
    BY <1>2, <1>5
  <2>2. r \in Prefixes(q)
    BY <1>1, <1>5, PrefixOfPrefix
  <2>3. \A p \in Prefixes(q) : p \in Prefixes(m)
    BY <1>1, PrefixTransitive
  <2>4. \A k \in Len(r) + 1 .. Len(q) - 1 : q[k] # Lambda
    <3>1. Len(q) \in 1 .. Len(m) /\ q = SubSeq(m, 1, Len(q))
      BY <1>1, PrefixIsCut
    <3>2. \A k \in 1 .. Len(q) : SubSeq(m, 1, Len(q))[k] = m[k]
      BY <1>1, <3>1, Cut
    <3>3. \A k \in Len(r) + 1 .. Len(q) - 1 : k \in 2 .. Len(m) - 1 /\ k \in 1 .. Len(q)
      BY <1>1, <1>3, <3>1
    <3>4. \A k \in 1 .. Len(q) : q[k] = m[k]
      BY <3>1, <3>2
    <3> QED
      BY <3>3, <3>4
  <2> QED
    BY <1>2, <2>1, <2>2, <2>3, <2>4, NestedIsPrinted
<1>6. m \in Unit(r)
  BY <1>1, <1>2, <1>5 DEF Unit
<1> QED
  BY <1>2, <1>4, <1>6

-----------------------------------------------------------------------------
(* A class is in the files of the jobs done that printed it.               *)

Printers(m) == {n \in world.primary \ todo : ~Skipped(n) /\ m \in Unit(n)}

NestingInv ==
  /\ world \in Worlds
  /\ todo \subseteq world.primary
  /\ files = [m \in Names |-> Printers(m)]

(* The questions have the same answers as long as the world is the same.   *)
LEMMA AnswersStay ==
  ASSUME world' = world
  PROVE  /\ \A n : Skipped(n)' <=> Skipped(n)
         /\ \A r : Unit(r)' = Unit(r)
<1>1. Pool' = Pool
  BY DEF Pool
<1>2. \A n, p : Evidence(n, p)' <=> Evidence(n, p)
  BY <1>1 DEF Evidence
<1>3. \A n : Skipped(n)' <=> Skipped(n)
  BY <1>1, <1>2 DEF Skipped, IsNested, IsNestedAsFile
<1>4. \A r, n : n \in Family(r)' <=> n \in Family(r)
  BY <1>2 DEF Family
<1>5. \A n, r : Kind(n, r)' = Kind(n, r)
  BY DEF Kind, ByLastPart
<1>6. \A n, r : PrintedInside(n, r)' <=> PrintedInside(n, r)
  BY <1>4, <1>5 DEF PrintedInside
<1>7. \A r : Unit(r)' = Unit(r)
  BY <1>6 DEF Unit
<1> QED
  BY <1>3, <1>7

(* What is printed is what the jobs that are done and were not skipped     *)
(* have in their units, each the unit of its own class.                    *)
THEOREM NestingInvariant == Spec => []NestingInv
<1>1. Init => NestingInv
  <2> SUFFICES ASSUME Init PROVE NestingInv
    OBVIOUS
  <2>1. world \in Worlds /\ todo = world.primary
    BY DEF Init
  <2>2. \A m \in Names : Printers(m) = {}
    BY <2>1 DEF Printers
  <2>3. files = [m \in Names |-> Printers(m)]
    BY <2>2 DEF Init
  <2> QED
    BY <2>1, <2>3 DEF NestingInv
<1>2. NestingInv /\ [Next]_vars => NestingInv'
  <2> SUFFICES ASSUME NestingInv, [Next]_vars PROVE NestingInv'
    OBVIOUS
  <2>1. world' = world
    BY DEF Next, Skip, PrintUnit, vars
  <2>2. (world \in Worlds)'
    BY <2>1 DEF NestingInv, Worlds, Compiled, Around
  <2>3. \A m : Printers(m)' = {n \in world.primary \ todo' : ~Skipped(n) /\ m \in Unit(n)}
    BY <2>1, AnswersStay DEF Printers
  <2>4. CASE UNCHANGED vars
    <3>1. \A m : Printers(m)' = Printers(m)
      BY <2>3, <2>4 DEF Printers, vars
    <3> QED
      BY <2>1, <2>2, <2>4, <3>1 DEF NestingInv, vars
  <2>5. ASSUME NEW n \in Names, Skip(n) PROVE NestingInv'
    <3>1. todo' = todo \ {n} /\ files' = files /\ Skipped(n)
      BY <2>5 DEF Skip
    <3>2. \A m : Printers(m)' = Printers(m)
      BY <2>3, <3>1 DEF Printers
    <3> QED
      BY <2>1, <2>2, <3>1, <3>2 DEF NestingInv
  <2>6. ASSUME NEW n \in Names, PrintUnit(n) PROVE NestingInv'
    <3>1. n \in todo /\ n \in world.primary /\ ~Skipped(n) /\ todo' = todo \ {n}
      BY <2>6 DEF PrintUnit, NestingInv
    <3>2. world.of[n].is = "none"
      BY <3>1, SkippedIfNested DEF NestingInv
    <3>3. RootOf(n) = n
      BY <3>1, <3>2, NotNestedIsRoot DEF NestingInv
    <3>4. files' = [m \in Names |-> IF m \in Unit(n) THEN files[m] \cup {n} ELSE files[m]]
      BY <2>6, <3>3 DEF PrintUnit
    <3>5. ASSUME NEW m \in Names PROVE files'[m] = Printers(m)'
      <4>1. files[m] = Printers(m)
        BY DEF NestingInv
      <4>2. Printers(m)' = IF m \in Unit(n) THEN Printers(m) \cup {n} ELSE Printers(m)
        BY <2>3, <3>1 DEF Printers
      <4> QED
        BY <3>4, <4>1, <4>2
    <3>6. files' = [m \in Names |-> Printers(m)']
      BY <3>4, <3>5
    <3> QED
      BY <2>1, <2>2, <3>1, <3>6 DEF NestingInv
  <2> QED
    BY <2>4, <2>5, <2>6 DEF Next
<1> QED
  BY <1>1, <1>2, PTL DEF Spec

(* No class of the input is lost once the jobs are done.                   *)
THEOREM NoClassLost == Spec => []NoneLost
<1>1. NestingInv => NoneLost
  <2> SUFFICES ASSUME NestingInv, todo = {}, world.jar \/ Siblings = {},
                      NEW m \in Lost
               PROVE  FALSE
    BY DEF NoneLost
  <2>1. m \in world.primary /\ files[m] = {} /\ ~\E k \in 2 .. Len(m) - 1 : m[k] = Lambda
    BY DEF Lost
  <2>2. PICK r \in world.primary : ~Skipped(r) /\ m \in Unit(r)
    BY <2>1, InSomeUnit DEF NestingInv
  <2>3. m \in Names
    BY <2>1, WorldType DEF NestingInv
  <2>4. r \in Printers(m)
    BY <2>2 DEF Printers
  <2> QED
    BY <2>1, <2>3, <2>4 DEF NestingInv
<1> QED
  BY <1>1, NestingInvariant, PTL

(* No class is printed in two files, and none of the class path in any.    *)
THEOREM NoClassTwice == Spec => []PrintedOnce
<1>1. NestingInv => PrintedOnce
  <2> SUFFICES ASSUME NestingInv, NEW m \in Names
               PROVE  Cardinality(files[m]) <= IF m \in world.primary THEN 1 ELSE 0
    BY DEF PrintedOnce
  <2>1. files[m] = Printers(m)
    BY DEF NestingInv
  <2>2. ASSUME NEW r \in Printers(m)
        PROVE  /\ r \in world.primary /\ world.of[r].is = "none"
               /\ m \in Unit(r) /\ m \in world.primary
    BY <2>2, SkippedIfNested, UnitIsPrimary DEF Printers, NestingInv
  <2>3. \A r, s \in Printers(m) : r = s
    BY <2>2, UnitsDisjoint DEF NestingInv
  <2>4. CASE Printers(m) = {}
    BY <2>1, <2>4, FS_EmptySet
  <2>5. CASE Printers(m) # {}
    <3>1. PICK r \in Printers(m) : TRUE
      BY <2>5
    <3>2. Printers(m) = {r}
      BY <2>3, <3>1
    <3>3. Cardinality(Printers(m)) = 1
      BY <3>2, FS_Singleton
    <3> QED
      BY <2>1, <2>2, <3>1, <3>3
  <2> QED
    BY <2>4, <2>5
<1> QED
  BY <1>1, NestingInvariant, PTL
=============================================================================
