--------------------------- MODULE RenderStateProofs ---------------------------
(***************************************************************************)
(* The emitter's registries follow its calls, whatever the classes hold,   *)
(* however deep they nest and wherever an Err unwinds them.                *)
(*                                                                         *)
(* StackInv is inductive.  It adds to the properties the types and who     *)
(* owns the renames that are installed: a class in the middle of printing  *)
(* its methods, so none where nothing is in progress.                      *)
(*                                                                         *)
(* From it follow that the native stack is bounded, that every step leaves *)
(* less work in a well-founded order, and how far printing on a thread     *)
(* that worked before can differ from printing on a fresh one.             *)
(***************************************************************************)
EXTENDS RenderState, FiniteSetTheorems, SequenceTheorems, WellFoundedInduction, TLAPS

\* The calls of s that print a body or a class, and those that print a method.
BodyCalls(s) == {k \in 1 .. Len(s) : s[k].kind # "method"}
MethodCalls(s) == {k \in 1 .. Len(s) : s[k].kind = "method"}
PrintsMethods(frame) == frame.kind = "class" /\ frame.at = "methods"

ClassesOf(s) == {s[k].cls : k \in BodyCalls(s)}
AllDistinct(s) == \A j, k \in BodyCalls(s) : j # k => s[j].cls # s[k].cls
Owned(s, rn) == rn # {} => \E k \in 1 .. Len(s) : PrintsMethods(s[k])
SameCall(f, g) == f.kind = g.kind /\ f.cls = g.cls

\* The registries em, d and rn are those of the calls s.
Follows(s, em, d, rn) ==
  /\ s \in Seq(Frames)
  /\ em = ClassesOf(s)
  /\ d = Cardinality(MethodCalls(s))
  /\ AllDistinct(s)
  /\ Owned(s, rn)

\* What else TypeOK says.
OtherTypes ==
  /\ unwinding \in BOOLEAN
  /\ renames \subseteq Methods
  /\ patCtr \in Nat
  /\ extern \subseteq AllLocals
  /\ fresh \in [patCtr : Nat, extern : SUBSET AllLocals]
  /\ diverged \subseteq {"pattern", "extern"}
  /\ jobs \subseteq Roots

StackInv == Follows(stack, emitting, depth, renames) /\ OtherTypes

-----------------------------------------------------------------------------
LEMMA FrameTyped ==
  ASSUME NEW kind \in {"class", "method", "anon"}, NEW c \in Classes, NEW m \in 0 .. NMethods,
         NEW at \in {"arguments", "inline"}
  PROVE  Frame(kind, c, m, at) \in Frames /\ Frame(kind, c, m, at).kind = kind
         /\ Frame(kind, c, m, at).cls = c /\ Frame(kind, c, m, at).at = at
BY ClassTree DEF Frame, Frames, Stages

LEMMA MethodCallsCounted ==
  ASSUME NEW s \in Seq(Frames)
  PROVE  /\ IsFiniteSet(MethodCalls(s)) /\ Cardinality(MethodCalls(s)) \in Nat
         /\ Len(s) + 1 \notin MethodCalls(s)
<1>1. Len(s) \in Nat /\ 1 \in Int /\ IsFiniteSet(1 .. Len(s))
  BY FS_Interval
<1>2. MethodCalls(s) \in SUBSET (1 .. Len(s))
  BY DEF MethodCalls
<1> QED
  BY <1>1, <1>2, FS_Subset, FS_CardinalityType

\* A non-empty sequence without its last element.
LEMMA AllButLast ==
  ASSUME NEW T, NEW s \in Seq(T), s # <<>>
  PROVE  /\ Len(s) \in Nat \ {0}
         /\ SubSeq(s, 1, Len(s) - 1) \in Seq(T)
         /\ Len(SubSeq(s, 1, Len(s) - 1)) = Len(s) - 1
         /\ \A k \in 1 .. Len(s) - 1 : SubSeq(s, 1, Len(s) - 1)[k] = s[k]
<1>1. Len(s) \in Nat \ {0}
  BY EmptySeq
<1>2. \A k \in 1 .. Len(s) - 1 : s[k] \in T
  BY <1>1, ElementOfSeq
<1>3. 1 \in Int /\ Len(s) - 1 \in Int
  BY <1>1
<1> DEFINE u == SubSeq(s, 1, Len(s) - 1)
<1>4. /\ u \in Seq(T)
      /\ Len(u) = IF 1 <= Len(s) - 1 THEN Len(s) - 1 - 1 + 1 ELSE 0
      /\ \A k \in 1 .. Len(s) - 1 - 1 + 1 : u[k] = s[1 + k - 1]
  BY <1>2, <1>3, SubSeqProperties
<1> HIDE DEF u
<1>5. Len(u) = Len(s) - 1
  <2>1. \A n \in Nat \ {0} : (IF 1 <= n - 1 THEN n - 1 - 1 + 1 ELSE 0) = n - 1
    OBVIOUS
  <2>2. Len(u) = IF 1 <= Len(s) - 1 THEN Len(s) - 1 - 1 + 1 ELSE 0
    BY <1>4
  <2> QED
    BY <1>1, <2>1, <2>2
<1>6. \A k \in 1 .. Len(s) - 1 : u[k] = s[k]
  BY <1>1, <1>4
<1>7. Len(s) \in Nat \ {0} /\ u \in Seq(T) /\ Len(u) = Len(s) - 1 /\ \A k \in 1 .. Len(s) - 1 : u[k] = s[k]
  BY <1>1, <1>4, <1>5, <1>6
<1> QED
  BY <1>7, Zenon DEF u

\* ... and with another in its place.
LEMMA LastReplaced ==
  ASSUME NEW T, NEW s \in Seq(T), s # <<>>, NEW f \in T
  PROVE  LET r == Append(SubSeq(s, 1, Len(s) - 1), f) IN
         /\ Len(s) \in Nat \ {0}
         /\ r \in Seq(T) /\ Len(r) = Len(s) /\ r[Len(s)] = f
         /\ \A k \in 1 .. Len(s) - 1 : r[k] = s[k]
<1> DEFINE u == SubSeq(s, 1, Len(s) - 1)
<1>1. /\ Len(s) \in Nat \ {0} /\ u \in Seq(T) /\ Len(u) = Len(s) - 1
      /\ \A k \in 1 .. Len(s) - 1 : u[k] = s[k]
  BY AllButLast
<1> HIDE DEF u
<1>2. /\ Append(u, f) \in Seq(T) /\ Len(Append(u, f)) = Len(s) /\ Append(u, f)[Len(s)] = f
      /\ \A k \in 1 .. Len(s) - 1 : Append(u, f)[k] = u[k]
  BY <1>1
<1> QED
  BY <1>1, <1>2 DEF u

LEMMA ElementAdded ==
  ASSUME NEW T, NEW s \in Seq(T), NEW g \in T
  PROVE  LET r == s \o <<g>> IN
         /\ r \in Seq(T) /\ Len(r) = Len(s) + 1 /\ r[Len(s) + 1] = g
         /\ \A k \in 1 .. Len(s) : r[k] = s[k]
<1>1. <<g>> \in Seq(T) /\ Len(<<g>>) = 1 /\ <<g>>[1] = g /\ Len(s) \in Nat
  OBVIOUS
<1> QED
  BY <1>1, ConcatProperties

LEMMA SameCalls ==
  ASSUME NEW s, NEW r, BodyCalls(r) = BodyCalls(s), \A k \in BodyCalls(s) : r[k].cls = s[k].cls
  PROVE  ClassesOf(r) = ClassesOf(s) /\ (AllDistinct(s) => AllDistinct(r))
<1>1. ClassesOf(r) = ClassesOf(s)
  BY DEF ClassesOf
<1>2. AllDistinct(s) => AllDistinct(r)
  BY DEF AllDistinct
<1> QED
  BY <1>1, <1>2

-----------------------------------------------------------------------------
\* The frame on top goes on: it is still the same call, so what may change
\* is who owns the renames.
LEMMA FollowsOn ==
  ASSUME NEW s, NEW em, NEW d, NEW rn, Follows(s, em, d, rn), s # <<>>,
         NEW f \in Frames, SameCall(f, s[Len(s)]),
         NEW rn2, rn2 = {} \/ PrintsMethods(f) \/ (rn2 = rn /\ ~PrintsMethods(s[Len(s)]))
  PROVE  Follows(Append(SubSeq(s, 1, Len(s) - 1), f), em, d, rn2)
<1> DEFINE r == Append(SubSeq(s, 1, Len(s) - 1), f)
<1>1. s \in Seq(Frames) /\ em = ClassesOf(s) /\ d = Cardinality(MethodCalls(s)) /\ AllDistinct(s) /\ Owned(s, rn)
  BY DEF Follows
<1>2. /\ Len(s) \in Nat \ {0}
      /\ r \in Seq(Frames) /\ Len(r) = Len(s) /\ r[Len(s)] = f
      /\ \A k \in 1 .. Len(s) - 1 : r[k] = s[k]
  BY <1>1, LastReplaced
<1> HIDE DEF r
<1>3. \A k \in 1 .. Len(s) : r[k].kind = s[k].kind /\ r[k].cls = s[k].cls
  BY <1>2 DEF SameCall
<1>4. BodyCalls(r) = BodyCalls(s) /\ MethodCalls(r) = MethodCalls(s)
  BY <1>2, <1>3 DEF BodyCalls, MethodCalls
<1>5. \A k \in BodyCalls(s) : r[k].cls = s[k].cls
  BY <1>3 DEF BodyCalls
<1>6. Owned(r, rn2)
  <2> SUFFICES ASSUME rn2 # {} PROVE \E k \in 1 .. Len(r) : PrintsMethods(r[k])
    BY DEF Owned
  <2>1. CASE PrintsMethods(f)
    BY <1>2, <2>1
  <2>2. CASE rn2 = rn /\ ~PrintsMethods(s[Len(s)])
    <3>1. PICK k \in 1 .. Len(s) : PrintsMethods(s[k])
      BY <1>1, <2>2 DEF Owned
    <3>2. k \in 1 .. Len(s) - 1
      BY <1>2, <2>2, <3>1
    <3> QED
      BY <1>2, <3>1, <3>2
  <2> QED
    BY <2>1, <2>2
<1>7. em = ClassesOf(r) /\ AllDistinct(r)
  BY <1>1, <1>4, <1>5, SameCalls
<1>8. Follows(r, em, d, rn2)
  BY <1>1, <1>2, <1>4, <1>6, <1>7 DEF Follows
<1> QED
  BY <1>8 DEF r

\* A call on top of the stack.
LEMMA CallAdded ==
  ASSUME NEW s \in Seq(Frames), NEW g \in Frames
  PROVE  LET r == s \o <<g>> IN
         /\ r \in Seq(Frames) /\ Len(r) = Len(s) + 1 /\ Len(s) \in Nat
         /\ r[Len(s) + 1] = g
         /\ \A k \in 1 .. Len(s) : r[k] = s[k]
         /\ g.kind # "method" => BodyCalls(r) = BodyCalls(s) \cup {Len(s) + 1} /\ MethodCalls(r) = MethodCalls(s)
         /\ g.kind = "method" => MethodCalls(r) = MethodCalls(s) \cup {Len(s) + 1} /\ BodyCalls(r) = BodyCalls(s)
<1> DEFINE r == s \o <<g>>
<1>1. /\ r \in Seq(Frames) /\ Len(r) = Len(s) + 1 /\ Len(s) \in Nat /\ r[Len(s) + 1] = g
      /\ \A k \in 1 .. Len(s) : r[k] = s[k]
  BY ElementAdded
<1> HIDE DEF r
<1>2. 1 .. Len(r) = (1 .. Len(s)) \cup {Len(s) + 1}
  BY <1>1
<1>3. g.kind # "method" => BodyCalls(r) = BodyCalls(s) \cup {Len(s) + 1}
  BY <1>1, <1>2 DEF BodyCalls
<1>4. g.kind = "method" => BodyCalls(r) = BodyCalls(s)
  BY <1>1, <1>2 DEF BodyCalls
<1>5. g.kind = "method" => MethodCalls(r) = MethodCalls(s) \cup {Len(s) + 1}
  BY <1>1, <1>2 DEF MethodCalls
<1>6. g.kind # "method" => MethodCalls(r) = MethodCalls(s)
  BY <1>1, <1>2 DEF MethodCalls
<1> QED
  BY <1>1, <1>3, <1>4, <1>5, <1>6 DEF r

\* A class or a body that is not in progress is called.
LEMMA FollowsBody ==
  ASSUME NEW s, NEW em, NEW d, NEW rn, Follows(s, em, d, rn),
         NEW g \in Frames, g.kind # "method", g.cls \notin em
  PROVE  Follows(s \o <<g>>, em \cup {g.cls}, d, rn)
<1> DEFINE r == s \o <<g>>
<1>1. s \in Seq(Frames) /\ em = ClassesOf(s) /\ d = Cardinality(MethodCalls(s)) /\ AllDistinct(s) /\ Owned(s, rn)
  BY DEF Follows
<1>2. /\ r \in Seq(Frames) /\ Len(r) = Len(s) + 1 /\ Len(s) \in Nat
      /\ r[Len(s) + 1] = g
      /\ \A k \in 1 .. Len(s) : r[k] = s[k]
      /\ BodyCalls(r) = BodyCalls(s) \cup {Len(s) + 1}
      /\ MethodCalls(r) = MethodCalls(s)
  BY <1>1, CallAdded
<1> HIDE DEF r
<1>3. \A k \in BodyCalls(s) : k \in 1 .. Len(s) /\ r[k].cls = s[k].cls /\ s[k].cls # g.cls
  BY <1>1, <1>2 DEF BodyCalls, ClassesOf
<1>4. em \cup {g.cls} = ClassesOf(r)
  <2>1. ClassesOf(r) = {r[k].cls : k \in BodyCalls(s)} \cup {g.cls}
    BY <1>2 DEF ClassesOf
  <2>2. {r[k].cls : k \in BodyCalls(s)} = ClassesOf(s)
    BY <1>3 DEF ClassesOf
  <2> QED
    BY <1>1, <2>1, <2>2
<1>5. AllDistinct(r)
  <2> SUFFICES ASSUME NEW j \in BodyCalls(r), NEW k \in BodyCalls(r), j # k PROVE r[j].cls # r[k].cls
    BY DEF AllDistinct
  <2>1. CASE j \in BodyCalls(s) /\ k \in BodyCalls(s)
    BY <1>1, <1>3, <2>1 DEF AllDistinct
  <2>2. CASE j = Len(s) + 1
    BY <1>2, <1>3, <2>2
  <2>3. CASE k = Len(s) + 1
    BY <1>2, <1>3, <2>3
  <2> QED
    BY <1>2, <2>1, <2>2, <2>3
<1>6. Owned(r, rn)
  BY <1>1, <1>2 DEF Owned
<1>7. Follows(r, em \cup {g.cls}, d, rn)
  BY <1>1, <1>2, <1>4, <1>5, <1>6 DEF Follows
<1> QED
  BY <1>7 DEF r

\* A method is called.
LEMMA FollowsMethod ==
  ASSUME NEW s, NEW em, NEW d, NEW rn, Follows(s, em, d, rn),
         NEW g \in Frames, g.kind = "method"
  PROVE  Follows(s \o <<g>>, em, d + 1, rn)
<1> DEFINE r == s \o <<g>>
<1>1. s \in Seq(Frames) /\ em = ClassesOf(s) /\ d = Cardinality(MethodCalls(s)) /\ AllDistinct(s) /\ Owned(s, rn)
  BY DEF Follows
<1>2. /\ r \in Seq(Frames) /\ Len(r) = Len(s) + 1 /\ Len(s) \in Nat
      /\ \A k \in 1 .. Len(s) : r[k] = s[k]
      /\ BodyCalls(r) = BodyCalls(s)
      /\ MethodCalls(r) = MethodCalls(s) \cup {Len(s) + 1}
  BY <1>1, CallAdded
<1> HIDE DEF r
<1>3. \A k \in BodyCalls(s) : r[k].cls = s[k].cls
  BY <1>2 DEF BodyCalls
<1>4. d + 1 = Cardinality(MethodCalls(r))
  BY <1>1, <1>2, MethodCallsCounted, FS_AddElement
<1>5. em = ClassesOf(r) /\ AllDistinct(r)
  BY <1>1, <1>2, <1>3, SameCalls
<1>6. Owned(r, rn)
  BY <1>1, <1>2 DEF Owned
<1>7. Follows(r, em, d + 1, rn)
  BY <1>2, <1>4, <1>5, <1>6 DEF Follows
<1> QED
  BY <1>7 DEF r

\* A class or a body is left, on Ok or on Err.
LEMMA FollowsBodyLeft ==
  ASSUME NEW s, NEW em, NEW d, NEW rn, Follows(s, em, d, rn), s # <<>>,
         s[Len(s)].kind # "method",
         NEW rn2, rn2 = {} \/ (rn2 = rn /\ ~PrintsMethods(s[Len(s)]))
  PROVE  Follows(SubSeq(s, 1, Len(s) - 1), em \ {s[Len(s)].cls}, d, rn2)
<1> DEFINE r == SubSeq(s, 1, Len(s) - 1)
<1>1. s \in Seq(Frames) /\ em = ClassesOf(s) /\ d = Cardinality(MethodCalls(s)) /\ AllDistinct(s) /\ Owned(s, rn)
  BY DEF Follows
<1>2. /\ r \in Seq(Frames) /\ Len(r) = Len(s) - 1 /\ Len(s) \in Nat \ {0}
      /\ \A k \in 1 .. Len(s) - 1 : r[k] = s[k]
  BY <1>1, AllButLast
<1> HIDE DEF r
<1>3. 1 .. Len(r) = (1 .. Len(s)) \ {Len(s)}
  BY <1>2
<1>4. BodyCalls(s) = BodyCalls(r) \cup {Len(s)} /\ Len(s) \notin BodyCalls(r) /\ MethodCalls(r) = MethodCalls(s)
  BY <1>2, <1>3 DEF BodyCalls, MethodCalls
<1>5. \A k \in BodyCalls(r) : r[k] = s[k] /\ s[k].cls # s[Len(s)].cls
  BY <1>1, <1>2, <1>4 DEF AllDistinct, BodyCalls
<1>6. em \ {s[Len(s)].cls} = ClassesOf(r)
  <2>1. ClassesOf(s) = {s[k].cls : k \in BodyCalls(r)} \cup {s[Len(s)].cls}
    BY <1>4 DEF ClassesOf
  <2>2. ClassesOf(r) = {s[k].cls : k \in BodyCalls(r)}
    BY <1>5 DEF ClassesOf
  <2>3. s[Len(s)].cls \notin {s[k].cls : k \in BodyCalls(r)}
    BY <1>5
  <2> QED
    BY <1>1, <2>1, <2>2, <2>3
<1>7. AllDistinct(r)
  BY <1>1, <1>4, <1>5 DEF AllDistinct
<1>8. Owned(r, rn2)
  <2> SUFFICES ASSUME rn2 # {} PROVE \E k \in 1 .. Len(r) : PrintsMethods(r[k])
    BY DEF Owned
  <2>1. PICK k \in 1 .. Len(s) : PrintsMethods(s[k])
    BY <1>1 DEF Owned
  <2>2. k \in 1 .. Len(s) - 1
    BY <1>2, <2>1
  <2> QED
    BY <1>2, <2>1, <2>2
<1>9. Follows(r, em \ {s[Len(s)].cls}, d, rn2)
  BY <1>1, <1>2, <1>4, <1>6, <1>7, <1>8 DEF Follows
<1> QED
  BY <1>9 DEF r

\* A method returns.
LEMMA FollowsMethodLeft ==
  ASSUME NEW s, NEW em, NEW d, NEW rn, Follows(s, em, d, rn), s # <<>>,
         s[Len(s)].kind = "method"
  PROVE  Follows(SubSeq(s, 1, Len(s) - 1), em, d - 1, rn)
<1> DEFINE r == SubSeq(s, 1, Len(s) - 1)
<1>1. s \in Seq(Frames) /\ em = ClassesOf(s) /\ d = Cardinality(MethodCalls(s)) /\ AllDistinct(s) /\ Owned(s, rn)
  BY DEF Follows
<1>2. /\ r \in Seq(Frames) /\ Len(r) = Len(s) - 1 /\ Len(s) \in Nat \ {0}
      /\ \A k \in 1 .. Len(s) - 1 : r[k] = s[k]
  BY <1>1, AllButLast
<1> HIDE DEF r
<1>3. 1 .. Len(r) = (1 .. Len(s)) \ {Len(s)}
  BY <1>2
<1>4. BodyCalls(r) = BodyCalls(s) /\ MethodCalls(r) = MethodCalls(s) \ {Len(s)} /\ Len(s) \in MethodCalls(s)
  BY <1>2, <1>3 DEF BodyCalls, MethodCalls
<1>5. \A k \in BodyCalls(s) : r[k].cls = s[k].cls
  BY <1>2, <1>4 DEF BodyCalls
<1>6. d - 1 = Cardinality(MethodCalls(r))
  BY <1>1, <1>4, MethodCallsCounted, FS_RemoveElement
<1>7. em = ClassesOf(r) /\ AllDistinct(r)
  BY <1>1, <1>4, <1>5, SameCalls
<1>8. Owned(r, rn)
  <2> SUFFICES ASSUME rn # {} PROVE \E k \in 1 .. Len(r) : PrintsMethods(r[k])
    BY DEF Owned
  <2>1. PICK k \in 1 .. Len(s) : PrintsMethods(s[k])
    BY <1>1 DEF Owned
  <2>2. k \in 1 .. Len(s) - 1
    BY <1>2, <2>1 DEF PrintsMethods
  <2> QED
    BY <1>2, <2>1, <2>2
<1>9. Follows(r, em, d - 1, rn)
  BY <1>2, <1>6, <1>7, <1>8 DEF Follows
<1> QED
  BY <1>9 DEF r

-----------------------------------------------------------------------------
\* The actions.  A frame that goes on stays a frame, of the same call.
LEMMA FrameGoesOn ==
  ASSUME NEW f \in Frames,
         NEW at \in Stages
  PROVE  /\ [f EXCEPT !.at = at] \in Frames /\ SameCall([f EXCEPT !.at = at], f) /\ [f EXCEPT !.at = at].at = at
         /\ [[f EXCEPT !.at = at] EXCEPT !.m = 0] \in Frames
         /\ SameCall([[f EXCEPT !.at = at] EXCEPT !.m = 0], f)
         /\ f.m < NMethods => [f EXCEPT !.m = @ + 1] \in Frames
         /\ SameCall([f EXCEPT !.m = @ + 1], f) /\ [f EXCEPT !.m = @ + 1].at = f.at
         /\ \A c : [f EXCEPT !.todo = @ \ {c}] \in Frames
         /\ \A c : SameCall([f EXCEPT !.todo = @ \ {c}], f)
         /\ \A x, y \in SUBSET AllLocals :
              /\ [[f EXCEPT !.at = at] EXCEPT !.saved = x, !.freshSaved = y] \in Frames
              /\ SameCall([[f EXCEPT !.at = at] EXCEPT !.saved = x, !.freshSaved = y], f)
<1>1. [f EXCEPT !.at = at] \in Frames /\ SameCall([f EXCEPT !.at = at], f) /\ [f EXCEPT !.at = at].at = at
  BY DEF Frames, SameCall
<1>2. [[f EXCEPT !.at = at] EXCEPT !.m = 0] \in Frames /\ SameCall([[f EXCEPT !.at = at] EXCEPT !.m = 0], f)
  <2>1. 0 \in 0 .. NMethods
    BY RenderBounds
  <2>2. \A k \in 0 .. NMethods : [[f EXCEPT !.at = at] EXCEPT !.m = k] \in Frames
    BY DEF Frames
  <2>3. SameCall([[f EXCEPT !.at = at] EXCEPT !.m = 0], f)
    BY DEF Frames, SameCall
  <2> QED
    BY <2>1, <2>2, <2>3
<1>3. f.m < NMethods => [f EXCEPT !.m = @ + 1] \in Frames
  <2>1. f.m \in 0 .. NMethods
    BY DEF Frames
  <2>2. f.m < NMethods => f.m + 1 \in 0 .. NMethods
    BY <2>1, RenderBounds
  <2>3. \A k \in 0 .. NMethods : [f EXCEPT !.m = k] \in Frames
    BY DEF Frames
  <2> QED
    BY <2>2, <2>3
<1>4. SameCall([f EXCEPT !.m = @ + 1], f) /\ [f EXCEPT !.m = @ + 1].at = f.at
  BY DEF Frames, SameCall
<1>5. ASSUME NEW c PROVE [f EXCEPT !.todo = @ \ {c}] \in Frames /\ SameCall([f EXCEPT !.todo = @ \ {c}], f)
  BY DEF Frames, SameCall
<1>6. ASSUME NEW x \in SUBSET AllLocals, NEW y \in SUBSET AllLocals
      PROVE  /\ [[f EXCEPT !.at = at] EXCEPT !.saved = x, !.freshSaved = y] \in Frames
             /\ SameCall([[f EXCEPT !.at = at] EXCEPT !.saved = x, !.freshSaved = y], f)
  BY DEF Frames, SameCall
<1> QED
  BY <1>1, <1>2, <1>3, <1>4, <1>5, <1>6

LEMMA TopTyped ==
  ASSUME StackInv, stack # <<>>
  PROVE  Top \in Frames /\ Len(stack) \in Nat \ {0} /\ stack \in Seq(Frames)
<1>1. stack \in Seq(Frames)
  BY DEF StackInv, Follows
<1>2. Len(stack) \in Nat \ {0}
  BY <1>1, EmptySeq
<1>3. Len(stack) \in 1 .. Len(stack)
  BY <1>2
<1> QED
  BY <1>1, <1>2, <1>3, ElementOfSeq DEF Top

\* Calling nothing.
LEMMA GoesOn ==
  ASSUME StackInv, stack # <<>>, NEW f \in Frames, SameCall(f, Top), GoOn(f, <<>>),
         UNCHANGED <<emitting, depth>>,
         renames' = {} \/ PrintsMethods(f) \/ (renames' = renames /\ ~PrintsMethods(Top))
  PROVE  Follows(stack, emitting, depth, renames)'
<1>1. stack \in Seq(Frames) /\ Follows(stack, emitting, depth, renames)
  BY TopTyped DEF StackInv
<1>2. Follows(Append(Under, f), emitting, depth, renames')
  BY <1>1, FollowsOn DEF Top, Under
<1>3. Append(Under, f) \in Seq(Frames)
  BY <1>2 DEF Follows
<1>4. stack' = Append(Under, f)
  BY <1>3, ConcatEmptySeq DEF GoOn
<1> QED
  BY <1>2, <1>4

LEMMA CallMethodHolds ==
  ASSUME StackInv, stack # <<>>, NEW f \in Frames, SameCall(f, Top), NEW c \in Classes, NEW m \in 0 .. NMethods,
         CallMethod(f, c, m), UNCHANGED <<emitting, renames>>,
         PrintsMethods(f) \/ ~PrintsMethods(Top)
  PROVE  Follows(stack, emitting, depth, renames)'
<1>1. CASE GoOn(f, <<>>) /\ UNCHANGED depth
  BY <1>1, GoesOn
<1>2. CASE GoOn(f, <<Frame("method", c, m, "inline")>>) /\ depth' = depth + 1
  <2>1. Follows(stack, emitting, depth, renames)
    BY DEF StackInv
  <2>2. Follows(Append(Under, f), emitting, depth, renames)
    BY <2>1, FollowsOn DEF Top, Under
  <2>3. Follows(Append(Under, f) \o <<Frame("method", c, m, "inline")>>, emitting, depth + 1, renames)
    BY <2>2, FrameTyped, FollowsMethod
  <2> QED
    BY <1>2, <2>3 DEF GoOn
<1> QED
  BY <1>1, <1>2 DEF CallMethod

\* The calls of a class or a body, refused where it is in progress.
LEMMA CallBodyHolds ==
  ASSUME StackInv, stack # <<>>, NEW f \in Frames, SameCall(f, Top), NEW c \in Classes,
         NEW kind \in {"class", "anon"}, NEW at \in {"arguments", "inline"},
         c \notin emitting, GoOn(f, <<Frame(kind, c, 0, at)>>),
         emitting' = emitting \cup {c}, UNCHANGED <<depth, renames>>,
         ~PrintsMethods(Top)
  PROVE  Follows(stack, emitting, depth, renames)'
<1>1. Follows(stack, emitting, depth, renames)
  BY DEF StackInv
<1>2. Follows(Append(Under, f), emitting, depth, renames)
  BY <1>1, FollowsOn DEF Top, Under
<1>3. Frame(kind, c, 0, at) \in Frames /\ Frame(kind, c, 0, at).kind # "method" /\ Frame(kind, c, 0, at).cls = c
  BY RenderBounds, FrameTyped
<1>4. Follows(Append(Under, f) \o <<Frame(kind, c, 0, at)>>, emitting \cup {c}, depth, renames)
  BY <1>2, <1>3, FollowsBody
<1> QED
  BY <1>4 DEF GoOn

LEMMA CallAnonHolds ==
  ASSUME StackInv, stack # <<>>, NEW f \in Frames, SameCall(f, Top), NEW a \in Classes,
         CallAnon(f, a), UNCHANGED <<depth, renames>>, ~PrintsMethods(Top)
  PROVE  Follows(stack, emitting, depth, renames)'
<1>1. CASE a \in emitting
  BY <1>1, GoesOn DEF CallAnon
<1>2. CASE a \notin emitting
  BY <1>2, CallBodyHolds DEF CallAnon
<1> QED
  BY <1>1, <1>2

\* What the actions make of the frame on top.
LEMMA TopGoesOn ==
  ASSUME StackInv, stack # <<>>
  PROVE  /\ \A at \in Stages :
              To(at) \in Frames /\ SameCall(To(at), Top) /\ To(at).at = at
         /\ Top.m < NMethods => [Top EXCEPT !.m = @ + 1] \in Frames /\ Top.m \in 0 .. NMethods
         /\ SameCall([Top EXCEPT !.m = @ + 1], Top) /\ [Top EXCEPT !.m = @ + 1].at = Top.at
         /\ Top.cls \in Classes /\ Top.todo \in SUBSET Classes
<1>1. Top \in Frames
  BY TopTyped
<1>2. Top.cls \in Classes /\ Top.todo \in SUBSET Classes /\ Top.m \in 0 .. NMethods
  BY <1>1 DEF Frames
<1>3. ASSUME NEW at \in Stages
      PROVE  To(at) \in Frames /\ SameCall(To(at), Top) /\ To(at).at = at
  <2>1. \A f \in Frames : /\ [f EXCEPT !.at = at] \in Frames /\ SameCall([f EXCEPT !.at = at], f)
                          /\ [f EXCEPT !.at = at].at = at
    BY DEF Frames, SameCall
  <2> QED
    BY <1>1, <2>1 DEF To
<1>4. "inline" \in Stages
  BY DEF Stages
<1> QED
  BY <1>1, <1>2, <1>3, <1>4, FrameGoesOn

\* A method of the class or body on top.
LEMMA NextMethod ==
  ASSUME StackInv, stack # <<>>, Top.m < NMethods, NEW c \in Classes,
         CallMethod([Top EXCEPT !.m = @ + 1], c, Top.m), UNCHANGED <<emitting, renames>>
  PROVE  Follows(stack, emitting, depth, renames)'
<1>1. [Top EXCEPT !.m = @ + 1] \in Frames /\ Top.m \in 0 .. NMethods
  BY TopGoesOn
<1>2. SameCall([Top EXCEPT !.m = @ + 1], Top) /\ [Top EXCEPT !.m = @ + 1].at = Top.at
  BY TopGoesOn
<1>3. PrintsMethods([Top EXCEPT !.m = @ + 1]) \/ ~PrintsMethods(Top)
  BY <1>2 DEF PrintsMethods, SameCall
<1> QED
  BY <1>1, <1>2, <1>3, CallMethodHolds

\* Walking over some code, whatever is inlined there.
LEMMA InlineHolds ==
  ASSUME StackInv, stack # <<>>, ~PrintsMethods(Top), UNCHANGED <<depth, renames>>,
         NEW f \in Frames, SameCall(f, Top), Inline(f) \/ ExtractLocals(f)
  PROVE  Follows(stack, emitting, depth, renames)'
<1>1. CASE GoOn(f, <<>>) /\ UNCHANGED emitting
  BY <1>1, GoesOn
<1>2. CASE \E a \in Inlined[Top.cls] : CallAnon(f, a)
  <2>1. Top.cls \in Classes
    BY TopGoesOn
  <2>2. PICK a \in Inlined[Top.cls] : CallAnon(f, a)
    BY <1>2
  <2>3. a \in Classes
    BY <2>1, <2>2, ClassTree
  <2> QED
    BY <2>2, <2>3, CallAnonHolds
<1> QED
  BY <1>1, <1>2 DEF Inline, ExtractLocals

LEMMA CallsFollowed ==
  ASSUME StackInv, Next
  PROVE  Follows(stack, emitting, depth, renames)'
<1> USE DEF PrintsMethods, Stages
<1>1. Follows(stack, emitting, depth, renames) /\ OtherTypes
  BY DEF StackInv
<1>2. ASSUME NEW c \in Roots, StartJob(c) PROVE Follows(stack, emitting, depth, renames)'
  <2> DEFINE g == Frame("class", c, 0, FirstStage(c))
  <2>1. g \in Frames /\ g.kind # "method" /\ g.cls = c
    BY ClassTree, RenderBounds, FrameTyped DEF FirstStage
  <2>2. stack = <<>> /\ stack' = stack \o <<g>>
    <3>1. <<g>> \in Seq(Frames)
      BY <2>1
    <3> QED
      BY <1>2, <3>1, ConcatEmptySeq DEF StartJob
  <2>3. c \notin emitting
    BY <1>1, <2>2 DEF Follows, ClassesOf, BodyCalls
  <2> HIDE DEF g
  <2>4. Follows(stack \o <<g>>, emitting \cup {g.cls}, depth, renames)
    BY <1>1, <2>1, <2>3, FollowsBody
  <2> QED
    BY <1>2, <2>1, <2>2, <2>4 DEF StartJob
<1>3. CASE EnumConstant
  <2>1. stack # <<>> /\ Top.m < NMethods /\ Top.cls \in Classes /\ UNCHANGED <<emitting, renames>>
    BY <1>3, TopGoesOn DEF EnumConstant, At
  <2>2. PICK b \in Bodies[Top.cls] : CallMethod([Top EXCEPT !.m = @ + 1], b, Top.m)
    BY <1>3 DEF EnumConstant
  <2>3. b \in Classes
    BY <2>1, <2>2, ClassTree
  <2> QED
    BY <2>1, <2>2, <2>3, NextMethod
<1>4. CASE EnumConstantsDone
  BY <1>4, TopTyped, FrameGoesOn, GoesOn DEF EnumConstantsDone, At, To, registries
<1>5. CASE PrintArguments \/ ClinitInline \/ ClinitExtract \/ ClinitPrint \/ AnonInline \/ AnonPrint
           \/ MethodInline \/ PrintLambda
  <2>1. /\ stack # <<>> /\ ~PrintsMethods(Top) /\ UNCHANGED <<depth, renames>>
        /\ \E at \in Stages : Inline(To(at)) \/ ExtractLocals(To(at))
    BY <1>5 DEF PrintArguments, ClinitInline, ClinitExtract, ClinitPrint, AnonInline, AnonPrint,
                MethodInline, PrintLambda, At
  <2>2. PICK at \in Stages : Inline(To(at)) \/ ExtractLocals(To(at))
    BY <2>1
  <2>3. To(at) \in Frames /\ SameCall(To(at), Top)
    BY <2>1, TopGoesOn
  <2> QED
    BY <2>1, <2>2, <2>3, InlineHolds
<1>6. CASE ArgumentSwitch \/ ClinitSwitch \/ AnonLambdaSwitch \/ MethodSwitch \/ LambdaSwitch
  <2>1. /\ stack # <<>> /\ ~PrintsMethods(Top) /\ UNCHANGED <<emitting, depth, renames>>
        /\ \E at \in Stages : GoOn(To(at), <<>>)
    BY <1>6 DEF ArgumentSwitch, ClinitSwitch, AnonLambdaSwitch, MethodSwitch, LambdaSwitch,
                RestoreSwitches, NamePattern, At
  <2>2. PICK at \in Stages : GoOn(To(at), <<>>)
    BY <2>1
  <2>3. To(at) \in Frames /\ SameCall(To(at), Top)
    BY <2>1, TopGoesOn
  <2> QED
    BY <2>1, <2>2, <2>3, GoesOn
<1>7. CASE ClinitLambdaSwitch
  <2>1. stack # <<>> /\ Top.kind = "class" /\ GoOn(To("methods"), <<>>) /\ UNCHANGED <<emitting, depth>>
    BY <1>7 DEF ClinitLambdaSwitch, RestoreSwitches, NamePattern, At
  <2>2. To("methods") \in Frames /\ SameCall(To("methods"), Top) /\ To("methods").at = "methods"
    BY <2>1, TopGoesOn
  <2>3. PrintsMethods(To("methods"))
    BY <2>1, <2>2 DEF SameCall
  <2> QED
    BY <2>1, <2>2, <2>3, GoesOn
<1>8. CASE ClassMethod
  BY <1>8, TopGoesOn, NextMethod DEF ClassMethod, At
<1>9. CASE ClassMethodsDone
  BY <1>9, TopTyped, FrameGoesOn, GoesOn DEF ClassMethodsDone, At, To
<1>10. CASE ClassMember
  <2>1. stack # <<>> /\ ~PrintsMethods(Top) /\ UNCHANGED <<depth, renames>>
    BY <1>10 DEF ClassMember, At
  <2>2. PICK c \in Top.todo : CallClass([Top EXCEPT !.todo = @ \ {c}], c)
    BY <1>10 DEF ClassMember
  <2> DEFINE f == [Top EXCEPT !.todo = @ \ {c}]
  <2>3. c \in Classes
    BY <2>1, <2>2, TopGoesOn
  <2>4. f \in Frames /\ SameCall(f, Top)
    BY <2>1, TopTyped, FrameGoesOn
  <2> HIDE DEF f
  <2>5. CASE c \in emitting
    BY <2>1, <2>2, <2>4, <2>5, GoesOn DEF CallClass, f
  <2>6. CASE c \notin emitting
    <3>1. GoOn(f, <<Frame("class", c, 0, FirstStage(c))>>) /\ emitting' = emitting \cup {c}
      BY <2>2, <2>6 DEF CallClass, f
    <3>2. FirstStage(c) \in {"arguments", "inline"}
      BY DEF FirstStage
    <3> QED
      BY <2>1, <2>3, <2>4, <2>6, <3>1, <3>2, CallBodyHolds
  <2> QED
    BY <2>5, <2>6
<1>11. CASE BodyDone
  BY <1>1, <1>11, TopTyped, FollowsBodyLeft DEF BodyDone, At, Under, Top
<1>12. CASE AnonMethod
  BY <1>12, TopGoesOn, NextMethod DEF AnonMethod, At
<1>13. CASE AnonMethodsDone
  BY <1>13, TopTyped, FrameGoesOn, GoesOn DEF AnonMethodsDone, At, To, registries
<1>14. CASE MethodExtract
  <2> DEFINE f == [To("print") EXCEPT !.saved = extern, !.freshSaved = fresh.extern]
  <2>1. Top \in Frames /\ extern \in SUBSET AllLocals /\ fresh.extern \in SUBSET AllLocals
    BY <1>1, <1>14, TopTyped DEF MethodExtract, At, OtherTypes
  <2>2. f \in Frames /\ SameCall(f, Top)
    BY <2>1, FrameGoesOn DEF To
  <2>3. ExtractLocals(f) /\ stack # <<>> /\ ~PrintsMethods(Top) /\ UNCHANGED <<depth, renames>>
    BY <1>14 DEF MethodExtract, At
  <2> HIDE DEF f
  <2> QED
    BY <2>2, <2>3, InlineHolds
<1>15. CASE MethodDone
  BY <1>1, <1>15, TopTyped, FollowsMethodLeft DEF MethodDone, At, Under, Top
<1>16. CASE Swallow
  BY <1>1, <1>16 DEF Swallow, registries
<1>17. CASE Propagate
  BY <1>1, <1>17, TopTyped, FollowsBodyLeft DEF Propagate, Inlines, Under, Top
<1> QED
  BY <1>2, <1>3, <1>4, <1>5, <1>6, <1>7, <1>8, <1>9, <1>10, <1>11, <1>12, <1>13, <1>14, <1>15,
     <1>16, <1>17 DEF Next, Emit

LEMMA OtherTypesKept ==
  ASSUME StackInv, Next
  PROVE  OtherTypes'
<1>1. OtherTypes
  BY DEF StackInv
<1>2. fresh.patCtr \in Nat /\ fresh.extern \in SUBSET AllLocals
  BY <1>1 DEF OtherTypes
<1>3. \A x \in Nat, y \in SUBSET AllLocals :
        /\ [fresh EXCEPT !.patCtr = x] \in [patCtr : Nat, extern : SUBSET AllLocals]
        /\ [fresh EXCEPT !.extern = y] \in [patCtr : Nat, extern : SUBSET AllLocals]
  BY <1>1 DEF OtherTypes
<1>4. ASSUME NEW c \in Roots, StartJob(c) PROVE OtherTypes'
  <2>1. Clean \in [patCtr : Nat, extern : SUBSET AllLocals]
    BY DEF Clean
  <2> QED
    BY <1>1, <1>4, <2>1 DEF StartJob, OtherTypes
<1>5. ASSUME NEW f, NEW c, NEW m, CallMethod(f, c, m), UNCHANGED <<renames, extern, diverged, jobs>> PROVE OtherTypes'
  <2>1. unwinding' \in BOOLEAN /\ patCtr' = 0 /\ fresh' = [fresh EXCEPT !.patCtr = 0]
    BY <1>1, <1>5 DEF CallMethod, OtherTypes
  <2> QED
    BY <1>1, <1>3, <1>5, <2>1 DEF OtherTypes
<1>6. ASSUME NEW f, NamePattern(f)
      PROVE  /\ diverged' \subseteq {"pattern", "extern"} /\ patCtr' \in Nat
             /\ fresh' \in [patCtr : Nat, extern : SUBSET AllLocals]
  <2>1. fresh' = [fresh EXCEPT !.patCtr = fresh.patCtr + 1] /\ fresh.patCtr + 1 \in Nat
    BY <1>2, <1>6 DEF NamePattern
  <2>2. diverged' \subseteq {"pattern", "extern"} /\ patCtr' \in Nat
    BY <1>1, <1>6 DEF NamePattern, OtherTypes
  <2> QED
    BY <1>3, <2>1, <2>2
<1>7. ASSUME NEW c \in Classes, NEW n \in Locals[c], Extract(n)
      PROVE  /\ diverged' \subseteq {"pattern", "extern"} /\ extern' \subseteq AllLocals
             /\ fresh' \in [patCtr : Nat, extern : SUBSET AllLocals]
  <2>1. n \in AllLocals
    BY DEF AllLocals
  <2>2. fresh' = [fresh EXCEPT !.extern = fresh.extern \cup {n}] /\ fresh.extern \cup {n} \in SUBSET AllLocals
    BY <1>2, <1>7, <2>1 DEF Extract
  <2>3. diverged' \subseteq {"pattern", "extern"} /\ extern' \subseteq AllLocals
    BY <1>1, <1>7, <2>1 DEF Extract, ReadExtern, OtherTypes
  <2> QED
    BY <1>3, <2>2, <2>3
<1>8. CASE EnumConstant
  BY <1>5, <1>8 DEF EnumConstant
<1>9. CASE ClassMethod
  BY <1>5, <1>9 DEF ClassMethod
<1>10. CASE AnonMethod
  BY <1>5, <1>10 DEF AnonMethod
<1>11. ASSUME NEW f, RestoreSwitches(f)
       PROVE  /\ diverged' \subseteq {"pattern", "extern"} /\ patCtr' \in Nat
              /\ fresh' \in [patCtr : Nat, extern : SUBSET AllLocals]
  BY <1>1, <1>6, <1>11 DEF RestoreSwitches, OtherTypes, ghosts
<1>12. CASE ClinitLambdaSwitch
  <2>1. stack # <<>> /\ renames' = Dups[Top.cls] /\ RestoreSwitches(To("methods"))
    BY <1>12 DEF ClinitLambdaSwitch, At
  <2>2. renames' \subseteq Methods
    BY <2>1, TopGoesOn, ClassTree DEF Methods
  <2> QED
    BY <1>1, <1>11, <1>12, <2>1, <2>2 DEF ClinitLambdaSwitch, OtherTypes
<1>13. CASE ArgumentSwitch \/ ClinitSwitch \/ AnonLambdaSwitch \/ MethodSwitch \/ LambdaSwitch
  <2>1. (\E f : RestoreSwitches(f)) /\ UNCHANGED <<unwinding, renames, extern, jobs>>
    BY <1>13 DEF ArgumentSwitch, ClinitSwitch, AnonLambdaSwitch, MethodSwitch, LambdaSwitch
  <2> QED
    BY <1>1, <1>11, <2>1 DEF OtherTypes
<1>14. ASSUME NEW f, Inline(f)
       PROVE  diverged' \subseteq {"pattern", "extern"} /\ unwinding' \in BOOLEAN
  BY <1>1, <1>14 DEF Inline, ReadExtern, CallAnon, OtherTypes
<1>15. CASE \/ PrintArguments \/ ClinitInline \/ ClinitPrint \/ AnonInline \/ AnonPrint
            \/ MethodInline \/ PrintLambda
  <2>1. (\E f : Inline(f)) /\ UNCHANGED <<renames, patCtr, extern, fresh, jobs>>
    BY <1>15 DEF PrintArguments, ClinitInline, ClinitPrint, AnonInline, AnonPrint, MethodInline, PrintLambda
  <2> QED
    BY <1>1, <1>14, <2>1 DEF OtherTypes
<1>19. CASE ClinitExtract \/ MethodExtract
  <2>1. stack # <<>> /\ UNCHANGED <<renames, patCtr, jobs>> /\ (\E f : ExtractLocals(f))
    BY <1>19 DEF ClinitExtract, MethodExtract, At
  <2>2. PICK f : ExtractLocals(f)
    BY <2>1
  <2>3. Top.cls \in Classes
    BY <2>1, TopGoesOn
  <2>4. CASE UNCHANGED <<extern, fresh>> /\ (UNCHANGED <<unwinding, diverged>> \/ Inline(f))
    BY <1>1, <1>14, <2>1, <2>4 DEF OtherTypes
  <2>5. CASE UNCHANGED unwinding /\ \E n \in Locals[Top.cls] : Extract(n)
    BY <1>1, <1>7, <2>1, <2>3, <2>5 DEF OtherTypes
  <2> QED
    BY <2>2, <2>4, <2>5 DEF ExtractLocals
<1>16. CASE MethodDone
  <2>1. stack # <<>> /\ fresh' = [fresh EXCEPT !.extern = Top.freshSaved] /\ extern' = Top.saved
    BY <1>16 DEF MethodDone, At
  <2>2. Top.saved \in SUBSET AllLocals /\ Top.freshSaved \in SUBSET AllLocals
    BY <2>1, TopTyped DEF Frames
  <2> QED
    BY <1>1, <1>3, <1>16, <2>1, <2>2 DEF MethodDone, OtherTypes
<1>17. CASE EnumConstantsDone \/ ClassMember \/ BodyDone \/ AnonMethodsDone \/ Swallow
  <2>1. unwinding' \in BOOLEAN /\ UNCHANGED <<renames, patCtr, extern, fresh, diverged, jobs>>
    BY <1>1, <1>17 DEF EnumConstantsDone, ClassMember, BodyDone, AnonMethodsDone, Swallow, registries, ghosts, OtherTypes
  <2> QED
    BY <1>1, <2>1 DEF OtherTypes
<1>18. CASE ClassMethodsDone \/ Propagate
  <2>1. (renames' = {} \/ renames' = renames) /\ UNCHANGED <<unwinding, patCtr, extern, fresh, diverged, jobs>>
    BY <1>18 DEF ClassMethodsDone, Propagate, ghosts
  <2> QED
    BY <1>1, <2>1 DEF OtherTypes
<1> QED
  BY <1>4, <1>8, <1>9, <1>10, <1>11, <1>12, <1>13, <1>15, <1>16, <1>17, <1>18, <1>19 DEF Next, Emit

LEMMA RenderInitHolds == Init => StackInv
<1> SUFFICES ASSUME Init PROVE StackInv
  OBVIOUS
<1>1. stack \in Seq(Frames) /\ Len(stack) = 0 /\ BodyCalls(stack) = {} /\ MethodCalls(stack) = {}
  BY DEF Init, BodyCalls, MethodCalls
<1>2. Follows(stack, emitting, depth, renames)
  BY <1>1, FS_EmptySet DEF Init, Follows, ClassesOf, AllDistinct, Owned
<1>3. OtherTypes
  <2>1. fresh \in [patCtr : Nat, extern : SUBSET AllLocals]
    BY DEF Init, Clean
  <2> QED
    BY <2>1 DEF Init, OtherTypes
<1> QED
  BY <1>2, <1>3 DEF StackInv

(* The registries are those of the calls in progress, and the rest is      *)
(* typed, in every reachable state.                                        *)
THEOREM StackInvariant == Spec => []StackInv
<1>1. StackInv /\ [Next]_vars => StackInv'
  <2> SUFFICES ASSUME StackInv, [Next]_vars PROVE StackInv'
    OBVIOUS
  <2>1. CASE Next
    BY <2>1, CallsFollowed, OtherTypesKept DEF StackInv
  <2>2. CASE UNCHANGED vars
    BY <2>2 DEF vars, registries, ghosts, StackInv, OtherTypes
  <2> QED
    BY <2>1, <2>2
<1> QED
  BY <1>1, RenderInitHolds, PTL DEF Spec

(* Every registry of the emitter holds values of its type.                 *)
THEOREM EmitterTyped == Spec => []TypeOK
<1>1. StackInv => TypeOK
  <2> SUFFICES ASSUME StackInv PROVE TypeOK
    OBVIOUS
  <2>1. stack \in Seq(Frames) /\ emitting = ClassesOf(stack) /\ depth = Cardinality(MethodCalls(stack)) /\ OtherTypes
    BY DEF StackInv, Follows
  <2>2. \A k \in 1 .. Len(stack) : stack[k].cls \in Classes
    <3> SUFFICES ASSUME NEW k \in 1 .. Len(stack) PROVE stack[k].cls \in Classes
      OBVIOUS
    <3>1. stack[k] \in Frames
      BY <2>1, ElementOfSeq
    <3> QED
      BY <3>1 DEF Frames
  <2>3. emitting \subseteq Classes
    BY <2>1, <2>2 DEF ClassesOf, BodyCalls
  <2>4. depth \in Nat
    BY <2>1, MethodCallsCounted
  <2> QED
    BY <2>1, <2>3, <2>4 DEF TypeOK, OtherTypes
<1> QED
  BY <1>1, StackInvariant, PTL

(* EMITTING and EMIT_DEPTH name what is in progress and nothing else, and  *)
(* no rename is installed between jobs, however an emission ended.         *)
THEOREM RegistriesAlwaysFollow == Spec => []RegistriesFollowCalls
<1>1. StackInv => RegistriesFollowCalls
  <2> SUFFICES ASSUME StackInv PROVE RegistriesFollowCalls
    OBVIOUS
  <2>1. emitting = ClassesOf(stack) /\ depth = Cardinality(MethodCalls(stack)) /\ Owned(stack, renames)
    BY DEF StackInv, Follows
  <2>2. stack = <<>> => renames = {}
    BY <2>1 DEF Owned
  <2> QED
    BY <2>1, <2>2 DEF RegistriesFollowCalls, ClassesOf, BodyCalls, MethodCalls
<1> QED
  BY <1>1, StackInvariant, PTL

(* No class is in the middle of two emissions at once.                     *)
THEOREM NeverReentered == Spec => []NoReentry
<1>1. StackInv => NoReentry
  <2> SUFFICES ASSUME StackInv PROVE NoReentry
    OBVIOUS
  <2>1. AllDistinct(stack)
    BY DEF StackInv, Follows
  <2> QED
    BY <2>1 DEF AllDistinct, BodyCalls, NoReentry
<1> QED
  BY <1>1, StackInvariant, PTL

-----------------------------------------------------------------------------
(* How deep an emission nests, and how much of it is left.                 *)
(*                                                                         *)
(* JobsEnd needs the emitter to be scheduled and is TLC's to check.  What  *)
(* the code contributes to it is proved here: the calls in progress are    *)
(* bounded, and every step of the emitter leaves less to do.               *)

\* No more calls than there are classes and, beside them, nested methods.
NestingBounded == depth <= MaxDepth /\ Len(stack) <= MaxDepth + Cardinality(Classes)

\* The stages a call still has before it; a stage that prints methods counts
\* as many as a class may have.
StagesLeft(f) ==
    CASE f.at = "arguments" -> 2 * NMethods + 12
      [] f.at = "argument" -> 2 * NMethods + 11
      [] f.at = "constants" -> 2 * NMethods + 10 - f.m
      [] f.at = "inline" -> NMethods + 9
      [] f.at = "extract" -> IF f.kind = "method" THEN NMethods + 5 ELSE NMethods + 8
      [] f.at = "switch" -> NMethods + 6
      [] f.at = "print" -> NMethods + 4
      [] f.at = "lambda" -> NMethods + 3
      [] f.at = "methods" -> NMethods + 2 - f.m
      [] f.at = "members" -> 0
      [] f.at = "leave" -> 1

WorkOf(f) == StagesLeft(f) + Cardinality(f.todo) + 2

\* The work left in each call, from the outermost one to the innermost, and
\* above that an Err that has yet to be swallowed.
Height == MaxDepth + Cardinality(Classes) + 1
WorkLeft ==
    [k \in 1 .. Height |->
        IF k <= Len(stack) THEN WorkOf(stack[k])
        ELSE IF k = Len(stack) + 1 /\ unwinding THEN 1 ELSE 0]

\* One less to do in some call, and the calls around it as they were; what is
\* above it may be anything.
LessNat == OpToRel(<, Nat)
LessWork == LexProductOrdering(LessNat, Nat, Height)

EmittingIsLessWork == Emit => <<WorkLeft', WorkLeft>> \in LessWork


LEMMA NothingEndless ==
  ASSUME NEW h \in Nat
  PROVE  IsWellFoundedOn(LexProductOrdering(LessNat, Nat, h), [1 .. h -> Nat])
BY NatLessThanWellFounded, WFLexProductOrdering DEF LessNat

LEMMA WorkTyped ==
  ASSUME NEW f \in Frames
  PROVE  /\ Cardinality(f.todo) \in Nat /\ IsFiniteSet(f.todo)
         /\ StagesLeft(f) \in Nat
         /\ WorkOf(f) \in Nat /\ WorkOf(f) >= 2
<1>1. f.todo \in SUBSET Classes /\ f.m \in 0 .. NMethods
      /\ f.at \in Stages
  BY DEF Frames
<1>2. Cardinality(f.todo) \in Nat /\ IsFiniteSet(f.todo)
  BY <1>1, ClassesFinite, FS_Subset, FS_CardinalityType
<1>3. StagesLeft(f) \in Nat
  BY <1>1, RenderBounds DEF StagesLeft, Stages
<1> QED
  BY <1>2, <1>3 DEF WorkOf

\* The same call at a later stage.
LEMMA LaterStage ==
  ASSUME NEW f \in Frames, NEW g \in Frames,
         g.todo = f.todo, StagesLeft(g) < StagesLeft(f)
  PROVE  WorkOf(g) < WorkOf(f)
BY WorkTyped DEF WorkOf

LEMMA StageCounts ==
  ASSUME NEW f \in Frames
  PROVE  /\ f.m \in 0 .. NMethods
         /\ f.at = "arguments" => StagesLeft(f) = 2 * NMethods + 12
         /\ f.at = "argument" => StagesLeft(f) = 2 * NMethods + 11
         /\ f.at = "constants" => StagesLeft(f) = 2 * NMethods + 10 - f.m
         /\ f.at = "inline" => StagesLeft(f) = NMethods + 9
         /\ f.at = "extract" /\ f.kind = "method" => StagesLeft(f) = NMethods + 5
         /\ f.at = "extract" /\ f.kind # "method" => StagesLeft(f) = NMethods + 8
         /\ f.at = "switch" => StagesLeft(f) = NMethods + 6
         /\ f.at = "print" => StagesLeft(f) = NMethods + 4
         /\ f.at = "lambda" => StagesLeft(f) = NMethods + 3
         /\ f.at = "methods" => StagesLeft(f) = NMethods + 2 - f.m
         /\ f.at = "members" => StagesLeft(f) = 0
         /\ f.at = "leave" => StagesLeft(f) = 1
BY DEF StagesLeft, Frames

\* What a step of the emitter makes of the stack: the frame on top goes on
\* with less to do, and may call; or it is left; or it swallows an Err.
SavesNothing(g) == g.saved = {} /\ g.freshSaved = {}
KeepsSaved(f) ==
  \/ f.saved = Top.saved /\ f.freshSaved = Top.freshSaved
  \/ f.saved = extern /\ f.freshSaved = fresh.extern
Calls(f) ==
  \/ stack' = Append(Under, f)
  \/ \E g \in Frames : SavesNothing(g) /\ stack' = Append(Under, f) \o <<g>>
Advances(f) == SameCall(f, Top) /\ WorkOf(f) < WorkOf(Top) /\ KeepsSaved(f)
Shape ==
  \/ \E f \in Frames : Advances(f) /\ Calls(f)
  \/ stack' = Under
  \/ stack' = stack /\ unwinding /\ ~unwinding'

LEMMA FrameSaves ==
  ASSUME NEW kind, NEW c, NEW m, NEW at
  PROVE  SavesNothing(Frame(kind, c, m, at))
BY DEF Frame, SavesNothing

\* Going on without a call.
LEMMA NoCall ==
  ASSUME StackInv, stack # <<>>, NEW f \in Frames, GoOn(f, <<>>)
  PROVE  Calls(f)
<1>1. Append(Under, f) \in Seq(Frames)
  BY TopTyped, LastReplaced DEF Under
<1> QED
  BY <1>1, ConcatEmptySeq DEF GoOn, Calls

\* What the frame on top may go on as.
LEMMA ToAdvances ==
  ASSUME StackInv, stack # <<>>,
         NEW at \in Stages,
         StagesLeft(To(at)) < StagesLeft(Top)
  PROVE  To(at) \in Frames /\ Advances(To(at))
<1>1. Top \in Frames /\ To(at) \in Frames /\ SameCall(To(at), Top)
  BY TopTyped, TopGoesOn
<1>2. To(at).todo = Top.todo /\ To(at).saved = Top.saved /\ To(at).freshSaved = Top.freshSaved
  BY <1>1 DEF To, Frames
<1> QED
  BY <1>1, <1>2, LaterStage DEF Advances, KeepsSaved

LEMMA MethodAdvances ==
  ASSUME StackInv, stack # <<>>, Top.m < NMethods,
         Top.at \in {"constants", "methods"}
  PROVE  [Top EXCEPT !.m = @ + 1] \in Frames /\ Advances([Top EXCEPT !.m = @ + 1])
<1> DEFINE f == [Top EXCEPT !.m = @ + 1]
<1>1. Top \in Frames /\ f \in Frames /\ SameCall(f, Top)
  BY TopTyped, TopGoesOn
<1>2. f.todo = Top.todo /\ f.saved = Top.saved /\ f.freshSaved = Top.freshSaved
      /\ f.at = Top.at /\ f.m = Top.m + 1
  BY <1>1 DEF Frames
<1> HIDE DEF f
<1>3. StagesLeft(f) < StagesLeft(Top)
  BY <1>1, <1>2, StageCounts, RenderBounds
<1>4. Advances(f)
  BY <1>1, <1>2, <1>3, LaterStage DEF Advances, KeepsSaved
<1> QED
  BY <1>1, <1>4 DEF f

LEMMA MethodShape ==
  ASSUME StackInv, stack # <<>>, Top.m < NMethods,
         Top.at \in {"constants", "methods"}, NEW c \in Classes,
         CallMethod([Top EXCEPT !.m = @ + 1], c, Top.m)
  PROVE  Shape
<1> DEFINE f == [Top EXCEPT !.m = @ + 1]
<1>1. f \in Frames /\ Advances(f)
  BY MethodAdvances
<1>2. Frame("method", c, Top.m, "inline") \in Frames
  BY FrameTyped, TopGoesOn
<1> HIDE DEF f
<1>3. GoOn(f, <<>>) \/ GoOn(f, <<Frame("method", c, Top.m, "inline")>>)
  BY DEF CallMethod, f
<1>4. Calls(f)
  BY <1>1, <1>2, <1>3, NoCall, FrameSaves DEF GoOn, Calls
<1> QED
  BY <1>1, <1>4 DEF Shape

LEMMA InlineShape ==
  ASSUME StackInv, stack # <<>>, NEW f \in Frames, Advances(f), Inline(f) \/ ExtractLocals(f)
  PROVE  Shape
<1>1. CASE GoOn(f, <<>>)
  BY <1>1, NoCall DEF Shape
<1>2. CASE \E a \in Inlined[Top.cls] : CallAnon(f, a)
  <2>1. PICK a \in Inlined[Top.cls] : CallAnon(f, a)
    BY <1>2
  <2>2. a \in Classes
    BY <2>1, TopGoesOn, ClassTree
  <2>3. Frame("anon", a, 0, "inline") \in Frames
    BY <2>2, FrameTyped, RenderBounds
  <2>4. Calls(f)
    BY <2>1, <2>3, NoCall, FrameSaves DEF CallAnon, GoOn, Calls
  <2> QED
    BY <2>4 DEF Shape
<1> QED
  BY <1>1, <1>2 DEF Inline, ExtractLocals

LEMMA EmitShape ==
  ASSUME StackInv, Emit
  PROVE  Shape
<1>1. ASSUME stack # <<>>,
             NEW at \in Stages,
             StagesLeft(To(at)) < StagesLeft(Top), GoOn(To(at), <<>>)
      PROVE  Shape
  BY <1>1, ToAdvances, NoCall DEF Shape
<1>2. ASSUME stack # <<>>,
             NEW at \in Stages
      PROVE  /\ Top \in Frames /\ To(at) \in Frames
             /\ To(at).at = at /\ To(at).kind = Top.kind /\ To(at).m = Top.m
  <2>1. Top \in Frames /\ To(at) \in Frames /\ To(at).at = at
    BY <1>2, TopTyped, TopGoesOn
  <2>2. \A f \in Frames : [f EXCEPT !.at = at].kind = f.kind /\ [f EXCEPT !.at = at].m = f.m
    BY DEF Frames
  <2> QED
    BY <2>1, <2>2 DEF To
<1> USE RenderBounds DEF Stages
<1>3. CASE EnumConstant
  <2>1. stack # <<>> /\ Top.m < NMethods /\ Top.at = "constants"
    BY <1>3 DEF EnumConstant, At
  <2>2. PICK b \in Bodies[Top.cls] : CallMethod([Top EXCEPT !.m = @ + 1], b, Top.m)
    BY <1>3 DEF EnumConstant
  <2>3. b \in Classes
    BY <2>1, <2>2, TopGoesOn, ClassTree
  <2> QED
    BY <2>1, <2>2, <2>3, MethodShape
<1>4. CASE EnumConstantsDone
  <2> DEFINE f == [To("inline") EXCEPT !.m = 0]
  <2>1. stack # <<>> /\ Top.at = "constants" /\ GoOn(f, <<>>)
    BY <1>4 DEF EnumConstantsDone, At
  <2>2. Top \in Frames /\ f \in Frames /\ SameCall(f, Top)
    BY <2>1, TopTyped, FrameGoesOn DEF To
  <2>3. f.todo = Top.todo /\ f.saved = Top.saved /\ f.freshSaved = Top.freshSaved /\ f.at = "inline"
    BY <2>2 DEF Frames, To
  <2> HIDE DEF f
  <2>4. StagesLeft(f) < StagesLeft(Top)
    BY <2>1, <2>2, <2>3, StageCounts
  <2>5. Advances(f)
    BY <2>2, <2>3, <2>4, LaterStage DEF Advances, KeepsSaved
  <2> QED
    BY <2>1, <2>2, <2>5, NoCall DEF Shape
<1>5. ASSUME stack # <<>>, NEW at \in Stages, StagesLeft(To(at)) < StagesLeft(Top),
             Inline(To(at)) \/ ExtractLocals(To(at))
      PROVE  Shape
  BY <1>5, ToAdvances, InlineShape
<1>6. CASE PrintArguments
  <2>1. stack # <<>> /\ Top.at = "arguments" /\ Inline(To("argument"))
    BY <1>6 DEF PrintArguments, At
  <2>2. StagesLeft(To("argument")) < StagesLeft(Top)
    BY <1>2, <2>1, StageCounts
  <2> QED
    BY <1>5, <2>1, <2>2
<1>7. CASE ClinitInline
  <2>1. stack # <<>> /\ Top.kind = "class" /\ Top.at = "inline"
        /\ (Inline(To("switch")) \/ Inline(To("extract")))
    BY <1>7 DEF ClinitInline, At
  <2>2. StagesLeft(To("switch")) < StagesLeft(Top) /\ StagesLeft(To("extract")) < StagesLeft(Top)
    BY <1>2, <2>1, StageCounts
  <2> QED
    BY <1>5, <2>1, <2>2
<1>8. CASE ClinitExtract
  <2>1. stack # <<>> /\ Top.kind = "class" /\ Top.at = "extract" /\ ExtractLocals(To("switch"))
    BY <1>8 DEF ClinitExtract, At
  <2>2. StagesLeft(To("switch")) < StagesLeft(Top)
    BY <1>2, <2>1, StageCounts
  <2> QED
    BY <1>5, <2>1, <2>2
<1>9. CASE ClinitPrint \/ AnonPrint \/ PrintLambda
  <2>1. stack # <<>> /\ Top.at = "print" /\ Inline(To("lambda"))
    BY <1>9 DEF ClinitPrint, AnonPrint, PrintLambda, At
  <2>2. StagesLeft(To("lambda")) < StagesLeft(Top)
    BY <1>2, <2>1, StageCounts
  <2> QED
    BY <1>5, <2>1, <2>2
<1>10. CASE AnonInline
  <2>1. stack # <<>> /\ Top.at = "inline" /\ Inline(To("print"))
    BY <1>10 DEF AnonInline, At
  <2>2. StagesLeft(To("print")) < StagesLeft(Top)
    BY <1>2, <2>1, StageCounts
  <2> QED
    BY <1>5, <2>1, <2>2
<1>11. CASE MethodInline
  <2>1. stack # <<>> /\ Top.kind = "method" /\ Top.at = "inline" /\ Inline(To("switch"))
    BY <1>11 DEF MethodInline, At
  <2>2. StagesLeft(To("switch")) < StagesLeft(Top)
    BY <1>2, <2>1, StageCounts
  <2> QED
    BY <1>5, <2>1, <2>2
<1>12. CASE ArgumentSwitch
  <2>1. stack # <<>> /\ Top.at = "argument" /\ GoOn(To("constants"), <<>>)
    BY <1>12 DEF ArgumentSwitch, RestoreSwitches, NamePattern, At
  <2>2. StagesLeft(To("constants")) < StagesLeft(Top)
    BY <1>2, <2>1, StageCounts
  <2> QED
    BY <1>1, <2>1, <2>2
<1>13. CASE ClinitSwitch
  <2>1. stack # <<>> /\ Top.at = "switch" /\ GoOn(To("print"), <<>>)
    BY <1>13 DEF ClinitSwitch, RestoreSwitches, NamePattern, At
  <2>2. StagesLeft(To("print")) < StagesLeft(Top)
    BY <1>2, <2>1, StageCounts
  <2> QED
    BY <1>1, <2>1, <2>2
<1>14. CASE ClinitLambdaSwitch \/ AnonLambdaSwitch
  <2>1. stack # <<>> /\ Top.at = "lambda" /\ GoOn(To("methods"), <<>>)
    BY <1>14 DEF ClinitLambdaSwitch, AnonLambdaSwitch, RestoreSwitches, NamePattern, At
  <2>2. StagesLeft(To("methods")) < StagesLeft(Top)
    BY <1>2, <2>1, StageCounts
  <2> QED
    BY <1>1, <2>1, <2>2
<1>15. CASE ClassMethod \/ AnonMethod
  <2>1. stack # <<>> /\ Top.m < NMethods /\ Top.at = "methods"
        /\ CallMethod([Top EXCEPT !.m = @ + 1], Top.cls, Top.m)
    BY <1>15 DEF ClassMethod, AnonMethod, At
  <2>2. Top.cls \in Classes
    BY <2>1, TopGoesOn
  <2> QED
    BY <2>1, <2>2, MethodShape
<1>16. CASE ClassMethodsDone \/ AnonMethodsDone
  <2>1. stack # <<>> /\ Top.at = "methods" /\ GoOn(To("members"), <<>>)
    BY <1>16 DEF ClassMethodsDone, AnonMethodsDone, At
  <2>2. StagesLeft(To("members")) < StagesLeft(Top)
    BY <1>2, <2>1, StageCounts
  <2> QED
    BY <1>1, <2>1, <2>2
<1>17. CASE ClassMember
  <2>1. stack # <<>>
    BY <1>17 DEF ClassMember, At
  <2>2. PICK c \in Top.todo : CallClass([Top EXCEPT !.todo = @ \ {c}], c)
    BY <1>17 DEF ClassMember
  <2> DEFINE f == [Top EXCEPT !.todo = @ \ {c}]
  <2>3. c \in Classes /\ Top \in Frames
    BY <2>1, <2>2, TopGoesOn, TopTyped
  <2>4. f \in Frames /\ SameCall(f, Top)
    BY <2>3, FrameGoesOn
  <2>5. f.todo = Top.todo \ {c} /\ f.saved = Top.saved /\ f.freshSaved = Top.freshSaved
        /\ f.at = Top.at /\ f.kind = Top.kind /\ f.m = Top.m
    BY <2>3 DEF Frames
  <2>6. GoOn(f, <<>>) \/ GoOn(f, <<Frame("class", c, 0, FirstStage(c))>>)
    BY <2>2 DEF CallClass
  <2> HIDE DEF f
  <2>7. Cardinality(f.todo) = Cardinality(Top.todo) - 1
    BY <2>2, <2>3, <2>5, WorkTyped, FS_RemoveElement
  <2>8. StagesLeft(f) = StagesLeft(Top)
    BY <2>5 DEF StagesLeft
  <2>9. WorkOf(f) < WorkOf(Top)
    BY <2>3, <2>7, <2>8, WorkTyped DEF WorkOf
  <2>10. Frame("class", c, 0, FirstStage(c)) \in Frames
    BY <2>3, FrameTyped DEF FirstStage
  <2>11. Calls(f)
    BY <2>1, <2>4, <2>6, <2>10, NoCall, FrameSaves DEF GoOn, Calls
  <2> QED
    BY <2>4, <2>5, <2>9, <2>11 DEF Advances, KeepsSaved, Shape
<1>18. CASE BodyDone \/ MethodDone \/ Propagate
  BY <1>18 DEF BodyDone, MethodDone, Propagate, Shape
<1>19. CASE MethodSwitch
  <2>1. stack # <<>> /\ Top.kind = "method" /\ Top.at = "switch" /\ GoOn(To("extract"), <<>>)
    BY <1>19 DEF MethodSwitch, RestoreSwitches, NamePattern, At
  <2>2. StagesLeft(To("extract")) < StagesLeft(Top)
    BY <1>2, <2>1, StageCounts
  <2> QED
    BY <1>1, <2>1, <2>2
<1>20. CASE MethodExtract
  <2> DEFINE f == [To("print") EXCEPT !.saved = extern, !.freshSaved = fresh.extern]
  <2>1. stack # <<>> /\ Top.kind = "method" /\ Top.at = "extract" /\ ExtractLocals(f)
    BY <1>20 DEF MethodExtract, At
  <2>2. Top \in Frames /\ extern \in SUBSET AllLocals /\ fresh.extern \in SUBSET AllLocals
    BY <2>1, TopTyped DEF StackInv, OtherTypes
  <2>3. f \in Frames /\ SameCall(f, Top)
    BY <2>2, FrameGoesOn DEF To
  <2>4. f.todo = Top.todo /\ f.saved = extern /\ f.freshSaved = fresh.extern /\ f.at = "print"
    BY <2>2 DEF Frames, To
  <2> HIDE DEF f
  <2>5. StagesLeft(f) < StagesLeft(Top)
    BY <2>1, <2>2, <2>3, <2>4, StageCounts
  <2>6. Advances(f)
    BY <2>2, <2>3, <2>4, <2>5, LaterStage DEF Advances, KeepsSaved
  <2> QED
    BY <2>1, <2>3, <2>6, InlineShape
<1>21. CASE LambdaSwitch
  <2>1. stack # <<>> /\ Top.at = "lambda" /\ GoOn(To("leave"), <<>>)
    BY <1>21 DEF LambdaSwitch, RestoreSwitches, NamePattern, At
  <2>2. StagesLeft(To("leave")) < StagesLeft(Top)
    BY <1>2, <2>1, StageCounts
  <2> QED
    BY <1>1, <2>1, <2>2
<1>22. CASE Swallow
  BY <1>22 DEF Swallow, Shape
<1> QED
  BY <1>3, <1>4, <1>6, <1>7, <1>8, <1>9, <1>10, <1>11, <1>12, <1>13, <1>14, <1>15, <1>16, <1>17,
     <1>18, <1>19, <1>20, <1>21, <1>22 DEF Emit

\* Only the call of a method that is not too deep adds to the depth.
DepthBounded == depth <= MaxDepth

LEMMA DepthInvariant == Spec => []DepthBounded
<1>1. Init => DepthBounded
  BY RenderBounds DEF Init, DepthBounded
<1>2. ASSUME StackInv, DepthBounded, [Next]_vars
      PROVE  DepthBounded'
  <2>0. depth \in Nat
    BY <1>2, MethodCallsCounted DEF StackInv, Follows
  <2>1. ASSUME NEW f, NEW c, NEW m, CallMethod(f, c, m) PROVE DepthBounded'
    BY <1>2, <2>0, <2>1, RenderBounds DEF CallMethod, DepthBounded
  <2>2. CASE depth' = depth \/ depth' = depth - 1
    BY <1>2, <2>0, <2>2, RenderBounds DEF DepthBounded
  <2>3. CASE EnumConstant \/ ClassMethod \/ AnonMethod
    BY <2>1, <2>3 DEF EnumConstant, ClassMethod, AnonMethod
  <2>4. CASE UNCHANGED vars \/ (\E c \in Roots : StartJob(c))
    BY <2>2, <2>4 DEF vars, registries, StartJob
  <2>5. CASE Emit /\ ~(EnumConstant \/ ClassMethod \/ AnonMethod)
    BY <2>2, <2>5 DEF Emit, PrintArguments, ArgumentSwitch, EnumConstantsDone, ClinitInline, ClinitExtract,
       ClinitSwitch, ClinitPrint, ClinitLambdaSwitch, ClassMethodsDone, ClassMember, BodyDone,
       AnonInline, AnonPrint, AnonLambdaSwitch, AnonMethodsDone, MethodInline, MethodSwitch,
       MethodExtract, PrintLambda, LambdaSwitch, MethodDone, Swallow, Propagate, registries
  <2> QED
    BY <1>2, <2>3, <2>4, <2>5 DEF Next
<1> QED
  BY <1>1, <1>2, StackInvariant, PTL DEF Spec

\* The bodies in progress are of different classes.
LEMMA LengthBounded ==
  ASSUME StackInv, DepthBounded
  PROVE  NestingBounded /\ Len(stack) \in Nat /\ Height \in Nat
<1>1. /\ stack \in Seq(Frames) /\ AllDistinct(stack)
      /\ depth = Cardinality(MethodCalls(stack))
  BY DEF StackInv, Follows
<1>2. /\ IsFiniteSet(MethodCalls(stack)) /\ Cardinality(MethodCalls(stack)) \in Nat
      /\ Len(stack) \in Nat
  BY <1>1, MethodCallsCounted
<1>3. \A k \in BodyCalls(stack) : k \in 1 .. Len(stack) /\ stack[k].cls \in Classes
  <2>1. \A k \in 1 .. Len(stack) : stack[k] \in Frames
    BY <1>1, ElementOfSeq
  <2> QED
    BY <2>1 DEF BodyCalls, Frames
<1> DEFINE cls == [k \in BodyCalls(stack) |-> stack[k].cls]
<1>4. cls \in Injection(BodyCalls(stack), Classes)
  BY <1>1, <1>3 DEF Injection, IsInjective, AllDistinct
<1>5. /\ IsFiniteSet(BodyCalls(stack)) /\ Cardinality(BodyCalls(stack)) <= Cardinality(Classes)
      /\ Cardinality(BodyCalls(stack)) \in Nat /\ Cardinality(Classes) \in Nat
  <2> HIDE DEF cls
  <2> QED
    BY <1>4, ClassesFinite, FS_Injection, FS_CardinalityType
<1>6. BodyCalls(stack) \cup MethodCalls(stack) = 1 .. Len(stack)
      /\ BodyCalls(stack) \cap MethodCalls(stack) = {}
  BY DEF BodyCalls, MethodCalls
<1>7. Cardinality(1 .. Len(stack))
        = Cardinality(BodyCalls(stack)) + Cardinality(MethodCalls(stack)) - Cardinality({})
  BY <1>2, <1>5, <1>6, FS_Union
<1>8. Cardinality({}) = 0
  BY FS_EmptySet
<1>9. Cardinality(1 .. Len(stack)) = Len(stack)
  <2>1. 1 \in Int /\ Len(stack) \in Int /\ (IF 1 > Len(stack) THEN 0 ELSE Len(stack) - 1 + 1) = Len(stack)
    BY <1>2
  <2>2. Cardinality(1 .. Len(stack)) = IF 1 > Len(stack) THEN 0 ELSE Len(stack) - 1 + 1
    BY <2>1, FS_Interval, Zenon
  <2> QED
    BY <2>1, <2>2
<1> HIDE DEF cls
<1> QED
  BY <1>1, <1>2, <1>5, <1>7, <1>8, <1>9, RenderBounds DEF NestingBounded, DepthBounded, Height

\* The entries of WorkLeft.
LEMMA WorkLeftTyped ==
  ASSUME StackInv, DepthBounded
  PROVE  /\ Height \in Nat /\ Len(stack) \in Nat /\ Len(stack) < Height
         /\ WorkLeft \in [1 .. Height -> Nat]
         /\ \A k \in 1 .. Len(stack) :
              WorkLeft[k] = WorkOf(stack[k]) /\ WorkLeft[k] \in Nat /\ WorkLeft[k] >= 2
         /\ WorkLeft[Len(stack) + 1] = IF unwinding THEN 1 ELSE 0
<1>1. /\ stack \in Seq(Frames) /\ Len(stack) \in Nat /\ Height \in Nat
      /\ Len(stack) < Height
  <2>1. Cardinality(Classes) \in Nat
    BY ClassesFinite, FS_CardinalityType
  <2> QED
    BY <2>1, LengthBounded, RenderBounds DEF StackInv, Follows, NestingBounded, Height
<1>2. \A k \in 1 .. Len(stack) : WorkOf(stack[k]) \in Nat /\ WorkOf(stack[k]) >= 2
  <2>1. \A k \in 1 .. Len(stack) : stack[k] \in Frames
    BY <1>1, ElementOfSeq
  <2> QED
    BY <2>1, WorkTyped
<1>3. WorkLeft \in [1 .. Height -> Nat]
  BY <1>1, <1>2 DEF WorkLeft
<1>4. \A k \in 1 .. Len(stack) : WorkLeft[k] = WorkOf(stack[k])
  BY <1>1 DEF WorkLeft
<1>5. WorkLeft[Len(stack) + 1] = IF unwinding THEN 1 ELSE 0
  BY <1>1 DEF WorkLeft
<1> QED
  BY <1>1, <1>2, <1>3, <1>4, <1>5

\* A call of the old stack has less to do, and those around it as much.
LEMMA LessAt ==
  ASSUME NEW h \in Nat, NEW new \in [1 .. h -> Nat], NEW old \in [1 .. h -> Nat],
         NEW k \in 1 .. h, \A i \in 1 .. k - 1 : new[i] = old[i], new[k] < old[k]
  PROVE  <<new, old>> \in LexProductOrdering(LessNat, Nat, h)
<1>1. <<new[k], old[k]>> \in LessNat
  BY DEF LessNat, OpToRel
<1> QED
  BY <1>1 DEF LexProductOrdering

LEMMA EmitLowers ==
  ASSUME StackInv, DepthBounded, StackInv', DepthBounded', Emit
  PROVE  <<WorkLeft', WorkLeft>> \in LessWork
<1>1. /\ Height \in Nat /\ Len(stack) \in Nat /\ Len(stack) < Height
      /\ WorkLeft \in [1 .. Height -> Nat]
      /\ \A k \in 1 .. Len(stack) :
              WorkLeft[k] = WorkOf(stack[k]) /\ WorkLeft[k] \in Nat /\ WorkLeft[k] >= 2
      /\ WorkLeft[Len(stack) + 1] = IF unwinding THEN 1 ELSE 0
  BY WorkLeftTyped
<1>2. Height' = Height
  BY DEF Height
<1>3. /\ Len(stack') \in Nat /\ Len(stack') < Height
      /\ WorkLeft' \in [1 .. Height -> Nat]
      /\ \A k \in 1 .. Len(stack') : WorkLeft'[k] = WorkOf(stack'[k])
      /\ WorkLeft'[Len(stack') + 1] = IF unwinding' THEN 1 ELSE 0
  <2>1. /\ stack' \in Seq(Frames) /\ Len(stack') \in Nat /\ Len(stack') < Height'
    <3>1. Cardinality(Classes) \in Nat
      BY ClassesFinite, FS_CardinalityType
    <3>2. Len(stack') <= MaxDepth + Cardinality(Classes) /\ Len(stack') \in Nat
      <4>1. (StackInv /\ DepthBounded => NestingBounded /\ Len(stack) \in Nat)'
        BY LengthBounded, PTL
      <4> QED
        BY <4>1 DEF NestingBounded
    <3> QED
      BY <3>1, <3>2, RenderBounds DEF StackInv, Follows, Height
  <2>2. \A k \in 1 .. Len(stack') : WorkOf(stack'[k]) \in Nat
    <3>1. \A k \in 1 .. Len(stack') : stack'[k] \in Frames
      BY <2>1, ElementOfSeq
    <3> QED
      BY <3>1, WorkTyped
  <2> QED
    BY <1>1, <1>2, <2>1, <2>2 DEF WorkLeft
<1>4. Shape /\ Len(stack) \in Nat /\ Len(stack') \in Nat
  BY <1>1, <1>3, EmitShape
<1>5. stack # <<>> /\ Len(stack) \in 1 .. Height
  <2>1. stack # <<>>
    BY DEF Emit, PrintArguments, ArgumentSwitch, EnumConstant, EnumConstantsDone, ClinitInline,
       ClinitExtract, ClinitSwitch, ClinitPrint, ClinitLambdaSwitch, ClassMethod, ClassMethodsDone,
       ClassMember, BodyDone, AnonInline, AnonPrint, AnonLambdaSwitch, AnonMethod, AnonMethodsDone,
       MethodInline, MethodSwitch, MethodExtract, PrintLambda, LambdaSwitch, MethodDone,
       Swallow, Propagate, At
  <2> QED
    BY <1>1, <2>1, TopTyped
<1>6. CASE \E f \in Frames : Advances(f) /\ Calls(f)
  <2>1. PICK f \in Frames : Advances(f) /\ Calls(f)
    BY <1>6
  <2> DEFINE r == Append(Under, f)
  <2>2. /\ r \in Seq(Frames) /\ Len(r) = Len(stack) /\ r[Len(stack)] = f
        /\ \A k \in 1 .. Len(stack) - 1 : r[k] = stack[k]
    BY <1>5, TopTyped, LastReplaced DEF Under
  <2>3. stack' = r \/ \E g \in Frames : stack' = r \o <<g>>
    BY <2>1 DEF Calls
  <2> HIDE DEF r
  <2>4. /\ Len(stack) \in 1 .. Len(stack') /\ stack'[Len(stack)] = f
        /\ \A k \in 1 .. Len(stack) - 1 : k \in 1 .. Len(stack') /\ stack'[k] = stack[k]
    <3>1. CASE stack' = r
      BY <1>5, <2>2, <3>1
    <3>2. CASE \E g \in Frames : stack' = r \o <<g>>
      <4>1. PICK g \in Frames : stack' = r \o <<g>>
        BY <3>2
      <4>2. Len(stack') = Len(r) + 1 /\ \A k \in 1 .. Len(r) : stack'[k] = r[k]
        BY <2>2, <4>1, ElementAdded
      <4> QED
        BY <1>5, <2>2, <4>2
    <3> QED
      BY <2>3, <3>1, <3>2
  <2>5. WorkLeft'[Len(stack)] < WorkLeft[Len(stack)]
    <3>1. WorkLeft'[Len(stack)] = WorkOf(f)
      BY <1>3, <2>4
    <3>2. WorkLeft[Len(stack)] = WorkOf(Top)
      BY <1>1, <1>5 DEF Top
    <3> QED
      BY <2>1, <3>1, <3>2 DEF Advances
  <2>6. \A k \in 1 .. Len(stack) - 1 : WorkLeft'[k] = WorkLeft[k]
    <3> SUFFICES ASSUME NEW k \in 1 .. Len(stack) - 1 PROVE WorkLeft'[k] = WorkLeft[k]
      OBVIOUS
    <3>1. k \in 1 .. Len(stack) /\ k \in 1 .. Len(stack') /\ stack'[k] = stack[k]
      BY <1>4, <2>4
    <3>2. WorkLeft'[k] = WorkOf(stack'[k])
      BY <1>3, <3>1
    <3>3. WorkLeft[k] = WorkOf(stack[k])
      BY <1>1, <3>1
    <3>4. WorkOf(stack'[k]) = WorkOf(stack[k])
      BY <3>1
    <3> QED
      BY <3>2, <3>3, <3>4
  <2> QED
    BY <1>1, <1>3, <1>5, <2>5, <2>6, LessAt DEF LessWork
<1>7. CASE stack' = Under
  <2>1. Len(stack') = Len(stack) - 1 /\ \A k \in 1 .. Len(stack) - 1 : stack'[k] = stack[k]
    BY <1>5, <1>7, TopTyped, AllButLast DEF Under
  <2>2. WorkLeft'[Len(stack)] \in {0, 1}
    <3>1. Len(stack') + 1 = Len(stack)
      BY <1>1, <2>1
    <3>2. WorkLeft'[Len(stack)] = IF unwinding' THEN 1 ELSE 0
      BY <1>3, <3>1, Zenon
    <3> QED
      BY <3>2
  <2>3. WorkLeft'[Len(stack)] < WorkLeft[Len(stack)]
    BY <1>1, <1>5, <2>2
  <2>4. \A k \in 1 .. Len(stack) - 1 : WorkLeft'[k] = WorkLeft[k]
    <3> SUFFICES ASSUME NEW k \in 1 .. Len(stack) - 1 PROVE WorkLeft'[k] = WorkLeft[k]
      OBVIOUS
    <3>1. k \in 1 .. Len(stack) /\ k \in 1 .. Len(stack') /\ stack'[k] = stack[k]
      BY <1>4, <2>1
    <3>2. WorkLeft'[k] = WorkOf(stack'[k])
      BY <1>3, <3>1
    <3>3. WorkLeft[k] = WorkOf(stack[k])
      BY <1>1, <3>1
    <3>4. WorkOf(stack'[k]) = WorkOf(stack[k])
      BY <3>1
    <3> QED
      BY <3>2, <3>3, <3>4
  <2> QED
    BY <1>1, <1>3, <1>5, <2>3, <2>4, LessAt DEF LessWork
<1>8. CASE stack' = stack /\ unwinding /\ ~unwinding'
  <2>1. Len(stack) + 1 \in 1 .. Height
    BY <1>1
  <2>2. WorkLeft'[Len(stack) + 1] < WorkLeft[Len(stack) + 1]
    <3>1. WorkLeft[Len(stack) + 1] = 1
      BY <1>1, <1>8, Zenon
    <3>2. WorkLeft'[Len(stack) + 1] = 0
      BY <1>3, <1>8, Zenon
    <3> QED
      BY <3>1, <3>2
  <2>3. \A k \in 1 .. Len(stack) : WorkLeft'[k] = WorkLeft[k]
    BY <1>1, <1>3, <1>8
  <2>4. (Len(stack) + 1) - 1 = Len(stack)
    BY <1>1
  <2> QED
    BY <1>1, <1>3, <2>1, <2>2, <2>3, <2>4, LessAt DEF LessWork
<1> QED
  BY <1>4, <1>6, <1>7, <1>8 DEF Shape

(* However classes inline, nest and call each other: the native stack of   *)
(* the emitter holds at most one body of each class and MaxDepth methods.  *)
THEOREM NestingIsBounded == Spec => []NestingBounded
<1>1. StackInv /\ DepthBounded => NestingBounded
  BY LengthBounded
<1> QED
  BY <1>1, StackInvariant, DepthInvariant, PTL

(* Every step of the emitter, one that passes an Err on or swallows it     *)
(* included, leaves less work in the sense of an order without endless     *)
(* descent: no sequence of such steps goes on for ever, so a job ends when *)
(* the emitter is let run.                                                 *)
THEOREM EmissionWindsDown ==
  /\ Spec => [][EmittingIsLessWork]_vars
  /\ IsWellFoundedOn(LessWork, [1 .. Height -> Nat])
<1>1. ASSUME StackInv, DepthBounded, StackInv', DepthBounded', [Next]_vars
      PROVE  [EmittingIsLessWork]_vars
  BY <1>1, EmitLowers DEF EmittingIsLessWork
<1>2. Height \in Nat
  BY ClassesFinite, RenderBounds, FS_CardinalityType DEF Height
<1>3. IsWellFoundedOn(LessWork, [1 .. Height -> Nat])
  BY <1>2, NothingEndless DEF LessWork
<1>4. Spec => [][EmittingIsLessWork]_vars
  BY <1>1, StackInvariant, DepthInvariant, PTL DEF Spec
<1> QED
  BY <1>3, <1>4

-----------------------------------------------------------------------------
(* What is left of Reproducible.                                           *)
(*                                                                         *)
(* The property is false: a thread's second job may print what a fresh     *)
(* thread would not.  Where that can happen, and in which direction, is    *)
(* proved here.                                                            *)

\* The registries of the thread are ahead of a fresh thread's, if anything.
OneSided == fresh.extern \subseteq extern /\ fresh.patCtr <= patCtr

\* Inside a method the pattern counter is a fresh thread's.
MethodsCountAfresh == depth > 0 => patCtr = fresh.patCtr

\* The first job of a thread.
Later == \E a, b \in jobs : a # b
FirstIsFresh == ~Later => extern = fresh.extern /\ patCtr = fresh.patCtr
FirstReproducible == ~Later => Reproducible

\* A pattern is numbered otherwise outside methods only: in arguments of enum
\* constants, initializers and static blocks, and in lambdas among them.
PatternsDivergeOutsideMethods ==
    ("pattern" \in diverged' \ diverged) => depth = 0 /\ Later

\* Once the counters agree, as they do from the first method of a unit on,
\* they agree to the end of the unit.
AgreementLasts == Emit /\ patCtr = fresh.patCtr => patCtr' = fresh'.patCtr
Confined == PatternsDivergeOutsideMethods /\ AgreementLasts

\* What a method will put back.
SavedAfresh ==
  \A k \in 1 .. Len(stack) :
     /\ stack[k].freshSaved \subseteq stack[k].saved
     /\ ~Later => stack[k].freshSaved = stack[k].saved

Untouched == jobs = {} => stack = <<>> /\ patCtr = 0 /\ extern = {}

AfreshInv ==
  /\ SavedAfresh
  /\ OneSided
  /\ MethodsCountAfresh
  /\ FirstIsFresh
  /\ FirstReproducible
  /\ Untouched

\* A method on top counts as a depth.
LEMMA InMethod ==
  ASSUME StackInv, stack # <<>>, Top.kind = "method"
  PROVE  depth > 0
<1>1. stack \in Seq(Frames) /\ depth = Cardinality(MethodCalls(stack))
  BY DEF StackInv, Follows
<1>2. Len(stack) \in MethodCalls(stack)
  BY TopTyped DEF MethodCalls, Top
<1>3. IsFiniteSet(MethodCalls(stack)) /\ Cardinality(MethodCalls(stack)) \in Nat
  BY <1>1, MethodCallsCounted
<1>4. Cardinality(MethodCalls(stack)) # 0
  BY <1>2, <1>3, FS_EmptySet
<1> QED
  BY <1>1, <1>3, <1>4

\* What the steps do to the registries, the ghosts included.
LEMMA EmitEffects ==
  ASSUME StackInv, Emit
  PROVE  /\ stack # <<>> /\ jobs' = jobs
         /\ \/ UNCHANGED <<patCtr, extern, fresh, diverged, depth>>
            \/ /\ patCtr' = 0 /\ fresh' = [fresh EXCEPT !.patCtr = 0]
               /\ UNCHANGED <<extern, diverged>>
            \/ /\ \E f : NamePattern(f)
               /\ UNCHANGED <<extern, depth>>
            \/ /\ \E n : Extract(n)
               /\ UNCHANGED <<patCtr, depth>>
            \/ /\ \E n : ReadExtern(n)
               /\ UNCHANGED <<patCtr, extern, fresh, depth>>
            \/ /\ extern' = Top.saved /\ fresh' = [fresh EXCEPT !.extern = Top.freshSaved]
               /\ depth' = depth - 1 /\ depth > 0
               /\ UNCHANGED <<patCtr, diverged>>
<1>1. CASE EnumConstant \/ ClassMethod \/ AnonMethod
  BY <1>1 DEF EnumConstant, ClassMethod, AnonMethod, CallMethod, At
<1>2. CASE ArgumentSwitch \/ ClinitSwitch \/ ClinitLambdaSwitch \/ AnonLambdaSwitch
           \/ MethodSwitch \/ LambdaSwitch
  <2>1. /\ stack # <<>> /\ UNCHANGED <<extern, depth, jobs>>
        /\ \E f : RestoreSwitches(f)
    BY <1>2 DEF ArgumentSwitch, ClinitSwitch, ClinitLambdaSwitch, AnonLambdaSwitch, MethodSwitch,
                LambdaSwitch, At
  <2> QED
    BY <2>1 DEF RestoreSwitches, ghosts
<1>3. ASSUME NEW f, Inline(f)
      PROVE  UNCHANGED diverged \/ \E n : ReadExtern(n)
  BY <1>3 DEF Inline
<1>4. CASE PrintArguments \/ ClinitInline \/ ClinitPrint \/ AnonInline \/ AnonPrint
           \/ MethodInline \/ PrintLambda
  <2>1. /\ stack # <<>> /\ UNCHANGED <<patCtr, extern, fresh, depth, jobs>>
        /\ \E f : Inline(f)
    BY <1>4 DEF PrintArguments, ClinitInline, ClinitPrint, AnonInline, AnonPrint, MethodInline,
                PrintLambda, At
  <2> QED
    BY <1>3, <2>1
<1>5. CASE ClinitExtract \/ MethodExtract
  <2>1. /\ stack # <<>> /\ UNCHANGED <<patCtr, depth, jobs>>
        /\ \E f : ExtractLocals(f)
    BY <1>5 DEF ClinitExtract, MethodExtract, At
  <2> QED
    BY <1>3, <2>1 DEF ExtractLocals
<1>6. CASE MethodDone
  <2>1. depth > 0
    BY <1>6, InMethod DEF MethodDone, At
  <2> QED
    BY <1>6, <2>1 DEF MethodDone, At
<1>7. CASE EnumConstantsDone \/ ClassMethodsDone \/ ClassMember \/ BodyDone
           \/ AnonMethodsDone \/ Swallow \/ Propagate
  BY <1>7 DEF EnumConstantsDone, ClassMethodsDone, ClassMember, BodyDone, AnonMethodsDone,
              Swallow, Propagate, At, registries, ghosts
<1> QED
  BY <1>1, <1>2, <1>4, <1>5, <1>6, <1>7 DEF Emit

LEMMA EmitAfresh ==
  ASSUME StackInv, AfreshInv, Emit
  PROVE  /\ (OneSided /\ MethodsCountAfresh /\ FirstIsFresh /\ FirstReproducible)'
         /\ Confined
<1>0. /\ patCtr \in Nat /\ fresh.patCtr \in Nat /\ depth \in Nat
      /\ fresh \in [patCtr : Nat, extern : SUBSET AllLocals]
  <2>1. depth \in Nat
    BY MethodCallsCounted DEF StackInv, Follows
  <2> QED
    BY <2>1, RenderBounds DEF StackInv, OtherTypes
<1>1. stack # <<>> /\ jobs' = jobs
  BY EmitEffects
<1> USE <1>0, <1>1 DEF AfreshInv, OneSided, MethodsCountAfresh, FirstIsFresh,
        FirstReproducible, Reproducible, PatternsDivergeOutsideMethods, AgreementLasts, Confined, Later
<1>2. CASE UNCHANGED <<patCtr, extern, fresh, diverged, depth>>
  BY <1>2
<1>3. CASE /\ patCtr' = 0 /\ fresh' = [fresh EXCEPT !.patCtr = 0]
           /\ UNCHANGED <<extern, diverged>>
  <2>1. fresh'.patCtr = 0 /\ fresh'.extern = fresh.extern
    BY <1>3
  <2> QED
    BY <1>3, <2>1
<1>4. CASE /\ \E f : NamePattern(f)
           /\ UNCHANGED <<extern, depth>>
  <2>1. /\ patCtr' = patCtr + 1
        /\ diverged' = diverged \cup (IF patCtr = fresh.patCtr THEN {} ELSE {"pattern"})
        /\ fresh' = [fresh EXCEPT !.patCtr = fresh.patCtr + 1]
    BY <1>4 DEF NamePattern
  <2>2. fresh'.patCtr = fresh.patCtr + 1 /\ fresh'.extern = fresh.extern
    BY <2>1
  <2>3. patCtr = fresh.patCtr => diverged' = diverged
    BY <2>1
  <2>4. patCtr # fresh.patCtr => depth = 0 /\ Later
    OBVIOUS
  <2> QED
    BY <1>4, <2>1, <2>2, <2>3, <2>4
<1>5. CASE /\ \E n : Extract(n)
           /\ UNCHANGED <<patCtr, depth>>
  <2>1. PICK n : Extract(n)
    BY <1>5
  <2>2. /\ extern' = extern \cup {n}
        /\ fresh' = [fresh EXCEPT !.extern = fresh.extern \cup {n}]
        /\ diverged' = diverged \cup (IF (n \in extern) = (n \in fresh.extern) THEN {} ELSE {"extern"})
    BY <2>1 DEF Extract, ReadExtern
  <2>3. fresh'.patCtr = fresh.patCtr /\ fresh'.extern = fresh.extern \cup {n}
    BY <2>2
  <2>4. extern = fresh.extern => diverged' = diverged
    BY <2>2
  <2>5. "pattern" \in diverged' => "pattern" \in diverged
    BY <2>2
  <2> QED
    BY <1>5, <2>2, <2>3, <2>4, <2>5
<1>6. CASE /\ \E n : ReadExtern(n)
           /\ UNCHANGED <<patCtr, extern, fresh, depth>>
  <2>1. PICK n : ReadExtern(n)
    BY <1>6
  <2>2. diverged' = diverged \cup (IF (n \in extern) = (n \in fresh.extern) THEN {} ELSE {"extern"})
    BY <2>1 DEF ReadExtern
  <2>3. extern = fresh.extern => diverged' = diverged
    BY <2>2
  <2>4. "pattern" \in diverged' => "pattern" \in diverged
    BY <2>2
  <2> QED
    BY <1>6, <2>3, <2>4
<1>7. CASE /\ extern' = Top.saved /\ fresh' = [fresh EXCEPT !.extern = Top.freshSaved]
           /\ depth' = depth - 1 /\ depth > 0
           /\ UNCHANGED <<patCtr, diverged>>
  <2>1. fresh'.patCtr = fresh.patCtr /\ fresh'.extern = Top.freshSaved
    BY <1>7
  <2>2. Top.freshSaved \subseteq Top.saved /\ (~Later => Top.freshSaved = Top.saved)
    <3>1. Len(stack) \in 1 .. Len(stack)
      BY TopTyped
    <3> QED
      BY <3>1 DEF SavedAfresh, Top
  <2> QED
    BY <1>7, <2>1, <2>2
<1> QED
  BY <1>2, <1>3, <1>4, <1>5, <1>6, <1>7, EmitEffects

\* What a frame of the new stack saved was saved before, or just now.
LEMMA EmitSaves ==
  ASSUME StackInv, AfreshInv, Emit
  PROVE  SavedAfresh'
<1>1. stack # <<>> /\ jobs' = jobs
  BY EmitEffects
<1>2. Top \in Frames /\ Len(stack) \in Nat \ {0} /\ stack \in Seq(Frames)
  BY <1>1, TopTyped
<1> DEFINE Fits(g) == /\ g.freshSaved \subseteq g.saved
                      /\ ~Later => g.freshSaved = g.saved
<1>3. \A k \in 1 .. Len(stack) : Fits(stack[k])
  BY DEF AfreshInv, SavedAfresh
<1>4. SUFFICES \A k \in 1 .. Len(stack') : Fits(stack'[k])
  BY <1>1 DEF SavedAfresh, Later
<1>5. Shape
  BY EmitShape
<1>6. CASE \E f \in Frames : Advances(f) /\ Calls(f)
  <2>1. PICK f \in Frames : Advances(f) /\ Calls(f)
    BY <1>6
  <2>2. Fits(f)
    <3>1. Fits(Top)
      BY <1>2, <1>3 DEF Top
    <3>2. CASE f.saved = extern /\ f.freshSaved = fresh.extern
      BY <3>2 DEF AfreshInv, OneSided, FirstIsFresh
    <3>3. CASE f.saved = Top.saved /\ f.freshSaved = Top.freshSaved
      BY <3>1, <3>3
    <3> QED
      BY <2>1, <3>2, <3>3 DEF Advances, KeepsSaved
  <2> DEFINE r == Append(Under, f)
  <2>3. /\ r \in Seq(Frames) /\ Len(r) = Len(stack) /\ r[Len(stack)] = f
        /\ \A k \in 1 .. Len(stack) - 1 : r[k] = stack[k]
    BY <1>1, <1>2, LastReplaced DEF Under
  <2>4. stack' = r \/ \E g \in Frames : SavesNothing(g) /\ stack' = r \o <<g>>
    BY <2>1 DEF Calls
  <2> HIDE DEF r, Fits
  <2>5. \A k \in 1 .. Len(r) : Fits(r[k])
    <3> SUFFICES ASSUME NEW k \in 1 .. Len(r) PROVE Fits(r[k])
      OBVIOUS
    <3>1. CASE k = Len(stack)
      BY <2>2, <2>3, <3>1
    <3>2. CASE k \in 1 .. Len(stack) - 1
      BY <1>2, <1>3, <2>3, <3>2
    <3> QED
      BY <1>2, <2>3, <3>1, <3>2
  <2>6. CASE \E g \in Frames : SavesNothing(g) /\ stack' = r \o <<g>>
    <3>1. PICK g \in Frames : SavesNothing(g) /\ stack' = r \o <<g>>
      BY <2>6
    <3>2. /\ Len(stack') = Len(r) + 1 /\ stack'[Len(r) + 1] = g
          /\ \A k \in 1 .. Len(r) : stack'[k] = r[k]
      <4>1. r \in Seq(Frames) /\ g \in Frames
        BY <2>3
      <4>2. /\ Len(r \o <<g>>) = Len(r) + 1 /\ (r \o <<g>>)[Len(r) + 1] = g
            /\ \A k \in 1 .. Len(r) : (r \o <<g>>)[k] = r[k]
        BY <4>1, ElementAdded
      <4> QED
        BY <3>1, <4>2, Zenon
    <3>3. Fits(g)
      BY <3>1 DEF SavesNothing, Fits
    <3> SUFFICES ASSUME NEW k \in 1 .. Len(stack') PROVE Fits(stack'[k])
      OBVIOUS
    <3>4. k = Len(r) + 1 \/ k \in 1 .. Len(r)
      BY <1>2, <2>3, <3>2
    <3> QED
      BY <2>5, <3>2, <3>3, <3>4
  <2> QED
    BY <2>4, <2>5, <2>6
<1>7. CASE stack' = Under
  <2>1. Len(stack') = Len(stack) - 1 /\ \A k \in 1 .. Len(stack) - 1 : stack'[k] = stack[k]
    BY <1>1, <1>2, <1>7, AllButLast DEF Under
  <2> HIDE DEF Fits
  <2> QED
    BY <1>2, <1>3, <2>1
<1>8. CASE stack' = stack
  BY <1>3, <1>8
<1> QED
  BY <1>5, <1>6, <1>7, <1>8 DEF Shape

LEMMA AfreshKept ==
  ASSUME StackInv, AfreshInv, [Next]_vars
  PROVE  AfreshInv' /\ [Confined]_vars
<1>1. CASE Emit
  <2>1. stack # <<>> /\ jobs' = jobs
    BY <1>1, EmitEffects
  <2>2. Untouched'
    BY <2>1 DEF AfreshInv, Untouched
  <2> QED
    BY <1>1, <2>2, EmitAfresh, EmitSaves DEF AfreshInv
<1>2. ASSUME NEW c \in Roots, StartJob(c) PROVE AfreshInv' /\ Confined
  <2>1. patCtr \in Nat /\ depth \in Nat
    BY MethodCallsCounted DEF StackInv, OtherTypes, Follows
  <2>2. stack = <<>> /\ fresh'.patCtr = 0 /\ fresh'.extern = {}
        /\ UNCHANGED <<depth, patCtr, extern, diverged>>
    BY <1>2 DEF StartJob, Clean
  <2>3. depth = 0
    <3>1. MethodCalls(stack) = {}
      <4>1. stack = <<>> /\ Len(<<>>) = 0
        BY <1>2 DEF StartJob
      <4> QED
        BY <4>1 DEF MethodCalls
    <3> QED
      BY <3>1, FS_EmptySet DEF StackInv, Follows
  <2>4. SavedAfresh'
    <3> DEFINE g == Frame("class", c, 0, FirstStage(c))
    <3>1. stack' = <<g>> /\ SavesNothing(g)
      BY <1>2, FrameSaves DEF StartJob
    <3> HIDE DEF g
    <3>2. Len(stack') = 1 /\ stack'[1] = g
      BY <3>1
    <3> QED
      BY <3>1, <3>2 DEF SavedAfresh, SavesNothing
  <2>5. jobs' # {} /\ (~Later' => jobs = {})
    BY <1>2 DEF StartJob, Later
  <2>6. ~Emit
    BY <2>2, EmitEffects
  <2>7. jobs = {} => ~Later
    BY DEF Later
  <2> QED
    BY <2>1, <2>2, <2>3, <2>4, <2>5, <2>6, <2>7
       DEF AfreshInv, OneSided, MethodsCountAfresh, FirstIsFresh, FirstReproducible,
           Reproducible, Untouched, PatternsDivergeOutsideMethods, AgreementLasts, Confined
<1>3. CASE UNCHANGED vars
  BY <1>3 DEF vars, registries, ghosts, AfreshInv, SavedAfresh, OneSided, MethodsCountAfresh,
              FirstIsFresh, FirstReproducible, Reproducible, Untouched, Later
<1> QED
  BY <1>1, <1>2, <1>3 DEF Next

(* The first job of a thread is printed as on any fresh thread.  Later     *)
(* ones differ in one direction only: a thread that worked before numbers  *)
(* patterns higher and knows more local classes, so it leaves declarations *)
(* out and never repeats one.  The numbers differ only in code outside     *)
(* methods, and only before the first method of the unit is printed: from  *)
(* there on the counter is a fresh thread's, and stays so.                 *)
THEOREM DivergenceConfined ==
  Spec => /\ [](OneSided /\ MethodsCountAfresh /\ FirstReproducible)
          /\ [][PatternsDivergeOutsideMethods /\ AgreementLasts]_vars
<1>1. Init => AfreshInv
  BY DEF Init, Clean, AfreshInv, SavedAfresh, OneSided, MethodsCountAfresh, FirstIsFresh,
         FirstReproducible, Reproducible, Untouched, Later
<1>2. StackInv /\ AfreshInv /\ [Next]_vars
        => AfreshInv' /\ [PatternsDivergeOutsideMethods /\ AgreementLasts]_vars
  BY AfreshKept DEF Confined
<1>3. AfreshInv => OneSided /\ MethodsCountAfresh /\ FirstReproducible
  BY DEF AfreshInv
<1> QED
  BY <1>1, <1>2, <1>3, StackInvariant, PTL DEF Spec
===============================================================================
