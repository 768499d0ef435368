------------------------------ MODULE TryPasses ------------------------------
(***************************************************************************)
(* The passes of method.rs over try statements.  javac compiles a finally *)
(* into a copy of its body on every way out of the try and a catch-all     *)
(* handler that runs it and throws again; dedupe_finally turns that back   *)
(* into a finally and removes the copies.  The other passes clean up what  *)
(* is left: rethrows inside a finally, empty catch-alls, clauses in an     *)
(* order javac refuses, and tries without clauses.                         *)
(*                                                                         *)
(* The clause of a catch-all has the class "", that of a multi-catch the   *)
(* class "multi".                                                          *)
(***************************************************************************)
EXTENDS Statements

CONSTANTS Supers,         \* the classes a class extends, itself among them
          ThrowableVars   \* the variables of type java.lang.Throwable

Rethrows(s, v) == s.op = "throw" /\ s.x = v
TryOf(s, body, catches, finally) == With(s, Heads(s) \o <<body>> \o catches \o finally)

-----------------------------------------------------------------------------
(* dedupe_finally.                                                         *)

\* The variables that s throws at each of its ends.
RECURSIVE TrailingRethrow(_)
TrailingRethrow(s) ==
  CASE s.op = "throw" -> {s.x} \ {""}
    [] s.op = "block" /\ ~IsEmpty(s) -> TrailingRethrow(Last(s.kids))
    [] s.op = "if" /\ Len(s.kids) = 2 -> TrailingRethrow(s.kids[1]) \cap TrailingRethrow(s.kids[2])
    [] OTHER -> {}

\* The longest beginning of ks whose last statement is none of drop.
TrimEnd(ks, drop) ==
  LET good == {i \in DOMAIN ks : ks[i] \notin drop}
  IN  SubSeq(ks, 1, CHOOSE i \in good \cup {0} : \A j \in good : j <= i)

RECURSIVE NoRethrow(_, _)
NoRethrow(s, v) ==
  LET ks == TrimEnd(s.kids, {k \in Range(s.kids) : Rethrows(k, v)})
  IN  CASE Rethrows(s, v) -> Empty
        [] s.op = "block" -> With(s, [i \in DOMAIN ks |-> IF i = Len(ks) THEN NoRethrow(ks[i], v) ELSE ks[i]])
        [] s.op = "if"    -> With(s, [i \in DOMAIN s.kids |-> NoRethrow(s.kids[i], v)])
        [] OTHER          -> s

\* The body of a finally: the handler without its rethrows and without a
\* leading store of the exception.
FinallyOf(handler, v) ==
  LET ks == TrimEnd(Listed(handler), {k \in Range(Listed(handler)) : k.op = "throw"})
      clean == [i \in DOMAIN ks |-> NoRethrow(ks[i], v)]
      stores == clean # << >> /\ clean[1].op \in {"set", "declset", "decl"} /\ clean[1].x = v
  IN  IF stores THEN Tail(clean) ELSE clean

\* Mutant: CutCopy without the return or throw behind the copy.
CutCopyAndExit(ks, fin, merge) ==
  LET n == Len(ks) - Len(fin) - (IF ks # << >> /\ Last(ks).op \in {"return", "throw"} THEN 1 ELSE 0)
  IN  IF n >= 0 /\ SubSeq(ks, n + 1, n + Len(fin)) = fin THEN {SubSeq(ks, 1, n)} ELSE {}

\* The ends at which a copy of fin may stand: fin itself, fin and the first
\* statements of merge, or fin before a return or throw.  The result is the
\* list without the copy, in a set that is empty where there is no copy.
CutCopy(ks, fin, merge) ==
  LET abrupt == ks # << >> /\ Last(ks).op \in {"return", "throw"}
      kept == IF abrupt THEN <<Last(ks)>> ELSE << >>
      eff == IF abrupt THEN Len(ks) - 1 ELSE Len(ks)
      cut(end, extra, tail) ==
        LET start == end - Len(fin) - extra
        IN  IF start < 0 \/ SubSeq(ks, start + 1, end) # fin \o SubSeq(merge, 1, extra) THEN {}
            ELSE {SubSeq(ks, 1, start) \o tail}
      merged == {n \in 1 .. Len(merge) : cut(eff, n, kept) # {}}
  IN  IF cut(Len(ks), 0, << >>) # {} THEN cut(Len(ks), 0, << >>)
      ELSE IF merged # {} THEN cut(eff, CHOOSE n \in merged : \A m \in merged : m <= n, kept)
      ELSE IF abrupt THEN cut(eff, 0, kept) ELSE {}

\* A block without a copy at its end is searched in its last statement; any
\* other statement in all its bodies.
RECURSIVE StripCopies(_, _, _)
StripCopies(s, fin, merge) ==
  LET n == Len(s.kids)
      cut == CutCopy(s.kids, fin, merge)
  IN  CASE fin = << >>       -> s
        [] s.op = "block" -> IF cut # {} THEN With(s, CHOOSE ks \in cut : TRUE)
                             ELSE With(s, [i \in 1 .. n |-> IF i = n THEN StripCopies(s.kids[i], fin, merge)
                                                            ELSE s.kids[i]])
        [] s.op \in {"init", "resource"} -> s
        [] OTHER             -> With(s, [i \in 1 .. n |-> StripCopies(s.kids[i], fin, merge)])

\* A try whose last clause is a catch-all that ends by throwing what it
\* caught gets a finally.
WithFinally(s) ==
  LET cs == Catches(s)
      handler == Body(Last(cs))
      v == CHOOSE w \in TrailingRethrow(handler) : TRUE
      fin == FinallyOf(handler, v)
      others == [i \in 1 .. Len(cs) - 1 |-> With(cs[i], <<StripCopies(Body(cs[i]), fin, << >>), cs[i].kids[2]>>)]
  IN  IF \/ s.op \notin Tries \/ cs = << >> \/ KidsOf(s, {"finally"}) # << >>
         \/ ~IsCatchAll(Last(cs)) \/ TrailingRethrow(handler) = {}
      THEN s
      ELSE TryOf(s, StripCopies(Body(s), fin, << >>), others, <<Node("finally", "", <<Block(fin)>>)>>)

\* For comparing two copies: without the rethrow or return that ends one,
\* and with the variables numbered as they come, after those in seen.
Bears == {"decl", "declset", "set", "use", "capture", "throw", "catch", "sync"}
RECURSIVE Norm(_, _)
Norm(s, seen) ==
  LET bears == s.op \in Bears /\ s.x # ""
      met == IF bears /\ s.x \notin Range(seen) THEN Append(seen, s.x) ELSE seen
      step(acc, k) == LET d == Norm(k, acc.seen) IN [kids |-> Append(acc.kids, d.node), seen |-> d.seen]
      inner == FoldLeft(step, [kids |-> << >>, seen |-> met], s.kids)
      number == CHOOSE i \in DOMAIN met : met[i] = s.x
  IN  [node |-> Node(s.op, IF bears THEN ToString(number) ELSE s.x,
                     IF s.op = "block" THEN TrimEnd(inner.kids, {k \in Range(inner.kids) : k.op \in {"return", "throw"}})
                                       ELSE inner.kids),
       seen |-> inner.seen]

Fin(s) == IF s.op = "try" /\ KidsOf(s, {"finally"}) # << >> THEN Listed(Body(KidsOf(s, {"finally"})[1])) ELSE << >>

\* The copy on the normal way out, after the try, goes as a whole.  The
\* finally is numbered through, the statements after the try one by one.
RECURSIVE DropCopiesAfter(_)
DropCopiesAfter(ks) ==
  LET fin == Fin(ks[1])
      n == Len(fin)
      through == Norm(Node("case", "", fin), << >>).node.kids
      copy == n > 0 /\ Len(ks) > n /\ \A i \in 1 .. n : Norm(ks[1 + i], << >>).node = through[i]
  IN  IF ks = << >> THEN ks
      ELSE <<ks[1]>> \o DropCopiesAfter(SubSeq(ks, IF copy THEN n + 2 ELSE 2, Len(ks)))

\* Copies inside the try that also hold the first statements after it.
Merge(ks) ==
  LET ends(from) == {i \in from .. Len(ks) : ks[i].op \in {"return", "throw"} \/ i - from >= 8}
      after(i) == LET e == ends(i + 1)
                  IN  IF e = {} THEN SubSeq(ks, i + 1, Len(ks))
                      ELSE SubSeq(ks, i + 1, (CHOOSE j \in e : \A k \in e : j <= k) - 1)
      inside(i, k) == IF k.op = "finally" THEN k ELSE StripCopies(k, Fin(ks[i]), after(i))
  IN  [i \in DOMAIN ks |->
         IF Fin(ks[i]) = << >> \/ after(i) = << >> THEN ks[i]
         ELSE With(ks[i], [j \in DOMAIN ks[i].kids |-> inside(i, ks[i].kids[j])])]

RECURSIVE DedupeFinally(_)
DedupeFinally(s) ==
  LET ks == [i \in DOMAIN s.kids |-> DedupeFinally(s.kids[i])]
  IN  IF s.op = "block" THEN With(s, Merge(DropCopiesAfter(ks))) ELSE WithFinally(With(s, ks))

-----------------------------------------------------------------------------
(* The rest of the scaffolding.                                            *)

\* A throw of any Throwable local; the variables of the catch-alls, which
\* the code passes along, are not looked at.
InFlight(s) == s.op = "throw" /\ s.x \in ThrowableVars

RECURSIVE StripInFlight(_)
StripInFlight(s) ==
  LET ks == [i \in DOMAIN s.kids |->
               IF s.op = "if" /\ InFlight(s.kids[i]) THEN Empty ELSE StripInFlight(s.kids[i])]
  IN  With(s, IF s.op = "block" THEN SelectSeq(ks, LAMBDA k : ~InFlight(k)) ELSE ks)

RECURSIVE PruneFinallyRethrows(_)
PruneFinallyRethrows(s) ==
  With(s, [i \in DOMAIN s.kids |->
             PruneFinallyRethrows(IF s.kids[i].op = "finally" THEN StripInFlight(s.kids[i]) ELSE s.kids[i])])

RECURSIVE FixEmptyCatchAll(_)
FixEmptyCatchAll(s) ==
  LET ks == [i \in DOMAIN s.kids |-> FixEmptyCatchAll(s.kids[i])]
  IN  IF s.op = "catch" /\ IsCatchAll(s) /\ IsEmpty(ks[1]) /\ s.x # ""
      THEN With(s, <<Node("throw", s.x, << >>), ks[2]>>)
      ELSE With(s, ks)

\* The clauses are inserted one by one; a clause moves left past the clauses
\* of strict superclasses and stops at the first other one.
InsertCatch(before, c) ==
  LET single(k) == ClassOf(k) \notin {"", "multi"}
      passes(k) == single(c) /\ single(k) /\ ClassOf(c) # ClassOf(k) /\ ClassOf(k) \in Supers[ClassOf(c)]
      stops == {i \in DOMAIN before : ~passes(before[i])}
      at == CHOOSE i \in stops \cup {0} : \A j \in stops : j <= i
  IN  SubSeq(before, 1, at) \o <<c>> \o SubSeq(before, at + 1, Len(before))

RECURSIVE OrderTryCatches(_)
OrderTryCatches(s) ==
  LET ks == [i \in DOMAIN s.kids |-> OrderTryCatches(s.kids[i])]
      t == With(s, ks)
  IN  IF s.op \notin Tries THEN t
      ELSE TryOf(t, Body(t), FoldLeft(InsertCatch, << >>, Catches(t)), KidsOf(t, {"finally"}))

RECURSIVE UnwrapBareTries(_)
UnwrapBareTries(s) ==
  LET t == With(s, [i \in DOMAIN s.kids |-> UnwrapBareTries(s.kids[i])])
      closing == KidsOf(t, {"finally"})
  IN  IF s.op = "try" /\ Catches(t) = << >> /\ (closing = << >> \/ IsEmpty(Body(closing[1]))) THEN Body(t) ELSE t
=============================================================================
