---------------------------- MODULE ControlPasses ----------------------------
(***************************************************************************)
(* The passes of method.rs that decide which jumps and which statements   *)
(* stay: which statements cannot complete (stmt_terminates and its         *)
(* variants), what follows them (prune_unreachable), the breaks the        *)
(* structurer leaves behind (prune_dead_breaks, prune_post_loop_label_     *)
(* breaks, demote_undefined_label_jumps), and the clean-up between all     *)
(* passes.  A walk that only descends is a map over the kids of a node.    *)
(***************************************************************************)
EXTENDS Statements

\* The negation of a condition.
Negate == [c |-> "nc", nc |-> "c", d |-> "nd", nd |-> "d"]

-----------------------------------------------------------------------------
(* Which statements cannot complete.                                       *)

\* A break in s may leave the loop around s: labels in bound are inside it,
\* shielded says that plain breaks have a target inside it.
RECURSIVE BreaksEscape(_, _, _)
BreaksEscape(s, bound, shielded) ==
  IF s.op = "break" THEN IF s.x = "" THEN ~shielded ELSE s.x \notin bound
  ELSE \E i \in DOMAIN s.kids :
         BreaksEscape(s.kids[i],
                      IF s.op = "labeled" THEN bound \cup {s.x} ELSE bound,
                      shielded \/ s.op \in Loops \cup {"switch"})

Endless(s) == s.op \in {"while", "do", "for"} /\ s.x = "true" /\ ~BreaksEscape(Body(s), {}, FALSE)

RECURSIVE HasPlainBreak(_)
HasPlainBreak(s) ==
  \/ s.op = "break" /\ s.x = ""
  \/ s.op \in {"block", "if", "sync", "labeled", "try", "catch"}
     /\ \E i \in DOMAIN s.kids : HasPlainBreak(s.kids[i])

\* stmt_terminates_with, with jumps for the opposite of its no_break, and
\* stmt_terminates, which is the same walk but knows try-with-resources.
RECURSIVE Abrupt(_, _, _), SwitchTerminates(_), LastFallsThrough(_), CompletesNormally(_)

Abrupt(s, jumps, resources) ==
  LET all(ks) == \A i \in DOMAIN ks : Abrupt(Body(ks[i]), jumps, resources)
  IN  \/ s.op \in {"return", "throw"}
      \/ s.op \in {"break", "continue"} /\ jumps
      \/ s.op = "block" /\ s.kids # << >> /\ Abrupt(Last(s.kids), jumps, resources)
      \/ s.op = "if" /\ Len(s.kids) = 2 /\ \A i \in 1 .. 2 : Abrupt(s.kids[i], jumps, resources)
      \/ s.op = "switch" /\ SwitchTerminates(s)
      \/ s.op \in {"sync", "labeled"} /\ Abrupt(Body(s), jumps, resources)
      \/ Endless(s)
      \/ s.op \in (IF resources THEN Tries ELSE {"try"}) /\ all(<<s>>) /\ all(Catches(s))

Terminates(s) == Abrupt(s, TRUE, TRUE)
TerminatesWith(s, noBreak) == Abrupt(s, ~noBreak, FALSE)

\* Control falls from s into the next case.
LastFallsThrough(s) ==
  CASE s.op \in Jumps            -> FALSE
    [] s.op = "block"            -> s.kids = << >> \/ LastFallsThrough(Last(s.kids))
    [] s.op = "if"               -> Len(s.kids) = 1 \/ \E i \in 1 .. 2 : LastFallsThrough(s.kids[i])
    [] s.op \in {"while", "do"}  -> ~Endless(s)
    [] s.op \in {"sync", "labeled"} -> LastFallsThrough(Body(s))
    [] s.op = "switch"           -> CompletesNormally(s)
    [] s.op = "try"              -> \E k \in {s} \cup Range(Catches(s)) : LastFallsThrough(Body(k))
    [] OTHER                     -> TRUE

\* A switch of two or more groups completes when one of them does: through
\* a plain break, or by falling into a group that does.
CompletesNormally(s) ==
  LET cases == KidsOf(s, {"case"})
      default == KidsOf(s, {"default"})
      leaves(k) == HasPlainBreak(k) \/ ~TerminatesWith(k, FALSE)
      c[i \in 1 .. Len(cases) + 1] ==
        IF i > Len(cases) THEN default = << >> \/ leaves(Body(default[1]))
        ELSE IF cases[i].kids = << >> THEN c[i + 1]
        ELSE LET l == Last(cases[i].kids)
             IN  HasPlainBreak(l) \/ (~TerminatesWith(l, FALSE) /\ c[i + 1])
  IN  \E i \in DOMAIN c : c[i]

\* Mutant: SwitchTerminates where no case may fall into the next one.
SwitchTerminatesApart(s) ==
  LET cases == KidsOf(s, {"case"})
      default == KidsOf(s, {"default"})
  IN  /\ default # << >>
      /\ TerminatesWith(Body(default[1]), TRUE) /\ ~HasPlainBreak(Body(default[1]))
      /\ \A i \in DOMAIN cases : /\ cases[i].kids # << >>
                                 /\ TerminatesWith(Last(cases[i].kids), TRUE)
                                 /\ \A j \in DOMAIN cases[i].kids : ~HasPlainBreak(cases[i].kids[j])

\* Every case terminates, by itself or through the cases it falls into, and
\* none of them holds a break out of the switch.
SwitchTerminates(s) ==
  LET cases == KidsOf(s, {"case"})
      default == KidsOf(s, {"default"})
      t[i \in 1 .. Len(cases) + 1] ==
        IF i > Len(cases) THEN TRUE
        ELSE LET ks == cases[i].kids
             IN  /\ IF ks = << >> \/ LastFallsThrough(Last(ks)) THEN t[i + 1] ELSE TerminatesWith(Last(ks), TRUE)
                 /\ \A j \in DOMAIN ks : ~HasPlainBreak(ks[j])
  IN  /\ default # << >>
      /\ TerminatesWith(Body(default[1]), TRUE) /\ ~HasPlainBreak(Body(default[1]))
      /\ \A i \in DOMAIN cases : t[i]

\* The statements up to the first that cannot complete.
Truncated(ks) ==
  LET stops == {i \in DOMAIN ks : Terminates(ks[i])}
  IN  IF stops = {} THEN ks ELSE SubSeq(ks, 1, CHOOSE i \in stops : \A j \in stops : i <= j)

\* The statements of a block are pruned before it is cut, those of a case
\* after it.
RECURSIVE PruneUnreachable(_)
PruneUnreachable(s) ==
  LET ks == IF s.op = "case" THEN Truncated(s.kids) ELSE s.kids
      pruned == [i \in DOMAIN ks |-> PruneUnreachable(ks[i])]
  IN  With(s, IF s.op = "block" THEN Truncated(pruned) ELSE pruned)

-----------------------------------------------------------------------------
(* Clean-up.                                                               *)

RECURSIVE Cleanup(_)
Cleanup(s) ==
  LET clean == [i \in DOMAIN s.kids |-> Cleanup(s.kids[i])]
      flat == FlattenSeq([i \in DOMAIN clean |-> IF clean[i].op = "block" THEN clean[i].kids ELSE <<clean[i]>>])
      kept == SelectSeq(flat, LAMBDA k : ~IsEmpty(k))
  IN  CASE s.op = "block" -> IF Len(kept) = 1 /\ kept[1].op = "block" THEN kept[1] ELSE With(s, kept)
        [] s.op = "try" /\ Len(s.kids) = 1 -> Cleanup(Body(s))
        [] OTHER -> With(s, clean)

\* `if (c) {} else E` before a return or throw gets a copy of it as its
\* then-branch.  The code walks a block from the left and does not descend
\* into what it rotates, unless that comes last.
RECURSIVE RotateEmptyThen(_)
RotateEmptyThen(s) ==
  LET n == Len(s.kids)
      rotates(i) == /\ i < n
                    /\ s.kids[i].op = "if" /\ Len(s.kids[i].kids) = 2 /\ IsEmpty(Body(s.kids[i]))
                    /\ s.kids[i + 1].op \in {"return", "throw"}
  IN  With(s, [i \in 1 .. n |->
                 IF s.op = "block" /\ rotates(i)
                 THEN [s.kids[i] EXCEPT !.kids = <<s.kids[i + 1], @[2]>>]
                 ELSE RotateEmptyThen(s.kids[i])])

-----------------------------------------------------------------------------
(* The jumps the structurer leaves behind.                                 *)

\* The plain breaks at the end of a do-while body go.
RECURSIVE PruneDeadBreaks(_)
PruneDeadBreaks(s) ==
  LET isBreak(k) == k.op = "break" /\ k.x = ""
      ks == [i \in DOMAIN s.kids |-> PruneDeadBreaks(s.kids[i])]
      live(b) == {i \in DOMAIN b.kids : ~isBreak(b.kids[i])}
      stripped(b) == IF b.op = "block"
                     THEN With(b, SubSeq(b.kids, 1, CHOOSE i \in live(b) \cup {0} : \A j \in live(b) : j <= i))
                     ELSE IF isBreak(b) THEN Empty ELSE b
  IN  IF s.op = "do" THEN With(s, <<stripped(ks[1])>> \o Tail(ks)) ELSE With(s, ks)

RECURSIVE Single(_)
Single(s) == IF s.op = "block" /\ Len(s.kids) = 1 THEN Single(s.kids[1]) ELSE s

Without(ks, drop) == FlattenSeq([j \in DOMAIN ks |-> IF j \in drop THEN << >> ELSE <<ks[j]>>])

\* A labelled break right after the loop it names goes: `L: do .. while (c);
\* break L;` in a block or a case, and in the body of L itself.
RECURSIVE PrunePostLoop(_)
PrunePostLoop(s) ==
  LET isLoop(k) == Single(k).op \in Loops
      breaks(ks, i, label) ==
        {j \in i + 1 .. Len(ks) : \A m \in i + 1 .. j : Single(ks[m]).op = "break" /\ Single(ks[m]).x = label}
      afterLabeled(ks) == UNION {breaks(ks, i, ks[i].x) :
                                 i \in {k \in DOMAIN ks : ks[k].op = "labeled" /\ isLoop(Body(ks[k]))}}
      afterLoop(ks, label) == UNION {breaks(ks, i, label) : i \in {k \in DOMAIN ks : isLoop(ks[k])}}
      ks == IF s.op \in {"block", "case"} THEN Without(s.kids, afterLabeled(s.kids))
            ELSE IF s.op = "labeled" /\ Body(s).op = "block"
            THEN <<With(Body(s), Without(Body(s).kids, afterLoop(Body(s).kids, s.x)))>>
            ELSE s.kids
  IN  With(s, [i \in DOMAIN ks |-> PrunePostLoop(ks[i])])

Labels(s) == {n.x : n \in {m \in Nodes(s) : m.op = "labeled"}}

\* Mutant: Undefined that forgets the continues.
UndefinedExit(s, defined) == s.op = "goto" \/ (s.op = "break" /\ s.x # "" /\ s.x \notin defined)

Undefined(s, defined) == \/ s.op = "goto"
                         \/ s.op \in {"break", "continue"} /\ s.x # "" /\ s.x \notin defined

\* `if (c) { X } else { break L; }` at the end of a list keeps X alone.
RECURSIVE FoldTailIf(_, _)
FoldTailIf(s, defined) ==
  IF s.op = "block" /\ Len(s.kids) = 1 THEN With(s, <<FoldTailIf(s.kids[1], defined)>>)
  ELSE IF s.op # "if" \/ Len(s.kids) # 2 THEN s
  ELSE LET gone(i) == Undefined(Single(s.kids[i]), defined)
       IN  CASE gone(1) /\ ~gone(2) -> Node("if", Negate[s.x], <<s.kids[2]>>)
             [] gone(2) /\ ~gone(1) -> Node("if", s.x, <<s.kids[1]>>)
             [] OTHER -> s

\* Jumps to labels defined nowhere: the last of a list goes, and so does a
\* plain break or continue there that no loop is around; any other becomes
\* a plain jump where a loop or switch takes it, and nothing elsewhere.
RECURSIVE Demote(_, _, _)
Demote(s, defined, inLoop) ==
  LET within == inLoop \/ s.op \in Loops \cup {"switch"}
      n == Len(s.kids)
      orphan(k) == Undefined(k, defined) \/ (~within /\ k.op \in {"break", "continue"} /\ k.x = "")
      tail == IF orphan(s.kids[n]) THEN << >>
              ELSE <<Demote(FoldTailIf(s.kids[n], defined), defined, within)>>
  IN  IF Undefined(s, defined)
      THEN IF ~inLoop THEN Empty ELSE Node(IF s.op = "continue" THEN "continue" ELSE "break", "", << >>)
      ELSE IF s.op \in {"block", "case"} /\ n > 0
      THEN With(s, [i \in 1 .. n - 1 |-> Demote(s.kids[i], defined, within)] \o tail)
      ELSE With(s, [i \in 1 .. n |-> Demote(s.kids[i], defined, within)])

RECURSIVE StripEmpty(_)
StripEmpty(s) == IF s.op # "block" THEN s
                 ELSE With(s, SelectSeq([i \in DOMAIN s.kids |-> StripEmpty(s.kids[i])], LAMBDA k : ~IsEmpty(k)))

DemoteUndefined(s) == StripEmpty(Demote(s, Labels(s), FALSE))

-----------------------------------------------------------------------------
(* Constructor bodies: the call of super or this must be a statement of    *)
(* the body itself.                                                        *)

\* `if (c) { super(); X; return; } else { throw }` becomes
\* `if (!c) { throw } super(); X`.  The arm for the other polarity looks at
\* the then-branch after it has been moved out of the tree, finds an empty
\* block there, and never applies.
RECURSIVE HoldsCtor(_)
HoldsCtor(s) == s.op = "ctor" \/ (s.op = "block" /\ \E i \in DOMAIN s.kids : HoldsCtor(s.kids[i]))

RotateGuard(s) ==
  LET then == Listed(s.kids[1])
      guard == s.kids[2]
      throws == guard.op = "throw" \/ (guard.op = "block" /\ ~IsEmpty(guard) /\ Last(guard.kids).op = "throw")
      live == {i \in DOMAIN then : then[i].op # "return"}
      kept == SubSeq(then, 1, CHOOSE i \in live : \A j \in live : j <= i)
  IN  IF s.op # "if" \/ Len(s.kids) # 2 THEN s
      ELSE IF then # << >> /\ then[1].op = "ctor" /\ throws /\ ~HoldsCtor(guard)
      THEN Block(<<Node("if", Negate[s.x], <<guard>>)>> \o kept)
      ELSE With(s, <<Block(then), Block(Listed(guard))>>)

RECURSIVE HoistCtorGuards(_)
HoistCtorGuards(s) ==
  IF s.op # "block" THEN RotateGuard(s)
  ELSE With(s, [i \in DOMAIN s.kids |-> HoistCtorGuards(s.kids[i])])
=============================================================================
