----------------------------- MODULE Statements -----------------------------
(***************************************************************************)
(* The statement trees the method passes rewrite, and what a tree means.  *)
(*                                                                         *)
(* A statement is a node [op, x, kids].  x is the label of a jump or of a *)
(* labelled statement, the condition of a test, the variable of a          *)
(* declaration, a store, a read or a catch clause, the lock of a monitor   *)
(* instruction or synchronized statement, the class of a `types` node, and *)
(* "" where there is none.  The branches, bodies, cases, clauses and       *)
(* resources of a statement are its kids, in the order of the source, so a *)
(* pass that only descends is a map over kids.                             *)
(*                                                                         *)
(*   if        then, or then and else     switch   case*, default?         *)
(*   while, foreach   body                for      init*, body             *)
(*   do        body, and what its         try      body, catch*, finally?  *)
(*             condition reads, if so     twr      resource*, then as try  *)
(*   catch     body, types                labeled, sync, finally, default, *)
(*   set       the call it stores, if any init and resource: one body      *)
(*                                                                         *)
(* A catch clause without a variable, as the structurer leaves it, begins  *)
(* with the store of what it caught.                                       *)
(*                                                                         *)
(* A case holds its statements directly (the code keeps a Vec there), all  *)
(* other bodies are one statement, most often a block.                     *)
(*                                                                         *)
(* Runs, Ways, Stranded, LostJumps and ScopeFaults say what Java makes of  *)
(* a tree; they are the reference the passes are compared with and read    *)
(* nothing of their code.                                                  *)
(***************************************************************************)
EXTENDS Naturals, Sequences, FiniteSets, SequencesExt

CONSTANTS Unroll,      \* how many rounds of a loop Runs follows
          Synthetic,   \* the variables without an entry in the variable table
          LockOf       \* the lock that a variable made for a monitor keeps

Node(o, v, ks) == [op |-> o, x |-> v, kids |-> ks]
Block(ks) == Node("block", "", ks)
Empty == Block(<< >>)
IsEmpty(s) == s.op = "block" /\ s.kids = << >>

Loops == {"while", "do", "for", "foreach"}
Jumps == {"return", "throw", "break", "continue"}
Tries == {"try", "twr"}

\* The kids of s with one of the given forms, in order.
KidsOf(s, forms) == SelectSeq(s.kids, LAMBDA k : k.op \in forms)
Heads(s) == KidsOf(s, {"init", "resource"})
Body(s) == s.kids[Len(Heads(s)) + 1]
Catches(s) == KidsOf(s, {"catch"})
ClassOf(c) == c.kids[2].x
IsCatchAll(c) == ClassOf(c) = ""
With(s, ks) == [s EXCEPT !.kids = ks]
Listed(s) == IF s.op = "block" THEN s.kids ELSE <<s>>

\* The forms whose x may be a variable.
Mentions == {"decl", "declset", "set", "use", "capture", "foreach", "throw", "lock", "unlock", "sync", "catch"}

\* All nodes of a tree.
RECURSIVE Nodes(_)
Nodes(s) == {s} \cup UNION {Nodes(s.kids[i]) : i \in DOMAIN s.kids}

-----------------------------------------------------------------------------
(* What a tree does: the set of its runs.  A run is the sequence of the    *)
(* actions, tests, stores and reads it performs and how it ends: "end" for *)
(* falling out at the bottom, a jump with its label, or "cut" when a loop  *)
(* is left at the bound Unroll.  Each action may throw.                    *)

Run(events, end, label) == [ev |-> events, how |-> end, at |-> label]
Falls(r) == r.how = "end"

\* The test of condition c, with both its outcomes ("next" for the test of a
\* foreach); the condition "true" is not tested.  A negated condition tests the same value.
Plain == [c |-> "c", d |-> "d", nc |-> "c", nd |-> "d", next |-> "next"]
Negated == {"nc", "nd"}
Test(c) == IF c = "true" THEN {[ev |-> << >>, holds |-> TRUE]}
           ELSE {[ev |-> <<<<Plain[c], b>>>>, holds |-> b # (c \in Negated)] : b \in BOOLEAN}

After(r, rs) == {[q EXCEPT !.ev = r.ev \o @] : q \in rs}
Then(rs, next) == UNION {IF Falls(r) THEN After(r, next) ELSE {r} : r \in rs}

\* A monitor is left on every way out of its body.
Locked(rs, lock) == {[r EXCEPT !.ev = <<<<"lock", lock>>>> \o @ \o
                                      (IF r.how = "cut" THEN << >> ELSE <<<<"unlock", lock>>>>)] : r \in rs}

\* The first store of a handler whose clause has no variable binds the exception.
Binding(r) == IF r.ev # << >> /\ r.ev[1][1] = "set" THEN [r EXCEPT !.ev[1] = <<"bind", @[2]>>] ELSE r

\* A break to a label in ls, or a plain one, ends here.
Broken(rs, ls) == {IF r.how = "break" /\ r.at \in ls THEN [r EXCEPT !.how = "end", !.at = ""] ELSE r
                   : r \in rs}

RECURSIVE Runs(_, _), InOrder(_, _), Rounds(_, _, _)

\* The labels ls name the first statement: a label is printed in front of
\* the first line of its body, braces or not.
InOrder(ks, ls) == IF ks = << >> THEN {Run(<< >>, "end", "")}
                   ELSE Then(Runs(Head(ks), ls), InOrder(Tail(ks), {}))

\* n more rounds of a loop whose body has the runs rs.
Rounds(s, rs, n) ==
  LET again == IF n = 0 THEN {Run(<< >>, "cut", "")} ELSE Rounds(s, rs, n - 1)
      test == Test(IF s.op = "foreach" THEN "next" ELSE s.x)
      tested(more) == UNION {IF t.holds THEN After(t, more) ELSE {Run(t.ev, "end", "")} : t \in test}
  IN  IF s.op = "do" THEN Then(Then(rs, InOrder(Tail(s.kids), {})), tested(again)) ELSE tested(Then(rs, again))

\* The runs of s, which the labels in ls name.
Runs(s, ls) ==
  LET own == ls \cup {""}
      looped(rs) == {IF r.how = "continue" /\ r.at \in own THEN [r EXCEPT !.how = "end", !.at = ""] ELSE r
                     : r \in rs}
      cases == s.kids
      caught == Catches(s)
      handling(c) == IF c.x = "" THEN {Binding(r) : r \in Runs(Body(c), {})}
                     ELSE After([ev |-> <<<<"bind", c.x>>>>], Runs(Body(c), {}))
      handled(r) == IF r.how # "throw" THEN {r}
                    ELSE UNION {After(r, handling(caught[i])) : i \in DOMAIN caught}
                         \cup {q \in {r} : \A i \in DOMAIN caught : ~IsCatchAll(caught[i])}
      closing == KidsOf(s, {"finally"})
      last(r) == IF closing = << >> THEN {r}
                 ELSE {IF Falls(f) THEN [r EXCEPT !.ev = @ \o f.ev] ELSE [f EXCEPT !.ev = r.ev \o @]
                       : f \in Runs(Body(closing[1]), {})}
      guarded == InOrder(Heads(s) \o <<Body(s)>>, {})
  IN  CASE s.op = "block"  -> InOrder(s.kids, ls)
        [] s.op = "act"    -> {Run(<<<<s.x>>>>, "end", ""), Run(<<<<s.x>>>>, "throw", "")}
        [] s.op = "ctor"   -> {Run(<<<<"ctor">>>>, "end", "")}
        [] s.op \in {"set", "declset", "use", "capture"} ->
             Then(InOrder(s.kids, {}), {Run(<<<<IF s.op = "declset" THEN "set" ELSE s.op, s.x>>>>, "end", "")})
        [] s.op \in {"lock", "unlock"} -> {Run(<<<<s.op, s.x>>>>, "end", "")}
        [] s.op = "sync"   -> Locked(Runs(Body(s), {}), s.x)
        [] s.op \in Jumps  -> {Run(<< >>, s.op, IF s.op \in {"break", "continue"} THEN s.x ELSE "")}
        [] s.op = "if"     -> UNION {After(t, IF t.holds THEN Runs(s.kids[1], {})
                                              ELSE IF Len(s.kids) = 2 THEN Runs(s.kids[2], {})
                                              ELSE {Run(<< >>, "end", "")}) : t \in Test(s.x)}
        [] s.op \in Loops  -> Broken(Then(InOrder(Heads(s), {}),
                                          Rounds(s, looped(Runs(Body(s), {})), Unroll)), own)
        [] s.op = "labeled" -> Broken(Runs(Body(s), ls \cup {s.x}), {s.x})
        [] s.op = "switch" ->
             LET from(i) == InOrder(FlattenSeq([j \in 1 .. Len(cases) + 1 - i |-> cases[i + j - 1].kids]), {})
             IN  Broken(UNION {After([ev |-> <<<<s.x, i>>>>], from(i)) : i \in DOMAIN cases}
                        \cup {Run(<<<<s.x, "none">>>>, "end", "") :
                              i \in {0} \cap {Len(KidsOf(s, {"default"}))}}, {""})
        [] s.op \in Tries  -> UNION {last(r) : r \in UNION {handled(q) : q \in guarded}}
        [] s.op \in {"init", "resource"} -> Runs(Body(s), {})
        [] OTHER           -> {Run(<< >>, "end", "")}

-----------------------------------------------------------------------------
(* What javac accepts: JLS 14.21 on statements that cannot be reached, the *)
(* targets of jumps, and the scopes of local variables.                    *)

\* The ways s can complete in the sense of JLS 14.21: "end" for completing
\* normally, or a reachable jump with its label.
RECURSIVE Ways(_, _), WaysInOrder(_, _)

WaysInOrder(ks, ls) ==
  IF ks = << >> THEN {<<"end", "">>}
  ELSE LET first == Ways(Head(ks), ls)
       IN  IF <<"end", "">> \in first THEN (first \ {<<"end", "">>}) \cup WaysInOrder(Tail(ks), {}) ELSE first

Ways(s, ls) ==
  LET end == <<"end", "">>
      own == ls \cup {""}
      leave(ws, labels) == {IF w[1] = "break" /\ w[2] \in labels THEN end ELSE w : w \in ws}
      body == Ways(Body(s), {})
      goesOn == end \in body \/ \E l \in own : <<"continue", l>> \in body
      tried == UNION {Ways(Body(k), {}) : k \in {s} \cup Range(Catches(s))}
      closing == KidsOf(s, {"finally"})
      finally == IF closing = << >> THEN {end} ELSE Ways(Body(closing[1]), {})
  IN  CASE s.op = "block"  -> WaysInOrder(s.kids, ls)
        [] s.op \in {"return", "throw"} -> {<<"leave", "">>}
        [] s.op \in {"break", "continue"} -> {<<s.op, s.x>>}
        [] s.op = "if"     -> UNION {Ways(s.kids[i], {}) : i \in DOMAIN s.kids}
                              \cup (IF Len(s.kids) = 1 THEN {end} ELSE {})
        [] s.op \in Loops  -> leave((body \ ({end} \cup {<<"continue", l>> : l \in own}))
                                    \cup (IF s.x # "true" /\ (s.op # "do" \/ goesOn) THEN {end} ELSE {}), own)
        [] s.op = "labeled" -> leave(Ways(Body(s), ls \cup {s.x}), {s.x})
        [] s.op = "switch" ->
             LET from(i) == WaysInOrder(s.kids[i].kids, {})
             IN  leave(UNION {from(i) \ {end} : i \in DOMAIN s.kids}
                       \cup (IF KidsOf(s, {"default"}) = << >> THEN {end} ELSE from(Len(s.kids)) \cap {end}), {""})
        [] s.op \in Tries  -> IF end \in finally THEN tried \cup (finally \ {end}) ELSE finally
        [] s.op = "sync"   -> body
        [] OTHER           -> {end}

Completes(s) == <<"end", "">> \in Ways(s, {})

\* Some statement of s stands where control never comes.
Stranded(s) == \E b \in Nodes(s) : /\ b.op \in {"block", "case"}
                                   /\ \E i \in 1 .. Len(b.kids) - 1 : ~Completes(b.kids[i])

\* The jumps of s that find no target: names are the labels around s, loops
\* those of them on loops, and brk and cont say whether a plain break and a
\* plain continue have a target.  Of a block a label names the first line.
RECURSIVE LostJumps(_, _)
LostJumps(s, env) ==
  LET block == s.op = "labeled" /\ Body(s).op = "block" /\ ~IsEmpty(Body(s))
      parts == IF block THEN Body(s).kids ELSE s.kids
      named == parts[1]
      inner(i) ==
        CASE s.op \in Loops    -> [env EXCEPT !.brk = TRUE, !.cont = TRUE]
          [] s.op = "switch"   -> [env EXCEPT !.brk = TRUE]
          [] s.op = "labeled" /\ i = 1 -> [env EXCEPT !.names = @ \cup {s.x},
                                           !.loops = IF named.op \in Loops THEN @ \cup {s.x} ELSE @]
          [] OTHER             -> env
      lost == \/ s.op = "goto"
              \/ s.op = "break" /\ (IF s.x = "" THEN ~env.brk ELSE s.x \notin env.names)
              \/ s.op = "continue" /\ (IF s.x = "" THEN ~env.cont ELSE s.x \notin env.loops)
  IN  {j \in {s} : lost} \cup UNION {LostJumps(parts[i], inner(i)) : i \in DOMAIN parts}
Lost(s) == LostJumps(s, [names |-> {}, loops |-> {}, brk |-> FALSE, cont |-> FALSE])

\* The variables of s that javac rejects when it reads v as name[v]: read
\* or stored outside the scope of their declaration, or declared where a
\* variable of their name is in scope.  With them, the variables in scope
\* after s.
RECURSIVE Scoped(_, _, _), ScopedInOrder(_, _, _)

ScopedInOrder(ks, open, name) ==
  IF ks = << >> THEN [bad |-> {}, open |-> open]
  ELSE LET first == Scoped(Head(ks), open, name)
           rest == ScopedInOrder(Tail(ks), first.open, name)
       IN  [rest EXCEPT !.bad = @ \cup first.bad]

Scoped(s, open, name) ==
  LET clash == {v \in {s.x} \ {""} : \E w \in open : name[w] = name[v]}
      among(ks, more) == ScopedInOrder(ks, open \cup more, name)
      alone(ks) == UNION {among(<<ks[i]>>, {}).bad : i \in DOMAIN ks}
      closed(bad) == [bad |-> bad, open |-> open]
      unknown == ({s.x} \cap DOMAIN name) \ open
  IN  CASE s.op \in {"decl", "declset"}  -> [bad |-> clash, open |-> open \cup {s.x}]
        [] s.op \in {"set", "use", "capture", "throw", "lock", "unlock"} -> closed(unknown)
        [] s.op = "sync" -> closed(unknown \cup alone(s.kids))
        [] s.op \in {"init", "resource"} -> among(s.kids, {})
        [] s.op \in {"block", "case", "for"} -> closed(among(s.kids, {}).bad)
        [] s.op \in {"foreach", "catch"} -> closed(clash \cup among(<<Body(s)>>, {s.x}).bad)
        [] s.op = "twr" -> closed(among(Heads(s) \o <<Body(s)>>, {}).bad \cup alone(KidsOf(s, {"catch", "finally"})))
        [] OTHER -> closed(alone(s.kids))
ScopeFaults(s, open, name) == Scoped(s, open, name).bad

\* A run with its variables gone: a read sees the place of the store it
\* reads from, a monitor the lock.  To catch an exception, and to store in a
\* variable the source does not name, is to do nothing.
FlowStep(acc, e) ==
  LET place == 2 * Len(acc.ev)
      kept(f) == [acc EXCEPT !.ev = Append(@, f)]
      stored(n, now) == [now EXCEPT !.at = (e[2] :> n) @@ @]
      known == e[2] \in DOMAIN acc.at
  IN  CASE e[1] = "bind" \/ (e[1] = "set" /\ e[2] \in Synthetic) -> stored(place + 1, acc)
        [] e[1] = "set" -> stored(place + 2, kept(<<"set">>))
        [] e[1] \in {"use", "capture"} -> kept(<<e[1], IF known THEN acc.at[e[2]] ELSE 0>>)
        [] e[1] \in {"lock", "unlock"} ->
             kept(<<e[1], IF e[2] \notin DOMAIN LockOf THEN e[2] ELSE IF known THEN LockOf[e[2]] ELSE "unset">>)
        [] OTHER -> kept(e)
Flow(r) == [r EXCEPT !.ev = FoldLeft(FlowStep, [ev |-> << >>, at |-> << >>], @).ev]
Meaning(s) == {Flow(r) : r \in Runs(s, {})}
=============================================================================
