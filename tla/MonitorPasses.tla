---------------------------- MODULE MonitorPasses ----------------------------
(***************************************************************************)
(* The passes of method.rs over monitors.  javac compiles `synchronized    *)
(* (o) { S }` into                                                         *)
(*                                                                         *)
(*     m = o; monitorenter o;                                              *)
(*     try { S; monitorexit m; } catch-all t { monitorexit m; throw t; }   *)
(*                                                                         *)
(* with a monitorexit on every way out of S.  reconstruct_synchronized     *)
(* turns the pair of statements back, strip_monitors_in_sync removes the   *)
(* exits inside, drop_monitor_stores the store of the lock, and            *)
(* legalize_monitors names a lock that is no variable.                     *)
(***************************************************************************)
EXTENDS ScopePasses

CONSTANTS Values,      \* the locks that are values, not variables
          Discarded    \* the variables made to name them, by id

Has(s, form) == \E n \in Nodes(s) : n.op = form

RECURSIVE Flattened(_)
Flattened(s) == IF s.op # "block" THEN <<s>> ELSE FlattenSeq([i \in DOMAIN s.kids |-> Flattened(s.kids[i])])

-----------------------------------------------------------------------------
(* reconstruct_synchronized.                                               *)

\* The synchronized statement that a monitorenter of lock and the try s
\* after it make, if they do: the try closes with one catch-all, or a
\* finally, that does nothing but exit the monitor and throw again.
MakeSynchronized(lock, s) ==
  LET clauses == Catches(s)
      closing == KidsOf(s, {"finally"})
      only(k) == \A h \in Range(Flattened(Body(k))) : h.op \in {"unlock", "throw", "decl", "declset", "set"}
      exits(k) == \E h \in Range(Flattened(Body(k))) : h.op = "unlock"
      made == /\ s.op = "try" /\ Len(clauses) <= 1 /\ clauses \o closing # << >>
              /\ \A c \in Range(clauses) : IsCatchAll(c)
              /\ \A k \in Range(clauses \o closing) : only(k)
              /\ exits(Last(clauses \o closing))
  IN  IF made THEN {Node("sync", lock, <<Block(SelectSeq(Listed(Body(s)), LAMBDA k : k.op # "unlock"))>>)} ELSE {}

\* The lock of a monitorenter at the end of s, behind plain jumps out of a
\* loop or in the last branch or body, and s without it.
RECURSIVE TakeTrailing(_)
TakeTrailing(s) ==
  LET skips(k) == IsEmpty(k) \/ (k.op \in {"break", "continue"} /\ k.x = "")
      ends == {i \in DOMAIN s.kids : ~skips(s.kids[i]) /\ \A j \in i + 1 .. Len(s.kids) : skips(s.kids[j])}
      at == CHOOSE i \in ends : TRUE
      rest(i) == SelectSeq(SubSeq(s.kids, i + 1, Len(s.kids)), LAMBDA k : ~IsEmpty(k))
      inner(i) == TakeTrailing(s.kids[i])
      within(i) == [node |-> [s EXCEPT !.kids[i] = inner(i).node], lock |-> inner(i).lock]
  IN  CASE s.op = "lock" -> [node |-> Node("lock", "this", << >>), lock |-> {s.x}]
        [] s.op = "block" /\ ends = {} -> [node |-> With(s, rest(0)), lock |-> {}]
        [] s.op = "block" /\ s.kids[at].op = "lock" ->
             [node |-> With(s, SubSeq(s.kids, 1, at - 1) \o rest(at)), lock |-> {s.kids[at].x}]
        [] s.op = "block" ->
             [node |-> With(s, SubSeq(s.kids, 1, at - 1) \o <<inner(at).node>> \o rest(at)), lock |-> inner(at).lock]
        [] s.op = "if" /\ Len(s.kids) = 1 -> within(1)
        [] s.op \in {"while", "do", "labeled", "sync"} -> within(1)
        [] OTHER -> [node |-> s, lock |-> {}]

RestoreTrailing(s, lock) ==
  LET enter == Node("lock", lock, << >>)
  IN  IF s.op = "block" THEN With(s, Append(s.kids, enter)) ELSE Block(<<s, enter>>)

\* A list is walked from the left: each statement is rewritten, then paired
\* with the try behind it, which is rewritten in its turn.
RECURSIVE Reconstruct(_), PairUp(_)
PairUp(ks) ==
  LET first == Reconstruct(ks[1])
      taken == TakeTrailing(first)
      lock == CHOOSE l \in taken.lock : TRUE
      sync(l) == MakeSynchronized(l, ks[2])
      rest == SubSeq(ks, 3, Len(ks))
  IN  CASE ks = << >> -> << >>
        [] Len(ks) = 1 -> <<first>>
        [] ks[2].op # "try" -> <<first>> \o PairUp(Tail(ks))
        [] first.op = "lock" -> IF sync(first.x) = {} THEN <<first>> \o PairUp(Tail(ks))
                                ELSE PairUp(SetToSeq(sync(first.x)) \o rest)
        [] taken.lock = {} -> <<taken.node>> \o PairUp(Tail(ks))
        [] sync(lock) = {} -> <<RestoreTrailing(taken.node, lock)>> \o PairUp(Tail(ks))
        [] OTHER -> <<taken.node>> \o PairUp(SetToSeq(sync(lock)) \o rest)

Reconstruct(s) ==
  LET paired(list) == SelectSeq(PairUp(list), LAMBDA k : ~IsEmpty(k))
  IN  CASE ~Has(s, "lock") -> s
        [] s.op \in {"block", "case"} ->
             With(s, paired(FlattenSeq([i \in DOMAIN s.kids |-> Listed(s.kids[i])])))
        [] OTHER -> With(s, [i \in DOMAIN s.kids |-> Reconstruct(s.kids[i])])

-----------------------------------------------------------------------------
(* strip_monitors_in_sync.                                                 *)

RECURSIVE Strip(_, _)
Strip(s, forms) == IF s.op \in forms THEN Empty
                   ELSE With(s, [i \in DOMAIN s.kids |-> Strip(s.kids[i], forms)])

\* `try { monitorexit } catch-all { monitorexit; throw }`.
EmptySync(s) ==
  LET clauses == Catches(s)
  IN  /\ s.op = "try" /\ Listed(Body(s)) # << >>
      /\ \A k \in Range(Listed(Body(s))) : k.op = "unlock"
      /\ Len(clauses) = 1 /\ KidsOf(s, {"finally"}) = << >>
      /\ IsCatchAll(clauses[1])
      /\ \A h \in Range(Flattened(Body(clauses[1]))) : h.op \in {"unlock", "throw", "decl", "declset"}

\* Enters without an exit and exits without an enter in a subtree go, and so
\* does everything about monitors inside a synchronized statement.
RECURSIVE StripMonitors(_)
StripMonitors(s) ==
  LET t == IF Has(s, "unlock") THEN s ELSE Strip(s, {"lock"})
      u == IF Has(t, "lock") THEN t ELSE Strip(t, {"unlock"})
  IN  CASE u.op = "sync" -> With(u, <<Strip(Body(u), {"lock", "unlock"})>>)
        [] EmptySync(u)  -> Empty
        [] OTHER         -> With(u, [i \in DOMAIN u.kids |-> StripMonitors(u.kids[i])])

-----------------------------------------------------------------------------
(* drop_monitor_stores.                                                    *)

\* s mentions v, as far as stmt_uses_var looks: it does not look into
\* switches, for-each loops, labelled and synchronized statements.
RECURSIVE UsesVar(_, _)
UsesVar(s, v) ==
  \/ s.op \in {"decl", "declset", "set", "use", "throw"} /\ s.x = v
  \/ /\ s.op \in {"block", "if", "while", "do", "for", "init", "catch", "finally"} \cup Tries
     /\ \E i \in DOMAIN s.kids : UsesVar(s.kids[i], v)

\* ks begins with the store of a lock in a variable of javac, the
\* synchronized statement over it is next, and nothing else uses the variable.
StoresLock(ks) ==
  LET v == ks[1].x
  IN  /\ Len(ks) > 1 /\ ks[1].op \in {"set", "declset"} /\ ks[2].op = "sync"
      /\ v \in Synthetic
      /\ ks[2].x = v \/ (v \in DOMAIN LockOf /\ LockOf[v] = ks[2].x)
      /\ ~UsesVar(Body(ks[2]), v)
      /\ \A i \in 3 .. Len(ks) : ~UsesVar(ks[i], v)

RECURSIVE DropMonitorStores(_), DropIn(_)
DropIn(ks) == IF ks = << >> THEN ks
              ELSE IF StoresLock(ks) THEN DropIn(Tail(ks)) ELSE <<DropMonitorStores(ks[1])>> \o DropIn(Tail(ks))
DropMonitorStores(s) ==
  With(s, IF s.op = "block" THEN DropIn(s.kids) ELSE [i \in DOMAIN s.kids |-> DropMonitorStores(s.kids[i])])

-----------------------------------------------------------------------------
(* legalize_monitors.                                                      *)

\* In a block, a lock that is a value gets a variable declared before it;
\* the body of such a synchronized statement is not looked at.
RECURSIVE LegalizeMonitors(_, _)
LegalizeMonitors(s, name) ==
  LET illegal(k) == s.op = "block" /\ k.op \in {"sync", "lock"} /\ k.x \in Values
      step(acc, k) ==
        LET new == SelectSeq(Discarded, LAMBDA v : v \notin DOMAIN acc.name)[1]
            d == LegalizeMonitors(k, acc.name)
        IN  IF illegal(k) THEN [kids |-> acc.kids \o <<Node("declset", new, << >>), [k EXCEPT !.x = new]>>,
                                name |-> Extend(acc.name, new, new)]
            ELSE [kids |-> Append(acc.kids, d.node), name |-> d.name]
      list == FoldLeft(step, [kids |-> << >>, name |-> name], s.kids)
  IN  [node |-> With(s, list.kids), name |-> list.name]
=============================================================================
