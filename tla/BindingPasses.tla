---------------------------- MODULE BindingPasses ----------------------------
(***************************************************************************)
(* The passes of method.rs that give a catch clause its variable and its  *)
(* name, and the one that drops the stores nobody reads.                   *)
(*                                                                         *)
(* javac stores the caught exception in a slot that may have held, and may *)
(* hold again, another local: a clause gets a variable of its own, and the *)
(* reads of the slot become its reads up to the next store in the slot.    *)
(***************************************************************************)
EXTENDS ScopePasses, TryPasses

CONSTANT CatchVars   \* the variables made for clauses, by id

-----------------------------------------------------------------------------
(* resolve_catch_vars.                                                     *)

\* The first statement of s, in blocks or not, and s without it.
RECURSIVE FirstStmt(_), DropFirstStmt(_)
FirstStmt(s) == IF s.op # "block" THEN {s} ELSE IF IsEmpty(s) THEN {} ELSE FirstStmt(s.kids[1])
DropFirstStmt(s) ==
  LET inner == DropFirstStmt(s.kids[1])
  IN  CASE s.op # "block"           -> Empty
        [] IsEmpty(s)               -> s
        [] s.kids[1].op = "block"   -> With(s, (IF IsEmpty(inner) THEN << >> ELSE <<inner>>) \o Tail(s.kids))
        [] OTHER                    -> With(s, Tail(s.kids))

RECURSIVE Assigns(_, _)
Assigns(s, v) == \/ s.op = "set" /\ s.x = v
                 \/ s.op # "resource" /\ \E i \in DOMAIN s.kids : Assigns(s.kids[i], v)

RECURSIVE RewriteVar(_, _, _)
RewriteVar(s, v, w) == Node(s.op, IF s.op \in Mentions /\ s.x = v THEN w ELSE s.x,
                            [i \in DOMAIN s.kids |-> RewriteVar(s.kids[i], v, w)])

\* v becomes w up to the first statement that stores v, or, where it is a
\* compound one, that holds a store of v.  The value of the store still reads w.
RECURSIVE RewriteUntilAssign(_, _, _)
RewriteUntilAssign(s, v, w) ==
  LET step(acc, k) == LET d == RewriteUntilAssign(k, v, w)
                      IN  IF acc.on THEN [kids |-> Append(acc.kids, d.node), on |-> d.on]
                          ELSE [acc EXCEPT !.kids = Append(@, k)]
      list == FoldLeft(step, [kids |-> << >>, on |-> TRUE], s.kids)
  IN  CASE s.op = "block" -> [node |-> With(s, list.kids), on |-> list.on]
        [] s.op = "set" /\ s.x = v -> [node |-> [RewriteVar(s, v, w) EXCEPT !.x = v], on |-> FALSE]
        [] s.op \in {"decl", "declset"} /\ s.x = v -> [node |-> s, on |-> FALSE]
        [] Assigns(s, v) -> [node |-> s, on |-> FALSE]
        [] OTHER -> [node |-> RewriteVar(s, v, w), on |-> TRUE]

\* The clause c takes the variable its handler stores first for a new one:
\* of the type it catches, and called e where the source has no name.
BindCatch(c, name) ==
  LET stores == {n \in FirstStmt(Body(c)) : n.op \in {"decl", "declset", "set"}}
      v == (CHOOSE n \in stores : TRUE).x
      new == SelectSeq(CatchVars, LAMBDA n : n \notin DOMAIN name /\ (n \in ThrowableVars <=> IsCatchAll(c)))[1]
      body == RewriteUntilAssign(DropFirstStmt(Body(c)), v, new).node
  IN  IF c.x = "" /\ stores # {}
      THEN [node |-> [c EXCEPT !.x = new, !.kids[1] = body],
            name |-> Extend(name, new, IF v \in Synthetic THEN "e" ELSE name[v])]
      ELSE [node |-> c, name |-> name]

RECURSIVE ResolveCatchVars(_, _)
ResolveCatchVars(s, name) ==
  LET own == IF s.op = "catch" THEN BindCatch(s, name) ELSE [node |-> s, name |-> name]
      step(acc, k) == LET d == ResolveCatchVars(k, acc.name)
                      IN  [kids |-> Append(acc.kids, d.node), name |-> d.name]
      list == FoldLeft(step, [kids |-> << >>, name |-> own.name], own.node.kids)
  IN  [node |-> With(own.node, list.kids), name |-> list.name]

-----------------------------------------------------------------------------
(* assign_catch_names.                                                     *)

\* A clause keeps the name of its variable unless a clause around it has it
\* or several variables do; then it gets the first numbered e that is new.
CatchName(c, st) ==
  LET base == IF c.x = "" THEN "ignored" ELSE st.name[c.x]
      e(k) == "e" \o ToString(k)
      free(k) == e(k) \notin st.used \cup st.open
      number == CHOOSE k \in 1 .. 9 : free(k) /\ \A j \in 1 .. k - 1 : ~free(j)
  IN  IF base \in st.open \cup st.shared \cup {"ignored"} THEN e(number) ELSE base

RECURSIVE NameCatches(_, _)
NameCatches(s, st) ==
  LET called == CatchName(s, st)
      entered == IF s.op # "catch" THEN st
                 ELSE [st EXCEPT !.used = @ \cup {called}, !.open = @ \cup {called},
                                 !.name = IF s.x = "" THEN @ ELSE [@ EXCEPT ![s.x] = called]]
      step(acc, k) == NameCatches(k, acc)
  IN  [FoldLeft(step, entered, s.kids) EXCEPT !.open = st.open]

AssignCatchNames(s, name) ==
  LET shared == {n \in Range(name) : Cardinality({v \in DOMAIN name : name[v] = n}) > 1}
  IN  NameCatches(s, [name |-> name, used |-> Range(name), open |-> {}, shared |-> shared]).name

-----------------------------------------------------------------------------
(* prune_dead_synth_stores.                                                *)

ReadVars(s) == {n.x : n \in {m \in Nodes(s) : m.op \in Mentions \ {"decl", "declset", "set"}}}

\* A store without a reader leaves the call it stores; a call inside a
\* larger value goes with it.
Dead(s, read) == s.op \in {"decl", "declset", "set"} /\ s.x \in Synthetic \ (Params \cup read)
Demoted(s) == SelectSeq(s.kids, LAMBDA k : k.op = "act")

RECURSIVE PruneDead(_, _)
PruneDead(s, read) ==
  LET ks == IF s.op \in {"block", "case"}
            THEN FlattenSeq([i \in DOMAIN s.kids |-> IF Dead(s.kids[i], read) THEN Demoted(s.kids[i]) ELSE <<s.kids[i]>>])
            ELSE s.kids
  IN  With(s, [i \in DOMAIN ks |-> PruneDead(ks[i], read)])

PruneDeadSynthStores(s) == PruneDead(s, ReadVars(s))
=============================================================================
