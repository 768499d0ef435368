----------------------------- MODULE ScopePasses -----------------------------
(***************************************************************************)
(* The passes of method.rs that decide where a local variable is declared *)
(* and what it is called: stack temporaries move to the top of the method *)
(* (hoist_stack_vars), repeated declarations become stores (dedupe_        *)
(* declarations), variables never declared get a declaration (ensure_      *)
(* declared), variables used outside their block are declared further out *)
(* (hoist_escaped_vars), and variables that clash get new names            *)
(* (disambiguate_nested_locals).                                           *)
(*                                                                         *)
(* Whether a new declaration is blank or has a default value is not        *)
(* modelled.                                                               *)
(***************************************************************************)
EXTENDS Statements

CONSTANTS VarOrder,     \* the variables of the method, by id
          Params,       \* those that are parameters
          StackVars     \* those the stack simulation made

Used(s) == Range(VarOrder) \cap {n.x : n \in {m \in Nodes(s) : m.op \in Mentions \ {"catch"}}}
Declared(s) == {n.x : n \in {m \in Nodes(s) : m.op \in {"decl", "declset", "foreach", "catch"}}} \ {""}
Mentioned(s) == Used(s) \cup Declared(s)
Resources(s) == {Body(n).x : n \in {m \in Nodes(s) : m.op = "resource"}}

\* Bare declarations of vs in the order of their ids, at the top of s but
\* after a leading call of super or this.
Prepend(s, vs) ==
  LET decls == SelectSeq(VarOrder, LAMBDA v : v \in vs)
      new == [i \in DOMAIN decls |-> Node("decl", decls[i], << >>)]
      lead == IF s.op = "block" /\ ~IsEmpty(s) /\ s.kids[1].op = "ctor" THEN 1 ELSE 0
  IN  IF vs = {} THEN s
      ELSE IF s.op # "block" THEN Block(Append(new, s))
      ELSE With(s, SubSeq(s.kids, 1, lead) \o new \o SubSeq(s.kids, lead + 1, Len(s.kids)))

\* The declarations of vs in s that store become stores, and, where the
\* pass removes them, the bare ones nothing; resources stay declarations.
RECURSIVE Undeclare(_, _, _)
Undeclare(s, vs, bare) ==
  CASE s.op = "declset" /\ s.x \in vs -> Node("set", s.x, << >>)
    [] s.op = "decl" /\ s.x \in vs /\ bare -> Empty
    [] s.op = "resource" -> s
    [] OTHER -> With(s, [i \in DOMAIN s.kids |-> Undeclare(s.kids[i], vs, bare)])

HoistStackVars(s) == Prepend(Undeclare(s, StackVars, FALSE), (StackVars \cap Used(s)) \ Resources(s))

EnsureDeclared(s) == Prepend(s, Used(s) \ (Declared(s) \cup Params))

-----------------------------------------------------------------------------
(* Repeated declarations.  A branch that is not a block is no scope here.  *)

ScopeForms == {"block", "case", "for", "foreach", "catch", "twr"}
Bound(s) == IF s.op \in {"foreach", "catch"} THEN {s.x} \ {""} ELSE {}

\* The new form of s and the variables declared after it.
RECURSIVE Dedupe(_, _)
Dedupe(s, open) ==
  LET step(acc, k) == LET d == Dedupe(k, acc.open)
                      IN  [kids |-> Append(acc.kids, d.node), open |-> d.open]
      inner == FoldLeft(step, [kids |-> << >>, open |-> open \cup Bound(s)], s.kids)
  IN  IF s.op \in {"decl", "declset"}
      THEN [node |-> IF s.x \notin open THEN s
                     ELSE IF s.op = "decl" THEN Empty ELSE Node("set", s.x, << >>),
            open |-> open \cup {s.x}]
      ELSE [node |-> With(s, inner.kids), open |-> IF s.op \in ScopeForms THEN open ELSE inner.open]

DedupeDeclarations(s) == Dedupe(s, {}).node

-----------------------------------------------------------------------------
(* Variables used outside the scope of their declaration.                  *)

Branching == {"if", "while", "do"}

\* One walk in the order of the source: the variables in scope, those
\* declared so far, and those met out of scope though declared.
RECURSIVE EscapeScan(_, _)
EscapeScan(s, st) ==
  LET met == [st EXCEPT !.esc = @ \cup (({s.x} \cap st.ever) \ st.open)]
      entered == IF s.op = "sync" THEN met
                 ELSE [st EXCEPT !.open = @ \cup Bound(s), !.ever = @ \cup Bound(s)]
      step(acc, k) == EscapeScan(k, IF s.op \in Branching THEN [acc EXCEPT !.open = st.open] ELSE acc)
      left == FoldLeft(step, entered, s.kids)
  IN  CASE s.op \in {"decl", "declset"} -> [st EXCEPT !.open = @ \cup {s.x}, !.ever = @ \cup {s.x}]
        [] s.op \in {"set", "use", "capture", "throw", "lock", "unlock"} -> met
        [] OTHER -> [left EXCEPT !.open = IF s.op \in ScopeForms \cup Branching THEN st.open ELSE @]

\* Mutant: one walk only; a declaration further down is not known yet.
EscapedOnce(s) == EscapeScan(s, [open |-> {}, ever |-> {}, esc |-> {}]).esc

\* The second walk knows all declarations from the start.
Escaped(s) ==
  LET first == EscapeScan(s, [open |-> {}, ever |-> {}, esc |-> {}])
  IN  EscapeScan(s, [first EXCEPT !.open = {}]).esc

\* A throw of a variable that a catch of the same try binds.
RECURSIVE StripThrows(_, _)
StripThrows(s, vs) ==
  LET ks == IF s.op = "block" THEN SelectSeq(s.kids, LAMBDA k : ~(k.op = "throw" /\ k.x \in vs)) ELSE s.kids
  IN  IF s.op = "try" THEN With(s, <<StripThrows(Body(s), vs)>> \o Tail(s.kids))
      ELSE IF s.op = "twr" THEN s
      ELSE With(s, [i \in DOMAIN ks |-> StripThrows(ks[i], vs)])

RECURSIVE DropRethrows(_)
DropRethrows(s) ==
  LET bound == {c.x : c \in Range(Catches(s))} \ {""}
      guarded(k) == IF s.op \in Tries /\ k.op \notin {"catch", "finally"} THEN StripThrows(k, bound) ELSE k
  IN  With(s, [i \in DOMAIN s.kids |-> DropRethrows(guarded(s.kids[i]))])

Captured(s) == {n.x : n \in {m \in Nodes(s) : m.op = "capture"}}

\* A step of a path: the kind of statement it leaves and the kid it takes,
\* counted from the body.
Shape(s) == CASE s.op \in Loops \cup {"labeled", "sync"} -> "body"
              [] s.op \in Tries                          -> "try"
              [] OTHER                                   -> s.op
Slot(s, r) == Len(Heads(s)) + r

\* The path to the innermost loop body of s with all mentions of v, where
\* there is one.  The condition of a loop is not looked at.
RECURSIVE LoopBody(_, _)
LoopBody(s, v) ==
  LET within == DOMAIN s.kids \ DOMAIN Heads(s)
      hits == {i \in within : v \in Mentioned(IF s.kids[i].op = "catch" THEN Body(s.kids[i]) ELSE s.kids[i])}
      step(i) == <<[of |-> Shape(s), to |-> i - Len(Heads(s))]>>
      deeper(i) == {step(i) \o p : p \in LoopBody(s.kids[i], v)}
      b == Slot(s, 1)
  IN  CASE s.op \in Loops ->
             IF v \notin Mentioned(Body(s)) THEN {} ELSE IF deeper(b) = {} THEN {step(b)} ELSE deeper(b)
        [] s.op \in {"block", "if", "labeled", "sync", "catch", "finally"} \cup Tries ->
             IF Cardinality(hits) = 1 THEN UNION {deeper(i) : i \in hits} ELSE {}
        [] OTHER -> {}

\* The path is followed in a tree that earlier declarations have changed;
\* where its next step does not fit, the decompiler panics.
Panic == Node("panic", "", << >>)
RECURSIVE DeclareAt(_, _, _)
DeclareAt(s, path, v) ==
  LET d == <<Node("decl", v, << >>)>>
      at == Slot(s, Head(path).to)
  IN  IF path = << >> THEN IF s.op = "block" THEN With(s, d \o s.kids) ELSE Block(Append(d, s))
      ELSE IF Head(path).of # Shape(s) \/ at \notin DOMAIN s.kids THEN Panic
      ELSE [s EXCEPT !.kids[at] = DeclareAt(@, Tail(path), v)]

\* Mutant: HoistEscaped that declares all of them at the top.
HoistEscapedToTop(s) == LET escaped == Escaped(s) IN Prepend(Undeclare(DropRethrows(s), escaped, TRUE), escaped)

HoistEscaped(s) ==
  LET escaped == Escaped(s)
      t == DropRethrows(s)
      looped == SelectSeq(Reverse(VarOrder), LAMBDA v : v \in escaped \cap Captured(t) /\ LoopBody(t, v) # {})
      path(v) == CHOOSE p \in LoopBody(t, v) : TRUE
      declare(u, v) == DeclareAt(u, path(v), v)
  IN  Prepend(FoldLeft(declare, Undeclare(t, escaped, TRUE), looped), escaped \ Range(looped))

-----------------------------------------------------------------------------
(* Names.  name maps a variable to its name in the VarTable.               *)

Extend(f, a, b) == [k \in DOMAIN f \cup {a} |-> IF k = a THEN b ELSE f[k]]

\* A declaration of a variable that an enclosing scope declares becomes the
\* declaration of a new variable of the same name; its uses stay.
SplitForms == ScopeForms \cup {"default"}
RECURSIVE SplitRedecls(_, _, _, _)
SplitRedecls(s, outer, here, name) ==
  LET scope == s.op \in SplitForms
      step(acc, k) ==
        LET d == SplitRedecls(k, IF scope THEN outer \cup here ELSE outer, acc.here, acc.name)
        IN  [kids |-> Append(acc.kids, d.node), here |-> d.here, name |-> d.name]
      inner == FoldLeft(step, [kids |-> << >>, here |-> IF scope THEN Bound(s) ELSE here, name |-> name], s.kids)
      new == s.x \o "_" \o ToString(Cardinality(DOMAIN name))
  IN  IF s.op \notin {"decl", "declset"}
      THEN [node |-> With(s, inner.kids), here |-> IF scope THEN here ELSE inner.here, name |-> inner.name]
      ELSE IF s.x \notin outer THEN [node |-> s, here |-> here \cup {s.x}, name |-> name]
      ELSE [node |-> [s EXCEPT !.x = new], here |-> here \cup {new}, name |-> Extend(name, new, name[s.x])]

\* The declaration of v: a name that another variable in scope has becomes
\* the first numbered one that is free there and was never another's.
Declare(v, st) ==
  LET n == st.name[v]
      free(m) == m \notin DOMAIN st.visible /\ ~(m \in DOMAIN st.used /\ st.used[m] # v)
      number == CHOOSE k \in 1 .. 9 : /\ free(n \o ToString(k))
                                     /\ \A j \in 1 .. k - 1 : ~free(n \o ToString(j))
      called == IF n \in DOMAIN st.visible /\ st.visible[n] # v THEN n \o ToString(number) ELSE n
  IN  [name |-> Extend(st.name, v, called), visible |-> Extend(st.visible, called, v),
       used |-> Extend(st.used, called, v)]

RECURSIVE Disambiguate(_, _)
Disambiguate(s, st) ==
  LET entered == IF s.op = "foreach" \/ (s.op = "catch" /\ s.x \in DOMAIN st.name) THEN Declare(s.x, st) ELSE st
      step(acc, k) == Disambiguate(k, acc)
      left == FoldLeft(step, entered, s.kids)
  IN  IF s.op \in {"decl", "declset"} THEN Declare(s.x, st)
      ELSE [left EXCEPT !.visible = IF s.op \in ScopeForms \ {"twr"} THEN st.visible ELSE @]

\* The tree and the names after both walks.
DisambiguateNested(s, name) ==
  LET split == SplitRedecls(s, {}, {}, name)
      none == [n \in {} |-> ""]
  IN  [node |-> split.node,
       name |-> Disambiguate(split.node, [name |-> split.name, visible |-> none, used |-> none]).name]
=============================================================================
