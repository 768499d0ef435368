---------------------------- MODULE MethodPasses ----------------------------
(***************************************************************************)
(* decompile_method after the structurer: the body of one method goes     *)
(* through the passes of method.rs in their fixed order.  One action per   *)
(* pass, with the cleanup that follows it; passes over expressions, types, *)
(* asserts and try-with-resources find nothing to do in the bodies here.   *)
(***************************************************************************)
EXTENDS ControlPasses, BindingPasses, MonitorPasses

CONSTANTS Bodies,    \* the bodies the structurer may hand over
          LvtName    \* the name of each variable in the variable table

VARIABLES source,    \* the body handed over
          outcome,   \* history: what it does, if it has a meaning to keep
          body,      \* the body so far
          name,      \* the names so far
          pass       \* the pass that comes next

vars == <<source, outcome, body, name, pass>>

Order == <<"resolve_catch_vars", "cleanup", "reconstruct_synchronized", "dedupe_finally", "prune_finally_rethrows",
           "order_catches", "hoist_stack_vars", "rotate_empty_then", "prune_dead_synth_stores",
           "hoist_ctor_call_guards", "legalize_monitors", "declare", "hoist_escaped_vars", "prune_dead_breaks",
           "prune_post_loop_label_breaks", "demote_undefined_label_jumps", "disambiguate_nested_locals",
           "prune_unreachable", "done">>

-----------------------------------------------------------------------------
(* What a body does.                                                       *)

\* Every constructor calls super or this somewhere; there, to return and to
\* end are the same.
Constructor == \E n \in Nodes(source) : n.op = "ctor"
Outcome(s) == {[r EXCEPT !.how = IF Constructor /\ @ = "return" THEN "end" ELSE @] : r \in Meaning(s)}

\* What the structurer leaves that means nothing: jumps without a target,
\* the break that its rotation of a loop puts at the end of a do-while body,
\* rethrows of a finally other than its last, and handlers emptied of theirs.
Meant(s) ==
  /\ Lost(s) = {}
  /\ \A n \in Nodes(s) : LET b == Listed(Body(n)) IN
       /\ n.op = "do" /\ b # << >> => Last(b) # Node("break", "", << >>)
       /\ n.op = "catch" /\ IsCatchAll(n) => /\ b # << >>
                                             /\ \A i \in 1 .. Len(b) - 1 : Node("throw", n.x, << >>) \notin Nodes(b[i])

-----------------------------------------------------------------------------
Init == /\ source \in Bodies
        /\ outcome = IF Meant(source) THEN Outcome(source) ELSE {}
        /\ body = source
        /\ name = LvtName
        /\ pass = Order[1]

\* The pass p turns the body into t.  A panic ends the class.
Panicked == Panic \in Nodes(body)
Rewrite(p, t) == /\ pass = p /\ ~Panicked
                 /\ body' = t
                 /\ pass' = Order[1 + CHOOSE i \in DOMAIN Order : Order[i] = p]
                 /\ UNCHANGED <<source, outcome>>

BindCatches == LET d == ResolveCatchVars(body, name)
               IN  Rewrite("resolve_catch_vars", d.node) /\ name' = AssignCatchNames(d.node, d.name)
CleanUp == Rewrite("cleanup", Cleanup(body)) /\ UNCHANGED name
RestoreSync == /\ Rewrite("reconstruct_synchronized", Cleanup(DropMonitorStores(StripMonitors(Reconstruct(body)))))
               /\ UNCHANGED name
RestoreFinally == Rewrite("dedupe_finally", Cleanup(DedupeFinally(body))) /\ UNCHANGED name
DropFinallyRethrows == Rewrite("prune_finally_rethrows", Cleanup(PruneFinallyRethrows(body))) /\ UNCHANGED name
RepairCatches == /\ Rewrite("order_catches", Cleanup(UnwrapBareTries(OrderTryCatches(FixEmptyCatchAll(body)))))
                 /\ UNCHANGED name
LiftStackVars == Rewrite("hoist_stack_vars", Cleanup(HoistStackVars(body))) /\ UNCHANGED name
FillEmptyThen == Rewrite("rotate_empty_then", Cleanup(RotateEmptyThen(body))) /\ UNCHANGED name
DropDeadStores == Rewrite("prune_dead_synth_stores", PruneDeadSynthStores(body)) /\ UNCHANGED name
GuardCtorCall == /\ Rewrite("hoist_ctor_call_guards",
                            IF Constructor THEN Cleanup(HoistCtorGuards(body)) ELSE body)
                 /\ UNCHANGED name
NameLocks == LET d == LegalizeMonitors(body, name)
             IN  Rewrite("legalize_monitors", d.node) /\ name' = d.name

\* Cleanup can merge scopes, so repeated declarations are looked for twice.
DeclareAll == /\ Rewrite("declare", DedupeDeclarations(Cleanup(EnsureDeclared(DedupeDeclarations(body)))))
              /\ UNCHANGED name
LiftEscaped == Rewrite("hoist_escaped_vars", Cleanup(HoistEscaped(body))) /\ UNCHANGED name
DropDeadBreaks == Rewrite("prune_dead_breaks", PruneDeadBreaks(body)) /\ UNCHANGED name
DropPostLoopBreaks == Rewrite("prune_post_loop_label_breaks", PrunePostLoop(body)) /\ UNCHANGED name
DemoteJumps == Rewrite("demote_undefined_label_jumps", Cleanup(DemoteUndefined(body))) /\ UNCHANGED name
NameApart == LET d == DisambiguateNested(body, name)
             IN  Rewrite("disambiguate_nested_locals", d.node) /\ name' = d.name
DropUnreachable == Rewrite("prune_unreachable", Cleanup(PruneUnreachable(body))) /\ UNCHANGED name

Next == \/ BindCatches \/ CleanUp \/ RestoreSync \/ RestoreFinally \/ DropFinallyRethrows \/ RepairCatches
        \/ LiftStackVars \/ FillEmptyThen \/ DropDeadStores \/ GuardCtorCall \/ NameLocks \/ DeclareAll
        \/ LiftEscaped \/ DropDeadBreaks \/ DropPostLoopBreaks \/ DemoteJumps \/ NameApart \/ DropUnreachable

Spec == Init /\ [][Next]_vars
Done == pass = "done"

-----------------------------------------------------------------------------
(* What a body must still be.                                              *)

\* After every pass the body still does what the structured body did: the
\* same actions, tests and stores in the same order, every read from the
\* same store, the finally once on every way out.  Bodies with leftovers
\* have no meaning to keep.
MeaningKept == outcome # {} => Outcome(body) = outcome

\* prune_dead_breaks, prune_post_loop_label_breaks and demote_undefined_
\* label_jumps together leave no jump without a target, not even one that an
\* earlier of them made so.
JumpsEnclosed == Done => Lost(body) = {}

\* What stmt_terminates takes for the end of a list is enough for javac: in
\* the finished body no statement is unreachable in the sense of JLS 14.21.
NothingStranded == Done => ~Stranded(body)

\* In the finished body every variable is declared around all its mentions,
\* and no declaration stands in the scope of another variable of its name,
\* after hoisting, merging and renaming by six passes.
ScopesLegal == Done => ScopeFaults(body, Params, name) = {}

\* The variables that a loop of s stores but does not declare, and those
\* mentioned outside all loops.
Carried(s) == UNION {{m.x : m \in {k \in Nodes(Body(n)) : k.op \in {"set", "declset"}}} \ Declared(Body(n))
                     : n \in {l \in Nodes(s) : l.op \in Loops}}
RECURSIVE Loose(_)
Loose(s) == IF s.op \in Loops THEN {} ELSE Used(With(s, << >>)) \cup UNION {Loose(s.kids[i]) : i \in DOMAIN s.kids}

\* hoist_escaped_vars never moves a variable that a lambda captures out of
\* the one loop it lives in: it would be assigned in every round.
CapturesFresh ==
  Done => \A v \in Carried(body) \ (Carried(source) \cup Loose(source)) : Node("capture", v, << >>) \notin Nodes(body)
=============================================================================
