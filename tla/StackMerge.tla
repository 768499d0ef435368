----------------------------- MODULE StackMerge ------------------------------
(***************************************************************************)
(* The front half of decompile_method in crates/decompiler/src/method.rs:  *)
(* the blocks of a method are built one after the other, each from the     *)
(* stack its predecessors leave.  Where they leave different stacks, the   *)
(* merge becomes a conditional expression (a diamond of pure blocks), or   *)
(* the predecessors copy their values into new variables.                  *)
(*                                                                         *)
(* g is the graph of ControlFlow, c the context of Builder.  A build is    *)
(*   results  of each block its statements, the stack it leaves, its term  *)
(*   ins outs  the stack a block was built from, and the one it left:      *)
(*             << >> for none, <<stack>> for one                           *)
(*   cond slots  of a merge its folded stack, or where each of its values  *)
(*             comes from: a new variable, or (var = 0) the value all agree*)
(*             on                                                          *)
(*   regions  the diamonds folded: merge, root and the blocks between      *)
(*   appends  the copies each block ends with                              *)
(***************************************************************************)
EXTENDS Builder

StackName(k) == <<-5, k>>
BlockIds(g) == DOMAIN g.blocks

\* Temporaries stored once and loaded once, by the next instruction.
AccessesIn(g, slot, ops) ==
  {<<b, i>> \in {<<b, i>> \in BlockIds(g) \X (1 .. 64) : i <= Len(g.blocks[b].ins)} :
     LET in == g.blocks[b].ins[i] IN in.op \in ops \cup {Iinc} /\ SlotOf(in) = slot}
Stores == 54 .. 78
Loads == 21 .. 45
FwdSlots(g, m) ==
  {slot \in ParamSlot(m, Len(m.args) + 1) .. m.maxLocals - 1 :
     \E b \in BlockIds(g) : \E i \in DOMAIN g.blocks[b].ins :
       /\ AccessesIn(g, slot, Stores) = {<<b, i>>}
       /\ AccessesIn(g, slot, Loads) = {<<b, i + 1>>}
       /\ g.blocks[b].ins[i].pc + g.blocks[b].ins[i].size = g.blocks[b].ins[i + 1].pc}
FwdPlaces(g, slots, ops) ==
  UNION {{in.pc : in \in {i \in Range(g.blocks[b].ins) : i.op \in ops /\ SlotOf(i) \in slots}} : b \in BlockIds(g)}

-----------------------------------------------------------------------------
(* Orders on the graph (jdc-core).                                         *)

RECURSIVE Visit(_, _, _)
Visit(g, b, r) ==
  IF b \in r.seen THEN r
  ELSE LET below == FoldLeft(LAMBDA q, s : Visit(g, s, q), [r EXCEPT !.seen = @ \cup {b}], g.blocks[b].succ)
       IN  [below EXCEPT !.post = Append(@, b)]
ReversePostorder(g) == Reverse(Visit(g, 1, [seen |-> {}, post |-> << >>]).post)
BuildOrder(g) ==
  LET rpo == ReversePostorder(g) IN rpo \o SelectSeq([b \in BlockIds(g) |-> b], LAMBDA b : ~Contains(rpo, b))

Dominates(g, h, b) == h = b \/ b \notin Visit(g, 1, [seen |-> {h}, post |-> << >>]).seen

-----------------------------------------------------------------------------
(* Diamonds of values.                                                     *)

Assigned(stmts) == {s.n : s \in {s \in Range(stmts) : s.op = "def"}}
                   \cup {s.kids[1].kids[1].n : s \in {s \in Range(stmts) : /\ s.op = "expr" /\ s.kids[1].op = "assign"
                                                                         /\ s.kids[1].kids[1].op = "local"}}
Transparent == {"new", "newarray", "concat", "indy", "cmp", "lambda"}    \* not looked into
RECURSIVE LocalsIn(_)
LocalsIn(e) == IF e.op = "local" THEN {e.n}
               ELSE IF e.op \in Transparent THEN {} ELSE UNION {LocalsIn(k) : k \in Range(e.kids)}

\* The value block x leads to, and the blocks on the way.
RECURSIVE Resolve(_, _, _, _, _, _)
Resolve(g, t, bid, leaf, x, r) ==
  LET term == t.results[x].term
      succ == g.blocks[x].succ
      at == [r EXCEPT !.vis = @ \cup {x}]
      down == [at EXCEPT !.depth = @ + 1]
      onTrue == Resolve(g, t, bid, leaf, succ[2], down)
      onFalse == Resolve(g, t, bid, leaf, succ[1], [onTrue EXCEPT !.depth = down.depth])
      e == CondExpr(term.kids[1], onTrue.val, onFalse.val)
      no == [r EXCEPT !.val = NoExpr]
  IN  IF x \in DOMAIN leaf THEN [at EXCEPT !.val = leaf[x]]
      ELSE IF x \in DOMAIN r.memo THEN [at EXCEPT !.val = r.memo[x]]
      ELSE IF r.depth > 16 \/ x \in r.vis THEN no
      ELSE IF term.op = "cond" /\ Len(succ) = 2
           THEN IF onTrue.val = NoExpr THEN no
                ELSE IF onFalse.val = NoExpr THEN no
                ELSE [onFalse EXCEPT !.val = e, !.memo = (x :> e) @@ @]
      ELSE IF /\ term.op \in {"fall", "goto"} /\ t.results[x].stmts = << >> /\ t.results[x].out = << >>
              /\ Len(succ) = 1 /\ succ # <<bid>>
           THEN Resolve(g, t, bid, leaf, succ[1], down)
      ELSE no

PureInto(g, t, bid, p) == /\ t.results[p].stmts = << >> /\ t.results[p].term.op \notin {"return", "throw"}
                          /\ g.blocks[p].succ # << >> /\ g.blocks[p].succ[1] = bid

\* What every block in a region but its root computes is in the value.
NothingLost(g, t, region, e) ==
  UNION {Assigned(t.results[b].stmts) : b \in region.blocks \ {region.root}} \cap LocalsIn(e) = {}
SingleEntry(g, region) ==
  \A b \in region.blocks \ {region.root, region.merge} : Range(g.blocks[b].pred) \subseteq region.blocks \cup {region.root}

DiamondFold(g, t, bid, known) ==
  LET stacks == [k \in DOMAIN known |-> known[k].stack]
      min == Min({Len(s) : s \in Range(stacks)})
      agree(d) == \A s \in Range(stacks) : s[d] = stacks[1][d]
      prefix == Max({d \in 0 .. min : \A i \in 1 .. d : agree(i)})
      leaves == {k.from : k \in Range(known)}
      leaf == [p \in leaves |-> t.outs[p][1][prefix + 1]]
      try(h) == Resolve(g, t, bid, leaf, h, [vis |-> {}, memo |-> << >>, depth |-> 0, val |-> NoExpr])
      region(h) == [merge |-> bid, root |-> h, blocks |-> try(h).vis]
      folds(h) == /\ t.results[h].term.op = "cond" /\ \A l \in leaves : Dominates(g, h, l)
                  /\ try(h).val # NoExpr
                  /\ SingleEntry(g, region(h)) /\ NothingLost(g, t, region(h), try(h).val) /\ leaves \subseteq try(h).vis
      rpo == ReversePostorder(g)
      k == SelectLastInSeq(rpo, folds)
  IN  IF \/ \E p \in leaves : ~PureInto(g, t, bid, p)
         \/ \E s \in Range(stacks) : Len(s) # prefix + 1
         \/ k = 0
      THEN << >>
      ELSE <<[region |-> region(rpo[k]), stack |-> Append(SubSeq(stacks[1], 1, prefix), try(rpo[k]).val)]>>

-----------------------------------------------------------------------------
(* Variables for merged values.                                            *)

Rank(ty) == CASE ty \in {<<90>>, <<66>>, <<67>>, <<83>>, IntType} -> 1 [] ty = <<74>> -> 2 [] ty = <<70>> -> 3
              [] ty = <<68>> -> 4 [] OTHER -> -1
JoinNumbers(a, b) == IF Rank(a) >= Rank(b) THEN a ELSE b
MergeType(c, sides) ==
  LET values == SelectSeq(sides, LAMBDA e : e # Null)
      tys == [k \in DOMAIN values |-> IF values[k] = This THEN ClassType(c.self) ELSE Erased(values[k].ty)]
  IN  IF tys = << >> THEN ObjectType
      ELSE IF \A ty \in Range(tys) : Rank(ty) >= 1 THEN FoldLeft(JoinNumbers, tys[1], Tail(tys))
      ELSE IF Cardinality(Range(tys)) = 1 THEN tys[1] ELSE ObjectType

\* One slot more: the value all agree on, or a new variable.
AddSlot(c, t, known, bid, d) ==
  LET side(k) == known[k].stack[d]
      sides == [k \in DOMAIN known |-> side(k)]
      var == NewVar(c.maxLocals + 100 + t.count, StackName(t.count), MergeType(c, sides), FALSE, 0, 65535, TRUE)
      v == Len(t.vars) + 1
      copy == [p \in {k.from : k \in Range(known)} |-> Def(v, t.outs[p][1][d])]
  IN  IF Cardinality(Range(sides)) = 1 THEN [t EXCEPT !.slots[bid] = Append(@, [var |-> 0, val |-> side(1)])]
      ELSE [t EXCEPT !.slots[bid] = Append(@, [var |-> v, val |-> NoExpr]), !.vars = Append(@, var), !.count = @ + 1,
                     !.appends = [b \in DOMAIN @ |-> IF b \in DOMAIN copy THEN Append(@[b], copy[b]) ELSE @[b]]]
SlotStack(t, b) ==
  [d \in DOMAIN t.slots[b] |-> LET s == t.slots[b][d] IN IF s.var = 0 THEN s.val ELSE Ex("local", << >>, s.var, t.vars[s.var].ty, << >>)]

-----------------------------------------------------------------------------
(* A block's turn: the stack it starts from, and its build.                *)

HandlerHead(g, b) == \E r \in DOMAIN g.ranges : BlockOf(g.starts, g.ranges[r].handler) = b
KnownStacks(g, t, b) ==
  LET preds == SelectSeq(g.blocks[b].pred, LAMBDA p : t.outs[p] # << >>)
  IN  [k \in DOMAIN preds |-> [from |-> preds[k], stack |-> t.outs[preds[k]][1]]]

\* The copies b itself owes to an earlier merge are dropped.
Slotted(c, t, known, b) ==
  LET depth == Min({Len(k.stack) : k \in Range(known)})
  IN  FoldLeft(LAMBDA u, d : AddSlot(c, u, known, b, d), [t EXCEPT !.merged = @ \cup {b}, !.appends[b] = << >>],
               [d \in 1 .. depth |-> d])
OnSlots(t, b) == [t |-> t, stack |-> SlotStack(t, b)]
Merge(c, t, b, known, fold) ==
  IF fold # << >> THEN [t |-> [t EXCEPT !.cond[b] = <<fold[1].stack>>, !.regions = @ \cup {fold[1].region}], stack |-> fold[1].stack]
  ELSE OnSlots(Slotted(c, t, known, b), b)
Join(g, c, t, b, known) ==
  IF known = << >> THEN [t |-> t, stack |-> << >>]
  ELSE IF \A k \in DOMAIN known : known[k].stack = known[1].stack THEN [t |-> t, stack |-> known[1].stack]
  ELSE Merge(c, t, b, known, DiamondFold(g, t, b, known))
Arrive(g, c, t, b) ==
  CASE b = 1 -> [t |-> t, stack |-> << >>]
    [] b # 1 /\ HandlerHead(g, b) -> [t |-> t, stack |-> <<Null>>]
    [] b # 1 /\ ~HandlerHead(g, b) -> IF t.cond[b] # << >> THEN [t |-> t, stack |-> t.cond[b][1]]
                                     ELSE IF b \in t.merged THEN OnSlots(t, b) ELSE Join(g, c, t, b, KnownStacks(g, t, b))

DefaultReturn(ret) ==
  Term("return", CASE ret = <<86>> -> << >> [] ret = <<74>> -> <<LongC(0)>> [] ret = <<70>> -> <<FloatC(<< >>, 0)>>
                   [] ret = <<68>> -> <<DoubleC(<< >>, 0)>> [] Rank(ret) = 1 -> <<IntC(0)>> [] OTHER -> <<Null>>)

Built(t, b, ret, r) ==
  IF r.err # "" THEN [t EXCEPT !.results[b] = [stmts |-> <<St("error", 0, << >>)>>, out |-> << >>, term |-> DefaultReturn(ret)],
                               !.outs[b] = <<<< >>>>]
  ELSE [t EXCEPT !.results[b] = [stmts |-> r.stmts, out |-> r.stack, term |-> r.term],
                 !.outs[b] = IF r.term.op \in {"return", "throw"} THEN << >> ELSE <<r.stack>>]
BuildFrom(g, c, b, a) ==
  IF a.t.ins[b] = <<a.stack>> THEN a.t
  ELSE Built([a.t EXCEPT !.ins[b] = <<a.stack>>], b, c.ret, BuildBlock([c EXCEPT !.vars = a.t.vars], g.blocks[b].ins, a.stack))
BuildOne(g, c, t, b) == BuildFrom(g, c, b, Arrive(g, c, t, b))

StartBuild(g, c) ==
  LET none == [b \in BlockIds(g) |-> << >>]
  IN  [results |-> [b \in BlockIds(g) |-> [stmts |-> << >>, out |-> << >>, term |-> Term("return", << >>)]],
       ins |-> none, outs |-> none, cond |-> none, slots |-> none, appends |-> none, merged |-> {}, regions |-> {},
       vars |-> c.vars, count |-> 0]

\* Until the stacks are the ones, last, of the round before.
RECURSIVE BuildRounds(_, _, _, _, _)
BuildRounds(g, c, t, last, round) ==
  IF round > 32 \/ t.ins = last THEN t
  ELSE BuildRounds(g, c, FoldLeft(LAMBDA u, b : BuildOne(g, c, u, b), t, BuildOrder(g)), t.ins, round + 1)
WithAppends(t) == [t EXCEPT !.results = [b \in DOMAIN @ |-> [@[b] EXCEPT !.stmts = @ \o t.appends[b]]]]
BuildBlocks(g, c) == WithAppends(BuildRounds(g, c, StartBuild(g, c), << >>, 1))

-----------------------------------------------------------------------------
(* Short circuits: two tests in a row with a common target become one.     *)

RECURSIVE Negated(_)
Negated(e) ==      \* jdc-core
  LET flip == ("eq" :> "ne") @@ ("ne" :> "eq") @@ ("lt" :> "ge") @@ ("ge" :> "lt") @@ ("gt" :> "le") @@ ("le" :> "gt")
              @@ ("refEq" :> "refNe") @@ ("refNe" :> "refEq")
  IN  CASE e.op \in DOMAIN flip -> [e EXCEPT !.op = flip[@]]
        [] e.op = "not" -> e.kids[1]
        [] e.op \in {"and", "or"} -> [e EXCEPT !.op = IF @ = "and" THEN "or" ELSE "and",
                                               !.kids = <<Negated(@[1]), Negated(@[2])>>]
        [] OTHER -> NotOf(e)

TestIns == (2 .. 53) \cup (87 .. 95) \cup (148 .. 152) \cup {178, 190, 193}
RECURSIVE HasAssign(_), MentionsAsserts(_)
HasAssign(e) == \/ e.op \in {"assign", "pre", "post", "index"} \cup Transparent
                \/ \E k \in Range(e.kids) : HasAssign(k)
MentionsAsserts(e) == IF e.op = "field" THEN e.x[2] = Known.assertionsDisabled
                      ELSE e.op \notin {"instanceof", "index"} \cup Transparent /\ \E k \in Range(e.kids) : MentionsAsserts(k)

HandlersOver(g, b) == {g.ranges[r].handler : r \in {r \in DOMAIN g.ranges : /\ g.blocks[b].ins # << >>
                                                                            /\ g.blocks[b].start < g.ranges[r].end
                                                                            /\ g.blocks[b].end > g.ranges[r].start}}
KeepsProtection(g, x, y) ==
  \A h \in HandlersOver(g, y) : h \in HandlersOver(g, x) \/ \E r \in Range(g.ranges) : r.handler = h /\ r.start <= g.blocks[x].start

\* The second test y does nothing but test and is reached only from x.
OnlyTests(g, results, x, y) ==
  LET ins == g.blocks[y].ins
  IN  /\ g.blocks[y].pred = <<x>> /\ g.blocks[y].handlers = {} /\ ins # << >>
      /\ \A s \in Range(results[y].stmts) : s.op = "error"
      /\ \A i \in DOMAIN ins : IF i = Len(ins) THEN ins[i].op \in Ifs ELSE ins[i].op \in TestIns
PureTest(g, results, x) ==
  /\ \A in \in Range(g.blocks[x].ins) : in.op \in TestIns \cup (153 .. 166)
  /\ \A s \in Range(results[x].stmts) : s.op = "error"

\* The fold of the tests x and y, or << >>: what joins them, where control
\* goes when they hold, and otherwise.
TwoTests(g, results, diamonds, x) ==
  LET succ == g.blocks[x].succ
      y == succ[1]
      taken == succ[2]
      yf == g.blocks[y].succ[1]
      yt == g.blocks[y].succ[2]
      shape == IF yt = taken /\ yf # taken THEN <<[op |-> "or", taken |-> taken, other |-> yf]>>
               ELSE IF yf = taken /\ yt # taken THEN <<[op |-> "and", taken |-> yt, other |-> taken]>> ELSE << >>
      isTest(b) == results[b].term.op = "cond" /\ Len(g.blocks[b].succ) = 2 /\ b \notin diamonds
      plain(b) == ~HasAssign(results[b].term.kids[1]) /\ ~MentionsAsserts(results[b].term.kids[1])
      loops(z) == z = x \/ x \in Range(g.blocks[z].succ)
  IN  IF ~isTest(x) THEN << >> ELSE IF y = x \/ ~isTest(y) THEN << >>
      ELSE IF ~OnlyTests(g, results, x, y) \/ ~KeepsProtection(g, x, y) \/ shape = << >> THEN << >>
      ELSE IF loops(shape[1].other) \/ ~plain(x) \/ ~plain(y) \/ PureTest(g, results, x) THEN << >>
      ELSE shape

FoldTests(s, diamonds, x) ==
  LET g == s.g
      shape == TwoTests(g, s.results, diamonds, x)
      fold == shape[1]
      y == g.blocks[x].succ[1]
      cx == s.results[x].term.kids[1]
      cond == Bin(fold.op, IF fold.op = "and" THEN Negated(cx) ELSE cx, s.results[y].term.kids[1], BoolType)
      targets == {fold.other, fold.taken, g.blocks[x].succ[2]}
      Repoint(pred) == LET k == SelectInSeq(pred, LAMBDA p : p = y) IN IF k = 0 THEN pred ELSE [pred EXCEPT ![k] = x]
      blocks == [b \in DOMAIN g.blocks |->
                   IF b = x THEN [g.blocks[b] EXCEPT !.succ = <<fold.other, fold.taken>>,
                                                     !.ins[Len(g.blocks[b].ins)] = [@ EXCEPT !.a = g.blocks[fold.taken].start]]
                   ELSE IF b = y THEN [g.blocks[b] EXCEPT !.ins = << >>, !.succ = << >>, !.pred = << >>]
                   ELSE IF b \in targets THEN [g.blocks[b] EXCEPT !.pred = Repoint(@)] ELSE g.blocks[b]]
  IN  IF shape = << >> THEN s
      ELSE [g |-> [g EXCEPT !.blocks = blocks],
            results |-> [s.results EXCEPT ![x].term = Term("cond", <<cond>>),
                                          ![y] = [stmts |-> << >>, out |-> << >>, term |-> Fall]]]

\* Blocks stand in their places' order.
FoldRound(s, diamonds) ==
  LET order == SelectSeq([b \in DOMAIN s.g.blocks |-> b], LAMBDA b : s.g.blocks[b].ins # << >>)
  IN  FoldLeft(LAMBDA u, x : FoldTests(u, diamonds, x), s, order)
RECURSIVE FoldRounds(_, _, _, _)
FoldRounds(s, last, diamonds, round) ==
  IF round > 64 \/ s = last THEN s ELSE FoldRounds(FoldRound(s, diamonds), s, diamonds, round + 1)
ShortCircuitPrefold(g, results, regions) ==
  FoldRounds([g |-> g, results |-> results], << >>, UNION {{r.merge, r.root} \cup r.blocks : r \in regions}, 1)
=============================================================================
