------------------------------- MODULE Builder -------------------------------
(***************************************************************************)
(* crates/decompiler/src/builder.rs: the instructions of a basic block     *)
(* become statements, by running them on a stack of expressions.           *)
(*                                                                         *)
(* c is what the builder knows of the method: its constants pool and their *)
(* places pos, its class self and the class's methods (<<flags, name,      *)
(* descriptor, names of the parameters in the debug table by slot>>), boots*)
(* (<<handle, arguments>>), the variables vars, hasLvt, static, the places *)
(* fwdStores and fwdLoads of forwarded temporaries, and of other classes   *)
(* what the class pool says: varargs and generic methods, signatures of    *)
(* fields <<class, name, signature>> and the synthetic classes.            *)
(*                                                                         *)
(* b is the state of a build: the next instruction i, the stack, the       *)
(* statements, the terminator, the marks of stack places whose value has   *)
(* been duplicated, the variables declared, the pending temporaries and    *)
(* what went wrong.                                                        *)
(***************************************************************************)
EXTENDS Expressions

Term(op, kids) == [op |-> op, kids |-> kids, default |-> 0, cases |-> << >>]
Fall == Term("fall", << >>)
Start(stack) == [i |-> 1, stack |-> stack, stmts |-> << >>, term |-> Fall, marks |-> {}, declared |-> {}, pending |-> << >>,
                 err |-> ""]

Height(b) == Len(b.stack)
Top(b, k) == b.stack[Height(b) - k + 1]                       \* the k-th from the top
Args(b, k) == SubSeq(b.stack, Height(b) - k + 1, Height(b))    \* the last k, bottom first
Push(b, e) == [b EXCEPT !.stack = Append(@, e)]
Fail(b, why) == [b EXCEPT !.err = why]
\* Taking k values clears the marks at their places.
Drop(b, k) == [b EXCEPT !.stack = SubSeq(@, 1, Len(@) - k), !.marks = {d \in @ : d <= Height(b) - k}]
Replace(b, k, e) == Push(Drop(b, k), e)
Emit(b, s) == [b EXCEPT !.stmts = Append(@, s)]
End(b, t) == [b EXCEPT !.term = t]

Local(c, v) == Ex("local", << >>, v, c.vars[v].ty, << >>)

-----------------------------------------------------------------------------
(* Constants, loads and stores.                                            *)

Constant(in) == CASE in.op = 1 -> Null [] in.op \in 2 .. 8 -> IntC(in.op - 3) [] in.op \in {9, 10} -> LongC(in.op - 9)
                  [] in.op \in 11 .. 13 -> FloatC(<< >>, in.op - 11) [] in.op \in {14, 15} -> DoubleC(<< >>, in.op - 14)
                  [] OTHER -> IntC(in.a)

LoadConstant(c, in) ==
  LET e == GetEntry(c.pool, in.a)
      wide == in.op = 20
  IN  CASE e[1] = "Integer" /\ ~wide -> IntC(Signed(e[2], 1))
        [] e[1] = "Float" /\ ~wide -> FloatC(<<e[2]>>, 0)
        [] e[1] = "String" /\ ~wide -> Ex("str", <<Utf8(Lookup(c.pos, c.pool, e[2]))>>, 0, StringType, << >>)
        [] e[1] = "Class" /\ ~wide -> Ex("class", <<ClassName(c.pos, c.pool, in.a)>>, 0, ClassType(Known.Class), << >>)
        [] e[1] = "Dynamic" /\ ~wide -> Null
        [] e[1] = "Long" /\ wide -> LongC(Signed(e[2], 5))        \* no long here needs its upper half
        [] e[1] = "Double" /\ wide -> DoubleC(<<e[2]>>, 0)
        [] OTHER -> NoExpr

Load(c, b, in) ==
  LET slot == SlotOf(in)
      v == VarAt(c.vars, slot, in.pc)
      k == SelectInSeq(b.pending, LAMBDA p : p.slot = slot)
  IN  IF in.pc \in c.fwdLoads /\ k # 0 THEN [Push(b, b.pending[k].val) EXCEPT !.pending = RemoveAt(@, k)]
      ELSE IF v = 0 THEN Fail(b, "no variable")
      ELSE Push(b, IF ~c.static /\ slot = 0 /\ c.vars[v].name = ThisName THEN This ELSE Local(c, v))

\* The conditional jump that is next but for constants: 0 if something else is.
RECURSIVE CondAhead(_, _)
CondAhead(ins, i) == IF i > Len(ins) THEN 0 ELSE IF ins[i].op \in 1 .. 17 THEN CondAhead(ins, i + 1) ELSE ins[i].op

RECURSIVE Inert(_)
Inert(e) == e.op \in {"local", "this", "instanceof"} \cup (Constants \ {"null"}) \/ (e.op = "cast" /\ Inert(e.kids[1]))

\* A store is to the variable right after it, or else the one at it.
StoredVar(c, in) ==
  LET after == VarAt(c.vars, SlotOf(in), in.pc + in.size) IN IF after # 0 THEN after ELSE VarAt(c.vars, SlotOf(in), in.pc)
DeclaredHere(c, b, in, v) ==
  /\ ~c.vars[v].param /\ v \notin b.declared
  /\ c.vars[v].start \in {in.pc, in.pc + in.size} \/ c.vars[v].synth \/ ~c.hasLvt
Store(c, b, in, val) ==
  LET slot == SlotOf(in)
      v == StoredVar(c, in)
      b1 == IF v # 0 /\ ~c.vars[IF v = 0 THEN 1 ELSE v].param THEN [b EXCEPT !.declared = @ \cup {v}] ELSE b
  IN  IF ~c.static /\ slot = 0 /\ val.op = "this" THEN b
      ELSE IF in.pc \in c.fwdStores /\ Inert(val)
           THEN [b EXCEPT !.pending = Append(SelectSeq(@, LAMBDA p : p.slot # slot), [slot |-> slot, val |-> val])]
      ELSE IF v = 0 THEN Fail(b, "no variable")
      ELSE Emit(b1, IF DeclaredHere(c, b, in, v) THEN Def(v, val) ELSE ExprSt(Assign(Local(c, v), val)))

\* The store of a value that is still on the stack.
LocalizesCondition(c, ins, b, v) == CondAhead(ins, b.i) \in Ifs /\ ~c.vars[v].param
StoreStep(c, ins, b, in) ==
  LET val == Top(b, 1)
      rest == Drop(b, 1)
      marked == Height(rest) \in rest.marks
      unmarked == [rest EXCEPT !.marks = @ \ {Height(rest)}]
      v == StoredVar(c, in)
  IN  IF in.op \in {58} \cup (75 .. 78) /\ b.i <= Len(ins) /\ ins[IF b.i <= Len(ins) THEN b.i ELSE 1].op = 194 THEN rest
      ELSE IF ~marked \/ v = 0 THEN Store(c, unmarked, in, val)
      ELSE IF LocalizesCondition(c, ins, b, v) THEN Store(c, [unmarked EXCEPT !.stack[Height(rest)] = Local(c, v)], in, val)
      ELSE IF c.vars[v].param THEN Replace(rest, 1, Assign(Local(c, v), val))
      ELSE Store(c, unmarked, in, val)

\* An element stored into an array just made: part of its initializer, if it
\* is the next one of the array of that shape nearest the top.
ArrayStore(b) ==
  LET array == Top(b, 3)
      index == Top(b, 2)
      rest == Drop(b, 3)
      like == {d \in DOMAIN rest.stack : SameShape(rest.stack[d], array)}
      d == Max(like)
      elements == InitOf(rest.stack[d])
      dims == array.kids[1].kids
      cap == IF dims[1].op = "int" /\ dims[1].n >= 0 THEN dims[1].n ELSE 65536
      stored == ExprSt(Assign(Index(array, index), Top(b, 1)))
  IN  IF index.op # "int" \/ like = {} THEN Emit(rest, stored)
      ELSE IF index.n = Len(elements) /\ Len(elements) < Min({cap, 65536})
           THEN [rest EXCEPT !.stack[d] = WithInit(@, Append(elements, Top(b, 1)))]
      ELSE Emit([rest EXCEPT !.stack[d] = WithInit(@, elements)], stored)

-----------------------------------------------------------------------------
(* The stack.                                                              *)

Kept(b, e) == IF HasSideEffects(e) THEN Emit(b, ExprSt(e)) ELSE b
PopOne(b) ==
  LET e == Top(b, 1)
      rest == Drop(b, 1)
      nullCheck == /\ e.op = "method" /\ e.x[1] = Known.Objects /\ e.x[2] = Known.requireNonNull
                   /\ Height(rest) \in rest.marks
  IN  IF nullCheck THEN rest ELSE Kept(rest, e)
PopTwo(b) == IF b.stack = << >> THEN b
             ELSE IF IsWide(Top(b, 1).ty) THEN Kept(Drop(b, 1), Top(b, 1))
             ELSE IF Height(b) = 1 THEN Fail(b, "stack underflow")
             ELSE Kept(Kept(Drop(b, 2), Top(b, 2)), Top(b, 1))

\* Which values stand where the top ones stood, counted from the top.
Shuffle(b, op) ==
  LET wide(k) == Height(b) >= k /\ IsWide(Top(b, IF Height(b) >= k THEN k ELSE 1).ty)
  IN  CASE op = 90 -> <<1, 2, 1>>
        [] op = 91 -> IF wide(2) THEN <<1, 2, 1>> ELSE <<1, 3, 2, 1>>
        [] op = 92 -> IF wide(1) THEN <<1, 1>> ELSE <<2, 1, 2, 1>>
        [] op = 93 -> IF wide(1) THEN <<1, 2, 1>> ELSE <<2, 1, 3, 2, 1>>
        [] op = 94 /\ wide(1) -> IF wide(2) THEN <<1, 2, 1>> ELSE <<1, 3, 2, 1>>
        [] op = 94 /\ ~wide(1) -> IF wide(2) THEN <<2, 1, 3, 2, 1>> ELSE <<2, 1, 4, 3, 2, 1>>
        [] OTHER -> <<1, 2>>
Shuffled(b, op) ==
  LET order == Shuffle(b, op)
      taken == Max(Range(order))
      moved == [k \in DOMAIN order |-> Top(b, order[k])]
      left == Drop(b, taken)
  IN  IF op = 92 /\ b.stack = << >> THEN b
      ELSE IF taken > Height(b) THEN Fail(b, "stack underflow")
      ELSE [left EXCEPT !.stack = @ \o moved, !.marks = IF op = 92 THEN b.marks ELSE @]

OpAt(ins, i) == IF i <= Len(ins) THEN ins[i].op ELSE -1
IntLoads == {21} \cup (26 .. 29)
IntStores == {54} \cup (59 .. 62)
\* dup; iload v; iconst_1; iadd; istore v and dup; iinc v, 1: how many
\* instructions after the dup (0: neither).
PostIncAhead(ins, i) ==
  CASE i + 3 > Len(ins) -> 0
    [] ins[i].op \in IntLoads /\ ins[i + 1].op = 4 /\ ins[i + 2].op = 96 /\ ins[i + 3].op \in IntStores
       /\ SlotOf(ins[i]) = SlotOf(ins[i + 3]) -> 4
    [] ins[i].op = Iinc /\ ins[i].b = 1 -> 1
    [] OTHER -> 0
\* dup; a constant; iadd; a store to where the value came from.
DupAddStoreAhead(c, ins, b) ==
  LET i == b.i
      e == Top(b, 1)
      ref == MemberRef(c.pos, c.pool, ins[i + 2].a)
  IN  /\ i + 2 <= Len(ins) /\ b.stack # << >>
      /\ ins[i].op \in {2, 4, 16, 17} /\ ins[i + 1].op = 96
      /\ \/ e.op = "local" /\ ins[i + 2].op \in IntStores /\ c.vars[e.n].slot = SlotOf(ins[i + 2])
         \/ /\ e.op = "field" /\ ins[i + 2].op \in {179, 181} /\ ref # << >>
            /\ e.x = <<ref[1], ref[2]>> /\ (e.n = 1) = (ins[i + 2].op = 179)
AddedConst(in) == CASE in.op = 2 -> -1 [] in.op = 4 -> 1 [] OTHER -> in.a

Dup(c, ins, b) ==
  LET len == PostIncAhead(ins, b.i)
      last == ins[b.i + len - 1]
      v == VarAt(c.vars, SlotOf(last), last.pc)
  IN  IF len # 0
      THEN IF v = 0 THEN Fail(b, "no variable")
           ELSE [Emit(b, ExprSt(Post(Local(c, v), IF len = 4 THEN 1 ELSE last.b))) EXCEPT !.i = @ + len]
      ELSE IF DupAddStoreAhead(c, ins, b) THEN [Replace(b, 1, Post(Top(b, 1), AddedConst(ins[b.i]))) EXCEPT !.i = @ + 3]
      ELSE IF b.stack = << >> THEN Fail(b, "stack underflow")
      ELSE [Push(b, Top(b, 1)) EXCEPT !.marks = @ \cup {Height(b)}]

\* iinc: an increment of the value read before it, of the value read after
\* it, or a statement.
Increment(c, ins, b, in) ==
  LET v == VarAt(c.vars, in.a, in.pc)
      var == Local(c, v)
      reads == {d \in DOMAIN b.stack : b.stack[d].op = "local" /\ b.stack[d].n = v}
      one == in.b \in {-1, 1}
      loadNext == OpAt(ins, b.i) \in IntLoads /\ SlotOf(ins[b.i]) = c.vars[v].slot
  IN  CASE v = 0 -> Fail(b, "no variable")
        [] v # 0 /\ reads # {} -> [b EXCEPT !.stack[Max(reads)] = Post(var, in.b)]
        [] v # 0 /\ reads = {} /\ one /\ loadNext -> [Push(b, Pre(var, in.b)) EXCEPT !.i = @ + 1]
        [] v # 0 /\ reads = {} /\ one /\ ~loadNext -> Emit(b, ExprSt(Pre(var, in.b)))
        [] OTHER -> Emit(b, ExprSt(AddAssign(var, IntC(in.b))))

-----------------------------------------------------------------------------
(* Operators and jumps.                                                    *)

NumberTypes == <<IntType, <<74>>, <<70>>, <<68>>>>
ArithOps == <<"add", "sub", "mul", "div", "rem">>
BitOps == <<"shl", "shr", "ushr", "bitand", "bitor", "xor">>
Arith(b, op) ==
  LET name == IF op < 116 THEN ArithOps[1 + (op - 96) \div 4] ELSE BitOps[1 + (op - 120) \div 2]
      ty == NumberTypes[IF op < 116 THEN 1 + ((op - 96) % 4) ELSE 1 + ((op - 120) % 2)]
      l == Top(b, 2)
      r == Top(b, 1)
  IN  Replace(b, 2, IF Foldable(name, l, r) THEN FoldConsts(name, l, r) ELSE Bin(name, l, r, ty))

Negate(b) ==
  LET e == Top(b, 1)
  IN  Replace(b, 1, IF e.op \in {"int", "long", "float", "double"} THEN [e EXCEPT !.n = WrapNeg(@)]
                    ELSE Ex("neg", << >>, 0, e.ty, <<e>>))

\* i2l .. i2s.  A constant becomes one of the wider type.
ConvertedTo == <<<<74>>, <<70>>, <<68>>, IntType, <<70>>, <<68>>, IntType, <<74>>, <<68>>, IntType, <<74>>, <<70>>,
                 <<66>>, <<67>>, <<83>>>>
Widened(e, to) == CASE to = <<74>> -> LongC(e.n) [] to = <<70>> -> FloatC(e.x, e.n) [] OTHER -> DoubleC(e.x, e.n)
Convert(b, op) ==
  LET e == Top(b, 1)
      to == ConvertedTo[op - 132]
      exact == \/ e.op = "int" /\ to \in {<<74>>, <<70>>, <<68>>}
               \/ e.op = "long" /\ to \in {<<70>>, <<68>>}
               \/ e.op = "float" /\ to = <<68>>
  IN  IF Erased(e.ty) = to THEN b ELSE Replace(b, 1, IF exact THEN Widened(e, to) ELSE Cast(to, e))

Compare(b, op) == Replace(b, 2, Ex("cmp", << >>, IF op = 148 THEN 0 ELSE 1 + (op - 149) \div 2, IntType, Args(b, 2)))

Relations == <<"eq", "ne", "lt", "ge", "gt", "le">>
Condition(b, op) ==
  LET e == Top(b, 1)
      rel == Relations[1 + ((op - 153) % 6)]
      is(name, l, r) == Bin(name, l, r, BoolType)
      same == IF op \in {165, 198} THEN "refEq" ELSE "refNe"
  IN  CASE op \in 153 .. 158 -> IF e.op = "cmp" THEN is(rel, e.kids[1], e.kids[2]) ELSE is(rel, e, IntC(0))
        [] op \in 159 .. 164 -> is(rel, Top(b, 2), e)
        [] op \in {165, 166} -> is(same, Top(b, 2), e)
        [] OTHER -> is(same, e, Null)
Branch(b, op) == End(Drop(b, IF op \in 159 .. 166 THEN 2 ELSE 1), Term("cond", <<Condition(b, op)>>))

SwitchOn(b, in) ==
  End(Drop(b, 1), [Term("switch", <<Top(b, 1)>>) EXCEPT !.default = in.default, !.cases = in.cases])

\* Mutant: an assignment just before is returned whatever it assigned.
ReturnLastAssignment(b) ==
  LET rest == Drop(b, 1)
      last == Last(b.stmts)
      merges == b.stmts # << >> /\ last.op = "expr" /\ last.kids[1].op = "assign"
  IN  IF merges THEN [End(rest, Term("return", last.kids)) EXCEPT !.stmts = Front(@)]
      ELSE End(rest, Term("return", <<Top(b, 1)>>))

\* A value just assigned is returned by returning the assignment.
ReturnValue(b) ==
  LET v == Top(b, 1)
      rest == Drop(b, 1)
      last == Last(b.stmts)
      merges == /\ b.stmts # << >> /\ last.op = "expr" /\ last.kids[1].op = "assign" /\ last.kids[1].n = 0
                /\ v \in Range(last.kids[1].kids)
  IN  IF merges THEN [End(rest, Term("return", last.kids)) EXCEPT !.stmts = Front(@)] ELSE End(rest, Term("return", <<v>>))

-----------------------------------------------------------------------------
(* Fields, methods and objects.                                            *)

Owner(c, e, class) == IF class = c.self /\ e = This THEN NoExpr ELSE e
TypeOfField(c, ref) ==
  LET sigs == {s \in c.fieldSigs : s[1] = ref[1] /\ s[2] = ref[2]}
  IN  IF sigs = {} THEN FieldType(ref[3]) ELSE <<71>> \o (CHOOSE s \in sigs : TRUE)[3]

FieldStep(c, b, in) ==
  LET ref == MemberRef(c.pos, c.pool, in.a)
      static == in.op \in {178, 179}
      value == IF in.op \in {179, 181} THEN 1 ELSE 0
      taken == value + (IF static THEN 0 ELSE 1)
      owner == IF static THEN NoExpr ELSE Owner(c, Top(b, taken), ref[1])
      f == Field(owner, ref[1], ref[2], TypeOfField(c, ref), static)
  IN  IF Height(b) < taken THEN Fail(b, "stack underflow")
      ELSE IF ref = << >> THEN Fail(b, "bad member")
      ELSE IF value = 1 THEN Emit(Drop(b, taken), ExprSt(Assign(f, Top(b, 1)))) ELSE Replace(b, taken, f)

\* The trailing array of a variable argument list, spread out again.
Spread(args, desc) ==
  LET last == Last(args)
      element == Tail(Last(MethodType(desc).args))
      narrow(v) == IF element \in {<<66>>, <<83>>, <<67>>} /\ v.op = "int" THEN Cast(element, v) ELSE v
  IN  IF args = << >> THEN args
      ELSE IF last.op = "newarray" /\ Len(last.kids) = 2
           THEN Front(args) \o [k \in DOMAIN InitOf(last) |-> narrow(InitOf(last)[k])] ELSE args

Builders == {Known.StringBuilder, Known.StringBuffer}
\* What is appended to a new string builder, first to last; <<NoExpr>> if
\* the chain is not only that.
RECURSIVE AppendChain(_)
AppendChain(e) ==
  LET before == AppendChain(e.kids[1])
  IN  IF e.op = "method" /\ e.x[1] \in Builders /\ e.x[2] = Known.append /\ Len(e.kids) = 2 /\ e.kids[1] # NoExpr
      THEN IF before = <<NoExpr>> THEN before ELSE Append(before, e.kids[2])
      ELSE IF e.op = "new" /\ e.n = 0 /\ e.x[1] \in Builders
           THEN CASE e.kids = << >> -> << >>
                  [] Len(e.kids) = 1 /\ Erased(e.kids[1].ty) = StringType -> e.kids
                  [] OTHER -> <<NoExpr>>
      ELSE <<NoExpr>>

IsPoly(c, e) == e.op \in {"lambda", "indy", "cmp"} \/ (e.op = "method" /\ e.x \in c.generic)

\* A constructor: of the raw object under its arguments, or of this.
Construct(c, b, ref, args) ==
  LET types == MethodType(ref[3]).args
      marker == types # << >> /\ Last(types)[1] = 76 /\ Tail(Last(types)) \in c.synthetic /\ args # << >>
      real == IF marker THEN IF Last(args) = Null THEN Front(args) ELSE args ELSE args
      owner == Top(b, 1)
      rest == Drop(b, 1)
      twin == rest.stack # << >> /\ Top(rest, 1).op = "new" /\ Top(rest, 1).n = 1 /\ Top(rest, 1).x = <<ref[1]>>
      made == New(ref[1], real, FALSE)
  IN  IF owner.op = "new" /\ owner.n = 1 THEN IF twin THEN Replace(rest, 1, made) ELSE Push(rest, made)
      ELSE Emit(rest, ExprSt(Method(owner, ref, IF ref[1] # c.self THEN 1 ELSE 183, real)))

\* A call of ref with args by opcode op on target, of which rest is below.
CallOn(c, rest, op, ref, target, args) ==
  LET static == op = 184
      superCall == op = 183 /\ target = This /\ ref[1] # c.self
      call == Method(IF superCall \/ static THEN NoExpr ELSE Owner(c, target, ref[1]), ref, IF superCall THEN 1 ELSE op, args)
      chain == AppendChain(target)
  IN  IF ~static /\ args = << >> /\ ref[2] = Known.toString /\ ref[1] \in Builders /\ chain \notin {<<NoExpr>>, << >>}
      THEN Push(rest, Concat(chain))
      ELSE IF ref[1] = Known.String /\ ref[2] = Known.valueOf /\ Len(args) = 1 /\ \A a \in Range(args) : IsPoly(c, a)
           THEN Push(rest, Concat(<<Text(<< >>), args[1]>>))
      ELSE IF call.ty = <<86>> THEN Emit(rest, ExprSt(call)) ELSE Push(rest, call)
InvokeRef(c, b, op, ref, n) ==
  LET args == IF ref \in c.varargs THEN Spread(Args(b, n), ref[3]) ELSE Args(b, n)
      under == Drop(b, n)
  IN  IF Height(b) < n + (IF op = 184 THEN 0 ELSE 1) THEN Fail(b, "stack underflow")
      ELSE IF ref[2] = InitName THEN Construct(c, under, ref, args)
      ELSE IF op = 184 THEN CallOn(c, under, op, ref, NoExpr, args)
      ELSE CallOn(c, Drop(under, 1), op, ref, Top(under, 1), args)
Invoke(c, b, in) ==
  LET Member(ref) == IF ref = << >> THEN Fail(b, "bad member") ELSE InvokeRef(c, b, in.op, ref, Len(MethodType(ref[3]).args))
  IN  Member(MemberRef(c.pos, c.pool, in.a))

\* invokedynamic: a lambda, a concatenation, or a call left as it is.
HandleAt(c, n) == LET e == GetEntry(c.pool, n) IN IF e[1] = "MethodHandle" THEN e ELSE << >>
DescAt(c, n) == LET e == GetEntry(c.pool, n) IN IF e[1] = "MethodType" THEN GetUtf8(c.pool, e[2]) ELSE << >>
StringAt(c, n) == LET e == GetEntry(c.pool, n) IN IF e[1] = "String" THEN GetUtf8(c.pool, e[2]) ELSE << >>

\* The names of an implementation's last n parameters, where its debug table
\* has them: a method's locals are <<slot, name>> of those in scope at 0.
ArgSlot(args, i, base) == FoldLeft(LAMBDA s, ty : s + (IF IsWide(ty) THEN 2 ELSE 1), base, SubSeq(args, 1, i - 1))
ImplParamNames(c, ref, captures, n, base) ==
  LET own == {m \in c.methods : m.name = ref[2] /\ m.desc = ref[3]}
      locals == (CHOOSE m \in own : TRUE).locals
      args == MethodType(ref[3]).args
      k(i) == SelectInSeq(locals, LAMBDA l : l[1] = ArgSlot(args, i, base))
      named(i) == IF own = {} \/ captures + n > Len(args) THEN 0 ELSE k(captures + i)
  IN  [i \in 1 .. n |-> IF named(i) = 0 THEN ArgName(i - 1) ELSE locals[named(i)][2]]

IsLambdaName(name) == Len(name) > Len(Known.lambda) /\ SubSeq(name, 1, Len(Known.lambda)) = Known.lambda
\* n: 0 for a lambda, 1 for a method reference, 2 for one by its type.
Lambda(c, sam, desc, args, boot, samClass) ==
  LET handle == HandleAt(c, boot[2][2])
      kind == handle[2]
      ref == MemberRef(c.pos, c.pool, handle[3])
      samDesc == IF DescAt(c, boot[2][1]) = << >> THEN desc ELSE DescAt(c, boot[2][1])
      n == Len(MethodType(samDesc).args)
      own == ref[1] = c.self /\ IsLambdaName(ref[2])
      this == args # << >> /\ args[1] = This
      made(k, names, kids) == Ex("lambda", <<sam, samClass>> \o ref \o names, k, ObjectType, kids)
  IN  IF handle = << >> THEN NoExpr ELSE IF ref = << >> THEN NoExpr
      ELSE CASE own /\ kind = 6 -> made(0, ImplParamNames(c, ref, Len(args), n, 0), args)
             [] own /\ kind = 5 /\ this -> made(0, ImplParamNames(c, ref, Len(args) - 1, n, 1), Tail(args))
             [] OTHER -> made(IF kind \in {5, 9} /\ args = << >> THEN 2 ELSE 1, [i \in 1 .. n |-> ArgName(i - 1)], args)

\* The parts a recipe names: 1 stands for the next argument, 2 for the next
\* constant, anything else for itself.
Recipe(recipe, args, consts) ==
  LET flushed(r) == IF r.buf = << >> THEN r.parts ELSE Append(r.parts, Text(r.buf))
      step(r, ch) ==
        CASE ch = 1 -> [r EXCEPT !.parts = IF r.a <= Len(args) THEN Append(flushed(r), args[r.a]) ELSE flushed(r),
                                 !.buf = << >>, !.a = @ + 1]
          [] ch = 2 -> [r EXCEPT !.buf = IF r.k <= Len(consts) THEN @ \o consts[r.k] ELSE @, !.k = @ + 1]
          [] OTHER -> [r EXCEPT !.buf = Append(@, ch)]
  IN  flushed(FoldLeft(step, [parts |-> << >>, buf |-> << >>, a |-> 1, k |-> 1], recipe))
ConcatOf(c, desc, args, boot, named) ==
  LET types == MethodType(desc).args
      recipe == IF named /\ boot[2] # << >> THEN StringAt(c, boot[2][1]) ELSE [k \in DOMAIN args |-> 1]
      strings == SelectSeq(Tail(boot[2]), LAMBDA k : GetEntry(c.pool, k)[1] = "String")
      truth == [k \in DOMAIN args |-> IF types[k] = BoolType THEN Booleanize(args[k]) ELSE args[k]]
  IN  Concat(Recipe(recipe, truth, [k \in DOMAIN strings |-> StringAt(c, strings[k])]))

\* What a static argument of a bootstrap method stands for: <<kind, name>>.
BsmArg(c, n) ==
  LET e == GetEntry(c.pool, n)
      boot == c.boots[e[2] + 1]
      factories == SelectSeq([k \in DOMAIN boot[2] |-> HandleAt(c, boot[2][k])], LAMBDA h : h # << >>)
      strings == SelectSeq([k \in DOMAIN boot[2] |-> StringAt(c, boot[2][k])], LAMBDA t : t # << >>)
      handle == IF factories # << >> THEN Last(factories) ELSE HandleAt(c, boot[1])
      ref == IF handle = << >> THEN << >> ELSE MemberRef(c.pos, c.pool, handle[3])
      factory == IF ref = << >> THEN << >> ELSE <<ref[1], ref[2]>>
  IN  CASE e[1] = "String" -> <<<<1>>, StringAt(c, n)>>
        [] e[1] = "Class" -> <<<<2>>, ClassName(c.pos, c.pool, n)>>
        [] e[1] = "Integer" -> <<<<3>>, e[2]>>
        [] e[1] = "Dynamic" /\ e[2] < Len(c.boots) /\ factory = Known.EnumDescOf /\ strings # << >> -> <<<<1>>, Last(strings)>>
        [] e[1] = "Dynamic" /\ e[2] < Len(c.boots) /\ factory = Known.ClassDescOf /\ strings # << >> -> <<<<2>>, Last(strings)>>
        [] e[1] = "Dynamic" /\ e[2] < Len(c.boots) /\ factory = Known.primitiveClass ->
             <<<<2>>, <<46>> \o NameAndType(c.pos, c.pool, e[3])[1]>>
        [] OTHER -> <<<<0>>, << >>>>

Linked(b, n, ret, made) == IF made = NoExpr THEN Fail(b, "no implementation")
                           ELSE IF ret = <<86>> THEN Emit(Drop(b, n), ExprSt(made)) ELSE Replace(b, n, made)
\* The site nt of a bootstrap method target.
LinkSite(c, b, nt, desc, boot, target) ==
  LET n == Len(desc.args)
      args == Args(b, n)
      meta == target # << >> /\ target[1] = Known.LambdaMetafactory
              /\ target[2] \in {Known.metafactory, Known.altMetafactory} /\ Len(boot[2]) >= 3
      concats == target # << >> /\ target[1] = Known.StringConcatFactory
                 /\ target[2] \in {Known.makeConcat, Known.makeConcatWithConstants}
      samClass == IF desc.ret[1] = 76 THEN Tail(desc.ret) ELSE << >>
      opaque == Ex("indy", nt \o FlattenSeq([k \in DOMAIN boot[2] |-> BsmArg(c, boot[2][k])]), 0, desc.ret, args)
  IN  IF concats /\ boot[2] = << >> THEN Fail(b, "panic")       \* boot[2][1 ..] of an empty list
      ELSE Linked(b, n, desc.ret, CASE meta -> Lambda(c, nt[1], nt[2], args, boot, samClass)
                                    [] concats -> ConcatOf(c, nt[2], args, boot, target[2] = Known.makeConcatWithConstants)
                                    [] OTHER -> opaque)
BootstrapMethod(c, handle) == IF handle = << >> THEN <<>> ELSE <<MemberRef(c.pos, c.pool, handle[3])>>
DynamicSite(c, b, e, nt) ==
  LET desc == MethodType(nt[2])
      boot == c.boots[e[2] + 1]
      From(method) == IF method = << >> THEN Fail(b, "no bootstrap method") ELSE LinkSite(c, b, nt, desc, boot, method[1])
  IN  IF nt = << >> THEN Fail(b, "no call site")
      ELSE IF Height(b) < Len(desc.args) THEN Fail(b, "stack underflow")
      ELSE IF e[2] >= Len(c.boots) THEN Fail(b, "no bootstrap method") ELSE From(BootstrapMethod(c, HandleAt(c, boot[1])))
InvokeDynamic(c, b, in) ==
  LET e == GetEntry(c.pool, in.a)
  IN  IF e[1] # "InvokeDynamic" THEN Fail(b, "no call site") ELSE DynamicSite(c, b, e, NameAndType(c.pos, c.pool, e[3]))

Levels(name) == Len(name) - Len(SelectSeq(name, LAMBDA ch : ch # 91))
ElementOf(name) == IF Levels(name) > 0 THEN SubSeq(FieldType(name), Levels(name) + 1, Len(name)) ELSE ClassType(name)
MakeArray(c, b, in) ==
  LET class == ClassName(c.pos, c.pool, in.a)
      n == IF in.op = 197 THEN in.b ELSE 1
      open == CASE in.op = 188 -> 0 [] in.op = 189 -> Levels(class) [] OTHER -> Max({Levels(class) - n, 0})
      elem == IF in.op = 188 THEN Elements[in.a] ELSE ElementOf(class)
  IN  IF Height(b) < n THEN Fail(b, "stack underflow")
      ELSE IF IF in.op = 188 THEN in.a \notin DOMAIN Elements ELSE class = << >> THEN Fail(b, "bad class")
      ELSE Replace(b, n, NewArray(elem, Args(b, n), open))

\* A cast of the clone of a generic array keeps the array's type.
CastType(e, ty) ==
  LET owner == e.kids[1].ty
  IN  IF e.op # "method" THEN ty
      ELSE IF e.x[2] = Known.clone /\ e.kids[1] # NoExpr /\ ty[1] = 91 /\ IsGeneric(owner) /\ Erased(owner) = ty
           THEN owner ELSE ty

TypeTest(c, b, in) ==
  LET class == ClassName(c.pos, c.pool, in.a)
      e == Top(b, 1)
  IN  IF class = << >> THEN Fail(b, "bad class")
      ELSE Replace(b, 1, IF in.op = 193 THEN Ex("instanceof", <<ClassType(class)>>, 0, BoolType, <<e>>)
                         ELSE Cast(CastType(e, ClassType(class)), e))

-----------------------------------------------------------------------------
(* One instruction, and all of a block.                                    *)

\* What an instruction takes from the stack at least.
Needs(op) == CASE op \in (46 .. 53) \cup (96 .. 115) \cup (120 .. 131) \cup (148 .. 152) \cup (159 .. 166) -> 2
               [] op \in (54 .. 78) \cup {87} \cup (116 .. 119) \cup (133 .. 147) \cup (153 .. 158) \cup Switches \cup
                         {198, 199} \cup (172 .. 176) \cup {190, 191, 192, 193, 194, 195} -> 1
               [] op \in 79 .. 86 -> 3
               [] OTHER -> 0

Exec(c, ins, b, in) ==
  LET op == in.op
      loaded == LoadConstant(c, in)
      class == ClassName(c.pos, c.pool, in.a)
  IN  CASE Height(b) < Needs(op) -> Fail(b, "stack underflow")
        [] op = 0 -> b
        [] op \in 1 .. 17 -> Push(b, Constant(in))
        [] op \in 18 .. 20 -> IF loaded = NoExpr THEN Fail(b, "bad constant") ELSE Push(b, loaded)
        [] op \in 21 .. 45 -> Load(c, b, in)
        [] op \in 46 .. 53 -> Replace(b, 2, Index(Top(b, 2), Top(b, 1)))
        [] op \in 54 .. 78 -> StoreStep(c, ins, b, in)
        [] op \in 79 .. 86 -> ArrayStore(b)
        [] op = 87 -> PopOne(b)
        [] op = 88 -> PopTwo(b)
        [] op = 89 -> Dup(c, ins, b)
        [] op \in 90 .. 95 -> Shuffled(b, op)
        [] op \in (96 .. 115) \cup (120 .. 131) -> Arith(b, op)
        [] op \in 116 .. 119 -> Negate(b)
        [] op = Iinc -> Increment(c, ins, b, in)
        [] op \in 133 .. 147 -> Convert(b, op)
        [] op \in 148 .. 152 -> Compare(b, op)
        [] op \in Ifs -> Branch(b, op)
        [] op \in Gotos -> End(b, Term("goto", << >>))
        [] op \in Jsrs -> End(b, Term("jsr", << >>))
        [] op = Ret -> End(b, Term("ret", << >>))
        [] op \in Switches -> SwitchOn(b, in)
        [] op \in 172 .. 176 -> ReturnValue(b)
        [] op = 177 -> End(b, Term("return", << >>))
        [] op = Athrow -> End(Drop(b, 1), Term("throw", <<Top(b, 1)>>))
        [] op \in 178 .. 181 -> FieldStep(c, b, in)
        [] op \in Invokes -> Invoke(c, b, in)
        [] op = 186 -> InvokeDynamic(c, b, in)
        [] op = 187 -> IF class = << >> THEN Fail(b, "bad class") ELSE Push(b, New(class, << >>, TRUE))
        [] op \in {188, 189, 197} -> MakeArray(c, b, in)
        [] op = 190 -> Replace(b, 1, Field(Top(b, 1), << >>, Known.length, IntType, FALSE))
        [] op \in {192, 193} -> TypeTest(c, b, in)
        [] op = 194 -> Emit(Drop(b, 1), St("enter", 0, <<Top(b, 1)>>))
        [] op = 195 -> Emit(Drop(b, 1), St("exit", 0, <<Top(b, 1)>>))
        [] OTHER -> Fail(b, "unknown instruction")

RECURSIVE ExecFrom(_, _, _)
ExecFrom(c, ins, b) ==
  IF b.err # "" \/ b.i > Len(ins) THEN b ELSE ExecFrom(c, ins, Exec(c, ins, [b EXCEPT !.i = @ + 1], ins[b.i]))
BuildBlock(c, ins, stack) == ExecFrom(c, ins, Start(stack))
=============================================================================
