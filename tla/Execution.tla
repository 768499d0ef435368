------------------------------ MODULE Execution ------------------------------
(***************************************************************************)
(* What the bytes of a method do, and what the statements made of it do.   *)
(*                                                                         *)
(* A machine runs the instructions as their writer meant them, an          *)
(* evaluator runs the blocks' statements the way Java does, both on the    *)
(* same world: calls, constructions and monitors are events, which take    *)
(* the fields written since the last one along, and after which every      *)
(* field and every result is unknown.  Arrays and string builders made by  *)
(* the method are its own.  Which monitor an exit leaves is for the        *)
(* synchronized statement to say that is later made of the pair.           *)
(*                                                                         *)
(* A value is <<kind, number, parts>>.  An instruction as it was written   *)
(* is [op, a, b, k, x, cases]: its operands, its constant, of a call site  *)
(* its meaning, of a switch its cases <<key, target>>, targets being       *)
(* relative to the instruction.  A constant is [tag, data, refs].          *)
(***************************************************************************)
EXTENDS FrontEnd

Val(kind, n) == <<kind, n, << >>>>
IntVal(n) == Val("int", n)
NoVal == Val("none", 0)
NullVal == Val("null", 0)
ThisVal == Val("this", 0)
Wrong == Val("wrong", 0)            \* of an expression without a value
Undefined == Val("undefined", 0)
KindOfPrim == (<<74>> :> "long") @@ (<<70>> :> "float") @@ (<<68>> :> "double")
NumberKinds == <<"int", "long", "float", "double">>
Fresh(ty, n) == CASE ty = BoolType -> IntVal(n % 2) [] ty \in Prims \ (DOMAIN KindOfPrim \cup {BoolType}) -> IntVal(n)
                  [] ty \in DOMAIN KindOfPrim -> Val(KindOfPrim[ty], n) [] ty = <<86>> -> NoVal [] OTHER -> Val("ref", n)
Default(ty) == CASE ty \in DOMAIN KindOfPrim -> Val(KindOfPrim[ty], 0) [] ty \in Prims -> IntVal(0) [] OTHER -> NullVal

-----------------------------------------------------------------------------
(* The world.                                                              *)

World(seed) == [seed |-> seed, trace |-> << >>, writes |-> << >>, objs |-> << >>]
Now(w) == 10 * Len(w.trace) + w.seed

RECURSIVE Deep(_, _)
Deep(w, v) == IF v[1] \in {"arr", "sb"} THEN <<v[1], 0, [k \in DOMAIN w.objs[v[2]] |-> Deep(w, w.objs[v[2]][k])]>>
              ELSE IF v[1] = "lam" THEN <<v[1], 0, [k \in DOMAIN v[3] |-> Deep(w, v[3][k])]>> ELSE v
DeepAll(w, vs) == [k \in DOMAIN vs |-> Deep(w, vs[k])]

Happen(w, what, args) ==
  [w EXCEPT !.trace = Append(@, [what |-> what, args |-> DeepAll(w, args), writes |-> DeepAll(w, w.writes)]), !.writes = << >>]

FieldVal(w, o, x, ty) ==
  LET v == Fresh(ty, Now(w) + (Last(x[2]) % 7))
  IN  IF <<o, x>> \in DOMAIN w.writes THEN w.writes[<<o, x>>] ELSE IF v[1] = "ref" THEN <<"ref", v[2], <<o>>>> ELSE v
PutField(w, o, x, v) == [w EXCEPT !.writes = (<<o, x>> :> v) @@ @]
ElementVal(w, array, i, ty) ==
  IF array[1] = "arr" THEN w.objs[array[2]][i[2] + 1] ELSE FieldVal(w, array, <<<< >>, <<i[2]>>>>, ty)
PutElement(w, array, i, v) ==
  IF array[1] = "arr" THEN [w EXCEPT !.objs[array[2]][i[2] + 1] = v] ELSE PutField(w, array, <<<< >>, <<i[2]>>>>, v)
LengthVal(w, array) == IntVal(IF array[1] = "arr" THEN Len(w.objs[array[2]]) ELSE 3)

\* An array of the given lengths, with levels inside of which nothing is made.
Alloc(w, kind, contents) == [w |-> [w EXCEPT !.objs = Append(@, contents)], v |-> Val(kind, Len(w.objs) + 1)]
RECURSIVE AllocArray(_, _, _, _)
AllocArray(w, elem, dims, open) ==
  LET n == Head(dims)[2]
      inner == FoldLeft(LAMBDA r, k : LET one == AllocArray(r.w, elem, Tail(dims), open)
                                     IN  [w |-> one.w, vs |-> Append(r.vs, one.v)],
                        [w |-> w, vs |-> << >>], [k \in 1 .. n |-> k])
  IN  IF Len(dims) = 1 THEN Alloc(w, "arr", [k \in 1 .. n |-> IF open = 0 THEN Default(elem) ELSE NullVal])
      ELSE Alloc(inner.w, "arr", inner.vs)

\* Strings are the pieces they were put together from.
TextVal(bytes) == <<"txt", 0, bytes>>
Joined(pieces) ==
  LET flat == FlattenSeq([k \in DOMAIN pieces |-> IF pieces[k][1] = "str" THEN pieces[k][3] ELSE <<pieces[k]>>])
      join(s, p) == IF p = TextVal(<< >>) THEN s
                    ELSE IF s # << >> /\ p[1] = "txt" /\ Last(s \o <<NoVal>>) = NoVal /\ s[Len(s)][1] = "txt"
                         THEN [s EXCEPT ![Len(s)] = TextVal(@[3] \o p[3])] ELSE Append(s, p)
  IN  FoldLeft(join, << >>, flat)
Str(pieces) == <<"str", 0, Joined(pieces)>>
StrOf(bytes) == Str(<<TextVal(bytes)>>)

\* Numbers.
Wider(l, r) == NumberKinds[Max({k \in 1 .. 4 : NumberKinds[k] \in {l[1], r[1]}})]
Arithmetic(op, l, r) ==
  LET kind == IF op \in {"shl", "shr", "ushr"} THEN l[1] ELSE Wider(l, r)
  IN  IF op \in {"div", "rem"} /\ r[2] = 0 THEN Wrong ELSE Val(kind, FoldNumbers(op, l[2], r[2]))
Sign(l, r) == IntVal(IF l[2] < r[2] THEN -1 ELSE IF l[2] > r[2] THEN 1 ELSE 0)
Holds(rel, l, r) == CASE rel = "eq" -> l[2] = r[2] [] rel = "ne" -> l[2] # r[2] [] rel = "lt" -> l[2] < r[2]
                      [] rel = "ge" -> l[2] >= r[2] [] rel = "gt" -> l[2] > r[2] [] rel = "le" -> l[2] <= r[2]
                      [] rel = "refEq" -> l = r [] rel = "refNe" -> l # r
Truth(b) == IntVal(IF b THEN 1 ELSE 0)
Converted(to, v) ==
  CASE to \in DOMAIN KindOfPrim -> <<KindOfPrim[to], v[2], v[3]>> [] to = <<66>> -> IntVal(Byte8(v[2] % 256))
    [] to = <<67>> -> IntVal(v[2] % 65536) [] to = <<83>> -> IntVal(Word16(v[2] % 65536)) [] to = IntType -> IntVal(v[2]) [] OTHER -> v
IsInstance(v) == Truth(v # NullVal /\ v[2] % 2 = 0)

\* A call: of a string builder, of requireNonNull, or an event.
AnyCall(w, kind, ref, args) ==
  LET after == Happen(w, <<kind>> \o ref, args)
      made == Fresh(MethodType(ref[3]).ret, Now(after))
  IN  CASE args # << >> /\ Head(args \o <<NoVal>>)[1] = "sb" /\ ref[2] = Known.append ->
             [w |-> [w EXCEPT !.objs[args[1][2]] = Append(@, Deep(w, args[2]))], v |-> args[1]]
        [] args # << >> /\ Head(args \o <<NoVal>>)[1] = "sb" /\ ref[2] = Known.toString -> [w |-> w, v |-> Str(w.objs[args[1][2]])]
        [] ref[1] = Known.Objects /\ ref[2] = Known.requireNonNull -> [w |-> w, v |-> args[1]]
        [] ref[1] = Known.String /\ ref[2] = Known.valueOf -> [w |-> w, v |-> Str(<<Deep(w, args[1])>>)]
        [] OTHER -> [w |-> after, v |-> made]
Build(w, class, args) ==
  LET after == Happen(w, <<"new", class>>, args)
  IN  IF class \in Builders THEN Alloc(w, "sb", DeepAll(w, args)) ELSE [w |-> after, v |-> Val("obj", Len(after.trace))]

-----------------------------------------------------------------------------
(* The machine.  A long and a double take two words of the stack, the      *)
(* second being Half.                                                      *)

Half == Val("half", 0)
Words(v) == IF v[1] \in {"long", "double"} THEN <<v, Half>> ELSE IF v = NoVal THEN << >> ELSE <<v>>
RECURSIVE Below(_, _), Taken(_, _)
Below(stack, n) == IF n = 0 THEN stack ELSE Below(SubSeq(stack, 1, Len(stack) - (IF Last(stack) = Half THEN 2 ELSE 1)), n - 1)
Taken(stack, n) == IF n = 0 THEN << >>
                   ELSE LET rest == Below(stack, 1) IN Append(Taken(rest, n - 1), stack[Len(rest) + 1])

RefOf(k) == <<k.refs[1].refs[1].data, k.refs[2].refs[1].data, k.refs[2].refs[2].data>>
ConstVal(k) == CASE k.tag = 3 -> IntVal(Signed(k.data, 1)) [] k.tag = 4 -> <<"float", 0, <<k.data>>>> [] k.tag = 5 -> Val("long", Signed(k.data, 5))
                 [] k.tag = 6 -> <<"double", 0, <<k.data>>>> [] k.tag = 8 -> StrOf(k.refs[1].data)
                 [] k.tag = 7 -> <<"cls", 0, k.refs[1].data>> [] OTHER -> NullVal

\* Which words stand where the top ones stood, counted from the top.
WordMoves == <<<<1, 1>>, <<1, 2, 1>>, <<1, 3, 2, 1>>, <<2, 1, 2, 1>>, <<2, 1, 3, 2, 1>>, <<2, 1, 4, 3, 2, 1>>, <<1, 2>>>>
MoveWords(stack, order) ==
  SubSeq(stack, 1, Len(stack) - Max(Range(order))) \o [k \in DOMAIN order |-> stack[Len(stack) - order[k] + 1]]

ElementTypes == <<IntType, <<74>>, <<70>>, <<68>>, ObjectType, <<66>>, <<67>>, <<83>>>>
Relations6 == <<"eq", "ne", "lt", "ge", "gt", "le">>
Taken2(op, vs) ==
  CASE op \in 153 .. 158 -> Holds(Relations6[op - 152], vs[1], IntVal(0)) [] op \in 159 .. 164 -> Holds(Relations6[op - 158], vs[1], vs[2])
    [] op = 165 -> vs[1] = vs[2] [] op = 166 -> vs[1] # vs[2] [] op = 198 -> vs[1] = NullVal [] op = 199 -> vs[1] # NullVal

\* What a call site makes of its arguments.
Site(w, in, args) ==
  LET pieces == [k \in DOMAIN in.x.parts |-> IF in.x.parts[k][1] = 0 THEN Deep(w, args[in.x.parts[k][2]]) ELSE TextVal(Tail(in.x.parts[k]))]
  IN  CASE in.x.kind = "concat" -> [w |-> w, v |-> Str(pieces)]
        [] in.x.kind = "lambda" -> [w |-> w, v |-> <<"lam", 0, <<TextVal(in.x.parts[1][2])>>
                                                              \o (IF in.x.parts[1][1] = <<1>> THEN Tail(args) ELSE args)>>]
        [] OTHER -> LET after == Happen(w, <<"site", in.x.name>>, args)
                    IN  [w |-> after, v |-> Fresh(in.x.ret, Now(after))]

\* How many values the instruction takes.
Takes(in) ==
  LET op == in.op
      desc == RefOf(in.k)[3]
  IN  CASE op \in (46 .. 53) \cup (96 .. 115) \cup (120 .. 131) \cup (148 .. 152) \cup (159 .. 166) -> 2
        [] op \in 79 .. 86 -> 3
        [] op \in {182, 183, 185} -> 1 + Len(MethodType(desc).args)
        [] op = 184 -> Len(MethodType(desc).args)
        [] op = 186 -> Len(MethodType(in.k.refs[1].refs[2].data).args)
        [] op = 181 -> 2
        [] op = 197 -> in.b
        [] op \in (54 .. 78) \cup (116 .. 119) \cup (133 .. 147) \cup (153 .. 158) \cup (170 .. 176) \cup
                  {179, 180, 188, 189, 190, 191, 192, 193, 194, 195, 198, 199} -> 1
        [] OTHER -> 0

\* The value an instruction leaves, and the world after it.
Effect(m, in, vs) ==
  LET op == in.op
      w == m.w
      pure(v) == [w |-> w, v |-> v]
      ref == RefOf(in.k)
      x == <<ref[1], ref[2]>>
      special == op = 183 /\ ref[1] # cls.self
      called == AnyCall(w, IF special THEN "special" ELSE "call", ref, vs)
  IN  CASE op = 1 -> pure(NullVal) [] op \in 2 .. 8 -> pure(IntVal(op - 3)) [] op \in {9, 10} -> pure(Val("long", op - 9))
        [] op \in 11 .. 13 -> pure(Val("float", op - 11)) [] op \in {14, 15} -> pure(Val("double", op - 14))
        [] op \in {16, 17} -> pure(IntVal(in.a)) [] op \in 18 .. 20 -> pure(ConstVal(in.k))
        [] op \in 21 .. 45 -> pure(IF in.a \in DOMAIN m.locals THEN m.locals[in.a] ELSE Undefined)
        [] op \in 46 .. 53 -> pure(ElementVal(w, vs[1], vs[2], ElementTypes[op - 45]))
        [] op \in 79 .. 86 -> [w |-> PutElement(w, vs[1], vs[2], vs[3]), v |-> NoVal]
        [] op \in 96 .. 115 -> pure(Arithmetic(<<"add", "sub", "mul", "div", "rem">>[(op - 92) \div 4], vs[1], vs[2]))
        [] op \in 116 .. 119 -> pure(Val(vs[1][1], WrapNeg(vs[1][2])))
        [] op \in 120 .. 131 -> pure(Arithmetic(<<"shl", "shr", "ushr", "bitand", "bitor", "xor">>[(op - 118) \div 2], vs[1], vs[2]))
        [] op \in 133 .. 147 -> pure(Converted(ConvertedTo[op - 132], vs[1]))
        [] op \in 148 .. 152 -> pure(Sign(vs[1], vs[2]))
        [] op = 178 -> pure(FieldVal(w, NoVal, x, FieldType(ref[3]))) [] op = 180 -> pure(FieldVal(w, vs[1], x, FieldType(ref[3])))
        [] op = 179 -> [w |-> PutField(w, NoVal, x, vs[1]), v |-> NoVal] [] op = 181 -> [w |-> PutField(w, vs[1], x, vs[2]), v |-> NoVal]
        [] op \in Invokes -> called
        [] op = 186 -> Site(w, in, vs)
        [] op = 187 -> Alloc(w, "raw", << >>)
        [] op = 188 -> AllocArray(w, <<<<90>>, <<67>>, <<70>>, <<68>>, <<66>>, <<83>>, IntType, <<74>>>>[in.a - 3], vs, 0)
        [] op = 189 -> AllocArray(w, ObjectType, vs, 0)
        [] op = 197 -> AllocArray(w, IntType, vs, Cardinality({k \in DOMAIN in.k.refs[1].data : in.k.refs[1].data[k] = 91}) - in.b)
        [] op = 190 -> pure(LengthVal(w, vs[1])) [] op = 192 -> pure(vs[1]) [] op = 193 -> pure(IsInstance(vs[1]))
        [] op = 194 -> [w |-> Happen(w, <<"enter">>, vs), v |-> NoVal] [] op = 195 -> [w |-> Happen(w, <<"exit">>, << >>), v |-> NoVal]
        [] OTHER -> pure(NoVal)

\* A constructor turns the raw object into one, wherever it is held.
Initialize(m, in, vs) ==
  LET ref == RefOf(in.k)
      types == MethodType(ref[3]).args
      args == IF types # << >> /\ Tail(Last(<<IntType>> \o types)) \in LibSynthetic THEN Front(Tail(vs)) ELSE Tail(vs)
      With(built) ==
        LET Inited(v) == IF v = vs[1] THEN built.v ELSE v
        IN  [m EXCEPT !.w = built.w, !.stack = [k \in DOMAIN Below(@, Len(vs)) |-> Inited(@[k])],
                      !.locals = [s \in DOMAIN @ |-> Inited(@[s])]]
  IN  With(IF vs[1] = ThisVal THEN [w |-> Happen(m.w, <<"ctor">> \o ref, args), v |-> ThisVal] ELSE Build(m.w, ref[1], args))

Case(in, n) == LET k == SelectInSeq(in.cases, LAMBDA e : e[1] = n) IN IF k = 0 THEN in.a ELSE in.cases[k][2]
Left(m, done) == [m EXCEPT !.w = done.w, !.stack = @ \o Words(done.v)]
StepWith(m, in, vs, next) ==
  LET op == in.op
      jumps == CASE op \in Gotos -> in.a [] op \in Switches -> Case(in, vs[1][2]) [] OTHER -> IF Taken2(op, vs) THEN in.a ELSE 1
  IN  CASE op \in (153 .. 167) \cup {170, 171, 198, 199, 200} -> [next EXCEPT !.at = m.at + jumps]
        [] op \in 172 .. 177 -> [next EXCEPT !.out = <<"return", DeepAll(m.w, vs)>>]
        [] op = 191 -> [next EXCEPT !.out = <<"throw", DeepAll(m.w, vs)>>]
        [] op \in 54 .. 78 -> [next EXCEPT !.locals = (in.a :> vs[1]) @@ @]
        [] op = 132 -> [next EXCEPT !.locals[in.a] = IntVal(@[2] + in.b)]
        [] op \in 87 .. 88 -> [next EXCEPT !.stack = SubSeq(@, 1, Len(@) - (op - 86))]
        [] op \in 89 .. 95 -> [next EXCEPT !.stack = MoveWords(@, WordMoves[op - 88])]
        [] op = 183 /\ RefOf(in.k)[2] = InitName -> [Initialize(m, in, vs) EXCEPT !.at = @ + 1]
        [] OTHER -> Left(next, Effect(m, in, vs))
Step(m, in) == StepWith(m, in, Taken(m.stack, Takes(in)), [m EXCEPT !.stack = Below(@, Takes(in)), !.at = @ + 1])

Result(out, w) == [out |-> out, trace |-> w.trace, writes |-> DeepAll(w, w.writes)]
RECURSIVE RunFrom(_, _, _)
RunFrom(code, m, fuel) == IF m.out # << >> \/ fuel = 0 THEN m ELSE RunFrom(code, Step(m, code[m.at]), fuel - 1)
Machine(code, locals, seed, fuel) ==
  LET Ends(m) == Result(m.out, m.w)
  IN  Ends(RunFrom(code, [at |-> 1, stack |-> << >>, locals |-> locals, w |-> World(seed), out |-> << >>], fuel))

-----------------------------------------------------------------------------
(* The evaluator: expressions from left to right, as Java does.            *)

Gives(s, v) == [s EXCEPT !.v = v]
Binary == {"add", "sub", "mul", "div", "rem", "shl", "shr", "ushr", "bitand", "bitor", "xor"}
Comparing == {"eq", "ne", "lt", "ge", "gt", "le", "refEq", "refNe"}

\* What a variable, a field or an element holds, its owner's parts being vs.
OwnerVal(e, v) == IF e.kids[1] # NoExpr THEN v ELSE IF e.n = 1 THEN NoVal ELSE ThisVal
ReadAt(t, vs, s) ==
  CASE t.op = "local" -> s.vars[t.n]
    [] t.op = "index" -> ElementVal(s.w, vs[1], vs[2], Erased(t.ty))
    [] t.op = "field" -> IF t.x[1] = << >> THEN LengthVal(s.w, vs[1]) ELSE FieldVal(s.w, OwnerVal(t, vs[1]), t.x, Erased(t.ty))
    [] OTHER -> Wrong
WriteAt(t, vs, v, s) ==
  CASE t.op = "local" -> [s EXCEPT !.vars[t.n] = v, !.v = v]
    [] t.op = "index" -> [s EXCEPT !.w = PutElement(@, vs[1], vs[2], v), !.v = v]
    [] t.op = "field" -> [s EXCEPT !.w = PutField(@, OwnerVal(t, vs[1]), t.x, v), !.v = v]
    [] OTHER -> Gives(s, Wrong)

\* The arguments of a call, the last ones packed if their number varies.
Packed(s, ref, args) ==
  LET n == Len(MethodType(ref[3]).args)
      whole == Len(args) = n /\ Last(args)[1] \in {"arr", "null", "ref"}
      rest == Alloc(s.w, "arr", SubSeq(args, n, Len(args)))
  IN  IF ref \notin LibVarargs \cup OwnVarargs \/ whole THEN [w |-> s.w, vs |-> args]
      ELSE [w |-> rest.w, vs |-> Append(SubSeq(args, 1, n - 1), rest.v)]

RECURSIVE Ev(_, _)
EvAll(es, s) ==
  FoldLeft(LAMBDA r, e : LET t == Ev(e, r.s) IN [s |-> t, vs |-> Append(r.vs, t.v)], [s |-> s, vs |-> << >>], es)

Outcome(s, o) == [s EXCEPT !.w = o.w, !.v = o.v]
CallWith(e, s, self, packed) ==
  IF e.x[2] = InitName THEN [s EXCEPT !.w = Happen(packed.w, <<"ctor">> \o e.x, packed.vs), !.v = ThisVal]
  ELSE Outcome(s, AnyCall(packed.w, IF e.n = 1 THEN "special" ELSE "call", e.x, self \o packed.vs))
EvCall(e, r) ==
  CallWith(e, r.s, IF e.kids[1] # NoExpr THEN <<r.vs[1]>> ELSE IF e.n = 184 THEN << >> ELSE <<ThisVal>>,
           Packed(r.s, e.x, Tail(r.vs)))

ArrayFrom(e, r) == Outcome(r.s, IF Len(e.kids) = 2 THEN Alloc(r.s.w, "arr", SubSeq(r.vs, Len(e.kids[1].kids) + 1, Len(r.vs)))
                                ELSE AllocArray(r.s.w, IF e.n = 0 THEN e.x[1] ELSE ObjectType, r.vs, e.n))

\* An assignment, owner being what its target's parts are.
AssignTo(e, owner, value) ==
  LET t == e.kids[1]
  IN  WriteAt(t, owner.vs, IF e.n = 1 THEN Arithmetic("add", ReadAt(t, owner.vs, owner.s), value.v) ELSE value.v, value)
StepFrom(e, owner, before) ==
  LET after == WriteAt(e.kids[1], owner.vs, Val(before[1], before[2] + e.n), owner.s)
  IN  IF e.op = "pre" THEN after ELSE Gives(after, before)
EvStep(e, owner) == StepFrom(e, owner, ReadAt(e.kids[1], owner.vs, owner.s))

\* An expression whose parts have been evaluated to r.
Strict(e, r) ==
  LET s == r.s
      v == r.vs
  IN  CASE e.op = "none" -> Gives(s, NoVal) [] e.op = "int" -> Gives(s, IntVal(e.n)) [] e.op = "long" -> Gives(s, Val("long", e.n))
        [] e.op \in {"float", "double"} -> Gives(s, <<e.op, e.n, e.x>>)
        [] e.op \in {"str", "text"} -> Gives(s, StrOf(e.x[1])) [] e.op = "class" -> Gives(s, <<"cls", 0, e.x[1]>>)
        [] e.op = "null" -> Gives(s, NullVal) [] e.op = "this" -> Gives(s, ThisVal)
        [] e.op \in {"local", "field", "index"} -> Gives(s, ReadAt(e, v, s))
        [] e.op \in Binary -> Gives(s, Arithmetic(e.op, v[1], v[2]))
        [] e.op \in Comparing -> Gives(s, Truth(Holds(e.op, v[1], v[2])))
        [] e.op = "cmp" -> Gives(s, Sign(v[1], v[2]))
        [] e.op = "neg" -> Gives(s, Val(v[1][1], WrapNeg(v[1][2]))) [] e.op = "not" -> Gives(s, Truth(v[1][2] = 0))
        [] e.op = "cast" -> Gives(s, Converted(Erased(e.ty), v[1])) [] e.op = "instanceof" -> Gives(s, IsInstance(v[1]))
        [] e.op = "new" -> IF e.n = 1 THEN Gives(s, Wrong) ELSE Outcome(s, Build(s.w, e.x[1], v))
        [] e.op = "method" -> EvCall(e, r)
        [] e.op = "concat" -> Gives(s, Str(DeepAll(s.w, v)))
        [] e.op = "lambda" -> Gives(s, <<"lam", 0, <<TextVal(e.x[4])>> \o v>>)
        [] e.op = "indy" -> LET w == Happen(s.w, <<"site", e.x[1]>>, v) IN [s EXCEPT !.w = w, !.v = Fresh(e.ty, Now(w))]
        [] OTHER -> Gives(s, Wrong)

\* One whose first part, evaluated, says what else is.
EvAfter(e, first) ==
  LET true == first.v[2] # 0
  IN  IF e.op = "cond" THEN Ev(IF true THEN e.kids[2] ELSE e.kids[3], first)
      ELSE IF true = (e.op = "or") THEN Gives(first, Truth(true)) ELSE Ev(e.kids[2], first)
AssignAfter(e, owner) == AssignTo(e, owner, Ev(e.kids[2], owner.s))

Ev(e, s) == CASE e.op \in {"and", "or", "cond"} -> EvAfter(e, Ev(e.kids[1], s))
              [] e.op = "assign" -> AssignAfter(e, EvAll(e.kids[1].kids, s))
              [] e.op \in {"pre", "post"} -> EvStep(e, EvAll(e.kids[1].kids, s))
              [] e.op = "newarray" -> ArrayFrom(e, EvAll(e.kids[1].kids \o InitOf(e), s))
              [] OTHER -> Strict(e, EvAll(e.kids, s))

StmtDone(st, m, s) ==
  CASE st.op = "error" -> [m EXCEPT !.out = <<"error", << >>>>]
    [] st.op = "def" -> [m EXCEPT !.s = [s EXCEPT !.vars[st.n] = s.v]]
    [] st.op \in {"enter", "exit"} -> [m EXCEPT !.s = [s EXCEPT !.w = Happen(@, <<st.op>>, IF st.op = "enter" THEN <<s.v>> ELSE << >>)]]
    [] OTHER -> [m EXCEPT !.s = s]
EvStmt(st, m) == IF m.out # << >> THEN m ELSE StmtDone(st, m, IF st.kids = << >> THEN m.s ELSE Ev(st.kids[1], m.s))

\* A block, and where control goes from it.  The root of a folded diamond
\* goes straight to the merge, whose stack holds the diamond's value.
Leave(g, term, m, s) ==
  LET succ == g.blocks[m.at].succ
      case == SelectInSeq(term.cases, LAMBDA e : e[1] = s.vs[1][2])
      go(b) == [m EXCEPT !.s = s.s, !.at = b]
  IN  CASE term.op \in {"return", "throw"} -> [m EXCEPT !.s = s.s, !.out = <<term.op, DeepAll(s.s.w, s.vs)>>]
        [] term.op \in {"fall", "goto"} -> IF succ = << >> THEN [m EXCEPT !.out = <<"lost", << >>>>] ELSE go(succ[1])
        [] term.op = "cond" -> go(succ[IF s.vs[1][2] # 0 THEN 2 ELSE 1])
        [] term.op = "switch" -> go(BlockOf(g.starts, IF case = 0 THEN term.default ELSE term.cases[case][2]))
        [] OTHER -> [m EXCEPT !.out = <<"lost", << >>>>]
Turn(g, term, regions, m) ==
  LET here == {r \in regions : r.root = m.at}
      widest == CHOOSE r \in here : \A q \in here : Cardinality(q.blocks) <= Cardinality(r.blocks)
  IN  IF m.out # << >> THEN m
      ELSE IF here # {} THEN [m EXCEPT !.at = widest.merge] ELSE Leave(g, term, m, EvAll(term.kids, m.s))
EvBlock(g, results, regions, start) ==
  Turn(g, results[start.at].term, regions, FoldLeft(LAMBDA m, st : EvStmt(st, m), start, results[start.at].stmts))

RECURSIVE EvFrom(_, _, _, _, _)
EvFrom(g, results, regions, m, fuel) ==
  IF m.out # << >> \/ fuel = 0 THEN m ELSE EvFrom(g, results, regions, EvBlock(g, results, regions, m), fuel - 1)

Evaluator(g, results, locals, seed, fuel) ==
  LET held(v) == IF v.param /\ v.slot \in DOMAIN locals THEN locals[v.slot] ELSE Undefined
      s == [vars |-> [v \in DOMAIN build.vars |-> held(build.vars[v])], w |-> World(seed), v |-> NoVal]
      Ends(m) == Result(m.out, m.s.w)
  IN  Ends(EvFrom(g, results, build.regions, [at |-> 1, s |-> s, out |-> << >>], fuel))
=============================================================================
