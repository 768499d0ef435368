----------------------------- MODULE Expressions -----------------------------
(***************************************************************************)
(* Expressions and statements as builder.rs makes them.                    *)
(*                                                                         *)
(* An expression is [op, x, n, ty, kids]: its kind, the names in it, a     *)
(* number, its static type and its parts.  An absent part is NoExpr.       *)
(*   int long float double str text class null this                        *)
(*   local     n: the variable                                             *)
(*   field     x: class, name; n: 1 if static; kids: owner                 *)
(*   index     kids: array, index                                          *)
(*   add .. xor, eq .. le, refEq, refNe, and, or    kids: both sides       *)
(*   neg not cast instanceof                        kids: operand          *)
(*   assign    n: 1 for +=; kids: target, value                            *)
(*   pre post  n: what is added; kids: target                              *)
(*   new       x: class; n: 1 before its constructor is called             *)
(*   newarray  x: element type; n: levels left open; kids: dims[, init]    *)
(*   method    x: class, name, descriptor; n: opcode, 1 for super; kids:   *)
(*             owner, arguments                                            *)
(*   indy lambda concat cond, and cmp: a comparison waiting for its jump   *)
(***************************************************************************)
EXTENDS LocalTable, Bitwise

CONSTANT Known      \* the names the code looks for

Ex(op, x, n, ty, kids) == [op |-> op, x |-> x, n |-> n, ty |-> ty, kids |-> kids]
NoExpr == Ex("none", << >>, 0, NoType, << >>)

BoolType == <<90>>
StringType == ClassType(Known.String)
IntC(i) == Ex("int", << >>, i, IntType, << >>)
LongC(i) == Ex("long", << >>, i, <<74>>, << >>)
FloatC(x, i) == Ex("float", x, i, <<70>>, << >>)
DoubleC(x, i) == Ex("double", x, i, <<68>>, << >>)
Null == Ex("null", << >>, 0, ObjectType, << >>)
This == Ex("this", << >>, 0, ObjectType, << >>)
Text(bytes) == Ex("text", <<bytes>>, 0, StringType, << >>)
Bin(op, l, r, ty) == Ex(op, << >>, 0, ty, <<l, r>>)
Cast(ty, e) == Ex("cast", << >>, 0, ty, <<e>>)
NotOf(e) == Ex("not", << >>, 0, BoolType, <<e>>)
Assign(target, value) == Ex("assign", << >>, 0, target.ty, <<target, value>>)
AddAssign(target, value) == Ex("assign", << >>, 1, target.ty, <<target, value>>)
Pre(e, delta) == Ex("pre", << >>, delta, e.ty, <<e>>)
Post(e, delta) == Ex("post", << >>, delta, e.ty, <<e>>)
CondExpr(c, t, f) == Ex("cond", << >>, 0, t.ty, <<c, t, f>>)
IndexType(ty) == IF ty[1] = 91 THEN Tail(ty) ELSE ObjectType
Index(array, i) == Ex("index", << >>, 0, IndexType(array.ty), <<array, i>>)
Field(owner, class, name, ty, static) == Ex("field", <<class, name>>, IF static THEN 1 ELSE 0, ty, <<owner>>)
Concat(parts) == Ex("concat", << >>, 0, StringType, parts)
New(class, args, raw) == Ex("new", <<class>>, IF raw THEN 1 ELSE 0, ClassType(class), args)
Method(owner, ref, kind, args) == Ex("method", ref, kind, MethodType(ref[3]).ret, <<owner>> \o args)

Dims(ds) == Ex("dims", << >>, 0, NoType, ds)
ElementsNode(vs) == Ex("init", << >>, 0, NoType, vs)
ArrayTy(elem, levels) == [k \in 1 .. levels |-> 91] \o elem
NewArray(elem, dims, open) == Ex("newarray", <<elem>>, open, ArrayTy(elem, Len(dims) + open), <<Dims(dims)>>)
InitOf(e) == IF Len(e.kids) = 2 THEN e.kids[2].kids ELSE << >>
WithInit(e, vs) == [e EXCEPT !.kids = <<@[1], ElementsNode(vs)>>]
SameShape(e, f) == e.op = "newarray" /\ f.op = "newarray" /\ e.x = f.x /\ e.n = f.n /\ e.kids[1] = f.kids[1]

Constants == {"int", "long", "float", "double", "str", "class", "null"}

\* Statements: an expression, a definition of variable n, the entry and the
\* exit of a monitor, and the note left where a method could not be built.
St(op, n, kids) == [op |-> op, n |-> n, kids |-> kids]
ExprSt(e) == St("expr", 0, <<e>>)
Def(v, e) == St("def", v, <<e>>)

\* Would dropping the expression change anything?
RECURSIVE HasSideEffects(_)
HasSideEffects(e) ==
  \/ e.op \in {"new", "method", "indy", "cmp", "lambda", "assign", "pre", "post", "index"}
  \/ e.op = "field" /\ e.kids # <<NoExpr>>
  \/ e.op \notin {"field"} /\ \E k \in Range(e.kids) : HasSideEffects(k)

-----------------------------------------------------------------------------
(* Constants are folded.  Numbers are 32 bits wide; no product, quotient   *)
(* or bit pattern of the inputs leaves the non-negative half.              *)

MaxI == 2147483647
WrapAdd(a, b) == IF a >= 0 /\ b > MaxI - a THEN (a - MaxI - 1) + (b - MaxI - 1)
                 ELSE IF a < 0 /\ b < (-MaxI - 1) - a THEN (a + MaxI + 1) + (b + MaxI + 1) ELSE a + b
WrapNeg(a) == IF a = -MaxI - 1 THEN a ELSE -a
WrapSub(a, b) == IF b = -MaxI - 1 THEN WrapAdd(WrapAdd(a, MaxI), 1) ELSE WrapAdd(a, -b)

Quotient(a, b) == LET q == (IF a < 0 THEN -a ELSE a) \div (IF b < 0 THEN -b ELSE b) IN IF (a < 0) = (b < 0) THEN q ELSE -q
Ints == {"add", "sub", "mul", "div", "rem", "bitand", "bitor", "xor", "shl", "shr", "ushr"}
Longs == {"add", "sub", "mul", "div", "rem"}
FoldNumbers(op, a, b) ==
  CASE op = "add" -> WrapAdd(a, b) [] op = "sub" -> WrapSub(a, b) [] op = "mul" -> a * b
    [] op = "div" -> Quotient(a, b) [] op = "rem" -> a - b * Quotient(a, b)
    [] op = "bitand" -> a & b [] op = "bitor" -> a | b [] op = "xor" -> a ^^ b
    [] op = "shl" -> a * 2 ^ (b % 32) [] op \in {"shr", "ushr"} -> a \div 2 ^ (b % 32)

Foldable(op, l, r) ==
  LET divides == op \in {"div", "rem"} => r.n # 0
  IN  \/ l.op = "int" /\ r.op = "int" /\ op \in Ints /\ divides
      \/ l.op = "long" /\ r.op = "long" /\ op \in Longs /\ divides
      \/ l.op = "str" /\ r.op = "str" /\ op = "add"
FoldConsts(op, l, r) ==
  IF l.op = "str" THEN [l EXCEPT !.x = <<@[1] \o r.x[1]>>] ELSE [l EXCEPT !.n = FoldNumbers(op, @, r.n)]

\* 0 and 1 as the truth values they stand for.
Booleanize(e) ==
  CASE e.op = "cond" /\ e.kids[2] = IntC(1) /\ e.kids[3] = IntC(0) -> e.kids[1]
    [] e.op = "cond" /\ e.kids[2] = IntC(0) /\ e.kids[3] = IntC(1) -> NotOf(e.kids[1])
    [] e.op = "eq" /\ e.kids[2] = IntC(0) /\ e.kids[1].ty = BoolType -> NotOf(e.kids[1])
    [] e.op = "ne" /\ e.kids[2] = IntC(0) /\ e.kids[1].ty = BoolType -> e.kids[1]
    [] OTHER -> e
=============================================================================
