--------------------------- MODULE FrontEndPrograms ---------------------------
(***************************************************************************)
(* Methods to read: an assembler, and programs written with it the way     *)
(* compilers write them.                                                   *)
(*                                                                         *)
(* An instruction is [op, a, b, k, x, cases, wide].  The operand a is a    *)
(* number or a local; of a jump it is where to, counted in instructions    *)
(* from the jump, and of a switch where its default is; k is a constant; x *)
(* says what a call site is there for.  The method written is called run,  *)
(* takes this, two ints, an array of int, an object and a long in the      *)
(* slots 0 to 6, and may use the slots from 7 on.                          *)
(***************************************************************************)
EXTENDS FrontEndInputs

NoSite == [kind |-> "none", parts |-> << >>, name |-> << >>, ret |-> << >>]
Ins(op, a) == [op |-> op, a |-> a, b |-> 0, k |-> NoConst, x |-> NoSite, cases |-> << >>, wide |-> FALSE]
InsB(op, a, b) == [Ins(op, a) EXCEPT !.b = b]
InsK(op, k) == [Ins(op, 0) EXCEPT !.k = k]
O(op) == <<Ins(op, 0)>>
Jump(op, to) == <<Ins(op, to)>>

\* The fields behind an opcode; the wide form of one has another layout.
Layout(in) ==
  CASE in.wide -> IF in.op = 132 THEN <<"a2", "b2">> ELSE <<"a2">>
    [] ~in.wide ->
         CASE in.op \in {16, 188} \cup (21 .. 25) \cup (54 .. 58) -> <<"a1">> [] in.op = 17 -> <<"a2">> [] in.op = 18 -> <<"k1">>
           [] in.op = 132 -> <<"a1", "b1">> [] in.op \in (153 .. 168) \cup {198, 199} -> <<"j2">> [] in.op \in {200, 201} -> <<"j4">>
           [] in.op = 197 -> <<"k2", "b1">> [] in.op = 185 -> <<"k2", "b1", "0">> [] in.op = 186 -> <<"k2", "0", "0">>
           [] in.op \in {19, 20} \cup (178 .. 184) \cup {187, 189, 192, 193} -> <<"k2">> [] OTHER -> << >>
Width(field) == CASE field \in {"a1", "b1", "k1", "0"} -> 1 [] field = "j4" -> 4 [] OTHER -> 2
RECURSIVE WidthOf(_), Places(_, _)
WidthOf(fields) == IF fields = << >> THEN 0 ELSE Width(Head(fields)) + WidthOf(Tail(fields))
SizeAt(in, pc) ==
  LET padding == (4 - ((pc + 1) % 4)) % 4
  IN  CASE in.op = 170 -> 13 + padding + 4 * Len(in.cases) [] in.op = 171 -> 9 + padding + 8 * Len(in.cases)
        [] OTHER -> 1 + WidthOf(Layout(in)) + (IF in.wide THEN 1 ELSE 0)
Places(prog, pc) == IF prog = << >> THEN <<pc>> ELSE <<pc>> \o Places(Tail(prog), pc + SizeAt(Head(prog), pc))

\* The instruction at number i, as bytes and as it should be read back; at
\* are the places of all, and no(k) of constant k its number.
Encoded(prog, pool, at, i) ==
  LET in == prog[i]
      no == Number(pool, in.k)
      to(n) == at[i + n]
      field(f) == CASE f = "a1" -> <<in.a % 256>> [] f = "a2" -> N2(in.a % 65536) [] f = "b1" -> <<in.b % 256>> [] f = "b2" -> N2(in.b % 65536)
                    [] f = "k1" -> <<no>> [] f = "k2" -> N2(no) [] f = "j2" -> N2((to(in.a) - at[i]) % 65536)
                    [] f = "j4" -> N4(to(in.a) - at[i]) [] f = "0" -> <<0>>
      fields == Layout(in)
      off(n) == N4(to(n) - at[i])
      keys == [c \in DOMAIN in.cases |-> in.cases[c][1]]
      table == CASE in.op = 170 -> N4(keys[1]) \o N4(Last(keys)) \o FlattenSeq([c \in DOMAIN in.cases |-> off(in.cases[c][2])])
                 [] in.op = 171 -> N4(Len(keys)) \o FlattenSeq([c \in DOMAIN in.cases |-> N4(keys[c]) \o off(in.cases[c][2])])
                 [] OTHER -> << >>
      padding == [n \in 1 .. (4 - ((at[i] + 1) % 4)) % 4 |-> 0]
      switch == in.op \in {170, 171}
  IN  [b |-> (IF in.wide THEN <<196>> ELSE << >>) \o <<in.op>> \o FlattenSeq([f \in DOMAIN fields |-> field(fields[f])])
             \o (IF switch THEN padding \o off(in.a) \o table ELSE << >>),
       v |-> [pc |-> at[i], size |-> at[i + 1] - at[i], op |-> in.op, b |-> in.b,
              a |-> CASE fields # << >> -> (CASE Head(fields) \in {"k1", "k2"} -> no [] Head(fields) \in {"j2", "j4"} -> to(in.a) [] OTHER -> in.a)
                      [] switch -> to(in.a) [] OTHER -> 0,
              default |-> IF switch THEN to(in.a) ELSE 0,
              cases |-> [c \in DOMAIN in.cases |-> <<keys[c], to(in.cases[c][2])>>]]]
RECURSIVE EncodedFrom(_, _, _, _)
EncodedFrom(prog, pool, at, i) == IF i > Len(prog) THEN << >> ELSE <<Encoded(prog, pool, at, i)>> \o EncodedFrom(prog, pool, at, i + 1)

-----------------------------------------------------------------------------
(* A method and the class around it.  A program says what it returns, its  *)
(* instructions, exception ranges <<from, to, handler>> and debug entries  *)
(* <<from, to, name, descriptor, slot>> by instruction, the signatures     *)
(* among them, bootstrap methods <<handle, arguments>>, and other methods  *)
(* <<flags, name, descriptor>> of the class.                               *)

IntTy == <<73>>
LongTy == <<74>>
FloatTy == <<70>>
DoubleTy == <<68>>
BoolTy == <<90>>
ObjTy == <<76, 79, 59>>
StrTy == <<76, 1, 59>>
ArrTy == <<91, 73>>
VoidTy == <<86>>
DescOf(args, ret) == <<40>> \o FlattenSeq(args) \o <<41>> \o ret
RunArgs == <<IntTy, IntTy, ArrTy, ObjTy, LongTy>>
Self == <<65>>
Super == <<66>>
Init0 == <<60>>
RunName == <<114>>
Program(ret, prog) == [ret |-> ret, prog |-> prog, static |-> FALSE, ranges |-> << >>, lvt |-> << >>, lvtt |-> << >>, boots |-> << >>, others |-> << >>]

LocalsOf(i, j) == 0 :> <<"this", 0, << >>>> @@ 1 :> <<"int", i, << >>>> @@ 2 :> <<"int", j, << >>>> @@ 3 :> <<"ref", 50, << >>>>
                  @@ 4 :> <<"ref", 51, << >>>> @@ 5 :> <<"long", i + 1, << >>>>
Runs == {[locals |-> LocalsOf(0, 0), seed |-> 0], [locals |-> LocalsOf(0, 5), seed |-> 1], [locals |-> LocalsOf(5, 3), seed |-> 3],
         [locals |-> LocalsOf(3, 3), seed |-> 2]}

ProgramFile(p) ==
  LET used == SelectSeq([i \in DOMAIN p.prog |-> p.prog[i].k], LAMBDA k : k # NoConst)
      booted == FlattenSeq([n \in DOMAIN p.boots |-> <<p.boots[n][1]>> \o p.boots[n][2]])
      words(es) == FlattenSeq([n \in DOMAIN es |-> <<KUtf8(es[n][3]), KUtf8(es[n][4])>>])
      attrNames == <<"Code", "LocalVariableTable", "LocalVariableTypeTable", "BootstrapMethods">>
      methodNames == FlattenSeq([n \in DOMAIN p.others |-> <<KUtf8(p.others[n][2]), KUtf8(p.others[n][3])>>])
      desc == DescOf(RunArgs, p.ret)
      pool == PoolOf(used \o booted \o words(p.lvt) \o words(p.lvtt) \o methodNames \o [n \in DOMAIN attrNames |-> KUtf8(NameBytes(attrNames[n]))]
                     \o <<KClass(Self), KClass(Super), KUtf8(RunName), KUtf8(desc)>>)
      utf(s) == Number(pool, KUtf8(s))
      name(n) == utf(NameBytes(n))
      at == Places(p.prog, 0)
      made == EncodedFrom(p.prog, pool, at, 1)
      entry(e) == All(<<P2(at[e[1]]), P2(at[e[2]] - at[e[1]]), P2(utf(e[3])), P2(utf(e[4])), P2(e[5])>>)
      debug(n, es) == IF es = << >> THEN << >> ELSE <<AttrP(name(n), List2([k \in DOMAIN es |-> entry(es[k])]).b)>>
      ranges == [r \in DOMAIN p.ranges |-> <<at[p.ranges[r][1]], at[p.ranges[r][2]], at[p.ranges[r][3]], 0>>]
      code == N2(8) \o N2(16) \o N4(Last(at)) \o Bytes(made) \o List2([r \in DOMAIN ranges |-> All([q \in 1 .. 4 |-> P2(ranges[r][q])])]).b
              \o List2(debug("LocalVariableTable", p.lvt) \o debug("LocalVariableTypeTable", p.lvtt)).b
      member(flags, n, d, as) == All(<<P2(flags), P2(utf(n)), P2(utf(d)), List2(as)>>)
      site(boot) == All(<<P2(Number(pool, boot[1])), List2([a \in DOMAIN boot[2] |-> P2(Number(pool, boot[2][a]))])>>)
      sites == List2([n \in DOMAIN p.boots |-> site(p.boots[n])])
      attr == AttrP(name("BootstrapMethods"), sites.b)
  IN  ClassBytes(pool, Self, Super, << >>, << >>,
                 <<member(IF p.static THEN 8 ELSE 1, RunName, desc, <<AttrP(name("Code"), code)>>)>>
                   \o [n \in DOMAIN p.others |-> member(p.others[n][1], p.others[n][2], p.others[n][3], << >>)],
                 IF p.boots = << >> THEN << >> ELSE <<attr>>)
      @@ [attrs |-> IF p.boots = << >> THEN << >> ELSE <<[name |-> "BootstrapMethods", val |-> <<sites.v>>]>>,
          main |-> RunName, prog |-> p.prog, code |-> Values(made), ranges |-> ranges, runs |-> Runs]

-----------------------------------------------------------------------------
(* Pieces of programs.                                                     *)

\* Of the five kinds of values, in the order the opcodes have.
KindNo(ty) == CASE ty = LongTy -> 1 [] ty = FloatTy -> 2 [] ty = DoubleTy -> 3 [] ty[1] \in {76, 91} -> 4 [] OTHER -> 0
Access(op, short, ty, slot) ==
  IF slot < 4 THEN <<Ins(short + 4 * KindNo(ty) + slot, slot)>> ELSE <<Ins(op + KindNo(ty), slot)>>
Get(ty, slot) == Access(21, 26, ty, slot)
Set(ty, slot) == Access(54, 59, ty, slot)
Inc(slot, by) == <<InsB(132, slot, by)>>
Give(ty) == IF ty = VoidTy THEN O(177) ELSE O(172 + KindNo(ty))
NumberOf(n) == IF n \in -1 .. 5 THEN O(n + 3) ELSE IF n \in -128 .. 127 THEN <<Ins(16, n)>> ELSE IF n \in -32768 .. 32767 THEN <<Ins(17, n)>>
          ELSE <<InsK(18, KInt(n))>>
GetThis == Get(ObjTy, 0)
FieldRef(ty) == KMember(9, Self, <<102, Last(ty)>>, ty)
StaticRef(ty) == KMember(9, <<67>>, <<115, 104>>, ty)
Own(name, args, ret) == KMember(10, Self, name, DescOf(args, ret))
Other(name, args, ret) == KMember(10, <<67>>, name, DescOf(args, ret))
Call(k) == <<InsK(182, k)>>
CallStatic(k) == <<InsK(184, k)>>
CallSpecial(k) == <<InsK(183, k)>>
NewOf(class, args, desc) == <<InsK(187, KClass(class))>> \o O(89) \o args \o CallSpecial(KMember(10, class, Init0, desc))
GetField(ty) == GetThis \o <<InsK(180, FieldRef(ty))>>
Next0 == GetThis \o Call(Own(<<110>>, << >>, IntTy))          \* this.n()
=============================================================================
