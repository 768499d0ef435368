--------------------------- MODULE FrontEndFamilies ---------------------------
(***************************************************************************)
(* The programs of the check: values of every kind in every use, tests and *)
(* what they lead to, switches, arrays, call sites, and debug tables.      *)
(***************************************************************************)
EXTENDS FrontEndPrograms

I == Get(IntTy, 1)
J == Get(IntTy, 2)
Arr == Get(ArrTy, 3)
Obj == Get(ObjTy, 4)
Q == Get(LongTy, 5)
ClassC == KClass(<<67>>)
Hi == KStr(<<104, 105>>)

-----------------------------------------------------------------------------
(* Values, each <<instructions, type>>: first those that are only looked   *)
(* up or computed, then those that do something, then those for which a    *)
(* statement is made on the way.                                           *)

Quiet ==
  <<<<NumberOf(-1), IntTy>>, <<NumberOf(5), IntTy>>, <<NumberOf(-100), IntTy>>, <<NumberOf(-1000), IntTy>>, <<NumberOf(70000), IntTy>>, <<O(10), LongTy>>,
    <<<<InsK(20, KLong(77))>>, LongTy>>, <<O(12), FloatTy>>, <<<<InsK(18, KFloat(9))>>, FloatTy>>, <<O(15), DoubleTy>>,
    <<<<InsK(20, KDouble(8))>>, DoubleTy>>, <<O(1), ObjTy>>, <<<<InsK(18, Hi)>>, StrTy>>, <<<<InsK(19, ClassC)>>, ObjTy>>,
    <<I, IntTy>>, <<Obj, ObjTy>>, <<Q, LongTy>>, <<GetThis, ObjTy>>, <<Arr, ArrTy>>, <<[I EXCEPT ![1] = [Ins(21, 1) EXCEPT !.wide = TRUE]], IntTy>>,
    <<I \o J \o O(96), IntTy>>, <<I \o NumberOf(1) \o O(100), IntTy>>, <<I \o J \o O(108), IntTy>>, <<J \o NumberOf(2) \o O(120), IntTy>>,
    <<I \o NumberOf(3) \o O(126), IntTy>>, <<Q \o Q \o O(105), LongTy>>, <<I \o O(116), IntTy>>, <<I \o O(133), LongTy>>,
    <<Q \o O(136), IntTy>>, <<I \o NumberOf(100) \o O(104) \o O(145), IntTy>>, <<I \o O(134) \o O(141), DoubleTy>>, <<NumberOf(3) \o O(133), LongTy>>,
    <<NumberOf(7) \o NumberOf(2) \o O(108), IntTy>>, <<NumberOf(2) \o NumberOf(3) \o O(100) \o O(116), IntTy>>, <<NumberOf(6) \o NumberOf(3) \o O(130), IntTy>>,
    <<Arr \o O(190), IntTy>>, <<Obj \o <<InsK(193, ClassC)>>, IntTy>>, <<Obj \o <<InsK(192, ClassC)>>, <<76, 67, 59>>>>,
    <<GetThis \o <<InsK(180, FieldRef(IntTy))>>, IntTy>>, <<GetThis \o <<InsK(180, FieldRef(LongTy))>>, LongTy>>,
    <<<<InsK(178, StaticRef(ObjTy))>>, ObjTy>>, <<<<InsK(178, StaticRef(BoolTy))>>, IntTy>>, <<Arr \o J \o O(46), IntTy>>>>

CallOther(ret) == Obj \o I \o <<[InsK(185, KMember(11, <<67>>, <<105>>, DescOf(<<IntTy>>, ret))) EXCEPT !.b = 2]>>
Appended(arg, ty) == arg \o Call(KMember(10, <<5>>, <<8>>, DescOf(<<ty>>, <<76, 5, 59>>)))
Builder(parts) == NewOf(<<5>>, << >>, DescOf(<< >>, VoidTy)) \o parts \o Call(KMember(10, <<5>>, <<7>>, DescOf(<< >>, StrTy)))
Acting ==
  <<<<Next0, IntTy>>, <<CallOther(IntTy), IntTy>>, <<I \o CallStatic(Other(<<115>>, <<IntTy>>, IntTy)), IntTy>>,
    <<GetThis \o CallSpecial(KMember(10, Super, <<110>>, DescOf(<< >>, IntTy))), IntTy>>, <<I \o Inc(1, 1), IntTy>>, <<Inc(1, 1) \o I, IntTy>>,
    <<I \o Inc(1, -1), IntTy>>, <<Next0 \o J \o O(96), IntTy>>, <<I \o Next0 \o O(100), IntTy>>, <<GetThis \o CallSpecial(Own(<<112>>, << >>, IntTy)), IntTy>>,
    <<CallOther(BoolTy), IntTy>>, <<CallOther(LongTy), LongTy>>, <<CallOther(DoubleTy), DoubleTy>>, <<CallOther(ObjTy), ObjTy>>,
    <<NewOf(<<67>>, I, DescOf(<<IntTy>>, VoidTy)), ObjTy>>, <<NewOf(<<67>>, Next0 \o CallOther(IntTy), DescOf(<<IntTy, IntTy>>, VoidTy)), ObjTy>>,
    <<Builder(Appended(I, IntTy) \o Appended(<<InsK(18, Hi)>>, StrTy) \o Appended(Next0, IntTy)), StrTy>>,
    <<Next0 \o CallStatic(KMember(10, <<1>>, <<9>>, DescOf(<<IntTy>>, StrTy))), StrTy>>,
    <<Next0 \o <<Ins(188, 10)>>, ArrTy>>, <<I \o NumberOf(2) \o <<[InsK(197, KClass(<<91, 91, 91, 73>>)) EXCEPT !.b = 2]>>, <<91, 91, 91, 73>>>>,
    <<Obj \o O(89) \o CallStatic(KMember(10, <<3>>, <<4>>, DescOf(<<ObjTy>>, ObjTy))) \o O(87) \o Call(KMember(10, <<67>>, <<113>>, DescOf(<< >>, IntTy))), IntTy>>>>

\* Arrays with what is put into them.
Filled(n, ty, newOp, storeOp, vs) ==
  NumberOf(n) \o newOp \o FlattenSeq([k \in DOMAIN vs |-> O(89) \o NumberOf(k - 1) \o vs[k] \o O(storeOp)])
Making ==
  <<<<J \o O(89) \o Set(IntTy, 1), IntTy>>, <<Obj \o O(89) \o Set(ObjTy, 7), ObjTy>>, <<Q \o O(92) \o Set(LongTy, 7), LongTy>>,
    <<Inc(1, 2) \o I, IntTy>>, <<Inc(1, -1) \o I, IntTy>>, <<<<[InsB(132, 1, 300) EXCEPT !.wide = TRUE]>> \o I, IntTy>>,
    <<Filled(2, ArrTy, <<Ins(188, 10)>>, 79, <<I, Next0>>), ArrTy>>, <<Filled(1, ObjTy, <<InsK(189, KClass(<<79>>))>>, 83, <<CallOther(ObjTy)>>), ObjTy>>,
    <<GetThis \o O(89) \o <<InsK(180, FieldRef(IntTy))>> \o NumberOf(1) \o O(96) \o <<InsK(181, FieldRef(IntTy))>> \o I, IntTy>>,
    <<Arr \o J \o O(92) \o O(46) \o Next0 \o O(96) \o O(79) \o J, IntTy>>, <<GetThis \o I \o O(90) \o <<InsK(181, FieldRef(IntTy))>> \o O(116), IntTy>>,
    <<Next0 \o I \o O(95) \o O(100), IntTy>>>>
Values0 == Quiet \o Acting \o Making

\* What a value is used for.
A1 == GetThis \o Call(Own(<<97>>, << >>, VoidTy))
B1 == GetThis \o Call(Own(<<98>>, << >>, VoidTy))
Ends(yes, no) == yes \o Give(IntTy) \o no \o Give(IntTy)
Uses == {"return", "local", "drop", "field", "argument", "static", "twice", "test", "switch", "element", "less", "null", "throw"}
Fits(use, ty) == CASE use \in {"test", "switch", "element"} -> ty = IntTy [] use = "less" -> ty[1] \in {73, 74, 70, 68}
                   [] use \in {"null", "throw"} -> KindNo(ty) = 4 [] OTHER -> TRUE
Wide2(ty) == KindNo(ty) \in {1, 3}
Used(use, v, ty) ==
  CASE use = "return" -> Program(ty, v \o Give(ty))
    [] use = "local" -> Program(ty, v \o Set(ty, 9) \o Get(ty, 9) \o Give(ty))
    [] use = "drop" -> Program(VoidTy, v \o O(IF Wide2(ty) THEN 88 ELSE 87) \o Give(VoidTy))
    [] use = "field" -> Program(VoidTy, GetThis \o v \o <<InsK(181, FieldRef(ty))>> \o Give(VoidTy))
    [] use = "argument" -> Program(VoidTy, GetThis \o v \o Call(Own(<<116>>, <<ty>>, VoidTy)) \o Give(VoidTy))
    [] use = "static" -> Program(VoidTy, v \o <<InsK(179, StaticRef(ty))>> \o Give(VoidTy))
    [] use = "twice" -> Program(ty, v \o Set(ty, 9) \o Get(ty, 9) \o O(IF Wide2(ty) THEN 92 ELSE 89) \o Set(ty, 11) \o Set(ty, 13) \o Get(ty, 11) \o Give(ty))
    [] use = "test" -> Program(IntTy, v \o Jump(153, 3) \o Ends(NumberOf(1), NumberOf(0)))
    [] use = "switch" -> Program(IntTy, v \o <<[Ins(171, 5) EXCEPT !.cases = <<<<0, 1>>, <<5, 3>>>>]>> \o Ends(NumberOf(1), NumberOf(0)) \o NumberOf(2) \o Give(IntTy))
    [] use = "element" -> Program(VoidTy, Arr \o NumberOf(1) \o v \o O(79) \o Give(VoidTy))
    [] use = "less" -> LET half == IF ty = IntTy THEN NumberOf(2) \o Jump(161, 3)
                                   ELSE (CASE ty = LongTy -> O(10) \o O(148) [] ty = FloatTy -> O(13) \o O(150) [] OTHER -> O(15) \o O(151)) \o Jump(155, 3)
                       IN  Program(IntTy, v \o half \o Ends(NumberOf(1), NumberOf(0)))
    [] use = "null" -> Program(IntTy, v \o Jump(198, 3) \o Ends(NumberOf(1), NumberOf(0)))
    [] use = "throw" -> Program(VoidTy, v \o O(191))

\* Two values one after the other, as arguments and as operands; two
\* statements one after the other.
IntValues == SelectSeq(<<Quiet[15], Quiet[39], Quiet[43], Quiet[21]>> \o Acting, LAMBDA v : v[2] = IntTy)
Pair(how, v, w) ==
  CASE how = "call" -> Program(IntTy, GetThis \o v \o w \o Call(Own(<<117>>, <<IntTy, IntTy>>, IntTy)) \o Give(IntTy))
    [] how = "sum" -> Program(IntTy, v \o w \o O(96) \o Give(IntTy))
    [] how = "element" -> Program(IntTy, Arr \o NumberOf(1) \o v \o O(79) \o w \o Give(IntTy))
Deeds == <<A1, GetThis \o I \o <<InsK(181, FieldRef(IntTy))>>, Inc(1, 1), Inc(1, 3), Next0 \o O(87), I \o Set(IntTy, 2), J \o Set(IntTy, 1),
           Arr \o J \o I \o O(79), Next0 \o Set(IntTy, 1), GetThis \o O(89) \o <<InsK(180, FieldRef(IntTy))>> \o J \o O(96) \o <<InsK(181, FieldRef(IntTy))>>>>
Deed2(s, t) == Program(IntTy, s \o t \o I \o J \o O(104) \o GetThis \o <<InsK(180, FieldRef(IntTy))>> \o O(96) \o Give(IntTy))

-----------------------------------------------------------------------------
(* Tests, each <<instructions, jump if it holds>>, and what hangs on them. *)

Tests0 == <<<<I, 153>>, <<I, 154>>, <<J, 157>>, <<I \o J, 161>>, <<I \o J, 162>>, <<Obj, 198>>, <<Obj \o GetThis, 165>>, <<Q \o O(10), 158>>,
            <<Next0, 154>>, <<Obj \o <<InsK(193, ClassC)>>, 153>>, <<CallOther(BoolTy), 153>>, <<Arr \o J \o O(46) \o I, 159>>>>
If(t, to) == IF t[2] = 158 THEN t[1] \o O(148) \o Jump(158, to) ELSE t[1] \o Jump(t[2], to)
Branches == {"if", "else", "choice", "and", "or", "both", "nested", "while", "until", "late", "copies", "under", "three", "mixed", "elsewhere"}
Branching(how, c, d) ==
  LET n == Len(If(d, 1))
      end == Give(IntTy)
      choice(yes, no) == If(c, 2 + Len(yes)) \o yes \o Jump(167, 1 + Len(no)) \o no
  IN  CASE how = "if" -> If(c, 1 + Len(A1)) \o A1 \o If(d, 1 + Len(B1)) \o B1 \o I \o end
        [] how = "else" -> If(c, 2 + Len(A1)) \o A1 \o Jump(167, 1 + Len(B1)) \o B1 \o If(d, 2) \o Inc(1, 1) \o I \o end
        [] how = "choice" -> choice(J, NumberOf(7)) \o end
        [] how = "and" -> If(c, n + 1 + Len(A1) + 1) \o If(d, 1 + Len(A1) + 1) \o A1 \o Jump(167, 1 + Len(B1)) \o B1 \o I \o end
        [] how = "or" -> If(c, n + 1) \o If(d, 1 + Len(A1) + 1) \o A1 \o Jump(167, 1 + Len(B1)) \o B1 \o I \o end
        [] how = "both" -> If(c, n + 3) \o If(d, 3) \o NumberOf(1) \o Jump(167, 2) \o NumberOf(0) \o end
        [] how = "nested" -> choice(If(d, 3) \o NumberOf(2) \o Jump(167, 2) \o NumberOf(3), J) \o end
        [] how = "while" -> I \o NumberOf(2) \o Jump(162, Len(If(c, 1)) + Len(A1) + 3) \o If(c, Len(A1) + 3) \o A1 \o Inc(1, 1)
                            \o Jump(167, 0 - Len(If(c, 1)) - Len(A1) - 4) \o I \o end
        [] how = "until" -> A1 \o Inc(1, 1) \o I \o NumberOf(3) \o Jump(161, 0 - Len(A1) - 3) \o If(c, 2) \o Inc(2, 1) \o J \o end
        [] how = "late" -> GetThis \o choice(Next0, I) \o If(d, 3) \o NumberOf(4) \o Jump(167, 2) \o NumberOf(5)
                           \o Call(Own(<<117>>, <<IntTy, IntTy>>, IntTy)) \o end
        [] how = "copies" -> choice(J \o O(89) \o Set(IntTy, 1), NumberOf(7)) \o I \o O(96) \o end
        [] how = "under" -> GetThis \o choice(A1 \o Next0, B1 \o NumberOf(2)) \o Call(Own(<<118>>, <<IntTy>>, IntTy)) \o end
        [] how = "three" -> If(c, n + Len(If(Tests0[2], 1)) + 1) \o If(d, Len(If(Tests0[2], 1)) + 3) \o If(Tests0[2], 3) \o J \o end \o NumberOf(9) \o end
        [] how = "mixed" -> If(c, n + 1) \o If(d, 3) \o I \o end \o If(d, 3) \o J \o end \o NumberOf(4) \o end
        [] how = "elsewhere" -> choice(J, NumberOf(7)) \o Set(IntTy, 1) \o If(d, 2) \o Inc(1, 1) \o I \o end

-----------------------------------------------------------------------------
(* Call sites, objects, ranges and debug tables, one program each.         *)

Factory(class, name) == KHandle(6, KMember(10, class, name, <<40, 41, 86>>))
Impl(kind, class, name) == KHandle(kind, KMember(10, class, name, <<40, 73, 41, 86>>))
SiteOf(args, ret, what, parts) == <<[InsK(186, KSite(0, <<109>>, DescOf(args, ret))) EXCEPT !.x = [kind |-> what, parts |-> parts, name |-> <<109>>, ret |-> ret]]>>
Joining(recipe, consts, vs, tys, parts) ==
  [Program(StrTy, FlattenSeq(vs) \o SiteOf(tys, StrTy, "concat", parts) \o Give(StrTy)) EXCEPT !.boots = <<<<Factory(<<16>>, <<18>>), <<KStr(recipe)>> \o consts>>>>]
Making0(impl, flag, name, vs, tys) ==
  [Program(ObjTy, vs \o SiteOf(tys, ObjTy, "lambda", <<<<flag, name>>>>) \o Give(ObjTy))
     EXCEPT !.boots = <<<<Factory(<<13>>, <<14>>), <<KType(<<40, 41, 86>>), impl, KType(<<40, 41, 86>>)>>>>>>]
LambdaName == <<12, 36, 48>>
Sites ==
  <<Joining(<<1, 44, 1>>, << >>, <<Next0, Obj>>, <<IntTy, ObjTy>>, <<<<0, 1>>, <<1, 44>>, <<0, 2>>>>),
    Joining(<<2, 1, 2>>, <<Hi, KStr(<<33>>)>>, <<I>>, <<IntTy>>, <<<<1, 104, 105>>, <<0, 1>>, <<1, 33>>>>),
    Joining(<<1, 1, 120>>, << >>, <<I \o Inc(1, 1), Next0>>, <<IntTy, IntTy>>, <<<<0, 1>>, <<0, 2>>, <<1, 120>>>>),
    Making0(Impl(6, Self, LambdaName), << >>, LambdaName, I \o Obj, <<IntTy, ObjTy>>), Making0(Impl(6, Self, LambdaName), << >>, LambdaName, << >>, << >>),
    Making0(Impl(5, Self, LambdaName), <<1>>, LambdaName, GetThis \o Next0, <<ObjTy, IntTy>>),
    Making0(Impl(5, <<67>>, <<107>>), << >>, <<107>>, CallOther(ObjTy), <<ObjTy>>), Making0(Impl(6, <<67>>, <<107>>), << >>, <<107>>, << >>, << >>),
    [Program(IntTy, Next0 \o SiteOf(<<IntTy>>, IntTy, "call", << >>) \o Give(IntTy)) EXCEPT !.boots = <<<<Factory(<<67>>, <<107>>), <<Hi, KInt(4), ClassC>>>>>>],
    [Program(VoidTy, Next0 \o SiteOf(<<IntTy>>, VoidTy, "call", << >>) \o Give(VoidTy)) EXCEPT !.boots = <<<<Factory(<<67>>, <<107>>), << >>>>>>]>>

VarRef(class) == KMember(10, class, <<119>>, DescOf(<<IntTy, <<91>> \o ObjTy>>, IntTy))
Objects0 == InsK(189, KClass(<<79>>))
Spreads(class, rest) == [Program(IntTy, GetThis \o I \o rest \o Call(VarRef(class)) \o Give(IntTy)) EXCEPT !.others = <<<<129, <<119>>, DescOf(<<IntTy, <<91>> \o ObjTy>>, IntTy)>>>>]
Calls ==
  <<Spreads(Self, Filled(2, ObjTy, <<Objects0>>, 83, <<Obj, CallOther(ObjTy)>>)), Spreads(Self, Filled(0, ObjTy, <<Objects0>>, 83, << >>)),
    Spreads(Self, O(1)), Spreads(<<67>>, Filled(1, ObjTy, <<Objects0>>, 83, <<Obj>>)), Spreads(<<68>>, Filled(1, ObjTy, <<Objects0>>, 83, <<Obj>>)),
    Program(VoidTy, GetThis \o CallSpecial(KMember(10, Super, Init0, <<40, 41, 86>>)) \o Give(VoidTy)),
    Program(VoidTy, GetThis \o Next0 \o CallSpecial(KMember(10, Self, Init0, <<40, 73, 41, 86>>)) \o Give(VoidTy)),
    Program(ObjTy, NewOf(<<67>>, I \o O(1), DescOf(<<IntTy, <<76, 83, 59>>>>, VoidTy)) \o Give(ObjTy)),
    Program(IntTy, Obj \o O(89) \o Set(ObjTy, 7) \o O(194) \o Next0 \o Set(IntTy, 9) \o Get(ObjTy, 7) \o O(195) \o Get(IntTy, 9) \o Give(IntTy)),
    Program(StrTy, Next0 \o CallStatic(KMember(10, <<67>>, <<103>>, DescOf(<<IntTy>>, ObjTy))) \o CallStatic(KMember(10, <<1>>, <<9>>, DescOf(<<ObjTy>>, StrTy))) \o Give(StrTy)),
    Program(IntTy, Jump(200, 3) \o I \o Give(IntTy) \o J \o Give(IntTy)),
    Program(LongTy, GetThis \o Q \o O(93) \o <<InsK(181, FieldRef(LongTy))>> \o Give(LongTy)),
    [Program(VoidTy, Give(VoidTy)) EXCEPT !.others = <<<<1025, <<120>>, <<40, 41, 86>>>>, <<257, <<121>>, <<40, 41, 86>>>>, <<1, <<122>>, <<40, 41, 86>>>>>>]>>

\* A switch after n instructions that do nothing, its cases overlapping.
Switching(op, keys, n) ==
  Program(IntTy, [k \in 1 .. n |-> Ins(0, 0)] \o I \o <<[Ins(op, 8) EXCEPT !.cases = [k \in DOMAIN keys |-> <<keys[k], CASE k = 1 -> 1 [] k = 2 -> 5 [] OTHER -> 8>>]]>>
                 \o A1 \o J \o Set(IntTy, 1) \o B1 \o Inc(1, 3) \o I \o Give(IntTy))

\* A program in parts; ranges and debug entries go from the start of one part
\* to the start of another.
Parted(ret, parts, lvt, lvtt, ranges) ==
  LET first(k) == 1 + Len(FlattenSeq(SubSeq(parts, 1, k - 1)))
      entries(es) == [k \in DOMAIN es |-> <<first(es[k][1]), first(es[k][2])>> \o SubSeq(es[k], 3, 5)]
  IN  [Program(ret, FlattenSeq(parts)) EXCEPT !.lvt = entries(lvt), !.lvtt = entries(lvtt),
                                              !.ranges = [r \in DOMAIN ranges |-> [q \in 1 .. 3 |-> first(ranges[r][q])]]]
AsC == Obj \o <<InsK(192, ClassC)>>
Na == <<97>>
Nb == <<98>>
Use(ty, slot) == GetThis \o Get(ty, slot) \o Call(Own(<<116>>, <<ty>>, VoidTy))
Loop(slot, body) == Get(IntTy, slot) \o NumberOf(3) \o Jump(162, Len(body) + 3) \o body \o Inc(slot, 1) \o Jump(167, 0 - Len(body) - 4)
Sharing == <<I \o Set(IntTy, 7), Use(IntTy, 7), AsC \o Set(ObjTy, 7), Use(ObjTy, 7), J \o Set(IntTy, 7), Use(IntTy, 7), Get(IntTy, 7) \o Give(IntTy)>>
Looping == <<NumberOf(0) \o Set(IntTy, 7), Loop(7, Use(IntTy, 7)), NumberOf(1) \o Set(IntTy, 7), Loop(7, Use(IntTy, 7)), I \o Give(IntTy)>>
Arms == <<I \o Jump(153, 11), J \o Set(IntTy, 7), Use(IntTy, 7), Inc(7, 2) \o Use(IntTy, 7) \o Jump(167, 7), AsC \o Set(ObjTy, 7), Use(ObjTy, 7), I \o Give(IntTy)>>
Nulls == <<O(1) \o Set(ObjTy, 7), I \o Jump(153, 3), Obj \o Set(ObjTy, 7), Use(ObjTy, 7), Give(VoidTy)>>
Kinds0 == <<Filled(0, ArrTy, <<Ins(188, 10)>>, 79, << >>) \o Set(ArrTy, 7), Use(ArrTy, 7), Obj \o <<InsK(192, ClassC)>> \o Set(ObjTy, 7), Use(ObjTy, 7),
            <<InsK(178, StaticRef(ObjTy))>> \o Set(ObjTy, 7), Use(ObjTy, 7), CallOther(StrTy) \o Set(ObjTy, 7), Use(ObjTy, 7),
            NewOf(<<67>>, I, DescOf(<<IntTy>>, VoidTy)) \o Set(ObjTy, 7), Use(ObjTy, 7), Get(ObjTy, 7) \o Set(ObjTy, 9), Use(ObjTy, 9), O(12) \o Set(FloatTy, 7),
            Get(FloatTy, 7) \o Give(FloatTy)>>
Words0 == <<Q \o Set(LongTy, 7), Use(LongTy, 7), I \o Set(IntTy, 8), Use(IntTy, 8), O(15) \o Set(DoubleTy, 7), Use(DoubleTy, 7), Give(VoidTy)>>
Guarded == <<I \o Set(IntTy, 7), A1, Jump(167, 5), Set(ObjTy, 8), Use(ObjTy, 8), Use(IntTy, 7), Get(IntTy, 7) \o Give(IntTy)>>
Final == <<A1, Use(IntTy, 1) \o B1 \o Jump(167, 6), Set(ObjTy, 7), B1, Get(ObjTy, 7) \o O(191), J \o Give(IntTy)>>
Debugs ==
  <<Parted(IntTy, Sharing, <<<<2, 3, Na, IntTy, 7>>, <<4, 5, Nb, ObjTy, 7>>, <<6, 8, Na, IntTy, 7>>>>, << >>, << >>), Parted(IntTy, Sharing, << >>, << >>, << >>),
    Parted(IntTy, Sharing, <<<<2, 3, Na, IntTy, 7>>, <<4, 5, <<101, 49>>, ObjTy, 7>>>>, << >>, << >>), Parted(IntTy, Sharing, <<<<4, 5, Nb, ObjTy, 7>>>>, << >>, << >>),
    Parted(IntTy, Looping, <<<<2, 3, Na, IntTy, 7>>, <<4, 5, Na, IntTy, 7>>>>, << >>, << >>), Parted(IntTy, Looping, <<<<2, 3, Na, IntTy, 7>>, <<4, 5, Nb, IntTy, 7>>>>, << >>, << >>),
    Parted(IntTy, Looping, << >>, << >>, << >>), Parted(IntTy, Looping, <<<<1, 6, Nb, IntTy, 1>>, <<1, 6, Na, IntTy, 2>>>>, << >>, << >>),
    Parted(IntTy, Arms, << >>, << >>, << >>), Parted(IntTy, Arms, <<<<3, 5, Na, IntTy, 7>>, <<6, 7, Nb, ObjTy, 7>>>>, << >>, << >>),
    Parted(VoidTy, Nulls, << >>, << >>, << >>), Parted(VoidTy, Nulls, <<<<2, 6, Na, ObjTy, 7>>>>, <<<<2, 6, Na, <<76, 79, 60, 76, 67, 59, 62, 59>>, 7>>>>, << >>),
    Parted(FloatTy, Kinds0, << >>, << >>, << >>), Parted(VoidTy, Words0, << >>, << >>, << >>), Parted(VoidTy, Words0, <<<<2, 3, Na, LongTy, 7>>, <<4, 5, Nb, IntTy, 8>>, <<6, 7, Na, DoubleTy, 7>>>>, << >>, << >>),
    Parted(IntTy, Guarded, << >>, << >>, <<<<2, 3, 4>>>>), Parted(IntTy, Guarded, <<<<2, 8, Na, IntTy, 7>>, <<5, 6, Nb, ObjTy, 8>>>>, << >>, <<<<2, 3, 4>>>>),
    Parted(IntTy, Final, << >>, << >>, <<<<1, 2, 3>>, <<3, 4, 3>>>>), Parted(IntTy, Sharing, <<<<1, 3, Na, IntTy, 7>>, <<4, 5, Nb, ObjTy, 7>>>>, << >>, <<<<2, 4, 6>>>>)>>
=============================================================================
