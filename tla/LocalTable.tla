----------------------------- MODULE LocalTable ------------------------------
(***************************************************************************)
(* crates/decompiler/src/varalloc.rs: the variables of a method.           *)
(*                                                                         *)
(* The bytes name slots; build_var_table says which variable a slot holds  *)
(* at a place, from the debug tables where there are any and from the      *)
(* accesses where there are none.  A type is its descriptor without the    *)
(* final semicolon, a generic type a G before its signature; names and     *)
(* types are sequences of character codes.  Made-up names are <<kind, ..>> *)
(* with a negative kind.                                                   *)
(*                                                                         *)
(* m is what is read of a method: its instructions all, the length codeLen *)
(* of its code, its tables lvt of [start, end, name, desc, slot] and lvtt  *)
(* of [start, sig, slot], the places handlers, its argument types args and *)
(* their names paramNames (<< >> for none), static, maxLocals, self (its   *)
(* class), and the constants pool with their places pos.                   *)
(***************************************************************************)
EXTENDS ControlFlow, ClassFile

CONSTANT ObjectName, InitName            \* "java/lang/Object", "<init>"

IntType == <<73>>
Prims == {<<c>> : c \in {66, 67, 68, 70, 73, 74, 83, 90}}
ClassType(name) == IF name[1] = 91 THEN SelectSeq(name, LAMBDA c : c # 59) ELSE <<76>> \o name
ObjectType == ClassType(ObjectName)
IsWide(ty) == ty \in {<<68>>, <<74>>}
ArrayOf(ty) == <<91>> \o ty
NoType == <<0>>                           \* no type, no variable
ThisName == <<-1>>
ArgName(i) == <<-2, i>>
VarName(slot) == <<-3, slot>>
GapName(slot, at) == <<-4, slot, at>>

\* Descriptors and signatures, as the code uses them.
FieldType(desc) == SelectSeq(desc, LAMBDA c : c # 59)
IsGeneric(ty) == ty[1] = 71
RECURSIVE UpTo(_, _)
UpTo(stops, s) == IF s = << >> THEN << >> ELSE IF s[1] \in stops THEN << >> ELSE <<s[1]>> \o UpTo(stops, Tail(s))
Erased(ty) == IF ~IsGeneric(ty) THEN ty
              ELSE CASE ty[2] = 84 -> ObjectType [] OTHER -> UpTo({59, 60}, Tail(ty))

RECURSIVE FirstType(_), Types(_)
FirstType(s) == CASE s[1] = 91 -> <<91>> \o FirstType(Tail(s)) [] s[1] = 76 -> UpTo({59}, s) \o <<59>> [] OTHER -> <<s[1]>>
Types(s) == IF s = << >> THEN << >>
            ELSE LET f == FirstType(s) IN <<FieldType(f)>> \o Types(SubSeq(s, Len(f) + 1, Len(s)))
MethodType(desc) ==
  LET args == UpTo({41}, Tail(desc)) IN [args |-> Types(args), ret |-> FieldType(SubSeq(desc, Len(args) + 3, Len(desc)))]

-----------------------------------------------------------------------------
(* The tables of a method's Code attribute.                                *)

AttributesNamed(cls, attrs, name, names) ==
  SelectSeq([i \in DOMAIN attrs |-> Specialize(attrs[i], cls.pool, names)], LAMBDA a : a.name = name)
FirstVal(attrs, otherwise) == IF attrs = << >> THEN otherwise ELSE attrs[1].val
CodeAttribute(cls, method, names) == FirstVal(AttributesNamed(cls, method[4], "Code", names), << >>)

Entries(tables) == FlattenSeq([k \in DOMAIN tables |-> tables[k].val[1]])
OrElse(name, other) == IF name = << >> THEN other ELSE name
LvtEntries(pool, es) ==
  [k \in DOMAIN es |-> [start |-> es[k][1], end |-> Min({es[k][1] + es[k][2], 65535}), slot |-> es[k][5],
                        name |-> OrElse(GetUtf8(pool, es[k][3]), <<63>>), desc |-> OrElse(GetUtf8(pool, es[k][4]), IntType)]]
LvtOf(cls, code, names) == LvtEntries(cls.pool, Entries(AttributesNamed(cls, code[5], "LocalVariableTable", names)))
LvttEntries(pool, es) ==
  SelectSeq([k \in DOMAIN es |-> [start |-> es[k][1], slot |-> es[k][5], sig |-> GetUtf8(pool, es[k][4])]],
            LAMBDA e : e.sig # << >>)
LvttOf(cls, code, names) == LvttEntries(cls.pool, Entries(AttributesNamed(cls, code[5], "LocalVariableTypeTable", names)))
NamesIn(pool, params) == [k \in DOMAIN params |-> GetUtf8(pool, params[k][1])]
ParamNames(cls, method, names) ==
  NamesIn(cls.pool, FirstVal(Reverse(AttributesNamed(cls, method[4], "MethodParameters", names)), <<<< >>>>)[1])

\* A signature counts only if it can describe what the descriptor says.
SigMatchesBase(sig, base) ==
  CASE sig[1] = 84 -> base[1] = 76
    [] sig[1] = 76 -> base = UpTo({59, 60}, sig)
    [] sig[1] = 91 -> base[1] = 91
    [] OTHER -> base = sig
SigTypeAt(lvtt, start, slot, base) ==
  LET k == SelectInSeq(lvtt, LAMBDA e : e.start = start /\ e.slot = slot)
  IN  IF k = 0 THEN NoType ELSE IF SigMatchesBase(lvtt[k].sig, base) THEN <<71>> \o lvtt[k].sig ELSE NoType
TypeAt(m, start, slot, base) == LET g == SigTypeAt(m.lvtt, start, slot, base) IN IF g = NoType THEN base ELSE g

-----------------------------------------------------------------------------
(* Accesses: which slot an instruction reads or writes.                    *)

Kinds == <<IntType, <<74>>, <<70>>, <<68>>, ObjectType>>
IsAccess(ins) == ins.op \in LoadStore \cup (26 .. 45) \cup (59 .. 78) \cup {Iinc}
IsStore(ins) == ins.op \in (54 .. 78) \cup {Iinc}
IsRefStore(ins) == ins.op \in {58} \cup (75 .. 78)
IsRefLoad(ins) == ins.op \in {25} \cup (42 .. 45)
SlotOf(ins) == IF ins.op \in 26 .. 45 THEN (ins.op - 26) % 4 ELSE IF ins.op \in 59 .. 78 THEN (ins.op - 59) % 4 ELSE ins.a
KindOf(ins) == CASE ins.op \in 21 .. 25 -> Kinds[ins.op - 20] [] ins.op \in 26 .. 45 -> Kinds[1 + (ins.op - 26) \div 4]
                 [] ins.op \in 54 .. 58 -> Kinds[ins.op - 53] [] ins.op \in 59 .. 78 -> Kinds[1 + (ins.op - 59) \div 4]
                 [] OTHER -> IntType

AtHandler(m, p) == \E h \in Range(m.handlers) : p \in h .. h + 2

-----------------------------------------------------------------------------
(* Entries of the debug table that are ranges of one variable.             *)

SyntheticName(n) ==
  LET digits == 48 .. 57
      ok == digits \cup (65 .. 90) \cup (97 .. 122) \cup {36, 95}
  IN  Range(n) \subseteq ok /\ n[1] \in digits \cup {101, 120} /\ Range(n) \cap digits # {}

Near(a, b) == a.start <= b.end + 16 /\ b.start <= a.end + 16

\* Nobody is in the slot between the earlier range v and the later range e.
GapClean(m, v, e) ==
  /\ v.end <= e.start /\ ~AtHandler(m, v.start) /\ ~AtHandler(m, e.start)
  /\ ~\E ins \in Range(m.all) : IsAccess(ins) /\ SlotOf(ins) = e.slot /\ ins.pc > v.end /\ e.start - ins.pc > 8
Foreign(m, v, e) ==
  \E o \in Range(m.lvt) : /\ o.slot = e.slot /\ (o.name # e.name \/ o.desc # e.desc)
                          /\ o.start < Max({v.start, e.start}) /\ o.end > Min({v.end, e.end})
SameVar(m, v, e) ==
  LET sv == SigTypeAt(m.lvtt, v.start, e.slot, FieldType(e.desc))
      se == SigTypeAt(m.lvtt, e.start, e.slot, FieldType(e.desc))
  IN  /\ v.slot = e.slot /\ v.name = e.name /\ v.desc = e.desc
      /\ sv = NoType \/ se = NoType \/ sv = se
      /\ IF SyntheticName(e.name) THEN Near(e, v) ELSE (Near(v, e) \/ GapClean(m, v, e)) /\ ~Foreign(m, v, e)

BySlotAndStart(a, b) == a.slot < b.slot \/ (a.slot = b.slot /\ a.start < b.start)
SortEntries(es) == SortSeq(es, BySlotAndStart)
MergeEntries(m) ==
  FoldLeft(LAMBDA vs, e :
             LET k == SelectInSeq(vs, LAMBDA v : SameVar(m, v, e))
             IN  IF k = 0 THEN Append(vs, e)
                 ELSE [vs EXCEPT ![k] = [@ EXCEPT !.start = Min({@, e.start}), !.end = Max({@, e.end})]],
           << >>, SortEntries(m.lvt))

-----------------------------------------------------------------------------
(* The variables: parameters, those of the debug table, those of accesses  *)
(* outside every range, and one for each slot nobody has named.            *)

NewVar(slot, name, ty, param, start, end, synth) ==
  [slot |-> slot, name |-> name, ty |-> ty, param |-> param, start |-> start, end |-> end, synth |-> synth]

ParamSlot(m, i) == FoldLeft(LAMBDA s, ty : s + (IF IsWide(ty) THEN 2 ELSE 1), IF m.static THEN 0 ELSE 1, SubSeq(m.args, 1, i - 1))
Params(m, vars) ==
  LET named(i) == SelectInSeq(vars, LAMBDA v : v.start = 0 /\ v.slot = ParamSlot(m, i))
      name(i) == IF named(i) # 0 THEN vars[named(i)].name
                 ELSE IF i \in DOMAIN m.paramNames THEN OrElse(m.paramNames[i], ArgName(i - 1)) ELSE ArgName(i - 1)
      self == IF m.static THEN << >> ELSE <<NewVar(0, ThisName, ClassType(m.self), TRUE, 0, m.codeLen, FALSE)>>
  IN  self \o [i \in DOMAIN m.args |->
                 NewVar(ParamSlot(m, i), name(i), TypeAt(m, 0, ParamSlot(m, i), m.args[i]), TRUE, 0, m.codeLen, FALSE)]

Named(m, vars, params) ==
  LET rest == SelectSeq(SortEntries(vars), LAMBDA v : v.start # 0 \/ ~\E p \in Range(params) : p.slot = v.slot)
  IN  [k \in DOMAIN rest |-> NewVar(rest[k].slot, rest[k].name, TypeAt(m, rest[k].start, rest[k].slot, FieldType(rest[k].desc)),
                                    FALSE, rest[k].start, Max({rest[k].end, rest[k].start + 1}), FALSE)]

\* The variable a slot holds at a place: of the ranges around it, the first.
VarAt(vars, slot, at) ==
  LET in == {v \in DOMAIN vars : vars[v].slot = slot /\ vars[v].start <= at /\ at < vars[v].end}
  IN  IF in = {} THEN 0 ELSE CHOOSE v \in in : \A w \in in : vars[v].start < vars[w].start \/ (vars[v].start = vars[w].start /\ v <= w)

\* A store shortly before a range belongs to it, unless a handler starts there.
Covered(m, vars, ins) ==
  \E v \in Range(vars) : /\ v.slot = SlotOf(ins)
                         /\ \/ v.start <= ins.pc /\ ins.pc < v.end
                            \/ IsStore(ins) /\ ins.pc < v.start /\ v.start - ins.pc <= 8 /\ ~AtHandler(m, v.start)

Concrete(ty) == IF ty[1] \in {76, 91} /\ ty # ObjectType THEN ty ELSE NoType
Elements == [t \in 4 .. 11 |-> <<<<90>>, <<67>>, <<70>>, <<68>>, <<66>>, <<83>>, IntType, <<74>>>>[t - 3]]

\* What the instruction before a reference store says of the value's type.
EvidenceOf(m, vars, gaps, k, prev, member, class) ==
  LET source == VarAt(vars, SlotOf(prev), m.all[k].pc)
      known == IF source = 0 THEN NoType ELSE Concrete(Erased(vars[source].ty))
      earlier == SelectSeq(gaps, LAMBDA g : g.slot = SlotOf(prev) /\ g.start < m.all[k].pc /\ Concrete(g.ty) # NoType)
  IN  IF k = 1 THEN NoType
      ELSE CASE prev.op \in Invokes -> IF member = << >> THEN NoType
                                       ELSE IF member[2] = InitName THEN ClassType(member[1])
                                       ELSE Concrete(MethodType(member[3]).ret)
             [] IsRefLoad(prev) -> IF known # NoType THEN known ELSE IF earlier # << >> THEN Last(earlier).ty ELSE NoType
             [] prev.op \in {178, 180} -> IF member = << >> THEN NoType ELSE Concrete(FieldType(member[3]))
             [] prev.op = 188 -> ArrayOf(IF prev.a \in DOMAIN Elements THEN Elements[prev.a] ELSE IntType)
             [] prev.op \in {189, 192, 197} -> IF class = << >> THEN NoType
                                               ELSE IF prev.op = 189 THEN ArrayOf(ClassType(class)) ELSE ClassType(class)
             [] OTHER -> NoType
Evidence(m, vars, gaps, k) ==
  LET prev == m.all[k - 1]
  IN  EvidenceOf(m, vars, gaps, k, prev, MemberRef(m.pos, m.pool, prev.a), ClassName(m.pos, m.pool, prev.a))

Gap(ins, ev, afterNull) ==
  [slot |-> SlotOf(ins), start |-> ins.pc, end |-> ins.pc + ins.size, ty |-> IF ev = NoType THEN KindOf(ins) ELSE ev,
   ev |-> ev, store |-> IsStore(ins), null |-> IsStore(ins) /\ afterNull]
GapOf(m, vars, gaps, k) ==
  LET ins == m.all[k]
  IN  Gap(ins, IF IsRefStore(ins) THEN Evidence(m, vars, gaps, k) ELSE IF KindOf(ins) = ObjectType THEN NoType ELSE KindOf(ins),
          k > 1 /\ m.all[IF k > 1 THEN k - 1 ELSE 1].op = 1)
Gaps(m, vars) ==
  FoldLeft(LAMBDA gaps, k : IF IsAccess(m.all[k]) /\ ~Covered(m, vars, m.all[k]) THEN Append(gaps, GapOf(m, vars, gaps, k)) ELSE gaps,
           << >>, [k \in DOMAIN m.all |-> k])

BackwardJumpBetween(m, from, to) ==
  \E ins \in Range(m.all) : ins.pc \in from .. to /\ \E t \in Range(Targets(ins)) : t <= ins.pc

\* Mutant: the accesses of a slot outside the ranges are one variable.
ContinuesBySlot(m, vars, a, g) == a.slot = g.slot

\* The access g goes on with the variable of the accesses a before it.
Continues(m, vars, a, g) ==
  /\ a.slot = g.slot
  /\ ~\E v \in Range(vars) : v.slot = g.slot /\ v.start > a.start /\ v.start <= g.start
  /\ a.ev = NoType \/ g.ev = NoType \/ a.ev = g.ev
  /\ ~(g.null /\ a.ty \in Prims)
  /\ ~(g.store /\ BackwardJumpBetween(m, a.end, g.start))

Groups(m, vars) ==
  FoldLeft(LAMBDA gs, g :
             IF gs = << >> THEN <<g>>
             ELSE LET a == Last(gs)
                  IN  IF ~Continues(m, vars, a, g) THEN Append(gs, g)
                      ELSE [gs EXCEPT ![Len(gs)] = [@ EXCEPT !.end = Max({@, g.end}), !.ev = IF a.ev = NoType THEN g.ev ELSE @,
                                                              !.ty = IF a.ev = NoType /\ g.ev # NoType THEN g.ev ELSE @]],
           << >>, SortEntries(Gaps(m, vars)))

\* A group lasts until the next one of its slot or the next named range.
GapVars(m, vars, gs) ==
  LET later(k) == {Max({m.codeLen, 1})} \cup {v.start : v \in {w \in Range(vars) : w.slot = gs[k].slot /\ w.start > gs[k].start}}
      next(k) == LET js == {j \in DOMAIN gs : j > k /\ gs[j].slot = gs[k].slot} IN IF js = {} THEN {} ELSE {gs[Min(js)].start}
  IN  [k \in DOMAIN gs |-> NewVar(gs[k].slot, GapName(gs[k].slot, gs[k].start), gs[k].ty, FALSE, gs[k].start,
                                  Max({Min(later(k) \cup next(k)), gs[k].end}), TRUE)]

AndNamed(m, merged, params) == params \o Named(m, merged, params)
NamedVars(m, merged) == AndNamed(m, merged, Params(m, merged))
AndGaps(m, vars) == vars \o GapVars(m, vars, Groups(m, vars))
AndFree(m, vars) ==
  LET slots == Max({m.maxLocals, ParamSlot(m, Len(m.args) + 1)})
      free == SelectSeq([s \in 1 .. slots |-> s - 1], LAMBDA s : ~\E v \in Range(vars) : v.slot = s)
  IN  vars \o [k \in DOMAIN free |-> NewVar(free[k], VarName(free[k]), IntType, FALSE, 0, m.codeLen, TRUE)]
BuildVarTable(m) == AndFree(m, AndGaps(m, NamedVars(m, MergeEntries(m))))

MethodWith(cls, method, code, names) ==
      [all |-> DecodeAll(code[3]), codeLen |-> Len(code[3]), lvt |-> LvtOf(cls, code, names), lvtt |-> LvttOf(cls, code, names),
       handlers |-> [k \in DOMAIN code[4] |-> code[4][k][3]], args |-> MethodType(GetUtf8(cls.pool, method[3])).args,
       paramNames |-> ParamNames(cls, method, names), static |-> (method[1] \div 8) % 2 = 1, maxLocals |-> code[2],
       self |-> cls.self, pool |-> cls.pool, pos |-> cls.pos]
MethodOf(cls, method, names) == MethodWith(cls, method, CodeAttribute(cls, method, names), names)
=============================================================================
