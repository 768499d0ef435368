------------------------------ MODULE FrontEnd ------------------------------
(***************************************************************************)
(* From the bytes of a class file to the blocks the structurer is given:   *)
(* parse_classfile, and decompile_method for one of the class's methods,   *)
(* one action for each of its stages.                                      *)
(*                                                                         *)
(* An input holds the bytes of a file, and may hold whatever its writer    *)
(* meant by them.  The stages are "bytes", "class", "method", "graph",     *)
(* "vars", "blocks" and "tests"; a file may be "refused", a method without *)
(* code is "bodiless", one whose code is missing or broken is "failed".    *)
(***************************************************************************)
EXTENDS StackMerge

CONSTANTS Ids, Input(_),  \* the inputs: records with the field file, a sequence of bytes
          NameOf,         \* the names of attributes, by their bytes
          LibVarargs,     \* of other classes: methods with variable arguments,
          LibGeneric,     \* generic methods,
          LibFieldSigs,   \* signatures of fields <<class, name, signature>>
          LibSynthetic    \* and classes that are synthetic

VARIABLES input, stage, cls, method, graph, vars, build, tests
frontEndVars == <<input, stage, cls, method, graph, vars, build, tests>>

Nothing == << >>

-----------------------------------------------------------------------------
(* parse_classfile, and what PoolClass makes of it.                        *)

Magic == <<202, 254, 186, 190>>
HeaderForm == Rec(<<U2, U2, U2>>)
BodyForm == Rec(<<U2, U2, U2, Table(2, U2), Table(2, FieldForm), Table(2, MethodForm), Form("Attributes")>>)

\* << >> if the bytes are no class file; what follows the class is ignored.
ClassOf(head, pool, pos, body) ==
  [version |-> <<head[2], head[1]>>, pool |-> pool, pos |-> pos, access |-> body[1],
   self |-> ClassName(pos, pool, body[2]), super |-> ClassName(pos, pool, body[3]),
   interfaces |-> body[4], fields |-> body[5], methods |-> body[6], attributes |-> body[7]]
AfterBody(head, pool, body) == IF body.at = 0 THEN Nothing ELSE ClassOf(head, pool, CpLookup(pool), body.val)
AfterPool(bytes, head, pool) == IF pool.at = 0 THEN Nothing ELSE AfterBody(head, pool.val, Read(BodyForm, bytes, pool.at))
AfterHeader(bytes, header) ==
  IF header.at = 0 THEN Nothing ELSE AfterPool(bytes, header.val, ReadPool(header.val[3], 1, bytes, header.at))
ReadClass(bytes) ==
  IF Len(bytes) < 4 THEN Nothing
  ELSE IF SubSeq(bytes, 1, 4) # Magic THEN Nothing ELSE AfterHeader(bytes, Read(HeaderForm, bytes, 5))

HasFlag(flags, bit) == (flags \div bit) % 2 = 1
Static == 8
VarArgs == 128
Native == 256
Abstract == 1024

NameAt(n) == GetUtf8(cls.pool, n)
Desc(m) == NameAt(m[3])

\* What the class says about its own members.
OwnRef(m) == <<cls.self, NameAt(m[2]), Desc(m)>>
OwnVarargs == {OwnRef(m) : m \in {m \in Range(cls.methods) : HasFlag(m[1], VarArgs)}}
SignatureOf(attrs) == NameAt(FirstVal(AttributesNamed(cls, attrs, "Signature", NameOf), <<0>>)[1])
OwnGeneric == {OwnRef(m) : m \in {m \in Range(cls.methods) : Head(SignatureOf(m[4]) \o <<0>>) = 60}}
OwnFieldSigs == {s \in {<<cls.self, NameAt(f[2]), SignatureOf(f[4])>> : f \in Range(cls.fields)} : s[3] # << >>}

\* The debug names of a method's locals that are in scope from the start.
FromStart(lvt) ==
  LET start == SelectSeq(lvt, LAMBDA e : e.start = 0) IN [k \in DOMAIN start |-> <<start[k].slot, start[k].name>>]
NamesFrom(code) == IF code = << >> THEN << >> ELSE FromStart(LvtOf(cls, code, NameOf))
FirstNames(m) == NamesFrom(CodeAttribute(cls, m, NameOf))
Bootstraps == FirstVal(AttributesNamed(cls, cls.attributes, "BootstrapMethods", NameOf), <<<< >>>>)[1]

ContextOf(m, forwarded) ==
      [pool |-> cls.pool, pos |-> cls.pos, self |-> cls.self, boots |-> Bootstraps, vars |-> vars, hasLvt |-> m.lvt # << >>,
       static |-> m.static, maxLocals |-> m.maxLocals, ret |-> MethodType(Desc(method)).ret,
       methods |-> {[name |-> NameAt(o[2]), desc |-> Desc(o), locals |-> FirstNames(o)] : o \in Range(cls.methods)},
       fwdStores |-> FwdPlaces(graph, forwarded, Stores), fwdLoads |-> FwdPlaces(graph, forwarded, Loads),
       varargs |-> OwnVarargs \cup LibVarargs, generic |-> OwnGeneric \cup LibGeneric,
       fieldSigs |-> OwnFieldSigs \cup LibFieldSigs, synthetic |-> LibSynthetic]
Context == LET m == MethodOf(cls, method, NameOf) IN ContextOf(m, FwdSlots(graph, m))

-----------------------------------------------------------------------------
Init == /\ \E id \in Ids : input = Input(id)
        /\ stage = "bytes"
        /\ cls = Nothing /\ method = Nothing /\ graph = Nothing
        /\ vars = Nothing /\ build = Nothing /\ tests = Nothing

Parse ==
  /\ stage = "bytes"
  /\ cls' = ReadClass(input.file)
  /\ stage' = IF cls' = Nothing THEN "refused" ELSE "class"
  /\ UNCHANGED <<input, method, graph, vars, build, tests>>

\* A method is taken up; one that is abstract or native has no body.
Open ==
  /\ stage = "class"
  /\ \E m \in Range(cls.methods) :
       /\ method' = m
       /\ stage' = IF HasFlag(m[1], Abstract) \/ HasFlag(m[1], Native) THEN "bodiless"
                   ELSE IF Desc(m) = << >> \/ CodeAttribute(cls, m, NameOf) = << >> THEN "failed" ELSE "method"
  /\ UNCHANGED <<input, cls, graph, vars, build, tests>>

\* The variables are named before the code is cut into blocks; either reads
\* only the method.
Allocate ==
  /\ stage = "method"
  /\ vars' = BuildVarTable(MethodOf(cls, method, NameOf))
  /\ stage' = "vars"
  /\ UNCHANGED <<input, cls, method, graph, build, tests>>

Cut ==
  /\ stage = "vars"
  /\ graph' = LET code == CodeAttribute(cls, method, NameOf) IN BuildCfg(code[3], code[4])
  /\ stage' = "graph"
  /\ UNCHANGED <<input, cls, method, vars, build, tests>>

Simulate ==
  /\ stage = "graph"
  /\ build' = BuildBlocks(graph, Context)
  /\ stage' = "blocks"
  /\ UNCHANGED <<input, cls, method, graph, vars, tests>>

ShortCircuit ==
  /\ stage = "blocks"
  /\ tests' = ShortCircuitPrefold(graph, build.results, build.regions)
  /\ stage' = "tests"
  /\ UNCHANGED <<input, cls, method, graph, vars, build>>

Next == Parse \/ Open \/ Allocate \/ Cut \/ Simulate \/ ShortCircuit

Spec == Init /\ [][Next]_frontEndVars
=============================================================================
