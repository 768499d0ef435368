---------------------------- MODULE FrontEndProps ----------------------------
(***************************************************************************)
(* What the front end promises of every class file it reads.               *)
(*                                                                         *)
(* An input says what its writer put into the file: whether the file is    *)
(* whole, the class with its constants, members and attributes, and of the *)
(* method named main its instructions as written (prog) and as they stand  *)
(* in the file (code), its exception ranges (ranges), and the arguments    *)
(* and worlds to run it in (runs).                                         *)
(***************************************************************************)
EXTENDS Execution

IsMain == stage \notin {"bytes", "refused", "class"} /\ input.prog # << >> /\ NameAt(method[2]) = input.main

\* A file is read back as it was written, whatever stands behind it, and one
\* that was cut short is refused (parser.rs, constant_pool.rs); a constant is
\* found under its number by either way of looking (get_entry, CpLookup); and
\* an attribute whose bytes are damaged is kept as it is and disturbs no other
\* (parse_specialized_attribute).
ReadAsWritten ==
  CASE stage = "refused" -> ~input.whole
    [] stage = "class" ->
                /\ input.whole
                /\ cls.pool = input.pool /\ cls.fields = input.fields /\ cls.methods = input.methods
                /\ <<cls.self, cls.super, cls.interfaces, cls.access>> = input.heads
                /\ [k \in DOMAIN cls.attributes |-> Specialize(cls.attributes[k], cls.pool, NameOf)] = input.attrs
                /\ \A n \in 0 .. Len(cls.pos) + 1 : GetEntry(cls.pool, n) = Lookup(cls.pos, cls.pool, n)
    [] OTHER -> TRUE

\* The instructions of a method are those that were assembled, with their
\* operands and targets, however a switch is padded or an operand widened
\* (decode_all, decode_at).
DecodedAsAssembled ==
  stage = "method" /\ IsMain => DecodeAll(CodeAttribute(cls, method, NameOf)[3]) = input.code

\* Blocks cut the code into stretches that are entered only at their start
\* and left only at their end, their edges are the ways control goes from one
\* instruction to another, of a test first the way of falling through, and a
\* block is protected by the ranges that protect its instructions (Cfg::build).
Flow(code, i) ==           \* the instructions that may follow the i-th, in the order the edges have
  LET in == code[i]
      at(off) == i + off
  IN  CASE in.op \in {167, 200} -> <<at(in.a)>>
        [] in.op \in {170, 171} -> <<at(in.a)>> \o [k \in DOMAIN in.cases |-> at(in.cases[k][2])]
        [] in.op \in (153 .. 166) \cup {198, 199} -> <<i + 1, at(in.a)>>
        [] in.op \in (172 .. 177) \cup {191} -> << >>
        [] OTHER -> <<i + 1>>
BlocksFollowCode ==
  (stage = "graph" /\ IsMain) =>
  LET prog == input.prog
      place(i) == input.code[i].pc
      block(i) == CHOOSE b \in DOMAIN graph.blocks : \E in \in Range(graph.blocks[b].ins) : in.pc = place(i)
      firsts == {i \in DOMAIN prog : \E b \in DOMAIN graph.blocks : graph.blocks[b].start = place(i)}
      protected(r, i) == place(i) >= input.ranges[r][1] /\ place(i) < input.ranges[r][2]
  IN  /\ FlattenSeq([b \in DOMAIN graph.blocks |-> graph.blocks[b].ins]) = input.code
      /\ \A i \in DOMAIN prog :
           LET next == Flow(prog, i)
               last == i = Len(prog) \/ i + 1 \in firsts
           IN  /\ last => graph.blocks[block(i)].succ = Deduped([k \in DOMAIN next |-> block(next[k])])
               /\ ~last => next = <<i + 1>>
               /\ \A k \in DOMAIN next : last => next[k] \in firsts
      /\ \A b, d \in DOMAIN graph.blocks : Contains(graph.blocks[b].pred, d) <=> Contains(graph.blocks[d].succ, b)
      /\ \A r \in DOMAIN input.ranges, i \in DOMAIN prog : protected(r, i) <=> <<r, block(i)>> \in graph.edges

\* The reads and writes of a slot that a value can flow between are accesses
\* of one variable, whose type is of the accesses' kind (build_var_table with
\* the lookups of builder.rs: load, StoredVar).
Reaching(code, slot, i) ==        \* the stores whose value may be what instruction i reads
  LET preds(j) == {p \in DOMAIN code : Contains(Flow(code, p), j)}
      stores(j) == code[j].op \in (54 .. 78) \cup {132} /\ code[j].a = slot
      back(r) == [seen |-> r.todo \cup r.seen, found |-> r.found \cup {p \in r.todo : stores(p)},
                  todo |-> UNION {preds(p) : p \in {p \in r.todo : ~stores(p)}} \ r.seen]
  IN  FoldLeft(LAMBDA r, k : back(r), [seen |-> {}, found |-> {}, todo |-> preds(i)], [k \in DOMAIN code |-> k]).found
KindMatches(ty, in) == LET kind == KindOf(in) IN IF kind = ObjectType THEN ty \notin Prims
                                                 ELSE IF kind = IntType THEN ty \in Prims \ DOMAIN KindOfPrim ELSE ty = kind
AccessesResolve ==
  (stage = "graph" /\ IsMain) =>
  \A i \in DOMAIN input.prog :
    LET in == input.code[i]
        slot == input.prog[i].a
        read == VarAt(vars, slot, in.pc)
        written(j) == IF input.code[j].op = 132 THEN VarAt(vars, slot, input.code[j].pc) ELSE StoredVar([vars |-> vars], input.code[j])
    IN  IsAccess(in) /\ (in.op = 132 \/ ~IsStore(in)) =>
          /\ read # 0
          /\ KindMatches(Erased(vars[read].ty), in)
          /\ \A j \in Reaching(input.prog, slot, i) : written(j) = read

\* Running the blocks' statements does what running the instructions does:
\* the same calls with the same arguments in the same order, each seeing the
\* same fields, and the same result (Builder, the merge loop, the diamonds
\* and short_circuit_prefold).
Fuel == 100
EvaluationKept ==
  (stage = "tests" /\ IsMain) =>
  \A r \in input.runs : Evaluator(tests.g, tests.results, r.locals, r.seed, Fuel) = Machine(input.prog, r.locals, r.seed, Fuel)
=============================================================================
