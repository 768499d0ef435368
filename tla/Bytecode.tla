------------------------------ MODULE Bytecode ------------------------------
(***************************************************************************)
(* crates/classfile/src/instruction.rs: decoding the bytes of a method.    *)
(*                                                                         *)
(* An opcode is its byte, as Opcode in the code is (repr(u8)).  An         *)
(* instruction keeps its place pc, its size, two operands a and b, and of  *)
(* a switch the place of its default and its cases <<key, place>>.  Places *)
(* in the code count from 0 and are 16 bits wide.                          *)
(***************************************************************************)
EXTENDS ConstantPool

MaxPlace == 65535
Invalid == 255
FromByte(b) == IF b <= 201 THEN b ELSE Invalid

Word(n) == n % 65536
Byte8(x) == IF x > 127 THEN x - 256 ELSE x
Word16(x) == IF x > 32767 THEN x - 65536 ELSE x

Ifs == (153 .. 166) \cup {198, 199}            \* ifeq .. if_acmpne, ifnull, ifnonnull
Gotos == {167, 200}
Jsrs == {168, 201}
Ret == 169
Switches == {170, 171}
Returns == 172 .. 177
Athrow == 191
Iinc == 132
Wide == 196
LoadStore == (21 .. 25) \cup (54 .. 58)        \* iload .. aload, istore .. astore, with an operand
Invokes == 182 .. 185
Pooled == {19, 20} \cup (178 .. 187) \cup {189, 192, 193, 197}   \* a number of a constant in two bytes

BaseLen(op) == CASE op \in {16, 18, Ret, 188} \cup LoadStore -> 2
                 [] op = 197 -> 4
                 [] op \in {185, 186, 200, 201} -> 5
                 [] op \in {17, Iinc, 167, 168} \cup Ifs \cup (Pooled \ {185, 186, 197}) -> 3
                 [] OTHER -> 1
IsJump(op) == op \in Ifs \cup Gotos \cup Jsrs \cup Switches
IsTerminal(op) == op \in Gotos \cup Jsrs \cup Switches \cup Returns \cup {Ret, Athrow}

Instruction(pc, size, op, a, b) == [pc |-> pc, size |-> size, op |-> op, a |-> a, b |-> b, default |-> 0, cases |-> << >>]
Undecodable == [size |-> 0]

\* Mutant: padded from the opcode itself.
SwitchBaseAt(pc) == pc + 1 + ((4 - pc) % 4)

\* The bytes of a switch start at the next multiple of four.
SwitchBase(pc) == pc + 1 + ((3 - pc) % 4)

\* The code of a switch from base on, unless it is cut or makes no sense.
Target(code, pc, i) == Word(pc + Signed(code, i + 1))
Switch(code, pc, op, base, end, cases) ==
  IF end > Len(code) THEN Undecodable
  ELSE [pc |-> pc, size |-> Word(end - pc), op |-> op, a |-> pc + Signed(code, base + 1), b |-> 0,
        default |-> Target(code, pc, base), cases |-> cases]
TableCases(code, pc, base, low, n) == [k \in 1 .. n |-> <<low + k - 1, Target(code, pc, base + 8 + 4 * k)>>]
TableSwitch(code, pc, base, low, n) ==
  IF n \notin 1 .. MaxPlace + 1 THEN Undecodable
  ELSE Switch(code, pc, 170, base, base + 12 + 4 * n, TableCases(code, pc, base, low, n))
LookupCases(code, pc, base, n) == [k \in 1 .. n |-> <<Signed(code, base + 8 * k + 1), Target(code, pc, base + 8 * k + 4)>>]
LookupSwitch(code, pc, base, n) ==
  IF n \notin 0 .. MaxPlace THEN Undecodable
  ELSE Switch(code, pc, 171, base, base + 8 + 8 * n, LookupCases(code, pc, base, n))
SwitchFrom(code, pc, op, base) ==
  IF base + (IF op = 170 THEN 12 ELSE 8) > Len(code) THEN Undecodable
  ELSE LET count == Signed(code, base + 5)           \* of a table its lowest key
       IN  IF op = 170 THEN TableSwitch(code, pc, base, count, Signed(code, base + 9) - count + 1)
           ELSE LookupSwitch(code, pc, base, count)
DecodeSwitch(code, pc, op) == SwitchFrom(code, pc, op, SwitchBase(pc))

\* A wide prefix: the operands of the instruction behind it take two bytes.
DecodeWide(code, pc) ==
  LET has(i) == pc + i < Len(code)
      op == FromByte(code[pc + 2])
      index == Num(code, pc + 3, 2)
  IN  IF ~has(3) THEN Undecodable
      ELSE IF op = Iinc /\ has(5) THEN Instruction(pc, 6, op, index, Word16(Num(code, pc + 5, 2)))
      ELSE IF op \in LoadStore \cup {Ret} THEN Instruction(pc, 4, op, index, 0) ELSE Undecodable

\* The operands of the other instructions.
OperandA(code, pc, op) ==
  LET u1 == code[pc + 2]
      u2 == Num(code, pc + 2, 2)
  IN  CASE op = 16 -> Byte8(u1)
        [] op = 17 -> Word16(u2)
        [] op \in {18, Ret, 188, Iinc} \cup LoadStore -> u1
        [] op \in {167, 168} \cup Ifs -> pc + Word16(u2)
        [] op \in {200, 201} -> pc + Signed(code, pc + 2)
        [] op \in Pooled -> u2
        [] OTHER -> 0
OperandB(code, pc, op) == CASE op = Iinc -> Byte8(code[pc + 3]) [] op \in {185, 197} -> code[pc + 4] [] OTHER -> 0

\* An operand is asked for only up to the last byte it is read from: the two
\* zeros of invokedynamic and the last one of invokeinterface may lie past the end.
DecodePlain(code, pc, op) ==
  LET needs == IF op = 185 THEN 4 ELSE IF op = 186 THEN 3 ELSE BaseLen(op)
  IN  IF pc + needs > Len(code) THEN Undecodable
      ELSE Instruction(pc, BaseLen(op), op, OperandA(code, pc, op), OperandB(code, pc, op))

\* The instruction at pc, or Undecodable.
DecodeAs(code, pc, op) ==
  CASE op = Invalid -> Undecodable
    [] op \in Switches -> DecodeSwitch(code, pc, op)
    [] op = Wide -> DecodeWide(code, pc)
    [] OTHER -> DecodePlain(code, pc, op)
DecodeAt(code, pc) == DecodeAs(code, pc, FromByte(code[pc + 1]))

\* One round of the loop over the code, with what is decoded so far: the
\* first instruction that cannot be decoded ends it.
DecodeNext(code, loop, ins) ==
  IF ins = Undecodable
  THEN [pc |-> Len(code), out |-> Append(loop.out, Instruction(Word(loop.pc), 1, Invalid, code[loop.pc + 1], 0))]
  ELSE [pc |-> loop.pc + ins.size, out |-> Append(loop.out, ins)]
Decode(code, loop) == IF loop.pc >= Len(code) THEN loop ELSE DecodeNext(code, loop, DecodeAt(code, Word(loop.pc)))
DecodeAll(code) ==
  LET after[k \in 0 .. Len(code)] == IF k = 0 THEN [pc |-> 0, out |-> << >>] ELSE Decode(code, after[k - 1])
  IN  after[Len(code)].out

\* Where an instruction may go on, but for the next one after no jump.
Targets(ins) == CASE ins.op \in Gotos \cup Jsrs -> <<Word(ins.a)>>
                  [] ins.op \in Switches -> <<ins.default>> \o [k \in DOMAIN ins.cases |-> ins.cases[k][2]]
                  [] ins.op \in Ifs -> <<Word(ins.a), Word(ins.pc + ins.size)>>
                  [] OTHER -> << >>
=============================================================================
