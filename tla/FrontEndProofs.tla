---------------------------- MODULE FrontEndProofs ----------------------------
(***************************************************************************)
(* What holds of every class file's constants and of every method's code:  *)
(* both ways of finding a constant agree (LookupsAgree), the instructions  *)
(* decoded stand one behind the other to the end of the code               *)
(* (DecodingTiles) and are those that were written (WrittenIsRead), and    *)
(* the blocks of code the verifier accepts follow them (BlocksFollow).     *)
(* The loops of the code are recursive functions over 0 .. n;              *)
(* RecursionUpTo says they are defined and InductionUpTo what each round   *)
(* keeps.                                                                  *)
(***************************************************************************)
EXTENDS ControlFlow, ExtremeTheorems, SequenceTheorems

-----------------------------------------------------------------------------
(* The constants: what is found under a number.                            *)

LEMMA SlotsStep ==
  ASSUME NEW pool, NEW i \in Nat \ {0}
  PROVE  /\ Slots(pool, 1) = 1
         /\ Slots(pool, i) \in Nat \ {0}
         /\ Slots(pool, i + 1) = Slots(pool, i) + (IF TwoSlots(pool[i]) THEN 2 ELSE 1)
<1> DEFINE wide(k) == {j \in 1 .. k : TwoSlots(pool[j])}
<1>1. \A k \in Nat : IsFiniteSet(wide(k)) /\ Cardinality(wide(k)) \in Nat
  <2> TAKE k \in Nat
  <2>1. IsFiniteSet(1 .. k) /\ wide(k) \in SUBSET (1 .. k)
    BY FS_Interval
  <2> HIDE DEF wide
  <2> QED
    BY <2>1, FS_Subset, FS_CardinalityType
<1>2. Slots(pool, 1) = 1
  <2>1. 1 .. 1 - 1 = {}
    OBVIOUS
  <2>2. {j \in 1 .. 1 - 1 : TwoSlots(pool[j])} = {}
    BY <2>1
  <2> QED
    BY <2>2, FS_EmptySet DEF Slots
<1>3. i - 1 \in Nat /\ (i + 1) - 1 = i
  OBVIOUS
<1>4. Slots(pool, i) = i + Cardinality(wide(i - 1)) /\ Slots(pool, i + 1) = (i + 1) + Cardinality(wide(i))
  BY <1>3 DEF Slots
<1>5. Slots(pool, i) \in Nat \ {0}
  <2> HIDE DEF wide
  <2> QED
    BY <1>1, <1>3, <1>4
<1>6. CASE TwoSlots(pool[i])
  <2>1. wide(i) = wide(i - 1) \cup {i}
    BY <1>6
  <2>2. i \notin wide(i - 1)
    OBVIOUS
  <2> HIDE DEF wide
  <2>3. Cardinality(wide(i)) = Cardinality(wide(i - 1)) + 1
    BY <1>1, <1>3, <2>1, <2>2, FS_AddElement
  <2> QED
    BY <1>1, <1>2, <1>3, <1>4, <1>5, <1>6, <2>3
<1>7. CASE ~TwoSlots(pool[i])
  <2>1. wide(i) = wide(i - 1)
    BY <1>7
  <2> HIDE DEF wide
  <2> QED
    BY <1>1, <1>2, <1>3, <1>4, <1>5, <1>7, <2>1
<1> QED
  BY <1>6, <1>7

\* The table is made along the pool.
LEMMA TableSteps ==
  ASSUME NEW S, NEW pool \in Seq(S)
  PROVE  \E pos \in [0 .. Len(pool) -> Seq(Nat)] :
           /\ pos[0] = << >>
           /\ \A i \in 1 .. Len(pool) : pos[i] = pos[i - 1] \o (IF TwoSlots(pool[i]) THEN <<i, 0>> ELSE <<i>>)
           /\ CpLookup(pool) = pos[Len(pool)]
<1> DEFINE n == Len(pool)
           item(i) == IF TwoSlots(pool[i]) THEN <<i, 0>> ELSE <<i>>
           step == [i \in 1 .. n |-> [p \in Seq(Nat) |-> p \o item(i)]]
           made(f) == [i \in 0 .. n |-> IF i = 0 THEN << >> ELSE f[i - 1] \o item(i)]
           pos[i \in 0 .. n] == IF i = 0 THEN << >> ELSE pos[i - 1] \o item(i)
<1> HIDE DEF pos
<1>1. n \in Nat
  OBVIOUS
<1>2. \A i \in 1 .. n : item(i) \in Seq(Nat)
  OBVIOUS
<1>3. \E f \in [0 .. n -> Seq(Nat)] : Follows(f, n, << >>, step)
  <2>1. << >> \in Seq(Nat)
    OBVIOUS
  <2>2. step \in [1 .. n -> [Seq(Nat) -> Seq(Nat)]]
    BY <1>2
  <2> HIDE DEF n, step
  <2> QED
    BY <1>1, <2>1, <2>2, RecursionUpTo
<1>4. PICK f \in [0 .. n -> Seq(Nat)] : Follows(f, n, << >>, step)
  BY <1>3
<1>5. f = made(f)
  <2>1. ASSUME NEW i \in 1 .. n PROVE f[i] = f[i - 1] \o item(i)
    <3>1. i - 1 \in 0 .. n
      BY <1>1
    <3>2. f[i - 1] \in Seq(Nat) /\ f[i] = step[i][f[i - 1]]
      BY <1>4, <3>1 DEF Follows
    <3> HIDE DEF item, n
    <3> QED
      BY <3>2
  <2>2. f[0] = << >>
    BY <1>4 DEF Follows
  <2>3. \A i \in 0 .. n : f[i] = IF i = 0 THEN << >> ELSE f[i - 1] \o item(i)
    <3> HIDE DEF item
    <3> QED
      BY <1>1, <2>1, <2>2
  <2>4. f = [i \in 0 .. n |-> f[i]]
    OBVIOUS
  <2> HIDE DEF item, n
  <2> QED
    BY <2>3, <2>4
<1>6. pos = made(pos)
  BY <1>5 DEF pos
<1>7. CpLookup(pool) = pos[n]
  BY DEF CpLookup, pos
<1>8. pos[0] = << >> /\ \A i \in 1 .. n : pos[i] = pos[i - 1] \o item(i)
  <2>1. made(pos)[0] = << >> /\ \A i \in 1 .. n : made(pos)[i] = pos[i - 1] \o item(i)
    <3> HIDE DEF item
    <3> QED
      BY <1>1
  <2> HIDE DEF made, item
  <2> QED
    BY <1>6, <2>1
<1>9. \A i \in 0 .. n : pos[i] \in Seq(Nat)
  <2> DEFINE T == {i \in 0 .. n : pos[i] \in Seq(Nat)}
  <2>1. 0 \in T
    <3>1. 0 \in 0 .. n /\ << >> \in Seq(Nat)
      BY <1>1
    <3> QED
      BY <1>8, <3>1
  <2>2. ASSUME NEW i \in 0 .. n, i \in T, i < n PROVE i + 1 \in T
    <3>1. i + 1 \in 1 .. n /\ (i + 1) - 1 = i
      BY <2>2
    <3> HIDE DEF item
    <3>2. pos[i + 1] = pos[i] \o item(i + 1)
      BY <1>8, <3>1
    <3>3. pos[i + 1] \in Seq(Nat)
      BY <1>2, <2>2, <3>1, <3>2, ConcatProperties
    <3> QED
      BY <3>1, <3>3
  <2>3. \A i \in 0 .. n : i \in T
    <3> HIDE DEF T, n
    <3> QED
      BY <1>1, <2>1, <2>2, InductionUpTo
  <2> QED
    BY <2>3
<1>10. pos \in [0 .. n -> Seq(Nat)]
  <2>1. DOMAIN made(pos) = 0 .. n /\ made(pos) = [i \in 0 .. n |-> made(pos)[i]]
    <3> HIDE DEF item
    <3> QED
      OBVIOUS
  <2>2. pos = [i \in 0 .. n |-> pos[i]]
    <3> HIDE DEF made
    <3> QED
      BY <1>6, <2>1
  <2> QED
    BY <1>9, <2>2
<1> QED
  BY <1>7, <1>8, <1>10

LEMMA TableHolds ==
  ASSUME NEW S, NEW pool \in Seq(S)
  PROVE  LET pos == CpLookup(pool)
         IN  /\ pos \in Seq(Nat)
             /\ \A j \in 1 .. Len(pool) : Slots(pool, j) \in 1 .. Len(pos) /\ pos[Slots(pool, j)] = j
             /\ \A n \in 1 .. Len(pos) : pos[n] = 0 \/ (pos[n] \in 1 .. Len(pool) /\ Slots(pool, pos[n]) = n)
<1> DEFINE item(i) == IF TwoSlots(pool[i]) THEN <<i, 0>> ELSE <<i>>
           size(i) == IF TwoSlots(pool[i]) THEN 2 ELSE 1
<1>1. PICK pos \in [0 .. Len(pool) -> Seq(Nat)] :
        /\ pos[0] = << >>
        /\ \A i \in 1 .. Len(pool) : pos[i] = pos[i - 1] \o item(i)
        /\ CpLookup(pool) = pos[Len(pool)]
  BY TableSteps
<1> DEFINE Fits(i) ==
             /\ Len(pos[i]) = Slots(pool, i + 1) - 1
             /\ \A j \in 1 .. i : Slots(pool, j) \in 1 .. Len(pos[i]) /\ pos[i][Slots(pool, j)] = j
             /\ \A n \in 1 .. Len(pos[i]) : pos[i][n] = 0 \/ (pos[i][n] \in 1 .. i /\ Slots(pool, pos[i][n]) = n)
           T == {i \in 0 .. Len(pool) : Fits(i)}
<1>2. 0 \in T
  <2>1. Slots(pool, 0 + 1) = 1
    BY SlotsStep
  <2>2. Len(<< >>) = 0
    OBVIOUS
  <2> QED
    BY <1>1, <2>1, <2>2
<1>3. ASSUME NEW i \in 0 .. Len(pool), i \in T, i < Len(pool) PROVE i + 1 \in T
  <2> DEFINE k == i + 1
             s == Slots(pool, k)
             old == pos[i]
             new == pos[k]
  <2>1. k \in 1 .. Len(pool) /\ k - 1 = i /\ k \in Nat \ {0} /\ i \in Nat
    BY <1>3
  <2>2. new = old \o item(k) /\ old \in Seq(Nat)
    <3> HIDE DEF item
    <3> QED
      BY <1>1, <2>1
  <2>3. item(k) \in Seq(Nat) /\ Len(item(k)) = size(k) /\ item(k)[1] = k /\ (TwoSlots(pool[k]) => item(k)[2] = 0)
    BY <2>1
  <2>4. s \in Nat \ {0} /\ Slots(pool, k + 1) = s + size(k) /\ Len(old) = s - 1
    BY <1>3, <2>1, SlotsStep
  <2>5. size(k) \in 1 .. 2 /\ (size(k) = 2 <=> TwoSlots(pool[k]))
    OBVIOUS
  <2> HIDE DEF item, size
  <2>6. /\ new \in Seq(Nat) /\ Len(new) = (s - 1) + size(k)
        /\ \A n \in 1 .. s - 1 : new[n] = old[n]
        /\ new[s] = k
        /\ size(k) = 2 => new[s + 1] = 0
    <3>1. /\ new \in Seq(Nat) /\ Len(new) = Len(old) + Len(item(k))
          /\ \A n \in 1 .. Len(old) + Len(item(k)) : new[n] = IF n <= Len(old) THEN old[n] ELSE item(k)[n - Len(old)]
      BY <2>2, <2>3, ConcatProperties
    <3> HIDE DEF new, old, s
    <3> HIDE DEF new, old, s
    <3>2. s - (s - 1) = 1 /\ (s + 1) - (s - 1) = 2 /\ Len(new) = (s - 1) + size(k)
      <4>1. Len(new) = (s - 1) + size(k)
        BY <2>3, <2>4, <3>1
      <4>2. s \in Int
        BY <2>4
      <4> HIDE DEF k
      <4> QED
        BY <4>1, <4>2
    <3>3. \A n \in 1 .. s - 1 : n \in 1 .. (s - 1) + size(k) /\ n <= s - 1
      BY <2>4, <2>5
    <3>4. s \in 1 .. (s - 1) + size(k) /\ ~(s <= s - 1)
      BY <2>4, <2>5
    <3>5. size(k) = 2 => s + 1 \in 1 .. (s - 1) + size(k) /\ ~(s + 1 <= s - 1)
      BY <2>4
    <3>6. \A n \in 1 .. (s - 1) + size(k) : new[n] = IF n <= s - 1 THEN old[n] ELSE item(k)[n - (s - 1)]
      BY <2>3, <2>4, <3>1
    <3>7. new[s] = k
      BY <2>3, <3>2, <3>4, <3>6
    <3>8. size(k) = 2 => new[s + 1] = 0
      BY <2>3, <2>5, <3>2, <3>5, <3>6
    <3> QED
      BY <3>1, <3>2, <3>3, <3>6, <3>7, <3>8
  <2>7. Len(new) = Slots(pool, k + 1) - 1
    BY <2>4, <2>5, <2>6
  <2>8. ASSUME NEW j \in 1 .. k PROVE Slots(pool, j) \in 1 .. Len(new) /\ new[Slots(pool, j)] = j
    <3>1. CASE j = k
      BY <2>4, <2>5, <2>6, <3>1
    <3>2. CASE j \in 1 .. i
      <4>1. Slots(pool, j) \in 1 .. s - 1 /\ old[Slots(pool, j)] = j
        BY <1>3, <2>4, <3>2
      <4> HIDE DEF old, new, s
      <4>2. s - 1 <= Len(new)
        BY <2>4, <2>5, <2>6
      <4>3. Slots(pool, j) \in 1 .. Len(new)
        BY <2>4, <2>5, <2>6, <4>1, <4>2
      <4> QED
        BY <2>6, <4>1, <4>3
    <3> QED
      BY <3>1, <3>2
  <2>9. ASSUME NEW n \in 1 .. Len(new) PROVE new[n] = 0 \/ (new[n] \in 1 .. k /\ Slots(pool, new[n]) = n)
    <3>1. CASE n \in 1 .. s - 1
      <4>1. old[n] = 0 \/ (old[n] \in 1 .. i /\ Slots(pool, old[n]) = n)
        BY <1>3, <2>4, <3>1
      <4> QED
        BY <2>1, <2>6, <3>1, <4>1
    <3>2. CASE n = s
      BY <2>1, <2>6, <3>2
    <3>3. CASE n = s + 1 /\ size(k) = 2
      BY <2>6, <3>3
    <3> QED
      BY <2>4, <2>5, <2>6, <3>1, <3>2, <3>3
  <2> QED
    BY <2>1, <2>7, <2>8, <2>9
<1>4. Fits(Len(pool))
  <2>1. \A i \in 0 .. Len(pool) : i \in T
    <3>1. Len(pool) \in Nat
      OBVIOUS
    <3> HIDE DEF T
    <3> QED
      BY <1>2, <1>3, <3>1, InductionUpTo
  <2> HIDE DEF Fits
  <2> QED
    BY <2>1
<1> QED
  BY <1>1, <1>4

(* get_entry, counting along the pool, and CpLookup, by its table, find    *)
(* the same constant under every number, or neither finds one.             *)
THEOREM LookupsAgree ==
  ASSUME NEW S, NEW pool \in Seq(S), NEW n \in Nat
  PROVE  GetEntry(pool, n) = Lookup(CpLookup(pool), pool, n)
<1> DEFINE pos == CpLookup(pool)
           hit == {i \in DOMAIN pool : Slots(pool, i) = n}
<1>1. /\ pos \in Seq(Nat)
      /\ \A j \in 1 .. Len(pool) : Slots(pool, j) \in 1 .. Len(pos) /\ pos[Slots(pool, j)] = j
      /\ \A k \in 1 .. Len(pos) : pos[k] = 0 \/ (pos[k] \in 1 .. Len(pool) /\ Slots(pool, pos[k]) = k)
  BY TableHolds
<1>2. DOMAIN pos = 1 .. Len(pos) /\ DOMAIN pool = 1 .. Len(pool)
  BY <1>1
<1> HIDE DEF pos
<1>3. CASE hit = {}
  BY <1>1, <1>2, <1>3 DEF GetEntry, Lookup, pos
<1>4. CASE hit # {}
  <2>1. PICK i \in hit : i = CHOOSE j \in hit : TRUE
    BY <1>4
  <2>2. i \in 1 .. Len(pool) /\ Slots(pool, i) = n /\ n \in DOMAIN pos /\ pos[n] = i /\ pos[n] # 0
    BY <1>1, <1>2, <2>1
  <2>3. Lookup(pos, pool, n) = pool[i]
    BY <2>2 DEF Lookup
  <2>4. GetEntry(pool, n) = pool[i]
    BY <1>4, <2>1 DEF GetEntry
  <2> QED
    BY <2>3, <2>4 DEF pos
<1> QED
  BY <1>3, <1>4

-----------------------------------------------------------------------------
(* The instructions: where one stands and how far it reaches.              *)

\* The code of a method: the format of a class file allows no longer one.
Byte == 0 .. 255
IsCode(code) == code \in Seq(Byte) /\ Len(code) <= MaxPlace

\* What is decoded at a place starts there and takes some bytes.
WellPlaced(ins, pc) ==
  /\ ins.pc = pc /\ ins.size \in Nat \ {0} /\ ins.op # Invalid
  /\ \E n \in Nat : DOMAIN ins.cases = 1 .. n

LEMMA InstructionPlaced ==
  ASSUME NEW pc, NEW size \in Nat \ {0}, NEW op, op # Invalid, NEW a, NEW b
  PROVE  WellPlaced(Instruction(pc, size, op, a, b), pc)
<1>1. 0 \in Nat /\ DOMAIN << >> = 1 .. 0
  OBVIOUS
<1> QED
  BY <1>1 DEF Instruction, WellPlaced

LEMMA WordSmall ==
  ASSUME NEW n \in Nat, n <= MaxPlace
  PROVE  Word(n) = n
BY DEF Word, MaxPlace

LEMMA BaseLenPositive ==
  ASSUME NEW op
  PROVE  BaseLen(op) \in Nat \ {0}
BY DEF BaseLen

LEMMA SwitchPlaced ==
  ASSUME NEW code, IsCode(code), NEW pc \in 0 .. Len(code) - 1, NEW op \in Switches, NEW base,
         NEW end \in Nat, end > pc, NEW n \in Nat, NEW cases, DOMAIN cases = 1 .. n,
         Switch(code, pc, op, base, end, cases) # Undecodable
  PROVE  WellPlaced(Switch(code, pc, op, base, end, cases), pc)
<1> DEFINE ins == [pc |-> pc, size |-> Word(end - pc), op |-> op, a |-> pc + Signed(code, base + 1), b |-> 0,
                   default |-> Target(code, pc, base), cases |-> cases]
<1>1. Switch(code, pc, op, base, end, cases) = ins /\ ~(end > Len(code))
  BY DEF Switch
<1>2. ins.pc = pc /\ ins.size = Word(end - pc) /\ ins.op = op /\ ins.cases = cases
  OBVIOUS
<1>3. end - pc \in Nat \ {0} /\ end - pc <= MaxPlace
  <2>1. Len(code) \in Nat /\ Len(code) <= MaxPlace /\ MaxPlace \in Nat
    BY DEF IsCode, MaxPlace
  <2> QED
    BY <1>1, <2>1
<1>4. Word(end - pc) = end - pc
  BY <1>3, WordSmall
<1>5. op # Invalid
  BY DEF Switches, Invalid
<1> HIDE DEF ins
<1> QED
  BY <1>1, <1>2, <1>3, <1>4, <1>5 DEF WellPlaced

LEMMA DecodeSwitchPlaced ==
  ASSUME NEW code, IsCode(code), NEW pc \in 0 .. Len(code) - 1, NEW op \in Switches, DecodeSwitch(code, pc, op) # Undecodable
  PROVE  WellPlaced(DecodeSwitch(code, pc, op), pc)
<1> DEFINE base == SwitchBase(pc)
<1>1. pc \in Nat
  BY DEF IsCode
<1>2. base \in Nat /\ base > pc
  BY <1>1 DEF SwitchBase
<1>3. DecodeSwitch(code, pc, op) = SwitchFrom(code, pc, op, base)
  BY DEF DecodeSwitch
<1>8. MaxPlace \in Nat
  BY DEF MaxPlace
<1>4. 170 \in Switches /\ 171 \in Switches
  BY DEF Switches
<1> HIDE DEF base
<1>5. \/ \E low, n : SwitchFrom(code, pc, op, base) = TableSwitch(code, pc, base, low, n)
      \/ \E n : SwitchFrom(code, pc, op, base) = LookupSwitch(code, pc, base, n)
  BY <1>3 DEF SwitchFrom
<1>6. ASSUME NEW low, NEW n, SwitchFrom(code, pc, op, base) = TableSwitch(code, pc, base, low, n)
      PROVE  WellPlaced(DecodeSwitch(code, pc, op), pc)
  <2> DEFINE end == base + 12 + 4 * n
             cases == TableCases(code, pc, base, low, n)
  <2>3. TableSwitch(code, pc, base, low, n) = IF n \notin 1 .. MaxPlace + 1 THEN Undecodable ELSE Switch(code, pc, 170, base, end, cases)
    BY DEF TableSwitch
  <2>4. TableSwitch(code, pc, base, low, n) # Undecodable
    BY <1>3, <1>6
  <2> HIDE DEF end, cases
  <2>1. DecodeSwitch(code, pc, op) = Switch(code, pc, 170, base, end, cases) /\ n \in 1 .. MaxPlace + 1
    BY <1>3, <1>6, <2>3, <2>4, Zenon
  <2>2. end \in Nat /\ end > pc
    BY <1>1, <1>2, <1>8, <2>1 DEF end
  <2>5. n \in Nat /\ DOMAIN cases = 1 .. n
    BY <1>8, <2>1 DEF cases, TableCases
  <2> HIDE DEF end, cases
  <2> QED
    BY <1>4, <2>1, <2>2, <2>5, SwitchPlaced
<1>7. ASSUME NEW n, SwitchFrom(code, pc, op, base) = LookupSwitch(code, pc, base, n)
      PROVE  WellPlaced(DecodeSwitch(code, pc, op), pc)
  <2> DEFINE end == base + 8 + 8 * n
             cases == LookupCases(code, pc, base, n)
  <2>3. LookupSwitch(code, pc, base, n) = IF n \notin 0 .. MaxPlace THEN Undecodable ELSE Switch(code, pc, 171, base, end, cases)
    BY DEF LookupSwitch
  <2>4. LookupSwitch(code, pc, base, n) # Undecodable
    BY <1>3, <1>7
  <2> HIDE DEF end, cases
  <2>1. DecodeSwitch(code, pc, op) = Switch(code, pc, 171, base, end, cases) /\ n \in 0 .. MaxPlace
    BY <1>3, <1>7, <2>3, <2>4, Zenon
  <2>2. end \in Nat /\ end > pc
    BY <1>1, <1>2, <1>8, <2>1 DEF end
  <2>5. n \in Nat /\ DOMAIN cases = 1 .. n
    BY <1>8, <2>1 DEF cases, LookupCases
  <2> HIDE DEF end, cases
  <2> QED
    BY <1>4, <2>1, <2>2, <2>5, SwitchPlaced
<1> QED
  BY <1>5, <1>6, <1>7

LEMMA WidePlaced ==
  ASSUME NEW code, NEW pc, DecodeWide(code, pc) # Undecodable
  PROVE  WellPlaced(DecodeWide(code, pc), pc)
<1> DEFINE op == FromByte(code[pc + 2])
           index == Num(code, pc + 3, 2)
           word == Word16(Num(code, pc + 5, 2))
<1>1. \/ DecodeWide(code, pc) = Instruction(pc, 6, op, index, word) /\ op = Iinc
      \/ DecodeWide(code, pc) = Instruction(pc, 4, op, index, 0) /\ op \in LoadStore \cup {Ret}
  BY DEF DecodeWide
<1> HIDE DEF op, index, word
<1>2. op # Invalid
  BY <1>1 DEF Iinc, LoadStore, Ret, Invalid
<1>3. WellPlaced(Instruction(pc, 6, op, index, word), pc) /\ WellPlaced(Instruction(pc, 4, op, index, 0), pc)
  <2>1. 6 \in Nat \ {0} /\ 4 \in Nat \ {0}
    OBVIOUS
  <2> QED
    BY <1>2, <2>1, InstructionPlaced, Zenon
<1> QED
  BY <1>1, <1>3

LEMMA PlainPlaced ==
  ASSUME NEW code, NEW pc, NEW op, op # Invalid, DecodePlain(code, pc, op) # Undecodable
  PROVE  WellPlaced(DecodePlain(code, pc, op), pc)
<1>1. DecodePlain(code, pc, op) = Instruction(pc, BaseLen(op), op, OperandA(code, pc, op), OperandB(code, pc, op))
  BY DEF DecodePlain
<1>2. BaseLen(op) \in Nat \ {0}
  BY BaseLenPositive
<1> QED
  BY <1>1, <1>2, InstructionPlaced

LEMMA DecodedPlaced ==
  ASSUME NEW code, IsCode(code), NEW pc \in 0 .. Len(code) - 1, DecodeAt(code, pc) # Undecodable
  PROVE  WellPlaced(DecodeAt(code, pc), pc)
<1> DEFINE op == FromByte(code[pc + 1])
<1>2. DecodeAt(code, pc) = DecodeAs(code, pc, op)
  BY DEF DecodeAt
<1> HIDE DEF op
<1>7. Invalid \notin Switches /\ Wide \notin Switches /\ Wide # Invalid
  BY DEF Switches, Invalid, Wide
<1>3. op # Invalid
  <2>1. SUFFICES ASSUME op = Invalid PROVE DecodeAs(code, pc, op) = Undecodable
    BY <1>2
  <2> QED
    BY <1>7, <2>1, Zenon DEF DecodeAs
<1>4. CASE op \in Switches
  <2>1. DecodeAt(code, pc) = DecodeSwitch(code, pc, op)
    BY <1>2, <1>3, <1>4, <1>7, Zenon DEF DecodeAs
  <2> QED
    BY <1>4, <2>1, DecodeSwitchPlaced
<1>5. CASE op = Wide
  <2>1. DecodeAt(code, pc) = DecodeWide(code, pc)
    BY <1>2, <1>3, <1>5, <1>7, Zenon DEF DecodeAs
  <2> QED
    BY <2>1, WidePlaced
<1>6. CASE op \notin Switches \cup {Invalid, Wide}
  <2>1. DecodeAt(code, pc) = DecodePlain(code, pc, op)
    BY <1>2, <1>6, Zenon DEF DecodeAs
  <2> QED
    BY <1>3, <2>1, PlainPlaced
<1> QED
  BY <1>3, <1>4, <1>5, <1>6

\* The rounds of the loop over the code.
Decodings(code) == {DecodeAt(code, p) : p \in 0 .. Len(code) - 1}
                   \cup {Instruction(p, 1, Invalid, code[p + 1], 0) : p \in 0 .. Len(code) - 1}
Loops(code) == [pc : Nat, out : Seq(Decodings(code))]
Start == [pc |-> 0, out |-> << >>]

LEMMA InvalidFields ==
  ASSUME NEW pc, NEW a
  PROVE  LET ins == Instruction(pc, 1, Invalid, a, 0) IN ins.pc = pc /\ ins.size = 1 /\ ins.op = Invalid
BY DEF Instruction

LEMMA CodeLength ==
  ASSUME NEW code, IsCode(code)
  PROVE  Len(code) \in Nat /\ Len(code) <= MaxPlace
BY DEF IsCode

\* What one round does.
LEMMA DecodeRound ==
  ASSUME NEW code, IsCode(code), NEW loop \in Loops(code)
  PROVE  LET ins == DecodeAt(code, loop.pc)
             stop == Instruction(loop.pc, 1, Invalid, code[loop.pc + 1], 0)
         IN  /\ Decode(code, loop) \in Loops(code)
             /\ loop.pc >= Len(code) => Decode(code, loop) = loop
             /\ loop.pc < Len(code) /\ ins = Undecodable => Decode(code, loop) = [pc |-> Len(code), out |-> Append(loop.out, stop)]
             /\ loop.pc < Len(code) /\ ins # Undecodable =>
                  Decode(code, loop) = [pc |-> loop.pc + ins.size, out |-> Append(loop.out, ins)] /\ WellPlaced(ins, loop.pc)
<1> DEFINE ins == DecodeAt(code, loop.pc)
           stop == Instruction(loop.pc, 1, Invalid, code[loop.pc + 1], 0)
<1>1. loop.pc \in Nat /\ loop.out \in Seq(Decodings(code)) /\ loop = [pc |-> loop.pc, out |-> loop.out]
  BY DEF Loops
<1>2. Len(code) \in Nat /\ Len(code) <= MaxPlace
  BY CodeLength
<1>3. CASE loop.pc >= Len(code)
  <2>1. Decode(code, loop) = loop
    BY <1>3 DEF Decode
  <2> QED
    BY <1>1, <1>2, <1>3, <2>1
<1>4. CASE loop.pc < Len(code)
  <2>1. Word(loop.pc) = loop.pc /\ loop.pc \in 0 .. Len(code) - 1
    BY <1>1, <1>2, <1>4, WordSmall DEF MaxPlace
  <2>2. Decode(code, loop) = DecodeNext(code, loop, ins)
    BY <1>1, <1>2, <1>4, <2>1 DEF Decode
  <2>3. ins \in Decodings(code) /\ stop \in Decodings(code)
    BY <2>1 DEF Decodings
  <2>4. Append(loop.out, ins) \in Seq(Decodings(code)) /\ Append(loop.out, stop) \in Seq(Decodings(code))
    BY <1>1, <2>3
  <2>7. ~(loop.pc >= Len(code))
    BY <1>1, <1>2, <1>4
  <2> HIDE DEF ins
  <2>5. CASE ins = Undecodable
    <3>1. Decode(code, loop) = [pc |-> Len(code), out |-> Append(loop.out, stop)]
      BY <2>1, <2>2, <2>5 DEF DecodeNext
    <3> HIDE DEF stop
    <3>2. Decode(code, loop) \in Loops(code)
      BY <1>2, <2>4, <3>1 DEF Loops
    <3> QED
      BY <1>4, <2>5, <2>7, <3>1, <3>2, Zenon DEF ins, stop
  <2>6. CASE ins # Undecodable
    <3>1. Decode(code, loop) = [pc |-> loop.pc + ins.size, out |-> Append(loop.out, ins)]
      BY <2>2, <2>6 DEF DecodeNext
    <3>2. WellPlaced(ins, loop.pc)
      BY <2>1, <2>6, DecodedPlaced DEF ins
    <3>3. loop.pc + ins.size \in Nat
      BY <1>1, <3>2 DEF WellPlaced
    <3>4. Decode(code, loop) \in Loops(code)
      BY <2>4, <3>1, <3>3 DEF Loops
    <3> QED
      BY <1>4, <2>6, <2>7, <3>1, <3>2, <3>4, Zenon DEF ins
  <2> QED
    BY <2>5, <2>6
<1> QED
  BY <1>1, <1>2, <1>3, <1>4

LEMMA DecodeRounds ==
  ASSUME NEW code, IsCode(code)
  PROVE  \E after \in [0 .. Len(code) -> Loops(code)] :
           /\ after[0] = Start
           /\ \A i \in 1 .. Len(code) : after[i] = Decode(code, after[i - 1])
           /\ DecodeAll(code) = after[Len(code)].out
<1> DEFINE n == Len(code)
           V == Loops(code)
           step == [i \in 1 .. n |-> [loop \in V |-> Decode(code, loop)]]
           made(f) == [i \in 0 .. n |-> IF i = 0 THEN Start ELSE Decode(code, f[i - 1])]
           after[i \in 0 .. n] == IF i = 0 THEN Start ELSE Decode(code, after[i - 1])
<1> HIDE DEF after
<1>1. n \in Nat
  BY CodeLength
<1>2. \A loop \in V : Decode(code, loop) \in V
  BY DecodeRound
<1>3. Start \in V
  BY DEF Start, Loops
<1> HIDE DEF V, n
<1>4. PICK f \in [0 .. n -> V] : Follows(f, n, Start, step)
  <2>1. step \in [1 .. n -> [V -> V]]
    BY <1>2
  <2> HIDE DEF step
  <2> QED
    BY <1>1, <1>3, <2>1, RecursionUpTo
<1>5. f = made(f)
  <2>1. ASSUME NEW i \in 1 .. n PROVE f[i] = Decode(code, f[i - 1])
    <3>1. i - 1 \in 0 .. n
      BY <1>1
    <3>2. f[i - 1] \in V /\ f[i] = step[i][f[i - 1]]
      BY <1>4, <3>1 DEF Follows
    <3> QED
      BY <3>2
  <2>2. f[0] = Start
    BY <1>4 DEF Follows
  <2>3. \A i \in 0 .. n : f[i] = IF i = 0 THEN Start ELSE Decode(code, f[i - 1])
    BY <1>1, <2>1, <2>2
  <2>4. f = [i \in 0 .. n |-> f[i]]
    OBVIOUS
  <2> QED
    BY <2>3, <2>4
<1>6. after = made(after)
  BY <1>5 DEF after
<1>7. DecodeAll(code) = after[n].out
  BY DEF DecodeAll, after, n, Start
<1>8. after[0] = Start /\ \A i \in 1 .. n : after[i] = Decode(code, after[i - 1])
  <2>1. made(after)[0] = Start /\ \A i \in 1 .. n : made(after)[i] = Decode(code, after[i - 1])
    BY <1>1
  <2> HIDE DEF made
  <2> QED
    BY <1>6, <2>1
<1>9. \A i \in 0 .. n : after[i] \in V
  <2> DEFINE T == {i \in 0 .. n : after[i] \in V}
  <2>1. 0 \in T
    BY <1>1, <1>3, <1>8
  <2>2. ASSUME NEW i \in 0 .. n, i \in T, i < n PROVE i + 1 \in T
    <3>1. i + 1 \in 1 .. n /\ (i + 1) - 1 = i
      BY <1>1, <2>2
    <3>2. after[i + 1] = Decode(code, after[i])
      BY <1>8, <3>1
    <3> QED
      BY <1>2, <2>2, <3>1, <3>2
  <2>3. \A i \in 0 .. n : i \in T
    <3> HIDE DEF T
    <3> QED
      BY <1>1, <2>1, <2>2, InductionUpTo
  <2> QED
    BY <2>3
<1>10. after \in [0 .. n -> V]
  <2>1. made(after) = [i \in 0 .. n |-> made(after)[i]]
    OBVIOUS
  <2>2. after = [i \in 0 .. n |-> after[i]]
    <3> HIDE DEF made
    <3> QED
      BY <1>6, <2>1
  <2> QED
    BY <1>9, <2>2
<1> QED
  BY <1>7, <1>8, <1>10 DEF V, n

\* What the instructions decoded so far are like: one stands behind the other,
\* from the start of the code, as the code says, and only the last may be the
\* mark of what cannot be decoded.
Tiles(code, all) ==
  /\ all # << >> => all[1].pc = 0
  /\ \A k \in 1 .. Len(all) : /\ all[k].pc \in Nat /\ all[k].pc < Len(code) /\ all[k].size \in Nat \ {0}
                              /\ IF all[k].op = Invalid THEN DecodeAt(code, all[k].pc) = Undecodable
                                 ELSE all[k] = DecodeAt(code, all[k].pc)
  /\ \A k \in 1 .. Len(all) - 1 : all[k + 1].pc = all[k].pc + all[k].size /\ all[k].op # Invalid
EndsAt(code, all, pc) ==
  IF all = << >> THEN pc = 0
  ELSE IF all[Len(all)].op = Invalid THEN pc = Len(code)
  ELSE pc = all[Len(all)].pc + all[Len(all)].size

LEMMA TilesAppend ==
  ASSUME NEW code, IsCode(code), NEW S, NEW all \in Seq(S), NEW ins \in S, NEW pc \in Nat, pc < Len(code),
         Tiles(code, all), EndsAt(code, all, pc),
         ins.pc = pc, ins.size \in Nat \ {0},
         IF ins.op = Invalid THEN DecodeAt(code, pc) = Undecodable ELSE ins = DecodeAt(code, pc)
  PROVE  LET new == Append(all, ins)
         IN  Tiles(code, new) /\ new # << >> /\ new[Len(new)] = ins
<1> DEFINE new == Append(all, ins)
           n == Len(all)
<1>1. n \in Nat /\ new \in Seq(S) /\ Len(new) = n + 1 /\ new[n + 1] = ins /\ \A k \in 1 .. n : new[k] = all[k]
  OBVIOUS
<1>2. Len(code) \in Nat
  BY CodeLength
<1>3. (all = << >> <=> n = 0) /\ new # << >>
  OBVIOUS
<1>4. n # 0 => all[n].op # Invalid /\ pc = all[n].pc + all[n].size
  BY <1>2, <1>3 DEF EndsAt
<1>5. n = 0 => pc = 0
  BY <1>3 DEF EndsAt
<1> HIDE DEF new, n
<1>6. new # << >> /\ new[1].pc = 0
  <2>1. CASE n = 0
    <3>1. new[1] = ins
      BY <1>1, <2>1
    <3> QED
      BY <1>3, <1>5, <2>1, <3>1
  <2>2. CASE n # 0
    <3>1. 1 \in 1 .. n
      BY <1>1, <2>2
    <3>2. all[1].pc = 0
      BY <1>3, <2>2 DEF Tiles
    <3> QED
      BY <1>1, <3>1, <3>2
  <2> QED
    BY <2>1, <2>2
<1>7. ASSUME NEW k \in 1 .. Len(new)
      PROVE  /\ new[k].pc \in Nat /\ new[k].pc < Len(code) /\ new[k].size \in Nat \ {0}
             /\ IF new[k].op = Invalid THEN DecodeAt(code, new[k].pc) = Undecodable ELSE new[k] = DecodeAt(code, new[k].pc)
  <2>1. CASE k = n + 1
    BY <1>1, <2>1
  <2>2. CASE k \in 1 .. n
    <3>1. new[k] = all[k]
      BY <1>1, <2>2
    <3> QED
      BY <2>2, <3>1 DEF Tiles, n
  <2> QED
    BY <1>1, <2>1, <2>2
<1>8. ASSUME NEW k \in 1 .. Len(new) - 1 PROVE new[k + 1].pc = new[k].pc + new[k].size /\ new[k].op # Invalid
  <2>1. CASE k = n
    BY <1>1, <1>4, <2>1
  <2>2. CASE k \in 1 .. n - 1
    <3>1. new[k] = all[k] /\ new[k + 1] = all[k + 1]
      <4>1. k \in 1 .. n /\ k + 1 \in 1 .. n
        BY <1>1, <2>2
      <4> QED
        BY <1>1, <4>1
    <3> QED
      BY <2>2, <3>1 DEF Tiles, n
  <2> QED
    BY <1>1, <2>1, <2>2
<1>9. Tiles(code, new)
  BY <1>6, <1>7, <1>8 DEF Tiles
<1> QED
  BY <1>1, <1>6, <1>9 DEF new

(* The instructions of a method (decode_all) stand one behind the other    *)
(* from the start of its code to its end, each as its bytes say; decoding  *)
(* always comes to an end, and it is only the last that may be the mark of *)
(* bytes that cannot be decoded.                                           *)
THEOREM DecodingTiles ==
  ASSUME NEW code, IsCode(code)
  PROVE  LET all == DecodeAll(code)
             last == all[Len(all)]
         IN  /\ all \in Seq(Decodings(code))
             /\ Tiles(code, all)
             /\ Len(code) > 0 => all # << >> /\ (last.op # Invalid => last.pc + last.size >= Len(code))
<1> DEFINE n == Len(code)
<1>1. PICK after \in [0 .. n -> Loops(code)] :
        /\ after[0] = Start
        /\ \A i \in 1 .. n : after[i] = Decode(code, after[i - 1])
        /\ DecodeAll(code) = after[n].out
  BY DecodeRounds
<1>2. n \in Nat
  BY CodeLength
<1> DEFINE Good(i) == /\ Tiles(code, after[i].out)
                      /\ EndsAt(code, after[i].out, after[i].pc)
                      /\ after[i].pc >= i \/ after[i].pc >= n
           T == {i \in 0 .. n : Good(i)}
<1>3. \A i \in 0 .. n : after[i].pc \in Nat /\ after[i].out \in Seq(Decodings(code)) /\ after[i] \in Loops(code)
  BY <1>1 DEF Loops
<1>4. 0 \in T
  <2>1. after[0].pc = 0 /\ after[0].out = << >>
    BY <1>1 DEF Start
  <2>2. Tiles(code, << >>) /\ EndsAt(code, << >>, 0)
    BY DEF Tiles, EndsAt
  <2> QED
    BY <1>2, <2>1, <2>2
<1>5. ASSUME NEW i \in 0 .. n, i \in T, i < n PROVE i + 1 \in T
  <2> DEFINE old == after[i]
             new == after[i + 1]
             ins == DecodeAt(code, old.pc)
             stop == Instruction(old.pc, 1, Invalid, code[old.pc + 1], 0)
  <2>1. new = Decode(code, old) /\ i + 1 \in 0 .. n /\ i \in Nat
    <3>1. i + 1 \in 1 .. n /\ (i + 1) - 1 = i
      BY <1>2, <1>5
    <3> QED
      BY <1>1, <3>1
  <2>2. old \in Loops(code) /\ old.pc \in Nat /\ old.out \in Seq(Decodings(code)) /\ Good(i)
    BY <1>3, <1>5
  <2>3. /\ old.pc >= n => new = old
        /\ old.pc < n /\ ins = Undecodable => new = [pc |-> n, out |-> Append(old.out, stop)]
        /\ old.pc < n /\ ins # Undecodable => new = [pc |-> old.pc + ins.size, out |-> Append(old.out, ins)] /\ WellPlaced(ins, old.pc)
    BY <2>1, <2>2, DecodeRound
  <2> HIDE DEF old, new, ins, stop
  <2>4. CASE old.pc >= n
    <3>1. new = old
      BY <2>3, <2>4
    <3>2. Good(i + 1)
      BY <2>2, <2>4, <3>1 DEF old, new
    <3> QED
      BY <2>1, <3>2
  <2>5. CASE old.pc < n /\ ins = Undecodable
    <3>1. new.pc = n /\ new.out = Append(old.out, stop)
      BY <2>3, <2>5
    <3>2. stop.pc = old.pc /\ stop.size = 1 /\ stop.op = Invalid
      BY InvalidFields DEF stop
    <3>3. stop \in Decodings(code)
      BY <1>2, <2>2, <2>5 DEF Decodings, stop
    <3>7. Tiles(code, old.out) /\ EndsAt(code, old.out, old.pc)
      BY <2>2 DEF old
    <3>8. IF stop.op = Invalid THEN DecodeAt(code, old.pc) = Undecodable ELSE stop = DecodeAt(code, old.pc)
      BY <2>5, <3>2 DEF ins
    <3>9. stop.size \in Nat \ {0} /\ stop.pc = old.pc
      BY <3>2
    <3>10. old.pc \in Nat /\ old.pc < Len(code) /\ old.out \in Seq(Decodings(code))
      BY <2>2, <2>5
    <3>11. LET out == Append(old.out, stop) IN Tiles(code, out) /\ out # << >> /\ out[Len(out)] = stop
      BY <3>3, <3>7, <3>8, <3>9, <3>10, TilesAppend
    <3>4. Tiles(code, new.out) /\ new.out # << >> /\ new.out[Len(new.out)] = stop
      BY <3>1, <3>11
    <3>5. EndsAt(code, new.out, new.pc)
      BY <3>1, <3>2, <3>4 DEF EndsAt
    <3>6. Good(i + 1)
      BY <1>2, <3>1, <3>4, <3>5 DEF new
    <3> QED
      BY <2>1, <3>6
  <2>6. CASE old.pc < n /\ ins # Undecodable
    <3>1. new.pc = old.pc + ins.size /\ new.out = Append(old.out, ins)
      BY <2>3, <2>6
    <3>2. ins.pc = old.pc /\ ins.size \in Nat \ {0} /\ ins.op # Invalid
      BY <2>3, <2>6 DEF WellPlaced
    <3>3. ins \in Decodings(code)
      BY <1>2, <2>2, <2>6 DEF Decodings, ins
    <3>8. Tiles(code, old.out) /\ EndsAt(code, old.out, old.pc)
      BY <2>2 DEF old
    <3>9. IF ins.op = Invalid THEN DecodeAt(code, old.pc) = Undecodable ELSE ins = DecodeAt(code, old.pc)
      BY <3>2 DEF ins
    <3>10. old.pc \in Nat /\ old.pc < Len(code) /\ old.out \in Seq(Decodings(code))
      BY <2>2, <2>6
    <3>11. LET out == Append(old.out, ins) IN Tiles(code, out) /\ out # << >> /\ out[Len(out)] = ins
      BY <3>2, <3>3, <3>8, <3>9, <3>10, TilesAppend
    <3>4. Tiles(code, new.out) /\ new.out # << >> /\ new.out[Len(new.out)] = ins
      BY <3>1, <3>11
    <3>5. EndsAt(code, new.out, new.pc)
      BY <3>1, <3>2, <3>4 DEF EndsAt
    <3>7. new.pc >= i + 1 \/ new.pc >= n
      <4>1. old.pc >= i \/ old.pc >= n
        BY <2>2 DEF old
      <4> QED
        BY <1>2, <2>1, <2>2, <2>6, <3>1, <3>2, <4>1
    <3>6. Good(i + 1)
      BY <3>4, <3>5, <3>7 DEF new
    <3> QED
      BY <2>1, <3>6
  <2> QED
    BY <1>2, <2>2, <2>4, <2>5, <2>6
<1>6. Good(n)
  <2>1. \A i \in 0 .. n : i \in T
    <3> HIDE DEF T, n
    <3> QED
      BY <1>2, <1>4, <1>5, InductionUpTo
  <2> HIDE DEF Good
  <2> QED
    BY <1>2, <2>1
<1> DEFINE all == DecodeAll(code)
           last == all[Len(all)]
<1>7. all \in Seq(Decodings(code)) /\ Tiles(code, all) /\ EndsAt(code, all, after[n].pc) /\ after[n].pc >= n
  BY <1>1, <1>2, <1>3, <1>6
<1>8. n > 0 => all # << >> /\ (last.op # Invalid => last.pc + last.size >= n)
  <2> HIDE DEF n, all
  <2> QED
    BY <1>2, <1>7 DEF EndsAt
<1> QED
  BY <1>7, <1>8

-----------------------------------------------------------------------------
(***************************************************************************)
(* What was written is read: the format of the instructions from the       *)
(* writer's side, as an assembler follows it, and that decoding is its     *)
(* inverse.                                                                *)
(***************************************************************************)

Int8 == {x \in Int : -128 <= x /\ x <= 127}
Int16 == {x \in Int : -32768 <= x /\ x <= 32767}
Int32 == {x \in Int : -Limit - 1 <= x /\ x <= Limit}
Place16 == {x \in Nat : x <= MaxPlace}

\* A number in one, two or four bytes from the i-th, the high one first; of a
\* negative one its two's complement.
Low(x) == x % 256
High(x) == x \div 256
Write1(code, i, x) == code[i] = Low(x)
Write2(code, i, x) == code[i] = Low(High(x)) /\ code[i + 1] = Low(x)
Write4(code, i, x) == Write2(code, i, High(High(x))) /\ Write2(code, i + 2, x)

\* An instruction with operands of a fixed layout.
PlainForm(code, ins) ==
  LET pc == ins.pc
      op == ins.op
      a == ins.a
      b == ins.b
  IN  \/ op \in 0 .. 201 /\ BaseLen(op) = 1 /\ ins.size = 1 /\ a = 0 /\ b = 0
      \/ op = 16 /\ ins.size = 2 /\ a \in Int8 /\ Write1(code, pc + 2, a) /\ b = 0
      \/ op \in {18, Ret, 188} \cup LoadStore /\ ins.size = 2 /\ a \in Byte /\ Write1(code, pc + 2, a) /\ b = 0
      \/ op = 17 /\ ins.size = 3 /\ a \in Int16 /\ Write2(code, pc + 2, a) /\ b = 0
      \/ op = Iinc /\ ins.size = 3 /\ a \in Byte /\ Write1(code, pc + 2, a) /\ b \in Int8 /\ Write1(code, pc + 3, b)
      \/ op \in {167, 168} \cup Ifs /\ ins.size = 3 /\ a - pc \in Int16 /\ Write2(code, pc + 2, a - pc) /\ b = 0
      \/ op \in {200, 201} /\ ins.size = 5 /\ a - pc \in Int32 /\ Write4(code, pc + 2, a - pc) /\ b = 0
      \/ op \in Pooled \ {185, 186, 197} /\ ins.size = 3 /\ a \in Place16 /\ Write2(code, pc + 2, a) /\ b = 0
      \/ op = 197 /\ ins.size = 4 /\ a \in Place16 /\ Write2(code, pc + 2, a) /\ b \in Byte /\ Write1(code, pc + 4, b)
      \/ op = 185 /\ ins.size = 5 /\ a \in Place16 /\ Write2(code, pc + 2, a) /\ b \in Byte /\ Write1(code, pc + 4, b)
      \/ op = 186 /\ ins.size = 5 /\ a \in Place16 /\ Write2(code, pc + 2, a) /\ b = 0

Plainly(code, ins) ==
  /\ ins.op \notin Switches \cup {Wide}
  /\ code[ins.pc + 1] = ins.op
  /\ ins.a \in Int
  /\ ins = Instruction(ins.pc, ins.size, ins.op, ins.a, ins.b)
  /\ PlainForm(code, ins)

\* Behind a wide prefix: a local in two bytes.
Widely(code, ins) ==
  /\ code[ins.pc + 1] = Wide
  /\ code[ins.pc + 2] = ins.op
  /\ ins.a \in Place16 /\ Write2(code, ins.pc + 3, ins.a)
  /\ ins = Instruction(ins.pc, ins.size, ins.op, ins.a, ins.b)
  /\ \/ ins.op = Iinc /\ ins.size = 6 /\ ins.b \in Int16 /\ Write2(code, ins.pc + 5, ins.b)
     \/ ins.op \in LoadStore \cup {Ret} /\ ins.size = 4 /\ ins.b = 0

\* A switch: from the next multiple of four on, the way to the default, and
\* of a table its lowest and highest key and the ways of all from the one to
\* the other, of a lookup the number of its keys and each with its way.
Switched(code, ins) ==
  LET pc == ins.pc
      n == Len(ins.cases)
  IN  /\ code[pc + 1] = ins.op
      /\ ins.cases \in Seq(Int32 \X Place16)
      /\ ins.default \in Place16
      /\ ins = [pc |-> pc, size |-> ins.size, op |-> ins.op, a |-> ins.default, b |-> 0, default |-> ins.default, cases |-> ins.cases]
      /\ \E base \in pc + 1 .. pc + 4 :
           /\ base % 4 = 0
           /\ Write4(code, base + 1, ins.default - pc)
           /\ \/ /\ ins.op = 170 /\ n > 0 /\ ins.size = base + 12 + 4 * n - pc
                 /\ Write4(code, base + 5, ins.cases[1][1])
                 /\ Write4(code, base + 9, ins.cases[n][1])
                 /\ \A k \in 1 .. n : /\ ins.cases[k][1] = ins.cases[1][1] + k - 1
                                      /\ Write4(code, base + 9 + 4 * k, ins.cases[k][2] - pc)
              \/ /\ ins.op = 171 /\ ins.size = base + 8 + 8 * n - pc
                 /\ Write4(code, base + 5, n)
                 /\ \A k \in 1 .. n : /\ Write4(code, base + 8 * k + 1, ins.cases[k][1])
                                      /\ Write4(code, base + 8 * k + 5, ins.cases[k][2] - pc)

Written(code, ins) ==
  /\ ins.pc \in Nat /\ ins.size \in Nat \ {0} /\ ins.pc + ins.size <= Len(code)
  /\ Plainly(code, ins) \/ Widely(code, ins) \/ Switched(code, ins)

\* Code that is some instructions, one behind the other.
Assembled(code, all) ==
  /\ \A k \in 1 .. Len(all) : Written(code, all[k])
  /\ all # << >> => all[1].pc = 0
  /\ \A k \in 1 .. Len(all) - 1 : all[k + 1].pc = all[k].pc + all[k].size
  /\ IF all = << >> THEN Len(code) = 0 ELSE all[Len(all)].pc + all[Len(all)].size = Len(code)

LEMMA Digits ==
  ASSUME NEW x \in Int
  PROVE  High(x) \in Int /\ Low(x) \in Byte /\ x = 256 * High(x) + Low(x)
<1>1. High(x) \in Int /\ Low(x) \in 0 .. 255
  BY SMT DEF High, Low
<1>2. \A q, r \in Int : q = High(x) /\ r = Low(x) => x = 256 * q + r
  BY SMT DEF High, Low
<1> QED
  BY <1>1, <1>2, SMT DEF Byte

LEMMA TwoDigits ==
  ASSUME NEW h \in Int, NEW b1 \in Byte, NEW b0 \in Byte, NEW x \in Int, x = 256 * (256 * h + b1) + b0
  PROVE  /\ x \in Place16 => 256 * b1 + b0 = x
         /\ x \in Int16 => Word16(256 * b1 + b0) = x
<1> USE DEF Byte
<1>1. x = 65536 * h + 256 * b1 + b0
  BY SMT
<1>2. ASSUME x \in Nat, x <= 65535 PROVE 256 * b1 + b0 = x
  <2>1. h = 0
    BY <1>1, <1>2, SMT
  <2> QED
    BY <1>1, <2>1, SMT
<1>3. ASSUME -32768 <= x, x <= 32767
      PROVE  (IF 256 * b1 + b0 > 32767 THEN 256 * b1 + b0 - 65536 ELSE 256 * b1 + b0) = x
  <2>1. h \in {0, -1}
    BY <1>1, <1>3, SMT
  <2>2. CASE h = 0
    BY <1>1, <1>3, <2>2, SMT
  <2>3. CASE h = -1
    BY <1>1, <1>3, <2>3, SMT
  <2> QED
    BY <2>1, <2>2, <2>3, SMT
<1> QED
  BY <1>2, <1>3, SMT DEF Place16, MaxPlace, Int16, Word16

LEMMA FourDigits ==
  ASSUME NEW h \in Int, NEW b3 \in Byte, NEW b2 \in Byte, NEW b1 \in Byte, NEW b0 \in Byte, NEW x \in Int32,
         x = 256 * (256 * (256 * (256 * h + b3) + b2) + b1) + b0,
         NEW high, high = 256 * b3 + b2, NEW low, low = 256 * b1 + b0
  PROVE  x = 65536 * (IF b3 > 127 THEN high - 65536 ELSE high) + low
<1> USE DEF Byte
<1>1. x = 4294967296 * h + 16777216 * b3 + 65536 * b2 + 256 * b1 + b0
  BY SMT DEF Int32
<1>2. x \in Int /\ x >= -Limit - 1 /\ x <= Limit
  BY SMT DEF Int32
<1>6. Limit = 2147483647
  BY DEF Limit
<1>3. h \in {0, -1}
  BY <1>1, <1>2, <1>6, SMT
<1>4. CASE h = 0
  BY <1>1, <1>2, <1>4, <1>6, SMT
<1>5. CASE h = -1
  BY <1>1, <1>2, <1>5, <1>6, SMT
<1> QED
  BY <1>3, <1>4, <1>5, SMT

LEMMA OneDigit ==
  ASSUME NEW h \in Int, NEW b0 \in Byte, NEW x \in Int, x = 256 * h + b0
  PROVE  /\ x \in Byte => b0 = x
         /\ x \in Int8 => Byte8(b0) = x
<1> USE DEF Byte
<1>1. ASSUME x \in Byte PROVE b0 = x
  <2>1. h = 0
    BY <1>1, SMT
  <2> QED
    BY <2>1, SMT
<1>2. ASSUME -128 <= x, x <= 127 PROVE (IF b0 > 127 THEN b0 - 256 ELSE b0) = x
  <2>1. h \in {0, -1}
    BY <1>2, SMT
  <2>2. CASE h = 0
    BY <1>2, <2>2, SMT
  <2>3. CASE h = -1
    BY <1>2, <2>3, SMT
  <2> QED
    BY <2>1, <2>2, <2>3, SMT
<1> QED
  BY <1>1, <1>2, SMT DEF Int8, Byte8

LEMMA ByteRead ==
  ASSUME NEW code, NEW i, NEW x \in Int, Write1(code, i, x)
  PROVE  /\ x \in Byte => code[i] = x
         /\ x \in Int8 => Byte8(code[i]) = x
<1>1. code[i] = Low(x) /\ Low(x) \in Byte /\ High(x) \in Int /\ x = 256 * High(x) + Low(x)
  BY Digits DEF Write1
<1>2. /\ x \in Byte => Low(x) = x
      /\ x \in Int8 => Byte8(Low(x)) = x
  BY <1>1, OneDigit
<1> QED
  BY <1>1, <1>2

LEMMA WordRead ==
  ASSUME NEW code, NEW i, NEW x \in Int, Write2(code, i, x)
  PROVE  /\ x \in Place16 => Num(code, i, 2) = x
         /\ x \in Int16 => Word16(Num(code, i, 2)) = x
<1>1. High(x) \in Int /\ Low(x) \in Byte /\ x = 256 * High(x) + Low(x)
  BY Digits
<1>2. High(High(x)) \in Int /\ Low(High(x)) \in Byte /\ High(x) = 256 * High(High(x)) + Low(High(x))
  BY <1>1, Digits
<1>3. x = 256 * (256 * High(High(x)) + Low(High(x))) + Low(x)
  BY <1>1, <1>2
<1>4. Num(code, i, 2) = 256 * Low(High(x)) + Low(x)
  BY SMT DEF Num, Two, Write2
<1> QED
  BY <1>1, <1>2, <1>3, <1>4, TwoDigits, SMT

LEMMA IntRead ==
  ASSUME NEW code, NEW i \in Int, NEW x \in Int32, Write4(code, i, x)
  PROVE  Signed(code, i) = x
<1> DEFINE h1 == High(x)
           h2 == High(h1)
           h3 == High(h2)
           h4 == High(h3)
<1>1. x \in Int
  BY SMT DEF Int32
<1>2. h1 \in Int /\ Low(x) \in Byte /\ x = 256 * h1 + Low(x)
  BY <1>1, Digits
<1>3. h2 \in Int /\ Low(h1) \in Byte /\ h1 = 256 * h2 + Low(h1)
  BY <1>2, Digits
<1>4. h3 \in Int /\ Low(h2) \in Byte /\ h2 = 256 * h3 + Low(h2)
  BY <1>3, Digits
<1>5. h4 \in Int /\ Low(h3) \in Byte /\ h3 = 256 * h4 + Low(h3)
  BY <1>4, Digits
<1>6. code[i] = Low(h3) /\ code[i + 1] = Low(h2) /\ code[i + 2] = Low(h1) /\ code[i + 2 + 1] = Low(x)
  BY DEF Write4, Write2
<1> HIDE DEF h1, h2, h3, h4
<1>7. x = 256 * (256 * (256 * (256 * h4 + code[i]) + code[i + 1]) + code[i + 2]) + code[i + 2 + 1]
  <2>1. h2 = 256 * (256 * h4 + code[i]) + code[i + 1]
    BY <1>4, <1>5, <1>6
  <2>2. h1 = 256 * (256 * (256 * h4 + code[i]) + code[i + 1]) + code[i + 2]
    BY <1>3, <1>6, <2>1
  <2> QED
    BY <1>2, <1>6, <2>2
<1>8. code[i] \in Byte /\ code[i + 1] \in Byte /\ code[i + 2] \in Byte /\ code[i + 2 + 1] \in Byte
  BY <1>2, <1>3, <1>4, <1>5, <1>6
<1>9. Two(code, i) = 256 * code[i] + code[i + 1] /\ Two(code, i + 2) = 256 * code[i + 2] + code[i + 2 + 1]
  BY DEF Two
<1>10. x = 65536 * (IF code[i] > 127 THEN Two(code, i) - 65536 ELSE Two(code, i)) + Two(code, i + 2)
  BY <1>5, <1>7, <1>8, <1>9, FourDigits, SMT
<1> QED
  BY <1>10, SMT DEF Signed

\* How the instructions with a byte, with the way of a jump and with the
\* number of a constant are laid out.
LEMMA ByteLayout ==
  ASSUME NEW op \in {18, Ret, 188} \cup LoadStore, NEW code, NEW pc
  PROVE  /\ op \in 0 .. 201 /\ BaseLen(op) = 2
         /\ OperandA(code, pc, op) = code[pc + 2] /\ OperandB(code, pc, op) = 0
<1> USE DEF Ret, LoadStore, Iinc, Ifs, Pooled
<1>1. op \in 0 .. 201 /\ BaseLen(op) = 2
  <2>1. op \in {18, 169, 188} \/ op \in 21 .. 25 \/ op \in 54 .. 58
    OBVIOUS
  <2>2. CASE op \in {18, 169, 188}
    BY <2>2 DEF BaseLen
  <2>3. CASE op \in 21 .. 25
    BY <2>3 DEF BaseLen
  <2>4. CASE op \in 54 .. 58
    BY <2>4 DEF BaseLen
  <2> QED
    BY <2>1, <2>2, <2>3, <2>4
<1>2. OperandA(code, pc, op) = code[pc + 2]
  BY DEF OperandA
<1>3. OperandB(code, pc, op) = 0
  BY DEF OperandB
<1> QED
  BY <1>1, <1>2, <1>3

LEMMA WayLayout ==
  ASSUME NEW op \in {200, 201}, NEW code, NEW pc
  PROVE  /\ op \in 0 .. 201 /\ BaseLen(op) = 5
         /\ OperandA(code, pc, op) = pc + Signed(code, pc + 2) /\ OperandB(code, pc, op) = 0
<1> USE DEF Ret, LoadStore, Iinc, Ifs, Pooled
<1>1. op \in 0 .. 201 /\ BaseLen(op) = 5
  BY DEF BaseLen
<1>2. OperandA(code, pc, op) = pc + Signed(code, pc + 2)
  BY DEF OperandA
<1>3. OperandB(code, pc, op) = 0
  BY DEF OperandB
<1> QED
  BY <1>1, <1>2, <1>3

LEMMA JumpLayout ==
  ASSUME NEW op \in {167, 168} \cup Ifs, NEW code, NEW pc
  PROVE  /\ op \in 0 .. 201 /\ BaseLen(op) = 3
         /\ OperandA(code, pc, op) = pc + Word16(Num(code, pc + 2, 2)) /\ OperandB(code, pc, op) = 0
<1> USE DEF Ret, LoadStore, Iinc, Ifs, Pooled
<1>1. op \in 0 .. 201 /\ BaseLen(op) = 3
  BY DEF BaseLen
<1>2. OperandA(code, pc, op) = pc + Word16(Num(code, pc + 2, 2))
  BY DEF OperandA
<1>3. OperandB(code, pc, op) = 0
  BY DEF OperandB
<1> QED
  BY <1>1, <1>2, <1>3

LEMMA ConstantLayout ==
  ASSUME NEW op \in Pooled \ {185, 186, 197}, NEW code, NEW pc
  PROVE  /\ op \in 0 .. 201 /\ BaseLen(op) = 3
         /\ OperandA(code, pc, op) = Num(code, pc + 2, 2) /\ OperandB(code, pc, op) = 0
<1> USE DEF Ret, LoadStore, Iinc, Ifs, Pooled
<1>1. op \in 0 .. 201 /\ BaseLen(op) = 3
  BY DEF BaseLen
<1>2. OperandA(code, pc, op) = Num(code, pc + 2, 2)
  BY DEF OperandA
<1>3. OperandB(code, pc, op) = 0
  BY DEF OperandB
<1> QED
  BY <1>1, <1>2, <1>3

LEMMA PlainRead ==
  ASSUME NEW code, IsCode(code), NEW ins, Plainly(code, ins), ins.pc \in Nat, ins.size \in Nat, ins.pc + ins.size <= Len(code)
  PROVE  DecodePlain(code, ins.pc, ins.op) = ins /\ ins.op \in 0 .. 201
<1> DEFINE pc == ins.pc
           op == ins.op
           a == ins.a
           b == ins.b
           Fits == /\ op \in 0 .. 201 /\ BaseLen(op) = ins.size
                   /\ OperandA(code, pc, op) = a /\ OperandB(code, pc, op) = b
<1>1. pc \in Nat /\ a \in Int /\ op \notin Switches \cup {Wide} /\ ins = Instruction(pc, ins.size, op, a, b)
  BY DEF Plainly
<1> HIDE DEF pc, op, a, b
<1> USE DEF Iinc, Ret, LoadStore, Ifs, Pooled, BaseLen, OperandA, OperandB
<1>13. Fits
  <2>2. CASE op \in 0 .. 201 /\ BaseLen(op) = 1 /\ ins.size = 1 /\ a = 0 /\ b = 0
    BY <2>2
  <2>3. CASE op = 16 /\ ins.size = 2 /\ a \in Int8 /\ Write1(code, pc + 2, a) /\ b = 0
    <3>1. Byte8(code[pc + 2]) = a
      BY <1>1, <2>3, ByteRead
    <3> QED
      BY <2>3, <3>1
  <2>4. CASE op \in {18, Ret, 188} \cup LoadStore /\ ins.size = 2 /\ a \in Byte /\ Write1(code, pc + 2, a) /\ b = 0
    <3>1. code[pc + 2] = a
      BY <1>1, <2>4, ByteRead
    <3> HIDE DEF BaseLen, OperandA, OperandB
    <3>2. /\ op \in 0 .. 201 /\ BaseLen(op) = ins.size
          /\ OperandA(code, pc, op) = a /\ OperandB(code, pc, op) = b
      BY <1>1, <2>4, <3>1, ByteLayout
    <3> QED
      BY <3>2
  <2>5. CASE op = 17 /\ ins.size = 3 /\ a \in Int16 /\ Write2(code, pc + 2, a) /\ b = 0
    <3>1. Word16(Num(code, pc + 2, 2)) = a
      BY <1>1, <2>5, WordRead
    <3> QED
      BY <2>5, <3>1
  <2>6. CASE op = Iinc /\ ins.size = 3 /\ a \in Byte /\ Write1(code, pc + 2, a) /\ b \in Int8 /\ Write1(code, pc + 3, b)
    <3>1. code[pc + 2] = a /\ Byte8(code[pc + 3]) = b
      <4>1. b \in Int
        BY <2>6 DEF Int8
      <4> QED
        BY <1>1, <2>6, <4>1, ByteRead
    <3> QED
      BY <2>6, <3>1
  <2>7. CASE op \in {167, 168} \cup Ifs /\ ins.size = 3 /\ a - pc \in Int16 /\ Write2(code, pc + 2, a - pc) /\ b = 0
    <3>1. Word16(Num(code, pc + 2, 2)) = a - pc
      BY <1>1, <2>7, WordRead
    <3> HIDE DEF BaseLen, OperandA, OperandB
    <3>2. /\ op \in 0 .. 201 /\ BaseLen(op) = ins.size
          /\ OperandA(code, pc, op) = a /\ OperandB(code, pc, op) = b
      <4>1. pc + (a - pc) = a
        BY <1>1
      <4>2. /\ op \in 0 .. 201 /\ BaseLen(op) = 3
            /\ OperandA(code, pc, op) = pc + Word16(Num(code, pc + 2, 2)) /\ OperandB(code, pc, op) = 0
        BY <2>7, JumpLayout
      <4> QED
        BY <2>7, <3>1, <4>1, <4>2, Zenon
    <3> QED
      BY <3>2
  <2>8. CASE op \in {200, 201} /\ ins.size = 5 /\ a - pc \in Int32 /\ Write4(code, pc + 2, a - pc) /\ b = 0
    <3>1. Signed(code, pc + 2) = a - pc
      BY <1>1, <2>8, IntRead
    <3> HIDE DEF BaseLen, OperandA, OperandB
    <3>2. /\ op \in 0 .. 201 /\ BaseLen(op) = ins.size
          /\ OperandA(code, pc, op) = a /\ OperandB(code, pc, op) = b
      BY <1>1, <2>8, <3>1, WayLayout
    <3> QED
      BY <3>2
  <2>9. CASE op \in Pooled \ {185, 186, 197} /\ ins.size = 3 /\ a \in Place16 /\ Write2(code, pc + 2, a) /\ b = 0
    <3>1. Num(code, pc + 2, 2) = a
      BY <1>1, <2>9, WordRead
    <3> HIDE DEF BaseLen, OperandA, OperandB
    <3>2. /\ op \in 0 .. 201 /\ BaseLen(op) = ins.size
          /\ OperandA(code, pc, op) = a /\ OperandB(code, pc, op) = b
      BY <1>1, <2>9, <3>1, ConstantLayout
    <3> QED
      BY <3>2
  <2>10. CASE op = 197 /\ ins.size = 4 /\ a \in Place16 /\ Write2(code, pc + 2, a) /\ b \in Byte /\ Write1(code, pc + 4, b)
    <3>1. Num(code, pc + 2, 2) = a /\ code[pc + 4] = b
      <4>1. b \in Int
        BY <2>10 DEF Byte
      <4> QED
        BY <1>1, <2>10, <4>1, WordRead, ByteRead
    <3> QED
      BY <2>10, <3>1
  <2>11. CASE op = 185 /\ ins.size = 5 /\ a \in Place16 /\ Write2(code, pc + 2, a) /\ b \in Byte /\ Write1(code, pc + 4, b)
    <3>1. Num(code, pc + 2, 2) = a /\ code[pc + 4] = b
      <4>1. b \in Int
        BY <2>11 DEF Byte
      <4> QED
        BY <1>1, <2>11, <4>1, WordRead, ByteRead
    <3> QED
      BY <2>11, <3>1
  <2>12. CASE op = 186 /\ ins.size = 5 /\ a \in Place16 /\ Write2(code, pc + 2, a) /\ b = 0
    <3>1. Num(code, pc + 2, 2) = a
      BY <1>1, <2>12, WordRead
    <3> QED
      BY <2>12, <3>1
  <2>13. PlainForm(code, ins)
    BY DEF Plainly
  <2> HIDE DEF Fits
  <2> QED
    BY <2>2, <2>3, <2>4, <2>5, <2>6, <2>7, <2>8, <2>9, <2>10, <2>11, <2>12, <2>13 DEF PlainForm, pc, op, a, b
<1> HIDE DEF BaseLen, OperandA, OperandB
<1>14. pc + (IF op = 185 THEN 4 ELSE IF op = 186 THEN 3 ELSE BaseLen(op)) <= Len(code)
  <2>1. Len(code) \in Nat /\ pc + ins.size <= Len(code)
    BY CodeLength DEF pc
  <2>2. BaseLen(185) = 5 /\ BaseLen(186) = 5
    BY DEF BaseLen
  <2> QED
    BY <1>1, <1>13, <2>1, <2>2
<1> HIDE DEF Iinc, Ret, LoadStore, Ifs, Pooled
<1>15. DecodePlain(code, pc, op) = Instruction(pc, ins.size, op, a, b)
  <2>1. ~(pc + (IF op = 185 THEN 4 ELSE IF op = 186 THEN 3 ELSE BaseLen(op)) > Len(code))
    <3>1. Len(code) \in Nat
      BY CodeLength
    <3>2. BaseLen(op) \in Nat
      BY BaseLenPositive
    <3> QED
      BY <1>1, <1>14, <3>1, <3>2
  <2> QED
    BY <1>13, <2>1, Zenon DEF DecodePlain
<1> QED
  BY <1>1, <1>13, <1>15 DEF pc, op

LEMMA WideRead ==
  ASSUME NEW code, IsCode(code), NEW ins, Widely(code, ins), ins.pc \in Nat, ins.size \in Nat, ins.pc + ins.size <= Len(code)
  PROVE  DecodeWide(code, ins.pc) = ins /\ ins.op \in 0 .. 201
<1> DEFINE pc == ins.pc
           op == ins.op
           a == ins.a
           b == ins.b
<1>1. /\ pc \in Nat /\ a \in Place16 /\ Write2(code, pc + 3, a) /\ code[pc + 2] = op
      /\ ins = Instruction(pc, ins.size, op, a, b)
      /\ Len(code) \in Nat /\ pc + ins.size <= Len(code)
  BY CodeLength DEF Widely
<1>2. \/ op = Iinc /\ ins.size = 6 /\ b \in Int16 /\ Write2(code, pc + 5, b)
      \/ op \in LoadStore \cup {Ret} /\ ins.size = 4 /\ b = 0
  BY DEF Widely
<1> HIDE DEF pc, op, a, b
<1>3. op \in 0 .. 201 /\ FromByte(code[pc + 2]) = op
  BY <1>1, <1>2 DEF Iinc, LoadStore, Ret, FromByte
<1>4. Num(code, pc + 3, 2) = a
  <2>1. a \in Int
    BY <1>1 DEF Place16
  <2> QED
    BY <1>1, <2>1, WordRead
<1>5. pc + 3 < Len(code)
  BY <1>1, <1>2
<1>6. CASE op = Iinc /\ ins.size = 6 /\ b \in Int16 /\ Write2(code, pc + 5, b)
  <2>1. Word16(Num(code, pc + 5, 2)) = b
    <3>1. b \in Int
      BY <1>6 DEF Int16
    <3> QED
      BY <1>6, <3>1, WordRead
  <2>2. pc + 5 < Len(code)
    BY <1>1, <1>6
  <2>3. DecodeWide(code, pc) = Instruction(pc, 6, op, a, b)
    BY <1>3, <1>4, <1>5, <1>6, <2>1, <2>2, Zenon DEF DecodeWide
  <2> QED
    BY <1>1, <1>3, <1>6, <2>3, Zenon DEF pc, op
<1>7. CASE op \in LoadStore \cup {Ret} /\ ins.size = 4 /\ b = 0
  <2>1. op # Iinc
    BY <1>7 DEF Iinc, LoadStore, Ret
  <2>2. DecodeWide(code, pc) = Instruction(pc, 4, op, a, b)
    BY <1>3, <1>4, <1>5, <1>7, <2>1, Zenon DEF DecodeWide
  <2> QED
    BY <1>1, <1>3, <1>7, <2>2, Zenon DEF pc, op
<1> QED
  BY <1>2, <1>6, <1>7

\* The next multiple of four, and the place a way leads to.
LEMMA BaseRead ==
  ASSUME NEW pc \in Nat, NEW base \in pc + 1 .. pc + 4, base % 4 = 0
  PROVE  SwitchBase(pc) = base
BY SMT DEF SwitchBase

LEMMA WayRead ==
  ASSUME NEW code, NEW i \in Int, NEW pc \in Nat, pc <= MaxPlace, NEW x \in Place16, Write4(code, i + 1, x - pc)
  PROVE  pc + Signed(code, i + 1) = x /\ Target(code, pc, i) = x
<1>1. x \in Nat /\ x <= MaxPlace
  BY DEF Place16
<1>2. x - pc \in Int32
  BY <1>1, SMT DEF Int32, MaxPlace, Limit
<1>3. Signed(code, i + 1) = x - pc
  <2>1. i + 1 \in Int
    OBVIOUS
  <2> QED
    BY <1>2, <2>1, IntRead
<1>4. pc + Signed(code, i + 1) = x
  BY <1>1, <1>3
<1>5. Word(x) = x
  BY <1>1, WordSmall
<1> QED
  BY <1>4, <1>5 DEF Target

LEMMA SwitchRead ==
  ASSUME NEW code, IsCode(code), NEW ins, Switched(code, ins), ins.pc \in Nat, ins.size \in Nat, ins.pc + ins.size <= Len(code)
  PROVE  DecodeSwitch(code, ins.pc, ins.op) = ins /\ ins.op \in Switches
<1> DEFINE pc == ins.pc
           op == ins.op
           size == ins.size
           default == ins.default
           cases == ins.cases
           n == Len(cases)
<1>1. /\ cases \in Seq(Int32 \X Place16) /\ default \in Place16
      /\ ins = [pc |-> pc, size |-> size, op |-> op, a |-> default, b |-> 0, default |-> default, cases |-> cases]
  BY DEF Switched
<1>2. PICK base \in pc + 1 .. pc + 4 :
        /\ base % 4 = 0
        /\ Write4(code, base + 1, default - pc)
        /\ \/ /\ op = 170 /\ n > 0 /\ size = base + 12 + 4 * n - pc
              /\ Write4(code, base + 5, cases[1][1])
              /\ Write4(code, base + 9, cases[n][1])
              /\ \A k \in 1 .. n : /\ cases[k][1] = cases[1][1] + k - 1
                                   /\ Write4(code, base + 9 + 4 * k, cases[k][2] - pc)
           \/ /\ op = 171 /\ size = base + 8 + 8 * n - pc
              /\ Write4(code, base + 5, n)
              /\ \A k \in 1 .. n : /\ Write4(code, base + 8 * k + 1, cases[k][1])
                                   /\ Write4(code, base + 8 * k + 5, cases[k][2] - pc)
  BY DEF Switched
<1>3. /\ pc \in Nat /\ size \in Nat /\ pc + size <= Len(code) /\ Len(code) \in Nat
      /\ Len(code) <= MaxPlace /\ MaxPlace \in Nat /\ n \in Nat /\ base \in Nat
  BY <1>1, CodeLength DEF MaxPlace
<1>4. \A k \in 1 .. n : cases[k] = <<cases[k][1], cases[k][2]>> /\ cases[k][1] \in Int32 /\ cases[k][2] \in Place16
  BY <1>1
<1>5. cases = [k \in 1 .. n |-> cases[k]]
  BY <1>1
<1> HIDE DEF pc, op, size, default, cases, n
<1>6. base % 4 = 0 /\ Write4(code, base + 1, default - pc)
  BY <1>2, Zenon
<1>7. SwitchBase(pc) = base
  BY <1>3, <1>6, BaseRead
<1>8. DecodeSwitch(code, pc, op) = SwitchFrom(code, pc, op, base)
  BY <1>7 DEF DecodeSwitch
<1>9. pc <= MaxPlace
  BY <1>3
<1>10. pc + Signed(code, base + 1) = default /\ Target(code, pc, base) = default
  <2>1. base \in Int /\ pc \in Nat
    BY <1>3
  <2> QED
    BY <1>1, <1>6, <1>9, <2>1, WayRead, Zenon
<1>11. ASSUME NEW end, end = pc + size
       PROVE  Switch(code, pc, op, base, end, cases) = ins
  <2>1. ~(end > Len(code)) /\ end - pc = size
    BY <1>3, <1>11
  <2>2. Word(size) = size
    <3>1. size <= MaxPlace
      BY <1>3
    <3> QED
      BY <1>3, <3>1, WordSmall
  <2> QED
    BY <1>1, <1>10, <2>1, <2>2, Zenon DEF Switch
<1>12. CASE /\ op = 170 /\ n > 0 /\ size = base + 12 + 4 * n - pc
            /\ Write4(code, base + 5, cases[1][1])
            /\ Write4(code, base + 9, cases[n][1])
            /\ \A k \in 1 .. n : /\ cases[k][1] = cases[1][1] + k - 1
                                 /\ Write4(code, base + 9 + 4 * k, cases[k][2] - pc)
  <2> DEFINE low == cases[1][1]
  <2>1. 1 \in 1 .. n /\ n \in 1 .. n
    BY <1>3, <1>12
  <2>2. low \in Int32 /\ cases[n][1] \in Int32 /\ cases[n][1] = low + n - 1
    BY <1>4, <1>12, <2>1
  <2>3. Signed(code, base + 5) = low /\ Signed(code, base + 9) = low + n - 1
    <3>1. base + 5 \in Int /\ base + 9 \in Int
      BY <1>3
    <3> QED
      BY <1>12, <2>2, <3>1, IntRead
  <2>4. cases = TableCases(code, pc, base, low, n)
    <3>1. ASSUME NEW k \in 1 .. n PROVE cases[k] = <<low + k - 1, Target(code, pc, base + 8 + 4 * k)>>
      <4>1. k \in Nat /\ base + 8 + 4 * k \in Int /\ base + 8 + 4 * k + 1 = base + 9 + 4 * k
        BY <1>3
      <4>2. Write4(code, base + 8 + 4 * k + 1, cases[k][2] - pc)
        BY <1>12, <4>1
      <4>3. Target(code, pc, base + 8 + 4 * k) = cases[k][2]
        BY <1>3, <1>4, <1>9, <4>1, <4>2, WayRead
      <4>4. cases[k][1] = low + k - 1
        BY <1>12
      <4> QED
        BY <1>4, <4>3, <4>4, Zenon
    <3> HIDE DEF low
    <3> QED
      BY <1>5, <3>1, Zenon DEF TableCases
  <2>5. n \in 1 .. MaxPlace + 1
    BY <1>3, <1>12
  <2>6. ~(base + 12 > Len(code)) /\ base + 12 + 4 * n = pc + size
    BY <1>3, <1>12
  <2> HIDE DEF low
  <2>7. (low + n - 1) - low + 1 = n
    <3>1. low \in Int
      BY <2>2 DEF Int32
    <3> QED
      BY <1>3, <3>1
  <2>8. SwitchFrom(code, pc, op, base) = TableSwitch(code, pc, base, low, n)
    BY <1>12, <2>3, <2>6, <2>7, Zenon DEF SwitchFrom
  <2>9. TableSwitch(code, pc, base, low, n) = Switch(code, pc, 170, base, base + 12 + 4 * n, cases)
    BY <2>4, <2>5, Zenon DEF TableSwitch
  <2>10. Switch(code, pc, op, base, base + 12 + 4 * n, cases) = ins
    BY <1>11, <2>6
  <2> QED
    BY <1>8, <1>12, <2>8, <2>9, <2>10 DEF pc, op, Switches
<1>13. CASE /\ op = 171 /\ size = base + 8 + 8 * n - pc
            /\ Write4(code, base + 5, n)
            /\ \A k \in 1 .. n : /\ Write4(code, base + 8 * k + 1, cases[k][1])
                                 /\ Write4(code, base + 8 * k + 5, cases[k][2] - pc)
  <2>1. n \in 0 .. MaxPlace
    BY <1>3, <1>13
  <2>2. Signed(code, base + 5) = n
    <3>1. base + 5 \in Int
      BY <1>3
    <3>2. n \in Int32
      BY <2>1, SMT DEF Int32, MaxPlace, Limit
    <3> QED
      BY <1>13, <3>1, <3>2, IntRead
  <2>3. cases = LookupCases(code, pc, base, n)
    <3>1. ASSUME NEW k \in 1 .. n PROVE cases[k] = <<Signed(code, base + 8 * k + 1), Target(code, pc, base + 8 * k + 4)>>
      <4>1. k \in Nat /\ base + 8 * k + 1 \in Int /\ base + 8 * k + 4 \in Int /\ base + 8 * k + 4 + 1 = base + 8 * k + 5
        BY <1>3
      <4>2. Write4(code, base + 8 * k + 4 + 1, cases[k][2] - pc) /\ Write4(code, base + 8 * k + 1, cases[k][1])
        BY <1>13, <4>1
      <4>3. Target(code, pc, base + 8 * k + 4) = cases[k][2]
        BY <1>3, <1>4, <1>9, <4>1, <4>2, WayRead
      <4>4. Signed(code, base + 8 * k + 1) = cases[k][1]
        BY <1>4, <4>1, <4>2, IntRead
      <4> QED
        BY <1>4, <4>3, <4>4, Zenon
    <3> QED
      BY <1>5, <3>1, Zenon DEF LookupCases
  <2>4. ~(base + 8 > Len(code)) /\ base + 8 + 8 * n = pc + size
    <3>1. size = base + 8 + 8 * n - pc
      BY <1>13, Zenon
    <3>2. base + 8 + 8 * n = pc + size
      BY <1>3, <3>1
    <3> QED
      BY <1>3, <3>2
  <2>5. op # 170
    BY <1>13
  <2>6. SwitchFrom(code, pc, op, base) = LookupSwitch(code, pc, base, n)
    BY <2>2, <2>4, <2>5, Zenon DEF SwitchFrom
  <2>7. LookupSwitch(code, pc, base, n) = Switch(code, pc, 171, base, base + 8 + 8 * n, cases)
    BY <2>1, <2>3, Zenon DEF LookupSwitch
  <2>8. Switch(code, pc, op, base, base + 8 + 8 * n, cases) = ins
    BY <1>11, <2>4
  <2> QED
    BY <1>8, <1>13, <2>6, <2>7, <2>8 DEF pc, op, Switches
<1> QED
  BY <1>2, <1>12, <1>13 DEF pc, op

\* One instruction: decoding at its place yields what was written there.
LEMMA ReadAtPlace ==
  ASSUME NEW code, IsCode(code), NEW ins, Written(code, ins)
  PROVE  DecodeAt(code, ins.pc) = ins /\ ins # Undecodable /\ ins.op # Invalid
<1>1. ins.pc \in Nat /\ ins.size \in Nat \ {0} /\ ins.pc + ins.size <= Len(code)
  BY DEF Written
<1>2. Invalid \notin 0 .. 201 /\ Invalid \notin Switches /\ Wide \notin Switches /\ Wide # Invalid /\ Switches \subseteq 0 .. 201
  BY DEF Invalid, Switches, Wide
<1>3. ins # Undecodable
  BY <1>1 DEF Undecodable
<1>4. ASSUME NEW op \in 0 .. 201 PROVE FromByte(op) = op
  BY DEF FromByte
<1>5. CASE Plainly(code, ins)
  <2>1. DecodePlain(code, ins.pc, ins.op) = ins /\ ins.op \in 0 .. 201
    BY <1>1, <1>5, PlainRead
  <2>2. ins.op \notin Switches \cup {Wide, Invalid} /\ FromByte(code[ins.pc + 1]) = ins.op
    BY <1>2, <1>4, <1>5, <2>1 DEF Plainly
  <2>3. DecodeAs(code, ins.pc, ins.op) = DecodePlain(code, ins.pc, ins.op)
    BY <2>2, Zenon DEF DecodeAs
  <2> QED
    BY <1>3, <2>1, <2>2, <2>3, Zenon DEF DecodeAt
<1>6. CASE Widely(code, ins)
  <2>1. DecodeWide(code, ins.pc) = ins /\ ins.op \in 0 .. 201
    BY <1>1, <1>6, WideRead
  <2>2. FromByte(code[ins.pc + 1]) = Wide
    BY <1>6 DEF Widely, Wide, FromByte
  <2>3. DecodeAs(code, ins.pc, Wide) = DecodeWide(code, ins.pc)
    BY <1>2, Zenon DEF DecodeAs
  <2>4. ins.op # Invalid
    BY <1>2, <2>1
  <2> QED
    BY <1>3, <2>1, <2>2, <2>3, <2>4, Zenon DEF DecodeAt
<1>7. CASE Switched(code, ins)
  <2>1. DecodeSwitch(code, ins.pc, ins.op) = ins /\ ins.op \in Switches
    BY <1>1, <1>7, SwitchRead
  <2>2. FromByte(code[ins.pc + 1]) = ins.op
    <3>1. code[ins.pc + 1] = ins.op
      BY <1>7 DEF Switched
    <3> QED
      BY <1>2, <1>4, <2>1, <3>1
  <2>3. DecodeAs(code, ins.pc, ins.op) = DecodeSwitch(code, ins.pc, ins.op)
    BY <1>2, <2>1, Zenon DEF DecodeAs
  <2>4. ins.op # Invalid
    BY <1>2, <2>1
  <2> QED
    BY <1>3, <2>1, <2>2, <2>3, <2>4, Zenon DEF DecodeAt
<1> QED
  BY <1>5, <1>6, <1>7 DEF Written

(* Decoding inverts assembling: code that is some instructions, one behind *)
(* the other, each in its format (fixed operands, wide, tableswitch and    *)
(* lookupswitch with their padding, numbers in two's complement), decodes  *)
(* (decode_all) to exactly these instructions.                             *)
THEOREM WrittenIsRead ==
  ASSUME NEW code, IsCode(code), NEW S, NEW all \in Seq(S), Assembled(code, all)
  PROVE  DecodeAll(code) = all
<1> DEFINE got == DecodeAll(code)
           m == Len(got)
           n == Len(all)
<1>1. /\ got \in Seq(Decodings(code)) /\ Tiles(code, got)
      /\ Len(code) > 0 => got # << >> /\ (got[m].op # Invalid => got[m].pc + got[m].size >= Len(code))
  BY DecodingTiles
<1>2. m \in Nat /\ n \in Nat /\ Len(code) \in Nat /\ (all = << >> <=> n = 0) /\ (got = << >> <=> m = 0)
  BY <1>1, CodeLength
<1>3. ASSUME NEW k \in 1 .. n
      PROVE  /\ DecodeAt(code, all[k].pc) = all[k] /\ all[k] # Undecodable /\ all[k].op # Invalid
             /\ all[k].pc \in Nat /\ all[k].size \in Nat \ {0} /\ all[k].pc + all[k].size <= Len(code)
  <2>1. Written(code, all[k])
    BY <1>3 DEF Assembled
  <2> QED
    BY <2>1, ReadAtPlace DEF Written
<1>4. /\ n > 0 => all[1].pc = 0
      /\ \A k \in 1 .. n - 1 : all[k + 1].pc = all[k].pc + all[k].size
      /\ IF n = 0 THEN Len(code) = 0 ELSE all[n].pc + all[n].size = Len(code)
  BY <1>2 DEF Assembled
<1>5. /\ m > 0 => got[1].pc = 0
      /\ \A k \in 1 .. m : /\ got[k].pc \in Nat /\ got[k].pc < Len(code) /\ got[k].size \in Nat \ {0}
                           /\ IF got[k].op = Invalid THEN DecodeAt(code, got[k].pc) = Undecodable
                              ELSE got[k] = DecodeAt(code, got[k].pc)
      /\ \A k \in 1 .. m - 1 : got[k + 1].pc = got[k].pc + got[k].size
  BY <1>1, <1>2 DEF Tiles
<1> HIDE DEF got, m, n
<1>6. ASSUME NEW k \in 1 .. n, NEW j \in 1 .. m, all[k].pc = got[j].pc
      PROVE  got[j] = all[k]
  BY <1>3, <1>5, <1>6, Zenon
<1> DEFINE T == {k \in 0 .. n : k <= m /\ \A i \in 1 .. k : got[i] = all[i]}
<1>7. 0 \in T
  BY <1>2
<1>8. ASSUME NEW k \in 0 .. n, k \in T, k < n
      PROVE  k + 1 \in T
  <2>1. k + 1 \in 1 .. n /\ k <= m /\ k \in Nat /\ \A i \in 1 .. k : got[i] = all[i]
    BY <1>2, <1>8
  <2>2. CASE k = 0
    <3>1. m > 0
      <4>1. all[1].pc + all[1].size <= Len(code) /\ all[1].pc \in Nat /\ all[1].size \in Nat \ {0}
        BY <1>3, <2>1, <2>2
      <4> QED
        BY <1>1, <1>2, <4>1 DEF got
    <3>2. got[1] = all[1]
      <4>1. 1 \in 1 .. n /\ 1 \in 1 .. m /\ all[1].pc = got[1].pc
        BY <1>2, <1>4, <1>5, <2>1, <2>2, <3>1
      <4> QED
        BY <1>6, <4>1
    <3> QED
      BY <1>2, <2>1, <2>2, <3>1, <3>2
  <2>3. CASE k > 0
    <3>1. k \in 1 .. n - 1 /\ k \in 1 .. n /\ k \in 1 .. k
      BY <1>2, <2>1, <2>3
    <3>2. got[k] = all[k]
      BY <2>1, <3>1
    <3>3. all[k + 1].pc = all[k].pc + all[k].size
      BY <1>4, <3>1
    <3>4. all[k].op # Invalid /\ all[k].pc \in Nat /\ all[k].size \in Nat \ {0}
      BY <1>3, <3>1
    <3>5. all[k + 1].pc + all[k + 1].size <= Len(code) /\ all[k + 1].size \in Nat \ {0}
      BY <1>3, <2>1
    <3>6. k # m
      <4>1. SUFFICES ASSUME k = m PROVE FALSE
        OBVIOUS
      <4>2. got[m].pc + got[m].size >= Len(code)
        <5>1. Len(code) > 0
          BY <1>2, <3>3, <3>4, <3>5
        <5>2. got[m].op # Invalid
          BY <3>2, <3>4, <4>1
        <5> QED
          BY <1>1, <5>1, <5>2
      <4>3. all[k].pc + all[k].size >= Len(code)
        BY <3>2, <4>1, <4>2
      <4> QED
        BY <1>2, <3>3, <3>4, <3>5, <4>3
    <3>7. k + 1 \in 1 .. m /\ k \in 1 .. m - 1
      BY <1>2, <2>1, <2>3, <3>6
    <3>8. got[k + 1].pc = got[k].pc + got[k].size
      BY <1>5, <3>7
    <3>9. got[k + 1] = all[k + 1]
      BY <1>6, <2>1, <3>2, <3>3, <3>7, <3>8
    <3> QED
      BY <1>2, <2>1, <3>7, <3>9
  <2> QED
    BY <2>1, <2>2, <2>3
<1>9. n <= m /\ \A i \in 1 .. n : got[i] = all[i]
  <2>1. \A k \in 0 .. n : k \in T
    <3> HIDE DEF T
    <3> QED
      BY <1>2, <1>7, <1>8, InductionUpTo
  <2>2. n \in T
    BY <1>2, <2>1
  <2> QED
    BY <2>2
<1>10. m = n
  <2>1. SUFFICES ASSUME m > n PROVE FALSE
    BY <1>2, <1>9
  <2>2. n + 1 \in 1 .. m
    BY <1>2, <2>1
  <2>3. got[n + 1].pc \in Nat /\ got[n + 1].pc < Len(code)
    BY <1>5, <2>2
  <2>4. CASE n = 0
    BY <1>2, <1>4, <2>3, <2>4
  <2>5. CASE n > 0
    <3>1. n \in 1 .. n /\ n \in 1 .. m - 1
      BY <1>2, <2>1, <2>5
    <3>2. got[n] = all[n] /\ got[n + 1].pc = got[n].pc + got[n].size
      BY <1>5, <1>9, <3>1
    <3>3. all[n].pc + all[n].size = Len(code)
      BY <1>4, <2>5
    <3> QED
      BY <1>2, <2>3, <3>2, <3>3
  <2> QED
    BY <1>2, <2>4, <2>5
<1>11. got = [i \in 1 .. m |-> got[i]] /\ all = [i \in 1 .. n |-> all[i]]
  BY <1>1 DEF got, m, n
<1>12. got = all
  BY <1>9, <1>10, <1>11, Zenon
<1> QED
  BY <1>12 DEF got

-----------------------------------------------------------------------------
(* Sequences the blocks are made of.                                       *)

LEMMA AscendingOrder ==
  ASSUME NEW S \in SUBSET Nat, IsFiniteSet(S)
  PROVE  LET n == Cardinality(S)
             a == Ascending(S)
         IN  /\ n \in Nat /\ a \in [1 .. n -> S]
             /\ \A i, j \in 1 .. n : i < j => a[i] < a[j]
             /\ \A x \in S : \E i \in 1 .. n : a[i] = x
<1> DEFINE n == Cardinality(S)
           below(x) == {y \in S : y < x}
           rank == [x \in S |-> Cardinality(below(x)) + 1]
<1>1. n \in Nat
  BY FS_CardinalityType
<1>2. \A x \in S : IsFiniteSet(below(x)) /\ Cardinality(below(x)) \in Nat
  <2> TAKE x \in S
  <2>1. below(x) \in SUBSET S
    OBVIOUS
  <2> HIDE DEF below
  <2> QED
    BY <2>1, FS_Subset, FS_CardinalityType
<1>3. ASSUME NEW x \in S, NEW z \in S, x < z PROVE rank[x] < rank[z]
  <2>1. x \notin below(x) /\ below(x) \cup {x} \in SUBSET below(z)
    <3>1. x \in Nat /\ z \in Nat /\ \A y \in S : y \in Nat
      OBVIOUS
    <3>2. \A y \in S : y < x => y < z
      BY <1>3, <3>1
    <3>3. x \notin below(x)
      BY <3>1
    <3>4. x \in below(z)
      BY <1>3
    <3>5. \A y \in below(x) : y \in below(z)
      BY <3>2
    <3> HIDE DEF below
    <3> QED
      BY <3>3, <3>4, <3>5
  <2> HIDE DEF below
  <2>2. Cardinality(below(x) \cup {x}) = Cardinality(below(x)) + 1
    BY <1>2, <2>1, FS_AddElement
  <2>3. Cardinality(below(x) \cup {x}) <= Cardinality(below(z))
    BY <1>2, <2>1, FS_Subset
  <2> QED
    BY <1>2, <2>2, <2>3
<1>4. rank \in [S -> 1 .. n]
  <2>1. ASSUME NEW x \in S PROVE Cardinality(below(x)) + 1 \in 1 .. n
    <3>1. x \notin below(x) /\ below(x) \cup {x} \in SUBSET S
      OBVIOUS
    <3> HIDE DEF below
    <3>2. Cardinality(below(x) \cup {x}) = Cardinality(below(x)) + 1
      BY <1>2, <3>1, FS_AddElement
    <3>3. Cardinality(below(x) \cup {x}) <= n
      BY <3>1, FS_Subset
    <3> QED
      BY <1>1, <1>2, <3>2, <3>3
  <2> HIDE DEF below, n
  <2> QED
    BY <2>1
<1>5. rank \in Injection(S, 1 .. n)
  <2>1. ASSUME NEW x \in S, NEW z \in S, rank[x] = rank[z] PROVE x = z
    <3>1. rank[x] \in Nat /\ rank[z] \in Nat /\ x \in Nat /\ z \in Nat
      BY <1>1, <1>4
    <3> HIDE DEF rank
    <3> QED
      BY <1>3, <2>1, <3>1
  <2> HIDE DEF rank
  <2> QED
    BY <1>4, <2>1 DEF Injection, IsInjective
<1>6. rank \in Surjection(S, 1 .. n)
  <2>1. IsFiniteSet(1 .. n) /\ Cardinality(1 .. n) = n
    BY <1>1, FS_Interval
  <2> HIDE DEF rank
  <2> QED
    BY <1>5, <2>1, FS_Injection
<1>7. \A i \in 1 .. n : \E x \in S : rank[x] = i
  <2> HIDE DEF rank, n
  <2> QED
    BY <1>6 DEF Surjection
<1> DEFINE a == Ascending(S)
<1>8. a = [i \in 1 .. n |-> CHOOSE x \in S : Cardinality(below(x)) = i - 1]
  BY DEF Ascending
<1> HIDE DEF a
<1>9. \A i \in 1 .. n : a[i] \in S /\ rank[a[i]] = i
  <2> TAKE i \in 1 .. n
  <2>1. \E x \in S : Cardinality(below(x)) = i - 1
    <3>1. PICK x \in S : rank[x] = i
      BY <1>7
    <3>2. rank[x] = Cardinality(below(x)) + 1
      OBVIOUS
    <3> HIDE DEF below, rank
    <3>3. Cardinality(below(x)) = i - 1
      BY <1>2, <3>1, <3>2
    <3> QED
      BY <3>3
  <2>2. a[i] \in S /\ Cardinality(below(a[i])) = i - 1
    <3> HIDE DEF below, n
    <3> QED
      BY <1>8, <2>1
  <2> QED
    BY <2>2
<1>10. a \in [1 .. n -> S]
  <2> HIDE DEF below, n
  <2> QED
    BY <1>8, <1>9
<1> HIDE DEF rank, n
<1>11. \A i, j \in 1 .. n : i < j => a[i] < a[j]
  <2> SUFFICES ASSUME NEW i \in 1 .. n, NEW j \in 1 .. n, i < j, ~(a[i] < a[j]) PROVE FALSE
    OBVIOUS
  <2>1. a[i] \in S /\ a[j] \in S /\ rank[a[i]] = i /\ rank[a[j]] = j
    BY <1>9
  <2>2. a[i] \in Nat /\ a[j] \in Nat
    BY <2>1
  <2>3. CASE a[i] = a[j]
    BY <2>1, <2>3
  <2>4. CASE a[j] < a[i]
    <3>1. j < i
      BY <1>3, <2>1, <2>4
    <3> QED
      BY <1>1, <3>1
  <2> QED
    BY <2>2, <2>3, <2>4
<1>12. \A x \in S : \E i \in 1 .. n : a[i] = x
  <2> TAKE x \in S
  <2>1. rank[x] \in 1 .. n
    BY <1>4
  <2>2. a[rank[x]] \in S /\ rank[a[rank[x]]] = rank[x]
    BY <1>9, <2>1
  <2>3. a[rank[x]] = x
    BY <1>5, <2>2 DEF Injection, IsInjective
  <2> QED
    BY <2>1, <2>3
<1> QED
  BY <1>1, <1>10, <1>11, <1>12 DEF n, a

\* Without its repetitions a sequence keeps what it holds and its first member.
LEMMA DedupedRounds ==
  ASSUME NEW s \in Seq(Nat)
  PROVE  \E seen \in [0 .. Len(s) -> Seq(Nat)] :
           /\ seen[0] = << >>
           /\ \A i \in 1 .. Len(s) :
                seen[i] = IF Contains(seen[i - 1], s[i]) THEN seen[i - 1] ELSE Append(seen[i - 1], s[i])
           /\ Deduped(s) = seen[Len(s)]
<1> DEFINE n == Len(s)
           V == Seq(Nat)
           next(old, i) == IF Contains(old, s[i]) THEN old ELSE Append(old, s[i])
           step == [i \in 1 .. n |-> [old \in V |-> next(old, i)]]
           made(f) == [i \in 0 .. n |-> IF i = 0 THEN << >> ELSE next(f[i - 1], i)]
           seen[i \in 0 .. n] ==
             IF i = 0 THEN << >>
             ELSE LET before == seen[i - 1] IN IF Contains(before, s[i]) THEN before ELSE Append(before, s[i])
<1> HIDE DEF seen
<1>1. n \in Nat
  OBVIOUS
<1>2. \A i \in 1 .. n : \A old \in V : next(old, i) \in V
  OBVIOUS
<1>3. << >> \in V
  OBVIOUS
<1>6. made(seen) = seen
  <2>1. \E f : f = made(f)
    <3> HIDE DEF n, V, next
    <3>1. step \in [1 .. n -> [V -> V]]
      BY <1>2
    <3>2. PICK f \in [0 .. n -> V] : Follows(f, n, << >>, step)
      <4> HIDE DEF step
      <4> QED
        BY <1>1, <1>3, <3>1, RecursionUpTo
    <3>3. ASSUME NEW i \in 1 .. n PROVE f[i] = next(f[i - 1], i)
      <4>1. i - 1 \in 0 .. n
        BY <1>1
      <4>2. f[i - 1] \in V /\ f[i] = step[i][f[i - 1]]
        BY <3>2, <4>1 DEF Follows
      <4> QED
        BY <4>2
    <3>4. f[0] = << >>
      BY <3>2 DEF Follows
    <3>5. \A i \in 0 .. n : f[i] = IF i = 0 THEN << >> ELSE next(f[i - 1], i)
      BY <1>1, <3>3, <3>4
    <3>6. f = [i \in 0 .. n |-> f[i]]
      OBVIOUS
    <3>7. f = made(f)
      BY <3>5, <3>6
    <3> QED
      BY <3>7
  <2> QED
    BY <2>1 DEF seen
<1>7. Deduped(s) = seen[n]
  BY DEF Deduped, seen
<1>8. seen[0] = << >> /\ \A i \in 1 .. n : seen[i] = next(seen[i - 1], i)
  <2> HIDE DEF next
  <2>1. made(seen)[0] = << >> /\ \A i \in 1 .. n : made(seen)[i] = next(seen[i - 1], i)
    BY <1>1
  <2> HIDE DEF made
  <2> QED
    BY <1>6, <2>1
<1>9. \A i \in 0 .. n : seen[i] \in V
  <2> DEFINE T == {i \in 0 .. n : seen[i] \in V}
  <2> HIDE DEF V, next
  <2>1. 0 \in T
    BY <1>1, <1>3, <1>8
  <2>2. ASSUME NEW i \in 0 .. n, i \in T, i < n PROVE i + 1 \in T
    <3>1. i + 1 \in 1 .. n /\ (i + 1) - 1 = i
      BY <1>1, <2>2
    <3>2. seen[i + 1] = next(seen[i], i + 1)
      BY <1>8, <3>1
    <3> QED
      BY <1>2, <2>2, <3>1, <3>2
  <2>3. \A i \in 0 .. n : i \in T
    <3> HIDE DEF T, n
    <3> QED
      BY <1>1, <2>1, <2>2, InductionUpTo
  <2> QED
    BY <2>3
<1>10. seen \in [0 .. n -> V]
  <2> HIDE DEF V, next
  <2>1. made(seen) = [i \in 0 .. n |-> made(seen)[i]]
    OBVIOUS
  <2>2. seen = [i \in 0 .. n |-> seen[i]]
    <3> HIDE DEF made
    <3> QED
      BY <1>6, <2>1
  <2> QED
    BY <1>9, <2>2
<1> QED
  BY <1>7, <1>8, <1>10

LEMMA DedupedKeeps ==
  ASSUME NEW s \in Seq(Nat)
  PROVE  LET d == Deduped(s)
         IN  /\ d \in Seq(Nat)
             /\ \A x : (\E k \in 1 .. Len(d) : d[k] = x) <=> (\E i \in 1 .. Len(s) : s[i] = x)
             /\ \A k, l \in 1 .. Len(d) : d[k] = d[l] => k = l
             /\ s # << >> => d # << >> /\ d[1] = s[1]
<1> DEFINE n == Len(s)
<1>1. PICK seen \in [0 .. n -> Seq(Nat)] :
        /\ seen[0] = << >>
        /\ \A i \in 1 .. n : seen[i] = IF Contains(seen[i - 1], s[i]) THEN seen[i - 1] ELSE Append(seen[i - 1], s[i])
        /\ Deduped(s) = seen[n]
  BY DedupedRounds
<1> DEFINE Good(i) == /\ \A k \in 1 .. Len(seen[i]) : \E j \in 1 .. i : s[j] = seen[i][k]
                      /\ \A j \in 1 .. i : \E k \in 1 .. Len(seen[i]) : seen[i][k] = s[j]
                      /\ \A k, l \in 1 .. Len(seen[i]) : seen[i][k] = seen[i][l] => k = l
                      /\ i > 0 => Len(seen[i]) > 0 /\ seen[i][1] = s[1]
           T == {i \in 0 .. n : Good(i)}
<1>2. n \in Nat /\ \A i \in 0 .. n : seen[i] \in Seq(Nat) /\ Len(seen[i]) \in Nat
  OBVIOUS
<1>3. 0 \in T
  <2>1. Len(seen[0]) = 0
    BY <1>1
  <2> QED
    BY <1>2, <2>1
<1>4. ASSUME NEW i \in 0 .. n, i \in T, i < n PROVE i + 1 \in T
  <2> DEFINE old == seen[i]
             new == seen[i + 1]
             x == s[i + 1]
  <2>1. i + 1 \in 1 .. n /\ (i + 1) - 1 = i /\ i \in Nat /\ i + 1 \in 0 .. n
    BY <1>2, <1>4
  <2>2. new = IF Contains(old, x) THEN old ELSE Append(old, x)
    BY <1>1, <2>1
  <2>3. old \in Seq(Nat) /\ Good(i) /\ Len(old) \in Nat /\ x \in Nat
    BY <1>2, <1>4, <2>1
  <2>4. CASE Contains(old, x)
    <3>1. new = old
      BY <2>2, <2>4
    <3>2. PICK k \in 1 .. Len(old) : old[k] = x
      BY <2>4 DEF Contains
    <3>3. i > 0
      <4>1. CASE i = 0
        BY <1>1, <3>2, <4>1
      <4> QED
        BY <2>1, <4>1
    <3> HIDE DEF new, old, x
    <3>4. \A j \in 1 .. i + 1 : j = i + 1 \/ j \in 1 .. i
      BY <2>1
    <3>5. \A j \in 1 .. i : j \in 1 .. i + 1
      BY <2>1
    <3>6. \A j \in 1 .. i + 1 : \E l \in 1 .. Len(new) : new[l] = s[j]
      BY <2>3, <3>1, <3>2, <3>4 DEF old, x
    <3>7. \A l \in 1 .. Len(new) : \E j \in 1 .. i + 1 : s[j] = new[l]
      BY <2>3, <3>1, <3>5 DEF old
    <3>8. /\ \A k1, l1 \in 1 .. Len(new) : new[k1] = new[l1] => k1 = l1
          /\ Len(new) > 0 /\ new[1] = s[1]
      BY <2>3, <3>1, <3>3 DEF old
    <3> QED
      BY <2>1, <3>6, <3>7, <3>8 DEF new
  <2>5. CASE ~Contains(old, x)
    <3>1. new = Append(old, x)
      BY <2>2, <2>5
    <3>2. Len(new) = Len(old) + 1 /\ new[Len(old) + 1] = x /\ \A k \in 1 .. Len(old) : new[k] = old[k]
      BY <2>3, <3>1
    <3>3. \A k \in 1 .. Len(old) : old[k] # x
      BY <2>5 DEF Contains
    <3> HIDE DEF new, old, x
    <3>4. \A j \in 1 .. i + 1 : j = i + 1 \/ j \in 1 .. i
      BY <2>1
    <3>5. i + 1 \in 1 .. i + 1 /\ \A j \in 1 .. i : j \in 1 .. i + 1
      BY <2>1
    <3>6. \A k \in 1 .. Len(new) : k = Len(old) + 1 \/ k \in 1 .. Len(old)
      BY <2>3, <3>2
    <3>7. Len(old) + 1 \in 1 .. Len(new) /\ \A k \in 1 .. Len(old) : k \in 1 .. Len(new)
      BY <2>3, <3>2
    <3>8. /\ \A k \in 1 .. Len(old) : \E j \in 1 .. i : s[j] = old[k]
          /\ \A j \in 1 .. i : \E k \in 1 .. Len(old) : old[k] = s[j]
          /\ \A k, l \in 1 .. Len(old) : old[k] = old[l] => k = l
          /\ i > 0 => Len(old) > 0 /\ old[1] = s[1]
      BY <2>3 DEF old
    <3>9. \A j \in 1 .. i + 1 : \E l \in 1 .. Len(new) : new[l] = s[j]
      <4> TAKE j \in 1 .. i + 1
      <4>1. CASE j = i + 1
        BY <3>2, <3>7, <4>1 DEF x
      <4>2. CASE j \in 1 .. i
        <5>1. PICK k \in 1 .. Len(old) : old[k] = s[j]
          BY <3>8, <4>2
        <5>2. new[k] = s[j] /\ k \in 1 .. Len(new)
          BY <3>2, <3>7, <5>1
        <5> QED
          BY <5>2
      <4> QED
        BY <3>4, <4>1, <4>2
    <3>10. \A l \in 1 .. Len(new) : \E j \in 1 .. i + 1 : s[j] = new[l]
      <4> TAKE l \in 1 .. Len(new)
      <4>1. CASE l = Len(old) + 1
        BY <3>2, <3>5, <4>1 DEF x
      <4>2. CASE l \in 1 .. Len(old)
        <5>1. PICK j \in 1 .. i : s[j] = old[l]
          BY <3>8, <4>2
        <5>2. s[j] = new[l] /\ j \in 1 .. i + 1
          BY <3>2, <3>5, <4>2, <5>1
        <5> QED
          BY <5>2
      <4> QED
        BY <3>6, <4>1, <4>2
    <3>11. \A k1, l1 \in 1 .. Len(new) : new[k1] = new[l1] => k1 = l1
      <4> SUFFICES ASSUME NEW k1 \in 1 .. Len(new), NEW l1 \in 1 .. Len(new), new[k1] = new[l1]
                   PROVE  k1 = l1
        OBVIOUS
      <4>1. CASE k1 = Len(old) + 1 /\ l1 = Len(old) + 1
        BY <4>1
      <4>2. CASE k1 = Len(old) + 1 /\ l1 \in 1 .. Len(old)
        BY <3>2, <3>3, <4>2
      <4>3. CASE k1 \in 1 .. Len(old) /\ l1 = Len(old) + 1
        BY <3>2, <3>3, <4>3
      <4>4. CASE k1 \in 1 .. Len(old) /\ l1 \in 1 .. Len(old)
        <5>1. old[k1] = old[l1]
          BY <3>2, <4>4
        <5> QED
          BY <3>8, <4>4, <5>1
      <4> QED
        BY <3>6, <4>1, <4>2, <4>3, <4>4
    <3>12. Len(new) > 0 /\ new[1] = s[1]
      <4>1. CASE i = 0
        <5>1. Len(old) = 0
          BY <1>1, <4>1 DEF old
        <5> QED
          BY <3>2, <4>1, <5>1 DEF x
      <4>2. CASE i > 0
        <5>1. 1 \in 1 .. Len(old)
          BY <2>3, <3>8, <4>2
        <5> QED
          BY <2>3, <3>2, <3>8, <4>2, <5>1
      <4> QED
        BY <2>1, <4>1, <4>2
    <3> QED
      BY <2>1, <3>9, <3>10, <3>11, <3>12 DEF new
  <2> QED
    BY <2>4, <2>5
<1>5. Good(n)
  <2>1. \A i \in 0 .. n : i \in T
    <3> HIDE DEF T, n
    <3> QED
      BY <1>2, <1>3, <1>4, InductionUpTo
  <2> HIDE DEF Good
  <2> QED
    BY <1>2, <2>1
<1>6. s # << >> => n > 0
  OBVIOUS
<1> DEFINE d == Deduped(s)
<1>7. /\ d \in Seq(Nat)
      /\ \A k \in 1 .. Len(d) : \E j \in 1 .. n : s[j] = d[k]
      /\ \A j \in 1 .. n : \E k \in 1 .. Len(d) : d[k] = s[j]
      /\ \A k, l \in 1 .. Len(d) : d[k] = d[l] => k = l
      /\ n > 0 => Len(d) > 0 /\ d[1] = s[1]
  BY <1>1, <1>2, <1>5
<1> HIDE DEF d
<1>8. Len(d) > 0 => d # << >>
  BY <1>7
<1>9. \A x : (\E k \in 1 .. Len(d) : d[k] = x) <=> (\E i \in 1 .. n : s[i] = x)
  <2> HIDE DEF n
  <2> SUFFICES ASSUME NEW x PROVE (\E k \in 1 .. Len(d) : d[k] = x) <=> (\E i \in 1 .. n : s[i] = x)
    OBVIOUS
  <2>1. ASSUME NEW k \in 1 .. Len(d), d[k] = x PROVE \E i \in 1 .. n : s[i] = x
    BY <1>7, <2>1
  <2>2. ASSUME NEW i \in 1 .. n, s[i] = x PROVE \E k \in 1 .. Len(d) : d[k] = x
    BY <1>7, <2>2
  <2> QED
    BY <2>1, <2>2
<1> QED
  BY <1>6, <1>7, <1>8, <1>9 DEF d

-----------------------------------------------------------------------------
(* The blocks.                                                             *)

\* Instructions that stand one behind the other from 0 to len.
Starts(all) == {all[k].pc : k \in 1 .. Len(all)}
Listed(all, len) ==
  /\ all \in Seq(Range(all)) /\ Len(all) \in Nat \ {0} /\ DOMAIN all = 1 .. Len(all) /\ len \in Nat
  /\ all[1].pc = 0
  /\ \A k \in 1 .. Len(all) : all[k].pc \in Nat /\ all[k].size \in Nat \ {0}
  /\ \A k \in 1 .. Len(all) - 1 : all[k + 1].pc = all[k].pc + all[k].size
  /\ all[Len(all)].pc + all[Len(all)].size = len

LEMMA PlacesAscend ==
  ASSUME NEW all, NEW len, Listed(all, len)
  PROVE  /\ \A i, j \in 1 .. Len(all) : i < j => all[i].pc + all[i].size <= all[j].pc
         /\ \A i \in 1 .. Len(all) : all[i].pc + all[i].size <= len
<1> DEFINE n == Len(all)
<1>1. n \in Nat /\ \A k \in 1 .. n : all[k].pc \in Nat /\ all[k].size \in Nat \ {0}
  BY DEF Listed
<1>2. \A k \in 1 .. n - 1 : all[k + 1].pc = all[k].pc + all[k].size
  BY DEF Listed
<1>3. all[n].pc + all[n].size = len /\ n > 0
  BY DEF Listed
<1> DEFINE T == {j \in 0 .. n : \A i \in 1 .. j : i < j => all[i].pc + all[i].size <= all[j].pc}
<1> HIDE DEF n
<1>4. 0 \in T
  BY <1>1
<1>5. ASSUME NEW j \in 0 .. n, j \in T, j < n PROVE j + 1 \in T
  <2>1. SUFFICES ASSUME NEW i \in 1 .. j + 1, i < j + 1 PROVE all[i].pc + all[i].size <= all[j + 1].pc
    BY <1>1, <1>5
  <2>2. i \in 1 .. n /\ j \in 1 .. n /\ j \in 1 .. n - 1 /\ j + 1 \in 1 .. n /\ i \in 1 .. j
    BY <1>1, <1>5, <2>1
  <2>3. all[j + 1].pc = all[j].pc + all[j].size
    BY <1>2, <2>2
  <2>4. CASE i = j
    BY <1>1, <2>2, <2>3, <2>4
  <2>5. CASE i < j
    <3>1. all[i].pc + all[i].size <= all[j].pc
      BY <1>5, <2>2, <2>5
    <3> QED
      BY <1>1, <2>2, <2>3, <3>1
  <2> QED
    BY <2>2, <2>4, <2>5
<1>6. \A j \in 0 .. n : j \in T
  <2> HIDE DEF T
  <2> QED
    BY <1>1, <1>4, <1>5, InductionUpTo
<1>7. \A i, j \in 1 .. n : i < j => all[i].pc + all[i].size <= all[j].pc
  <2> SUFFICES ASSUME NEW i \in 1 .. n, NEW j \in 1 .. n, i < j PROVE all[i].pc + all[i].size <= all[j].pc
    OBVIOUS
  <2>1. j \in T /\ i \in 1 .. j
    BY <1>1, <1>6
  <2> QED
    BY <2>1
<1>8. ASSUME NEW i \in 1 .. n PROVE all[i].pc + all[i].size <= len
  <2>1. CASE i = n
    BY <1>1, <1>3, <2>1
  <2>2. CASE i < n
    <3>1. n \in 1 .. n /\ all[i].pc + all[i].size <= all[n].pc
      BY <1>1, <1>3, <1>7, <2>2
    <3> QED
      BY <1>1, <1>3, <3>1
  <2> QED
    BY <1>1, <2>1, <2>2
<1> QED
  BY <1>7, <1>8 DEF n

\* What InsOf counts.
LEMMA InstructionsCounted ==
  ASSUME NEW all, NEW len, Listed(all, len)
  PROVE  /\ \A k \in 1 .. Len(all) : /\ Cardinality({i \in DOMAIN all : all[i].pc < all[k].pc}) = k - 1
                                     /\ Cardinality({i \in DOMAIN all : all[i].pc + all[i].size <= all[k].pc}) = k - 1
         /\ Cardinality({i \in DOMAIN all : all[i].pc + all[i].size <= len}) = Len(all)
<1> DEFINE n == Len(all)
<1>1. n \in Nat /\ DOMAIN all = 1 .. n /\ \A k \in 1 .. n : all[k].pc \in Nat /\ all[k].size \in Nat \ {0}
  BY DEF Listed
<1>2. /\ \A i, j \in 1 .. n : i < j => all[i].pc + all[i].size <= all[j].pc
      /\ \A i \in 1 .. n : all[i].pc + all[i].size <= len
  BY PlacesAscend
<1> HIDE DEF n
<1>3. ASSUME NEW k \in 1 .. n
      PROVE  /\ Cardinality({i \in DOMAIN all : all[i].pc < all[k].pc}) = k - 1
             /\ Cardinality({i \in DOMAIN all : all[i].pc + all[i].size <= all[k].pc}) = k - 1
  <2>1. ASSUME NEW i \in 1 .. n PROVE (all[i].pc < all[k].pc <=> i < k) /\ (all[i].pc + all[i].size <= all[k].pc <=> i < k)
    <3>1. CASE i < k
      <4>1. all[i].pc + all[i].size <= all[k].pc
        BY <1>2, <3>1
      <4> QED
        BY <1>1, <3>1, <4>1
    <3>2. CASE i = k
      BY <1>1, <3>2
    <3>3. CASE k < i
      <4>1. all[k].pc + all[k].size <= all[i].pc
        BY <1>2, <3>3
      <4> QED
        BY <1>1, <3>3, <4>1
    <3> QED
      BY <1>1, <3>1, <3>2, <3>3
  <2>2. \A i : i \in 1 .. n /\ i < k <=> i \in 1 .. k - 1
    BY <1>1
  <2>3. {i \in DOMAIN all : all[i].pc < all[k].pc} = 1 .. k - 1
    BY <1>1, <2>1, <2>2
  <2>4. {i \in DOMAIN all : all[i].pc + all[i].size <= all[k].pc} = 1 .. k - 1
    BY <1>1, <2>1, <2>2
  <2>5. Cardinality(1 .. k - 1) = k - 1
    BY <1>1, FS_Interval
  <2> QED
    BY <2>3, <2>4, <2>5
<1>4. {i \in DOMAIN all : all[i].pc + all[i].size <= len} = 1 .. n
  BY <1>1, <1>2
<1>5. Cardinality(1 .. n) = n
  BY <1>1, FS_Interval
<1> QED
  BY <1>3, <1>4, <1>5 DEF n

\* The block a leader leads.
LEMMA LeadersCounted ==
  ASSUME NEW n \in Nat, NEW leaders \in [1 .. n -> Nat], \A i, j \in 1 .. n : i < j => leaders[i] < leaders[j]
  PROVE  \A b \in 1 .. n : BlockOf(leaders, leaders[b]) = b
<1> TAKE b \in 1 .. n
<1>1. ASSUME NEW i \in 1 .. n PROVE leaders[i] <= leaders[b] <=> i <= b
  <2>1. leaders[i] \in Nat /\ leaders[b] \in Nat
    OBVIOUS
  <2>2. CASE i < b
    BY <2>1, <2>2
  <2>3. CASE i = b
    BY <2>1, <2>3
  <2>4. CASE b < i
    BY <2>1, <2>4
  <2> QED
    BY <2>2, <2>3, <2>4
<1>2. {i \in DOMAIN leaders : leaders[i] <= leaders[b]} = 1 .. b
  <2>1. DOMAIN leaders = 1 .. n /\ \A i : i \in 1 .. n /\ i <= b <=> i \in 1 .. b
    OBVIOUS
  <2> QED
    BY <1>1, <2>1
<1>3. Cardinality(1 .. b) = b
  BY FS_Interval
<1> QED
  BY <1>2, <1>3 DEF BlockOf

\* The code cut at the places of S: the b-th block holds the instructions from
\* the from[b]-th to the one before the from[b + 1]-th.
Cuts(all, len, S, leaders, n, from) ==
  /\ leaders \in [1 .. n -> S]
  /\ \A i, j \in 1 .. n : i < j => leaders[i] < leaders[j]
  /\ \A p \in S : BlockOf(leaders, p) \in 1 .. n /\ leaders[BlockOf(leaders, p)] = p
  /\ \A b \in 1 .. n : BlockOf(leaders, leaders[b]) = b
  /\ from[1] = 1 /\ from[n + 1] = Len(all) + 1
  /\ \A b \in 1 .. n : /\ from[b] < from[b + 1] /\ from[b] \in 1 .. Len(all) /\ all[from[b]].pc = leaders[b]
                       /\ InsOf(all, leaders[b], IF b < n THEN leaders[b + 1] ELSE len) = SubSeq(all, from[b], from[b + 1] - 1)
                       /\ \A k \in from[b] .. from[b + 1] - 1 : /\ leaders[b] <= all[k].pc
                                                                /\ b < n => all[k].pc < leaders[b + 1]
                                                                /\ all[k].pc \in S => k = from[b]

LEMMA Cutting ==
  ASSUME NEW all, NEW len, Listed(all, len), NEW S \in SUBSET Starts(all), 0 \in S
  PROVE  \E n \in Nat \ {0} : \E from \in [1 .. n + 1 -> 1 .. Len(all) + 1] : Cuts(all, len, S, Ascending(S), n, from)
<1> DEFINE N == Len(all)
           n == Cardinality(S)
           leaders == Ascending(S)
           before(p) == Cardinality({i \in DOMAIN all : all[i].pc < p})
           from == [b \in 1 .. n + 1 |-> IF b = n + 1 THEN N + 1 ELSE before(leaders[b]) + 1]
<1>1. /\ N \in Nat \ {0} /\ len \in Nat /\ all[1].pc = 0
      /\ \A k \in 1 .. N : all[k].pc \in Nat /\ all[k].size \in Nat \ {0}
  BY DEF Listed
<1>2. /\ \A i, j \in 1 .. N : i < j => all[i].pc + all[i].size <= all[j].pc
      /\ \A i \in 1 .. N : all[i].pc + all[i].size <= len
  BY PlacesAscend
<1>3. \A k \in 1 .. N : before(all[k].pc) = k - 1
  BY InstructionsCounted
<1>4. S \in SUBSET Nat /\ \A p \in S : p <= len /\ \E k \in 1 .. N : all[k].pc = p
  <2>1. ASSUME NEW p \in S PROVE p \in Nat /\ p <= len /\ \E k \in 1 .. N : all[k].pc = p
    <3>1. PICK k \in 1 .. N : all[k].pc = p
      BY DEF Starts
    <3>2. all[k].pc \in Nat /\ all[k].size \in Nat /\ all[k].pc + all[k].size <= len
      BY <1>1, <1>2
    <3> QED
      BY <1>1, <3>1, <3>2
  <2> QED
    BY <2>1
<1>5. IsFiniteSet(S)
  BY <1>1, <1>4, FS_BoundedSetOfNaturals
<1>6. n \in Nat /\ leaders \in [1 .. n -> S] /\ (\A i, j \in 1 .. n : i < j => leaders[i] < leaders[j])
      /\ \A p \in S : \E b \in 1 .. n : leaders[b] = p
  BY <1>4, <1>5, AscendingOrder
<1> HIDE DEF N, n, leaders, before
<1>17. \A b \in 1 .. n : leaders[b] \in S /\ leaders[b] \in Nat
  <2> TAKE b \in 1 .. n
  <2>1. leaders[b] \in S
    BY <1>6
  <2> QED
    BY <1>4, <2>1
<1>7. \A b \in 1 .. n : BlockOf(leaders, leaders[b]) = b
  <2>1. leaders \in [1 .. n -> Nat]
    BY <1>4, <1>6
  <2> QED
    BY <1>6, <2>1, LeadersCounted
<1>8. \A p \in S : BlockOf(leaders, p) \in 1 .. n /\ leaders[BlockOf(leaders, p)] = p
  <2> TAKE p \in S
  <2>1. PICK b \in 1 .. n : leaders[b] = p
    BY <1>6
  <2> QED
    BY <1>7, <2>1
<1>9. n \in Nat \ {0} /\ leaders[1] = 0
  <2>1. PICK b \in 1 .. n : leaders[b] = 0
    BY <1>6
  <2>2. 1 \in 1 .. n /\ leaders[1] \in Nat
    <3>1. 1 \in 1 .. n
      BY <1>6, <2>1
    <3> QED
      BY <1>17, <3>1
  <2>3. ~(1 < b)
    BY <1>6, <2>1, <2>2
  <2> QED
    BY <1>6, <2>1, <2>3
<1>10. \A b \in 1 .. n : from[b] \in 1 .. N /\ all[from[b]].pc = leaders[b]
  <2> TAKE b \in 1 .. n
  <2>1. PICK k \in 1 .. N : all[k].pc = leaders[b]
    BY <1>4, <1>6
  <2>2. from[b] = before(leaders[b]) + 1
    BY <1>6
  <2>3. from[b] = k
    BY <1>1, <1>3, <2>1, <2>2
  <2> QED
    BY <2>1, <2>3
<1>11. from[n + 1] = N + 1 /\ from \in [1 .. n + 1 -> 1 .. N + 1]
  <2>1. from[n + 1] = N + 1
    BY <1>6
  <2>2. \A b \in 1 .. n + 1 : b = n + 1 \/ b \in 1 .. n
    BY <1>6
  <2>3. DOMAIN from = 1 .. n + 1 /\ from = [b \in 1 .. n + 1 |-> from[b]]
    OBVIOUS
  <2> HIDE DEF from
  <2>4. \A b \in 1 .. n + 1 : from[b] \in 1 .. N + 1
    BY <1>1, <1>10, <2>1, <2>2
  <2> QED
    BY <2>1, <2>3, <2>4
<1> HIDE DEF from
<1>12. from[1] = 1
  <2>1. 1 \in 1 .. n /\ 1 \in 1 .. N
    BY <1>1, <1>9
  <2>2. from[1] \in 1 .. N /\ all[from[1]].pc = 0
    BY <1>9, <1>10, <2>1
  <2>3. ~(1 < from[1])
    BY <1>1, <1>2, <2>1, <2>2
  <2> QED
    BY <1>1, <2>2, <2>3
<1>13. \A b \in 1 .. n : from[b] < from[b + 1]
  <2> TAKE b \in 1 .. n
  <2>1. CASE b = n
    BY <1>1, <1>10, <1>11, <2>1
  <2>2. CASE b < n
    <3>1. b + 1 \in 1 .. n
      BY <1>6, <2>2
    <3>2. leaders[b] < leaders[b + 1] /\ leaders[b] \in Nat /\ leaders[b + 1] \in Nat
      <4>1. b < b + 1
        BY <1>6
      <4> QED
        BY <1>6, <1>17, <3>1, <4>1
    <3>3. /\ from[b] \in 1 .. N /\ from[b + 1] \in 1 .. N
          /\ all[from[b]].pc = leaders[b] /\ all[from[b + 1]].pc = leaders[b + 1]
      BY <1>10, <3>1
    <3>4. from[b] # from[b + 1]
      BY <3>2, <3>3
    <3>5. ~(from[b + 1] < from[b])
      <4>1. SUFFICES ASSUME from[b + 1] < from[b] PROVE FALSE
        OBVIOUS
      <4>2. all[from[b + 1]].pc + all[from[b + 1]].size <= all[from[b]].pc
        BY <1>2, <3>3, <4>1
      <4>3. all[from[b + 1]].size \in Nat
        BY <1>1, <3>3
      <4> QED
        BY <3>2, <3>3, <4>2, <4>3
    <3> QED
      BY <1>1, <3>3, <3>4, <3>5
  <2> QED
    BY <1>6, <2>1, <2>2
<1>14. ASSUME NEW b \in 1 .. n
       PROVE  InsOf(all, leaders[b], IF b < n THEN leaders[b + 1] ELSE len) = SubSeq(all, from[b], from[b + 1] - 1)
  <2> DEFINE end == IF b < n THEN leaders[b + 1] ELSE len
             upTo(p) == Cardinality({i \in DOMAIN all : all[i].pc + all[i].size <= p})
  <2>1. before(leaders[b]) + 1 = from[b]
    BY <1>1, <1>3, <1>10
  <2>2. upTo(end) = from[b + 1] - 1
    <3>1. CASE b = n
      <4>1. upTo(len) = N
        BY InstructionsCounted DEF N
      <4>2. end = len
        BY <1>6, <3>1
      <4> HIDE DEF upTo, end
      <4> QED
        BY <1>1, <1>11, <3>1, <4>1, <4>2
    <3>2. CASE b < n
      <4>1. b + 1 \in 1 .. n
        BY <1>6, <3>2
      <4>2. from[b + 1] \in 1 .. N /\ all[from[b + 1]].pc = leaders[b + 1]
        BY <1>10, <4>1
      <4>3. upTo(all[from[b + 1]].pc) = from[b + 1] - 1
        BY <4>2, InstructionsCounted DEF N
      <4>4. end = leaders[b + 1]
        BY <3>2
      <4> HIDE DEF upTo, end
      <4> QED
        BY <4>2, <4>3, <4>4
    <3> QED
      BY <1>6, <3>1, <3>2
  <2>3. InsOf(all, leaders[b], end) = SubSeq(all, before(leaders[b]) + 1, upTo(end))
    BY DEF InsOf, before
  <2> HIDE DEF upTo
  <2> QED
    BY <2>1, <2>2, <2>3
<1>15. ASSUME NEW b \in 1 .. n, NEW k \in from[b] .. from[b + 1] - 1
       PROVE  leaders[b] <= all[k].pc /\ (b < n => all[k].pc < leaders[b + 1]) /\ (all[k].pc \in S => k = from[b])
  <2>1. b + 1 \in 1 .. n + 1 /\ from[b + 1] \in 1 .. N + 1 /\ from[b] \in 1 .. N
    BY <1>6, <1>10, <1>11
  <2>2. k \in 1 .. N /\ from[b] <= k /\ k < from[b + 1]
    BY <1>1, <2>1
  <2>3. leaders[b] \in Nat /\ all[k].pc \in Nat /\ all[k].size \in Nat \ {0}
    BY <1>1, <1>4, <1>6, <2>2
  <2>4. from[b] < k => leaders[b] < all[k].pc
    <3>1. SUFFICES ASSUME from[b] < k PROVE leaders[b] < all[k].pc
      OBVIOUS
    <3>2. all[from[b]].pc + all[from[b]].size <= all[k].pc
      BY <1>2, <2>1, <2>2, <3>1
    <3>3. all[from[b]].size \in Nat \ {0} /\ all[from[b]].pc = leaders[b]
      BY <1>1, <1>10, <2>1
    <3>4. leaders[b] + all[from[b]].size <= all[k].pc
      BY <3>2, <3>3
    <3> QED
      BY <2>3, <3>3, <3>4
  <2>5. leaders[b] <= all[k].pc
    <3>1. CASE k = from[b]
      BY <1>10, <2>3, <3>1
    <3> QED
      BY <2>1, <2>2, <2>3, <2>4, <3>1
  <2>6. b < n => all[k].pc < leaders[b + 1]
    <3>1. SUFFICES ASSUME b < n PROVE all[k].pc < leaders[b + 1]
      OBVIOUS
    <3>2. b + 1 \in 1 .. n
      BY <1>6, <3>1
    <3>3. from[b + 1] \in 1 .. N /\ all[from[b + 1]].pc = leaders[b + 1] /\ leaders[b + 1] \in Nat
      BY <1>4, <1>6, <1>10, <3>2
    <3>4. all[k].pc + all[k].size <= leaders[b + 1]
      BY <1>2, <2>2, <3>3
    <3> QED
      BY <2>3, <3>3, <3>4
  <2>7. all[k].pc \in S => k = from[b]
    <3>1. SUFFICES ASSUME all[k].pc \in S, k # from[b] PROVE FALSE
      OBVIOUS
    <3>2. leaders[b] < all[k].pc
      BY <2>1, <2>2, <2>4, <3>1
    <3>3. PICK c \in 1 .. n : leaders[c] = all[k].pc
      BY <1>6, <3>1
    <3>4. ~(c <= b)
      <4>1. CASE c = b
        BY <2>3, <3>2, <3>3, <4>1
      <4>2. CASE c < b
        <5>1. leaders[c] < leaders[b]
          BY <1>6, <4>2
        <5> QED
          BY <2>3, <3>2, <3>3, <5>1
      <4> QED
        BY <4>1, <4>2
    <3>5. b < n /\ b + 1 \in 1 .. n /\ (c = b + 1 \/ b + 1 < c)
      BY <1>6, <3>4
    <3>6. all[k].pc < leaders[b + 1] /\ leaders[b + 1] \in Nat
      BY <1>4, <1>6, <2>6, <3>5
    <3>7. CASE c = b + 1
      BY <2>3, <3>3, <3>6, <3>7
    <3>8. CASE b + 1 < c
      <4>1. leaders[b + 1] < leaders[c]
        BY <1>6, <3>5, <3>8
      <4> QED
        BY <2>3, <3>3, <3>6, <4>1
    <3> QED
      BY <3>5, <3>7, <3>8
  <2> QED
    BY <2>5, <2>6, <2>7
<1>16. Cuts(all, len, S, leaders, n, from)
  BY <1>6, <1>7, <1>8, <1>10, <1>11, <1>12, <1>13, <1>14, <1>15 DEF Cuts, N
<1> QED
  BY <1>9, <1>11, <1>16 DEF N, leaders

\* Code as the verifier of a class file accepts it: every instruction can be
\* decoded, its targets and the exception table's places are starts of
\* instructions, and control does not run out behind the last one.
Sound(all, len, table) ==
  /\ Listed(all, len) /\ len <= MaxPlace
  /\ IsTerminal(all[Len(all)].op)
  /\ \A k \in 1 .. Len(all) : /\ Range(Targets(all[k])) \in SUBSET Starts(all)
                              /\ \E n \in Nat : DOMAIN all[k].cases = 1 .. n
  /\ \A r \in DOMAIN table : {table[r][1], table[r][3]} \in SUBSET Starts(all) /\ table[r][2] \in Starts(all) \cup {len}

\* Where blocks are to start (what Leaders puts in order).
Inside(all, codeLen, table) ==
  LET afterJumps == {Word(ins.pc + ins.size) : ins \in {i \in Range(all) : IsJump(i.op)}}
      targets == UNION {Range(Targets(ins)) : ins \in Range(all)}
      ranges == UNION {{r[1], r[2], r[3]} : r \in Range(table)}
  IN  {p \in {0} \cup afterJumps \cup targets \cup ranges : p < codeLen \/ (p = 0 /\ codeLen = 0)}

LEMMA LeadersAscend ==
  ASSUME NEW all, NEW len, NEW table
  PROVE  Leaders(all, len, table) = Ascending(Inside(all, len, table))
BY DEF Leaders, Inside

LEMMA StartsInside ==
  ASSUME NEW all, NEW len, Listed(all, len)
  PROVE  \A p \in Starts(all) : p \in Nat /\ p < len
<1> SUFFICES ASSUME NEW k \in 1 .. Len(all) PROVE all[k].pc \in Nat /\ all[k].pc < len
  BY DEF Starts
<1>1. all[k].pc + all[k].size <= len
  BY PlacesAscend
<1>2. all[k].pc \in Nat /\ all[k].size \in Nat \ {0} /\ len \in Nat
  BY DEF Listed
<1> QED
  BY <1>1, <1>2

LEMMA AfterInstruction ==
  ASSUME NEW all, NEW len, NEW table, Sound(all, len, table), NEW k \in 1 .. Len(all)
  PROVE  /\ Word(all[k].pc + all[k].size) = all[k].pc + all[k].size
         /\ k < Len(all) => k + 1 \in 1 .. Len(all) /\ Word(all[k].pc + all[k].size) = all[k + 1].pc
         /\ k = Len(all) => Word(all[k].pc + all[k].size) = len
<1>1. Listed(all, len) /\ len <= MaxPlace /\ MaxPlace \in Nat /\ len \in Nat /\ Len(all) \in Nat
  BY DEF Sound, Listed, MaxPlace
<1>2. all[k].pc + all[k].size \in Nat /\ all[k].pc + all[k].size <= len
  <2>1. all[k].pc \in Nat /\ all[k].size \in Nat
    BY <1>1 DEF Listed
  <2> QED
    BY <1>1, <2>1, PlacesAscend
<1>3. Word(all[k].pc + all[k].size) = all[k].pc + all[k].size
  <2>1. all[k].pc + all[k].size <= MaxPlace
    BY <1>1, <1>2
  <2> QED
    BY <1>2, <2>1, WordSmall
<1>4. k < Len(all) => k + 1 \in 1 .. Len(all) /\ all[k + 1].pc = all[k].pc + all[k].size
  BY <1>1 DEF Listed
<1>5. k = Len(all) => all[k].pc + all[k].size = len
  BY <1>1 DEF Listed
<1> QED
  BY <1>3, <1>4, <1>5

LEMMA InsideStarts ==
  ASSUME NEW all, NEW len, NEW table, Sound(all, len, table)
  PROVE  LET S == Inside(all, len, table)
         IN  /\ S \in SUBSET Starts(all) /\ 0 \in S
             /\ \A k \in 1 .. Len(all) : Range(Targets(all[k])) \in SUBSET S
             /\ \A k \in 1 .. Len(all) : k < Len(all) /\ IsJump(all[k].op) => all[k + 1].pc \in S
             /\ \A r \in DOMAIN table : {table[r][1], table[r][3]} \in SUBSET S /\ table[r][2] \in S \cup {len}
<1> DEFINE S == Inside(all, len, table)
           afterJumps == {Word(ins.pc + ins.size) : ins \in {i \in Range(all) : IsJump(i.op)}}
           targets == UNION {Range(Targets(ins)) : ins \in Range(all)}
           ranges == UNION {{r[1], r[2], r[3]} : r \in Range(table)}
<1>1. Listed(all, len) /\ len \in Nat /\ DOMAIN all = 1 .. Len(all) /\ Len(all) \in Nat \ {0} /\ all[1].pc = 0
  BY DEF Sound, Listed
<1>2. \A p \in Starts(all) : p \in Nat /\ p < len
  BY <1>1, StartsInside
<1>3. S = {p \in {0} \cup afterJumps \cup targets \cup ranges : p < len \/ (p = 0 /\ len = 0)}
  BY DEF Inside
<1>4. 0 \in Starts(all)
  BY <1>1 DEF Starts
<1>5. len # 0
  BY <1>1, <1>2, <1>4
<1>6. Range(all) = {all[k] : k \in 1 .. Len(all)} /\ Range(table) = {table[r] : r \in DOMAIN table}
  BY <1>1 DEF Range
<1>7. \A p \in afterJumps : \E k \in 1 .. Len(all) : IsJump(all[k].op) /\ p = Word(all[k].pc + all[k].size)
  BY <1>6
<1>8. \A k \in 1 .. Len(all) : IsJump(all[k].op) => Word(all[k].pc + all[k].size) \in afterJumps
  BY <1>6
<1>9. \A k \in 1 .. Len(all) : Range(Targets(all[k])) \in SUBSET targets
  BY <1>6
<1>10. targets \in SUBSET Starts(all)
  BY <1>6 DEF Sound
<1>11. \A r \in DOMAIN table : table[r][1] \in ranges /\ table[r][2] \in ranges /\ table[r][3] \in ranges
  BY <1>6
<1>12. ranges \in SUBSET (Starts(all) \cup {len})
  BY <1>6 DEF Sound
<1> HIDE DEF S, afterJumps, targets, ranges
<1>13. \A p \in afterJumps : p \in Starts(all) \cup {len}
  <2> TAKE p \in afterJumps
  <2>1. PICK k \in 1 .. Len(all) : p = Word(all[k].pc + all[k].size)
    BY <1>7
  <2>2. CASE k < Len(all)
    <3>1. k + 1 \in 1 .. Len(all) /\ p = all[k + 1].pc
      BY <2>1, <2>2, AfterInstruction
    <3> QED
      BY <3>1 DEF Starts
  <2>3. CASE k = Len(all)
    <3>1. p = len
      BY <2>1, <2>3, AfterInstruction
    <3> QED
      BY <3>1
  <2> QED
    BY <1>1, <2>2, <2>3
<1>14. \A p \in S : p \in Starts(all)
  <2> TAKE p \in S
  <2>1. p < len /\ p \in Starts(all) \cup {len}
    BY <1>3, <1>4, <1>5, <1>10, <1>12, <1>13
  <2> QED
    BY <1>1, <2>1
<1>15. \A p \in Starts(all) : p \in afterJumps \cup targets \cup ranges \cup {0} => p \in S
  BY <1>2, <1>3
<1>16. \A k \in 1 .. Len(all) : k < Len(all) /\ IsJump(all[k].op) => all[k + 1].pc \in S
  <2> SUFFICES ASSUME NEW k \in 1 .. Len(all), k < Len(all), IsJump(all[k].op) PROVE all[k + 1].pc \in S
    OBVIOUS
  <2>1. k + 1 \in 1 .. Len(all) /\ all[k + 1].pc \in afterJumps
    BY <1>8, AfterInstruction
  <2>2. all[k + 1].pc \in Starts(all)
    BY <2>1 DEF Starts
  <2> QED
    BY <1>15, <2>1, <2>2
<1>17. \A k \in 1 .. Len(all) : Range(Targets(all[k])) \in SUBSET S
  BY <1>9, <1>10, <1>15
<1>18. \A r \in DOMAIN table : {table[r][1], table[r][3]} \in SUBSET S /\ table[r][2] \in S \cup {len}
  <2> TAKE r \in DOMAIN table
  <2>1. table[r][1] \in Starts(all) /\ table[r][3] \in Starts(all) /\ table[r][2] \in Starts(all) \cup {len}
    BY DEF Sound
  <2> QED
    BY <1>11, <1>15, <2>1
<1> QED
  BY <1>4, <1>14, <1>15, <1>16, <1>17, <1>18 DEF S

LEMMA SeqWithin ==
  ASSUME NEW T, NEW s \in Seq(T), NEW S, Range(s) \in SUBSET S
  PROVE  s \in Seq(S)
<1>1. Len(s) \in Nat /\ s \in [1 .. Len(s) -> T]
  OBVIOUS
<1>2. \A i \in 1 .. Len(s) : s[i] \in S
  BY <1>1 DEF Range
<1>3. s \in [1 .. Len(s) -> S]
  BY <1>1, <1>2
<1> QED
  BY <1>1, <1>3

\* The places control goes to behind a block are starts of blocks.
LEMMA NextPlacesLead ==
  ASSUME NEW all, NEW len, NEW table, Sound(all, len, table), NEW k \in 1 .. Len(all),
         k = Len(all) \/ all[k + 1].pc \in Inside(all, len, table)
  PROVE  NextPlaces(all[k]) \in Seq(Inside(all, len, table))
<1> DEFINE S == Inside(all, len, table)
           op == all[k].op
           after == Word(all[k].pc + all[k].size)
           to == Word(all[k].a)
           cases == [c \in DOMAIN all[k].cases |-> all[k].cases[c][2]]
<1> SUFFICES NextPlaces(all[k]) \in Seq(S)
  OBVIOUS
<1>1. Range(Targets(all[k])) \in SUBSET S
  BY InsideStarts
<1>2. /\ Gotos \cap Switches = {} /\ Jsrs \cap Switches = {} /\ Gotos \cap Ifs = {} /\ Jsrs \cap Ifs = {} /\ Switches \cap Ifs = {}
      /\ Gotos \cap Returns = {} /\ Jsrs \cap Returns = {} /\ Switches \cap Returns = {} /\ Ifs \cap Returns = {}
      /\ \A o \in {Ret, Athrow} : o \notin Gotos \cup Jsrs \cup Switches \cup Ifs
  BY DEF Gotos, Jsrs, Switches, Ifs, Returns, Ret, Athrow
<1>3. IsTerminal(op) <=> op \in Gotos \cup Jsrs \cup Switches \cup Returns \cup {Ret, Athrow}
  BY DEF IsTerminal
<1>4. ~IsTerminal(op) => after \in S
  <2>1. SUFFICES ASSUME ~IsTerminal(op) PROVE after \in S
    OBVIOUS
  <2>2. Len(all) \in Nat /\ k # Len(all)
    BY <2>1 DEF Sound, Listed
  <2>3. k < Len(all)
    BY <2>2
  <2> QED
    BY <2>2, <2>3, AfterInstruction
<1>5. CASE op \in Gotos \cup Jsrs
  <2>1. NextPlaces(all[k]) = <<to>> /\ Targets(all[k]) = <<to>>
    BY <1>2, <1>5, Zenon DEF NextPlaces, Targets
  <2>2. <<to>> \in Seq({to})
    OBVIOUS
  <2> HIDE DEF to, S
  <2> QED
    BY <1>1, <2>1, <2>2, SeqWithin
<1>6. CASE op \in Switches
  <2>1. NextPlaces(all[k]) = Targets(all[k]) /\ Targets(all[k]) = <<all[k].default>> \o cases
    BY <1>2, <1>6, Zenon DEF NextPlaces, Targets
  <2> DEFINE V == {cases[c] : c \in DOMAIN cases} \cup {all[k].default}
  <2>2. PICK n \in Nat : DOMAIN all[k].cases = 1 .. n
    BY DEF Sound
  <2>3. cases \in [1 .. n -> V]
    BY <2>2
  <2>4. <<all[k].default>> \in Seq(V)
    OBVIOUS
  <2> HIDE DEF cases, V, S
  <2>5. cases \in Seq(V)
    BY <2>2, <2>3
  <2>6. <<all[k].default>> \o cases \in Seq(V)
    BY <2>4, <2>5
  <2> QED
    BY <1>1, <2>1, <2>6, SeqWithin
<1>7. CASE op \in Returns \cup {Ret, Athrow}
  <2>1. NextPlaces(all[k]) = << >>
    BY <1>2, <1>7, Zenon DEF NextPlaces
  <2> QED
    BY <2>1
<1>8. CASE op \in Ifs
  <2>1. NextPlaces(all[k]) = <<after, to>> /\ Targets(all[k]) = <<to, after>>
    BY <1>2, <1>8, Zenon DEF NextPlaces, Targets
  <2> HIDE DEF to, S, after
  <2>2. Range(<<to, after>>) = {to, after}
    BY DEF Range
  <2>3. to \in S /\ after \in S
    BY <1>1, <2>1, <2>2
  <2> QED
    BY <2>1, <2>3
<1>9. CASE op \notin Gotos \cup Jsrs \cup Switches \cup Returns \cup {Ret, Athrow} \cup Ifs
  <2>1. NextPlaces(all[k]) = <<after>>
    BY <1>9, Zenon DEF NextPlaces
  <2>2. after \in S
    BY <1>3, <1>4, <1>9
  <2> HIDE DEF after, S
  <2> QED
    BY <2>1, <2>2
<1> QED
  BY <1>5, <1>6, <1>7, <1>8, <1>9

\* The b-th block's first and last instruction.
Spans(from, b, first, last) == first = from[b] /\ last = from[b + 1] - 1

LEMMA SpanInside ==
  ASSUME NEW N \in Nat, NEW n \in Nat, NEW from \in [1 .. n + 1 -> 1 .. N + 1], NEW b \in 1 .. n, from[b] < from[b + 1],
         NEW first, NEW last, Spans(from, b, first, last)
  PROVE  /\ first \in 1 .. N /\ last \in 1 .. N /\ first <= last
         /\ first = from[b] /\ last + 1 = from[b + 1]
<1>1. b \in 1 .. n + 1 /\ b + 1 \in 1 .. n + 1
  OBVIOUS
<1>2. from[b] \in 1 .. N + 1 /\ from[b + 1] \in 1 .. N + 1
  BY <1>1
<1>3. first = from[b] /\ last = from[b + 1] - 1
  BY DEF Spans
<1> QED
  BY <1>2, <1>3

\* The blocks at some places, each once.
BlocksAt(leaders, places) == Deduped([k \in DOMAIN places |-> BlockOf(leaders, places[k])])

\* A block as BlocksBetween makes it.
LEMMA BlocksShape ==
  ASSUME NEW all, NEW len, NEW table, Sound(all, len, table),
         NEW leaders, NEW n \in Nat \ {0}, NEW from \in [1 .. n + 1 -> 1 .. Len(all) + 1],
         Cuts(all, len, Inside(all, len, table), leaders, n, from),
         NEW b \in 1 .. n, NEW first, NEW last, Spans(from, b, first, last)
  PROVE  LET block == BlocksBetween(all, len, leaders)[b]
             places == NextPlaces(all[last])
         IN  /\ block.start = leaders[b]
             /\ block.ins = SubSeq(all, first, last)
             /\ block.ins # << >>
             /\ block.succ = BlocksAt(leaders, places)
<1> DEFINE S == Inside(all, len, table)
           end == IF b < n THEN leaders[b + 1] ELSE len
           ins == SubSeq(all, first, last)
           places == NextPlaces(all[last])
           succ == BlocksAt(leaders, places)
           block == BlocksBetween(all, len, leaders)[b]
<1>1. leaders \in [1 .. n -> S] /\ from[b] < from[b + 1] /\ from[b] \in 1 .. Len(all)
      /\ InsOf(all, leaders[b], end) = ins
  BY DEF Cuts, Spans
<1>2. DOMAIN leaders = 1 .. n /\ Len(leaders) = n
  <2> HIDE DEF S
  <2> QED
    BY <1>1
<1>3. leaders[n] \in Nat /\ leaders[n] < len /\ len \in Nat
  <2>1. leaders[n] \in S
    BY <1>1
  <2>2. S \in SUBSET Starts(all)
    BY InsideStarts
  <2>3. Listed(all, len)
    BY DEF Sound
  <2> QED
    BY <2>1, <2>2, <2>3, StartsInside DEF Listed
<1>4. Max({len, leaders[n]}) = len
  <2> DEFINE top == leaders[n]
  <2>1. top \in Nat /\ top < len /\ len \in Nat
    BY <1>3
  <2> HIDE DEF top
  <2>2. len \in {len, top} /\ \A y \in {len, top} : len >= y
    BY <2>1
  <2>3. \A m \in {len, top} : (\A y \in {len, top} : m >= y) => m = len
    BY <2>1
  <2>4. Max({len, top}) = len
    BY <2>2, <2>3 DEF Max
  <2> QED
    BY <2>4 DEF top
<1>5. (IF b < Len(leaders) THEN leaders[b + 1] ELSE Max({len, leaders[b]})) = end
  <2>1. CASE b < n
    BY <1>2, <2>1
  <2>2. CASE b = n
    BY <1>2, <1>4, <2>2
  <2> QED
    BY <2>1, <2>2
<1>6. ins # << >> /\ Last(ins) = all[last]
  <2> DEFINE i == first
             j == last
  <2>1. all \in Seq(Range(all)) /\ Len(all) \in Nat
    BY DEF Sound, Listed
  <2>2. i \in 1 .. Len(all) /\ j \in 1 .. Len(all) /\ i <= j
    <3>1. from[b] < from[b + 1] /\ n \in Nat
      BY <1>1
    <3> QED
      BY <2>1, <3>1, SpanInside
  <2> HIDE DEF i, j
  <2>3. LET s == SubSeq(all, i, j) IN Len(s) = j - i + 1 /\ s[j - i + 1] = all[j]
    BY <2>1, <2>2
  <2>4. SubSeq(all, i, j) # << >>
    <3>1. SubSeq(all, i, j) \in Seq(Range(all)) /\ Len(SubSeq(all, i, j)) = j - i + 1
      BY <2>1, <2>2
    <3>2. j - i + 1 # 0
      BY <2>2
    <3> QED
      BY <3>1, <3>2
  <2> QED
    BY <2>3, <2>4 DEF Last, i, j
<1>7. Successors(leaders, ins) = succ
  <2>1. Successors(leaders, ins) =
          LET p == NextPlaces(Last(ins)) IN Deduped([k \in DOMAIN p |-> BlockOf(leaders, p[k])])
    <3> HIDE DEF ins
    <3> QED
      BY <1>6 DEF Successors
  <2> QED
    BY <1>6, <2>1 DEF BlocksAt
<1> HIDE DEF end, ins, succ
<1>8. block = [start |-> leaders[b], end |-> end, ins |-> ins, succ |-> succ]
  BY <1>1, <1>2, <1>5, <1>7 DEF BlocksBetween
<1>9. block.start = leaders[b] /\ block.ins = ins /\ block.succ = succ
  <2> HIDE DEF block
  <2> QED
    BY <1>8
<1> QED
  BY <1>6, <1>9 DEF ins, succ

\* Where a block's successors start.
Lead(leaders, n, S) == \A p \in S : BlockOf(leaders, p) \in 1 .. n /\ leaders[BlockOf(leaders, p)] = p
GoTo(leaders, n, succ, places) ==
  /\ succ \in Seq(1 .. n)
  /\ \A p : (\E i \in 1 .. Len(succ) : leaders[succ[i]] = p) <=> p \in Range(places)
  /\ \A i, j \in 1 .. Len(succ) : succ[i] = succ[j] => i = j
  /\ places # << >> => succ # << >> /\ leaders[succ[1]] = places[1]

LEMMA SuccessorsLead ==
  ASSUME NEW S, NEW leaders, NEW n, Lead(leaders, n, S), NEW places \in Seq(S), n \in Nat
  PROVE  GoTo(leaders, n, BlocksAt(leaders, places), places)
<1> DEFINE to == [k \in DOMAIN places |-> BlockOf(leaders, places[k])]
           succ == Deduped(to)
           m == Len(places)
<1>1. m \in Nat /\ DOMAIN places = 1 .. m /\ \A k \in 1 .. m : places[k] \in S
  OBVIOUS
<1>2. \A k \in 1 .. m : to[k] \in 1 .. n /\ leaders[to[k]] = places[k]
  BY <1>1 DEF Lead
<1>3. to \in Seq(1 .. n) /\ Len(to) = m /\ to \in Seq(Nat)
  <2> SUFFICES to \in [1 .. m -> 1 .. n]
    BY <1>1
  <2> QED
    BY <1>1, <1>2
<1> HIDE DEF to
<1>4. /\ succ \in Seq(Nat)
      /\ \A x : (\E k \in 1 .. Len(succ) : succ[k] = x) <=> (\E i \in 1 .. Len(to) : to[i] = x)
      /\ \A k, l \in 1 .. Len(succ) : succ[k] = succ[l] => k = l
      /\ to # << >> => succ # << >> /\ succ[1] = to[1]
  BY <1>3, DedupedKeeps
<1> HIDE DEF succ, m
<1>5. \A i \in 1 .. Len(succ) : \E k \in 1 .. m : succ[i] = to[k]
  <2> TAKE i \in 1 .. Len(succ)
  <2>1. \E k \in 1 .. Len(to) : to[k] = succ[i]
    BY <1>4
  <2> QED
    BY <1>3, <2>1
<1>6. \A k \in 1 .. m : \E i \in 1 .. Len(succ) : succ[i] = to[k]
  BY <1>3, <1>4
<1>7. Range(succ) \in SUBSET (1 .. n)
  <2>1. DOMAIN succ = 1 .. Len(succ)
    BY <1>4
  <2> QED
    BY <1>2, <1>5, <2>1 DEF Range
<1>8. succ \in Seq(1 .. n)
  BY <1>4, <1>7, SeqWithin
<1>9. Range(places) = {places[k] : k \in 1 .. m}
  BY <1>1 DEF Range
<1>10. \A i \in 1 .. Len(succ) : leaders[succ[i]] \in Range(places)
  <2> TAKE i \in 1 .. Len(succ)
  <2>1. PICK k \in 1 .. m : succ[i] = to[k]
    BY <1>5
  <2>2. leaders[succ[i]] = places[k]
    BY <1>2, <2>1
  <2> QED
    BY <1>9, <2>2
<1>11. \A p \in Range(places) : \E i \in 1 .. Len(succ) : leaders[succ[i]] = p
  <2> TAKE p \in Range(places)
  <2>1. PICK k \in 1 .. m : places[k] = p
    BY <1>9
  <2>2. PICK i \in 1 .. Len(succ) : succ[i] = to[k]
    BY <1>6
  <2>3. leaders[succ[i]] = p
    BY <1>2, <2>1, <2>2
  <2> QED
    BY <2>3
<1>12. \A p : (\E i \in 1 .. Len(succ) : leaders[succ[i]] = p) <=> p \in Range(places)
  BY <1>10, <1>11
<1>13. places # << >> => succ # << >> /\ leaders[succ[1]] = places[1]
  <2> SUFFICES ASSUME places # << >> PROVE succ # << >> /\ leaders[succ[1]] = places[1]
    OBVIOUS
  <2>1. m # 0
    BY DEF m
  <2>2. 1 \in 1 .. m /\ to # << >>
    BY <1>1, <1>3, <2>1
  <2> QED
    BY <1>2, <1>4, <2>2
<1> QED
  BY <1>4, <1>8, <1>12, <1>13 DEF succ, to, BlocksAt, GoTo

\* The same of the code's bytes and the exception table as they are read.
Verified(code, table) ==
  LET all == DecodeAll(code)
      last == all[Len(all)]
  IN  /\ IsCode(code) /\ code # << >>
      /\ \A k \in 1 .. Len(all) : all[k].op # Invalid /\ Range(Targets(all[k])) \in SUBSET Starts(all)
      /\ last.pc + last.size = Len(code) /\ IsTerminal(last.op)
      /\ \A r \in DOMAIN table : {table[r][1], table[r][3]} \in SUBSET Starts(all) /\ table[r][2] \in Starts(all) \cup {Len(code)}

LEMMA VerifiedSound ==
  ASSUME NEW code, NEW table, Verified(code, table)
  PROVE  Sound(DecodeAll(code), Len(code), table)
<1> DEFINE all == DecodeAll(code)
           n == Len(all)
<1>1. /\ IsCode(code) /\ code # << >>
      /\ \A k \in 1 .. n : all[k].op # Invalid /\ Range(Targets(all[k])) \in SUBSET Starts(all)
      /\ all[n].pc + all[n].size = Len(code) /\ IsTerminal(all[n].op)
      /\ \A r \in DOMAIN table : {table[r][1], table[r][3]} \in SUBSET Starts(all) /\ table[r][2] \in Starts(all) \cup {Len(code)}
  BY DEF Verified
<1>2. Len(code) \in Nat \ {0} /\ Len(code) <= MaxPlace
  <2>1. Len(code) \in Nat /\ Len(code) <= MaxPlace
    BY <1>1, CodeLength
  <2>2. code \in Seq(Byte)
    BY <1>1 DEF IsCode
  <2> QED
    BY <1>1, <2>1, <2>2
<1>3. all \in Seq(Decodings(code)) /\ Tiles(code, all) /\ all # << >>
  BY <1>1, <1>2, DecodingTiles
<1> HIDE DEF all
<1>4. n \in Nat \ {0} /\ DOMAIN all = 1 .. n /\ all \in Seq(Range(all))
  <2>1. n \in Nat \ {0} /\ DOMAIN all = 1 .. n
    BY <1>3
  <2>2. Range(all) \in SUBSET Range(all)
    OBVIOUS
  <2> QED
    BY <1>3, <2>1, <2>2, SeqWithin
<1>5. all[1].pc = 0 /\ \A k \in 1 .. n - 1 : all[k + 1].pc = all[k].pc + all[k].size
  BY <1>3 DEF Tiles
<1>6. ASSUME NEW k \in 1 .. n
      PROVE  all[k].pc \in Nat /\ all[k].size \in Nat \ {0} /\ \E m \in Nat : DOMAIN all[k].cases = 1 .. m
  <2>1. /\ all[k].pc \in Nat /\ all[k].pc < Len(code) /\ all[k].size \in Nat \ {0}
        /\ all[k] = DecodeAt(code, all[k].pc)
    BY <1>1, <1>3 DEF Tiles
  <2>2. all[k].pc \in 0 .. Len(code) - 1
    BY <1>2, <2>1
  <2>3. all[k] # Undecodable
    <3>1. all[k].size # 0
      BY <2>1
    <3>2. Undecodable.size = 0
      BY DEF Undecodable
    <3> QED
      BY <3>1, <3>2
  <2>4. WellPlaced(all[k], all[k].pc)
    BY <1>1, <2>1, <2>2, <2>3, DecodedPlaced
  <2> QED
    BY <2>1, <2>4 DEF WellPlaced
<1>7. Listed(all, Len(code))
  BY <1>1, <1>2, <1>4, <1>5, <1>6 DEF Listed
<1> QED
  BY <1>1, <1>2, <1>6, <1>7 DEF Sound, all

\* A block holds the instructions from the first-th to the last-th, of which
\* only the last may jump; its successors are the blocks that start where
\* control may go from there, each once, the one fallen through to first.
Stretch(all, blocks, b, first, last) ==
  LET succ == blocks[b].succ
      places == NextPlaces(all[last])
  IN  /\ blocks[b].start = all[first].pc
      /\ blocks[b].ins = SubSeq(all, first, last)
      /\ \A k \in first .. last - 1 : ~IsJump(all[k].op)
      /\ succ \in Seq(1 .. Len(blocks))
      /\ \A p : (\E i \in 1 .. Len(succ) : blocks[succ[i]].start = p) <=> p \in Range(places)
      /\ \A i, j \in 1 .. Len(succ) : succ[i] = succ[j] => i = j
      /\ places # << >> => succ # << >> /\ blocks[succ[1]].start = places[1]

\* A block is protected by a range exactly if each of its instructions is, and
\* is the handler of the ranges whose handler starts it.
Protection(all, table, g, b, first, last, r) ==
  /\ \A k \in first .. last : <<r, b>> \in g.edges <=> table[r][1] <= all[k].pc /\ all[k].pc < table[r][2]
  /\ r \in g.blocks[b].handlers <=> g.blocks[b].start = table[r][3]

LEMMA BlockProtected ==
  ASSUME NEW all, NEW len, NEW table, Sound(all, len, table),
         NEW leaders, NEW n \in Nat \ {0}, NEW from \in [1 .. n + 1 -> 1 .. Len(all) + 1],
         Cuts(all, len, Inside(all, len, table), leaders, n, from),
         NEW b \in 1 .. n, NEW first, NEW last, Spans(from, b, first, last), NEW r \in DOMAIN table, NEW k \in first .. last
  PROVE  table[r][1] <= leaders[b] /\ leaders[b] < table[r][2] <=> table[r][1] <= all[k].pc /\ all[k].pc < table[r][2]
<1> DEFINE S == Inside(all, len, table)
           start == table[r][1]
           end == table[r][2]
<1>1. /\ leaders \in [1 .. n -> S]
      /\ \A i, j \in 1 .. n : i < j => leaders[i] < leaders[j]
      /\ \A p \in S : BlockOf(leaders, p) \in 1 .. n /\ leaders[BlockOf(leaders, p)] = p
      /\ from[b] < from[b + 1] /\ from[b] \in 1 .. Len(all) /\ all[from[b]].pc = leaders[b]
      /\ leaders[b] <= all[k].pc
      /\ b < n => all[k].pc < leaders[b + 1]
  BY DEF Cuts, Spans
<1>2. S \in SUBSET Starts(all) /\ start \in S /\ (end \in S \/ end = len)
  BY InsideStarts
<1>3. Listed(all, len) /\ len \in Nat /\ Len(all) \in Nat
  BY DEF Sound, Listed
<1>4. \A p \in S : p \in Nat /\ p < len
  BY <1>2, <1>3, StartsInside
<1> HIDE DEF S, start, end
<1>5. \A i \in 1 .. n : leaders[i] \in S /\ leaders[i] \in Nat
  <2> TAKE i \in 1 .. n
  <2>1. leaders[i] \in S
    BY <1>1
  <2> QED
    BY <1>4, <2>1
<1>6. k \in 1 .. Len(all)
  <2>1. from[b] < from[b + 1] /\ n \in Nat
    BY <1>1
  <2>2. first \in 1 .. Len(all) /\ last \in 1 .. Len(all)
    BY <1>3, <2>1, SpanInside
  <2> QED
    BY <1>3, <2>2
<1>7. all[k].pc \in Nat /\ all[k].pc < len
  <2>1. all[k].pc \in Starts(all)
    BY <1>6 DEF Starts
  <2> QED
    BY <1>3, <2>1, StartsInside
<1>8. ASSUME NEW p \in S, leaders[b] < p PROVE all[k].pc < p
  <2>1. PICK c \in 1 .. n : leaders[c] = p
    BY <1>1
  <2>2. ~(c <= b)
    <3>1. c < b => leaders[c] < leaders[b]
      BY <1>1
    <3>2. c # b
      BY <1>5, <1>8, <2>1
    <3> QED
      BY <1>5, <1>8, <2>1, <3>1, <3>2
  <2>3. b < n /\ b + 1 \in 1 .. n /\ (c = b + 1 \/ b + 1 < c)
    BY <2>2
  <2>4. all[k].pc < leaders[b + 1] /\ leaders[b + 1] \in Nat /\ leaders[c] \in Nat
    BY <1>1, <1>5, <2>3
  <2>5. CASE c = b + 1
    BY <2>1, <2>4, <2>5
  <2>6. CASE b + 1 < c
    <3>1. leaders[b + 1] < leaders[c]
      BY <1>1, <2>3, <2>6
    <3> QED
      BY <1>7, <2>1, <2>4, <3>1
  <2> QED
    BY <2>3, <2>5, <2>6
<1>9. start <= leaders[b] <=> start <= all[k].pc
  <2>1. start \in Nat /\ leaders[b] \in Nat /\ leaders[b] <= all[k].pc
    BY <1>1, <1>2, <1>4, <1>5
  <2>2. leaders[b] < start => all[k].pc < start
    BY <1>2, <1>8
  <2> QED
    BY <1>7, <2>1, <2>2
<1>10. leaders[b] < end <=> all[k].pc < end
  <2>1. leaders[b] \in Nat /\ leaders[b] <= all[k].pc /\ leaders[b] < len
    BY <1>1, <1>4, <1>5
  <2>2. CASE end = len
    BY <1>7, <2>1, <2>2
  <2>3. CASE end \in S
    <3>1. end \in Nat
      BY <1>4, <2>3
    <3>2. leaders[b] < end => all[k].pc < end
      BY <1>8, <2>3
    <3>3. all[k].pc < end => leaders[b] < end
      BY <1>7, <2>1, <3>1
    <3> QED
      BY <3>2, <3>3, Zenon
  <2> QED
    BY <1>2, <2>2, <2>3
<1> QED
  BY <1>9, <1>10 DEF start, end

\* What WithBackEdges adds to the blocks and what it keeps of them.
Completed(full, blocks, leaders, ranges, n) ==
  /\ Len(full) = n
  /\ \A b \in 1 .. n : /\ full[b].start = blocks[b].start /\ full[b].ins = blocks[b].ins /\ full[b].succ = blocks[b].succ
                       /\ \A p \in 1 .. n : p \in Range(full[b].pred) <=> b \in Range(blocks[p].succ)
                       /\ \A r \in DOMAIN ranges : r \in full[b].handlers <=> BlockOf(leaders, ranges[r].handler) = b

LEMMA BackEdgesAdded ==
  ASSUME NEW n \in Nat, NEW blocks, DOMAIN blocks = 1 .. n, NEW leaders, NEW ranges
  PROVE  Completed(WithBackEdges(leaders, blocks, ranges), blocks, leaders, ranges, n)
<1> DEFINE full == WithBackEdges(leaders, blocks, ranges)
           into(b) == {p \in 1 .. n : b \in Range(blocks[p].succ)}
           handled(b) == {r \in DOMAIN ranges : BlockOf(leaders, ranges[r].handler) = b}
           block(b) == [start |-> blocks[b].start, end |-> blocks[b].end, ins |-> blocks[b].ins, succ |-> blocks[b].succ,
                        pred |-> Ascending(into(b)), handlers |-> handled(b)]
<1>1. full = [b \in 1 .. n |-> block(b)]
  BY DEF WithBackEdges
<1>2. Len(full) = n
  <2> HIDE DEF full, block
  <2> QED
    BY <1>1
<1>3. ASSUME NEW b \in 1 .. n
      PROVE  /\ full[b].start = blocks[b].start /\ full[b].ins = blocks[b].ins /\ full[b].succ = blocks[b].succ
             /\ \A p \in 1 .. n : p \in Range(full[b].pred) <=> b \in Range(blocks[p].succ)
             /\ \A r \in DOMAIN ranges : r \in full[b].handlers <=> BlockOf(leaders, ranges[r].handler) = b
  <2>1. full[b] = block(b)
    <3> HIDE DEF full, block
    <3> QED
      BY <1>1
  <2>2. /\ block(b).start = blocks[b].start /\ block(b).ins = blocks[b].ins /\ block(b).succ = blocks[b].succ
        /\ block(b).pred = Ascending(into(b)) /\ block(b).handlers = handled(b)
    <3> HIDE DEF into, handled
    <3> QED
      OBVIOUS
  <2>3. into(b) \in SUBSET (1 .. n) /\ \A p \in 1 .. n : p \in into(b) <=> b \in Range(blocks[p].succ)
    OBVIOUS
  <2>4. \A r \in DOMAIN ranges : r \in handled(b) <=> BlockOf(leaders, ranges[r].handler) = b
    OBVIOUS
  <2> DEFINE P == into(b)
             H == handled(b)
             a == Ascending(P)
             m == Cardinality(P)
  <2> HIDE DEF full, block, P, H
  <2>5. P \in SUBSET Nat /\ IsFiniteSet(P)
    <3>1. IsFiniteSet(1 .. n)
      BY FS_Interval
    <3>2. P \in SUBSET (1 .. n)
      BY <2>3 DEF P
    <3>3. IsFiniteSet(P)
      BY <3>1, <3>2, FS_Subset
    <3> QED
      BY <3>2, <3>3
  <2>6. a \in [1 .. m -> P] /\ \A x \in P : \E i \in 1 .. m : a[i] = x
    BY <2>5, AscendingOrder
  <2> HIDE DEF a, m
  <2>7. \A p : p \in Range(a) <=> p \in P
    BY <2>6 DEF Range
  <2>8. \A p \in 1 .. n : p \in Range(a) <=> b \in Range(blocks[p].succ)
    BY <2>3, <2>7 DEF P
  <2>9. full[b].pred = a /\ full[b].handlers = H
    BY <2>1, <2>2 DEF a, P, H
  <2> HIDE DEF into, handled
  <2>10. \A r \in DOMAIN ranges : r \in H <=> BlockOf(leaders, ranges[r].handler) = b
    BY <2>4 DEF H
  <2>11. full[b].start = blocks[b].start /\ full[b].ins = blocks[b].ins /\ full[b].succ = blocks[b].succ
    BY <2>1, <2>2
  <2> QED
    BY <2>8, <2>9, <2>10, <2>11
<1> HIDE DEF full
<1> QED
  BY <1>2, <1>3 DEF full, Completed

\* A block before its back edges are added.
LEMMA BlockBetween ==
  ASSUME NEW all, NEW len, NEW table, Sound(all, len, table),
         NEW leaders, NEW n \in Nat \ {0}, NEW from \in [1 .. n + 1 -> 1 .. Len(all) + 1],
         Cuts(all, len, Inside(all, len, table), leaders, n, from),
         NEW b \in 1 .. n, NEW first, NEW last, Spans(from, b, first, last)
  PROVE  LET block == BlocksBetween(all, len, leaders)[b]
             places == NextPlaces(all[last])
         IN  /\ block.start = leaders[b] /\ block.ins = SubSeq(all, first, last) /\ block.ins # << >>
             /\ \A k \in first .. last - 1 : ~IsJump(all[k].op)
             /\ GoTo(leaders, n, block.succ, places)
<1> DEFINE S == Inside(all, len, table)
           block == BlocksBetween(all, len, leaders)[b]
           places == NextPlaces(all[last])
           succ == block.succ
<1>1. /\ leaders \in [1 .. n -> S]
      /\ \A p \in S : BlockOf(leaders, p) \in 1 .. n /\ leaders[BlockOf(leaders, p)] = p
      /\ from[n + 1] = Len(all) + 1
      /\ \A c \in 1 .. n : from[c] < from[c + 1] /\ from[c] \in 1 .. Len(all) /\ all[from[c]].pc = leaders[c]
      /\ \A k \in first .. last : all[k].pc \in S => k = first
      /\ first = from[b] /\ last = from[b + 1] - 1
  BY DEF Cuts, Spans
<1>2. Len(all) \in Nat
  BY DEF Sound, Listed
<1>3. /\ block.start = leaders[b] /\ block.ins = SubSeq(all, first, last) /\ block.ins # << >>
      /\ succ = BlocksAt(leaders, places)
  BY BlocksShape
<1>4. from[b + 1] \in 1 .. Len(all) + 1
  <2>1. b + 1 \in 1 .. n + 1
    OBVIOUS
  <2> QED
    BY <2>1
<1>10. first \in 1 .. Len(all) /\ last \in 1 .. Len(all) /\ first <= last /\ last + 1 = from[b + 1]
  <2>1. from[b] < from[b + 1] /\ n \in Nat
    BY <1>1
  <2>2. first \in 1 .. Len(all) /\ last \in 1 .. Len(all) /\ first <= last
    BY <1>2, <2>1, SpanInside
  <2>3. last + 1 = from[b + 1]
    BY <1>4 DEF Spans
  <2> QED
    BY <2>2, <2>3
<1>5. \A k \in 1 .. Len(all) : k < Len(all) /\ IsJump(all[k].op) => all[k + 1].pc \in S
  BY InsideStarts
<1> HIDE DEF S
<1>6. last \in 1 .. Len(all) /\ (last = Len(all) \/ all[last + 1].pc \in S)
  <2>1. last \in 1 .. Len(all)
    BY <1>10
  <2>2. CASE b = n
    BY <1>1, <1>2, <2>1, <2>2
  <2>3. CASE b < n
    <3>1. b + 1 \in 1 .. n /\ last + 1 = from[b + 1]
      BY <1>10, <2>3
    <3>2. all[last + 1].pc = leaders[b + 1] /\ leaders[b + 1] \in S
      BY <1>1, <3>1
    <3> QED
      BY <2>1, <3>2
  <2> QED
    BY <2>2, <2>3
<1>7. places \in Seq(S)
  BY <1>6, NextPlacesLead DEF S
<1>8. ASSUME NEW k \in first .. last - 1 PROVE ~IsJump(all[k].op)
  <2>2. k + 1 \in first .. last /\ k \in 1 .. Len(all) /\ k < Len(all) /\ k + 1 # first
    BY <1>2, <1>10
  <2>3. all[k + 1].pc \notin S
    BY <1>1, <2>2
  <2> QED
    BY <1>5, <2>2, <2>3
<1> HIDE DEF block, places, succ
<1>9. GoTo(leaders, n, succ, places)
  <2>1. Lead(leaders, n, S) /\ n \in Nat
    BY <1>1 DEF Lead
  <2>2. GoTo(leaders, n, BlocksAt(leaders, places), places)
    BY <1>7, <2>1, SuccessorsLead
  <2> QED
    BY <1>3, <2>2
<1> QED
  BY <1>3, <1>8, <1>9 DEF block, places, succ

(* The blocks of a method (Cfg::build) follow its instructions: they cut   *)
(* them into stretches without a gap or an overlap, only the last          *)
(* instruction of a block jumps, a block's edges are the ways control goes *)
(* from there, forwards and backwards, and a range protects either all     *)
(* instructions of a block or none; every handler starts a block.          *)
THEOREM BlocksFollow ==
  ASSUME NEW code, NEW table, Verified(code, table)
  PROVE  LET all == DecodeAll(code)
             g == BuildCfg(code, table)
             n == Len(g.blocks)
         IN  \E from \in [1 .. n + 1 -> 1 .. Len(all) + 1] :
               /\ from[1] = 1 /\ from[n + 1] = Len(all) + 1
               /\ \A b \in 1 .. n : from[b] < from[b + 1]
               /\ \A b \in 1 .. n : \A first, last : Spans(from, b, first, last) => Stretch(all, g.blocks, b, first, last)
               /\ \A b \in 1 .. n : \A first, last : Spans(from, b, first, last) =>
                    \A r \in DOMAIN table : Protection(all, table, g, b, first, last, r)
               /\ \A b, p \in 1 .. n : p \in Range(g.blocks[b].pred) <=> b \in Range(g.blocks[p].succ)
               /\ \A r \in DOMAIN table : \E b \in 1 .. n : r \in g.blocks[b].handlers
<1> DEFINE all == DecodeAll(code)
           len == Len(code)
           g == BuildCfg(code, table)
           S == Inside(all, len, table)
           leaders == Ascending(S)
           between == BlocksBetween(all, len, leaders)
           ranges == ExcRanges(table)
           blocks == g.blocks
<1>1. Sound(all, len, table)
  BY VerifiedSound
<1>2. blocks = WithBackEdges(leaders, between, ranges) /\ g.edges = ExcEdges(leaders, between, ranges)
  <2>1. g = Cfg(leaders, between, ranges)
    BY LeadersAscend DEF BuildCfg, CfgOf
  <2> HIDE DEF g, leaders, between, ranges
  <2> QED
    BY <2>1 DEF Cfg
<1> HIDE DEF all, len
<1>3. /\ S \in SUBSET Starts(all) /\ 0 \in S
      /\ \A r \in DOMAIN table : table[r][1] \in S /\ table[r][3] \in S
  BY <1>1, InsideStarts
<1>4. Listed(all, len) /\ Len(all) \in Nat
  BY <1>1 DEF Sound, Listed
<1> HIDE DEF S, leaders, g, ranges
<1>5. PICK n \in Nat \ {0} : \E from \in [1 .. n + 1 -> 1 .. Len(all) + 1] : Cuts(all, len, S, leaders, n, from)
  BY <1>3, <1>4, Cutting DEF leaders
<1>6. PICK from \in [1 .. n + 1 -> 1 .. Len(all) + 1] : Cuts(all, len, S, leaders, n, from)
  BY <1>5
<1>7. /\ leaders \in [1 .. n -> S] /\ DOMAIN leaders = 1 .. n
      /\ \A p \in S : BlockOf(leaders, p) \in 1 .. n /\ leaders[BlockOf(leaders, p)] = p
      /\ \A b \in 1 .. n : BlockOf(leaders, leaders[b]) = b
      /\ from[1] = 1 /\ from[n + 1] = Len(all) + 1
      /\ \A b \in 1 .. n : from[b] < from[b + 1] /\ all[from[b]].pc = leaders[b]
  BY <1>6 DEF Cuts
<1>8. DOMAIN between = 1 .. n
  BY <1>7 DEF BlocksBetween
<1> HIDE DEF between
<1>9. DOMAIN ranges = DOMAIN table
      /\ \A r \in DOMAIN table : ranges[r].handler = table[r][3] /\ ranges[r].start = table[r][1] /\ ranges[r].end = table[r][2]
  BY DEF ExcRanges, ranges
<1> HIDE DEF blocks
<1>10. /\ Len(blocks) = n
       /\ \A b \in 1 .. n : /\ blocks[b].start = between[b].start /\ blocks[b].ins = between[b].ins
                            /\ blocks[b].succ = between[b].succ
                            /\ \A p \in 1 .. n : p \in Range(blocks[b].pred) <=> b \in Range(between[p].succ)
                            /\ \A r \in DOMAIN ranges : r \in blocks[b].handlers <=> BlockOf(leaders, ranges[r].handler) = b
  <2>1. n \in Nat
    OBVIOUS
  <2>2. Completed(blocks, between, leaders, ranges, n)
    BY <1>2, <1>8, <2>1, BackEdgesAdded
  <2> QED
    BY <2>2 DEF Completed
<1>18. ASSUME NEW b \in 1 .. n, NEW r \in DOMAIN table PROVE r \in blocks[b].handlers <=> BlockOf(leaders, table[r][3]) = b
  <2>1. r \in DOMAIN ranges /\ ranges[r].handler = table[r][3]
    BY <1>9
  <2>2. r \in blocks[b].handlers <=> BlockOf(leaders, ranges[r].handler) = b
    BY <1>10, <2>1
  <2> QED
    BY <2>1, <2>2
<1>11. ASSUME NEW b \in 1 .. n, NEW first, NEW last, Spans(from, b, first, last)
       PROVE  /\ blocks[b].start = leaders[b] /\ blocks[b].ins = SubSeq(all, first, last) /\ between[b].ins # << >>
              /\ \A k \in first .. last - 1 : ~IsJump(all[k].op)
              /\ GoTo(leaders, n, blocks[b].succ, NextPlaces(all[last]))
  <2>1. /\ between[b].start = leaders[b] /\ between[b].ins = SubSeq(all, first, last) /\ between[b].ins # << >>
        /\ \A k \in first .. last - 1 : ~IsJump(all[k].op)
        /\ GoTo(leaders, n, between[b].succ, NextPlaces(all[last]))
    BY <1>1, <1>6, <1>11, BlockBetween DEF S, between
  <2>2. blocks[b].start = between[b].start /\ blocks[b].ins = between[b].ins /\ blocks[b].succ = between[b].succ
    BY <1>10
  <2> QED
    BY <2>1, <2>2
<1>12. ASSUME NEW b \in 1 .. n PROVE blocks[b].start = leaders[b] /\ between[b].start = leaders[b] /\ between[b].ins # << >>
  <2>1. Spans(from, b, from[b], from[b + 1] - 1)
    BY DEF Spans
  <2> DEFINE first == from[b]
             last == from[b + 1] - 1
  <2>2. Spans(from, b, first, last)
    BY <2>1
  <2> HIDE DEF first, last
  <2>3. blocks[b].start = leaders[b] /\ between[b].ins # << >>
    BY <1>11, <2>2
  <2> QED
    BY <1>10, <2>3
<1>13. ASSUME NEW b \in 1 .. n, NEW first, NEW last, Spans(from, b, first, last)
       PROVE  Stretch(all, blocks, b, first, last)
  <2> DEFINE succ == blocks[b].succ
             places == NextPlaces(all[last])
  <2>1. /\ blocks[b].start = leaders[b] /\ blocks[b].ins = SubSeq(all, first, last)
        /\ \A k \in first .. last - 1 : ~IsJump(all[k].op)
        /\ GoTo(leaders, n, succ, places)
    BY <1>11, <1>13
  <2>2. leaders[b] = all[first].pc
    BY <1>7, <1>13 DEF Spans
  <2> HIDE DEF succ, places
  <2>3. /\ succ \in Seq(1 .. n)
        /\ \A p : (\E i \in 1 .. Len(succ) : leaders[succ[i]] = p) <=> p \in Range(places)
        /\ \A i, j \in 1 .. Len(succ) : succ[i] = succ[j] => i = j
        /\ places # << >> => succ # << >> /\ leaders[succ[1]] = places[1]
    BY <2>1 DEF GoTo
  <2>4. \A i \in 1 .. Len(succ) : blocks[succ[i]].start = leaders[succ[i]]
    <3> TAKE i \in 1 .. Len(succ)
    <3>1. succ[i] \in 1 .. n
      BY <2>3
    <3> QED
      BY <1>12, <3>1
  <2>5. \A p : (\E i \in 1 .. Len(succ) : blocks[succ[i]].start = p) <=> p \in Range(places)
    <3> TAKE p
    <3>1. (\E i \in 1 .. Len(succ) : blocks[succ[i]].start = p) <=> (\E i \in 1 .. Len(succ) : leaders[succ[i]] = p)
      BY <2>4
    <3> QED
      BY <2>3, <3>1
  <2>6. places # << >> => succ # << >> /\ blocks[succ[1]].start = places[1]
    <3>1. succ # << >> => 1 \in 1 .. Len(succ)
      BY <2>3
    <3> QED
      BY <2>3, <2>4, <3>1
  <2> QED
    BY <1>10, <2>1, <2>2, <2>3, <2>5, <2>6 DEF Stretch, succ, places
<1>14. ASSUME NEW b \in 1 .. n, NEW first, NEW last, Spans(from, b, first, last), NEW r \in DOMAIN table
       PROVE  Protection(all, table, g, b, first, last, r)
  <2>1. <<r, b>> \in g.edges <=> table[r][1] <= leaders[b] /\ leaders[b] < table[r][2]
    <3>1. <<r, b>> \in g.edges <=> BlockOf(leaders, ranges[r].handler) # 0 /\ ranges[r].start <= between[b].start
                                   /\ between[b].start < ranges[r].end /\ between[b].ins # << >>
      BY <1>2, <1>8, <1>9 DEF ExcEdges
    <3>2. BlockOf(leaders, ranges[r].handler) # 0
      <4>1. BlockOf(leaders, table[r][3]) \in 1 .. n
        BY <1>3, <1>7
      <4> QED
        BY <1>9, <4>1
    <3>3. ranges[r].start = table[r][1] /\ ranges[r].end = table[r][2] /\ between[b].start = leaders[b] /\ between[b].ins # << >>
      BY <1>9, <1>12
    <3> QED
      BY <3>1, <3>2, <3>3
  <2>2. ASSUME NEW k \in first .. last
        PROVE  <<r, b>> \in g.edges <=> table[r][1] <= all[k].pc /\ all[k].pc < table[r][2]
    BY <1>1, <1>6, <1>14, <2>1, BlockProtected DEF S
  <2>3. r \in blocks[b].handlers <=> BlockOf(leaders, table[r][3]) = b
    BY <1>18
  <2>4. BlockOf(leaders, table[r][3]) = b <=> leaders[b] = table[r][3]
    <3>1. table[r][3] \in S
      BY <1>3
    <3>2. leaders[BlockOf(leaders, table[r][3])] = table[r][3] /\ BlockOf(leaders, leaders[b]) = b
      BY <1>7, <3>1
    <3>3. BlockOf(leaders, table[r][3]) = b => leaders[b] = table[r][3]
      BY <3>2
    <3>4. leaders[b] = table[r][3] => BlockOf(leaders, table[r][3]) = b
      BY <3>2
    <3> QED
      BY <3>3, <3>4
  <2>5. blocks[b].start = leaders[b]
    BY <1>12
  <2> QED
    BY <2>2, <2>3, <2>4, <2>5 DEF Protection, blocks
<1>15. ASSUME NEW b \in 1 .. n, NEW p \in 1 .. n PROVE p \in Range(blocks[b].pred) <=> b \in Range(blocks[p].succ)
  <2>1. blocks[p].succ = between[p].succ
    BY <1>10
  <2>2. p \in Range(blocks[b].pred) <=> b \in Range(between[p].succ)
    BY <1>10
  <2> QED
    BY <2>1, <2>2
<1>16. ASSUME NEW r \in DOMAIN table PROVE \E b \in 1 .. n : r \in blocks[b].handlers
  <2>1. BlockOf(leaders, table[r][3]) \in 1 .. n
    BY <1>3, <1>7
  <2> QED
    BY <1>18, <2>1
<1>17. \A b \in 1 .. n : from[b] < from[b + 1]
  BY <1>7
<1> SUFFICES \E f \in [1 .. n + 1 -> 1 .. Len(all) + 1] :
               /\ f[1] = 1 /\ f[n + 1] = Len(all) + 1
               /\ \A b \in 1 .. n : f[b] < f[b + 1]
               /\ \A b \in 1 .. n : \A first, last : Spans(f, b, first, last) => Stretch(all, blocks, b, first, last)
               /\ \A b \in 1 .. n : \A first, last : Spans(f, b, first, last) =>
                    \A r \in DOMAIN table : Protection(all, table, g, b, first, last, r)
               /\ \A b, p \in 1 .. n : p \in Range(blocks[b].pred) <=> b \in Range(blocks[p].succ)
               /\ \A r \in DOMAIN table : \E b \in 1 .. n : r \in blocks[b].handlers
  BY <1>10 DEF all, g, blocks
<1> WITNESS from \in [1 .. n + 1 -> 1 .. Len(all) + 1]
<1> QED
  BY <1>7, <1>13, <1>14, <1>15, <1>16, <1>17
=============================================================================
