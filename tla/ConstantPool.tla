----------------------------- MODULE ConstantPool -----------------------------
(***************************************************************************)
(* crates/classfile: numbers in bytes, and the constants of a class file.  *)
(*                                                                         *)
(* A constant starts with the name of its variant.  Constants stand one    *)
(* after the other in the pool, but a Long and a Double count for two      *)
(* numbers.                                                                *)
(***************************************************************************)
EXTENDS Integers, Sequences, FiniteSets

Limit == 2147483647     \* no input here is as long: lengths beyond it read as Limit

Two(b, i) == 256 * b[i] + b[i + 1]

\* The number in n bytes from the i-th: 1, 2 or 4.
Num(b, i, n) == CASE n = 1 -> b[i]
                  [] n = 2 -> Two(b, i)
                  [] n = 4 -> IF b[i] > 127 THEN Limit ELSE 65536 * Two(b, i) + Two(b, i + 2)

\* An i32, from the bits of a u32.
Signed(b, i) == 65536 * (IF b[i] > 127 THEN Two(b, i) - 65536 ELSE Two(b, i)) + Two(b, i + 2)

\* Mutant: a Double is forgotten.
TwoSlotsLong(c) == c[1] = "Long"
TwoSlots(c) == c[1] \in {"Long", "Double"}

\* A constant by its number: get_entry counts along the pool, CpLookup holds
\* for each number the place of its constant, 0 where there is none.
Slots(pool, i) == i + Cardinality({j \in 1 .. i - 1 : TwoSlots(pool[j])})
None == <<"none">>
GetEntry(pool, n) ==
  LET hit == {i \in DOMAIN pool : Slots(pool, i) = n} IN IF hit = {} THEN None ELSE pool[CHOOSE i \in hit : TRUE]

CpLookup(pool) ==
  LET pos[i \in 0 .. Len(pool)] ==
        IF i = 0 THEN << >> ELSE pos[i - 1] \o (IF TwoSlots(pool[i]) THEN <<i, 0>> ELSE <<i>>)
  IN  pos[Len(pool)]
Lookup(pos, pool, n) == IF n \notin DOMAIN pos THEN None ELSE IF pos[n] = 0 THEN None ELSE pool[pos[n]]
=============================================================================
