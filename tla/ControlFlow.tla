----------------------------- MODULE ControlFlow -----------------------------
(***************************************************************************)
(* crates/decompiler/src/block.rs: a method's instructions cut into basic  *)
(* blocks.  Blocks are numbered from 1; a block holds the places [start,   *)
(* end), the instructions that fit between them, its successors (of a      *)
(* conditional jump: what it falls through to, then what it jumps to), its *)
(* predecessors and the exception ranges it is the handler of.             *)
(***************************************************************************)
EXTENDS Bytecode, SequencesExt

Deduped(s) ==
  LET seen[k \in 0 .. Len(s)] ==
        IF k = 0 THEN << >>
        ELSE LET before == seen[k - 1] IN IF Contains(before, s[k]) THEN before ELSE Append(before, s[k])
  IN  seen[Len(s)]

\* The members of a finite set of numbers in their order.
Ascending(S) == [i \in 1 .. Cardinality(S) |-> CHOOSE x \in S : Cardinality({y \in S : y < x}) = i - 1]

\* Mutant: no block starts where a range ends.
LeadersWithoutEnds(all, codeLen, table) ==
  LET places == {0} \cup {Word(ins.pc + ins.size) : ins \in {i \in Range(all) : IsJump(i.op)}} \cup UNION {Range(Targets(ins)) : ins \in Range(all)}
                \cup UNION {{r[1], r[3]} : r \in Range(table)}
  IN  Ascending({p \in places : p < codeLen \/ (p = 0 /\ codeLen = 0)})

\* Where blocks start.  Of the exception table's ranges
\* <<start, end, handler, type>> only the end may lie behind the code.
Leaders(all, codeLen, table) ==
  LET afterJumps == {Word(ins.pc + ins.size) : ins \in {i \in Range(all) : IsJump(i.op)}}
      targets == UNION {Range(Targets(ins)) : ins \in Range(all)}
      ranges == UNION {{r[1], r[2], r[3]} : r \in Range(table)}
      inside == {p \in {0} \cup afterJumps \cup targets \cup ranges : p < codeLen \/ (p = 0 /\ codeLen = 0)}
  IN  Ascending(inside)

\* The block a place lies in: the last one that starts no later (0: none).
BlockOf(leaders, p) == Cardinality({i \in DOMAIN leaders : leaders[i] <= p})

\* The instructions that fit between two places: as they stand one after the
\* other, those behind all that start too early, up to the last that ends in time.
InsOf(all, start, end) ==
  SubSeq(all, Cardinality({i \in DOMAIN all : all[i].pc < start}) + 1, Cardinality({i \in DOMAIN all : all[i].pc + all[i].size <= end}))

\* Where control may go after a block's last instruction, as places.
NextPlaces(last) ==
  CASE last.op \in Gotos \cup Jsrs -> <<Word(last.a)>>
    [] last.op \in Switches -> Targets(last)
    [] last.op \in Returns \cup {Ret, Athrow} -> << >>
    [] last.op \in Ifs -> <<Word(last.pc + last.size), Word(last.a)>>
    [] OTHER -> <<Word(last.pc + last.size)>>

\* The first leader is 0: no place is outside every block.
Successors(leaders, ins) ==
  IF ins = << >> THEN << >>
  ELSE LET places == NextPlaces(Last(ins)) IN Deduped([k \in DOMAIN places |-> BlockOf(leaders, places[k])])

ExcRanges(table) == [r \in DOMAIN table |-> [start |-> table[r][1], end |-> table[r][2], handler |-> table[r][3],
                                              type |-> table[r][4]]]

\* A range protects the blocks whose first instruction lies in it.
ExcEdges(leaders, blocks, ranges) ==
  {e \in (DOMAIN ranges) \X (DOMAIN blocks) :
     LET r == ranges[e[1]]
         b == blocks[e[2]]
     IN  BlockOf(leaders, r.handler) # 0 /\ r.start <= b.start /\ b.start < r.end /\ b.ins # << >>}

BlocksBetween(all, codeLen, leaders) ==
  [b \in DOMAIN leaders |->
     LET end == IF b < Len(leaders) THEN leaders[b + 1] ELSE Max({codeLen, leaders[b]})
         ins == InsOf(all, leaders[b], end)
     IN  [start |-> leaders[b], end |-> end, ins |-> ins, succ |-> Successors(leaders, ins)]]
WithBackEdges(leaders, blocks, ranges) ==
  [b \in DOMAIN blocks |->
     [start |-> blocks[b].start, end |-> blocks[b].end, ins |-> blocks[b].ins, succ |-> blocks[b].succ,
      pred |-> Ascending({p \in DOMAIN blocks : b \in Range(blocks[p].succ)}),
      handlers |-> {r \in DOMAIN ranges : BlockOf(leaders, ranges[r].handler) = b}]]
Cfg(leaders, blocks, ranges) ==
  [blocks |-> WithBackEdges(leaders, blocks, ranges), starts |-> leaders, ranges |-> ranges,
   edges |-> ExcEdges(leaders, blocks, ranges)]
CfgOf(all, codeLen, leaders, ranges) == Cfg(leaders, BlocksBetween(all, codeLen, leaders), ranges)
BuildCfg(code, table) ==
  LET all == DecodeAll(code) IN CfgOf(all, Len(code), Leaders(all, Len(code), table), ExcRanges(table))
=============================================================================
