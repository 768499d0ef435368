------------------------------ MODULE MCFrontEnd ------------------------------
EXTENDS FrontEndProps, FrontEndFamilies
MCKnown == [String |-> <<1>>, Class |-> <<2>>, Objects |-> <<3>>, requireNonNull |-> <<4>>, StringBuilder |-> <<5>>, StringBuffer |-> <<6>>,
 toString |-> <<7>>, append |-> <<8>>, valueOf |-> <<9>>, clone |-> <<10>>, length |-> <<11>>, lambda |-> <<12, 36>>, LambdaMetafactory |-> <<13>>,
 metafactory |-> <<14>>, altMetafactory |-> <<15>>, StringConcatFactory |-> <<16>>, makeConcat |-> <<17>>, makeConcatWithConstants |-> <<18>>,
 EnumDescOf |-> <<<<19>>, <<20>>>>, ClassDescOf |-> <<<<21>>, <<20>>>>, primitiveClass |-> <<<<22>>, <<23>>>>, assertionsDisabled |-> <<24>>]
MCNameOf == [b \in {NameBytes(n) : n \in Range(AttrNames)} |-> AttrNames[b[2]]]
MCIds ==
  [is : {"whole", "longer", "shorter"}, n : 1 .. 28] \cup [is : {"odd"}, n : 1 .. 6] \cup [is : {"cut"}, n : 0 .. 227]
  \cup [is : {"spoilt"}, n : 1 .. 4] \cup [is : {"tail"}, n : {1}]
  \cup {id \in [is : Uses, n : 1 .. 76] : id.n <= Len(Values0)} \cup {id \in [is : {"call", "sum", "element2"}, n : 1 .. 16, m : 1 .. 16] :
           /\ Max({id.n, id.m}) <= Len(IntValues)
           /\ id.is = "sum" => id.m \in {1, 5, 9, 12}
           /\ id.is = "element2" => id.m \in {2, 6, 8, 11} /\ id.n # id.m}
  \cup [is : {"deed"}, n : 1 .. 10, m : 1 .. 10] \cup [is : Branches, n : 1 .. 12, m : {1, 5, 9}]
  \cup [is : {"site"}, n : 1 .. 10] \cup [is : {"calls"}, n : 1 .. 13] \cup [is : {"debug"}, n : 1 .. 19] \cup [is : {"table", "lookup"}, n : 0 .. 3]
MCTwiceIds == {id \in [is : {"element2"}, n : 1 .. 14, m : 1 .. 14] : id.n = id.m}
FileOf(id) ==
  CASE id.is \in {"whole", "longer", "shorter"} -> AttributeFile(id.n, id.is) [] id.is = "odd" -> OddAttribute(id.n)
    [] id.is = "cut" -> CutFile(id.n) [] id.is = "spoilt" -> SpoiltFile(id.n) [] id.is = "tail" -> LongerFile
    [] id.is \in Uses -> IF Fits(id.is, Values0[id.n][2]) THEN ProgramFile(Used(id.is, Values0[id.n][1], Values0[id.n][2])) ELSE LongerFile
    [] id.is \in {"call", "sum"} -> ProgramFile(Pair(id.is, IntValues[id.n][1], IntValues[id.m][1]))
    [] id.is = "element2" -> ProgramFile(Pair("element", IntValues[id.n][1], IntValues[id.m][1]))
    [] id.is = "deed" -> ProgramFile(Deed2(Deeds[id.n], Deeds[id.m]))
    [] id.is \in Branches -> ProgramFile(Program(IntTy, Branching(id.is, Tests0[id.n], Tests0[id.m])))
    [] id.is = "site" -> ProgramFile(Sites[id.n]) [] id.is = "debug" -> ProgramFile(Debugs[id.n]) [] id.is = "calls" -> ProgramFile(Calls[id.n])
    [] id.is = "table" -> ProgramFile(Switching(170, <<-1, 0, 1, 2>>, id.n)) [] id.is = "lookup" -> ProgramFile(Switching(171, <<-5, 0, 5, 70000>>, id.n))
MCInput(id) == [id |-> id] @@ FileOf(id)
MCObject == <<79>>
MCInit == <<60>>
MCEmpty == {}
=============================================================================
