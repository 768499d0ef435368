---------------------------- MODULE FrontEndInputs ----------------------------
(***************************************************************************)
(* Class files to read: a writer of bytes and an assembler that know the   *)
(* class file format from its specification, not from the parser, and the  *)
(* files and methods written with them.                                    *)
(*                                                                         *)
(* A piece [b, v] is bytes and the value they are read back as.            *)
(***************************************************************************)
EXTENDS Integers, Sequences, SequencesExt, FiniteSetsExt, TLC

N2(x) == <<(x \div 256) % 256, x % 256>>
N4(x) == <<(x \div 16777216) % 256, (x \div 65536) % 256>> \o N2(x)
P1(x) == [b |-> <<x>>, v |-> x]
P2(x) == [b |-> N2(x), v |-> x]
PRaw(bytes) == [b |-> bytes, v |-> bytes]
RECURSIVE Bytes(_), Values(_), Distinct(_)
Bytes(ps) == IF ps = << >> THEN << >> ELSE Head(ps).b \o Bytes(Tail(ps))
Values(ps) == IF ps = << >> THEN << >> ELSE <<Head(ps).v>> \o Values(Tail(ps))
All(ps) == [b |-> Bytes(ps), v |-> Values(ps)]
List1(ps) == [b |-> <<Len(ps)>> \o Bytes(ps), v |-> Values(ps)]
List2(ps) == [b |-> N2(Len(ps)) \o Bytes(ps), v |-> Values(ps)]
Run2(bytes) == [b |-> N2(Len(bytes)) \o bytes, v |-> bytes]
Run4(bytes) == [b |-> N4(Len(bytes)) \o bytes, v |-> bytes]
Variant(t, name, ps) == [b |-> <<t>> \o Bytes(ps), v |-> <<name>> \o Values(ps)]
Numbered(t, name, ps) == [b |-> <<t>> \o Bytes(ps), v |-> <<name, t>> \o Values(ps)]
Distinct(s) == IF s = << >> THEN s
               ELSE LET seen == Distinct(Front(s)) IN IF Contains(seen, Last(s)) THEN seen ELSE Append(seen, Last(s))
AttrP(name, info) == All(<<P2(name), Run4(info)>>)

-----------------------------------------------------------------------------
(* Attributes, one or more of each kind.                                   *)

Verified == <<Variant(0, "Top", << >>), Variant(1, "Integer", << >>), Variant(2, "Float", << >>), Variant(3, "Double", << >>),
              Variant(4, "Long", << >>), Variant(5, "Null", << >>), Variant(6, "UninitializedThis", << >>),
              Variant(7, "Object", <<P2(9)>>), Variant(8, "Uninitialized", <<P2(300)>>)>>
Frames == <<Numbered(0, "Same", << >>), Numbered(63, "Same", << >>), Numbered(64, "Same1", <<Verified[8]>>),
            Numbered(127, "Same1", <<Verified[2]>>), Variant(247, "Same1Extended", <<P2(260), Verified[9]>>),
            Numbered(248, "Chop", <<P2(1)>>), Numbered(250, "Chop", <<P2(513)>>), Variant(251, "SameExtended", <<P2(7)>>),
            Numbered(252, "Append", <<P2(2), All(<<Verified[1]>>)>>), Numbered(254, "Append", <<P2(3), All(<<Verified[5], Verified[6], Verified[7]>>)>>),
            Variant(255, "Full", <<P2(4), List2(<<Verified[3], Verified[8]>>), List2(<<Verified[4]>>)>>)>>
ElementP == <<Numbered(73, "Const", <<P2(5)>>), Numbered(115, "Const", <<P2(6)>>), Variant(101, "Enum", <<P2(7), P2(8)>>),
              Variant(99, "Class", <<P2(9)>>), Variant(91, "Array", <<List2(<<Numbered(90, "Const", <<P2(1)>>), Variant(91, "Array", <<List2(<< >>)>>)>>)>>)>>
AnnotationP(n) == All(<<P2(n), List2([k \in DOMAIN ElementP |-> All(<<P2(k), ElementP[k]>>)])>>)
Nested == Variant(64, "AnnotationType", <<AnnotationP(3)>>)
TargetP == <<Variant(0, "TypeParameter", <<P1(1)>>), Variant(16, "SuperType", <<P2(65535)>>), Variant(18, "TypeParameterBound", <<P1(1), P1(2)>>),
             Variant(19, "Empty", << >>), Variant(21, "Empty", << >>), Variant(22, "FormalParameter", <<P1(255)>>), Variant(23, "Throws", <<P2(2)>>),
             Variant(64, "LocalVar", <<List2(<<All(<<P2(1), P2(2), P2(3)>>)>>)>>), Variant(66, "Catch", <<P2(4)>>),
             Variant(67, "Offset", <<P2(5)>>), Variant(70, "Offset", <<P2(6)>>), Variant(71, "TypeArgument", <<P2(7), P1(8)>>),
             Variant(75, "TypeArgument", <<P2(9), P1(10)>>)>>
TypeAnnotationP(t) == All(<<t, List1(<<All(<<P1(0), P1(0)>>), All(<<P1(3), P1(1)>>)>>), P2(11), List2(<<All(<<P2(1), ElementP[1]>>)>>)>>)
Directed == List2(<<All(<<P2(1), P2(2), List2(<<P2(3), P2(4)>>)>>), All(<<P2(5), P2(6), List2(<< >>)>>)>>)
Triple == All(<<P2(258), P2(2), P2(3)>>)
Quad == All(<<P2(1), P2(0), P2(0), P2(8)>>)
Quint == All(<<P2(0), P2(9), P2(3), P2(4), P2(1)>>)

AttributeP ==
  <<<<"Code", <<P2(3), P2(2), Run4(<<3, 172>>), List2(<<All(<<P2(0), P2(1), P2(1), P2(0)>>)>>), List2(<<AttrP(4, <<9, 9>>)>>)>>>>,
    <<"ConstantValue", <<P2(7)>>>>, <<"Exceptions", <<List2(<<P2(7), P2(8)>>)>>>>,
    <<"BootstrapMethods", <<List2(<<All(<<P2(1), List2(<<P2(2), P2(3)>>)>>), All(<<P2(4), List2(<< >>)>>)>>)>>>>,
    <<"StackMapTable", <<List2(Frames)>>>>, <<"StackMapTable", <<List2(<< >>)>>>>,
    <<"InnerClasses", <<List2(<<Quad, Quad>>)>>>>, <<"SourceFile", <<P2(12)>>>>,
    <<"LineNumberTable", <<List2(<<All(<<P2(0), P2(1)>>)>>)>>>>,
    <<"LocalVariableTable", <<List2(<<Quint>>)>>>>, <<"LocalVariableTypeTable", <<List2(<<Quint, Quint>>)>>>>,
    <<"RuntimeVisibleAnnotations", <<List2(<<AnnotationP(1), AnnotationP(2)>>)>>>>,
    <<"RuntimeInvisibleAnnotations", <<List2(<<All(<<P2(1), List2(<<All(<<P2(2), Nested>>)>>)>>)>>)>>>>,
    <<"NestHost", <<P2(3)>>>>, <<"NestMembers", <<List2(<<P2(3)>>)>>>>,
    <<"Record", <<List2(<<All(<<P2(1), P2(2), List2(<<AttrP(3, <<0, 4>>)>>)>>)>>)>>>>,
    <<"PermittedSubclasses", <<List2(<<P2(3), P2(4)>>)>>>>, <<"Signature", <<P2(3)>>>>,
    <<"RuntimeVisibleParameterAnnotations", <<List1(<<All(<<List2(<<AnnotationP(1)>>)>>), All(<<List2(<< >>)>>)>>)>>>>,
    <<"RuntimeInvisibleParameterAnnotations", <<List1(<<All(<<List2(<< >>)>>)>>)>>>>,
    <<"RuntimeVisibleTypeAnnotations", <<List2([k \in DOMAIN TargetP |-> TypeAnnotationP(TargetP[k])])>>>>,
    <<"RuntimeInvisibleTypeAnnotations", <<List2(<<TypeAnnotationP(TargetP[4])>>)>>>>,
    <<"EnclosingMethod", <<P2(3), P2(0)>>>>, <<"AnnotationDefault", <<Nested>>>>,
    <<"MethodParameters", <<List1(<<All(<<P2(3), P2(16)>>), All(<<P2(0), P2(4096)>>)>>)>>>>,
    <<"Module", <<P2(1), P2(2), P2(3), List2(<<Triple>>), Directed, Directed, List2(<<P2(4)>>), List2(<<All(<<P2(5), List2(<<P2(6)>>)>>)>>)>>>>,
    <<"ModulePackages", <<List2(<<P2(7)>>)>>>>, <<"ModuleMainClass", <<P2(8)>>>>>>

\* The names of attributes are given two bytes each.
AttrNames ==
  <<"Code", "ConstantValue", "Exceptions", "BootstrapMethods", "StackMapTable", "InnerClasses", "SourceFile",
    "LineNumberTable", "LocalVariableTable", "LocalVariableTypeTable", "RuntimeVisibleAnnotations",
    "RuntimeInvisibleAnnotations", "NestHost", "NestMembers", "Record", "PermittedSubclasses", "Signature",
    "RuntimeVisibleParameterAnnotations", "RuntimeInvisibleParameterAnnotations",
    "RuntimeVisibleTypeAnnotations", "RuntimeInvisibleTypeAnnotations", "EnclosingMethod", "AnnotationDefault",
    "MethodParameters", "Module", "ModulePackages", "ModuleMainClass", "Deprecated", "Synthetic", "Unheard">>
NameBytes(name) == <<200, SelectInSeq(AttrNames, LAMBDA n : n = name)>>

-----------------------------------------------------------------------------
(* Constants, and the class around its members.  A constant is its tag,    *)
(* the bytes before its references, and the constants it refers to.        *)

Konst(tag, data, refs) == [tag |-> tag, data |-> data, refs |-> refs]
NoConst == Konst(0, << >>, << >>)
KUtf8(s) == Konst(1, s, << >>)
KInt(n) == Konst(3, N4(n), << >>)
KFloat(n) == Konst(4, N4(n), << >>)
KLong(n) == Konst(5, <<0, 0, 0, 0>> \o N4(n), << >>)
KDouble(n) == Konst(6, <<0, 0, 0, 0>> \o N4(n), << >>)
KClass(s) == Konst(7, << >>, <<KUtf8(s)>>)
KStr(s) == Konst(8, << >>, <<KUtf8(s)>>)
KNat(n, d) == Konst(12, << >>, <<KUtf8(n), KUtf8(d)>>)
KMember(tag, c, n, d) == Konst(tag, << >>, <<KClass(c), KNat(n, d)>>)
KHandle(kind, ref) == Konst(15, <<kind>>, <<ref>>)
KType(d) == Konst(16, << >>, <<KUtf8(d)>>)
KDynamic(boot, n, d) == Konst(17, N2(boot), <<KNat(n, d)>>)
KSite(boot, n, d) == Konst(18, N2(boot), <<KNat(n, d)>>)

RECURSIVE PartsOf(_)
PartsOf(k) == FlattenSeq([i \in DOMAIN k.refs |-> PartsOf(k.refs[i])]) \o <<k>>
PoolOf(ks) == Distinct(FlattenSeq([i \in DOMAIN ks |-> PartsOf(ks[i])]))
Double(k) == k.tag \in {5, 6}
Number(pool, k) ==
  LET i == SelectInSeq(pool, LAMBDA c : c = k)
  IN  IF i = 0 THEN 0 ELSE i + Cardinality({j \in 1 .. i - 1 : Double(pool[j])})
ConstName == 1 :> "Utf8" @@ 3 :> "Integer" @@ 4 :> "Float" @@ 5 :> "Long" @@ 6 :> "Double" @@ 7 :> "Class" @@ 8 :> "String"
             @@ 9 :> "Fieldref" @@ 10 :> "Methodref" @@ 11 :> "InterfaceMethodref" @@ 12 :> "NameAndType" @@ 15 :> "MethodHandle"
             @@ 16 :> "MethodType" @@ 17 :> "Dynamic" @@ 18 :> "InvokeDynamic" @@ 19 :> "Module" @@ 20 :> "Package"
ConstP(pool, k) ==
  LET refs == [i \in DOMAIN k.refs |-> P2(Number(pool, k.refs[i]))]
      data == CASE k.tag = 1 -> <<Run2(k.data)>> [] k.tag \in 3 .. 6 -> <<PRaw(k.data)>> [] k.tag = 15 -> <<P1(k.data[1])>>
                [] k.tag \in {17, 18} -> <<P2(256 * k.data[1] + k.data[2])>> [] OTHER -> << >>
  IN  Variant(k.tag, ConstName[k.tag], data \o refs)

\* A class: constants it needs, its own name and its super class's, and the
\* pieces of its interfaces, fields, methods and attributes.
ClassBytes(pool, self, super, interfaces, fields, methods, attrs) ==
  LET constants == [i \in DOMAIN pool |-> ConstP(pool, pool[i])]
      last == Len(pool) + Cardinality({j \in DOMAIN pool : Double(pool[j])})
  IN  [file |-> <<202, 254, 186, 190>> \o N2(3) \o N2(52) \o N2(last + 1) \o Bytes(constants) \o N2(33)
                \o N2(Number(pool, KClass(self))) \o N2(Number(pool, KClass(super))) \o List2(interfaces).b
                \o List2(fields).b \o List2(methods).b \o List2(attrs).b,
       pool |-> Values(constants), fields |-> Values(fields), methods |-> Values(methods),
       heads |-> <<self, super, Values(interfaces), 33>>, whole |-> TRUE]

-----------------------------------------------------------------------------
(* Files without code: every kind of attribute whole, one byte short, and  *)
(* with a byte behind it; and a file with members, cut at every place.     *)

NoProgram == [main |-> << >>, prog |-> << >>, code |-> << >>, ranges |-> << >>, runs |-> {}]
Mixed == <<KLong(7), KClass(<<65>>), KClass(<<66>>), KDouble(258), KInt(-5), KFloat(9), KStr(<<104, 105>>), KMember(9, <<65>>, <<70>>, <<73>>),
           KMember(11, <<66>>, <<71>>, <<40, 41, 86>>), KHandle(6, KMember(10, <<65>>, <<70>>, <<73>>)), KType(<<40, 41, 86>>),
           KDynamic(1, <<70>>, <<73>>), KSite(300, <<70>>, <<73>>), Konst(19, << >>, <<KUtf8(<<77>>)>>), Konst(20, << >>, <<KUtf8(<<80>>)>>)>>
NamePool(names) == PoolOf(Mixed \o [k \in DOMAIN names |-> KUtf8(NameBytes(names[k]))])

\* A class with three attributes, the second being name with the bytes
\* info and the value in vals, or with no value: then it stays as it is.
WithAttribute(name, info, vals) ==
  LET pool == NamePool(<<name, "SourceFile", "Deprecated">>)
      at(n) == Number(pool, KUtf8(NameBytes(n)))
      c == ClassBytes(pool, <<65>>, <<66>>, << >>, << >>, << >>,
                      <<AttrP(at("SourceFile"), <<1, 2>>), AttrP(at(name), info), AttrP(at("Deprecated"), << >>)>>)
      unknown == [name |-> "Unknown", val |-> <<at(name), info>>]
  IN  NoProgram @@ c @@ [attrs |-> <<[name |-> "SourceFile", val |-> <<258>>],
                                     IF vals = {} THEN unknown ELSE [name |-> name, val |-> CHOOSE v \in vals : TRUE],
                                     [name |-> "Deprecated", val |-> << >>]>>]
\* The k-th attribute, whole ("whole"), one byte short, or with one more.
AttributeFile(k, how) ==
  LET name == AttributeP[k][1]
      info == Bytes(AttributeP[k][2])
      vals == {Values(AttributeP[k][2])}
  IN  CASE how = "whole" -> WithAttribute(name, info, vals) [] how = "longer" -> WithAttribute(name, info \o <<0>>, vals)
        [] how = "shorter" -> WithAttribute(name, Front(info), {})
\* Attributes nobody knows, without a value, and with an unknown tag in them.
OddAttribute(k) ==
  CASE k = 1 -> WithAttribute("Unheard", <<1, 2, 3>>, {}) [] k = 2 -> WithAttribute("Synthetic", << >>, {<< >>})
    [] k = 3 -> WithAttribute("StackMapTable", <<0, 1, 246>>, {}) [] k = 4 -> WithAttribute("StackMapTable", <<0, 1, 64, 9>>, {})
    [] k = 5 -> WithAttribute("AnnotationDefault", <<74, 0>>, {}) [] k = 6 -> WithAttribute("AnnotationDefault", <<75, 0, 0>>, {})

Members ==
  LET pool == NamePool(<<"Signature", "Synthetic">>)
      attrs == List2(<<AttrP(Number(pool, KUtf8(NameBytes("Signature"))), <<0, 1>>), AttrP(Number(pool, KUtf8(NameBytes("Synthetic"))), << >>)>>)
      member(n) == All(<<P2(n), P2(1), P2(2), attrs>>)
  IN  NoProgram @@ ClassBytes(pool, <<65>>, <<66>>, <<P2(5), P2(6)>>, <<member(2), member(4098)>>, <<member(1)>>, << >>)
      @@ [attrs |-> << >>]
\* The file with members: its first n bytes, with more behind it, or with
\* another magic number.
CutFile(n) == [Members EXCEPT !.file = SubSeq(@, 1, n), !.whole = FALSE]
LongerFile == [Members EXCEPT !.file = @ \o <<1, 2, 3>>]
SpoiltFile(i) == [Members EXCEPT !.file[i] = 0, !.whole = FALSE]
=============================================================================
