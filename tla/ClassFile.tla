------------------------------ MODULE ClassFile ------------------------------
(***************************************************************************)
(* crates/classfile: how the bytes of a class file are read.               *)
(*                                                                         *)
(* A layout says what stands in the bytes: numbers of 1, 2 or 4 bytes, raw *)
(* bytes, runs of bytes and tables of items behind a count, records of     *)
(* fields, and variants told apart by a tag byte.  The parser functions    *)
(* are those layouts, one for each structure, and Read does what the       *)
(* combinators they are built from do.  The fields of a structure are the  *)
(* fields of its layout in their order; a variant starts with its name.    *)
(*                                                                         *)
(* A Utf8 constant keeps its bytes: of a string only equality counts.      *)
(***************************************************************************)
EXTENDS ConstantPool, SequencesExt, TLC

U(n) == [kind |-> "num", size |-> n]
Raw(n) == [kind |-> "raw", size |-> n]
Run(n) == [kind |-> "run", size |-> n]               \* a length of n bytes, and so many bytes
Table(n, f) == [kind |-> "table", size |-> n, item |-> f]
Times(k, f) == [kind |-> "times", size |-> k, item |-> f]
Rec(fs) == [kind |-> "rec", fields |-> fs]
Tagged(by) == [kind |-> "tagged", by |-> by]
Form(name) == [kind |-> "form", name |-> name]
U1 == U(1)
U2 == U(2)
U4 == U(4)

\* A variant of a tagged structure; some keep their tag as their first field.
As(name, fs) == [name |-> name, fields |-> fs, keep |-> FALSE]
Keep(name, fs) == [name |-> name, fields |-> fs, keep |-> TRUE]
On(tags, v) == [t \in tags |-> v]

-----------------------------------------------------------------------------
(* The structures.                                                         *)

AttributeForms == [Attribute |-> Rec(<<U2, Run(4)>>), Attributes |-> Table(2, Form("Attribute"))]

CodeRecords == [Handler |-> Rec(<<U2, U2, U2, U2>>), Bootstrap |-> Rec(<<U2, Table(2, U2)>>)]
CodeForms ==
  [Code |-> Rec(<<U2, U2, Run(4), Table(2, CodeRecords.Handler), Form("Attributes")>>),
   ConstantValue |-> Rec(<<U2>>),
   Exceptions |-> Rec(<<Table(2, U2)>>),
   BootstrapMethods |-> Rec(<<Table(2, CodeRecords.Bootstrap)>>)]

FrameRecords ==
  [Frame |-> Tagged(On(0 .. 63, Keep("Same", << >>)) @@ On(64 .. 127, Keep("Same1", <<Form("Verified")>>))
                    @@ On({247}, As("Same1Extended", <<U2, Form("Verified")>>))
                    @@ On(248 .. 250, Keep("Chop", <<U2>>)) @@ On({251}, As("SameExtended", <<U2>>))
                    @@ [t \in 252 .. 254 |-> Keep("Append", <<U2, Times(t - 251, Form("Verified"))>>)]
                    @@ On({255}, As("Full", <<U2, Table(2, Form("Verified")), Table(2, Form("Verified"))>>))),
   Verified |-> Tagged([t \in 0 .. 6 |-> As(<<"Top", "Integer", "Float", "Double", "Long", "Null",
                                              "UninitializedThis">>[t + 1], << >>)]
                       @@ On({7}, As("Object", <<U2>>)) @@ On({8}, As("Uninitialized", <<U2>>)))]
FrameForms == [StackMapTable |-> Rec(<<Table(2, Form("Frame"))>>)] @@ FrameRecords

DebugRecords == [Inner |-> Rec(<<U2, U2, U2, U2>>), Line |-> Rec(<<U2, U2>>), Variable |-> Rec(<<U2, U2, U2, U2, U2>>)]
DebugForms ==
  [InnerClasses |-> Rec(<<Table(2, DebugRecords.Inner)>>),
   SourceFile |-> Rec(<<U2>>),
   LineNumberTable |-> Rec(<<Table(2, DebugRecords.Line)>>),
   LocalVariableTable |-> Rec(<<Table(2, DebugRecords.Variable)>>),
   LocalVariableTypeTable |-> Rec(<<Table(2, DebugRecords.Variable)>>)]

\* The tags of constant element values: B C D F I J S Z and s.
Letters == {66, 67, 68, 70, 73, 74, 83, 90, 115}
AnnotationRecords ==
  [Annotation |-> Rec(<<U2, Table(2, Form("ElementPair"))>>),
   ElementPair |-> Rec(<<U2, Form("ElementValue")>>),
   ElementValue |-> Tagged(On(Letters, Keep("Const", <<U2>>)) @@ On({101}, As("Enum", <<U2, U2>>))
                           @@ On({99}, As("Class", <<U2>>)) @@ On({64}, As("AnnotationType", <<Form("Annotation")>>))
                           @@ On({91}, As("Array", <<Table(2, Form("ElementValue"))>>)))]
AnnotationForms ==
  [name \in {"RuntimeVisibleAnnotations", "RuntimeInvisibleAnnotations"} |-> Rec(<<Table(2, Form("Annotation"))>>)]
  @@ AnnotationRecords

MemberRecords == [Component |-> Rec(<<U2, U2, Form("Attributes")>>)]
MemberForms ==
  [NestHost |-> Rec(<<U2>>),
   NestMembers |-> Rec(<<Table(2, U2)>>),
   Record |-> Rec(<<Table(2, MemberRecords.Component)>>),
   PermittedSubclasses |-> Rec(<<Table(2, U2)>>),
   Signature |-> Rec(<<U2>>),
   RuntimeVisibleParameterAnnotations |-> Rec(<<Table(1, Form("RuntimeVisibleAnnotations"))>>),
   RuntimeInvisibleParameterAnnotations |-> Rec(<<Table(1, Form("RuntimeInvisibleAnnotations"))>>)]

TypeAnnotationRecords ==
  [TypeAnnotation |-> Rec(<<Form("Target"), Table(1, Rec(<<U1, U1>>)), U2, Table(2, Form("ElementPair"))>>),
   Target |-> Tagged(On({0, 1}, As("TypeParameter", <<U1>>)) @@ On({16}, As("SuperType", <<U2>>))
                     @@ On({17, 18}, As("TypeParameterBound", <<U1, U1>>)) @@ On(19 .. 21, As("Empty", << >>))
                     @@ On({22}, As("FormalParameter", <<U1>>)) @@ On({23}, As("Throws", <<U2>>))
                     @@ On({64, 65}, As("LocalVar", <<Table(2, Rec(<<U2, U2, U2>>))>>)) @@ On({66}, As("Catch", <<U2>>))
                     @@ On(67 .. 70, As("Offset", <<U2>>)) @@ On(71 .. 75, As("TypeArgument", <<U2, U1>>)))]
TypeAnnotationForms ==
  [name \in {"RuntimeVisibleTypeAnnotations", "RuntimeInvisibleTypeAnnotations"} |-> Rec(<<Table(2, Form("TypeAnnotation"))>>)]
  @@ TypeAnnotationRecords

ModuleRecords == [Parameter |-> Rec(<<U2, U2>>), Requires |-> Rec(<<U2, U2, U2>>),
                  Exports |-> Rec(<<U2, U2, Table(2, U2)>>), Opens |-> Rec(<<U2, U2, Table(2, U2)>>),
                  Provides |-> Rec(<<U2, Table(2, U2)>>)]
ModuleForms ==
  [EnclosingMethod |-> Rec(<<U2, U2>>),
   AnnotationDefault |-> Rec(<<Form("ElementValue")>>),
   MethodParameters |-> Rec(<<Table(1, ModuleRecords.Parameter)>>),
   Module |-> Rec(<<U2, U2, U2, Table(2, ModuleRecords.Requires), Table(2, ModuleRecords.Exports), Table(2, ModuleRecords.Opens),
                    Table(2, U2), Table(2, ModuleRecords.Provides)>>),
   ModulePackages |-> Rec(<<Table(2, U2)>>),
   ModuleMainClass |-> Rec(<<U2>>)]

ConstantTags == [Utf8 |-> 1, Integer |-> 3, Float |-> 4, Long |-> 5, Double |-> 6, Class |-> 7, String |-> 8, Fieldref |-> 9,
                 Methodref |-> 10, InterfaceMethodref |-> 11, NameAndType |-> 12, MethodHandle |-> 15, MethodType |-> 16,
                 Dynamic |-> 17, InvokeDynamic |-> 18, Module |-> 19, Package |-> 20]
ConstantRecords ==
  [Utf8 |-> <<Run(2)>>, Integer |-> <<Raw(4)>>, Float |-> <<Raw(4)>>, Long |-> <<Raw(8)>>, Double |-> <<Raw(8)>>,
   Class |-> <<U2>>, String |-> <<U2>>, Fieldref |-> <<U2, U2>>, Methodref |-> <<U2, U2>>, InterfaceMethodref |-> <<U2, U2>>,
   NameAndType |-> <<U2, U2>>, MethodHandle |-> <<U1, U2>>, MethodType |-> <<U2>>, Dynamic |-> <<U2, U2>>,
   InvokeDynamic |-> <<U2, U2>>, Module |-> <<U2>>, Package |-> <<U2>>]
ConstantForms ==
  [Constant |-> Tagged([tag \in Range(ConstantTags) |->
                          LET name == CHOOSE n \in DOMAIN ConstantTags : ConstantTags[n] = tag IN As(name, ConstantRecords[name])])]

FieldForm == Rec(<<U2, U2, U2, Form("Attributes")>>)
MethodForm == Rec(<<U2, U2, U2, Form("Attributes")>>)

Specialized == CodeForms @@ FrameForms @@ DebugForms @@ AnnotationForms @@ MemberForms @@ TypeAnnotationForms @@ ModuleForms
Forms == Specialized @@ AttributeForms @@ ConstantForms

-----------------------------------------------------------------------------
(* Reading: where the next byte stands (0 if the bytes end too early or a  *)
(* tag is unknown) and the value read.                                     *)

Failed == [at |-> 0, val |-> << >>]
Got(i, v) == [at |-> i, val |-> v]

\* What is read with prefix, already read, before it.
After(prefix, rest) == IF rest.at = 0 THEN Failed ELSE Got(rest.at, prefix \o rest.val)

RECURSIVE Read(_, _, _), ReadFields(_, _, _), FieldsAfter(_, _, _), ReadItems(_, _, _, _), ItemsAfter(_, _, _, _)

ReadFields(fs, b, i) == IF fs = << >> THEN Got(i, << >>) ELSE FieldsAfter(Read(Head(fs), b, i), Tail(fs), b)
FieldsAfter(first, fs, b) == IF first.at = 0 THEN Failed ELSE After(<<first.val>>, ReadFields(fs, b, first.at))

ReadItems(f, n, b, i) == IF n = 0 THEN Got(i, << >>) ELSE ItemsAfter(Read(f, b, i), f, n - 1, b)
ItemsAfter(first, f, n, b) == IF first.at = 0 THEN Failed ELSE After(<<first.val>>, ReadItems(f, n, b, first.at))

Read(f, b, i) ==
  LET left == Len(b) - i + 1
      after == i + f.size
      variant == f.by[b[i]]
      tag == IF variant.keep THEN <<variant.name, b[i]>> ELSE <<variant.name>>
  IN  CASE f.kind = "form" -> Read(Forms[f.name], b, i)
        [] f.kind = "rec" -> ReadFields(f.fields, b, i)
        [] f.kind = "times" -> ReadItems(f.item, f.size, b, i)
        [] f.kind = "tagged" -> IF left < 1 THEN Failed
                                ELSE IF b[i] \notin DOMAIN f.by THEN Failed
                                ELSE After(tag, ReadFields(variant.fields, b, i + 1))
        [] f.kind = "num" -> IF left < f.size THEN Failed ELSE Got(after, Num(b, i, f.size))
        [] f.kind = "raw" -> IF left < f.size THEN Failed ELSE Got(after, SubSeq(b, i, after - 1))
        [] f.kind = "run" -> IF left < f.size THEN Failed
                             ELSE LET n == Num(b, i, f.size)
                                  IN  IF left - f.size < n THEN Failed ELSE Got(after + n, SubSeq(b, after, after + n - 1))
        [] f.kind = "table" -> IF left < f.size THEN Failed ELSE ReadItems(f.item, Num(b, i, f.size), b, after)

\* The constant pool: count is one more than the last number used.
RECURSIVE ReadPool(_, _, _, _), PoolAfter(_, _, _, _)
ReadPool(count, slot, b, i) ==
  IF slot >= count THEN Got(i, << >>) ELSE PoolAfter(Read(Form("Constant"), b, i), count, slot, b)
PoolAfter(first, count, slot, b) ==
  IF first.at = 0 THEN Failed
  ELSE After(<<first.val>>, ReadPool(count, slot + (IF TwoSlots(first.val) THEN 2 ELSE 1), b, first.at))

\* What get_utf8 and the accessors of ClassFile and CpLookup find, given the
\* way at to a constant by its number.
Utf8(c) == IF c[1] = "Utf8" THEN c[2] ELSE << >>
GetUtf8(pool, n) == Utf8(GetEntry(pool, n))
ClassName(pos, pool, n) ==
  LET c == Lookup(pos, pool, n) IN IF c[1] \in {"Class", "Module", "Package"} THEN Utf8(Lookup(pos, pool, c[2])) ELSE << >>
NameAndType(pos, pool, n) ==
  LET c == Lookup(pos, pool, n)
  IN  IF c[1] = "NameAndType" THEN <<Utf8(Lookup(pos, pool, c[2])), Utf8(Lookup(pos, pool, c[3]))>> ELSE << >>
MemberRef(pos, pool, n) ==
  LET c == Lookup(pos, pool, n)
      nt == NameAndType(pos, pool, c[3])
  IN  IF c[1] \notin {"Fieldref", "Methodref", "InterfaceMethodref"} THEN << >>
      ELSE IF nt = << >> THEN << >> ELSE <<ClassName(pos, pool, c[2])>> \o nt

-----------------------------------------------------------------------------
\* An attribute by its name: its structure if the bytes hold one, whatever
\* follows it; otherwise the attribute as it is.
Unknown(attr) == [name |-> "Unknown", val |-> attr]
Parts == {"Frame", "Verified", "Annotation", "ElementPair", "ElementValue", "TypeAnnotation", "Target"}
NameIn(names, bytes) == IF bytes \in DOMAIN names THEN names[bytes] ELSE ""
Structured(attr, name, r) == IF r.at = 0 THEN Unknown(attr) ELSE [name |-> name, val |-> r.val]
SpecializeAs(attr, name) ==
  IF name \in {"Deprecated", "Synthetic"} THEN [name |-> name, val |-> << >>]
  ELSE IF name \notin DOMAIN Specialized \ Parts THEN Unknown(attr)
  ELSE Structured(attr, name, Read(Form(name), attr[2], 1))
Specialize(attr, pool, names) == SpecializeAs(attr, NameIn(names, GetUtf8(pool, attr[1])))
=============================================================================
