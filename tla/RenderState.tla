----------------------------- MODULE RenderState -----------------------------
(***************************************************************************)
(* The thread-local registries of the class emitter                        *)
(* (crates/decompiler/src/classdec.rs) while one render thread works off   *)
(* jobs: EMITTING, EMIT_DEPTH, METHOD_RENAME, PATTERN_CTR and EXTERN_DECL, *)
(* through the nested calls of emit_class, emit_method_with and            *)
(* emit_anon_body.                                                         *)
(*                                                                         *)
(* A frame of the stack is one such call.  What a body contains is chosen  *)
(* freely, once per stage: an anonymous class to inline, a local class     *)
(* that is mentioned or that a lambda of the body declares, a pattern      *)
(* switch to restore.  The stages are in the code's order.  Code that is   *)
(* not of a method has the same stages: the arguments of enum constants,   *)
(* the recovered initializers of a hidden constructor, the static          *)
(* initializer and what of it is folded into the fields.                   *)
(*                                                                         *)
(* `fresh` is the registries a thread that did nothing else would have at  *)
(* the same point of the same job: it starts anew with each job and is     *)
(* then changed as the thread's own are.  `diverged` names the registries  *)
(* whose value, when the emitter read it to decide what to print, was not  *)
(* the fresh thread's.                                                     *)
(***************************************************************************)
EXTENDS Integers, Sequences, FiniteSets

CONSTANTS Classes,   \* classes of the inputs
          Roots,     \* those that are compilation units: the jobs
          Members,   \* Members[c]: member classes emitted inside c
          Enums,     \* the enums
          Bodies,    \* Bodies[c]: the bodies of the constants of an enum c
          Inlined,   \* Inlined[c]: anonymous classes the code of c instantiates
          Locals,    \* Locals[c]: simple names of local classes of c's code
          NMethods,  \* methods of a class that are printed
          Dups,      \* Dups[c]: those that need a `$jcN` suffix
          MaxDepth   \* the 60 nested method emissions

ASSUME ClassTree ==
    /\ Roots \subseteq Classes
    /\ Members \in [Classes -> SUBSET Classes]
    /\ Enums \subseteq Classes
    /\ Bodies \in [Classes -> SUBSET Classes]
    /\ Inlined \in [Classes -> SUBSET Classes]
    /\ Dups \in [Classes -> SUBSET (0 .. NMethods - 1)]
ASSUME ClassesFinite == IsFiniteSet(Classes)
ASSUME RenderBounds ==
    /\ NMethods \in Nat
    /\ MaxDepth \in Nat \ {0}

VARIABLES
    stack,      \* the calls in progress, the innermost last
    unwinding,  \* is an Err on its way to the frame on top?
    emitting,   \* EMITTING
    depth,      \* EMIT_DEPTH
    renames,    \* METHOD_RENAME: the indices with a replacement name
    patCtr,     \* PATTERN_CTR
    extern,     \* EXTERN_DECL
    fresh,      \* [patCtr, extern] of a fresh thread
    diverged,   \* registries read with another value than a fresh thread's
    jobs        \* the units this thread has begun to print

registries == <<emitting, depth, renames, patCtr, extern>>
ghosts == <<fresh, diverged>>
vars == <<stack, unwinding, registries, ghosts, jobs>>

Methods == 0 .. NMethods - 1
AllLocals == UNION {Locals[c] : c \in Classes}

Frame(kind, c, m, at) ==
    [kind |-> kind, cls |-> c, m |-> m, at |-> at,
     todo |-> Members[c], saved |-> {}, freshSaved |-> {}]

Stages == {"arguments", "argument", "constants", "inline", "extract", "switch",
           "print", "lambda", "methods", "members", "leave"}
Frames ==
    [kind : {"class", "method", "anon"}, cls : Classes, m : 0 .. NMethods,
     at : Stages,
     todo : SUBSET Classes, saved : SUBSET AllLocals,
     freshSaved : SUBSET AllLocals]

TypeOK ==
    /\ stack \in Seq(Frames)
    /\ unwinding \in BOOLEAN
    /\ emitting \subseteq Classes
    /\ depth \in Nat
    /\ renames \subseteq Methods
    /\ patCtr \in Nat
    /\ extern \subseteq AllLocals
    /\ fresh \in [patCtr : Nat, extern : SUBSET AllLocals]
    /\ diverged \subseteq {"pattern", "extern"}
    /\ jobs \subseteq Roots

Clean == [patCtr |-> 0, extern |-> {}]

Init ==
    /\ stack = <<>>
    /\ unwinding = FALSE
    /\ emitting = {}
    /\ depth = 0
    /\ renames = {}
    /\ patCtr = 0
    /\ extern = {}
    /\ fresh = Clean
    /\ diverged = {}
    /\ jobs = {}

-----------------------------------------------------------------------------
Top == stack[Len(stack)]
Under == SubSeq(stack, 1, Len(stack) - 1)
At(kind, stage) == stack # <<>> /\ ~unwinding /\ Top.kind = kind /\ Top.at = stage

(* The frame on top goes on at another stage, and what it calls, if        *)
(* anything, comes on top of it.                                           *)
GoOn(frame, calls) == stack' = Append(Under, frame) \o calls
To(stage) == [Top EXCEPT !.at = stage]

InAnon == \E k \in 1 .. Len(stack) : stack[k].kind = "anon"

(* An enum begins with its constants.                                      *)
FirstStage(c) == IF c \in Enums THEN "arguments" ELSE "inline"

(* A member class: printed, or skipped as a "cyclic emission".             *)
CallClass(frame, c) ==
    IF c \in emitting
    THEN GoOn(frame, <<>>) /\ UNCHANGED emitting
    ELSE GoOn(frame, <<Frame("class", c, 0, FirstStage(c))>>) /\ emitting' = emitting \cup {c}

(* Mutant: the re-entry test of emit_anon_body is dropped.                 *)
CallAnonUnguarded(frame, a) ==
    /\ GoOn(frame, <<Frame("anon", a, 0, "inline")>>)
    /\ emitting' = emitting \cup {a}
    /\ unwinding' = FALSE

(* emit_anon_body: an anonymous or local class in the middle of its own    *)
(* emission is an Err ("cyclic anonymous instantiation").                  *)
CallAnon(frame, a) ==
    IF a \in emitting
    THEN GoOn(frame, <<>>) /\ UNCHANGED emitting /\ unwinding' = TRUE
    ELSE /\ GoOn(frame, <<Frame("anon", a, 0, "inline")>>)
         /\ emitting' = emitting \cup {a}
         /\ unwinding' = FALSE

(* emit_method_with: the counter restarts, and beyond the depth limit the  *)
(* call is an Err.                                                         *)
CallMethod(frame, c, m) ==
    /\ patCtr' = 0
    /\ fresh' = [fresh EXCEPT !.patCtr = 0]
    /\ IF depth + 1 > MaxDepth
       THEN GoOn(frame, <<>>) /\ unwinding' = TRUE /\ UNCHANGED depth
       ELSE /\ GoOn(frame, <<Frame("method", c, m, "inline")>>)
            /\ depth' = depth + 1
            /\ UNCHANGED unwinding

(* restore_one_switch: the pattern variable is named after the counter.    *)
NamePattern(frame) ==
    /\ diverged' = diverged \cup (IF patCtr = fresh.patCtr THEN {} ELSE {"pattern"})
    /\ GoOn(frame, <<>>)
    /\ patCtr' = patCtr + 1
    /\ fresh' = [fresh EXCEPT !.patCtr = @ + 1]

(* The decl of a local class is left out where the registry has its name.  *)
ReadExtern(n) ==
    diverged' = diverged \cup (IF (n \in extern) = (n \in fresh.extern) THEN {} ELSE {"extern"})

(* fix_lambda_captures: the decls of local classes instantiated in a       *)
(* lambda of the body are extracted and registered.                        *)
Extract(n) ==
    /\ ReadExtern(n)
    /\ extern' = extern \cup {n}
    /\ fresh' = [fresh EXCEPT !.extern = @ \cup {n}]

(* walk_stmt_anon over some code: an anonymous class is inlined, or a      *)
(* local class finds its decl wanted or already extracted.                 *)
Inline(frame) ==
    \/ GoOn(frame, <<>>) /\ UNCHANGED <<emitting, unwinding, diverged>>
    \/ /\ \E n \in Locals[Top.cls] : ReadExtern(n)
       /\ GoOn(frame, <<>>)
       /\ UNCHANGED <<emitting, unwinding>>
    \/ /\ \E a \in Inlined[Top.cls] : CallAnon(frame, a)
       /\ UNCHANGED diverged

(* fix_lambda_captures over some code.  Outside bodies of anonymous        *)
(* classes and lambdas, and where there are local classes, it walks a copy *)
(* of each lambda first; what it finds declared there it may extract.      *)
ExtractLocals(frame) ==
    \/ GoOn(frame, <<>>) /\ UNCHANGED <<emitting, unwinding, extern, fresh, diverged>>
    \/ /\ ~InAnon /\ Locals[Top.cls] # {}
       /\ Inline(frame)
       /\ UNCHANGED <<extern, fresh>>
    \/ /\ ~InAnon
       /\ \E n \in Locals[Top.cls] : Extract(n)
       /\ GoOn(frame, <<>>)
       /\ UNCHANGED <<emitting, unwinding>>

(* restore_enum_switches over some code.                                   *)
RestoreSwitches(frame) ==
    \/ GoOn(frame, <<>>) /\ UNCHANGED <<patCtr, ghosts>>
    \/ NamePattern(frame)

-----------------------------------------------------------------------------
(* decompile_class: the next job of the thread.  The registries are not    *)
(* touched; each unit is one job.                                          *)
StartJob(c) ==
    /\ stack = <<>> /\ ~unwinding
    /\ c \notin jobs
    /\ jobs' = jobs \cup {c}
    /\ stack' = <<Frame("class", c, 0, FirstStage(c))>>
    /\ emitting' = emitting \cup {c}
    /\ fresh' = Clean
    /\ UNCHANGED <<unwinding, depth, renames, patCtr, extern, diverged>>

(* walk_enum_inits: the arguments of an enum's constants are printed, and  *)
(* so the lambdas among them (see PrintLambda).                            *)
PrintArguments ==
    /\ At("class", "arguments")
    /\ Inline(To("argument"))
    /\ UNCHANGED <<depth, renames, patCtr, extern, fresh, jobs>>

ArgumentSwitch ==
    /\ At("class", "argument")
    /\ RestoreSwitches(To("constants"))
    /\ UNCHANGED <<unwinding, emitting, depth, renames, extern, jobs>>

(* emit_class, the constants of an enum: the methods of a body, which is   *)
(* not registered in EMITTING, and where METHOD_RENAME is what the class   *)
(* around the enum installed.                                              *)
EnumConstant ==
    /\ At("class", "constants")
    /\ Top.m < NMethods
    /\ \E b \in Bodies[Top.cls] : CallMethod([Top EXCEPT !.m = @ + 1], b, Top.m)
    /\ UNCHANGED <<emitting, renames, extern, diverged, jobs>>

EnumConstantsDone ==
    /\ At("class", "constants")
    /\ Top.m = NMethods \/ Bodies[Top.cls] = {}
    /\ GoOn([To("inline") EXCEPT !.m = 0], <<>>)
    /\ UNCHANGED <<unwinding, registries, ghosts, jobs>>

(* emit_class, the recovered initializers of a hidden constructor and the  *)
(* static initializer: anonymous classes inlined, local classes extracted  *)
(* from lambdas, switches restored, as for a method, but with no registry  *)
(* reset or saved.  That of an enum has no local classes extracted.        *)
ClinitInline ==
    /\ At("class", "inline")
    /\ Inline(To(IF Top.cls \in Enums THEN "switch" ELSE "extract"))
    /\ UNCHANGED <<depth, renames, patCtr, extern, fresh, jobs>>

ClinitExtract ==
    /\ At("class", "extract")
    /\ ExtractLocals(To("switch"))
    /\ UNCHANGED <<depth, renames, patCtr, jobs>>

ClinitSwitch ==
    /\ At("class", "switch")
    /\ RestoreSwitches(To("print"))
    /\ UNCHANGED <<unwinding, emitting, depth, renames, extern, jobs>>

(* The fields with their initializers and the static block are printed;    *)
(* then METHOD_RENAME is installed for the loop over the methods.          *)
ClinitPrint ==
    /\ At("class", "print")
    /\ Inline(To("lambda"))
    /\ UNCHANGED <<depth, renames, patCtr, extern, fresh, jobs>>

ClinitLambdaSwitch ==
    /\ At("class", "lambda")
    /\ RestoreSwitches(To("methods"))
    /\ renames' = Dups[Top.cls]
    /\ UNCHANGED <<unwinding, emitting, depth, extern, jobs>>

ClassMethod ==
    /\ At("class", "methods")
    /\ Top.m < NMethods
    /\ CallMethod([Top EXCEPT !.m = @ + 1], Top.cls, Top.m)
    /\ UNCHANGED <<emitting, renames, extern, diverged, jobs>>

(* The loop is over, METHOD_RENAME is cleared.                             *)
ClassMethodsDone ==
    /\ At("class", "methods")
    /\ Top.m = NMethods
    /\ renames' = {}
    /\ GoOn(To("members"), <<>>)
    /\ UNCHANGED <<unwinding, emitting, depth, patCtr, extern, ghosts, jobs>>

(* Mutant: the child just emitted is found again.                          *)
ClassMemberAgain ==
    /\ At("class", "members") \/ At("anon", "members")
    /\ \E c \in Top.todo : CallClass(Top, c)
    /\ UNCHANGED <<unwinding, depth, renames, patCtr, extern, ghosts, jobs>>

(* The member classes, after the methods.                                  *)
ClassMember ==
    /\ At("class", "members") \/ At("anon", "members")
    /\ \E c \in Top.todo : CallClass([Top EXCEPT !.todo = @ \ {c}], c)
    /\ UNCHANGED <<unwinding, depth, renames, patCtr, extern, ghosts, jobs>>

(* emit_class or emit_anon_body returns Ok; its guard unregisters it.      *)
BodyDone ==
    /\ At("class", "members") \/ At("anon", "members")
    /\ Top.todo = {}
    /\ stack' = Under
    /\ emitting' = emitting \ {Top.cls}
    /\ UNCHANGED <<unwinding, depth, renames, patCtr, extern, ghosts, jobs>>

-----------------------------------------------------------------------------
(* emit_anon_body: its field initializers and the static block of a local  *)
(* class have anonymous classes inlined and are printed.  Their switches   *)
(* are restored in lambdas only.                                           *)
AnonInline ==
    /\ At("anon", "inline")
    /\ Inline(To("print"))
    /\ UNCHANGED <<depth, renames, patCtr, extern, fresh, jobs>>

AnonPrint ==
    /\ At("anon", "print")
    /\ Inline(To("lambda"))
    /\ UNCHANGED <<depth, renames, patCtr, extern, fresh, jobs>>

AnonLambdaSwitch ==
    /\ At("anon", "lambda")
    /\ RestoreSwitches(To("methods"))
    /\ UNCHANGED <<unwinding, emitting, depth, renames, extern, jobs>>

(* emit_anon_body: the methods, with no registry of renames of its own.    *)
AnonMethod ==
    /\ At("anon", "methods")
    /\ Top.m < NMethods
    /\ CallMethod([Top EXCEPT !.m = @ + 1], Top.cls, Top.m)
    /\ UNCHANGED <<emitting, renames, extern, diverged, jobs>>

AnonMethodsDone ==
    /\ At("anon", "methods")
    /\ Top.m = NMethods
    /\ GoOn(To("members"), <<>>)
    /\ UNCHANGED <<unwinding, registries, ghosts, jobs>>

-----------------------------------------------------------------------------
(* emit_method_with: inline_anonymous, then restore_enum_switches.         *)
MethodInline ==
    /\ At("method", "inline")
    /\ Inline(To("switch"))
    /\ UNCHANGED <<depth, renames, patCtr, extern, fresh, jobs>>

MethodSwitch ==
    /\ At("method", "switch")
    /\ RestoreSwitches(To("extract"))
    /\ UNCHANGED <<unwinding, emitting, depth, renames, extern, jobs>>

(* EXTERN_DECL is saved, then the lambdas' local classes are extracted.    *)
MethodExtract ==
    /\ At("method", "extract")
    /\ ExtractLocals([To("print") EXCEPT !.saved = extern, !.freshSaved = fresh.extern])
    /\ UNCHANGED <<depth, renames, patCtr, jobs>>

(* The printer decompiles the body of a lambda: nested_method_fn inlines   *)
(* its anonymous classes and restores its switches; its local classes are  *)
(* not extracted, for a lambda counts as the body of an anonymous class.   *)
PrintLambda ==
    /\ At("method", "print")
    /\ Inline(To("lambda"))
    /\ UNCHANGED <<depth, renames, patCtr, extern, fresh, jobs>>

LambdaSwitch ==
    /\ At("method", "lambda")
    /\ RestoreSwitches(To("leave"))
    /\ UNCHANGED <<unwinding, emitting, depth, renames, extern, jobs>>

(* Mutant: the depth is counted down on the Ok path only where the frame   *)
(* is not nested (the guard is a plain statement before a return).         *)
MethodDoneNoGuard ==
    /\ At("method", "leave")
    /\ stack' = Under
    /\ extern' = Top.saved
    /\ fresh' = [fresh EXCEPT !.extern = Top.freshSaved]
    /\ depth' = IF InAnon THEN depth ELSE depth - 1
    /\ UNCHANGED <<unwinding, emitting, renames, patCtr, diverged, jobs>>

(* The registry is put back, the depth guard is dropped.                   *)
MethodDone ==
    /\ At("method", "leave")
    /\ stack' = Under
    /\ extern' = Top.saved
    /\ fresh' = [fresh EXCEPT !.extern = Top.freshSaved]
    /\ depth' = depth - 1
    /\ UNCHANGED <<unwinding, emitting, renames, patCtr, diverged, jobs>>

-----------------------------------------------------------------------------
(* An Err.  build_anon_new swallows that of a class to inline, and the     *)
(* `new` stays as it was: in a method, in a static initializer, in what is *)
(* printed outside methods.                                                *)
Inlines(frame) ==
    \/ frame.kind = "method"
    \/ frame.kind = "class" /\ frame.at \in {"argument", "extract", "switch", "lambda"}
    \/ frame.kind = "anon" /\ frame.at \in {"print", "lambda"}

Swallow ==
    /\ unwinding /\ stack # <<>>
    /\ Inlines(Top)
    /\ unwinding' = FALSE
    /\ UNCHANGED <<stack, registries, ghosts, jobs>>

(* A class that was printing its methods clears METHOD_RENAME and passes   *)
(* the Err on; any other frame of a class only passes it on.               *)
Propagate ==
    /\ unwinding /\ stack # <<>>
    /\ ~Inlines(Top)
    /\ stack' = Under
    /\ emitting' = emitting \ {Top.cls}
    /\ renames' = IF Top.kind = "class" /\ Top.at = "methods" THEN {} ELSE renames
    /\ UNCHANGED <<unwinding, depth, patCtr, extern, ghosts, jobs>>

Emit ==
    \/ PrintArguments \/ ArgumentSwitch \/ EnumConstant \/ EnumConstantsDone
    \/ ClinitInline \/ ClinitExtract \/ ClinitSwitch \/ ClinitPrint \/ ClinitLambdaSwitch
    \/ ClassMethod \/ ClassMethodsDone \/ ClassMember \/ BodyDone
    \/ AnonInline \/ AnonPrint \/ AnonLambdaSwitch \/ AnonMethod \/ AnonMethodsDone
    \/ MethodInline \/ MethodSwitch \/ MethodExtract
    \/ PrintLambda \/ LambdaSwitch \/ MethodDone
    \/ Swallow \/ Propagate

Next == Emit \/ \E c \in Roots : StartJob(c)

(* The emitter is sequential code: it takes its next step.                 *)
Spec == Init /\ [][Next]_vars /\ WF_vars(Emit)

-----------------------------------------------------------------------------
(* Properties.                                                             *)

(* EMITTING and EMIT_DEPTH say what is in progress and nothing else, on    *)
(* every path, an Err that unwinds through classes included: a name that   *)
(* stayed would make every later unit of the thread skip that class.  And  *)
(* between jobs no rename is installed, so that no unit prints a method    *)
(* under the replacement name of a method of another.                      *)
RegistriesFollowCalls ==
    /\ emitting = {stack[k].cls : k \in {j \in 1 .. Len(stack) : stack[j].kind # "method"}}
    /\ depth = Cardinality({j \in 1 .. Len(stack) : stack[j].kind = "method"})
    /\ stack = <<>> => renames = {}

(* No class is in the middle of two emissions at once: mutually            *)
(* instantiating anonymous classes do not inline each other for ever.      *)
NoReentry ==
    \A j, k \in 1 .. Len(stack) :
        j # k /\ stack[j].kind # "method" /\ stack[k].kind # "method"
            => stack[j].cls # stack[k].cls

(* Every emission ends, whatever the classes inline.                       *)
JobsEnd == stack # <<>> ~> stack = <<>>

(* "so renders are deterministic under parallel workers": what a job       *)
(* prints does not depend on the jobs its thread did before.  Wherever the *)
(* pattern counter or the registry of declared locals is read, a fresh     *)
(* thread would read the same.                                             *)
Reproducible == diverged = {}
=============================================================================
