---------------------------- MODULE MCRenderState ----------------------------
(***************************************************************************)
(* A small instance of RenderState.  R and S are top-level classes.  R has *)
(* a member class M and code that instantiates the anonymous class A; A    *)
(* instantiates B and B instantiates A back.  S is an enum with a constant *)
(* that has the body K, whose code instantiates the local class C, and C   *)
(* instantiates itself.  M has two methods that collide in source.  Code   *)
(* of both units, and of A, mentions a local class of the simple name L.   *)
(***************************************************************************)
EXTENDS RenderState

MCClasses == {"R", "S", "M", "A", "B", "C", "K"}
MCMembers == [c \in MCClasses |-> IF c = "R" THEN {"M"} ELSE {}]
MCEnums == {"S"}
MCBodies == [c \in MCClasses |-> IF c = "S" THEN {"K"} ELSE {}]
MCInlined ==
    [c \in MCClasses |->
        CASE c \in {"R", "M", "B"} -> {"A"}
          [] c = "A" -> {"B"}
          [] c \in {"K", "C"} -> {"C"}
          [] c = "S" -> {}]
MCLocals == [c \in MCClasses |-> IF c \in {"R", "S", "A"} THEN {"L"} ELSE {}]
MCDups == [c \in MCClasses |-> IF c = "M" /\ NMethods > 1 THEN {1} ELSE {}]
=============================================================================
