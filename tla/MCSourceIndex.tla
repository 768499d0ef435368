---------------------------- MODULE MCSourceIndex ----------------------------
(***************************************************************************)
(* Two class names; directories and jars that hold one or both, one of     *)
(* each twice (an obfuscated jar, a tree with two builds of a class), and  *)
(* single files.                                                           *)
(***************************************************************************)
EXTENDS SourceIndex

Lib(kind, files) == [kind |-> kind, files |-> files]

MCLibraries ==
    {Lib(k, f) : k \in {"dir", "jar"},
                 f \in {<<>>, <<"A">>, <<"A", "A$B">>, <<"A$B", "A", "A$B">>}}
        \cup {Lib("class", <<n>>) : n \in Names}
=============================================================================
