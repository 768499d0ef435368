----------------------------- MODULE MCNesting -----------------------------
(***************************************************************************)
(* Small instances of Nesting: A; A$B, a member of A or a top-level class  *)
(* with a literal `$`; A$B$1, anonymous in A$B; A$1, anonymous in A, and   *)
(* its member A$1$M; A$1L, local in a method of A.  A class may be an      *)
(* input, on the class path or nowhere, as far as Compiled allows.         *)
(***************************************************************************)
EXTENDS Nesting

A == <<"A">>
AB == <<"A", "B">>
AB1 == <<"A", "B", "1">>
A1 == <<"A", "1">>
A1M == <<"A", "1", "M">>
A1L == <<"A", "1L">>
MCNames == {A, AB, AB1, A1, A1M, A1L}

(* With an entry of its own, or listed by every class around it.           *)
Evidences(n, kind, around) ==
    {[is |-> kind, own |-> TRUE, by |-> {Parent(n)}],
     [is |-> kind, own |-> FALSE, by |-> around]}
TopLevel == [is |-> "none", own |-> FALSE, by |-> {}]

MCDeclarations ==
    {[n \in MCNames |-> CASE n = A -> TopLevel [] n = AB -> sB [] n = AB1 -> sB1
                          [] n = A1 -> s1 [] n = A1M -> s1M [] n = A1L -> s1L] :
        sB \in Evidences(AB, "member", {A}) \cup {TopLevel},
        sB1 \in Evidences(AB1, "anonymous", {AB, A}) \cup Evidences(AB1, "anonymous", {AB}),
        s1 \in Evidences(A1, "anonymous", {A}),
        s1M \in Evidences(A1M, "member", {A1, A}),
        s1L \in Evidences(A1L, "local", {A})}
MCLibraries == SUBSET {A, AB}
=============================================================================
