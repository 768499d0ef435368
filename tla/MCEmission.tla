----------------------------- MODULE MCEmission -----------------------------
(***************************************************************************)
(* A small instance of Emission: classes whose paths differ by case, by a  *)
(* character that is sanitized, or by a suffix that a rename may take.     *)
(***************************************************************************)
EXTENDS Emission

MCStems == {"p/A", "p/a", "B?", "B_", "b_"}
MCClean == [s \in MCStems |-> IF s = "B?" THEN "B_" ELSE s]
MCLower == [s \in MCStems |-> CASE s = "p/A" -> "p/a" [] s = "B_" -> "b_" [] OTHER -> s]
Path(s, t) == [stem |-> s, tail |-> t]
MCPaths ==
    {Path("p/A", <<>>), Path("p/a", <<>>), Path("p/A", <<0>>), Path("B?", <<>>),
     Path("B_", <<>>)}

Lists(S, n) == UNION {[1 .. k -> S] : k \in 0 .. n}
In(kind, home, lists) == [kind |-> kind, home |-> home, lists |-> lists]
Command(out, inputs) == [out |-> out, inputs |-> inputs]

(* One directory, planned: every list of up to three classes, and lists of *)
(* four whose renames meet.                                                *)
OneDir ==
    {Command("dir", <<In("dir", "x", l)>>) : l \in Lists(MCPaths, 3)}
        \cup {Command("none", <<In("jar", "x", l)>>) :
                l \in [1 .. 4 -> {Path("p/A", <<>>), Path("p/A", <<0>>), Path("p/a", <<>>)}]}

Few == {<<Path("p/A", <<>>), Path("B?", <<>>)>>, <<Path("p/a", <<>>)>>}
FewInputs ==
    {In("dir", "x", l) : l \in Few} \cup {In("jar", h, l) : h \in {"x", "y"}, l \in Few}
        \cup {In("class", "x", <<p>>) : p \in {Path("p/A", <<>>), Path("B?", <<>>)}}

(* One input or two, with every -o.                                        *)
Mixed ==
    {Command(o, <<a>>) : o \in Options, a \in FewInputs}
        \cup {Command(o, <<a, b>>) : o \in Options, a, b \in FewInputs}

MCCommands == OneDir \cup Mixed
=============================================================================
