------------------------------ MODULE MCPasses ------------------------------
(***************************************************************************)
(* Small bodies for MethodPasses.                                          *)
(***************************************************************************)
EXTENDS MethodPasses

A(n) == Node("act", n, << >>)
Ret == Node("return", "", << >>)
Jump(o, l) == Node(o, l, << >>)
If(c, t) == Node("if", c, <<t>>)
IfElse(c, t, e) == Node("if", c, <<t, e>>)
While(c, b) == Node("while", c, <<b>>)
Do(b, c) == Node("do", c, <<b>>)
Labeled(l, b) == Node("labeled", l, <<b>>)
Case(ks) == Node("case", "", ks)
Default(b) == Node("default", "", <<b>>)
Switch(ks) == Node("switch", "s", ks)
Types(c) == Node("types", c, << >>)
Catch(v, b, t) == Node("catch", v, <<b, Types(t)>>)
Try(b, cs) == Node("try", "", <<b>> \o cs)

\* Bodies with jumps.
Steps == {A("a"), Ret, Jump("break", ""), Jump("continue", ""), Jump("break", "L")}
Lists == {<<k>> : k \in Steps} \cup {<<A("a"), k>> : k \in Steps}
Blocks == {Block(l) : l \in Lists}
Ifs == UNION {{If("d", b), IfElse("d", b, e), IfElse("d", Empty, b)} : b \in Blocks, e \in {Block(<<A("b")>>), Block(<<Ret>>)}}
Inner == Blocks \cup {Block(<<i>>) : i \in Ifs} \cup {Block(<<i, A("b")>>) : i \in Ifs}
LoopsOf(b) == {While("c", b), While("true", b), Do(b, "c")}
Switches == {Switch(<<Case(l), Case(<<A("b"), Jump("break", "")>>), Default(b)>>) : l \in Lists, b \in Blocks}
            \cup {Switch(<<Case(<< >>), Case(l), Default(b)>>) : l \in Lists, b \in Blocks}
            \cup {Switch(<<Case(<<i>>), Default(b)>>) : i \in Ifs, b \in Blocks}
Tops == UNION {LoopsOf(b) \cup {Labeled("L", l) : l \in LoopsOf(b)} : b \in Inner}
        \cup Switches \cup {Labeled("L", While("c", Block(<<s>>))) : s \in Switches}
        \cup Ifs
Controls == {Block(<<t>>) : t \in Tops} \cup {Block(<<t, A("b")>>) : t \in Tops} \cup {Block(<<t, Ret>>) : t \in Tops}

\* Plain jumps have a target, but for one at the very end, and every do-while
\* can come to its condition: without a way back it is no loop.
Loopy(b) == \A s \in {n \in Nodes(b) : n.op = "do"} : \E w \in Ways(Body(s), {}) : w[1] \in {"end", "continue"}
Targeted == {b \in Controls : Loopy(b) /\ \A j \in Lost(b) : j.x # ""}
EndsIn(j) == {Block(Append(b.kids, j)) : b \in {k \in Targeted : Len(k.kids) = 1}}

\* Jumps without a target.
Undef == {Jump("break", "M"), Jump("continue", "M"), Jump("goto", "M")}
Leftovers(j) ==
  LET b == Block(<<A("a"), j>>)
  IN  {Block(<<b>>), Block(<<If("c", b), A("b")>>), Block(<<A("b"), If("c", b)>>), Block(<<IfElse("c", b, Block(<<j>>))>>),
       Block(<<IfElse("c", Block(<<j>>), b)>>), Block(<<IfElse("c", Block(<<j>>), Block(<<A("b")>>))>>),
       Block(<<IfElse("c", Block(<<A("b"), Ret>>), Block(<<j>>)), A("d"), Ret>>),
       Block(<<While("c", b), A("b")>>), Block(<<While("true", Block(<<If("d", b), A("b")>>)), Ret>>),
       Block(<<While("c", Block(<<IfElse("d", Block(<<j>>), b), A("b")>>)), Ret>>),
       Block(<<While("c", Block(<<Switch(<<Case(<<A("a"), j>>), Case(<<A("b"), Jump("break", "")>>), Default(b)>>)>>))>>),
       Block(<<Switch(<<Case(<<A("a"), j>>), Case(<<If("d", b), Jump("break", "")>>)>>), A("b")>>),
       Block(<<Try(b, <<Catch("e", Block(<<A("b"), j>>), "Exception")>>), A("b")>>),
       Block(<<Labeled("L", While("c", Block(<<IfElse("d", Block(<<Jump("break", "L")>>), b)>>)))>>)}

\* A loop, and a break out of its label behind it.
PostLoops == LET ls == UNION {LoopsOf(b) : b \in {k \in Inner : \A n \in Nodes(k) : n.op # "continue"}}
                 out == Jump("break", "L")
             IN  {Block(<<Labeled("L", l), out>> \o t) : l \in ls, t \in {<< >>, <<A("b")>>, <<out, Ret>>}}
                 \cup {Block(<<Labeled("L", Block(<<l, out>>)), Ret>>) : l \in ls}

\* What javac makes of a finally: a copy on every way out.
Set(v) == Node("set", v, << >>)
Use(v) == Node("use", v, << >>)
Throw(v) == Node("throw", v, << >>)
Fins == {<<Set("p")>>, <<Set("p"), Use("p")>>, <<IfElse("d", Block(<<Set("p")>>), Block(<<Use("p")>>))>>}
Handlers(f) ==
  {f \o <<Throw("t")>>}
  \cup {<<With(k, [i \in 1 .. 2 |-> Block(Append(k.kids[i].kids, Throw("t")))])>> : k \in {l \in {Last(f)} : l.op = "if"}}
Protected(f) == {<<A("a")>> \o f, <<A("a")>>, <<A("a")>> \o f \o <<Ret>>,
                 <<IfElse("c", Block(<<A("b")>> \o f), Block(f \o <<Ret>>))>>}
Finallys(f) ==
  LET all(h) == Catch("t", Block(h), "")
      ex(h) == Catch("e", Block(h), "Exception")
      leaving == {<< >>, <<ex(f \o <<Throw("e")>>)>>, <<ex(<<Use("p")>> \o f \o <<Ret>>)>>}
      falling == leaving \cup {<<ex(<<Use("p")>> \o f)>>}
      end(b) == Last(b).op = "return"
      after(b) == IF b = <<A("a")>> THEN {f \o <<A("c"), Ret>>, f} ELSE IF end(b) THEN {<< >>} ELSE {<< >>, <<A("c"), Ret>>}
  IN  UNION {{Block(<<Try(Block(b), Append(cs, all(h)))>> \o a) :
                h \in Handlers(f), cs \in IF b = <<A("a")>> THEN leaving ELSE falling, a \in after(b)} : b \in Protected(f)}

\* try { a } finally { use p; use v }
DS(v) == Node("declset", v, << >>)
Closers ==
  LET f == <<Use("p"), Use("v")>>
  IN  {Block(<<DS("v"), Try(Block(<<A("a")>>), <<Catch("t", Block(Append(f, Throw("t"))), "")>>)>> \o f \o t)
         : t \in {<< >>, <<A("b"), Ret>>}}

\* Declarations: v and w have the same name.
D(v) == Node("decl", v, << >>)
Capture(v) == Node("capture", v, << >>)
Local == {Block(l) : l \in {<<DS("v")>>, <<DS("v"), Use("v")>>, <<Use("v")>>, <<Set("v")>>, <<DS("w"), Use("w")>>,
                            <<DS("v"), DS("w"), Use("w")>>, <<D("v"), If("d", Block(<<DS("v"), Use("v")>>))>>}}
Places(b) == {<<If("c", b)>>, <<While("c", b)>>, <<Do(b, "c")>>, <<Labeled("L", While("c", b))>>}
             \cup UNION {{<<IfElse("c", b, e)>>, <<Switch(<<Case(b.kids), Case(Append(e.kids, Jump("break", ""))), Default(e)>>)>>,
                          <<Try(Block(<<A("a")>> \o b.kids), <<Catch("e", e, "Exception")>>)>>, <<b, e>>,
                          <<Node("sync", "", <<b>>), While("d", e)>>, <<If("c", b), If("c", e)>>} : e \in Local}
Around(ks) == {Block(pre \o ks \o post) : pre \in {<< >>, <<DS("v")>>, <<D("v")>>, <<DS("w")>>},
                                          post \in {<< >>, <<Use("v")>>, <<DS("w"), Use("w")>>, <<Set("v"), Use("v"), Ret>>}}
Stored(b) == \A r \in Meaning(b) : \A i \in DOMAIN r.ev : r.ev[i] # <<"use", 0>>
Scopes == {b \in UNION {Around(ks) : ks \in UNION {Places(l) : l \in Local}} : Stored(b)}

\* Captured variables, resources and temporaries of the stack.
Both(x) == IfElse("d", Block(<<DS(x)>>), Block(<<A("a"), DS(x)>>))
Captures ==
  LET ks == {<<Both("v"), Capture("v")>>, <<DS("v"), Capture("v")>>, <<Both("v"), If("c", Block(<<Capture("v")>>))>>,
             <<If("c", Block(<<Both("v"), Capture("v"), Jump("break", "")>>)), A("b")>>}
  IN  {Block(<<l>> \o t) : l \in UNION {LoopsOf(Block(k)) \cup {Node("foreach", "e", <<Block(k)>>)} : k \in ks},
                         t \in {<< >>, <<A("b")>>}}

\* A captured variable in each of two loops, the inner one's with the id n.
Nested(m, n) ==
  LET inner == If("d", While("c", Block(<<Both(n), Capture(n)>>)))
      outer == <<Both(m), Capture(m)>>
  IN  {Block(<<While("c", Block(ks))>>) : ks \in {<<inner>> \o outer, outer \o <<inner>>}}
InnerFirst == Nested("v", "w")
Resourced ==
  LET twr(r, b) == Node("twr", "", <<Node("resource", "", <<DS(r)>>), Block(b), Catch("e", Block(<<A("b")>>), "Exception")>>)
  IN  {Block(pre \o <<twr(r, b)>> \o post) : r \in {"v", "w"}, b \in {<<A("a")>>, <<DS("w"), Use("w")>>},
                                           pre \in {<< >>, <<D("v")>>, <<DS("v"), Use("v")>>}, post \in {<< >>, <<Set("v"), Use("v")>>}}
Stacked == {Block(<<IfElse("c", Block(<<DS("k"), x>>), Block(<<A("a"), DS("k")>>)), Use("k")>>) : x \in {A("b"), Use("k")}}
           \cup {Block(<<While("c", Block(<<DS("k"), DS("v"), Use("v")>>)), DS("k"), Use("k")>>)}

\* Clauses out of order, emptied handlers, a try without clauses, and a
\* finally that throws again on its way.
Clauses ==
  LET try(cs) == Block(<<Try(Block(<<A("a")>>), cs), A("b")>>)
      ex(c) == Catch("e", Block(<<Use("p")>>), c)
  IN  {try(<<ex(c1), ex(c2)>>) : c1, c2 \in {"Exception", "IOException", "Error", "multi"}}
      \cup {try(<<>>), try(<<Catch("t", Empty, "")>>), try(<<ex("Exception"), Catch("t", Empty, "")>>),
            try(<<Catch("t", Block(<<If("d", Block(<<Use("p"), Throw("t")>>)), Set("p"), Throw("t")>>), "")>>),
            Block(<<Node("twr", "", <<Node("resource", "", <<DS("v")>>), Block(<<A("a"), Set("p")>>),
                                      Catch("t", Block(<<Set("p"), Throw("t")>>), "")>>)>>)}

\* Constructors.
Ctor == Node("ctor", "", << >>)
Ctors == {Block(<<Ctor, IfElse("c", Block(<<DS("v"), Use("v")>>), Block(<<DS("v"), Use("v")>>))>>),
          Block(<<DS("k"), Ctor, Use("k")>>)}
         \cup {Block(<<IfElse("c", Block(<<Ctor>> \o ks), Block(l))>>) :
                  ks \in {<< >>, <<A("a")>>, <<Ret>>, <<A("a"), Ret>>}, l \in {<<Throw("")>>, <<A("b"), Throw("")>>}}

\* Monitors: what javac makes of synchronized statements.  u leaves the
\* statement at the end of its body, us this one and those around it.
Lock(l) == Node("lock", l, << >>)
Unlock(m) == Node("unlock", m, << >>)
Guarded(m, ks) == Try(Block(ks), <<Catch("", Block(<<DS("t"), Unlock(m), Throw("t")>>), "")>>)
Region(l, m, ks) == <<DS(m), Lock(l), Guarded(m, ks)>>
Monitor == {<<"o", "m">>, <<"f", "n">>}
Exits(u, us) == {<<u>>, <<A("a"), u>>, <<A("a")>> \o us \o <<Ret>>, <<Set("v"), Use("v"), u>>,
                 <<If("d", Block(us \o <<Ret>>)), A("a"), u>>,
                 <<IfElse("d", Block(<<A("a")>> \o us \o <<Ret>>), Block(<<A("b"), u>>))>>}
LoopExits(u) == {<<If("d", Block(<<u, Jump(j, "")>>)), A("a"), u>> : j \in {"break", "continue"}}
Synced(l, m) ==
  LET u == Unlock(m)
      all == {Region(l, m, ks) : ks \in Exits(u, <<u>>)}
      looped == all \cup {Region(l, m, ks) : ks \in LoopExits(u)}
      user == Catch("", Block(<<DS("e"), Use("e"), A("b")>>), "Exception")
  IN  all
      \cup {<<Labeled("L", While("c", Block(Region(l, m, <<If("d", Block(<<u, Jump("break", "L")>>)), A("a"), u>>))))>>}
      \cup {<<Do(Block(r), "c")>> : r \in all}
      \cup UNION {{<<While("c", Block(r))>>, <<While("true", Block(Append(r, If("c", Block(<<Ret>>)))))>>} : r \in looped}
      \cup UNION {{<<If("c", Block(r))>>, <<Switch(<<Case(Append(r, Jump("break", ""))), Default(Block(<<A("b")>>))>>)>>,
                   <<Try(Block(r), <<user>>)>>, <<Try(Block(<<A("b")>>), <<With(user, <<Block(<<DS("e")>> \o r), Types("Exception")>>)>>)>>,
                   r \o r} : r \in all}
      \cup {Region(l, m, <<Try(Block(<<A("a")>>), <<user>>), u>>)}
      \cup {<<Try(Block(Region(l, m, <<A("a"), u>>) \o f), <<Catch("", Block(<<DS("t")>> \o f \o <<Throw("t")>>), "")>>)>> : f \in Fins}
\* A monitorenter at the end of the loop before its try, or in a block of its own.
Trailing == {<<While("true", Block(<<A("a")>> \o ks \o <<DS("m"), Lock("o"), Jump("break", "")>>)), Guarded("m", e)>> :
                ks \in {<< >>, <<If("d", Block(<<Jump("continue", "")>>))>>, <<If("d", Block(<<Ret>>))>>}, e \in Exits(Unlock("m"), <<Unlock("m")>>)}
            \cup {<<Block(<<A("a"), Block(<<DS("m"), Lock("o")>>)>>), Guarded("m", e)>> : e \in Exits(Unlock("m"), <<Unlock("m")>>)}
Within == {<<DS("m"), Lock("o"), Guarded("m", Region("f", "n", ks) \o <<Unlock("m")>>)>> : ks \in Exits(Unlock("n"), <<Unlock("n"), Unlock("m")>>)}
Monitors == {b \in {Block(ks \o t) : ks \in UNION {Synced(p[1], p[2]) : p \in Monitor} \cup Trailing \cup Within,
                                    t \in {<< >>, <<A("b"), Ret>>}} : Loopy(b)}

\* Clauses without a variable: the exception goes to a slot that other
\* locals share, or to one of its own.
Caught == {<<DS("e"), Use("e"), A("b")>>, <<DS("e"), Throw("e")>>, <<DS("e"), If("d", Block(<<Use("e")>>)), Ret>>, <<DS("e"), Capture("e")>>,
           <<Block(<<DS("e")>>), Use("e")>>, <<DS("k"), While("c", Block(<<Use("k"), A("b")>>))>>, <<Set("v"), A("b")>>, <<Set("v"), Use("v"), Set("v")>>,
           <<Set("v"), Set("v"), A("b")>>, <<Set("v"), Node("set", "v", <<A("b")>>)>>,
           <<DS("e"), Try(Block(<<A("b")>>), <<Catch("", Block(<<DS("w"), Use("e"), Use("w")>>), "Error")>>), Use("e")>>,
           <<DS("e"), Try(Block(<<Use("e"), A("b")>>), <<Catch("", Block(<<DS("e"), Use("e"), Ret>>), "Error")>>), Use("e")>>}
Catching ==
  LET c(ks, t) == Catch("", Block(ks), t)
      try(ks, cs) == Try(Block(<<DS("v"), A("a")>> \o ks), cs)
      one == {<<try(ks, <<c(h, t)>>)>> : h \in Caught, t \in {"Exception", ""}, ks \in {<< >>, <<Use("v"), Ret>>}}
      two == {<<try(<< >>, <<c(<<DS("e"), Use("e")>>, "IOException"), c(h, "Exception")>>)>> : h \in Caught}
      row == {<<try(<< >>, <<c(h, "Exception")>>), try(<< >>, <<c(h, "Error")>>)>> : h \in Caught}
  IN  {b \in {Block(pre \o ks \o t) : pre \in {<< >>, <<DS("v")>>}, ks \in one \cup two \cup row, t \in {<< >>, <<Set("v"), Use("v")>>}} :
          Stored(b)}

\* Stores that nobody reads, of a call or not.
Call(o, v) == Node(o, v, <<A("a")>>)
Unread == {Block(ks) : ks \in UNION {
             {<<s>>, <<s, A("b")>>, <<If("c", Block(<<s>>)), A("b")>>, <<Switch(<<Case(<<s, Jump("break", "")>>), Default(Block(<<s>>))>>)>>,
              <<s, If("c", Block(<<Use("m")>>))>>, <<While("c", Block(<<s>>)), Ret>>, <<Try(Block(<<s>>), <<Catch("e", Block(<<s>>), "Exception")>>)>>}
             : s \in {DS("m"), Call("declset", "m"), Call("declset", "v")}}}

MCBodies == Targeted \cup EndsIn(Jump("break", "")) \cup UNION {Leftovers(j) : j \in Undef} \cup {b \in PostLoops : Loopy(b)}
            \cup UNION {Finallys(f) : f \in Fins} \cup Scopes \cup Captures \cup InnerFirst \cup {b \in Resourced : Stored(b)}
            \cup Stacked \cup Clauses \cup Ctors \cup Monitors \cup Catching \cup Unread
MCSupers == [Exception |-> {"Exception"}, IOException |-> {"IOException", "Exception"}, Error |-> {"Error"}]
MCName == [p |-> "p", o |-> "o", v |-> "v", w |-> "v", e |-> "e", t |-> "t", k |-> "k", m |-> "m", n |-> "n"]
MCCatchVars == <<"x1", "y1", "x2", "y2", "x3", "y3", "x4", "x5">>
MCDiscarded == <<"n1", "n2", "n3">>
MCVarOrder == <<"p", "o", "v", "w", "e", "t", "k", "m", "n">> \o MCCatchVars \o MCDiscarded
MCLockOf == [m |-> "o", n |-> "f", n1 |-> "f", n2 |-> "f", n3 |-> "f"]
=============================================================================
