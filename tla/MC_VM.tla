-------------------------------- MODULE MC_VM --------------------------------
(***************************************************************************)
(* Compiler and VM on the sample programs and on the programs of a small    *)
(* grammar.                                                                 *)
(***************************************************************************)
EXTENDS Engines, Samples

Answering == Arithmetic @@ Collections @@ FunctionCases @@ Loops
Suite == Answering @@ Failing @@ Panicking

\* The outcome a test expects.
Tested(name) ==
    LET expected == Suite[name].expected
    IN  IF name \notin DOMAIN Answering \/ expected = ErrorObj THEN Failure ELSE expected
SuitePrograms == {Compiled(name, Suite[name].source, Tested(name)) : name \in DOMAIN Suite}
                    \cup {Compiled(name, Differing[name].source, Differing[name].expected) : name \in DOMAIN Differing}

-----------------------------------------------------------------------------
x == X("x")
y == X("y")
p == X("p")
Plus(m, n) == Bin(m, "+", n)
Up(name, n) == Set(name, Plus(X(name), n))
P2 == Bin(p, "==", N(2))

\* Functions: a parameter p, a global x that the function may shadow with a local,
\* a local y that is never read before its let.
Basic == {E(Plus(p, x)), Let("y", Plus(p, x)), Up("p", x), ReturnStatement(x)}
Blocks == {<<s>> : s \in Basic} \cup {<<Let("y", x), ReturnStatement(Plus(y, y))>>}
Closures == {Fun(<<>>, <<E(Plus(p, x))>>), Fun(<<>>, <<Let("p", p), ReturnStatement(p)>>)}
Compound ==
    {E(IfElse(P2, <<s>>, blk)) : s \in Basic, blk \in Blocks}
    \cup {E(IfThen(Bin(x, ">=", p), blk)) : blk \in Blocks}
    \cup {Let("y", IfElse(P2, <<E(x)>>, <<s>>)) : s \in Basic \ {ReturnStatement(x)}}
    \cup {ForStatement(Bin(p, "<", N(4)), <<Up("p", N(1))>> \o blk) :
            blk \in Blocks \cup {<<E(IfThen(Bin(p, "==", N(3)), <<s>>)), Up("p", N(1))>> :
                                s \in {BreakStatement, ContinueStatement, ReturnStatement(p)}}}
    \cup {E(Call(Fun(<<"x">>, blk), <<p>>)) : blk \in Blocks}
    \cup {Let("y", Call(f, <<>>)) : f \in Closures}
Body(shadow, stmts) ==
    <<Let("x", N(1)),
      LetFun("f", <<"p">>, shadow \o stmts \o <<E(Arr(<<p, x>>))>>),
      E(Arr(<<Call(X("f"), <<N(2)>>), x>>))>>
InFunctions ==
    {Body(<<>>, <<m, n>>) : m \in Compound, n \in Compound \cup Basic}
    \cup {Body(<<Let("x", Plus(x, N(2)))>>, <<m, n>>) : m \in Compound, n \in Basic}

\* Main programs: arrays, a hash and a string, aliases and closures that share them,
\* and loops that are left early.
r == X("r")
s == X("s")
Size(e) == CallB("len", <<e>>)
Mutations ==
    {E(CallB("push", <<r, s, N(5)>>)), E(CallB("pushleft", <<r, Arr(<<N(4)>>)>>)),
     E(CallB("pop", <<r>>)), E(IfThen(Bin(Size(r), ">", N(1)), <<E(CallB("del", <<r, N(1)>>))>>)),
     Set("x", CallB("popleft", <<r>>)), E(CallB("push", <<X("q"), CallB("pop", <<r>>)>>)),
     Set("h", Call(Fun(<<"k">>, <<E(CallB("del", <<X("k"), x>>)), E(X("k"))>>),
                   <<HashLiteral(<< <<x, r>>, <<T, X("q")>> >>)>>)),
     E(CallB("push", <<IndexAccess(X("h"), T), x>>)), Let("q", r), Let("r", Arr(<<x, X("q")>>)),
     Set("s", Bin(s, "+", IndexAccess(s, Size(r)))), Up("x", Size(s)),
     E(IndexAccess(r, x)), E(Call(X("f"), <<r>>)), Let("q", Call(X("f"), <<X("q")>>))}
Repeated ==
    {ForStatement(Bin(Size(r), "<", N(4)), <<E(IfThen(Bin(Size(r), "==", N(n)), <<t>>)), m>>) :
        n \in {2, 3}, m \in {E(CallB("push", <<r, x>>)), Let("r", CallB("pushleft", <<r, s>>))},
        t \in {BreakStatement, Set("x", N(7)), E(CallB("push", <<X("q"), s>>))}}
    \cup {ForStatement(T, <<Up("x", N(1)), E(IfThen(Bin(x, "<", N(3)), <<t, ContinueStatement>>)),
                            BreakStatement>>) : t \in Mutations}
InMain ==
    {<<Let("x", N(1)), Let("s", Str(<<a, b, c0>>)), Let("r", Arr(<<x, Str(<<b>>)>>)),
       Let("q", Arr(<<>>)), Let("h", HashLiteral(<< <<Str(<<a>>), r>>, <<T, X("q")>> >>)),
       LetFun("f", <<"p">>, <<E(CallB("push", <<p, N(6)>>)), E(Call(Fun(<<>>, <<E(p)>>), <<>>))>>),
       m, n, E(Arr(<<r, X("q"), X("h"), s, x>>))>> :
        m \in Mutations \cup Repeated, n \in Mutations}

Accepted(sources) ==
    {Compiled("", source, Meaning(source)) : source \in {t \in sources : Accepts(t)}}
MCPrograms == SuitePrograms \cup Accepted(InFunctions \cup InMain)

-----------------------------------------------------------------------------
\* More locals than a byte can number; without the wide stack of MC_Differing, and the
\* rounds that fill it, the rest is Samples' Differing.
Local(i) == "x" \o ToString(i)
Wide == <<E(Call(Fun(<<>>, [i \in 1..257 |-> Let(Local(i), N(i))] \o <<E(X(Local(1)))>>), <<>>))>>
MCDiffering == {Compiled(name, Differing[name].source, Differing[name].walked) : name \in DOMAIN Differing}
                \cup {Compiled("wide", Wide, Meaning(Wide))}

-----------------------------------------------------------------------------
\* The object main prints, with the content of a container.
Shown(v) ==
    CASE v[1] = "ARRAY" -> <<"ARRAY", arrays[v[2]]>>
      [] v[1] = "HASH" -> <<"HASH", hashes[v[2]]>>
      [] OTHER -> v

\* Every program of the tests gives the answer, the error or the panic it should.  After
\* an error, main prints whatever lies above sp and dies when nothing does.  Where the
\* engines differ, each has the outcome its code gives it.
AnswersExpected ==
    /\ prog.name \in DOMAIN Suite =>
        LET expected == Suite[prog.name].expected
        IN  CASE prog.name \in DOMAIN Answering ->
                    /\ status \in {"returned", "reported", "panicked"} => reason = "none"
                    /\ status = "reported" => Shown(answer) = expected
              [] prog.name \in DOMAIN Failing ->
                    status \in {"returned", "reported", "panicked"} =>
                        reason \in {expected} \cup
                            (IF status = "panicked" THEN {"nothing to report"} ELSE {})
              [] prog.name \in DOMAIN Panicking ->
                    status \in {"reported", "panicked"} =>
                        (status = "panicked" /\ reason = expected)
    /\ prog.name \in DOMAIN Differing =>
        LET differing == Differing[prog.name]
            dies == {"nothing to report"}      \* the end that may follow what Run returns
        IN  /\ status = "returned" =>
                    reason \in {differing.reason} \cup (IF differing.reason \in dies THEN {"none"} ELSE {})
            /\ status \in {"reported", "panicked"} =>
                    /\ Outcome = differing.expected /\ Meaning(prog.source) = differing.walked
                    /\ reason \in {differing.reason} \cup (IF status = "panicked" THEN dies ELSE {})
=============================================================================
