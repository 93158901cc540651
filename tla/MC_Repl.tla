------------------------------- MODULE MC_Repl -------------------------------
(***************************************************************************)
(* Sessions of a prelude and any three lines of a pool: definitions and     *)
(* redefinitions of variables and functions that earlier functions use,     *)
(* calls, loops and lines that fail.                                        *)
(***************************************************************************)
EXTENDS Repl, Samples

n == X("n")
r == X("r")
Plus(x, y) == Bin(x, "+", y)

MCPrelude == <<Let("n", N(1)), Let("r", Arr(<<N(5)>>)),
               LetFun("f", <<"p">>, <<E(Plus(X("p"), Plus(n, N(10))))>>)>>
MCLines == {
    <<Let("n", Plus(n, N(1)))>>,
    <<LetFun("f", <<"p">>, <<Let("q", Bin(X("p"), "*", N(2))),
        E(Fun(<<>>, <<E(CallB("push", <<r, X("q")>>)), E(Plus(n, X("q")))>>))>>)>>,
    <<E(Call(X("f"), <<n>>))>>,
    <<E(Call(Call(X("f"), <<N(3)>>), <<>>))>>,
    <<Let("c", Call(X("f"), <<N(7)>>))>>,
    <<E(Call(X("c"), <<>>))>>,
    <<Let("g", Fun(<<"k">>, <<E(CallB("push", <<r, X("k")>>)), E(Call(X("f"), <<X("k")>>))>>)),
      E(Call(X("g"), <<N(4)>>))>>,
    <<ForStatement(Bin(n, "<", N(5)), <<Let("n", Plus(n, N(2))), E(IfThen(Bin(n, "==", N(4)), <<BreakStatement>>))>>)>>,
    <<E(r)>>,
    <<E(X("c"))>>,
    <<E(Plus(Str(<<a>>), IndexAccess(Arr(<<Str(<<b>>), n>>), N(0))))>>,
    <<E(X("missing"))>>,
    <<E(Plus(N(8), Call(Fun(<<"k">>, <<E(Plus(X("k"), T))>>), <<n>>)))>>,
    <<E(Plus(N(1), Bin(N(77), "+", T)))>>,
    <<Let("s", CallB("len", <<r>>)), E(Plus(n, X("s")))>>,
    <<Let("m", N(1)), E(X("missing"))>>,
    <<Let("m", Plus(N(1), T))>>,
    <<E(X("m"))>>,
    <<E(Plus(X("m"), N(1)))>>,
    <<Let("u", X("m"))>>,
    <<E(CallB("push", <<r, X("m")>>)), E(n)>>,
    <<Let("u", IndexAccess(r, N(1)))>>,
    <<Let("n", N(0)), E(X("missing"))>>,
    <<Let("n", N(0)), BreakStatement, Let("m", N(2))>>,
    <<E(r), ContinueStatement>>,
    <<BreakStatement>>,
    <<>>,
    <<ReturnStatement(n)>>,
    <<E(IfThen(r, <<E(n)>>))>>,
    <<E(Bin(n, "/", N(0)))>>,
    <<E(CallB("pop", <<Arr(<<>>)>>))>>,
    <<E(CallB("push", <<r, r>>))>>,
    <<LetFun("d", <<"k">>, <<E(IfElse(Bin(X("k"), "<", N(1)), <<E(r)>>,
                                      <<E(Call(X("d"), <<Bin(X("k"), "-", N(1))>>))>>))>>),
      E(Call(X("d"), <<Plus(n, N(2))>>))>> }
NoPrograms == {}
=============================================================================
