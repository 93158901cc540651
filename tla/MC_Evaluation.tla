---------------------------- MODULE MC_Evaluation ----------------------------
(***************************************************************************)
(* The tree-walking engine on short main programs around closures that      *)
(* shadow what they capture, loops and functions that are left early.       *)
(***************************************************************************)
EXTENDS Evaluation, Samples

x == X("x")
Plus(m, n) == Bin(m, "+", n)
Up(name, n) == Set(name, Plus(X(name), n))
When(cond, stmt) == E(IfThen(cond, <<stmt>>))

Prelude ==
    <<Let("x", N(1)), Let("r", Arr(<<>>)),
      LetFun("mk", <<"y">>, <<Let("x", Plus(x, X("y"))),
                              E(Fun(<<"y">>, <<Let("x", Plus(x, X("y"))), Let("z", x), E(X("z"))>>))>>),
      LetFun("f", <<"x">>, <<ForStatement(T, <<Up("x", N(1)), When(Bin(x, "==", N(3)), ContinueStatement),
                                               When(Bin(x, ">", N(4)), ReturnStatement(x)),
                                               When(Bin(x, ">", N(3)), BreakStatement)>>),
                             ReturnStatement(Plus(x, x))>>)>>
Pool ==
    {Let("c", Call(X("mk"), <<x>>)), E(Call(X("c"), <<x>>)), Let("z", Call(X("c"), <<N(2)>>)),
     Set("x", Call(X("f"), <<x>>)), Set("z", Plus(X("z"), T)), Let("z", Call(X("c"), <<X("w")>>)),
     E(CallB("push", <<X("r"), Call(X("f"), <<N(3)>>), X("c")>>)), Let("w", CallB("pop", <<X("r")>>)),
     E(PrefixUnaryOp("-", x)), E(IfElse(Bin(x, "<", N(2)), <<Let("z", Call(X("f"), <<N(4)>>))>>, <<Let("c", Fun(<<"x">>, <<Let("w", x)>>))>>)),
     ForStatement(Bin(x, "<", N(6)), <<Up("x", N(2)), E(Call(X("mk"), <<x>>)), When(Bin(x, "==", N(5)), BreakStatement)>>),
     Let("h", HashLiteral(<< <<Call(X("f"), <<N(2)>>), X("r")>>, <<T, Call(X("f"), <<N(0)>>)>> >>)),
     ReturnStatement(Call(X("f"), <<x>>)), E(X("r")), E(Bin(x, "/", N(0)))}
Tested == Range(Arithmetic) \cup Range(Collections) \cup Range(FunctionCases)
          \cup (Range(Failing) \ {Failing.overflow})     \* which never ends

\* A break or continue in no loop of its function, which the compiler rejects.
Strays == {
    <<LetFun("f", <<"y">>, <<When(Bin(X("y"), "==", N(2)), jump), E(X("y"))>>), Let("x", N(0)), m, n, E(X("x"))>> :
        jump \in {BreakStatement, ContinueStatement}, m, n \in
            {ForStatement(Bin(x, "<", N(4)), <<Up("x", N(1)), E(Call(X("f"), <<x>>))>>),
             Let("x", Call(X("f"), <<N(2)>>)), E(Arr(<<Call(X("f"), <<N(1)>>), Call(X("f"), <<N(2)>>)>>)),
             Let("x", Call(Fun(<<"y">>, <<Let("z", Call(X("f"), <<X("y")>>)), ReturnStatement(X("z"))>>), <<N(2)>>))}}
MCSources == {Prelude \o s : s \in [1..3 -> Pool]} \cup Strays
                \cup {s.source : s \in Tested} \cup {Differing[name].source : name \in DOMAIN Differing}
=============================================================================
