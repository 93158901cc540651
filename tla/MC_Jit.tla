------------------------------- MODULE MC_Jit -------------------------------
(***************************************************************************)
(* Programs with functions the JIT compiles, called with and without         *)
(* arguments, from other functions, in loops and at the end of the stack.   *)
(***************************************************************************)
EXTENDS Jit, Samples, Annotator

Answers(source, vs) == [source |-> source, expected |-> [reason |-> "none", answers |-> vs]]
Fails(source, why) == [source |-> source, expected |-> [reason |-> why, answers |-> {}]]

NoOp(name, params) == LetFun(name, params, <<E(NullLiteral)>>)
CallF == E(Call(X("f"), <<>>))

\* The results of f and g, which the JIT compiles, are not used.
ResultsDropped == {
    Answers(<<NoOp("f", <<>>), CallF, CallF, E(N(5))>>, {IntObj(5)}),
    Answers(<<NoOp("f", <<"x", "y">>),
              LetFun("h", <<"n">>, <<E(Call(X("f"), <<X("n"), N(1)>>)), E(Bin(X("n"), "+", N(2)))>>),
              E(Call(X("h"), <<N(3)>>)), E(Call(X("h"), <<N(4)>>))>>, {IntObj(6)}),
    Answers(<<NoOp("f", <<>>), NoOp("g", <<"x">>), Let("i", N(0)),
              ForStatement(Bin(X("i"), "<", N(2)),
                <<CallF, Let("i", Bin(X("i"), "+", N(1))), E(Call(X("g"), <<X("i")>>))>>),
              E(X("i"))>>, {IntObj(2)}),
    Answers(<<LetFun("h", <<"k">>, <<E(Call(X("k"), <<>>)), E(N(7))>>),
              NoOp("f", <<>>), E(Call(X("h"), <<X("f")>>))>>, {IntObj(7)}),
    Fails(<<NoOp("f", <<>>), CallF, E(Call(X("f"), <<N(1)>>))>>, "wrong number of arguments"),
    Fails(<<NoOp("f", <<>>), CallF,
            E(Arr(<<N(1), N(2), N(3), N(4), N(5), Call(X("f"), <<>>)>>))>>, "stack overflow") }

\* The machine code has no instruction for its result: the call yields the callee, the
\* second closure of the program.
NullOrCallee == {NullS, Obj("CLOSURE", 2)}
ResultsUsed == {
    Answers(<<NoOp("f", <<>>), CallF>>, NullOrCallee),
    Answers(<<NoOp("f", <<"x">>), LetFun("h", <<>>, <<E(Call(X("f"), <<N(1)>>))>>),
              E(Call(X("h"), <<>>))>>, NullOrCallee) }

Executable(c) ==
    LET code == CompileProgram(c.source)
        fns == FunctionTable(code)
    IN  [fns |-> fns, consts |-> code.consts, expected |-> c.expected,
         depth |-> AnnotatedTable(fns), numFree |-> FreeCounts(fns, code.consts)]

MCPrograms == {Executable(c) : c \in ResultsDropped \cup ResultsUsed}
=============================================================================
