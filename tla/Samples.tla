------------------------------- MODULE Samples -------------------------------
(***************************************************************************)
(* Source programs for the model checker, most of them from vm/vm_test.go,  *)
(* as the syntax trees the parser builds for them, each with the object     *)
(* the test expects.                                                        *)
(***************************************************************************)
EXTENDS Compiler

N(n) == IntegerLiteral(n)
X(name) == Identifier(name)
T == BooleanLiteral(TRUE)
F == BooleanLiteral(FALSE)
Str(codes) == StringLiteral(codes)
Bin(a, op, b) == InfixBinaryOp(a, op, b)
E(e) == ExpressionStatement(e)
Let(name, e) == LetStatement(name, e)
Set(name, e) == AssignmentStatement(name, e)
Fun(params, body) == FunctionLiteral("", params, body)
LetFun(name, params, body) == Let(name, FunctionLiteral(name, params, body))
Call(f, args) == CallExpression(f, args)
CallB(name, args) == CallExpression(BuiltinFunction(name), args)
Arr(es) == ArrayLiteral(es)

a == 97 b == 98 c0 == 99        \* byte codes of the strings used below

OArray(s) == <<"ARRAY", s>>
OHash(pairs) == <<"HASH", pairs>>

Case(source, expected) == [source |-> source, expected |-> expected]

Arithmetic == [
    arith |-> Case(<<E(Bin(Bin(Bin(N(1), "*", N(2)), "+", Bin(N(6), "/", N(3))), "-", N(4)))>>,
                   IntObj(0)),
    index |-> Case(<<E(IndexAccess(Arr(<<Bin(N(1), "+", N(2)), Bin(N(3), "*", N(4))>>),
                                   PrefixUnaryOp("-", N(1))))>>,
                   IntObj(12)),
    negative |-> Case(<<E(Bin(PrefixUnaryOp("-", N(7)), "/", N(2)))>>, IntObj(-3)),
    wraps |-> Case(<<E(Bin(N(1000), "+", N(24)))>>, IntObj(-1024)),
    greater |-> Case(<<E(Bin(N(11), ">=", N(12)))>>, BoolObj(FALSE)),
    strings |-> Case(<<E(Bin(Str(<<a>>), "<", Str(<<a, b>>)))>>, BoolObj(TRUE)),
    notEqual |-> Case(<<E(PrefixUnaryOp("!", Bin(F, "!=", F)))>>, BoolObj(TRUE)),
    concat |-> Case(<<Let("x", Bin(Str(<<a>>), "+", Str(<<b, c0>>))),
                      E(IndexAccess(X("x"), N(2)))>>, StrObj(<<c0>>)),
    ifNull |-> Case(<<E(IfElse(NullLiteral, <<E(N(1))>>, <<E(NullLiteral)>>))>>, NullS),
    ifElse |-> Case(<<E(IfElse(Bin(N(1), ">", N(2)), <<E(N(10))>>, <<E(N(20))>>))>>,
                    IntObj(20)),
    ifLast |-> Case(<<E(IfThen(T, <<Let("y", N(1)), E(IfThen(F, <<E(N(2))>>))>>))>>, NullS),
    declared |-> Case(<<Let("one", Absent), E(X("one"))>>, NullS),
    globals |-> Case(<<Let("one", N(1)), Let("two", Bin(X("one"), "+", X("one"))),
                       E(Bin(X("one"), "+", X("two")))>>, IntObj(3)) ]

Collections == [
    nested |-> Case(<<E(IndexAccess(
                        IndexAccess(HashLiteral(<< <<T, HashLiteral(<< <<Str(<<c0>>), N(3)>> >>)>> >>), T),
                        Str(<<c0>>)))>>, IntObj(3)),
    duplicate |-> Case(<<E(HashLiteral(<< <<N(1), N(5)>>, <<N(1), N(6)>> >>))>>,
                       OHash({<<IntObj(1), IntObj(5)>>})),
    push |-> Case(<<E(CallB("push", <<Arr(<<>>), N(1), N(2)>>))>>, OArray(<<IntObj(1), IntObj(2)>>)),
    pop |-> Case(<<Let("arr", Arr(<<N(1), N(2), N(3)>>)), E(CallB("pop", <<X("arr")>>)),
                   E(X("arr"))>>, OArray(<<IntObj(1), IntObj(2)>>)),
    deque |-> Case(<<Let("arr", Arr(<<N(1), N(2)>>)),
                     E(CallB("pushleft", <<X("arr"), CallB("popleft", <<X("arr")>>)>>)),
                     E(X("arr"))>>, OArray(<<IntObj(1), IntObj(2)>>)),
    delArray |-> Case(<<Let("arr", Arr(<<N(1), N(2), N(3)>>)), E(CallB("del", <<X("arr"), N(1)>>)),
                        E(X("arr"))>>, OArray(<<IntObj(1), IntObj(3)>>)),
    delHash |-> Case(<<Let("h", HashLiteral(<< <<Str(<<a>>), N(1)>>, <<T, N(2)>> >>)),
                       E(CallB("del", <<X("h"), T>>)), E(X("h"))>>,
                     OHash({<<StrObj(<<a>>), IntObj(1)>>})),
    lens |-> Case(<<E(Bin(CallB("len", <<Str(<<a, b>>)>>), "+", CallB("len", <<Arr(<<N(1)>>)>>)))>>,
                  IntObj(3)),
    puts |-> Case(<<E(CallB("puts", <<Str(<<a>>)>>))>>, NullS),
    lenError |-> Case(<<E(CallB("len", <<N(1)>>))>>, ErrorObj) ]

FunctionCases == [
    locals |-> Case(<<LetFun("f", <<>>, <<Let("one", N(1)), Let("two", N(2)),
                                          E(Bin(X("one"), "+", X("two")))>>),
                      LetFun("g", <<"p">>, <<Let("three", N(3)),
                                          E(Bin(X("three"), "*", X("p")))>>),
                      E(Bin(Call(X("g"), <<N(4)>>), "-", Call(X("f"), <<>>)))>>, IntObj(9)),
    empty |-> Case(<<E(Call(Fun(<<>>, <<>>), <<>>))>>, NullS),
    setGlobal |-> Case(<<Let("a", N(10)),
        LetFun("f", <<>>, <<Let("b", N(5)),
            LetFun("g", <<>>, <<Set("a", Bin(X("a"), "+", N(1))), Let("c", N(100)),
                                ReturnStatement(X("c"))>>),
            ReturnStatement(Bin(Call(X("g"), <<>>), "+", Bin(X("a"), "*", X("b"))))>>),
        E(Call(X("f"), <<>>))>>, IntObj(155)),
    adder |-> Case(<<Let("z", N(1)),
        LetFun("outer", <<"x">>, <<E(Fun(<<"y">>, <<E(Fun(<<"w">>,
            <<E(Bin(Bin(X("z"), "+", X("x")), "+", Bin(X("y"), "+", X("w"))))>>))>>))>>),
        Let("inner", Call(X("outer"), <<N(2)>>)),
        Let("add", Call(X("inner"), <<N(3)>>)),
        E(Call(X("add"), <<N(8)>>))>>, IntObj(14)),
    twoFree |-> Case(<<
        LetFun("newClosure", <<"a", "b">>,
            <<LetFun("one", <<>>, <<E(X("a"))>>), LetFun("two", <<>>, <<E(X("b"))>>),
              E(Fun(<<>>, <<E(Bin(Call(X("one"), <<>>), "-", Call(X("two"), <<>>)))>>))>>),
        E(Call(Call(X("newClosure"), <<N(9), N(90)>>), <<>>))>>, IntObj(-81)),
    countDown |-> Case(<<
        LetFun("wrapper", <<>>, <<
            LetFun("countDown", <<"x">>, <<E(IfElse(Bin(X("x"), "==", N(0)),
                <<ReturnStatement(N(0))>>, <<E(Call(X("countDown"), <<Bin(X("x"), "-", N(1))>>))>>))>>),
            E(Call(X("countDown"), <<N(2)>>))>>),
        E(Call(X("wrapper"), <<>>))>>, IntObj(0)),
    fibonacci |-> Case(<<
        LetFun("fib", <<"x">>, <<E(IfElse(Bin(X("x"), "==", N(0)), <<ReturnStatement(N(0))>>,
            <<E(IfElse(Bin(X("x"), "==", N(1)), <<ReturnStatement(N(1))>>,
                <<E(Bin(Call(X("fib"), <<Bin(X("x"), "-", N(1))>>), "+",
                        Call(X("fib"), <<Bin(X("x"), "-", N(2))>>)))>>))>>))>>),
        E(Call(X("fib"), <<N(5)>>))>>, IntObj(5)) ]

Loops == [
    while |-> Case(<<Let("x", N(0)), ForStatement(Bin(X("x"), "<", N(3)),
                        <<Let("x", Bin(X("x"), "+", N(1)))>>), E(X("x"))>>, IntObj(3)),
    bitmask |-> Case(<<Let("x", N(0)), Let("i", N(0)),
        ForStatement(Absent, <<
            Let("i", Bin(X("i"), "+", N(1))),
            Let("x", Bin(N(2), "*", X("x"))),
            E(IfThen(Bin(X("i"), "==", Bin(Bin(X("i"), "/", N(2)), "*", N(2))),
                     <<ContinueStatement>>)),
            Let("x", Bin(X("x"), "+", N(1))),
            E(IfThen(Bin(X("x"), ">", N(16)), <<BreakStatement>>))>>),
        E(X("x"))>>, IntObj(21)),
    inFunction |-> Case(<<
        LetFun("f", <<"n">>, <<
            Let("s", N(0)),
            ForStatement(T, <<
                E(IfThen(Bin(X("n"), "==", N(0)), <<ReturnStatement(X("s"))>>)),
                Set("s", Bin(X("s"), "+", X("n"))),
                Set("n", Bin(X("n"), "-", N(1)))>>)>>),
        E(Call(X("f"), <<N(3)>>))>>, IntObj(6)) ]

\* Programs that end with an error of Run; the object printed after it.
Failing == [
    arity |-> Case(<<E(Call(Fun(<<"p">>, <<E(X("p"))>>), <<>>))>>, "wrong number of arguments"),
    mismatch |-> Case(<<E(Bin(N(1), "+", T))>>, "type mismatch"),
    notFunction |-> Case(<<E(N(7)), E(Call(N(1), <<N(2)>>))>>, "calling non-function"),
    prefixBool |-> Case(<<E(PrefixUnaryOp("-", T))>>, "cannot prefix with -"),
    outOfBounds |-> Case(<<E(IndexAccess(Arr(<<N(1)>>), N(1)))>>, "index out of bounds"),
    missingKey |-> Case(<<E(IndexAccess(HashLiteral(<<>>), N(1)))>>, "index error"),
    overflow |-> Case(<<LetFun("f", <<"p", "q">>, <<E(Call(X("f"), <<X("p"), X("q")>>))>>),
                       E(Call(X("f"), <<N(1), N(2)>>))>>, "stack overflow"),
    badKey |-> Case(<<E(HashLiteral(<< <<N(1), N(2)>>, <<Arr(<<>>), N(2)>> >>))>>, "unhashable key") ]

\* Programs the Go runtime stops.
Panicking == [
    divide |-> Case(<<E(Bin(N(1), "/", N(0)))>>, "divide by zero"),
    condition |-> Case(<<E(IfThen(Str(<<a>>), <<E(N(1))>>))>>, "unsupported type cast to boolean"),
    negation |-> Case(<<E(PrefixUnaryOp("!", Arr(<<>>)))>>, "unsupported type cast to boolean"),
    emptyPop |-> Case(<<E(CallB("pop", <<Arr(<<>>)>>))>>, "pop from an empty array"),
    bigKey |-> Case(<<E(HashLiteral(<< <<N(500), N(2)>> >>))>>, "varint buffer too small"),
    nothing |-> Case(<<>>, "nothing to report"),
    cyclic |-> Case(<<Let("arr", Arr(<<>>)), E(CallB("push", <<X("arr"), X("arr")>>))>>,
                    "nothing to report"),
    runaway |-> Case(<<LetFun("f", <<>>, <<E(Call(X("f"), <<>>))>>), E(Call(X("f"), <<>>))>>,
                     "frame limit") ]

-----------------------------------------------------------------------------
(***************************************************************************)
(* Programs on which the engines differ, each with what the machine prints  *)
(* (or why it does not) and what the tree-walking engine prints.  A return  *)
(* from the main program ends it in evaluator/evaluator_test.go and leaves  *)
(* no stack to the machine; a minus changes the integer that variables      *)
(* share; a comparison of strings makes a Boolean of its own; only the      *)
(* machine assigns to a variable of an enclosing scope; it calls an         *)
(* enclosing function by the wrong closure, reads a local whose let was not *)
(* executed, keeps the operands a continue leaves behind, and leaves the    *)
(* program by a break the compiler lost; only it has loops without a        *)
(* condition.                                                               *)
(***************************************************************************)
NoAnswer == <<"FAILURE", 0>>
Differs(source, machine, walked) == [source |-> source, expected |-> machine, reason |-> "none", walked |-> walked]
DifferFails(source, reason, walked) == [source |-> source, expected |-> NoAnswer, reason |-> reason, walked |-> walked]

\* A local x of f that is declared in a branch which is not taken.
Untaken(calls) ==
    <<Let("x", N(1)), LetFun("g", <<"p", "q">>, <<E(X("p"))>>),
      LetFun("f", <<"p">>, <<E(IfThen(Bin(X("p"), "==", N(2)), <<Let("x", N(7))>>)), E(X("x"))>>)>> \o calls

Differing == [
    returns |-> DifferFails(<<ReturnStatement(N(10)), E(N(9))>>, "index out of range", IntObj(10)),
    returnsLater |-> DifferFails(<<E(N(9)), ReturnStatement(Bin(N(2), "*", N(5))), E(N(9))>>,
                                 "index out of range", IntObj(10)),
    negated |-> Differs(<<Let("q", N(5)), E(PrefixUnaryOp("-", X("q"))), E(X("q"))>>, IntObj(5), IntObj(-5)),
    shared |-> Differs(<<Let("q", N(5)), Let("x", PrefixUnaryOp("-", X("q"))), E(Bin(X("q"), "+", X("x")))>>,
                       IntObj(0), IntObj(-10)),
    compared |-> Differs(<<Let("t", Bin(Str(<<a>>), "<", Str(<<b>>))), E(Bin(X("t"), "==", T))>>,
                         BoolObj(TRUE), BoolObj(FALSE)),
    comparedTwice |-> Differs(<<E(Bin(Bin(Str(<<a>>), "==", Str(<<a>>)), "!=", Bin(Str(<<b>>), ">", Str(<<a>>))))>>,
                              BoolObj(FALSE), BoolObj(TRUE)),
    counter |-> Differs(<<Let("n", N(0)), LetFun("up", <<>>, <<Set("n", Bin(X("n"), "+", N(1))), E(X("n"))>>),
                          E(Call(X("up"), <<>>))>>, IntObj(1), NoAnswer),
    enclosing |-> Differs(<<
        LetFun("f", <<"n">>, <<
            E(IfThen(Bin(X("n"), "==", N(0)), <<ReturnStatement(N(1))>>)),
            LetFun("g", <<"m">>, <<E(IfThen(Bin(X("m"), "==", N(0)), <<ReturnStatement(N(2))>>)),
                                   E(Call(X("f"), <<N(0)>>))>>),
            E(Call(X("g"), <<N(1)>>))>>),
        E(Call(X("f"), <<N(1)>>))>>, IntObj(2), IntObj(1)),
    untaken |-> DifferFails(Untaken(<<E(Call(X("f"), <<N(3)>>))>>), "nothing to report", IntObj(1)),
    leftOver |-> Differs(Untaken(<<E(Call(X("g"), <<N(5), N(9)>>)), E(Call(X("f"), <<N(3)>>))>>),
                         IntObj(9), IntObj(1)),
    operands |-> DifferFails(<<Let("x", N(0)),
        ForStatement(Bin(X("x"), "<", N(5)),
            <<Set("x", Bin(X("x"), "+", N(1))),
              E(Arr([i \in 1..9 |-> IF i = 9 THEN IfThen(T, <<ContinueStatement>>) ELSE X("x")]))>>),
        E(X("x"))>>, "stack overflow", IntObj(5)),
    moved |-> Differs(<<Let("x", N(0)),
        ForStatement(Bin(X("x"), "<", N(5)),
            <<Set("x", Bin(X("x"), "+", N(1))), E(Fun(<<>>, <<>>)), ForStatement(F, <<>>),
              E(IfThen(Bin(X("x"), "==", N(2)), <<BreakStatement>>))>>),
        E(X("x"))>>, BoolObj(TRUE), IntObj(2)),
    endless |-> Differs(<<Let("x", N(0)),
        ForStatement(Absent, <<Set("x", Bin(X("x"), "+", N(1))),
                               E(IfThen(Bin(X("x"), "==", N(2)), <<BreakStatement>>))>>),
        E(X("x"))>>, IntObj(2), NoAnswer) ]
=============================================================================
