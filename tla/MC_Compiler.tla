----------------------------- MODULE MC_Compiler -----------------------------
(***************************************************************************)
(* The compiler on all programs of a small grammar: a declaration, then a   *)
(* statement with blocks nested up to two deep, then a last statement.      *)
(***************************************************************************)
EXTENDS Compilation

One == IntegerLiteral(1)
V(name) == Identifier(name)

Leaves == {ExpressionStatement(V("b")), LetStatement("b", V("a")),
           AssignmentStatement("a", One), ReturnStatement(V("a")),
           BreakStatement, ContinueStatement}

\* Every way to nest a block.
Wrapped(block) ==
    {ForStatement(V("a"), block), ForStatement(Absent, block),
     ExpressionStatement(IfThen(V("a"), block)),
     ExpressionStatement(IfElse(V("a"), block, <<BreakStatement>>)),
     LetStatement("b", IfElse(V("a"), <<>>, block)),
     LetStatement("b", FunctionLiteral("b", <<"a">>, block)),
     ExpressionStatement(FunctionLiteral("", <<>>, block))}

Flat == UNION {Wrapped(block) :
            block \in { <<>> } \cup {<<s>> : s \in Leaves} \cup {<<s, t>> : s, t \in Leaves}}
Deep == UNION {Wrapped(block) :
            block \in {<<s>> : s \in Flat}
                \cup {<<s, t>> : s \in Flat, t \in {BreakStatement, LetStatement("b", V("a"))}}
                \cup {<<t, s>> : s \in Flat, t \in {ContinueStatement, LetStatement("b", V("a"))}}}

Expressions ==
    LET atoms == {One, V("a"), FunctionLiteral("f", <<"b">>, <<ExpressionStatement(V("a"))>>),
                  IfThen(V("a"), <<BreakStatement>>), V("c"),
                  FunctionLiteral("", <<>>, <<ExpressionStatement(V("c"))>>)}
        pairs == atoms \X atoms
    IN  {InfixBinaryOp(p[1], "<", p[2]) : p \in pairs}
            \cup {InfixBinaryOp(p[1], ">=", p[2]) : p \in pairs}
            \cup {CallExpression(p[1], <<p[2]>>) : p \in pairs}
            \cup {CallExpression(BuiltinFunction("push"), <<p[1], p[2]>>) : p \in pairs}
            \cup {ArrayLiteral(<<p[1], p[2]>>) : p \in pairs}
            \cup {HashLiteral(<<p>>) : p \in pairs}
            \cup {IndexAccess(p[1], p[2]) : p \in pairs}
            \cup {PrefixUnaryOp("!", e) : e \in atoms}

\* Functions and loops before, in and after loops: the orders in which the scopes move.
Moving ==
    LET lit(body) == ExpressionStatement(FunctionLiteral("", <<>>, body))
        loop(body) == ForStatement(V("a"), body)
        pool == {lit(<<>>), lit(<<lit(<<>>)>>), lit(<<loop(<<lit(<<>>)>>), BreakStatement>>),
                 loop(<<>>), loop(<<lit(<<>>)>>), loop(<<loop(<<lit(<<lit(<<>>)>>)>>)>>),
                 BreakStatement, ExpressionStatement(IfThen(V("a"), <<ContinueStatement>>))}
        blocks == [1..3 -> pool]
    IN  blocks \cup {<<loop(block)>> : block \in blocks} \cup {<<lit(block)>> : block \in blocks}

Final == {ExpressionStatement(V("b")), BreakStatement, ForStatement(Absent, <<>>)}

MCSources ==
    {<<LetStatement("a", One), s, t>> :
        s \in Leaves \cup Flat \cup Deep
                \cup {ExpressionStatement(e) : e \in Expressions}
                \cup {ForStatement(One, <<ExpressionStatement(e)>>) : e \in Expressions},
        t \in Final}
    \cup {<<LetStatement("a", One)>> \o block : block \in Moving}
=============================================================================
