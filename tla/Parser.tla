------------------------------- MODULE Parser -------------------------------
(***************************************************************************)
(* The parser (parser/parser.go): from tokens to syntax trees.              *)
(*                                                                         *)
(* A parser p is a record of its tokens, the position of curToken among     *)
(* them and the errors met so far.  A parsing function takes the parser and *)
(* returns [p, ok, node]: the parser afterwards, and a node unless the      *)
(* function returned nil (ok FALSE, node Absent).  Only nil pointers that   *)
(* parseStatement wraps as a statement go on as statements.                 *)
(***************************************************************************)
EXTENDS Syntax

TooLarge == -1        \* the literal of an INT token that does not fit an int64

NewParser(tokens) == [tokens |-> tokens, at |-> 1, errors |-> <<>>]

TokenAt(p, i) == IF i \in DOMAIN p.tokens THEN p.tokens[i] ELSE EOF
CurToken(p) == TokenAt(p, p.at)
PeekToken(p) == TokenAt(p, p.at + 1)
CurIs(p, type) == CurToken(p)[1] = type
PeekIs(p, type) == PeekToken(p)[1] = type
NextToken(p) == [p EXCEPT !.at = @ + 1]
AddError(p, what) == [p EXCEPT !.errors = Append(@, what)]

Parsed(p, node) == [p |-> p, ok |-> TRUE, node |-> node]
NotParsed(p) == [p |-> p, ok |-> FALSE, node |-> Absent]

\* if r != nil { ... } else { return nil }
IfParsed(r, F(_, _)) == IF r.ok THEN F(r.p, r.node) ELSE r

\* A faulty ExpectPeek: the error is not kept.
SilentExpectPeek(p, type) ==
    IF PeekIs(p, type) THEN Parsed(NextToken(p), PeekToken(p)) ELSE NotParsed(p)

ExpectPeek(p, type) ==
    IF PeekIs(p, type) THEN Parsed(NextToken(p), PeekToken(p))
    ELSE NotParsed(AddError(p, <<"expected", type>>))

\* A faulty SkipSemicolon: whatever the token is.
SkipToken(p) == NextToken(p)

\* if p.peekToken.Type == token.SEMICOLON { p.nextToken() }
SkipSemicolon(p) == IF PeekIs(p, ";") THEN NextToken(p) ELSE p

\* The tokens that start an expression.  The seven builtin names have a type each
\* in the code, and one type here.
PrefixTypes == {"IDENT", "INT", "TRUE", "FALSE", "NULL", "STRING", "!", "-", "(", "IF",
                "FUNCTION", "[", "{", "BUILTIN"}

LOWEST == 1
PREFIX == 6

\* A faulty Priority: comparisons bind as loosely as equality.
FlatPriority(type) ==
    CASE type \in {"==", "!=", "<", ">", "<=", ">="} -> 2
      [] type \in {"+", "-"} -> 4
      [] type \in {"*", "/"} -> 5
      [] type \in {"(", "["} -> 7
      [] OTHER -> 0

\* tokenPriorityMap; 0 for a token it does not hold
Priority(type) ==
    CASE type \in {"==", "!="} -> 2
      [] type \in {"<", ">", "<=", ">="} -> 3
      [] type \in {"+", "-"} -> 4
      [] type \in {"*", "/"} -> 5
      [] type \in {"(", "["} -> 7
      [] OTHER -> 0

-----------------------------------------------------------------------------
RECURSIVE ParseExpression(_, _), ParseStatement(_)

\* The expressions after an opening token, up to the closing token close.
ParseCommaSeparated(p, close) ==
    LET RECURSIVE more(_)
        more(r) ==
            IF r.ok /\ PeekIs(r.p, ",")
            THEN LET next == ParseExpression(NextToken(NextToken(r.p)), LOWEST)
                 IN  more(IfParsed(next, LAMBDA q, e : Parsed(q, Append(r.node, e))))
            ELSE r
        first == IfParsed(ParseExpression(NextToken(p), LOWEST), LAMBDA q, e : Parsed(q, <<e>>))
    IN  IF PeekIs(p, close) THEN Parsed(NextToken(p), <<>>)
        ELSE IfParsed(more(first), LAMBDA q, es :
                IfParsed(ExpectPeek(q, close), LAMBDA x, t : Parsed(x, es)))

\* A missing key does not keep the value from being parsed.
ParseHashPair(p) ==
    LET key == ParseExpression(p, LOWEST)
    IN  IfParsed(ExpectPeek(key.p, ":"), LAMBDA q, t :
            IfParsed(ParseExpression(NextToken(q), LOWEST), LAMBDA x, value :
                IF key.ok THEN Parsed(x, <<key.node, value>>) ELSE NotParsed(x)))

ParseHashLiteral(p) ==
    LET RECURSIVE more(_)
        more(r) ==
            IF r.ok /\ PeekIs(r.p, ",")
            THEN more(IfParsed(ParseHashPair(NextToken(NextToken(r.p))),
                               LAMBDA q, kv : Parsed(q, Append(r.node, kv))))
            ELSE r
        first == IfParsed(ParseHashPair(NextToken(p)), LAMBDA q, kv : Parsed(q, <<kv>>))
    IN  IF PeekIs(p, "}") THEN Parsed(NextToken(p), HashLiteral(<<>>))
        ELSE IfParsed(more(first), LAMBDA q, pairs :
                IfParsed(ExpectPeek(q, "}"), LAMBDA x, t : Parsed(x, HashLiteral(pairs))))

\* A parameter after a comma is taken whatever its token.
ParseFunctionParameters(p) ==
    LET RECURSIVE more(_, _)
        more(q, names) ==
            IF PeekIs(q, ",")
            THEN LET x == NextToken(NextToken(q)) IN more(x, Append(names, CurToken(x)[2]))
            ELSE IfParsed(ExpectPeek(q, ")"), LAMBDA y, t : Parsed(y, names))
    IN  IF PeekIs(p, ")") THEN Parsed(NextToken(p), <<>>)
        ELSE IfParsed(ExpectPeek(p, "IDENT"), LAMBDA q, t : more(q, <<t[2]>>))

\* The end of the input closes a block too.
ParseBlockStatement(p) ==
    LET RECURSIVE more(_, _)
        more(q, block) ==
            IF CurToken(q)[1] \in {"}", "EOF"} THEN Parsed(q, block)
            ELSE LET r == ParseStatement(q) IN more(NextToken(r.p), Append(block, r.node))
    IN  IfParsed(ExpectPeek(p, "{"), LAMBDA q, t : more(NextToken(q), <<>>))

\* The token after the consequence is skipped, be it an else or not.
ParseIfExpression(p) ==
    IfParsed(ExpectPeek(p, "("), LAMBDA q, t :
    IfParsed(ParseExpression(q, LOWEST), LAMBDA x, cond :
    IfParsed(ParseBlockStatement(x), LAMBDA y, cons :
        LET z == NextToken(y)
            r == IF ~CurIs(z, "ELSE") THEN Parsed(z, IfThen(cond, cons))
                 ELSE IfParsed(ParseBlockStatement(z),
                               LAMBDA w, alt : Parsed(w, IfElse(cond, cons, alt)))
        IN  IfParsed(r, LAMBDA w, node : Parsed(SkipSemicolon(w), node)))))

ParseFunctionLiteral(p) ==
    IfParsed(ExpectPeek(p, "("), LAMBDA q, t :
    IfParsed(ParseFunctionParameters(q), LAMBDA x, params :
    IfParsed(ParseBlockStatement(x), LAMBDA y, body :
        Parsed(y, FunctionLiteral("", params, body)))))

ParseIntegerLiteral(p) ==
    IF CurToken(p)[2] = TooLarge THEN NotParsed(AddError(p, <<"integer">>))
    ELSE Parsed(p, IntegerLiteral(CurToken(p)[2]))

ParsePrefixUnaryOp(p) ==
    IfParsed(ParseExpression(NextToken(p), PREFIX),
             LAMBDA q, e : Parsed(q, PrefixUnaryOp(CurToken(p)[1], e)))

ParseGroupedExpression(p) ==
    IfParsed(ParseExpression(NextToken(p), LOWEST), LAMBDA q, e :
        IfParsed(ExpectPeek(q, ")"), LAMBDA x, t : Parsed(x, e)))

ParseArrayLiteral(p) ==
    IfParsed(ParseCommaSeparated(p, "]"), LAMBDA q, es : Parsed(q, ArrayLiteral(es)))

\* The prefix function of curToken.
ParsePrefix(p) ==
    LET type == CurToken(p)[1]
        literal == CurToken(p)[2]
    IN  CASE type = "IDENT" -> Parsed(p, Identifier(literal))
          [] type = "INT" -> ParseIntegerLiteral(p)
          [] type \in {"TRUE", "FALSE"} -> Parsed(p, BooleanLiteral(type = "TRUE"))
          [] type = "NULL" -> Parsed(p, NullLiteral)
          [] type = "STRING" -> Parsed(p, StringLiteral(literal))
          [] type = "BUILTIN" -> Parsed(p, BuiltinFunction(literal))
          [] type \in {"!", "-"} -> ParsePrefixUnaryOp(p)
          [] type = "(" -> ParseGroupedExpression(p)
          [] type = "IF" -> ParseIfExpression(p)
          [] type = "FUNCTION" -> ParseFunctionLiteral(p)
          [] type = "[" -> ParseArrayLiteral(p)
          [] type = "{" -> ParseHashLiteral(p)

ParseCallExpression(p, fn) ==
    IfParsed(ParseCommaSeparated(p, ")"), LAMBDA q, es : Parsed(q, CallExpression(fn, es)))

\* The token after the index is skipped unseen.
ParseIndexAccess(p, container) ==
    IfParsed(ParseExpression(NextToken(p), LOWEST),
             LAMBDA q, e : Parsed(NextToken(q), IndexAccess(container, e)))

ParseInfixBinaryOp(p, lhs) ==
    LET op == CurToken(p)[1]
    IN  IfParsed(ParseExpression(NextToken(p), Priority(op)),
                 LAMBDA q, e : Parsed(q, InfixBinaryOp(lhs, op, e)))

\* The infix function of curToken.
ParseInfix(p, lhs) ==
    CASE CurIs(p, "(") -> ParseCallExpression(p, lhs)
      [] CurIs(p, "[") -> ParseIndexAccess(p, lhs)
      [] OTHER -> ParseInfixBinaryOp(p, lhs)

\* An operator that follows a prefix function's nil is applied to nil.
ParseExpression(p, priority) ==
    LET type == CurToken(p)[1]
        RECURSIVE infix(_)
        infix(r) ==
            IF ~PeekIs(r.p, ";") /\ priority < Priority(PeekToken(r.p)[1])
            THEN infix(ParseInfix(NextToken(r.p), r.node))
            ELSE r
    IN  IF type \in PrefixTypes THEN infix(ParsePrefix(p))
        ELSE NotParsed(AddError(p, <<"no prefix function", type>>))

-----------------------------------------------------------------------------
\* let name = fn(...) {...} names the function.
Named(node, name) == IF node[1] = "FunctionLiteral" THEN [node EXCEPT ![2] = name] ELSE node

ParseLetStatement(p) ==
    IfParsed(ExpectPeek(p, "IDENT"), LAMBDA q, t :
        IF PeekIs(q, ";") THEN Parsed(q, LetStatement(t[2], Absent))
        ELSE IfParsed(ExpectPeek(q, "="), LAMBDA x, eq :
                IfParsed(ParseExpression(NextToken(x), LOWEST), LAMBDA y, rhs :
                    Parsed(y, LetStatement(t[2], Named(rhs, t[2]))))))

ParseAssignmentStatement(p) ==
    IfParsed(ExpectPeek(p, "="), LAMBDA q, t :
        IfParsed(ParseExpression(NextToken(q), LOWEST), LAMBDA x, rhs :
            Parsed(x, AssignmentStatement(CurToken(p)[2], rhs))))

ParseReturnStatement(p) ==
    IF PeekIs(p, ";") THEN Parsed(p, ReturnStatement(Absent))
    ELSE IfParsed(ParseExpression(NextToken(p), LOWEST),
                  LAMBDA q, e : Parsed(q, ReturnStatement(e)))

ParseForStatement(p) ==
    LET cond == IF PeekIs(p, "{") THEN Parsed(p, Absent)
                ELSE ParseExpression(NextToken(p), LOWEST)
    IN  IfParsed(cond, LAMBDA q, c :
            IfParsed(ParseBlockStatement(q), LAMBDA x, body :
                Parsed(x, ForStatement(c, body))))

ParseStatement(p) ==
    LET type == CurToken(p)[1]
        r == CASE type = "LET" -> ParseLetStatement(p)
               [] type = "RETURN" -> ParseReturnStatement(p)
               [] type = "FOR" -> ParseForStatement(p)
               [] type = "BREAK" -> Parsed(p, BreakStatement)
               [] type = "CONTINUE" -> Parsed(p, ContinueStatement)
               [] type = "IDENT" /\ PeekIs(p, "=") -> ParseAssignmentStatement(p)
               [] OTHER -> IfParsed(ParseExpression(p, LOWEST),
                                    LAMBDA q, e : Parsed(q, ExpressionStatement(e)))
    IN  [r EXCEPT !.p = SkipSemicolon(@)]
=============================================================================
