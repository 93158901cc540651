------------------------------- MODULE Parsing -------------------------------
(***************************************************************************)
(* ParseProgram (parser/parser.go), one statement a step, on any of the     *)
(* token sequences in Sources.                                              *)
(***************************************************************************)
EXTENDS Parser

CONSTANT Sources

VARIABLES p, program
vars == <<p, program>>

Init == program = <<>> /\ \E tokens \in Sources : p = NewParser(tokens)

AtEnd == CurIs(p, "EOF")

ParseNext ==
    LET r == ParseStatement(p)
    IN  ~AtEnd /\ program' = Append(program, r.node) /\ p' = NextToken(r.p)

Spec == Init /\ [][ParseNext]_vars

-----------------------------------------------------------------------------
Accepted == AtEnd /\ p.errors = <<>>
Text == FlattenSeq(Strings(program))

\* What String() shows of its source as it stands: names, numbers, operators and
\* keywords, but for those fn and null lose.
Words(tokens) ==
    SelectSeq(tokens, LAMBDA t : t[1] \notin
        {"(", ")", "{", "}", "[", "]", ",", ";", "=", "FUNCTION", "NULL", "<name>", "panic"})

Count(type, tokens) == Len(SelectSeq(tokens, LAMBDA t : t[1] = type))

Follows(i, type) == i > 1 /\ p.tokens[i - 1] = Punct(type)
Before(i, type) == \E j \in 1..(i - 1) : p.tokens[j][1] = type

\* Where the parser may move on without a look at the token: past the one after the
\* consequence of an if, and past the one for the closing bracket of an index.
MayGo == {i \in DOMAIN p.tokens :
            \/ Follows(i, "}") /\ Before(i, "IF")
            \/ p.tokens[i] # Punct("]") /\ Before(i - 1, "[")}
\* A parameter after a comma is taken for a name whatever it is.
MayBeNames == {i \in DOMAIN p.tokens : Follows(i, ",") /\ Before(i, "FUNCTION")}

Without(lost, names) ==
    LET kept == SelectSeq([i \in DOMAIN p.tokens |-> i], LAMBDA i : i \notin lost)
    IN  [k \in DOMAIN kept |-> IF kept[k] \in names THEN IdentToken(p.tokens[kept[k]][2])
                                                   ELSE p.tokens[kept[k]]]

\* A program accepted without an error holds the words of its source in the order of the
\* source, but for those that parseIfExpression, parseIndexAccess and
\* parseFunctionParameters do not look at: the word after an if without an else, the one
\* for the bracket of an index, one for each if and index, and no other; and what stands
\* for a parameter is a name.
NothingLost ==
    Accepted => \E lost \in SUBSET MayGo, names \in SUBSET MayBeNames :
        /\ Words(Text) = Words(Without(lost, names))
        /\ Cardinality(lost) <= (Count("IF", Text) - Count("ELSE", Text)) + Count("[", p.tokens)

\* A program accepted without an error has no nil where Compile, Evaluate or String
\* needs a node, though nil statements are kept as statements; only the condition
\* of a for statement may be nil.
Whole ==
    Accepted => \A i \in DOMAIN Text : Text[i] = Punct("panic") => Text[i - 1] = Punct("FOR")

Levels == << {"==", "!="}, {"<", ">", "<=", ">="}, {"+", "-"}, {"*", "/"} >>
Level(e) == IF e[1] # "InfixBinaryOp" THEN 5 ELSE CHOOSE i \in 1..4 : e[2] \in Levels[i]

RECURSIVE Grouped(_)
Grouped(e) ==
    CASE e[1] = "PrefixUnaryOp" -> Level(e[3]) = 5 /\ Grouped(e[3])
      [] e[1] = "InfixBinaryOp" ->
            /\ Level(e[3]) >= Level(e) /\ Level(e[4]) > Level(e)
            /\ Grouped(e[3]) /\ Grouped(e[4])
      [] OTHER -> TRUE

\* Without parentheses an operator takes its operands as the table of
\* TestOperatorPrecedenceParsing has it: tighter ones first, equal ones from the
\* left, a prefix operator before all of them.
Precedence ==
    (Accepted /\ \A i \in DOMAIN p.tokens : p.tokens[i][1] # "(")
        => \A i \in DOMAIN program :
            program[i][1] = "ExpressionStatement" => Grouped(program[i][2])

ExpressionTypes == {"IDENT", "INT", "(", ")", "[", "]", ",", "BUILTIN"} \cup UNION {Levels[i] : i \in 1..4}

\* The String() of an expression is source for the same expression.
StringReparses ==
    (/\ Accepted /\ Len(program) = 1
     /\ \A i \in DOMAIN p.tokens : p.tokens[i][1] \in ExpressionTypes)
        => LET r == ParseStatement(NewParser(Text))
           IN  r.node = program[1] /\ r.p.errors = <<>> /\ PeekIs(r.p, "EOF")

=============================================================================
