------------------------------- MODULE Syntax -------------------------------
(***************************************************************************)
(* The syntax trees of the language (ast/ast.go) and its tokens             *)
(* (token/token.go).  A node is a tuple whose first element names its type; *)
(* a block is the sequence of its statements.  A token is a pair            *)
(* <<type, literal>>.                                                       *)
(***************************************************************************)
EXTENDS Naturals, SequencesExt

Absent == <<"None">>        \* a nil child: no condition, no right-hand side

IntegerLiteral(n) == <<"IntegerLiteral", n>>
BooleanLiteral(b) == <<"BooleanLiteral", b>>
StringLiteral(s) == <<"StringLiteral", s>>
NullLiteral == <<"NullLiteral">>
Identifier(name) == <<"Identifier", name>>
PrefixUnaryOp(op, rhs) == <<"PrefixUnaryOp", op, rhs>>
InfixBinaryOp(lhs, op, rhs) == <<"InfixBinaryOp", op, lhs, rhs>>
IfElse(cond, cons, alt) == <<"IfExpression", cond, cons, <<"Block", alt>>>>
IfThen(cond, cons) == <<"IfExpression", cond, cons, Absent>>
ArrayLiteral(contents) == <<"ArrayLiteral", contents>>
HashLiteral(pairs) == <<"HashLiteral", pairs>>
IndexAccess(container, index) == <<"IndexAccess", container, index>>
FunctionLiteral(name, params, body) == <<"FunctionLiteral", name, params, body>>
CallExpression(function, args) == <<"CallExpression", function, args>>
BuiltinFunction(name) == <<"BuiltinFunction", name>>
ExpressionStatement(e) == <<"ExpressionStatement", e>>
LetStatement(name, rhs) == <<"LetStatement", name, rhs>>
AssignmentStatement(name, rhs) == <<"AssignmentStatement", name, rhs>>
ForStatement(cond, body) == <<"ForStatement", cond, body>>
ReturnStatement(e) == <<"ReturnStatement", e>>
BreakStatement == <<"BreakStatement">>
ContinueStatement == <<"ContinueStatement">>

-----------------------------------------------------------------------------
Punct(type) == <<type, type>>             \* an operator, delimiter or keyword
IdentToken(name) == <<"IDENT", name>>
IntToken(n) == <<"INT", n>>
EOF == Punct("EOF")

Joined(parts) ==
    FoldLeft(LAMBDA out, part : IF out = <<>> THEN part ELSE out \o << Punct(",") >> \o part,
             <<>>, parts)

(***************************************************************************)
(* String(): the tokens of the text a node prints itself as.  It is not     *)
(* always source text again: a block prints its statements without braces,  *)
(* the pairs of a hash stand in square brackets, a function literal kept    *)
(* the parenthesis as its token and shows its name, and null kept none.     *)
(* The token panic stands for the method called on a nil condition.         *)
(***************************************************************************)
RECURSIVE String(_)

\* A faulty PrefixString: without parentheses.
BarePrefixString(op, rhs) == << Punct(op) >> \o String(rhs)
PrefixString(op, rhs) == << Punct("("), Punct(op) >> \o String(rhs) \o << Punct(")") >>

Strings(nodes) == [i \in DOMAIN nodes |-> String(nodes[i])]

String(node) ==
    LET type == node[1]
        sym(t) == << Punct(t) >>
        optional(e) == IF e = Absent THEN <<>> ELSE String(e)
        block(b) == FlattenSeq(Strings(b))
    IN  CASE type = "IntegerLiteral" -> << IntToken(node[2]) >>
          [] type = "StringLiteral" -> << <<"STRING", node[2]>> >>
          [] type = "BooleanLiteral" -> sym(IF node[2] THEN "TRUE" ELSE "FALSE")
          [] type = "NullLiteral" -> <<>>
          [] type = "Identifier" -> << IdentToken(node[2]) >>
          [] type = "BuiltinFunction" -> << <<"BUILTIN", node[2]>> >>
          [] type = "PrefixUnaryOp" -> PrefixString(node[2], node[3])
          [] type = "InfixBinaryOp" ->
                sym("(") \o String(node[3]) \o sym(node[2]) \o String(node[4]) \o sym(")")
          [] type = "ArrayLiteral" -> sym("[") \o Joined(Strings(node[2])) \o sym("]")
          [] type = "HashLiteral" ->
                LET pair(kv) == String(kv[1]) \o sym(":") \o String(kv[2])
                IN  sym("[") \o Joined([i \in DOMAIN node[2] |-> pair(node[2][i])]) \o sym("]")
          [] type = "IndexAccess" -> String(node[2]) \o sym("[") \o String(node[3]) \o sym("]")
          [] type = "CallExpression" ->
                String(node[2]) \o sym("(") \o Joined(Strings(node[3])) \o sym(")")
          [] type = "FunctionLiteral" ->
                sym("(") \o (IF node[2] = "" THEN <<>> ELSE << <<"<name>", node[2]>> >>)
                    \o sym("(") \o Joined([i \in DOMAIN node[3] |-> << IdentToken(node[3][i]) >>])
                    \o sym(")") \o block(node[4])
          [] type = "IfExpression" ->
                sym("IF") \o String(node[2]) \o block(node[3])
                    \o (IF node[4] = Absent THEN <<>> ELSE sym("ELSE") \o block(node[4][2]))
          [] type = "ForStatement" -> sym("FOR") \o String(node[2]) \o block(node[3])
          [] type = "None" -> sym("panic")
          [] type = "LetStatement" ->
                sym("LET") \o << IdentToken(node[2]) >> \o sym("=") \o optional(node[3]) \o sym(";")
          [] type = "AssignmentStatement" ->
                << IdentToken(node[2]) >> \o sym("=") \o String(node[3]) \o sym(";")
          [] type = "ReturnStatement" -> sym("RETURN") \o optional(node[2]) \o sym(";")
          [] type = "ExpressionStatement" -> optional(node[2])
          [] type = "BreakStatement" -> sym("BREAK")
          [] type = "ContinueStatement" -> sym("CONTINUE")

-----------------------------------------------------------------------------
(***************************************************************************)
(* The placement of statements in a source.                                 *)
(***************************************************************************)
\* The nodes below a node that belong to the same function, in the order Compile visits
\* them: > and >= their right-hand side first.
Parts(n) ==
    CASE n[1] \in {"ExpressionStatement", "ReturnStatement"} -> <<n[2]>>
      [] n[1] \in {"LetStatement", "AssignmentStatement", "PrefixUnaryOp"} -> <<n[3]>>
      [] n[1] = "InfixBinaryOp" -> IF n[2] \in {">", ">="} THEN <<n[4], n[3]>> ELSE <<n[3], n[4]>>
      [] n[1] = "IndexAccess" -> <<n[2], n[3]>>
      [] n[1] = "HashLiteral" -> FlattenSeq(n[2])
      [] n[1] \in {"ArrayLiteral", "Block"} -> n[2]
      [] n[1] \in {"CallExpression", "ForStatement"} -> <<n[2]>> \o n[3]
      [] n[1] = "IfExpression" -> <<n[2]>> \o n[3] \o <<n[4]>>
      [] OTHER -> <<>>
ChildrenOf(n) == ToSet(Parts(n))
BodyOf(n) == IF n[1] = "FunctionLiteral" THEN ToSet(n[4]) ELSE {}

RECURSIVE Nodes(_), Scoped(_)
\* A node and all the nodes below it; the same without those of inner functions.
Nodes(n) == {n} \cup UNION {Nodes(m) : m \in ChildrenOf(n) \cup BodyOf(n)}
Scoped(n) == {n} \cup UNION {Scoped(m) : m \in ChildrenOf(n)}

IsJump(n) == n \in {BreakStatement, ContinueStatement}
Nested(statements) == UNION {Nodes(n) : n \in ToSet(statements)}

RECURSIVE Stray(_)
\* The statement n, outside a loop, has a break or a continue that is in no loop
\* of its own function.
Stray(n) ==
    \/ IsJump(n)
    \/ /\ n[1] # "ForStatement"
       /\ \E m \in ChildrenOf(n) \cup BodyOf(n) : Stray(m)
    \/ /\ n[1] = "ForStatement"
       /\ \/ Stray(n[2])
          \/ \E f \in UNION {Scoped(m) : m \in ToSet(n[3])} :
                \E m \in BodyOf(f) : Stray(m)

\* An operator, a call or a literal with a jump among its operands: the operands
\* evaluated so far are on the stack when the jump is taken.
OperandJump(n) ==
    /\ n[1] \in {"InfixBinaryOp", "IndexAccess", "ArrayLiteral", "HashLiteral",
                 "CallExpression"}
    /\ \E m \in Scoped(n) : IsJump(m)

ReturnsFromMain(n) == \E m \in Scoped(n) : m[1] = "ReturnStatement"

\* The names some statement or function of the program declares.
Declared(statements) ==
    UNION {CASE n[1] = "LetStatement" -> {n[2]}
             [] n[1] = "FunctionLiteral" -> {n[2]} \cup ToSet(n[3])
             [] OTHER -> {} : n \in Nested(statements)}
=============================================================================
