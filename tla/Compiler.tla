------------------------------ MODULE Compiler ------------------------------
(***************************************************************************)
(* The compiler (compiler/compiler.go): from syntax trees to instructions.  *)
(*                                                                         *)
(* The compiler c is a record: the constant pool and the functions it       *)
(* holds, the chain of symbol tables, the compilation scopes, the control   *)
(* flow of the loops, and err, the error Compile returned ("", none).  The  *)
(* code does not keep dropped, which says that an error was returned to a   *)
(* caller that ignored it.  Instructions are addressed by their number      *)
(* instead of their byte offset.                                            *)
(***************************************************************************)
EXTENDS Objects, SymbolTable, ControlFlow, Syntax

-----------------------------------------------------------------------------
NoInstruction == [op |-> "OpConstant", pos |-> 0]      \* EmittedInstruction{}
NewScope == [ins |-> <<>>, last |-> NoInstruction, prev |-> NoInstruction]

GlobalTable ==
    FoldLeft(LAMBDA t, i : DefineBuiltin(t, i - 1, BuiltinNames[i]), NewTable,
             [i \in 1..Len(BuiltinNames) |-> i])

NewCompiler ==
    [consts |-> <<>>, fns |-> <<>>, tabs |-> <<GlobalTable>>,
     scopes |-> <<NewScope>>, ctl |-> NewControl, err |-> "", dropped |-> FALSE]

Failed(c) == c.err # ""
Reject(c, why) == [c EXCEPT !.err = why]

\* if err := ...; err != nil { return err }
Then(c, F(_)) == IF Failed(c) THEN c ELSE F(c)

Level(c) == Len(c.scopes)
Scope(c) == c.scopes[Level(c)]
NextPos(c) == Len(Scope(c).ins) + 1      \* len(instructions)
CurrentFlow(c) == Pointer(c.ctl, Level(c))

Emit2(c, op, a, b) ==
    [c EXCEPT !.scopes[Level(c)] =
        [ins |-> Append(@.ins, Make(op, a, b)),
         last |-> [op |-> op, pos |-> Len(@.ins) + 1],
         prev |-> @.last]]
Emit1(c, op, a) == Emit2(c, op, a, 0)
Emit(c, op) == Emit2(c, op, 0, 0)

AddConstant(c, v) == [c EXCEPT !.consts = Append(@, v)]

\* c.emit(code.OpConstant, c.addConstant(v))
EmitConstant(c, v) == Emit1(AddConstant(c, v), "OpConstant", Len(c.consts))

NonPushers == {"OpPop", "OpJump", "OpJumpNotTruthy", "OpSetGlobal", "OpSetLocal"}
LastIsPop(c) == Scope(c).last.op = "OpPop"
LastIsPush(c) == Scope(c).last.op \notin NonPushers

RemoveLastPop(c) ==
    [c EXCEPT !.scopes[Level(c)] =
        [@ EXCEPT !.ins = SubSeq(@, 1, Scope(c).last.pos - 1), !.last = Scope(c).prev]]

\* An instruction the current scope does not have is an index out of range,
\* and Compile panics.
ChangeOperand(c, pos, operand) ==
    IF pos \notin DOMAIN Scope(c).ins THEN Reject(c, "panic")
    ELSE [c EXCEPT !.scopes[Level(c)].ins[pos] = Make(@.op, operand, 0)]

ChangeOperands(c, positions, operand) ==
    FoldLeft(LAMBDA d, pos : ChangeOperand(d, pos, operand), c, positions)

\* enterScope, and the definitions a function literal starts with
EnterFunction(c, name, params) ==
    [c EXCEPT !.ctl = AppendScope(@, Level(c)),
              !.scopes = Append(@, NewScope),
              !.tabs = FunctionTables(@, name, params)]

\* A faulty LeaveScope: the symbol table of the function stays.
LeaveScopeOnly(c) == [c EXCEPT !.scopes = Front(@)]
LeaveScope(c) == [c EXCEPT !.scopes = Front(@), !.tabs = Front(@)]

LoadSymbol(c, sym) ==
    CASE sym.scope = "GLOBAL" -> Emit1(c, "OpGetGlobal", sym.index)
      [] sym.scope = "LOCAL" -> Emit1(c, "OpGetLocal", sym.index)
      [] sym.scope = "BUILTIN" -> Emit1(c, "OpGetBuiltin", sym.index)
      [] sym.scope = "FREE" -> Emit1(c, "OpGetFree", sym.index)
      [] sym.scope = "FUNCTION" -> Emit(c, "OpCurrentClosure")

LoadSymbols(c, syms) == FoldLeft(LoadSymbol, c, syms)

Resolve(c, name) == [c EXCEPT !.tabs = ResolveTables(@, name)]

EmitNullPop(c) == Emit(Emit(c, "OpNull"), "OpPop")

-----------------------------------------------------------------------------
RECURSIVE Compile(_, _)

\* Compile the nodes one after the other, up to the first error.
CompileAll(c, nodes) ==
    FoldLeft(LAMBDA d, n : Then(d, LAMBDA e : Compile(e, n)), c, nodes)

\* Compile the nodes and drop the errors (array, hash and index expressions).
CompileUnchecked(c, nodes) ==
    LET Forget(d) == IF d.err \in {"", "panic"} THEN d
                     ELSE [d EXCEPT !.err = "", !.dropped = TRUE]
    IN  FoldLeft(LAMBDA d, n : IF d.err = "panic" THEN d ELSE Forget(Compile(d, n)),
                 c, nodes)

CompileBlock(c, statements) ==
    Then(CompileAll(c, statements),
         LAMBDA d : IF statements = <<>> THEN EmitNullPop(d) ELSE d)

CompileLet(c, name, rhs) ==
    LET Store(d) ==
            LET sym == LetSymbol(d.tabs, name)
            IN  EmitNullPop(Emit1([d EXCEPT !.tabs = LetTables(@, name)],
                    IF sym.scope = "GLOBAL" THEN "OpSetGlobal" ELSE "OpSetLocal",
                    sym.index))
    IN  Then(IF rhs = Absent THEN Emit(c, "OpNull") ELSE Compile(c, rhs), Store)

CompileAssignment(c, name, rhs) ==
    LET sym == ResolvedSymbol(c.tabs, name)
        Store(d) ==
            CASE sym.scope = "GLOBAL" -> EmitNullPop(Emit1(d, "OpSetGlobal", sym.index))
              [] sym.scope = "LOCAL" -> EmitNullPop(Emit1(d, "OpSetLocal", sym.index))
              [] sym.scope = "BUILTIN" -> Reject(d, "cannot assign to builtin function")
              [] OTHER -> Reject(d, "variable not declared in scope")
    IN  IF sym = NoSymbol THEN Reject(c, "variable not declared in scope")
        ELSE Then(Compile(Resolve(c, name), rhs), Store)

CompileIdentifier(c, name) ==
    LET sym == ResolvedSymbol(c.tabs, name)
    IN  IF sym = NoSymbol THEN Reject(c, "undefined variable")
        ELSE LoadSymbol(Resolve(c, name), sym)

\* A faulty CompileBranch: the value is popped.
CompilePoppedBranch(c, statements) == CompileBlock(c, statements)

\* A branch leaves its value: the pop of its last statement is taken back.
CompileBranch(c, statements) ==
    Then(CompileBlock(c, statements),
         LAMBDA d : LET e == IF LastIsPop(d) THEN RemoveLastPop(d) ELSE d
                    IN  IF LastIsPush(e) THEN e ELSE Emit(e, "OpNull"))

CompileIf(c, cond, cons, alt) ==
    LET Branches(d) ==
            LET jumpNotTruthyPos == NextPos(d)
                Alternative(e) ==
                    LET jumpPos == NextPos(e)
                        e1 == Emit1(e, "OpJump", 9999)
                        e2 == ChangeOperand(e1, jumpNotTruthyPos, NextPos(e1))
                        e3 == IF alt = Absent THEN Emit(e2, "OpNull")
                              ELSE CompileBranch(e2, alt[2])
                    IN  Then(e3, LAMBDA x : ChangeOperand(x, jumpPos, NextPos(x)))
            IN  Then(CompileBranch(Emit1(d, "OpJumpNotTruthy", 9999), cons), Alternative)
    IN  Then(Compile(c, cond), Branches)

\* cf is the pointer taken before the body is compiled and used after it.
CompileFor(c, cond, body) ==
    LET cf == CurrentFlow(c)
        loopStart == NextPos(c)
        opened == [c EXCEPT !.ctl = PushEntry(@, cf)]
        tested == IF cond = Absent THEN opened
                  ELSE Then(Compile(opened, cond),
                            LAMBDA d : Emit1(d, "OpJumpNotTruthy", 9999))
        jumpNotTruthyPos == NextPos(tested) - 1
        Close(d) ==
            LET d1 == Emit1(d, "OpJump", loopStart)
                d2 == IF cond = Absent THEN d1
                      ELSE ChangeOperand(d1, jumpNotTruthyPos, NextPos(d1))
                entry == LastEntry(d2.ctl, cf)
                d3 == ChangeOperands(d2, entry.breaks, NextPos(d2))
                d4 == ChangeOperands(d3, entry.continues, loopStart)
            IN  EmitNullPop([d4 EXCEPT !.ctl = PopEntry(@, cf)])
    IN  Then(Then(tested, LAMBDA d : CompileBlock(d, body)), Close)

CompileBreak(c) ==
    IF OpenLoops(c.ctl, CurrentFlow(c)) = 0
    THEN Reject(c, "cannot break without an enclosing for loop")
    ELSE Emit1([c EXCEPT !.ctl = AddBreak(@, CurrentFlow(c), NextPos(c))], "OpJump", 9999)

CompileContinue(c) ==
    IF OpenLoops(c.ctl, CurrentFlow(c)) = 0
    THEN Reject(c, "cannot continue without an enclosing for loop")
    ELSE Emit1([c EXCEPT !.ctl = AddContinue(@, CurrentFlow(c), NextPos(c))], "OpJump", 9999)

CompilePrefix(c, op, rhs) ==
    Then(Compile(c, rhs), LAMBDA d : Emit(d, IF op = "!" THEN "OpBang" ELSE "OpMinus"))

InfixOpcode(op) ==
    CASE op = "+" -> "OpAdd" [] op = "-" -> "OpSub" [] op = "*" -> "OpMul"
      [] op = "/" -> "OpDiv" [] op = "==" -> "OpEq" [] op = "!=" -> "OpNeq"
      [] op \in {"<", ">"} -> "OpLessThan"
      [] op \in {"<=", ">="} -> "OpLessThanEq"

\* > and >= evaluate their right-hand side first.
CompileInfix(c, op, lhs, rhs) ==
    Then(CompileAll(c, IF op \in {">", ">="} THEN <<rhs, lhs>> ELSE <<lhs, rhs>>),
         LAMBDA d : Emit(d, InfixOpcode(op)))

CompileHash(c, pairs) ==
    LET parts == FlattenSeq([i \in 1..Len(pairs) |-> <<pairs[i][1], pairs[i][2]>>])
    IN  Emit1(CompileUnchecked(c, parts), "OpHash", Len(pairs))

CompileFunction(c, name, params, body) ==
    LET Returning(d) ==        \* the last pop becomes the return
            LET s == Scope(d)
                d1 == IF s.last.op # "OpPop" THEN d
                      ELSE [d EXCEPT !.scopes[Level(d)] =
                                [@ EXCEPT !.ins[s.last.pos] = Make("OpReturnValue", 0, 0),
                                          !.last.op = "OpReturnValue"]]
            IN  IF Scope(d1).last.op = "OpReturnValue" THEN d1 ELSE Emit(d1, "OpReturn")
        Close(d) ==
            LET done == Returning(d)
                table == TopTable(done.tabs)
                fn == [ins |-> Scope(done).ins, numLocals |-> table.num,
                       numParams |-> Len(params)]
                loaded == LoadSymbols(LeaveScope(done), table.free)
                added == [AddConstant(loaded, Obj("COMPILED_FUNCTION", Len(done.fns) + 1))
                            EXCEPT !.fns = Append(@, fn)]
            IN  Emit2(added, "OpClosure", Len(loaded.consts), Len(table.free))
    IN  Then(CompileBlock(EnterFunction(c, name, params), body), Close)

CompileReturn(c, e) ==
    IF e = Absent THEN Reject(c, "unknown node type")
    ELSE Then(Compile(c, e), LAMBDA d : Emit(d, "OpReturnValue"))

CompileBuiltinCall(c, name, args) ==
    LET sym == ResolvedSymbol(c.tabs, name)
    IN  IF sym = NoSymbol THEN Reject(c, "unable to resolve builtin")
        ELSE Then(CompileAll(LoadSymbol(Resolve(c, name), sym), args),
                  LAMBDA d : Emit1(Emit1(d, "OpArray", Len(args)), "OpCall", 1))

CompileCall(c, function, args) ==
    IF function[1] = "BuiltinFunction"
    THEN CompileBuiltinCall(c, function[2], args)
    ELSE Then(CompileAll(c, <<function>> \o args),
              LAMBDA d : Emit1(d, "OpCall", Len(args)))

Compile(c, node) ==
    LET type == node[1]
    IN  CASE type = "ExpressionStatement" ->
                Then(Compile(c, node[2]), LAMBDA d : Emit(d, "OpPop"))
          [] type = "LetStatement" -> CompileLet(c, node[2], node[3])
          [] type = "AssignmentStatement" -> CompileAssignment(c, node[2], node[3])
          [] type = "Identifier" -> CompileIdentifier(c, node[2])
          [] type = "IfExpression" -> CompileIf(c, node[2], node[3], node[4])
          [] type = "ForStatement" -> CompileFor(c, node[2], node[3])
          [] type = "BreakStatement" -> CompileBreak(c)
          [] type = "ContinueStatement" -> CompileContinue(c)
          [] type = "PrefixUnaryOp" -> CompilePrefix(c, node[2], node[3])
          [] type = "InfixBinaryOp" -> CompileInfix(c, node[2], node[3], node[4])
          [] type = "IntegerLiteral" -> EmitConstant(c, IntObj(node[2]))
          [] type = "BooleanLiteral" -> Emit(c, IF node[2] THEN "OpTrue" ELSE "OpFalse")
          [] type = "StringLiteral" -> EmitConstant(c, StrObj(node[2]))
          [] type = "NullLiteral" -> Emit(c, "OpNull")
          [] type = "ArrayLiteral" ->
                Emit1(CompileUnchecked(c, node[2]), "OpArray", Len(node[2]))
          [] type = "HashLiteral" -> CompileHash(c, node[2])
          [] type = "IndexAccess" ->
                Emit(CompileUnchecked(c, <<node[2], node[3]>>), "OpIndex")
          [] type = "FunctionLiteral" -> CompileFunction(c, node[2], node[3], node[4])
          [] type = "ReturnStatement" -> CompileReturn(c, node[2])
          [] type = "CallExpression" -> CompileCall(c, node[2], node[3])
          [] OTHER -> Reject(c, "unknown node type")

-----------------------------------------------------------------------------
\* Bytecode(): the instructions of the scope that is current.
MainFunction(c) == [ins |-> Scope(c).ins, numLocals |-> 0, numParams |-> 0]
FunctionTable(c) ==
    [f \in 0..Len(c.fns) |-> IF f = 0 THEN MainFunction(c) ELSE c.fns[f]]
CompileProgram(statements) == CompileAll(NewCompiler, statements)
=============================================================================
