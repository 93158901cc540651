----------------------------- MODULE Compilation -----------------------------
(***************************************************************************)
(* A run of the compiler over a program: one step per statement of the main *)
(* program (the loop of Compile over ast.Program), until the statements are *)
(* done or one of them is rejected.                                         *)
(***************************************************************************)
EXTENDS Compiler, Annotator

CONSTANT Sources      \* the programs, sequences of statements

VARIABLES source, done, compiler
vars == <<source, done, compiler>>

Init ==
    /\ source \in Sources
    /\ done = 0
    /\ compiler = NewCompiler

\* Compile returns at the first error.
CompileStatement ==
    /\ ~Failed(compiler) /\ done < Len(source)
    /\ compiler' = Compile(compiler, source[done + 1])
    /\ done' = done + 1
    /\ UNCHANGED source

Spec == Init /\ [][CompileStatement]_vars

Accepted == done = Len(source) /\ ~Failed(compiler)

\* Compile has returned no error, to main or to a caller that ignored it.
Clean(c) == ~Failed(c) /\ ~c.dropped
Instructions == Scope(compiler).ins

-----------------------------------------------------------------------------
\* A loop in which the scopes may move before a loop inside it takes a new array for the
\* entries: its later jumps are entered there, and the loop patches those of the old one.
LosesJumps(n) ==
    /\ n[1] = "ForStatement"
    /\ \E m \in Scoped(n) : m[1] = "FunctionLiteral"
    /\ \E m \in Scoped(n) \ {n} : m[1] = "ForStatement"

\* What the programs of the language look like, as the VM can run them.
WellPlaced(statements) ==
    /\ \A n \in ToSet(statements) : ~Stray(n) /\ ~ReturnsFromMain(n)
    /\ \A n \in Nested(statements) : ~OperandJump(n) /\ ~LosesJumps(n)

(***************************************************************************)
(* The loops of a program as the code keeps count of them.  The scopes are  *)
(* a slice that starts with room for main and doubles when a function       *)
(* literal finds it full.  A loop in which that happened is closed in the   *)
(* old array only: what follows in its function still is in a loop.         *)
(***************************************************************************)
RECURSIVE Visited(_, _)
VisitedAll(at, nodes) == FoldLeft(Visited, at, nodes)
Visited(at, n) ==
    CASE IsJump(n) -> [at EXCEPT !.placed = @ /\ at.loops > 0]
      [] n[1] = "FunctionLiteral" ->
            LET entered == [at EXCEPT !.level = @ + 1, !.loops = 0,
                                      !.room = IF at.level = @ THEN 2 * @ ELSE @]
                left == VisitedAll(entered, n[4])
            IN  [at EXCEPT !.room = left.room, !.placed = left.placed]
      [] n[1] = "ForStatement" ->
            LET end == VisitedAll([at EXCEPT !.loops = @ + 1], Parts(n))
            IN  IF end.room > at.room THEN end ELSE [end EXCEPT !.loops = @ - 1]
      [] OTHER -> VisitedAll(at, Parts(n))
Passed == VisitedAll([level |-> 1, room |-> 1, loops |-> 0, placed |-> TRUE], SubSeq(source, 1, done))

(***************************************************************************)
(* Properties.                                                              *)
(***************************************************************************)
\* The code of every program the compiler accepts keeps the contract the VM
\* relies on (compiler.go against vm.go): every jump has been patched and leads
\* to an instruction, every operand names something that exists, both ways to
\* an instruction leave the same number of operands, a function never runs past
\* its end and the main program ends with an empty stack.  Programs in which an
\* array, a hash or an index expression hid an error are not among them.
CodeVerified ==
    (Accepted /\ Clean(compiler) /\ WellPlaced(source)) =>
        CodeIsVerified(FunctionTable(compiler), compiler.consts)

\* A break or continue outside of the loops of its function is rejected, and no other is.
\* One that follows a loop in which a function literal moved the scopes counts as inside.
StraysRejected ==
    /\ (Accepted /\ Clean(compiler)) => Passed.placed
    /\ compiler.err \in {"cannot break without an enclosing for loop",
                         "cannot continue without an enclosing for loop"} => ~Passed.placed

\* A variable that nothing in the program declares is an error, as the compiler's
\* "undefined variable" has it; the code drops it in arrays, hashes and indices.
UndefinedRejected ==
    Accepted => \A n \in Nested(source) : n[1] = "Identifier" => n[2] \in Declared(source)

\* Compiling a statement adds code, constants and functions after those of the
\* statements before it and changes none of them: the pops it takes back and the
\* jumps it patches are its own.
EarlierCodeKept ==
    [][Clean(compiler') =>
        /\ IsPrefix(Instructions, Instructions')
        /\ IsPrefix(compiler.consts, compiler'.consts)
        /\ IsPrefix(compiler.fns, compiler'.fns)]_vars

\* Between two statements the compiler is back in the main scope and the global
\* table, and every loop is closed, but for those in which the scopes were moved.
BackInMain ==
    Clean(compiler) =>
        /\ Len(compiler.scopes) = 1 /\ Len(compiler.tabs) = 1
        /\ OpenLoops(compiler.ctl, CurrentFlow(compiler)) = Passed.loops
=============================================================================
