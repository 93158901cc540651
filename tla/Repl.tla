-------------------------------- MODULE Repl --------------------------------
(***************************************************************************)
(* The compiled REPL (repl/repl.go): a compiler and a VM of their own for    *)
(* every line, which share the symbol table, the constants and the globals  *)
(* of the session.  Beside it, the interpreted REPL reads the same lines.   *)
(*                                                                         *)
(* The machines of the lines are those of module Session, with the compiler  *)
(* in place: prog is the bytecode of the last line that compiled, annotated. *)
(* Lines are given as syntax trees: a line the parser rejects changes        *)
(* nothing.                                                                 *)
(***************************************************************************)
EXTENDS Session, Printed, Compiler, Annotator

CONSTANTS
    Prelude, Lines, MaxLines      \* the first line, the others, how many

VARIABLES
    table,         \* the global symbol table
    constants,     \* the constants and the functions of the lines compiled so far
    lines,         \* the lines read so far
    failed,        \* the numbers of the lines that ended with an error
    unset,         \* of those that read a global nobody has given a value
    parted,        \* of those the interpreted REPL has executed further
    memory,        \* of the interpreted REPL
    interpreted    \* what the interpreted REPL makes of the last line
sessionVars == <<table, constants, lines, failed, unset, parted, memory, interpreted>>

\* NewWithState; its control flow starts with a loop open.
LoopOpen ==
    [gens |-> << << [arr |-> 2, len |-> 1] >> >>, gen |-> 1, store |-> << <<>>, <<EmptyEntry>> >>]
NewWithState ==
    [NewCompiler EXCEPT !.tabs = <<table>>, !.consts = constants.consts, !.fns = constants.fns,
                        !.ctl = LoopOpen]

ReplInit ==
    /\ prog = Annotation(FunctionTable(NewCompiler), <<>>) /\ NothingRun
    /\ table = GlobalTable /\ constants = [consts |-> <<>>, fns |-> <<>>] /\ lines = <<>>
    /\ failed = {} /\ unset = {} /\ parted = {}
    /\ memory = NewEnvironment(NewMemory, NoParent) /\ interpreted = NullS

AtPrompt == status = "reported" /\ Len(lines) < MaxLines

\* The session ends: a Go panic, or Inspect without an end.
Death == <<"DEATH", 0>>

\* Nothing is printed for nil and null.
Echo(v, s) ==
    CASE v = Nil -> NullS
      [] v[1] = "PANIC" \/ ~InspectEnds(v, s) -> Death
      [] v[1] = "ERROR" -> Failure
      [] OTHER -> Shape(Plain(v, s), PlainHeap(s))

\* A jump out of no loop compiles at the prompt, and nobody patches it: the line ends there.
StrayJump(line) == \E n \in ToSet(line) : Stray(n)
MainReturns(line) == \E n \in ToSet(line) : ReturnsFromMain(n)

\* The line with the interpreted REPL, which has no compilation that could fail before
\* the first statement, and no jump to end it.
Interpret(line, compiles) ==
    LET r == EvaluateProgram(line, 1, memory)
        changes == \/ r.s.envs[1].store # memory.envs[1].store
                   \/ ~IsPrefix(memory.arrays, r.s.arrays) \/ ~IsPrefix(memory.hashes, r.s.hashes)
    IN  /\ memory' = r.s /\ interpreted' = Echo(r.v, r.s) /\ lines' = Append(lines, line)
        /\ parted' = IF changes /\ (~compiles \/ StrayJump(line)) THEN parted \cup {Len(lines) + 1} ELSE parted

\* The constants of a line that fails to compile are dropped; what it defined stays.
CompilationFailed(c) ==
    /\ Failed(c) /\ table' = c.tabs[1] /\ UNCHANGED constants
    /\ RejectLine(IF c.err = "panic" THEN "panicked" ELSE "reported")

\* A faulty LineCompiled: the next line starts from the constants of the session's start.
CompiledUnsaved(c) ==
    /\ ~Failed(c) /\ table' = c.tabs[1] /\ constants' = [constants EXCEPT !.fns = c.fns]
    /\ LoadLine(Annotation(FunctionTable(c), c.consts))

LineCompiled(c) ==
    /\ ~Failed(c) /\ table' = c.tabs[1]
    /\ constants' = [consts |-> c.consts, fns |-> c.fns]
    /\ LoadLine(Annotation(FunctionTable(c), c.consts))

ReadLine ==
    /\ AtPrompt
    /\ \E line \in (IF lines = <<>> THEN {Prelude} ELSE Lines) :
        LET c == CompileAll(NewWithState, line)
        IN  /\ \/ CompilationFailed(c) /\ failed' = failed \cup {Len(lines) + 1}
               \/ LineCompiled(c) /\ UNCHANGED failed
            /\ Interpret(line, ~Failed(c)) /\ UNCHANGED unset

ReadsUnset == Fetched /\ Ins.op = "OpGetGlobal" /\ globals[Ins.a] = Nil
Run ==
    /\ Step /\ unset' = IF ReadsUnset THEN unset \cup {Len(lines)} ELSE unset
    /\ UNCHANGED <<table, constants, lines, failed, parted, memory, interpreted>>

Answer ==
    /\ AnswerLine
    /\ failed' = IF reason = "none" THEN failed ELSE failed \cup {Len(lines)}
    /\ UNCHANGED <<table, constants, lines, unset, parted, memory, interpreted>>

ReplNext == ReadLine \/ Run \/ Answer
ReplSpec == ReplInit /\ [][ReplNext]_<<vars, sessionVars>>
\* The REPL is one loop; nothing makes the user type.
FairRepl == ReplSpec /\ WF_<<vars, sessionVars>>(Run \/ Answer)

-----------------------------------------------------------------------------
(***************************************************************************)
(* Properties.                                                              *)
(***************************************************************************)
\* What the compiled REPL answers, next to the interpreted one.
Compiled ==
    CASE status = "panicked" -> Death
      [] status # "panicked" /\ reason = "none" /\ answer # ErrorObj -> Shape(answer, Heap)
      [] OTHER -> Failure

NamesWithoutValue ==
    {name \in DOMAIN table.store :
        table.store[name].scope = "GLOBAL" /\ globals[table.store[name].index] = Nil}

\* The lines that let the name and were executed to their end.
LinesThatLet(name) ==
    {k \in DOMAIN lines \ failed :
        /\ ~StrayJump(lines[k])
        /\ \E i \in DOMAIN lines[k] : lines[k][i][1] = "LetStatement" /\ lines[k][i][2] = name}

\* At the prompt every variable a finished line has let holds a value, whatever lines
\* failed before and after it: a failure takes no value away, one line's names are not
\* another's slots, and nil spreads only from a name that no line could give a value.
NamesHaveValues ==
    status = "reported" =>
        \A name \in NamesWithoutValue :
            LinesThatLet(name) # {} => \E u \in unset : \E k \in LinesThatLet(name) : u <= k

\* The lines make a session: the code of each, and of every function of earlier lines,
\* finds the constants, functions and slots it was compiled for and keeps its operands in
\* order, and what earlier lines compiled to has stayed.  Only the code of a line that
\* leaves the main program, by a return or a stray jump, is no verified program.
Leaves(line) == MainReturns(line) \/ StrayJump(line)
LinesMakeSession ==
    SessionInit /\ [][\/ SessionNext
                      \/ /\ Leaves(Last(lines'))
                         /\ WellFormed(prog') /\ Extends(prog, prog') /\ LoadLine(prog')]_vars

\* How the two engines differ over a line by themselves: the machine has a limit of
\* frames, panics at a condition that is a container, a string or a function and at a
\* return of the main program, and pops nothing of an empty line or before a stray jump.
DiesAlone ==
    /\ status = "panicked"
    /\ LET line == Last(lines)
       IN  \/ reason \in {"frame limit", "unsupported type cast to boolean"}
           \/ reason = "index out of range" /\ MainReturns(line)
           \/ reason = "nothing to report" /\ (line = <<>> \/ StrayJump(line))

\* Line by line, through lines that fail too, both REPLs print the same, or both end:
\* table, constants and globals of the session fit together.  They part where the engines
\* differ (DiesAlone; a stray jump, of which the interpreted REPL prints the name), where
\* a name without a value is read, and after a line of which one has executed more.
SameAnswers ==
    status \in {"reported", "panicked"} =>
        Compiled = interpreted \/ DiesAlone \/ unset # {} \/ parted # {}
            \/ (lines # <<>> /\ StrayJump(Last(lines)))

=============================================================================
