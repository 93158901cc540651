------------------------------- MODULE Session -------------------------------
(***************************************************************************)
(* The machines of a session of the compiled REPL (StartCompiledRepl of      *)
(* repl/repl.go, NewWithGlobalsStore of vm/vm.go): a VM for every line, with *)
(* a stack and frames of its own, over the globals of the session and the    *)
(* objects reachable from them, which functions of earlier lines are among.  *)
(*                                                                         *)
(* The compiler is left out: a line comes as its bytecode, any verified      *)
(* program that extends the one before.  Module Repl puts the compiler in    *)
(* and is checked to be such a session.                                      *)
(***************************************************************************)
EXTENDS StackDiscipline, SequencesExt

\* What a line adds: its main program, constants after those of the session and
\* functions beside those of the session.
Extends(p, q) ==
    /\ IsPrefix(p.consts, q.consts)
    /\ \A f \in DOMAIN p.fns \ {0} :
        /\ f \in DOMAIN q.fns
        /\ q.fns[f] = p.fns[f] /\ q.numFree[f] = p.numFree[f]

\* The machine before the first line.
NothingRun ==
    /\ globals = [i \in 0..(GlobalsSize - 1) |-> Nil]
    /\ stack = [i \in 0..(StackSize - 1) |-> Nil] /\ sp = 0
    /\ frames = [i \in 0..(MaxFrames - 1) |-> NewFrame(1, 0)] /\ frameIndex = 1
    /\ closures = <<[fn |-> 0, free |-> <<>>]>> /\ arrays = <<>> /\ hashes = <<>>
    /\ status = "reported" /\ reason = "none" /\ answer = NullS

SessionInit ==
    /\ WellFormed(prog) /\ VerifiedProgram(prog)
    /\ prog.consts = <<>> /\ DOMAIN prog.fns = {0}
    /\ NothingRun

\* Faulty NewWithGlobalsStores: the globals are new too; the frames of the last line stay.
NewMachine ==
    /\ stack' = [i \in DOMAIN stack |-> Nil] /\ sp' = 0
    /\ frames' = [i \in DOMAIN frames |-> NewFrame(1, 0)] /\ frameIndex' = 1
    /\ globals' = [i \in DOMAIN globals |-> Nil] /\ UNCHANGED heapVars
NewStackOnly ==
    /\ stack' = [i \in DOMAIN stack |-> Nil] /\ sp' = 0
    /\ frames' = [frames EXCEPT ![0] = NewFrame(1, 0)]
    /\ UNCHANGED <<globals, frameIndex, closures, arrays, hashes>>

\* A stack and frames of its own.
NewWithGlobalsStore ==
    /\ stack' = [i \in DOMAIN stack |-> Nil] /\ sp' = 0
    /\ frames' = [i \in DOMAIN frames |-> NewFrame(1, 0)] /\ frameIndex' = 1
    /\ UNCHANGED <<globals, closures, arrays, hashes>>

\* The line compiles to program p.
LoadLine(p) ==
    /\ status = "reported" /\ prog' = p
    /\ NewWithGlobalsStore
    /\ status' = "running" /\ reason' = "none" /\ UNCHANGED answer

\* The line does not compile, which is reported, or the compiler panics.
RejectLine(how) ==
    /\ status = "reported" /\ status' = how /\ answer' = ErrorObj
    /\ Silent /\ UNCHANGED reason


\* After an error of Run nothing but the error is printed.
AnswerLine ==
    \/ reason = "none" /\ Report
    \/ /\ status = "returned" /\ reason # "none" /\ Stop("reported", reason)
       /\ Silent /\ UNCHANGED answer

SessionNext ==
    \/ WellFormed(prog') /\ VerifiedProgram(prog') /\ Extends(prog, prog') /\ LoadLine(prog')
    \/ \E how \in {"reported", "panicked"} : RejectLine(how)
    \/ Step
    \/ AnswerLine

SessionSpec == SessionInit /\ [][SessionNext]_vars

-----------------------------------------------------------------------------
(***************************************************************************)
(* Properties, with those of StackDiscipline.                               *)
(***************************************************************************)
\* What a call of a closure does was settled when its function literal was evaluated,
\* whatever lines follow: the closure keeps its function and the values it captured, the
\* function its code, and the code the constants it names.
ClosuresSettled ==
    [][/\ IsPrefix(prog.consts, prog'.consts)
       /\ \A k \in 2..Len(closures) :
            /\ k <= Len(closures') /\ closures'[k] = closures[k]
            /\ prog'.fns[closures[k].fn] = prog.fns[closures[k].fn]]_vars
=============================================================================
