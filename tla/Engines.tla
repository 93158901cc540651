------------------------------- MODULE Engines -------------------------------
(***************************************************************************)
(* The two engines of main.go side by side: the virtual machine runs the    *)
(* code of a program, and the tree-walking engine says what it means.       *)
(***************************************************************************)
EXTENDS VM, Printed, Compiler

\* A program the machine can run, with its source and its meaning.
Compiled(name, source, meaning) ==
    LET c == CompileProgram(source)
    IN  [name |-> name, source |-> source, fns |-> FunctionTable(c), consts |-> c.consts,
         meaning |-> meaning]
Accepts(source) ==
    LET c == CompileProgram(source) IN ~Failed(c) /\ ~c.dropped

\* The outcome of the machine: an error of Run and an error object are failures.
Outcome ==
    CASE status \in {"running", "returned"} -> <<"RUNNING", 0>>
      [] status = "reported" /\ reason = "none" /\ answer # ErrorObj -> Shape(answer, Heap)
      [] OTHER -> Failure

MeaningOf(p) == p.meaning

Promise == INSTANCE Language
    WITH Meaning <- MeaningOf, program <- prog, outcome <- Outcome

\* Compiler and VM give every program the outcome the tree-walking engine gives it
\* ("evaluate the input monkeyfile using the engine of choice", README.md), and
\* they end, as it does.
Implements == Promise!Spec

\* The same of a machine that has ended.
SameOutcome == status \in {"reported", "panicked"} => Outcome = prog.meaning
=============================================================================
