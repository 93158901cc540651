------------------------------ MODULE Verifier ------------------------------
(***************************************************************************)
(* The contract between the compiler and the VM.                            *)
(*                                                                         *)
(* The VM checks neither the depth of its stack before a pop nor the index  *)
(* of a local, a free variable or a constant: it relies on the compiler.    *)
(* The contract is made explicit as a verifier of bytecode.  depth          *)
(* annotates every instruction of a program with the number of operands its *)
(* function has on the stack when it gets there (-1: it never does),        *)
(* numFree every function with its number of free variables, and Verified   *)
(* says that the annotation is consistent.                                  *)
(***************************************************************************)
EXTENDS Objects

\* How many objects an instruction leaves on the stack of its function.
Pushes(i) ==
    IF i.op \in {"OpPop", "OpJump", "OpJumpNotTruthy", "OpSetGlobal",
                 "OpSetLocal"} \cup ReturnOps
    THEN 0 ELSE 1

Successors(i, pc) ==
    CASE i.op = "OpJump" -> {i.a}
      [] i.op = "OpJumpNotTruthy" -> {pc + 1, i.a}
      [] i.op \in ReturnOps -> {}
      [] OTHER -> {pc + 1}

\* The operands of i name things function f of program p has.
OperandsExist(fns, consts, numFree, f, i) ==
    /\ i.op \in {"OpConstant", "OpClosure"} => i.a < Len(consts)
    /\ i.op = "OpClosure" =>
        /\ consts[i.a + 1][1] = "COMPILED_FUNCTION"
        /\ consts[i.a + 1][2] # 0
        /\ numFree[consts[i.a + 1][2]] = i.b
    /\ i.op \in LocalOps => i.a < fns[f].numLocals
    /\ i.op = "OpGetFree" => i.a < numFree[f]
    /\ i.op = "OpGetBuiltin" => i.a < Len(BuiltinNames)
    /\ i.op \in ReturnOps => f # 0

InstructionVerified(fns, consts, numFree, depth, f, pc) ==
    LET i == fns[f].ins[pc]
    IN  /\ Pops(i) <= depth[f][pc]
        /\ OperandsExist(fns, consts, numFree, f, i)
        /\ \A s \in Successors(i, pc) :
            /\ s \in 1..(Len(fns[f].ins) + 1)
            /\ depth[f][s] = depth[f][pc] - Pops(i) + Pushes(i)

\* Code of a function other than main never runs past its end; main ends with an
\* empty stack and never loads its own closure.
FunctionVerified(fns, consts, numFree, depth, f) ==
    LET end == Len(fns[f].ins) + 1
    IN  /\ depth[f] \in [1..end -> Int]
        /\ depth[f][1] = 0
        /\ depth[f][end] \in (IF f = 0 THEN {-1, 0} ELSE {-1})
        /\ fns[f].numParams <= fns[f].numLocals
        /\ f = 0 => \A pc \in 1..(end - 1) : fns[f].ins[pc].op # "OpCurrentClosure"
        /\ \A pc \in 1..(end - 1) :
            depth[f][pc] >= 0 => InstructionVerified(fns, consts, numFree, depth, f, pc)

Verified(fns, consts, numFree, depth) ==
    /\ DOMAIN numFree = DOMAIN fns /\ numFree[0] = 0
    /\ DOMAIN depth = DOMAIN fns
    /\ \A f \in DOMAIN fns : FunctionVerified(fns, consts, numFree, depth, f)
=============================================================================
