-------------------------- MODULE StackDiscipline --------------------------
(***************************************************************************)
(* What the VM owes to the code it runs, and the code to the VM.            *)
(*                                                                         *)
(* Programs carry annotations here, as verified bytecode does: depth gives   *)
(* the number of operands on the stack before every instruction, numFree    *)
(* the free variables of every function, and the program is Verified under  *)
(* them (see Verifier).  For every such program the VM keeps its stack in   *)
(* order; MC_Compiler checks that the compiler's programs are such.         *)
(***************************************************************************)
EXTENDS VM, Verifier

VerifiedProgram(p) == Verified(p.fns, p.consts, p.numFree, p.depth)

ASSUME VerifiedAssumption ==
    \A p \in Programs : VerifiedProgram(p)

-----------------------------------------------------------------------------
(***************************************************************************)
(* The inductive invariant.                                                 *)
(***************************************************************************)
FnNumber(fr) == closures[fr.cl].fn
DepthOf(fr) == prog.depth[FnNumber(fr)][fr.pc]

\* Where the stack of frame j ends: at the base of the next frame, or at sp.
Extent(j) == IF j = frameIndex - 1 THEN sp ELSE frames[j + 1].bp

FrameInOrder(j) ==
    LET fr == frames[j]
    IN  /\ fr.pc \in 1..(Len(FnOf(fr).ins) + 1)
        /\ DepthOf(fr) >= 0
        /\ Extent(j) = fr.bp + FnOf(fr).numLocals + DepthOf(fr)
        /\ IF j = 0 THEN fr.bp = 0 /\ FnNumber(fr) = 0
                    ELSE fr.bp >= 1 /\ FnNumber(fr) # 0

\* Every closure captured as many variables as its function has free variables.
ClosuresInOrder ==
    \A k \in 1..Len(closures) :
        Len(closures[k].free) = prog.numFree[closures[k].fn]

\* While Run runs, the stack of every active frame is as deep as the annotation of
\* the code says: its locals, then the operands its function has there, and the
\* next frame or sp right above them.
FramesInOrder ==
    status = "running" =>
        /\ frameIndex >= 1
        /\ \A j \in 0..(frameIndex - 1) : FrameInOrder(j)

\* Every active frame but main's finds its own closure in the slot below its
\* base, where OpCurrentClosure's caller put it and its result will go.
CalleeInPlace ==
    status = "running" =>
        \A j \in 1..(frameIndex - 1) :
            /\ frames[j].bp <= StackSize
            /\ stack[frames[j].bp - 1] = Obj("CLOSURE", frames[j].cl)

-----------------------------------------------------------------------------
(***************************************************************************)
(* Properties.                                                              *)
(***************************************************************************)
\* The locals of the running function did not fit on the stack: callFunction
\* moves sp past them without a check.
Overrun == Top.bp + FnOf(Top).numLocals > StackSize

\* There is no operand above them.
Untouched == sp = Top.bp + FnOf(Top).numLocals

\* No unchecked index of the VM - pops, locals, free variables, constants,
\* builtins - ever leaves its slice, except in a function whose locals did not fit.
\* Such a function comes to nothing: until the run fails at its first operand or local
\* out of reach, or it returns, it never has an operand on the stack.
BoundsRespected ==
    /\ reason = "index out of range" => Overrun /\ Untouched
    /\ status = "running" /\ Overrun => Untouched

\* A run that ends without an error ends in main, with every operand consumed:
\* the object main prints is the one the last statement popped.
CleanEnd ==
    (status = "returned" /\ reason = "none") => (frameIndex = 1 /\ sp = 0)

-----------------------------------------------------------------------------
(***************************************************************************)
(* The calls that the frames and the stack stand for.                       *)
(***************************************************************************)
\* Locals that did not fit have slots no instruction reaches.
Slot(i) == IF i < StackSize THEN stack[i] ELSE Nil

Activation(j) ==
    [closure |-> Obj("CLOSURE", frames[j].cl), pc |-> frames[j].pc,
     slots |-> [i \in 1..(Extent(j) - frames[j].bp) |-> Slot(frames[j].bp + i - 1)]]

Activations ==
    IF status = "running" THEN [n \in 1..frameIndex |-> Activation(n - 1)] ELSE <<>>

Calling == INSTANCE CallStack WITH calls <- Activations, Main <- Obj("CLOSURE", 1), Null <- NullS

\* To the program that runs, frames and stack are a call stack of separate activations:
\* each has its own locals and operands, which no other changes, a callee gets its
\* arguments, and its caller finds the result where the callee was and all else as it left it.
ImplementsCalls == Calling!Spec
=============================================================================
