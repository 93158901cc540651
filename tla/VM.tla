--------------------------------- MODULE VM ---------------------------------
(***************************************************************************)
(* The stack machine (vm/vm.go, vm/frame.go) running compiled programs.     *)
(*                                                                         *)
(* A program is a record of its functions fns, numbered from 0 (the main    *)
(* program), and its constant pool consts.  An instruction is a record of   *)
(* its opcode and its two operands, as code.ReadOperands returns them; code *)
(* is addressed by instruction instead of by byte, so the position pc of a  *)
(* frame is the instruction it executes next (ip + 1 in the code).          *)
(*                                                                         *)
(* Run ends in three ways: it returns nil or an error (status "returned",   *)
(* reason "none" or the error), or a Go run-time panic ends the program     *)
(* (status "panicked").  After Run has returned, main prints                *)
(* LastPoppedStackElem (action Report).                                     *)
(***************************************************************************)
EXTENDS Builtins, FiniteSets

CONSTANTS
    Programs,      \* the programs [fns, consts, ...], any of which may be run
    StackSize, MaxFrames, GlobalsSize

(***************************************************************************)
(* What every bytecode satisfies by its format: constants are integers,     *)
(* strings and functions; main has no locals; the operand of a global       *)
(* instruction has 16 bits, and there are 2^16 globals; instructions are    *)
(* numbered from 1.                                                         *)
(***************************************************************************)
WellFormed(p) ==
    /\ DOMAIN p.fns \subseteq Nat /\ 0 \in DOMAIN p.fns
    /\ \A f \in DOMAIN p.fns :
        /\ p.fns[f] \in Function
        /\ \A i \in 1..Len(p.fns[f].ins) :
            LET ins == p.fns[f].ins[i]
            IN  /\ ins.op \in GlobalOps => ins.a < GlobalsSize
                /\ ins.op \in JumpOps => ins.a >= 1
    /\ p.fns[0].numLocals = 0
    /\ p.consts \in Seq(({"INTEGER"} \X Int \X { <<>> })
            \cup ({"STRING"} \X {0} \X Seq(Int))
            \cup ({"COMPILED_FUNCTION"} \X (DOMAIN p.fns) \X { <<>> }))

ASSUME VMAssumption ==
    /\ StackSize \in Nat \ {0} /\ MaxFrames \in Nat \ {0}
    /\ GlobalsSize \in Nat \ {0}
    /\ \A p \in Programs : WellFormed(p)

VARIABLES
    prog,         \* the program that runs
    globals, stack, sp,
    frames,       \* frames[0..frameIndex-1] are active: [cl, pc, bp]
    frameIndex,
    closures,     \* heap of closures: [fn, free]
    arrays,       \* heap of arrays: sequences of objects
    hashes,       \* heap of hashes
    status, reason,
    answer        \* the object Report has printed

heapVars == <<closures, arrays, hashes>>
vars == <<prog, globals, stack, sp, frames, frameIndex, closures, arrays,
          hashes, status, reason, answer>>

\* Closure 1, the main program's, is an object only if main loads it.
FirstClosure ==
    IF \E i \in 1..Len(prog.fns[0].ins) : prog.fns[0].ins[i].op = "OpCurrentClosure"
    THEN 1 ELSE 2

Object == Value(FirstClosure, Len(closures), Len(arrays), Len(hashes))
Heap == [arrays |-> arrays, hashes |-> hashes]
Frame == [cl : Nat, pc : Nat \ {0}, bp : Nat]

NewFrame(cl, basePointer) == [cl |-> cl, pc |-> 1, bp |-> basePointer]

\* The main closure is the first of the heap.
Init ==
    /\ prog \in Programs
    /\ globals = [i \in 0..(GlobalsSize - 1) |-> Nil]
    /\ stack = [i \in 0..(StackSize - 1) |-> Nil]
    /\ sp = 0
    /\ frames = [i \in 0..(MaxFrames - 1) |-> NewFrame(1, 0)]
    /\ frameIndex = 1
    /\ closures = <<[fn |-> 0, free |-> <<>>]>>
    /\ arrays = <<>>
    /\ hashes = <<>>
    /\ status = "running"
    /\ reason = "none"
    /\ answer = Nil

-----------------------------------------------------------------------------
Fn(f) == prog.fns[f]
FnOf(fr) == Fn(closures[fr.cl].fn)
Consts == prog.consts
Top == frames[frameIndex - 1]
TopCode == FnOf(Top).ins
Ins == TopCode[Top.pc]
Free == closures[Top.cl].free

\* The object n places below the top of the stack: Peek(1) is the one pop
\* returns.
Peek(n) == stack[sp - n]

\* A faulty Topmost: misses the last object.
TopmostButOne(n) == [i \in 1..(n - 1) |-> stack[sp - n + i - 1]]

\* The n objects on top of the stack, the lowest first.
Topmost(n) == [i \in 1..n |-> stack[sp - n + i - 1]]

IsFunctionConst(k) == Consts[k + 1][1] = "COMPILED_FUNCTION"

\* OpHash takes pairs off the stack from the last one on, and stops at the
\* first key it cannot hash.
BadPairs == {j \in 1..Ins.a : 2 * j <= sp /\ HashKey(Peek(2 * j)) # Peek(2 * j)}

HasOperands == Pops(Ins) = 0 \/ (Pops(Ins) <= sp /\ sp <= StackSize)

\* Every index the instruction uses is within its slice.
InBounds ==
    CASE Ins.op = "OpConstant" -> Ins.a < Len(Consts)
      [] Ins.op = "OpClosure" -> Ins.a < Len(Consts)
                                 /\ (IsFunctionConst(Ins.a) => HasOperands)
      [] Ins.op = "OpGetLocal" -> Top.bp + Ins.a < StackSize
      [] Ins.op = "OpSetLocal" -> HasOperands /\ Top.bp + Ins.a < StackSize
      [] Ins.op = "OpGetFree" -> Ins.a < Len(Free)
      [] Ins.op = "OpGetBuiltin" -> Ins.a < Len(BuiltinNames)
      [] Ins.op = "OpHash" -> HasOperands \/ (sp <= StackSize /\ BadPairs # {})
      [] Ins.op = "OpCall" -> sp - Ins.a - 1 \in 0..(StackSize - 1)
      [] Ins.op = "OpReturnValue" -> HasOperands /\ Top.bp >= 1
      [] Ins.op = "OpReturn" -> Top.bp >= 1
      [] OTHER -> HasOperands

Fetched == status = "running" /\ Top.pc <= Len(TopCode)
Fetch(ops) == Fetched /\ Ins.op \in ops /\ InBounds

JumpTo(pc) == frames' = [frames EXCEPT ![frameIndex - 1].pc = pc]
Advance == JumpTo(Top.pc + 1)

Keep == UNCHANGED <<status, reason>>
Stop(s, why) == status' = s /\ reason' = why

\* vm.push, after pops have left p objects on the stack.
Push(p, v) ==
    IF p >= StackSize
    THEN sp' = p /\ stack' = stack /\ Stop("returned", "stack overflow")
    ELSE sp' = p + 1 /\ stack' = [stack EXCEPT ![p] = v] /\ Keep

\* Run returns an error after pops have left p objects on the stack.
Error(p, why) == sp' = p /\ stack' = stack /\ Stop("returned", why)

\* The Go program dies; the state is of no further use.
Panic(why) == UNCHANGED <<stack, sp>> /\ Stop("panicked", why)

\* What the VM does with the result r of an operation (see Objects).
Finish(p, r) ==
    CASE r[1] = "FAIL" -> Error(p, r[2])
      [] r[1] = "PANIC" -> Panic(r[2])
      [] r[1] = "MISS" -> /\ sp' = p + 1 /\ stack' = [stack EXCEPT ![p] = NullS]
                          /\ Stop("returned", r[2])
      [] OTHER -> Push(p, r)

-----------------------------------------------------------------------------
(***************************************************************************)
(* One action per opcode.  frames' is given by Advance or JumpTo except in  *)
(* calls and returns; the heaps change in OpClosure, OpArray, OpHash and in *)
(* builtins only.                                                           *)
(***************************************************************************)
InFrame == UNCHANGED <<prog, frameIndex, answer>>
Pure == InFrame /\ UNCHANGED <<globals, closures, arrays, hashes>>

OpConstant ==
    Fetch({"OpConstant"}) /\ Advance /\ Pure /\ Push(sp, Consts[Ins.a + 1])

OpClosure ==
    /\ Fetch({"OpClosure"}) /\ Advance /\ InFrame
    /\ UNCHANGED <<globals, arrays, hashes>>
    /\ IF IsFunctionConst(Ins.a)
       THEN /\ closures' = Append(closures,
                    [fn |-> Consts[Ins.a + 1][2], free |-> Topmost(Ins.b)])
            /\ Push(sp - Ins.b, Obj("CLOSURE", Len(closures) + 1))
       ELSE closures' = closures /\ Error(sp, "closure over a non-function")

OpSingleton ==
    /\ Fetch({"OpTrue", "OpFalse", "OpNull"}) /\ Advance /\ Pure
    /\ Push(sp, CASE Ins.op = "OpTrue" -> TrueS
                  [] Ins.op = "OpFalse" -> FalseS
                  [] OTHER -> NullS)

OpInfix ==
    /\ Fetch(InfixOps) /\ Advance /\ Pure
    /\ Finish(sp - 2, Infix(Ins.op, Peek(2), Peek(1)))

OpBang ==
    /\ Fetch({"OpBang"}) /\ Advance /\ Pure
    /\ IF HasTruth(Peek(1)) THEN Push(sp - 1, BoolObj(~IsTruthy(Peek(1))))
                            ELSE Panic("unsupported type cast to boolean")

OpMinus ==
    /\ Fetch({"OpMinus"}) /\ Advance /\ Pure
    /\ IF Peek(1)[1] = "INTEGER" THEN Push(sp - 1, IntObj(Wrap(-Peek(1)[2])))
                                 ELSE Error(sp - 1, "cannot prefix with -")

\* A faulty OpPop: reads the top of the stack and leaves it there.
PeekInsteadOfPop ==
    Fetch({"OpPop"}) /\ Advance /\ Pure /\ UNCHANGED <<stack, sp>> /\ Keep

OpPop ==
    /\ Fetch({"OpPop"}) /\ Advance /\ Pure
    /\ sp' = sp - 1 /\ stack' = stack /\ Keep

OpJump ==
    /\ Fetch({"OpJump"}) /\ JumpTo(Ins.a) /\ Pure
    /\ UNCHANGED <<stack, sp>> /\ Keep

OpJumpNotTruthy ==
    /\ Fetch({"OpJumpNotTruthy"}) /\ Pure
    /\ IF HasTruth(Peek(1))
       THEN /\ JumpTo(IF IsTruthy(Peek(1)) THEN Top.pc + 1 ELSE Ins.a)
            /\ sp' = sp - 1 /\ stack' = stack /\ Keep
       ELSE Advance /\ Panic("unsupported type cast to boolean")

OpSetGlobal ==
    /\ Fetch({"OpSetGlobal"}) /\ Advance /\ InFrame /\ UNCHANGED heapVars
    /\ globals' = [globals EXCEPT ![Ins.a] = Peek(1)]
    /\ sp' = sp - 1 /\ stack' = stack /\ Keep

OpGetGlobal ==
    Fetch({"OpGetGlobal"}) /\ Advance /\ Pure /\ Push(sp, globals[Ins.a])

\* Faulty OpSetLocals: a slot too low, and a slot counted from the bottom of the
\* stack.
SetLocalTooLow ==
    /\ Fetch({"OpSetLocal"}) /\ Advance /\ Pure
    /\ stack' = [stack EXCEPT ![Top.bp + Ins.a - 1] = Peek(1)]
    /\ sp' = sp - 1 /\ Keep

SetLocalFromBottom ==
    /\ Fetch({"OpSetLocal"}) /\ Advance /\ Pure
    /\ stack' = [stack EXCEPT ![Ins.a] = Peek(1)]
    /\ sp' = sp - 1 /\ Keep

OpSetLocal ==
    /\ Fetch({"OpSetLocal"}) /\ Advance /\ Pure
    /\ stack' = [stack EXCEPT ![Top.bp + Ins.a] = Peek(1)]
    /\ sp' = sp - 1 /\ Keep

OpGetLocal ==
    /\ Fetch({"OpGetLocal"}) /\ Advance /\ Pure
    /\ Push(sp, stack[Top.bp + Ins.a])

OpGetBuiltin ==
    Fetch({"OpGetBuiltin"}) /\ Advance /\ Pure /\ Push(sp, Obj("BUILTIN", Ins.a))

OpGetFree ==
    Fetch({"OpGetFree"}) /\ Advance /\ Pure /\ Push(sp, Free[Ins.a + 1])

OpCurrentClosure ==
    /\ Fetch({"OpCurrentClosure"}) /\ Advance /\ Pure
    /\ Push(sp, Obj("CLOSURE", Top.cl))

OpArray ==
    /\ Fetch({"OpArray"}) /\ Advance /\ InFrame
    /\ UNCHANGED <<globals, closures, hashes>>
    /\ arrays' = Append(arrays, Topmost(Ins.a))
    /\ Push(sp - Ins.a, Obj("ARRAY", Len(arrays) + 1))

\* The pairs are inserted from the last to the first, so of two equal keys
\* the first pair stays.
HashPairs ==
    {<<Peek(2 * j), Peek(2 * j - 1)>> :
        j \in {i \in 1..Ins.a : \A k \in (i + 1)..Ins.a :
                                    Peek(2 * k) # Peek(2 * i)}}

OpHash ==
    /\ Fetch({"OpHash"}) /\ Advance /\ InFrame
    /\ UNCHANGED <<globals, closures, arrays>>
    /\ \/ /\ BadPairs = {}
          /\ hashes' = Append(hashes, HashPairs)
          /\ Push(sp - 2 * Ins.a, Obj("HASH", Len(hashes) + 1))
       \/ \E j \in BadPairs :
            /\ \A k \in BadPairs : j <= k
            /\ hashes' = hashes
            /\ Finish(sp - 2 * j, HashKey(Peek(2 * j)))

OpIndex ==
    /\ Fetch({"OpIndex"}) /\ Advance /\ Pure
    /\ Finish(sp - 2, Index(Peek(2), Peek(1), Heap))

\* Faulty OpReturns: one leaves the callee on the stack, one takes an operand of
\* the caller off it too.
ReturnTo(p) ==
    /\ Fetch(ReturnOps)
    /\ frameIndex' = frameIndex - 1
    /\ Push(p, IF Ins.op = "OpReturn" THEN NullS ELSE Peek(1))
    /\ UNCHANGED <<prog, globals, frames, closures, arrays, hashes, answer>>
ReturnAboveCallee == ReturnTo(Top.bp)
ReturnBelowCallee == ReturnTo(Top.bp - 2)

OpReturn ==
    /\ Fetch(ReturnOps)
    /\ frameIndex' = frameIndex - 1
    /\ Push(Top.bp - 1, IF Ins.op = "OpReturn" THEN NullS ELSE Peek(1))
    /\ UNCHANGED <<prog, globals, frames, closures, arrays, hashes, answer>>

-----------------------------------------------------------------------------
(***************************************************************************)
(* Calls.  The callee lies below its arguments; a new frame starts at the   *)
(* first argument, and the stack pointer skips the locals without writing   *)
(* them.  Neither the frame nor the locals are checked against a limit.     *)
(***************************************************************************)
Callee == Peek(Ins.a + 1)
CalleeFn == FnOf([cl |-> Callee[2]])

\* A faulty CallClosure: the frames have no limit.
CallWithoutLimit ==
    /\ Fetch({"OpCall"}) /\ Callee[1] = "CLOSURE" /\ CalleeFn.numParams = Ins.a
    /\ frames' = [frames EXCEPT ![frameIndex - 1].pc = @ + 1,
                                ![frameIndex] = NewFrame(Callee[2], sp - Ins.a)]
    /\ frameIndex' = frameIndex + 1
    /\ sp' = sp - Ins.a + CalleeFn.numLocals
    /\ UNCHANGED <<prog, globals, stack, closures, arrays, hashes, answer>> /\ Keep

CallClosure ==
    /\ Fetch({"OpCall"}) /\ Callee[1] = "CLOSURE"
    /\ CalleeFn.numParams = Ins.a /\ frameIndex < MaxFrames
    /\ frames' = [frames EXCEPT ![frameIndex - 1].pc = @ + 1,
                                ![frameIndex] = NewFrame(Callee[2], sp - Ins.a)]
    /\ frameIndex' = frameIndex + 1
    /\ sp' = sp - Ins.a + CalleeFn.numLocals
    /\ UNCHANGED <<prog, globals, stack, closures, arrays, hashes, answer>> /\ Keep

CallFails ==
    /\ Fetch({"OpCall"}) /\ Advance /\ Pure
    /\ \/ /\ Callee[1] = "CLOSURE" /\ CalleeFn.numParams # Ins.a
          /\ Error(sp, "wrong number of arguments")
       \/ /\ Callee[1] = "CLOSURE" /\ CalleeFn.numParams = Ins.a
          /\ frameIndex >= MaxFrames
          /\ Panic("frame limit")
       \/ /\ Callee[1] = "BUILTIN" /\ sp - Ins.a < StackSize
          /\ stack[sp - Ins.a][1] # "ARRAY"
          /\ Error(sp, "cannot call builtin")
       \/ /\ Callee[1] = "BUILTIN" /\ sp - Ins.a >= StackSize
          /\ Panic("builtin without an argument")
       \/ /\ Callee[1] \notin {"CLOSURE", "BUILTIN"}
          /\ Error(sp, "calling non-function")

\* A builtin is called with one array of its arguments.
CallsBuiltin ==
    /\ Fetch({"OpCall"}) /\ Advance /\ InFrame
    /\ Callee[1] = "BUILTIN" /\ sp - Ins.a < StackSize
    /\ stack[sp - Ins.a][1] = "ARRAY"
    /\ LET r == CallBuiltin(Callee[2], arrays[stack[sp - Ins.a][2]], Heap)
       IN  /\ arrays' = r.heap.arrays
           /\ hashes' = r.heap.hashes
           /\ Finish(sp - Ins.a - 1, IF r.value = Nil THEN NullS ELSE r.value)
    /\ UNCHANGED <<globals, closures>>

-----------------------------------------------------------------------------
Silent == UNCHANGED <<prog, globals, stack, sp, frames, frameIndex, closures,
                      arrays, hashes>>

IndexOutOfRange ==
    Fetched /\ ~InBounds /\ Stop("panicked", "index out of range")
        /\ Silent /\ UNCHANGED answer

\* Run's loop ends when the current function has no instruction left.
EndOfCode ==
    status = "running" /\ Top.pc > Len(TopCode) /\ Stop("returned", "none")
        /\ Silent /\ UNCHANGED answer

\* What Inspect visits inside an object.
Contents(v) ==
    CASE v[1] = "ARRAY" -> {arrays[v[2]][i] : i \in 1..Len(arrays[v[2]])}
      [] v[1] = "HASH" -> {pair[2] : pair \in hashes[v[2]]}
      [] OTHER -> {}

\* Inspect ends: no nil, and no container inside itself, is found in v.
Inspectable(v) ==
    LET below[n \in 0..(Len(arrays) + Len(hashes) + 1)] ==      \* n levels down
            IF n = 0 THEN {v} ELSE UNION {Contents(o) : o \in below[n - 1]}
    IN  /\ \A n \in DOMAIN below : Nil \notin below[n]
        /\ below[Len(arrays) + Len(hashes) + 1] = {}

\* main prints the object above the stack pointer, after an error too.
Report ==
    /\ status = "returned" /\ Silent
    /\ IF sp < StackSize /\ Inspectable(stack[sp])
       THEN status' = "reported" /\ answer' = stack[sp] /\ reason' = reason
       ELSE Stop("panicked", "nothing to report") /\ answer' = answer

Step ==
    \/ OpConstant \/ OpClosure \/ OpSingleton \/ OpInfix \/ OpBang \/ OpMinus
    \/ OpPop \/ OpJump \/ OpJumpNotTruthy \/ OpSetGlobal \/ OpGetGlobal
    \/ OpSetLocal \/ OpGetLocal \/ OpGetBuiltin \/ OpGetFree
    \/ OpCurrentClosure \/ OpArray \/ OpHash \/ OpIndex \/ OpReturn
    \/ CallClosure \/ CallFails \/ CallsBuiltin
    \/ IndexOutOfRange \/ EndOfCode

Next == Step \/ Report

Spec == Init /\ [][Next]_vars
FairSpec == Spec /\ WF_vars(Next)     \* Run is a loop on the calling goroutine

-----------------------------------------------------------------------------
(***************************************************************************)
(* Type invariant.                                                          *)
(***************************************************************************)
Closure == [fn : DOMAIN prog.fns, free : Seq(Object)]

\* Every slot of the stack, the globals and the containers holds an object that
\* exists, every closure a function of the program, and there is a frame for every
\* frame index: pushFrame never writes beyond its slice.
TypeOK ==
    /\ globals \in [0..(GlobalsSize - 1) -> Object]
    /\ stack \in [0..(StackSize - 1) -> Object]
    /\ sp \in Nat
    /\ frames \in [0..(MaxFrames - 1) -> Frame]
    /\ frameIndex \in 0..MaxFrames
    /\ \A j \in 0..(MaxFrames - 1) : frames[j].cl \in 1..Len(closures)
    /\ closures \in Seq(Closure)
    /\ arrays \in Seq(Seq(Object))
    /\ hashes \in Seq(SUBSET (Object \X Object))
    /\ status \in {"running", "returned", "panicked", "reported"}
    /\ reason \in {"none"} \cup Errors \cup PanicReasons
    /\ answer \in Object
=============================================================================
