------------------------------ MODULE Jit_proof ------------------------------
(***************************************************************************)
(* The stack discipline of a machine with the JIT: what StackInOrder says   *)
(* of the VM holds of it too, whichever functions have machine code when    *)
(* they are called and however the goroutines interleave.                   *)
(*                                                                         *)
(* Every step of the other goroutines, and the VM's taking of a mutex,       *)
(* leaves the machine alone; a call through the JIT stays in its function;   *)
(* every other step is one of the VM.                                       *)
(***************************************************************************)
EXTENDS Jit, StackDiscipline_proof

\* A call through the JIT keeps the machine typed: what it leaves in the slot of its
\* last argument is an object that was on the stack.
LEMMA ViaJitType ==
    ASSUME SInv, CallFunctionViaJit
    PROVE  IInv'
<1>1. /\ Fetched /\ Advance /\ InBounds /\ Ins.op = "OpCall" /\ IInv
      /\ status = "running" /\ sp < StackSize
      /\ sp' = sp - Ins.a /\ stack' = [stack EXCEPT ![sp - Ins.a] = stack[sp]]
      /\ UNCHANGED <<prog, globals, frameIndex, closures, arrays, hashes, answer, status, reason>>
    BY DEF CallFunctionViaJit, Locked, CallsClosure, Fetch, Fetched, SInv, Keep
<1>2. sp - Ins.a - 1 \in 0..(StackSize - 1) /\ sp \in Nat /\ Ins.a \in Nat
    BY <1>1, CurrentInstruction DEF InBounds, Instruction, IInv, Registers
<1>3. sp \in 0..(StackSize - 1) /\ sp' \in Nat /\ sp - Ins.a \in 0..(StackSize - 1)
    BY <1>1, <1>2, Parameters
<1>4. stack' \in [0..(StackSize - 1) -> Object]
    BY <1>1, <1>3 DEF IInv, Registers
<1>5. NextRegisters(Object)
    BY <1>1, <1>3, <1>4 DEF NextRegisters, IInv, Registers
<1>6. NextFrames
    BY <1>1, <1>5, AdvanceFrames DEF NextRegisters
<1> QED BY <1>1, <1>5, <1>6, PureStep

\* It stays in its function: it takes the arguments and the callee, and leaves one
\* object in the slot of the callee.
LEMMA ViaJitStraight ==
    ASSUME SInv, CallFunctionViaJit
    PROVE  Fetched /\ Straight
<1>1. /\ Fetched /\ Advance /\ Ins.op = "OpCall" /\ IInv
      /\ status = "running" /\ sp < StackSize
      /\ sp' = sp - Ins.a /\ stack' = [stack EXCEPT ![sp - Ins.a] = stack[sp]]
      /\ UNCHANGED <<prog, frameIndex, closures, status, reason>>
    BY DEF CallFunctionViaJit, Locked, CallsClosure, Fetch, Fetched, SInv, Keep
<1>2. /\ Pops(Ins) = Ins.a + 1 /\ Pushes(Ins) = 1
      /\ Ins.op \notin {"OpJump"} \cup ReturnOps
      /\ Ins.a \in Nat /\ sp \in Nat
      /\ stack \in [0..(StackSize - 1) -> Object]
    BY <1>1, Arities, CurrentInstruction DEF ReturnOps, Instruction, IInv, Registers
<1>3. sp - (Ins.a + 1) >= Top.bp /\ Top.bp \in Nat
    BY <1>1, <1>2, AboveBase
<1>4. \A i \in 0..(StackSize - 1) : i < Top.bp => stack'[i] = stack[i]
    BY <1>1, <1>2, <1>3
<1>5. sp' = sp - Pops(Ins) + Pushes(Ins) /\ sp' <= StackSize
    BY <1>1, <1>2, Parameters
<1>6. Effect
    BY <1>1, <1>4, <1>5 DEF Effect
<1> QED BY <1>1, <1>2, <1>6, AdvanceStraight DEF ClosuresGrow

\* Every step of a machine with the JIT.
LEMMA JitNextInOrder == SInv /\ [JitNext]_allVars => SInv'
<1> SUFFICES ASSUME SInv, [JitNext]_allVars PROVE SInv'
    OBVIOUS
<1>1. CASE CallFunctionViaJit
    BY <1>1, ViaJitType, ViaJitStraight, StraightStep
<1>2. CASE UNCHANGED vars
    BY <1>2, NextInOrder
<1>3. CASE Next
    BY <1>3, NextInOrder
<1>4. CASE MustJitCompile \/ Installers \/ VMLocks
    <2>1. UNCHANGED vars
        BY <1>4 DEF MustJitCompile, Installers, InstallerLocks, Install, VMLocks
    <2> QED BY <2>1, <1>2
<1>5. CASE OtherInstruction \/ CallFunction \/ ReceiveDone \/ ReportJit
    <2>1. Next
        BY <1>5 DEF OtherInstruction, CallFunction, ReceiveDone, ReportJit, Next, Step
    <2> QED BY <2>1, <1>3
<1> QED BY <1>1, <1>2, <1>4, <1>5 DEF JitNext, RunGoroutine, allVars

\* Its invariant is the VM's.
LEMMA JitInOrder == JitSpec => []SInv
<1>1. JitInit => SInv
    BY InitInOrder DEF JitInit
<1>2. SInv /\ [JitNext]_allVars => SInv'
    BY JitNextInOrder
<1> QED BY <1>1, <1>2, PTL DEF JitSpec

(***************************************************************************)
(* Whatever the goroutines do, every slot of the stack, the globals and the  *)
(* containers holds an object that exists.  What the machine code leaves as  *)
(* its result is such an object too, if an old one.                         *)
(***************************************************************************)
THEOREM JitTyped == JitSpec => []TypeOK
<1>1. SInv => TypeOK
    BY IInvImpliesTypeOK DEF SInv
<1> QED BY <1>1, JitInOrder, PTL

(***************************************************************************)
(* On verified code the frames of a machine with the JIT are in order on    *)
(* its stack, and every callee lies below its frame.                        *)
(***************************************************************************)
THEOREM JitStackInOrder == JitSpec => [](FramesInOrder /\ CalleeInPlace)
<1>1. SInv => FramesInOrder /\ CalleeInPlace
    BY DEF SInv
<1> QED BY <1>1, JitInOrder, PTL

(***************************************************************************)
(* With the JIT too no unchecked index leaves its slice but on the stack of *)
(* a function whose locals did not fit, and Run ends in main with an empty  *)
(* stack.                                                                   *)
(***************************************************************************)
THEOREM JitBounds == JitSpec => [](BoundsRespected /\ CleanEnd)
<1>1. SInv => BoundsRespected /\ CleanEnd
    BY SInvImpliesBounds DEF SInv
<1> QED BY <1>1, JitInOrder, PTL

(***************************************************************************)
(* To the program a call through the JIT is work of the caller: it leaves    *)
(* the result where the callee was and every other activation alone, while   *)
(* installers run; and all other calls are as without the JIT.              *)
(***************************************************************************)
THEOREM JitCallsImplemented == JitSpec => ImplementsCalls
<1>1. JitInit => Calling!Init
    BY InitCalls DEF JitInit
<1>2. SInv /\ [JitNext]_allVars /\ SInv' => [Calling!Next]_Activations
    <2> SUFFICES ASSUME SInv, [JitNext]_allVars, SInv'
                 PROVE  Calling!Next \/ Activations' = Activations
        OBVIOUS
    <2>1. CASE CallFunctionViaJit
        <3>1. Fetched /\ Straight /\ status' = "running"
            BY <2>1, ViaJitStraight DEF CallFunctionViaJit, Fetched, Keep
        <3> QED BY <3>1, WorkCalls DEF Calling!Next
    <2>2. CASE [Next]_vars
        BY <2>2, StepCalls
    <2>3. CASE MustJitCompile \/ Installers \/ VMLocks \/ UNCHANGED allVars
        <3>1. UNCHANGED vars
            BY <2>3 DEF MustJitCompile, Installers, InstallerLocks, Install, VMLocks, allVars
        <3> QED BY <2>2, <3>1
    <2>4. CASE OtherInstruction \/ CallFunction \/ ReceiveDone \/ ReportJit
        BY <2>2, <2>4 DEF OtherInstruction, CallFunction, ReceiveDone, ReportJit, Next, Step
    <2> QED BY <2>1, <2>3, <2>4 DEF JitNext, RunGoroutine
<1> QED BY <1>1, <1>2, JitInOrder, PTL DEF JitSpec, ImplementsCalls, Calling!Spec

-----------------------------------------------------------------------------
(***************************************************************************)
(* The mutexes.                                                             *)
(***************************************************************************)
\* The VM holds the mutex of no function but the one it is about to call: when it waits,
\* for the mutex of an installer or for done, it holds none.
VMHolds == \A f \in DOMAIN holder : holder[f] = "vm" => CallsClosure /\ Called = f

\* The VM is at the call of a closure.
AtCall ==
    /\ status = "running" /\ Top.pc <= Len(TopCode) /\ Ins.op = "OpCall"
    /\ sp - Ins.a - 1 \in 0..(StackSize - 1)
    /\ Callee[1] = "CLOSURE" /\ CalleeFn.numParams = Ins.a

LEMMA AtCallIs == CallsClosure <=> AtCall
BY DEF CallsClosure, AtCall, Fetch, Fetched, InBounds

MutexesInOrder ==
    /\ holder \in [DOMAIN prog.fns -> {"none", "vm", "installer"}]
    /\ \A f \in DOMAIN prog.fns : holder[f] = "vm" => AtCall /\ Called = f

\* The function that is called is one of the program.
LEMMA CalledIsFunction ==
    ASSUME SInv, CallsClosure
    PROVE  Called \in DOMAIN prog.fns
<1>1. /\ Ins.op = "OpCall" /\ sp - Ins.a - 1 \in 0..(StackSize - 1)
      /\ Callee[1] = "CLOSURE" /\ IInv
    BY DEF CallsClosure, Fetch, InBounds, SInv
<1>2. Ins.a \in Nat /\ sp \in Nat /\ stack \in [0..(StackSize - 1) -> Object]
    BY <1>1, CurrentInstruction DEF CallsClosure, Fetch, SInv, Instruction, IInv, Registers
<1>3. Callee \in Object
    BY <1>1, <1>2 DEF Callee, Peek
<1>4. Callee[2] \in 1..Len(closures)
    BY <1>1, <1>3, ObjectLiterals, HeapSizes
<1>5. closures[Callee[2]] \in [fn : DOMAIN prog.fns, free : Seq(Object)]
    BY <1>1, <1>4, ElementOfSeq DEF IInv, Memory
<1> QED BY <1>5 DEF Called

\* The steps of the other goroutines leave the machine and the VM's mutex alone.
LEMMA MachineKept ==
    ASSUME MutexesInOrder, UNCHANGED vars,
           holder' \in [DOMAIN prog.fns -> {"none", "vm", "installer"}],
           \A f \in DOMAIN prog.fns : holder'[f] = "vm" => holder[f] = "vm"
    PROVE  MutexesInOrder'
<1>1. UNCHANGED <<prog, AtCall, Called>>
    BY DEF vars, AtCall, Called, Top, TopCode, Ins, FnOf, Fn, Callee, CalleeFn, Peek
<1> QED BY <1>1 DEF MutexesInOrder

\* No step changes the program.
LEMMA ProgramKept == Next => prog' = prog
<1>1. OpConstant \/ OpClosure \/ OpSingleton \/ OpInfix \/ OpBang \/ OpMinus \/ OpPop \/ OpJump
        \/ OpJumpNotTruthy \/ OpSetGlobal \/ OpGetGlobal \/ OpSetLocal \/ OpGetLocal => prog' = prog
    BY Zenon DEF OpConstant, OpClosure, OpSingleton, OpInfix, OpBang, OpMinus, OpPop, OpJump, OpJumpNotTruthy,
           OpSetGlobal, OpGetGlobal, OpSetLocal, OpGetLocal, Pure, InFrame
<1>2. OpGetBuiltin \/ OpGetFree \/ OpCurrentClosure \/ OpArray \/ OpHash \/ OpIndex \/ OpReturn
        \/ CallClosure \/ CallFails \/ CallsBuiltin => prog' = prog
    BY Zenon DEF OpGetBuiltin, OpGetFree, OpCurrentClosure, OpArray, OpHash, OpIndex, OpReturn,
           CallClosure, CallFails, CallsBuiltin, Pure, InFrame
<1>3. IndexOutOfRange \/ EndOfCode \/ Report => prog' = prog
    BY DEF IndexOutOfRange, EndOfCode, Report, Silent
<1> QED BY <1>1, <1>2, <1>3 DEF Next, Step

LEMMA JitMutexesInOrder ==
    ASSUME SInv, MutexesInOrder, [JitNext]_allVars
    PROVE  MutexesInOrder'
<1>1. holder \in [DOMAIN prog.fns -> {"none", "vm", "installer"}]
    BY DEF MutexesInOrder
<1>2. CASE UNCHANGED allVars \/ MustJitCompile
    BY <1>1, <1>2, MachineKept DEF allVars, jitVars, MustJitCompile
<1>3. CASE Installers
    <2>1. PICK f \in DOMAIN holder : InstallerLocks(f) \/ Install(f)
        BY <1>3 DEF Installers
    <2>2. /\ UNCHANGED vars
          /\ \/ holder' = [holder EXCEPT ![f] = "installer"]
             \/ holder' = [holder EXCEPT ![f] = "none"]
        BY <2>1 DEF InstallerLocks, Install
    <2> QED BY <1>1, <2>2, MachineKept
\* The VM takes a mutex only when it holds none.
<1>4. CASE VMLocks
    <2>1. /\ AtCall /\ holder[Called] = "none" /\ UNCHANGED vars
          /\ holder' = [holder EXCEPT ![Called] = "vm"] /\ Called \in DOMAIN prog.fns
        BY <1>4, AtCallIs, CalledIsFunction DEF VMLocks
    <2>2. UNCHANGED <<prog, AtCall, Called>>
        BY <2>1 DEF vars, AtCall, Called, Top, TopCode, Ins, FnOf, Fn, Callee, CalleeFn, Peek
    <2> QED BY <1>1, <2>1, <2>2 DEF MutexesInOrder
\* It ends a call without one, and every other step of its begins without.
<1>5. CASE CallFunction \/ CallFunctionViaJit
    <2>1. CallsClosure /\ holder' = [holder EXCEPT ![Called] = "none"] /\ prog' = prog
        BY <1>5, ProgramKept DEF CallFunction, CallFunctionViaJit, Locked, Unlock, Next, Step
    <2>2. holder' \in [DOMAIN prog.fns -> {"none", "vm", "installer"}]
        BY <1>1, <2>1
    <2>3. \A f \in DOMAIN prog.fns : holder'[f] # "vm"
        BY <1>1, <2>1, CalledIsFunction DEF MutexesInOrder
    <2> QED BY <2>1, <2>2, <2>3 DEF MutexesInOrder
<1>6. CASE OtherInstruction \/ ReceiveDone \/ ReportJit
    <2>1. ~CallsClosure /\ holder' = holder /\ prog' = prog
        <3>1. Next /\ holder' = holder
            BY <1>6 DEF OtherInstruction, ReceiveDone, ReportJit, Next, Step, jitVars
        <3>2. ~CallsClosure
            <4>1. CASE OtherInstruction
                BY <4>1 DEF OtherInstruction
            <4>2. CASE ReceiveDone
                BY <4>2, CurrentFrame DEF ReceiveDone, AtEnd, CallsClosure, Fetch, Fetched
            <4>3. CASE ReportJit
                BY <4>3 DEF ReportJit, Report, CallsClosure, Fetch, Fetched
            <4> QED BY <1>6, <4>1, <4>2, <4>3
        <3> QED BY <3>1, <3>2, ProgramKept
    <2> QED BY <1>1, <2>1, AtCallIs DEF MutexesInOrder
<1> QED BY <1>2, <1>3, <1>4, <1>5, <1>6 DEF JitNext, RunGoroutine

(***************************************************************************)
(* The VM waits with empty hands: it takes a function's mutex right before   *)
(* the call and gives it back with the call.  While it waits for the mutex   *)
(* of an installer, or for done at its end, it holds no mutex that another   *)
(* goroutine could be waiting for (callFunctionViaJit and Run, vm/vm.go).    *)
(***************************************************************************)
THEOREM WaitsWithoutMutex == JitSpec => []VMHolds
<1>1. JitInit => SInv /\ MutexesInOrder
    BY InitInOrder DEF JitInit, MutexesInOrder
<1>2. SInv /\ MutexesInOrder /\ [JitNext]_allVars => SInv' /\ MutexesInOrder'
    BY JitNextInOrder, JitMutexesInOrder
<1>3. MutexesInOrder => VMHolds
    BY AtCallIs DEF MutexesInOrder, VMHolds
<1> QED BY <1>1, <1>2, <1>3, PTL DEF JitSpec

-----------------------------------------------------------------------------
(***************************************************************************)
(* What is compiled.                                                        *)
(***************************************************************************)
NullFunctions == {f \in DOMAIN prog.fns : Compilable(f)}

\* The functions that have machine code, or are about to.
OnlyNullCompiled ==
    /\ compiled \in 0..Len(Consts)
    /\ DOMAIN holder = DOMAIN prog.fns
    /\ installing \cup machineCode \subseteq NullFunctions
    /\ \A f \in DOMAIN holder : holder[f] = "installer" => f \in NullFunctions

\* A function constant names a function of the program.
LEMMA FunctionConstants ==
    ASSUME WellFormed(prog), NEW k \in 0..(Len(Consts) - 1), IsFunctionConst(k)
    PROVE  Consts[k + 1][2] \in DOMAIN prog.fns
<1> DEFINE C == ({"INTEGER"} \X Int \X { <<>> })
                    \cup ({"STRING"} \X {0} \X Seq(Int))
                    \cup ({"COMPILED_FUNCTION"} \X (DOMAIN prog.fns) \X { <<>> })
<1>1. Consts \in Seq(C)
    BY DEF WellFormed, Consts
<1>2. k + 1 \in 1..Len(Consts)
    BY <1>1, LenProperties
<1>3. Consts[k + 1] \in C
    BY <1>1, <1>2, ElementOfSeq
<1> QED BY <1>3 DEF IsFunctionConst

LEMMA OnlyNullStep ==
    SInv /\ MutexesInOrder /\ OnlyNullCompiled /\ [JitNext]_allVars => OnlyNullCompiled'
<1> SUFFICES ASSUME SInv, MutexesInOrder, OnlyNullCompiled, [JitNext]_allVars
             PROVE  OnlyNullCompiled'
    OBVIOUS
<1>1. /\ WellFormed(prog) /\ Len(Consts) \in Nat
      /\ holder \in [DOMAIN prog.fns -> {"none", "vm", "installer"}]
    BY Parameters, LenProperties DEF SInv, IInv, Consts, MutexesInOrder
<1>2. ASSUME prog' = prog
      PROVE  NullFunctions' = NullFunctions /\ Consts' = Consts
    BY <1>2 DEF NullFunctions, Compilable, Fn, Consts
<1>3. CASE UNCHANGED allVars
    BY <1>2, <1>3 DEF OnlyNullCompiled, allVars, vars, jitVars
<1>4. CASE MustJitCompile
    <2>1. /\ prog' = prog /\ UNCHANGED <<holder, machineCode>>
          /\ compiled < Len(Consts) /\ compiled' = compiled + 1
          /\ compiled \in 0..(Len(Consts) - 1)
        BY <1>1, <1>4 DEF MustJitCompile, vars, OnlyNullCompiled
    <2>2. installing' \subseteq NullFunctions
        <3>1. CASE IsFunctionConst(compiled) /\ Compilable(Consts[compiled + 1][2])
            <4>1. Consts[compiled + 1][2] \in NullFunctions
                BY <1>1, <2>1, <3>1, FunctionConstants DEF NullFunctions
            <4>2. installing' = installing \cup {Consts[compiled + 1][2]}
                BY <1>4, <3>1 DEF MustJitCompile
            <4> QED BY <4>1, <4>2 DEF OnlyNullCompiled
        <3>2. CASE ~(IsFunctionConst(compiled) /\ Compilable(Consts[compiled + 1][2]))
            BY <1>4, <3>2 DEF MustJitCompile, OnlyNullCompiled
        <3> QED BY <3>1, <3>2
    <2> QED BY <1>1, <1>2, <2>1, <2>2 DEF OnlyNullCompiled
<1>5. CASE Installers
    <2>1. PICK f \in DOMAIN holder : InstallerLocks(f) \/ Install(f)
        BY <1>5 DEF Installers
    <2>2. /\ prog' = prog /\ compiled' = compiled /\ f \in NullFunctions
          /\ installing' \subseteq installing /\ machineCode' \subseteq machineCode \cup {f}
          /\ \/ holder' = [holder EXCEPT ![f] = "installer"]
             \/ holder' = [holder EXCEPT ![f] = "none"]
        BY <2>1 DEF InstallerLocks, Install, vars, OnlyNullCompiled
    <2>3. \A g \in DOMAIN holder : holder'[g] = "installer" => g \in NullFunctions
        BY <1>1, <2>2 DEF OnlyNullCompiled
    <2> QED BY <1>1, <1>2, <2>2, <2>3 DEF OnlyNullCompiled
<1>6. CASE RunGoroutine
    <2>1. /\ prog' = prog /\ UNCHANGED <<compiled, installing, machineCode>>
          /\ \/ holder' = holder
             \/ \E f, who : who # "installer" /\ holder' = [holder EXCEPT ![f] = who]
        BY <1>6, ProgramKept
           DEF RunGoroutine, OtherInstruction, VMLocks, CallFunction, CallFunctionViaJit,
               ReceiveDone, ReportJit, Unlock, jitVars, vars, Next, Step
    <2>2. DOMAIN holder' = DOMAIN holder
          /\ \A g \in DOMAIN holder : holder'[g] = "installer" => holder[g] = "installer"
        BY <1>1, <2>1
    <2> QED BY <1>2, <2>1, <2>2 DEF OnlyNullCompiled
<1> QED BY <1>3, <1>4, <1>5, <1>6 DEF JitNext

(***************************************************************************)
(* Machine code is installed only for functions whose whole body is the     *)
(* return of null: a function that does anything else is interpreted at     *)
(* every call, whenever and by whichever installer the code was put there.   *)
(***************************************************************************)
THEOREM OnlyNullHasCode == JitSpec => [](machineCode \subseteq NullFunctions)
<1>1. JitInit => SInv /\ MutexesInOrder /\ OnlyNullCompiled
    <2>1. Init => Len(Consts) \in Nat
        BY InitInOrder, Parameters, LenProperties DEF SInv, IInv, Consts
    <2> QED BY <2>1, InitInOrder DEF JitInit, MutexesInOrder, OnlyNullCompiled
<1>2. SInv /\ MutexesInOrder /\ OnlyNullCompiled /\ [JitNext]_allVars
        => SInv' /\ MutexesInOrder' /\ OnlyNullCompiled'
    BY JitNextInOrder, JitMutexesInOrder, OnlyNullStep
<1>3. OnlyNullCompiled => machineCode \subseteq NullFunctions
    BY DEF OnlyNullCompiled
<1> QED BY <1>1, <1>2, <1>3, PTL DEF JitSpec
=============================================================================
