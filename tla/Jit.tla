--------------------------------- MODULE Jit ---------------------------------
(***************************************************************************)
(* The VM with the experimental JIT enabled (experimental/jit, and Run and   *)
(* callFunctionViaJit of vm/vm.go), on darwin/arm64.                        *)
(*                                                                         *)
(* Beside the goroutine of Run there is one that visits the constants and    *)
(* compiles the functions it can, and for each of those one that installs    *)
(* the machine code under the function's mutex.  The VM takes that mutex at  *)
(* every call.  Before Run returns nil it receives from done, which has no   *)
(* buffer; when it returns an error it does not.  What the machine code does *)
(* is modelled by what its instructions, the stores among them commented     *)
(* out, do to the stack: nothing.                                           *)
(***************************************************************************)
EXTENDS StackDiscipline

VARIABLES
    compiled,      \* how many constants JitCompileFunctions has been through
    sent,          \* its send on done has been received
    installing,    \* the functions whose installer has not taken the mutex yet
    holder,        \* who holds the mutex of each function: "none", "vm", "installer"
    machineCode    \* the functions whose MachineCodeInstructions are there
jitVars == <<compiled, sent, installing, holder, machineCode>>

\* compileInstructions makes code for one body only; for any other it returns nil.
Compilable(f) ==
    /\ Len(Fn(f).ins) = 2
    /\ Fn(f).ins[1].op = "OpNull" /\ Fn(f).ins[2].op = "OpReturnValue"

JitInit ==
    /\ Init /\ compiled = 0 /\ sent = FALSE /\ installing = {} /\ machineCode = {}
    /\ holder = [f \in DOMAIN prog.fns |-> "none"]

-----------------------------------------------------------------------------
(***************************************************************************)
(* The goroutines of the JIT.                                               *)
(***************************************************************************)
MustJitCompile ==
    /\ compiled < Len(Consts) /\ compiled' = compiled + 1
    /\ installing' = IF IsFunctionConst(compiled) /\ Compilable(Consts[compiled + 1][2])
                     THEN installing \cup {Consts[compiled + 1][2]} ELSE installing
    /\ UNCHANGED <<vars, sent, holder, machineCode>>

InstallerLocks(f) ==
    /\ f \in installing /\ holder[f] = "none"
    /\ holder' = [holder EXCEPT ![f] = "installer"] /\ installing' = installing \ {f}
    /\ UNCHANGED <<vars, compiled, sent, machineCode>>

\* A faulty Install: the installer ends with the mutex locked.
InstallLocked(f) ==
    /\ holder[f] = "installer" /\ machineCode' = machineCode \cup {f}
    /\ holder' = [holder EXCEPT ![f] = "ended"]
    /\ UNCHANGED <<vars, compiled, sent, installing>>

Install(f) ==
    /\ holder[f] = "installer" /\ machineCode' = machineCode \cup {f}
    /\ holder' = [holder EXCEPT ![f] = "none"]
    /\ UNCHANGED <<vars, compiled, sent, installing>>

-----------------------------------------------------------------------------
(***************************************************************************)
(* The goroutine of Run.                                                    *)
(***************************************************************************)
AtEnd == status = "running" /\ Top.pc > Len(TopCode)
CallsClosure == Fetch({"OpCall"}) /\ Callee[1] = "CLOSURE" /\ CalleeFn.numParams = Ins.a
Called == closures[Callee[2]].fn

OtherInstruction == ~AtEnd /\ ~CallsClosure /\ Step /\ UNCHANGED jitVars

VMLocks ==
    /\ CallsClosure /\ holder[Called] = "none"
    /\ holder' = [holder EXCEPT ![Called] = "vm"]
    /\ UNCHANGED <<vars, compiled, sent, installing, machineCode>>

Locked == CallsClosure /\ holder[Called] = "vm"
Unlock == holder' = [holder EXCEPT ![Called] = "none"]
                /\ UNCHANGED <<compiled, sent, installing, machineCode>>

\* callFunction goes on as without the JIT when there is no machine code, or no slot at
\* sp: taking its address panics, and callFunctionViaJit recovers.
CallFunction ==
    /\ Locked /\ (Called \notin machineCode \/ sp >= StackSize)
    /\ CallClosure \/ CallFails
    /\ Unlock

\* Faulty CallFunctionViaJits: the arguments stay; the callee goes too.
KeepsArguments ==
    /\ Locked /\ Called \in machineCode /\ sp < StackSize
    /\ Advance /\ sp' = sp /\ stack' = [stack EXCEPT ![sp - Ins.a] = stack[sp]]
    /\ UNCHANGED <<prog, globals, frameIndex, closures, arrays, hashes, answer>> /\ Keep
    /\ Unlock

PopsCallee ==
    /\ Locked /\ Called \in machineCode /\ sp < StackSize
    /\ Advance /\ sp' = sp - Ins.a - 1 /\ stack' = [stack EXCEPT ![sp'] = stack[sp]]
    /\ UNCHANGED <<prog, globals, frameIndex, closures, arrays, hashes, answer>> /\ Keep
    /\ Unlock

CallFunctionViaJit ==
    /\ Locked /\ Called \in machineCode /\ sp < StackSize
    /\ Advance /\ sp' = sp - Ins.a /\ stack' = [stack EXCEPT ![sp - Ins.a] = stack[sp]]
    /\ UNCHANGED <<prog, globals, frameIndex, closures, arrays, hashes, answer>> /\ Keep
    /\ Unlock

\* A faulty ReceiveDone: Run returns without waiting.
ReturnAtOnce == AtEnd /\ EndOfCode /\ UNCHANGED jitVars

\* The end of Run, and of JitCompileFunctions with it.
ReceiveDone ==
    /\ AtEnd /\ compiled = Len(Consts) /\ ~sent /\ sent' = TRUE
    /\ EndOfCode /\ UNCHANGED <<compiled, installing, holder, machineCode>>

ReportJit == Report /\ UNCHANGED jitVars

RunGoroutine ==
    OtherInstruction \/ VMLocks \/ CallFunction \/ CallFunctionViaJit
        \/ ReceiveDone \/ ReportJit
Installers == \E f \in DOMAIN holder : InstallerLocks(f) \/ Install(f)

JitNext == RunGoroutine \/ MustJitCompile \/ Installers

allVars == <<vars, jitVars>>
JitSpec == JitInit /\ [][JitNext]_allVars
\* The Go scheduler runs every goroutine that can run.
FairJitSpec ==
    JitSpec /\ WF_allVars(RunGoroutine) /\ WF_allVars(MustJitCompile) /\ WF_allVars(Installers)

-----------------------------------------------------------------------------
(***************************************************************************)
(* Properties, with the invariants of StackDiscipline, which a call through  *)
(* the JIT must keep as an interpreted one does.                            *)
(***************************************************************************)
\* However the goroutines interleave, Run comes to its end: neither the mutexes nor done
\* block it for ever.
RunReturns == <>(status \in {"reported", "panicked"})

\* The send of JitCompileFunctions on done is received exactly when Run returns nil.  When
\* it returns an error or panics, nobody ever receives, and the goroutine is left waiting.
ReturnedNil == status = "returned" /\ reason = "none"
SenderLeftOnErrors == (<>ReturnedNil => <>sent) /\ (<>sent => <>ReturnedNil)

\* Run's result, and the object main then prints, are those of the VM without the JIT,
\* whichever calls found their machine code installed; where the program uses what a call
\* through the JIT yields, they may be the callee instead of null.
SameAnswer ==
    /\ status # "running" => reason \in {prog.expected.reason, "nothing to report"}
    /\ status = "returned" /\ reason = "none" => stack[sp] \in prog.expected.answers
=============================================================================
