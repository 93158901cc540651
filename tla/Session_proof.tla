---------------------------- MODULE Session_proof ----------------------------
(***************************************************************************)
(* The machines of a session: what StackDiscipline promises of one program   *)
(* holds of every line of a session, whatever lines ran before, failed or    *)
(* did not compile, and an earlier line's closures stay what they were.      *)
(*                                                                         *)
(* A step of a line is a step of the VM, so the invariant is the VM's (SInv  *)
(* of StackDiscipline_proof), which speaks of the program that is loaded.    *)
(* What is new is the next line: it must find the heap that the last one     *)
(* left in order for a program it has never run under.                      *)
(***************************************************************************)
EXTENDS Session, StackDiscipline_proof

\* The machine has its main frame only, and nothing on its stack.
FreshMachine ==
    /\ stack = [i \in 0..(StackSize - 1) |-> Nil] /\ sp = 0
    /\ frames = [i \in 0..(MaxFrames - 1) |-> NewFrame(1, 0)] /\ frameIndex = 1
    /\ status \in {"running", "reported"} /\ reason = "none"

\* What the lines share is in order for the program at hand.
SharedInOrder ==
    /\ Memory(Object) /\ Len(closures) \in Nat \ {0} /\ closures[1].fn = 0
    /\ ClosuresInOrder /\ CalleesNotMain

\* A verified program with memory in order begins in order.
LEMMA BeginInOrder ==
    WellFormed(prog) /\ VerifiedProgram(prog) /\ FreshMachine /\ SharedInOrder => SInv
<1> SUFFICES ASSUME WellFormed(prog), VerifiedProgram(prog), FreshMachine, SharedInOrder
             PROVE  SInv
    OBVIOUS
<1>1. /\ stack = [i \in 0..(StackSize - 1) |-> Nil] /\ sp = 0
      /\ frames = [i \in 0..(MaxFrames - 1) |-> [cl |-> 1, pc |-> 1, bp |-> 0]]
      /\ frameIndex = 1 /\ status \in {"running", "reported"} /\ reason = "none"
      /\ Memory(Object) /\ Len(closures) \in Nat \ {0} /\ closures[1].fn = 0
    BY DEF FreshMachine, SharedInOrder, NewFrame
<1>2. Nil \in Object
    <2>1. Len(arrays) \in Nat /\ Len(hashes) \in Nat /\ FirstClosure \in Nat
        BY <1>1, LenProperties DEF Memory, FirstClosure
    <2> QED BY <1>1, <2>1, Literals DEF Object
<1>3. Registers(Object)
    BY <1>1, <1>2, Parameters DEF Registers
<1>4. FramesTyped
    BY <1>1, Parameters DEF FramesTyped, Frame
<1>5. IInv
    BY <1>1, <1>3, <1>4 DEF IInv
<1>6. /\ prog.fns[0] \in Function /\ prog.fns[0].numLocals = 0
      /\ Len(prog.fns[0].ins) \in Nat /\ prog.depth[0][1] = 0
    BY MainVerified
<1>7. frames[0] = [cl |-> 1, pc |-> 1, bp |-> 0]
    BY <1>1, Parameters
<1>8. FrameInOrder(0)
    <2>1. /\ Extent(0) = 0 /\ FnNumber(frames[0]) = 0 /\ FnOf(frames[0]) = prog.fns[0]
          /\ DepthOf(frames[0]) = 0
        BY <1>1, <1>6, <1>7 DEF Extent, FnNumber, FnOf, Fn, DepthOf
    <2> QED BY <1>6, <1>7, <2>1 DEF FrameInOrder
<1>9. FramesInOrder
    BY <1>1, <1>8 DEF FramesInOrder
<1>10. CalleeInPlace /\ Running
    BY <1>1, Parameters DEF CalleeInPlace, Running, BasesAscend
<1>11. FailsUntouched /\ CleanEnd
    BY <1>1 DEF FailsUntouched, CleanEnd
<1> QED BY <1>5, <1>9, <1>10, <1>11 DEF SInv, SharedInOrder

\* The session begins in order.
LEMMA SessionBegins == SessionInit => SInv
<1> SUFFICES ASSUME SessionInit PROVE SInv
    OBVIOUS
<1>1. WellFormed(prog) /\ VerifiedProgram(prog) /\ NothingRun
    BY DEF SessionInit
<1>2. /\ closures = <<[fn |-> 0, free |-> <<>>]>> /\ arrays = <<>> /\ hashes = <<>>
      /\ Len(closures) = 1 /\ closures[1].fn = 0 /\ closures[1].free = <<>>
    BY <1>1 DEF NothingRun
<1>3. Nil \in Object /\ NullS \in Object
    <2>1. Len(arrays) \in Nat /\ Len(hashes) \in Nat /\ FirstClosure \in Nat
        BY <1>2 DEF FirstClosure
    <2> QED BY <1>2, <2>1, Literals DEF Object
<1>4. 0 \in DOMAIN prog.fns /\ prog.numFree[0] = 0
    BY <1>1, MainVerified
<1>5. Memory(Object)
    <2>1. globals \in [0..(GlobalsSize - 1) -> Object] /\ answer \in Object
        BY <1>1, <1>3 DEF NothingRun
    <2>2. [fn |-> 0, free |-> <<>>] \in [fn : DOMAIN prog.fns, free : Seq(Object)]
        BY <1>4, EmptySeq
    <2>3. closures \in Seq([fn : DOMAIN prog.fns, free : Seq(Object)])
        BY <1>2, <2>2
    <2>4. arrays \in Seq(Seq(Object)) /\ hashes \in Seq(SUBSET (Object \X Object))
        BY <1>2, EmptySeq
    <2> QED BY <2>1, <2>3, <2>4 DEF Memory
<1>6. SharedInOrder
    BY <1>2, <1>4, <1>5 DEF SharedInOrder, ClosuresInOrder, CalleesNotMain
<1>7. FreshMachine
    BY <1>1 DEF NothingRun, FreshMachine
<1> QED BY <1>1, <1>6, <1>7, BeginInOrder

-----------------------------------------------------------------------------
(***************************************************************************)
(* The next line.                                                           *)
(***************************************************************************)
\* Its program is verified and extends the one before.
NextLine ==
    WellFormed(prog') /\ VerifiedProgram(prog') /\ Extends(prog, prog') /\ LoadLine(prog')

\* The closures of earlier lines find their functions in the new program, unchanged,
\* with as many free variables; its main takes the place of the last one.
LEMMA ClosuresFit ==
    ASSUME SInv, NextLine
    PROVE  \A k \in 1..Len(closures) :
            /\ closures[k].fn \in DOMAIN prog'.fns
            /\ Len(closures[k].free) = prog'.numFree[closures[k].fn]
            /\ k >= 2 => prog'.fns[closures[k].fn] = prog.fns[closures[k].fn]
<1>1. /\ closures \in Seq([fn : DOMAIN prog.fns, free : Seq(Object)])
      /\ Len(closures) \in Nat /\ closures[1].fn = 0
      /\ ClosuresInOrder /\ CalleesNotMain /\ WellFormed(prog) /\ VerifiedProgram(prog)
    BY HeapSizes DEF SInv, IInv, Memory, FramesTyped
<1>2. prog.numFree[0] = 0 /\ prog'.numFree[0] = 0 /\ 0 \in DOMAIN prog'.fns
    BY <1>1, MainVerified DEF NextLine
<1> SUFFICES ASSUME NEW k \in 1..Len(closures)
             PROVE  /\ closures[k].fn \in DOMAIN prog'.fns
                    /\ Len(closures[k].free) = prog'.numFree[closures[k].fn]
                    /\ k >= 2 => prog'.fns[closures[k].fn] = prog.fns[closures[k].fn]
    OBVIOUS
<1>3. CASE k = 1
    BY <1>1, <1>2, <1>3 DEF ClosuresInOrder
<1>4. CASE k >= 2
    <2>1. closures[k] \in [fn : DOMAIN prog.fns, free : Seq(Object)]
        BY <1>1, ElementOfSeq
    <2>2. closures[k].fn \in DOMAIN prog.fns \ {0}
        BY <1>1, <1>4, <2>1 DEF CalleesNotMain
    <2> QED BY <1>1, <2>2 DEF NextLine, Extends, ClosuresInOrder
<1> QED BY <1>3, <1>4

\* A new VM over the globals and the heap of the session begins in order.
LEMMA NextLineInOrder ==
    ASSUME SInv, NextLine
    PROVE  SInv'
<1>1. /\ WellFormed(prog)' /\ VerifiedProgram(prog)'
      /\ UNCHANGED <<globals, closures, arrays, hashes, answer>>
    BY DEF NextLine, LoadLine, NewWithGlobalsStore
<1>2. /\ IInv /\ WellFormed(prog) /\ VerifiedProgram(prog) /\ CalleesNotMain
      /\ closures \in Seq([fn : DOMAIN prog.fns, free : Seq(Object)])
      /\ Len(closures) \in Nat \ {0} /\ closures[1].fn = 0
    BY HeapSizes DEF SInv, IInv, Memory, FramesTyped
<1>3. Object' = Object
    <2>1. FirstClosure = 2
        BY <1>2, MainNoObject
    <2>2. FirstClosure' = 2
        BY <1>1, MainVerified DEF FirstClosure
    <2> QED BY <1>1, <2>1, <2>2 DEF Object
<1>4. closures' \in Seq([fn : DOMAIN prog'.fns, free : Seq(Object)])
    <2> DEFINE C == [fn : DOMAIN prog.fns, free : Seq(Object)]
               D == [fn : DOMAIN prog'.fns, free : Seq(Object)]
    <2>1. \A k \in 1..Len(closures) : closures[k] \in C
        BY <1>2, ElementOfSeq
    <2>2. \A k \in 1..Len(closures) : closures[k] \in D
        BY <2>1, ClosuresFit
    <2>3. closures \in Seq(C) /\ closures' = closures
        BY <1>1, <1>2
    <2> HIDE DEF C, D
    <2>4. closures' \in Seq(D)
        BY <2>2, <2>3
    <2> QED BY <2>4 DEF D
<1>5. Memory(Object)'
    BY <1>1, <1>2, <1>3, <1>4 DEF IInv, Memory
<1>6. ClosuresInOrder' /\ CalleesNotMain'
    BY <1>1, <1>2, ClosuresFit DEF ClosuresInOrder, CalleesNotMain
<1>7. SharedInOrder'
    BY <1>1, <1>2, <1>5, <1>6 DEF SharedInOrder
<1>8. FreshMachine'
    BY <1>2 DEF NextLine, LoadLine, NewWithGlobalsStore, FreshMachine, IInv, Registers, FramesTyped
<1>9. (WellFormed(prog) /\ VerifiedProgram(prog) /\ FreshMachine /\ SharedInOrder => SInv)'
    BY BeginInOrder, PTL
<1> QED BY <1>1, <1>7, <1>8, <1>9

-----------------------------------------------------------------------------
(***************************************************************************)
(* The other steps of a session.                                            *)
(***************************************************************************)
\* A step that leaves the machine alone and does not set it running.
LEMMA PromptStep ==
    ASSUME SInv, Silent, status' \in {"reported", "panicked"},
           answer' \in Object, reason' = reason
    PROVE  SInv'
<1>1. /\ UNCHANGED <<prog, globals, stack, sp, frames, frameIndex, closures, arrays, hashes>>
      /\ IInv /\ WellFormed(prog) /\ status' \notin {"running", "returned"}
    BY DEF Silent, SInv, IInv
<1>2. Object' = Object
    BY <1>1, ObjectKept
<1>3. Registers(Object)' /\ Memory(Object)' /\ FramesTyped'
    BY <1>1, <1>2 DEF IInv, Registers, Memory, FramesTyped
<1>4. IInv'
    BY <1>1, <1>3 DEF IInv
<1>5. VerifiedProgram(prog)' /\ ClosuresInOrder' /\ CalleesNotMain'
    BY <1>1, VerifiedStays DEF SInv, ClosuresInOrder, CalleesNotMain
<1>6. FailsUntouched'
    <2>1. Overrun' = Overrun /\ Untouched' = Untouched
        BY <1>1 DEF Overrun, Untouched, Top, FnOf, Fn
    <2> QED BY <2>1 DEF SInv, FailsUntouched
<1> QED BY <1>1, <1>4, <1>5, <1>6 DEF SInv, FramesInOrder, CalleeInPlace, CleanEnd

\* A line that does not compile leaves the machine as the last line left it.
LEMMA RejectedInOrder ==
    ASSUME SInv, NEW how \in {"reported", "panicked"}, RejectLine(how)
    PROVE  SInv'
<1>1. ErrorObj \in Object
    BY HeapSizes, Literals DEF SInv, Object
<1> QED BY <1>1, PromptStep DEF RejectLine

\* After an error of Run only the error is printed.
LEMMA AnsweredInOrder ==
    ASSUME SInv, AnswerLine
    PROVE  SInv'
<1>1. CASE Report
    BY <1>1, NextInOrder DEF Next
<1>2. CASE Stop("reported", reason) /\ Silent /\ UNCHANGED answer
    BY <1>2, PromptStep DEF SInv, IInv, Memory, Stop
<1> QED BY <1>1, <1>2 DEF AnswerLine

\* Every step of a session preserves the invariant.
LEMMA SessionStep == SInv /\ [SessionNext]_vars => SInv'
<1> SUFFICES ASSUME SInv, [SessionNext]_vars PROVE SInv'
    OBVIOUS
<1>1. CASE NextLine
    BY <1>1, NextLineInOrder
<1>2. CASE \E how \in {"reported", "panicked"} : RejectLine(how)
    BY <1>2, RejectedInOrder
<1>3. CASE Step \/ UNCHANGED vars
    BY <1>3, NextInOrder DEF Next
<1>4. CASE AnswerLine
    BY <1>4, AnsweredInOrder
<1> QED BY <1>1, <1>2, <1>3, <1>4 DEF SessionNext, NextLine

\* So it holds throughout.
LEMMA SessionInOrder == SessionSpec => []SInv
<1>1. SessionInit => SInv
    BY SessionBegins
<1>2. SInv /\ [SessionNext]_vars => SInv'
    BY SessionStep
<1> QED BY <1>1, <1>2, PTL DEF SessionSpec

-----------------------------------------------------------------------------
(***************************************************************************)
(* Theorems.                                                                *)
(***************************************************************************)
(***************************************************************************)
(* Through all lines of a session every global, and every slot of every      *)
(* container, closure and stack, holds an object whose position in the heap  *)
(* exists: the machine of one line leaves nothing dangling to the next.      *)
(***************************************************************************)
THEOREM SessionTyped == SessionSpec => []TypeOK
<1>1. SInv => TypeOK
    BY IInvImpliesTypeOK DEF SInv
<1> QED BY <1>1, SessionInOrder, PTL

(***************************************************************************)
(* Whatever ran before, failed halfway or did not compile, the frames of a   *)
(* line are in order on its stack, with every callee below its frame: a      *)
(* function of an earlier line finds its locals and its operands.           *)
(***************************************************************************)
THEOREM SessionStackInOrder == SessionSpec => [](FramesInOrder /\ CalleeInPlace)
<1>1. SInv => FramesInOrder /\ CalleeInPlace
    BY DEF SInv
<1> QED BY <1>1, SessionInOrder, PTL

(***************************************************************************)
(* The code of the next line agrees with the closures of all lines before on *)
(* how many variables their functions capture.                              *)
(***************************************************************************)
THEOREM SessionClosuresComplete == SessionSpec => []ClosuresInOrder
<1>1. SInv => ClosuresInOrder
    BY DEF SInv
<1> QED BY <1>1, SessionInOrder, PTL

(***************************************************************************)
(* No line makes the VM index a slice out of its bounds, those of constants  *)
(* and functions of earlier lines among them, but on the stack of a function *)
(* whose locals did not fit; a line that ends without an error leaves an     *)
(* empty stack, and what it prints is what its last statement popped.        *)
(***************************************************************************)
THEOREM SessionBounds == SessionSpec => [](BoundsRespected /\ CleanEnd)
<1>1. SInv => BoundsRespected /\ CleanEnd
    BY SInvImpliesBounds DEF SInv
<1> QED BY <1>1, SessionInOrder, PTL

\* A step of a line keeps the program, and adds at most a closure.
LEMMA LineStep ==
    ASSUME SInv, Step
    PROVE  prog' = prog /\ ClosuresGrow
<1>1. IInv'
    BY NextType DEF SInv, Next
<1>2. CASE Straight
    BY <1>2 DEF Straight
<1>3. OpReturn \/ CallClosure \/ IndexOutOfRange \/ EndOfCode =>
        UNCHANGED <<prog, closures>>
    BY DEF OpReturn, CallClosure, IndexOutOfRange, EndOfCode, Silent
<1> QED
    BY <1>1, <1>2, <1>3, PushersStraight, OperatorsStraight, PoppersStraight,
       JumpsStraight, ClosureStraight, ContainersStraight, CallsStraight
    DEF Step, ClosuresGrow

\* Nothing is taken back: neither a step of a line nor the next line changes what
\* an existing closure is or does.
LEMMA Settled ==
    ASSUME SInv, [SessionNext]_vars
    PROVE  /\ IsPrefix(prog.consts, prog'.consts)
           /\ \A k \in 2..Len(closures) :
                /\ k <= Len(closures') /\ closures'[k] = closures[k]
                /\ prog'.fns[closures[k].fn] = prog.fns[closures[k].fn]
<1>1. /\ Len(prog.consts) \in Nat /\ Len(closures) \in Nat
      /\ closures \in Seq([fn : DOMAIN prog.fns, free : Seq(Object)])
    BY HeapSizes, Parameters, LenProperties DEF SInv, IInv, Memory
<1>2. CASE prog' = prog /\ ClosuresGrow
    <2>1. IsPrefix(prog.consts, prog'.consts)
        BY <1>1, <1>2 DEF IsPrefix
    <2>2. \A k \in 1..Len(closures) : closures'[k] = closures[k]
        BY <1>2, ClosuresKept
    <2>3. Len(closures') \in Nat /\ Len(closures) <= Len(closures')
        BY <1>1, <1>2 DEF ClosuresGrow
    <2> QED BY <1>1, <1>2, <2>1, <2>2, <2>3
<1>3. CASE NextLine
    <2>1. closures' = closures
        BY <1>3 DEF NextLine, LoadLine, NewWithGlobalsStore
    <2>2. IsPrefix(prog.consts, prog'.consts)
        BY <1>3 DEF NextLine, Extends
    <2> QED BY <1>1, <1>3, <2>1, <2>2, ClosuresFit
<1>4. CASE (\E how \in {"reported", "panicked"} : RejectLine(how)) \/ AnswerLine \/ UNCHANGED vars
    <2>1. prog' = prog /\ closures' = closures
        BY <1>4 DEF RejectLine, AnswerLine, Report, Silent, vars
    <2> QED BY <1>2, <2>1 DEF ClosuresGrow
<1> QED BY <1>2, <1>3, <1>4, LineStep DEF SessionNext, NextLine

(***************************************************************************)
(* What a call does is settled when the function literal is evaluated: the   *)
(* closure keeps its function and captured values, the function its code,    *)
(* and the code the constants it names, whatever lines follow.              *)
(***************************************************************************)
THEOREM ClosuresStaySettled == SessionSpec => ClosuresSettled
<1> DEFINE Kept ==
    /\ IsPrefix(prog.consts, prog'.consts)
    /\ \A k \in 2..Len(closures) :
        /\ k <= Len(closures') /\ closures'[k] = closures[k]
        /\ prog'.fns[closures[k].fn] = prog.fns[closures[k].fn]
<1>1. SInv /\ [SessionNext]_vars => [Kept]_vars
    BY Settled
<1> QED BY <1>1, SessionInOrder, PTL DEF SessionSpec, ClosuresSettled

\* A state in which a line has just been loaded.
LEMMA FreshAfter ==
    /\ status' = "running" /\ frameIndex' = 1 /\ sp' = 0
    /\ frames'[0] = [cl |-> 1, pc |-> 1, bp |-> 0]
    => Activations' = <<Calling!MainActivation>>
<1>1. (/\ status = "running" /\ frameIndex = 1 /\ sp = 0
       /\ frames[0] = [cl |-> 1, pc |-> 1, bp |-> 0]
       => Activations = <<Calling!MainActivation>>)'
    BY FreshCalls, PTL
<1> QED BY <1>1 DEF Calling!MainActivation

(***************************************************************************)
(* Every line is a call stack of its own: whatever lines came before, its    *)
(* functions find their arguments, locals and results as they were left.     *)
(***************************************************************************)
THEOREM SessionCallsImplemented == SessionSpec => ImplementsCalls
<1>1. SessionInit => Calling!Init
    BY DEF SessionInit, NothingRun, Activations, Calling!Init
<1>2. SInv /\ [SessionNext]_vars /\ SInv' => [Calling!Next]_Activations
    <2> SUFFICES ASSUME SInv, [SessionNext]_vars, SInv'
                 PROVE  Calling!Next \/ Activations' = Activations
        OBVIOUS
    <2>1. CASE NextLine
        <3>1. Activations = <<>>
            BY <2>1 DEF NextLine, LoadLine, Activations
        <3>2. /\ status' = "running" /\ frameIndex' = 1 /\ sp' = 0
              /\ frames' = [i \in DOMAIN frames |-> NewFrame(1, 0)]
            BY <2>1 DEF NextLine, LoadLine, NewWithGlobalsStore
        <3>3. frames'[0] = [cl |-> 1, pc |-> 1, bp |-> 0]
            BY <3>2, Parameters DEF SInv, IInv, FramesTyped, NewFrame
        <3>4. Activations' = <<Calling!MainActivation>>
            BY <3>2, <3>3, FreshAfter
        <3> QED BY <3>1, <3>4 DEF Calling!Begin, Calling!Next
    <2>2. CASE (\E how \in {"reported", "panicked"} : RejectLine(how)) \/ AnswerLine
        <3>1. status # "running" /\ status' # "running"
            BY <2>2 DEF RejectLine, AnswerLine, Report, Stop
        <3> QED BY <3>1 DEF Activations
    <2>3. CASE Step \/ UNCHANGED vars
        BY <2>3, StepCalls DEF Next
    <2> QED BY <2>1, <2>2, <2>3 DEF SessionNext, NextLine
<1> QED BY <1>1, <1>2, SessionInOrder, PTL DEF SessionSpec, ImplementsCalls, Calling!Spec
=============================================================================
