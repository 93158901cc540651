------------------------ MODULE StackDiscipline_proof ------------------------
(***************************************************************************)
(* The machine keeps its stack in order on verified code, for every program *)
(* and every limit: the properties of StackDiscipline, as theorems.         *)
(*                                                                         *)
(* The frames lie on the stack one above the other, each as deep as the      *)
(* annotation of its code says (FramesInOrder).  That a step of the running  *)
(* function leaves the other frames alone needs that their bases lie below   *)
(* its own, strictly: a suspended frame keeps at least its callee's slot.   *)
(***************************************************************************)
EXTENDS StackDiscipline, VM_proof

BasesAscend ==
    \A i, j \in 0..(frameIndex - 1) : i < j => frames[i].bp < frames[j].bp

\* Only main's closure, which is no object, is of the main function.
CalleesNotMain == \A k \in 2..Len(closures) : closures[k].fn # 0

Running == BasesAscend /\ reason = "none" /\ (sp <= StackSize \/ Untouched)

FailsUntouched == reason = "index out of range" => Overrun /\ Untouched

SInv ==
    /\ IInv /\ VerifiedProgram(prog)
    /\ ClosuresInOrder /\ CalleesNotMain /\ FramesInOrder /\ CalleeInPlace
    /\ status = "running" => Running
    /\ FailsUntouched /\ CleanEnd

\* What the verification of a program says of its main function.
LEMMA MainVerified ==
    ASSUME NEW p, WellFormed(p), VerifiedProgram(p)
    PROVE  /\ 0 \in DOMAIN p.fns /\ p.fns[0] \in Function /\ p.fns[0].numLocals = 0
           /\ Len(p.fns[0].ins) \in Nat /\ p.numFree[0] = 0 /\ p.depth[0][1] = 0
           /\ \A pc \in 1..Len(p.fns[0].ins) : p.fns[0].ins[pc].op # "OpCurrentClosure"
<1>1. 0 \in DOMAIN p.fns /\ p.fns[0] \in Function /\ p.fns[0].numLocals = 0
    BY Parameters
<1>2. p.numFree[0] = 0 /\ FunctionVerified(p.fns, p.consts, p.numFree, p.depth, 0)
    BY <1>1 DEF VerifiedProgram, Verified
<1>3. Len(p.fns[0].ins) \in Nat
    BY <1>1, LenProperties DEF Function
<1>4. /\ p.depth[0][1] = 0
      /\ \A pc \in 1..((Len(p.fns[0].ins) + 1) - 1) :
            p.fns[0].ins[pc].op # "OpCurrentClosure"
    BY <1>2 DEF FunctionVerified
<1> QED BY <1>1, <1>2, <1>3, <1>4

\* So main's closure is not an object.
LEMMA MainNoObject ==
    ASSUME WellFormed(prog), VerifiedProgram(prog)
    PROVE  FirstClosure = 2
BY MainVerified DEF FirstClosure

\* A run keeps to its program.
LEMMA VerifiedStays == ASSUME SInv, prog' = prog PROVE VerifiedProgram(prog)'
<1>1. VerifiedProgram(prog)
    BY DEF SInv
<1> QED BY <1>1

-----------------------------------------------------------------------------
(***************************************************************************)
(* The instruction at hand, and what its verification says of it.           *)
(***************************************************************************)
VerifiedFn(f) == FunctionVerified(prog.fns, prog.consts, prog.numFree, prog.depth, f)

\* The program is verified, and so is each of its functions.
LEMMA ProgramVerified ==
    ASSUME VerifiedProgram(prog)
    PROVE  /\ Verified(prog.fns, prog.consts, prog.numFree, prog.depth)
           /\ \A f \in DOMAIN prog.fns : VerifiedFn(f)
BY DEF VerifiedProgram, Verified, VerifiedFn

\* The running function has its locals and the operands the annotation counts.
LEMMA CurrentFrame ==
    ASSUME SInv, status = "running"
    PROVE  /\ frameIndex \in 1..MaxFrames /\ FnNumber(Top) \in DOMAIN prog.fns
           /\ FnOf(Top) = prog.fns[FnNumber(Top)]
           /\ VerifiedFn(FnNumber(Top))
           /\ Top.pc \in 1..(Len(TopCode) + 1) /\ Len(TopCode) \in Nat
           /\ DepthOf(Top) \in Nat /\ Top.bp \in Nat /\ FnOf(Top).numLocals \in Nat
           /\ sp = Top.bp + FnOf(Top).numLocals + DepthOf(Top)
           /\ frameIndex = 1 => Top.bp = 0 /\ FnNumber(Top) = 0
           /\ frameIndex # 1 => Top.bp >= 1 /\ FnNumber(Top) # 0
<1>1. IInv /\ FramesInOrder /\ VerifiedProgram(prog)
    BY DEF SInv
<1>2. /\ Top \in Frame /\ Top.cl \in 1..Len(closures) /\ FnOf(Top) \in Function
      /\ closures[Top.cl].fn \in DOMAIN prog.fns
    BY <1>1, Context
<1>3. frameIndex \in 1..MaxFrames
    BY <1>1, Parameters DEF IInv, FramesTyped
<1>4. FrameInOrder(frameIndex - 1)
    BY <1>1, <1>3, Parameters DEF FramesInOrder
<1>5. VerifiedFn(FnNumber(Top))
    BY <1>1, <1>2, ProgramVerified DEF FnNumber
<1>6. FnOf(Top) = prog.fns[FnNumber(Top)]
    BY DEF FnOf, Fn, FnNumber
<1>7. TopCode = FnOf(Top).ins /\ Len(TopCode) \in Nat
    BY <1>2, LenProperties DEF TopCode, Function
<1>8. /\ Top.pc \in 1..(Len(TopCode) + 1) /\ DepthOf(Top) >= 0
      /\ sp = Top.bp + FnOf(Top).numLocals + DepthOf(Top)
      /\ IF frameIndex - 1 = 0 THEN Top.bp = 0 /\ FnNumber(Top) = 0
                               ELSE Top.bp >= 1 /\ FnNumber(Top) # 0
    BY <1>4, <1>7 DEF FrameInOrder, Top, Extent
<1>9. DepthOf(Top) \in Int
    BY <1>5, <1>6, <1>7, <1>8 DEF VerifiedFn, FunctionVerified, DepthOf
<1>10. Top.bp \in Nat /\ FnOf(Top).numLocals \in Nat /\ FnNumber(Top) \in DOMAIN prog.fns
    BY <1>2 DEF Frame, Function, FnNumber
<1>11. frameIndex - 1 = 0 <=> frameIndex = 1
    BY <1>3, Parameters
<1>12. DepthOf(Top) \in Nat
    BY <1>8, <1>9
<1> QED BY <1>3, <1>5, <1>6, <1>7, <1>8, <1>10, <1>11, <1>12

\* It has the operands the instruction takes, and each way to go on finds the depth
\* its annotation says.
LEMMA CurrentInstruction ==
    ASSUME SInv, Fetched
    PROVE  /\ Ins \in Instruction /\ Pops(Ins) \in Nat /\ Pushes(Ins) \in {0, 1}
           /\ Pops(Ins) <= DepthOf(Top)
           /\ sp - Pops(Ins) >= Top.bp + FnOf(Top).numLocals
           /\ OperandsExist(prog.fns, prog.consts, prog.numFree, FnNumber(Top), Ins)
           /\ \A s \in Successors(Ins, Top.pc) :
                /\ s \in 1..(Len(TopCode) + 1)
                /\ prog.depth[FnNumber(Top)][s] = DepthOf(Top) - Pops(Ins) + Pushes(Ins)
<1>1. status = "running" /\ Top.pc <= Len(TopCode) /\ IInv
    BY DEF Fetched, SInv
<1>2. Ins \in Instruction
    BY <1>1, InstructionType
<1>3. Pops(Ins) \in Nat /\ Pushes(Ins) \in {0, 1}
    BY <1>2 DEF Pops, Pushes, Instruction
<1>4. /\ VerifiedFn(FnNumber(Top)) /\ FnOf(Top) = prog.fns[FnNumber(Top)]
      /\ TopCode = prog.fns[FnNumber(Top)].ins
      /\ Top.pc \in 1..Len(TopCode) /\ Len(TopCode) \in Nat
      /\ DepthOf(Top) \in Nat /\ Top.bp \in Nat /\ FnOf(Top).numLocals \in Nat
      /\ sp = Top.bp + FnOf(Top).numLocals + DepthOf(Top)
    BY <1>1, CurrentFrame DEF TopCode
<1>5. InstructionVerified(prog.fns, prog.consts, prog.numFree, prog.depth,
                          FnNumber(Top), Top.pc)
    <2>1. Top.pc \in 1..((Len(prog.fns[FnNumber(Top)].ins) + 1) - 1)
        BY <1>4
    <2>2. prog.depth[FnNumber(Top)][Top.pc] >= 0
        BY <1>4 DEF DepthOf
    <2> QED BY <1>4, <2>1, <2>2 DEF VerifiedFn, FunctionVerified
<1>6. Ins = prog.fns[FnNumber(Top)].ins[Top.pc]
    BY <1>4 DEF Ins
<1>7. /\ Pops(Ins) <= DepthOf(Top)
      /\ OperandsExist(prog.fns, prog.consts, prog.numFree, FnNumber(Top), Ins)
      /\ \A s \in Successors(Ins, Top.pc) :
                /\ s \in 1..(Len(TopCode) + 1)
                /\ prog.depth[FnNumber(Top)][s] = DepthOf(Top) - Pops(Ins) + Pushes(Ins)
    BY <1>4, <1>5, <1>6 DEF InstructionVerified, DepthOf
<1> QED BY <1>2, <1>3, <1>4, <1>7

\* When its locals did not fit, it has no operand.
LEMMA OverrunUntouched ==
    ASSUME SInv, status = "running", Overrun
    PROVE  Untouched
<1>1. /\ sp = Top.bp + FnOf(Top).numLocals + DepthOf(Top)
      /\ Top.bp \in Nat /\ FnOf(Top).numLocals \in Nat /\ DepthOf(Top) \in Nat
    BY CurrentFrame
<1>2. (sp <= StackSize \/ Untouched) /\ StackSize \in Nat
    BY Parameters DEF SInv, Running
<1> QED BY <1>1, <1>2 DEF Overrun

LEMMA SInvImpliesBounds == SInv => BoundsRespected
BY OverrunUntouched DEF SInv, FailsUntouched, BoundsRespected

(***************************************************************************)
(* Verified code stays within its slices.                                   *)
(***************************************************************************)
LEMMA WithinBounds ==
    ASSUME SInv, Fetched, ~Overrun
    PROVE  InBounds
<1>1. /\ status = "running" /\ IInv /\ ClosuresInOrder /\ sp <= StackSize
    <2>1. status = "running" /\ IInv /\ ClosuresInOrder /\ (sp <= StackSize \/ Untouched)
        BY DEF Fetched, SInv, Running
    <2>2. Top.bp \in Nat /\ FnOf(Top).numLocals \in Nat /\ StackSize \in Nat
        BY <2>1, CurrentFrame, Parameters
    <2> QED BY <2>1, <2>2 DEF Overrun, Untouched
<1>2. /\ Ins \in Instruction /\ Pops(Ins) \in Nat
      /\ sp - Pops(Ins) >= Top.bp + FnOf(Top).numLocals
      /\ OperandsExist(prog.fns, prog.consts, prog.numFree, FnNumber(Top), Ins)
    BY CurrentInstruction
<1>3. /\ Top.bp \in Nat /\ FnOf(Top).numLocals \in Nat
      /\ FnOf(Top) = prog.fns[FnNumber(Top)]
      /\ FnNumber(Top) # 0 => Top.bp >= 1
    BY <1>1, CurrentFrame
<1>4. Ins.a \in Nat /\ Ins.b \in Nat /\ sp \in Nat /\ StackSize \in Nat
    BY <1>1, <1>2, Parameters DEF Instruction, IInv, Registers
<1>5. Top.bp + FnOf(Top).numLocals <= StackSize
    BY <1>3, <1>4 DEF Overrun
<1>6. HasOperands
    BY <1>1, <1>2, <1>3, <1>4 DEF HasOperands
<1>7. Len(Free) = prog.numFree[FnNumber(Top)]
    BY <1>1, Context DEF ClosuresInOrder, Free, FnNumber
<1>8. CASE Ins.op = "OpConstant"
    BY <1>2, <1>8 DEF OperandsExist, InBounds, Consts
<1>9. CASE Ins.op = "OpClosure"
    BY <1>2, <1>6, <1>9 DEF OperandsExist, InBounds, Consts
<1>10. CASE Ins.op \in LocalOps
    <2>1. Ins.a < FnOf(Top).numLocals
        BY <1>2, <1>3, <1>10 DEF OperandsExist
    <2>2. Top.bp + Ins.a < StackSize
        BY <1>3, <1>4, <1>5, <2>1
    <2> QED BY <1>6, <1>10, <2>2 DEF InBounds, LocalOps
<1>11. CASE Ins.op = "OpGetFree"
    BY <1>2, <1>7, <1>11 DEF OperandsExist, InBounds
<1>12. CASE Ins.op = "OpGetBuiltin"
    BY <1>2, <1>12 DEF OperandsExist, InBounds
<1>13. CASE Ins.op = "OpHash"
    BY <1>6, <1>13 DEF InBounds
<1>14. CASE Ins.op = "OpCall"
    <2>1. Pops(Ins) = Ins.a + 1
        BY <1>14 DEF Pops, InfixOps
    <2>2. sp - Ins.a - 1 \in 0..(StackSize - 1)
        BY <1>1, <1>2, <1>3, <1>4, <2>1
    <2> QED BY <1>14, <2>2 DEF InBounds
<1>15. CASE Ins.op \in ReturnOps
    <2>1. Top.bp >= 1
        BY <1>2, <1>3, <1>15 DEF OperandsExist
    <2> QED BY <1>6, <1>15, <2>1 DEF InBounds, ReturnOps
<1>16. CASE Ins.op \notin {"OpConstant", "OpClosure", "OpGetFree", "OpGetBuiltin",
                           "OpHash", "OpCall"} \cup LocalOps \cup ReturnOps
    BY <1>6, <1>16 DEF InBounds, LocalOps, ReturnOps
<1> QED BY <1>8, <1>9, <1>10, <1>11, <1>12, <1>13, <1>14, <1>15, <1>16

-----------------------------------------------------------------------------
(***************************************************************************)
(* Most instructions stay in their function.  What such a step does to the  *)
(* stack: nothing below the base of its frame, and while the machine runs   *)
(* on, it has taken its operands and left its result.                       *)
(***************************************************************************)
Effect ==
    /\ \A i \in 0..(StackSize - 1) : i < Top.bp => stack'[i] = stack[i]
    /\ \/ /\ status' = "running" /\ reason' = reason
          /\ sp' = sp - Pops(Ins) + Pushes(Ins)
          /\ sp' <= StackSize \/ sp' = sp
       \/ status' # "running" /\ reason' \notin {"none", "index out of range"}

GoesTo(s) ==
    /\ frames' = [frames EXCEPT ![frameIndex - 1].pc = s]
    /\ status' = "running" => s \in Successors(Ins, Top.pc)

ClosuresGrow ==
    \/ closures' = closures
    \/ \E c \in [fn : DOMAIN prog.fns \ {0}, free : Seq(Object')] :
        /\ Len(c.free) = prog.numFree[c.fn]
        /\ closures' = Append(closures, c)

Straight ==
    /\ UNCHANGED <<prog, frameIndex>> /\ Effect /\ ClosuresGrow
    /\ \E s \in Nat : GoesTo(s)

\* Popping operands never reaches below the base of the frame.
LEMMA AboveBase ==
    ASSUME SInv, Fetched, NEW n \in Nat, n <= Pops(Ins)
    PROVE  sp - n \in Nat /\ sp - n >= Top.bp /\ Top.bp \in Nat /\ sp \in Nat
<1>1. /\ status = "running" /\ IInv
    BY DEF Fetched, SInv
<1>2. sp \in Nat /\ Top.bp \in Nat /\ FnOf(Top).numLocals \in Nat
    BY <1>1, CurrentFrame DEF IInv, Registers
<1> QED BY <1>2, CurrentInstruction

\* The ways an instruction ends all have such an effect.
LEMMA PushEffect ==
    ASSUME SInv, Fetched, Pushes(Ins) = 1, NEW v, Push(sp - Pops(Ins), v)
    PROVE  Effect
<1>1. /\ status = "running" /\ IInv /\ StackSize \in Nat
    BY Parameters DEF Fetched, SInv
<1>2. Pops(Ins) \in Nat
    BY CurrentInstruction
<1> DEFINE p == sp - Pops(Ins)
<1>3. p \in Nat /\ p >= Top.bp /\ Top.bp \in Nat /\ sp \in Nat
    BY <1>2, AboveBase
<1>4. Push(p, v) /\ p + 1 = sp - Pops(Ins) + Pushes(Ins)
    BY <1>2, <1>3
<1>5. stack \in [0..(StackSize - 1) -> Object]
    BY <1>1 DEF IInv, Registers
<1> HIDE DEF p
<1>6. CASE p >= StackSize
    <2>1. stack' = stack /\ Stop("returned", "stack overflow")
        BY <1>4, <1>6 DEF Push
    <2> QED BY <2>1 DEF Stop, Effect
<1>7. CASE ~(p >= StackSize)
    <2>1. sp' = p + 1 /\ stack' = [stack EXCEPT ![p] = v] /\ UNCHANGED <<status, reason>>
        BY <1>4, <1>7 DEF Push, Keep
    <2>2. \A i \in 0..(StackSize - 1) : i < Top.bp => stack'[i] = stack[i]
        BY <1>1, <1>3, <1>5, <2>1
    <2>3. sp' = sp - Pops(Ins) + Pushes(Ins) /\ sp' <= StackSize
        BY <1>1, <1>3, <1>4, <1>7, <2>1
    <2> QED BY <1>1, <2>1, <2>2, <2>3 DEF Effect
<1> QED BY <1>6, <1>7

\* An error or a panic writes no slot, and an instruction's own error is not a failed
\* index.
LEMMA StopEffect ==
    ASSUME NEW p, NEW why, why \notin {"none", "index out of range"},
           Error(p, why) \/ Panic(why)
    PROVE  Effect
BY DEF Error, Panic, Stop, Effect

\* The errors and panics of the objects are none of the VM's own two marks.
LEMMA KnownReasons ==
    \A why \in Errors \cup ObjectPanics : why \notin {"none", "index out of range"}
BY DEF Errors, ObjectPanics

\* A result that is no object ends the run, and may leave null above the base.
LEMMA MarkEffect ==
    ASSUME SInv, Fetched, NEW p \in Nat, p >= Top.bp, NEW r \in Marks, Finish(p, r)
    PROVE  Effect
<1>1. stack \in [0..(StackSize - 1) -> Object] /\ Top.bp \in Nat
    BY CurrentFrame DEF Fetched, SInv, IInv, Registers
<1>2. r[1] \in {"FAIL", "MISS", "PANIC"} /\ r[2] \notin {"none", "index out of range"}
    BY MarkTags, KnownReasons
<1>3. CASE r[1] = "FAIL"
    BY <1>2, <1>3, StopEffect DEF Finish
<1>4. CASE r[1] = "PANIC"
    BY <1>2, <1>4, StopEffect DEF Finish
<1>5. CASE r[1] = "MISS"
    <2>1. stack' = [stack EXCEPT ![p] = NullS] /\ Stop("returned", r[2])
        BY <1>5 DEF Finish
    <2>2. \A i \in 0..(StackSize - 1) : i < Top.bp => stack'[i] = stack[i]
        BY <1>1, <2>1
    <2>3. status' = "returned" /\ reason' = r[2]
        BY <2>1 DEF Stop
    <2> QED BY <1>2, <2>2, <2>3 DEF Effect
<1> QED BY <1>2, <1>3, <1>4, <1>5

\* An operation pushes its result where its operands were, or ends the run.
LEMMA FinishEffect ==
    ASSUME SInv, Fetched, Pushes(Ins) = 1, NEW r \in Object \cup Marks,
           Finish(sp - Pops(Ins), r)
    PROVE  Effect
<1>1. Pops(Ins) \in Nat /\ IInv
    BY CurrentInstruction DEF SInv
<1>2. CASE r \in Marks
    BY <1>1, <1>2, AboveBase, MarkEffect
<1>3. CASE r \in Object
    <2>1. r[1] \notin {"FAIL", "MISS", "PANIC"}
        BY <1>1, <1>3, ObjectLiterals
    <2>2. Push(sp - Pops(Ins), r)
        BY <2>1 DEF Finish
    <2> QED BY <2>2, PushEffect
<1> QED BY <1>2, <1>3

\* What a frame's place on the stack depends on.
LEMMA FrameKept ==
    ASSUME NEW j, FrameInOrder(j), prog' = prog, frames'[j] = frames[j],
           closures'[frames[j].cl].fn = closures[frames[j].cl].fn,
           Extent(j)' = Extent(j)
    PROVE  FrameInOrder(j)'
<1>1. /\ FnNumber(frames[j])' = FnNumber(frames[j])
      /\ FnOf(frames[j])' = FnOf(frames[j])
      /\ DepthOf(frames[j])' = DepthOf(frames[j])
    BY DEF FnNumber, FnOf, Fn, DepthOf
<1>2. FrameInOrder(j)' <=>
        /\ frames'[j].pc \in 1..(Len(FnOf(frames[j])'.ins) + 1)
        /\ DepthOf(frames[j])' >= 0
        /\ Extent(j)' = frames'[j].bp + FnOf(frames[j])'.numLocals + DepthOf(frames[j])'
        /\ IF j = 0 THEN frames'[j].bp = 0 /\ FnNumber(frames[j])' = 0
                    ELSE frames'[j].bp >= 1 /\ FnNumber(frames[j])' # 0
    BY DEF FrameInOrder
<1> QED BY <1>1, <1>2 DEF FrameInOrder

(***************************************************************************)
(* Such a step preserves the invariant.                                     *)
(***************************************************************************)
LEMMA ClosuresKept ==
    ASSUME SInv, prog' = prog, ClosuresGrow
    PROVE  /\ ClosuresInOrder' /\ CalleesNotMain'
           /\ \A k \in 1..Len(closures) : closures'[k] = closures[k]
<1>1. closures \in Seq([fn : DOMAIN prog.fns, free : Seq(Object)]) /\ Len(closures) \in Nat
    BY HeapSizes DEF SInv, IInv, Memory
<1>2. CASE closures' = closures
    BY <1>2 DEF SInv, ClosuresInOrder, CalleesNotMain
<1>3. CASE \E c \in [fn : DOMAIN prog.fns \ {0}, free : Seq(Object')] :
                /\ Len(c.free) = prog.numFree[c.fn]
                /\ closures' = Append(closures, c)
    <2>1. PICK c \in [fn : DOMAIN prog.fns \ {0}, free : Seq(Object')] :
                /\ Len(c.free) = prog.numFree[c.fn]
                /\ closures' = Append(closures, c)
        BY <1>3
    <2>2. /\ Len(closures') = Len(closures) + 1 /\ closures'[Len(closures) + 1] = c
          /\ \A k \in 1..Len(closures) : closures'[k] = closures[k]
        BY <1>1, <2>1
    <2>3. \A k \in 1..Len(closures') : k = Len(closures) + 1 \/ k \in 1..Len(closures)
        BY <1>1, <2>2
    <2>4. ClosuresInOrder'
        BY <2>1, <2>2, <2>3 DEF SInv, ClosuresInOrder
    <2>5. CalleesNotMain'
        BY <1>1, <2>1, <2>2, <2>3 DEF SInv, CalleesNotMain
    <2> QED BY <2>2, <2>4, <2>5
<1> QED BY <1>2, <1>3 DEF ClosuresGrow

\* Only the position of the running frame changes.
LEMMA FramesKept ==
    ASSUME IInv, status = "running", NEW s \in Nat, GoesTo(s)
    PROVE  /\ \A j \in 0..(frameIndex - 1) :
                frames'[j].cl = frames[j].cl /\ frames'[j].bp = frames[j].bp
           /\ \A j \in 0..(frameIndex - 2) : frames'[j] = frames[j]
           /\ frames'[frameIndex - 1].pc = s
<1>1. /\ frames \in [0..(MaxFrames - 1) -> Frame] /\ frameIndex \in 1..MaxFrames
      /\ frameIndex - 1 \in 0..(MaxFrames - 1)
    BY Context, Parameters DEF IInv, FramesTyped
<1>2. frames[frameIndex - 1] \in Frame
    BY <1>1
<1>3. frames'[frameIndex - 1] = [frames[frameIndex - 1] EXCEPT !.pc = s]
    BY <1>1 DEF GoesTo
<1>4. \A j \in 0..(frameIndex - 2) : frames'[j] = frames[j]
    BY <1>1 DEF GoesTo
<1>5. /\ frames'[frameIndex - 1].pc = s
      /\ frames'[frameIndex - 1].cl = frames[frameIndex - 1].cl
      /\ frames'[frameIndex - 1].bp = frames[frameIndex - 1].bp
    BY <1>2, <1>3 DEF Frame
<1>6. \A j \in 0..(frameIndex - 1) : j = frameIndex - 1 \/ j \in 0..(frameIndex - 2)
    BY <1>1
<1> QED BY <1>4, <1>5, <1>6

\* A step that stays in its function preserves the invariant.
LEMMA StraightStep ==
    ASSUME SInv, Fetched, IInv', Straight
    PROVE  SInv'
<1>1. /\ status = "running" /\ IInv /\ FramesInOrder /\ CalleeInPlace /\ Running
      /\ Effect /\ ClosuresGrow /\ UNCHANGED <<prog, frameIndex>>
    BY DEF Fetched, SInv, Straight
<1>2. PICK s \in Nat : GoesTo(s)
    BY DEF Straight
<1>3. /\ ClosuresInOrder' /\ CalleesNotMain' /\ VerifiedProgram(prog)'
      /\ \A k \in 1..Len(closures) : closures'[k] = closures[k]
    BY <1>1, ClosuresKept, VerifiedStays
<1>4. CASE status' # "running"
    <2>1. reason' \notin {"none", "index out of range"}
        BY <1>1, <1>4 DEF Effect
    <2> QED BY <1>3, <1>4, <2>1
            DEF SInv, FramesInOrder, CalleeInPlace, FailsUntouched, CleanEnd
<1>5. CASE status' = "running"
    <2>1. /\ s \in Successors(Ins, Top.pc) /\ reason' = reason
          /\ sp' = sp - Pops(Ins) + Pushes(Ins)
          /\ sp' <= StackSize \/ sp' = sp
        BY <1>1, <1>2, <1>5 DEF GoesTo, Effect
    <2>2. /\ \A j \in 0..(frameIndex - 1) :
                frames'[j].cl = frames[j].cl /\ frames'[j].bp = frames[j].bp
          /\ \A j \in 0..(frameIndex - 2) : frames'[j] = frames[j]
          /\ frames'[frameIndex - 1].pc = s
        BY <1>1, <1>2, FramesKept
    <2>3. \A j \in 0..(frameIndex - 1) : frames[j].cl \in 1..Len(closures)
        BY <1>1, Parameters DEF IInv, FramesTyped
    <2>4. frameIndex \in 1..MaxFrames /\ frameIndex - 1 \in 0..(frameIndex - 1)
        BY <1>1, Parameters DEF IInv, FramesTyped
    <2>5. ASSUME NEW j \in 0..(frameIndex - 2)
          PROVE  FrameInOrder(j)'
        <3>1. j \in 0..(frameIndex - 1) /\ j + 1 \in 0..(frameIndex - 1) /\ j # frameIndex - 1
            BY <2>4
        <3>2. FrameInOrder(j)
            BY <1>1, <3>1 DEF FramesInOrder
        <3>3. Extent(j)' = Extent(j)
            BY <1>1, <2>2, <3>1 DEF Extent
        <3>4. frames'[j] = frames[j] /\ closures'[frames[j].cl].fn = closures[frames[j].cl].fn
            BY <1>3, <2>2, <2>3, <3>1
        <3> QED BY <1>1, <3>2, <3>3, <3>4, FrameKept
    <2>6. ASSUME NEW j \in 0..(frameIndex - 1), j = frameIndex - 1
          PROVE  FrameInOrder(j)'
        <3> DEFINE f == FnNumber(Top)
        <3>1. /\ frames'[j].bp = Top.bp
              /\ frames'[j].pc = s
              /\ closures'[frames'[j].cl].fn = f
            BY <1>3, <2>2, <2>3, <2>4, <2>6 DEF Top, FnNumber
        <3>2. /\ f \in DOMAIN prog.fns /\ FnOf(Top) = prog.fns[f]
              /\ DepthOf(Top) \in Nat /\ Top.bp \in Nat /\ FnOf(Top).numLocals \in Nat
              /\ sp = Top.bp + FnOf(Top).numLocals + DepthOf(Top)
              /\ frameIndex = 1 => Top.bp = 0 /\ f = 0
              /\ frameIndex # 1 => Top.bp >= 1 /\ f # 0
            BY <1>1, CurrentFrame
        <3>3. /\ Pops(Ins) \in Nat /\ Pushes(Ins) \in {0, 1} /\ Pops(Ins) <= DepthOf(Top)
              /\ s \in 1..(Len(TopCode) + 1)
              /\ prog.depth[f][s] = DepthOf(Top) - Pops(Ins) + Pushes(Ins)
            BY <2>1, CurrentInstruction
        <3>4. /\ prog.depth[f][s] >= 0
              /\ sp' = Top.bp + prog.fns[f].numLocals + prog.depth[f][s]
            <4>1. prog.depth[f][s] \in Nat
                BY <3>2, <3>3
            <4>2. sp' = Top.bp + FnOf(Top).numLocals + prog.depth[f][s]
                <5>1. sp' = sp - Pops(Ins) + Pushes(Ins)
                    BY <2>1, Zenon
                <5>2. Top.bp + FnOf(Top).numLocals \in Nat
                    BY <3>2
                <5> QED BY <3>2, <3>3, <5>1, <5>2
            <4> QED BY <3>2, <4>1, <4>2
        <3>5. s \in 1..(Len(prog.fns[f].ins) + 1)
            BY <3>2, <3>3 DEF TopCode
        <3>6. j = 0 <=> frameIndex = 1
            BY <2>4, <2>6
        <3>7. /\ Extent(j)' = sp'
              /\ FnNumber(frames[j])' = f
              /\ FnOf(frames[j])' = prog.fns[f]
              /\ DepthOf(frames[j])' = prog.depth[f][s]
            BY <1>1, <2>6, <3>1 DEF Extent, FnNumber, FnOf, Fn, DepthOf
        <3> HIDE DEF f
        <3> QED BY <1>1, <3>1, <3>2, <3>4, <3>5, <3>6, <3>7 DEF FrameInOrder
    <2>7. FramesInOrder'
        <3>1. \A j \in 0..(frameIndex - 1) : j = frameIndex - 1 \/ j \in 0..(frameIndex - 2)
            BY <2>4
        <3>2. \A j \in 0..(frameIndex - 1) : FrameInOrder(j)'
            BY <2>5, <2>6, <3>1
        <3> QED BY <1>1, <2>4, <3>2 DEF FramesInOrder
    <2>8. BasesAscend'
        BY <1>1, <2>2 DEF BasesAscend, Running
    <2>9. CalleeInPlace'
        <3> SUFFICES ASSUME NEW j \in 1..(frameIndex - 1)
                     PROVE  /\ frames'[j].bp <= StackSize
                            /\ stack'[frames'[j].bp - 1] = Obj("CLOSURE", frames'[j].cl)
            BY <1>1 DEF CalleeInPlace
        <3>1. /\ j \in 0..(frameIndex - 1) /\ 0 \in 0..(frameIndex - 1) /\ j \in 0..(MaxFrames - 1)
              /\ frames'[j].cl = frames[j].cl /\ frames'[j].bp = frames[j].bp
            BY <2>2, <2>4, Parameters
        <3>2. /\ frames[j].bp <= StackSize
              /\ stack[frames[j].bp - 1] = Obj("CLOSURE", frames[j].cl)
            BY <1>1 DEF CalleeInPlace
        <3>3. frames[j].bp \in Nat /\ frames[j].bp >= 1 /\ StackSize \in Nat
            <4>1. frames[j] \in Frame /\ FrameInOrder(j)
                BY <1>1, <3>1 DEF IInv, FramesTyped, FramesInOrder
            <4> QED BY <3>1, <4>1, Parameters DEF FrameInOrder, Frame
        <3>4. frames[j].bp <= Top.bp /\ Top.bp \in Nat
            <4>1. j = frameIndex - 1 \/ (j < frameIndex - 1 /\ frameIndex - 1 \in 0..(frameIndex - 1))
                BY <2>4
            <4>2. Top.bp \in Nat
                BY <1>1, CurrentFrame
            <4> QED BY <1>1, <3>1, <3>3, <4>1, <4>2 DEF Running, BasesAscend, Top
        <3>5. stack'[frames[j].bp - 1] = stack[frames[j].bp - 1]
            <4>1. frames[j].bp - 1 \in 0..(StackSize - 1) /\ frames[j].bp - 1 < Top.bp
                BY <3>2, <3>3, <3>4
            <4> QED BY <1>1, <4>1 DEF Effect
        <3> QED BY <3>1, <3>2, <3>5
    <2>10. (sp <= StackSize \/ Untouched)'
        <3>1. Top'.bp = Top.bp /\ FnOf(Top)' = FnOf(Top)
            BY <1>1, <1>3, <2>2, <2>3, <2>4 DEF Top, FnOf, Fn
        <3>2. sp' = sp /\ Untouched => Untouched'
            BY <3>1 DEF Untouched
        <3> QED BY <1>1, <2>1, <3>2 DEF Running
    <2> QED BY <1>1, <1>3, <1>5, <2>1, <2>7, <2>8, <2>9, <2>10
            DEF SInv, Running, FailsUntouched, CleanEnd
<1> QED BY <1>4, <1>5

-----------------------------------------------------------------------------
(***************************************************************************)
(* Every instruction but calls and returns is such a step.                  *)
(***************************************************************************)
LEMMA AdvanceStraight ==
    ASSUME SInv, Fetched, UNCHANGED <<prog, frameIndex>>, Advance,
           Ins.op \notin {"OpJump"} \cup ReturnOps, Effect, ClosuresGrow
    PROVE  Straight
<1>1. Top.pc + 1 \in Nat
    BY Context DEF Fetched, SInv, Frame
<1>2. GoesTo(Top.pc + 1)
    BY DEF Advance, JumpTo, GoesTo, Successors
<1> QED BY <1>1, <1>2 DEF Straight

\* What instructions take and leave, by opcode.
LEMMA Arities ==
    /\ Ins.op \in InfixOps \cup {"OpIndex"} => Pops(Ins) = 2 /\ Pushes(Ins) = 1
    /\ Ins.op \in {"OpBang", "OpMinus"} => Pops(Ins) = 1 /\ Pushes(Ins) = 1
    /\ Ins.op \in {"OpPop", "OpJumpNotTruthy", "OpSetGlobal", "OpSetLocal"} =>
            Pops(Ins) = 1 /\ Pushes(Ins) = 0
    /\ Ins.op = "OpJump" => Pops(Ins) = 0 /\ Pushes(Ins) = 0
    /\ Ins.op = "OpArray" => Pops(Ins) = Ins.a /\ Pushes(Ins) = 1
    /\ Ins.op = "OpHash" => Pops(Ins) = 2 * Ins.a /\ Pushes(Ins) = 1
    /\ Ins.op = "OpClosure" => Pops(Ins) = Ins.b /\ Pushes(Ins) = 1
    /\ Ins.op = "OpCall" => Pops(Ins) = Ins.a + 1 /\ Pushes(Ins) = 1
BY DEF Pops, Pushes, InfixOps, ReturnOps

\* The instructions that push one operand.
LEMMA PushersStraight ==
    ASSUME SInv, \/ OpConstant \/ OpSingleton \/ OpGetGlobal \/ OpGetLocal
                 \/ OpGetBuiltin \/ OpGetFree \/ OpCurrentClosure
    PROVE  Fetched /\ Straight
<1>1. /\ Fetched /\ Advance /\ Pure
      /\ Ins.op \in {"OpConstant", "OpTrue", "OpFalse", "OpNull", "OpGetGlobal", "OpGetLocal",
                     "OpGetBuiltin", "OpGetFree", "OpCurrentClosure"}
      /\ \E v : Push(sp, v)
    BY DEF OpConstant, OpSingleton, OpGetGlobal, OpGetLocal, OpGetBuiltin, OpGetFree,
           OpCurrentClosure, Fetch
<1>2. Pops(Ins) = 0 /\ Pushes(Ins) = 1 /\ Ins.op \notin {"OpJump"} \cup ReturnOps
    BY <1>1 DEF Pops, Pushes, InfixOps, ReturnOps
<1>3. sp - Pops(Ins) = sp
    BY <1>2 DEF SInv, IInv, Registers
<1>4. Effect
    BY <1>1, <1>2, <1>3, PushEffect
<1> QED BY <1>1, <1>2, <1>4, AdvanceStraight DEF Pure, InFrame, ClosuresGrow

\* The operators.
LEMMA OperatorsStraight ==
    ASSUME SInv, OpInfix \/ OpBang \/ OpMinus \/ OpIndex
    PROVE  Fetched /\ Straight
<1>1. /\ Fetched /\ Advance /\ Pure /\ InBounds
      /\ Ins.op \in InfixOps \cup {"OpBang", "OpMinus", "OpIndex"}
    BY DEF OpInfix, OpBang, OpMinus, OpIndex, Fetch
<1>2. Pushes(Ins) = 1 /\ Ins.op \notin {"OpJump"} \cup ReturnOps
    BY <1>1 DEF Pushes, InfixOps, ReturnOps
<1>3. /\ IInv /\ sp - Pops(Ins) \in Nat /\ Pops(Ins) \in Nat
      /\ Pops(Ins) # 0 => Pops(Ins) <= sp /\ sp <= StackSize
    BY <1>1, CurrentInstruction, AboveBase DEF SInv, InBounds, HasOperands, InfixOps
<1>4. CASE OpInfix
    <2>1. Pops(Ins) = 2 /\ Ins.op \in InfixOps
        BY <1>4, Arities DEF OpInfix, Fetch
    <2>2. Peek(1) \in Object /\ Peek(2) \in Object
        BY <1>3, <2>1, OnStack DEF IInv, Registers
    <2>3. Infix(Ins.op, Peek(2), Peek(1)) \in Object \cup Marks
        BY <1>3, <2>1, <2>2, InfixType, HeapSizes DEF Object
    <2>4. Finish(sp - Pops(Ins), Infix(Ins.op, Peek(2), Peek(1)))
        BY <1>4, <2>1 DEF OpInfix
    <2>5. Effect
        BY <1>1, <1>2, <2>3, <2>4, FinishEffect
    <2> QED BY <1>1, <1>2, <2>5, AdvanceStraight DEF Pure, InFrame, ClosuresGrow
<1>5. CASE OpBang \/ OpMinus
    <2>1. Pops(Ins) = 1
        BY <1>5, Arities DEF OpBang, OpMinus, Fetch
    <2>2. \/ \E v : Push(sp - Pops(Ins), v)
          \/ Panic("unsupported type cast to boolean")
          \/ Error(sp - 1, "cannot prefix with -")
        BY <1>5, <2>1 DEF OpBang, OpMinus
    <2>3. Effect
        <3>1. ASSUME NEW v, Push(sp - Pops(Ins), v)
              PROVE  Effect
            BY <1>1, <1>2, <3>1, PushEffect
        <3>2. Panic("unsupported type cast to boolean") => Effect
            BY StopEffect
        <3>3. Error(sp - 1, "cannot prefix with -") => Effect
            <4>1. "cannot prefix with -" \in Errors
                BY DEF Errors
            <4> QED BY <4>1, KnownReasons, StopEffect
        <3> QED BY <2>2, <3>1, <3>2, <3>3
    <2> QED BY <1>1, <1>2, <2>3, AdvanceStraight DEF Pure, InFrame, ClosuresGrow
<1>6. CASE OpIndex
    <2>1. Pops(Ins) = 2
        BY <1>6, Arities DEF OpIndex, Fetch
    <2>2. Peek(1) \in Object /\ Peek(2) \in Object
        BY <1>3, <2>1, OnStack DEF IInv, Registers
    <2>3. Heap \in HeapOf(FirstClosure, Len(closures), Len(arrays), Len(hashes))
        BY <1>3 DEF IInv, Memory, Object, Heap, HeapOf
    <2> DEFINE c == Peek(2)
               i == Peek(1)
               h == Heap
    <2>4. Finish(sp - Pops(Ins), Index(c, i, h))
        BY <1>6, <2>1 DEF OpIndex
    <2>5. /\ c \in Value(FirstClosure, Len(closures), Len(arrays), Len(hashes))
          /\ i \in Value(FirstClosure, Len(closures), Len(arrays), Len(hashes))
          /\ h \in HeapOf(FirstClosure, Len(closures), Len(arrays), Len(hashes))
        BY <2>2, <2>3 DEF Object
    <2> HIDE DEF c, i, h
    <2>6. Index(c, i, h) \in Object \cup Marks
        BY <1>3, <2>5, IndexType, HeapSizes DEF Object
    <2>7. Effect
        BY <1>1, <1>2, <2>4, <2>6, FinishEffect
    <2> QED BY <1>1, <1>2, <2>7, AdvanceStraight DEF Pure, InFrame, ClosuresGrow
<1> QED BY <1>4, <1>5, <1>6

\* The instructions that pop their operand.
LEMMA PoppersStraight ==
    ASSUME SInv, OpPop \/ OpSetGlobal \/ OpSetLocal
    PROVE  Fetched /\ Straight
<1>1. /\ Fetched /\ Advance /\ UNCHANGED <<prog, frameIndex, closures>> /\ InBounds
      /\ Ins.op \in {"OpPop", "OpSetGlobal", "OpSetLocal"}
      /\ sp' = sp - 1 /\ UNCHANGED <<status, reason>>
    BY DEF OpPop, OpSetGlobal, OpSetLocal, Fetch, Pure, InFrame, heapVars, Keep
<1>2. Pops(Ins) = 1 /\ Pushes(Ins) = 0 /\ Ins.op \notin {"OpJump"} \cup ReturnOps
    BY <1>1, Arities DEF ReturnOps
<1>3. sp \in Nat /\ Top.bp \in Nat /\ status = "running" /\ Ins.a \in Nat
    BY <1>1, CurrentFrame, CurrentInstruction DEF Fetched, SInv, IInv, Registers, Instruction
<1>4. \A i \in 0..(StackSize - 1) : i < Top.bp => stack'[i] = stack[i]
    <2>1. CASE OpSetLocal
        <3>1. stack' = [stack EXCEPT ![Top.bp + Ins.a] = Peek(1)]
            BY <2>1 DEF OpSetLocal
        <3>2. stack \in [0..(StackSize - 1) -> Object]
            BY DEF SInv, IInv, Registers
        <3> QED BY <1>3, <3>1, <3>2
    <2>2. CASE OpPop \/ OpSetGlobal
        BY <2>2 DEF OpPop, OpSetGlobal
    <2> QED BY <2>1, <2>2
<1>5. sp' = sp - Pops(Ins) + Pushes(Ins) /\ sp' <= StackSize
    <2>1. HasOperands /\ StackSize \in Nat
        BY <1>1, Parameters DEF InBounds
    <2> QED BY <1>1, <1>2, <1>3, <2>1 DEF HasOperands
<1>6. Effect
    BY <1>1, <1>3, <1>4, <1>5 DEF Effect
<1> QED BY <1>1, <1>2, <1>6, AdvanceStraight DEF ClosuresGrow

\* The jumps.
LEMMA JumpsStraight ==
    ASSUME SInv, OpJump \/ OpJumpNotTruthy
    PROVE  Fetched /\ Straight
<1>1. /\ Fetched /\ UNCHANGED <<prog, frameIndex, closures>>
      /\ Ins.op \in JumpOps
    BY DEF OpJump, OpJumpNotTruthy, Fetch, Pure, InFrame, JumpOps
<1>2. /\ sp \in Nat /\ status = "running" /\ Ins.a \in Nat /\ Top.pc + 1 \in Nat
    BY <1>1, CurrentInstruction, Context
       DEF Fetched, SInv, IInv, Registers, Instruction, Frame
<1>3. CASE OpJump
    <2>0. /\ Ins.op = "OpJump" /\ JumpTo(Ins.a)
          /\ UNCHANGED <<stack, sp, status, reason>>
        BY <1>3 DEF OpJump, Fetch, Keep
    <2>1. Pops(Ins) = 0 /\ Pushes(Ins) = 0 /\ Ins.a \in Successors(Ins, Top.pc)
        BY <2>0, Arities DEF Successors, ReturnOps
    <2>2. sp' = sp - Pops(Ins) + Pushes(Ins) /\ sp' = sp
        BY <1>2, <2>0, <2>1
    <2>3. Effect
        BY <1>2, <2>0, <2>2 DEF Effect
    <2> QED BY <1>1, <1>2, <2>0, <2>1, <2>3 DEF Straight, ClosuresGrow, GoesTo, JumpTo
<1>4. CASE OpJumpNotTruthy /\ HasTruth(Peek(1))
    <2>0. /\ Ins.op = "OpJumpNotTruthy" /\ sp' = sp - 1 /\ InBounds
          /\ UNCHANGED <<stack, status, reason>>
        BY <1>4 DEF OpJumpNotTruthy, Fetch, Keep
    <2>1. /\ Pops(Ins) = 1 /\ Pushes(Ins) = 0
          /\ Successors(Ins, Top.pc) = {Top.pc + 1, Ins.a}
        BY <2>0, Arities DEF Successors, ReturnOps
    <2>2. PICK pc \in {Top.pc + 1, Ins.a} : JumpTo(pc)
        BY <1>4 DEF OpJumpNotTruthy
    <2>3. sp' = sp - Pops(Ins) + Pushes(Ins) /\ sp' <= StackSize
        <3>1. HasOperands /\ StackSize \in Nat
            BY <2>0, Parameters DEF InBounds
        <3> QED BY <1>2, <2>0, <2>1, <3>1 DEF HasOperands
    <2>4. Effect
        BY <1>2, <2>0, <2>3 DEF Effect
    <2> QED BY <1>1, <1>2, <2>1, <2>2, <2>4 DEF Straight, ClosuresGrow, GoesTo, JumpTo
<1>5. CASE OpJumpNotTruthy /\ ~HasTruth(Peek(1))
    <2>1. /\ Advance /\ Panic("unsupported type cast to boolean")
          /\ Ins.op \notin {"OpJump"} \cup ReturnOps
        BY <1>5 DEF OpJumpNotTruthy, Fetch, ReturnOps
    <2>2. Effect
        BY <2>1, StopEffect
    <2> QED BY <1>1, <2>1, <2>2, AdvanceStraight DEF ClosuresGrow
<1> QED BY <1>3, <1>4, <1>5

\* OpClosure takes as many variables off the stack as the function it closes over
\* has free variables.
LEMMA ClosureStraight ==
    ASSUME SInv, OpClosure, IInv'
    PROVE  Fetched /\ Straight
<1>1. /\ Fetched /\ Advance /\ UNCHANGED <<prog, frameIndex>>
      /\ Ins.op = "OpClosure" /\ IInv /\ InBounds
    BY DEF OpClosure, Fetch, InFrame, SInv
<1>2. /\ Pops(Ins) = Ins.b /\ Pushes(Ins) = 1 /\ Ins.op \notin {"OpJump"} \cup ReturnOps
      /\ Ins.a \in Nat /\ Ins.b \in Nat
    BY <1>1, Arities, CurrentInstruction DEF ReturnOps, Instruction
<1>3. /\ Ins.a < Len(Consts) /\ Consts[Ins.a + 1][1] = "COMPILED_FUNCTION"
      /\ Consts[Ins.a + 1][2] # 0
      /\ prog.numFree[Consts[Ins.a + 1][2]] = Ins.b
    BY <1>1, CurrentInstruction DEF OperandsExist, Consts
<1>4. /\ closures' = Append(closures,
                        [fn |-> Consts[Ins.a + 1][2], free |-> Topmost(Ins.b)])
      /\ Push(sp - Pops(Ins), Obj("CLOSURE", Len(closures) + 1))
    BY <1>2, <1>3 DEF OpClosure, IsFunctionConst
<1>5. Effect
    BY <1>1, <1>2, <1>4, PushEffect
<1> DEFINE c == [fn |-> Consts[Ins.a + 1][2], free |-> Topmost(Ins.b)]
<1>6. c.fn = Consts[Ins.a + 1][2] /\ c.free = Topmost(Ins.b)
    OBVIOUS
<1>7. Len(Topmost(Ins.b)) = Ins.b
    BY <1>2 DEF Topmost
<1>8. c \in [fn : DOMAIN prog.fns \ {0}, free : Seq(Object')]
    <2>1. closures' \in Seq([fn : DOMAIN prog.fns, free : Seq(Object')])
        BY <1>1 DEF IInv, Memory
    <2>2. closures'[Len(closures) + 1] = c /\ Len(closures) + 1 \in 1..Len(closures')
        BY <1>1, <1>4, HeapSizes DEF IInv, Memory
    <2>3. c \in [fn : DOMAIN prog.fns, free : Seq(Object')]
        BY <2>1, <2>2, ElementOfSeq
    <2> QED BY <1>3, <1>6, <2>3
<1>9. ClosuresGrow
    BY <1>3, <1>4, <1>6, <1>7, <1>8 DEF ClosuresGrow
<1> QED BY <1>1, <1>2, <1>5, <1>9, AdvanceStraight

\* So do OpArray and OpHash, which may stop halfway at a key it cannot hash.
LEMMA ContainersStraight ==
    ASSUME SInv, OpArray \/ OpHash
    PROVE  Fetched /\ Straight
<1>1. /\ Fetched /\ Advance /\ UNCHANGED <<prog, frameIndex, closures>>
      /\ Ins.op \in {"OpArray", "OpHash"}
    BY DEF OpArray, OpHash, Fetch, InFrame
<1>2. /\ Pushes(Ins) = 1 /\ Ins.op \notin {"OpJump"} \cup ReturnOps
      /\ Ins.a \in Nat
    BY <1>1, Arities, CurrentInstruction DEF ReturnOps, Instruction
<1>3. CASE OpArray
    <2>1. Push(sp - Pops(Ins), Obj("ARRAY", Len(arrays) + 1))
        BY <1>3, Arities DEF OpArray, Fetch
    <2>2. Effect
        BY <1>1, <1>2, <2>1, PushEffect
    <2> QED BY <1>1, <1>2, <2>2, AdvanceStraight DEF ClosuresGrow
<1>4. CASE OpHash
    <2>1. Pops(Ins) = 2 * Ins.a
        BY <1>4, Arities DEF OpHash, Fetch
    <2>2. CASE BadPairs = {}
        <3>1. Push(sp - Pops(Ins), Obj("HASH", Len(hashes) + 1))
            BY <1>4, <2>1, <2>2 DEF OpHash
        <3>2. Effect
            BY <1>1, <1>2, <3>1, PushEffect
        <3> QED BY <1>1, <1>2, <3>2, AdvanceStraight DEF ClosuresGrow
    <2>3. CASE BadPairs # {}
        <3>1. PICK j \in BadPairs : Finish(sp - 2 * j, HashKey(Peek(2 * j)))
            BY <1>4, <2>3 DEF OpHash
        <3>2. j \in 1..Ins.a /\ HashKey(Peek(2 * j)) # Peek(2 * j)
            BY <3>1 DEF BadPairs
        <3>3. HashKey(Peek(2 * j)) \in Marks
            BY <3>2, HashKeyType
        <3>4. 2 * j \in Nat /\ 2 * j <= Pops(Ins)
            BY <1>2, <2>1, <3>2
        <3>5. sp - 2 * j \in Nat /\ sp - 2 * j >= Top.bp
            BY <1>1, <3>4, AboveBase
        <3>6. Effect
            BY <1>1, <3>1, <3>3, <3>5, MarkEffect
        <3> QED BY <1>1, <1>2, <3>6, AdvanceStraight DEF ClosuresGrow
    <2> QED BY <2>2, <2>3
<1> QED BY <1>3, <1>4

\* A call of a builtin, and a call that fails, stay in their function.
LEMMA CallsStraight ==
    ASSUME SInv, CallFails \/ CallsBuiltin
    PROVE  Fetched /\ Straight
<1>1. /\ Fetched /\ Advance /\ UNCHANGED <<prog, frameIndex, closures>>
      /\ Ins.op = "OpCall" /\ InBounds /\ IInv
    BY DEF CallFails, CallsBuiltin, Fetch, InFrame, Pure, SInv
<1>2. /\ Pops(Ins) = Ins.a + 1 /\ Pushes(Ins) = 1
      /\ Ins.op \notin {"OpJump"} \cup ReturnOps
      /\ Ins.a \in Nat /\ sp \in Nat /\ StackSize \in Nat
    BY <1>1, Arities, CurrentInstruction, Parameters
       DEF ReturnOps, Instruction, IInv, Registers
<1>3. CASE CallFails
    <2>1. \/ \E why \in Errors : Error(sp, why)
          \/ Panic("frame limit") \/ Panic("builtin without an argument")
        BY <1>3 DEF CallFails, Errors
    <2>2. Effect
        <3>1. (\E why \in Errors : Error(sp, why)) => Effect
            BY KnownReasons, StopEffect
        <3>2. Panic("frame limit") => Effect
            BY StopEffect
        <3>3. Panic("builtin without an argument") => Effect
            BY StopEffect
        <3> QED BY <2>1, <3>1, <3>2, <3>3
    <2> QED BY <1>1, <1>2, <2>2, AdvanceStraight DEF ClosuresGrow
<1>4. CASE CallsBuiltin
    <2> DEFINE args == arrays[stack[sp - Ins.a][2]]
               r == CallBuiltin(Callee[2], args, Heap)
               v == IF r.value = Nil THEN NullS ELSE r.value
    <2>1. /\ Callee[1] = "BUILTIN" /\ sp - Ins.a < StackSize
          /\ stack[sp - Ins.a][1] = "ARRAY"
          /\ Finish(sp - Ins.a - 1, v)
        BY <1>4 DEF CallsBuiltin
    <2>2. Callee \in Object /\ stack[sp - Ins.a] \in Object
        <3>1. sp - Ins.a - 1 \in 0..(StackSize - 1)
            BY <1>1 DEF InBounds
        <3>2. sp - (Ins.a + 1) \in 0..(StackSize - 1) /\ sp - Ins.a \in 0..(StackSize - 1)
            BY <1>2, <2>1, <3>1
        <3> QED BY <1>1, <3>2 DEF IInv, Registers, Callee, Peek
    <2>3. Callee[2] \in 0..6 /\ stack[sp - Ins.a][2] \in 1..Len(arrays)
        BY <1>1, <2>1, <2>2, ObjectLiterals
    <2>4. Heap \in HeapOf(FirstClosure, Len(closures), Len(arrays), Len(hashes))
        BY <1>1 DEF IInv, Memory, Object, Heap, HeapOf
    <2>5. args \in Seq(Object)
        BY <1>1, <2>3, ElementOfSeq DEF IInv, Memory
    <2>6. WellTyped(r, FirstClosure, Len(closures), Len(arrays), Len(hashes))
        <3>1. FirstClosure \in Nat
            BY <1>1, HeapSizes
        <3> QED BY <1>1, <2>3, <2>4, <2>5, <3>1, HeapSizes, BuiltinType DEF Object
    <2> HIDE DEF r
    <2>7. v \in Object \cup Marks
        BY <1>1, <2>6, ObjectLiterals DEF WellTyped, Object
    <2>8. sp - Ins.a - 1 = sp - Pops(Ins)
        BY <1>2
    <2> HIDE DEF v
    <2>9. Effect
        BY <1>1, <1>2, <2>1, <2>7, <2>8, FinishEffect
    <2> QED BY <1>1, <1>2, <2>9, AdvanceStraight DEF ClosuresGrow
<1> QED BY <1>3, <1>4

-----------------------------------------------------------------------------
(***************************************************************************)
(* A return: the result takes the callee's place, and the caller runs on    *)
(* with the stack as deep as when it was suspended.                         *)
(***************************************************************************)
LEMMA ReturnStep ==
    ASSUME SInv, OpReturn, IInv'
    PROVE  SInv'
<1>1. /\ Fetched /\ status = "running" /\ Ins.op \in ReturnOps
      /\ frameIndex' = frameIndex - 1 /\ UNCHANGED <<prog, frames, closures>>
      /\ \E v : Push(Top.bp - 1, v)
      /\ IInv /\ FramesInOrder /\ CalleeInPlace /\ Running
    BY DEF OpReturn, Fetch, Fetched, SInv
<1>2. /\ frameIndex \in 1..MaxFrames /\ Top.bp \in Nat /\ StackSize \in Nat
      /\ frameIndex # 1 /\ Top.bp >= 1
    BY <1>1, CurrentFrame, CurrentInstruction, Parameters DEF OperandsExist
<1>3. Top = frames[frameIndex - 1] /\ Top.bp <= StackSize
    <2>1. frameIndex - 1 \in 1..(frameIndex - 1)
        BY <1>2, Parameters
    <2> QED BY <1>1, <2>1 DEF CalleeInPlace, Top
<1>4. PICK v : /\ sp' = Top.bp /\ stack' = [stack EXCEPT ![Top.bp - 1] = v]
               /\ UNCHANGED <<status, reason>>
    <2>1. PICK v : Push(Top.bp - 1, v)
        BY <1>1
    <2>2. ~(Top.bp - 1 >= StackSize) /\ (Top.bp - 1) + 1 = Top.bp
        BY <1>2, <1>3
    <2> QED BY <2>1, <2>2 DEF Push, Keep
<1>5. ClosuresInOrder' /\ CalleesNotMain'
    BY <1>1 DEF SInv, ClosuresInOrder, CalleesNotMain
<1>6. FramesInOrder'
    <2>1. ASSUME NEW j \in 0..(frameIndex' - 1)
          PROVE  FrameInOrder(j)'
        <3>1. j \in 0..(frameIndex - 1) /\ j # frameIndex - 1
            BY <1>1, <1>2
        <3>2. FrameInOrder(j)
            BY <1>1, <3>1 DEF FramesInOrder
        <3>3. Extent(j)' = Extent(j)
            <4>1. Extent(j) = frames[j + 1].bp
                BY <3>1 DEF Extent
            <4>2. CASE j = frameIndex' - 1
                <5>1. j + 1 = frameIndex - 1
                    BY <1>1, <1>2, <4>2
                <5>2. Extent(j)' = sp'
                    BY <4>2 DEF Extent
                <5> QED BY <1>3, <1>4, <4>1, <5>1, <5>2
            <4>3. CASE j # frameIndex' - 1
                BY <1>1, <4>1, <4>3 DEF Extent
            <4> QED BY <4>2, <4>3
        <3> QED BY <1>1, <3>2, <3>3, FrameKept
    <2>2. frameIndex' >= 1
        BY <1>1, <1>2, Parameters
    <2> QED BY <2>1, <2>2 DEF FramesInOrder
<1>7. CalleeInPlace'
    <2> SUFFICES ASSUME NEW j \in 1..(frameIndex' - 1)
                 PROVE  /\ frames'[j].bp <= StackSize
                        /\ stack'[frames'[j].bp - 1] = Obj("CLOSURE", frames'[j].cl)
        BY DEF CalleeInPlace
    <2>1. /\ j \in 1..(frameIndex - 1) /\ j \in 0..(frameIndex - 1)
          /\ j \in 0..(MaxFrames - 1)
          /\ frameIndex - 1 \in 0..(frameIndex - 1) /\ j < frameIndex - 1
        BY <1>1, <1>2, Parameters
    <2>2. /\ frames[j].bp <= StackSize
          /\ stack[frames[j].bp - 1] = Obj("CLOSURE", frames[j].cl)
        BY <1>1, <2>1 DEF CalleeInPlace
    <2>3. frames[j].bp < Top.bp
        BY <1>1, <1>3, <2>1 DEF Running, BasesAscend
    <2>4. frames[j].bp \in Nat
        BY <1>1, <2>1 DEF IInv, FramesTyped, Frame
    <2>5. stack'[frames[j].bp - 1] = stack[frames[j].bp - 1]
        <3>1. frames[j].bp - 1 # Top.bp - 1
            BY <1>2, <2>3, <2>4
        <3>2. stack \in [0..(StackSize - 1) -> Object]
            BY <1>1 DEF IInv, Registers
        <3> QED BY <1>4, <3>1, <3>2
    <2> QED BY <1>1, <2>2, <2>5
<1>8. Running'
    <2>1. BasesAscend'
        <3>1. 0..(frameIndex' - 1) \subseteq 0..(frameIndex - 1)
            BY <1>1, <1>2
        <3> QED BY <1>1, <3>1 DEF Running, BasesAscend
    <2>2. sp' <= StackSize
        BY <1>3, <1>4
    <2> QED BY <1>1, <1>4, <2>1, <2>2 DEF Running
<1>9. status' = "running" /\ reason' = "none"
    BY <1>1, <1>4 DEF Running
<1>10. VerifiedProgram(prog)'
    BY <1>1, VerifiedStays
<1> QED BY <1>5, <1>6, <1>7, <1>8, <1>9, <1>10 DEF SInv, FailsUntouched, CleanEnd

(***************************************************************************)
(* A call: the new frame begins above the callee's slot, and its locals     *)
(* are all of its stack.                                                    *)
(***************************************************************************)
LEMMA CallMakes ==
    ASSUME SInv, CallClosure, NEW bp, bp = sp - Ins.a, NEW callee, callee = Callee[2],
           NEW f, f = closures[callee].fn
    PROVE  /\ Fetched /\ status = "running" /\ Ins.op = "OpCall"
           /\ frameIndex \in 1..MaxFrames /\ Ins.a \in Nat /\ sp \in Nat
           /\ Top.bp \in Nat /\ FnOf(Top).numLocals \in Nat
           /\ sp - (Ins.a + 1) >= Top.bp + FnOf(Top).numLocals
           /\ bp \in Nat /\ bp > Top.bp /\ bp <= StackSize
           /\ callee \in 2..Len(closures) /\ stack[bp - 1] = Obj("CLOSURE", callee)
           /\ f \in DOMAIN prog.fns /\ f # 0 /\ VerifiedFn(f)
           /\ prog.fns[f] \in Function /\ CalleeFn = prog.fns[f]
           /\ frames \in [0..(MaxFrames - 1) -> Frame]
           /\ \A j \in 0..(frameIndex - 2) : frames'[j] = frames[j]
           /\ \A j \in 0..(frameIndex - 1) :
                frames'[j].cl = frames[j].cl /\ frames'[j].bp = frames[j].bp
           /\ frames'[frameIndex - 1].pc = Top.pc + 1
           /\ frames'[frameIndex].cl = callee /\ frames'[frameIndex].bp = bp
           /\ frames'[frameIndex].pc = 1
<1>1. /\ Fetched /\ status = "running" /\ Ins.op = "OpCall" /\ InBounds
      /\ Callee[1] = "CLOSURE" /\ frameIndex < MaxFrames
      /\ IInv /\ VerifiedProgram(prog)
    BY DEF CallClosure, Fetch, Fetched, SInv
<1>2. /\ frameIndex \in 1..MaxFrames /\ MaxFrames \in Nat
      /\ Ins.a \in Nat /\ sp \in Nat /\ StackSize \in Nat
      /\ Top.bp \in Nat /\ FnOf(Top).numLocals \in Nat
      /\ sp - (Ins.a + 1) >= Top.bp + FnOf(Top).numLocals
    BY <1>1, Arities, CurrentFrame, CurrentInstruction, Parameters
       DEF Instruction, IInv, Registers
<1>3. /\ bp \in Nat /\ bp > Top.bp /\ bp >= 1 /\ bp <= StackSize
      /\ bp - 1 = sp - (Ins.a + 1) /\ bp - 1 \in 0..(StackSize - 1)
    BY <1>1, <1>2 DEF InBounds
<1>4. Callee \in Object /\ stack[bp - 1] = Callee
    BY <1>1, <1>2, <1>3 DEF Callee, Peek, IInv, Registers
<1>5. callee \in 2..Len(closures) /\ Callee = Obj("CLOSURE", callee)
    <2>1. FirstClosure = 2
        BY <1>1, MainNoObject DEF IInv
    <2>2. callee \in FirstClosure..Len(closures)
        BY <1>1, <1>4, ObjectLiterals
    <2>3. Callee \in {"CLOSURE"} \X (FirstClosure..Len(closures)) \X { <<>> }
        BY <1>1, <1>4 DEF Object, Value
    <2> QED BY <2>1, <2>2, <2>3 DEF Obj
<1>6. /\ f \in DOMAIN prog.fns /\ f # 0 /\ VerifiedFn(f)
      /\ prog.fns[f] \in Function /\ CalleeFn = prog.fns[f]
    <2>1. callee \in 1..Len(closures) /\ f # 0
        BY <1>5 DEF SInv, CalleesNotMain
    <2>2. closures[callee] \in [fn : DOMAIN prog.fns, free : Seq(Object)]
        BY <1>1, <2>1, ElementOfSeq DEF IInv, Memory
    <2>3. CalleeFn = prog.fns[f]
        BY DEF CalleeFn, FnOf, Fn
    <2> QED BY <1>1, <2>1, <2>2, <2>3, ProgramVerified, Parameters DEF IInv
<1>7. /\ frames \in [0..(MaxFrames - 1) -> Frame]
      /\ frameIndex - 1 \in 0..(MaxFrames - 1) /\ frameIndex \in 0..(MaxFrames - 1)
      /\ frameIndex - 1 # frameIndex
    BY <1>1, <1>2 DEF IInv, FramesTyped
<1>8. /\ \A j \in 0..(frameIndex - 2) : frames'[j] = frames[j]
      /\ frames'[frameIndex - 1] = [frames[frameIndex - 1] EXCEPT !.pc = @ + 1]
      /\ frames'[frameIndex] = NewFrame(callee, bp)
    <2>1. frames' = [frames EXCEPT ![frameIndex - 1].pc = @ + 1,
                                   ![frameIndex] = NewFrame(callee, bp)]
        BY DEF CallClosure
    <2> QED BY <1>2, <1>7, <2>1
<1>9. /\ \A j \in 0..(frameIndex - 1) :
            frames'[j].cl = frames[j].cl /\ frames'[j].bp = frames[j].bp
      /\ frames'[frameIndex - 1].pc = Top.pc + 1
    <2>1. frames[frameIndex - 1] \in Frame
        BY <1>7
    <2>2. /\ frames'[frameIndex - 1].cl = frames[frameIndex - 1].cl
          /\ frames'[frameIndex - 1].bp = frames[frameIndex - 1].bp
          /\ frames'[frameIndex - 1].pc = frames[frameIndex - 1].pc + 1
        BY <1>8, <2>1 DEF Frame
    <2>3. \A j \in 0..(frameIndex - 1) : j = frameIndex - 1 \/ j \in 0..(frameIndex - 2)
        BY <1>2
    <2> QED BY <1>8, <2>2, <2>3 DEF Top
<1>10. /\ frames'[frameIndex].cl = callee /\ frames'[frameIndex].bp = bp
       /\ frames'[frameIndex].pc = 1
    BY <1>8 DEF NewFrame
<1> QED BY <1>1, <1>2, <1>3, <1>4, <1>5, <1>6, <1>7, <1>8, <1>9, <1>10

\* It preserves the invariant.
LEMMA CallStep ==
    ASSUME SInv, CallClosure, IInv'
    PROVE  SInv'
<1> DEFINE bp == sp - Ins.a
           callee == Callee[2]
           f == closures[callee].fn
<1>1. /\ Fetched /\ status = "running" /\ Ins.op = "OpCall"
      /\ frameIndex' = frameIndex + 1 /\ sp' = bp + CalleeFn.numLocals
      /\ UNCHANGED <<prog, stack, closures, status, reason>>
      /\ IInv /\ FramesInOrder /\ CalleeInPlace /\ Running
    BY DEF CallClosure, Fetch, Fetched, Keep, SInv
<1> HIDE DEF bp, callee, f
<1>2. /\ frameIndex \in 1..MaxFrames /\ MaxFrames \in Nat
      /\ Ins.a \in Nat /\ sp \in Nat /\ StackSize \in Nat
      /\ Top.bp \in Nat /\ FnOf(Top).numLocals \in Nat
    BY CallMakes, Parameters
<1>3. /\ bp \in Nat /\ bp > Top.bp /\ bp >= 1 /\ bp <= StackSize
    BY <1>2, CallMakes DEF bp
<1>4. stack[bp - 1] = Obj("CLOSURE", callee)
    BY CallMakes DEF bp, callee
<1>6. /\ f \in DOMAIN prog.fns /\ f # 0 /\ VerifiedFn(f)
      /\ prog.fns[f] \in Function /\ CalleeFn = prog.fns[f]
    BY CallMakes DEF callee, f
<1>7. frames \in [0..(MaxFrames - 1) -> Frame]
    BY CallMakes
<1>8. \A j \in 0..(frameIndex - 2) : frames'[j] = frames[j]
    BY CallMakes
<1>9. /\ \A j \in 0..(frameIndex - 1) :
            frames'[j].cl = frames[j].cl /\ frames'[j].bp = frames[j].bp
      /\ frames'[frameIndex - 1].pc = Top.pc + 1
    BY CallMakes
<1>10. /\ frames'[frameIndex].cl = callee /\ frames'[frameIndex].bp = bp
       /\ frames'[frameIndex].pc = 1
    BY CallMakes DEF bp, callee
<1>11. \A j \in 0..frameIndex : \/ j \in 0..(frameIndex - 2)
                               \/ j = frameIndex - 1 \/ j = frameIndex
    BY <1>2
<1>12. ASSUME NEW j \in 0..(frameIndex - 2)
       PROVE  FrameInOrder(j)'
    <2>1. j \in 0..(frameIndex - 1) /\ j + 1 \in 0..(frameIndex - 1)
          /\ j # frameIndex - 1 /\ j # frameIndex' - 1
        BY <1>1, <1>2
    <2>2. FrameInOrder(j)
        BY <1>1, <2>1 DEF FramesInOrder
    <2>3. Extent(j)' = Extent(j)
        BY <1>9, <2>1 DEF Extent
    <2> QED BY <1>1, <1>8, <2>2, <2>3, FrameKept
<1>13. ASSUME NEW j \in 0..frameIndex, j = frameIndex - 1
       PROVE  FrameInOrder(j)'
    <2> DEFINE g == FnNumber(Top)
               pc == Top.pc + 1
    <2>1. /\ g \in DOMAIN prog.fns /\ FnOf(Top) = prog.fns[g]
          /\ DepthOf(Top) \in Nat /\ sp = Top.bp + FnOf(Top).numLocals + DepthOf(Top)
          /\ frameIndex = 1 => Top.bp = 0 /\ g = 0
          /\ frameIndex # 1 => Top.bp >= 1 /\ g # 0
        BY <1>1, CurrentFrame
    <2>2. Pops(Ins) = Ins.a + 1 /\ Pushes(Ins) = 1 /\ pc \in Successors(Ins, Top.pc)
        BY <1>1, Arities DEF Successors, ReturnOps
    <2>3. /\ pc \in 1..(Len(TopCode) + 1) /\ Pops(Ins) <= DepthOf(Top)
          /\ prog.depth[g][pc] = DepthOf(Top) - Pops(Ins) + Pushes(Ins)
        BY <1>1, <2>2, CurrentInstruction
    <2>4. /\ frames'[j].bp = Top.bp /\ frames'[j].pc = pc
          /\ closures'[frames'[j].cl].fn = g
        BY <1>1, <1>2, <1>9, <1>13 DEF Top, FnNumber
    <2>5. /\ Extent(j)' = bp
          /\ FnNumber(frames[j])' = g /\ FnOf(frames[j])' = prog.fns[g]
          /\ DepthOf(frames[j])' = prog.depth[g][pc]
        <3>1. j # frameIndex' - 1 /\ j + 1 = frameIndex
            BY <1>1, <1>2, <1>13
        <3> QED BY <1>1, <1>10, <2>4, <3>1 DEF Extent, FnNumber, FnOf, Fn, DepthOf
    <2>6. pc \in 1..(Len(prog.fns[g].ins) + 1)
        BY <2>1, <2>3 DEF TopCode
    <2> HIDE DEF g, pc
    <2>7. /\ prog.depth[g][pc] >= 0
          /\ bp = Top.bp + prog.fns[g].numLocals + prog.depth[g][pc]
        <3>1. prog.depth[g][pc] = DepthOf(Top) - Ins.a /\ Ins.a + 1 <= DepthOf(Top)
            BY <1>2, <2>1, <2>2, <2>3
        <3> QED BY <1>2, <2>1, <3>1 DEF bp
    <2>8. j = 0 <=> frameIndex = 1
        BY <1>2, <1>13
    <2> QED BY <1>1, <2>1, <2>4, <2>5, <2>6, <2>7, <2>8 DEF FrameInOrder
<1>14. ASSUME NEW j \in 0..frameIndex, j = frameIndex
       PROVE  FrameInOrder(j)'
    <2>1. Len(prog.fns[f].ins) \in Nat /\ prog.fns[f].numLocals \in Nat
        BY <1>6, LenProperties DEF Function
    <2>2. prog.depth[f][1] = 0
        BY <1>6 DEF VerifiedFn, FunctionVerified
    <2>3. /\ Extent(j)' = sp'
          /\ FnNumber(frames[j])' = f /\ FnOf(frames[j])' = prog.fns[f]
          /\ DepthOf(frames[j])' = prog.depth[f][1]
        <3>1. j = frameIndex' - 1
            BY <1>1, <1>2, <1>14
        <3> QED BY <1>1, <1>10, <1>14, <3>1 DEF Extent, FnNumber, FnOf, Fn, DepthOf, f
    <2>4. sp' = bp + prog.fns[f].numLocals + prog.depth[f][1]
        BY <1>1, <1>3, <1>6, <2>1, <2>2
    <2>5. frames'[j].bp = bp /\ frames'[j].pc = 1 /\ j # 0
        BY <1>2, <1>10, <1>14
    <2> QED BY <1>1, <1>3, <1>6, <2>1, <2>2, <2>3, <2>4, <2>5 DEF FrameInOrder
<1>15. FramesInOrder'
    <2>1. frameIndex' - 1 = frameIndex /\ frameIndex' >= 1
        BY <1>1, <1>2
    <2>2. \A j \in 0..(frameIndex' - 1) : FrameInOrder(j)'
        BY <1>11, <1>12, <1>13, <1>14, <2>1
    <2> QED BY <2>1, <2>2 DEF FramesInOrder
<1>16. CalleeInPlace'
    <2> SUFFICES ASSUME NEW j \in 1..(frameIndex' - 1)
                 PROVE  /\ frames'[j].bp <= StackSize
                        /\ stack'[frames'[j].bp - 1] = Obj("CLOSURE", frames'[j].cl)
        BY DEF CalleeInPlace
    <2>1. CASE j = frameIndex
        BY <1>1, <1>3, <1>4, <1>10, <2>1
    <2>2. CASE j # frameIndex
        <3>1. j \in 1..(frameIndex - 1) /\ j \in 0..(frameIndex - 1)
            BY <1>1, <1>2, <2>2
        <3> QED BY <1>1, <1>9, <3>1 DEF CalleeInPlace
    <2> QED BY <2>1, <2>2
<1>17. BasesAscend'
    <2> SUFFICES ASSUME NEW i \in 0..frameIndex, NEW j \in 0..frameIndex, i < j
                 PROVE  frames'[i].bp < frames'[j].bp
        <3>1. frameIndex' - 1 = frameIndex
            BY <1>1, <1>2
        <3> QED BY <3>1 DEF BasesAscend
    <2>1. i \in 0..(frameIndex - 1) /\ frameIndex - 1 \in 0..(frameIndex - 1)
        BY <1>2
    <2>2. frames[i].bp <= Top.bp
        <3>1. i = frameIndex - 1 \/ i < frameIndex - 1
            BY <1>2, <2>1
        <3>2. CASE i < frameIndex - 1
            <4>1. frames[i].bp < frames[frameIndex - 1].bp
                BY <1>1, <2>1, <3>2 DEF Running, BasesAscend
            <4>2. frames[i].bp \in Nat
                <5>1. i \in 0..(MaxFrames - 1)
                    BY <1>2, <2>1
                <5> QED BY <1>7, <5>1 DEF Frame
            <4> QED BY <1>2, <4>1, <4>2 DEF Top
        <3> QED BY <1>2, <3>1, <3>2 DEF Top
    <2>3. CASE j = frameIndex
        <3>1. frames[i].bp \in Nat
            <4>1. i \in 0..(MaxFrames - 1)
                BY <1>2, <2>1
            <4> QED BY <1>7, <4>1 DEF Frame
        <3> QED BY <1>2, <1>3, <1>9, <1>10, <2>1, <2>2, <2>3, <3>1
    <2>4. CASE j # frameIndex
        <3>1. j \in 0..(frameIndex - 1)
            BY <1>2, <2>4
        <3> QED BY <1>1, <1>9, <2>1, <3>1 DEF Running, BasesAscend
    <2> QED BY <2>3, <2>4
<1>18. Untouched'
    <2>1. Top' = frames'[frameIndex]
        <3>1. frameIndex' - 1 = frameIndex
            BY <1>1, <1>2
        <3> QED BY <3>1 DEF Top
    <2>2. Top'.bp = bp /\ FnOf(Top)' = CalleeFn
        BY <1>1, <1>6, <1>10, <2>1 DEF FnOf, Fn, f
    <2> QED BY <1>1, <2>2 DEF Untouched
<1>19. Running'
    BY <1>1, <1>17, <1>18 DEF Running
<1>20. ClosuresInOrder' /\ CalleesNotMain'
    BY <1>1 DEF SInv, ClosuresInOrder, CalleesNotMain
<1>21. status' = "running" /\ reason' = "none"
    BY <1>1 DEF Running
<1>22. VerifiedProgram(prog)'
    BY <1>1, VerifiedStays
<1> QED BY <1>15, <1>16, <1>19, <1>20, <1>21, <1>22 DEF SInv, FailsUntouched, CleanEnd

-----------------------------------------------------------------------------
(***************************************************************************)
(* The end of a run.                                                        *)
(***************************************************************************)
LEMMA EndStep ==
    ASSUME SInv, IndexOutOfRange \/ EndOfCode \/ Report, IInv'
    PROVE  SInv'
<1>1. /\ UNCHANGED <<prog, stack, sp, frames, frameIndex, closures>>
      /\ status' \in {"returned", "panicked", "reported"}
    BY DEF IndexOutOfRange, EndOfCode, Report, Silent, Stop
<1>2. Overrun' = Overrun /\ Untouched' = Untouched
    BY <1>1 DEF Overrun, Untouched, Top, FnOf, Fn
<1>3. FailsUntouched'
    <2>1. CASE IndexOutOfRange
        <3>1. Fetched /\ ~InBounds
            BY <2>1 DEF IndexOutOfRange
        <3>2. Overrun
            BY <3>1, WithinBounds
        <3>3. Untouched
            BY <3>1, <3>2, OverrunUntouched DEF Fetched
        <3> QED BY <1>2, <3>2, <3>3 DEF FailsUntouched
    <2>2. CASE EndOfCode
        BY <2>2 DEF EndOfCode, Stop, FailsUntouched
    <2>3. CASE Report
        <3>1. reason' = reason \/ reason' = "nothing to report"
            BY <2>3 DEF Report, Stop
        <3>2. FailsUntouched
            BY DEF SInv
        <3> QED BY <1>2, <3>1, <3>2 DEF FailsUntouched
    <2> QED BY <2>1, <2>2, <2>3
<1>4. CleanEnd'
    <2>1. CASE EndOfCode
        <3>1. status = "running" /\ Top.pc > Len(TopCode)
            BY <2>1 DEF EndOfCode
        <3> DEFINE f == FnNumber(Top)
        <3>2. /\ frameIndex \in 1..MaxFrames /\ f \in DOMAIN prog.fns
              /\ FnOf(Top) = prog.fns[f] /\ VerifiedFn(f)
              /\ Top.pc \in 1..(Len(TopCode) + 1) /\ Len(TopCode) \in Nat
              /\ DepthOf(Top) \in Nat /\ sp = Top.bp + FnOf(Top).numLocals + DepthOf(Top)
              /\ frameIndex = 1 => Top.bp = 0 /\ f = 0
              /\ frameIndex # 1 => f # 0
            BY <3>1, CurrentFrame
        <3>3. Top.pc = Len(prog.fns[f].ins) + 1
            BY <3>1, <3>2 DEF TopCode
        <3>4. /\ prog.depth[f][Len(prog.fns[f].ins) + 1] \in (IF f = 0 THEN {-1, 0} ELSE {-1})
              /\ DepthOf(Top) = prog.depth[f][Len(prog.fns[f].ins) + 1]
            BY <3>2, <3>3 DEF VerifiedFn, FunctionVerified, DepthOf
        <3>5. f = 0 /\ DepthOf(Top) = 0
            BY <3>2, <3>4
        <3>6. frameIndex = 1 /\ Top.bp = 0 /\ FnOf(Top).numLocals = 0
            BY <3>2, <3>5, Parameters DEF SInv, IInv
        <3>7. sp = 0
            BY <3>2, <3>5, <3>6
        <3> QED BY <1>1, <3>6, <3>7 DEF CleanEnd
    <2>2. CASE ~EndOfCode
        <3>1. status' # "returned"
            BY <2>2 DEF IndexOutOfRange, Report, Stop
        <3> QED BY <3>1 DEF CleanEnd
    <2> QED BY <2>1, <2>2
<1>5. ClosuresInOrder' /\ CalleesNotMain'
    BY <1>1 DEF SInv, ClosuresInOrder, CalleesNotMain
<1>6. VerifiedProgram(prog)'
    BY <1>1, VerifiedStays
<1> QED BY <1>1, <1>3, <1>4, <1>5, <1>6 DEF SInv, FramesInOrder, CalleeInPlace

\* The initial states satisfy the inductive invariant.
LEMMA InitInOrder == Init => SInv
<1> SUFFICES ASSUME Init PROVE SInv
    OBVIOUS
<1>1. /\ IInv /\ status = "running" /\ reason = "none" /\ sp = 0 /\ frameIndex = 1
      /\ VerifiedProgram(prog)
    BY InitType, VerifiedAssumption DEF Init
<1>2. closures = <<[fn |-> 0, free |-> <<>>]>> /\ frames[0] = [cl |-> 1, pc |-> 1, bp |-> 0]
    BY Parameters DEF Init, NewFrame
<1>3. /\ prog.fns[0] \in Function /\ prog.fns[0].numLocals = 0
      /\ Len(prog.fns[0].ins) \in Nat /\ prog.numFree[0] = 0 /\ prog.depth[0][1] = 0
    BY <1>1, MainVerified DEF IInv
<1>4. Len(closures) = 1 /\ closures[1].fn = 0 /\ closures[1].free = <<>>
    BY <1>2
<1>5. ClosuresInOrder /\ CalleesNotMain
    BY <1>3, <1>4 DEF ClosuresInOrder, CalleesNotMain
<1>6. FrameInOrder(0)
    <2>1. /\ Extent(0) = 0 /\ FnNumber(frames[0]) = 0 /\ FnOf(frames[0]) = prog.fns[0]
          /\ DepthOf(frames[0]) = 0
        BY <1>1, <1>2, <1>3, <1>4 DEF Extent, FnNumber, FnOf, Fn, DepthOf
    <2> QED BY <1>2, <1>3, <2>1 DEF FrameInOrder
<1>7. FramesInOrder
    BY <1>1, <1>6 DEF FramesInOrder
<1>8. CalleeInPlace /\ Running
    BY <1>1, Parameters DEF CalleeInPlace, Running, BasesAscend
<1> QED BY <1>1, <1>5, <1>7, <1>8 DEF SInv, FailsUntouched, CleanEnd

\* Every step preserves it.
LEMMA NextInOrder == SInv /\ [Next]_vars => SInv'
<1> SUFFICES ASSUME SInv, [Next]_vars PROVE SInv'
    OBVIOUS
<1>1. IInv'
    BY NextType DEF SInv
<1>2. CASE UNCHANGED vars
    BY <1>1, <1>2
       DEF vars, SInv, ClosuresInOrder, CalleesNotMain, FramesInOrder, FrameInOrder,
           CalleeInPlace, Running, BasesAscend, Overrun, Untouched, FailsUntouched, CleanEnd,
           Extent, FnNumber, FnOf, Fn, DepthOf, Top
<1>3. CASE Next
    BY <1>1, <1>3, StraightStep, PushersStraight, OperatorsStraight, PoppersStraight,
       JumpsStraight, ClosureStraight, ContainersStraight, CallsStraight,
       ReturnStep, CallStep, EndStep
    DEF Next, Step
<1> QED BY <1>2, <1>3

\* So it always holds.
LEMMA InOrder == Spec => []SInv
<1>1. Init => SInv
    BY InitInOrder
<1>2. SInv /\ [Next]_vars => SInv'
    BY NextInOrder
<1> QED BY <1>1, <1>2, PTL DEF Spec

-----------------------------------------------------------------------------
(***************************************************************************)
(* Theorems.                                                                *)
(***************************************************************************)
(***************************************************************************)
(* On verified code the stack of every frame is as deep as the annotation   *)
(* says, its operands right below the next frame or sp.                     *)
(***************************************************************************)
THEOREM StackInOrder == Spec => []FramesInOrder
<1>1. SInv => FramesInOrder
    BY DEF SInv
<1> QED BY <1>1, InOrder, PTL

(***************************************************************************)
(* While a function runs its own closure stays in the slot below its base,   *)
(* where OpReturnValue will put its result.                                 *)
(***************************************************************************)
THEOREM CalleeStays == Spec => []CalleeInPlace
<1>1. SInv => CalleeInPlace
    BY DEF SInv
<1> QED BY <1>1, InOrder, PTL

(***************************************************************************)
(* OpClosure takes as many objects off the stack as OpGetFree of the         *)
(* function may read.                                                       *)
(***************************************************************************)
THEOREM ClosuresComplete == Spec => []ClosuresInOrder
<1>1. SInv => ClosuresInOrder
    BY DEF SInv
<1> QED BY <1>1, InOrder, PTL

(***************************************************************************)
(* The unchecked indices of the VM (pop, locals, free variables, constants, *)
(* builtins) stay within their slices, however small the stack, unless the  *)
(* locals of the running function did not fit: callFunction does not check. *)
(* A function whose locals did not fit never gets an operand onto the stack.*)
(***************************************************************************)
THEOREM BoundsTheorem == Spec => []BoundsRespected
<1>1. SInv => BoundsRespected
    BY SInvImpliesBounds
<1> QED BY <1>1, InOrder, PTL

(***************************************************************************)
(* When Run returns nil, main is the only frame and the stack is empty.     *)
(***************************************************************************)
THEOREM CleanEndTheorem == Spec => []CleanEnd
<1>1. SInv => CleanEnd
    BY DEF SInv
<1> QED BY <1>1, InOrder, PTL

-----------------------------------------------------------------------------
(***************************************************************************)
(* Frames and stack implement a call stack of separate activations.  The    *)
(* slots of an activation end where those of the next begin, so a step that *)
(* leaves the stack below the base of a frame as it was leaves all the      *)
(* activations below it as they were.                                       *)
(***************************************************************************)
\* The activations of a state in order, one for every active frame.
InShape ==
    /\ frameIndex \in Nat \ {0} /\ Len(Activations) = frameIndex
    /\ \A n \in 1..frameIndex : Activations[n] = Activation(n - 1)
    /\ \A j \in 0..(frameIndex - 1) :
        /\ frames[j].bp \in Nat /\ Extent(j) \in Nat /\ frames[j].bp <= Extent(j)
        /\ Activation(j).closure = Obj("CLOSURE", frames[j].cl)
        /\ Activation(j).pc = frames[j].pc
        /\ Len(Activation(j).slots) = Extent(j) - frames[j].bp
        /\ \A i \in 1..(Extent(j) - frames[j].bp) :
            Activation(j).slots[i] = Slot(frames[j].bp + i - 1)

LEMMA Shape == SInv /\ status = "running" => InShape
<1> SUFFICES ASSUME SInv, status = "running" PROVE InShape
    OBVIOUS
<1>1. frameIndex \in 1..MaxFrames /\ MaxFrames \in Nat /\ sp \in Nat
    BY CurrentFrame, Parameters DEF SInv, IInv, Registers
<1>2. /\ Len(Activations) = frameIndex
      /\ \A n \in 1..frameIndex : Activations[n] = Activation(n - 1)
    BY <1>1 DEF Activations
<1>3. ASSUME NEW j \in 0..(frameIndex - 1)
      PROVE  frames[j].bp \in Nat /\ Extent(j) \in Nat /\ frames[j].bp <= Extent(j)
    <2>1. /\ frames \in [0..(MaxFrames - 1) -> Frame] /\ j \in 0..(MaxFrames - 1)
          /\ j # frameIndex - 1 => j + 1 \in 0..(MaxFrames - 1)
        BY <1>1 DEF SInv, IInv, FramesTyped
    <2>2. frames[j].bp \in Nat /\ Extent(j) \in Nat
        BY <1>1, <2>1 DEF Extent, Frame
    <2>3. CASE j = frameIndex - 1
        BY <2>2, <2>3, CurrentFrame DEF Extent, Top
    <2>4. CASE j # frameIndex - 1
        <3>1. j + 1 \in 0..(frameIndex - 1) /\ j < j + 1
            BY <1>1, <2>4
        <3>2. frames[j].bp < frames[j + 1].bp
            BY <3>1 DEF SInv, Running, BasesAscend
        <3> QED BY <2>2, <2>4, <3>2 DEF Extent
    <2> QED BY <2>2, <2>3, <2>4
<1>4. ASSUME NEW j \in 0..(frameIndex - 1)
      PROVE  /\ Activation(j).closure = Obj("CLOSURE", frames[j].cl)
             /\ Activation(j).pc = frames[j].pc
             /\ Len(Activation(j).slots) = Extent(j) - frames[j].bp
             /\ \A i \in 1..(Extent(j) - frames[j].bp) :
                    Activation(j).slots[i] = Slot(frames[j].bp + i - 1)
    <2>1. Extent(j) - frames[j].bp \in Nat
        BY <1>3
    <2> QED BY <2>1 DEF Activation
<1> QED BY <1>1, <1>2, <1>3, <1>4 DEF InShape

LEMMA ShapeAfter == SInv' /\ status' = "running" => InShape'
<1>1. (SInv /\ status = "running" => InShape)'
    BY Shape, PTL
<1> QED BY <1>1

\* Below a frame whose base stays, if the stack below that base and the frames there
\* stay as they were, so do their activations.
LEMMA SuspendedKept ==
    ASSUME SInv, status = "running", NEW n \in 0..(frameIndex - 1),
           NEW m \in Nat, frameIndex' = m, n < m,
           \A j \in 0..(n - 1) : frames'[j] = frames[j],
           frames'[n].bp = frames[n].bp,
           \A i \in 0..(StackSize - 1) : i < frames[n].bp => stack'[i] = stack[i]
    PROVE  \A j \in 0..(n - 1) : Activation(j)' = Activation(j)
<1> SUFFICES ASSUME NEW j \in 0..(n - 1) PROVE Activation(j)' = Activation(j)
    OBVIOUS
<1>1. /\ frameIndex \in Nat \ {0} /\ StackSize \in Nat
      /\ frames[j].bp \in Nat /\ frames[j + 1].bp \in Nat /\ frames[n].bp \in Nat
    BY Shape, Parameters DEF InShape
<1>2. Extent(j) = frames[j + 1].bp
    BY <1>1 DEF Extent
<1>3. Extent(j)' = frames[j + 1].bp
    <2>1. frames'[j + 1].bp = frames[j + 1].bp
        <3>1. j + 1 = n \/ j + 1 \in 0..(n - 1)
            OBVIOUS
        <3> QED BY <3>1
    <2>2. j # frameIndex' - 1
        <3>1. n \in Nat /\ j \in Nat /\ j < n
            BY <1>1
        <3>2. j # m - 1
            BY <3>1
        <3> QED BY <3>2
    <2> QED BY <2>1, <2>2 DEF Extent
<1>4. frames[j + 1].bp <= frames[n].bp
    <2>1. CASE j + 1 = n
        BY <1>1, <2>1
    <2>2. CASE j + 1 # n
        <3>1. j + 1 \in 0..(frameIndex - 1) /\ j + 1 < n
            BY <1>1, <2>2
        <3> QED BY <1>1, <3>1 DEF SInv, Running, BasesAscend
    <2> QED BY <2>1, <2>2
<1>5. ASSUME NEW i \in 1..(frames[j + 1].bp - frames[j].bp)
      PROVE  Slot(frames[j].bp + i - 1)' = Slot(frames[j].bp + i - 1)
    <2> DEFINE k == frames[j].bp + i - 1
    <2>1. k \in Nat /\ k < frames[n].bp
        BY <1>1, <1>4
    <2>2. k < StackSize => stack'[k] = stack[k]
        BY <1>1, <2>1
    <2>3. /\ Slot(frames[j].bp + i - 1)' = IF k < StackSize THEN stack'[k] ELSE Nil
          /\ Slot(frames[j].bp + i - 1) = IF k < StackSize THEN stack[k] ELSE Nil
        BY DEF Slot
    <2> HIDE DEF k
    <2> QED BY <2>2, <2>3
<1>6. [i \in 1..(Extent(j) - frames[j].bp) |-> Slot(frames[j].bp + i - 1)]'
        = [i \in 1..(Extent(j) - frames[j].bp) |-> Slot(frames[j].bp + i - 1)]
    BY <1>2, <1>3, <1>5
<1> QED BY <1>6 DEF Activation

\* When Run is over, so are all activations.
LEMMA EndCalls ==
    ASSUME SInv, status = "running", status' # "running"
    PROVE  Calling!End
<1>1. Activations # <<>>
    BY Shape DEF InShape
<1>2. Activations' = <<>>
    BY DEF Activations
<1> QED BY <1>1, <1>2 DEF Calling!End

\* A step that stays in its function is the work of the innermost activation.
LEMMA WorkCalls ==
    ASSUME SInv, Fetched, Straight, SInv', status' = "running"
    PROVE  Calling!Work
<1>1. /\ status = "running" /\ IInv /\ Effect /\ frameIndex' = frameIndex
    BY DEF Fetched, SInv, Straight
<1>2. PICK s \in Nat : GoesTo(s)
    BY DEF Straight
<1>3. PICK k : k = frameIndex - 1
    OBVIOUS
<1>4. /\ frameIndex \in Nat \ {0} /\ k \in Nat /\ frameIndex = k + 1
      /\ k \in 0..(frameIndex - 1)
    BY <1>1, <1>3, Shape DEF InShape
<1>5. /\ frames'[k].cl = frames[k].cl /\ frames'[k].bp = frames[k].bp
      /\ \A j \in 0..(k - 1) : frames'[j] = frames[j]
    BY <1>1, <1>2, <1>3, <1>4, FramesKept
<1>6. \A j \in 0..(k - 1) : Activation(j)' = Activation(j)
    <2>1. \A i \in 0..(StackSize - 1) : i < frames[k].bp => stack'[i] = stack[i]
        BY <1>1, <1>3 DEF Effect, Top
    <2> QED BY <1>1, <1>4, <1>5, <2>1, SuspendedKept
<1>7. /\ Len(Activations) = k + 1 /\ Len(Activations') = k + 1
      /\ \A n \in 1..(k + 1) :
            Activations[n] = Activation(n - 1) /\ Activations'[n] = Activation(n - 1)'
      /\ Activation(k).closure = Obj("CLOSURE", frames[k].cl)
      /\ Activation(k)'.closure = Obj("CLOSURE", frames'[k].cl)
    BY <1>1, <1>4, Shape, ShapeAfter DEF InShape
<1>8. Activations # <<>>
    BY <1>4, <1>7
<1>9. \A n \in 1..k : Activations'[n] = Activations[n]
    BY <1>4, <1>6, <1>7
<1>10. Activations'[k + 1].closure = Activations[k + 1].closure
    BY <1>4, <1>5, <1>7
<1> QED BY <1>4, <1>7, <1>8, <1>9, <1>10 DEF Calling!Work, Calling!Keeps, Calling!Innermost

\* A return writes one slot, the one below the base of its frame.
LEMMA ReturnTouches ==
    ASSUME SInv, OpReturn
    PROVE  \A i \in 0..(StackSize - 1) : i < Top.bp - 1 => stack'[i] = stack[i]
<1>1. stack \in [0..(StackSize - 1) -> Object]
    BY DEF SInv, IInv, Registers
<1>2. Top.bp \in Nat
    BY CurrentFrame DEF OpReturn, Fetch, Fetched
<1> DEFINE p == Top.bp - 1
           v == IF Ins.op = "OpReturn" THEN NullS ELSE Peek(1)
<1>3. Push(p, v)
    BY DEF OpReturn
<1>4. p \in Int
    BY <1>2
<1> HIDE DEF p, v
<1>5. \/ stack' = stack
      \/ stack' = [stack EXCEPT ![p] = v]
    BY <1>3 DEF Push
<1>6. \A i \in 0..(StackSize - 1) : i < p => stack'[i] = stack[i]
    <2> SUFFICES ASSUME NEW i \in 0..(StackSize - 1), i < p PROVE stack'[i] = stack[i]
        OBVIOUS
    <2>1. i # p
        BY <1>4
    <2>2. stack[i] = [stack EXCEPT ![p] = v][i]
        BY <1>1, <2>1
    <2> QED BY <1>5, <2>2
<1> QED BY <1>6 DEF p

\* What a return does to the stack: the result is in the slot below the base.
LEMMA ReturnMakes ==
    ASSUME SInv, OpReturn
    PROVE  /\ status = "running" /\ status' = "running"
           /\ frameIndex - 1 >= 1 /\ frameIndex' = frameIndex - 1 /\ frames' = frames
           /\ Top.bp \in 1..StackSize /\ sp' = Top.bp
           /\ \A i \in 0..(StackSize - 1) : i < Top.bp - 1 => stack'[i] = stack[i]
           /\ \/ stack'[Top.bp - 1] = NullS
              \/ sp - 1 >= Top.bp /\ sp - 1 < StackSize /\ stack'[Top.bp - 1] = stack[sp - 1]
<1>1. /\ Fetched /\ status = "running" /\ Ins.op \in ReturnOps /\ InBounds
      /\ frameIndex' = frameIndex - 1 /\ frames' = frames /\ IInv /\ CalleeInPlace
      /\ Push(Top.bp - 1, IF Ins.op = "OpReturn" THEN NullS ELSE Peek(1))
    BY DEF OpReturn, Fetch, Fetched, SInv
<1>2. /\ frameIndex \in 1..MaxFrames /\ Top.bp \in Nat /\ StackSize \in Nat /\ sp \in Nat
      /\ frameIndex # 1 /\ Top.bp >= 1
    BY <1>1, CurrentFrame, CurrentInstruction, Parameters
       DEF OperandsExist, IInv, Registers
<1>3. Top.bp <= StackSize
    <2>1. frameIndex - 1 \in 1..(frameIndex - 1)
        BY <1>2, Parameters
    <2> QED BY <1>1, <2>1 DEF CalleeInPlace, Top
<1> DEFINE p == Top.bp - 1
           v == IF Ins.op = "OpReturn" THEN NullS ELSE Peek(1)
<1>4. p \in 0..(StackSize - 1) /\ ~(p >= StackSize) /\ p + 1 = Top.bp
    BY <1>2, <1>3
<1>5. sp' = p + 1 /\ stack' = [stack EXCEPT ![p] = v] /\ status' = status
    <2>1. Push(p, v)
        BY <1>1
    <2> HIDE DEF p, v
    <2> QED BY <1>4, <2>1 DEF Push, Keep
<1>6. stack'[p] = v
    BY <1>1, <1>4, <1>5 DEF IInv, Registers
<1>7. CASE Ins.op = "OpReturn"
    BY <1>1, <1>2, <1>3, <1>4, <1>5, <1>6, <1>7, ReturnTouches
<1>8. CASE Ins.op = "OpReturnValue"
    <2>1. Pops(Ins) = 1 /\ HasOperands
        BY <1>1, <1>8 DEF Pops, InBounds
    <2>2. sp - 1 >= Top.bp /\ sp - 1 < StackSize
        BY <1>1, <1>2, <2>1, AboveBase DEF HasOperands
    <2>3. v = stack[sp - 1]
        BY <1>8 DEF Peek
    <2> QED BY <1>1, <1>2, <1>3, <1>4, <1>5, <1>6, <2>2, <2>3, ReturnTouches
<1> QED BY <1>1, <1>7, <1>8 DEF ReturnOps

\* It is the return of the innermost activation.
LEMMA ReturnCalls ==
    ASSUME SInv, OpReturn, SInv'
    PROVE  Calling!Return
<1>1. /\ status = "running" /\ status' = "running"
      /\ frameIndex - 1 >= 1 /\ frameIndex' = frameIndex - 1 /\ frames' = frames
      /\ Top.bp \in 1..StackSize /\ sp' = Top.bp
      /\ \A i \in 0..(StackSize - 1) : i < Top.bp - 1 => stack'[i] = stack[i]
      /\ \/ stack'[Top.bp - 1] = NullS
         \/ sp - 1 >= Top.bp /\ sp - 1 < StackSize /\ stack'[Top.bp - 1] = stack[sp - 1]
    BY ReturnMakes
<1>2. /\ InShape /\ InShape' /\ StackSize \in Nat /\ sp \in Nat
      /\ BasesAscend
    BY <1>1, Shape, ShapeAfter, Parameters DEF SInv, IInv, Registers, Running
<1>3. PICK k : k = frameIndex - 2
    OBVIOUS
<1>4. /\ k \in Nat /\ frameIndex = k + 2 /\ frameIndex' = k + 1
      /\ k \in 0..(frameIndex - 1) /\ k + 1 \in 0..(frameIndex - 1)
      /\ k \in 0..(frameIndex' - 1) /\ Top = frames[k + 1]
    BY <1>1, <1>2, <1>3 DEF InShape, Top
<1>5. PICK a : a = frames[k].bp
    OBVIOUS
<1>6. PICK b : b = Top.bp
    OBVIOUS
<1>7. /\ a \in Nat /\ b \in 1..StackSize /\ a < b
      /\ Extent(k) = b /\ Extent(k)' = b /\ frames'[k].bp = a
    <2>1. a < b
        BY <1>2, <1>4, <1>5, <1>6 DEF BasesAscend
    <2>2. Extent(k) = b
        BY <1>4, <1>6 DEF Extent
    <2>3. Extent(k)' = b
        BY <1>1, <1>4, <1>6 DEF Extent
    <2> QED BY <1>1, <1>2, <1>4, <1>5, <1>6, <2>1, <2>2, <2>3 DEF InShape
<1>8. \A j \in 0..(k - 1) : Activation(j)' = Activation(j)
    <2>1. \A i \in 0..(StackSize - 1) : i < frames[k].bp => stack'[i] = stack[i]
        BY <1>1, <1>2, <1>5, <1>6, <1>7
    <2> QED BY <1>1, <1>4, <2>1, SuspendedKept
<1> DEFINE waiting == Activations[k + 1]
           resumed == Activations'[k + 1]
           last == Activations[k + 2]
<1>9. /\ Len(Activations) = k + 2 /\ Len(Activations') = k + 1
      /\ \A n \in 1..k : Activations'[n] = Activations[n]
      /\ waiting = Activation(k) /\ resumed = Activation(k)' /\ last = Activation(k + 1)
    BY <1>2, <1>4, <1>8 DEF InShape
<1>10. /\ resumed.closure = waiting.closure /\ resumed.pc = waiting.pc
       /\ Len(waiting.slots) = b - a /\ Len(resumed.slots) = b - a
    BY <1>1, <1>2, <1>4, <1>5, <1>7, <1>9 DEF InShape
<1>11. ASSUME NEW i \in 1..((b - a) - 1)
       PROVE  resumed.slots[i] = waiting.slots[i]
    <2>1. waiting.slots[i] = Slot(a + i - 1)
        <3>1. i \in 1..(Extent(k) - frames[k].bp)
            BY <1>5, <1>7
        <3> QED BY <1>2, <1>4, <1>5, <1>9, <3>1 DEF InShape
    <2>3. resumed.slots[i] = Slot(frames[k].bp + i - 1)'
        <3>1. i \in 1..(Extent(k)' - frames'[k].bp)
            BY <1>7
        <3> QED BY <1>2, <1>4, <1>9, <3>1 DEF InShape
    <2>2. a + i - 1 \in 0..(StackSize - 1) /\ a + i - 1 < b - 1
        BY <1>2, <1>7
    <2> QED BY <1>1, <1>6, <1>7, <2>1, <2>2, <2>3 DEF Slot
<1>12. resumed.slots[b - a] = stack'[b - 1]
    <2>1. b - a \in 1..(b - a) /\ a + (b - a) - 1 = b - 1 /\ b - 1 < StackSize
        BY <1>2, <1>7
    <2>2. resumed.slots[b - a] = Slot(frames[k].bp + (b - a) - 1)'
        <3>1. b - a \in 1..(Extent(k)' - frames'[k].bp)
            BY <1>7, <2>1
        <3> QED BY <1>2, <1>4, <1>9, <3>1 DEF InShape
    <2> QED BY <1>7, <2>1, <2>2 DEF Slot
<1>13. resumed.slots[b - a] \in {NullS} \cup {last.slots[i] : i \in {Len(last.slots)} \ {0}}
    <2>1. CASE stack'[b - 1] = NullS
        BY <1>12, <2>1
    <2>2. CASE sp - 1 >= b /\ sp - 1 < StackSize /\ stack'[b - 1] = stack[sp - 1]
        <3>1. Extent(k + 1) = sp /\ frames[k + 1].bp = b
            BY <1>4, <1>6 DEF Extent
        <3>2. Len(last.slots) = sp - b /\ sp - b \in 1..(sp - b) /\ sp - b # 0
            <4>1. Len(last.slots) = sp - b
                BY <1>2, <1>4, <1>9, <3>1 DEF InShape
            <4> QED BY <1>2, <1>7, <2>2, <4>1
        <3>3. last.slots[sp - b] = Slot(b + (sp - b) - 1)
            BY <1>2, <1>4, <1>9, <3>1, <3>2 DEF InShape
        <3>4. last.slots[sp - b] = stack[sp - 1]
            BY <1>2, <1>7, <2>2, <3>3 DEF Slot
        <3> QED BY <1>12, <2>2, <3>2, <3>4
    <2> QED BY <1>1, <1>6, <2>1, <2>2
<1>14. /\ Len(Activations) - 1 = k + 1 /\ Len(Activations) - 1 >= 1
       /\ waiting = Activations[Len(Activations) - 1]
       /\ resumed = Activations'[Len(Activations) - 1]
       /\ last = Calling!Innermost
    BY <1>4, <1>9 DEF Calling!Innermost
<1>15. Calling!Keeps((Len(Activations) - 1) - 1)
    BY <1>4, <1>9, <1>14 DEF Calling!Keeps
<1> HIDE DEF waiting, resumed, last
<1>16. /\ Len(Activations') = Len(Activations) - 1
       /\ Len(resumed.slots) = Len(waiting.slots)
       /\ \A i \in 1..(Len(waiting.slots) - 1) : resumed.slots[i] = waiting.slots[i]
       /\ resumed.slots[Len(waiting.slots)] \in
              {NullS} \cup {last.slots[i] : i \in {Len(last.slots)} \ {0}}
    BY <1>9, <1>10, <1>11, <1>13, <1>14
<1> QED BY <1>10, <1>14, <1>15, <1>16 DEF Calling!Return

\* A call of a closure is a call by the innermost activation.
LEMMA CallCalls ==
    ASSUME SInv, CallClosure, SInv'
    PROVE  Calling!Call
<1>1. PICK b : b = sp - Ins.a
    OBVIOUS
<1>2. PICK callee : callee = Callee[2]
    OBVIOUS
<1>3. PICK f : f = closures[callee].fn
    OBVIOUS
<1>4. PICK k : k = frameIndex - 1
    OBVIOUS
<1>5. PICK a : a = Top.bp
    OBVIOUS
<1>6. /\ status = "running" /\ status' = "running" /\ frameIndex' = frameIndex + 1
      /\ stack' = stack /\ sp' = b + CalleeFn.numLocals /\ CalleeFn.numParams = Ins.a
    BY <1>1 DEF CallClosure, Fetch, Fetched, Keep
<1>7. /\ a \in Nat /\ sp \in Nat /\ Ins.a \in Nat
      /\ b \in Nat /\ b > a /\ b <= StackSize
      /\ stack[b - 1] = Obj("CLOSURE", callee)
      /\ VerifiedFn(f) /\ prog.fns[f] \in Function /\ CalleeFn = prog.fns[f]
      /\ \A j \in 0..(frameIndex - 2) : frames'[j] = frames[j]
      /\ \A j \in 0..(frameIndex - 1) :
            frames'[j].cl = frames[j].cl /\ frames'[j].bp = frames[j].bp
      /\ frames'[frameIndex - 1].pc = Top.pc + 1
      /\ frames'[frameIndex].cl = callee /\ frames'[frameIndex].bp = b
      /\ frames'[frameIndex].pc = 1
    <2>1. /\ Top.bp \in Nat /\ sp \in Nat /\ Ins.a \in Nat
          /\ b \in Nat /\ b > Top.bp /\ b <= StackSize
          /\ stack[b - 1] = Obj("CLOSURE", callee)
        BY <1>1, <1>2, <1>3, CallMakes
    <2>2. VerifiedFn(f) /\ prog.fns[f] \in Function /\ CalleeFn = prog.fns[f]
        BY <1>1, <1>2, <1>3, CallMakes
    <2>3. /\ \A j \in 0..(frameIndex - 2) : frames'[j] = frames[j]
          /\ \A j \in 0..(frameIndex - 1) :
                frames'[j].cl = frames[j].cl /\ frames'[j].bp = frames[j].bp
          /\ frames'[frameIndex - 1].pc = Top.pc + 1
        BY <1>1, <1>2, <1>3, CallMakes
    <2>4. /\ frames'[frameIndex].cl = callee /\ frames'[frameIndex].bp = b
          /\ frames'[frameIndex].pc = 1
        BY <1>1, <1>2, <1>3, CallMakes
    <2> QED BY <1>5, <2>1, <2>2, <2>3, <2>4
<1>8. CalleeFn.numLocals \in Nat /\ Ins.a <= CalleeFn.numLocals
    BY <1>6, <1>7 DEF VerifiedFn, FunctionVerified, Function
<1>9. InShape /\ InShape' /\ StackSize \in Nat
    BY <1>6, Shape, ShapeAfter, Parameters
<1>10. /\ k \in Nat /\ frameIndex = k + 1 /\ frameIndex' = k + 2 /\ Top = frames[k]
       /\ k \in 0..(frameIndex - 1) /\ k \in 0..(frameIndex' - 1)
       /\ k + 1 \in 0..(frameIndex' - 1)
    BY <1>4, <1>6, <1>9 DEF InShape, Top
<1>11. /\ frames[k].bp = a /\ frames'[k].bp = a /\ frames'[k].cl = frames[k].cl
       /\ frames'[k].pc = frames[k].pc + 1
       /\ frames'[k + 1].bp = b /\ frames'[k + 1].pc = 1 /\ frames'[k + 1].cl = callee
       /\ Extent(k) = sp /\ Extent(k)' = b /\ Extent(k + 1)' = sp'
    <2>1. /\ frames[k].bp = a /\ frames'[k].bp = a /\ frames'[k].cl = frames[k].cl
          /\ frames'[k].pc = frames[k].pc + 1
          /\ frames'[k + 1].bp = b /\ frames'[k + 1].pc = 1 /\ frames'[k + 1].cl = callee
        BY <1>4, <1>5, <1>7, <1>10
    <2>2. Extent(k) = sp
        BY <1>4 DEF Extent
    <2>3. Extent(k)' = b /\ Extent(k + 1)' = sp'
        BY <1>10, <2>1 DEF Extent
    <2> QED BY <2>1, <2>2, <2>3
<1>12. \A j \in 0..(k - 1) : Activation(j)' = Activation(j)
    <2>1. \A j \in 0..(k - 1) : frames'[j] = frames[j]
        BY <1>7, <1>10
    <2>2. k + 2 \in Nat /\ k < k + 2
        BY <1>10
    <2> QED BY <1>6, <1>10, <1>11, <2>1, <2>2, SuspendedKept
<1> DEFINE caller == Activations[k + 1]
           waiting == Activations'[k + 1]
           called == Activations'[k + 2]
<1> HIDE DEF caller, waiting, called
<1>13. /\ Len(Activations) = k + 1 /\ Len(Activations') = k + 2
       /\ \A n \in 1..k : Activations'[n] = Activations[n]
       /\ caller = Activation(k) /\ waiting = Activation(k)' /\ called = Activation(k + 1)'
    BY <1>9, <1>10, <1>12 DEF InShape, caller, waiting, called
<1>14. /\ waiting.closure = caller.closure /\ waiting.pc = caller.pc + 1
       /\ Len(waiting.slots) = b - a /\ Len(caller.slots) = sp - a
    <2>1. caller.closure = Obj("CLOSURE", frames[k].cl) /\ caller.pc = frames[k].pc
          /\ Len(caller.slots) = sp - a
        BY <1>9, <1>10, <1>11, <1>13 DEF InShape
    <2>2. waiting.closure = Obj("CLOSURE", frames'[k].cl) /\ waiting.pc = frames'[k].pc
          /\ Len(waiting.slots) = b - a
        BY <1>9, <1>10, <1>11, <1>13 DEF InShape
    <2> QED BY <1>11, <2>1, <2>2
<1>15. /\ called.closure = Obj("CLOSURE", callee) /\ called.pc = 1
       /\ Len(called.slots) = CalleeFn.numLocals
    <2>1. called.closure = Obj("CLOSURE", frames'[k + 1].cl)
          /\ called.pc = frames'[k + 1].pc /\ Len(called.slots) = sp' - b
        BY <1>9, <1>10, <1>11, <1>13 DEF InShape
    <2> QED BY <1>6, <1>7, <1>8, <1>11, <2>1
<1>16. ASSUME NEW i \in 1..(b - a)
       PROVE  waiting.slots[i] = Slot(a + i - 1)
    <2>1. i \in 1..(Extent(k)' - frames'[k].bp)
        BY <1>11
    <2>2. waiting.slots[i] = Slot(frames[k].bp + i - 1)'
        BY <1>9, <1>10, <1>13, <2>1 DEF InShape
    <2> QED BY <1>6, <1>11, <2>2 DEF Slot
<1>17. ASSUME NEW i \in 1..(sp - a)
       PROVE  caller.slots[i] = Slot(a + i - 1)
    <2>1. i \in 1..(Extent(k) - frames[k].bp)
        BY <1>11
    <2> QED BY <1>9, <1>10, <1>11, <1>13, <2>1 DEF InShape
<1>18. ASSUME NEW i \in 1..CalleeFn.numLocals
       PROVE  called.slots[i] = Slot(b + i - 1)
    <2>1. i \in 1..(Extent(k + 1)' - frames'[k + 1].bp)
        BY <1>6, <1>7, <1>8, <1>11
    <2>2. called.slots[i] = Slot(frames[k + 1].bp + i - 1)'
        BY <1>9, <1>10, <1>13, <2>1 DEF InShape
    <2> QED BY <1>6, <1>11, <2>2 DEF Slot
<1>19. b - a \in 1..(sp - a) /\ sp = b + Ins.a
    BY <1>1, <1>7
<1>20. \A i \in 1..(b - a) : waiting.slots[i] = caller.slots[i]
    BY <1>7, <1>16, <1>17, <1>19
<1>21. called.closure = waiting.slots[b - a]
    <2>1. waiting.slots[b - a] = Slot(a + (b - a) - 1)
        BY <1>7, <1>16, <1>19
    <2>2. a + (b - a) - 1 = b - 1 /\ b - 1 < StackSize
        BY <1>7, <1>9
    <2> QED BY <1>7, <1>15, <2>1, <2>2 DEF Slot
<1>22. Len(called.slots) >= (sp - a) - (b - a)
    BY <1>7, <1>8, <1>15, <1>19
<1>23. ASSUME NEW i \in ((b - a) + 1)..(sp - a)
       PROVE  called.slots[i - (b - a)] = caller.slots[i]
    <2>1. i \in 1..(sp - a) /\ i - (b - a) \in 1..CalleeFn.numLocals
        BY <1>7, <1>8, <1>19
    <2>2. b + (i - (b - a)) - 1 = a + i - 1
        BY <1>7
    <2> QED BY <1>17, <1>18, <2>1, <2>2
<1> QED BY <1>10, <1>13, <1>14, <1>15, <1>19, <1>20, <1>21, <1>22, <1>23
        DEF Calling!Call, Calling!Keeps, Calling!Innermost, caller, waiting, called

\* A fresh machine is in the activation of main, which has no slot yet.
LEMMA FreshCalls ==
    /\ status = "running" /\ frameIndex = 1 /\ sp = 0
    /\ frames[0] = [cl |-> 1, pc |-> 1, bp |-> 0]
    => Activations = <<Calling!MainActivation>>
<1> SUFFICES ASSUME status = "running", frameIndex = 1, sp = 0,
                    frames[0] = [cl |-> 1, pc |-> 1, bp |-> 0]
             PROVE  Activations = <<Calling!MainActivation>>
    OBVIOUS
<1>1. Extent(0) = 0
    BY DEF Extent
<1>2. [i \in 1..(Extent(0) - frames[0].bp) |-> Slot(frames[0].bp + i - 1)] = <<>>
    BY <1>1
<1>3. Activation(0) = Calling!MainActivation
    <2>1. Activation(0) = [closure |-> Obj("CLOSURE", frames[0].cl), pc |-> frames[0].pc,
                           slots |-> <<>>]
        BY ONLY <1>2, Zenon DEF Activation
    <2>2. frames[0].cl = 1 /\ frames[0].pc = 1
        OBVIOUS
    <2> QED BY <2>1, <2>2 DEF Calling!MainActivation
<1> QED BY <1>3 DEF Activations

\* The initial states are such.
LEMMA InitCalls == Init => Calling!Init
<1>1. Init => frames[0] = [cl |-> 1, pc |-> 1, bp |-> 0]
    BY Parameters DEF Init, NewFrame
<1> QED BY <1>1, FreshCalls DEF Init, Calling!Init

\* Every step of the machine is one of the calls, or none.
LEMMA StepCalls ==
    ASSUME SInv, [Next]_vars, SInv'
    PROVE  Calling!Next \/ Activations' = Activations
<1>1. CASE Fetched /\ Straight
    <2>1. status = "running"
        BY <1>1 DEF Fetched
    <2>2. CASE status' = "running"
        BY <1>1, <2>2, WorkCalls DEF Calling!Next
    <2>3. CASE status' # "running"
        BY <2>1, <2>3, EndCalls DEF Calling!Next
    <2> QED BY <2>2, <2>3
<1>2. CASE OpReturn
    BY <1>2, ReturnCalls DEF Calling!Next
<1>3. CASE CallClosure
    BY <1>3, CallCalls DEF Calling!Next
<1>4. CASE IndexOutOfRange \/ EndOfCode
    <2>1. status = "running" /\ status' # "running"
        BY <1>4 DEF IndexOutOfRange, EndOfCode, Fetched, Stop
    <2> QED BY <2>1, EndCalls DEF Calling!Next
<1>5. CASE Report
    <2>1. status # "running" /\ status' # "running"
        BY <1>5 DEF Report, Stop
    <2> QED BY <2>1 DEF Activations
<1>6. CASE UNCHANGED vars
    BY <1>6 DEF vars, Activations, Activation, Extent, Slot
<1>7. IInv'
    BY DEF SInv
<1> QED
    BY <1>1, <1>2, <1>3, <1>4, <1>5, <1>6, <1>7, PushersStraight, OperatorsStraight,
       PoppersStraight, JumpsStraight, ClosureStraight, ContainersStraight, CallsStraight
    DEF Next, Step

(***************************************************************************)
(* On verified code the machine is a call stack: a function finds its       *)
(* arguments in its locals, nobody else writes those or its operands, and   *)
(* its caller goes on with the result and all else as it was.               *)
(***************************************************************************)
THEOREM CallsImplemented == Spec => ImplementsCalls
<1>1. Init => Calling!Init
    BY InitCalls
<1>2. SInv /\ [Next]_vars /\ SInv' => [Calling!Next]_Activations
    BY StepCalls
<1> QED BY <1>1, <1>2, InOrder, PTL DEF Spec, ImplementsCalls, Calling!Spec
=============================================================================
