------------------------------ MODULE CallStack ------------------------------
(***************************************************************************)
(* What a call is to a program: an activation of its own.  The machine       *)
(* promises it a code position and slots that nobody else writes, for its    *)
(* locals and the operands of the expression it is in; the caller waits as   *)
(* it was, and goes on with the result in place of what it called.           *)
(*                                                                         *)
(* The VM has one stack for all of it, with the slots of an activation above *)
(* those of its caller, and no check that they stay apart.                  *)
(***************************************************************************)
EXTENDS Naturals, Sequences

CONSTANTS Main, Null       \* main's closure, the null object

VARIABLE calls             \* the activations [closure, pc, slots], the innermost last

MainActivation == [closure |-> Main, pc |-> 1, slots |-> <<>>]
Innermost == calls[Len(calls)]

\* The n outermost activations stay as they are.
Keeps(n) == \A j \in 1..n : calls'[j] = calls[j]

Init == calls \in {<<>>, <<MainActivation>>}

Begin == calls = <<>> /\ calls' = <<MainActivation>>

End == calls # <<>> /\ calls' = <<>>

\* The innermost activation does something of its own.
Work ==
    /\ calls # <<>> /\ Len(calls') = Len(calls) /\ Keeps(Len(calls) - 1)
    /\ calls'[Len(calls)].closure = Innermost.closure

\* It calls the closure in one of its slots with the objects in those above; the
\* callee finds them in its first slots, and anything in the others.
Call ==
    LET n == Len(calls)
        waiting == calls'[n]
        callee == calls'[n + 1]
        base == Len(waiting.slots)
        top == Len(Innermost.slots)
    IN  /\ calls # <<>> /\ Len(calls') = n + 1 /\ Keeps(n - 1)
        /\ waiting.closure = Innermost.closure /\ waiting.pc = Innermost.pc + 1
        /\ base \in 1..top
        /\ \A i \in 1..base : waiting.slots[i] = Innermost.slots[i]
        /\ callee.closure = waiting.slots[base] /\ callee.pc = 1
        /\ Len(callee.slots) >= top - base
        /\ \A i \in (base + 1)..top : callee.slots[i - base] = Innermost.slots[i]

\* It returns null or the object in its last slot: the caller has it for the closure.
Return ==
    LET n == Len(calls) - 1
        waiting == calls[n]
        resumed == calls'[n]
        top == Len(waiting.slots)
    IN  /\ n >= 1 /\ Len(calls') = n /\ Keeps(n - 1)
        /\ resumed.closure = waiting.closure /\ resumed.pc = waiting.pc
        /\ Len(resumed.slots) = top
        /\ \A i \in 1..(top - 1) : resumed.slots[i] = waiting.slots[i]
        /\ resumed.slots[top] \in {Null} \cup {Innermost.slots[i] : i \in {Len(Innermost.slots)} \ {0}}

Next == Begin \/ Work \/ Call \/ Return \/ End

Spec == Init /\ [][Next]_calls
=============================================================================
