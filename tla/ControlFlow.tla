----------------------------- MODULE ControlFlow -----------------------------
(***************************************************************************)
(* The bookkeeping of open loops in the compiler (ControlFlow in            *)
(* compiler/compiler.go), with the Go slices and pointers it lives in.      *)
(*                                                                         *)
(* Every compilation scope has a stack of loop entries: the positions of    *)
(* the break and the continue jumps waiting for the end of their loop.      *)
(* breakStack and continueStack grow and shrink together, so an entry holds *)
(* both.  The entries of one scope are a slice [arr, len] of a backing      *)
(* array in store; the scopes are a slice too, and its backing arrays are   *)
(* the generations gens: append moves the scopes to a new generation when   *)
(* the current one is full.  A ForStatement keeps a pointer [gen, idx] to   *)
(* the control flow of its scope while its body is compiled, and the        *)
(* pointer keeps its generation.                                            *)
(***************************************************************************)
EXTENDS Naturals, Sequences

EmptyEntry == [breaks |-> <<>>, continues |-> <<>>]

\* store[1] is the array of capacity 0 every [][]int{} starts with.
EmptySlice == [arr |-> 1, len |-> 0]

\* compiler.New: one scope, no loop open.
NewControl == [gens |-> << <<EmptySlice>> >>, gen |-> 1, store |-> << <<>> >>]

\* append's growth of a full backing array.
Grown(cap) == IF cap = 0 THEN 1 ELSE 2 * cap
Extended(s, len, x, pad) ==
    [i \in 1..Grown(len) |-> IF i <= len THEN s[i] ELSE IF i = len + 1 THEN x ELSE pad]

\* &c.scopes[i].controlFlow
Pointer(ctl, i) == [gen |-> ctl.gen, idx |-> i]
SliceAt(ctl, ptr) == ctl.gens[ptr.gen][ptr.idx]
SetSlice(ctl, ptr, s) == [ctl EXCEPT !.gens[ptr.gen][ptr.idx] = s]
OpenLoops(ctl, ptr) == SliceAt(ctl, ptr).len
LastEntry(ctl, ptr) ==
    LET s == SliceAt(ctl, ptr) IN ctl.store[s.arr][s.len]

\* A faulty PushEntry: an entry of an earlier loop is used again as it is.
PushUsedEntry(ctl, ptr) ==
    LET s == SliceAt(ctl, ptr)
        arr == ctl.store[s.arr]
    IN  IF s.len < Len(arr) THEN SetSlice(ctl, ptr, [s EXCEPT !.len = @ + 1])
        ELSE [SetSlice(ctl, ptr, [arr |-> Len(ctl.store) + 1, len |-> s.len + 1])
                EXCEPT !.store = Append(@, Extended(arr, s.len, EmptyEntry, EmptyEntry))]

\* cf.breakStack = append(cf.breakStack, []int{})
PushEntry(ctl, ptr) ==
    LET s == SliceAt(ctl, ptr)
        arr == ctl.store[s.arr]
    IN  IF s.len < Len(arr)
        THEN [SetSlice(ctl, ptr, [s EXCEPT !.len = @ + 1])
                EXCEPT !.store[s.arr][s.len + 1] = EmptyEntry]
        ELSE [SetSlice(ctl, ptr, [arr |-> Len(ctl.store) + 1, len |-> s.len + 1])
                EXCEPT !.store = Append(@, Extended(arr, s.len, EmptyEntry, EmptyEntry))]

\* A faulty PopEntry: the loop stays open.
LeaveEntry(ctl, ptr) == ctl

\* cf.breakStack = cf.breakStack[:len(cf.breakStack)-1]
PopEntry(ctl, ptr) ==
    SetSlice(ctl, ptr, [SliceAt(ctl, ptr) EXCEPT !.len = @ - 1])

SetEntry(ctl, ptr, e) ==
    LET s == SliceAt(ctl, ptr) IN [ctl EXCEPT !.store[s.arr][s.len] = e]
AddBreak(ctl, ptr, pos) ==
    SetEntry(ctl, ptr, [LastEntry(ctl, ptr) EXCEPT !.breaks = Append(@, pos)])
AddContinue(ctl, ptr, pos) ==
    SetEntry(ctl, ptr, [LastEntry(ctl, ptr) EXCEPT !.continues = Append(@, pos)])

\* c.scopes = append(c.scopes, scope), when there are n scopes
AppendScope(ctl, n) ==
    LET arr == ctl.gens[ctl.gen]
    IN  IF n < Len(arr)
        THEN [ctl EXCEPT !.gens[ctl.gen][n + 1] = EmptySlice]
        ELSE [ctl EXCEPT !.gens = Append(@, Extended(arr, n, EmptySlice, EmptySlice)),
                         !.gen = Len(ctl.gens) + 1]
=============================================================================
