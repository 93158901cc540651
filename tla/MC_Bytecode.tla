----------------------------- MODULE MC_Bytecode -----------------------------
(***************************************************************************)
(* The VM on every short verified bytecode, with room for few objects and   *)
(* frames: all main programs of up to MainLength instructions that call one *)
(* fixed function, and all functions of up to BodyLength instructions that  *)
(* a fixed main program calls when some objects, the numbers in Under, lie   *)
(* on the stack.                                                            *)
(***************************************************************************)
EXTENDS StackDiscipline, Annotator

CONSTANTS MainLength, BodyLength, Under, MaxHeap

I(op) == Make(op, 0, 0)
I1(op, a) == Make(op, a, 0)
I2(op, a, b) == Make(op, a, b)

MCConsts == <<IntObj(1), Obj("COMPILED_FUNCTION", 1)>>

MainPool ==
    <<I("OpTrue"), I("OpPop"), I("OpAdd"), I("OpMinus"), I("OpIndex"),
      I1("OpConstant", 0), I1("OpSetGlobal", 0), I1("OpGetGlobal", 0),
      I1("OpArray", 1), I1("OpHash", 1), I1("OpGetBuiltin", 3),
      I1("OpCall", 0), I1("OpCall", 1), I2("OpClosure", 1, 0),
      I1("OpJump", 1), I1("OpJumpNotTruthy", 1), I1("OpJumpNotTruthy", 5)>>

BodyPool ==
    <<I("OpFalse"), I("OpPop"), I("OpCurrentClosure"), I("OpReturn"), I("OpReturnValue"),
      I1("OpGetLocal", 0), I1("OpSetLocal", 0), I1("OpSetLocal", 1), I1("OpGetLocal", 1),
      I1("OpGetFree", 0), I2("OpClosure", 1, 1), I1("OpCall", 0), I1("OpCall", 1),
      I1("OpGetBuiltin", 3), I1("OpJumpNotTruthy", 4)>>

\* A function that calls itself until its argument is falsy.
Recurses == <<I1("OpGetLocal", 0), I1("OpJumpNotTruthy", 7), I("OpCurrentClosure"),
              I("OpFalse"), I1("OpCall", 1), I("OpReturnValue"), I("OpReturn")>>

\* A main program that calls a function with an argument and a free variable
\* when n objects lie on the stack.
Calls(n) ==
    [i \in 1..n |-> I("OpTrue")]
        \o <<I("OpTrue"), I2("OpClosure", 1, 1), I("OpTrue"), I1("OpCall", 1), I("OpPop")>>
        \o [i \in 1..n |-> I("OpPop")]

Table(main, body) ==
    [f \in {0, 1} |-> IF f = 0 THEN [ins |-> main, numLocals |-> 0, numParams |-> 0]
                              ELSE [ins |-> body, numLocals |-> 2, numParams |-> 1]]

\* All words of up to n instructions of a pool.
Words(pool, n) ==
    LET letters == {pool[i] : i \in DOMAIN pool}
    IN  UNION {[1..len -> letters] : len \in 1..n}

Tables == {Table(main, Recurses) : main \in Words(MainPool, MainLength)}
            \cup {Table(Calls(n), Append(body, I("OpReturn"))) :
                        n \in Under, body \in Words(BodyPool, BodyLength)}

MCPrograms ==
    {Annotation(t, MCConsts) : t \in {u \in Tables : CodeIsVerified(u, MCConsts)}}

\* A loop may allocate for ever.
HeapBound == Len(closures) + Len(arrays) + Len(hashes) <= MaxHeap
=============================================================================
