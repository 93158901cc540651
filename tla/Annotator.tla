------------------------------ MODULE Annotator ------------------------------
(***************************************************************************)
(* The annotation of a program, computed from its code: what Verifier asks  *)
(* of it then only depends on the code.                                     *)
(***************************************************************************)
EXTENDS Verifier, SequencesExt

\* One pass suffices for structured code: every instruction that is reached is
\* reached from an earlier one.
Annotated(ins) ==
    LET Reached(depth, s, d) == IF d[s] < 0 THEN [d EXCEPT ![s] = depth] ELSE d
        Flow(d, pc) ==
            LET after == d[pc] - Pops(ins[pc]) + Pushes(ins[pc])
            IN  IF d[pc] < 0 THEN d
                ELSE FoldSet(LAMBDA s, e : Reached(after, s, e), d,
                             Successors(ins[pc], pc) \cap DOMAIN d)
    IN  FoldLeft(Flow, <<0>> \o [pc \in 1..Len(ins) |-> -1], [pc \in 1..Len(ins) |-> pc])

AnnotatedTable(fns) == [f \in DOMAIN fns |-> Annotated(fns[f].ins)]

\* How many variables the instruction that closes over function f captures, or 0.
FreeCount(fns, consts, f) ==
    LET closes(i) == /\ i.op = "OpClosure" /\ i.a < Len(consts)
                     /\ consts[i.a + 1] = Obj("COMPILED_FUNCTION", f)
        captured == UNION {{i.b : i \in {x \in ToSet(fns[g].ins) : closes(x)}} :
                                g \in DOMAIN fns}
    IN  IF captured = {} THEN 0 ELSE CHOOSE k \in captured : TRUE

FreeCounts(fns, consts) == [f \in DOMAIN fns |-> FreeCount(fns, consts, f)]

\* A program with its annotations.
Annotation(fns, consts) ==
    [fns |-> fns, consts |-> consts, numFree |-> FreeCounts(fns, consts),
     depth |-> AnnotatedTable(fns)]

CodeIsVerified(fns, consts) ==
    Verified(fns, consts, FreeCounts(fns, consts), AnnotatedTable(fns))
=============================================================================
