------------------------------- MODULE Printed -------------------------------
(***************************************************************************)
(* What main prints of a program (main.go, Inspect in object/object.go): an *)
(* object by its value, containers with their contents.  Functions are told *)
(* apart from other objects only.                                           *)
(***************************************************************************)
EXTENDS Evaluator

RECURSIVE Shape(_, _)
Shape(v, heap) ==
    CASE v[1] = "ARRAY" ->
            <<"ARRAY", [i \in DOMAIN heap.arrays[v[2]] |-> Shape(heap.arrays[v[2]][i], heap)]>>
      [] v[1] = "HASH" ->
            <<"HASH", {<<pair[1], Shape(pair[2], heap)>> : pair \in heap.hashes[v[2]]}>>
      [] v[1] = "RETURN" -> Shape(v[3], heap)
      [] v[1] \in {"CLOSURE", "FUNCTION"} -> <<"FUNCTION", 0>>
      [] OTHER -> v

\* The heaps of the tree-walking engine with the integers in place of their cells.
PlainHeap(s) ==
    [arrays |-> [k \in DOMAIN s.arrays |->
                    [i \in DOMAIN s.arrays[k] |-> Plain(s.arrays[k][i], s)]],
     hashes |-> [k \in DOMAIN s.hashes |->
                    {<<pair[1], Plain(pair[2], s)>> : pair \in s.hashes[k]}]]

Failure == <<"FAILURE", 0>>

\* The outcome of a program with the tree-walking engine.
Meaning(source) ==
    LET r == EvaluateProgram(source, 1, NewEnvironment(NewMemory, NoParent))
    IN  IF r.v[1] \in {"PANIC", "ERROR"} \/ ~InspectEnds(r.v, r.s) THEN Failure
        ELSE Shape(Plain(r.v, r.s), PlainHeap(r.s))
=============================================================================
