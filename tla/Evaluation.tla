----------------------------- MODULE Evaluation -----------------------------
(***************************************************************************)
(* A program run by the tree-walking engine: one step per statement of the  *)
(* main program (evaluateProgram), then main prints the object it ended     *)
(* with.                                                                    *)
(***************************************************************************)
EXTENDS Evaluator

CONSTANT Sources

VARIABLES source, done, memory, value, status
vars == <<source, done, memory, value, status>>

Global == 1       \* the environment main makes

Init ==
    /\ source \in Sources /\ done = 0
    /\ memory = NewEnvironment(NewMemory, NoParent)
    /\ value = Nil /\ status = "running"

EvaluateStatement ==
    LET r == Evaluate(source[done + 1], Global, memory)
    IN  /\ status = "running" /\ done < Len(source)
        /\ done' = done + 1 /\ memory' = r.s /\ value' = Unwrapped(r.v)
        /\ status' = CASE r.v[1] = "PANIC" -> "panicked"
                       [] r.v[1] \in {"RETURN", "ERROR"} -> "ended"
                       [] OTHER -> "running"
        /\ UNCHANGED source

EndOfProgram ==
    /\ status = "running" /\ done = Len(source)
    /\ status' = "ended" /\ UNCHANGED <<source, done, memory, value>>

Report ==
    /\ status = "ended"
    /\ status' = IF InspectEnds(value, memory) THEN "reported" ELSE "panicked"
    /\ UNCHANGED <<source, done, memory, value>>

Next == EvaluateStatement \/ EndOfProgram \/ Report
Spec == Init /\ [][Next]_vars

-----------------------------------------------------------------------------
(***************************************************************************)
(* Properties.                                                              *)
(***************************************************************************)
Counts(s) == [INTEGER |-> Len(s.ints), ARRAY |-> Len(s.arrays), HASH |-> Len(s.hashes),
              FUNCTION |-> Len(s.funs)]
Exists(v, s) == v[1] \in DOMAIN Counts(s) => v[2] \in 1..Counts(s)[v[1]]

Stored(s) ==       \* the objects variables and containers hold
    UNION ({Range(s.envs[e].store) : e \in DOMAIN s.envs} \cup {ToSet(arr) : arr \in ToSet(s.arrays)}
           \cup {{pair[2] : pair \in h} : h \in ToSet(s.hashes)})

\* Every object that is held exists, the parents of environments lead to the global
\* one, and no variable of the main program holds an error: a failed let or
\* assignment stores nothing.
TypeOK ==
    /\ done \in 0..Len(source) /\ status \in {"running", "ended", "panicked", "reported"}
    /\ \A v \in Stored(memory) \cup {value} : Exists(v, memory)
    /\ \A e \in DOMAIN memory.envs : memory.envs[e].parent \in 0..(e - 1)
    /\ ErrorObj \notin Range(memory.envs[Global].store)


\* The variables a statement binds outside of the function literals in it.
RECURSIVE Targets(_)
TargetsOf(nodes) == UNION {Targets(n) : n \in ToSet(nodes)}
Targets(node) ==
    CASE node[1] \in {"LetStatement", "AssignmentStatement"} -> {node[2]} \cup Targets(node[3])
      [] node[1] \in {"ExpressionStatement", "ReturnStatement"} -> Targets(node[2])
      [] node[1] = "IfExpression" -> Targets(node[2]) \cup TargetsOf(node[3])
                \cup (IF node[4] = Absent THEN {} ELSE TargetsOf(node[4][2]))
      [] node[1] = "ForStatement" -> Targets(node[2]) \cup TargetsOf(node[3])
      [] OTHER -> {}

\* A call changes no variable but its own (Set with setIfAbsent, environment.go): the
\* environments of calls that are over stay as they are, though closures still
\* read them, and of the global variables a statement changes those it binds itself.
CallsKeepVariables ==
    [][done' # done =>
        LET before == memory.envs
            after == memory'.envs
            kept == DOMAIN before[Global].store \ Targets(source[done'])
        IN  /\ \A e \in DOMAIN before \ {Global} : after[e] = before[e]
            /\ \A name \in kept : after[Global].store[name] = before[Global].store[name]]_vars
=============================================================================
