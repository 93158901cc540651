------------------------------ MODULE Evaluator ------------------------------
(***************************************************************************)
(* The tree-walking engine (evaluator/evaluator.go, object/environment.go). *)
(*                                                                         *)
(* A memory s holds what objects share by reference: ints, the cells of the *)
(* integers (unary minus changes them in place), arrays, hashes, funs (the  *)
(* function objects), envs (the environments) and booleans, the number of   *)
(* Boolean objects made besides the two singletons.                         *)
(*                                                                         *)
(* Objects are the triples of module Objects with three differences: the    *)
(* number of an INTEGER is its cell, a Boolean made by a comparison of      *)
(* strings carries a number of its own, and there are objects for the       *)
(* statements that leave a block: RETURN (with the value returned), BREAK   *)
(* and CONTINUE.  PANIC marks the end of the Go program.                    *)
(*                                                                         *)
(* Evaluate returns the object (Nil for Go's nil) and the memory afterwards.*)
(***************************************************************************)
EXTENDS Builtins, Syntax

NewMemory == [ints |-> <<>>, arrays |-> <<>>, hashes |-> <<>>, funs |-> <<>>,
              envs |-> <<>>, booleans |-> 0]

Result(v, s) == [v |-> v, s |-> s]
Alloc(s, field, type, x) ==
    Result(Obj(type, Len(s[field]) + 1), [s EXCEPT ![field] = Append(@, x)])
NewInt(s, n) == Alloc(s, "ints", "INTEGER", n)

BREAK == Obj("BREAK", 0)
CONTINUE == Obj("CONTINUE", 0)
ReturnValue(v) == <<"RETURN", 0, v>>

\* An object as the VM's engine has it: by its value.
Plain(v, s) ==
    CASE v[1] = "INTEGER" -> IntObj(s.ints[v[2]])
      [] v[1] = "BOOLEAN" -> Obj("BOOLEAN", v[2])
      [] OTHER -> v

\* What follows an evaluation: nothing after a panic; nothing after an error either
\* where the code asks isError.
After(r, F(_, _)) == IF r.v[1] = "PANIC" THEN r ELSE F(r.v, r.s)
Checked(r, F(_, _)) == IF r.v[1] \in {"PANIC", "ERROR"} THEN r ELSE F(r.v, r.s)

-----------------------------------------------------------------------------
(***************************************************************************)
(* Environments, numbered in the order they are made.                       *)
(***************************************************************************)
NoParent == 0
NewEnvironment(s, parent) ==
    [s EXCEPT !.envs = Append(@, [store |-> <<>>, parent |-> parent])]

Has(s, e, name) == name \in DOMAIN s.envs[e].store

\* The environment that Get finds the name in, NoParent if there is none.
RECURSIVE Holder(_, _, _)
Holder(s, e, name) ==
    IF e = NoParent \/ Has(s, e, name) THEN e ELSE Holder(s, s.envs[e].parent, name)

\* A faulty SetIn: changes the variable where it was declared, as the parameter
\* setIfAbsent = false would have it.
SetInHolder(s, e, name, v) ==
    LET h == Holder(s, e, name)
    IN  [s EXCEPT !.envs[IF h = NoParent THEN e ELSE h].store = (name :> v) @@ @]

\* Set, which every caller calls with setIfAbsent = true.
SetIn(s, e, name, v) == [s EXCEPT !.envs[e].store = (name :> v) @@ @]

-----------------------------------------------------------------------------
(***************************************************************************)
(* Operators on objects.                                                    *)
(***************************************************************************)
CastBoolean(v, s) ==
    CASE v[1] = "INTEGER" -> BoolObj(s.ints[v[2]] # 0)
      [] v[1] = "STRING" -> BoolObj(v[3] # <<>>)
      [] v[1] = "BOOLEAN" -> v
      [] OTHER -> FalseS

\* The condition is compared with the singleton false by address.
Truthy(v, s) == CastBoolean(v, s) # FalseS

EvaluatePrefix(op, v, s) ==
    CASE op = "!" -> Result(BoolObj(CastBoolean(v, s)[2] = 0), s)
      [] op = "-" /\ v[1] = "INTEGER" -> Result(v, [s EXCEPT !.ints[v[2]] = Wrap(-@)])
      [] op = "-" /\ v = Nil -> Result(Panics("nil object"), s)
      [] OTHER -> Result(ErrorObj, s)

IntegerInfixExpression(op, a, b, s) ==
    CASE op = "+" -> NewInt(s, Wrap(a + b))
      [] op = "-" -> NewInt(s, Wrap(a - b))
      [] op = "*" -> NewInt(s, Wrap(a * b))
      [] op = "/" -> IF b = 0 THEN Result(Panics("divide by zero"), s)
                     ELSE NewInt(s, Wrap(Quotient(a, b)))
      [] op = "==" -> Result(BoolObj(a = b), s)
      [] op = "!=" -> Result(BoolObj(a # b), s)
      [] op = "<" -> Result(BoolObj(a < b), s)
      [] op = ">" -> Result(BoolObj(a > b), s)
      [] op = "<=" -> Result(BoolObj(a <= b), s)
      [] op = ">=" -> Result(BoolObj(a >= b), s)

\* The objects are compared, not their values.
BooleanInfixExpression(op, x, y, s) ==
    Result(CASE op = "==" -> BoolObj(x = y)
             [] op = "!=" -> BoolObj(x # y)
             [] OTHER -> ErrorObj, s)

\* A comparison of strings makes a Boolean of its own.
NewBoolean(s, b) ==
    Result(<<"BOOLEAN", BoolObj(b)[2], <<s.booleans + 1>> >>, [s EXCEPT !.booleans = @ + 1])

StringInfixExpression(op, x, y, s) ==
    CASE op = "+" -> Result(StrObj(x \o y), s)
      [] op = "==" -> NewBoolean(s, x = y)
      [] op = "!=" -> NewBoolean(s, x # y)
      [] op = "<" -> NewBoolean(s, StrLess(x, y))
      [] op = ">" -> NewBoolean(s, StrLess(y, x))
      [] op = "<=" -> NewBoolean(s, ~StrLess(y, x))
      [] op = ">=" -> NewBoolean(s, ~StrLess(x, y))
      [] OTHER -> Result(ErrorObj, s)

InfixExpression(op, x, y, s) ==
    IF Nil \in {x, y} THEN Result(Panics("nil object"), s)
    ELSE IF x[1] # y[1] THEN Result(ErrorObj, s)
    ELSE CASE x[1] = "INTEGER" -> IntegerInfixExpression(op, s.ints[x[2]], s.ints[y[2]], s)
           [] x[1] = "BOOLEAN" -> BooleanInfixExpression(op, x, y, s)
           [] x[1] = "STRING" -> StringInfixExpression(op, x[3], y[3], s)
           [] OTHER -> Result(ErrorObj, s)

\* What Inspect visits inside an object, and whether it ends: it meets no nil, no
\* container inside itself and no function with a nil node to print.
RECURSIVE Inner(_)
Inner(v) == IF v[1] = "RETURN" THEN Inner(v[3]) ELSE v
Inside(v, s) ==
    CASE v[1] = "ARRAY" -> {Inner(o) : o \in ToSet(s.arrays[v[2]])}
      [] v[1] = "HASH" -> {Inner(pair[2]) : pair \in s.hashes[v[2]]}
      [] OTHER -> {}
Prints(v, s) ==
    v # Nil /\ (v[1] = "FUNCTION" =>
        Punct("panic") \notin ToSet(FlattenSeq(Strings(s.funs[v[2]].body))))
InspectEnds(v, s) ==
    LET depth == Len(s.arrays) + Len(s.hashes) + 1
        below[n \in 0..depth] ==      \* n levels down
            IF n = 0 THEN {Inner(v)} ELSE UNION {Inside(o, s) : o \in below[n - 1]}
    IN  below[depth] = {} /\ \A n \in 0..depth : \A o \in below[n] : Prints(o, s)

\* A builtin given objects by value where it looks at them, and by reference where
\* it keeps them; nil results become null.
ApplyBuiltin(i, args, s) ==
    LET name == BuiltinNames[i + 1]
        given == IF name # "del" THEN args ELSE [k \in DOMAIN args |-> Plain(args[k], s)]
        r == CallBuiltin(i, given, [arrays |-> s.arrays, hashes |-> s.hashes])
        t == [s EXCEPT !.arrays = r.heap.arrays, !.hashes = r.heap.hashes]
    IN  CASE r.value = Nil -> Result(NullS, t)
          [] name = "len" /\ r.value[1] = "INTEGER" -> NewInt(t, r.value[2])
          [] OTHER -> Result(r.value, t)

\* container[idx], but for the panic of a key without a hash.
Accessed(container, idx, s) ==
    LET x == Plain(idx, s)
        at(seq, Element(_)) ==
            IF x[1] # "INTEGER" \/ Position(Len(seq), x[2]) = 0 THEN ErrorObj
            ELSE Element(seq[Position(Len(seq), x[2])])
    IN  CASE container[1] = "ARRAY" -> at(s.arrays[container[2]], LAMBDA v : v)
          [] container[1] = "STRING" -> at(container[3], LAMBDA c : StrObj(<<c>>))
          [] OTHER ->
                IF ~Hashable(x) THEN ErrorObj
                ELSE IF HashKey(x) # x THEN HashKey(x)
                ELSE IF HashHas(s.hashes[container[2]], x) THEN HashGet(s.hashes[container[2]], x)
                ELSE NullS

-----------------------------------------------------------------------------
(***************************************************************************)
(* Evaluate.                                                                *)
(***************************************************************************)
RECURSIVE Evaluate(_, _, _)

\* Expressions in order, be they errors or not: elements of an array, arguments.
EvaluateAll(nodes, e, s) ==
    LET next(r, node) == After(r, LAMBDA vs, t :
            After(Evaluate(node, e, t), LAMBDA v, u : Result(<<"objects", Append(vs[2], v)>>, u)))
    IN  FoldLeft(next, Result(<<"objects", <<>> >>, s), nodes)

Leaving == {"RETURN", "ERROR", "BREAK", "CONTINUE"}

EvaluateBlock(block, e, s) ==
    LET next(r, node) == IF r.v[1] \in Leaving \cup {"PANIC"} THEN r ELSE Evaluate(node, e, r.s)
    IN  FoldLeft(next, Result(Nil, s), block)

\* A faulty EvaluateLet: an error is bound like any object.
LetUnchecked(node, e, s) ==
    After(IF node[3] = Absent THEN Result(NullS, s) ELSE Evaluate(node[3], e, s),
          LAMBDA v, t : Result(NullS, SetIn(t, e, node[2], v)))

EvaluateLet(node, e, s) ==
    Checked(IF node[3] = Absent THEN Result(NullS, s) ELSE Evaluate(node[3], e, s),
            LAMBDA v, t : Result(NullS, SetIn(t, e, node[2], v)))

\* Only a variable of the current environment can be assigned to.
EvaluateAssignment(node, e, s) ==
    IF ~Has(s, e, node[2]) THEN Result(ErrorObj, s)
    ELSE Checked(Evaluate(node[3], e, s),
                 LAMBDA v, t : Result(NullS, SetIn(t, e, node[2], v)))

EvaluateIdentifier(name, e, s) ==
    LET h == Holder(s, e, name)
    IN  Result(IF h = NoParent THEN ErrorObj ELSE s.envs[h].store[name], s)

EvaluateHash(pairs, e, s) ==
    LET put(r, pair) == Checked(r, LAMBDA h, t :
            After(Evaluate(pair[1], e, t), LAMBDA k, u :
                LET key == Plain(k, u)
                IN  IF ~Hashable(key) THEN Result(ErrorObj, u)
                    ELSE IF HashKey(key) # key THEN Result(HashKey(key), u)
                    ELSE After(Evaluate(pair[2], e, u), LAMBDA v, w :
                            Result(<<"pairs", HashPut(h[2], key, v)>>, w))))
    IN  Checked(FoldLeft(put, Result(<<"pairs", {}>>, s), pairs),
                LAMBDA h, t : Alloc(t, "hashes", "HASH", h[2]))

EvaluateIndex(node, e, s) ==
    After(Evaluate(node[2], e, s), LAMBDA container, t :
        IF container[1] \notin {"ARRAY", "STRING", "HASH"} THEN Result(ErrorObj, t)
        ELSE After(Evaluate(node[3], e, t), LAMBDA idx, u :
                Result(Accessed(container, idx, u), u)))

EvaluateFunction(node, e, s) ==
    LET t == NewEnvironment(s, e)
    IN  Alloc(t, "funs", "FUNCTION", [params |-> node[3], body |-> node[4], env |-> Len(t.envs)])


Unwrapped(v) == IF v[1] = "RETURN" THEN v[3] ELSE v

\* The environment of the call is made before the arguments are evaluated, errors
\* among them are bound like any object, and what the body ends with goes to the
\* caller: an error, but a break or a continue too.
CallFunction(fn, args, e, s) ==
    LET s1 == NewEnvironment(s, fn.env)
        callEnv == Len(s1.envs)
        bind(r, i) == After(r, LAMBDA ok, t :
            After(Evaluate(args[i], e, t), LAMBDA v, u :
                Result(ok, SetIn(u, callEnv, fn.params[i], v))))
    IN  IF Len(args) # Len(fn.params) THEN Result(ErrorObj, s)
        ELSE After(FoldLeftDomain(bind, Result(NullS, s1), args), LAMBDA ok, t :
             After(EvaluateBlock(fn.body, callEnv, t), LAMBDA v, u : Result(Unwrapped(v), u)))

EvaluateCall(node, e, s) ==
    After(Evaluate(node[2], e, s), LAMBDA callee, t :
        CASE callee[1] = "FUNCTION" -> CallFunction(t.funs[callee[2]], node[3], e, t)
          [] callee[1] = "BUILTIN" ->
                After(EvaluateAll(node[3], e, t), LAMBDA args, u : ApplyBuiltin(callee[2], args[2], u))
          [] OTHER -> Result(IF InspectEnds(callee, t) THEN ErrorObj ELSE Panics("Inspect"), t))

EvaluateIf(node, e, s) ==
    Checked(Evaluate(node[2], e, s), LAMBDA c, t :
        IF Truthy(c, t) THEN EvaluateBlock(node[3], e, t)
        ELSE IF node[4] # Absent THEN EvaluateBlock(node[4][2], e, t)
        ELSE Result(NullS, t))

EvaluateFor(node, e, s) ==
    LET RECURSIVE round(_)
        round(u) ==
            Checked(Evaluate(node[2], e, u), LAMBDA c, t :
                IF ~Truthy(c, t) THEN Result(NullS, t)
                ELSE LET r == EvaluateBlock(node[3], e, t)
                     IN  IF r.v = BREAK THEN Result(NullS, r.s)
                         ELSE IF r.v[1] \in {"RETURN", "ERROR", "PANIC"} THEN r
                         ELSE round(r.s))
    IN  round(s)

\* A nil node, as return; and for { } have one, has no String().
Evaluate(node, e, s) ==
    CASE node[1] = "None" -> Result(Panics("nil node"), s)
      [] node[1] = "LetStatement" -> EvaluateLet(node, e, s)
      [] node[1] = "AssignmentStatement" -> EvaluateAssignment(node, e, s)
      [] node[1] = "Identifier" -> EvaluateIdentifier(node[2], e, s)
      [] node[1] = "IfExpression" -> EvaluateIf(node, e, s)
      [] node[1] = "ForStatement" -> EvaluateFor(node, e, s)
      [] node[1] = "ReturnStatement" ->
            Checked(Evaluate(node[2], e, s), LAMBDA v, t : Result(ReturnValue(v), t))
      [] node[1] = "BreakStatement" -> Result(BREAK, s)
      [] node[1] = "ContinueStatement" -> Result(CONTINUE, s)
      [] node[1] = "ExpressionStatement" -> Evaluate(node[2], e, s)
      [] node[1] = "IntegerLiteral" -> NewInt(s, node[2])
      [] node[1] = "StringLiteral" -> Result(StrObj(node[2]), s)
      [] node[1] = "BooleanLiteral" -> Result(BoolObj(node[2]), s)
      [] node[1] = "NullLiteral" -> Result(NullS, s)
      [] node[1] = "FunctionLiteral" -> EvaluateFunction(node, e, s)
      [] node[1] = "ArrayLiteral" ->
            After(EvaluateAll(node[2], e, s), LAMBDA vs, t : Alloc(t, "arrays", "ARRAY", vs[2]))
      [] node[1] = "HashLiteral" -> EvaluateHash(node[2], e, s)
      [] node[1] = "IndexAccess" -> EvaluateIndex(node, e, s)
      [] node[1] = "BuiltinFunction" ->
            Result(Obj("BUILTIN", (CHOOSE i \in DOMAIN BuiltinNames : BuiltinNames[i] = node[2]) - 1), s)
      [] node[1] = "CallExpression" -> EvaluateCall(node, e, s)
      [] node[1] = "PrefixUnaryOp" ->
            Checked(Evaluate(node[3], e, s), LAMBDA v, t : EvaluatePrefix(node[2], v, t))
      [] node[1] = "InfixBinaryOp" ->
            Checked(Evaluate(node[3], e, s), LAMBDA x, t :
                Checked(Evaluate(node[4], e, t), LAMBDA y, u :
                    InfixExpression(node[2], x, y, u)))

\* evaluateProgram: up to a return or an error.
EvaluateProgram(statements, e, s) ==
    LET next(r, node) == IF r.v[1] \in {"RETURN", "ERROR", "PANIC"} THEN r
                         ELSE Evaluate(node, e, r.s)
        r == FoldLeft(next, Result(Nil, s), statements)
    IN  Result(Unwrapped(r.v), r.s)
=============================================================================
