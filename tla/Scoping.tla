------------------------------- MODULE Scoping -------------------------------
(***************************************************************************)
(* The life of the symbol tables while a program is compiled: functions are *)
(* entered and left, variables declared and used, in any order the nesting  *)
(* of functions allows.                                                     *)
(*                                                                         *)
(* declared is what the compiler does not keep: for every open function the *)
(* names declared in it, each with the symbol its last declaration gave it. *)
(* A use must find the variable the nearest enclosing function declares.    *)
(***************************************************************************)
EXTENDS SymbolTable, FiniteSets

CONSTANTS
    Names,         \* names of variables and functions
    Builtin,       \* the name of a builtin, which cannot be declared
    MaxParams, MaxDepth

ASSUME ScopingAssumption ==
    /\ Builtin \notin Names /\ NoName \notin Names
    /\ MaxParams \in Nat /\ MaxDepth \in Nat \ {0}

VARIABLES tabs, declared
vars == <<tabs, declared>>

NoNames == [n \in {} |-> NoSymbol]
Symbols(t) == {t.store[n] : n \in DOMAIN t.store}

Init ==
    /\ tabs = <<DefineBuiltin(NewTable, 0, Builtin)>>
    /\ declared = <<DefineBuiltin(NewTable, 0, Builtin).store>>

\* A function literal begins.
EnterFunction(name, params) ==
    /\ Len(tabs) < MaxDepth
    /\ tabs' = FunctionTables(tabs, name, params)
    /\ declared' = Append(declared, TopTable(FunctionTables(tabs, name, params)).store)

\* A function literal ends; its free variables are loaded in the enclosing one.
LeaveFunction ==
    /\ Len(tabs) > 1
    /\ tabs' = Front(tabs)
    /\ declared' = Front(declared)

\* let name = ...
Let(name) ==
    /\ tabs' = LetTables(tabs, name)
    /\ declared' = [declared EXCEPT ![Len(tabs)] =
                        [n \in DOMAIN @ \cup {name} |->
                            IF n = name THEN LetSymbol(tabs, name) ELSE @[n]]]

\* The name is read or assigned.
Use(name) ==
    /\ tabs' = ResolveTables(tabs, name)
    /\ UNCHANGED declared

Next ==
    \/ \E name \in Names \cup {NoName}, params \in UNION {[1..k -> Names] : k \in 0..MaxParams} :
            EnterFunction(name, params)
    \/ LeaveFunction
    \/ \E name \in Names : Let(name)
    \/ \E name \in Names \cup {Builtin} : Use(name)

Spec == Init /\ [][Next]_vars

-----------------------------------------------------------------------------
(***************************************************************************)
(* Properties.                                                              *)
(***************************************************************************)
\* The symbol names a variable function l has: a slot of its locals or one of its
\* free variables.
Reachable(l, s) ==
    \/ s.scope = "LOCAL" /\ s.index < tabs[l].num
    \/ s.scope = "FREE" /\ s.index < Len(tabs[l].free)

\* The closure of every function is built from variables the function around it
\* has, so that the loads before OpClosure find them all.
FreeChains ==
    \A l \in 2..Len(tabs) : \A i \in 1..Len(tabs[l].free) :
        Reachable(l - 1, tabs[l].free[i])

\* The function a symbol of the innermost function stands for a variable of, and
\* its symbol there: down the chain of captures ts.
Origin(ts, sym) ==
    LET at[k \in 0..Len(ts)] ==
            IF k = 0
            THEN <<IF sym.scope \in {"GLOBAL", "BUILTIN"} THEN 1 ELSE Len(ts), sym>>
            ELSE IF at[k - 1][2].scope = "FREE"
                 THEN <<at[k - 1][1] - 1, ts[at[k - 1][1]].free[at[k - 1][2].index + 1]>>
                 ELSE at[k - 1]
    IN  at[Len(ts)]

\* The functions that declare the name, and the innermost of them.
Declaring(name) == {l \in 1..Len(declared) : name \in DOMAIN declared[l]}
Nearest(name) == CHOOSE l \in Declaring(name) : \A m \in Declaring(name) : m <= l

\* The name of a function, seen from a function inside it.
OuterFunctionName(name) ==
    /\ Declaring(name) # {}
    /\ Nearest(name) < Len(tabs)
    /\ declared[Nearest(name)][name].scope = "FUNCTION"

\* A name stands for the variable the nearest enclosing function declares, however
\* it was captured, shadowed or declared again before; a name nothing declares
\* stands for nothing.  The name of an enclosing function is the exception:
\* Resolve does not capture it, and the use loads the innermost function.
ResolvesToNearest ==
    \A name \in Names \cup {Builtin} :
        LET sym == ResolvedSymbol(tabs, name)
        IN  IF Declaring(name) = {} THEN sym = NoSymbol
            ELSE \/ OuterFunctionName(name)
                 \/ Origin(ResolveTables(tabs, name), sym)
                        = <<Nearest(name), declared[Nearest(name)][name]>>

\* How many numbers a function has given in a scope.
Given(t, scope) == IF scope = "FREE" THEN Len(t.free) ELSE t.num

\* The names that the code of a function tells apart by their numbers.
Numbered(t) == {n \in DOMAIN t.store : t.store[n].scope \in {"GLOBAL", "LOCAL", "FREE"}}

NumbersDistinct(t) ==
    /\ \A n \in Numbered(t) : t.store[n].index < Given(t, t.store[n].scope)
    /\ \A m, n \in Numbered(t) :
        t.store[m].scope = t.store[n].scope /\ t.store[m].index = t.store[n].index => m = n

\* No two names of a function share a slot of its locals, nor two captured ones a free
\* variable, however its lets redefine parameters, captures and its own name; and every
\* number is below the count that callFunction and OpClosure make room by.
SlotsDistinct == \A l \in 1..Len(tabs) : NumbersDistinct(tabs[l])

\* Resolve(name, true) as the code has it, a recursion over the enclosing tables: the
\* tables and the symbol it returns from level l.
GoResolve(ts, name) ==
    LET at[l \in 1..Len(ts)] ==
            IF name \in DOMAIN ts[l].store
            THEN [tabs |-> SubSeq(ts, 1, l), sym |-> ts[l].store[name]]
            ELSE IF l = 1 THEN [tabs |-> SubSeq(ts, 1, 1), sym |-> NoSymbol]
            ELSE IF at[l - 1].sym.scope \in {"LOCAL", "FREE"}
                 THEN LET new == DefineFree(ts[l], at[l - 1].sym)
                      IN  [tabs |-> Append(at[l - 1].tabs, new), sym |-> new.store[name]]
                 ELSE [tabs |-> Append(at[l - 1].tabs, ts[l]), sym |-> at[l - 1].sym]
    IN  at[Len(ts)]

\* The closed form of Resolve that the compiler's model uses is what the recursion
\* of the code computes.
ResolveAgrees ==
    \A name \in Names \cup {Builtin} :
        GoResolve(tabs, name) =
            [tabs |-> ResolveTables(tabs, name), sym |-> ResolvedSymbol(tabs, name)]

\* Code already emitted stays right: the free variables of a function keep their
\* numbers, and a name that changes its symbol gets a slot no name had before.
IndicesStable ==
    [][\A l \in (1..Len(tabs)) \cap (1..Len(tabs')) :
        /\ IsPrefix(tabs[l].free, tabs'[l].free)
        /\ \A n \in DOMAIN tabs[l].store :
            \/ tabs'[l].store[n] = tabs[l].store[n]
            \/ tabs'[l].store[n].scope = "LOCAL" /\ tabs'[l].store[n].index >= tabs[l].num
      ]_vars
=============================================================================
