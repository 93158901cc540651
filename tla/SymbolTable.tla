----------------------------- MODULE SymbolTable -----------------------------
(***************************************************************************)
(* Symbol tables (compiler/symbol_table.go).  A chain of tables, from the   *)
(* global one to the one of the innermost function, is a sequence; Go's     *)
(* s.Outer is the table before the last.  Resolve is recursive in the code  *)
(* and in closed form here: a name found at level home, if it is a local or *)
(* a free variable there, becomes a free variable of every level above.     *)
(***************************************************************************)
EXTENDS Naturals, SequencesExt

Symbol(name, scope, index) == [name |-> name, scope |-> scope, index |-> index]
NoName == ""          \* of a function literal that is not bound by a let
NoSymbol == Symbol(NoName, "NONE", 0)

NewTable == [store |-> [n \in {} |-> NoSymbol], num |-> 0, free |-> <<>>]

Enclose(tabs) == Append(tabs, NewTable)

\* s.store[sym.name] = sym
PutSymbol(t, sym) ==
    [t EXCEPT !.store = [n \in DOMAIN t.store \cup {sym.name} |->
                            IF n = sym.name THEN sym ELSE t.store[n]]]

TopTable(tabs) == tabs[Len(tabs)]
SetTop(tabs, t) == [tabs EXCEPT ![Len(tabs)] = t]

DefinedSymbol(tabs, name) ==
    Symbol(name, IF Len(tabs) = 1 THEN "GLOBAL" ELSE "LOCAL", TopTable(tabs).num)

\* A faulty Define: the definition is not counted.
DefineUncounted(tabs, name) ==
    SetTop(tabs, PutSymbol(TopTable(tabs), DefinedSymbol(tabs, name)))

Define(tabs, name) ==
    SetTop(tabs, [PutSymbol(TopTable(tabs), DefinedSymbol(tabs, name))
                    EXCEPT !.num = @ + 1])

DefineFunctionName(tabs, name) ==
    SetTop(tabs, PutSymbol(TopTable(tabs), Symbol(name, "FUNCTION", 0)))

DefineBuiltin(t, index, name) == PutSymbol(t, Symbol(name, "BUILTIN", index))

\* Faulty DefineFrees: one keeps the new symbol instead of the original, one
\* adds to the front.
DefineFreeItself(t, original) ==
    [PutSymbol(t, Symbol(original.name, "FREE", Len(t.free)))
        EXCEPT !.free = Append(@, Symbol(original.name, "FREE", Len(t.free)))]

DefineFreeFirst(t, original) ==
    [PutSymbol(t, Symbol(original.name, "FREE", 0)) EXCEPT !.free = <<original>> \o @]

\* DefineFree: original is the symbol of the enclosing table.
DefineFree(t, original) ==
    [PutSymbol(t, Symbol(original.name, "FREE", Len(t.free)))
        EXCEPT !.free = Append(@, original)]

-----------------------------------------------------------------------------
\* A faulty Home: the outermost level.
OutermostHome(tabs, name) ==
    LET levels == {l \in 1..Len(tabs) : name \in DOMAIN tabs[l].store}
    IN  IF levels = {} THEN 0 ELSE CHOOSE l \in levels : \A m \in levels : l <= m

\* The innermost level whose table holds the name; 0 when none does.
Home(tabs, name) ==
    LET levels == {l \in 1..Len(tabs) : name \in DOMAIN tabs[l].store}
    IN  IF levels = {} THEN 0 ELSE CHOOSE l \in levels : \A m \in levels : m <= l

Captures(tabs, name) ==
    LET home == Home(tabs, name)
    IN  /\ home \in 1..(Len(tabs) - 1)
        /\ tabs[home].store[name].scope \in {"LOCAL", "FREE"}

\* A faulty CapturedAt: numbers free variables from 1.
CapturedFromOne(tabs, name, l) ==
    IF l = Home(tabs, name) THEN tabs[l].store[name]
    ELSE Symbol(name, "FREE", Len(tabs[l].free) + 1)

\* The symbol a capture has at level l, home or above.
CapturedAt(tabs, name, l) ==
    IF l = Home(tabs, name) THEN tabs[l].store[name]
    ELSE Symbol(name, "FREE", Len(tabs[l].free))

\* Resolve(name, true): the tables afterwards and the symbol found.
ResolveTables(tabs, name) ==
    IF ~Captures(tabs, name) THEN tabs
    ELSE [l \in 1..Len(tabs) |->
            IF l <= Home(tabs, name) THEN tabs[l]
            ELSE DefineFree(tabs[l], CapturedAt(tabs, name, l - 1))]

ResolvedSymbol(tabs, name) ==
    IF Home(tabs, name) = 0 THEN NoSymbol
    ELSE IF Captures(tabs, name) THEN CapturedAt(tabs, name, Len(tabs))
    ELSE tabs[Home(tabs, name)].store[name]

\* Resolve(name, false) looks in the innermost table only.
ResolveLocal(tabs, name) ==
    IF name \in DOMAIN TopTable(tabs).store THEN TopTable(tabs).store[name]
    ELSE NoSymbol

\* What a let statement does with its name: a name the function does not have yet,
\* or has as a free variable or as its own name, is defined.
Redefines(tabs, name) == ResolveLocal(tabs, name).scope \in {"NONE", "FREE", "FUNCTION"}
LetSymbol(tabs, name) ==
    IF Redefines(tabs, name) THEN DefinedSymbol(tabs, name) ELSE ResolveLocal(tabs, name)
LetTables(tabs, name) == IF Redefines(tabs, name) THEN Define(tabs, name) ELSE tabs

\* The table of a function literal: its own name, if it has one, and its
\* parameters.
FunctionTables(tabs, name, params) ==
    LET defined[k \in 0..Len(params)] ==
            IF k = 0
            THEN IF name = NoName THEN Enclose(tabs) ELSE DefineFunctionName(Enclose(tabs), name)
            ELSE Define(defined[k - 1], params[k])
    IN  defined[Len(params)]
=============================================================================
