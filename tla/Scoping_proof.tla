---------------------------- MODULE Scoping_proof ----------------------------
(***************************************************************************)
(* Symbol tables of any number of nested functions, names and parameters:   *)
(* captures form chains that lead to the nearest declaration, Resolve in    *)
(* closed form is the recursion of the code, and emitted numbers stay.      *)
(***************************************************************************)
EXTENDS Scoping, SequenceTheorems, Induction

AllNames == Names \cup {Builtin}
Scopes == {"GLOBAL", "BUILTIN", "LOCAL", "FREE", "FUNCTION"}
SymbolSet == [name : AllNames, scope : Scopes, index : Nat]
Stores == UNION {[D -> SymbolSet] : D \in SUBSET AllNames}
Tables == [store : Stores, num : Nat, free : Seq(SymbolSet)]

\* A table after PutSymbol.
LEMMA PutSymbolTable ==
    ASSUME NEW t \in Tables, NEW sym \in SymbolSet
    PROVE  /\ PutSymbol(t, sym) \in Tables
           /\ PutSymbol(t, sym).num = t.num /\ PutSymbol(t, sym).free = t.free
           /\ DOMAIN PutSymbol(t, sym).store = DOMAIN t.store \cup {sym.name}
           /\ \A n \in DOMAIN t.store \cup {sym.name} :
                PutSymbol(t, sym).store[n] = IF n = sym.name THEN sym ELSE t.store[n]
<1> DEFINE D == DOMAIN t.store \cup {sym.name}
           s == [n \in D |-> IF n = sym.name THEN sym ELSE t.store[n]]
<1>1. PICK E \in SUBSET AllNames : t.store \in [E -> SymbolSet]
    BY DEF Tables, Stores
<1>2. D \in SUBSET AllNames /\ s \in [D -> SymbolSet]
    BY <1>1 DEF SymbolSet
<1>3. s \in Stores
    BY <1>2 DEF Stores
<1>4. PutSymbol(t, sym) = [t EXCEPT !.store = s]
    BY DEF PutSymbol
<1> HIDE DEF s
<1>5. /\ PutSymbol(t, sym) \in Tables /\ PutSymbol(t, sym).store = s
      /\ PutSymbol(t, sym).num = t.num /\ PutSymbol(t, sym).free = t.free
    BY <1>3, <1>4 DEF Tables
<1> QED BY <1>5 DEF s

-----------------------------------------------------------------------------
(***************************************************************************)
(* The inductive invariant, level by level: ts are the tables, ds what is    *)
(* declared in them.                                                        *)
(***************************************************************************)
Typed(ts, ds) ==
    /\ ts \in Seq(Tables) /\ ds \in Seq(Stores)
    /\ Len(ts) >= 1 /\ Len(ds) = Len(ts)

\* What the tables have of a function's own variables.
Own(ts, l, sym) ==
    IF l = 1 THEN sym.scope \in {"GLOBAL", "BUILTIN"}
    ELSE sym.scope = "FUNCTION" \/ (sym.scope = "LOCAL" /\ sym.index < ts[l].num)

Held(ts, l, sym) ==
    \/ sym.scope = "LOCAL" /\ sym.index < ts[l].num
    \/ sym.scope = "FREE" /\ sym.index < Len(ts[l].free)

DeclaredStored(ts, ds, l) ==
    \A n \in DOMAIN ds[l] :
        n \in DOMAIN ts[l].store /\ ts[l].store[n] = ds[l][n] /\ Own(ts, l, ts[l].store[n])

\* Function m declares the name as a local, and all from there to l have captured it.
Rooted(ts, ds, l, n, m) ==
    /\ m \in 1..(l - 1) /\ n \in DOMAIN ds[m] /\ ds[m][n].scope = "LOCAL"
    /\ \A k \in (m + 1)..l : n \in DOMAIN ts[k].store /\ n \notin DOMAIN ds[k]

\* A symbol the function did not declare stands for the one of the same name in the
\* function around it.
Captured(ts, ds, l) ==
    \A n \in DOMAIN ts[l].store \ DOMAIN ds[l] :
        /\ l >= 2 /\ ts[l].store[n].scope = "FREE"
        /\ ts[l].store[n].index < Len(ts[l].free)
        /\ n \in DOMAIN ts[l - 1].store
        /\ ts[l].free[ts[l].store[n].index + 1] = ts[l - 1].store[n]
        /\ \E m \in 1..(l - 1) : Rooted(ts, ds, l, n, m)

LevelInOrder(ts, ds, l) ==
    /\ \A n \in DOMAIN ts[l].store : ts[l].store[n].name = n
    /\ DeclaredStored(ts, ds, l)
    /\ Captured(ts, ds, l)
    /\ l >= 2 => \A i \in 1..Len(ts[l].free) : Held(ts, l - 1, ts[l].free[i])

InOrder(ts, ds) == Typed(ts, ds) /\ \A l \in 1..Len(ts) : LevelInOrder(ts, ds, l)
ScopesInOrder == InOrder(tabs, declared)

\* Whether a level is in order depends on the levels up to it.
LEMMA LevelLocal ==
    ASSUME NEW ts, NEW ds, NEW us, NEW es, NEW l \in Nat \ {0},
           LevelInOrder(ts, ds, l),
           \A k \in 1..l : us[k] = ts[k] /\ es[k] = ds[k]
    PROVE  LevelInOrder(us, es, l)
<1>1. us[l] = ts[l] /\ es[l] = ds[l] /\ (l >= 2 => us[l - 1] = ts[l - 1] /\ l - 1 \in Nat)
    OBVIOUS
<1>2. DeclaredStored(us, es, l)
    BY <1>1 DEF LevelInOrder, DeclaredStored, Own
<1>3. ASSUME NEW n, NEW m, Rooted(ts, ds, l, n, m) PROVE Rooted(us, es, l, n, m)
    <2>1. m \in 1..l /\ \A k \in (m + 1)..l : k \in 1..l
        BY <1>3 DEF Rooted
    <2> QED BY <1>3, <2>1 DEF Rooted
<1>4. Captured(us, es, l)
    BY <1>1, <1>3 DEF LevelInOrder, Captured
<1>5. l >= 2 => \A i \in 1..Len(us[l].free) : Held(us, l - 1, us[l].free[i])
    BY <1>1 DEF LevelInOrder, Held
<1> QED BY <1>1, <1>2, <1>4, <1>5 DEF LevelInOrder

\* The parts of a table.
LEMMA TableParts ==
    ASSUME NEW t \in Tables
    PROVE  /\ t.num \in Nat /\ t.free \in Seq(SymbolSet) /\ Len(t.free) \in Nat
           /\ t.store \in Stores
           /\ \A n \in DOMAIN t.store :
                n \in AllNames /\ t.store[n] \in SymbolSet /\ t.store[n].index \in Nat
<1>1. PICK D \in SUBSET AllNames : t.store \in [D -> SymbolSet]
    BY DEF Tables, Stores
<1> QED BY <1>1 DEF Tables, SymbolSet

\* A table that gives one name a symbol, with the next number of its scope if it has one,
\* keeps its numbers distinct.
LEMMA NextNumber ==
    ASSUME NEW t \in Tables, NumbersDistinct(t), NEW u \in Tables, NEW name \in AllNames,
           DOMAIN u.store = DOMAIN t.store \cup {name},
           \A n \in DOMAIN t.store : n # name => u.store[n] = t.store[n],
           u.num >= t.num, Len(u.free) >= Len(t.free),
           name \in Numbered(u) =>
                /\ u.store[name].index = Given(t, u.store[name].scope)
                /\ Given(t, u.store[name].scope) < Given(u, u.store[name].scope)
    PROVE  NumbersDistinct(u)
<1>1. /\ t.num \in Nat /\ u.num \in Nat /\ Len(t.free) \in Nat /\ Len(u.free) \in Nat
      /\ \A scope : Given(t, scope) \in Nat /\ Given(u, scope) \in Nat /\ Given(t, scope) <= Given(u, scope)
    BY TableParts DEF Given
<1>2. ASSUME NEW n \in Numbered(u), n # name
      PROVE  /\ n \in Numbered(t) /\ u.store[n] = t.store[n] /\ u.store[n].index \in Nat
             /\ u.store[n].index < Given(t, u.store[n].scope)
    <2>1. n \in Numbered(t) /\ u.store[n] = t.store[n]
        BY <1>2 DEF Numbered
    <2> QED BY <2>1, TableParts DEF Numbered, NumbersDistinct
<1>3. \A n \in Numbered(u) : u.store[n].index < Given(u, u.store[n].scope)
    <2> TAKE n \in Numbered(u)
    <2>1. CASE n = name
        BY <2>1
    <2>2. CASE n # name
        BY <2>2, <1>1, <1>2
    <2> QED BY <2>1, <2>2
<1>4. ASSUME NEW m \in Numbered(u), NEW n \in Numbered(u),
             u.store[m].scope = u.store[n].scope, u.store[m].index = u.store[n].index
      PROVE  m = n
    <2>1. CASE m # name /\ n # name
        BY <2>1, <1>2, <1>4 DEF NumbersDistinct
    <2>2. CASE m = name /\ n # name
        BY <2>2, <1>1, <1>2, <1>4
    <2>3. CASE m # name /\ n = name
        BY <2>3, <1>1, <1>2, <1>4
    <2> QED BY <2>1, <2>2, <2>3
<1> QED BY <1>3, <1>4 DEF NumbersDistinct

-----------------------------------------------------------------------------
\* What the table of a function literal starts with: its name and its parameters.
Fresh == {t \in Tables : /\ t.free = <<>> /\ NumbersDistinct(t)
                         /\ \A n \in DOMAIN t.store :
                                /\ t.store[n].name = n
                                /\ \/ t.store[n].scope = "FUNCTION"
                                   \/ t.store[n].scope = "LOCAL" /\ t.store[n].index < t.num}

LEMMA NewTableFresh == NewTable \in Fresh
<1>1. [n \in {} |-> NoSymbol] \in Stores
    BY DEF Stores
<1>2. NewTable \in Tables
    BY <1>1 DEF NewTable, Tables
<1>3. NumbersDistinct(NewTable)
    BY DEF NumbersDistinct, Numbered, NewTable
<1> QED BY <1>2, <1>3 DEF Fresh, NewTable

\* Changing the innermost table.
LEMMA SetTopAppend ==
    ASSUME NEW ts \in Seq(Tables), NEW t \in Tables, NEW u \in Tables
    PROVE  TopTable(Append(ts, t)) = t /\ SetTop(Append(ts, t), u) = Append(ts, u)
<1> DEFINE all == Append(ts, t)
<1>1. /\ Len(ts) \in Nat /\ all \in Seq(Tables) /\ Len(all) = Len(ts) + 1
      /\ all[Len(ts) + 1] = t /\ \A i \in 1..Len(ts) : all[i] = ts[i]
    OBVIOUS
<1> HIDE DEF all
<1>2. /\ [all EXCEPT ![Len(all)] = u] \in Seq(Tables)
      /\ Len([all EXCEPT ![Len(all)] = u]) = Len(ts) + 1
      /\ \A i \in 1..(Len(ts) + 1) : [all EXCEPT ![Len(all)] = u][i] = Append(ts, u)[i]
    BY <1>1
<1>3. Append(ts, u) \in Seq(Tables) /\ Len(Append(ts, u)) = Len(ts) + 1
    BY <1>1
<1>4. [all EXCEPT ![Len(all)] = u] = Append(ts, u)
    BY <1>2, <1>3, SeqEqual
<1> QED BY <1>1, <1>4 DEF TopTable, SetTop, all

LEMMA DefineFresh ==
    ASSUME NEW ts \in Seq(Tables), Len(ts) >= 1, NEW t \in Fresh, NEW name \in Names
    PROVE  \E u \in Fresh : Define(Append(ts, t), name) = Append(ts, u)
<1> DEFINE all == Append(ts, t)
           sym == DefinedSymbol(all, name)
           p == PutSymbol(t, sym)
           u == [p EXCEPT !.num = p.num + 1]
<1>1. t \in Tables /\ t.free = <<>> /\ Len(all) = Len(ts) + 1 /\ TopTable(all) = t /\ Len(ts) \in Nat
    BY SetTopAppend DEF Fresh
<1>2. sym = [name |-> name, scope |-> "LOCAL", index |-> t.num] /\ sym \in SymbolSet
    BY <1>1 DEF DefinedSymbol, Symbol, SymbolSet, Scopes, AllNames, Tables
<1> HIDE DEF sym
<1>3. /\ p \in Tables /\ p.num = t.num /\ p.free = t.free
      /\ DOMAIN p.store = DOMAIN t.store \cup {name}
      /\ \A n \in DOMAIN t.store \cup {name} : p.store[n] = IF n = name THEN sym ELSE t.store[n]
    BY <1>1, <1>2, PutSymbolTable
<1> HIDE DEF p
<1>3a. t.num \in Nat
    BY <1>1 DEF Tables
<1>4. u \in Tables /\ u.num = t.num + 1 /\ u.free = <<>> /\ u.store = p.store
    <2>1. p.num + 1 \in Nat
        BY <1>3, <1>3a
    <2> QED BY <1>1, <1>3, <2>1 DEF Tables
<1> HIDE DEF u
<1>5. NumbersDistinct(u)
    <2>1. /\ NumbersDistinct(t) /\ u \in Tables /\ name \in AllNames
          /\ DOMAIN u.store = DOMAIN t.store \cup {name} /\ u.store[name] = sym
          /\ \A n \in DOMAIN t.store : n # name => u.store[n] = t.store[n]
          /\ u.num >= t.num /\ Len(u.free) >= Len(t.free)
        BY <1>1, <1>3, <1>3a, <1>4 DEF Fresh, AllNames
    <2>2. u.store[name].index = Given(t, "LOCAL") /\ Given(t, "LOCAL") < Given(u, "LOCAL")
        BY <1>2, <1>3a, <1>4, <2>1 DEF Given
    <2> QED BY <1>1, <1>2, <2>1, <2>2, NextNumber
<1>6. u \in Fresh
    <2> SUFFICES ASSUME NEW n \in DOMAIN u.store
                 PROVE  /\ u.store[n].name = n
                        /\ \/ u.store[n].scope = "FUNCTION"
                           \/ u.store[n].scope = "LOCAL" /\ u.store[n].index < u.num
        BY <1>4, <1>5 DEF Fresh
    <2>1. CASE n = name
        BY <2>1, <1>2, <1>3, <1>4, <1>3a
    <2>2. CASE n # name
        <3>1. n \in DOMAIN t.store /\ u.store[n] = t.store[n]
            BY <2>2, <1>3, <1>4
        <3>2. t.store[n] \in SymbolSet
            BY <3>1, <1>1 DEF Tables, Stores
        <3> QED BY <3>1, <3>2, <1>4, <1>3a DEF Fresh, SymbolSet
    <2> QED BY <2>1, <2>2
<1>7. Define(all, name) = SetTop(all, u)
    BY <1>1 DEF Define, u, p, sym
<1>8. SetTop(all, u) = Append(ts, u)
    BY <1>1, <1>4, SetTopAppend
<1> QED BY <1>6, <1>7, <1>8

\* A function literal begins with a fresh table.
LEMMA FunctionTablesFresh ==
    ASSUME NEW ts \in Seq(Tables), Len(ts) >= 1, NEW name \in Names \cup {NoName},
           NEW b \in Nat, NEW params \in [1..b -> Names]
    PROVE  \E u \in Fresh : FunctionTables(ts, name, params) = Append(ts, u)
<1> DEFINE T == {Append(ts, t) : t \in Fresh}
           c == IF name = NoName THEN Enclose(ts) ELSE DefineFunctionName(Enclose(ts), name)
           D == [p \in T \X (1..b) |-> Define(p[1], params[p[2]])]
           Body(f) == [k \in 0..b |-> IF k = 0 THEN c ELSE Define(f[k - 1], params[k])]
           defined == CHOOSE f : f = Body(f)
<1>1. c \in T
    <2>1. Enclose(ts) = Append(ts, NewTable)
        BY DEF Enclose
    <2>2. CASE name = NoName
        BY <2>1, <2>2, NewTableFresh
    <2>3. CASE name # NoName
        <3> DEFINE sym == Symbol(name, "FUNCTION", 0)
                   u == PutSymbol(NewTable, sym)
        <3>1. sym \in SymbolSet /\ sym.name = name /\ sym.scope = "FUNCTION" /\ NewTable \in Tables
            BY <2>3, NewTableFresh DEF Symbol, SymbolSet, Scopes, AllNames, Fresh
        <3> HIDE DEF sym
        <3>2. /\ u \in Tables /\ u.free = <<>> /\ DOMAIN u.store = {name} /\ u.store[name] = sym
            BY <3>1, PutSymbolTable DEF NewTable
        <3> HIDE DEF u
        <3>3. u \in Fresh
            <4>1. NumbersDistinct(u)
                BY <3>1, <3>2 DEF NumbersDistinct, Numbered
            <4> QED BY <3>1, <3>2, <4>1 DEF Fresh
        <3>4. c = SetTop(Append(ts, NewTable), u)
            BY <2>1, <2>3, <3>1, SetTopAppend DEF DefineFunctionName, u, sym
        <3>5. c = Append(ts, u)
            BY <3>4, <3>2, <3>1, SetTopAppend
        <3> QED BY <3>3, <3>5
    <2> QED BY <2>2, <2>3
<1> HIDE DEF c
<1>2. ASSUME NEW s \in T, NEW n \in Names PROVE Define(s, n) \in T
    <2>1. PICK t \in Fresh : s = Append(ts, t)
        OBVIOUS
    <2>2. PICK u \in Fresh : Define(Append(ts, t), n) = Append(ts, u)
        BY DefineFresh
    <2> QED BY <2>1, <2>2
<1> HIDE DEF T
<1>3. D \in Steps(T, b)
    BY <1>2 DEF Steps
<1> HIDE DEF D
<1>4. PICK f : Recursive(f, T, b, c, D)
    BY <1>1, <1>3, FiniteRecursion
<1> USE DEF Recursive
<1>5. \A k \in 1..b : f[k] = Define(f[k - 1], params[k])
    <2> TAKE k \in 1..b
    <2>1. k - 1 \in 0..b
        OBVIOUS
    <2>2. f[k - 1] \in T
        BY <1>4, <2>1
    <2> QED BY <1>4, <2>2 DEF D
<1>6. f = Body(f)
    BY <1>4, <1>5
<1>7. defined = Body(defined)
    <2> HIDE DEF Body
    <2> QED BY <1>6
<1>8. defined[0] = c /\ \A k \in 1..b : defined[k] = Define(defined[k - 1], params[k])
    <2> HIDE DEF defined
    <2> QED BY <1>7
<1>9. defined[b] = f[b]
    <2>1. \A k \in 1..b : defined[k - 1] = f[k - 1] => defined[k] = f[k]
        BY <1>5, <1>8
    <2>2. defined[0] = f[0]
        BY <1>4, <1>8
    <2> HIDE DEF defined
    <2>3. AlikeUpTo(defined, f, b)
        BY <2>1, <2>2, SameRecursion DEF StepAlike
    <2> QED BY <2>3 DEF AlikeUpTo
<1>10. FunctionTables(ts, name, params) = defined[b]
    <2>1. Len(params) = b
        OBVIOUS
    <2> QED BY <2>1 DEF FunctionTables, c
<1>11. f[b] \in T
    BY <1>4
<1> QED BY <1>9, <1>10, <1>11 DEF T

-----------------------------------------------------------------------------
(***************************************************************************)
(* Every action keeps the scopes in order.                                  *)
(***************************************************************************)
LEMMA StoreParts ==
    ASSUME NEW s \in Stores
    PROVE  DOMAIN s \subseteq AllNames /\ s = [n \in DOMAIN s |-> s[n]] /\ \A n \in DOMAIN s : s[n] \in SymbolSet
<1>1. PICK D \in SUBSET AllNames : s \in [D -> SymbolSet]
    BY DEF Stores
<1> QED BY <1>1

LEMMA InitInOrder == Init => ScopesInOrder
<1> SUFFICES ASSUME Init PROVE ScopesInOrder
    OBVIOUS
<1> DEFINE sym == Symbol(Builtin, "BUILTIN", 0)
           t == PutSymbol(NewTable, sym)
<1>1. sym \in SymbolSet /\ sym.name = Builtin /\ sym.scope = "BUILTIN" /\ NewTable \in Tables
    BY NewTableFresh DEF Symbol, SymbolSet, Scopes, AllNames, Fresh
<1>2. tabs = <<t>> /\ declared = <<t.store>>
    BY DEF Init, DefineBuiltin
<1> HIDE DEF sym
<1>3. t \in Tables /\ DOMAIN t.store = {Builtin} /\ t.store[Builtin] = sym
    BY <1>1, PutSymbolTable DEF NewTable
<1> HIDE DEF t
<1>4. t.store \in Stores
    BY <1>3, TableParts
<1>5. Typed(tabs, declared)
    BY <1>2, <1>3, <1>4 DEF Typed
<1>6. LevelInOrder(tabs, declared, 1)
    BY <1>1, <1>2, <1>3 DEF LevelInOrder, DeclaredStored, Captured, Own
<1>7. Len(tabs) = 1
    BY <1>2
<1> QED BY <1>5, <1>6, <1>7 DEF ScopesInOrder, InOrder

LEMMA EnterInOrder ==
    ASSUME NEW ts, NEW ds, InOrder(ts, ds), NEW u \in Fresh
    PROVE  InOrder(Append(ts, u), Append(ds, u.store))
<1> DEFINE us == Append(ts, u)
           es == Append(ds, u.store)
           L == Len(ts) + 1
<1>1. /\ ts \in Seq(Tables) /\ ds \in Seq(Stores) /\ Len(ts) \in Nat \ {0}
      /\ Len(ds) = Len(ts) /\ u \in Tables /\ u.store \in Stores /\ u.free = <<>>
    BY TableParts DEF InOrder, Typed, Fresh
<1>2. /\ us \in Seq(Tables) /\ es \in Seq(Stores) /\ Len(us) = L /\ Len(es) = L
      /\ us[L] = u /\ es[L] = u.store
      /\ \A k \in 1..Len(ts) : us[k] = ts[k] /\ es[k] = ds[k]
    BY <1>1
<1> HIDE DEF us, es
<1>3. Typed(us, es)
    BY <1>1, <1>2 DEF Typed
<1>4. ASSUME NEW l \in 1..L PROVE LevelInOrder(us, es, l)
    <2>1. CASE l = L
        <3>1. DeclaredStored(us, es, l)
            BY <2>1, <1>1, <1>2 DEF DeclaredStored, Own, Fresh
        <3>2. Captured(us, es, l)
            BY <2>1, <1>2 DEF Captured
        <3> QED BY <2>1, <3>1, <3>2, <1>1, <1>2 DEF LevelInOrder, Fresh
    <2>2. CASE l # L
        <3>1. l \in 1..Len(ts) /\ l \in Nat \ {0}
            BY <2>2, <1>1
        <3>2. LevelInOrder(ts, ds, l) /\ \A k \in 1..l : us[k] = ts[k] /\ es[k] = ds[k]
            BY <3>1, <1>2, <1>1 DEF InOrder
        <3> QED BY <3>1, <3>2, LevelLocal
    <2> QED BY <2>1, <2>2
<1>5. InOrder(us, es)
    BY <1>2, <1>3, <1>4 DEF InOrder
<1> QED BY <1>5 DEF us, es

LEMMA LeaveInOrder ==
    ASSUME NEW ts, NEW ds, InOrder(ts, ds), Len(ts) > 1
    PROVE  InOrder(Front(ts), Front(ds))
<1> DEFINE us == Front(ts)
           es == Front(ds)
<1>1. ts \in Seq(Tables) /\ ds \in Seq(Stores) /\ Len(ts) \in Nat \ {0} /\ Len(ds) = Len(ts)
    BY DEF InOrder, Typed
<1>2. /\ us \in Seq(Tables) /\ es \in Seq(Stores)
      /\ Len(us) = Len(ts) - 1 /\ Len(es) = Len(ts) - 1
      /\ \A k \in 1..(Len(ts) - 1) : us[k] = ts[k] /\ es[k] = ds[k]
    BY <1>1 DEF Front
<1> HIDE DEF us, es
<1>3. Typed(us, es)
    BY <1>1, <1>2 DEF Typed
<1>4. ASSUME NEW l \in 1..(Len(ts) - 1) PROVE LevelInOrder(us, es, l)
    <2>1. l \in 1..Len(ts) /\ l \in Nat \ {0} /\ \A k \in 1..l : k \in 1..(Len(ts) - 1)
        BY <1>1
    <2>2. LevelInOrder(ts, ds, l)
        BY <2>1 DEF InOrder
    <2> QED BY <2>1, <2>2, <1>2, LevelLocal
<1>5. InOrder(us, es)
    BY <1>2, <1>3, <1>4 DEF InOrder
<1> QED BY <1>5 DEF us, es

\* What a let declares, in the function it is in.
DeclaredByLet(ts, ds, name) ==
    [ds EXCEPT ![Len(ts)] = [n \in DOMAIN @ \cup {name} |->
                                IF n = name THEN LetSymbol(ts, name) ELSE @[n]]]

\* A let of a name that the function does not have, or has by another right, adds a
\* variable to it.
LEMMA LetDefines ==
    ASSUME NEW ts, NEW ds, InOrder(ts, ds), NEW name \in Names, Redefines(ts, name)
    PROVE  /\ InOrder(LetTables(ts, name), DeclaredByLet(ts, ds, name))
           /\ Len(LetTables(ts, name)) = Len(ts)
           /\ \A l \in 1..Len(ts) :
                /\ LetTables(ts, name)[l].free = ts[l].free
                /\ \A n \in DOMAIN ts[l].store :
                    \/ LetTables(ts, name)[l].store[n] = ts[l].store[n]
                    \/ /\ LetTables(ts, name)[l].store[n].scope = "LOCAL"
                       /\ LetTables(ts, name)[l].store[n].index >= ts[l].num
<1> DEFINE L == Len(ts)
           t == ts[L]
           sym == DefinedSymbol(ts, name)
           p == PutSymbol(t, sym)
           u == [p EXCEPT !.num = p.num + 1]
           us == LetTables(ts, name)
           d == ds[L]
           e == [n \in DOMAIN d \cup {name} |-> IF n = name THEN sym ELSE d[n]]
           es == DeclaredByLet(ts, ds, name)
<1>1. /\ ts \in Seq(Tables) /\ ds \in Seq(Stores) /\ L \in Nat \ {0} /\ L \in 1..L
      /\ Len(ds) = L /\ t \in Tables /\ d \in Stores
    BY DEF InOrder, Typed
<1>2. t.num \in Nat /\ Len(t.free) \in Nat /\ DOMAIN d \subseteq AllNames /\ \A n \in DOMAIN d : d[n] \in SymbolSet
    BY <1>1, TableParts, StoreParts
<1>3. \A n \in DOMAIN t.store : t.store[n] \in SymbolSet /\ t.store[n].index \in Nat
    BY <1>1, TableParts
<1>4. /\ sym \in SymbolSet /\ sym.name = name /\ sym.index = t.num
      /\ sym.scope = IF L = 1 THEN "GLOBAL" ELSE "LOCAL"
    BY <1>2 DEF DefinedSymbol, TopTable, Symbol, SymbolSet, Scopes, AllNames
<1> HIDE DEF sym
<1>5. /\ p \in Tables /\ p.num = t.num /\ p.free = t.free
      /\ DOMAIN p.store = DOMAIN t.store \cup {name}
      /\ \A n \in DOMAIN t.store \cup {name} : p.store[n] = IF n = name THEN sym ELSE t.store[n]
    BY <1>1, <1>4, PutSymbolTable
<1> HIDE DEF p
<1>6. u \in Tables /\ u.num = t.num + 1 /\ u.free = t.free /\ u.store = p.store
    <2>1. p.num + 1 \in Nat
        BY <1>2, <1>5
    <2> QED BY <1>5, <2>1 DEF Tables
<1>7. us = [ts EXCEPT ![L] = u]
    BY <1>5 DEF LetTables, Define, SetTop, TopTable, p, sym
<1> HIDE DEF u
<1>8. /\ us \in Seq(Tables) /\ Len(us) = L /\ us[L] = u /\ \A k \in 1..L : k # L => us[k] = ts[k]
    BY <1>1, <1>6, <1>7
<1>9. e \in Stores
    <2>1. DOMAIN e \in SUBSET AllNames /\ e \in [DOMAIN e -> SymbolSet]
        BY <1>2, <1>4 DEF AllNames
    <2> HIDE DEF e
    <2> QED BY <2>1 DEF Stores
<1>10. DOMAIN e = DOMAIN d \cup {name} /\ \A n \in DOMAIN d \cup {name} : e[n] = IF n = name THEN sym ELSE d[n]
    OBVIOUS
<1>11. es = [ds EXCEPT ![L] = e]
    BY DEF DeclaredByLet, LetSymbol, sym
<1> HIDE DEF e, us, es
<1>12. es \in Seq(Stores) /\ Len(es) = L /\ es[L] = e /\ \A k \in 1..L : k # L => es[k] = ds[k]
    BY <1>1, <1>9, <1>11
<1> HIDE DEF d
<1>13. ASSUME NEW l \in 1..L PROVE LevelInOrder(us, es, l)
    <2>1. CASE l # L
        <3>1. l \in Nat \ {0} /\ \A k \in 1..l : k \in 1..L /\ k # L
            BY <2>1, <1>1
        <3>2. LevelInOrder(ts, ds, l)
            BY DEF InOrder
        <3> QED BY <3>1, <3>2, <1>8, <1>12, LevelLocal
    <2>2. CASE l = L
        <3>1. LevelInOrder(ts, ds, L)
            BY <1>1 DEF InOrder
        <3>2. \A n \in DOMAIN u.store : u.store[n].name = n
            BY <3>1, <1>4, <1>5, <1>6 DEF LevelInOrder
        <3>3. ASSUME NEW n \in DOMAIN e
              PROVE  n \in DOMAIN u.store /\ u.store[n] = e[n] /\ Own(us, L, u.store[n])
            <4>1. CASE n = name
                BY <4>1, <1>2, <1>4, <1>5, <1>6, <1>8, <1>10 DEF Own
            <4>2. CASE n # name
                <5>1. n \in DOMAIN d /\ e[n] = d[n]
                    BY <4>2, <1>10
                <5>2. n \in DOMAIN t.store /\ t.store[n] = d[n] /\ Own(ts, L, t.store[n])
                    BY <5>1, <3>1 DEF LevelInOrder, DeclaredStored, d
                <5>3. u.store[n] = t.store[n]
                    BY <5>2, <4>2, <1>5, <1>6
                <5>4. Own(us, L, t.store[n])
                    BY <5>2, <1>2, <1>3, <1>6, <1>8 DEF Own
                <5> QED BY <5>1, <5>2, <5>3, <5>4, <1>5, <1>6
            <4> QED BY <4>1, <4>2
        <3>4. Captured(us, es, L)
            <4> SUFFICES ASSUME NEW n \in DOMAIN us[L].store \ DOMAIN es[L]
                         PROVE  /\ L >= 2 /\ us[L].store[n].scope = "FREE"
                                /\ us[L].store[n].index < Len(us[L].free)
                                /\ n \in DOMAIN us[L - 1].store
                                /\ us[L].free[us[L].store[n].index + 1] = us[L - 1].store[n]
                                /\ \E m \in 1..(L - 1) : Rooted(us, es, L, n, m)
                BY DEF Captured
            <4>1. n # name /\ n \in DOMAIN t.store \ DOMAIN d /\ u.store[n] = t.store[n]
                BY <1>5, <1>6, <1>8, <1>10, <1>12
            <4>2. /\ L >= 2 /\ t.store[n].scope = "FREE" /\ t.store[n].index < Len(t.free)
                  /\ n \in DOMAIN ts[L - 1].store
                  /\ t.free[t.store[n].index + 1] = ts[L - 1].store[n]
                  /\ \E m \in 1..(L - 1) : Rooted(ts, ds, L, n, m)
                BY <4>1, <3>1 DEF LevelInOrder, Captured, d
            <4>3. us[L - 1] = ts[L - 1]
                BY <4>2, <1>1, <1>8
            <4>4. PICK m \in 1..(L - 1) : Rooted(ts, ds, L, n, m)
                BY <4>2
            <4>5. m \in 1..L /\ m # L
                BY <1>1
            <4>6. ASSUME NEW k \in (m + 1)..L PROVE n \in DOMAIN us[k].store /\ n \notin DOMAIN es[k]
                <5>1. CASE k = L
                    BY <5>1, <4>1, <1>5, <1>6, <1>8, <1>10, <1>12
                <5>2. CASE k # L
                    <6>1. k \in 1..L
                        BY <4>5
                    <6>2. us[k] = ts[k] /\ es[k] = ds[k]
                        BY <6>1, <5>2, <1>8, <1>12
                    <6> QED BY <6>2, <4>4 DEF Rooted
                <5> QED BY <5>1, <5>2
            <4>7. Rooted(us, es, L, n, m)
                <5>1. es[m] = ds[m]
                    BY <4>5, <1>12
                <5> QED BY <5>1, <4>4, <4>6 DEF Rooted
            <4> QED BY <4>1, <4>2, <4>3, <4>7, <1>6, <1>8
        <3>5. L >= 2 => \A i \in 1..Len(u.free) : Held(us, L - 1, u.free[i])
            <4> SUFFICES ASSUME L >= 2, NEW i \in 1..Len(u.free) PROVE Held(us, L - 1, u.free[i])
                OBVIOUS
            <4>1. us[L - 1] = ts[L - 1]
                BY <1>1, <1>8
            <4>2. Held(ts, L - 1, t.free[i])
                BY <3>1, <1>6 DEF LevelInOrder
            <4> QED BY <4>1, <4>2, <1>6 DEF Held
        <3>6. DeclaredStored(us, es, L)
            BY <3>3, <1>8, <1>12 DEF DeclaredStored
        <3> QED BY <2>2, <3>2, <3>4, <3>5, <3>6, <1>8 DEF LevelInOrder
    <2> QED BY <2>1, <2>2
<1>14. InOrder(us, es)
    BY <1>1, <1>8, <1>12, <1>13 DEF InOrder, Typed
<1>15. ASSUME NEW l \in 1..L
       PROVE  /\ us[l].free = ts[l].free
              /\ \A n \in DOMAIN ts[l].store :
                    \/ us[l].store[n] = ts[l].store[n]
                    \/ us[l].store[n].scope = "LOCAL" /\ us[l].store[n].index >= ts[l].num
    <2>1. CASE l # L
        BY <2>1, <1>8
    <2>2. CASE l = L
        <3> SUFFICES ASSUME NEW n \in DOMAIN t.store
                     PROVE  \/ u.store[n] = t.store[n]
                            \/ u.store[n].scope = "LOCAL" /\ u.store[n].index >= t.num
            BY <2>2, <1>6, <1>8
        <3>1. CASE n # name
            BY <3>1, <1>5, <1>6
        <3>2. CASE n = name /\ L # 1
            BY <3>2, <1>2, <1>4, <1>5, <1>6
        <3>3. CASE n = name /\ L = 1
            <4>1. t.store[name].scope \in {"FREE", "FUNCTION", "NONE"}
                BY <3>3 DEF Redefines, ResolveLocal, TopTable
            <4>2. LevelInOrder(ts, ds, 1)
                BY <3>3, <1>1 DEF InOrder
            <4>3. name \in DOMAIN ds[1]
                BY <3>3, <4>2 DEF LevelInOrder, Captured
            <4>4. t.store[name].scope \in {"GLOBAL", "BUILTIN"}
                BY <3>3, <4>2, <4>3 DEF LevelInOrder, DeclaredStored, Own
            <4> QED BY <4>1, <4>4
        <3> QED BY <3>1, <3>2, <3>3
    <2> QED BY <2>1, <2>2
<1> QED BY <1>8, <1>14, <1>15 DEF us, es

\* A let of a variable the function already has changes nothing.
LEMMA LetKeeps ==
    ASSUME NEW ts, NEW ds, InOrder(ts, ds), NEW name \in Names, ~Redefines(ts, name)
    PROVE  LetTables(ts, name) = ts /\ DeclaredByLet(ts, ds, name) = ds
<1> DEFINE L == Len(ts)
           d == ds[L]
           e == [n \in DOMAIN d \cup {name} |-> IF n = name THEN ts[L].store[name] ELSE d[n]]
<1>1. /\ ds \in Seq(Stores) /\ L \in Nat \ {0} /\ L \in 1..L /\ Len(ds) = L /\ d \in Stores
      /\ LevelInOrder(ts, ds, L)
    BY DEF InOrder, Typed
<1>2. /\ name \in DOMAIN ts[L].store /\ ts[L].store[name].scope # "FREE"
      /\ LetSymbol(ts, name) = ts[L].store[name]
    BY DEF Redefines, ResolveLocal, TopTable, NoSymbol, Symbol, LetSymbol
<1>3. name \in DOMAIN d /\ d[name] = ts[L].store[name]
    BY <1>1, <1>2 DEF LevelInOrder, Captured, DeclaredStored
<1>4. d = [n \in DOMAIN d |-> d[n]]
    BY <1>1, StoreParts
<1>5. e = d
    BY <1>3, <1>4
<1>6. DeclaredByLet(ts, ds, name) = [ds EXCEPT ![L] = e]
    BY <1>2 DEF DeclaredByLet
<1> HIDE DEF e
<1>7. DeclaredByLet(ts, ds, name) = ds
    BY <1>1, <1>5, <1>6
<1> QED BY <1>7 DEF LetTables

-----------------------------------------------------------------------------
\* Level h is the innermost that has the name; none has it when h is 0.
IsHome(ts, name, h) ==
    /\ h \in 0..Len(ts)
    /\ h # 0 => name \in DOMAIN ts[h].store
    /\ \A l \in (h + 1)..Len(ts) : name \notin DOMAIN ts[l].store

LEMMA HomeOf ==
    ASSUME NEW ts \in Seq(Tables), NEW name
    PROVE  IsHome(ts, name, Home(ts, name))
<1> DEFINE levels == {l \in 1..Len(ts) : name \in DOMAIN ts[l].store}
<1>1. Len(ts) \in Nat /\ levels \in SUBSET (0..Len(ts))
    OBVIOUS
<1>2. CASE levels = {}
    <2>1. Home(ts, name) = 0
        BY <1>2 DEF Home
    <2> QED BY <1>1, <1>2, <2>1 DEF IsHome
<1>3. CASE levels # {}
    <2>1. PICK h \in levels : \A m \in levels : m <= h
        BY <1>1, <1>3, GreatestNatural
    <2>2. Home(ts, name) = CHOOSE l \in levels : \A m \in levels : m <= l
        BY <1>3 DEF Home
    <2>3. Home(ts, name) \in levels /\ \A m \in levels : m <= Home(ts, name)
        BY <2>1, <2>2
    <2> QED BY <2>3, <1>1 DEF IsHome
<1> QED BY <1>2, <1>3

\* There is one such level.
LEMMA OneHome ==
    ASSUME NEW ts, Len(ts) \in Nat, NEW name, NEW h, NEW g, IsHome(ts, name, h), IsHome(ts, name, g)
    PROVE  h = g
<1>1. h \in Nat /\ g \in Nat /\ ~(h < g) /\ ~(g < h)
    BY DEF IsHome
<1> QED BY <1>1

\* The tables after a capture from level h, and what they have at the levels above.
CapturedFrom(ts, us, name, h) ==
    /\ us \in Seq(Tables) /\ Len(us) = Len(ts)
    /\ \A l \in 1..h : us[l] = ts[l]
    /\ \A l \in (h + 1)..Len(ts) :
        /\ us[l].num = ts[l].num
        /\ DOMAIN us[l].store = DOMAIN ts[l].store \cup {name}
        /\ us[l].store[name] = Symbol(name, "FREE", Len(ts[l].free))
        /\ \A n \in DOMAIN ts[l].store : us[l].store[n] = ts[l].store[n]
        /\ us[l].free = Append(ts[l].free, us[l - 1].store[name])

LEMMA CaptureTables ==
    ASSUME NEW ts \in Seq(Tables), NEW name \in AllNames,
           Captures(ts, name), \A l \in 1..Len(ts) : \A n \in DOMAIN ts[l].store : ts[l].store[n].name = n
    PROVE  CapturedFrom(ts, ResolveTables(ts, name), name, Home(ts, name))
<1> DEFINE h == Home(ts, name)
           us == ResolveTables(ts, name)
           L == Len(ts)
<1>1. /\ IsHome(ts, name, h) /\ L \in Nat /\ h \in 1..(L - 1) /\ h \in Nat
      /\ name \in DOMAIN ts[h].store /\ ts[h].store[name].name = name
    BY HomeOf DEF Captures, IsHome
<1>2. us = [l \in 1..L |-> IF l <= h THEN ts[l] ELSE DefineFree(ts[l], CapturedAt(ts, name, l - 1))]
    BY DEF ResolveTables
<1> HIDE DEF h, us
<1>3. ASSUME NEW l \in 1..L
      PROVE  ts[l] \in Tables /\ CapturedAt(ts, name, l) = IF l = h THEN ts[h].store[name]
                                                          ELSE Symbol(name, "FREE", Len(ts[l].free))
    BY DEF CapturedAt, h
<1>4. ASSUME NEW l \in h..L
      PROVE  CapturedAt(ts, name, l) \in SymbolSet /\ CapturedAt(ts, name, l).name = name
    <2>1. l \in 1..L /\ ts[l] \in Tables /\ ts[h] \in Tables
        BY <1>1
    <2>2. Len(ts[l].free) \in Nat /\ ts[h].store[name] \in SymbolSet
        BY <2>1, <1>1, TableParts
    <2>3. Symbol(name, "FREE", Len(ts[l].free)) \in SymbolSet
        BY <2>2 DEF Symbol, SymbolSet, Scopes
    <2> QED BY <2>1, <2>2, <2>3, <1>1, <1>3 DEF Symbol
<1>5. ASSUME NEW l \in (h + 1)..L
      PROVE  /\ us[l] \in Tables
             /\ us[l].num = ts[l].num
             /\ DOMAIN us[l].store = DOMAIN ts[l].store \cup {name}
             /\ us[l].store[name] = Symbol(name, "FREE", Len(ts[l].free))
             /\ \A n \in DOMAIN ts[l].store : us[l].store[n] = ts[l].store[n]
             /\ us[l].free = Append(ts[l].free, CapturedAt(ts, name, l - 1))
    <2> DEFINE original == CapturedAt(ts, name, l - 1)
               sym == Symbol(original.name, "FREE", Len(ts[l].free))
               p == PutSymbol(ts[l], sym)
    <2>1. l \in 1..L /\ ~(l <= h) /\ l - 1 \in h..L /\ ts[l] \in Tables
        BY <1>1
    <2>2. original \in SymbolSet /\ original.name = name
        BY <1>4, <2>1
    <2>3. us[l] = DefineFree(ts[l], original)
        BY <1>2, <2>1
    <2> HIDE DEF original
    <2>4. ts[l].free \in Seq(SymbolSet) /\ Len(ts[l].free) \in Nat
        BY <2>1, TableParts
    <2>5. sym \in SymbolSet /\ sym.name = name /\ sym = Symbol(name, "FREE", Len(ts[l].free))
        BY <2>2, <2>4 DEF Symbol, SymbolSet, Scopes
    <2>6. us[l] = [p EXCEPT !.free = Append(p.free, original)]
        BY <2>3 DEF DefineFree
    <2> HIDE DEF sym
    <2>7. /\ p \in Tables /\ p.num = ts[l].num /\ p.free = ts[l].free
          /\ DOMAIN p.store = DOMAIN ts[l].store \cup {name}
          /\ \A n \in DOMAIN ts[l].store \cup {name} :
                p.store[n] = IF n = name THEN sym ELSE ts[l].store[n]
        BY <2>1, <2>5, PutSymbolTable
    <2> HIDE DEF p
    <2>8. Append(p.free, original) \in Seq(SymbolSet)
        BY <2>2, <2>4, <2>7
    <2>9. /\ us[l] \in Tables /\ us[l].num = p.num /\ us[l].store = p.store
          /\ us[l].free = Append(ts[l].free, original)
        BY <2>6, <2>7, <2>8 DEF Tables
    <2>10. name \notin DOMAIN ts[l].store
        BY <1>1 DEF IsHome
    <2>11. \A n \in DOMAIN ts[l].store : us[l].store[n] = ts[l].store[n]
        BY <2>7, <2>9, <2>10
    <2>12. us[l].store[name] = Symbol(name, "FREE", Len(ts[l].free))
        BY <2>5, <2>7, <2>9
    <2>13. DOMAIN us[l].store = DOMAIN ts[l].store \cup {name}
        BY <2>7, <2>9
    <2> QED BY <2>7, <2>9, <2>11, <2>12, <2>13 DEF original
<1>6. \A l \in 1..h : l \in 1..L /\ us[l] = ts[l]
    BY <1>1, <1>2
<1>7. \A l \in 1..L : us[l] \in Tables
    BY <1>1, <1>3, <1>5, <1>6
<1>8. us \in Seq(Tables) /\ Len(us) = L
    BY <1>1, <1>2, <1>7
<1>9. ASSUME NEW l \in (h + 1)..L PROVE CapturedAt(ts, name, l - 1) = us[l - 1].store[name]
    <2>1. l - 1 \in 1..L
        BY <1>1
    <2>2. CASE l - 1 = h
        BY <2>1, <2>2, <1>1, <1>3, <1>6
    <2>3. CASE l - 1 # h
        BY <2>1, <2>3, <1>1, <1>3, <1>5
    <2> QED BY <2>2, <2>3
<1>10. CapturedFrom(ts, us, name, h)
    BY <1>5, <1>6, <1>8, <1>9 DEF CapturedFrom
<1> QED BY <1>10 DEF us, h

\* Where a name held by a function comes from: a variable the function declares, or
\* one it has captured.
LEMMA HeldWithin ==
    ASSUME NEW ts, NEW ds, InOrder(ts, ds), NEW l \in 1..Len(ts), NEW n \in DOMAIN ts[l].store,
           ts[l].store[n].scope \in {"LOCAL", "FREE"}
    PROVE  /\ Held(ts, l, ts[l].store[n])
           /\ \E m \in 1..l : /\ n \in DOMAIN ds[m] /\ ds[m][n].scope = "LOCAL"
                              /\ \A k \in (m + 1)..l : n \in DOMAIN ts[k].store /\ n \notin DOMAIN ds[k]
<1>1. LevelInOrder(ts, ds, l) /\ l \in Nat
    BY DEF InOrder, Typed
<1>2. CASE n \in DOMAIN ds[l]
    <2>1. ts[l].store[n] = ds[l][n] /\ Own(ts, l, ts[l].store[n])
        BY <1>1, <1>2 DEF LevelInOrder, DeclaredStored
    <2>2. ts[l].store[n].scope = "LOCAL" /\ ts[l].store[n].index < ts[l].num
        BY <2>1 DEF Own
    <2>3. l \in 1..l /\ (l + 1)..l = {}
        BY <1>1
    <2> QED BY <1>2, <2>1, <2>2, <2>3 DEF Held
<1>3. CASE n \notin DOMAIN ds[l]
    <2>1. /\ ts[l].store[n].scope = "FREE" /\ ts[l].store[n].index < Len(ts[l].free)
          /\ \E m \in 1..(l - 1) : Rooted(ts, ds, l, n, m)
        BY <1>1, <1>3 DEF LevelInOrder, Captured
    <2>2. PICK m \in 1..(l - 1) : Rooted(ts, ds, l, n, m)
        BY <2>1
    <2>3. m \in 1..l
        BY <1>1
    <2> QED BY <2>1, <2>2, <2>3 DEF Held, Rooted
<1> QED BY <1>2, <1>3

\* An index below a length is below a longer one.
LEMMA BelowLonger == \A a, b, c \in Nat : a < b /\ c >= b => a < c
OBVIOUS

LEMMA CaptureInOrder ==
    ASSUME NEW ts, NEW ds, InOrder(ts, ds), NEW name \in AllNames, Captures(ts, name)
    PROVE  InOrder(ResolveTables(ts, name), ds)
<1> DEFINE h == Home(ts, name)
           us == ResolveTables(ts, name)
           L == Len(ts)
<1>1. ts \in Seq(Tables) /\ L \in Nat \ {0} /\ \A l \in 1..L : ts[l] \in Tables /\ LevelInOrder(ts, ds, l)
    BY DEF InOrder, Typed
<1>2. CapturedFrom(ts, us, name, h)
    BY <1>1, CaptureTables DEF LevelInOrder
<1>3. /\ IsHome(ts, name, h) /\ h \in 1..(L - 1) /\ h \in 1..L /\ h \in Nat
      /\ ts[h].store[name].scope \in {"LOCAL", "FREE"} /\ name \in DOMAIN ts[h].store
    BY <1>1, HomeOf DEF Captures, IsHome
<1> HIDE DEF h, us
<1>4. PICK m \in 1..h :
        /\ name \in DOMAIN ds[m] /\ ds[m][name].scope = "LOCAL"
        /\ \A k \in (m + 1)..h : name \in DOMAIN ts[k].store /\ name \notin DOMAIN ds[k]
    BY <1>3, HeldWithin
<1>5. ASSUME NEW l \in (h + 1)..L
      PROVE  name \notin DOMAIN ts[l].store /\ name \notin DOMAIN ds[l] /\ name \in DOMAIN us[l].store
    <2>1. l \in 1..L /\ LevelInOrder(ts, ds, l)
        BY <1>1, <1>3
    <2> QED BY <2>1, <1>2, <1>3 DEF IsHome, LevelInOrder, DeclaredStored, CapturedFrom
\* What a level had, it keeps.
<1>6. ASSUME NEW l \in 1..L
      PROVE  /\ us[l].num = ts[l].num /\ DOMAIN ts[l].store \subseteq DOMAIN us[l].store
             /\ \A n \in DOMAIN ts[l].store : us[l].store[n] = ts[l].store[n]
             /\ Len(ts[l].free) \in Nat /\ Len(us[l].free) >= Len(ts[l].free)
             /\ \A i \in 1..Len(ts[l].free) : us[l].free[i] = ts[l].free[i]
    <2>1. ts[l].free \in Seq(SymbolSet) /\ Len(ts[l].free) \in Nat
        BY <1>1, TableParts
    <2>2. CASE l \in 1..h
        BY <2>1, <2>2, <1>2 DEF CapturedFrom
    <2>3. CASE l \in (h + 1)..L
        <3>1. us[l].free = Append(ts[l].free, us[l - 1].store[name])
            BY <2>3, <1>2 DEF CapturedFrom
        <3>2. Len(us[l].free) = Len(ts[l].free) + 1 /\ \A i \in 1..Len(ts[l].free) : us[l].free[i] = ts[l].free[i]
            BY <3>1, <2>1
        <3> QED BY <2>1, <2>3, <3>2, <1>2 DEF CapturedFrom
    <2> QED BY <2>2, <2>3, <1>3
<1>7. ASSUME NEW l \in 1..L, NEW n \in DOMAIN ts[l].store, Held(ts, l, ts[l].store[n])
      PROVE  Held(us, l, us[l].store[n])
    <2>1. ts[l].store[n].index \in Nat
        BY <1>1, TableParts
    <2> QED BY <2>1, <1>6, <1>7 DEF Held
<1>8. ASSUME NEW l \in (h + 1)..L PROVE LevelInOrder(us, ds, l)
    <2> DEFINE k == Len(ts[l].free)
    <2>1. /\ l \in 1..L /\ l - 1 \in 1..L /\ l >= 2 /\ LevelInOrder(ts, ds, l)
        BY <1>1, <1>3
    <2>2. /\ DOMAIN us[l].store = DOMAIN ts[l].store \cup {name}
          /\ us[l].store[name] = Symbol(name, "FREE", k)
          /\ us[l].free = Append(ts[l].free, us[l - 1].store[name])
        BY <1>2 DEF CapturedFrom
    <2>3. ts[l].free \in Seq(SymbolSet) /\ k \in Nat
        BY <2>1, <1>1, TableParts
    <2>4. Len(us[l].free) = k + 1 /\ us[l].free[k + 1] = us[l - 1].store[name]
        BY <2>2, <2>3
    <2>5. \A n \in DOMAIN us[l].store : us[l].store[n].name = n
        BY <2>1, <2>2, <1>6 DEF LevelInOrder, Symbol
    <2>6. DeclaredStored(us, ds, l)
        <3> SUFFICES ASSUME NEW n \in DOMAIN ds[l]
                     PROVE  n \in DOMAIN us[l].store /\ us[l].store[n] = ds[l][n] /\ Own(us, l, us[l].store[n])
            BY DEF DeclaredStored
        <3>1. n \in DOMAIN ts[l].store /\ ts[l].store[n] = ds[l][n] /\ Own(ts, l, ts[l].store[n])
            BY <2>1 DEF LevelInOrder, DeclaredStored
        <3> QED BY <2>1, <3>1, <1>6 DEF Own
    <2>7. name \in DOMAIN us[l - 1].store
        <3>1. CASE l - 1 = h
            BY <3>1, <2>1, <1>3, <1>6
        <3>2. CASE l - 1 # h
            BY <3>2, <2>1, <1>3, <1>5
        <3> QED BY <3>1, <3>2
    <2>8. Captured(us, ds, l)
        <3> SUFFICES ASSUME NEW n \in DOMAIN us[l].store \ DOMAIN ds[l]
                     PROVE  /\ us[l].store[n].scope = "FREE"
                            /\ us[l].store[n].index < Len(us[l].free)
                            /\ n \in DOMAIN us[l - 1].store
                            /\ us[l].free[us[l].store[n].index + 1] = us[l - 1].store[n]
                            /\ \E r \in 1..(l - 1) : Rooted(us, ds, l, n, r)
            BY <2>1 DEF Captured
        <3>1. CASE n = name
            <4>1. m \in 1..(l - 1)
                BY <1>3
            <4>2. ASSUME NEW j \in (m + 1)..l PROVE name \in DOMAIN us[j].store /\ name \notin DOMAIN ds[j]
                <5>1. CASE j \in (m + 1)..h
                    BY <5>1, <1>3, <1>4, <1>6
                <5>2. CASE j \in (h + 1)..L
                    BY <5>2, <1>5
                <5> QED BY <5>1, <5>2, <1>3
            <4>3. Rooted(us, ds, l, name, m)
                BY <4>1, <4>2, <1>4 DEF Rooted
            <4> QED BY <3>1, <4>1, <4>3, <2>2, <2>3, <2>4, <2>7 DEF Symbol
        <3>2. CASE n # name
            <4>1. n \in DOMAIN ts[l].store /\ us[l].store[n] = ts[l].store[n]
                BY <3>2, <2>1, <2>2, <1>6
            <4>2. /\ ts[l].store[n].scope = "FREE" /\ ts[l].store[n].index < k
                  /\ n \in DOMAIN ts[l - 1].store
                  /\ ts[l].free[ts[l].store[n].index + 1] = ts[l - 1].store[n]
                  /\ \E r \in 1..(l - 1) : Rooted(ts, ds, l, n, r)
                BY <4>1, <2>1 DEF LevelInOrder, Captured
            <4>3. ts[l].store[n].index \in Nat
                BY <4>1, <2>1, <1>1, TableParts
            <4>4. us[l].free[ts[l].store[n].index + 1] = us[l - 1].store[n] /\ n \in DOMAIN us[l - 1].store
                <5>1. ts[l].store[n].index + 1 \in 1..k
                    BY <4>2, <4>3, <2>3
                <5>2. us[l].free[ts[l].store[n].index + 1] = ts[l].free[ts[l].store[n].index + 1]
                    BY <5>1, <2>1, <1>6
                <5>3. n \in DOMAIN us[l - 1].store /\ us[l - 1].store[n] = ts[l - 1].store[n]
                    BY <4>2, <2>1, <1>6
                <5> QED BY <4>2, <5>2, <5>3
            <4>5. PICK r \in 1..(l - 1) : Rooted(ts, ds, l, n, r)
                BY <4>2
            <4>6. \A j \in (r + 1)..l : j \in 1..L
                BY <2>1
            <4>7. Rooted(us, ds, l, n, r)
                BY <4>5, <4>6, <1>6 DEF Rooted
            <4> QED BY <4>1, <4>2, <4>3, <4>4, <4>7, <2>3, <2>4
        <3> QED BY <3>1, <3>2
    <2>9. ASSUME NEW i \in 1..Len(us[l].free) PROVE Held(us, l - 1, us[l].free[i])
        <3>1. CASE i \in 1..k
            <4>1. us[l].free[i] = ts[l].free[i] /\ ts[l].free[i] \in SymbolSet
                BY <3>1, <2>1, <2>3, <1>6
            <4>2. Held(ts, l - 1, ts[l].free[i])
                BY <3>1, <2>1 DEF LevelInOrder
            <4>3. /\ us[l - 1].num = ts[l - 1].num /\ Len(ts[l - 1].free) \in Nat
                  /\ Len(us[l - 1].free) >= Len(ts[l - 1].free)
                BY <2>1, <1>6
            <4>4. Len(us[l - 1].free) \in Nat
                BY <2>1, <1>2, TableParts DEF CapturedFrom
            <4>5. ts[l].free[i].index \in Nat
                BY <4>1 DEF SymbolSet
            <4>6. Held(us, l - 1, ts[l].free[i])
                <5>1. CASE ts[l].free[i].scope = "LOCAL" /\ ts[l].free[i].index < ts[l - 1].num
                    BY <5>1, <4>3 DEF Held
                <5>2. CASE ts[l].free[i].scope = "FREE" /\ ts[l].free[i].index < Len(ts[l - 1].free)
                    <6>1. ts[l].free[i].index < Len(us[l - 1].free)
                        BY <5>2, <4>3, <4>4, <4>5, BelowLonger, Zenon
                    <6> QED BY <5>2, <6>1 DEF Held
                <5> QED BY <5>1, <5>2, <4>2 DEF Held
            <4> QED BY <4>1, <4>6, Zenon
        <3>2. CASE i = k + 1
            <4>1. CASE l - 1 = h
                <5>1. Held(ts, h, ts[h].store[name])
                    BY <1>3, HeldWithin
                <5> QED BY <3>2, <4>1, <5>1, <2>1, <2>4, <1>3, <1>7
            <4>2. CASE l - 1 # h
                <5> DEFINE j == l - 1
                <5>1. j \in (h + 1)..L /\ ts[j].free \in Seq(SymbolSet)
                    BY <4>2, <2>1, <1>3, <1>1, TableParts
                <5>2. us[j].store[name] = Symbol(name, "FREE", Len(ts[j].free))
                      /\ us[j].free = Append(ts[j].free, us[j - 1].store[name])
                    BY <5>1, <1>2 DEF CapturedFrom
                <5>3. Len(us[j].free) = Len(ts[j].free) + 1 /\ Len(ts[j].free) \in Nat
                    BY <5>1, <5>2
                <5> QED BY <3>2, <5>2, <5>3, <2>4 DEF Held, Symbol
            <4> QED BY <4>1, <4>2
        <3> QED BY <3>1, <3>2, <2>3, <2>4
    <2> QED BY <2>5, <2>6, <2>8, <2>9 DEF LevelInOrder
<1>9. ASSUME NEW l \in 1..h PROVE LevelInOrder(us, ds, l)
    <2>1. l \in Nat \ {0} /\ l \in 1..L /\ \A k \in 1..l : k \in 1..h
        BY <1>3
    <2>2. \A k \in 1..l : us[k] = ts[k] /\ ds[k] = ds[k]
        BY <2>1, <1>2 DEF CapturedFrom
    <2>3. LevelInOrder(ts, ds, l)
        BY <2>1, <1>1
    <2> QED BY <2>1, <2>2, <2>3, LevelLocal
<1>10. us \in Seq(Tables) /\ Len(us) = L
    BY <1>2 DEF CapturedFrom
<1>11. \A l \in 1..L : LevelInOrder(us, ds, l)
    BY <1>3, <1>8, <1>9
<1>12. InOrder(us, ds)
    BY <1>10, <1>11 DEF InOrder, Typed
<1> QED BY <1>12 DEF us

\* What a step may do to a level: add free variables after those it has, and give
\* a name a local variable that is new.
Grown(t, u) ==
    /\ IsPrefix(t.free, u.free)
    /\ \A n \in DOMAIN t.store :
        \/ u.store[n] = t.store[n]
        \/ u.store[n].scope = "LOCAL" /\ u.store[n].index >= t.num

LEMMA PrefixByElements ==
    ASSUME NEW S, NEW s \in Seq(S), NEW t \in Seq(S), Len(s) <= Len(t),
           \A i \in 1..Len(s) : t[i] = s[i]
    PROVE  IsPrefix(s, t)
<1> DEFINE a == SubSeq(s, 1, Len(s))
           b == SubSeq(t, 1, Len(s))
<1>1. Len(s) \in Nat /\ Len(t) \in Nat
    OBVIOUS
<1>2. a \in Seq(S) /\ Len(a) = Len(s) /\ \A i \in 1..Len(s) : a[i] = s[i]
    BY <1>1, SubSeqProperties
<1>3. b \in Seq(S) /\ Len(b) = Len(s) /\ \A i \in 1..Len(s) : b[i] = t[i]
    <2>1. Len(s) \in 0..Len(t) /\ (\A i \in 1..Len(s) : t[i] \in S)
        BY <1>1
    <2> QED BY <2>1, <1>1, SubSeqProperties
<1>4. a = b
    <2> HIDE DEF a, b
    <2> QED BY <1>2, <1>3, SeqEqual
<1> QED BY <1>4 DEF IsPrefix

LEMMA SameGrown ==
    ASSUME NEW t \in Tables
    PROVE  Grown(t, t)
<1>1. t.free \in Seq(SymbolSet)
    BY TableParts
<1>2. IsPrefix(t.free, t.free)
    BY <1>1, PrefixByElements
<1> QED BY <1>2 DEF Grown

LEMMA UseInOrder ==
    ASSUME NEW ts, NEW ds, InOrder(ts, ds), NEW name \in AllNames
    PROVE  /\ InOrder(ResolveTables(ts, name), ds)
           /\ \A l \in 1..Len(ts) : Grown(ts[l], ResolveTables(ts, name)[l])
<1> DEFINE us == ResolveTables(ts, name)
           h == Home(ts, name)
<1>1. ts \in Seq(Tables) /\ Len(ts) \in Nat /\ \A l \in 1..Len(ts) : ts[l] \in Tables /\ LevelInOrder(ts, ds, l)
    BY DEF InOrder, Typed
<1>2. CASE ~Captures(ts, name)
    <2>1. us = ts
        BY <1>2 DEF ResolveTables
    <2> QED BY <1>1, <2>1, SameGrown
<1>3. CASE Captures(ts, name)
    <2>1. CapturedFrom(ts, us, name, h) /\ h \in Nat
        BY <1>1, <1>3, CaptureTables DEF LevelInOrder, Captures
    <2> HIDE DEF h, us
    <2>2. ASSUME NEW l \in 1..Len(ts) PROVE Grown(ts[l], us[l])
        <3>1. CASE l \in 1..h
            BY <3>1, <1>1, <2>1, SameGrown DEF CapturedFrom
        <3>2. CASE l \in (h + 1)..Len(ts)
            <4>1. us[l].free = Append(ts[l].free, us[l - 1].store[name]) /\ us[l] \in Tables
                BY <3>2, <2>1, <1>1 DEF CapturedFrom
            <4>2. ts[l].free \in Seq(SymbolSet) /\ us[l].free \in Seq(SymbolSet)
                BY <4>1, <1>1, TableParts
            <4>3. Len(us[l].free) = Len(ts[l].free) + 1 /\ \A i \in 1..Len(ts[l].free) : us[l].free[i] = ts[l].free[i]
                BY <4>1, <4>2
            <4>4. IsPrefix(ts[l].free, us[l].free)
                <5>1. Len(ts[l].free) \in Nat /\ Len(ts[l].free) <= Len(us[l].free)
                    BY <4>2, <4>3
                <5> QED BY <5>1, <4>2, <4>3, PrefixByElements
            <4> QED BY <3>2, <4>4, <2>1 DEF Grown, CapturedFrom
        <3> QED BY <3>1, <3>2, <2>1
    <2>3. InOrder(us, ds)
        BY <1>3, CaptureInOrder DEF us
    <2> QED BY <2>2, <2>3 DEF us
<1> QED BY <1>2, <1>3

LEMMA LetInOrder ==
    ASSUME NEW ts, NEW ds, InOrder(ts, ds), NEW name \in Names
    PROVE  /\ InOrder(LetTables(ts, name), DeclaredByLet(ts, ds, name))
           /\ \A l \in 1..Len(ts) : Grown(ts[l], LetTables(ts, name)[l])
<1>1. Len(ts) \in Nat /\ \A l \in 1..Len(ts) : ts[l] \in Tables /\ ts[l].free \in Seq(SymbolSet)
    BY TableParts DEF InOrder, Typed
<1>2. CASE Redefines(ts, name)
    <2>1. ASSUME NEW l \in 1..Len(ts) PROVE Grown(ts[l], LetTables(ts, name)[l])
        <3>1. IsPrefix(ts[l].free, ts[l].free)
            BY <1>1, SameGrown DEF Grown
        <3> QED BY <3>1, <1>2, LetDefines DEF Grown
    <2> QED BY <2>1, <1>2, LetDefines
<1>3. CASE ~Redefines(ts, name)
    BY <1>1, <1>3, LetKeeps, SameGrown
<1> QED BY <1>2, <1>3

-----------------------------------------------------------------------------
LEMMA NextInOrder ==
    ASSUME ScopesInOrder, Next
    PROVE  /\ ScopesInOrder'
           /\ \A l \in (1..Len(tabs)) \cap (1..Len(tabs')) : Grown(tabs[l], tabs'[l])
<1>1. /\ InOrder(tabs, declared) /\ tabs \in Seq(Tables) /\ Len(tabs) \in Nat \ {0}
      /\ declared \in Seq(Stores) /\ Len(declared) = Len(tabs)
      /\ \A l \in 1..Len(tabs) : tabs[l] \in Tables
    BY DEF ScopesInOrder, InOrder, Typed
<1>2. ASSUME NEW name \in Names \cup {NoName}, NEW b \in Nat, NEW params \in [1..b -> Names],
             EnterFunction(name, params)
      PROVE  InOrder(tabs', declared') /\ \A l \in 1..Len(tabs) : Grown(tabs[l], tabs'[l])
    <2>1. PICK u \in Fresh : FunctionTables(tabs, name, params) = Append(tabs, u)
        <3>1. Len(tabs) >= 1
            BY <1>1
        <3> QED BY <3>1, <1>1, FunctionTablesFresh
    <2>2. tabs' = Append(tabs, u) /\ u \in Tables /\ TopTable(Append(tabs, u)) = u
        BY <1>2, <2>1, <1>1, SetTopAppend DEF EnterFunction, Fresh
    <2>3. declared' = Append(declared, u.store)
        BY <1>2, <2>1, <2>2 DEF EnterFunction
    <2>4. \A l \in 1..Len(tabs) : tabs'[l] = tabs[l]
        BY <1>1, <2>2
    <2> QED BY <1>1, <2>2, <2>3, <2>4, EnterInOrder, SameGrown
<1>3. ASSUME LeaveFunction
      PROVE  InOrder(tabs', declared') /\ \A l \in 1..Len(tabs') : Grown(tabs[l], tabs'[l])
    <2>1. \A l \in 1..Len(tabs') : l \in 1..Len(tabs) /\ tabs'[l] = tabs[l]
        BY <1>1, <1>3 DEF LeaveFunction, Front
    <2> QED BY <1>1, <1>3, <2>1, LeaveInOrder, SameGrown DEF LeaveFunction
<1>4. ASSUME NEW name \in Names, Let(name)
      PROVE  InOrder(tabs', declared') /\ \A l \in 1..Len(tabs) : Grown(tabs[l], tabs'[l])
    <2>1. tabs' = LetTables(tabs, name) /\ declared' = DeclaredByLet(tabs, declared, name)
        BY <1>4 DEF Let, DeclaredByLet
    <2> QED BY <1>1, <2>1, LetInOrder
<1>5. ASSUME NEW name \in AllNames, Use(name)
      PROVE  InOrder(tabs', declared') /\ \A l \in 1..Len(tabs) : Grown(tabs[l], tabs'[l])
    <2>1. tabs' = ResolveTables(tabs, name) /\ declared' = declared
        BY <1>5 DEF Use
    <2> QED BY <1>1, <2>1, UseInOrder
<1>6. \A name \in Names \cup {NoName}, params \in UNION {[1..k -> Names] : k \in 0..MaxParams} :
        EnterFunction(name, params) =>
            InOrder(tabs', declared') /\ \A l \in 1..Len(tabs) : Grown(tabs[l], tabs'[l])
    <2> SUFFICES ASSUME NEW name \in Names \cup {NoName}, NEW k \in 0..MaxParams,
                        NEW params \in [1..k -> Names], EnterFunction(name, params)
                 PROVE  InOrder(tabs', declared') /\ \A l \in 1..Len(tabs) : Grown(tabs[l], tabs'[l])
        OBVIOUS
    <2>1. k \in Nat
        BY ScopingAssumption
    <2> QED BY <2>1, <1>2
<1> QED BY <1>3, <1>4, <1>5, <1>6 DEF Next, ScopesInOrder, AllNames

\* The scopes are in order in every state: every table has what its function declares,
\* and beyond that only captures, each of a variable the function around it holds and
\* that an enclosing function declares.
THEOREM ScopesStayInOrder == Spec => []ScopesInOrder
<1>1. Init => ScopesInOrder
    BY InitInOrder
<1>2. ScopesInOrder /\ [Next]_vars => ScopesInOrder'
    <2>1. ScopesInOrder /\ UNCHANGED vars => ScopesInOrder'
        BY DEF ScopesInOrder, vars
    <2> QED BY <2>1, NextInOrder
<1> QED BY <1>1, <1>2, PTL DEF Spec

\* The loads before OpClosure find every free variable: for any nesting of functions,
\* what a function captures, the function around it has (compiler.go, FunctionLiteral;
\* symbol_table.go, Resolve).
THEOREM ChainsOfFrees == Spec => []FreeChains
<1>1. ScopesInOrder => FreeChains
    <2> SUFFICES ASSUME ScopesInOrder, NEW l \in 2..Len(tabs), NEW i \in 1..Len(tabs[l].free)
                 PROVE  Reachable(l - 1, tabs[l].free[i])
        BY DEF FreeChains
    <2>1. LevelInOrder(tabs, declared, l)
        BY DEF ScopesInOrder, InOrder, Typed
    <2>2. Held(tabs, l - 1, tabs[l].free[i])
        BY <2>1 DEF LevelInOrder
    <2> QED BY <2>2 DEF Held, Reachable
<1> QED BY <1>1, ScopesStayInOrder, PTL

\* Numbers in code already emitted stay right: no step renumbers a free variable, and
\* a name that changes its symbol gets a slot no name had (symbol_table.go, Define,
\* defineFree).
THEOREM NumbersStay == Spec => IndicesStable
<1> DEFINE Kept == \A l \in (1..Len(tabs)) \cap (1..Len(tabs')) :
                        /\ IsPrefix(tabs[l].free, tabs'[l].free)
                        /\ \A n \in DOMAIN tabs[l].store :
                            \/ tabs'[l].store[n] = tabs[l].store[n]
                            \/ tabs'[l].store[n].scope = "LOCAL" /\ tabs'[l].store[n].index >= tabs[l].num
<1>1. ScopesInOrder /\ [Next]_vars => [Kept]_vars
    BY NextInOrder DEF Grown
<1> QED BY <1>1, ScopesStayInOrder, PTL DEF Spec, IndicesStable

-----------------------------------------------------------------------------
(***************************************************************************)
(* A use finds the nearest declaration.                                     *)
(***************************************************************************)
\* Down the chain of captures: f is what Origin computes.
ChainDown(ts, sym, f) ==
    /\ f[0] = <<IF sym.scope \in {"GLOBAL", "BUILTIN"} THEN 1 ELSE Len(ts), sym>>
    /\ \A k \in 1..Len(ts) :
        f[k] = IF f[k - 1][2].scope = "FREE"
               THEN <<f[k - 1][1] - 1, ts[f[k - 1][1]].free[f[k - 1][2].index + 1]>>
               ELSE f[k - 1]

LEMMA OriginByChain ==
    ASSUME NEW ts, Len(ts) \in Nat, NEW sym, NEW T, NEW f \in [0..Len(ts) -> T], ChainDown(ts, sym, f)
    PROVE  Origin(ts, sym) = f[Len(ts)]
<1> DEFINE L == Len(ts)
           first == <<IF sym.scope \in {"GLOBAL", "BUILTIN"} THEN 1 ELSE Len(ts), sym>>
           Body(g) == [k \in 0..L |->
                        IF k = 0 THEN first
                        ELSE IF g[k - 1][2].scope = "FREE"
                             THEN <<g[k - 1][1] - 1, ts[g[k - 1][1]].free[g[k - 1][2].index + 1]>>
                             ELSE g[k - 1]]
           at == CHOOSE g : g = Body(g)
<1>1. f = Body(f)
    <2>1. ASSUME NEW k \in 0..L PROVE f[k] = Body(f)[k]
        <3>1. k = 0 \/ k \in 1..L
            OBVIOUS
        <3>2. k = 0 => f[k] = first
            BY DEF ChainDown
        <3>3. ASSUME k \in 1..L
              PROVE  f[k] = IF f[k - 1][2].scope = "FREE"
                            THEN <<f[k - 1][1] - 1, ts[f[k - 1][1]].free[f[k - 1][2].index + 1]>>
                            ELSE f[k - 1]
            BY <3>3, Zenon DEF ChainDown
        <3>4. k \in 1..L => k # 0
            OBVIOUS
        <3> HIDE DEF first
        <3> QED BY <3>1, <3>2, <3>3, <3>4
    <2>2. f = [k \in 0..L |-> f[k]] /\ Body(f) = [k \in 0..L |-> Body(f)[k]]
        OBVIOUS
    <2> HIDE DEF Body
    <2> QED BY <2>1, <2>2
<1>2. at = Body(at)
    <2> HIDE DEF Body
    <2> QED BY <1>1
<1>3. ChainDown(ts, sym, at)
    <2> HIDE DEF at
    <2>1. 0 \in 0..L /\ \A k \in 1..L : k \in 0..L /\ k # 0
        OBVIOUS
    <2> QED BY <1>2, <2>1 DEF ChainDown
<1> HIDE DEF at
<1>4. StepAlike(at, f, L)
    BY <1>3 DEF ChainDown, StepAlike
<1>5. at[L] = f[L]
    BY <1>4, SameRecursion DEF AlikeUpTo
<1>6. Origin(ts, sym) = at[L]
    BY DEF Origin, at
<1> QED BY <1>5, <1>6

\* Globals and builtins are the global table's, wherever they are used.
LEMMA OriginOfGlobal ==
    ASSUME NEW ts, Len(ts) \in Nat, NEW sym, sym.scope \in {"GLOBAL", "BUILTIN"}
    PROVE  Origin(ts, sym) = <<1, sym>>
<1> DEFINE f == [k \in 0..Len(ts) |-> <<1, sym>>]
<1>1. f \in [0..Len(ts) -> {<<1, sym>>}] /\ ChainDown(ts, sym, f)
    BY DEF ChainDown
<1>2. f[Len(ts)] = <<1, sym>>
    OBVIOUS
<1> HIDE DEF f
<1> QED BY <1>1, <1>2, OriginByChain

\* Function m declares the name, and all the functions inside it have captured it.
LEMMA OriginRooted ==
    ASSUME NEW ts, NEW ds, InOrder(ts, ds), NEW n, NEW m \in 1..Len(ts), n \in DOMAIN ds[m],
           \A k \in (m + 1)..Len(ts) : n \in DOMAIN ts[k].store /\ n \notin DOMAIN ds[k]
    PROVE  Origin(ts, ts[Len(ts)].store[n]) = <<m, ds[m][n]>>
<1> DEFINE L == Len(ts)
           level(k) == IF L - k >= m THEN L - k ELSE m
           f == [k \in 0..L |-> <<level(k), ts[level(k)].store[n]>>]
           sym == ts[L].store[n]
           T == {f[k] : k \in 0..L}
<1>1. L \in Nat \ {0} /\ m \in Nat \ {0} /\ m <= L /\ \A l \in 1..L : LevelInOrder(ts, ds, l)
    BY DEF InOrder, Typed
<1>2. /\ n \in DOMAIN ts[m].store /\ ts[m].store[n] = ds[m][n]
      /\ Own(ts, m, ts[m].store[n])
    BY <1>1 DEF LevelInOrder, DeclaredStored
<1>3. ts[m].store[n].scope # "FREE"
    BY <1>2 DEF Own
<1>4. ASSUME NEW k \in (m + 1)..L
      PROVE  /\ ts[k].store[n].scope = "FREE"
             /\ ts[k].free[ts[k].store[n].index + 1] = ts[k - 1].store[n]
    <2>1. k \in 1..L
        BY <1>1
    <2>2. Captured(ts, ds, k)
        BY <2>1, <1>1 DEF LevelInOrder
    <2> QED BY <2>2 DEF Captured
<1>5. f[0] = <<IF sym.scope \in {"GLOBAL", "BUILTIN"} THEN 1 ELSE L, sym>>
    <2>1. f[0] = <<L, sym>>
        BY <1>1
    <2>2. CASE L = m
        BY <2>1, <2>2, <1>2 DEF Own
    <2>3. CASE L # m
        BY <2>1, <2>3, <1>1, <1>4
    <2> QED BY <2>2, <2>3
<1>6. ASSUME NEW k \in 1..L
      PROVE  f[k] = IF f[k - 1][2].scope = "FREE"
                    THEN <<f[k - 1][1] - 1, ts[f[k - 1][1]].free[f[k - 1][2].index + 1]>>
                    ELSE f[k - 1]
    <2> DEFINE j == level(k - 1)
    <2>1. f[k - 1] = <<j, ts[j].store[n]>> /\ f[k] = <<level(k), ts[level(k)].store[n]>>
        BY <1>1
    <2>2. j \in m..L /\ (j # m => level(k) = j - 1) /\ (j = m => level(k) = m)
        BY <1>1
    <2> HIDE DEF f, level, j
    <2>3. CASE j = m
        BY <2>1, <2>2, <2>3, <1>3
    <2>4. CASE j # m
        <3>1. j \in (m + 1)..L
            BY <2>2, <2>4, <1>1
        <3> QED BY <2>1, <2>2, <2>4, <3>1, <1>4
    <2> QED BY <2>3, <2>4
<1>7. f[L] = <<m, ds[m][n]>>
    BY <1>1, <1>2
<1>8. f \in [0..L -> T]
    OBVIOUS
<1> HIDE DEF f, T
<1>9. ChainDown(ts, sym, f)
    BY <1>5, <1>6 DEF ChainDown
<1>10. Origin(ts, sym) = f[L]
    BY <1>1, <1>8, <1>9, OriginByChain
<1> QED BY <1>7, <1>10

\* Function m is the nearest that declares the name.
IsNearest(ds, name, m) ==
    m \in 1..Len(ds) /\ name \in DOMAIN ds[m] /\ \A k \in (m + 1)..Len(ds) : name \notin DOMAIN ds[k]

LEMMA NearestIs ==
    ASSUME NEW name, Len(declared) \in Nat, Declaring(name) # {}
    PROVE  IsNearest(declared, name, Nearest(name))
<1>1. Declaring(name) \in SUBSET (0..Len(declared)) /\ Declaring(name) \subseteq 1..Len(declared)
    BY DEF Declaring
<1>2. PICK h \in Declaring(name) : \A m \in Declaring(name) : m <= h
    BY <1>1, GreatestNatural
<1>3. Nearest(name) \in Declaring(name) /\ \A m \in Declaring(name) : m <= Nearest(name)
    BY <1>2 DEF Nearest
<1> HIDE DEF Nearest
<1>4. \A k \in (Nearest(name) + 1)..Len(declared) : k \in 1..Len(declared) /\ ~(k <= Nearest(name))
    BY <1>1, <1>3
<1> QED BY <1>1, <1>3, <1>4 DEF IsNearest, Declaring

\* A function has only names that it or one around it declares, and from the nearest
\* declaration to it all have the name.
LEMMA StoredIsDeclared ==
    ASSUME NEW ts, NEW ds, InOrder(ts, ds), NEW l \in 1..Len(ts), NEW n \in DOMAIN ts[l].store
    PROVE  \E m \in 1..l : /\ n \in DOMAIN ds[m]
                           /\ \A k \in (m + 1)..l : n \in DOMAIN ts[k].store /\ n \notin DOMAIN ds[k]
<1>1. l \in Nat /\ Captured(ts, ds, l)
    BY DEF InOrder, Typed, LevelInOrder
<1>2. CASE n \in DOMAIN ds[l]
    <2>1. l \in 1..l /\ (l + 1)..l = {}
        BY <1>1
    <2> QED BY <1>2, <2>1
<1>3. CASE n \notin DOMAIN ds[l]
    <2>1. PICK m \in 1..(l - 1) : Rooted(ts, ds, l, n, m)
        BY <1>1, <1>3 DEF Captured
    <2>2. m \in 1..l
        BY <1>1
    <2> QED BY <2>1, <2>2 DEF Rooted
<1> QED BY <1>2, <1>3

\* The level a name is found at, and the nearest that declares it.
LEMMA HomeAndNearest ==
    ASSUME NEW ts, NEW ds, InOrder(ts, ds), NEW name, NEW m, IsNearest(ds, name, m),
           NEW h, IsHome(ts, name, h)
    PROVE  h \in m..Len(ts) /\ \A k \in (m + 1)..h : name \in DOMAIN ts[k].store /\ name \notin DOMAIN ds[k]
<1>1. Len(ts) \in Nat /\ Len(ds) = Len(ts) /\ m \in 1..Len(ts) /\ m \in Nat /\ h \in 0..Len(ts)
    BY DEF InOrder, Typed, IsNearest, IsHome
<1>2. name \in DOMAIN ts[m].store
    BY <1>1 DEF InOrder, LevelInOrder, DeclaredStored, IsNearest
<1>3. ~(h < m)
    BY <1>1, <1>2 DEF IsHome
<1>4. h \in 1..Len(ts) /\ name \in DOMAIN ts[h].store
    BY <1>1, <1>3 DEF IsHome
<1>5. PICK r \in 1..h : /\ name \in DOMAIN ds[r]
                        /\ \A k \in (r + 1)..h : name \in DOMAIN ts[k].store /\ name \notin DOMAIN ds[k]
    BY <1>4, StoredIsDeclared
<1>6. r = m
    <2>1. r \in Nat /\ r \in 1..Len(ts) /\ ~(r < m) /\ ~(m < r)
        <3>1. r < m => m \in (r + 1)..h
            BY <1>1, <1>3, <1>5
        <3>2. m < r => r \in (m + 1)..Len(ds)
            BY <1>1, <1>5
        <3> QED BY <3>1, <3>2, <1>1, <1>5 DEF IsNearest
    <2> QED BY <2>1, <1>1
<1> QED BY <1>1, <1>3, <1>5, <1>6

LEMMA FoundIsNearest ==
    ASSUME ScopesInOrder, NEW name \in AllNames
    PROVE  IF Declaring(name) = {} THEN ResolvedSymbol(tabs, name) = NoSymbol
           ELSE \/ OuterFunctionName(name)
                \/ Origin(ResolveTables(tabs, name), ResolvedSymbol(tabs, name))
                        = <<Nearest(name), declared[Nearest(name)][name]>>
<1> DEFINE L == Len(tabs)
           h == Home(tabs, name)
           m == Nearest(name)
           us == ResolveTables(tabs, name)
           sym == ResolvedSymbol(tabs, name)
<1>1. /\ InOrder(tabs, declared) /\ tabs \in Seq(Tables) /\ L \in Nat \ {0} /\ Len(declared) = L
      /\ \A l \in 1..L : LevelInOrder(tabs, declared, l)
    BY DEF ScopesInOrder, InOrder, Typed
<1>2. IsHome(tabs, name, h) /\ h \in 0..L
    BY <1>1, HomeOf DEF IsHome
<1>3. CASE Declaring(name) = {}
    <2>1. h = 0
        <3> SUFFICES ASSUME h # 0 PROVE FALSE
            OBVIOUS
        <3>1. h \in 1..L /\ name \in DOMAIN tabs[h].store
            BY <1>1, <1>2 DEF IsHome
        <3> HIDE DEF h
        <3>2. PICK r \in 1..h : name \in DOMAIN declared[r]
            BY <3>1, <1>1, StoredIsDeclared
        <3>3. r \in 1..Len(declared)
            BY <3>1, <1>1
        <3> QED BY <3>2, <3>3, <1>3 DEF Declaring
    <2> QED BY <1>3, <2>1 DEF ResolvedSymbol
<1>4. CASE Declaring(name) # {}
    <2>1. IsNearest(declared, name, m) /\ m \in 1..L
        BY <1>1, <1>4, NearestIs DEF IsNearest
    <2>2. /\ h \in m..L /\ h \in 1..L /\ h # 0
          /\ \A k \in (m + 1)..h : name \in DOMAIN tabs[k].store /\ name \notin DOMAIN declared[k]
        <3> HIDE DEF h, m
        <3>1. h \in m..L /\ \A k \in (m + 1)..h : name \in DOMAIN tabs[k].store /\ name \notin DOMAIN declared[k]
            BY <1>1, <1>2, <2>1, HomeAndNearest
        <3> QED BY <3>1, <2>1, <1>1
    <2>3. name \in DOMAIN tabs[h].store
        BY <1>2, <2>2 DEF IsHome
    <2>4. CASE Captures(tabs, name)
        <3>1. CapturedFrom(tabs, us, name, h) /\ InOrder(us, declared) /\ h \in 1..(L - 1)
            BY <1>1, <2>4, CaptureTables, CaptureInOrder DEF LevelInOrder, Captures
        <3>2. sym = us[L].store[name]
            <4>1. sym = Symbol(name, "FREE", Len(tabs[L].free))
                BY <1>1, <2>2, <2>4, <3>1 DEF ResolvedSymbol, CapturedAt
            <4>2. L \in (h + 1)..L
                BY <1>1, <3>1
            <4> HIDE DEF us, sym, h
            <4> QED BY <4>1, <4>2, <3>1 DEF CapturedFrom
        <3> HIDE DEF us, sym, h, m
        <3>3. Len(us) = L
            BY <3>1 DEF CapturedFrom
        <3>4. ASSUME NEW k \in (m + 1)..L PROVE name \in DOMAIN us[k].store /\ name \notin DOMAIN declared[k]
            <4>1. CASE k \in (m + 1)..h
                <5>1. k \in 1..h
                    BY <4>1, <2>1, <2>2
                <5> QED BY <4>1, <5>1, <2>2, <3>1 DEF CapturedFrom
            <4>2. CASE k \in (h + 1)..L
                BY <4>2, <2>1, <3>1, <1>1 DEF CapturedFrom, IsNearest
            <4> QED BY <4>1, <4>2, <2>1, <2>2
        <3>5. name \in DOMAIN declared[m] /\ m \in 1..Len(us)
            BY <2>1, <3>3 DEF IsNearest
        <3>6. Origin(us, us[Len(us)].store[name]) = <<m, declared[m][name]>>
            BY <3>1, <3>3, <3>4, <3>5, OriginRooted
        <3> QED BY <1>4, <3>2, <3>3, <3>6 DEF us, sym, m
    <2>5. CASE ~Captures(tabs, name)
        <3>1. us = tabs /\ sym = tabs[h].store[name]
            BY <2>2, <2>5 DEF ResolveTables, ResolvedSymbol
        <3> HIDE DEF us, sym
        <3>2. CASE h = L
            <4> HIDE DEF h, m
            <4>1. name \in DOMAIN declared[m]
                BY <2>1 DEF IsNearest
            <4>2. Origin(tabs, tabs[L].store[name]) = <<m, declared[m][name]>>
                BY <4>1, <1>1, <2>1, <2>2, <3>2, OriginRooted
            <4> QED BY <1>4, <3>1, <3>2, <4>2 DEF us, sym, m
        <3>3. CASE h # L
            <4>1. h \in 1..(L - 1) /\ tabs[h].store[name].scope \notin {"LOCAL", "FREE"}
                BY <2>2, <2>5, <3>3, <1>1 DEF Captures
            <4> HIDE DEF h
            <4>2. name \in DOMAIN declared[h]
                BY <4>1, <1>1, <2>2, <2>3 DEF LevelInOrder, Captured
            <4>3. h = m
                <5>1. m \in Nat /\ h \in Nat /\ ~(m < h)
                    BY <4>2, <2>1, <2>2, <1>1
                <5> QED BY <5>1, <2>2
            <4> HIDE DEF m
            <4>4. tabs[m].store[name] = declared[m][name] /\ Own(tabs, m, tabs[m].store[name])
                BY <4>2, <4>3, <1>1, <2>2 DEF LevelInOrder, DeclaredStored
            <4>5. CASE declared[m][name].scope = "FUNCTION"
                BY <4>1, <4>3, <4>5, <1>1, <1>4 DEF OuterFunctionName, m
            <4>6. CASE declared[m][name].scope # "FUNCTION"
                <5>1. m = 1 /\ declared[m][name].scope \in {"GLOBAL", "BUILTIN"}
                    BY <4>1, <4>3, <4>4, <4>6 DEF Own
                <5>2. Origin(tabs, declared[m][name]) = <<m, declared[m][name]>>
                    BY <5>1, <1>1, OriginOfGlobal
                <5> QED BY <1>4, <3>1, <4>3, <4>4, <5>2 DEF us, sym, m
            <4> QED BY <4>5, <4>6
        <3> QED BY <3>2, <3>3
    <2> QED BY <2>4, <2>5
<1> QED BY <1>3, <1>4

\* Wherever functions nest and names shadow, capture and declare again, a use gets the
\* variable of the nearest enclosing function that declares its name, or nothing when
\* none does; only the name of an enclosing function is resolved otherwise
\* (symbol_table.go, Resolve).
THEOREM NearestFound == Spec => []ResolvesToNearest
<1>1. ScopesInOrder => ResolvesToNearest
    BY FoundIsNearest DEF ResolvesToNearest, AllNames
<1> QED BY <1>1, ScopesStayInOrder, PTL

-----------------------------------------------------------------------------
(***************************************************************************)
(* Resolve in closed form is the recursion of the code.                     *)
(***************************************************************************)
Closed(ts, name) == [tabs |-> ResolveTables(ts, name), sym |-> ResolvedSymbol(ts, name)]

NamesKept(ts) == \A l \in 1..Len(ts) : \A n \in DOMAIN ts[l].store : ts[l].store[n].name = n

LEMMA HomeOfAppend ==
    ASSUME NEW ps \in Seq(Tables), NEW t \in Tables, NEW name
    PROVE  Home(Append(ps, t), name) =
                IF name \in DOMAIN t.store THEN Len(ps) + 1 ELSE Home(ps, name)
<1> DEFINE qs == Append(ps, t)
           h == Home(qs, name)
           g == Home(ps, name)
<1>1. /\ Len(ps) \in Nat /\ qs \in Seq(Tables) /\ Len(qs) = Len(ps) + 1 /\ qs[Len(ps) + 1] = t
      /\ \A k \in 1..Len(ps) : qs[k] = ps[k]
    OBVIOUS
<1>2. IsHome(qs, name, h) /\ IsHome(ps, name, g)
    BY <1>1, HomeOf
<1> HIDE DEF qs, h, g
<1>3. CASE name \in DOMAIN t.store
    <2>1. IsHome(qs, name, Len(ps) + 1)
        BY <1>1, <1>3 DEF IsHome
    <2>2. h = Len(ps) + 1
        BY <2>1, <1>1, <1>2, OneHome
    <2> QED BY <1>3, <2>2 DEF h, qs
<1>4. CASE name \notin DOMAIN t.store
    <2>1. IsHome(qs, name, g)
        BY <1>1, <1>2, <1>4 DEF IsHome
    <2>2. h = g
        BY <2>1, <1>1, <1>2, OneHome
    <2> QED BY <1>4, <2>2 DEF h, g, qs
<1> QED BY <1>3, <1>4

\* A level that has the name.
LEMMA ResolveHere ==
    ASSUME NEW ps \in Seq(Tables), NEW t \in Tables, NEW name, name \in DOMAIN t.store
    PROVE  Closed(Append(ps, t), name) = [tabs |-> Append(ps, t), sym |-> t.store[name]]
<1>1. /\ Home(Append(ps, t), name) = Len(ps) + 1 /\ Len(ps) \in Nat
      /\ Len(Append(ps, t)) = Len(ps) + 1 /\ Append(ps, t)[Len(ps) + 1] = t
    BY HomeOfAppend
<1>2. ~Captures(Append(ps, t), name)
    BY <1>1 DEF Captures
<1> QED BY <1>1, <1>2 DEF Closed, ResolveTables, ResolvedSymbol

\* One that has not: what the enclosing levels give, captured when it is a local or a
\* free variable there.
LEMMA ResolveOutside ==
    ASSUME NEW ps \in Seq(Tables), NEW t \in Tables, NEW name \in AllNames,
           name \notin DOMAIN t.store, NamesKept(Append(ps, t))
    PROVE  LET r == Closed(ps, name)
               new == DefineFree(t, r.sym)
           IN  Closed(Append(ps, t), name) =
                    IF r.sym.scope \in {"LOCAL", "FREE"}
                    THEN [tabs |-> Append(r.tabs, new), sym |-> new.store[name]]
                    ELSE [tabs |-> Append(r.tabs, t), sym |-> r.sym]
<1> DEFINE n == Len(ps)
           qs == Append(ps, t)
           g == Home(ps, name)
           us == ResolveTables(ps, name)
           vs == ResolveTables(qs, name)
           sym == ResolvedSymbol(ps, name)
           new == DefineFree(t, sym)
<1>1. /\ n \in Nat /\ qs \in Seq(Tables) /\ Len(qs) = n + 1 /\ qs[n + 1] = t
      /\ \A k \in 1..n : qs[k] = ps[k]
    OBVIOUS
<1>2. Home(qs, name) = g /\ IsHome(ps, name, g) /\ g \in 0..n
    BY HomeOfAppend, HomeOf DEF IsHome
<1> HIDE DEF qs
<1>3. NamesKept(ps) /\ NamesKept(qs)
    BY <1>1 DEF NamesKept, qs
<1>4. CASE Captures(qs, name)
    <2>1. /\ g \in 1..n /\ ps[g].store[name].scope \in {"LOCAL", "FREE"}
          /\ Captures(ps, name) <=> g # n
        BY <1>1, <1>2, <1>4 DEF Captures
    <2>2. \A k \in 1..n : CapturedAt(qs, name, k) = CapturedAt(ps, name, k)
        BY <1>1, <1>2 DEF CapturedAt
    <2>3. sym = CapturedAt(ps, name, n) /\ sym.scope \in {"LOCAL", "FREE"}
        BY <2>1, <1>2 DEF ResolvedSymbol, CapturedAt, Symbol
    <2>4. vs = [k \in 1..(n + 1) |-> IF k <= g THEN qs[k] ELSE DefineFree(qs[k], CapturedAt(qs, name, k - 1))]
        BY <1>1, <1>2, <1>4 DEF ResolveTables
    <2>5. us = [k \in 1..n |-> IF k <= g THEN ps[k] ELSE DefineFree(ps[k], CapturedAt(ps, name, k - 1))]
        <3>1. CASE Captures(ps, name)
            BY <3>1 DEF ResolveTables
        <3>2. CASE ~Captures(ps, name)
            <4>1. us = ps /\ g = n
                BY <3>2, <2>1 DEF ResolveTables
            <4>2. ps = [k \in 1..n |-> ps[k]]
                OBVIOUS
            <4>3. [k \in 1..n |-> IF k <= g THEN ps[k] ELSE DefineFree(ps[k], CapturedAt(ps, name, k - 1))]
                    = [k \in 1..n |-> ps[k]]
                BY <4>1
            <4> QED BY <4>1, <4>2, <4>3
        <3> QED BY <3>1, <3>2
    <2>6. CapturedFrom(qs, vs, name, g)
        BY <1>1, <1>2, <1>3, <1>4, CaptureTables DEF NamesKept
    <2> HIDE DEF us, vs
    <2>7. vs \in Seq(Tables) /\ Len(vs) = n + 1
        BY <2>6, <1>1 DEF CapturedFrom
    <2>8. vs[n + 1] = new
        <3>1. vs[n + 1] = DefineFree(t, CapturedAt(qs, name, n))
            BY <2>1, <2>4, <1>1
        <3> QED BY <3>1, <2>1, <2>2, <2>3
    <2>9. \A k \in 1..n : us[k] = vs[k]
        <3> TAKE k \in 1..n
        <3>1. CASE k <= g
            BY <3>1, <1>1, <2>4, <2>5
        <3>2. CASE ~(k <= g)
            <4>1. k - 1 \in 1..n
                BY <3>2, <2>1
            <4> QED BY <3>2, <4>1, <1>1, <2>2, <2>4, <2>5
        <3> QED BY <3>1, <3>2
    <2>10. us \in Seq(Tables) /\ Len(us) = n
        <3>1. \A k \in 1..n : us[k] \in Tables
            BY <2>7, <2>9
        <3> QED BY <3>1, <2>5, <1>1
    <2>11. new \in Tables
        BY <2>7, <2>8, <1>1
    <2> HIDE DEF new
    <2>12. /\ Append(us, new) \in Seq(Tables) /\ Len(Append(us, new)) = n + 1
           /\ \A k \in 1..(n + 1) : Append(us, new)[k] = vs[k]
        BY <2>8, <2>9, <2>10, <2>11, <1>1
    <2>13. Append(us, new) = vs
        BY <2>7, <2>12, SeqEqual
    <2>14. ResolvedSymbol(qs, name) = Symbol(name, "FREE", Len(t.free))
        BY <2>1, <1>1, <1>2, <1>4 DEF ResolvedSymbol, CapturedAt
    <2>15. new.store[name] = Symbol(name, "FREE", Len(t.free))
        BY <2>1, <2>6, <2>8, <1>1 DEF CapturedFrom
    <2> QED BY <2>3, <2>13, <2>14, <2>15 DEF Closed, us, vs, qs, new
<1>5. CASE ~Captures(qs, name)
    <2>1. g = 0 \/ (g \in 1..n /\ ps[g].store[name].scope \notin {"LOCAL", "FREE"})
        BY <1>1, <1>2, <1>5 DEF Captures
    <2>2. ~Captures(ps, name)
        BY <2>1 DEF Captures
    <2>3. sym = IF g = 0 THEN NoSymbol ELSE ps[g].store[name]
        BY <2>2 DEF ResolvedSymbol
    <2>4. ResolvedSymbol(qs, name) = sym
        BY <2>1, <2>3, <1>1, <1>2, <1>5 DEF ResolvedSymbol
    <2>5. sym.scope \notin {"LOCAL", "FREE"}
        BY <2>1, <2>3 DEF NoSymbol, Symbol
    <2>6. us = ps /\ vs = qs
        BY <2>2, <1>5 DEF ResolveTables
    <2> QED BY <2>4, <2>5, <2>6 DEF Closed, qs
<1> QED BY <1>4, <1>5

LEMMA RecursionAgrees ==
    ASSUME NEW ts \in Seq(Tables), Len(ts) >= 1, NamesKept(ts), NEW name \in AllNames
    PROVE  GoResolve(ts, name) = Closed(ts, name)
<1> DEFINE L == Len(ts)
           p(l) == SubSeq(ts, 1, l)
           Level(r, l) ==
                IF name \in DOMAIN ts[l].store
                THEN [tabs |-> SubSeq(ts, 1, l), sym |-> ts[l].store[name]]
                ELSE IF l = 1 THEN [tabs |-> SubSeq(ts, 1, 1), sym |-> NoSymbol]
                ELSE IF r.sym.scope \in {"LOCAL", "FREE"}
                     THEN LET new == DefineFree(ts[l], r.sym)
                          IN  [tabs |-> Append(r.tabs, new), sym |-> new.store[name]]
                     ELSE [tabs |-> Append(r.tabs, ts[l]), sym |-> r.sym]
           Body(f) == [l \in 1..L |-> Level(f[l - 1], l)]
           at == CHOOSE f : f = Body(f)
           c == [l \in 1..L |-> Closed(p(l), name)]
<1>1. L \in Nat \ {0} /\ \A l \in 1..L : ts[l] \in Tables
    OBVIOUS
<1>2. ASSUME NEW l \in 0..L
      PROVE  p(l) \in Seq(Tables) /\ Len(p(l)) = l /\ \A k \in 1..l : p(l)[k] = ts[k]
    <2>1. \A k \in 1..l : k \in 1..L /\ ts[k] \in Tables
        BY <1>1
    <2>2. l \in Nat
        BY <1>1
    <2> QED BY <2>1, <2>2, SubSeqProperties
<1> HIDE DEF p
<1>3. ASSUME NEW l \in 1..L PROVE p(l) = Append(p(l - 1), ts[l]) /\ l - 1 \in 0..L
    <2> DEFINE q == Append(p(l - 1), ts[l])
    <2>1. l \in 0..L /\ l - 1 \in 0..L /\ l \in Nat
        BY <1>1
    <2>2. p(l - 1) \in Seq(Tables) /\ Len(p(l - 1)) = l - 1
        BY <2>1, <1>2
    <2>3. q \in Seq(Tables) /\ Len(q) = l /\ \A k \in 1..l : q[k] = ts[k]
        <3>1. q \in Seq(Tables) /\ Len(q) = l /\ q[l] = ts[l] /\ \A k \in 1..(l - 1) : q[k] = p(l - 1)[k]
            BY <2>1, <2>2, <1>1
        <3>2. \A k \in 1..(l - 1) : p(l - 1)[k] = ts[k]
            BY <2>1, <1>2
        <3> HIDE DEF q
        <3> QED BY <2>1, <3>1, <3>2
    <2>4. p(l) \in Seq(Tables) /\ Len(p(l)) = l /\ \A k \in 1..l : p(l)[k] = ts[k]
        BY <2>1, <1>2
    <2> HIDE DEF q
    <2>5. p(l) = q
        BY <2>3, <2>4, SeqEqual
    <2> QED BY <2>1, <2>5 DEF q
<1>4. ASSUME NEW l \in 1..L PROVE Closed(p(l), name) = Level(Closed(p(l - 1), name), l)
    <2>1. /\ p(l) = Append(p(l - 1), ts[l]) /\ p(l - 1) \in Seq(Tables) /\ ts[l] \in Tables
        BY <1>1, <1>2, <1>3
    <2>2. CASE name \in DOMAIN ts[l].store
        <3>1. Closed(p(l), name) = [tabs |-> p(l), sym |-> ts[l].store[name]]
            BY <2>1, <2>2, ResolveHere
        <3> QED BY <2>2, <3>1 DEF p
    <2>3. CASE name \notin DOMAIN ts[l].store
        <3> DEFINE r == Closed(p(l - 1), name)
                   new == DefineFree(ts[l], r.sym)
        <3>1. NamesKept(p(l))
            BY <1>1, <1>2 DEF NamesKept
        <3>2. Closed(p(l), name) = IF r.sym.scope \in {"LOCAL", "FREE"}
                                   THEN [tabs |-> Append(r.tabs, new), sym |-> new.store[name]]
                                   ELSE [tabs |-> Append(r.tabs, ts[l]), sym |-> r.sym]
            BY <2>1, <2>3, <3>1, ResolveOutside
        <3>3. CASE l = 1
            <4>1. p(0) \in Seq(Tables) /\ Len(p(0)) = 0 /\ l - 1 = 0
                BY <3>3, <1>1, <1>2
            <4>2. Home(p(0), name) = 0
                BY <4>1, HomeOf DEF IsHome
            <4>3. r.tabs = p(l - 1) /\ r.sym = NoSymbol
                BY <4>1, <4>2 DEF Closed, ResolveTables, ResolvedSymbol, Captures
            <4>4. Closed(p(l), name) = [tabs |-> p(1), sym |-> NoSymbol]
                <5>1. r.sym.scope \notin {"LOCAL", "FREE"}
                    BY <4>3 DEF NoSymbol, Symbol
                <5> HIDE DEF r
                <5>2. Closed(p(l), name) = [tabs |-> Append(r.tabs, ts[l]), sym |-> r.sym]
                    BY <3>2, <5>1
                <5> QED BY <2>1, <3>3, <4>3, <5>2
            <4> QED BY <2>3, <3>3, <4>4 DEF p
        <3>4. CASE l # 1
            BY <2>3, <3>2, <3>4
        <3> QED BY <3>3, <3>4
    <2> QED BY <2>2, <2>3
<1> HIDE DEF Level
<1>5. \A l \in 1..L : c[l] = Level(c[l - 1], l)
    <2> TAKE l \in 1..L
    <2>1. CASE l = 1
        <3>1. Level(c[0], 1) = Level(Closed(p(0), name), 1)
            BY DEF Level
        <3> QED BY <2>1, <3>1, <1>4
    <2>2. CASE l # 1
        <3>1. l - 1 \in 1..L
            BY <2>2, <1>1
        <3> QED BY <3>1, <1>4
    <2> QED BY <2>1, <2>2
<1>6. c = Body(c)
    <2> HIDE DEF p
    <2>1. \A l \in 1..L : c[l] = Body(c)[l]
        BY <1>5
    <2>2. c = [l \in 1..L |-> c[l]] /\ Body(c) = [l \in 1..L |-> Body(c)[l]]
        OBVIOUS
    <2> HIDE DEF c, Body
    <2> QED BY <2>1, <2>2
<1>7. at = Body(at)
    <2> HIDE DEF Body, c
    <2> QED BY <1>6
<1>8. \A l \in 1..L : at[l] = Level(at[l - 1], l)
    <2> HIDE DEF at
    <2> QED BY <1>7
<1> HIDE DEF at, c
<1>9. at[1] = c[1]
    <2>1. Level(at[0], 1) = Level(c[0], 1)
        BY DEF Level
    <2>2. 1 \in 1..L /\ 1 - 1 = 0
        BY <1>1
    <2> QED BY <2>1, <2>2, <1>5, <1>8
<1>10. at[L] = c[L]
    <2> DEFINE f == [k \in 0..(L - 1) |-> at[k + 1]]
               g == [k \in 0..(L - 1) |-> c[k + 1]]
    <2>1. f[0] = g[0]
        BY <1>1, <1>9
    <2>2. ASSUME NEW k \in 1..(L - 1), f[k - 1] = g[k - 1] PROVE f[k] = g[k]
        <3>1. k \in 0..(L - 1) /\ k - 1 \in 0..(L - 1) /\ k + 1 \in 1..L /\ (k + 1) - 1 = k /\ (k - 1) + 1 = k
            BY <1>1
        <3>2. at[k] = c[k]
            BY <2>2, <3>1
        <3>3. at[k + 1] = Level(at[k], k + 1) /\ c[k + 1] = Level(c[k], k + 1)
            BY <3>1, <1>5, <1>8
        <3> QED BY <3>1, <3>2, <3>3
    <2>3. StepAlike(f, g, L - 1)
        BY <2>1, <2>2 DEF StepAlike
    <2>4. L - 1 \in Nat /\ L - 1 \in 0..(L - 1) /\ (L - 1) + 1 = L
        BY <1>1
    <2>5. f[L - 1] = at[L] /\ g[L - 1] = c[L]
        BY <2>4
    <2> HIDE DEF f, g
    <2>6. AlikeUpTo(f, g, L - 1)
        BY <2>3, <2>4, SameRecursion
    <2> QED BY <2>4, <2>5, <2>6 DEF AlikeUpTo
<1>11. GoResolve(ts, name) = at[L]
    BY DEF GoResolve, at, Level
<1>12. c[L] = Closed(p(L), name)
    BY <1>1 DEF c
<1>13. p(L) = ts
    BY <1>1, <1>2, SeqEqual
<1> QED BY <1>10, <1>11, <1>12, <1>13

\* What the compiler's model uses for Resolve, a closed form, is what the recursion of
\* the code over the enclosing tables gives, the tables it changes on its way included
\* (symbol_table.go, Resolve).
THEOREM ClosedFormIsResolve == Spec => []ResolveAgrees
<1>1. ScopesInOrder => ResolveAgrees
    <2> SUFFICES ASSUME ScopesInOrder, NEW name \in AllNames
                 PROVE  GoResolve(tabs, name) = Closed(tabs, name)
        BY DEF ResolveAgrees, AllNames, Closed
    <2>1. tabs \in Seq(Tables) /\ Len(tabs) >= 1 /\ NamesKept(tabs)
        BY DEF ScopesInOrder, InOrder, Typed, LevelInOrder, NamesKept
    <2> QED BY <2>1, RecursionAgrees
<1> QED BY <1>1, ScopesStayInOrder, PTL

-----------------------------------------------------------------------------
(***************************************************************************)
(* The numbers a function gives stay distinct.                              *)
(***************************************************************************)
\* A let takes the next slot.
LEMMA LetNumbers ==
    ASSUME NEW ts, NEW ds, InOrder(ts, ds), NEW name \in Names,
           NEW l \in 1..Len(ts), NumbersDistinct(ts[l])
    PROVE  NumbersDistinct(LetTables(ts, name)[l]) /\ Len(LetTables(ts, name)) = Len(ts)
<1> DEFINE t == ts[Len(ts)]
           sym == DefinedSymbol(ts, name)
           p == PutSymbol(t, sym)
           u == [p EXCEPT !.num = p.num + 1]
<1>1. ts \in Seq(Tables) /\ Len(ts) \in 1..Len(ts) /\ t \in Tables
    BY DEF InOrder, Typed
<1>2. t.num \in Nat /\ Len(t.free) \in Nat
    BY <1>1, TableParts
<1>3. CASE ~Redefines(ts, name)
    BY <1>3 DEF LetTables
<1>4. CASE Redefines(ts, name)
    <2>1. /\ sym \in SymbolSet /\ sym.name = name /\ sym.index = t.num
          /\ sym.scope \in {"GLOBAL", "LOCAL"}
        BY <1>2 DEF DefinedSymbol, TopTable, Symbol, SymbolSet, Scopes, AllNames
    <2>2. LetTables(ts, name) = [ts EXCEPT ![Len(ts)] = u]
        BY <1>4 DEF LetTables, Define, SetTop, TopTable
    <2> HIDE DEF sym
    <2>3. /\ p \in Tables /\ p.num = t.num /\ p.free = t.free
          /\ DOMAIN p.store = DOMAIN t.store \cup {name} /\ p.store[name] = sym
          /\ \A n \in DOMAIN t.store : n # name => p.store[n] = t.store[n]
        BY <1>1, <2>1, PutSymbolTable
    <2> HIDE DEF p
    <2>4. u \in Tables /\ u.num = t.num + 1 /\ u.free = t.free /\ u.store = p.store
        <3>1. p.num + 1 \in Nat
            BY <1>2, <2>3
        <3> QED BY <2>3, <3>1 DEF Tables
    <2> HIDE DEF u
    <2>5. CASE l = Len(ts)
        <3>1. NumbersDistinct(u)
            <4>1. /\ u.store[name].index = Given(t, u.store[name].scope)
                  /\ Given(t, u.store[name].scope) < Given(u, u.store[name].scope)
                BY <1>2, <2>1, <2>3, <2>4 DEF Given
            <4>2. name \in AllNames /\ u.num >= t.num /\ Len(u.free) >= Len(t.free)
                BY <1>2, <2>4 DEF AllNames
            <4> QED BY <1>1, <2>3, <2>4, <2>5, <4>1, <4>2, NextNumber
        <3> QED BY <1>1, <2>2, <2>5, <3>1
    <2>6. CASE l # Len(ts)
        BY <1>1, <2>2, <2>6
    <2> QED BY <1>1, <2>2, <2>5, <2>6
<1> QED BY <1>3, <1>4

\* A capture takes the next free variable of every function it passes.
LEMMA UseNumbers ==
    ASSUME NEW ts, NEW ds, InOrder(ts, ds), NEW name \in AllNames,
           NEW l \in 1..Len(ts), NumbersDistinct(ts[l])
    PROVE  NumbersDistinct(ResolveTables(ts, name)[l]) /\ Len(ResolveTables(ts, name)) = Len(ts)
<1> DEFINE us == ResolveTables(ts, name)
           h == Home(ts, name)
<1>1. ts \in Seq(Tables) /\ Len(ts) \in Nat /\ ts[l] \in Tables /\ \A k \in 1..Len(ts) : LevelInOrder(ts, ds, k)
    BY DEF InOrder, Typed
<1>2. CASE ~Captures(ts, name)
    BY <1>2 DEF ResolveTables
<1>3. CASE Captures(ts, name)
    <2>1. CapturedFrom(ts, us, name, h) /\ h \in Nat
        BY <1>1, <1>3, CaptureTables DEF LevelInOrder, Captures
    <2> HIDE DEF h, us
    <2>2. us \in Seq(Tables) /\ Len(us) = Len(ts) /\ us[l] \in Tables
        BY <2>1 DEF CapturedFrom
    <2> SUFFICES NumbersDistinct(us[l])
        BY <2>2 DEF us
    <2>3. CASE l \in 1..h
        BY <2>1, <2>3 DEF CapturedFrom
    <2>4. CASE l \in (h + 1)..Len(ts)
        <3>1. /\ us[l].num = ts[l].num /\ DOMAIN us[l].store = DOMAIN ts[l].store \cup {name}
              /\ us[l].store[name] = Symbol(name, "FREE", Len(ts[l].free))
              /\ \A n \in DOMAIN ts[l].store : us[l].store[n] = ts[l].store[n]
              /\ us[l].free = Append(ts[l].free, us[l - 1].store[name])
            BY <2>1, <2>4 DEF CapturedFrom
        <3>2. ts[l].num \in Nat /\ ts[l].free \in Seq(SymbolSet) /\ us[l].free \in Seq(SymbolSet)
            BY <1>1, <2>2, TableParts
        <3>3. Len(ts[l].free) \in Nat /\ Len(us[l].free) = Len(ts[l].free) + 1
            BY <3>1, <3>2
        <3>4. /\ us[l].store[name].index = Given(ts[l], us[l].store[name].scope)
              /\ Given(ts[l], us[l].store[name].scope) < Given(us[l], us[l].store[name].scope)
            BY <3>1, <3>3 DEF Given, Symbol
        <3>5. us[l].num >= ts[l].num /\ Len(us[l].free) >= Len(ts[l].free)
            BY <3>1, <3>2, <3>3
        <3>6. \A n \in DOMAIN ts[l].store : n # name => us[l].store[n] = ts[l].store[n]
            BY <3>1
        <3> QED BY <1>1, <2>2, <3>1, <3>4, <3>5, <3>6, NextNumber
    <2> QED BY <1>1, <2>1, <2>3, <2>4
<1> QED BY <1>2, <1>3

LEMMA NextNumbers ==
    ASSUME ScopesInOrder, SlotsDistinct, [Next]_vars
    PROVE  SlotsDistinct'
<1>1. /\ InOrder(tabs, declared) /\ tabs \in Seq(Tables) /\ Len(tabs) \in Nat \ {0}
      /\ \A l \in 1..Len(tabs) : NumbersDistinct(tabs[l])
    BY DEF ScopesInOrder, InOrder, Typed, SlotsDistinct
<1>2. ASSUME NEW name \in Names \cup {NoName}, NEW b \in 0..MaxParams, NEW params \in [1..b -> Names],
             EnterFunction(name, params)
      PROVE  SlotsDistinct'
    <2>1. Len(tabs) >= 1 /\ b \in Nat
        BY <1>1, ScopingAssumption
    <2>2. PICK u \in Fresh : FunctionTables(tabs, name, params) = Append(tabs, u)
        BY <1>1, <2>1, FunctionTablesFresh
    <2>3. tabs' = Append(tabs, u) /\ NumbersDistinct(u) /\ u \in Tables
        BY <1>2, <2>2 DEF EnterFunction, Fresh
    <2>4. ASSUME NEW l \in 1..Len(tabs') PROVE NumbersDistinct(tabs'[l])
        <3>1. (l \in 1..Len(tabs) /\ tabs'[l] = tabs[l]) \/ tabs'[l] = u
            BY <1>1, <2>3
        <3> QED BY <3>1, <1>1, <2>3
    <2> QED BY <2>4 DEF SlotsDistinct
<1>3. CASE LeaveFunction
    <2>1. \A l \in 1..Len(tabs') : l \in 1..Len(tabs) /\ tabs'[l] = tabs[l]
        BY <1>1, <1>3 DEF LeaveFunction, Front
    <2> QED BY <1>1, <2>1 DEF SlotsDistinct
<1>4. ASSUME NEW name \in Names, Let(name) PROVE SlotsDistinct'
    BY <1>1, <1>4, LetNumbers DEF Let, SlotsDistinct
<1>5. ASSUME NEW name \in AllNames, Use(name) PROVE SlotsDistinct'
    BY <1>1, <1>5, UseNumbers DEF Use, SlotsDistinct
<1>6. CASE UNCHANGED vars
    BY <1>6 DEF vars, SlotsDistinct
<1> QED BY <1>2, <1>3, <1>4, <1>5, <1>6 DEF Next, AllNames

\* No two names of a function share a number, however deep it is nested and whatever its
\* lets redefine: a variable is never overwritten through the name of another, and the
\* operands of the local and free instructions stay below what a call and a closure make
\* room for (symbol_table.go, Define and defineFree).
THEOREM NumbersStayDistinct == Spec => []SlotsDistinct
<1>1. Init => SlotsDistinct
    <2> SUFFICES ASSUME Init PROVE SlotsDistinct
        OBVIOUS
    <2> DEFINE sym == Symbol(Builtin, "BUILTIN", 0)
    <2>1. sym \in SymbolSet /\ sym.name = Builtin /\ sym.scope = "BUILTIN" /\ NewTable \in Tables
        BY NewTableFresh DEF Symbol, SymbolSet, Scopes, AllNames, Fresh
    <2>2. tabs = <<PutSymbol(NewTable, sym)>>
        BY DEF Init, DefineBuiltin
    <2> HIDE DEF sym
    <2>3. /\ DOMAIN PutSymbol(NewTable, sym).store = {Builtin}
          /\ PutSymbol(NewTable, sym).store[Builtin] = sym
        BY <2>1, PutSymbolTable DEF NewTable
    <2>4. Len(tabs) = 1 /\ tabs[1] = PutSymbol(NewTable, sym)
        BY <2>2
    <2> QED BY <2>1, <2>3, <2>4 DEF SlotsDistinct, NumbersDistinct, Numbered
<1>2. ScopesInOrder /\ SlotsDistinct /\ [Next]_vars => SlotsDistinct'
    BY NextNumbers
<1> QED BY <1>1, <1>2, ScopesStayInOrder, PTL DEF Spec
=============================================================================
