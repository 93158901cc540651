------------------------------ MODULE Induction ------------------------------
(***************************************************************************)
(* Induction and recursion over the naturals, stated with sets in place of  *)
(* predicates and with functions in place of operators.                     *)
(***************************************************************************)
EXTENDS Integers, WellFoundedInduction, TLAPS

\* Every set of naturals that is not empty has a least element.
LEMMA LeastNatural ==
    ASSUME NEW S \in SUBSET Nat, S # {}
    PROVE  \E m \in S : \A n \in S : m <= n
<1> DEFINE R == OpToRel(<, Nat)
<1>1. IsWellFoundedOn(R, Nat)
    BY NatLessThanWellFounded
<1>2. \A x, y \in Nat : <<x, y>> \in R <=> x < y
    BY DEF OpToRel
<1> HIDE DEF R
<1>3. PICK m \in S : \A n \in S : ~(<<n, m>> \in R)
    BY <1>1, WFMin
<1>4. ASSUME NEW n \in S PROVE m <= n
    <2>1. n \in Nat /\ m \in Nat /\ ~(<<n, m>> \in R)
        BY <1>3
    <2>2. ~(n < m)
        BY <1>2, <2>1
    <2> QED BY <2>1, <2>2
<1> QED BY <1>4

\* One that is bounded has a greatest.
LEMMA GreatestNatural ==
    ASSUME NEW b \in Nat, NEW S \in SUBSET (0..b), S # {}
    PROVE  \E m \in S : \A n \in S : n <= m
<1> DEFINE U == {u \in Nat : \A n \in S : n <= u}
<1>1. b \in U
    OBVIOUS
<1>2. PICK m \in U : \A u \in U : m <= u
    BY <1>1, LeastNatural
<1>3. m \in S
    <2>1. CASE m = 0
        <3>1. \A n \in S : n \in 0..b /\ n <= 0
            BY <1>2, <2>1
        <3>2. PICK n \in S : TRUE
            OBVIOUS
        <3> QED BY <2>1, <3>1, <3>2
    <2>2. CASE m # 0
        <3>1. m - 1 \in Nat /\ m - 1 \notin U
            BY <1>2, <2>2
        <3>2. PICK n \in S : ~(n <= m - 1)
            BY <3>1
        <3>3. n \in 0..b /\ n <= m
            BY <1>2
        <3>4. n = m
            BY <3>2, <3>3
        <3> QED BY <3>4
    <2> QED BY <2>1, <2>2
<1> QED BY <1>2, <1>3

\* Induction: a set that holds 0 and the successors of what it holds.
LEMMA SetInduction ==
    ASSUME NEW S, 0 \in S, \A n \in Nat : n \in S => n + 1 \in S
    PROVE  \A n \in Nat : n \in S
<1> SUFFICES ASSUME Nat \ S # {} PROVE FALSE
    OBVIOUS
<1>1. PICK m \in Nat \ S : \A n \in Nat \ S : m <= n
    BY LeastNatural
<1>2. m # 0 /\ m - 1 \in Nat /\ m - 1 \in S
    BY <1>1
<1> QED BY <1>1, <1>2

\* A function on 0..b is given by its first value and its step.
Steps(T, b) == [T \X (1..b) -> T]
Recursive(f, T, b, c, D) ==
    f \in [0..b -> T] /\ f[0] = c /\ \A k \in 1..b : f[k] = D[<<f[k - 1], k>>]

LEMMA FiniteRecursion ==
    ASSUME NEW T, NEW b \in Nat, NEW c \in T, NEW D \in Steps(T, b)
    PROVE  \E f : Recursive(f, T, b, c, D)
<1> USE DEF Steps
<1> DEFINE Good(n, f) == f[0] = c /\ \A k \in 1..n : f[k] = D[<<f[k - 1], k>>]
           S == {n \in Nat : n <= b => \E f \in [0..n -> T] : Good(n, f)}
<1>1. 0 \in S
    <2>1. [k \in 0..0 |-> c] \in [0..0 -> T] /\ Good(0, [k \in 0..0 |-> c])
        OBVIOUS
    <2> QED BY <2>1
<1>2. ASSUME NEW n \in Nat, n \in S PROVE n + 1 \in S
    <2> SUFFICES ASSUME n + 1 <= b PROVE \E f \in [0..(n + 1) -> T] : Good(n + 1, f)
        OBVIOUS
    <2>1. PICK f \in [0..n -> T] : Good(n, f)
        BY <1>2
    <2> DEFINE g == [k \in 0..(n + 1) |-> IF k = n + 1 THEN D[<<f[n], n + 1>>] ELSE f[k]]
    <2>2. f[n] \in T /\ D[<<f[n], n + 1>>] \in T
        OBVIOUS
    <2>3. g \in [0..(n + 1) -> T]
        BY <2>2
    <2>4. g[0] = c
        BY <2>1
    <2>5. ASSUME NEW k \in 1..(n + 1) PROVE g[k] = D[<<g[k - 1], k>>]
        <3>1. CASE k = n + 1
            <4>1. k - 1 = n /\ n \in 0..(n + 1) /\ n # n + 1
                BY <3>1
            <4>2. g[k] = D[<<f[n], n + 1>>] /\ g[n] = f[n]
                BY <3>1, <4>1
            <4> QED BY <3>1, <4>1, <4>2
        <3>2. CASE k # n + 1
            <4>1. k \in 1..n /\ k - 1 \in 0..n
                BY <3>2
            <4>2. g[k] = f[k] /\ g[k - 1] = f[k - 1]
                BY <4>1
            <4> QED BY <2>1, <4>1, <4>2
        <3> QED BY <3>1, <3>2
    <2> QED BY <2>3, <2>4, <2>5
<1> HIDE DEF S
<1>3. b \in S
    BY <1>1, <1>2, SetInduction
<1>4. PICK f \in [0..b -> T] : Good(b, f)
    BY <1>3 DEF S
<1> QED BY <1>4 DEF Recursive

\* Two functions that begin alike and step alike are alike.
StepAlike(f, g, b) == f[0] = g[0] /\ \A k \in 1..b : f[k - 1] = g[k - 1] => f[k] = g[k]
AlikeUpTo(f, g, b) == \A k \in 0..b : f[k] = g[k]

LEMMA SameRecursion ==
    ASSUME NEW b \in Nat, NEW f, NEW g, StepAlike(f, g, b)
    PROVE  AlikeUpTo(f, g, b)
<1> USE DEF StepAlike
<1> DEFINE S == {k \in Nat : k <= b => f[k] = g[k]}
<1>1. 0 \in S
    OBVIOUS
<1>2. ASSUME NEW n \in Nat, n \in S PROVE n + 1 \in S
    <2> SUFFICES ASSUME n + 1 <= b PROVE f[n + 1] = g[n + 1]
        OBVIOUS
    <2>1. n + 1 \in 1..b /\ (n + 1) - 1 = n /\ f[n] = g[n]
        BY <1>2
    <2> QED BY <2>1
<1>3. \A k \in Nat : k \in S
    <2> HIDE DEF S
    <2> QED BY <1>1, <1>2, SetInduction
<1> QED BY <1>3 DEF AlikeUpTo
=============================================================================
