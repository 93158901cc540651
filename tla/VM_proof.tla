------------------------------- MODULE VM_proof -------------------------------
(***************************************************************************)
(* Type correctness of the virtual machine, for every program and every     *)
(* limit: Spec => []TypeOK.                                                 *)
(*                                                                         *)
(* TypeOK alone is not inductive.  A return pops the current frame, so it   *)
(* has to be known that the machine is not in the main program then: the    *)
(* code finds out by writing below the bottom of the stack (basePointer-1   *)
(* is -1, and Go panics).  The strengthening is that frame 0 has base 0 and *)
(* that a running machine has a frame.                                      *)
(***************************************************************************)
EXTENDS VM, SequenceTheorems, TLAPS

-----------------------------------------------------------------------------
(***************************************************************************)
(* What the operations on objects return: an object of the heap they were   *)
(* given, or a mark.                                                        *)
(***************************************************************************)
(***************************************************************************)
(* An object stays one when the heaps grow (no closure, array or hash is    *)
(* ever removed from its heap).                                             *)
(***************************************************************************)
LEMMA ValueMonotonic ==
    ASSUME NEW fc \in Nat, NEW nc \in Nat, NEW na \in Nat, NEW nh \in Nat,
           NEW mc \in Nat, NEW ma \in Nat, NEW mh \in Nat,
           nc <= mc, na <= ma, nh <= mh
    PROVE  Value(fc, nc, na, nh) \subseteq Value(fc, mc, ma, mh)
<1> SUFFICES ASSUME NEW v \in Value(fc, nc, na, nh)
             PROVE  v \in Value(fc, mc, ma, mh)
    OBVIOUS
<1>1. fc..nc \subseteq fc..mc /\ 1..na \subseteq 1..ma /\ 1..nh \subseteq 1..mh
    OBVIOUS
<1> QED BY <1>1, ZenonT(30) DEF Value

(***************************************************************************)
(* The objects the VM makes itself.                                         *)
(***************************************************************************)
LEMMA Literals ==
    ASSUME NEW fc \in Nat, NEW nc \in Nat, NEW na \in Nat, NEW nh \in Nat
    PROVE  /\ Nil \in Value(fc, nc, na, nh)
           /\ NullS \in Value(fc, nc, na, nh)
           /\ TrueS \in Value(fc, nc, na, nh)
           /\ FalseS \in Value(fc, nc, na, nh)
           /\ ErrorObj \in Value(fc, nc, na, nh)
           /\ \A n \in Int : IntObj(n) \in Value(fc, nc, na, nh)
           /\ \A s \in Seq(Int) : StrObj(s) \in Value(fc, nc, na, nh)
           /\ \A i \in 0..6 : Obj("BUILTIN", i) \in Value(fc, nc, na, nh)
           /\ \A i \in fc..nc : Obj("CLOSURE", i) \in Value(fc, nc, na, nh)
           /\ \A i \in 1..na : Obj("ARRAY", i) \in Value(fc, nc, na, nh)
           /\ \A i \in 1..nh : Obj("HASH", i) \in Value(fc, nc, na, nh)
BY DEF Value, Obj, Nil, NullS, TrueS, FalseS, ErrorObj, IntObj, StrObj

(***************************************************************************)
(* What the type of an object says of its number and its bytes.             *)
(***************************************************************************)
LEMMA Payloads ==
    ASSUME NEW fc \in Nat, NEW nc \in Nat, NEW na \in Nat, NEW nh \in Nat,
           NEW v \in Value(fc, nc, na, nh)
    PROVE  /\ v[1] \notin {"FAIL", "MISS", "PANIC"}
           /\ v[2] \in Int /\ v[3] \in Seq(Int)
           /\ v[1] = "CLOSURE" => v[2] \in fc..nc
           /\ v[1] = "ARRAY" => v[2] \in 1..na
           /\ v[1] = "HASH" => v[2] \in 1..nh
           /\ v[1] = "BUILTIN" => v[2] \in 0..6
<1> DEFINE Plain == { <<>> }
<1>1. \A e \in Plain : e \in Seq(Int)
    BY EmptySeq
<1>2. CASE v \in ({"STRING"} \X {0} \X Seq(Int))
    BY <1>2
<1> SUFFICES ASSUME v \notin ({"STRING"} \X {0} \X Seq(Int))
             PROVE  /\ v[1] \notin {"FAIL", "MISS", "PANIC"}
                    /\ v[2] \in Int /\ v[3] \in Plain
                    /\ v[1] = "CLOSURE" => v[2] \in fc..nc
                    /\ v[1] = "ARRAY" => v[2] \in 1..na
                    /\ v[1] = "HASH" => v[2] \in 1..nh
                    /\ v[1] = "BUILTIN" => v[2] \in 0..6
    BY <1>1, <1>2
<1> QED BY DEF Value

\* Marks are told from objects by their tag, and carry a known reason.
LEMMA MarkTags ==
    \A r \in Marks : /\ r[1] \in {"FAIL", "MISS", "PANIC"}
                    /\ r[2] \in Errors \cup ObjectPanics
BY DEF Marks

\* Fail, Miss and Panics make marks of the known reasons.
LEMMA MarkMaking ==
    \A why \in Errors \cup ObjectPanics :
        Fail(why) \in Marks /\ Miss(why) \in Marks /\ Panics(why) \in Marks
BY DEF Marks, Fail, Miss, Panics

\* Wrapped arithmetic yields an integer.
LEMMA WrapType == \A n \in Int : Wrap(n) \in Int
BY IntegerAssumption DEF Wrap

\* Division by a non-zero integer yields an integer.
LEMMA QuotientType == \A m \in Int, n \in Int \ {0} : Quotient(m, n) \in Int
BY DEF Quotient

-----------------------------------------------------------------------------
(***************************************************************************)
(* executeInfixBinaryOp pushes an object, returns an error or panics.       *)
(***************************************************************************)
LEMMA InfixType ==
    ASSUME NEW fc \in Nat, NEW nc \in Nat, NEW na \in Nat, NEW nh \in Nat,
           NEW lhs \in Value(fc, nc, na, nh), NEW rhs \in Value(fc, nc, na, nh),
           NEW op \in InfixOps
    PROVE  Infix(op, lhs, rhs) \in Value(fc, nc, na, nh) \cup Marks
<1> DEFINE V == Value(fc, nc, na, nh)
<1>0. /\ \A n \in Int : IntObj(n) \in V
      /\ TrueS \in V /\ FalseS \in V
      /\ \A s \in Seq(Int) : StrObj(s) \in V
    BY Literals
<1>1. lhs[2] \in Int /\ rhs[2] \in Int /\ lhs[3] \in Seq(Int) /\ rhs[3] \in Seq(Int)
    BY Payloads
<1> HIDE DEF V
<1>2. ASSUME NEW m \in Int, NEW n \in Int
      PROVE  IntegerInfix(op, m, n) \in V \cup Marks
    <2>1. Wrap(m + n) \in Int /\ Wrap(m - n) \in Int /\ Wrap(m * n) \in Int
        BY WrapType
    <2>2. n # 0 => Wrap(Quotient(m, n)) \in Int
        BY WrapType, QuotientType
    <2>3. Panics("divide by zero") \in Marks
        BY MarkMaking DEF Errors, ObjectPanics
    <2> QED BY <1>0, <2>1, <2>2, <2>3 DEF IntegerInfix, BoolObj
<1>3. ASSUME NEW m \in Int, NEW n \in Int
      PROVE  BooleanInfix(op, m, n) \in V \cup Marks
    <2>1. Fail("unknown boolean operator") \in Marks
        BY MarkMaking DEF Errors, ObjectPanics
    <2> QED BY <1>0, <2>1 DEF BooleanInfix, BoolObj
<1>4. ASSUME NEW s \in Seq(Int), NEW t \in Seq(Int)
      PROVE  StringInfix(op, s, t) \in V \cup Marks
    <2>1. s \o t \in Seq(Int)
        BY ConcatProperties
    <2>2. Fail("unknown string operator") \in Marks
        BY MarkMaking DEF Errors, ObjectPanics
    <2> QED BY <1>0, <2>1, <2>2 DEF StringInfix, BoolObj
<1>5. /\ Panics("nil object") \in Marks /\ Fail("type mismatch") \in Marks
      /\ Fail("unsupported types") \in Marks
    BY MarkMaking DEF Errors, ObjectPanics
<1>6. /\ IntegerInfix(op, lhs[2], rhs[2]) \in V \cup Marks
      /\ BooleanInfix(op, lhs[2], rhs[2]) \in V \cup Marks
      /\ StringInfix(op, lhs[3], rhs[3]) \in V \cup Marks
    BY <1>1, <1>2, <1>3, <1>4
<1>7. Infix(op, lhs, rhs) \in V \cup Marks
    BY <1>5, <1>6 DEF Infix
<1> QED BY <1>7 DEF V

-----------------------------------------------------------------------------
(***************************************************************************)
(* The heap the builtins and the index operator work on.                    *)
(***************************************************************************)
HeapOf(fc, nc, na, nh) ==
    {h \in [arrays : Seq(Seq(Value(fc, nc, na, nh))),
            hashes : Seq(SUBSET (Value(fc, nc, na, nh) \X Value(fc, nc, na, nh)))] :
        Len(h.arrays) = na /\ Len(h.hashes) = nh}

\* Every array and every hash of a heap holds objects.
LEMMA HeapContents ==
    ASSUME NEW fc \in Nat, NEW nc \in Nat, NEW na \in Nat, NEW nh \in Nat,
           NEW h \in HeapOf(fc, nc, na, nh)
    PROVE  /\ \A k \in 1..na : h.arrays[k] \in Seq(Value(fc, nc, na, nh))
           /\ \A k \in 1..nh :
                h.hashes[k] \in SUBSET (Value(fc, nc, na, nh) \X Value(fc, nc, na, nh))
<1> DEFINE V == Value(fc, nc, na, nh)
<1>1. h.arrays \in Seq(Seq(V)) /\ Len(h.arrays) = na
    BY DEF HeapOf
<1>2. h.hashes \in Seq(SUBSET (V \X V)) /\ Len(h.hashes) = nh
    BY DEF HeapOf
<1>3. \A k \in 1..na : h.arrays[k] \in Seq(V)
    BY <1>1, ElementOfSeq
<1>4. \A k \in 1..nh : h.hashes[k] \in SUBSET (V \X V)
    BY <1>2, ElementOfSeq
<1> QED BY <1>3, <1>4

\* Hash gives back the object, as its own key, or fails.
LEMMA HashKeyType ==
    \A v : HashKey(v) = v \/ HashKey(v) \in Marks
BY MarkMaking DEF HashKey, Errors, ObjectPanics

(***************************************************************************)
(* Indexing yields an object of the container, or a mark.                   *)
(***************************************************************************)
LEMMA IndexType ==
    ASSUME NEW fc \in Nat, NEW nc \in Nat, NEW na \in Nat, NEW nh \in Nat,
           NEW h \in HeapOf(fc, nc, na, nh),
           NEW container \in Value(fc, nc, na, nh), NEW idx \in Value(fc, nc, na, nh)
    PROVE  Index(container, idx, h) \in Value(fc, nc, na, nh) \cup Marks
<1> DEFINE V == Value(fc, nc, na, nh)
<1>1. /\ Fail("index is not an integer") \in Marks /\ Miss("index out of bounds") \in Marks
      /\ Miss("index error") \in Marks /\ Fail("cannot index") \in Marks
    BY MarkMaking DEF Errors, ObjectPanics
<1>2. /\ idx[2] \in Int /\ container[3] \in Seq(Int)
      /\ container[1] = "ARRAY" => container[2] \in 1..na
      /\ container[1] = "HASH" => container[2] \in 1..nh
    BY Payloads
<1>3. ASSUME NEW n \in Nat, NEW i \in Int
      PROVE  Position(n, i) \in 0..n
    BY DEF Position
<1>4. CASE container[1] = "ARRAY"
    <2> DEFINE s == h.arrays[container[2]]
               p == Position(Len(s), idx[2])
    <2>1. s \in Seq(V)
        BY <1>2, <1>4, HeapContents
    <2>2. p \in 0..Len(s)
        BY <1>2, <1>3, <2>1, LenProperties
    <2>3. p # 0 => s[p] \in V
        BY <2>1, <2>2, ElementOfSeq, LenProperties
    <2>4. Index(container, idx, h) =
            IF idx[1] # "INTEGER" THEN Fail("index is not an integer")
            ELSE IF p = 0 THEN Miss("index out of bounds") ELSE s[p]
        BY <1>4, Zenon DEF Index, SequenceIndex
    <2> HIDE DEF s, p, V
    <2>5. Index(container, idx, h) \in V \cup Marks
        BY <1>1, <2>3, <2>4
    <2> QED BY <2>5 DEF V
<1>5. CASE container[1] = "STRING"
    <2> DEFINE s == container[3]
               p == Position(Len(s), idx[2])
    <2>1. s \in Seq(Int)
        BY <1>2
    <2>2. p \in 0..Len(s)
        BY <1>2, <1>3, <2>1, LenProperties
    <2>3. p # 0 => <<s[p]>> \in Seq(Int)
        BY <2>1, <2>2, ElementOfSeq, LenProperties
    <2>4. p # 0 => StrObj(<<s[p]>>) \in V
        BY <2>3, Literals
    <2>5. Index(container, idx, h) =
            IF idx[1] # "INTEGER" THEN Fail("index is not an integer")
            ELSE IF p = 0 THEN Miss("index out of bounds") ELSE StrObj(<<s[p]>>)
        BY <1>5 DEF Index, SequenceIndex
    <2> HIDE DEF s, p, V
    <2>6. Index(container, idx, h) \in V \cup Marks
        BY <1>1, <2>4, <2>5
    <2> QED BY <2>6 DEF V
<1>6. CASE container[1] = "HASH"
    <2> DEFINE hash == h.hashes[container[2]]
    <2>1. hash \in SUBSET (V \X V)
        BY <1>2, <1>6, HeapContents
    <2>2. HashHas(hash, idx) => HashGet(hash, idx) \in V
        BY <2>1 DEF HashHas, HashGet
    <2> QED BY <1>1, <1>6, <2>2, HashKeyType DEF Index
<1>7. CASE container[1] \notin {"ARRAY", "STRING", "HASH"}
    BY <1>1, <1>7 DEF Index
<1> QED BY <1>4, <1>5, <1>6, <1>7

-----------------------------------------------------------------------------
(***************************************************************************)
(* Changing one array or one hash keeps the heap a heap of the same size.   *)
(***************************************************************************)
LEMMA SetArrayType ==
    ASSUME NEW fc \in Nat, NEW nc \in Nat, NEW na \in Nat, NEW nh \in Nat,
           NEW h \in HeapOf(fc, nc, na, nh), NEW k \in 1..na,
           NEW s \in Seq(Value(fc, nc, na, nh))
    PROVE  SetArray(h, k, s) \in HeapOf(fc, nc, na, nh)
<1> DEFINE V == Value(fc, nc, na, nh)
<1>1. h.arrays \in Seq(Seq(V)) /\ Len(h.arrays) = na
    BY DEF HeapOf
<1>2. [h.arrays EXCEPT ![k] = s] \in Seq(Seq(V)) /\ Len([h.arrays EXCEPT ![k] = s]) = na
    BY <1>1, ExceptSeq
<1> HIDE DEF V
<1> QED BY <1>2 DEF HeapOf, SetArray, V

\* del keeps a hash of the heap a hash.
LEMMA SetHashType ==
    ASSUME NEW fc \in Nat, NEW nc \in Nat, NEW na \in Nat, NEW nh \in Nat,
           NEW h \in HeapOf(fc, nc, na, nh), NEW k \in 1..nh, NEW key
    PROVE  [h EXCEPT !.hashes[k] = HashDel(@, key)] \in HeapOf(fc, nc, na, nh)
<1> DEFINE V == Value(fc, nc, na, nh)
           hs == [h.hashes EXCEPT ![k] = HashDel(h.hashes[k], key)]
<1>1. h.hashes \in Seq(SUBSET (V \X V)) /\ Len(h.hashes) = nh
    BY DEF HeapOf
<1>2. HashDel(h.hashes[k], key) \in SUBSET (V \X V)
    BY HeapContents DEF HashDel
<1>3. hs \in Seq(SUBSET (V \X V)) /\ Len(hs) = nh
    BY <1>1, <1>2, ExceptSeq
<1> HIDE DEF V, hs
<1>4. [h EXCEPT !.hashes = hs] \in HeapOf(fc, nc, na, nh)
    BY <1>3 DEF HeapOf, V
<1> QED BY <1>4 DEF hs

\* A part of a sequence over S is a sequence over S.
LEMMA SubSeqType ==
    ASSUME NEW S, NEW s \in Seq(S), NEW m \in Int, NEW n \in Int,
           1 <= m, n <= Len(s)
    PROVE  SubSeq(s, m, n) \in Seq(S)
<1>1. Len(s) \in Nat /\ \A j \in 1..Len(s) : s[j] \in S
    BY LenProperties, ElementOfSeq
<1>2. \A j \in m..n : s[j] \in S
    BY <1>1
<1> QED BY <1>2, SubSeqProperties

(***************************************************************************)
(* A builtin returns an object or panics, and leaves a heap of the same     *)
(* size behind.                                                             *)
(***************************************************************************)
WellTyped(r, fc, nc, na, nh) ==
    r.value \in Value(fc, nc, na, nh) \cup Marks /\ r.heap \in HeapOf(fc, nc, na, nh)

\* A builtin that leaves the heap as it is.
LEMMA ReturnsType ==
    ASSUME NEW fc, NEW nc, NEW na, NEW nh, NEW v \in Value(fc, nc, na, nh) \cup Marks,
           NEW h \in HeapOf(fc, nc, na, nh)
    PROVE  WellTyped(Returns(v, h), fc, nc, na, nh)
BY DEF WellTyped, Returns

LEMMA BuiltinType ==
    ASSUME NEW fc \in Nat, NEW nc \in Nat, NEW na \in Nat, NEW nh \in Nat,
           NEW h \in HeapOf(fc, nc, na, nh), NEW objs \in Seq(Value(fc, nc, na, nh)),
           NEW i \in 0..6
    PROVE  WellTyped(CallBuiltin(i, objs, h), fc, nc, na, nh)
<1> DEFINE V == Value(fc, nc, na, nh)
           OK(r) == WellTyped(r, fc, nc, na, nh)
<1>1. /\ ErrorObj \in V /\ Nil \in V
      /\ \A n \in Int : IntObj(n) \in V
    BY Literals
<1>2. /\ Len(objs) \in Nat
      /\ \A n \in 1..Len(objs) : objs[n] \in V
    BY LenProperties, ElementOfSeq
<1>3. /\ Panics("pop from an empty array") \in Marks
      /\ Panics("popleft from an empty array") \in Marks
    BY MarkMaking DEF ObjectPanics
<1>4. \A n \in 1..Len(objs) :
        /\ IsArray(objs[n]) => objs[n][2] \in 1..na
        /\ objs[n][1] = "HASH" => objs[n][2] \in 1..nh
        /\ objs[n][2] \in Int /\ objs[n][3] \in Seq(Int)
    BY <1>2, Payloads DEF IsArray
<1>5. \A k \in 1..na : h.arrays[k] \in Seq(V)
    BY HeapContents
<1>6. \A k \in 1..na : /\ Len(h.arrays[k]) \in Nat
                      /\ \A n \in 1..Len(h.arrays[k]) : h.arrays[k][n] \in V
    BY <1>5, LenProperties, ElementOfSeq
<1>8. \A v \in V \cup Marks : OK(Returns(v, h))
    BY ReturnsType
<1>9. \A v \in V, k \in 1..na, s \in Seq(V) : OK(Returns(v, SetArray(h, k, s)))
    BY ReturnsType, SetArrayType
<1> HIDE DEF V, OK
<1>10. OK(BuiltinLen(objs, h))
    <2>1. Len(objs) = 1 /\ IsArray(objs[1]) => Len(h.arrays[objs[1][2]]) \in Int
        BY <1>4, <1>6
    <2>2. Len(objs) = 1 => Len(objs[1][3]) \in Int
        BY <1>4, LenProperties
    <2> QED BY <1>1, <1>8, <2>1, <2>2 DEF BuiltinLen
<1>11. OK(BuiltinPuts(objs, h))
    BY <1>1, <1>8 DEF BuiltinPuts
<1>12. OK(BuiltinPush(objs, h))
    <2>1. CASE Len(objs) >= 2 /\ IsArray(objs[1])
        <3>1. objs[1] \in V /\ objs[1][2] \in 1..na
            BY <1>2, <1>4, <2>1
        <3>2. SubSeq(objs, 2, Len(objs)) \in Seq(V)
            BY <1>2, SubSeqProperties
        <3>3. h.arrays[objs[1][2]] \o SubSeq(objs, 2, Len(objs)) \in Seq(V)
            BY <1>5, <3>1, <3>2, ConcatProperties
        <3>4. BuiltinPush(objs, h) =
                Returns(objs[1], SetArray(h, objs[1][2],
                            h.arrays[objs[1][2]] \o SubSeq(objs, 2, Len(objs))))
            BY <1>2, <2>1 DEF BuiltinPush
        <3> QED BY <1>9, <3>1, <3>3, <3>4
    <2>2. CASE ~(Len(objs) >= 2 /\ IsArray(objs[1]))
        BY <1>1, <1>2, <1>8, <2>2 DEF BuiltinPush
    <2> QED BY <2>1, <2>2
<1>13. OK(BuiltinPop(objs, h))
    <2>1. CASE Len(objs) = 1 /\ IsArray(objs[1])
        <3> DEFINE arr == h.arrays[objs[1][2]]
        <3>1. objs[1][2] \in 1..na
            BY <1>4, <2>1
        <3>2. CASE arr = <<>>
            BY <1>3, <1>8, <2>1, <3>2 DEF BuiltinPop
        <3>3. CASE arr # <<>>
            <4>1. Len(arr) \in Nat \ {0}
                BY <1>5, <3>1, <3>3, EmptySeq
            <4>2. arr[Len(arr)] \in V
                BY <1>6, <3>1, <4>1
            <4>3. SubSeq(arr, 1, Len(arr) - 1) \in Seq(V)
                BY <1>5, <3>1, <4>1, SubSeqType
            <4>4. BuiltinPop(objs, h) =
                    Returns(arr[Len(arr)],
                            SetArray(h, objs[1][2], SubSeq(arr, 1, Len(arr) - 1)))
                BY <2>1, <3>3 DEF BuiltinPop
            <4> HIDE DEF arr
            <4> QED BY <1>9, <3>1, <4>2, <4>3, <4>4
        <3> QED BY <3>2, <3>3
    <2>2. CASE ~(Len(objs) = 1 /\ IsArray(objs[1]))
        BY <1>1, <1>8, <2>2 DEF BuiltinPop
    <2> QED BY <2>1, <2>2
<1>14. OK(BuiltinPushleft(objs, h))
    <2>1. CASE Len(objs) = 2 /\ IsArray(objs[1])
        <3>1. objs[1] \in V /\ objs[2] \in V /\ objs[1][2] \in 1..na
            BY <1>2, <1>4, <2>1
        <3>2. <<objs[2]>> \in Seq(V)
            BY <3>1
        <3>3. <<objs[2]>> \o h.arrays[objs[1][2]] \in Seq(V)
            BY <1>5, <3>1, <3>2, ConcatProperties
        <3> QED BY <1>9, <2>1, <3>1, <3>3 DEF BuiltinPushleft
    <2>2. CASE ~(Len(objs) = 2 /\ IsArray(objs[1]))
        BY <1>1, <1>8, <2>2 DEF BuiltinPushleft
    <2> QED BY <2>1, <2>2
<1>15. OK(BuiltinPopleft(objs, h))
    <2>1. CASE Len(objs) = 1 /\ IsArray(objs[1])
        <3> DEFINE arr == h.arrays[objs[1][2]]
        <3>1. objs[1][2] \in 1..na
            BY <1>4, <2>1
        <3>2. CASE arr = <<>>
            BY <1>3, <1>8, <2>1, <3>2 DEF BuiltinPopleft
        <3>3. CASE arr # <<>>
            <4>1. Len(arr) \in Nat \ {0}
                BY <1>5, <3>1, <3>3, EmptySeq
            <4>2. arr[1] \in V
                BY <1>6, <3>1, <4>1
            <4>3. SubSeq(arr, 2, Len(arr)) \in Seq(V)
                BY <1>5, <3>1, <4>1, SubSeqType
            <4>4. BuiltinPopleft(objs, h) =
                    Returns(arr[1], SetArray(h, objs[1][2], SubSeq(arr, 2, Len(arr))))
                BY <2>1, <3>3 DEF BuiltinPopleft
            <4> HIDE DEF arr
            <4> QED BY <1>9, <3>1, <4>2, <4>3, <4>4
        <3> QED BY <3>2, <3>3
    <2>2. CASE ~(Len(objs) = 1 /\ IsArray(objs[1]))
        BY <1>1, <1>8, <2>2 DEF BuiltinPopleft
    <2> QED BY <2>1, <2>2
<1>16. ASSUME NEW k \in 1..na, NEW idx \in V, idx[2] \in Int
       PROVE  OK(DelArray(k, idx, h))
    <2> DEFINE arr == h.arrays[k]
    <2>1. CASE idx[1] = "INTEGER" /\ 0 <= idx[2] /\ idx[2] < Len(arr)
        <3>0. Len(arr) \in Nat
            BY <1>6
        <3>1. SubSeq(arr, 1, idx[2]) \in Seq(V)
            BY <1>5, <1>16, <2>1, <3>0, SubSeqType
        <3>2. SubSeq(arr, idx[2] + 2, Len(arr)) \in Seq(V)
            BY <1>5, <1>16, <2>1, <3>0, SubSeqType
        <3>3. SubSeq(arr, 1, idx[2]) \o SubSeq(arr, idx[2] + 2, Len(arr)) \in Seq(V)
            BY <3>1, <3>2, ConcatProperties
        <3>4. DelArray(k, idx, h) =
                Returns(Nil, SetArray(h, k, SubSeq(arr, 1, idx[2])
                                                \o SubSeq(arr, idx[2] + 2, Len(arr))))
            BY <1>16, <2>1, <3>0 DEF DelArray
        <3> HIDE DEF arr
        <3> QED BY <1>1, <1>9, <3>3, <3>4
    <2>2. CASE ~(idx[1] = "INTEGER" /\ 0 <= idx[2] /\ idx[2] < Len(arr))
        <3>1. Len(arr) \in Nat
            BY <1>6
        <3>2. DelArray(k, idx, h) = Returns(ErrorObj, h)
            BY <1>16, <2>2, <3>1 DEF DelArray
        <3> QED BY <1>1, <1>8, <3>2
    <2> QED BY <2>1, <2>2
<1>17. ASSUME NEW k \in 1..nh, NEW key \in V
       PROVE  OK(DelHash(k, key, h))
    <2>1. [h EXCEPT !.hashes[k] = HashDel(@, key)] \in HeapOf(fc, nc, na, nh)
        BY SetHashType
    <2>2. OK(Returns(Nil, [h EXCEPT !.hashes[k] = HashDel(@, key)]))
        BY <1>1, <2>1, ReturnsType DEF OK, V
    <2>3. HashKey(key) \in V \cup Marks
        BY <1>17, HashKeyType
    <2>4. \/ DelHash(k, key, h) = Returns(ErrorObj, h)
          \/ DelHash(k, key, h) = Returns(HashKey(key), h)
          \/ DelHash(k, key, h) = Returns(Nil, [h EXCEPT !.hashes[k] = HashDel(@, key)])
        BY DEF DelHash
    <2> QED BY <1>1, <1>8, <2>2, <2>3, <2>4
<1>18. OK(BuiltinDel(objs, h))
    <2>1. CASE Len(objs) # 2
        BY <1>1, <1>8, <2>1 DEF BuiltinDel
    <2>2. CASE Len(objs) = 2
        <3>1. /\ objs[2] \in V /\ objs[2][2] \in Int
              /\ IsArray(objs[1]) => objs[1][2] \in 1..na
              /\ objs[1][1] = "HASH" => objs[1][2] \in 1..nh
            BY <1>2, <1>4, <2>2
        <3>2. IsArray(objs[1]) => OK(DelArray(objs[1][2], objs[2], h))
            BY <1>16, <3>1
        <3>3. objs[1][1] = "HASH" => OK(DelHash(objs[1][2], objs[2], h))
            BY <1>17, <3>1
        <3> QED BY <1>1, <1>8, <2>2, <3>2, <3>3 DEF BuiltinDel, IsArray
    <2> QED BY <2>1, <2>2
<1>19. OK(CallBuiltin(i, objs, h))
    BY <1>10, <1>11, <1>12, <1>13, <1>14, <1>15, <1>18 DEF CallBuiltin, BuiltinNames
<1> QED BY <1>19 DEF OK

-----------------------------------------------------------------------------
(***************************************************************************)
(* The inductive invariant.                                                 *)
(***************************************************************************)
\* What is known of the parameters, and of a well-formed program.
LEMMA Parameters ==
    /\ StackSize \in Nat \ {0} /\ MaxFrames \in Nat \ {0}
    /\ GlobalsSize \in Nat \ {0}
    /\ \A p : WellFormed(p) =>
        /\ DOMAIN p.fns \subseteq Nat /\ 0 \in DOMAIN p.fns
        /\ \A f \in DOMAIN p.fns :
            /\ p.fns[f] \in Function
            /\ \A i \in 1..Len(p.fns[f].ins) :
                LET ins == p.fns[f].ins[i]
                IN  /\ ins.op \in GlobalOps => ins.a < GlobalsSize
                    /\ ins.op \in JumpOps => ins.a >= 1
        /\ p.fns[0].numLocals = 0
        /\ p.consts \in Seq(({"INTEGER"} \X Int \X { <<>> })
                \cup ({"STRING"} \X {0} \X Seq(Int))
                \cup ({"COMPILED_FUNCTION"} \X (DOMAIN p.fns) \X { <<>> }))
BY VMAssumption DEF WellFormed

Registers(V) ==
    /\ stack \in [0..(StackSize - 1) -> V]
    /\ sp \in Nat
    /\ status \in {"running", "returned", "panicked", "reported"}
    /\ reason \in {"none"} \cup Errors \cup PanicReasons

Memory(V) ==
    /\ globals \in [0..(GlobalsSize - 1) -> V]
    /\ closures \in Seq([fn : DOMAIN prog.fns, free : Seq(V)])
    /\ arrays \in Seq(Seq(V))
    /\ hashes \in Seq(SUBSET (V \X V))
    /\ answer \in V

FramesTyped ==
    /\ frames \in [0..(MaxFrames - 1) -> Frame]
    /\ frameIndex \in 0..MaxFrames
    /\ \A j \in 0..(MaxFrames - 1) : frames[j].cl \in 1..Len(closures)
    /\ frames[0].bp = 0
    /\ closures[1].fn = 0
    /\ status = "running" => frameIndex >= 1

IInv == WellFormed(prog) /\ Registers(Object) /\ Memory(Object) /\ FramesTyped

\* The inductive invariant is at least as strong as the type invariant.
LEMMA IInvImpliesTypeOK == IInv => TypeOK
BY DEF IInv, TypeOK, Registers, Memory, FramesTyped, Closure

-----------------------------------------------------------------------------
(***************************************************************************)
(* The three parts of the state after a step, with the objects V it may     *)
(* hold then.                                                               *)
(***************************************************************************)
NextRegisters(V) ==
    /\ stack' \in [0..(StackSize - 1) -> V]
    /\ sp' \in Nat
    /\ status' \in {"running", "returned", "panicked", "reported"}
    /\ reason' \in {"none"} \cup Errors \cup PanicReasons
    /\ status' = "running" => status = "running"

NextFrames ==
    /\ frames' \in [0..(MaxFrames - 1) -> Frame]
    /\ frameIndex' \in 0..MaxFrames
    /\ \A j \in 0..(MaxFrames - 1) : frames'[j].cl \in 1..Len(closures)
    /\ frames'[0].bp = 0
    /\ status' = "running" => frameIndex' >= 1

\* The numbers of objects in the heaps, as the lemmas on objects need them.
LEMMA HeapSizes ==
    ASSUME IInv
    PROVE  /\ Len(closures) \in Nat \ {0} /\ Len(arrays) \in Nat /\ Len(hashes) \in Nat
           /\ FirstClosure \in {1, 2}
<1>1. 0 \in 0..(MaxFrames - 1)
    BY Parameters
<1>2. Len(closures) # 0
    BY <1>1 DEF IInv, FramesTyped
<1> QED BY <1>2, LenProperties DEF IInv, Memory, FirstClosure

\* The first closure that can be an object depends on the program only.
LEMMA FirstClosureKept ==
    ASSUME prog' = prog
    PROVE  FirstClosure' = FirstClosure
BY DEF FirstClosure

\* A step that allocates nothing makes no new objects.
LEMMA ObjectKept ==
    ASSUME prog' = prog, Len(closures') = Len(closures),
           Len(arrays') = Len(arrays), Len(hashes') = Len(hashes)
    PROVE  Object' = Object
BY FirstClosureKept DEF Object

\* push keeps stack and sp in order, or fails with a stack overflow.
LEMMA PushRegisters ==
    ASSUME NEW V, Registers(V), NEW p \in Nat, NEW v \in V, Push(p, v)
    PROVE  NextRegisters(V)
<1>1. StackSize \in Nat
    BY Parameters
<1>2. "stack overflow" \in Errors
    BY DEF Errors
<1>3. CASE p >= StackSize
    BY <1>2, <1>3 DEF Registers, NextRegisters, Push, Stop
<1>4. CASE ~(p >= StackSize)
    BY <1>1, <1>4 DEF Registers, NextRegisters, Push, Keep
<1> QED BY <1>3, <1>4

\* Returning an error of Run keeps the registers in order,
LEMMA ErrorRegisters ==
    ASSUME NEW V, Registers(V), NEW p \in Nat, NEW why \in Errors \cup PanicReasons,
           Error(p, why)
    PROVE  NextRegisters(V)
BY DEF Registers, NextRegisters, Error, Stop

\* and so does a panic,
LEMMA PanicRegisters ==
    ASSUME NEW V, Registers(V), NEW why \in Errors \cup PanicReasons, Panic(why)
    PROVE  NextRegisters(V)
BY DEF Registers, NextRegisters, Panic, Stop

\* and each way to use the result of an operation on objects.
LEMMA FinishRegisters ==
    ASSUME NEW V, Registers(V), NullS \in V,
           \A v \in V : v[1] \notin {"FAIL", "MISS", "PANIC"},
           NEW p \in Nat, NEW r \in V \cup Marks, Finish(p, r)
    PROVE  NextRegisters(V)
<1>1. CASE r \in V
    <2>1. Push(p, r)
        BY <1>1 DEF Finish
    <2> QED BY <1>1, <2>1, PushRegisters
<1>2. CASE r \in Marks
    <2>1. r[1] \in {"FAIL", "MISS", "PANIC"} /\ r[2] \in Errors \cup PanicReasons
        BY <1>2, MarkTags DEF PanicReasons
    <2>2. CASE r[1] = "FAIL"
        <3>1. Error(p, r[2])
            BY <2>2 DEF Finish
        <3> QED BY <2>1, <3>1, ErrorRegisters
    <2>3. CASE r[1] = "PANIC"
        <3>1. Panic(r[2])
            BY <2>3 DEF Finish
        <3> QED BY <2>1, <3>1, PanicRegisters
    <2>4. CASE r[1] = "MISS"
        <3>1. /\ sp' = p + 1 /\ stack' = [stack EXCEPT ![p] = NullS]
              /\ Stop("returned", r[2])
            BY <2>4 DEF Finish
        <3>2. stack' \in [0..(StackSize - 1) -> V]
            BY <3>1 DEF Registers
        <3>3. sp' \in Nat /\ status' = "returned" /\ reason' = r[2]
            BY <3>1 DEF Stop
        <3> QED BY <2>1, <3>2, <3>3 DEF NextRegisters
    <2> QED BY <2>1, <2>2, <2>3, <2>4
<1> QED BY <1>1, <1>2

-----------------------------------------------------------------------------
(***************************************************************************)
(* The instruction the running function is at.                              *)
(***************************************************************************)
LEMMA Context ==
    ASSUME IInv, status = "running"
    PROVE  /\ frameIndex - 1 \in 0..(MaxFrames - 1)
           /\ Top \in Frame
           /\ Top.cl \in 1..Len(closures)
           /\ closures[Top.cl] \in [fn : DOMAIN prog.fns, free : Seq(Object)]
           /\ FnOf(Top) \in Function
<1>1. frameIndex - 1 \in 0..(MaxFrames - 1)
    BY Parameters DEF IInv, FramesTyped
<1>2. Top \in Frame /\ Top.cl \in 1..Len(closures)
    BY <1>1 DEF IInv, FramesTyped, Top
<1>3. closures[Top.cl] \in [fn : DOMAIN prog.fns, free : Seq(Object)]
    BY <1>2, ElementOfSeq DEF IInv, Memory
<1>4. FnOf(Top) \in Function
    BY <1>3, Parameters DEF IInv, FnOf, Fn
<1> QED BY <1>1, <1>2, <1>3, <1>4

\* The instruction at hand is well formed.
LEMMA InstructionType ==
    ASSUME IInv, Fetched
    PROVE  /\ Ins \in Instruction
           /\ Ins.op \in GlobalOps => Ins.a < GlobalsSize
           /\ Ins.op \in JumpOps => Ins.a >= 1
<1>1. Top \in Frame /\ FnOf(Top) \in Function /\ closures[Top.cl].fn \in DOMAIN prog.fns
    BY Context DEF Fetched
<1>2. TopCode \in Seq(Instruction) /\ Top.pc \in 1..Len(TopCode)
    BY <1>1, LenProperties DEF Function, Frame, Fetched, TopCode
<1>3. Ins \in Instruction
    BY <1>2, ElementOfSeq DEF Ins
<1>4. TopCode = prog.fns[closures[Top.cl].fn].ins
    BY DEF TopCode, FnOf, Fn
<1> QED BY <1>1, <1>2, <1>3, <1>4, Parameters DEF IInv, Ins

\* Every constant of the pool is an object the VM may push.
LEMMA ConstantType ==
    ASSUME IInv, NEW k \in 1..Len(Consts)
    PROVE  /\ Consts[k] \in Object
           /\ Consts[k][1] = "COMPILED_FUNCTION" => Consts[k][2] \in DOMAIN prog.fns
<1> DEFINE C == ({"INTEGER"} \X Int \X { <<>> })
                    \cup ({"STRING"} \X {0} \X Seq(Int))
                    \cup ({"COMPILED_FUNCTION"} \X (DOMAIN prog.fns) \X { <<>> })
<1>1. Consts \in Seq(C) /\ DOMAIN prog.fns \subseteq Nat
    BY Parameters DEF IInv, Consts
<1>2. Consts[k] \in C
    BY <1>1, ElementOfSeq
<1>3. Consts[k] \in Object
    BY <1>1, <1>2, Zenon DEF Object, Value
<1>4. Consts[k][1] = "COMPILED_FUNCTION" => Consts[k][2] \in DOMAIN prog.fns
    BY <1>2
<1> QED BY <1>3, <1>4

(***************************************************************************)
(* Facts about the objects at hand: the literals, and what is on the stack. *)
(***************************************************************************)
LEMMA ObjectLiterals ==
    ASSUME IInv
    PROVE  /\ Nil \in Object /\ NullS \in Object /\ TrueS \in Object /\ FalseS \in Object
           /\ \A n \in Int : IntObj(n) \in Object
           /\ \A i \in 0..6 : Obj("BUILTIN", i) \in Object
           /\ \A i \in FirstClosure..Len(closures) : Obj("CLOSURE", i) \in Object
           /\ \A v \in Object : /\ v[1] \notin {"FAIL", "MISS", "PANIC"}
                                /\ v[2] \in Int
                                /\ v[1] = "CLOSURE" => v[2] \in FirstClosure..Len(closures)
                                /\ v[1] = "ARRAY" => v[2] \in 1..Len(arrays)
                                /\ v[1] = "BUILTIN" => v[2] \in 0..6
BY HeapSizes, Literals, Payloads DEF Object

\* The n-th object from the top of the stack is one when sp is in range.
LEMMA OnStack ==
    ASSUME IInv, NEW n \in Nat, n >= 1, n <= sp, sp <= StackSize
    PROVE  Peek(n) \in Object /\ sp - n \in Nat
BY Parameters DEF IInv, Registers, Peek

\* A jump moves the instruction pointer of the running frame only.
LEMMA JumpFrames ==
    ASSUME IInv, status = "running", NEW pc \in Nat \ {0}, JumpTo(pc),
           frameIndex' = frameIndex, status' = "running" => status = "running"
    PROVE  NextFrames
<1>1. frameIndex - 1 \in 0..(MaxFrames - 1)
    BY Context
<1>2. frames' \in [0..(MaxFrames - 1) -> Frame]
    BY <1>1 DEF IInv, FramesTyped, JumpTo, Frame
<1>3. \A j \in 0..(MaxFrames - 1) : frames'[j].cl = frames[j].cl /\ frames'[j].bp = frames[j].bp
    BY <1>1 DEF IInv, FramesTyped, JumpTo, Frame
<1>4. 0 \in 0..(MaxFrames - 1)
    BY Parameters
<1> QED BY <1>2, <1>3, <1>4 DEF IInv, FramesTyped, NextFrames

\* The next instruction is a jump by one.
LEMMA AdvanceFrames ==
    ASSUME IInv, status = "running", Advance, frameIndex' = frameIndex,
           status' = "running" => status = "running"
    PROVE  NextFrames
<1>1. Top.pc + 1 \in Nat \ {0}
    BY Context DEF Frame
<1> QED BY <1>1, JumpFrames DEF Advance

(***************************************************************************)
(* Most instructions change no memory.                                      *)
(***************************************************************************)
LEMMA PureStep ==
    ASSUME IInv, UNCHANGED <<prog, globals, closures, arrays, hashes, answer>>,
           NextRegisters(Object), NextFrames
    PROVE  IInv'
<1>1. Object' = Object
    BY ObjectKept
<1>2. Memory(Object)'
    BY <1>1 DEF IInv, Memory
<1>3. Registers(Object)'
    BY <1>1 DEF Registers, NextRegisters
<1>4. FramesTyped'
    BY DEF IInv, FramesTyped, NextFrames
<1> QED BY <1>2, <1>3, <1>4 DEF IInv

\* An instruction that changes no memory keeps the invariant when it ends with a
\* result of Objects,
LEMMA PureFinish ==
    ASSUME IInv, status = "running", Advance, Pure, NEW p \in Nat,
           NEW r \in Object \cup Marks, Finish(p, r)
    PROVE  IInv'
<1>1. NextRegisters(Object)
    BY FinishRegisters, ObjectLiterals DEF IInv
<1>2. NextFrames
    BY <1>1, AdvanceFrames DEF NextRegisters, Pure, InFrame
<1> QED BY <1>1, <1>2, PureStep DEF Pure, InFrame

\* with the push of an object,
LEMMA PurePush ==
    ASSUME IInv, status = "running", Advance, Pure, NEW p \in Nat, NEW v \in Object,
           Push(p, v)
    PROVE  IInv'
<1>1. NextRegisters(Object)
    BY PushRegisters DEF IInv
<1>2. NextFrames
    BY <1>1, AdvanceFrames DEF NextRegisters, Pure, InFrame
<1> QED BY <1>1, <1>2, PureStep DEF Pure, InFrame

\* or with an error of Run.
LEMMA PureError ==
    ASSUME IInv, status = "running", Advance, Pure, NEW p \in Nat,
           NEW why \in Errors \cup PanicReasons, Error(p, why) \/ Panic(why)
    PROVE  IInv'
<1>1. NextRegisters(Object)
    BY ErrorRegisters, PanicRegisters DEF IInv
<1>2. NextFrames
    BY <1>1, AdvanceFrames DEF NextRegisters, Pure, InFrame
<1> QED BY <1>1, <1>2, PureStep DEF Pure, InFrame

-----------------------------------------------------------------------------
(***************************************************************************)
(* The other steps add an object to a heap, or let a builtin change one.    *)
(***************************************************************************)
LEMMA SeqWider ==
    ASSUME NEW S, NEW T, S \subseteq T
    PROVE  Seq(S) \subseteq Seq(T)
OBVIOUS

\* Memory that holds objects holds objects when there are more of them.
LEMMA Wider ==
    ASSUME IInv, NEW V, Object \subseteq V
    PROVE  Registers(V) /\ Memory(V)
<1>1. Registers(V)
    BY DEF IInv, Registers
<1>2. globals \in [0..(GlobalsSize - 1) -> V] /\ answer \in V
    BY DEF IInv, Memory
<1>3. Seq(Object) \subseteq Seq(V)
    BY SeqWider
<1>4. arrays \in Seq(Seq(V))
    BY <1>3, SeqWider DEF IInv, Memory
<1>5. SUBSET (Object \X Object) \subseteq SUBSET (V \X V)
    OBVIOUS
<1>6. hashes \in Seq(SUBSET (V \X V))
    BY <1>5, SeqWider DEF IInv, Memory
<1>7. [fn : DOMAIN prog.fns, free : Seq(Object)]
        \subseteq [fn : DOMAIN prog.fns, free : Seq(V)]
    BY <1>3
<1>8. closures \in Seq([fn : DOMAIN prog.fns, free : Seq(V)])
    BY <1>7, SeqWider DEF IInv, Memory
<1> QED BY <1>1, <1>2, <1>4, <1>6, <1>8 DEF Memory

\* Allocation makes more objects and forgets none.
LEMMA Growth ==
    ASSUME IInv, prog' = prog,
           Len(closures') \in Nat, Len(arrays') \in Nat, Len(hashes') \in Nat,
           Len(closures) <= Len(closures'), Len(arrays) <= Len(arrays'),
           Len(hashes) <= Len(hashes')
    PROVE  Object \subseteq Object'
<1>1. FirstClosure \in Nat /\ FirstClosure' = FirstClosure
    BY HeapSizes, FirstClosureKept
<1> QED BY <1>1, HeapSizes, ValueMonotonic DEF Object

\* A step that allocates keeps the invariant when it keeps every part of it over
\* the larger set of objects.
LEMMA GrowthStep ==
    ASSUME IInv, UNCHANGED <<prog, answer>>, closures'[1].fn = closures[1].fn,
           Len(closures) \in Nat, Len(closures') \in Nat,
           Len(closures) <= Len(closures'), Object \subseteq Object',
           globals' \in [0..(GlobalsSize - 1) -> Object'],
           closures' \in Seq([fn : DOMAIN prog.fns, free : Seq(Object')]),
           arrays' \in Seq(Seq(Object')),
           hashes' \in Seq(SUBSET (Object' \X Object')),
           NextRegisters(Object'), NextFrames
    PROVE  IInv'
<1>1. Memory(Object)'
    BY DEF IInv, Memory
<1>2. Registers(Object)'
    BY DEF Registers, NextRegisters
<1>3. FramesTyped'
    BY DEF IInv, FramesTyped, NextFrames
<1> QED BY <1>1, <1>2, <1>3 DEF IInv

\* OpClosure allocates a closure of the variables on top of the stack.
LEMMA OpClosureType ==
    ASSUME IInv, OpClosure
    PROVE  IInv'
<1>0. /\ Fetched /\ status = "running" /\ InBounds /\ Ins.op = "OpClosure"
      /\ Advance /\ InFrame
    BY DEF OpClosure, Fetch, Fetched
<1>1. Ins \in Instruction
    BY <1>0, InstructionType
<1>2. Ins.a + 1 \in 1..Len(Consts)
    <2>1. Consts \in Seq(({"INTEGER"} \X Int \X { <<>> })
                    \cup ({"STRING"} \X {0} \X Seq(Int))
                    \cup ({"COMPILED_FUNCTION"} \X (DOMAIN prog.fns) \X { <<>> }))
        BY Parameters DEF IInv, Consts
    <2>2. Ins.a < Len(Consts)
        BY <1>0 DEF InBounds
    <2> QED BY <1>1, <2>1, <2>2, LenProperties DEF Instruction
<1>3. CASE ~IsFunctionConst(Ins.a)
    <2>1. Pure /\ Error(sp, "closure over a non-function")
        BY <1>3 DEF OpClosure, Pure, InFrame
    <2>2. "closure over a non-function" \in Errors
        BY DEF Errors
    <2>3. sp \in Nat
        BY DEF IInv, Registers
    <2> QED BY <1>0, <2>1, <2>2, <2>3, PureError
<1>4. CASE IsFunctionConst(Ins.a)
    <2> DEFINE free == [i \in 1..Ins.b |-> stack[sp - Ins.b + i - 1]]
               cl == [fn |-> Consts[Ins.a + 1][2], free |-> free]
    <2>1. Ins.b \in Nat /\ sp \in Nat /\ StackSize \in Nat
        BY <1>1, Parameters DEF Instruction, IInv, Registers
    <2>2. Ins.b = 0 \/ (Ins.b <= sp /\ sp <= StackSize)
        BY <1>0, <1>4 DEF InBounds, HasOperands, Pops, InfixOps
    <2>3. \A i \in 1..Ins.b : sp - Ins.b + i - 1 \in 0..(StackSize - 1)
        BY <2>1, <2>2
    <2>4. free \in Seq(Object)
        BY <2>1, <2>3 DEF IInv, Registers
    <2>5. Consts[Ins.a + 1][2] \in DOMAIN prog.fns
        BY <1>2, <1>4, ConstantType DEF IsFunctionConst
    <2>6. closures' = Append(closures, cl) /\ UNCHANGED <<globals, arrays, hashes>>
        BY <1>4 DEF OpClosure, Topmost
    <2>7. closures \in Seq([fn : DOMAIN prog.fns, free : Seq(Object)])
        BY DEF IInv, Memory
    <2>8. cl \in [fn : DOMAIN prog.fns, free : Seq(Object)]
        BY <2>4, <2>5
    <2>9. /\ closures' \in Seq([fn : DOMAIN prog.fns, free : Seq(Object)])
          /\ Len(closures') = Len(closures) + 1
          /\ closures'[1].fn = closures[1].fn
        BY <2>6, <2>7, <2>8, AppendProperties, HeapSizes
    <2>10. /\ Len(closures) \in Nat /\ Len(closures') \in Nat
           /\ Len(arrays') = Len(arrays) /\ Len(hashes') = Len(hashes)
           /\ Len(arrays) \in Nat /\ Len(hashes) \in Nat
        BY <2>6, <2>9, HeapSizes
    <2>11. Object \subseteq Object'
        BY <1>0, <2>9, <2>10, Growth DEF InFrame
    <2>12. Registers(Object') /\ Memory(Object')
        BY <2>11, Wider
    <2>13. Obj("CLOSURE", Len(closures) + 1) \in Object'
        <3>1. FirstClosure' \in Nat /\ Len(closures) + 1 \in FirstClosure'..Len(closures')
            BY <1>0, <2>9, <2>10, HeapSizes, FirstClosureKept DEF InFrame
        <3> QED BY <2>10, <3>1, Literals DEF Object
    <2>14. Push(sp - Ins.b, Obj("CLOSURE", Len(closures) + 1))
        BY <1>4 DEF OpClosure
    <2>15. sp - Ins.b \in Nat
        BY <2>1, <2>2
    <2>16. NextRegisters(Object')
        BY <2>12, <2>13, <2>14, <2>15, PushRegisters
    <2>17. NextFrames
        BY <1>0, <2>16, AdvanceFrames DEF NextRegisters, InFrame
    <2>18. closures' \in Seq([fn : DOMAIN prog.fns, free : Seq(Object')])
        <3>1. Seq(Object) \subseteq Seq(Object')
            BY <2>11, SeqWider
        <3>2. [fn : DOMAIN prog.fns, free : Seq(Object)]
                \subseteq [fn : DOMAIN prog.fns, free : Seq(Object')]
            BY <3>1
        <3> QED BY <2>9, <3>2, SeqWider
    <2>19. /\ globals' \in [0..(GlobalsSize - 1) -> Object']
           /\ arrays' \in Seq(Seq(Object'))
           /\ hashes' \in Seq(SUBSET (Object' \X Object'))
        BY <2>6, <2>12 DEF Memory
    <2> QED BY <1>0, <2>9, <2>10, <2>11, <2>16, <2>17, <2>18, <2>19, GrowthStep DEF InFrame
<1> QED BY <1>3, <1>4

\* OpArray allocates an array of the objects on top of the stack.
LEMMA OpArrayType ==
    ASSUME IInv, OpArray
    PROVE  IInv'
<1> DEFINE elements == [i \in 1..Ins.a |-> stack[sp - Ins.a + i - 1]]
<1>0. /\ Fetched /\ status = "running" /\ InBounds /\ Ins.op = "OpArray"
      /\ Advance /\ InFrame /\ UNCHANGED <<globals, closures, hashes>>
      /\ arrays' = Append(arrays, elements)
      /\ Push(sp - Ins.a, Obj("ARRAY", Len(arrays) + 1))
    BY DEF OpArray, Fetch, Fetched, Topmost
<1>1. Ins.a \in Nat /\ sp \in Nat /\ StackSize \in Nat
    BY <1>0, InstructionType, Parameters DEF Instruction, IInv, Registers
<1>2. Ins.a = 0 \/ (Ins.a <= sp /\ sp <= StackSize)
    BY <1>0 DEF InBounds, HasOperands, Pops, InfixOps
<1>3. \A i \in 1..Ins.a : sp - Ins.a + i - 1 \in 0..(StackSize - 1)
    BY <1>1, <1>2
<1>4. elements \in Seq(Object)
    BY <1>1, <1>3 DEF IInv, Registers
<1>5. arrays \in Seq(Seq(Object))
    BY DEF IInv, Memory
<1>6. arrays' \in Seq(Seq(Object)) /\ Len(arrays') = Len(arrays) + 1
    BY <1>0, <1>4, <1>5, AppendProperties
<1>7. /\ Len(closures') = Len(closures) /\ Len(hashes') = Len(hashes)
      /\ Len(closures) \in Nat /\ Len(hashes) \in Nat /\ Len(arrays) \in Nat
    BY <1>0, HeapSizes
<1>8. Object \subseteq Object' /\ FirstClosure' \in Nat
    BY <1>0, <1>6, <1>7, Growth, HeapSizes, FirstClosureKept DEF InFrame
<1>9. Registers(Object') /\ Memory(Object')
    BY <1>8, Wider
<1>10. Obj("ARRAY", Len(arrays) + 1) \in Object'
    <2>1. Len(arrays) + 1 \in 1..Len(arrays')
        BY <1>6, <1>7
    <2>2. Len(closures') \in Nat /\ Len(arrays') \in Nat /\ Len(hashes') \in Nat
        BY <1>6, <1>7
    <2> QED BY <1>8, <2>1, <2>2, Literals DEF Object
<1>11. sp - Ins.a \in Nat
    BY <1>1, <1>2
<1>12. NextRegisters(Object')
    BY <1>0, <1>9, <1>10, <1>11, PushRegisters
<1>13. NextFrames
    BY <1>0, <1>12, AdvanceFrames DEF NextRegisters, InFrame
<1>14. arrays' \in Seq(Seq(Object'))
    BY <1>6, <1>8, SeqWider
<1>15. /\ globals' \in [0..(GlobalsSize - 1) -> Object']
       /\ closures' \in Seq([fn : DOMAIN prog.fns, free : Seq(Object')])
       /\ hashes' \in Seq(SUBSET (Object' \X Object'))
    BY <1>0, <1>9 DEF Memory
<1> QED BY <1>0, <1>6, <1>7, <1>8, <1>12, <1>13, <1>14, <1>15, GrowthStep DEF InFrame

\* A builtin changes arrays and hashes in place and returns an object.
LEMMA BuiltinStepType ==
    ASSUME IInv, CallsBuiltin
    PROVE  IInv'
<1> DEFINE args == arrays[stack[sp - Ins.a][2]]
           r == CallBuiltin(Callee[2], args, Heap)
           v == IF r.value = Nil THEN NullS ELSE r.value
<1>0. /\ Fetched /\ status = "running" /\ InBounds /\ Ins.op = "OpCall"
      /\ Advance /\ InFrame /\ UNCHANGED <<globals, closures>>
      /\ Callee[1] = "BUILTIN" /\ sp - Ins.a < StackSize
      /\ stack[sp - Ins.a][1] = "ARRAY"
      /\ arrays' = r.heap.arrays /\ hashes' = r.heap.hashes
      /\ Finish(sp - Ins.a - 1, v)
    BY DEF CallsBuiltin, Fetch, Fetched
<1>1. Ins.a \in Nat /\ sp \in Nat /\ StackSize \in Nat
    BY <1>0, InstructionType, Parameters DEF Instruction, IInv, Registers
<1>2. sp - Ins.a - 1 \in 0..(StackSize - 1)
    BY <1>0 DEF InBounds
<1>3. Callee \in Object /\ stack[sp - Ins.a] \in Object
    <2>1. sp - (Ins.a + 1) \in 0..(StackSize - 1) /\ sp - Ins.a \in 0..(StackSize - 1)
        BY <1>0, <1>1, <1>2
    <2> QED BY <2>1 DEF IInv, Registers, Callee, Peek
<1>4. Callee[2] \in 0..6 /\ stack[sp - Ins.a][2] \in 1..Len(arrays)
    BY <1>0, <1>3, ObjectLiterals
<1>5. Heap \in HeapOf(FirstClosure, Len(closures), Len(arrays), Len(hashes))
    BY DEF IInv, Memory, Object, Heap, HeapOf
<1>6. args \in Seq(Object)
    BY <1>4, ElementOfSeq DEF IInv, Memory
<1>7. WellTyped(r, FirstClosure, Len(closures), Len(arrays), Len(hashes))
    <2>1. FirstClosure \in Nat
        BY HeapSizes
    <2> QED BY <1>4, <1>5, <1>6, <2>1, HeapSizes, BuiltinType DEF Object
<1> HIDE DEF r
<1>8. r.value \in Object \cup Marks
    BY <1>7 DEF WellTyped, Object
<1>9. /\ arrays' \in Seq(Seq(Object)) /\ Len(arrays') = Len(arrays)
      /\ hashes' \in Seq(SUBSET (Object \X Object)) /\ Len(hashes') = Len(hashes)
    BY <1>0, <1>7 DEF WellTyped, HeapOf, Object
<1>10. v \in Object \cup Marks
    BY <1>8, ObjectLiterals
<1>11. NextRegisters(Object)
    <2>1. sp - Ins.a - 1 \in Nat
        BY <1>2
    <2> HIDE DEF v
    <2> QED BY <1>0, <1>10, <2>1, FinishRegisters, ObjectLiterals DEF IInv
<1>12. Object' = Object
    BY <1>0, <1>9, ObjectKept DEF InFrame
<1>13. NextFrames
    BY <1>0, <1>11, AdvanceFrames DEF NextRegisters, InFrame
<1>14. /\ globals' \in [0..(GlobalsSize - 1) -> Object]
       /\ closures' \in Seq([fn : DOMAIN prog.fns, free : Seq(Object)])
       /\ Len(closures') = Len(closures) /\ Len(closures) \in Nat
       /\ closures'[1].fn = closures[1].fn
    BY <1>0, HeapSizes DEF IInv, Memory
<1>15. UNCHANGED <<prog, answer>>
    BY <1>0 DEF InFrame
<1>16. /\ arrays' \in Seq(Seq(Object')) /\ hashes' \in Seq(SUBSET (Object' \X Object'))
       /\ globals' \in [0..(GlobalsSize - 1) -> Object']
       /\ closures' \in Seq([fn : DOMAIN prog.fns, free : Seq(Object')])
       /\ NextRegisters(Object') /\ Object \subseteq Object'
    BY <1>9, <1>11, <1>12, <1>14 DEF NextRegisters
<1> QED BY <1>13, <1>14, <1>15, <1>16, GrowthStep

\* OpHash allocates a hash, or stops at a key it cannot hash.
LEMMA OpHashType ==
    ASSUME IInv, OpHash
    PROVE  IInv'
<1>0. /\ Fetched /\ status = "running" /\ InBounds /\ Ins.op = "OpHash"
      /\ Advance /\ InFrame /\ UNCHANGED <<globals, closures, arrays>>
    BY DEF OpHash, Fetch, Fetched
<1>1. Ins.a \in Nat /\ sp \in Nat /\ StackSize \in Nat
    BY <1>0, InstructionType, Parameters DEF Instruction, IInv, Registers
<1>2. HasOperands \/ (sp <= StackSize /\ BadPairs # {})
    BY <1>0 DEF InBounds
<1>3. HasOperands => Ins.a = 0 \/ (2 * Ins.a <= sp /\ sp <= StackSize)
    BY <1>0, <1>1 DEF HasOperands, Pops, InfixOps
<1>4. CASE /\ BadPairs = {}
           /\ hashes' = Append(hashes, HashPairs)
           /\ Push(sp - 2 * Ins.a, Obj("HASH", Len(hashes) + 1))
    <2>1. Ins.a = 0 \/ (2 * Ins.a <= sp /\ sp <= StackSize)
        BY <1>2, <1>3, <1>4
    <2>2. \A j \in 1..Ins.a : /\ sp - 2 * j \in 0..(StackSize - 1)
                              /\ sp - (2 * j - 1) \in 0..(StackSize - 1)
        BY <1>1, <2>1
    <2>3. \A j \in 1..Ins.a : Peek(2 * j) \in Object /\ Peek(2 * j - 1) \in Object
        BY <2>2 DEF Peek, IInv, Registers
    <2>4. HashPairs \in SUBSET (Object \X Object)
        BY <2>3 DEF HashPairs
    <2>5. hashes \in Seq(SUBSET (Object \X Object))
        BY DEF IInv, Memory
    <2>6. hashes' \in Seq(SUBSET (Object \X Object)) /\ Len(hashes') = Len(hashes) + 1
        BY <1>4, <2>4, <2>5, AppendProperties
    <2>7. /\ Len(closures') = Len(closures) /\ Len(arrays') = Len(arrays)
          /\ Len(closures) \in Nat /\ Len(hashes) \in Nat /\ Len(arrays) \in Nat
        BY <1>0, HeapSizes
    <2>8. Object \subseteq Object' /\ FirstClosure' \in Nat
        BY <1>0, <2>6, <2>7, Growth, HeapSizes, FirstClosureKept DEF InFrame
    <2>9. Registers(Object') /\ Memory(Object')
        BY <2>8, Wider
    <2>10. Obj("HASH", Len(hashes) + 1) \in Object'
        <3>1. Len(hashes) + 1 \in 1..Len(hashes')
            BY <2>6, <2>7
        <3>2. Len(closures') \in Nat /\ Len(arrays') \in Nat /\ Len(hashes') \in Nat
            BY <2>6, <2>7
        <3> QED BY <2>8, <3>1, <3>2, Literals DEF Object
    <2>11. sp - 2 * Ins.a \in Nat
        BY <1>1, <2>1
    <2>12. NextRegisters(Object')
        BY <1>4, <2>9, <2>10, <2>11, PushRegisters
    <2>13. NextFrames
        BY <1>0, <2>12, AdvanceFrames DEF NextRegisters, InFrame
    <2>14. hashes' \in Seq(SUBSET (Object' \X Object'))
        <3>1. SUBSET (Object \X Object) \subseteq SUBSET (Object' \X Object')
            BY <2>8
        <3> QED BY <2>6, <3>1, SeqWider
    <2>15. /\ globals' \in [0..(GlobalsSize - 1) -> Object']
           /\ closures' \in Seq([fn : DOMAIN prog.fns, free : Seq(Object')])
           /\ arrays' \in Seq(Seq(Object'))
        BY <1>0, <2>9 DEF Memory
    <2> QED BY <1>0, <2>6, <2>7, <2>8, <2>12, <2>13, <2>14, <2>15, GrowthStep DEF InFrame
<1>5. CASE \E j \in BadPairs : /\ hashes' = hashes
                               /\ Finish(sp - 2 * j, HashKey(Peek(2 * j)))
    <2>1. PICK j \in BadPairs : hashes' = hashes /\ Finish(sp - 2 * j, HashKey(Peek(2 * j)))
        BY <1>5
    <2>2. /\ j \in 1..Ins.a /\ 2 * j <= sp
          /\ HashKey(Peek(2 * j)) # Peek(2 * j)
        BY DEF BadPairs
    <2>3. HashKey(Peek(2 * j)) \in Marks
        BY <2>2, HashKeyType
    <2>4. sp - 2 * j \in Nat
        BY <1>1, <2>2
    <2>5. Pure
        BY <1>0, <2>1 DEF Pure
    <2> QED BY <1>0, <2>1, <2>3, <2>4, <2>5, PureFinish
<1> QED BY <1>4, <1>5 DEF OpHash

\* An instruction that pops finds an object to pop.
LEMMA OneOperand ==
    ASSUME InBounds, Ins.op \in {"OpPop", "OpBang", "OpMinus", "OpJumpNotTruthy",
                                "OpSetGlobal", "OpSetLocal", "OpReturnValue"}
    PROVE  1 <= sp /\ sp <= StackSize
<1>1. Pops(Ins) = 1
    BY DEF Pops, InfixOps
<1>2. HasOperands
    BY DEF InBounds
<1> QED BY <1>1, <1>2 DEF HasOperands

\* The instructions that change no memory.
LEMMA PureActionsType ==
    ASSUME IInv,
           \/ OpConstant \/ OpSingleton \/ OpInfix \/ OpBang \/ OpMinus
           \/ OpPop \/ OpGetGlobal \/ OpGetLocal \/ OpGetBuiltin \/ OpGetFree
           \/ OpCurrentClosure \/ OpIndex \/ CallFails
    PROVE  IInv'
<1>0. Fetched /\ status = "running" /\ InBounds /\ Advance /\ Pure
    BY DEF OpConstant, OpSingleton, OpInfix, OpBang, OpMinus, OpPop, OpGetGlobal,
           OpGetLocal, OpGetBuiltin, OpGetFree, OpCurrentClosure, OpIndex, CallFails,
           Fetch, Fetched
<1>1. /\ Ins.a \in Nat /\ sp \in Nat /\ StackSize \in Nat
      /\ Ins \in Instruction /\ (Ins.op \in GlobalOps => Ins.a < GlobalsSize)
    BY <1>0, InstructionType, Parameters DEF Instruction, IInv, Registers
<1>2. Top \in Frame /\ Top.cl \in 1..Len(closures) /\ Free \in Seq(Object)
    BY <1>0, Context DEF Free
<1>3. CASE OpConstant
    <2>1. Ins.a < Len(Consts) /\ Push(sp, Consts[Ins.a + 1])
        BY <1>0, <1>3 DEF OpConstant, Fetch, InBounds
    <2>2. Len(Consts) \in Nat
        <3>1. Consts \in Seq(({"INTEGER"} \X Int \X { <<>> })
                    \cup ({"STRING"} \X {0} \X Seq(Int))
                    \cup ({"COMPILED_FUNCTION"} \X (DOMAIN prog.fns) \X { <<>> }))
            BY Parameters DEF IInv, Consts
        <3> QED BY <3>1, LenProperties
    <2>3. Consts[Ins.a + 1] \in Object
        BY <1>1, <2>1, <2>2, ConstantType
    <2> QED BY <1>0, <1>1, <2>1, <2>3, PurePush
<1>4. CASE OpSingleton
    <2>1. PICK v \in {TrueS, FalseS, NullS} : Push(sp, v)
        BY <1>4 DEF OpSingleton
    <2>2. v \in Object
        BY ObjectLiterals
    <2> QED BY <1>0, <1>1, <2>1, <2>2, PurePush
<1>5. CASE OpInfix
    <2>1. Ins.op \in InfixOps /\ Finish(sp - 2, Infix(Ins.op, Peek(2), Peek(1)))
        BY <1>5 DEF OpInfix, Fetch
    <2>2. 2 <= sp /\ sp <= StackSize
        BY <1>0, <2>1 DEF InBounds, HasOperands, Pops, InfixOps
    <2>3. Peek(1) \in Object /\ Peek(2) \in Object /\ sp - 2 \in Nat
        BY <1>1, <2>2, OnStack
    <2>4. Infix(Ins.op, Peek(2), Peek(1)) \in Object \cup Marks
        BY <2>1, <2>3, InfixType, HeapSizes DEF Object
    <2> QED BY <1>0, <2>1, <2>3, <2>4, PureFinish
<1>6. CASE OpBang
    <2>1. 1 <= sp /\ sp <= StackSize
        BY <1>0, <1>6, OneOperand DEF OpBang, Fetch
    <2>2. sp - 1 \in Nat
        BY <1>1, <2>1
    <2>3. \/ Push(sp - 1, TrueS) \/ Push(sp - 1, FalseS)
          \/ Panic("unsupported type cast to boolean")
        BY <1>6 DEF OpBang, BoolObj
    <2>4. "unsupported type cast to boolean" \in PanicReasons
        BY DEF PanicReasons
    <2> QED BY <1>0, <1>1, <2>2, <2>3, <2>4, ObjectLiterals, PurePush, PureError
<1>7. CASE OpMinus
    <2>1. 1 <= sp /\ sp <= StackSize
        BY <1>0, <1>7, OneOperand DEF OpMinus, Fetch
    <2>2. Peek(1) \in Object /\ sp - 1 \in Nat
        BY <1>1, <2>1, OnStack
    <2>3. IntObj(Wrap(-Peek(1)[2])) \in Object
        <3>1. Peek(1)[2] \in Int
            BY <2>2, ObjectLiterals
        <3>2. -Peek(1)[2] \in Int
            BY <3>1
        <3>3. Wrap(-Peek(1)[2]) \in Int
            BY <3>2, WrapType
        <3> QED BY <3>3, ObjectLiterals
    <2>4. \/ Push(sp - 1, IntObj(Wrap(-Peek(1)[2])))
          \/ Error(sp - 1, "cannot prefix with -")
        BY <1>7 DEF OpMinus
    <2>5. "cannot prefix with -" \in Errors
        BY DEF Errors
    <2> QED BY <1>0, <2>2, <2>3, <2>4, <2>5, PurePush, PureError
<1>8. CASE OpPop
    <2>1. 1 <= sp /\ sp <= StackSize
        BY <1>0, <1>8, OneOperand DEF OpPop, Fetch
    <2>2. NextRegisters(Object)
        BY <1>1, <1>8, <2>1 DEF OpPop, Keep, IInv, Registers, NextRegisters
    <2>3. NextFrames
        BY <1>0, <2>2, AdvanceFrames DEF NextRegisters, Pure, InFrame
    <2> QED BY <1>0, <2>2, <2>3, PureStep DEF Pure, InFrame
<1>9. CASE OpGetGlobal
    <2>1. Ins.op \in GlobalOps /\ Push(sp, globals[Ins.a])
        BY <1>9 DEF OpGetGlobal, Fetch, GlobalOps
    <2>2. globals[Ins.a] \in Object
        BY <1>1, <2>1, Parameters DEF IInv, Memory
    <2> QED BY <1>0, <1>1, <2>1, <2>2, PurePush
<1>10. CASE OpGetLocal
    <2>1. Top.bp + Ins.a < StackSize /\ Push(sp, stack[Top.bp + Ins.a])
        BY <1>0, <1>10 DEF OpGetLocal, Fetch, InBounds
    <2>2. Top.bp + Ins.a \in 0..(StackSize - 1)
        BY <1>1, <1>2, <2>1 DEF Frame
    <2>3. stack[Top.bp + Ins.a] \in Object
        BY <2>2 DEF IInv, Registers
    <2> QED BY <1>0, <1>1, <2>1, <2>3, PurePush
<1>11. CASE OpGetBuiltin
    <2>1. Ins.a < Len(BuiltinNames) /\ Push(sp, Obj("BUILTIN", Ins.a))
        BY <1>0, <1>11 DEF OpGetBuiltin, Fetch, InBounds
    <2>2. Len(BuiltinNames) = 7
        BY DEF BuiltinNames
    <2>3. Obj("BUILTIN", Ins.a) \in Object
        BY <1>1, <2>1, <2>2, ObjectLiterals
    <2> QED BY <1>0, <1>1, <2>1, <2>3, PurePush
<1>12. CASE OpGetFree
    <2>1. Ins.a < Len(Free) /\ Push(sp, Free[Ins.a + 1])
        BY <1>0, <1>12 DEF OpGetFree, Fetch, InBounds
    <2>2. Free[Ins.a + 1] \in Object
        BY <1>1, <1>2, <2>1, LenProperties, ElementOfSeq
    <2> QED BY <1>0, <1>1, <2>1, <2>2, PurePush
<1>13. CASE OpCurrentClosure
    <2>1. Push(sp, Obj("CLOSURE", Top.cl)) /\ Ins.op = "OpCurrentClosure"
        BY <1>13 DEF OpCurrentClosure, Fetch
    <2>2. Top.cl = 1 => Top.cl \in FirstClosure..Len(closures)
        <3> SUFFICES ASSUME Top.cl = 1 PROVE FirstClosure = 1
            BY <1>2
        <3>1. TopCode = prog.fns[0].ins
            BY DEF TopCode, FnOf, Fn, IInv, FramesTyped
        <3>2. Top.pc \in 1..Len(prog.fns[0].ins)
            BY <1>0, <1>2, <3>1, Context, LenProperties DEF Fetched, Frame, TopCode, Function
        <3> QED BY <2>1, <3>1, <3>2 DEF FirstClosure, Ins
    <2>3. Top.cl # 1 => Top.cl \in FirstClosure..Len(closures)
        BY <1>2, HeapSizes
    <2>4. Obj("CLOSURE", Top.cl) \in Object
        BY <2>2, <2>3, ObjectLiterals
    <2> QED BY <1>0, <1>1, <2>1, <2>4, PurePush
<1>14. CASE OpIndex
    <2>1. Ins.op = "OpIndex" /\ Finish(sp - 2, Index(Peek(2), Peek(1), Heap))
        BY <1>14 DEF OpIndex, Fetch
    <2>2. 2 <= sp /\ sp <= StackSize
        BY <1>0, <2>1 DEF InBounds, HasOperands, Pops, InfixOps
    <2>3. Peek(1) \in Object /\ Peek(2) \in Object /\ sp - 2 \in Nat
        BY <1>1, <2>2, OnStack
    <2>4. Heap \in HeapOf(FirstClosure, Len(closures), Len(arrays), Len(hashes))
        BY DEF IInv, Memory, Object, Heap, HeapOf
    <2>5. Index(Peek(2), Peek(1), Heap) \in Object \cup Marks
        <3> DEFINE c == Peek(2)
                   i == Peek(1)
                   h == Heap
        <3>1. /\ c \in Value(FirstClosure, Len(closures), Len(arrays), Len(hashes))
              /\ i \in Value(FirstClosure, Len(closures), Len(arrays), Len(hashes))
              /\ h \in HeapOf(FirstClosure, Len(closures), Len(arrays), Len(hashes))
            BY <2>3, <2>4 DEF Object
        <3> HIDE DEF c, i, h
        <3>2. Index(c, i, h) \in Value(FirstClosure, Len(closures), Len(arrays), Len(hashes)) \cup Marks
            BY <3>1, IndexType, HeapSizes
        <3> QED BY <3>2 DEF c, i, h, Object
    <2> QED BY <1>0, <2>1, <2>3, <2>5, PureFinish
<1>15. CASE CallFails
    <2>1. PICK why \in Errors \cup PanicReasons : Error(sp, why) \/ Panic(why)
        BY <1>15 DEF CallFails, Errors, PanicReasons
    <2> QED BY <1>0, <1>1, <2>1, PureError
<1> QED BY <1>3, <1>4, <1>5, <1>6, <1>7, <1>8, <1>9, <1>10, <1>11, <1>12, <1>13,
           <1>14, <1>15

-----------------------------------------------------------------------------
(***************************************************************************)
(* Jumps, assignments, calls and returns.                                   *)
(***************************************************************************)
LEMMA JumpType ==
    ASSUME IInv, OpJump \/ OpJumpNotTruthy
    PROVE  IInv'
<1>0. Fetched /\ status = "running" /\ InBounds /\ Pure
    BY DEF OpJump, OpJumpNotTruthy, Fetch, Fetched
<1>1. /\ Ins.a \in Nat /\ sp \in Nat /\ Top \in Frame
      /\ Ins.op \in JumpOps => Ins.a >= 1
    BY <1>0, InstructionType, Context DEF Instruction, IInv, Registers
<1>2. CASE OpJump
    <2>1. Ins.op \in JumpOps /\ JumpTo(Ins.a) /\ UNCHANGED <<stack, sp, status, reason>>
        BY <1>2 DEF OpJump, Fetch, JumpOps, Keep
    <2>2. NextRegisters(Object)
        BY <2>1 DEF IInv, Registers, NextRegisters
    <2>3. NextFrames
        BY <1>0, <1>1, <2>1, JumpFrames DEF Pure, InFrame
    <2> QED BY <1>0, <2>2, <2>3, PureStep DEF Pure, InFrame
<1>3. CASE OpJumpNotTruthy /\ HasTruth(Peek(1))
    <2>1. Ins.op = "OpJumpNotTruthy"
        BY <1>3 DEF OpJumpNotTruthy, Fetch
    <2>2. PICK pc \in {Top.pc + 1, Ins.a} : JumpTo(pc)
        BY <1>3 DEF OpJumpNotTruthy
    <2>3. pc \in Nat \ {0}
        BY <1>1, <2>1 DEF JumpOps, Frame
    <2>4. 1 <= sp /\ sp <= StackSize
        BY <1>0, <2>1, OneOperand
    <2>5. sp' = sp - 1 /\ UNCHANGED <<stack, status, reason>>
        BY <1>3 DEF OpJumpNotTruthy, Keep
    <2>6. NextRegisters(Object)
        BY <1>1, <2>4, <2>5 DEF IInv, Registers, NextRegisters
    <2>7. NextFrames
        BY <1>0, <2>2, <2>3, <2>5, JumpFrames DEF Pure, InFrame
    <2> QED BY <1>0, <2>6, <2>7, PureStep DEF Pure, InFrame
<1>4. CASE OpJumpNotTruthy /\ ~HasTruth(Peek(1))
    <2>1. Advance /\ Panic("unsupported type cast to boolean")
        BY <1>4 DEF OpJumpNotTruthy
    <2>2. "unsupported type cast to boolean" \in PanicReasons
        BY DEF PanicReasons
    <2> QED BY <1>0, <1>1, <2>1, <2>2, PureError
<1> QED BY <1>2, <1>3, <1>4

\* OpSetGlobal and OpSetLocal write an object.
LEMMA AssignmentType ==
    ASSUME IInv, OpSetGlobal \/ OpSetLocal
    PROVE  IInv'
<1>0. /\ Fetched /\ status = "running" /\ InBounds /\ Advance /\ InFrame
      /\ Ins.op \in {"OpSetGlobal", "OpSetLocal"}
      /\ sp' = sp - 1 /\ UNCHANGED <<status, reason, closures, arrays, hashes>>
    BY DEF OpSetGlobal, OpSetLocal, Fetch, Fetched, Keep, heapVars, Pure
<1>1. 1 <= sp /\ sp <= StackSize /\ sp \in Nat
    BY <1>0, OneOperand DEF IInv, Registers
<1>2. Peek(1) \in Object
    BY <1>1, OnStack
<1>3. /\ stack' \in [0..(StackSize - 1) -> Object]
      /\ globals' \in [0..(GlobalsSize - 1) -> Object]
    <2>1. CASE OpSetGlobal
        BY <1>2, <2>1 DEF OpSetGlobal, IInv, Registers, Memory
    <2>2. CASE OpSetLocal
        BY <1>2, <2>2 DEF OpSetLocal, Pure, IInv, Registers, Memory
    <2> QED BY <2>1, <2>2
<1>4. NextRegisters(Object)
    BY <1>0, <1>1, <1>3 DEF IInv, Registers, NextRegisters
<1>5. NextFrames
    BY <1>0, AdvanceFrames DEF InFrame
<1>6. Object' = Object
    BY <1>0, ObjectKept DEF InFrame
<1>7. Memory(Object)'
    BY <1>0, <1>3, <1>6 DEF IInv, Memory, InFrame
<1>8. Registers(Object)'
    BY <1>4, <1>6 DEF Registers, NextRegisters
<1>9. FramesTyped'
    BY <1>0, <1>5 DEF IInv, FramesTyped, NextFrames
<1> QED BY <1>0, <1>7, <1>8, <1>9 DEF IInv, InFrame

\* A return leaves at least one frame: the main frame has no slot for its result.
LEMMA ReturnType ==
    ASSUME IInv, OpReturn
    PROVE  IInv'
<1>0. /\ Fetched /\ status = "running" /\ InBounds /\ Ins.op \in ReturnOps
      /\ frameIndex' = frameIndex - 1
      /\ UNCHANGED <<prog, globals, frames, closures, arrays, hashes, answer>>
    BY DEF OpReturn, Fetch, Fetched
<1>1. Top \in Frame /\ Top.bp >= 1 /\ frameIndex \in 1..MaxFrames
    BY <1>0, Context DEF InBounds, ReturnOps, IInv, FramesTyped
<1>2. frameIndex # 1
    BY <1>1 DEF Top, IInv, FramesTyped
<1>3. PICK v \in Object : Push(Top.bp - 1, v)
    <2>1. CASE Ins.op = "OpReturn"
        BY <2>1, ObjectLiterals DEF OpReturn
    <2>2. CASE Ins.op = "OpReturnValue"
        <3>1. Peek(1) \in Object
            BY <1>0, <2>2, OneOperand, OnStack
        <3> QED BY <2>2, <3>1 DEF OpReturn
    <2> QED BY <1>0, <2>1, <2>2 DEF ReturnOps
<1>4. Top.bp - 1 \in Nat
    BY <1>1 DEF Frame
<1>5. NextRegisters(Object)
    BY <1>3, <1>4, PushRegisters DEF IInv
<1>6. NextFrames
    <2>1. frameIndex' \in 0..MaxFrames /\ frameIndex' >= 1
        BY <1>0, <1>1, <1>2, Parameters
    <2> QED BY <1>0, <2>1 DEF IInv, FramesTyped, NextFrames
<1> QED BY <1>0, <1>5, <1>6, PureStep

\* A call pushes a frame whose closure exists, while there is room for it.
LEMMA CallType ==
    ASSUME IInv, CallClosure
    PROVE  IInv'
<1>0. /\ Fetched /\ status = "running" /\ InBounds /\ Ins.op = "OpCall"
      /\ Callee[1] = "CLOSURE" /\ frameIndex < MaxFrames
      /\ frameIndex' = frameIndex + 1 /\ sp' = sp - Ins.a + CalleeFn.numLocals
      /\ UNCHANGED <<prog, globals, stack, closures, arrays, hashes, answer, status, reason>>
    BY DEF CallClosure, Fetch, Fetched, Keep
<1>1. /\ Ins.a \in Nat /\ sp \in Nat /\ StackSize \in Nat
      /\ Top \in Frame /\ frameIndex \in 1..MaxFrames
    BY <1>0, InstructionType, Context, Parameters
       DEF Instruction, IInv, Registers, FramesTyped
<1>2. sp - Ins.a - 1 \in 0..(StackSize - 1)
    BY <1>0 DEF InBounds
<1>3. sp - (Ins.a + 1) \in 0..(StackSize - 1) /\ sp - Ins.a \in Nat
    BY <1>1, <1>2
<1>4. Callee \in Object
    BY <1>3 DEF Callee, Peek, IInv, Registers
<1>5. Callee[2] \in 1..Len(closures)
    BY <1>0, <1>4, ObjectLiterals, HeapSizes
<1>6. closures[Callee[2]] \in [fn : DOMAIN prog.fns, free : Seq(Object)]
    BY <1>5, ElementOfSeq DEF IInv, Memory
<1>7. CalleeFn.numLocals \in Nat
    <2>1. CalleeFn = prog.fns[closures[Callee[2]].fn]
        BY DEF CalleeFn, FnOf, Fn
    <2> QED BY <1>6, <2>1, Parameters DEF IInv, Function
<1>8. NextRegisters(Object)
    BY <1>0, <1>3, <1>7 DEF IInv, Registers, NextRegisters
<1>9. NewFrame(Callee[2], sp - Ins.a) \in Frame
    BY <1>3, <1>5, HeapSizes DEF NewFrame, Frame
<1>10. frames' = [[frames EXCEPT ![frameIndex - 1].pc = @ + 1]
                    EXCEPT ![frameIndex] = NewFrame(Callee[2], sp - Ins.a)]
    BY DEF CallClosure
<1> DEFINE moved == [frames EXCEPT ![frameIndex - 1].pc = @ + 1]
<1>11. /\ moved \in [0..(MaxFrames - 1) -> Frame]
       /\ \A j \in 0..(MaxFrames - 1) :
            moved[j].cl = frames[j].cl /\ moved[j].bp = frames[j].bp
    <2>1. frameIndex - 1 \in 0..(MaxFrames - 1)
        BY <1>0, Context
    <2>2. frames \in [0..(MaxFrames - 1) -> Frame]
        BY DEF IInv, FramesTyped
    <2>3. [frames[frameIndex - 1] EXCEPT !.pc = @ + 1] \in Frame
        BY <2>1, <2>2 DEF Frame
    <2> QED BY <2>1, <2>2, <2>3 DEF Frame
<1> HIDE DEF moved
<1>12. frameIndex \in 0..(MaxFrames - 1) /\ 0 \in 0..(MaxFrames - 1) /\ frameIndex # 0
    BY <1>0, <1>1, Parameters
<1>13. /\ frames' \in [0..(MaxFrames - 1) -> Frame]
       /\ \A j \in 0..(MaxFrames - 1) :
            frames'[j] = IF j = frameIndex THEN NewFrame(Callee[2], sp - Ins.a) ELSE moved[j]
    BY <1>9, <1>10, <1>11 DEF moved
<1>14. /\ \A j \in 0..(MaxFrames - 1) : frames'[j].cl \in 1..Len(closures)
       /\ frames'[0].bp = 0
    BY <1>5, <1>11, <1>12, <1>13 DEF NewFrame, IInv, FramesTyped
<1>15. NextFrames
    BY <1>0, <1>12, <1>13, <1>14, Parameters DEF NextFrames
<1> QED BY <1>0, <1>8, <1>15, PureStep

\* The steps that end a run.
LEMMA EndType ==
    ASSUME IInv, IndexOutOfRange \/ EndOfCode \/ Report
    PROVE  IInv'
<1>1. UNCHANGED <<prog, globals, stack, sp, frames, frameIndex, closures, arrays, hashes>>
    BY DEF IndexOutOfRange, EndOfCode, Report, Silent
<1>2. Object' = Object
    BY <1>1, ObjectKept
<1>3. answer' \in Object
    <2>1. answer \in Object
        BY DEF IInv, Memory
    <2>2. sp < StackSize => stack[sp] \in Object
        BY Parameters DEF IInv, Registers
    <2> QED BY <2>1, <2>2 DEF IndexOutOfRange, EndOfCode, Report
<1>4. status' \in {"returned", "panicked", "reported"}
    BY DEF IndexOutOfRange, EndOfCode, Report, Stop
<1>5. reason' \in {"none"} \cup Errors \cup PanicReasons
    BY DEF IndexOutOfRange, EndOfCode, Report, Stop, PanicReasons, IInv, Registers
<1>6. Registers(Object)'
    BY <1>1, <1>2, <1>4, <1>5 DEF IInv, Registers
<1>7. Memory(Object)'
    BY <1>1, <1>2, <1>3 DEF IInv, Memory
<1>8. FramesTyped'
    BY <1>1, <1>4 DEF IInv, FramesTyped
<1> QED BY <1>1, <1>6, <1>7, <1>8 DEF IInv

-----------------------------------------------------------------------------
\* The initial states satisfy the inductive invariant.
LEMMA InitType == Init => IInv
<1> SUFFICES ASSUME Init PROVE IInv
    OBVIOUS
<1>1. WellFormed(prog) /\ 0 \in DOMAIN prog.fns /\ Len(closures) = 1
    BY VMAssumption, Parameters DEF Init
<1>2. Len(arrays) = 0 /\ Len(hashes) = 0
    BY DEF Init
<1>3. Nil \in Object
    <2>1. FirstClosure \in Nat
        BY DEF FirstClosure
    <2> QED BY <1>1, <1>2, <2>1, Literals DEF Object
<1>4. Registers(Object)
    BY <1>3, Parameters DEF Init, Registers
<1>5. Memory(Object)
    <2>1. globals \in [0..(GlobalsSize - 1) -> Object] /\ answer \in Object
        BY <1>3 DEF Init
    <2>2. [fn |-> 0, free |-> <<>>] \in [fn : DOMAIN prog.fns, free : Seq(Object)]
        BY <1>1, EmptySeq
    <2>3. closures \in Seq([fn : DOMAIN prog.fns, free : Seq(Object)])
        BY <2>2 DEF Init
    <2>4. arrays \in Seq(Seq(Object)) /\ hashes \in Seq(SUBSET (Object \X Object))
        BY EmptySeq DEF Init
    <2> QED BY <2>1, <2>3, <2>4 DEF Memory
<1>6. FramesTyped
    BY <1>1, Parameters DEF Init, FramesTyped, NewFrame, Frame
<1> QED BY <1>1, <1>4, <1>5, <1>6 DEF IInv

\* Every step preserves it.
LEMMA NextType == IInv /\ [Next]_vars => IInv'
<1> SUFFICES ASSUME IInv, [Next]_vars PROVE IInv'
    OBVIOUS
<1>1. CASE UNCHANGED vars
    <2>1. Object' = Object
        BY <1>1, ObjectKept DEF vars
    <2> QED BY <1>1, <2>1 DEF vars, IInv, Registers, Memory, FramesTyped
<1>2. CASE Next
    BY <1>2, PureActionsType, OpClosureType, OpArrayType, OpHashType, BuiltinStepType,
       JumpType, AssignmentType, ReturnType, CallType, EndType
    DEF Next, Step
<1> QED BY <1>1, <1>2

(***************************************************************************)
(* The machine is type correct, whatever program it runs and however small  *)
(* its stack: every slot of the stack, the globals, the arrays and the      *)
(* hashes holds an object whose heap position exists, and a return in the   *)
(* main program never takes the last frame away.                            *)
(***************************************************************************)
THEOREM TypeCorrect == Spec => []TypeOK
<1>1. Init => IInv
    BY InitType
<1>2. IInv /\ [Next]_vars => IInv'
    BY NextType
<1>3. IInv => TypeOK
    BY IInvImpliesTypeOK
<1> QED BY <1>1, <1>2, <1>3, PTL DEF Spec
=============================================================================
