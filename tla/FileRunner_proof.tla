---------------------------- MODULE FileRunner_proof ----------------------------
(***************************************************************************)
(* For every program and every way to stop: a koko file runs as the program  *)
(* it was made from, or as the beginning of one, or is refused.              *)
(***************************************************************************)
EXTENDS FileRunner, SequenceTheorems, Induction

-----------------------------------------------------------------------------
(***************************************************************************)
(* Varints.                                                                 *)
(***************************************************************************)
LEMMA Division ==
    ASSUME NEW u \in Nat
    PROVE  /\ u \div VarintBase \in Nat /\ u % VarintBase \in 0..(VarintBase - 1)
           /\ u = (u \div VarintBase) * VarintBase + (u % VarintBase)
           /\ u \div VarintBase = 0 => u < VarintBase
BY SerializationAssumption, SMTT(30)

LEMMA ZigzagNatural == ASSUME NEW v \in Int PROVE Zigzag(v) \in Nat
BY DEF Zigzag

LEMMA ZigzagBack ==
    ASSUME NEW v \in Int, NEW u, u = Zigzag(v)
    PROVE  v = IF u % 2 = 0 THEN u \div 2 ELSE -((u + 1) \div 2)
BY DEF Zigzag

\* The digits are taken off one by one.
LEMMA ShiftedIs ==
    ASSUME NEW u \in Nat
    PROVE  /\ Shifted(u) \in [0..VarintLen -> Nat] /\ Shifted(u)[0] = u
           /\ \A i \in 1..VarintLen : Shifted(u)[i] = Shifted(u)[i - 1] \div VarintBase
<1> DEFINE Equation(f) == f = [i \in 0..VarintLen |-> IF i = 0 THEN u ELSE f[i - 1] \div VarintBase]
           D == [x \in Nat \X (1..VarintLen) |-> x[1] \div VarintBase]
<1>1. VarintLen \in Nat /\ D \in Steps(Nat, VarintLen)
    BY SerializationAssumption, Division DEF Steps
<1>2. PICK f : Recursive(f, Nat, VarintLen, u, D)
    BY <1>1, FiniteRecursion
<1>3. Equation(f)
    <2>1. f \in [0..VarintLen -> Nat] /\ f[0] = u /\ \A k \in 1..VarintLen : f[k] = D[<<f[k - 1], k>>]
        BY <1>2 DEF Recursive
    <2>2. ASSUME NEW k \in 1..VarintLen PROVE f[k] = f[k - 1] \div VarintBase
        <3>1. <<f[k - 1], k>> \in Nat \X (1..VarintLen)
            BY <1>1, <2>1
        <3> QED BY <2>1, <3>1
    <2> QED BY <1>1, <2>1, <2>2
<1>4. Shifted(u) = CHOOSE g : Equation(g)
    BY DEF Shifted
<1>5. Equation(Shifted(u))
    BY <1>3, <1>4
<1>6. /\ Shifted(u)[0] = u /\ DOMAIN Shifted(u) = 0..VarintLen
      /\ \A i \in 1..VarintLen : Shifted(u)[i] = Shifted(u)[i - 1] \div VarintBase
    BY <1>1, <1>5
<1>7. StepAlike(Shifted(u), f, VarintLen)
    BY <1>1, <1>3, <1>6 DEF StepAlike
<1>8. \A i \in 0..VarintLen : Shifted(u)[i] = f[i]
    BY <1>1, <1>7, SameRecursion DEF AlikeUpTo
<1>9. Shifted(u) \in [0..VarintLen -> Nat]
    BY <1>2, <1>5, <1>8 DEF Recursive
<1> QED BY <1>6, <1>9

\* A number that fits is written in digits with the high bit, the last without.
LEMMA PutVarintIs ==
    ASSUME NEW v \in Int, Fits(v), NEW left, left = Shifted(Zigzag(v))
    PROVE  /\ PutVarint(v) \in Seq(Byte) /\ Len(PutVarint(v)) = VarintLen
           /\ \E m \in 1..VarintLen :
                /\ left[m] = 0 /\ PutVarint(v)[m] < VarintBase
                /\ \A i \in 1..(m - 1) : ~(PutVarint(v)[i] < VarintBase)
                /\ \A i \in 1..m : PutVarint(v)[i] % VarintBase = left[i - 1] % VarintBase
<1> DEFINE p == PutVarint(v)
           Zeros == {i \in 1..VarintLen : left[i] = 0}
<1>1. VarintLen \in Nat /\ VarintLen >= 1 /\ VarintBase \in Nat /\ VarintBase >= 2
    BY SerializationAssumption
<1>2. /\ left \in [0..VarintLen -> Nat] /\ left[VarintLen] = 0
      /\ \A i \in 1..VarintLen : left[i] = left[i - 1] \div VarintBase
    BY ZigzagNatural, ShiftedIs DEF Fits
<1>3. p = [i \in 1..VarintLen |-> IF left[i] = 0 THEN left[i - 1] ELSE VarintBase + (left[i - 1] % VarintBase)]
    BY DEF PutVarint
<1> HIDE DEF p
<1>4. ASSUME NEW i \in 1..VarintLen
      PROVE  /\ p[i] \in Byte /\ (p[i] < VarintBase <=> left[i] = 0)
             /\ p[i] % VarintBase = left[i - 1] % VarintBase
    <2>1. i - 1 \in 0..VarintLen /\ left[i - 1] \in Nat /\ left[i] = left[i - 1] \div VarintBase
        BY <1>1, <1>2
    <2>2. /\ left[i - 1] % VarintBase \in 0..(VarintBase - 1)
          /\ left[i] = 0 => left[i - 1] < VarintBase
        BY <2>1, Division
    <2>3. p[i] = IF left[i] = 0 THEN left[i - 1] ELSE VarintBase + (left[i - 1] % VarintBase)
        BY <1>3
    <2>4. (VarintBase + (left[i - 1] % VarintBase)) % VarintBase = left[i - 1] % VarintBase
        BY <2>2, <1>1
    <2> QED BY <2>1, <2>2, <2>3, <2>4, <1>1 DEF Byte
<1>5. p \in Seq(Byte) /\ Len(p) = VarintLen
    <2>1. DOMAIN p = 1..VarintLen /\ p \in [1..VarintLen -> Byte]
        BY <1>3, <1>4
    <2> QED BY <2>1, <1>1
<1>6. VarintLen \in Zeros /\ Zeros \in SUBSET Nat
    BY <1>1, <1>2
<1>7. PICK m \in Zeros : \A n \in Zeros : m <= n
    BY <1>6, LeastNatural
<1>8. ASSUME NEW i \in 1..(m - 1) PROVE ~(p[i] < VarintBase)
    <2>1. i \in 1..VarintLen /\ ~(m <= i)
        BY <1>1, <1>6, <1>7
    <2>2. i \notin Zeros
        BY <2>1, <1>7
    <2> QED BY <2>1, <2>2, <1>4
<1>9. \A i \in 1..m : i \in 1..VarintLen
    BY <1>1
<1> QED BY <1>4, <1>5, <1>7, <1>8, <1>9 DEF p

LEMMA GatheredIs ==
    ASSUME NEW bs \in Seq(Byte), NEW n \in 0..Len(bs)
    PROVE  /\ Gathered(bs, n)[0] = 0
           /\ \A k \in 1..n : Gathered(bs, n)[k] = Gathered(bs, n)[k - 1] * VarintBase + (bs[(n - k) + 1] % VarintBase)
<1> DEFINE Equation(f) == f = [k \in 0..n |-> IF k = 0 THEN 0
                                              ELSE f[k - 1] * VarintBase + (bs[(n - k) + 1] % VarintBase)]
           D == [x \in Nat \X (1..n) |-> x[1] * VarintBase + (bs[(n - x[2]) + 1] % VarintBase)]
<1>1. n \in Nat /\ VarintBase \in Nat /\ VarintBase >= 2 /\ Len(bs) \in Nat
    BY SerializationAssumption
<1>2. ASSUME NEW a \in Nat, NEW k \in 1..n
      PROVE  a * VarintBase + (bs[(n - k) + 1] % VarintBase) \in Nat
    <2>1. (n - k) + 1 \in 1..Len(bs)
        BY <1>1
    <2>2. bs[(n - k) + 1] \in Nat
        BY <2>1, <1>1 DEF Byte
    <2>3. bs[(n - k) + 1] % VarintBase \in 0..(VarintBase - 1)
        BY <2>2, Division, Zenon
    <2>4. a * VarintBase \in Nat
        BY <1>1
    <2> QED BY <2>3, <2>4, <1>1
<1>3. D \in Steps(Nat, n)
    BY <1>2 DEF Steps
<1>4. PICK f : Recursive(f, Nat, n, 0, D)
    BY <1>1, <1>3, FiniteRecursion
<1>5. Equation(f)
    <2>1. f \in [0..n -> Nat] /\ f[0] = 0 /\ \A k \in 1..n : f[k] = D[<<f[k - 1], k>>]
        BY <1>4 DEF Recursive
    <2>2. ASSUME NEW k \in 1..n PROVE f[k] = f[k - 1] * VarintBase + (bs[(n - k) + 1] % VarintBase)
        <3>1. <<f[k - 1], k>> \in Nat \X (1..n)
            BY <1>1, <2>1
        <3> QED BY <2>1, <3>1
    <2> QED BY <1>1, <2>1, <2>2
<1>6. Gathered(bs, n) = CHOOSE g : Equation(g)
    BY DEF Gathered
<1>7. Equation(Gathered(bs, n))
    BY <1>5, <1>6
<1> QED BY <1>1, <1>7

\* As far as both go, the bytes are those of s.
Agrees(bs, s) == \A i \in 1..Len(bs) : i <= Len(s) => bs[i] = s[i]

\* The number that was written is the number that is read, from all of its bytes or from
\* so many that its last digit is there.
LEMMA VarintIs ==
    ASSUME NEW bs \in Seq(Byte), NEW v \in Int, Fits(v), Agrees(bs, PutVarint(v))
    PROVE  \/ Varint(bs) = [value |-> 0, n |-> 0] /\ Len(bs) < VarintLen
           \/ Varint(bs).value = v /\ ~Bad(Varint(bs))
<1> DEFINE p == PutVarint(v)
           left == Shifted(Zigzag(v))
           Ends == {i \in 1..Len(bs) : bs[i] < VarintBase}
           n == SelectInSeq(bs, LAMBDA x : x < VarintBase)
<1>1. VarintLen \in Nat /\ VarintBase \in Nat /\ VarintBase >= 2 /\ Len(bs) \in Nat
    BY SerializationAssumption
<1>2. /\ left \in [0..VarintLen -> Nat] /\ left[0] = Zigzag(v)
      /\ \A i \in 1..VarintLen : left[i] = left[i - 1] \div VarintBase
    BY ZigzagNatural, ShiftedIs
<1>3. Len(p) = VarintLen
    BY PutVarintIs
<1>4. PICK m \in 1..VarintLen :
        /\ left[m] = 0 /\ p[m] < VarintBase /\ \A i \in 1..(m - 1) : ~(p[i] < VarintBase)
        /\ \A i \in 1..m : p[i] % VarintBase = left[i - 1] % VarintBase
    BY PutVarintIs
<1>5. \A i \in 1..Len(bs) : i <= VarintLen => bs[i] = p[i]
    BY <1>3 DEF Agrees
<1>6. n = IF Ends # {} THEN Min(Ends) ELSE 0
    BY DEF SelectInSeq
<1>7. n = IF m <= Len(bs) THEN m ELSE 0
    <2>1. ASSUME NEW i \in Ends PROVE m <= i
        <3> SUFFICES ASSUME i < m PROVE FALSE
            BY <1>1
        <3>1. i \in 1..(m - 1) /\ i \in 1..Len(bs) /\ i <= VarintLen /\ bs[i] < VarintBase
            BY <1>1
        <3> QED BY <3>1, <1>4, <1>5
    <2>2. CASE m <= Len(bs)
        <3>1. m \in 1..Len(bs) /\ bs[m] = p[m]
            BY <2>2, <1>1, <1>5
        <3>2. m \in Ends
            BY <3>1, <1>4
        <3>3. Min(Ends) \in Ends /\ \A i \in Ends : Min(Ends) <= i
            BY <2>1, <3>2 DEF Min
        <3>4. Min(Ends) = m
            BY <2>1, <3>2, <3>3, <1>1
        <3> QED BY <1>6, <2>2, <3>2, <3>4
    <2>3. CASE ~(m <= Len(bs))
        <3>1. Ends = {}
            BY <2>1, <2>3, <1>1
        <3> QED BY <1>6, <2>3, <3>1
    <2> QED BY <2>2, <2>3
<1> HIDE DEF n, p, left, Ends
<1>8. CASE m <= Len(bs)
    <2> DEFINE g == Gathered(bs, m)
               h == [k \in 0..m |-> left[m - k]]
    <2>1. m \in 0..Len(bs) /\ m \in Nat /\ m <= VarintLen /\ m # 0
        BY <1>8, <1>1
    <2>2. g[0] = 0 /\ \A k \in 1..m : g[k] = g[k - 1] * VarintBase + (bs[(m - k) + 1] % VarintBase)
        BY <2>1, GatheredIs
    <2> HIDE DEF g
    <2>3. ASSUME NEW k \in 1..m, g[k - 1] = left[m - (k - 1)] PROVE g[k] = left[m - k]
        <3>1. /\ (m - k) + 1 \in 1..m /\ (m - k) + 1 \in 1..VarintLen /\ (m - k) + 1 \in 1..Len(bs)
              /\ m - (k - 1) = (m - k) + 1 /\ ((m - k) + 1) - 1 = m - k /\ m - k \in 0..VarintLen
            BY <1>1, <1>8, <2>1
        <3>2. bs[(m - k) + 1] % VarintBase = left[m - k] % VarintBase
            <4>1. bs[(m - k) + 1] = p[(m - k) + 1]
                BY <3>1, <1>5
            <4>2. p[(m - k) + 1] % VarintBase = left[((m - k) + 1) - 1] % VarintBase
                BY <3>1, <1>4, Zenon
            <4> QED BY <4>1, <4>2, <3>1, Zenon
        <3>3. left[(m - k) + 1] = left[m - k] \div VarintBase /\ left[m - k] \in Nat
            BY <3>1, <1>2
        <3>4. left[m - k] = (left[m - k] \div VarintBase) * VarintBase + (left[m - k] % VarintBase)
            BY <3>3, Division
        <3> QED BY <2>2, <2>3, <3>1, <3>2, <3>3, <3>4
    <2>4. h[0] = 0 /\ \A k \in 1..m : h[k - 1] = left[m - (k - 1)] /\ h[k] = left[m - k]
        BY <2>1, <1>4
    <2>5. StepAlike(g, h, m)
        BY <2>2, <2>3, <2>4 DEF StepAlike
    <2>6. g[m] = h[m]
        BY <2>1, <2>5, SameRecursion DEF AlikeUpTo
    <2>7. g[m] = Zigzag(v)
        BY <2>1, <2>6, <1>2
    <2>8. n = m /\ Varint(bs).n = m
        BY <2>1, <1>7, <1>8 DEF Varint, n
    <2>9. Varint(bs).value = IF Zigzag(v) % 2 = 0 THEN Zigzag(v) \div 2 ELSE -((Zigzag(v) + 1) \div 2)
        BY <2>1, <2>7, <2>8 DEF Varint, n, g
    <2> QED BY <2>1, <2>8, <2>9, ZigzagBack, <1>1 DEF Bad
<1>9. CASE ~(m <= Len(bs))
    <2>1. Varint(bs) = [value |-> 0, n |-> 0] /\ Len(bs) < VarintLen
        BY <1>1, <1>7, <1>9 DEF Varint, n
    <2> QED BY <2>1
<1> QED BY <1>8, <1>9

-----------------------------------------------------------------------------
(***************************************************************************)
(* Constants.                                                               *)
(***************************************************************************)
LEMMA Joined ==
    ASSUME NEW s \in Seq(Byte), NEW t \in Seq(Byte)
    PROVE  /\ s \o t \in Seq(Byte) /\ Len(s \o t) = Len(s) + Len(t)
           /\ \A i \in 1..Len(s) : (s \o t)[i] = s[i]
           /\ \A i \in 1..Len(t) : (s \o t)[Len(s) + i] = t[i]
<1>1. /\ s \o t \in Seq(Byte) /\ Len(s \o t) = Len(s) + Len(t)
      /\ \A i \in 1..(Len(s) + Len(t)) : (s \o t)[i] = IF i <= Len(s) THEN s[i] ELSE t[i - Len(s)]
    BY ConcatProperties, Zenon
<1>2. Len(s) \in Nat /\ Len(t) \in Nat
    OBVIOUS
<1>3. ASSUME NEW i \in 1..Len(t) PROVE (s \o t)[Len(s) + i] = t[i]
    <2>1. Len(s) + i \in 1..(Len(s) + Len(t)) /\ ~(Len(s) + i <= Len(s)) /\ (Len(s) + i) - Len(s) = i
        BY <1>2
    <2> QED BY <1>1, <2>1
<1> QED BY <1>1, <1>2, <1>3

LEMMA DropIs ==
    ASSUME NEW bs \in Seq(Byte), NEW k \in 0..Len(bs)
    PROVE  /\ Drop(bs, k) \in Seq(Byte) /\ Len(Drop(bs, k)) = Len(bs) - k
           /\ \A i \in 1..(Len(bs) - k) : Drop(bs, k)[i] = bs[k + i]
<1>1. Len(bs) \in Nat /\ \A i \in (k + 1)..Len(bs) : bs[i] \in Byte
    OBVIOUS
<1>2. /\ Drop(bs, k) \in Seq(Byte)
      /\ Len(Drop(bs, k)) = IF k + 1 <= Len(bs) THEN Len(bs) - (k + 1) + 1 ELSE 0
      /\ \A i \in 1..(Len(bs) - (k + 1) + 1) : Drop(bs, k)[i] = bs[(k + 1) + i - 1]
    BY <1>1, SubSeqProperties DEF Drop
<1>3. Len(bs) - (k + 1) + 1 = Len(bs) - k /\ (~(k + 1 <= Len(bs)) => Len(bs) - k = 0)
    BY <1>1
<1>4. \A i \in 1..(Len(bs) - k) : (k + 1) + i - 1 = k + i
    BY <1>1
<1> QED BY <1>2, <1>3, <1>4

LEMMA TailIs == ASSUME NEW bs \in Seq(Byte), bs # <<>> PROVE Tail(bs) = Drop(bs, 1) /\ 1 \in 0..Len(bs)
<1>1. /\ Tail(bs) \in Seq(Byte) /\ Len(Tail(bs)) = Len(bs) - 1 /\ Len(bs) \in Nat /\ 1 \in 0..Len(bs)
      /\ \A i \in 1..(Len(bs) - 1) : Tail(bs)[i] = bs[i + 1]
    OBVIOUS
<1>2. /\ Drop(bs, 1) \in Seq(Byte) /\ Len(Drop(bs, 1)) = Len(bs) - 1
      /\ \A i \in 1..(Len(bs) - 1) : Drop(bs, 1)[i] = bs[1 + i]
    BY <1>1, DropIs
<1>3. \A i \in 1..(Len(bs) - 1) : i + 1 = 1 + i
    OBVIOUS
<1>4. Tail(bs) = Drop(bs, 1)
    BY <1>1, <1>2, <1>3, SeqEqual
<1> QED BY <1>1, <1>4

\* What agrees with a whole goes on agreeing with its second part.
LEMMA AgreesBehind ==
    ASSUME NEW bs \in Seq(Byte), NEW s \in Seq(Byte), NEW t \in Seq(Byte), NEW k \in 0..Len(bs),
           Agrees(bs, s), \A i \in 1..Len(t) : k + i <= Len(s) /\ s[k + i] = t[i]
    PROVE  Drop(bs, k) \in Seq(Byte) /\ Len(Drop(bs, k)) = Len(bs) - k /\ Agrees(Drop(bs, k), t)
<1>1. /\ Drop(bs, k) \in Seq(Byte) /\ Len(Drop(bs, k)) = Len(bs) - k
      /\ \A i \in 1..(Len(bs) - k) : Drop(bs, k)[i] = bs[k + i]
    BY DropIs
<1>2. Len(bs) \in Nat /\ Len(t) \in Nat
    OBVIOUS
<1>3. ASSUME NEW i \in 1..(Len(bs) - k), i <= Len(t) PROVE Drop(bs, k)[i] = t[i]
    <2>1. i \in 1..Len(t) /\ k + i \in 1..Len(bs)
        BY <1>2, <1>3
    <2>2. bs[k + i] = s[k + i]
        BY <2>1 DEF Agrees
    <2> QED BY <2>1, <2>2, <1>1
<1> QED BY <1>1, <1>3 DEF Agrees

LEMMA VarintOf ==
    ASSUME NEW v \in Int, Fits(v)
    PROVE  PutVarint(v) \in Seq(Byte) /\ Len(PutVarint(v)) = VarintLen
BY PutVarintIs

Marked(mark, s) == <<mark>> \o s

LEMMA MarkedIs ==
    ASSUME NEW mark \in Byte, NEW s \in Seq(Byte)
    PROVE  /\ Marked(mark, s) \in Seq(Byte) /\ Len(Marked(mark, s)) = 1 + Len(s) /\ Marked(mark, s)[1] = mark
           /\ \A i \in 1..Len(s) : Marked(mark, s)[1 + i] = s[i]
<1>1. <<mark>> \in Seq(Byte) /\ Len(<<mark>>) = 1 /\ <<mark>>[1] = mark
    OBVIOUS
<1> DEFINE m == <<mark>>
<1> HIDE DEF m
<1>2. /\ m \o s \in Seq(Byte) /\ Len(m \o s) = Len(m) + Len(s)
      /\ \A i \in 1..Len(m) : (m \o s)[i] = m[i]
      /\ \A i \in 1..Len(s) : (m \o s)[Len(m) + i] = s[i]
    BY <1>1, Joined, Zenon DEF m
<1>3. Len(m) = 1 /\ m[1] = mark
    BY <1>1 DEF m
<1>4. Marked(mark, s) = m \o s
    BY DEF Marked, m
<1> QED BY <1>2, <1>3, <1>4

LEMMA MarksAreBytes ==
    /\ IntegerMark \in Byte /\ StringMark \in Byte /\ FunctionMark \in Byte /\ BytecodeMark \in Byte
    /\ VarintLen \in Nat /\ VarintLen >= 1 /\ Header = 1 + VarintLen
BY SerializationAssumption DEF IntegerMark, StringMark, FunctionMark, BytecodeMark, Byte, Header

\* What reading the constant c from bs gives.
ReadsConstant(bs, c) ==
    \/ /\ DeserializeConstant(bs) = Panicked
       /\ Len(bs) < Len(Serialize(c)) \/ c[1] = "STRING"
    \/ DeserializeConstant(bs) = Read(Len(Serialize(c)), c) /\ Len(Serialize(c)) <= Len(bs)

LEMMA IntegerBytes ==
    ASSUME NEW v \in Int, Fits(v), NEW s, s = Serialize(Integer(v))
    PROVE  /\ s \in Seq(Byte) /\ Len(s) = Header /\ s[1] = IntegerMark
           /\ \A i \in 1..VarintLen : s[1 + i] = PutVarint(v)[i]
<1> DEFINE p == PutVarint(v)
<1>1. s = Marked(IntegerMark, p)
    BY DEF Serialize, Integer, Marked
<1>2. p \in Seq(Byte) /\ Len(p) = VarintLen
    BY VarintOf
<1> HIDE DEF p
<1>3. /\ Marked(IntegerMark, p) \in Seq(Byte) /\ Len(Marked(IntegerMark, p)) = 1 + Len(p)
      /\ Marked(IntegerMark, p)[1] = IntegerMark
      /\ \A i \in 1..Len(p) : Marked(IntegerMark, p)[1 + i] = p[i]
    BY <1>2, MarkedIs, MarksAreBytes, Zenon
<1> QED BY <1>3, <1>1, <1>2, MarksAreBytes DEF p

LEMMA IntegerRead ==
    ASSUME NEW v \in Int, Fits(v), NEW bs \in Seq(Byte), bs # <<>>, Agrees(bs, Serialize(Integer(v)))
    PROVE  bs[1] = IntegerMark /\ ReadsConstant(bs, Integer(v))
<1> DEFINE s == Serialize(Integer(v))
           p == PutVarint(v)
<1>1. p \in Seq(Byte) /\ Len(p) = VarintLen
    BY VarintOf
<1>2. /\ s \in Seq(Byte) /\ Len(s) = Header /\ s[1] = IntegerMark
      /\ \A i \in 1..VarintLen : s[1 + i] = p[i]
    BY IntegerBytes
<1>3. Len(bs) \in Nat /\ 1 \in 0..Len(bs) /\ Tail(bs) = Drop(bs, 1)
    BY TailIs
<1> HIDE DEF s, p
<1>4. bs[1] = IntegerMark
    BY <1>2, <1>3, MarksAreBytes DEF Agrees, s
<1>5. Drop(bs, 1) \in Seq(Byte) /\ Len(Drop(bs, 1)) = Len(bs) - 1 /\ Agrees(Drop(bs, 1), p)
    <2>1. \A i \in 1..Len(p) : 1 + i <= Len(s) /\ s[1 + i] = p[i]
        BY <1>1, <1>2, MarksAreBytes
    <2> QED BY <2>1, <1>1, <1>2, <1>3, AgreesBehind DEF s
<1>6. \/ Len(bs) < Header
      \/ Varint(Tail(bs)).value = v /\ ~Bad(Varint(Tail(bs)))
    <2>1. \/ Len(Drop(bs, 1)) < VarintLen
          \/ Varint(Drop(bs, 1)).value = v /\ ~Bad(Varint(Drop(bs, 1)))
        BY <1>5, VarintIs DEF p
    <2>2. Len(Drop(bs, 1)) < VarintLen => Len(bs) < Header
        BY <1>3, <1>5, MarksAreBytes
    <2> QED BY <2>1, <2>2, <1>3, Zenon
<1>7. DeserializeConstant(bs) = DeserializeInteger(bs)
    BY <1>4 DEF DeserializeConstant, IntegerMark, StringMark, FunctionMark
<1> QED BY <1>2, <1>3, <1>4, <1>6, <1>7, MarksAreBytes DEF DeserializeInteger, ReadsConstant, s

LEMMA StringBytes ==
    ASSUME NEW t \in Seq(Byte), Fits(Len(t)), NEW s, s = Serialize(String(t))
    PROVE  /\ s \in Seq(Byte) /\ Len(s) = Header + Len(t) /\ s[1] = StringMark
           /\ \A i \in 1..VarintLen : s[1 + i] = PutVarint(Len(t))[i]
           /\ \A i \in 1..Len(t) : s[Header + i] = t[i]
<1> DEFINE p == PutVarint(Len(t))
           m == Marked(StringMark, p)
<1>1. s = m \o t
    BY DEF Serialize, String, Marked
<1>2. p \in Seq(Byte) /\ Len(p) = VarintLen /\ Len(t) \in Nat
    BY VarintOf
<1>3. /\ m \in Seq(Byte) /\ Len(m) = 1 + Len(p) /\ m[1] = StringMark
      /\ \A i \in 1..Len(p) : m[1 + i] = p[i]
    BY <1>2, MarkedIs, MarksAreBytes, Zenon
<1> HIDE DEF m
<1>4. /\ s \in Seq(Byte) /\ Len(s) = Len(m) + Len(t)
      /\ \A i \in 1..Len(m) : s[i] = m[i]
      /\ \A i \in 1..Len(t) : s[Len(m) + i] = t[i]
    <2>1. /\ m \o t \in Seq(Byte) /\ Len(m \o t) = Len(m) + Len(t)
          /\ \A i \in 1..Len(m) : (m \o t)[i] = m[i]
          /\ \A i \in 1..Len(t) : (m \o t)[Len(m) + i] = t[i]
        BY <1>3, Joined, Zenon
    <2> QED BY <2>1, <1>1, Zenon
<1> HIDE DEF p
<1>5. /\ Len(s) = Header + Len(t) /\ s[1] = StringMark
      /\ \A i \in 1..VarintLen : s[1 + i] = p[i]
      /\ \A i \in 1..Len(t) : s[Header + i] = t[i]
    BY <1>2, <1>3, <1>4, MarksAreBytes
<1> QED BY <1>4, <1>5 DEF p

LEMMA StringRead ==
    ASSUME NEW t \in Seq(Byte), Fits(Len(t)), NEW bs \in Seq(Byte), bs # <<>>, Agrees(bs, Serialize(String(t)))
    PROVE  bs[1] = StringMark /\ ReadsConstant(bs, String(t))
<1> DEFINE s == Serialize(String(t))
           p == PutVarint(Len(t))
<1>1. p \in Seq(Byte) /\ Len(p) = VarintLen /\ Len(t) \in Nat
    BY VarintOf
<1>2. /\ s \in Seq(Byte) /\ Len(s) = Header + Len(t) /\ s[1] = StringMark
      /\ \A i \in 1..VarintLen : s[1 + i] = p[i]
      /\ \A i \in 1..Len(t) : s[Header + i] = t[i]
    BY StringBytes
<1> HIDE DEF s, p
<1>3. Len(bs) \in Nat /\ 1 \in 0..Len(bs)
    BY TailIs
<1>4. bs[1] = StringMark
    BY <1>1, <1>2, <1>3, MarksAreBytes DEF Agrees, s
<1>5. DeserializeConstant(bs) = DeserializeString(bs)
    BY <1>4 DEF DeserializeConstant, IntegerMark, StringMark, FunctionMark
<1> SUFFICES ReadsConstant(bs, String(t))
    BY <1>4
<1>6. CASE Len(bs) < Header
    BY <1>5, <1>6 DEF DeserializeString, ReadsConstant, String
<1>7. CASE ~(Len(bs) < Header)
    <2> DEFINE h == SubSeq(bs, 2, Header)
    <2>1. h \in Seq(Byte) /\ Len(h) = VarintLen /\ \A i \in 1..VarintLen : h[i] = bs[1 + i]
        <3>1. \A i \in 2..Header : bs[i] \in Byte
            BY <1>3, <1>7, MarksAreBytes
        <3>2. 2 \in Int /\ Header \in Int
            BY MarksAreBytes
        <3>3. /\ h \in Seq(Byte) /\ Len(h) = IF 2 <= Header THEN Header - 2 + 1 ELSE 0
              /\ \A i \in 1..(Header - 2 + 1) : h[i] = bs[2 + i - 1]
            BY <3>1, <3>2, SubSeqProperties
        <3> HIDE DEF h
        <3>4. \A i \in 1..VarintLen : 2 + i - 1 = 1 + i
            BY MarksAreBytes
        <3> QED BY <3>3, <3>4, MarksAreBytes
    <2> HIDE DEF h
    <2>2. Agrees(h, p)
        <3>1. ASSUME NEW i \in 1..VarintLen PROVE h[i] = p[i]
            <4>1. 1 + i \in 1..Len(bs) /\ 1 + i <= Len(s)
                BY <1>1, <1>2, <1>3, <1>7, MarksAreBytes
            <4>2. bs[1 + i] = s[1 + i]
                BY <4>1 DEF Agrees, s
            <4> QED BY <4>2, <2>1, <1>2
        <3> QED BY <3>1, <2>1, <1>1 DEF Agrees
    <2>3. Varint(h).value = Len(t) /\ ~Bad(Varint(h))
        BY <2>1, <2>2, <1>1, VarintIs, MarksAreBytes DEF p
    <2>4. CASE Len(t) # Len(bs) - Header
        BY <2>3, <2>4, <1>5, <1>7 DEF DeserializeString, ReadsConstant, String, h
    <2>5. CASE Len(t) = Len(bs) - Header
        <3>1. /\ Drop(bs, Header) \in Seq(Byte) /\ Len(Drop(bs, Header)) = Len(t)
              /\ \A i \in 1..Len(t) : Drop(bs, Header)[i] = bs[Header + i]
            <4>1. Header \in 0..Len(bs)
                BY <1>3, <1>7, MarksAreBytes
            <4> QED BY <4>1, <2>5, DropIs
        <3>2. ASSUME NEW i \in 1..Len(t) PROVE Drop(bs, Header)[i] = t[i]
            <4>1. Header + i \in 1..Len(bs) /\ Header + i <= Len(s)
                BY <2>5, <1>1, <1>2, <1>3, MarksAreBytes
            <4>2. bs[Header + i] = s[Header + i]
                BY <4>1 DEF Agrees, s
            <4> QED BY <4>2, <3>1, <1>2
        <3>3. Drop(bs, Header) = t
            BY <3>1, <3>2, SeqEqual
        <3>4. DeserializeString(bs) = Read(Header + Len(t), String(t))
            BY <3>3, <2>3, <2>5, <1>7 DEF DeserializeString, h
        <3>5. Header + Len(t) <= Len(bs)
            BY <2>5, <1>1, <1>3, MarksAreBytes
        <3> QED BY <3>4, <3>5, <1>2, <1>5 DEF ReadsConstant, s
    <2> QED BY <2>4, <2>5
<1> QED BY <1>6, <1>7

\* The serialized function, piece by piece.
LEMMA FunctionBytes ==
    ASSUME NEW ins \in Seq(Byte), NEW l \in Nat, NEW q \in Nat, Fits(Len(ins)), Fits(l), Fits(q),
           NEW s, s = Serialize(Function(ins, l, q))
    PROVE  /\ s \in Seq(Byte) /\ Len(s) = (1 + 3 * VarintLen) + Len(ins) /\ s[1] = FunctionMark
           /\ \A i \in 1..VarintLen : /\ s[1 + i] = PutVarint(Len(ins))[i]
                                      /\ s[(Header + Len(ins)) + i] = PutVarint(l)[i]
                                      /\ s[((Header + VarintLen) + Len(ins)) + i] = PutVarint(q)[i]
           /\ \A i \in 1..Len(ins) : s[Header + i] = ins[i]
<1> DEFINE n == Len(ins)
           p == PutVarint(n)
           pl == PutVarint(l)
           pq == PutVarint(q)
           m == Marked(FunctionMark, p)
           mi == m \o ins
           ml == mi \o pl
<1>1. s = ml \o pq
    BY DEF Serialize, Function, Marked
<1>2. n \in Nat
    OBVIOUS
<1>3. /\ p \in Seq(Byte) /\ Len(p) = VarintLen /\ pl \in Seq(Byte) /\ Len(pl) = VarintLen
      /\ pq \in Seq(Byte) /\ Len(pq) = VarintLen
    BY <1>2, VarintOf
<1> HIDE DEF n, p, pl, pq
<1>4. /\ m \in Seq(Byte) /\ Len(m) = 1 + Len(p) /\ m[1] = FunctionMark
      /\ \A i \in 1..Len(p) : m[1 + i] = p[i]
    BY <1>3, MarkedIs, MarksAreBytes, Zenon
<1> HIDE DEF m
<1>5. /\ mi \in Seq(Byte) /\ Len(mi) = Len(m) + Len(ins)
      /\ \A i \in 1..Len(m) : mi[i] = m[i]
      /\ \A i \in 1..Len(ins) : mi[Len(m) + i] = ins[i]
    BY <1>4, Joined, Zenon
<1> HIDE DEF mi
<1>6. /\ ml \in Seq(Byte) /\ Len(ml) = Len(mi) + Len(pl)
      /\ \A i \in 1..Len(mi) : ml[i] = mi[i]
      /\ \A i \in 1..Len(pl) : ml[Len(mi) + i] = pl[i]
    BY <1>3, <1>5, Joined, Zenon
<1> HIDE DEF ml
<1>7. /\ s \in Seq(Byte) /\ Len(s) = Len(ml) + Len(pq)
      /\ \A i \in 1..Len(ml) : s[i] = ml[i]
      /\ \A i \in 1..Len(pq) : s[Len(ml) + i] = pq[i]
    <2>1. /\ ml \o pq \in Seq(Byte) /\ Len(ml \o pq) = Len(ml) + Len(pq)
          /\ \A i \in 1..Len(ml) : (ml \o pq)[i] = ml[i]
          /\ \A i \in 1..Len(pq) : (ml \o pq)[Len(ml) + i] = pq[i]
        BY <1>3, <1>6, Joined, Zenon
    <2> QED BY <2>1, <1>1, Zenon
<1>8. /\ Len(m) = Header /\ Len(mi) = Header + n /\ Len(ml) = (Header + VarintLen) + n
      /\ Len(s) = (1 + 3 * VarintLen) + n
    BY <1>2, <1>3, <1>4, <1>5, <1>6, <1>7, MarksAreBytes DEF n
<1>9. /\ \A i \in 1..Header : i \in 1..Len(mi) /\ i \in 1..Len(ml)
      /\ \A i \in 1..n : Header + i \in 1..Len(mi) /\ Header + i \in 1..Len(ml)
      /\ \A i \in 1..VarintLen : (Header + n) + i \in 1..Len(ml) /\ 1 + i \in 1..Header
      /\ 1 \in 1..Header
    BY <1>2, <1>8, MarksAreBytes
<1>10. \A i \in 1..Header : s[i] = m[i]
    BY <1>5, <1>6, <1>7, <1>8, <1>9
<1>11. s[1] = FunctionMark /\ \A i \in 1..VarintLen : s[1 + i] = p[i]
    BY <1>3, <1>4, <1>9, <1>10
<1>12. \A i \in 1..VarintLen : s[(Header + n) + i] = pl[i] /\ s[((Header + VarintLen) + n) + i] = pq[i]
    BY <1>3, <1>6, <1>7, <1>8, <1>9
<1>13. \A i \in 1..n : s[Header + i] = ins[i]
    BY <1>5, <1>6, <1>7, <1>8, <1>9 DEF n
<1> QED BY <1>7, <1>8, <1>11, <1>12, <1>13 DEF n, p, pl, pq

LEMMA FunctionRead ==
    ASSUME NEW ins \in Seq(Byte), NEW l \in Nat, NEW q \in Nat, Fits(Len(ins)), Fits(l), Fits(q),
           NEW bs \in Seq(Byte), bs # <<>>, Agrees(bs, Serialize(Function(ins, l, q)))
    PROVE  bs[1] = FunctionMark /\ ReadsConstant(bs, Function(ins, l, q))
<1> DEFINE s == Serialize(Function(ins, l, q))
           n == Len(ins)
           length == Varint(Tail(bs))
<1>1. /\ s \in Seq(Byte) /\ Len(s) = (1 + 3 * VarintLen) + n /\ s[1] = FunctionMark
      /\ \A i \in 1..VarintLen : /\ s[1 + i] = PutVarint(n)[i]
                                 /\ s[(Header + n) + i] = PutVarint(l)[i]
                                 /\ s[((Header + VarintLen) + n) + i] = PutVarint(q)[i]
      /\ \A i \in 1..n : s[Header + i] = ins[i]
    BY FunctionBytes
<1> HIDE DEF s
<1>2. n \in Nat /\ Len(bs) \in Nat /\ 1 \in 0..Len(bs) /\ Tail(bs) = Drop(bs, 1)
    BY TailIs
<1>3. bs[1] = FunctionMark
    BY <1>1, <1>2, MarksAreBytes DEF Agrees, s
<1>4. DeserializeConstant(bs) = DeserializeFunction(bs)
    BY <1>3 DEF DeserializeConstant, IntegerMark, StringMark, FunctionMark
<1> SUFFICES ReadsConstant(bs, Function(ins, l, q))
    BY <1>3
<1>5. ASSUME NEW v \in Nat, Fits(v), NEW k \in 0..Len(bs),
             \A i \in 1..VarintLen : k + i <= Len(s) /\ s[k + i] = PutVarint(v)[i]
      PROVE  /\ Len(Drop(bs, k)) = Len(bs) - k
             /\ \/ Varint(Drop(bs, k)) = [value |-> 0, n |-> 0] /\ Len(Drop(bs, k)) < VarintLen
                \/ Varint(Drop(bs, k)).value = v /\ ~Bad(Varint(Drop(bs, k)))
    <2>1. PutVarint(v) \in Seq(Byte) /\ Len(PutVarint(v)) = VarintLen
        BY <1>5, VarintOf
    <2>2. /\ Drop(bs, k) \in Seq(Byte) /\ Len(Drop(bs, k)) = Len(bs) - k
          /\ Agrees(Drop(bs, k), PutVarint(v))
        BY <2>1, <1>1, <1>5, AgreesBehind DEF s
    <2>3. v \in Int
        OBVIOUS
    <2>4. \/ Varint(Drop(bs, k)) = [value |-> 0, n |-> 0] /\ Len(Drop(bs, k)) < VarintLen
          \/ Varint(Drop(bs, k)).value = v /\ ~Bad(Varint(Drop(bs, k)))
        BY <2>2, <2>3, <1>5, VarintIs, Zenon
    <2> QED BY <2>2, <2>4
<1>6. /\ Len(Drop(bs, 1)) = Len(bs) - 1
      /\ \/ length = [value |-> 0, n |-> 0] /\ Len(Drop(bs, 1)) < VarintLen
         \/ length.value = n /\ ~Bad(length)
    <2>1. \A i \in 1..VarintLen : 1 + i <= Len(s) /\ s[1 + i] = PutVarint(n)[i]
        BY <1>1, <1>2, MarksAreBytes
    <2>2. /\ Len(Drop(bs, 1)) = Len(bs) - 1
          /\ \/ Varint(Drop(bs, 1)) = [value |-> 0, n |-> 0] /\ Len(Drop(bs, 1)) < VarintLen
             \/ Varint(Drop(bs, 1)).value = n /\ ~Bad(Varint(Drop(bs, 1)))
        BY <2>1, <1>2, <1>5
    <2> QED BY <2>2, <1>2, Zenon
<1> HIDE DEF length
<1>7. CASE Len(bs) < (1 + 3 * VarintLen) + n
    <2>1. Bad(length) \/ length.value > Len(bs) - (1 + 3 * VarintLen)
        BY <1>2, <1>6, <1>7, MarksAreBytes
    <2>2. DeserializeFunction(bs) = Panicked
        BY <2>1 DEF DeserializeFunction, length
    <2> QED BY <2>2, <1>1, <1>4, <1>7 DEF ReadsConstant, s
<1>8. CASE ~(Len(bs) < (1 + 3 * VarintLen) + n)
    <2> DEFINE numLocals == Varint(Drop(bs, Header + length.value))
               numParams == Varint(Drop(bs, (Header + VarintLen) + length.value))
               code == SubSeq(bs, Header + 1, Header + length.value)
    <2>1. length.value = n /\ ~Bad(length)
        BY <1>2, <1>6, <1>8, MarksAreBytes
    <2>2. Header + n \in 0..Len(bs) /\ (Header + VarintLen) + n \in 0..Len(bs)
        BY <1>2, <1>8, MarksAreBytes
    <2>3. numLocals.value = l /\ ~Bad(numLocals)
        <3>1. \A i \in 1..VarintLen : (Header + n) + i <= Len(s) /\ s[(Header + n) + i] = PutVarint(l)[i]
            BY <1>1, <1>2, MarksAreBytes
        <3>2. /\ Len(Drop(bs, Header + n)) = Len(bs) - (Header + n)
              /\ \/ Len(Drop(bs, Header + n)) < VarintLen
                 \/ Varint(Drop(bs, Header + n)).value = l /\ ~Bad(Varint(Drop(bs, Header + n)))
            BY <3>1, <2>2, <1>5
        <3>3. ~(Len(bs) - (Header + n) < VarintLen)
            BY <1>2, <1>8, MarksAreBytes
        <3> QED BY <3>2, <3>3, <2>1
    <2>4. numParams.value = q /\ ~Bad(numParams)
        <3>1. \A i \in 1..VarintLen : /\ ((Header + VarintLen) + n) + i <= Len(s)
                                      /\ s[((Header + VarintLen) + n) + i] = PutVarint(q)[i]
            BY <1>1, <1>2, MarksAreBytes
        <3> DEFINE k == (Header + VarintLen) + n
        <3>2. /\ Len(Drop(bs, k)) = Len(bs) - k
              /\ \/ Len(Drop(bs, k)) < VarintLen
                 \/ Varint(Drop(bs, k)).value = q /\ ~Bad(Varint(Drop(bs, k)))
            BY <3>1, <2>2, <1>5
        <3>3. ~(Len(bs) - k < VarintLen)
            BY <1>2, <1>8, MarksAreBytes
        <3> QED BY <3>2, <3>3, <2>1
    <2>5. code = ins
        <3>1. \A i \in (Header + 1)..(Header + n) : bs[i] \in Byte
            BY <1>2, <2>2, MarksAreBytes
        <3>2. Header + 1 \in Int /\ Header + n \in Int
            BY <1>2, MarksAreBytes
        <3>3. /\ code \in Seq(Byte)
              /\ Len(code) = IF Header + 1 <= Header + n THEN (Header + n) - (Header + 1) + 1 ELSE 0
              /\ \A i \in 1..((Header + n) - (Header + 1) + 1) : code[i] = bs[(Header + 1) + i - 1]
            BY <3>1, <3>2, <2>1, SubSeqProperties
        <3> HIDE DEF code
        <3>4. /\ (Header + n) - (Header + 1) + 1 = n /\ (~(Header + 1 <= Header + n) => n = 0)
              /\ \A i \in 1..n : (Header + 1) + i - 1 = Header + i
            BY <1>2, MarksAreBytes
        <3>5. code \in Seq(Byte) /\ Len(code) = n /\ \A i \in 1..n : code[i] = bs[Header + i]
            BY <3>3, <3>4
        <3>6. ASSUME NEW i \in 1..n PROVE code[i] = ins[i]
            <4>1. Header + i \in 1..Len(bs) /\ Header + i <= Len(s)
                BY <1>1, <1>2, <2>2, MarksAreBytes
            <4>2. bs[Header + i] = s[Header + i]
                BY <4>1 DEF Agrees, s
            <4> QED BY <4>2, <3>5, <1>1
        <3> QED BY <3>5, <3>6, SeqEqual
    <2>6. ~(length.value > Len(bs) - (1 + 3 * VarintLen))
        BY <2>1, <1>2, <1>8, MarksAreBytes
    <2>7. DeserializeFunction(bs) =
            Read((1 + 3 * VarintLen) + length.value, Function(code, numLocals.value, numParams.value))
        <3> HIDE DEF code, numLocals, numParams
        <3>1. ~Bad(length) /\ ~Bad(numLocals) /\ ~Bad(numParams)
            BY <2>1, <2>3, <2>4
        <3> QED BY <3>1, <2>6 DEF DeserializeFunction, length, numLocals, numParams, code
    <2> HIDE DEF code, numLocals, numParams
    <2>8. DeserializeFunction(bs) = Read(Len(s), Function(ins, l, q))
        BY <2>1, <2>3, <2>4, <2>5, <2>7, <1>1
    <2>9. Len(s) <= Len(bs)
        BY <1>1, <1>2, <1>8, MarksAreBytes
    <2> QED BY <2>8, <2>9, <1>4 DEF ReadsConstant, s
<1> QED BY <1>7, <1>8

\* A constant is read back as it was written; what stops inside it is refused, and so is
\* any string, unless it is the last thing there is.
LEMMA ConstantRead ==
    ASSUME NEW c \in Constant, \A v \in Numbers(c) : Fits(v)
    PROVE  /\ Serialize(c) \in Seq(Byte) /\ Len(Serialize(c)) >= 1
           /\ \A bs \in Seq(Byte) : bs # <<>> /\ Agrees(bs, Serialize(c)) =>
                bs[1] # BytecodeMark /\ ReadsConstant(bs, c)
<1>1. BytecodeMark \notin {IntegerMark, StringMark, FunctionMark}
    BY DEF BytecodeMark, IntegerMark, StringMark, FunctionMark
<1>2. CASE c \in {"INTEGER"} \X Int
    <2>1. PICK v \in Int : c = Integer(v)
        BY <1>2 DEF Integer
    <2>2. Fits(v)
        BY <2>1 DEF Numbers, Integer
    <2>3. Serialize(c) \in Seq(Byte) /\ Len(Serialize(c)) = Header
        BY <2>1, <2>2, IntegerBytes
    <2>4. \A bs \in Seq(Byte) : bs # <<>> /\ Agrees(bs, Serialize(c)) =>
            bs[1] = IntegerMark /\ ReadsConstant(bs, c)
        BY <2>1, <2>2, IntegerRead
    <2> QED BY <2>3, <2>4, <1>1, MarksAreBytes
<1>3. CASE c \in {"STRING"} \X Seq(Byte)
    <2>1. PICK t \in Seq(Byte) : c = String(t)
        BY <1>3 DEF String
    <2>2. Fits(Len(t)) /\ Len(t) \in Nat
        BY <2>1 DEF Numbers, String
    <2>3. Serialize(c) \in Seq(Byte) /\ Len(Serialize(c)) = Header + Len(t)
        BY <2>1, <2>2, StringBytes
    <2>4. \A bs \in Seq(Byte) : bs # <<>> /\ Agrees(bs, Serialize(c)) =>
            bs[1] = StringMark /\ ReadsConstant(bs, c)
        BY <2>1, <2>2, StringRead
    <2> QED BY <2>2, <2>3, <2>4, <1>1, MarksAreBytes
<1>4. CASE c \in {"COMPILED_FUNCTION"} \X [ins : Seq(Byte), numLocals : Nat, numParams : Nat]
    <2>1. PICK f \in [ins : Seq(Byte), numLocals : Nat, numParams : Nat] : c = <<"COMPILED_FUNCTION", f>>
        BY <1>4
    <2>2. c = Function(f.ins, f.numLocals, f.numParams)
        BY <2>1 DEF Function
    <2>3. /\ Fits(Len(f.ins)) /\ Fits(f.numLocals) /\ Fits(f.numParams)
          /\ f.ins \in Seq(Byte) /\ f.numLocals \in Nat /\ f.numParams \in Nat /\ Len(f.ins) \in Nat
        BY <2>1 DEF Numbers
    <2>4. Serialize(c) \in Seq(Byte) /\ Len(Serialize(c)) = (1 + 3 * VarintLen) + Len(f.ins)
        BY <2>2, <2>3, FunctionBytes
    <2>5. \A bs \in Seq(Byte) : bs # <<>> /\ Agrees(bs, Serialize(c)) =>
            bs[1] = FunctionMark /\ ReadsConstant(bs, c)
        BY <2>2, <2>3, FunctionRead
    <2> QED BY <2>3, <2>4, <2>5, <1>1, MarksAreBytes
<1> QED BY <1>2, <1>3, <1>4 DEF Constant

-----------------------------------------------------------------------------
(***************************************************************************)
(* The bytes of a program: its constants one after the other.               *)
(***************************************************************************)
FlattenEquation(ss, f) == f = [i \in 1..Len(ss) |-> IF i = 1 THEN ss[i] ELSE f[i - 1] \o ss[i]]

LEMMA FlattenIs ==
    ASSUME NEW ss \in Seq(Seq(Byte)), ss # <<>>
    PROVE  \E f \in [1..Len(ss) -> Seq(Byte)] :
                /\ FlattenSeq(ss) = f[Len(ss)] /\ f[1] = ss[1]
                /\ \A i \in 2..Len(ss) : f[i] = f[i - 1] \o ss[i]
<1> DEFINE n == Len(ss) - 1
           T == Seq(Byte)
           D == [x \in T \X (1..n) |-> x[1] \o ss[x[2] + 1]]
<1>1. n \in Nat /\ Len(ss) = n + 1 /\ \A i \in 1..Len(ss) : ss[i] \in T
    OBVIOUS
<1>2. ASSUME NEW s \in T, NEW k \in 1..n PROVE s \o ss[k + 1] \in T
    <2>1. ss[k + 1] \in T
        BY <1>1
    <2> QED BY <2>1, Joined, Zenon
<1>3. D \in Steps(T, n)
    BY <1>2 DEF Steps
<1>4. ss[1] \in T
    BY <1>1
<1> HIDE DEF n
<1>5. PICK g : Recursive(g, T, n, ss[1], D)
    BY <1>1, <1>3, <1>4, FiniteRecursion
<1>6. /\ g \in [0..n -> T] /\ g[0] = ss[1]
      /\ \A k \in 1..n : g[k] = g[k - 1] \o ss[k + 1]
    <2>1. g \in [0..n -> T] /\ g[0] = ss[1] /\ \A k \in 1..n : g[k] = D[<<g[k - 1], k>>]
        BY <1>5 DEF Recursive
    <2>2. \A k \in 1..n : k - 1 \in 0..n
        BY <1>1
    <2> QED BY <2>1, <2>2
<1> HIDE DEF D
<1> DEFINE f == [i \in 1..Len(ss) |-> g[i - 1]]
<1>7. f[1] = ss[1] /\ f \in [1..Len(ss) -> T]
    BY <1>1, <1>6
<1>8. ASSUME NEW i \in 2..Len(ss) PROVE f[i] = f[i - 1] \o ss[i]
    <2>1. i - 1 \in 1..n /\ i - 1 \in 1..Len(ss) /\ (i - 1) + 1 = i /\ i \in 1..Len(ss)
        BY <1>1
    <2>2. g[i - 1] = g[(i - 1) - 1] \o ss[i]
        BY <2>1, <1>6
    <2> QED BY <2>1, <2>2
<1> HIDE DEF f
<1>9. FlattenEquation(ss, f)
    <2>1. \A i \in 1..Len(ss) : i # 1 => i \in 2..Len(ss)
        BY <1>1
    <2>2. \A i \in 1..Len(ss) : f[i] = IF i = 1 THEN ss[i] ELSE f[i - 1] \o ss[i]
        BY <2>1, <1>7, <1>8
    <2>3. f = [i \in 1..Len(ss) |-> f[i]]
        BY <1>7
    <2> QED BY <2>2, <2>3, Zenon DEF FlattenEquation
<1> DEFINE h == CHOOSE e : FlattenEquation(ss, e)
<1>10. FlattenEquation(ss, h)
    BY <1>9
<1>11. FlattenSeq(ss) = h[Len(ss)]
    BY <1>1 DEF FlattenSeq, FlattenEquation
<1> HIDE DEF h
<1>12. h[1] = ss[1] /\ \A i \in 2..Len(ss) : h[i] = h[i - 1] \o ss[i]
    <2>1. 1 \in 1..Len(ss) /\ \A i \in 2..Len(ss) : i \in 1..Len(ss) /\ i # 1
        BY <1>1
    <2>2. \A i \in 1..Len(ss) : h[i] = IF i = 1 THEN ss[i] ELSE h[i - 1] \o ss[i]
        BY <1>10 DEF FlattenEquation
    <2> QED BY <2>1, <2>2
<1> DEFINE a == [k \in 0..n |-> f[k + 1]]
           b == [k \in 0..n |-> h[k + 1]]
<1>13. StepAlike(a, b, n)
    <2>1. a[0] = b[0]
        BY <1>1, <1>7, <1>12
    <2>2. ASSUME NEW k \in 1..n, a[k - 1] = b[k - 1] PROVE a[k] = b[k]
        <3>1. k + 1 \in 2..Len(ss) /\ k - 1 \in 0..n /\ k \in 0..n /\ (k + 1) - 1 = k /\ (k - 1) + 1 = k
            BY <1>1
        <3>2. f[k] = h[k]
            BY <2>2, <3>1
        <3>3. f[k + 1] = f[k] \o ss[k + 1] /\ h[k + 1] = h[k] \o ss[k + 1]
            BY <3>1, <1>8, <1>12
        <3> QED BY <3>1, <3>2, <3>3
    <2> QED BY <2>1, <2>2 DEF StepAlike
<1>14. a[n] = b[n]
    <2> HIDE DEF a, b
    <2>1. AlikeUpTo(a, b, n)
        BY <1>1, <1>13, SameRecursion
    <2> QED BY <2>1, <1>1 DEF AlikeUpTo
<1>15. FlattenSeq(ss) = f[Len(ss)]
    BY <1>1, <1>11, <1>14
<1> QED BY <1>7, <1>8, <1>15

\* at[k] bytes come before the constant k + 1, or before the mark of the instructions.
Places(b, at) ==
    LET s == SerializeBytecode(b)
        n == Len(b.consts)
    IN  /\ at \in [0..n -> Nat] /\ at[0] = 0
        /\ s \in Seq(Byte) /\ Len(s) = (at[n] + 1) + Len(b.ins)
        /\ s[at[n] + 1] = BytecodeMark /\ \A i \in 1..Len(b.ins) : s[(at[n] + 1) + i] = b.ins[i]
        /\ \A k \in 1..n : LET c == Serialize(b.consts[k])
                           IN  /\ at[k] = at[k - 1] + Len(c) /\ at[k] <= at[n]
                               /\ \A i \in 1..Len(c) : s[at[k - 1] + i] = c[i]
Place(b) == CHOOSE at : Places(b, at)

LEMMA SumBounds ==
    ASSUME NEW a \in Nat, NEW c \in Nat
    PROVE  /\ \A i \in 1..a : i \in 1..(a + c)
           /\ \A i \in 1..c : a + i \in 1..(a + c)
           /\ \A m \in Nat : a + c <= m => a <= m
OBVIOUS

\* What is joined first stays where it is.
LEMMA JoinedStays ==
    ASSUME NEW n \in Nat \ {0}, NEW ss \in [1..n -> Seq(Byte)], NEW f \in [1..n -> Seq(Byte)],
           \A i \in 2..n : f[i] = f[i - 1] \o ss[i]
    PROVE  \A k \in 1..n : Len(f[k]) <= Len(f[n]) /\ \A i \in 1..Len(f[k]) : f[n][i] = f[k][i]
<1> DEFINE Stays(k) == Len(f[k]) <= Len(f[n]) /\ \A i \in 1..Len(f[k]) : f[n][i] = f[k][i]
           S == {d \in Nat : d <= n - 1 => Stays(n - d)}
<1>1. 0 \in S
    OBVIOUS
<1>2. ASSUME NEW d \in Nat, d \in S PROVE d + 1 \in S
    <2> SUFFICES ASSUME d + 1 <= n - 1 PROVE Stays(n - (d + 1))
        OBVIOUS
    <2> DEFINE k == n - (d + 1)
    <2>1. k \in 1..n /\ k + 1 \in 2..n /\ k + 1 \in 1..n /\ n - d = k + 1 /\ (k + 1) - 1 = k
        OBVIOUS
    <2>2. Stays(k + 1)
        BY <1>2, <2>1
    <2> HIDE DEF k
    <2>3. f[k + 1] = f[k] \o ss[k + 1] /\ f[k] \in Seq(Byte) /\ ss[k + 1] \in Seq(Byte) /\ f[n] \in Seq(Byte)
        <3>1. f[k + 1] = f[(k + 1) - 1] \o ss[k + 1]
            BY <2>1, Zenon
        <3>2. n \in 1..n
            OBVIOUS
        <3> QED BY <3>1, <3>2, <2>1, Zenon
    <2>4. /\ Len(f[k] \o ss[k + 1]) = Len(f[k]) + Len(ss[k + 1])
          /\ \A i \in 1..Len(f[k]) : (f[k] \o ss[k + 1])[i] = f[k][i]
        BY <2>3, Joined, Zenon
    <2>5. Len(f[k + 1]) = Len(f[k]) + Len(ss[k + 1]) /\ \A i \in 1..Len(f[k]) : f[k + 1][i] = f[k][i]
        BY <2>3, <2>4, Zenon
    <2>6. Len(f[k]) \in Nat /\ Len(ss[k + 1]) \in Nat /\ Len(f[n]) \in Nat
        BY <2>3
    <2>7. Len(f[k]) <= Len(f[n]) /\ \A i \in 1..Len(f[k]) : i \in 1..Len(f[k + 1])
        <3>1. Len(f[k + 1]) <= Len(f[n])
            BY <2>2
        <3>2. Len(f[k]) + Len(ss[k + 1]) <= Len(f[n])
            BY <3>1, <2>5, Zenon
        <3> HIDE DEF Stays
        <3> QED BY <3>2, <2>5, <2>6, SumBounds, Zenon
    <2>8. Stays(k)
        BY <2>2, <2>5, <2>7
    <2> QED BY <2>8 DEF k
<1> HIDE DEF S
<1>3. \A d \in Nat : d \in S
    BY <1>1, <1>2, SetInduction
<1>4. ASSUME NEW k \in 1..n PROVE Stays(k)
    <2>1. n - k \in S /\ n - k <= n - 1 /\ n - (n - k) = k
        BY <1>3
    <2> QED BY <2>1 DEF S
<1> QED BY <1>4

\* The constants' bytes one after the other.
LEMMA JoinedAt ==
    ASSUME NEW ss \in Seq(Seq(Byte))
    PROVE  /\ FlattenSeq(ss) \in Seq(Byte)
           /\ \E at \in [0..Len(ss) -> Nat] :
                /\ at[0] = 0 /\ at[Len(ss)] = Len(FlattenSeq(ss))
                /\ \A k \in 1..Len(ss) :
                    /\ at[k] = at[k - 1] + Len(ss[k]) /\ at[k] <= at[Len(ss)]
                    /\ \A i \in 1..Len(ss[k]) : FlattenSeq(ss)[at[k - 1] + i] = ss[k][i]
<1> DEFINE n == Len(ss)
<1>1. CASE ss = <<>>
    <2>1. n = 0 /\ FlattenSeq(ss) = <<>> /\ FlattenSeq(ss) \in Seq(Byte) /\ Len(FlattenSeq(ss)) = 0
        BY <1>1 DEF FlattenSeq
    <2> DEFINE at == [k \in 0..0 |-> 0]
    <2>2. at \in [0..n -> Nat] /\ at[0] = 0 /\ at[n] = Len(FlattenSeq(ss)) /\ 1..n = {}
        BY <2>1
    <2> QED BY <2>1, <2>2
<1>2. CASE ss # <<>>
    <2>1. n \in Nat \ {0} /\ ss \in [1..n -> Seq(Byte)]
        BY <1>2
    <2>2. PICK f \in [1..n -> Seq(Byte)] :
            FlattenSeq(ss) = f[n] /\ f[1] = ss[1] /\ \A i \in 2..n : f[i] = f[i - 1] \o ss[i]
        BY <1>2, FlattenIs
    <2> HIDE DEF n
    <2>3. \A k \in 1..n : Len(f[k]) <= Len(f[n]) /\ \A i \in 1..Len(f[k]) : f[n][i] = f[k][i]
        BY <2>1, <2>2, JoinedStays
    <2> DEFINE at == [k \in 0..n |-> IF k = 0 THEN 0 ELSE Len(f[k])]
    <2>4. at \in [0..n -> Nat] /\ at[0] = 0 /\ \A k \in 1..n : at[k] = Len(f[k])
        BY <2>1
    <2> HIDE DEF at
    <2>5. ASSUME NEW k \in 1..n
          PROVE  /\ at[k] = at[k - 1] + Len(ss[k])
                 /\ \A i \in 1..Len(ss[k]) : f[k][at[k - 1] + i] = ss[k][i] /\ at[k - 1] + i \in 1..Len(f[k])
        <3>1. Len(ss[k]) \in Nat /\ f[k] \in Seq(Byte) /\ ss[k] \in Seq(Byte)
            BY <2>1
        <3>2. CASE k = 1
            <4>1. k - 1 = 0 /\ f[k] = ss[k] /\ at[k - 1] = 0 /\ at[k] = Len(ss[k])
                BY <3>2, <2>1, <2>2, <2>4
            <4>2. \A i \in 1..Len(ss[k]) : 0 + i = i
                BY <3>1
            <4> QED BY <4>1, <4>2, <3>1
        <3>3. CASE k # 1
            <4>1. k \in 2..n /\ k - 1 \in 1..n /\ f[k - 1] \in Seq(Byte)
                BY <3>3, <2>1
            <4>2. f[k] = f[k - 1] \o ss[k] /\ at[k - 1] = Len(f[k - 1]) /\ at[k] = Len(f[k])
                BY <4>1, <2>2, <2>4
            <4>3. /\ Len(f[k - 1] \o ss[k]) = Len(f[k - 1]) + Len(ss[k])
                  /\ \A i \in 1..Len(ss[k]) : (f[k - 1] \o ss[k])[Len(f[k - 1]) + i] = ss[k][i]
                BY <4>1, <3>1, Joined, Zenon
            <4>4. /\ Len(f[k]) = Len(f[k - 1]) + Len(ss[k])
                  /\ \A i \in 1..Len(ss[k]) : f[k][Len(f[k - 1]) + i] = ss[k][i]
                BY <4>2, <4>3, Zenon
            <4>5. Len(f[k - 1]) \in Nat
                BY <4>1
            <4>6. \A i \in 1..Len(ss[k]) : Len(f[k - 1]) + i \in 1..Len(f[k])
                BY <4>4, <4>5, <3>1, SumBounds, Zenon
            <4> QED BY <4>2, <4>4, <4>6, Zenon
        <3> QED BY <3>2, <3>3
    <2>6. n \in 1..n
        BY <2>1
    <2>7. ASSUME NEW k \in 1..n PROVE at[k] <= at[n] /\ \A i \in 1..Len(ss[k]) : f[n][at[k - 1] + i] = ss[k][i]
        <3>1. at[k] = Len(f[k]) /\ at[n] = Len(f[n]) /\ Len(f[k]) <= Len(f[n])
            BY <2>3, <2>4, <2>6, Zenon
        <3>2. ASSUME NEW i \in 1..Len(ss[k]) PROVE f[n][at[k - 1] + i] = ss[k][i]
            <4>1. f[k][at[k - 1] + i] = ss[k][i] /\ at[k - 1] + i \in 1..Len(f[k])
                BY <2>5, Zenon
            <4> QED BY <4>1, <2>3, Zenon
        <3> QED BY <3>1, <3>2, Zenon
    <2>8. FlattenSeq(ss) \in Seq(Byte) /\ at[n] = Len(FlattenSeq(ss))
        BY <2>2, <2>4, <2>6, Zenon
    <2>9. \A k \in 1..n : /\ at[k] = at[k - 1] + Len(ss[k]) /\ at[k] <= at[n]
                           /\ \A i \in 1..Len(ss[k]) : FlattenSeq(ss)[at[k - 1] + i] = ss[k][i]
        <3>1. FlattenSeq(ss) = f[n]
            BY <2>2, Zenon
        <3> QED BY <3>1, <2>5, <2>7, Zenon
    <2> QED BY <2>4, <2>8, <2>9, Zenon DEF n
<1> QED BY <1>1, <1>2

\* A function on the first naturals is a sequence.
LEMMA FunctionIsSeq ==
    ASSUME NEW T, NEW k \in Nat, NEW s \in [1..k -> T]
    PROVE  s \in Seq(T) /\ Len(s) = k
OBVIOUS

LEMMA ConstantsFit ==
    ASSUME NEW b \in Bytecodes, ~SerializePanics(b), NEW k \in 1..Len(b.consts)
    PROVE  b.consts[k] \in Constant /\ \A v \in Numbers(b.consts[k]) : Fits(v)
<1>1. b.consts \in Seq(Constant)
    BY FileRunnerAssumption
<1>2. b.consts[k] \in Constant /\ b.consts[k] \in ToSet(b.consts)
    BY <1>1 DEF ToSet
<1> QED BY <1>2 DEF SerializePanics

LEMMA ProgramBytes ==
    ASSUME NEW b \in Bytecodes, ~SerializePanics(b)
    PROVE  Places(b, Place(b))
<1> DEFINE n == Len(b.consts)
           ss == [i \in DOMAIN b.consts |-> Serialize(b.consts[i])]
           t == FlattenSeq(ss)
           m == <<BytecodeMark>>
           s == SerializeBytecode(b)
<1>1. b.consts \in Seq(Constant) /\ b.ins \in Seq(Byte) /\ n \in Nat /\ DOMAIN b.consts = 1..n
    BY FileRunnerAssumption
<1>2. \A k \in 1..n : Serialize(b.consts[k]) \in Seq(Byte)
    BY ConstantsFit, ConstantRead
<1>3. ss \in Seq(Seq(Byte)) /\ Len(ss) = n /\ \A k \in 1..n : ss[k] = Serialize(b.consts[k])
    <2>1. ss \in [1..n -> Seq(Byte)] /\ \A k \in 1..n : ss[k] = Serialize(b.consts[k])
        BY <1>1, <1>2
    <2> HIDE DEF ss
    <2>2. ss \in Seq(Seq(Byte))
        BY <2>1, <1>1, FunctionIsSeq
    <2>3. Len(ss) = n
        BY <2>1, <1>1, FunctionIsSeq
    <2> QED BY <2>1, <2>2, <2>3, Zenon
<1>4. s = (t \o m) \o b.ins
    BY DEF SerializeBytecode
<1> HIDE DEF ss, n
<1>5. t \in Seq(Byte)
    BY <1>3, JoinedAt
<1>6. PICK at \in [0..n -> Nat] :
        /\ at[0] = 0 /\ at[n] = Len(t)
        /\ \A k \in 1..n : /\ at[k] = at[k - 1] + Len(ss[k]) /\ at[k] <= at[n]
                           /\ \A i \in 1..Len(ss[k]) : t[at[k - 1] + i] = ss[k][i]
    <2>1. \E at \in [0..Len(ss) -> Nat] :
                /\ at[0] = 0 /\ at[Len(ss)] = Len(FlattenSeq(ss))
                /\ \A k \in 1..Len(ss) :
                    /\ at[k] = at[k - 1] + Len(ss[k]) /\ at[k] <= at[Len(ss)]
                    /\ \A i \in 1..Len(ss[k]) : FlattenSeq(ss)[at[k - 1] + i] = ss[k][i]
        BY <1>3, JoinedAt, Zenon
    <2> QED BY <2>1, <1>3
<1> HIDE DEF t
<1>7. m \in Seq(Byte) /\ Len(m) = 1 /\ m[1] = BytecodeMark
    BY MarksAreBytes
<1> HIDE DEF m
<1>8. /\ t \o m \in Seq(Byte) /\ Len(t \o m) = Len(t) + Len(m)
      /\ \A i \in 1..Len(t) : (t \o m)[i] = t[i]
      /\ \A i \in 1..Len(m) : (t \o m)[Len(t) + i] = m[i]
    BY <1>5, <1>7, Joined, Zenon
<1> DEFINE tm == t \o m
<1> HIDE DEF tm
<1>9. /\ tm \o b.ins \in Seq(Byte) /\ Len(tm \o b.ins) = Len(tm) + Len(b.ins)
      /\ \A i \in 1..Len(tm) : (tm \o b.ins)[i] = tm[i]
      /\ \A i \in 1..Len(b.ins) : (tm \o b.ins)[Len(tm) + i] = b.ins[i]
    BY <1>1, <1>8, Joined, Zenon DEF tm
<1>10. /\ tm \in Seq(Byte) /\ Len(tm) = Len(t) + 1 /\ \A i \in 1..Len(t) : tm[i] = t[i]
       /\ tm[Len(t) + 1] = BytecodeMark
    <2>1. 1 \in 1..Len(m)
        BY <1>7
    <2>2. (t \o m)[Len(t) + 1] = m[1]
        BY <2>1, <1>8, Zenon
    <2> QED BY <1>7, <1>8, <2>2, Zenon DEF tm
<1>11. /\ s \in Seq(Byte) /\ Len(s) = Len(tm) + Len(b.ins)
       /\ \A i \in 1..Len(tm) : s[i] = tm[i]
       /\ \A i \in 1..Len(b.ins) : s[Len(tm) + i] = b.ins[i]
    BY <1>4, <1>9, Zenon DEF tm
<1> HIDE DEF s
<1>12. Len(t) \in Nat /\ Len(t) + 1 \in 1..Len(tm) /\ \A i \in 1..Len(t) : i \in 1..Len(tm)
    BY <1>5, <1>10
<1>13. s[Len(t) + 1] = BytecodeMark /\ \A i \in 1..Len(t) : s[i] = t[i]
    BY <1>10, <1>11, <1>12
<1>14. ASSUME NEW k \in 1..n
       PROVE  /\ at[k] = at[k - 1] + Len(Serialize(b.consts[k])) /\ at[k] <= at[n]
              /\ \A i \in 1..Len(Serialize(b.consts[k])) : s[at[k - 1] + i] = Serialize(b.consts[k])[i]
    <2>1. k \in 0..n /\ k - 1 \in 0..n /\ n \in 0..n
        BY <1>1
    <2>2. /\ at[k] = at[k - 1] + Len(ss[k]) /\ at[k] <= at[n] /\ at[k - 1] \in Nat /\ at[k] \in Nat
          /\ ss[k] \in Seq(Byte) /\ Len(ss[k]) \in Nat /\ ss[k] = Serialize(b.consts[k])
        <3>1. ss[k] \in Seq(Byte) /\ ss[k] = Serialize(b.consts[k])
            BY <1>2, <1>3, Zenon
        <3>2. Len(ss[k]) \in Nat
            BY <3>1
        <3>3. at[k] \in Nat /\ at[k - 1] \in Nat
            BY <2>1
        <3> QED BY <3>1, <3>2, <3>3, <1>6, Zenon
    <2>3. ASSUME NEW i \in 1..Len(ss[k]) PROVE s[at[k - 1] + i] = ss[k][i]
        <3>1. at[k - 1] + i \in 1..Len(t)
            BY <2>2, <1>6, <1>12
        <3> QED BY <3>1, <1>6, <1>13
    <2> QED BY <2>2, <2>3, Zenon
<1>15. /\ Len(s) = (at[n] + 1) + Len(b.ins) /\ s[at[n] + 1] = BytecodeMark
       /\ \A i \in 1..Len(b.ins) : s[(at[n] + 1) + i] = b.ins[i]
    BY <1>6, <1>10, <1>11, <1>13, Zenon
<1>16. Places(b, at)
    BY <1>6, <1>11, <1>14, <1>15, Zenon DEF Places, n, s
<1> QED BY <1>16 DEF Place

-----------------------------------------------------------------------------
(***************************************************************************)
(* Reading a koko file.  Held is what it holds, nothing if it is not there;  *)
(* it holds the beginning of some program, and what has been read of it is   *)
(* the beginning of every program that it may be the beginning of.           *)
(***************************************************************************)
Held == IF koko = NoFile THEN <<>> ELSE koko

Begins(bs, s) == Len(bs) <= Len(s) /\ Agrees(bs, s)
HeldOf(bs, b) == b \in Bytecodes /\ ~SerializePanics(b) /\ bs \in Seq(Byte) /\ Begins(bs, SerializeBytecode(b))

\* r is what is left of bs after cs, the first constants of b.
ReadSoFar(bs, b, r, cs) ==
    \E k \in 0..Len(b.consts) :
        cs = SubSeq(b.consts, 1, k) /\ Place(b)[k] <= Len(bs) /\ r = Drop(bs, Place(b)[k])

LEMMA FirstOf ==
    ASSUME NEW s \in Seq(Constant), NEW k \in 0..Len(s)
    PROVE  /\ SubSeq(s, 1, 0) = <<>> /\ SubSeq(s, 1, Len(s)) = s
           /\ k < Len(s) => Append(SubSeq(s, 1, k), s[k + 1]) = SubSeq(s, 1, k + 1)
<1>1. \A j \in 0..Len(s) : /\ SubSeq(s, 1, j) \in Seq(Constant) /\ Len(SubSeq(s, 1, j)) = j
                           /\ \A i \in 1..j : SubSeq(s, 1, j)[i] = s[i]
    OBVIOUS
<1>2. Len(s) \in Nat /\ Len(s) \in 0..Len(s)
    OBVIOUS
<1>3. SubSeq(s, 1, Len(s)) = s
    BY <1>1, <1>2, SeqEqual
<1>4. ASSUME k < Len(s) PROVE Append(SubSeq(s, 1, k), s[k + 1]) = SubSeq(s, 1, k + 1)
    <2> DEFINE a == SubSeq(s, 1, k)
               e == s[k + 1]
               c == SubSeq(s, 1, k + 1)
    <2>1. k + 1 \in 0..Len(s) /\ k + 1 \in 1..Len(s) /\ e \in Constant
        BY <1>2, <1>4
    <2>2. a \in Seq(Constant) /\ Len(a) = k /\ \A i \in 1..k : a[i] = s[i]
        BY <1>1
    <2>3. c \in Seq(Constant) /\ Len(c) = k + 1 /\ \A i \in 1..(k + 1) : c[i] = s[i]
        BY <1>1, <2>1
    <2> HIDE DEF a, c
    <2>4. /\ Append(a, e) \in Seq(Constant) /\ Len(Append(a, e)) = k + 1
          /\ \A i \in 1..(k + 1) : Append(a, e)[i] = s[i]
        BY <2>1, <2>2
    <2>5. Append(a, e) = c
        BY <2>3, <2>4, SeqEqual
    <2> QED BY <2>5 DEF a, c
<1> QED BY <1>3, <1>4

\* Some bytes on, what is left is what is left of the bytes still.
LEMMA DropTwice ==
    ASSUME NEW bs \in Seq(Byte), NEW k \in Nat, NEW l \in Nat, k + l <= Len(bs)
    PROVE  Drop(Drop(bs, k), l) = Drop(bs, k + l)
<1>1. Len(bs) \in Nat /\ k \in 0..Len(bs) /\ k + l \in 0..Len(bs)
    OBVIOUS
<1>2. /\ Drop(bs, k) \in Seq(Byte) /\ Len(Drop(bs, k)) = Len(bs) - k
      /\ \A i \in 1..(Len(bs) - k) : Drop(bs, k)[i] = bs[k + i]
    BY <1>1, DropIs
<1> DEFINE d == Drop(bs, k)
<1> HIDE DEF d
<1>3. d \in Seq(Byte) /\ l \in 0..Len(d)
    BY <1>1, <1>2 DEF d
<1>4. /\ Drop(d, l) \in Seq(Byte) /\ Len(Drop(d, l)) = Len(d) - l
      /\ \A i \in 1..(Len(d) - l) : Drop(d, l)[i] = d[l + i]
    BY <1>3, DropIs
<1>5. /\ Drop(bs, k + l) \in Seq(Byte) /\ Len(Drop(bs, k + l)) = Len(bs) - (k + l)
      /\ \A i \in 1..(Len(bs) - (k + l)) : Drop(bs, k + l)[i] = bs[(k + l) + i]
    BY <1>1, DropIs
<1>6. Len(d) - l = Len(bs) - (k + l)
    BY <1>1, <1>2 DEF d
<1>7. ASSUME NEW i \in 1..(Len(bs) - (k + l)) PROVE Drop(d, l)[i] = Drop(bs, k + l)[i]
    <2>1. l + i \in 1..(Len(bs) - k) /\ k + (l + i) = (k + l) + i
        BY <1>1
    <2>2. d[l + i] = bs[(k + l) + i]
        BY <2>1, <1>2 DEF d
    <2> QED BY <2>2, <1>4, <1>5, <1>6
<1>8. Drop(d, l) = Drop(bs, k + l)
    BY <1>4, <1>5, <1>6, <1>7, SeqEqual
<1> QED BY <1>8 DEF d

\* Nothing is left only of a file that was cut short.
LEMMA LeftSomething ==
    ASSUME NEW bs, NEW b, HeldOf(bs, b), NEW r, NEW cs, ReadSoFar(bs, b, r, cs)
    PROVE  r \in Seq(Byte) /\ (r = <<>> => bs # SerializeBytecode(b))
<1> DEFINE s == SerializeBytecode(b)
           n == Len(b.consts)
           at == Place(b)
<1>1. /\ n \in Nat /\ b.ins \in Seq(Byte) /\ bs \in Seq(Byte) /\ Len(bs) \in Nat /\ Len(b.ins) \in Nat
    BY FileRunnerAssumption DEF HeldOf
<1>2. /\ at \in [0..n -> Nat] /\ at[0] = 0 /\ Len(s) = (at[n] + 1) + Len(b.ins)
      /\ \A k \in 1..n : at[k] <= at[n]
    BY ProgramBytes DEF HeldOf, Places
<1>3. PICK k \in 0..n : at[k] <= Len(bs) /\ r = Drop(bs, at[k])
    BY DEF ReadSoFar
<1> HIDE DEF s, n, at
<1>4. at[k] \in Nat /\ at[n] \in Nat /\ at[k] <= at[n] /\ at[k] \in 0..Len(bs)
    BY <1>1, <1>2, <1>3
<1>5. r \in Seq(Byte) /\ Len(r) = Len(bs) - at[k]
    BY <1>1, <1>3, <1>4, DropIs
<1>6. r = <<>> => Len(bs) = at[k]
    BY <1>1, <1>4, <1>5
<1>7. Len(bs) = at[k] => Len(bs) # Len(s)
    BY <1>1, <1>2, <1>4
<1> QED BY <1>5, <1>6, <1>7 DEF s

\* A step of reading, at the instructions or at a constant.
LEMMA ReadsOn ==
    ASSUME NEW bs, NEW b, HeldOf(bs, b), NEW r, NEW cs, ReadSoFar(bs, b, r, cs), r # <<>>
    PROVE  \/ /\ r[1] = BytecodeMark /\ cs = b.consts /\ IsPrefix(Tail(r), b.ins)
              /\ bs = SerializeBytecode(b) => Tail(r) = b.ins
           \/ /\ r[1] # BytecodeMark /\ DeserializeConstant(r) = Panicked
              /\ bs # SerializeBytecode(b) \/ HasString(b)
           \/ /\ r[1] # BytecodeMark /\ DeserializeConstant(r) # Panicked
              /\ ReadSoFar(bs, b, Drop(r, DeserializeConstant(r).n), Append(cs, DeserializeConstant(r).object))
<1> DEFINE s == SerializeBytecode(b)
           n == Len(b.consts)
           at == Place(b)
<1>1. /\ b.consts \in Seq(Constant) /\ n \in Nat /\ b.ins \in Seq(Byte) /\ bs \in Seq(Byte)
      /\ Len(bs) \in Nat /\ Len(b.ins) \in Nat /\ Len(bs) <= Len(s) /\ Agrees(bs, s)
    BY FileRunnerAssumption DEF HeldOf, Begins
<1>2. /\ at \in [0..n -> Nat] /\ at[0] = 0 /\ Len(s) = (at[n] + 1) + Len(b.ins) /\ s \in Seq(Byte)
      /\ s[at[n] + 1] = BytecodeMark /\ \A i \in 1..Len(b.ins) : s[(at[n] + 1) + i] = b.ins[i]
      /\ \A k \in 1..n : /\ at[k] = at[k - 1] + Len(Serialize(b.consts[k])) /\ at[k] <= at[n]
                         /\ \A i \in 1..Len(Serialize(b.consts[k])) :
                                s[at[k - 1] + i] = Serialize(b.consts[k])[i]
    BY ProgramBytes DEF HeldOf, Places
<1>3. PICK k \in 0..n : cs = SubSeq(b.consts, 1, k) /\ at[k] <= Len(bs) /\ r = Drop(bs, at[k])
    BY DEF ReadSoFar
<1> HIDE DEF s, n, at
<1>4. at[k] \in Nat /\ at[n] \in Nat /\ at[k] \in 0..Len(bs)
    BY <1>1, <1>2, <1>3
<1>5. r \in Seq(Byte) /\ Len(r) = Len(bs) - at[k] /\ \A i \in 1..(Len(bs) - at[k]) : r[i] = bs[at[k] + i]
    BY <1>1, <1>3, <1>4, DropIs
<1>6. Len(r) \in Nat /\ Len(r) >= 1
    BY <1>5
<1>7. CASE k = n
    <2>1. ASSUME NEW i \in 1..Len(r) PROVE r[i] = s[at[n] + i]
        <3>1. at[n] + i \in 1..Len(bs) /\ at[n] + i <= Len(s)
            BY <1>1, <1>4, <1>5, <1>7
        <3>2. bs[at[n] + i] = s[at[n] + i]
            BY <3>1, <1>1 DEF Agrees
        <3> QED BY <3>2, <1>5, <1>7
    <2>2. r[1] = BytecodeMark
        BY <2>1, <1>2, <1>6
    <2>3. cs = b.consts
        BY <1>1, <1>3, <1>7, FirstOf DEF n
    <2>4. Tail(r) \in Seq(Byte) /\ Len(Tail(r)) = Len(r) - 1 /\ \A i \in 1..(Len(r) - 1) : Tail(r)[i] = r[i + 1]
        BY <1>5, <1>6
    <2> DEFINE t == Tail(r)
    <2> HIDE DEF t
    <2>5. t \in Seq(Byte) /\ Len(t) = Len(r) - 1 /\ Len(t) <= Len(b.ins)
        BY <2>4, <1>1, <1>2, <1>4, <1>5, <1>7 DEF t
    <2>6. ASSUME NEW i \in 1..Len(t) PROVE t[i] = b.ins[i]
        <3>1. i \in 1..(Len(r) - 1) /\ i + 1 \in 1..Len(r) /\ i \in 1..Len(b.ins) /\ at[n] + (i + 1) = (at[n] + 1) + i
            <4>1. Len(t) \in Nat /\ i \in Nat /\ i >= 1 /\ i <= Len(t)
                BY <2>5
            <4>2. at[n] + (i + 1) = (at[n] + 1) + i
                BY <4>1, <1>4
            <4> HIDE DEF t
            <4>3. i <= Len(r) - 1 /\ i <= Len(b.ins)
                BY <4>1, <2>5, <1>1, <1>6
            <4> QED BY <4>1, <4>2, <4>3, <1>1, <1>6
        <3>2. t[i] = r[i + 1]
            BY <2>4, <3>1 DEF t
        <3> QED BY <3>1, <3>2, <2>1, <1>2
    <2>7. IsPrefix(t, b.ins)
        <3>1. /\ SubSeq(t, 1, Len(t)) \in Seq(Byte) /\ Len(SubSeq(t, 1, Len(t))) = Len(t)
              /\ \A i \in 1..Len(t) : SubSeq(t, 1, Len(t))[i] = t[i]
            BY <2>5
        <3>2. /\ SubSeq(b.ins, 1, Len(t)) \in Seq(Byte) /\ Len(SubSeq(b.ins, 1, Len(t))) = Len(t)
              /\ \A i \in 1..Len(t) : SubSeq(b.ins, 1, Len(t))[i] = b.ins[i]
            BY <2>5, <1>1
        <3>3. SubSeq(t, 1, Len(t)) = SubSeq(b.ins, 1, Len(t))
            BY <3>1, <3>2, <2>6, SeqEqual
        <3> QED BY <3>3, <2>5 DEF IsPrefix
    <2>8. bs = s => t = b.ins
        <3> SUFFICES ASSUME bs = s PROVE t = b.ins
            OBVIOUS
        <3>1. Len(t) = Len(b.ins)
            BY <2>5, <1>1, <1>2, <1>4, <1>5, <1>7
        <3> QED BY <3>1, <2>5, <2>6, <1>1, SeqEqual
    <2> QED BY <2>2, <2>3, <2>7, <2>8 DEF t, s
<1>8. CASE k # n
    <2> DEFINE c == b.consts[k + 1]
               l == Len(Serialize(c))
    <2>1. k + 1 \in 1..n /\ (k + 1) - 1 = k /\ k < n /\ k + 1 \in 0..n
        BY <1>1, <1>8
    <2>2. c \in Constant /\ \A v \in Numbers(c) : Fits(v)
        BY <2>1, ConstantsFit DEF n, HeldOf
    <2>3. /\ Serialize(c) \in Seq(Byte) /\ l >= 1
          /\ Agrees(r, Serialize(c)) => r[1] # BytecodeMark /\ ReadsConstant(r, c)
        BY <2>2, <1>5, ConstantRead
    <2>4. at[k + 1] = at[k] + l /\ at[k + 1] <= at[n] /\ \A i \in 1..l : s[at[k] + i] = Serialize(c)[i]
        BY <2>1, <1>2
    <2>5. c[1] = "STRING" => HasString(b)
        BY <2>1, <1>1 DEF HasString, ToSet, n
    <2>6. Append(cs, c) = SubSeq(b.consts, 1, k + 1)
        BY <2>1, <1>1, <1>3, FirstOf DEF n
    <2>7. l \in Nat
        BY <2>3
    <2> HIDE DEF c, l
    <2>8. Agrees(r, Serialize(c))
        <3>1. ASSUME NEW i \in 1..Len(r), i <= l PROVE r[i] = Serialize(c)[i]
            <4>1. at[k] + i \in 1..Len(bs) /\ at[k] + i <= Len(s) /\ i \in 1..l
                BY <3>1, <1>1, <1>4, <1>5, <2>7
            <4>2. bs[at[k] + i] = s[at[k] + i]
                BY <4>1, <1>1 DEF Agrees
            <4> QED BY <4>1, <4>2, <2>4, <1>5
        <3> QED BY <3>1 DEF Agrees, l
    <2>9. r[1] # BytecodeMark /\ ReadsConstant(r, c)
        BY <2>3, <2>8
    <2>10. CASE DeserializeConstant(r) = Panicked
        <3>1. Len(r) < l => Len(bs) # Len(s)
            BY <2>4, <2>7, <1>1, <1>2, <1>4, <1>5
        <3>2. Len(r) < l \/ c[1] = "STRING"
            <4>1. Panicked # Read(l, c)
                BY <2>3, <2>7 DEF Panicked, Read, l
            <4> QED BY <4>1, <2>9, <2>10 DEF ReadsConstant, l
        <3> QED BY <3>1, <3>2, <2>5, <2>9, <2>10 DEF s
    <2>11. CASE DeserializeConstant(r) # Panicked
        <3>1. DeserializeConstant(r) = Read(l, c) /\ l <= Len(r)
            BY <2>9, <2>11 DEF ReadsConstant, l
        <3>2. DeserializeConstant(r).n = l /\ DeserializeConstant(r).object = c
            BY <3>1 DEF Read
        <3>3. at[k] + l <= Len(bs)
            BY <3>1, <2>7, <1>1, <1>4, <1>5
        <3>4. Drop(r, l) = Drop(bs, at[k + 1])
            BY <3>3, <2>4, <2>7, <1>1, <1>3, <1>4, DropTwice
        <3>5. ReadSoFar(bs, b, Drop(r, l), Append(cs, c))
            BY <3>3, <3>4, <2>1, <2>4, <2>6 DEF ReadSoFar, n, at
        <3> QED BY <3>2, <3>5, <2>9, <2>11
    <2> QED BY <2>10, <2>11
<1> QED BY <1>7, <1>8

-----------------------------------------------------------------------------
(***************************************************************************)
(* The inductive invariant.                                                 *)
(***************************************************************************)
FlagsInOrder ==
    /\ source \in Bytecodes
    /\ phase \in {"idle", "repl", "source", "created", "read koko", "deserialize"}
    /\ phase # "idle" => ~Invalid(flags)
    /\ phase \in {"repl", "source", "created"} => ~RunsKoko(flags)
    /\ phase = "created" => flags.out /\ flags.engine = "vm"
    /\ phase \in {"read koko", "deserialize"} => RunsKoko(flags)
    /\ flags.out => result.what \notin {"ran", "evaluated", "ran koko"}

KokoInOrder == koko = NoFile \/ koko = <<>> \/ \E b \in Bytecodes : HeldOf(koko, b)

ReadingInOrder ==
    phase = "deserialize" =>
        /\ Held = <<>> => rest = <<>>
        /\ \A b \in Bytecodes : HeldOf(Held, b) => ReadSoFar(Held, b, rest, constants)

ResultInOrder == LoadsOrRefuses /\ RunsOnlyPrefixes

FilesInOrder == FlagsInOrder /\ KokoInOrder /\ ReadingInOrder /\ ResultInOrder

LEMMA KokoHeld ==
    ASSUME KokoInOrder
    PROVE  Held = <<>> \/ \E b \in Bytecodes : HeldOf(Held, b)
BY DEF KokoInOrder, Held

\* A file that is whole is there.
LEMMA WholeHeld ==
    ASSUME NEW b \in Bytecodes, ~SerializePanics(b), koko = SerializeBytecode(b)
    PROVE  Held = koko /\ HeldOf(koko, b)
<1>1. koko \in Seq(Byte)
    BY ProgramBytes DEF Places
<1>2. koko # NoFile
    <2>1. NoFile[1] = -1 /\ Len(NoFile) = 1 /\ -1 \notin Byte
        BY DEF NoFile, Byte
    <2> QED BY <1>1, <2>1
<1>3. Begins(koko, SerializeBytecode(b))
    BY <1>1 DEF Begins, Agrees
<1> QED BY <1>1, <1>2, <1>3 DEF Held, HeldOf

LEMMA InitInOrder == Init => FilesInOrder
<1> SUFFICES ASSUME Init PROVE FilesInOrder
    OBVIOUS
<1>1. FlagsInOrder
    BY DEF Init, FlagsInOrder, Did
<1>2. ~RunsKoko(flags)
    BY DEF Init, RunsKoko
<1>3. result.what # "ran koko"
    BY DEF Init, Did
<1> QED BY <1>1, <1>2, <1>3 DEF Init, FilesInOrder, KokoInOrder, ReadingInOrder, ResultInOrder,
            LoadsOrRefuses, RunsOnlyPrefixes

LEMMA InvokeInOrder == ASSUME FilesInOrder, Invoke PROVE FilesInOrder'
<1>1. PICK f \in Flags :
        /\ flags' = f
        /\ phase' = IF Invalid(f) THEN "idle" ELSE IF f.args = "none" THEN "repl"
                    ELSE IF RunsKoko(f) THEN "read koko" ELSE "source"
        /\ result' = IF Invalid(f) THEN Did("usage", NoProgram) ELSE Did("nothing", NoProgram)
    BY DEF Invoke
<1>2. source' = source /\ koko' = koko /\ rest' = rest /\ constants' = constants
    BY DEF Invoke
<1>3. \/ Invalid(f) /\ phase' = "idle" /\ result'.what = "usage"
      \/ /\ ~Invalid(f) /\ result'.what = "nothing"
         /\ \/ phase' = "repl" /\ f.args = "none"
            \/ phase' = "read koko" /\ RunsKoko(f)
            \/ phase' = "source" /\ ~RunsKoko(f)
    BY <1>1 DEF Did
<1>4. ~Invalid(f) /\ f.args = "none" => ~RunsKoko(f)
    BY DEF Invalid, RunsKoko
<1>5. FlagsInOrder'
    BY <1>1, <1>2, <1>3, <1>4 DEF FilesInOrder, FlagsInOrder, Invalid, RunsKoko
<1>6. KokoInOrder'
    BY <1>2 DEF FilesInOrder, KokoInOrder, HeldOf, Begins, Agrees
<1>7. phase' # "deserialize" /\ result'.what # "ran koko" /\ (phase' = "idle" => result'.what = "usage")
    BY <1>3
<1> QED BY <1>5, <1>6, <1>7 DEF FilesInOrder, ReadingInOrder, ResultInOrder, LoadsOrRefuses, RunsOnlyPrefixes

\* Steps of a run that is not of a koko file, or that dies.
LEMMA ReplInOrder == ASSUME FilesInOrder, Repl PROVE FilesInOrder'
<1>1. /\ phase = "repl" /\ phase' = "idle" /\ result'.what = "repl"
      /\ source' = source /\ koko' = koko /\ flags' = flags /\ rest' = rest /\ constants' = constants
    BY DEF Repl, End, Did
<1>2. FlagsInOrder' /\ ~RunsKoko(flags)'
    BY <1>1 DEF FilesInOrder, FlagsInOrder, Invalid, RunsKoko
<1>3. KokoInOrder'
    BY <1>1 DEF FilesInOrder, KokoInOrder
<1> QED BY <1>1, <1>2, <1>3 DEF FilesInOrder, ReadingInOrder, ResultInOrder, LoadsOrRefuses, RunsOnlyPrefixes

LEMMA CrashInOrder == ASSUME FilesInOrder, Crash PROVE FilesInOrder'
<1>1. /\ phase' = "idle" /\ result'.what = "died"
      /\ source' = source /\ koko' = koko /\ flags' = flags /\ rest' = rest /\ constants' = constants
    BY DEF Crash, End, Did
<1>2. FlagsInOrder'
    BY <1>1 DEF FilesInOrder, FlagsInOrder, Invalid, RunsKoko
<1>3. KokoInOrder'
    BY <1>1 DEF FilesInOrder, KokoInOrder
<1> QED BY <1>1, <1>2, <1>3 DEF FilesInOrder, ReadingInOrder, ResultInOrder, LoadsOrRefuses, RunsOnlyPrefixes

LEMMA EditInOrder == ASSUME FilesInOrder, Edit PROVE FilesInOrder'
<1>1. /\ source' \in Bytecodes /\ phase' = phase /\ phase = "idle" /\ result' = result
      /\ koko' = koko /\ flags' = flags /\ rest' = rest /\ constants' = constants
    BY DEF Edit
<1>2. FlagsInOrder'
    BY <1>1 DEF FilesInOrder, FlagsInOrder
<1>3. KokoInOrder'
    BY <1>1 DEF FilesInOrder, KokoInOrder
<1>4. ResultInOrder'
    BY <1>1 DEF FilesInOrder, ResultInOrder, LoadsOrRefuses, RunsOnlyPrefixes, RunsKoko, Whole
<1> QED BY <1>1, <1>2, <1>3, <1>4 DEF FilesInOrder, ReadingInOrder

LEMMA RunSourceInOrder == ASSUME FilesInOrder, RunSource PROVE FilesInOrder'
<1>1. phase = "source" /\ source' = source /\ flags' = flags /\ rest' = rest /\ constants' = constants
    BY DEF RunSource
<1>2. \/ /\ phase' = "idle" /\ koko' = koko /\ result'.what \in {"rejected", "evaluated", "ran"}
         /\ result'.what = "evaluated" => flags.engine = "evaluator"
         /\ result'.what = "ran" => ~flags.out
      \/ phase' = "created" /\ koko' = <<>> /\ result' = result /\ flags.out /\ flags.engine = "vm"
    BY DEF RunSource, End, Did
<1>3. ~RunsKoko(flags)' /\ ~Invalid(flags)'
    BY <1>1 DEF FilesInOrder, FlagsInOrder, RunsKoko, Invalid
<1>4. flags.out => flags.engine = "vm"
    BY <1>1 DEF FilesInOrder, FlagsInOrder, Invalid
<1>5. CASE phase' = "idle"
    <2>1. /\ koko' = koko /\ result'.what \in {"rejected", "evaluated", "ran"}
          /\ flags.out => result'.what = "rejected"
        BY <1>2, <1>4, <1>5
    <2>2. FlagsInOrder'
        BY <1>1, <1>3, <1>5, <2>1 DEF FilesInOrder, FlagsInOrder
    <2>3. KokoInOrder'
        BY <2>1 DEF FilesInOrder, KokoInOrder
    <2>4. ResultInOrder'
        BY <1>3, <1>5, <2>1 DEF ResultInOrder, LoadsOrRefuses, RunsOnlyPrefixes
    <2> QED BY <1>5, <2>2, <2>3, <2>4 DEF FilesInOrder, ReadingInOrder
<1>6. CASE phase' = "created"
    <2>1. koko' = <<>> /\ result' = result /\ flags.out /\ flags.engine = "vm"
        BY <1>2, <1>6
    <2>2. FlagsInOrder'
        BY <1>1, <1>3, <1>6, <2>1 DEF FilesInOrder, FlagsInOrder
    <2>3. KokoInOrder'
        BY <2>1 DEF KokoInOrder
    <2>4. ResultInOrder'
        BY <1>6, <2>1 DEF FilesInOrder, ResultInOrder, LoadsOrRefuses, RunsOnlyPrefixes
    <2> QED BY <1>6, <2>2, <2>3, <2>4 DEF FilesInOrder, ReadingInOrder
<1> QED BY <1>2, <1>5, <1>6

LEMMA DidIs == ASSUME NEW what, NEW b PROVE Did(what, b).what = what /\ Did(what, b).bytecode = b
BY DEF Did

LEMMA EndIs == \A what, b : End(what, b) => phase' = "idle" /\ result'.what = what
BY DidIs, Zenon DEF End

LEMMA ProgramIs == \A p, c, i : p = [consts |-> c, ins |-> i] => p.consts = c /\ p.ins = i
OBVIOUS

LEMMA BeginningHeld ==
    ASSUME NEW b \in Bytecodes, ~SerializePanics(b), NEW k \in 0..Len(SerializeBytecode(b))
    PROVE  HeldOf(SubSeq(SerializeBytecode(b), 1, k), b)
<1> DEFINE s == SerializeBytecode(b)
<1>1. s \in Seq(Byte)
    BY ProgramBytes DEF Places
<1> HIDE DEF s
<1>2. /\ SubSeq(s, 1, k) \in Seq(Byte) /\ Len(SubSeq(s, 1, k)) = k /\ k <= Len(s)
      /\ \A i \in 1..k : SubSeq(s, 1, k)[i] = s[i]
    BY <1>1 DEF s
<1>3. Begins(SubSeq(s, 1, k), s)
    BY <1>2, Zenon DEF Begins, Agrees
<1> QED BY <1>2, <1>3 DEF HeldOf, s

LEMMA WriteKokoInOrder == ASSUME FilesInOrder, WriteKoko PROVE FilesInOrder'
<1>1. /\ phase = "created" /\ phase' = "idle" /\ source' = source /\ flags' = flags
      /\ rest' = rest /\ constants' = constants /\ source \in Bytecodes
      /\ result'.what \in {"panicked", "written", "could not write"}
    <2>1. source \in Bytecodes
        BY DEF FilesInOrder, FlagsInOrder
    <2>2. phase' = "idle" /\ result'.what \in {"panicked", "written", "could not write"}
        <3>1. CASE SerializePanics(source)
            <4>1. End("panicked", NoProgram)
                BY <3>1 DEF WriteKoko
            <4>2. phase' = "idle" /\ result'.what = "panicked"
                BY <4>1, DidIs, Zenon DEF End
            <4> QED BY <4>2
        <3>2. CASE ~SerializePanics(source)
            <4>1. End("written", source) \/ End("could not write", NoProgram)
                BY <3>2 DEF WriteKoko
            <4>2. End("written", source) => phase' = "idle" /\ result'.what = "written"
                BY EndIs, Zenon
            <4>3. End("could not write", NoProgram) => phase' = "idle" /\ result'.what = "could not write"
                BY EndIs, Zenon
            <4> QED BY <4>1, <4>2, <4>3
        <3> QED BY <3>1, <3>2
    <2> QED BY <2>1, <2>2 DEF WriteKoko
<1>2. ~RunsKoko(flags)' /\ ~Invalid(flags)'
    BY <1>1 DEF FilesInOrder, FlagsInOrder, RunsKoko, Invalid
<1>3. FlagsInOrder'
    BY <1>1, <1>2 DEF FlagsInOrder
<1>4. KokoInOrder'
    <2>1. CASE SerializePanics(source)
        <3>1. koko' = koko
            BY <2>1 DEF WriteKoko
        <3> QED BY <3>1 DEF FilesInOrder, KokoInOrder
    <2>2. CASE ~SerializePanics(source)
        <3>1. koko' = SerializeBytecode(source)
                \/ \E k \in 0..(Len(SerializeBytecode(source)) - 1) : koko' = SubSeq(SerializeBytecode(source), 1, k)
            BY <2>2 DEF WriteKoko
        <3>2. SerializeBytecode(source) \in Seq(Byte)
            BY <1>1, <2>2, ProgramBytes DEF Places
        <3>3. \A k \in 0..(Len(SerializeBytecode(source)) - 1) : k \in 0..Len(SerializeBytecode(source))
            BY <3>2
        <3>4. HeldOf(SerializeBytecode(source), source)
            <4>1. \A s \in Seq(Byte) : Begins(s, s)
                BY DEF Begins, Agrees
            <4> QED BY <4>1, <1>1, <2>2, <3>2, Zenon DEF HeldOf
        <3>5. HeldOf(koko', source)
            BY <1>1, <2>2, <3>1, <3>3, <3>4, BeginningHeld
        <3> QED BY <1>1, <3>5 DEF KokoInOrder
    <2> QED BY <2>1, <2>2
<1>5. ResultInOrder'
    BY <1>1, <1>2 DEF ResultInOrder, LoadsOrRefuses, RunsOnlyPrefixes
<1> QED BY <1>1, <1>3, <1>4, <1>5 DEF FilesInOrder, ReadingInOrder

LEMMA ReadKokoInOrder == ASSUME FilesInOrder, ReadKoko PROVE FilesInOrder'
<1>1. /\ phase = "read koko" /\ phase' = "deserialize" /\ rest' = Held /\ constants' = <<>>
      /\ source' = source /\ koko' = koko /\ flags' = flags /\ result' = result
    BY DEF ReadKoko, Held
<1>2. FlagsInOrder'
    BY <1>1 DEF FilesInOrder, FlagsInOrder
<1>3. KokoInOrder'
    BY <1>1 DEF FilesInOrder, KokoInOrder
<1>4. Held' = Held
    BY <1>1 DEF Held
<1>5. ASSUME NEW b \in Bytecodes, HeldOf(Held, b) PROVE ReadSoFar(Held, b, Held, <<>>)
    <2>1. Held \in Seq(Byte) /\ b.consts \in Seq(Constant) /\ Place(b)[0] = 0 /\ Len(b.consts) \in Nat
        BY <1>5, ProgramBytes, FileRunnerAssumption DEF HeldOf, Places
    <2> DEFINE h == Held
    <2> HIDE DEF h
    <2>2. 0 \in 0..Len(h) /\ h \in Seq(Byte)
        BY <2>1 DEF h
    <2>3. Drop(h, 0) \in Seq(Byte) /\ Len(Drop(h, 0)) = Len(h) - 0 /\ \A i \in 1..(Len(h) - 0) : Drop(h, 0)[i] = h[0 + i]
        BY <2>2, DropIs
    <2>4. Len(h) - 0 = Len(h) /\ \A i \in 1..Len(h) : 0 + i = i
        BY <2>2
    <2>5. Drop(h, 0) = h
        BY <2>2, <2>3, <2>4, SeqEqual
    <2>6. SubSeq(b.consts, 1, 0) = <<>> /\ 0 \in 0..Len(b.consts)
        BY <2>1, FirstOf
    <2> QED BY <2>1, <2>2, <2>5, <2>6 DEF ReadSoFar, h
<1>6. ReadingInOrder'
    BY <1>1, <1>4, <1>5 DEF ReadingInOrder, HeldOf
<1>7. ResultInOrder'
    BY <1>1 DEF FilesInOrder, ResultInOrder, LoadsOrRefuses, RunsOnlyPrefixes
<1> QED BY <1>2, <1>3, <1>6, <1>7 DEF FilesInOrder

LEMMA DeserializeInOrder == ASSUME FilesInOrder, Deserialize PROVE FilesInOrder'
<1>1. /\ phase = "deserialize" /\ koko' = koko /\ source' = source /\ flags' = flags /\ Held' = Held
      /\ RunsKoko(flags) /\ ~Invalid(flags) /\ ~flags.out
    BY DEF Deserialize, Held, FilesInOrder, FlagsInOrder, RunsKoko, Invalid
<1>2. KokoInOrder'
    BY <1>1 DEF FilesInOrder, KokoInOrder
<1>3. /\ Held = <<>> => rest = <<>>
      /\ \A b \in Bytecodes : HeldOf(Held, b) => ReadSoFar(Held, b, rest, constants)
    BY <1>1 DEF FilesInOrder, ReadingInOrder
<1>4. rest # <<>> => \E b \in Bytecodes : HeldOf(Held, b)
    BY <1>3, KokoHeld DEF FilesInOrder
<1>5. CASE phase' = "deserialize"
    <2>1. /\ rest # <<>> /\ rest[1] # BytecodeMark /\ DeserializeConstant(rest) # Panicked
          /\ rest' = Drop(rest, DeserializeConstant(rest).n) /\ result' = result
          /\ constants' = Append(constants, DeserializeConstant(rest).object)
        BY <1>5 DEF Deserialize, EndOfBytes, End
    <2>2. FlagsInOrder'
        BY <1>1, <1>5, <2>1 DEF FilesInOrder, FlagsInOrder
    <2>3. \A b \in Bytecodes : HeldOf(Held, b) => ReadSoFar(Held, b, rest', constants')
        BY <2>1, <1>3, ReadsOn
    <2>4. ReadingInOrder'
        BY <1>1, <1>3, <2>1, <2>3 DEF ReadingInOrder
    <2>5. ResultInOrder'
        BY <1>1, <1>5, <2>1 DEF FilesInOrder, ResultInOrder, LoadsOrRefuses, RunsOnlyPrefixes
    <2> QED BY <1>2, <2>2, <2>4, <2>5 DEF FilesInOrder
<1>6. CASE phase' # "deserialize"
    <2>1. /\ phase' = "idle"
          /\ \/ result'.what = "panicked" /\ rest = <<>>
             \/ /\ rest # <<>> /\ rest[1] = BytecodeMark
                /\ result' = Did("ran koko", [consts |-> constants, ins |-> Tail(rest)])
             \/ /\ result'.what = "panicked" /\ rest # <<>> /\ rest[1] # BytecodeMark
                /\ DeserializeConstant(rest) = Panicked
        <3>1. CASE rest = <<>>
            BY <3>1, <1>1 DEF Deserialize, EndOfBytes, End, Did
        <3>2. CASE rest # <<>> /\ rest[1] = BytecodeMark
            BY <3>2, <1>1, Zenon DEF Deserialize, End
        <3>3. CASE rest # <<>> /\ rest[1] # BytecodeMark
            <4>1. DeserializeConstant(rest) = Panicked
                BY <3>3, <1>1, <1>6 DEF Deserialize
            <4>2. EndOfBytes
                BY <3>3, <4>1, <1>1, <1>6 DEF Deserialize, EndOfBytes
            <4> QED BY <3>3, <4>1, <4>2, DidIs, Zenon DEF EndOfBytes, End
        <3> QED BY <3>1, <3>2, <3>3
    <2>2. FlagsInOrder'
        BY <1>1, <2>1 DEF FilesInOrder, FlagsInOrder
    <2>3. RunsOnlyPrefixes'
        <3> SUFFICES ASSUME result'.what = "ran koko"
                     PROVE  \E b \in Bytecodes : /\ result'.bytecode.consts = b.consts
                                                 /\ IsPrefix(result'.bytecode.ins, b.ins)
            BY DEF RunsOnlyPrefixes
        <3>1. rest # <<>> /\ rest[1] = BytecodeMark /\ result'.bytecode = [consts |-> constants, ins |-> Tail(rest)]
            <4>1. rest # <<>> /\ rest[1] = BytecodeMark
                BY <2>1
            <4>2. result' = Did("ran koko", [consts |-> constants, ins |-> Tail(rest)])
                BY <2>1
            <4> QED BY <4>1, <4>2, DidIs, Zenon
        <3>2. PICK b \in Bytecodes : HeldOf(Held, b) /\ ReadSoFar(Held, b, rest, constants)
            BY <3>1, <1>3, <1>4
        <3>3. constants = b.consts /\ IsPrefix(Tail(rest), b.ins)
            BY <3>1, <3>2, ReadsOn
        <3>4. result'.bytecode.consts = constants /\ result'.bytecode.ins = Tail(rest)
            BY <3>1, ProgramIs, Zenon
        <3> QED BY <3>3, <3>4
    <2>4. LoadsOrRefuses'
        <3> SUFFICES ASSUME NEW b \in Bytecodes, ~SerializePanics(b), koko = SerializeBytecode(b)
                     PROVE  \/ result'.what = "ran koko" /\ koko = SerializeBytecode(result'.bytecode)
                            \/ result'.what = "panicked" /\ HasString(b)
            BY <1>1 DEF LoadsOrRefuses, Whole
        <3>1. Held = koko /\ HeldOf(koko, b)
            BY WholeHeld
        <3>2. HeldOf(Held, b) /\ ReadSoFar(Held, b, rest, constants) /\ Held = SerializeBytecode(b)
            BY <3>1, <1>3
        <3>3. rest # <<>>
            BY <3>2, LeftSomething
        <3>4. CASE rest[1] = BytecodeMark
            <4>1. constants = b.consts /\ Tail(rest) = b.ins
                BY <3>2, <3>3, <3>4, ReadsOn
            <4>2. b = [consts |-> b.consts, ins |-> b.ins]
                BY FileRunnerAssumption
            <4>3. result'.what = "ran koko" /\ result'.bytecode = [consts |-> constants, ins |-> Tail(rest)]
                <5>1. result' = Did("ran koko", [consts |-> constants, ins |-> Tail(rest)])
                    BY <2>1, <3>3, <3>4
                <5>2. /\ Did("ran koko", [consts |-> constants, ins |-> Tail(rest)]).what = "ran koko"
                      /\ Did("ran koko", [consts |-> constants, ins |-> Tail(rest)]).bytecode
                            = [consts |-> constants, ins |-> Tail(rest)]
                    BY DidIs, Zenon
                <5> QED BY <5>1, <5>2
            <4> QED BY <4>1, <4>2, <4>3
        <3>5. CASE rest[1] # BytecodeMark
            <4>1. result'.what = "panicked" /\ DeserializeConstant(rest) = Panicked
                BY <2>1, <3>3, <3>5
            <4>2. HasString(b)
                BY <3>2, <3>3, <3>5, <4>1, ReadsOn
            <4> QED BY <4>1, <4>2
        <3> QED BY <3>4, <3>5
    <2> QED BY <1>2, <2>1, <2>2, <2>3, <2>4 DEF FilesInOrder, ReadingInOrder, ResultInOrder
<1> QED BY <1>5, <1>6

LEMMA AlwaysInOrder == Spec => []FilesInOrder
<1>1. FilesInOrder /\ [Next]_vars => FilesInOrder'
    <2> SUFFICES ASSUME FilesInOrder, [Next]_vars PROVE FilesInOrder'
        OBVIOUS
    <2>1. CASE UNCHANGED vars
        <3>1. /\ source' = source /\ koko' = koko /\ flags' = flags /\ phase' = phase /\ rest' = rest
              /\ constants' = constants /\ result' = result /\ Held' = Held
            BY <2>1 DEF vars, Held
        <3> QED BY <3>1 DEF FilesInOrder, FlagsInOrder, KokoInOrder, ReadingInOrder, ResultInOrder,
                LoadsOrRefuses, RunsOnlyPrefixes
    <2> QED BY <2>1, InvokeInOrder, ReplInOrder, RunSourceInOrder, WriteKokoInOrder, ReadKokoInOrder,
            DeserializeInOrder, CrashInOrder, EditInOrder DEF Next, Main
<1> QED BY <1>1, InitInOrder, PTL DEF Spec

\* Bytes left over by a constant mean that it is no string: String.Deserialize takes a
\* string only when its bytes are the last.
LEMMA StringsEndTheFile ==
    ASSUME NEW bs \in Seq(Byte), DeserializeConstant(bs) # Panicked,
           Drop(bs, DeserializeConstant(bs).n) # <<>>
    PROVE  DeserializeConstant(bs).object[1] # "STRING"
<1> DEFINE r == Varint(SubSeq(bs, 2, Header))
<1>1. Len(bs) \in Nat /\ Header \in Nat /\ Len(bs) \in 0..Len(bs)
    BY SerializationAssumption DEF Header
<1>2. CASE bs[1] = StringMark
    <2>1. DeserializeConstant(bs) = DeserializeString(bs)
        BY <1>2 DEF DeserializeConstant, IntegerMark, StringMark, FunctionMark
    <2>2. r.value = Len(bs) - Header /\ DeserializeString(bs).n = Header + r.value
        BY <2>1 DEF DeserializeString, Read
    <2>3. DeserializeConstant(bs).n = Len(bs)
        BY <2>1, <2>2, <1>1
    <2>4. Drop(bs, Len(bs)) \in Seq(Byte) /\ Len(Drop(bs, Len(bs))) = Len(bs) - Len(bs)
        BY <1>1, DropIs
    <2>5. Drop(bs, Len(bs)) = <<>>
        BY <2>4, <1>1
    <2> QED BY <2>3, <2>5
<1>3. CASE bs[1] = IntegerMark
    <2>1. DeserializeConstant(bs) = DeserializeInteger(bs)
        BY <1>3 DEF DeserializeConstant, IntegerMark, StringMark, FunctionMark
    <2>2. DeserializeConstant(bs).object[1] = "INTEGER"
        BY <2>1 DEF DeserializeInteger, Read, Integer
    <2> QED BY <2>2
<1>4. CASE bs[1] = FunctionMark
    <2>1. DeserializeConstant(bs) = DeserializeFunction(bs)
        BY <1>4 DEF DeserializeConstant, IntegerMark, StringMark, FunctionMark
    <2>2. DeserializeConstant(bs).object[1] = "COMPILED_FUNCTION"
        BY <2>1 DEF DeserializeFunction, Read, Function
    <2> QED BY <2>2
<1>5. CASE bs[1] \notin {IntegerMark, StringMark, FunctionMark}
    BY <1>5 DEF DeserializeConstant
<1> QED BY <1>2, <1>3, <1>4, <1>5

\* While there is something left to read, no string has been read.
NoStringRead ==
    /\ phase = "deserialize" /\ rest # <<>> => \A i \in DOMAIN constants : constants[i][1] # "STRING"
    /\ StringsRefused

LEMMA NoStringStays ==
    ASSUME FilesInOrder, NoStringRead, Deserialize
    PROVE  NoStringRead'
<1>1. phase = "deserialize"
    BY DEF Deserialize
<1>2. CASE rest = <<>>
    <2>1. End("panicked", NoProgram)
        BY <1>2 DEF Deserialize, EndOfBytes
    <2>2. phase' = "idle" /\ result'.what = "panicked"
        BY <2>1, EndIs, Zenon
    <2> QED BY <2>2 DEF NoStringRead, StringsRefused
<1>3. CASE rest # <<>> /\ rest[1] = BytecodeMark
    <2>1. result' = Did("ran koko", [consts |-> constants, ins |-> Tail(rest)])
        BY <1>3, Zenon DEF Deserialize, End
    <2>2. phase' = "idle"
        BY <1>3, Zenon DEF Deserialize, End
    <2>3. result'.bytecode = [consts |-> constants, ins |-> Tail(rest)]
        BY <2>1, Zenon DEF Did
    <2>4. result'.bytecode.consts = constants
        BY <2>3, ProgramIs, Zenon
    <2>5. \A c \in ToSet(constants) : c[1] # "STRING"
        BY <1>1, <1>3 DEF NoStringRead, ToSet
    <2> QED BY <2>2, <2>4, <2>5 DEF NoStringRead, StringsRefused, HasString
<1>4. CASE rest # <<>> /\ rest[1] # BytecodeMark
    <2> DEFINE r == DeserializeConstant(rest)
    <2>1. PICK b \in Bytecodes : HeldOf(Held, b) /\ ReadSoFar(Held, b, rest, constants)
        BY <1>1, <1>4, KokoHeld DEF FilesInOrder, ReadingInOrder
    <2>2. rest \in Seq(Byte) /\ constants \in Seq(Constant)
        <3>1. b.consts \in Seq(Constant)
            BY FileRunnerAssumption
        <3> QED BY <2>1, <3>1, LeftSomething DEF ReadSoFar
    <2>3. CASE r = Panicked
        <3>1. End("panicked", NoProgram)
            BY <1>4, <2>3 DEF Deserialize
        <3>2. phase' = "idle" /\ result'.what = "panicked"
            BY <3>1, EndIs, Zenon
        <3> QED BY <3>2 DEF NoStringRead, StringsRefused
    <2>4. CASE r # Panicked
        <3>1. /\ rest' = Drop(rest, r.n) /\ constants' = Append(constants, r.object)
              /\ phase' = phase /\ result' = result
            BY <1>4, <2>4 DEF Deserialize
        <3>2. \A i \in DOMAIN constants : constants[i][1] # "STRING"
            BY <1>1, <1>4 DEF NoStringRead
        <3>3. ASSUME rest' # <<>>, NEW i \in DOMAIN constants' PROVE constants'[i][1] # "STRING"
            <4> DEFINE o == r.object
            <4>1. o[1] # "STRING"
                BY <2>2, <2>4, <3>1, <3>3, StringsEndTheFile
            <4> HIDE DEF o
            <4>2. DOMAIN constants = 1..Len(constants) /\ Len(constants) \in Nat
                BY <2>2
            <4>3. constants' = Append(constants, o)
                BY <3>1 DEF o
            <4>4. i \in 1..(Len(constants) + 1)
                BY <2>2, <4>3, <3>3
            <4>5. constants'[i] = IF i = Len(constants) + 1 THEN o ELSE constants[i]
                BY <2>2, <4>3, <4>4
            <4> QED BY <4>1, <4>2, <4>4, <4>5, <3>2
        <3> QED BY <3>1, <3>3 DEF NoStringRead, StringsRefused
    <2> QED BY <2>3, <2>4
<1> QED BY <1>2, <1>3, <1>4

LEMMA NeverAString == Spec => []StringsRefused
<1>1. Init => NoStringRead
    BY DEF Init, NoStringRead, StringsRefused, Did
<1>2. FilesInOrder /\ NoStringRead /\ [Next]_vars => NoStringRead'
    <2> SUFFICES ASSUME FilesInOrder, NoStringRead, [Next]_vars PROVE NoStringRead'
        OBVIOUS
    <2>1. CASE UNCHANGED vars
        BY <2>1 DEF vars, NoStringRead, StringsRefused
    <2>2. CASE Invoke
        <3>1. PICK f \in Flags :
                /\ phase' = IF Invalid(f) THEN "idle" ELSE IF f.args = "none" THEN "repl"
                            ELSE IF RunsKoko(f) THEN "read koko" ELSE "source"
                /\ result' = IF Invalid(f) THEN Did("usage", NoProgram) ELSE Did("nothing", NoProgram)
            BY <2>2 DEF Invoke
        <3>2. phase' # "deserialize" /\ result'.what # "ran koko"
            BY <3>1 DEF Did
        <3> QED BY <3>2 DEF NoStringRead, StringsRefused
    <2>3. CASE Repl \/ Crash
        <3>1. phase' = "idle" /\ result'.what \in {"repl", "died"}
            BY <2>3 DEF Repl, Crash, End, Did
        <3> QED BY <3>1 DEF NoStringRead, StringsRefused
    <2>4. CASE RunSource
        <3>1. \/ phase' = "idle" /\ result'.what # "ran koko"
              \/ phase' = "created" /\ result' = result
            <4>1. \/ End("rejected", NoProgram) \/ End("evaluated", NoProgram) \/ End("ran", source)
                  \/ phase' = "created" /\ result' = result
                BY <2>4 DEF RunSource
            <4>2. /\ End("rejected", NoProgram) => phase' = "idle" /\ result'.what = "rejected"
                  /\ End("evaluated", NoProgram) => phase' = "idle" /\ result'.what = "evaluated"
                  /\ End("ran", source) => phase' = "idle" /\ result'.what = "ran"
                BY EndIs, Zenon
            <4> QED BY <4>1, <4>2
        <3> QED BY <3>1 DEF NoStringRead, StringsRefused
    <2>5. CASE WriteKoko
        <3>1. phase' = "idle" /\ result'.what # "ran koko"
            <4>1. \/ End("panicked", NoProgram) \/ End("written", source) \/ End("could not write", NoProgram)
                BY <2>5 DEF WriteKoko
            <4>2. /\ End("panicked", NoProgram) => phase' = "idle" /\ result'.what = "panicked"
                  /\ End("written", source) => phase' = "idle" /\ result'.what = "written"
                  /\ End("could not write", NoProgram) => phase' = "idle" /\ result'.what = "could not write"
                BY EndIs, Zenon
            <4> QED BY <4>1, <4>2
        <3> QED BY <3>1 DEF NoStringRead, StringsRefused
    <2>6. CASE ReadKoko
        <3>1. constants' = <<>> /\ result' = result
            BY <2>6 DEF ReadKoko
        <3>2. \A i \in DOMAIN constants' : constants'[i][1] # "STRING"
            BY <3>1
        <3> QED BY <3>1, <3>2 DEF NoStringRead, StringsRefused
    <2>7. CASE Edit
        <3>1. phase' = "idle" /\ result' = result
            BY <2>7 DEF Edit
        <3> QED BY <3>1 DEF NoStringRead, StringsRefused
    <2> QED BY <2>1, <2>2, <2>3, <2>4, <2>5, <2>6, <2>7, NoStringStays DEF Next, Main
<1>3. NoStringRead => StringsRefused
    BY DEF NoStringRead
<1> QED BY <1>1, <1>2, <1>3, AlwaysInOrder, PTL DEF Spec

-----------------------------------------------------------------------------
\* For every program, number of runs, death and failed write: a koko file that is whole
\* runs as the program it was made from, or has a string and is refused, and no file that
\* runs has a string (Serialize and Deserialize of object_serialization.go and of
\* compiler.Bytecode, main.go).
THEOREM WholeFilesLoad == Spec => []LoadsWhatIsWritten
<1>1. FilesInOrder => LoadsOrRefuses
    BY DEF FilesInOrder, ResultInOrder
<1> QED BY <1>1, AlwaysInOrder, NeverAString, PTL DEF LoadsWhatIsWritten

\* What runs of a file cut short anywhere is the beginning of a program, with all of its
\* constants (main.go, where the file is created before it is written).
THEOREM CutFilesRunPrefixes == Spec => []RunsOnlyPrefixes
<1>1. FilesInOrder => RunsOnlyPrefixes
    BY DEF FilesInOrder, ResultInOrder
<1> QED BY <1>1, AlwaysInOrder, PTL

\* A run with -o runs nothing, and nothing else touches the koko file (main.go, its flags).
THEOREM OutputCompiles == Spec => OutputOnlyCompiles
<1> DEFINE Step == /\ koko' # koko => flags.out /\ flags.engine = "vm"
                   /\ flags'.out => result'.what \notin {"ran", "evaluated", "ran koko"}
<1>1. FilesInOrder /\ FilesInOrder' /\ [Next]_vars => [Step]_vars
    <2> SUFFICES ASSUME FilesInOrder, FilesInOrder', Next PROVE Step
        OBVIOUS
    <2>1. flags'.out => result'.what \notin {"ran", "evaluated", "ran koko"}
        BY DEF FilesInOrder, FlagsInOrder
    <2>2. koko' # koko => flags.out /\ flags.engine = "vm"
        <3>1. CASE Invoke \/ Repl \/ ReadKoko \/ Deserialize \/ Crash \/ Edit
            BY <3>1 DEF Invoke, Repl, ReadKoko, Deserialize, Crash, Edit
        <3>2. CASE RunSource
            BY <3>2 DEF RunSource, End
        <3>3. CASE WriteKoko
            BY <3>3 DEF WriteKoko, FilesInOrder, FlagsInOrder
        <3> QED BY <3>1, <3>2, <3>3 DEF Next, Main
    <2> QED BY <2>1, <2>2
<1> QED BY <1>1, AlwaysInOrder, PTL DEF Spec, OutputOnlyCompiles
=============================================================================
