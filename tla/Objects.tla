------------------------------ MODULE Objects ------------------------------
(***************************************************************************)
(* The run-time objects of the virtual machine (object/object.go) and the   *)
(* value-level semantics the VM gives them: truth, infix operators, hash    *)
(* keys and indexing (vm/vm.go, object/hash_utils.go).                      *)
(*                                                                         *)
(* An object is a triple <<type, number, bytes>>.  The number is the value  *)
(* of an integer, 0 or 1 for a Boolean, the number of a builtin or compiled *)
(* function, and for the objects the program can share or mutate (closures, *)
(* arrays, hashes) a position in the heap of their type; the bytes are      *)
(* those of a string.  The type NIL is Go's nil interface, the content of a *)
(* slot nobody wrote.                                                       *)
(*                                                                         *)
(* The result of an operation is an object, or one of three marks that are  *)
(* no object: FAIL (Run returns an error), MISS (Run pushes null, then      *)
(* returns an error) and PANIC (the Go runtime panics).                     *)
(***************************************************************************)
EXTENDS Code

CONSTANTS
    IntHalf,      \* integers are -IntHalf..IntHalf-1; int64 has IntHalf = 2^63
    VarintHalf    \* integers whose varint fits 8 bytes: -VarintHalf..VarintHalf-1,
                  \* 2^55 in the code

ASSUME IntegerAssumption ==
    /\ IntHalf \in Nat \ {0}
    /\ VarintHalf \in 1..IntHalf

Obj(type, n) == <<type, n, <<>> >>
Nil == Obj("NIL", 0)
NullS == Obj("NULL", 0)
TrueS == Obj("BOOLEAN", 1)
FalseS == Obj("BOOLEAN", 0)
ErrorObj == Obj("ERROR", 0)           \* error values carry no message here
IntObj(n) == Obj("INTEGER", n)
BoolObj(b) == IF b THEN TrueS ELSE FalseS
StrObj(s) == <<"STRING", 0, s>>

Fail(why) == <<"FAIL", why>>
Miss(why) == <<"MISS", why>>
Panics(why) == <<"PANIC", why>>

\* Why Run returned an error, or why the program panicked.
Errors == {"stack overflow", "type mismatch", "unsupported types",
           "unknown boolean operator", "unknown string operator",
           "cannot prefix with -", "unhashable key", "cannot index",
           "index is not an integer", "index out of bounds", "index error",
           "closure over a non-function", "wrong number of arguments",
           "cannot call builtin", "calling non-function"}
ObjectPanics == {"nil object", "divide by zero", "varint buffer too small",
                 "pop from an empty array", "popleft from an empty array"}
PanicReasons == ObjectPanics \cup
    {"index out of range", "frame limit", "unsupported type cast to boolean",
     "builtin without an argument", "nothing to report"}
Marks == {"FAIL", "MISS", "PANIC"} \X (Errors \cup ObjectPanics)

(***************************************************************************)
(* The objects that exist when the heaps hold nc closures, na arrays and nh *)
(* hashes, and the closures below number fc are never made objects.         *)
(***************************************************************************)
Value(fc, nc, na, nh) ==
    ({"NIL", "NULL", "ERROR"} \X {0} \X { <<>> })
        \cup ({"BOOLEAN"} \X {0, 1} \X { <<>> })
        \cup ({"INTEGER"} \X Int \X { <<>> })
        \cup ({"COMPILED_FUNCTION"} \X Nat \X { <<>> })
        \cup ({"BUILTIN"} \X (0..6) \X { <<>> })
        \cup ({"STRING"} \X {0} \X Seq(Int))
        \cup ({"CLOSURE"} \X (fc..nc) \X { <<>> })
        \cup ({"ARRAY"} \X (1..na) \X { <<>> })
        \cup ({"HASH"} \X (1..nh) \X { <<>> })

\* Two's complement wrap-around of Go's int64 arithmetic.
Wrap(n) == ((n + IntHalf) % (2 * IntHalf)) - IntHalf

\* A faulty Quotient: rounds down.
FlooredQuotient(a, b) == a \div b

\* Go's integer division truncates towards zero; \div rounds down.
Quotient(a, b) ==
    LET abs(n) == IF n < 0 THEN -n ELSE n
        q == abs(a) \div abs(b)
    IN  IF (a < 0) = (b < 0) THEN q ELSE -q

\* A faulty IsTruthy: only null is false.
TruthyUnlessNull(v) == v[1] # "NULL"

\* isTruthy has an answer for three types only and panics for the others.
HasTruth(v) == v[1] \in {"INTEGER", "BOOLEAN", "NULL"}
IsTruthy(v) == v[1] # "NULL" /\ v[2] # 0

\* Types with a Hash method.
Hashable(v) == v[1] \in {"STRING", "INTEGER", "BOOLEAN", "NULL"}

\* The hash key of an object.  A key stands for its 64-bit hash (collisions are
\* not modelled).  Integer.Hash writes a varint into an 8-byte buffer, and the
\* varint of a large integer is longer than that.
HashKey(v) ==
    CASE ~Hashable(v) -> Fail("unhashable key")
      [] v[1] = "INTEGER" /\ v[2] \notin -VarintHalf..(VarintHalf - 1)
            -> Panics("varint buffer too small")
      [] OTHER -> v

\* Go compares strings byte by byte; a proper prefix comes first.
StrLess(s, t) ==
    \E i \in 1..Len(t) :
        /\ i <= Len(s) + 1
        /\ \A j \in 1..(i - 1) : s[j] = t[j]
        /\ i <= Len(s) => s[i] < t[i]

IntegerInfix(op, a, b) ==
    CASE op = "OpAdd" -> IntObj(Wrap(a + b))
      [] op = "OpSub" -> IntObj(Wrap(a - b))
      [] op = "OpMul" -> IntObj(Wrap(a * b))
      [] op = "OpDiv" -> IF b = 0 THEN Panics("divide by zero")
                                  ELSE IntObj(Wrap(Quotient(a, b)))
      [] op = "OpEq" -> BoolObj(a = b)
      [] op = "OpNeq" -> BoolObj(a # b)
      [] op = "OpLessThan" -> BoolObj(a < b)
      [] OTHER -> BoolObj(a <= b)

BooleanInfix(op, a, b) ==
    CASE op = "OpEq" -> BoolObj(a = b)
      [] op = "OpNeq" -> BoolObj(a # b)
      [] OTHER -> Fail("unknown boolean operator")

StringInfix(op, s, t) ==
    CASE op = "OpAdd" -> StrObj(s \o t)
      [] op = "OpEq" -> BoolObj(s = t)
      [] op = "OpNeq" -> BoolObj(s # t)
      [] op = "OpLessThan" -> BoolObj(StrLess(s, t))
      [] op = "OpLessThanEq" -> BoolObj(s = t \/ StrLess(s, t))
      [] OTHER -> Fail("unknown string operator")

\* executeInfixBinaryOp: Type() on a nil operand panics, operands of two
\* types are an error, and only three types have infix operators.
Infix(op, lhs, rhs) ==
    IF lhs = Nil \/ rhs = Nil THEN Panics("nil object")
    ELSE IF lhs[1] # rhs[1] THEN Fail("type mismatch")
    ELSE CASE lhs[1] = "INTEGER" -> IntegerInfix(op, lhs[2], rhs[2])
           [] lhs[1] = "BOOLEAN" -> BooleanInfix(op, lhs[2], rhs[2])
           [] lhs[1] = "STRING" -> StringInfix(op, lhs[3], rhs[3])
           [] OTHER -> Fail("unsupported types")

(***************************************************************************)
(* Hashes are sets of <<key, value>> pairs with one pair per key.           *)
(***************************************************************************)
HashHas(h, k) == \E e \in h : e[1] = k
HashGet(h, k) == (CHOOSE e \in h : e[1] = k)[2]
HashDel(h, k) == {e \in h : e[1] # k}
HashPut(h, k, v) == HashDel(h, k) \cup {<<k, v>>}

\* The position an array or string index selects, counting from the end when
\* it is negative; 0 when the index is out of bounds.
Position(n, i) ==
    CASE 0 <= i /\ i < n -> i + 1
      [] i < 0 /\ -n <= i -> i + n + 1
      [] OTHER -> 0

SequenceIndex(s, idx, Element(_)) ==
    IF idx[1] # "INTEGER" THEN Fail("index is not an integer")
    ELSE LET p == Position(Len(s), idx[2])
         IN  IF p = 0 THEN Miss("index out of bounds") ELSE Element(s[p])

\* The result of container[idx]; h holds the arrays and the hashes.
Index(container, idx, h) ==
    CASE container[1] = "ARRAY" ->
            SequenceIndex(h.arrays[container[2]], idx, LAMBDA v : v)
      [] container[1] = "STRING" ->
            SequenceIndex(container[3], idx, LAMBDA c : StrObj(<<c>>))
      [] container[1] = "HASH" ->
            IF HashKey(idx) # idx THEN HashKey(idx)
            ELSE IF HashHas(h.hashes[container[2]], idx)
                 THEN HashGet(h.hashes[container[2]], idx)
                 ELSE Miss("index error")
      [] OTHER -> Fail("cannot index")
=============================================================================
