-------------------------------- MODULE Code --------------------------------
(***************************************************************************)
(* The instruction set (code/code.go).  An instruction is a record of its   *)
(* opcode and two operands, 0 where the opcode has none.  Make encodes an   *)
(* operand into the one or two bytes its definition gives it, and drops the *)
(* rest of a larger number without an error.                                *)
(***************************************************************************)
EXTENDS Integers, Sequences

InfixOps == {"OpAdd", "OpSub", "OpMul", "OpDiv",
             "OpEq", "OpNeq", "OpLessThan", "OpLessThanEq"}
JumpOps == {"OpJump", "OpJumpNotTruthy"}
ReturnOps == {"OpReturnValue", "OpReturn"}
GlobalOps == {"OpSetGlobal", "OpGetGlobal"}
LocalOps == {"OpSetLocal", "OpGetLocal"}
Opcodes ==
    InfixOps \cup JumpOps \cup ReturnOps \cup GlobalOps \cup LocalOps
        \cup {"OpConstant", "OpPop", "OpTrue", "OpFalse", "OpNull", "OpBang",
              "OpMinus", "OpGetFree", "OpCurrentClosure", "OpArray", "OpHash",
              "OpIndex", "OpCall", "OpGetBuiltin", "OpClosure"}

Instruction == [op : Opcodes, a : Nat, b : Nat]

\* OperandWidths: the bytes of each operand of an opcode.
OperandWidths(op) ==
    CASE op \in JumpOps \cup GlobalOps \cup {"OpConstant", "OpArray", "OpHash"} -> <<2>>
      [] op \in LocalOps \cup {"OpGetFree", "OpCall", "OpGetBuiltin"} -> <<1>>
      [] op = "OpClosure" -> <<2, 1>>
      [] OTHER -> <<>>

Encoded(op, i, operand) ==
    IF i > Len(OperandWidths(op)) THEN 0
    ELSE IF OperandWidths(op)[i] = 1 THEN operand % 256 ELSE operand % 65536

\* The instruction the VM reads back from Make(op, a, b).
Make(op, a, b) == [op |-> op, a |-> Encoded(op, 1, a), b |-> Encoded(op, 2, b)]

\* A compiled function: its code, the slots of its locals, its parameters.
Function == [ins : Seq(Instruction), numLocals : Nat, numParams : Nat]

\* How many objects an instruction takes off the stack.
Pops(i) ==
    CASE i.op \in InfixOps \cup {"OpIndex"} -> 2
      [] i.op \in {"OpPop", "OpBang", "OpMinus", "OpJumpNotTruthy",
                   "OpSetGlobal", "OpSetLocal", "OpReturnValue"} -> 1
      [] i.op = "OpArray" -> i.a
      [] i.op = "OpHash" -> 2 * i.a
      [] i.op = "OpClosure" -> i.b
      [] i.op = "OpCall" -> i.a + 1
      [] OTHER -> 0

\* The builtin functions in the order of object.Builtins, which numbers them for
\* the compiler and for the VM.
BuiltinNames == <<"len", "puts", "push", "pop", "pushleft", "popleft", "del">>
=============================================================================
