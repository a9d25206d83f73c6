--------------------------- MODULE OpcodeHandlers ---------------------------
(***************************************************************************)
(* The opcode functions of OpcodeHandlers.c.  A function of the code gets  *)
(* the values of rs and rt; an operation writes its result through rd, a   *)
(* branch reads its target there.                                          *)
(***************************************************************************)
EXTENDS Instructions

(* A pointer of the operation table that no function was stored to.        *)
NULL == "NULL"

OpcodeFunctionTable ==
    << "add", "sub", "and", "or", "xor", "mul",
       "logicShiftLeft", "arithmeticShiftRight", "logicShiftRight",
       "branchEqual", "branchNotEqual", "branchLessThan", "branchGreaterThan",
       "branchLessEqual", "branchGreaterEqual", "jump" >>

OperationOf(opcode) ==
    IF opcode < Len(OpcodeFunctionTable) THEN OpcodeFunctionTable[opcode + 1] ELSE NULL

FromBits(bits) == MapThenSumSet(LAMBDA i : 2 ^ i, bits)

(* The value of an operation before it is cut to a word.  The shifts of    *)
(* the build take the amount modulo the width, where C leaves larger       *)
(* amounts undefined.                                                      *)
Exact(operation, rs, rt) ==
    LET amount == rt % WordBits
        both   == BitsOf(rs) \intersect BitsOf(rt)
        any    == BitsOf(rs) \union BitsOf(rt)
    IN  CASE operation = "add" -> rs + rt
          [] operation = "sub" -> rs - rt
          [] operation = "and" -> FromBits(both)
          [] operation = "or"  -> FromBits(any)
          [] operation = "xor" -> FromBits(any \ both)
          [] operation = "mul" -> rs * rt
          [] operation = "logicShiftLeft"       -> rs * 2 ^ amount
          [] operation = "logicShiftRight"      -> rs \div 2 ^ amount
          [] operation = "arithmeticShiftRight" -> Signed(rs) \div 2 ^ amount

(* What an operation writes to rd, a uint32_t in the build.                *)
Result(operation, rs, rt) == Exact(operation, rs, rt) % 2 ^ WordBits

(* Whether a branch sets the program counter.  Words are compared unsigned.*)
Taken(operation, rs, rt) ==
    \/ operation = "branchEqual"        /\ rs = rt
    \/ operation = "branchNotEqual"     /\ rs # rt
    \/ operation = "branchLessThan"     /\ rs < rt
    \/ operation = "branchGreaterThan"  /\ rs > rt
    \/ operation = "branchLessEqual"    /\ rs <= rt
    \/ operation = "branchGreaterEqual" /\ rs >= rt
    \/ operation = "jump"

(* rd & 0x1FF: one bit less than the program counter has.                  *)
Target(rd) == rd % 2 ^ (PcBits - 1)

IsOpcodeBranch(opcode) == opcode \in Op.BEQ .. Op.JAL
IsOpcodeMemory(opcode) == opcode \in {Op.LW, Op.SW}
=============================================================================
