--------------------------- MODULE InstructionSet ---------------------------
(***************************************************************************)
(* What a core promises its program: one instruction at a time, each on    *)
(* the registers and the memory that the one before it left, and one       *)
(* instruction more after a branch before its target.  The instruction     *)
(* that runs is the one at pc, npc is the place of the one after it.       *)
(***************************************************************************)
EXTENDS Instructions

CONSTANT InitialMemory

VARIABLES
    imem,       \* the program
    pc, npc,    \* places
    registers,  \* the registers from START_MUTABLE_REG on
    memory,     \* the words of memory
    executed    \* the number of instructions that have run

vars == <<imem, pc, npc, registers, memory, executed>>

(* A place is an address, or Halted once the instruction there is HALT.    *)
Halted == -1
Place(address) ==
    IF InstructionAt(imem, address).opcode = Op.HALT THEN Halted ELSE address
After(place) == IF place = Halted THEN Halted ELSE Place(place + 1)

Init ==
    /\ imem \in Seq(Instruction)
    /\ pc = Place(0)
    /\ npc = After(pc)
    /\ registers = [r \in MutableRegisters |-> 0]
    /\ memory = InitialMemory
    /\ executed = 0

Current == InstructionAt(imem, pc)

Read(r) ==
    CASE r = ZERO_REG -> 0
      [] r = IMM_REG  -> Current.imm
      [] OTHER        -> registers[r]

(* Arithmetic is that of WordBits-bit two's complement, bit by bit for the *)
(* logic opcodes, and rounds down for the shifts to the right.             *)
Congruent(n)     == CHOOSE w \in Word : (w - n) % 2 ^ WordBits = 0
WordOf(bits)     == CHOOSE w \in Word : BitsOf(w) = bits
Halved(n, times) == CHOOSE q \in -(2 ^ WordBits) .. 2 ^ WordBits :
                        q * 2 ^ times <= n /\ n < (q + 1) * 2 ^ times

Value(opcode, a, b) ==
    CASE opcode = Op.ADD -> Congruent(a + b)
      [] opcode = Op.SUB -> Congruent(a - b)
      [] opcode = Op.MUL -> Congruent(a * b)
      [] opcode = Op.SLL -> Congruent(a * 2 ^ b)
      [] opcode = Op.AND -> WordOf(BitsOf(a) \intersect BitsOf(b))
      [] opcode = Op.OR  -> WordOf(BitsOf(a) \union BitsOf(b))
      [] opcode = Op.XOR -> WordOf((BitsOf(a) \ BitsOf(b)) \union (BitsOf(b) \ BitsOf(a)))
      [] opcode = Op.SRL -> Congruent(Halved(a, b))
      [] opcode = Op.SRA -> Congruent(Halved(Signed(a), b))

Condition(opcode, a, b) ==
    CASE opcode = Op.BEQ -> a = b
      [] opcode = Op.BNE -> a # b
      [] opcode = Op.BLT -> a < b
      [] opcode = Op.BGT -> a > b
      [] opcode = Op.BLE -> a <= b
      [] opcode = Op.BGE -> a >= b
      [] opcode = Op.JAL -> TRUE

(* Register 0 is not written, register 1 keeps no value.                   *)
Write(r, w) ==
    registers' = [q \in MutableRegisters |-> IF q = r THEN w ELSE registers[q]]

(* The low PcBits bits of rd.                                              *)
BranchTarget(w) == Place(w % 2 ^ PcBits)

(* JAL leaves some word in the last register: which one is left open here  *)
(* and said by JumpsLink.                                                  *)

Operate ==
    /\ Current.opcode \in Op.ADD .. Op.SRL
    /\ Write(Current.rd, Value(Current.opcode, Read(Current.rs), Read(Current.rt)))
    /\ npc' = After(npc)
    /\ UNCHANGED memory

Branch ==
    /\ Current.opcode \in Op.BEQ .. Op.JAL
    /\ npc' = IF Condition(Current.opcode, Read(Current.rs), Read(Current.rt)) /\ npc # Halted
                THEN BranchTarget(Read(Current.rd)) ELSE After(npc)
    /\ IF Current.opcode = Op.JAL
          THEN \E link \in Word : Write(PC_REG, link)
          ELSE UNCHANGED registers
    /\ UNCHANGED memory

Address == Congruent(Read(Current.rs) + Read(Current.rt))

Load ==
    /\ Current.opcode = Op.LW
    /\ Write(Current.rd, memory[Address])
    /\ npc' = After(npc)
    /\ UNCHANGED memory

Store ==
    /\ Current.opcode = Op.SW
    /\ memory' = [memory EXCEPT ![Address] = Read(Current.rd)]
    /\ npc' = After(npc)
    /\ UNCHANGED registers

Next ==
    /\ pc # Halted
    /\ Operate \/ Branch \/ Load \/ Store
    /\ pc' = npc
    /\ executed' = executed + 1
    /\ UNCHANGED imem

Spec == Init /\ [][Next]_vars

-----------------------------------------------------------------------------
(* "Jump and link" (OpcodeHandlers.h): a jump leaves in the last register  *)
(* where the program would have gone on without it, behind the instruction *)
(* that runs before its target.  Not part of Spec (finding jump_and_link). *)
Link      == (pc + 2) % 2 ^ WordBits
JumpsLink == [][pc # Halted /\ Current.opcode = Op.JAL => registers'[PC_REG] = Link]_vars
=============================================================================
