---------------------------- MODULE Instructions ----------------------------
(***************************************************************************)
(* Instructions, words and registers of a core (sim.h, OpcodeHandlers.h),  *)
(* shared by the code's opcode handlers and pipeline and by the abstract   *)
(* instruction set.  The build has words of 32 bits, immediates of 12, a   *)
(* program counter of 10 and 16 registers.                                 *)
(***************************************************************************)
EXTENDS Integers, Sequences, FiniteSetsExt

CONSTANTS
    WordBits,  \* bits of a register and of a word of memory
    ImmBits,   \* bits of the immediate of an instruction
    PcBits,    \* bits of the program counter
    NumRegs    \* NUM_OF_REGS

ASSUME WordBitsAssumption == WordBits \in Nat \ {0}
ASSUME ImmBitsAssumption  == ImmBits \in Nat /\ 2 ^ ImmBits <= 2 ^ WordBits
ASSUME PcBitsAssumption   == PcBits \in 2 .. 15
ASSUME NumRegsAssumption  == NumRegs \in Nat /\ NumRegs > 3

Word == 0 .. 2 ^ WordBits - 1

(* The field imm is unsigned and narrower than a word.  It is put into a   *)
(* register as it is, with zeroes in front and not with its sign.          *)
Immediate == 0 .. 2 ^ ImmBits - 1

(* The word seen as a signed number (int32_t), and as a set of bits.       *)
Signed(w) == IF w < 2 ^ (WordBits - 1) THEN w ELSE w - 2 ^ WordBits
BitsOf(w) == {i \in 0 .. WordBits - 1 : (w \div 2 ^ i) % 2 = 1}

(* Registers: 0 reads as zero, 1 holds the immediate of the instruction    *)
(* that reads it, and the last one is written by JAL.                      *)
Registers == 0 .. NumRegs - 1
ZERO_REG  == 0
IMM_REG   == 1
PC_REG    == NumRegs - 1
START_MUTABLE_REG == 2
MutableRegisters  == START_MUTABLE_REG .. NumRegs - 1

(* OpcodeFunctions: the numbers of the opcodes.                            *)
Op == [ADD |-> 0, SUB |-> 1, AND |-> 2, OR |-> 3, XOR |-> 4, MUL |-> 5,
       SLL |-> 6, SRA |-> 7, SRL |-> 8,
       BEQ |-> 9, BNE |-> 10, BLT |-> 11, BGT |-> 12, BLE |-> 13, BGE |-> 14,
       JAL |-> 15, LW |-> 16, SW |-> 17, HALT |-> 20]

Opcodes == {Op[name] : name \in DOMAIN Op}

(* Format_of_instruction.  A word of instruction memory that the file does *)
(* not set is zero: an addition into register 0.                           *)
Instruction == [opcode : Opcodes, rd : Registers, rs : Registers,
                rt : Registers, imm : Immediate]

ZeroInstruction == [opcode |-> Op.ADD, rd |-> 0, rs |-> 0, rt |-> 0, imm |-> 0]

(* A program is the sequence of instructions of an imem file.              *)
InstructionAt(imem, address) ==
    IF address + 1 \in DOMAIN imem THEN imem[address + 1] ELSE ZeroInstruction
=============================================================================
