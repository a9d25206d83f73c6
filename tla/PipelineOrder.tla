--------------------------- MODULE PipelineOrder ----------------------------
(***************************************************************************)
(* What holds of the pipeline between two cycles, for a program that fits  *)
(* it: the inductive invariant behind the refinement of InstructionSet.    *)
(***************************************************************************)
EXTENDS PipelineCorrectness

CounterType == [cycles : Nat \union {-1}, instructions : Nat,
                stalls_in_decode : Nat, stalls_in_mem : Nat]

Typed ==
    /\ imem \in Programs
    /\ registers \in [Registers \ {IMM_REG} -> Word]
    /\ stages_in_pipe \in [Stages -> Slot]
    /\ stats \in CounterType
    /\ memory \in [Word -> Word]
    /\ refusals \in 0 .. MaxRefusals

-----------------------------------------------------------------------------
(* The value of register r for instruction i when the registers are regs,  *)
(* and the register that writeback writes for i.                           *)
Operand(regs, i, r) ==
    CASE r = ZERO_REG -> 0
      [] r = IMM_REG  -> i.imm
      [] OTHER        -> regs[r]

WrittenBy(i) == IF i.opcode = Op.JAL THEN PC_REG ELSE i.rd

PlaceIn(p, address) ==
    IF InstructionAt(p, address).opcode = Op.HALT THEN Halted ELSE address

(* The slot x of a branch carries the value of its rd, with which it is to *)
(* write back no change; that a jump should carry another value, its link, *)
(* is not said here (finding jump_and_link).  The slot of an operation     *)
(* that was executed carries its value.                                    *)
TargetRead(x, regs) ==
    LET i == x.instruction
    IN  IsOpcodeBranch(i.opcode) => x.result_of_execution = Operand(regs, i, i.rd)

Computed(x, regs) ==
    LET i == x.instruction
    IN  i.opcode \in Op.ADD .. Op.SRL =>
            x.result_of_execution =
                ISA!Value(i.opcode, Operand(regs, i, i.rs), Operand(regs, i, i.rt))

(* Place z is where program p goes on behind place y, the one that follows *)
(* instruction i.                                                          *)
Follows(p, i, regs, y, z) ==
    i.opcode # Op.HALT /\ y # Halted =>
        z = IF /\ IsOpcodeBranch(i.opcode)
               /\ ISA!Condition(i.opcode, Operand(regs, i, i.rs), Operand(regs, i, i.rt))
              THEN PlaceIn(p, Operand(regs, i, i.rd) % 2 ^ PcBits)
              ELSE PlaceIn(p, y + 1)

(* Register 0 is zero and remains so.                                      *)
Zeroed ==
    /\ registers[ZERO_REG] = 0
    /\ Stage["FETCH"].result_of_execution = 0
    /\ \A s \in Stages \ {"FETCH"} :
          Active(s) /\ Stage[s].instruction.rd = ZERO_REG => Stage[s].result_of_execution = 0

(* Every stage holds an instruction of the program; the one FETCH read     *)
(* before a stall of mem is still to be decoded.                           *)
Placed ==
    /\ \A s \in Stages \ {"FETCH"} :
          Active(s) => Stage[s].instruction = InstructionAt(imem, Stage[s].pc)
    /\ mem_stall /\ Active("FETCH") =>
          Stage["FETCH"].instruction = InstructionAt(imem, Stage["FETCH"].pc)

(* Only HALT ends the stream of instructions, and nothing is behind it.    *)
(* What DECODE found when an access began to wait holds on.                *)
Flow ==
    /\ mem_stall => ~ Active("WRITE_BACK")
    /\ ~ is_halted => Active("FETCH")
    /\ Active("MEM") \/ Active("EXECUTE") => Active("DECODE") \/ is_halted
    /\ Active("MEM") /\ OpcodeIn("MEM") = Op.HALT => is_halted /\ ~ Active("EXECUTE")
    /\ mem_stall /\ ~ data_stall => ~ DataHazard

(* No instruction reads what one before it has still to write.             *)
Interlocked ==
    /\ Active("EXECUTE") /\ Active("MEM") =>
          Independent(Stage["EXECUTE"].instruction, Stage["MEM"].instruction)
    /\ Active("EXECUTE") /\ Active("WRITE_BACK") /\ ~ IsOpcodeMemory(OpcodeIn("EXECUTE")) =>
          Independent(Stage["EXECUTE"].instruction, Stage["WRITE_BACK"].instruction)
    /\ Active("MEM") /\ Active("WRITE_BACK") /\ IsOpcodeMemory(OpcodeIn("MEM")) =>
          Independent(Stage["MEM"].instruction, Stage["WRITE_BACK"].instruction)

(* An instruction that is not to change its rd writes back what it holds.  *)
Kept ==
    /\ Active("WRITE_BACK")
    /\ WrittenRegister \in MutableRegisters \ Changes(Stage["WRITE_BACK"].instruction)
    => Stage["WRITE_BACK"].result_of_execution = registers[WrittenRegister]

(* The results in the stages are those of the registers that the           *)
(* instruction will find when it takes effect.                             *)
Results ==
    /\ Kept
    /\ Active("MEM") => /\ TargetRead(Stage["MEM"], AbstractRegisters)
                        /\ Computed(Stage["MEM"], AbstractRegisters)
    /\ Active("EXECUTE") => TargetRead(Stage["EXECUTE"], AbstractRegisters)
    /\ Active("EXECUTE") /\ mem_stall => Computed(Stage["EXECUTE"], AbstractRegisters)
    /\ Active("DECODE") /\ mem_stall /\ ~ data_stall =>
          TargetRead(Stage["DECODE"], AbstractRegisters)

(* The instructions in the stages are those the program runs.              *)
Followed ==
    /\ Active("MEM") =>
          Follows(imem, Stage["MEM"].instruction, AbstractRegisters, InExecute,
                  IF Active("EXECUTE") THEN InDecode ELSE AtFetch)
    /\ Active("EXECUTE") =>
          Follows(imem, Stage["EXECUTE"].instruction, AbstractRegisters, InDecode, AtFetch)
    /\ Active("DECODE") /\ mem_stall /\ ~ data_stall =>
          Follows(imem, Stage["DECODE"].instruction, AbstractRegisters, AtFetch,
                  PlaceIn(imem, pc))

(* The instructions in flight are those the program runs one by one, and   *)
(* read and carry the values they would then (checkfor_data_hazards,       *)
(* Pipe_Bubbles, update_tracking_info).                                    *)
InOrder == Zeroed /\ Placed /\ Flow /\ Interlocked /\ Results /\ Followed

OrderInv == Typed /\ InOrder
=============================================================================
