------------------------ MODULE InstructionSetProofs ------------------------
(***************************************************************************)
(* For every program that fits the pipeline, every cache and every size of *)
(* a word: the pipeline implements the instruction set.                    *)
(***************************************************************************)
EXTENDS PipelineProofs, PipelineOrder

(* What every stage holds after a cycle.                                   *)
LEMMA SlotsAfter ==
    ASSUME Shaped, NEW served \in BOOLEAN, Pipe_iteration_exe(served)
    PROVE  /\ stages_in_pipe'["FETCH"] = IF is_halted' THEN Emptied(fetch) ELSE fetch
           /\ mem_stall' =>
                 /\ stages_in_pipe'["DECODE"] = IF is_halted' THEN Emptied(decode) ELSE decode
                 /\ stages_in_pipe'["EXECUTE"] = execute
                 /\ stages_in_pipe'["MEM"] = mem(served)
                 /\ stages_in_pipe'["WRITE_BACK"] = Emptied(Stage["WRITE_BACK"])
           /\ ~ mem_stall' =>
                 /\ stages_in_pipe'["DECODE"] =
                       LET moved == IF data_stall' THEN decode ELSE Moved(decode, fetch)
                       IN  IF is_halted' THEN Emptied(moved) ELSE moved
                 /\ stages_in_pipe'["EXECUTE"] =
                       IF data_stall' THEN Emptied(execute) ELSE Moved(execute, decode)
                 /\ stages_in_pipe'["MEM"] = Moved(mem(served), execute)
                 /\ stages_in_pipe'["WRITE_BACK"] = Moved(Stage["WRITE_BACK"], mem(served))
<1> DEFINE ran     == execute_pipe_stages(served)
           shifted == ShiftedStages(ran)
<1>1. /\ ran["FETCH"] = fetch /\ ran["DECODE"] = decode /\ ran["EXECUTE"] = execute
      /\ ran["MEM"] = mem(served) /\ ran["WRITE_BACK"] = Stage["WRITE_BACK"]
      /\ ran = [s \in Stages |-> ran[s]]
  BY DEF execute_pipe_stages, Stages
<1>2. stages_in_pipe' = Pipe_Bubbles(ran)
  BY DEF Pipe_iteration_exe
<1> HIDE DEF ran
<1>3. shifted = [s \in Stages |-> shifted[s]]
  BY <1>1 DEF ShiftedStages, Advanced, Stages
<1>4. CASE mem_stall'
  <2>1. /\ shifted["WRITE_BACK"] = Emptied(ran["WRITE_BACK"])
        /\ \A s \in Stages \ {"WRITE_BACK"} : shifted[s] = ran[s]
    BY <1>1, <1>4 DEF ShiftedStages, Stages
  <2> HIDE DEF shifted
  <2> QED
    BY <1>1, <1>2, <1>3, <1>4, <2>1 DEF Pipe_Bubbles, Stages, shifted
<1>5. CASE ~ mem_stall'
  <2>1. /\ shifted["WRITE_BACK"] = Moved(ran["WRITE_BACK"], ran["MEM"])
        /\ shifted["MEM"] = Moved(ran["MEM"], ran["EXECUTE"])
        /\ shifted["EXECUTE"] = IF data_stall' THEN Emptied(ran["EXECUTE"])
                                ELSE Moved(ran["EXECUTE"], ran["DECODE"])
        /\ shifted["DECODE"] = IF data_stall' THEN ran["DECODE"]
                               ELSE Moved(ran["DECODE"], ran["FETCH"])
        /\ shifted["FETCH"] = ran["FETCH"]
    BY <1>1, <1>5 DEF ShiftedStages, Advanced, Stages
  <2> HIDE DEF shifted
  <2> QED
    BY <1>1, <1>2, <1>3, <1>5, <2>1 DEF Pipe_Bubbles, Stages, shifted
<1> QED
  BY <1>4, <1>5

(* The fields of a slot that is emptied or filled.                         *)
LEMMA SlotsMoved ==
    ASSUME NEW x, NEW y, IsSlot(x), IsSlot(y)
    PROVE  /\ Emptied(x).pc = UINT16_MAX
           /\ Emptied(x).instruction = x.instruction
           /\ Emptied(x).result_of_execution = x.result_of_execution
           /\ Emptied(x).operation = x.operation
           /\ Moved(x, y).pc = y.pc
           /\ y.pc # UINT16_MAX => Moved(x, y) = y
           /\ y.pc = UINT16_MAX => Moved(x, y) = Emptied(x)
BY DEF IsSlot, Emptied, Moved

(* What the stages keep of a slot when they run.                           *)
LEMMA StagesKeep ==
    ASSUME Shaped, NEW served \in BOOLEAN
    PROVE  /\ IsSlot(fetch) /\ IsSlot(decode) /\ IsSlot(execute) /\ IsSlot(mem(served))
           /\ \A s \in Stages : IsSlot(Stage[s])
           /\ fetch.result_of_execution = Stage["FETCH"].result_of_execution
           /\ fetch.pc = IF Fetches THEN pc ELSE Stage["FETCH"].pc
           /\ fetch.instruction = IF Fetches THEN InstructionAt(imem, pc)
                                  ELSE Stage["FETCH"].instruction
           /\ decode.pc = Stage["DECODE"].pc
           /\ decode.instruction = Stage["DECODE"].instruction
           /\ execute.pc = Stage["EXECUTE"].pc
           /\ execute.instruction = Stage["EXECUTE"].instruction
           /\ mem(served).pc = Stage["MEM"].pc
           /\ mem(served).instruction = Stage["MEM"].instruction
<1> USE DEF IsSlot
<1>1. \A s \in Stages : IsSlot(Stage[s])
  BY DEF Shaped, Stage
<1>2. IsSlot(Stage["FETCH"]) /\ IsSlot(Stage["DECODE"]) /\ IsSlot(Stage["EXECUTE"])
      /\ IsSlot(Stage["MEM"])
  BY <1>1 DEF Stages
<1> QED
  BY <1>1, <1>2 DEF fetch, decode, execute, mem

(* Where the instructions are after a cycle.                               *)
LEMMA InstructionsMove ==
    ASSUME Shaped, NEW served \in BOOLEAN, Pipe_iteration_exe(served)
    PROVE  /\ stages_in_pipe'["FETCH"].pc = IF is_halted' THEN UINT16_MAX ELSE fetch.pc
           /\ stages_in_pipe'["FETCH"].instruction = fetch.instruction
           /\ stages_in_pipe'["FETCH"].result_of_execution = fetch.result_of_execution
           /\ mem_stall' =>
                 /\ stages_in_pipe'["DECODE"].pc =
                       IF is_halted' THEN UINT16_MAX ELSE Stage["DECODE"].pc
                 /\ stages_in_pipe'["DECODE"].instruction = Stage["DECODE"].instruction
                 /\ stages_in_pipe'["DECODE"].result_of_execution = decode.result_of_execution
                 /\ stages_in_pipe'["DECODE"].operation = decode.operation
                 /\ stages_in_pipe'["EXECUTE"] = execute
                 /\ stages_in_pipe'["EXECUTE"].pc = Stage["EXECUTE"].pc
                 /\ stages_in_pipe'["EXECUTE"].instruction = Stage["EXECUTE"].instruction
                 /\ stages_in_pipe'["MEM"] = mem(served)
                 /\ stages_in_pipe'["MEM"].pc = Stage["MEM"].pc
                 /\ stages_in_pipe'["MEM"].instruction = Stage["MEM"].instruction
                 /\ stages_in_pipe'["WRITE_BACK"].pc = UINT16_MAX
                 /\ stages_in_pipe'["WRITE_BACK"].instruction = Stage["WRITE_BACK"].instruction
           /\ ~ mem_stall' =>
                 /\ stages_in_pipe'["DECODE"].pc = IF is_halted' THEN UINT16_MAX
                                                   ELSE IF data_stall' THEN Stage["DECODE"].pc
                                                   ELSE fetch.pc
                 /\ stages_in_pipe'["DECODE"].pc # UINT16_MAX =>
                       stages_in_pipe'["DECODE"] = IF data_stall' THEN decode ELSE fetch
                 /\ stages_in_pipe'["EXECUTE"].pc =
                       IF data_stall' THEN UINT16_MAX ELSE Stage["DECODE"].pc
                 /\ stages_in_pipe'["EXECUTE"].pc # UINT16_MAX =>
                       /\ stages_in_pipe'["EXECUTE"] = decode
                       /\ stages_in_pipe'["EXECUTE"].instruction = Stage["DECODE"].instruction
                 /\ stages_in_pipe'["MEM"].pc = Stage["EXECUTE"].pc
                 /\ stages_in_pipe'["MEM"].pc # UINT16_MAX =>
                       /\ stages_in_pipe'["MEM"] = execute
                       /\ stages_in_pipe'["MEM"].instruction = Stage["EXECUTE"].instruction
                 /\ stages_in_pipe'["WRITE_BACK"].pc = Stage["MEM"].pc
                 /\ stages_in_pipe'["WRITE_BACK"].pc # UINT16_MAX =>
                       /\ stages_in_pipe'["WRITE_BACK"] = mem(served)
                       /\ stages_in_pipe'["WRITE_BACK"].instruction = Stage["MEM"].instruction
<1>1. /\ IsSlot(fetch) /\ IsSlot(decode) /\ IsSlot(execute) /\ IsSlot(mem(served))
      /\ IsSlot(Stage["WRITE_BACK"])
      /\ decode.pc = Stage["DECODE"].pc
      /\ decode.instruction = Stage["DECODE"].instruction
      /\ execute.pc = Stage["EXECUTE"].pc
      /\ execute.instruction = Stage["EXECUTE"].instruction
      /\ mem(served).pc = Stage["MEM"].pc
      /\ mem(served).instruction = Stage["MEM"].instruction
  BY StagesKeep DEF Stages
<1>2. IsSlot(Moved(decode, fetch))
  BY <1>1 DEF Moved, Emptied, IsSlot
<1>3. /\ stages_in_pipe'["FETCH"].pc = IF is_halted' THEN UINT16_MAX ELSE fetch.pc
      /\ stages_in_pipe'["FETCH"].instruction = fetch.instruction
      /\ stages_in_pipe'["FETCH"].result_of_execution = fetch.result_of_execution
  BY <1>1, SlotsAfter, SlotsMoved
<1>4. CASE mem_stall'
  BY <1>1, <1>3, <1>4, SlotsAfter, SlotsMoved
<1>5. CASE ~ mem_stall'
  <2>1. /\ stages_in_pipe'["DECODE"].pc = IF is_halted' THEN UINT16_MAX
                                          ELSE IF data_stall' THEN Stage["DECODE"].pc
                                          ELSE fetch.pc
        /\ stages_in_pipe'["DECODE"].pc # UINT16_MAX =>
              stages_in_pipe'["DECODE"] = IF data_stall' THEN decode ELSE fetch
    BY <1>1, <1>2, <1>5, SlotsAfter, SlotsMoved
  <2>2. /\ stages_in_pipe'["EXECUTE"].pc =
              IF data_stall' THEN UINT16_MAX ELSE Stage["DECODE"].pc
        /\ stages_in_pipe'["EXECUTE"].pc # UINT16_MAX =>
              /\ stages_in_pipe'["EXECUTE"] = decode
              /\ stages_in_pipe'["EXECUTE"].instruction = Stage["DECODE"].instruction
    BY <1>1, <1>5, SlotsAfter, SlotsMoved
  <2>3. /\ stages_in_pipe'["MEM"].pc = Stage["EXECUTE"].pc
        /\ stages_in_pipe'["MEM"].pc # UINT16_MAX =>
              /\ stages_in_pipe'["MEM"] = execute
              /\ stages_in_pipe'["MEM"].instruction = Stage["EXECUTE"].instruction
        /\ stages_in_pipe'["WRITE_BACK"].pc = Stage["MEM"].pc
        /\ stages_in_pipe'["WRITE_BACK"].pc # UINT16_MAX =>
              /\ stages_in_pipe'["WRITE_BACK"] = mem(served)
              /\ stages_in_pipe'["WRITE_BACK"].instruction = Stage["MEM"].instruction
    BY <1>1, <1>5, SlotsAfter, SlotsMoved
  <2> QED
    BY <1>3, <1>5, <2>1, <2>2, <2>3
<1> QED
  BY <1>4, <1>5

(* The counters after a cycle, each with the flags it counts by.           *)
LEMMA StatsAfter ==
    ASSUME Shaped, NEW served \in BOOLEAN, RunsCycle(served)
    PROVE  /\ stats' \in Counters
           /\ stats'.cycles = stats.cycles + 1
           /\ stats'.instructions = IF ~ is_halted /\ ~ mem_stall /\ ~ data_stall
                                      THEN stats.instructions + 1 ELSE stats.instructions
           /\ \/ stats'.stalls_in_decode = stats.stalls_in_decode
              \/ stats'.stalls_in_decode = stats.stalls_in_decode + 1
           /\ \/ stats'.stalls_in_mem = stats.stalls_in_mem
              \/ stats'.stalls_in_mem = stats.stalls_in_mem + 1
<1> DEFINE u == update_tracking_info(stats)
<1>1. stats' = stats_update(u) /\ stats \in Counters
  BY DEF RunsCycle, Shaped
<1>2. /\ u \in Counters
      /\ u.cycles = stats.cycles + 1
      /\ u.instructions = IF ~ is_halted /\ ~ mem_stall /\ ~ data_stall
                            THEN stats.instructions + 1 ELSE stats.instructions
      /\ u.stalls_in_decode = stats.stalls_in_decode
      /\ u.stalls_in_mem = stats.stalls_in_mem
  BY <1>1, CyclesCounted
<1> HIDE DEF u
<1> QED
  BY <1>1, <1>2, StallsCounted

-----------------------------------------------------------------------------
(* The types.                                                              *)

LEMMA OpcodeNumbers ==
    /\ Opcodes = (0 .. 17) \union {20}
    /\ Op.ADD = 0 /\ Op.SLL = 6 /\ Op.SRL = 8 /\ Op.BEQ = 9 /\ Op.JAL = 15
    /\ Op.LW = 16 /\ Op.SW = 17 /\ Op.HALT = 20
<1>1. DOMAIN Op = {"ADD", "SUB", "AND", "OR", "XOR", "MUL", "SLL", "SRA", "SRL", "BEQ", "BNE",
                   "BLT", "BGT", "BLE", "BGE", "JAL", "LW", "SW", "HALT"}
  BY DEF Op
<1>2. Opcodes = {0, 1, 2, 3, 4, 5, 6, 7, 8, 9, 10, 11, 12, 13, 14, 15, 16, 17, 20}
  BY <1>1 DEF Opcodes, Op
<1> QED
  BY <1>2 DEF Op

(* A word of instruction memory is an instruction, set by the file or not. *)
LEMMA InstructionRead ==
    ASSUME imem \in Programs
    PROVE  /\ ZeroInstruction \in Instruction
           /\ \A a \in Nat : InstructionAt(imem, a) \in Instruction
<1>1. imem \in Seq(Instruction) /\ imem # << >>
  BY ProgramsAssumption
<1>2. imem[1] \in Instruction
  BY <1>1
<1>3. 0 \in Immediate
  <2>1. imem[1].imm \in Immediate
    BY <1>2 DEF Instruction
  <2>2. 2 ^ ImmBits \in Int
    BY ImmBitsAssumption
  <2> QED
    BY <2>1, <2>2 DEF Immediate
<1>4. 0 \in Opcodes /\ Op.ADD = 0 /\ 0 \in Registers
  BY OpcodeNumbers, NumRegsAssumption DEF Registers
<1>5. ZeroInstruction \in Instruction
  BY <1>3, <1>4 DEF ZeroInstruction, Instruction
<1> QED
  BY <1>1, <1>5 DEF InstructionAt

(* An immediate with zeroes in front of it is a word.                      *)
LEMMA ImmediateIsWord == Immediate \subseteq Word
<1>1. /\ 2 ^ ImmBits \in Int /\ 2 ^ WordBits \in Int
      /\ 2 ^ ImmBits <= 2 ^ WordBits
  BY ImmBitsAssumption, WordBitsAssumption
<1> QED
  BY <1>1 DEF Immediate, Word

(* The values that the stages read are words.                              *)
LEMMA ParamsTyped ==
    ASSUME Typed, NEW s \in Stages, NEW field \in {"rd", "rs", "rt"}
    PROVE  /\ Stage[s].instruction \in Instruction
           /\ OpcodeIn(s) \in Opcodes
           /\ Stage[s].instruction[field] \in Registers
           /\ Param(s, field) \in Word
<1>1. Stage[s].instruction \in Instruction
  BY DEF Typed, Slot, Stage
<1>2. /\ Stage[s].instruction.imm \in Word
      /\ OpcodeIn(s) \in Opcodes
      /\ Stage[s].instruction[field] \in Registers
  BY <1>1, ImmediateIsWord DEF Instruction, OpcodeIn
<1> QED
  BY <1>1, <1>2 DEF Param, Typed

LEMMA OperationsTyped ==
    ASSUME NEW opcode \in Opcodes
    PROVE  OperationOf(opcode) \in Range(OpcodeFunctionTable) \union {NULL}
<1>1. opcode \in 0 .. 20 /\ Len(OpcodeFunctionTable) = 16
      /\ DOMAIN OpcodeFunctionTable = 1 .. 16
  BY OpcodeNumbers DEF OpcodeFunctionTable
<1> QED
  BY <1>1 DEF OperationOf, Range

(* The address of an access is a word, and what the instruction set takes  *)
(* for it.                                                                 *)
LEMMA AddressTyped ==
    ASSUME Typed, OperationsAgree
    PROVE  Address \in Word
<1>1. Param("MEM", "rs") \in Word /\ Param("MEM", "rt") \in Word
  BY ParamsTyped DEF Stages
<1>2. 0 \in Op.ADD .. Op.SRL /\ OperationOf(0) = "add"
  BY OpcodeNumbers DEF OperationOf, OpcodeFunctionTable
<1>3. Result("add", Param("MEM", "rs"), Param("MEM", "rt")) \in Word
  BY <1>1, <1>2 DEF OperationsAgree, AgreeOn
<1> QED
  BY <1>3 DEF Address, Result, Exact

LEMMA SlotsTyped ==
    ASSUME NEW x \in Slot, NEW y \in Slot
    PROVE  Emptied(x) \in Slot /\ Moved(x, y) \in Slot
BY DEF Slot, Emptied, Moved, UINT16_MAX

LEMMA StagesTyped ==
    ASSUME Typed, PcInReach, OperationsAgree, DecodedBeforeExecuted, ~ CallsNull,
           NEW served \in BOOLEAN
    PROVE  /\ fetch \in Slot /\ decode \in Slot /\ execute \in Slot /\ mem(served) \in Slot
           /\ \A s \in Stages : Stage[s] \in Slot
<1>1. \A s \in Stages : Stage[s] \in Slot
  BY DEF Typed, Stage
<1>2. \A x \in Slot, i \in Instruction, p \in Nat :
         [x EXCEPT !.pc = p, !.instruction = i] \in Slot
  BY DEF Slot
<1>3. \A x \in Slot, w \in Word : [x EXCEPT !.result_of_execution = w] \in Slot
  BY DEF Slot
<1>4. \A x \in Slot, w \in Word, o \in Range(OpcodeFunctionTable) \union {NULL} :
         [x EXCEPT !.operation = o, !.result_of_execution = w] \in Slot
  BY DEF Slot
<1>5. fetch \in Slot
  <2>1. pc \in Nat
    BY DEF PcInReach
  <2>2. InstructionAt(imem, pc) \in Instruction
    BY <2>1, InstructionRead DEF Typed
  <2> QED
    BY <1>1, <1>2, <2>1, <2>2 DEF fetch, Stages
<1>6. decode \in Slot
  <2>1. OperationOf(OpcodeIn("DECODE")) \in Range(OpcodeFunctionTable) \union {NULL}
    BY ParamsTyped, OperationsTyped DEF Stages
  <2>2. Param("DECODE", "rd") \in Word
    BY ParamsTyped DEF Stages
  <2>3. Stage["DECODE"] \in Slot /\ Stage["DECODE"].result_of_execution \in Word
    BY <1>1 DEF Stages, Slot
  <2> QED
    BY <1>4, <2>1, <2>2, <2>3 DEF decode
<1>7. execute \in Slot
  <2>1. Stage["EXECUTE"] \in Slot
    BY <1>1 DEF Stages
  <2>2. CASE Operates
    <3>1. Active("EXECUTE") /\ OpcodeIn("EXECUTE") \in Op.ADD .. Op.SRL
      BY <2>2 DEF Operates, Runs
    <3>2. OpcodeIn("EXECUTE") \in Op.ADD .. Op.JAL
      BY <3>1, OpcodeNumbers
    <3>3. Stage["EXECUTE"].operation = OperationOf(OpcodeIn("EXECUTE"))
      BY <3>1, <3>2 DEF DecodedBeforeExecuted, OpcodeIn
    <3>4. Param("EXECUTE", "rs") \in Word /\ Param("EXECUTE", "rt") \in Word
      BY ParamsTyped DEF Stages
    <3>5. Result(Stage["EXECUTE"].operation, Param("EXECUTE", "rs"), Param("EXECUTE", "rt"))
             \in Word
      BY <3>1, <3>3, <3>4 DEF OperationsAgree, AgreeOn
    <3> QED
      BY <1>3, <2>1, <2>2, <3>5 DEF execute
  <2>3. CASE ~ Operates
    BY <2>1, <2>3 DEF execute
  <2> QED
    BY <2>2, <2>3
<1>8. mem(served) \in Slot
  <2>1. Stage["MEM"] \in Slot
    BY <1>1 DEF Stages
  <2>2. Param("MEM", "rd") \in Word
    BY ParamsTyped DEF Stages
  <2>3. memory[Address] \in Word
    BY AddressTyped DEF Typed
  <2> QED
    BY <1>3, <2>1, <2>2, <2>3 DEF mem
<1> QED
  BY <1>1, <1>5, <1>6, <1>7, <1>8

LEMMA TypedCycle ==
    ASSUME Typed, Shaped, PcInReach, OperationsAgree, DecodedBeforeExecuted,
           NEW served \in BOOLEAN, RunsCycle(served), refusals' \in 0 .. MaxRefusals
    PROVE  Typed'
<1>1. Pipe_iteration_exe(served) /\ ~ CallsNull /\ imem' = imem
  BY DEF RunsCycle, Pipe_iteration_exe
<1>2. /\ fetch \in Slot /\ decode \in Slot /\ execute \in Slot /\ mem(served) \in Slot
      /\ \A s \in Stages : Stage[s] \in Slot
  BY <1>1, StagesTyped
<1>3. stages_in_pipe' \in [Stages -> Slot]
  <2>1. stages_in_pipe' = [s \in Stages |-> stages_in_pipe'[s]]
    BY <1>1, StagesMove
  <2>2. Stage["WRITE_BACK"] \in Slot
    BY <1>2 DEF Stages
  <2>3. \A x \in Slot : Emptied(x) \in Slot
    BY SlotsTyped
  <2>4. \A x \in Slot, y \in Slot : Moved(x, y) \in Slot
    BY SlotsTyped
  <2>5. stages_in_pipe'["FETCH"] \in Slot
    BY <1>1, <1>2, <2>3, SlotsAfter
  <2>6. CASE mem_stall'
    BY <1>1, <1>2, <2>1, <2>2, <2>3, <2>5, <2>6, SlotsAfter DEF Stages
  <2>7. CASE ~ mem_stall'
    <3>1. /\ stages_in_pipe'["EXECUTE"] \in Slot
          /\ stages_in_pipe'["MEM"] \in Slot
          /\ stages_in_pipe'["WRITE_BACK"] \in Slot
      BY <1>1, <1>2, <2>2, <2>3, <2>4, <2>7, SlotsAfter
    <3>2. stages_in_pipe'["DECODE"] \in Slot
      BY <1>1, <1>2, <2>3, <2>4, <2>7, SlotsAfter
    <3> QED
      BY <2>1, <2>5, <3>1, <3>2 DEF Stages
  <2> QED
    BY <2>6, <2>7
<1>4. registers' \in [Registers \ {IMM_REG} -> Word]
  <2>1. Stage["WRITE_BACK"].result_of_execution \in Word
    BY <1>2 DEF Stages, Slot
  <2>2. registers' = writeback
    BY <1>1 DEF Pipe_iteration_exe
  <2> QED
    BY <2>1, <2>2 DEF writeback, Typed
<1>5. memory' \in [Word -> Word]
  <2>1. memory' = Stored(served) /\ Param("MEM", "rd") \in Word
    BY <1>1, ParamsTyped DEF Pipe_iteration_exe, Stages
  <2> QED
    BY <2>1 DEF Stored, Typed
<1>6. stats' \in CounterType
  BY StatsAfter DEF Typed, CounterType, Counters
<1> QED
  BY <1>1, <1>3, <1>4, <1>5, <1>6 DEF Typed

-----------------------------------------------------------------------------
(* Registers.                                                              *)

LEMMA RegisterNumbers ==
    /\ ZERO_REG = 0 /\ IMM_REG = 1 /\ PC_REG \in MutableRegisters
    /\ \A r \in Registers : r \in MutableRegisters <=> r # ZERO_REG /\ r # IMM_REG
    /\ MutableRegisters \subseteq Registers \ {ZERO_REG, IMM_REG}
BY NumRegsAssumption DEF ZERO_REG, IMM_REG, PC_REG, MutableRegisters, START_MUTABLE_REG, Registers

(* An instruction leaves the operands of one that does not read what it    *)
(* changes.                                                                *)
LEMMA OperandsStay ==
    ASSUME NEW regs, NEW next, NEW i \in Instruction, NEW j, Independent(i, j),
           \A q \in MutableRegisters : q \notin Changes(j) => next[q] = regs[q]
    PROVE  /\ Operand(next, i, i.rs) = Operand(regs, i, i.rs)
           /\ Operand(next, i, i.rt) = Operand(regs, i, i.rt)
           /\ IsOpcodeBranch(i.opcode) \/ i.opcode = Op.SW =>
                 Operand(next, i, i.rd) = Operand(regs, i, i.rd)
<1>1. i.rs \in Registers /\ i.rt \in Registers /\ i.rd \in Registers
  BY DEF Instruction
<1>2. i.rs \notin Changes(j) /\ i.rt \notin Changes(j)
  BY DEF Independent, Reads
<1>3. IsOpcodeBranch(i.opcode) \/ i.opcode = Op.SW => i.rd \notin Changes(j)
  BY DEF Independent, Reads
<1> QED
  BY <1>1, <1>2, <1>3, RegisterNumbers DEF Operand

LEMMA Undisturbed ==
    ASSUME NEW regs, NEW next, NEW x, x.instruction \in Instruction, NEW j,
           Independent(x.instruction, j),
           \A q \in MutableRegisters : q \notin Changes(j) => next[q] = regs[q]
    PROVE  /\ TargetRead(x, regs) => TargetRead(x, next)
           /\ Computed(x, regs) => Computed(x, next)
           /\ \A p, y, z : Follows(p, x.instruction, regs, y, z) =>
                               Follows(p, x.instruction, next, y, z)
<1> DEFINE i == x.instruction
<1>1. /\ Operand(next, i, i.rs) = Operand(regs, i, i.rs)
      /\ Operand(next, i, i.rt) = Operand(regs, i, i.rt)
      /\ IsOpcodeBranch(i.opcode) => Operand(next, i, i.rd) = Operand(regs, i, i.rd)
  BY OperandsStay
<1> QED
  BY <1>1 DEF TargetRead, Computed, Follows

(* A stage reads the registers as the instruction set sees them, unless    *)
(* WRITE_BACK is about to change the register.                             *)
LEMMA ReadsRight ==
    ASSUME Typed, Zeroed, Kept, NEW s \in Stages, NEW field \in {"rd", "rs", "rt"},
           Active("WRITE_BACK") =>
               Stage[s].instruction[field] \notin Changes(Stage["WRITE_BACK"].instruction)
    PROVE  Param(s, field) =
              Operand(AbstractRegisters, Stage[s].instruction, Stage[s].instruction[field])
<1> DEFINE r == Stage[s].instruction[field]
<1>1. r \in Registers
  BY ParamsTyped
<1>2. CASE r = ZERO_REG
  BY <1>2, RegisterNumbers DEF Param, Operand, Zeroed
<1>3. CASE r = IMM_REG
  BY <1>3, RegisterNumbers DEF Param, Operand
<1>4. CASE r \in MutableRegisters
  <2>1. AbstractRegisters[r] = registers[r]
    BY <1>4 DEF AbstractRegisters, Kept
  <2> QED
    BY <1>4, <2>1, RegisterNumbers DEF Param, Operand
<1> QED
  BY <1>1, <1>2, <1>3, <1>4, RegisterNumbers

(* The registers after a cycle.                                            *)
LEMMA RegistersAfter ==
    ASSUME Typed, Shaped, NEW served \in BOOLEAN, Pipe_iteration_exe(served)
    PROVE  /\ \A q \in MutableRegisters : registers'[q] = AbstractRegisters[q]
           /\ mem_stall' \/ ~ Active("MEM") => AbstractRegisters' = AbstractRegisters
           /\ ~ mem_stall' /\ Active("MEM") =>
                 AbstractRegisters' =
                     [q \in MutableRegisters |->
                         IF q = WrittenBy(Stage["MEM"].instruction)
                           THEN mem(served).result_of_execution ELSE AbstractRegisters[q]]
<1>1. DOMAIN registers = Registers \ {IMM_REG}
  BY DEF Typed
<1>2. \A q \in MutableRegisters : registers'[q] = AbstractRegisters[q]
  BY <1>1, RegisterNumbers DEF Pipe_iteration_exe, writeback, AbstractRegisters, Runs
<1>3. AbstractRegisters' =
          [q \in MutableRegisters |->
              IF /\ stages_in_pipe'["WRITE_BACK"].pc # UINT16_MAX
                 /\ WrittenBy(stages_in_pipe'["WRITE_BACK"].instruction) = q
                THEN stages_in_pipe'["WRITE_BACK"].result_of_execution ELSE registers'[q]]
  BY DEF AbstractRegisters, WrittenRegister, OpcodeIn, Active, Stage, WrittenBy
<1>4. CASE mem_stall' \/ ~ Active("MEM")
  <2>1. stages_in_pipe'["WRITE_BACK"].pc = UINT16_MAX
    BY <1>4, InstructionsMove DEF Active
  <2> QED
    BY <1>2, <1>3, <1>4, <2>1 DEF AbstractRegisters
<1>5. CASE ~ mem_stall' /\ Active("MEM")
  <2>1. /\ stages_in_pipe'["WRITE_BACK"].pc # UINT16_MAX
        /\ stages_in_pipe'["WRITE_BACK"].instruction = Stage["MEM"].instruction
        /\ stages_in_pipe'["WRITE_BACK"].result_of_execution = mem(served).result_of_execution
    BY <1>5, InstructionsMove DEF Active
  <2> QED
    BY <1>2, <1>3, <1>5, <2>1
<1> QED
  BY <1>2, <1>4, <1>5

-----------------------------------------------------------------------------
(* The hazard check.                                                       *)

(* Of a JAL the check misses the link, behind a store the data of a store; *)
(* everything else that DECODE would read too early it finds               *)
(* (check_hazrads_by_comparing_regs).                                      *)
LEMMA HazardCheck == LinkAwaited /\ StoreDataAwaited => HazardsFound
<1> DEFINE d == Stage["DECODE"].instruction
<1> SUFFICES ASSUME LinkAwaited, StoreDataAwaited, Active("DECODE"), ~ DataHazard,
                    NEW s \in NotWritten(d), Active(s)
             PROVE  Independent(d, Stage[s].instruction)
  BY DEF HazardsFound
<1> DEFINE e == Stage[s].instruction
<1>1. ~ HazardWith(s)
  BY DEF DataHazard, NotWritten
<1>2. CASE e.opcode = Op.JAL
  <2>1. PC_REG \notin Reads(d)
    BY <1>2 DEF LinkAwaited, OpcodeIn
  <2> QED
    BY <1>2, <2>1 DEF Independent, Changes
<1>3. CASE e.opcode # Op.JAL
  <2>1. Changes(e) \subseteq {e.rd} \ {ZERO_REG, IMM_REG}
    BY <1>3 DEF Changes
  <2>2. e.rd \notin {ZERO_REG, IMM_REG} => e.rd \notin {d.rs, d.rt} /\ (ChecksRd => e.rd # d.rd)
    BY <1>1 DEF HazardWith
  <2>3. SUFFICES ASSUME e.rd \in Changes(e), e.rd \in Reads(d) PROVE FALSE
    BY <2>1 DEF Independent
  <2>4. e.rd = d.rd /\ (IsOpcodeBranch(d.opcode) \/ d.opcode = Op.SW) /\ ~ ChecksRd
    BY <2>1, <2>2, <2>3 DEF Reads
  <2>5. d.opcode = Op.SW /\ OpcodeIn("WRITE_BACK") = Op.SW
    BY <2>4 DEF ChecksRd, OpcodeIn, IsOpcodeBranch, Op
  <2>6. s = "EXECUTE"
    BY <2>5 DEF NotWritten, IsOpcodeMemory, IsOpcodeBranch, Op
  <2> QED
    BY <2>3, <2>4, <2>5, <2>6 DEF StoreDataAwaited, OpcodeIn
<1> QED
  BY <1>2, <1>3

-----------------------------------------------------------------------------
(* The control of a cycle.                                                 *)

Cycle(served) ==
    /\ PipelineInv /\ DecodeInv /\ OrderInv /\ ProgramFits
    /\ data_stall /\ mem_stall => data_stall'
    /\ RunsCycle(served)

(* A stall of mem is an access refused.                                    *)
LEMMA StallIsRefusal ==
    ASSUME Shaped, HeldAccess, NEW served \in BOOLEAN, Pipe_iteration_exe(served)
    PROVE  /\ mem_stall' <=> Accesses /\ ~ served
           /\ mem_stall' \/ mem_stall => Accesses
           /\ Accesses <=> Active("MEM") /\ IsOpcodeMemory(OpcodeIn("MEM"))
<1>1. Accesses <=> Active("MEM") /\ IsOpcodeMemory(OpcodeIn("MEM"))
  BY DEF Accesses, Runs
<1>2. mem_stall' = IF Accesses THEN ~ served ELSE mem_stall
  BY DEF Pipe_iteration_exe
<1>3. mem_stall => Accesses
  BY <1>1 DEF HeldAccess
<1>4. mem_stall \in BOOLEAN
  BY DEF Shaped
<1>5. CASE Accesses
  BY <1>1, <1>2, <1>3, <1>5
<1>6. CASE ~ Accesses
  BY <1>1, <1>2, <1>3, <1>4, <1>6
<1> QED
  BY <1>5, <1>6

(* DECODE runs, waits with what it has decoded, or is stalled, and the     *)
(* program counter moves on accordingly.                                   *)
LEMMA DecodeMoves ==
    ASSUME Shaped, Flow, NEW served \in BOOLEAN, Pipe_iteration_exe(served),
           data_stall /\ mem_stall => data_stall'
    PROVE  /\ data_stall' <=> DataHazard
           /\ mem_stall => (data_stall' <=> data_stall)
           /\ Runs("DECODE") <=> Active("DECODE") /\ ~ mem_stall /\ ~ data_stall'
           /\ is_halted' <=> is_halted \/ DecodesHalt
           /\ mem_stall \/ data_stall' => pc' = pc /\ is_halted' = is_halted
           /\ ~ mem_stall /\ ~ data_stall' /\ ~ is_halted /\ ~ Branches => pc' = pc + 1
<1>1. (data_stall' <=> DataHazard) /\ data_stall' \in BOOLEAN
  BY Zenon DEF Pipe_iteration_exe, DataHazard
<1>2. mem_stall => (data_stall' <=> data_stall)
  BY <1>1 DEF Flow
<1>3. Runs("DECODE") <=> Active("DECODE") /\ ~ mem_stall /\ ~ data_stall'
  BY DEF Runs
<1>4. (is_halted' <=> is_halted \/ DecodesHalt) /\ is_halted' \in BOOLEAN
  BY Zenon DEF Pipe_iteration_exe
<1>5. mem_stall \/ data_stall' => pc' = pc
  BY <1>3 DEF Pipe_iteration_exe, NextPc, Branches, Fetches
<1>6. mem_stall \/ data_stall' => is_halted' = is_halted
  BY <1>3, <1>4 DEF Shaped, DecodesHalt
<1>7. ~ mem_stall /\ ~ data_stall' /\ ~ is_halted /\ ~ Branches => pc' = pc + 1
  BY DEF Pipe_iteration_exe, NextPc, Fetches
<1> QED
  BY <1>1, <1>2, <1>3, <1>4, <1>5, <1>6, <1>7

LEMMA CycleFacts ==
    ASSUME NEW served \in BOOLEAN, Cycle(served)
    PROVE  /\ Shaped /\ HeldAccess /\ NothingFollowsHalt /\ DecodeReady /\ DecodedBeforeExecuted
           /\ Typed /\ Zeroed /\ Placed /\ Flow /\ Interlocked /\ Results /\ Followed
           /\ PcInReach /\ HazardsFound /\ OperandsInReach
           /\ Pipe_iteration_exe(served) /\ ~ CallsNull /\ imem' = imem
           /\ data_stall /\ mem_stall => data_stall'
BY HazardCheck
   DEF Cycle, PipelineInv, DecodeInv, OrderInv, InOrder, ProgramFits, RunsCycle, Pipe_iteration_exe

-----------------------------------------------------------------------------
(* Register 0.                                                             *)

LEMMA InstructionsKeepRegisterZero ==
    ASSUME Typed, Placed, ProgramsKeepRegisterZero, NEW s \in Stages \ {"FETCH"}, Active(s)
    PROVE  KeepsRegisterZero(Stage[s].instruction)
<1>1. imem \in Seq(Instruction) /\ imem \in Programs
  BY ProgramsAssumption DEF Typed
<1>2. \A a : InstructionAt(imem, a) \in Range(imem) \union {ZeroInstruction}
  BY DEF InstructionAt, Range
<1>3. Stage[s].instruction \in Range(imem) \union {ZeroInstruction}
  BY <1>2 DEF Placed
<1> QED
  BY <1>1, <1>3 DEF ProgramsKeepRegisterZero

LEMMA StagesZeroed ==
    ASSUME Typed, Shaped, Zeroed, Placed, ProgramsKeepRegisterZero, DecodedBeforeExecuted,
           NEW served \in BOOLEAN
    PROVE  /\ Active("DECODE") /\ Stage["DECODE"].instruction.rd = ZERO_REG =>
                 decode.result_of_execution = 0
           /\ Active("EXECUTE") /\ Stage["EXECUTE"].instruction.rd = ZERO_REG =>
                 execute.result_of_execution = 0
           /\ Active("MEM") /\ Stage["MEM"].instruction.rd = ZERO_REG =>
                 mem(served).result_of_execution = 0
<1>1. /\ IsSlot(Stage["DECODE"]) /\ IsSlot(Stage["EXECUTE"]) /\ IsSlot(Stage["MEM"])
      /\ ZERO_REG = 0 /\ IMM_REG = 1
  BY StagesKeep DEF Stages, ZERO_REG, IMM_REG
<1>2. \A s \in Stages, f \in {"rd", "rs", "rt"} :
         Param(s, f) = IF Stage[s].instruction[f] = IMM_REG THEN Stage[s].instruction.imm
                       ELSE registers[Stage[s].instruction[f]]
  BY DEF Param
<1>3. ASSUME Active("DECODE"), Stage["DECODE"].instruction.rd = ZERO_REG
      PROVE  decode.result_of_execution = 0
  <2>1. Stage["DECODE"].result_of_execution = 0 /\ Param("DECODE", "rd") = 0
    BY <1>1, <1>2, <1>3 DEF Zeroed, Stages
  <2> QED
    BY <1>1, <2>1 DEF decode, IsSlot
<1>4. ASSUME Active("EXECUTE"), Stage["EXECUTE"].instruction.rd = ZERO_REG
      PROVE  execute.result_of_execution = 0
  <2> DEFINE i == Stage["EXECUTE"].instruction
             constant(r) == IF r = ZERO_REG THEN 0 ELSE i.imm
  <2>1. Stage["EXECUTE"].result_of_execution = 0
    BY <1>4 DEF Zeroed, Stages
  <2>2. CASE Operates
    <3>1. i.opcode \in Op.ADD .. Op.SRL
      BY <2>2 DEF Operates, OpcodeIn
    <3>2. KeepsRegisterZero(i)
      BY <1>4, InstructionsKeepRegisterZero DEF Stages
    <3>3. /\ {i.rs, i.rt} \subseteq {ZERO_REG, IMM_REG}
          /\ Result(OperationOf(i.opcode), constant(i.rs), constant(i.rt)) = 0
      BY <1>4, <3>1, <3>2 DEF KeepsRegisterZero
    <3>4. i.opcode \in Op.ADD .. Op.JAL
      BY <3>1, OpcodeNumbers
    <3>5. Stage["EXECUTE"].operation = OperationOf(i.opcode)
      BY <1>4, <3>4 DEF DecodedBeforeExecuted, OpcodeIn
    <3>6. Param("EXECUTE", "rs") = constant(i.rs) /\ Param("EXECUTE", "rt") = constant(i.rt)
      BY <1>1, <3>3 DEF Param, Zeroed
    <3> QED
      BY <1>1, <2>2, <3>3, <3>5, <3>6 DEF execute, IsSlot
  <2>3. CASE ~ Operates
    BY <2>1, <2>3 DEF execute
  <2> QED
    BY <2>2, <2>3
<1>5. ASSUME Active("MEM"), Stage["MEM"].instruction.rd = ZERO_REG
      PROVE  mem(served).result_of_execution = 0
  <2>1. Stage["MEM"].result_of_execution = 0 /\ Param("MEM", "rd") = 0
    BY <1>1, <1>2, <1>5 DEF Zeroed, Stages
  <2>2. KeepsRegisterZero(Stage["MEM"].instruction)
    BY <1>5, InstructionsKeepRegisterZero DEF Stages
  <2>3. OpcodeIn("MEM") # Op.LW
    BY <1>5, <2>2 DEF KeepsRegisterZero, OpcodeIn
  <2> QED
    BY <1>1, <2>1, <2>3 DEF mem, IsSlot
<1> QED
  BY <1>3, <1>4, <1>5

LEMMA ZeroedCycle ==
    ASSUME ProgramsKeepRegisterZero, NEW served \in BOOLEAN, Cycle(served)
    PROVE  Zeroed'
<1> USE CycleFacts
<1>1. registers'[ZERO_REG] = 0
  <2>1. ZERO_REG \in DOMAIN registers /\ PC_REG # ZERO_REG
    BY RegisterNumbers, NumRegsAssumption DEF Typed, Registers, ZERO_REG, IMM_REG, PC_REG
  <2>2. registers' = writeback
    BY DEF Pipe_iteration_exe
  <2> QED
    BY <2>1, <2>2 DEF writeback, WrittenRegister, Zeroed, Runs, Stages
<1>2. stages_in_pipe'["FETCH"].result_of_execution = 0 /\ fetch.result_of_execution = 0
  BY InstructionsMove, StagesKeep DEF Zeroed
<1>3. \A s \in Stages \ {"FETCH"} :
         stages_in_pipe'[s].pc # UINT16_MAX /\ stages_in_pipe'[s].instruction.rd = ZERO_REG
         => stages_in_pipe'[s].result_of_execution = 0
  <2>1. /\ stages_in_pipe["DECODE"].pc # UINT16_MAX
        /\ stages_in_pipe["DECODE"].instruction.rd = ZERO_REG
        => decode.result_of_execution = 0
    BY StagesZeroed DEF Active, Stage
  <2>2. /\ stages_in_pipe["EXECUTE"].pc # UINT16_MAX
        /\ stages_in_pipe["EXECUTE"].instruction.rd = ZERO_REG
        => execute.result_of_execution = 0
    BY StagesZeroed DEF Active, Stage
  <2>3. /\ stages_in_pipe["MEM"].pc # UINT16_MAX
        /\ stages_in_pipe["MEM"].instruction.rd = ZERO_REG
        => mem(served).result_of_execution = 0
    BY StagesZeroed DEF Active, Stage
  <2>4. CASE mem_stall'
    BY <2>1, <2>2, <2>3, <2>4, InstructionsMove DEF Stages, Stage
  <2>5. CASE ~ mem_stall'
    <3>1. decode.instruction = Stage["DECODE"].instruction
      BY StagesKeep
    <3> QED
      BY <1>2, <2>1, <2>2, <2>3, <2>5, <3>1, InstructionsMove DEF Stages, Stage
  <2> QED
    BY <2>4, <2>5
<1> QED
  BY <1>1, <1>2, <1>3 DEF Zeroed, Active, Stage

-----------------------------------------------------------------------------
(* The stream of instructions.                                             *)

LEMMA PcIsNoBubble ==
    ASSUME PcInReach
    PROVE  pc \in Nat /\ pc # UINT16_MAX
<1>1. \/ PcBits = 2 \/ PcBits = 3 \/ PcBits = 4 \/ PcBits = 5 \/ PcBits = 6 \/ PcBits = 7
      \/ PcBits = 8 \/ PcBits = 9 \/ PcBits = 10 \/ PcBits = 11 \/ PcBits = 12 \/ PcBits = 13
      \/ PcBits = 14 \/ PcBits = 15
  BY PcBitsAssumption
<1>2. PcBits = 2 => 2 ^ PcBits \in Int /\ 2 ^ PcBits <= 32768
  OBVIOUS
<1>3. PcBits = 3 => 2 ^ PcBits \in Int /\ 2 ^ PcBits <= 32768
  OBVIOUS
<1>4. PcBits = 4 => 2 ^ PcBits \in Int /\ 2 ^ PcBits <= 32768
  OBVIOUS
<1>5. PcBits = 5 => 2 ^ PcBits \in Int /\ 2 ^ PcBits <= 32768
  OBVIOUS
<1>6. PcBits = 6 => 2 ^ PcBits \in Int /\ 2 ^ PcBits <= 32768
  OBVIOUS
<1>7. PcBits = 7 => 2 ^ PcBits \in Int /\ 2 ^ PcBits <= 32768
  OBVIOUS
<1>8. PcBits = 8 => 2 ^ PcBits \in Int /\ 2 ^ PcBits <= 32768
  OBVIOUS
<1>9. PcBits = 9 => 2 ^ PcBits \in Int /\ 2 ^ PcBits <= 32768
  OBVIOUS
<1>10. PcBits = 10 => 2 ^ PcBits \in Int /\ 2 ^ PcBits <= 32768
  OBVIOUS
<1>11. PcBits = 11 => 2 ^ PcBits \in Int /\ 2 ^ PcBits <= 32768
  OBVIOUS
<1>12. PcBits = 12 => 2 ^ PcBits \in Int /\ 2 ^ PcBits <= 32768
  OBVIOUS
<1>13. PcBits = 13 => 2 ^ PcBits \in Int /\ 2 ^ PcBits <= 32768
  OBVIOUS
<1>14. PcBits = 14 => 2 ^ PcBits \in Int /\ 2 ^ PcBits <= 32768
  OBVIOUS
<1>15. PcBits = 15 => 2 ^ PcBits \in Int /\ 2 ^ PcBits <= 32768
  OBVIOUS
<1>16. 2 ^ PcBits \in Int /\ 2 ^ PcBits <= 32768
  BY <1>1, <1>2, <1>3, <1>4, <1>5, <1>6, <1>7, <1>8, <1>9, <1>10, <1>11, <1>12, <1>13,
     <1>14, <1>15
<1>17. pc \in Nat /\ pc <= 2 ^ PcBits
  BY <1>16 DEF PcInReach
<1> QED
  BY <1>16, <1>17 DEF UINT16_MAX

(* FETCH holds the next instruction, read in this cycle or before a stall. *)
LEMMA Fetched ==
    ASSUME NEW served \in BOOLEAN, Cycle(served), ~ is_halted
    PROVE  /\ fetch.pc = IF mem_stall THEN Stage["FETCH"].pc ELSE pc
           /\ fetch.pc \in Nat /\ fetch.pc # UINT16_MAX
           /\ fetch.instruction = InstructionAt(imem, fetch.pc)
<1>1. /\ fetch.pc = IF mem_stall THEN Stage["FETCH"].pc ELSE pc
      /\ fetch.instruction = IF mem_stall THEN Stage["FETCH"].instruction
                             ELSE InstructionAt(imem, pc)
  BY CycleFacts, StagesKeep DEF Fetches
<1>2. Stage["FETCH"].pc \in Nat /\ Stage["FETCH"].pc # UINT16_MAX
  BY CycleFacts DEF Typed, Slot, Stages, Stage, Flow, Active
<1> QED
  BY <1>1, <1>2, CycleFacts, PcIsNoBubble DEF Placed, Active

LEMMA PlacedCycle ==
    ASSUME NEW served \in BOOLEAN, Cycle(served)
    PROVE  Placed'
<1> USE CycleFacts
<1>1. /\ \A s \in Stages \ {"FETCH"} :
            stages_in_pipe[s].pc # UINT16_MAX =>
                stages_in_pipe[s].instruction = InstructionAt(imem, stages_in_pipe[s].pc)
      /\ decode.pc = stages_in_pipe["DECODE"].pc
      /\ decode.instruction = stages_in_pipe["DECODE"].instruction
      /\ ~ is_halted' => ~ is_halted
  BY StagesKeep DEF Placed, Active, Stage, Pipe_iteration_exe
<1>2. \A s \in Stages \ {"FETCH"} :
         stages_in_pipe'[s].pc # UINT16_MAX =>
             stages_in_pipe'[s].instruction = InstructionAt(imem, stages_in_pipe'[s].pc)
  <2>1. CASE mem_stall'
    BY <1>1, <2>1, InstructionsMove DEF Stages, Stage
  <2>2. CASE ~ mem_stall'
    <3>1. stages_in_pipe'["DECODE"].pc # UINT16_MAX =>
             stages_in_pipe'["DECODE"].instruction =
                 InstructionAt(imem, stages_in_pipe'["DECODE"].pc)
      BY <1>1, <2>2, InstructionsMove, Fetched DEF Stages, Stage
    <3> QED
      BY <1>1, <2>2, <3>1, InstructionsMove DEF Stages, Stage
  <2> QED
    BY <2>1, <2>2
<1>3. stages_in_pipe'["FETCH"].pc # UINT16_MAX =>
          stages_in_pipe'["FETCH"].instruction =
              InstructionAt(imem, stages_in_pipe'["FETCH"].pc)
  BY <1>1, InstructionsMove, Fetched
<1> QED
  BY <1>2, <1>3 DEF Placed, Active, Stage

(* A hazard found in a stall was there before it.                          *)
LEMMA NoNewHazard ==
    ASSUME NEW served \in BOOLEAN, Cycle(served), mem_stall', ~ data_stall'
    PROVE  ~ DataHazard'
<1>1. /\ stages_in_pipe'["DECODE"].instruction = stages_in_pipe["DECODE"].instruction
      /\ stages_in_pipe'["EXECUTE"].instruction = stages_in_pipe["EXECUTE"].instruction
      /\ stages_in_pipe'["EXECUTE"].pc = stages_in_pipe["EXECUTE"].pc
      /\ stages_in_pipe'["MEM"].instruction = stages_in_pipe["MEM"].instruction
      /\ stages_in_pipe'["MEM"].pc = stages_in_pipe["MEM"].pc
      /\ stages_in_pipe'["WRITE_BACK"].instruction = stages_in_pipe["WRITE_BACK"].instruction
      /\ stages_in_pipe'["WRITE_BACK"].pc = UINT16_MAX
  BY CycleFacts, InstructionsMove DEF Stage
<1>2. ~ DataHazard
  BY CycleFacts, DecodeMoves
<1>3. ChecksRd' <=> ChecksRd
  BY <1>1 DEF ChecksRd, OpcodeIn, Stage
<1>4. /\ HazardWith("EXECUTE")' => HazardWith("EXECUTE")
      /\ HazardWith("MEM")' => HazardWith("MEM")
      /\ ~ HazardWith("WRITE_BACK")'
  BY <1>1, <1>3 DEF HazardWith, Active, Stage
<1> QED
  BY <1>2, <1>4 DEF DataHazard

LEMMA FlowCycle ==
    ASSUME NEW served \in BOOLEAN, Cycle(served)
    PROVE  Flow'
<1> USE CycleFacts
<1>1. is_halted => is_halted'
  BY DecodeMoves
<1>2. /\ mem_stall' => stages_in_pipe'["WRITE_BACK"].pc = UINT16_MAX
      /\ ~ is_halted' => stages_in_pipe'["FETCH"].pc # UINT16_MAX
  BY <1>1, InstructionsMove, Fetched
<1>3. ASSUME ~ is_halted',
             \/ stages_in_pipe'["MEM"].pc # UINT16_MAX
             \/ stages_in_pipe'["EXECUTE"].pc # UINT16_MAX
      PROVE  stages_in_pipe'["DECODE"].pc # UINT16_MAX
  <2>1. CASE mem_stall'
    <3>1. Active("MEM")
      BY <2>1, StallIsRefusal
    <3> QED
      BY <1>1, <1>3, <2>1, <3>1, InstructionsMove DEF Flow, Active
  <2>2. CASE ~ mem_stall' /\ data_stall'
    BY <1>1, <1>3, <2>2, InstructionsMove DEF Flow, Active
  <2>3. CASE ~ mem_stall' /\ ~ data_stall'
    BY <1>1, <1>3, <2>3, InstructionsMove, Fetched
  <2> QED
    BY <2>1, <2>2, <2>3
<1>4. ASSUME stages_in_pipe'["MEM"].pc # UINT16_MAX,
             stages_in_pipe'["MEM"].instruction.opcode = Op.HALT
      PROVE  is_halted' /\ stages_in_pipe'["EXECUTE"].pc = UINT16_MAX
  <2>1. CASE mem_stall'
    BY <1>1, <1>4, <2>1, InstructionsMove DEF Flow, Active, OpcodeIn
  <2>2. CASE ~ mem_stall'
    <3>1. is_halted
      BY <1>4, <2>2, InstructionsMove DEF DecodedBeforeExecuted, Active, OpcodeIn
    <3>2. ~ Active("DECODE")
      BY <3>1 DEF NothingFollowsHalt
    <3> QED
      BY <1>1, <2>2, <3>1, <3>2, InstructionsMove DEF Active
  <2> QED
    BY <2>1, <2>2
<1> QED
  BY <1>2, <1>3, <1>4, NoNewHazard DEF Flow, Active, OpcodeIn, Stage

-----------------------------------------------------------------------------
(* The interlock.                                                          *)

LEMMA DecodedIsIndependent ==
    ASSUME NEW served \in BOOLEAN, Cycle(served), Active("DECODE"), ~ data_stall'
    PROVE  /\ Active("EXECUTE") =>
                 Independent(Stage["DECODE"].instruction, Stage["EXECUTE"].instruction)
           /\ Active("MEM") /\ ~ IsOpcodeMemory(OpcodeIn("DECODE")) =>
                 Independent(Stage["DECODE"].instruction, Stage["MEM"].instruction)
           /\ Active("WRITE_BACK") /\ IsOpcodeBranch(OpcodeIn("DECODE")) =>
                 Independent(Stage["DECODE"].instruction, Stage["WRITE_BACK"].instruction)
<1>1. ~ DataHazard
  BY CycleFacts, DecodeMoves
<1> QED
  BY <1>1, CycleFacts DEF HazardsFound, NotWritten, OpcodeIn

LEMMA InterlockedCycle ==
    ASSUME NEW served \in BOOLEAN, Cycle(served)
    PROVE  Interlocked'
<1> USE CycleFacts
<1>1. CASE mem_stall'
  BY <1>1, InstructionsMove DEF Interlocked, Active, OpcodeIn, Stage
<1>2. CASE ~ mem_stall'
  <2>1. stages_in_pipe'["EXECUTE"].pc # UINT16_MAX =>
           /\ Active("DECODE") /\ ~ data_stall'
           /\ stages_in_pipe'["EXECUTE"].instruction = Stage["DECODE"].instruction
    BY <1>2, InstructionsMove DEF Active
  <2>2. stages_in_pipe'["MEM"].pc # UINT16_MAX =>
           /\ Active("EXECUTE")
           /\ stages_in_pipe'["MEM"].instruction = Stage["EXECUTE"].instruction
    BY <1>2, InstructionsMove DEF Active
  <2>3. stages_in_pipe'["WRITE_BACK"].pc # UINT16_MAX =>
           /\ Active("MEM")
           /\ stages_in_pipe'["WRITE_BACK"].instruction = Stage["MEM"].instruction
    BY <1>2, InstructionsMove DEF Active
  <2> QED
    BY <2>1, <2>2, <2>3, DecodedIsIndependent DEF Interlocked, Active, OpcodeIn, Stage
<1> QED
  BY <1>1, <1>2

-----------------------------------------------------------------------------
(* Results.                                                                *)

LEMMA TakenRight ==
    ASSUME NEW opcode \in Op.BEQ .. Op.JAL, NEW a, NEW b
    PROVE  Taken(OperationOf(opcode), a, b) <=> ISA!Condition(opcode, a, b)
<1>1. opcode \in 9 .. 15 /\ Len(OpcodeFunctionTable) = 16
  BY OpcodeNumbers DEF OpcodeFunctionTable
<1>2. \/ opcode = 9 /\ OperationOf(opcode) = "branchEqual"
      \/ opcode = 10 /\ OperationOf(opcode) = "branchNotEqual"
      \/ opcode = 11 /\ OperationOf(opcode) = "branchLessThan"
      \/ opcode = 12 /\ OperationOf(opcode) = "branchGreaterThan"
      \/ opcode = 13 /\ OperationOf(opcode) = "branchLessEqual"
      \/ opcode = 14 /\ OperationOf(opcode) = "branchGreaterEqual"
      \/ opcode = 15 /\ OperationOf(opcode) = "jump"
  BY <1>1 DEF OperationOf, OpcodeFunctionTable
<1>3. /\ ISA!Op.BEQ = 9 /\ ISA!Op.BNE = 10 /\ ISA!Op.BLT = 11 /\ ISA!Op.BGT = 12
      /\ ISA!Op.BLE = 13 /\ ISA!Op.BGE = 14 /\ ISA!Op.JAL = 15
  BY DEF ISA!Op
<1>4. CASE opcode = 9
  <2>1. ISA!Condition(opcode, a, b) <=> a = b
    BY <1>3, <1>4 DEF ISA!Condition
  <2>2. Taken(OperationOf(opcode), a, b) <=> a = b
    BY <1>2, <1>4 DEF Taken
  <2> QED
    BY <2>1, <2>2
<1>5. CASE opcode = 10
  <2>1. ISA!Condition(opcode, a, b) <=> a # b
    BY <1>3, <1>5 DEF ISA!Condition
  <2>2. Taken(OperationOf(opcode), a, b) <=> a # b
    BY <1>2, <1>5 DEF Taken
  <2> QED
    BY <2>1, <2>2
<1>6. CASE opcode = 11
  <2>1. ISA!Condition(opcode, a, b) <=> a < b
    BY <1>3, <1>6 DEF ISA!Condition
  <2>2. Taken(OperationOf(opcode), a, b) <=> a < b
    BY <1>2, <1>6 DEF Taken
  <2> QED
    BY <2>1, <2>2
<1>7. CASE opcode = 12
  <2>1. ISA!Condition(opcode, a, b) <=> a > b
    BY <1>3, <1>7 DEF ISA!Condition
  <2>2. Taken(OperationOf(opcode), a, b) <=> a > b
    BY <1>2, <1>7 DEF Taken
  <2> QED
    BY <2>1, <2>2
<1>8. CASE opcode = 13
  <2>1. ISA!Condition(opcode, a, b) <=> a <= b
    BY <1>3, <1>8 DEF ISA!Condition
  <2>2. Taken(OperationOf(opcode), a, b) <=> a <= b
    BY <1>2, <1>8 DEF Taken
  <2> QED
    BY <2>1, <2>2
<1>9. CASE opcode = 14
  <2>1. ISA!Condition(opcode, a, b) <=> a >= b
    BY <1>3, <1>9 DEF ISA!Condition
  <2>2. Taken(OperationOf(opcode), a, b) <=> a >= b
    BY <1>2, <1>9 DEF Taken
  <2> QED
    BY <2>1, <2>2
<1>10. CASE opcode = 15
  <2>1. ISA!Condition(opcode, a, b) <=> TRUE
    BY <1>3, <1>10 DEF ISA!Condition
  <2>2. Taken(OperationOf(opcode), a, b) <=> TRUE
    BY <1>2, <1>10 DEF Taken
  <2> QED
    BY <2>1, <2>2
<1> QED
  BY <1>2, <1>4, <1>5, <1>6, <1>7, <1>8, <1>9, <1>10

(* EXECUTE computes what the instruction set says, of the registers that   *)
(* the instruction will find.                                              *)
LEMMA ExecutedRight ==
    ASSUME OperationsAgree, NEW served \in BOOLEAN, Cycle(served), Active("EXECUTE")
    PROVE  /\ TargetRead(execute, AbstractRegisters)
           /\ Computed(execute, AbstractRegisters)
<1> USE CycleFacts
<1> DEFINE i == Stage["EXECUTE"].instruction
<1>1. execute.instruction = i /\ IsSlot(Stage["EXECUTE"])
  BY StagesKeep DEF Stages
<1>2. TargetRead(execute, AbstractRegisters)
  <2>1. IsOpcodeBranch(i.opcode) => ~ Operates
    BY OpcodeNumbers DEF Operates, IsOpcodeBranch, OpcodeIn
  <2>2. TargetRead(Stage["EXECUTE"], AbstractRegisters)
    BY DEF Results
  <2> QED
    BY <1>1, <2>1, <2>2 DEF TargetRead, execute
<1>3. ASSUME i.opcode \in Op.ADD .. Op.SRL
      PROVE  execute.result_of_execution =
                ISA!Value(i.opcode, Operand(AbstractRegisters, i, i.rs),
                                    Operand(AbstractRegisters, i, i.rt))
  <2>1. CASE mem_stall
    <3>1. execute = Stage["EXECUTE"]
      BY <2>1 DEF execute, Operates, Runs
    <3> QED
      BY <1>3, <2>1, <3>1 DEF Results, Computed
  <2>2. CASE ~ mem_stall
    <3>1. Operates
      BY <1>3, <2>2 DEF Operates, Runs, OpcodeIn
    <3>2. i.opcode \in Op.ADD .. Op.JAL /\ ~ IsOpcodeMemory(OpcodeIn("EXECUTE"))
      BY <1>3, OpcodeNumbers DEF IsOpcodeMemory, OpcodeIn
    <3>3. Active("WRITE_BACK") =>
             /\ i.rs \notin Changes(Stage["WRITE_BACK"].instruction)
             /\ i.rt \notin Changes(Stage["WRITE_BACK"].instruction)
      BY <3>2 DEF Interlocked, Independent, Reads
    <3>4. /\ Param("EXECUTE", "rs") = Operand(AbstractRegisters, i, i.rs)
          /\ Param("EXECUTE", "rt") = Operand(AbstractRegisters, i, i.rt)
      BY <3>3, ReadsRight DEF Stages, Results
    <3>5. Param("EXECUTE", "rs") \in Word /\ Param("EXECUTE", "rt") \in Word
      BY ParamsTyped DEF Stages
    <3>6. i.opcode \in Op.SLL .. Op.SRL => Param("EXECUTE", "rt") < WordBits
      BY <2>2 DEF OperandsInReach, OpcodeIn
    <3>7. Result(OperationOf(i.opcode), Param("EXECUTE", "rs"), Param("EXECUTE", "rt")) =
             ISA!Value(i.opcode, Param("EXECUTE", "rs"), Param("EXECUTE", "rt"))
      BY <1>3, <3>5, <3>6 DEF OperationsAgree, AgreeOn
    <3>8. Stage["EXECUTE"].operation = OperationOf(i.opcode)
      BY <3>2 DEF DecodedBeforeExecuted, OpcodeIn
    <3>9. execute.result_of_execution =
             Result(OperationOf(i.opcode), Param("EXECUTE", "rs"), Param("EXECUTE", "rt"))
      BY <1>1, <3>1, <3>8 DEF execute, IsSlot
    <3> QED
      BY <3>4, <3>7, <3>9
  <2> QED
    BY <2>1, <2>2
<1> QED
  BY <1>1, <1>2, <1>3 DEF Computed

(* The chain of places in terms of the program.                            *)
LEMMA Chain ==
    /\ AtFetch = IF is_halted THEN Halted
                 ELSE PlaceIn(imem, IF mem_stall /\ ~ data_stall THEN Stage["FETCH"].pc ELSE pc)
    /\ InDecode = IF Active("DECODE") THEN PlaceIn(imem, Stage["DECODE"].pc) ELSE AtFetch
    /\ InExecute = IF Active("EXECUTE") THEN PlaceIn(imem, Stage["EXECUTE"].pc) ELSE InDecode
    /\ AbstractPc = IF Active("MEM") THEN PlaceIn(imem, Stage["MEM"].pc) ELSE InExecute
BY DEF AtFetch, InDecode, InExecute, AbstractPc, Place, PlaceIn

(* DECODE sets the program counter to where the program goes on.           *)
LEMMA DecodedRight ==
    ASSUME NEW served \in BOOLEAN, Cycle(served), Active("DECODE"), ~ data_stall'
    PROVE  /\ TargetRead(decode, AbstractRegisters)
           /\ Follows(imem, Stage["DECODE"].instruction, AbstractRegisters, AtFetch,
                      PlaceIn(imem, pc'))
<1> USE CycleFacts
<1> DEFINE i == Stage["DECODE"].instruction
<1>1. decode.instruction = i /\ IsSlot(Stage["DECODE"])
  BY StagesKeep DEF Stages
<1>2. CASE mem_stall
  <2>1. decode = Stage["DECODE"] /\ ~ data_stall /\ pc' = pc
    BY <1>2, DecodeMoves, DecodeWaits
  <2> QED
    BY <1>2, <2>1 DEF Results, Followed
<1>3. CASE ~ mem_stall
  <2>1. Runs("DECODE") /\ ~ is_halted /\ ~ DataHazard
    BY <1>3, DecodeMoves DEF NothingFollowsHalt
  <2>2. ASSUME IsOpcodeBranch(i.opcode)
        PROVE  /\ Param("DECODE", "rd") = Operand(AbstractRegisters, i, i.rd)
               /\ Param("DECODE", "rs") = Operand(AbstractRegisters, i, i.rs)
               /\ Param("DECODE", "rt") = Operand(AbstractRegisters, i, i.rt)
    <3>1. Active("WRITE_BACK") =>
             /\ i.rd \notin Changes(Stage["WRITE_BACK"].instruction)
             /\ i.rs \notin Changes(Stage["WRITE_BACK"].instruction)
             /\ i.rt \notin Changes(Stage["WRITE_BACK"].instruction)
      BY <2>2, DecodedIsIndependent DEF Independent, Reads, OpcodeIn
    <3> QED
      BY <3>1, ReadsRight DEF Stages, Results
  <2>3. TargetRead(decode, AbstractRegisters)
    <3>1. ASSUME IsOpcodeBranch(i.opcode)
          PROVE  decode.result_of_execution = Param("DECODE", "rd")
      <4>1. Branches /\ ~ DecodesHalt
        BY <2>1, <3>1, OpcodeNumbers DEF Branches, DecodesHalt, OpcodeIn, IsOpcodeBranch
      <4> QED
        BY <1>1, <2>1, <4>1 DEF decode, IsSlot
    <3> QED
      BY <1>1, <2>2, <3>1 DEF TargetRead
  <2>4. ASSUME AtFetch # Halted
        PROVE  AtFetch = pc
    BY <1>3, <2>1, <2>4, Chain DEF PlaceIn
  <2>5. CASE IsOpcodeBranch(i.opcode)
    <3>1. Branches
      BY <2>1, <2>5 DEF Branches, OpcodeIn
    <3>2. /\ Taken(OperationOf(i.opcode), Param("DECODE", "rs"), Param("DECODE", "rt")) <=>
                ISA!Condition(i.opcode, Operand(AbstractRegisters, i, i.rs),
                                        Operand(AbstractRegisters, i, i.rt))
      BY <2>2, <2>5, TakenRight DEF IsOpcodeBranch
    <3>3. Target(Param("DECODE", "rd")) = Operand(AbstractRegisters, i, i.rd) % 2 ^ PcBits
      BY <1>3, <2>1, <2>2, <2>5 DEF OperandsInReach, OpcodeIn
    <3>4. Fetches /\ ~ data_stall'
      BY <1>3, <2>1 DEF Fetches
    <3>5. pc' = IF ISA!Condition(i.opcode, Operand(AbstractRegisters, i, i.rs),
                                           Operand(AbstractRegisters, i, i.rt))
                  THEN Operand(AbstractRegisters, i, i.rd) % 2 ^ PcBits ELSE pc + 1
      BY <3>1, <3>2, <3>3, <3>4 DEF Pipe_iteration_exe, NextPc, OpcodeIn
    <3> QED
      BY <2>3, <2>4, <2>5, <3>5 DEF Follows
  <2>6. CASE ~ IsOpcodeBranch(i.opcode)
    <3>1. pc' = pc + 1
      BY <1>3, <2>1, <2>6, DecodeMoves DEF Branches, OpcodeIn
    <3> QED
      BY <2>3, <2>4, <2>6, <3>1 DEF Follows
  <2> QED
    BY <2>5, <2>6
<1> QED
  BY <1>2, <1>3

(* What leaves MEM carries what the instruction set writes, and changes    *)
(* no register but the one it is to change.                                *)
LEMMA MemRight ==
    ASSUME ProgramsKeepRegisterZero, OperationsAgree,
           NEW served \in BOOLEAN, Cycle(served), Active("MEM"), ~ mem_stall'
    PROVE  LET i == Stage["MEM"].instruction
               w == mem(served).result_of_execution
           IN  /\ Computed(mem(served), AbstractRegisters)
               /\ TargetRead(mem(served), AbstractRegisters)
               /\ IsOpcodeMemory(i.opcode) =>
                     /\ served
                     /\ Address = Result("add", Operand(AbstractRegisters, i, i.rs),
                                                Operand(AbstractRegisters, i, i.rt))
                     /\ Address = ISA!Value(Op.ADD, Operand(AbstractRegisters, i, i.rs),
                                                    Operand(AbstractRegisters, i, i.rt))
               /\ i.opcode = Op.LW => w = memory[Address]
               /\ i.opcode = Op.SW => /\ w = Operand(AbstractRegisters, i, i.rd)
                                      /\ Param("MEM", "rd") = w
               /\ WrittenBy(i) \in MutableRegisters \ Changes(i) =>
                     w = AbstractRegisters[WrittenBy(i)]
               /\ \A q \in MutableRegisters :
                     q \notin Changes(i) => AbstractRegisters'[q] = AbstractRegisters[q]
<1> USE CycleFacts
<1> DEFINE i == Stage["MEM"].instruction
           w == mem(served).result_of_execution
<1>1. mem(served).instruction = i /\ IsSlot(Stage["MEM"]) /\ i \in Instruction
  BY StagesKeep, ParamsTyped DEF Stages
<1>2. Accesses <=> IsOpcodeMemory(i.opcode)
  BY StallIsRefusal DEF OpcodeIn
<1>3. /\ Computed(mem(served), AbstractRegisters)
      /\ TargetRead(mem(served), AbstractRegisters)
  <2>1. CASE IsOpcodeMemory(i.opcode)
    <3>1. ~ IsOpcodeBranch(i.opcode) /\ i.opcode \notin Op.ADD .. Op.SRL
      BY <2>1, OpcodeNumbers DEF IsOpcodeMemory, IsOpcodeBranch
    <3> QED
      BY <1>1, <3>1 DEF Computed, TargetRead
  <2>2. CASE ~ IsOpcodeMemory(i.opcode)
    BY <1>2, <2>2 DEF mem, Results
  <2> QED
    BY <2>1, <2>2
<1>4. ASSUME IsOpcodeMemory(i.opcode)
      PROVE  /\ served
             /\ Param("MEM", "rs") = Operand(AbstractRegisters, i, i.rs)
             /\ Param("MEM", "rt") = Operand(AbstractRegisters, i, i.rt)
             /\ i.opcode = Op.SW => Param("MEM", "rd") = Operand(AbstractRegisters, i, i.rd)
  <2>1. Active("WRITE_BACK") =>
           /\ i.rs \notin Changes(Stage["WRITE_BACK"].instruction)
           /\ i.rt \notin Changes(Stage["WRITE_BACK"].instruction)
           /\ i.opcode = Op.SW => i.rd \notin Changes(Stage["WRITE_BACK"].instruction)
    BY <1>4 DEF Interlocked, Independent, Reads, OpcodeIn
  <2>2. served
    BY <1>2, <1>4, StallIsRefusal
  <2> QED
    BY <2>1, <2>2, ReadsRight DEF Stages, Results
<1>5. IsOpcodeMemory(i.opcode) =>
         /\ Address = Result("add", Operand(AbstractRegisters, i, i.rs),
                                    Operand(AbstractRegisters, i, i.rt))
         /\ Address = ISA!Value(Op.ADD, Operand(AbstractRegisters, i, i.rs),
                                        Operand(AbstractRegisters, i, i.rt))
  <2>1. Param("MEM", "rs") \in Word /\ Param("MEM", "rt") \in Word
    BY ParamsTyped DEF Stages
  <2>2. /\ Op.ADD \in Op.ADD .. Op.SRL /\ Op.ADD \notin Op.SLL .. Op.SRL
        /\ OperationOf(Op.ADD) = "add"
    BY OpcodeNumbers DEF OperationOf, OpcodeFunctionTable
  <2>3. Address = Result("add", Param("MEM", "rs"), Param("MEM", "rt"))
    BY DEF Address, Result, Exact
  <2>4. Result("add", Param("MEM", "rs"), Param("MEM", "rt")) =
           ISA!Value(Op.ADD, Param("MEM", "rs"), Param("MEM", "rt"))
    BY <2>1, <2>2 DEF OperationsAgree, AgreeOn
  <2> QED
    BY <1>4, <2>3, <2>4
<1>6. i.opcode = Op.LW => w = memory[Address]
  BY <1>1, <1>2, <1>4 DEF mem, IsSlot, IsOpcodeMemory, OpcodeIn
<1>7. i.opcode = Op.SW => w = Operand(AbstractRegisters, i, i.rd) /\ Param("MEM", "rd") = w
  <2>1. Op.SW # Op.LW
    BY OpcodeNumbers
  <2> QED
    BY <1>1, <1>2, <1>4, <2>1 DEF mem, IsSlot, IsOpcodeMemory, OpcodeIn
<1>8. ASSUME WrittenBy(i) \in MutableRegisters \ Changes(i)
      PROVE  w = AbstractRegisters[WrittenBy(i)]
  <2>1. i.opcode # Op.JAL /\ WrittenBy(i) = i.rd
    BY <1>8, RegisterNumbers DEF Changes, WrittenBy
  <2>2. i.opcode \notin (Op.ADD .. Op.SRL) \union {Op.LW}
    BY <1>8, <2>1, RegisterNumbers DEF Changes
  <2>3. i.opcode # Op.HALT
    <3>1. KeepsRegisterZero(i)
      BY InstructionsKeepRegisterZero DEF Stages
    <3> QED
      BY <1>8, <2>1, <3>1, RegisterNumbers DEF KeepsRegisterZero
  <2>4. IsOpcodeBranch(i.opcode) \/ i.opcode = Op.SW
    <3>1. i.opcode \in (0 .. 17) \union {20}
      BY <1>1, OpcodeNumbers DEF Instruction
    <3> QED
      BY <2>2, <2>3, <3>1, OpcodeNumbers DEF IsOpcodeBranch
  <2>5. w = Operand(AbstractRegisters, i, i.rd)
    BY <1>1, <1>3, <1>7, <2>4 DEF TargetRead
  <2> QED
    BY <1>8, <2>1, <2>5, RegisterNumbers DEF Operand
<1>9. \A q \in MutableRegisters :
         q \notin Changes(i) => AbstractRegisters'[q] = AbstractRegisters[q]
  <2>1. AbstractRegisters' =
           [q \in MutableRegisters |-> IF q = WrittenBy(i) THEN w ELSE AbstractRegisters[q]]
    BY RegistersAfter
  <2> QED
    BY <1>8, <2>1
<1> QED
  BY <1>3, <1>4, <1>5, <1>6, <1>7, <1>8, <1>9

(* What is right of an instruction behind MEM stays so when MEM is left.   *)
LEMMA StaysRight ==
    ASSUME ProgramsKeepRegisterZero, OperationsAgree,
           NEW served \in BOOLEAN, Cycle(served),
           NEW x, x.instruction \in Instruction,
           Active("MEM") => Independent(x.instruction, Stage["MEM"].instruction)
    PROVE  /\ TargetRead(x, AbstractRegisters) => TargetRead(x, AbstractRegisters')
           /\ Computed(x, AbstractRegisters) => Computed(x, AbstractRegisters')
           /\ \A p, y, z : Follows(p, x.instruction, AbstractRegisters, y, z) =>
                               Follows(p, x.instruction, AbstractRegisters', y, z)
<1>1. CASE Active("MEM") /\ ~ mem_stall'
  <2>1. \A q \in MutableRegisters : q \notin Changes(Stage["MEM"].instruction) =>
            AbstractRegisters'[q] = AbstractRegisters[q]
    BY <1>1, MemRight
  <2> QED
    BY <1>1, <2>1, Undisturbed
<1>2. CASE mem_stall' \/ ~ Active("MEM")
  BY <1>2, RegistersAfter, CycleFacts
<1> QED
  BY <1>1, <1>2

LEMMA ResultsCycle ==
    ASSUME ProgramsKeepRegisterZero, OperationsAgree, NEW served \in BOOLEAN, Cycle(served)
    PROVE  Results'
<1> USE CycleFacts
<1>1. /\ execute.instruction = Stage["EXECUTE"].instruction
      /\ decode.instruction = Stage["DECODE"].instruction
      /\ mem(served).instruction = Stage["MEM"].instruction
      /\ \A s \in Stages : Stage[s].instruction \in Instruction
  BY StagesKeep DEF Typed, Slot, Stage
<1>2. CASE mem_stall'
  <2>1. AbstractRegisters' = AbstractRegisters
    BY <1>2, RegistersAfter
  <2>2. ~ Active("WRITE_BACK")'
    BY <1>2, InstructionsMove DEF Active, Stage
  <2>3. /\ TargetRead(stages_in_pipe'["MEM"], AbstractRegisters')
        /\ Computed(stages_in_pipe'["MEM"], AbstractRegisters')
    <3>1. IsOpcodeMemory(stages_in_pipe'["MEM"].instruction.opcode)
      BY <1>2, StallIsRefusal, InstructionsMove DEF OpcodeIn
    <3> QED
      BY <3>1, OpcodeNumbers DEF TargetRead, Computed, IsOpcodeMemory, IsOpcodeBranch
  <2>4. stages_in_pipe'["EXECUTE"].pc # UINT16_MAX =>
           /\ TargetRead(stages_in_pipe'["EXECUTE"], AbstractRegisters')
           /\ Computed(stages_in_pipe'["EXECUTE"], AbstractRegisters')
    BY <1>2, <2>1, InstructionsMove, ExecutedRight DEF Active
  <2>5. stages_in_pipe'["DECODE"].pc # UINT16_MAX /\ ~ data_stall' =>
           TargetRead(stages_in_pipe'["DECODE"], AbstractRegisters')
    <3> SUFFICES ASSUME stages_in_pipe'["DECODE"].pc # UINT16_MAX, ~ data_stall'
                 PROVE  TargetRead(stages_in_pipe'["DECODE"], AbstractRegisters')
      OBVIOUS
    <3>1. /\ Active("DECODE")
          /\ stages_in_pipe'["DECODE"].instruction = decode.instruction
          /\ stages_in_pipe'["DECODE"].result_of_execution = decode.result_of_execution
      BY <1>1, <1>2, InstructionsMove DEF Active
    <3>2. TargetRead(decode, AbstractRegisters)
      BY <3>1, DecodedRight
    <3> QED
      BY <2>1, <3>1, <3>2 DEF TargetRead
  <2> QED
    BY <2>2, <2>3, <2>4, <2>5 DEF Results, Kept, Active, Stage
<1>3. CASE ~ mem_stall'
  <2>1. Kept'
    <3> SUFFICES ASSUME stages_in_pipe'["WRITE_BACK"].pc # UINT16_MAX,
                        WrittenBy(stages_in_pipe'["WRITE_BACK"].instruction) \in
                            MutableRegisters
                            \ Changes(stages_in_pipe'["WRITE_BACK"].instruction)
                 PROVE  stages_in_pipe'["WRITE_BACK"].result_of_execution =
                            registers'[WrittenBy(stages_in_pipe'["WRITE_BACK"].instruction)]
      BY DEF Kept, Active, Stage, WrittenRegister, OpcodeIn, WrittenBy
    <3>1. /\ Active("MEM")
          /\ stages_in_pipe'["WRITE_BACK"].instruction = Stage["MEM"].instruction
          /\ stages_in_pipe'["WRITE_BACK"] = mem(served)
      BY <1>3, InstructionsMove DEF Active
    <3> QED
      BY <1>3, <3>1, MemRight, RegistersAfter
  <2>2. stages_in_pipe'["MEM"].pc # UINT16_MAX =>
           /\ TargetRead(stages_in_pipe'["MEM"], AbstractRegisters')
           /\ Computed(stages_in_pipe'["MEM"], AbstractRegisters')
    <3> SUFFICES ASSUME stages_in_pipe'["MEM"].pc # UINT16_MAX
                 PROVE  /\ TargetRead(stages_in_pipe'["MEM"], AbstractRegisters')
                        /\ Computed(stages_in_pipe'["MEM"], AbstractRegisters')
      OBVIOUS
    <3>1. Active("EXECUTE") /\ stages_in_pipe'["MEM"] = execute
      BY <1>3, InstructionsMove DEF Active
    <3>2. Active("MEM") => Independent(execute.instruction, Stage["MEM"].instruction)
      BY <1>1, <3>1 DEF Interlocked
    <3>3. execute.instruction \in Instruction
      BY <1>1 DEF Stages
    <3>4. TargetRead(execute, AbstractRegisters) /\ Computed(execute, AbstractRegisters)
      BY <3>1, ExecutedRight
    <3> QED
      BY <3>1, <3>2, <3>3, <3>4, StaysRight
  <2>3. stages_in_pipe'["EXECUTE"].pc # UINT16_MAX =>
           TargetRead(stages_in_pipe'["EXECUTE"], AbstractRegisters')
    <3> SUFFICES ASSUME stages_in_pipe'["EXECUTE"].pc # UINT16_MAX
                 PROVE  TargetRead(stages_in_pipe'["EXECUTE"], AbstractRegisters')
      OBVIOUS
    <3>1. Active("DECODE") /\ ~ data_stall' /\ stages_in_pipe'["EXECUTE"] = decode
      BY <1>3, InstructionsMove DEF Active
    <3>2. TargetRead(decode, AbstractRegisters)
      BY <3>1, DecodedRight
    <3>3. CASE IsOpcodeBranch(decode.instruction.opcode)
      <4>1. ~ IsOpcodeMemory(OpcodeIn("DECODE"))
        BY <1>1, <3>3, OpcodeNumbers DEF IsOpcodeMemory, IsOpcodeBranch, OpcodeIn
      <4>2. Active("MEM") => Independent(decode.instruction, Stage["MEM"].instruction)
        BY <1>1, <3>1, <4>1, DecodedIsIndependent
      <4>3. decode.instruction \in Instruction
        BY <1>1 DEF Stages
      <4> QED
        BY <3>1, <3>2, <4>2, <4>3, StaysRight
    <3>4. CASE ~ IsOpcodeBranch(decode.instruction.opcode)
      BY <3>1, <3>4 DEF TargetRead
    <3> QED
      BY <3>3, <3>4
  <2> QED
    BY <1>3, <2>1, <2>2, <2>3 DEF Results, Active, Stage
<1> QED
  BY <1>2, <1>3

-----------------------------------------------------------------------------
(* The order of the instructions.                                          *)

LEMMA ChainAfter ==
    ASSUME imem' = imem
    PROVE  /\ AtFetch' =
                 IF is_halted' THEN Halted
                 ELSE PlaceIn(imem, IF mem_stall' /\ ~ data_stall'
                                      THEN stages_in_pipe'["FETCH"].pc ELSE pc')
           /\ InDecode' = IF stages_in_pipe'["DECODE"].pc # UINT16_MAX
                            THEN PlaceIn(imem, stages_in_pipe'["DECODE"].pc) ELSE AtFetch'
           /\ InExecute' = IF stages_in_pipe'["EXECUTE"].pc # UINT16_MAX
                             THEN PlaceIn(imem, stages_in_pipe'["EXECUTE"].pc) ELSE InDecode'
           /\ AbstractPc' = IF stages_in_pipe'["MEM"].pc # UINT16_MAX
                              THEN PlaceIn(imem, stages_in_pipe'["MEM"].pc) ELSE InExecute'
BY DEF AtFetch, InDecode, InExecute, AbstractPc, Place, PlaceIn, Active, Stage, Halted

(* The chain of places moves on with the stages; it ends where HALT is     *)
(* decoded.                                                                *)
LEMMA ChainMoves ==
    ASSUME NEW served \in BOOLEAN, Cycle(served)
    PROVE  /\ DecodesHalt => InDecode = Halted
           /\ is_halted => InDecode = Halted /\ AtFetch = Halted
           /\ mem_stall' =>
                 /\ AtFetch' = IF is_halted' THEN Halted ELSE AtFetch
                 /\ InDecode' = InDecode /\ InExecute' = InExecute
                 /\ AbstractPc' = AbstractPc
           /\ ~ mem_stall' =>
                 /\ AtFetch' = IF is_halted' THEN Halted ELSE PlaceIn(imem, pc')
                 /\ data_stall' => AtFetch' = AtFetch /\ InDecode' = InDecode
                 /\ ~ data_stall' => InDecode' = IF is_halted' THEN Halted ELSE AtFetch
                 /\ InExecute' = InDecode
                 /\ AbstractPc' = InExecute
<1> USE CycleFacts
<1>1. DecodesHalt => InDecode = Halted
  BY Chain DEF DecodesHalt, Runs, Placed, PlaceIn, OpcodeIn, Stages
<1>2. is_halted => ~ Active("DECODE") /\ InDecode = Halted /\ AtFetch = Halted
  BY Chain DEF NothingFollowsHalt
<1>3. /\ is_halted' <=> is_halted \/ DecodesHalt
      /\ mem_stall \/ data_stall' => pc' = pc /\ is_halted' = is_halted
      /\ mem_stall => (data_stall' <=> data_stall)
      /\ DecodesHalt => Active("DECODE")
  BY DecodeMoves DEF DecodesHalt
<1>4. ~ is_halted => /\ fetch.pc = IF mem_stall THEN Stage["FETCH"].pc ELSE pc
                     /\ fetch.pc # UINT16_MAX
  BY Fetched
<1>5. CASE mem_stall'
  <2>1. AtFetch' = IF is_halted' THEN Halted ELSE AtFetch
    BY <1>3, <1>4, <1>5, Chain, ChainAfter, InstructionsMove
  <2>2. InDecode' = InDecode
    <3>1. CASE is_halted'
      BY <1>1, <1>2, <1>3, <1>5, <2>1, <3>1, ChainAfter, InstructionsMove
    <3>2. CASE ~ is_halted'
      BY <1>5, <2>1, <3>2, Chain, ChainAfter, InstructionsMove DEF Active
    <3> QED
      BY <3>1, <3>2
  <2>3. InExecute' = InExecute /\ AbstractPc' = AbstractPc
    BY <1>5, <2>2, Chain, ChainAfter, InstructionsMove DEF Active
  <2> QED
    BY <1>1, <1>2, <1>5, <2>1, <2>2, <2>3
<1>6. CASE ~ mem_stall'
  <2>1. AtFetch' = IF is_halted' THEN Halted ELSE PlaceIn(imem, pc')
    BY <1>6, ChainAfter
  <2>2. data_stall' => AtFetch' = AtFetch
    BY <1>3, <2>1, Chain
  <2>3. data_stall' => InDecode' = InDecode
    BY <1>2, <1>3, <1>6, <2>2, Chain, ChainAfter, InstructionsMove DEF Active
  <2>4. ~ data_stall' => InDecode' = IF is_halted' THEN Halted ELSE AtFetch
    BY <1>3, <1>4, <1>6, <2>1, Chain, ChainAfter, InstructionsMove
  <2>5. InExecute' = InDecode
    BY <1>2, <1>3, <1>6, <2>3, <2>4, Chain, ChainAfter, InstructionsMove DEF Active
  <2>6. AbstractPc' = InExecute
    BY <1>6, <2>5, Chain, ChainAfter, InstructionsMove DEF Active
  <2> QED
    BY <1>1, <1>2, <1>6, <2>1, <2>2, <2>3, <2>4, <2>5, <2>6
<1> QED
  BY <1>5, <1>6

LEMMA FollowedCycle ==
    ASSUME ProgramsKeepRegisterZero, OperationsAgree, NEW served \in BOOLEAN, Cycle(served)
    PROVE  Followed'
<1> USE CycleFacts
<1> DEFINE mem_i == Stage["MEM"].instruction
           exe_i == Stage["EXECUTE"].instruction
           dec_i == Stage["DECODE"].instruction
<1>1. is_halted' => is_halted \/ DecodesHalt
  BY DecodeMoves
<1>2. is_halted' => InDecode = Halted
  BY <1>1, ChainMoves
<1>3. mem_i \in Instruction /\ exe_i \in Instruction /\ dec_i \in Instruction
  BY ParamsTyped DEF Stages
<1>4. ASSUME NEW i \in Instruction, NEW regs, NEW z
      PROVE  Follows(imem, i, regs, Halted, z)
  BY DEF Follows
<1>5. CASE mem_stall'
  <2>1. AbstractRegisters' = AbstractRegisters
    BY <1>5, RegistersAfter
  <2>2. /\ AtFetch' = IF is_halted' THEN Halted ELSE AtFetch
        /\ InDecode' = InDecode /\ InExecute' = InExecute
    BY <1>5, ChainMoves
  <2>3. stages_in_pipe'["MEM"].pc # UINT16_MAX =>
           Follows(imem, stages_in_pipe'["MEM"].instruction, AbstractRegisters', InExecute',
                   IF stages_in_pipe'["EXECUTE"].pc # UINT16_MAX THEN InDecode' ELSE AtFetch')
    <3> SUFFICES ASSUME stages_in_pipe'["MEM"].pc # UINT16_MAX
                 PROVE  Follows(imem, mem_i, AbstractRegisters, InExecute,
                                IF Active("EXECUTE") THEN InDecode ELSE AtFetch')
      BY <1>5, <2>1, <2>2, InstructionsMove DEF Active
    <3>1. Follows(imem, mem_i, AbstractRegisters, InExecute,
                  IF Active("EXECUTE") THEN InDecode ELSE AtFetch)
      BY <1>5, InstructionsMove DEF Followed, Active
    <3>2. CASE is_halted' /\ ~ Active("EXECUTE")
      BY <1>2, <1>3, <1>4, <3>2, Chain
    <3>3. CASE ~ is_halted' \/ Active("EXECUTE")
      BY <2>2, <3>1, <3>3
    <3> QED
      BY <3>2, <3>3
  <2>4. stages_in_pipe'["EXECUTE"].pc # UINT16_MAX =>
           Follows(imem, stages_in_pipe'["EXECUTE"].instruction, AbstractRegisters', InDecode',
                   AtFetch')
    <3> SUFFICES ASSUME stages_in_pipe'["EXECUTE"].pc # UINT16_MAX
                 PROVE  Follows(imem, exe_i, AbstractRegisters, InDecode, AtFetch')
      BY <1>5, <2>1, <2>2, InstructionsMove
    <3>1. Follows(imem, exe_i, AbstractRegisters, InDecode, AtFetch)
      BY <1>5, InstructionsMove DEF Followed, Active
    <3>2. CASE is_halted'
      BY <1>2, <1>3, <1>4, <3>2
    <3>3. CASE ~ is_halted'
      BY <2>2, <3>1, <3>3
    <3> QED
      BY <3>2, <3>3
  <2>5. stages_in_pipe'["DECODE"].pc # UINT16_MAX /\ ~ data_stall' =>
           Follows(imem, stages_in_pipe'["DECODE"].instruction, AbstractRegisters', AtFetch',
                   PlaceIn(imem, pc'))
    BY <1>5, <2>1, <2>2, InstructionsMove, DecodedRight DEF Active
  <2> QED
    BY <2>3, <2>4, <2>5 DEF Followed, Active, Stage
<1>6. CASE ~ mem_stall'
  <2>1. /\ AtFetch' = IF is_halted' THEN Halted ELSE PlaceIn(imem, pc')
        /\ data_stall' => AtFetch' = AtFetch /\ InDecode' = InDecode
        /\ ~ data_stall' => InDecode' = IF is_halted' THEN Halted ELSE AtFetch
        /\ InExecute' = InDecode
    BY <1>6, ChainMoves
  <2>2. stages_in_pipe'["MEM"].pc # UINT16_MAX =>
           Follows(imem, stages_in_pipe'["MEM"].instruction, AbstractRegisters', InExecute',
                   IF stages_in_pipe'["EXECUTE"].pc # UINT16_MAX THEN InDecode' ELSE AtFetch')
    <3> SUFFICES ASSUME stages_in_pipe'["MEM"].pc # UINT16_MAX
                 PROVE  Follows(imem, exe_i, AbstractRegisters', InDecode,
                                IF stages_in_pipe'["EXECUTE"].pc # UINT16_MAX
                                  THEN InDecode' ELSE AtFetch')
      BY <1>6, <2>1, InstructionsMove
    <3>1. Active("EXECUTE")
      BY <1>6, InstructionsMove DEF Active
    <3>2. Follows(imem, exe_i, AbstractRegisters, InDecode, AtFetch)
      BY <3>1 DEF Followed
    <3>3. Active("MEM") => Independent(exe_i, mem_i)
      BY <3>1 DEF Interlocked
    <3>4. Follows(imem, exe_i, AbstractRegisters', InDecode, AtFetch)
      BY <1>3, <3>2, <3>3, StaysRight
    <3>5. CASE InDecode = Halted
      BY <1>3, <1>4, <3>5
    <3>6. CASE InDecode # Halted
      <4>1. Active("DECODE") /\ ~ is_halted'
        BY <1>2, <3>1, <3>6, Chain DEF Flow
      <4>2. stages_in_pipe'["EXECUTE"].pc = IF data_stall' THEN UINT16_MAX
                                            ELSE Stage["DECODE"].pc
        BY <1>6, InstructionsMove
      <4> QED
        BY <2>1, <3>4, <4>1, <4>2 DEF Active
    <3> QED
      BY <3>5, <3>6
  <2>3. stages_in_pipe'["EXECUTE"].pc # UINT16_MAX =>
           Follows(imem, stages_in_pipe'["EXECUTE"].instruction, AbstractRegisters', InDecode',
                   AtFetch')
    <3> SUFFICES ASSUME stages_in_pipe'["EXECUTE"].pc # UINT16_MAX
                 PROVE  Follows(imem, dec_i, AbstractRegisters', InDecode', AtFetch')
      BY <1>6, InstructionsMove
    <3>1. Active("DECODE") /\ ~ data_stall'
      BY <1>6, InstructionsMove DEF Active
    <3>2. Follows(imem, dec_i, AbstractRegisters, AtFetch, PlaceIn(imem, pc'))
      BY <3>1, DecodedRight
    <3>3. Follows(imem, dec_i, AbstractRegisters', AtFetch, PlaceIn(imem, pc'))
      <4>1. CASE IsOpcodeBranch(OpcodeIn("DECODE"))
        <5>1. ~ IsOpcodeMemory(OpcodeIn("DECODE"))
          BY <4>1, OpcodeNumbers DEF IsOpcodeMemory, IsOpcodeBranch
        <5>2. Active("MEM") => Independent(dec_i, mem_i)
          BY <3>1, <5>1, DecodedIsIndependent
        <5> QED
          BY <1>3, <3>2, <5>2, StaysRight
      <4>2. CASE ~ IsOpcodeBranch(OpcodeIn("DECODE"))
        BY <3>2, <4>2 DEF Follows, OpcodeIn
      <4> QED
        BY <4>1, <4>2
    <3>4. CASE is_halted'
      BY <1>3, <1>4, <2>1, <3>1, <3>4
    <3>5. CASE ~ is_halted'
      BY <2>1, <3>1, <3>3, <3>5
    <3> QED
      BY <3>4, <3>5
  <2> QED
    BY <1>6, <2>2, <2>3 DEF Followed, Active, Stage
<1> QED
  BY <1>5, <1>6

-----------------------------------------------------------------------------
(* Everything together.                                                    *)

(* What OrderInv speaks of.                                                *)
orderVars == <<imem, pc, registers, stages_in_pipe, is_halted, data_stall, mem_stall,
               stats, memory, refusals>>

LEMMA InOrderStays == OrderInv /\ UNCHANGED orderVars => OrderInv'
<1> SUFFICES ASSUME OrderInv, UNCHANGED orderVars PROVE OrderInv'
  OBVIOUS
<1> USE DEF orderVars
<1>1. Typed' /\ Zeroed' /\ Placed'
  BY DEF OrderInv, InOrder, Typed, Zeroed, Placed, Active, Stage
<1>2. Flow' /\ Interlocked'
  BY DEF OrderInv, InOrder, Flow, Interlocked, Active, OpcodeIn, Stage, DataHazard, HazardWith, ChecksRd
<1>3. /\ AbstractRegisters' = AbstractRegisters
      /\ AtFetch' = AtFetch /\ InDecode' = InDecode /\ InExecute' = InExecute
  BY DEF AbstractRegisters, WrittenRegister, AtFetch, InDecode, InExecute, Place, Active,
         OpcodeIn, Stage
<1>4. Results' /\ Followed'
  BY <1>3 DEF OrderInv, InOrder, Results, Kept, WrittenRegister, Followed, Active, OpcodeIn, Stage
<1> QED
  BY <1>1, <1>2, <1>4 DEF OrderInv, InOrder

LEMMA InOrderCycle ==
    ASSUME ProgramsKeepRegisterZero, OperationsAgree, NEW served \in BOOLEAN, Cycle(served),
           refusals' \in 0 .. MaxRefusals
    PROVE  OrderInv'
<1>1. Typed'
  BY CycleFacts, TypedCycle DEF Cycle
<1> QED
  BY <1>1, ZeroedCycle, PlacedCycle, FlowCycle, InterlockedCycle, ResultsCycle, FollowedCycle
     DEF OrderInv, InOrder

(* Every step but the halt of the core is a cycle.                         *)
LEMMA Cycles ==
    ASSUME PipelineInv, DecodeInv, OrderInv, ProgramFits, [Next]_vars,
           [data_stall /\ mem_stall => data_stall']_vars
    PROVE  \/ UNCHANGED orderVars
           \/ \E served \in BOOLEAN : Cycle(served) /\ refusals' \in 0 .. MaxRefusals
<1>1. CASE UNCHANGED vars
  BY <1>1 DEF vars, pipeVars, orderVars
<1>2. CASE CoreHalts
  BY <1>2 DEF CoreHalts, pipeVars, orderVars
<1>3. refusals \in 0 .. MaxRefusals /\ MaxRefusals \in Nat
  BY MaxRefusalsAssumption DEF OrderInv, InOrder, Typed
<1>4. CASE CycleServed /\ vars' # vars
  <2>1. Cycle(TRUE)
    BY <1>4 DEF CycleServed, Cycle
  <2> QED
    BY <1>3, <1>4, <2>1 DEF CycleServed
<1>5. CASE CycleRefused /\ vars' # vars
  <2>1. Cycle(FALSE)
    BY <1>5 DEF CycleRefused, Cycle
  <2>2. refusals' \in 0 .. MaxRefusals
    BY <1>3, <1>5 DEF CycleRefused
  <2> QED
    BY <2>1, <2>2
<1> QED
  BY <1>1, <1>2, <1>4, <1>5 DEF Next, core_run_single_cycle, CoreIsHalted

LEMMA InOrderNext ==
    ASSUME ProgramsKeepRegisterZero, OperationsAgree, PipelineInv, DecodeInv, OrderInv,
           ProgramFits, [Next]_vars, [data_stall /\ mem_stall => data_stall']_vars
    PROVE  OrderInv'
BY Cycles, InOrderCycle, InOrderStays

LEMMA InOrderInit == Init => OrderInv
<1> SUFFICES ASSUME Init PROVE OrderInv
  OBVIOUS
<1>1. /\ \A s \in Stages \ {"FETCH"} : ~ Active(s)
      /\ Stage["FETCH"] = [pc |-> 0, instruction |-> ZeroInstruction,
                           result_of_execution |-> 0, operation |-> NULL]
      /\ ~ is_halted /\ ~ mem_stall
  BY DEF Init, Pipe_Init, Active, Stage, Stages
<1>2. imem \in Programs /\ ZeroInstruction \in Instruction
  BY InstructionRead DEF Init
<1>3. 0 \in Word
  BY <1>2, ImmediateIsWord DEF Instruction, ZeroInstruction
<1>4. Typed
  <2>1. stages_in_pipe \in [Stages -> Slot]
    BY <1>2, <1>3 DEF Init, Pipe_Init, Slot, UINT16_MAX
  <2>2. registers \in [Registers \ {IMM_REG} -> Word]
    BY <1>3 DEF Init
  <2>3. stats \in CounterType
    BY DEF Init, CounterType
  <2>4. memory \in [Word -> Word] /\ refusals \in 0 .. MaxRefusals
    BY MemoryAssumption, MaxRefusalsAssumption DEF Init
  <2> QED
    BY <1>2, <2>1, <2>2, <2>3, <2>4 DEF Typed
<1>5. Zeroed
  <2>1. ZERO_REG \in Registers \ {IMM_REG}
    BY RegisterNumbers, NumRegsAssumption DEF Registers, ZERO_REG, IMM_REG
  <2>2. registers[ZERO_REG] = 0
    BY <2>1 DEF Init
  <2> QED
    BY <1>1, <2>2 DEF Zeroed
<1>6. Placed /\ Flow /\ Interlocked /\ Results /\ Followed
  <2>1. Active("FETCH")
    BY <1>1 DEF Active, UINT16_MAX
  <2>2. ~ Active("DECODE") /\ ~ Active("EXECUTE") /\ ~ Active("MEM") /\ ~ Active("WRITE_BACK")
    BY <1>1 DEF Stages
  <2> QED
    BY <1>1, <2>1, <2>2 DEF Placed, Flow, Interlocked, Results, Kept, Followed
<1> QED
  BY <1>4, <1>5, <1>6 DEF OrderInv, InOrder

-----------------------------------------------------------------------------
(* The number of instructions.                                             *)

Leaves == Active("MEM") /\ ~ mem_stall' /\ OpcodeIn("MEM") # Op.HALT

LEMMA ExecutedMoves ==
    ASSUME NEW served \in BOOLEAN, Cycle(served)
    PROVE  AbstractExecuted' = IF Leaves THEN AbstractExecuted + 1 ELSE AbstractExecuted
<1> USE CycleFacts
<1> DEFINE n       == stats.instructions
           stalled == IF mem_stall \/ data_stall THEN 1 ELSE 0
           hM      == Holds("MEM")
           hE      == Holds("EXECUTE")
           hD      == Holds("DECODE")
           rM      == HoldsToRun("MEM")
           rE      == HoldsToRun("EXECUTE")
           leaves  == IF Leaves THEN 1 ELSE 0
           after(s) == IF stages_in_pipe'[s].pc # UINT16_MAX THEN 1 ELSE 0
           runs(s)  == IF /\ stages_in_pipe'[s].pc # UINT16_MAX
                          /\ stages_in_pipe'[s].instruction.opcode # Op.HALT THEN 1 ELSE 0
<1>1. /\ n \in Nat /\ n' \in Int
      /\ n' = IF ~ is_halted /\ ~ mem_stall /\ ~ data_stall THEN n + 1 ELSE n
  <2>1. stats' \in Counters /\ RunsCycle(served)
    BY StatsAfter DEF Cycle
  <2> QED
    BY <2>1, StatsAfter DEF Counters, Typed, CounterType
<1>2. /\ hM \in {0, 1} /\ hE \in {0, 1} /\ hD \in {0, 1} /\ rM \in {0, 1} /\ rE \in {0, 1}
      /\ stalled \in {0, 1}
  BY DEF Holds, HoldsToRun
<1>3. AbstractExecuted = IF is_halted THEN n - 2 - rM - rE ELSE n - hM - hE - hD - stalled
  BY DEF AbstractExecuted
<1>4. AbstractExecuted' =
         IF is_halted' THEN n' - 2 - runs("MEM") - runs("EXECUTE")
         ELSE n' - after("MEM") - after("EXECUTE") - after("DECODE")
              - (IF mem_stall' \/ data_stall' THEN 1 ELSE 0)
  BY DEF AbstractExecuted, Holds, HoldsToRun, Active, OpcodeIn, Stage
<1>5. /\ is_halted' <=> is_halted \/ DecodesHalt
      /\ is_halted => ~ Active("DECODE")
      /\ DecodesHalt => /\ Active("DECODE") /\ OpcodeIn("DECODE") = Op.HALT
                        /\ ~ mem_stall /\ ~ data_stall' /\ ~ is_halted
  BY DecodeMoves DEF DecodesHalt, NothingFollowsHalt
<1>6. ~ is_halted => rM = hM /\ rE = hE
  BY DEF Flow, DecodedBeforeExecuted, Holds, HoldsToRun
<1>7. leaves = IF mem_stall' THEN 0 ELSE rM
  BY DEF Leaves, HoldsToRun
<1>8. mem_stall' => /\ after("MEM") = hM /\ after("EXECUTE") = hE
                    /\ runs("MEM") = rM /\ runs("EXECUTE") = rE
                    /\ ~ is_halted' => after("DECODE") = hD
  BY InstructionsMove DEF Holds, HoldsToRun, Active, OpcodeIn
<1>9. ~ mem_stall' =>
         /\ after("MEM") = hE /\ runs("MEM") = rE
         /\ after("EXECUTE") = IF data_stall' THEN 0 ELSE hD
         /\ is_halted' => runs("EXECUTE") = 0
         /\ ~ is_halted' => after("DECODE") = IF data_stall' THEN hD ELSE 1
  <2> SUFFICES ASSUME ~ mem_stall'
               PROVE  /\ after("MEM") = hE /\ runs("MEM") = rE
                      /\ after("EXECUTE") = IF data_stall' THEN 0 ELSE hD
                      /\ is_halted' => runs("EXECUTE") = 0
                      /\ ~ is_halted' => after("DECODE") = IF data_stall' THEN hD ELSE 1
    OBVIOUS
  <2>1. after("MEM") = hE /\ runs("MEM") = rE
    BY InstructionsMove DEF Holds, HoldsToRun, Active, OpcodeIn
  <2>2. after("EXECUTE") = IF data_stall' THEN 0 ELSE hD
    BY InstructionsMove DEF Holds, Active
  <2>3. is_halted' => runs("EXECUTE") = 0
    BY <1>5, InstructionsMove DEF Active, OpcodeIn
  <2>4. ~ is_halted' => after("DECODE") = IF data_stall' THEN hD ELSE 1
    BY <1>5, InstructionsMove, Fetched DEF Holds, Active
  <2> QED
    BY <2>1, <2>2, <2>3, <2>4
<1>10. DecodesHalt => hD = 1
  BY <1>5 DEF Holds
<1>11. is_halted => hD = 0
  BY <1>5 DEF Holds
<1>12. AbstractExecuted' = AbstractExecuted + leaves
  <2> HIDE DEF n, stalled, hM, hE, hD, rM, rE, leaves, after, runs
  <2>1. CASE is_halted
    BY <1>1, <1>2, <1>3, <1>4, <1>5, <1>7, <1>8, <1>9, <2>1
  <2>2. CASE DecodesHalt
    BY <1>1, <1>2, <1>3, <1>4, <1>5, <1>6, <1>7, <1>8, <1>9, <1>10, <2>2 DEF stalled
  <2>3. CASE ~ is_halted /\ ~ DecodesHalt
    BY <1>1, <1>2, <1>3, <1>4, <1>5, <1>6, <1>7, <1>8, <1>9, <2>3 DEF stalled
  <2> QED
    BY <2>1, <2>2, <2>3
<1> QED
  <2>1. AbstractExecuted \in Int
    BY <1>1, <1>2, <1>3
  <2> QED
    BY <1>12, <2>1

-----------------------------------------------------------------------------
(* The step of the instruction set.                                        *)

(* The instruction set's own words for what both have.                     *)
LEMMA SameNames ==
    /\ ISA!Op = Op /\ ISA!Halted = Halted
    /\ ISA!Word = Word /\ ISA!Instruction = Instruction
    /\ ISA!MutableRegisters = MutableRegisters
    /\ ISA!ZERO_REG = ZERO_REG /\ ISA!IMM_REG = IMM_REG /\ ISA!PC_REG = PC_REG
    /\ \A p, a : ISA!InstructionAt(p, a) = InstructionAt(p, a)
    /\ \A a : ISA!Place(a) = PlaceIn(imem, a)
    /\ \A a : ISA!After(a) = IF a = Halted THEN Halted ELSE PlaceIn(imem, a + 1)
<1>1. ISA!Op = Op
  BY DEF ISA!Op, Op
<1>2. /\ ISA!Halted = Halted /\ ISA!Word = Word /\ ISA!Immediate = Immediate
      /\ ISA!Registers = Registers /\ ISA!ZERO_REG = ZERO_REG /\ ISA!IMM_REG = IMM_REG
      /\ ISA!PC_REG = PC_REG
      /\ ISA!MutableRegisters = MutableRegisters
  BY DEF ISA!Halted, Halted, ISA!Word, Word, ISA!Immediate, Immediate, ISA!Registers, Registers,
         ISA!ZERO_REG, ZERO_REG, ISA!IMM_REG, IMM_REG, ISA!PC_REG, PC_REG,
         ISA!MutableRegisters, MutableRegisters, ISA!START_MUTABLE_REG, START_MUTABLE_REG
<1>3. ISA!Opcodes = Opcodes
  BY <1>1 DEF ISA!Opcodes, Opcodes
<1>4. ISA!Instruction = Instruction
  BY <1>2, <1>3 DEF ISA!Instruction, Instruction
<1>5. \A p, a : ISA!InstructionAt(p, a) = InstructionAt(p, a)
  BY <1>1 DEF ISA!InstructionAt, InstructionAt, ISA!ZeroInstruction, ZeroInstruction
<1>6. \A a : ISA!Place(a) = PlaceIn(imem, a)
  BY <1>1, <1>2, <1>5 DEF ISA!Place, PlaceIn
<1>7. \A a : ISA!After(a) = IF a = Halted THEN Halted ELSE PlaceIn(imem, a + 1)
  BY <1>2, <1>6 DEF ISA!After
<1> QED
  BY <1>1, <1>2, <1>4, <1>5, <1>6, <1>7

(* The instruction in MEM is the one that the instruction set runs next.   *)
LEMMA MemIsCurrent ==
    ASSUME Typed, Placed, Active("MEM"), OpcodeIn("MEM") # Op.HALT
    PROVE  /\ AbstractPc # Halted
           /\ AbstractNpc = InExecute
           /\ ISA!Current = Stage["MEM"].instruction
           /\ \A r : ISA!Read(r) = Operand(AbstractRegisters, Stage["MEM"].instruction, r)
<1>1. /\ Stage["MEM"].instruction = InstructionAt(imem, Stage["MEM"].pc)
      /\ Stage["MEM"].pc \in Nat
  BY DEF Placed, Typed, Slot, Stages, Stage
<1>2. AbstractPc = Stage["MEM"].pc /\ AbstractPc # Halted
  BY <1>1, Chain DEF PlaceIn, OpcodeIn, Halted
<1>3. AbstractNpc = InExecute
  BY <1>2 DEF AbstractNpc
<1>4. ISA!Current = Stage["MEM"].instruction
  BY <1>1, <1>2, SameNames DEF ISA!Current
<1>5. \A r : ISA!Read(r) = Operand(AbstractRegisters, Stage["MEM"].instruction, r)
  BY <1>4, SameNames DEF ISA!Read, Operand
<1> QED
  BY <1>2, <1>3, <1>4, <1>5

LEMMA NextPlaces ==
    /\ AbstractNpc = IF AbstractPc = Halted THEN Halted
                     ELSE IF Active("MEM") THEN InExecute
                     ELSE IF Active("EXECUTE") THEN InDecode
                     ELSE IF Active("DECODE") THEN AtFetch
                     ELSE PlaceIn(imem, pc + 1)
    /\ imem' = imem =>
          AbstractNpc' = IF AbstractPc' = Halted THEN Halted
                         ELSE IF stages_in_pipe'["MEM"].pc # UINT16_MAX THEN InExecute'
                         ELSE IF stages_in_pipe'["EXECUTE"].pc # UINT16_MAX THEN InDecode'
                         ELSE IF stages_in_pipe'["DECODE"].pc # UINT16_MAX THEN AtFetch'
                         ELSE PlaceIn(imem, pc' + 1)
BY DEF AbstractNpc, Place, PlaceIn, Halted, Active, Stage

(* When an instruction leaves, the places move on to where the program     *)
(* goes on behind it; otherwise they stay.                                 *)
LEMMA PlacesMove ==
    ASSUME NEW served \in BOOLEAN, Cycle(served)
    PROVE  /\ Leaves =>
                 /\ AbstractPc' = AbstractNpc
                 /\ AbstractNpc = Halted => AbstractNpc' = Halted
                 /\ Follows(imem, Stage["MEM"].instruction, AbstractRegisters,
                            AbstractNpc, AbstractNpc')
           /\ ~ Leaves => AbstractPc' = AbstractPc /\ AbstractNpc' = AbstractNpc
<1> USE CycleFacts
<1>1. /\ is_halted' <=> is_halted \/ DecodesHalt
      /\ data_stall' => pc' = pc /\ is_halted' = is_halted
      /\ DecodesHalt => Active("DECODE") /\ InDecode = Halted
      /\ is_halted => ~ Active("DECODE") /\ InDecode = Halted /\ AtFetch = Halted
  BY DecodeMoves, ChainMoves DEF DecodesHalt, NothingFollowsHalt
<1>2. ASSUME ~ mem_stall'
      PROVE  /\ AtFetch' = IF is_halted' THEN Halted ELSE PlaceIn(imem, pc')
             /\ data_stall' => AtFetch' = AtFetch /\ InDecode' = InDecode
             /\ ~ data_stall' => InDecode' = IF is_halted' THEN Halted ELSE AtFetch
             /\ InExecute' = InDecode
             /\ AbstractPc' = InExecute
             /\ stages_in_pipe'["MEM"].pc = Stage["EXECUTE"].pc
             /\ stages_in_pipe'["EXECUTE"].pc = IF data_stall' THEN UINT16_MAX
                                                ELSE Stage["DECODE"].pc
             /\ ~ is_halted' =>
                   stages_in_pipe'["DECODE"].pc = IF data_stall' THEN Stage["DECODE"].pc
                                                  ELSE fetch.pc
  BY <1>2, ChainMoves, InstructionsMove
<1>3. ASSUME Leaves
      PROVE  /\ AbstractPc' = AbstractNpc
             /\ AbstractNpc = Halted => AbstractNpc' = Halted
             /\ Follows(imem, Stage["MEM"].instruction, AbstractRegisters,
                        AbstractNpc, AbstractNpc')
  <2>1. AbstractNpc = InExecute /\ AbstractPc' = InExecute /\ ~ mem_stall' /\ Active("MEM")
    BY <1>2, <1>3, MemIsCurrent DEF Leaves
  <2>2. AbstractNpc = Halted => AbstractNpc' = Halted
    BY <2>1, NextPlaces
  <2>3. CASE InExecute = Halted
    BY <2>1, <2>2, <2>3 DEF Follows
  <2>4. CASE InExecute # Halted
    <3>1. AbstractNpc' = IF Active("EXECUTE") THEN InDecode ELSE AtFetch
      <4>1. CASE Active("EXECUTE")
        BY <1>2, <2>1, <2>4, <4>1, NextPlaces DEF Active
      <4>2. CASE ~ Active("EXECUTE")
        <5>1. InDecode # Halted
          BY <2>4, <4>2, Chain
        <5>2. ~ is_halted' /\ Active("DECODE")
          BY <1>1, <2>1, <5>1 DEF Flow
        <5> QED
          BY <1>2, <2>1, <2>4, <4>2, <5>2, NextPlaces DEF Active
      <4> QED
        BY <4>1, <4>2
    <3> QED
      BY <2>1, <2>2, <3>1 DEF Followed
  <2> QED
    BY <2>3, <2>4
<1>4. ASSUME ~ Leaves
      PROVE  AbstractPc' = AbstractPc /\ AbstractNpc' = AbstractNpc
  <2>1. CASE mem_stall'
    <3>1. Active("MEM") /\ AbstractPc' = AbstractPc /\ InExecute' = InExecute
      BY <2>1, StallIsRefusal, ChainMoves
    <3> QED
      BY <2>1, <3>1, InstructionsMove, NextPlaces DEF Active
  <2>2. CASE ~ mem_stall' /\ Active("MEM")
    <3>1. OpcodeIn("MEM") = Op.HALT
      BY <1>4, <2>2 DEF Leaves
    <3>2. AbstractPc = Halted
      BY <2>2, <3>1, Chain DEF Placed, PlaceIn, OpcodeIn, Stages
    <3>3. is_halted /\ ~ Active("EXECUTE")
      BY <2>2, <3>1 DEF Flow
    <3>4. AbstractPc' = Halted
      BY <1>1, <1>2, <2>2, <3>3, Chain
    <3> QED
      BY <3>2, <3>4, NextPlaces
  <2>3. CASE ~ mem_stall' /\ ~ Active("MEM")
    <3>1. AbstractPc' = AbstractPc /\ AbstractPc = InExecute
      BY <1>2, <2>3, Chain
    <3>2. CASE AbstractPc = Halted
      BY <3>1, <3>2, NextPlaces
    <3>3. CASE AbstractPc # Halted /\ Active("EXECUTE")
      BY <1>2, <2>3, <3>1, <3>3, NextPlaces DEF Active
    <3>4. CASE AbstractPc # Halted /\ ~ Active("EXECUTE")
      <4>1. InDecode # Halted /\ ~ is_halted' /\ ~ is_halted /\ ~ DecodesHalt
        BY <1>1, <3>1, <3>4, Chain
      <4>2. CASE Active("DECODE")
        BY <1>2, <2>3, <3>1, <3>4, <4>1, <4>2, NextPlaces DEF Active
      <4>3. CASE ~ Active("DECODE")
        <5>1. ~ mem_stall /\ ~ Branches
          BY <2>3, <4>3 DEF HeldAccess, Branches, Runs
        <5>2. ~ data_stall' => pc' = pc + 1 /\ fetch.pc # UINT16_MAX
          BY <4>1, <5>1, DecodeMoves, Fetched
        <5> QED
          BY <1>1, <1>2, <2>3, <3>1, <3>4, <4>1, <4>3, <5>2, NextPlaces DEF Active
      <4> QED
        BY <4>2, <4>3
    <3> QED
      BY <3>2, <3>3, <3>4
  <2> QED
    BY <2>1, <2>2, <2>3
<1> QED
  BY <1>3, <1>4

(* An instruction that leaves MEM takes the step of the instruction set.   *)
LEMMA InstructionRuns ==
    ASSUME ProgramsKeepRegisterZero, OperationsAgree, NEW served \in BOOLEAN, Cycle(served),
           Leaves
    PROVE  ISA!Next
<1> USE CycleFacts
<1> DEFINE i == Stage["MEM"].instruction
           w == mem(served).result_of_execution
<1>1. /\ Active("MEM") /\ ~ mem_stall' /\ OpcodeIn("MEM") # Op.HALT
      /\ i \in Instruction /\ i.opcode # Op.HALT /\ mem(served).instruction = i
  BY ParamsTyped, StagesKeep DEF Leaves, OpcodeIn, Stages
<1>2. /\ AbstractPc # Halted /\ AbstractNpc = InExecute /\ ISA!Current = i
      /\ \A r : ISA!Read(r) = Operand(AbstractRegisters, i, r)
  BY <1>1, MemIsCurrent
<1>3. AbstractPc' = AbstractNpc /\ imem' = imem /\ AbstractExecuted' = AbstractExecuted + 1
  BY PlacesMove, ExecutedMoves
<1>4. /\ Computed(mem(served), AbstractRegisters)
      /\ TargetRead(mem(served), AbstractRegisters)
      /\ IsOpcodeMemory(i.opcode) =>
            /\ served
            /\ Address = ISA!Value(Op.ADD, Operand(AbstractRegisters, i, i.rs),
                                           Operand(AbstractRegisters, i, i.rt))
      /\ i.opcode = Op.LW => w = memory[Address]
      /\ i.opcode = Op.SW => /\ w = Operand(AbstractRegisters, i, i.rd)
                             /\ Param("MEM", "rd") = w
      /\ \A q \in MutableRegisters :
            q \notin Changes(i) => AbstractRegisters'[q] = AbstractRegisters[q]
  BY <1>1, MemRight
<1>5. AbstractRegisters' = [q \in MutableRegisters |->
          IF q = WrittenBy(i) THEN w ELSE AbstractRegisters[q]]
  BY <1>1, RegistersAfter
<1>6. ASSUME Changes(i) = {}
      PROVE  AbstractRegisters' = AbstractRegisters
  <2>1. AbstractRegisters = [q \in MutableRegisters |-> AbstractRegisters[q]]
    BY DEF AbstractRegisters
  <2>2. \A q \in MutableRegisters : AbstractRegisters'[q] = AbstractRegisters[q]
    BY <1>4, <1>6
  <2> QED
    BY <1>5, <2>1, <2>2
<1>7. \A r, v : AbstractRegisters' = [q \in MutableRegisters |->
                    IF q = r THEN v ELSE AbstractRegisters[q]]
                => ISA!Write(r, v)
  BY SameNames DEF ISA!Write
<1>8. ASSUME ~ IsOpcodeBranch(i.opcode)
      PROVE  AbstractNpc' = ISA!After(AbstractNpc)
  BY <1>1, <1>8, PlacesMove, SameNames DEF Follows
<1>9. memory' = IF i.opcode = Op.SW THEN [memory EXCEPT ![Address] = w] ELSE memory
  <2>1. Accesses <=> IsOpcodeMemory(i.opcode)
    BY <1>1, StallIsRefusal DEF OpcodeIn
  <2>2. memory' = Stored(served)
    BY DEF Pipe_iteration_exe
  <2> QED
    BY <1>4, <2>1, <2>2 DEF Stored, OpcodeIn, IsOpcodeMemory
<1>10. CASE i.opcode \in Op.ADD .. Op.SRL
  <2>1. /\ ~ IsOpcodeBranch(i.opcode) /\ i.opcode # Op.SW /\ WrittenBy(i) = i.rd
    BY <1>10, OpcodeNumbers DEF IsOpcodeBranch, WrittenBy
  <2>2. ISA!Write(i.rd, ISA!Value(i.opcode, ISA!Read(i.rs), ISA!Read(i.rt)))
    BY <1>1, <1>2, <1>4, <1>5, <1>7, <1>10, <2>1 DEF Computed
  <2>3. ISA!Operate
    BY <1>2, <1>8, <1>9, <1>10, <2>1, <2>2, SameNames DEF ISA!Operate
  <2> QED
    BY <1>2, <1>3, <2>3, SameNames DEF ISA!Next
<1>11. CASE IsOpcodeBranch(i.opcode)
  <2>1. i.opcode # Op.SW /\ i.opcode \in Op.BEQ .. Op.JAL
    BY <1>11, OpcodeNumbers DEF IsOpcodeBranch
  <2>2. AbstractNpc' = IF /\ ISA!Condition(i.opcode, ISA!Read(i.rs), ISA!Read(i.rt))
                          /\ AbstractNpc # Halted
                         THEN ISA!BranchTarget(ISA!Read(i.rd)) ELSE ISA!After(AbstractNpc)
    BY <1>1, <1>2, <1>11, PlacesMove, SameNames DEF Follows, ISA!BranchTarget
  <2>3. IF i.opcode = Op.JAL THEN \E link \in ISA!Word : ISA!Write(PC_REG, link)
        ELSE AbstractRegisters' = AbstractRegisters
    <3>1. CASE i.opcode = Op.JAL
      <4>1. w \in ISA!Word
        BY StagesTyped, SameNames DEF Slot
      <4>2. ISA!Write(PC_REG, w)
        BY <1>5, <1>7, <3>1 DEF WrittenBy
      <4> QED
        BY <3>1, <4>1, <4>2
    <3>2. CASE i.opcode # Op.JAL
      <4>1. Changes(i) = {}
        BY <1>11, <3>2, OpcodeNumbers DEF Changes, IsOpcodeBranch
      <4> QED
        BY <1>6, <3>2, <4>1
    <3> QED
      BY <3>1, <3>2
  <2>4. ISA!Branch
    BY <1>2, <1>9, <2>1, <2>2, <2>3, SameNames DEF ISA!Branch
  <2> QED
    BY <1>2, <1>3, <2>4, SameNames DEF ISA!Next
<1>12. CASE IsOpcodeMemory(i.opcode)
  <2>1. ~ IsOpcodeBranch(i.opcode)
    BY <1>12, OpcodeNumbers DEF IsOpcodeMemory, IsOpcodeBranch
  <2>2. Address = ISA!Address
    <3>1. ISA!Address = ISA!Congruent(Operand(AbstractRegisters, i, i.rs)
                                      + Operand(AbstractRegisters, i, i.rt))
      BY <1>2 DEF ISA!Address
    <3>2. Op.ADD = ISA!Op.ADD
      BY SameNames
    <3>3. \A a, b : ISA!Value(ISA!Op.ADD, a, b) = ISA!Congruent(a + b)
      BY DEF ISA!Value, ISA!Op
    <3> QED
      BY <1>4, <1>12, <3>1, <3>2, <3>3
  <2>3. CASE i.opcode = Op.LW
    <3>1. i.opcode # Op.SW /\ WrittenBy(i) = i.rd
      BY <2>3, OpcodeNumbers DEF WrittenBy
    <3>2. ISA!Write(i.rd, memory[ISA!Address])
      BY <1>4, <1>5, <1>7, <2>2, <2>3, <3>1
    <3>3. ISA!Load
      BY <1>2, <1>8, <1>9, <2>1, <2>3, <3>1, <3>2, SameNames DEF ISA!Load
    <3> QED
      BY <1>2, <1>3, <3>3, SameNames DEF ISA!Next
  <2>4. CASE i.opcode = Op.SW
    <3>1. Changes(i) = {}
      BY <2>4, OpcodeNumbers DEF Changes
    <3>2. ISA!Store
      BY <1>2, <1>4, <1>6, <1>8, <1>9, <2>1, <2>2, <2>4, <3>1, SameNames DEF ISA!Store
    <3> QED
      BY <1>2, <1>3, <3>2, SameNames DEF ISA!Next
  <2> QED
    BY <1>12, <2>3, <2>4 DEF IsOpcodeMemory
<1>13. \/ i.opcode \in Op.ADD .. Op.SRL \/ IsOpcodeBranch(i.opcode) \/ IsOpcodeMemory(i.opcode)
  <2>1. i.opcode \in (0 .. 17) \union {20}
    BY <1>1, OpcodeNumbers DEF Instruction
  <2> QED
    BY <1>1, <2>1, OpcodeNumbers DEF IsOpcodeBranch, IsOpcodeMemory
<1> QED
  BY <1>10, <1>11, <1>12, <1>13

(* Any other cycle does nothing that the instruction set sees.             *)
LEMMA InstructionWaits ==
    ASSUME ProgramsKeepRegisterZero, NEW served \in BOOLEAN, Cycle(served), ~ Leaves
    PROVE  UNCHANGED ISA!vars
<1> USE CycleFacts
<1>1. /\ AbstractPc' = AbstractPc /\ AbstractNpc' = AbstractNpc
      /\ AbstractExecuted' = AbstractExecuted /\ imem' = imem
  BY PlacesMove, ExecutedMoves
<1>2. CASE mem_stall' \/ ~ Active("MEM")
  <2>1. AbstractRegisters' = AbstractRegisters
    BY <1>2, RegistersAfter
  <2>2. memory' = memory
    BY <1>2, StallIsRefusal DEF Pipe_iteration_exe, Stored
  <2> QED
    BY <1>1, <2>1, <2>2 DEF ISA!vars
<1>3. CASE ~ mem_stall' /\ Active("MEM")
  <2>1. OpcodeIn("MEM") = Op.HALT
    BY <1>3 DEF Leaves
  <2>2. memory' = memory
    BY <2>1, OpcodeNumbers DEF Pipe_iteration_exe, Stored
  <2>3. AbstractRegisters' = AbstractRegisters
    <3>1. KeepsRegisterZero(Stage["MEM"].instruction)
      BY <1>3, InstructionsKeepRegisterZero DEF Stages
    <3>2. WrittenBy(Stage["MEM"].instruction) \notin MutableRegisters
      BY <2>1, <3>1, OpcodeNumbers, RegisterNumbers DEF KeepsRegisterZero, WrittenBy, OpcodeIn
    <3>3. AbstractRegisters = [q \in MutableRegisters |-> AbstractRegisters[q]]
      BY DEF AbstractRegisters
    <3> QED
      BY <1>3, <3>2, <3>3, RegistersAfter
  <2> QED
    BY <1>1, <2>2, <2>3 DEF ISA!vars
<1> QED
  BY <1>2, <1>3

LEMMA StutterStays == UNCHANGED orderVars => UNCHANGED ISA!vars
<1> SUFFICES ASSUME UNCHANGED orderVars PROVE UNCHANGED ISA!vars
  OBVIOUS
<1> USE DEF orderVars
<1>1. imem' = imem /\ memory' = memory
  OBVIOUS
<1>2. AbstractPc' = AbstractPc /\ AbstractNpc' = AbstractNpc
  BY DEF AbstractPc, AbstractNpc, AtFetch, InDecode, InExecute, Place, Active, Stage
<1>3. AbstractRegisters' = AbstractRegisters
  BY DEF AbstractRegisters, WrittenRegister, Active, OpcodeIn, Stage
<1>4. AbstractExecuted' = AbstractExecuted
  BY DEF AbstractExecuted, Holds, HoldsToRun, Active, OpcodeIn, Stage
<1> QED
  BY <1>1, <1>2, <1>3, <1>4 DEF ISA!vars

LEMMA StepIsInstruction ==
    ASSUME ProgramsKeepRegisterZero, OperationsAgree, PipelineInv, DecodeInv, OrderInv,
           ProgramFits, [Next]_vars, [data_stall /\ mem_stall => data_stall']_vars
    PROVE  [ISA!Next]_ISA!vars
<1>1. ASSUME NEW served \in BOOLEAN, Cycle(served) PROVE [ISA!Next]_ISA!vars
  <2>1. CASE Leaves
    BY <1>1, <2>1, InstructionRuns
  <2>2. CASE ~ Leaves
    BY <1>1, <2>2, InstructionWaits
  <2> QED
    BY <2>1, <2>2
<1>2. CASE UNCHANGED orderVars
  BY <1>2, StutterStays
<1> QED
  BY <1>1, <1>2, Cycles

LEMMA InitIsInstruction == Init => ISA!Init
<1> SUFFICES ASSUME Init PROVE ISA!Init
  OBVIOUS
<1>1. /\ \A s \in Stages \ {"FETCH"} : ~ Active(s)
      /\ ~ is_halted /\ ~ mem_stall /\ ~ data_stall /\ pc = 0
  BY DEF Init, Pipe_Init, Active, Stage, Stages
<1>2. ~ Active("DECODE") /\ ~ Active("EXECUTE") /\ ~ Active("MEM") /\ ~ Active("WRITE_BACK")
  BY <1>1 DEF Stages
<1>3. imem \in Seq(ISA!Instruction)
  BY ProgramsAssumption, SameNames DEF Init
<1>4. AbstractPc = PlaceIn(imem, 0)
  BY <1>1, <1>2, Chain
<1>5. AbstractNpc = IF AbstractPc = Halted THEN Halted ELSE PlaceIn(imem, AbstractPc + 1)
  <2>1. AbstractPc # Halted => AbstractPc = 0
    BY <1>4 DEF PlaceIn
  <2> QED
    BY <1>1, <1>2, <2>1, NextPlaces
<1>6. AbstractRegisters = [r \in MutableRegisters |-> 0]
  <2>1. \A r \in MutableRegisters : registers[r] = 0
    BY RegisterNumbers DEF Init
  <2> QED
    BY <1>2, <2>1 DEF AbstractRegisters
<1>7. AbstractExecuted = 0
  <2>1. stats.instructions = 0
    BY DEF Init
  <2>2. Holds("MEM") = 0 /\ Holds("EXECUTE") = 0 /\ Holds("DECODE") = 0
    BY <1>2 DEF Holds
  <2>3. AbstractExecuted = stats.instructions - 0 - 0 - 0 - 0
    BY <1>1, <2>2 DEF AbstractExecuted
  <2> QED
    BY <2>1, <2>3
<1>8. memory = InitialMemory
  BY DEF Init
<1> QED
  BY <1>3, <1>4, <1>5, <1>6, <1>7, <1>8, SameNames DEF ISA!Init

-----------------------------------------------------------------------------
(* Arithmetic.                                                             *)

(* Division with a rest, whatever the divisor.                             *)
LEMMA Divided ==
    ASSUME NEW K \in Nat \ {0}, NEW n \in Int
    PROVE  /\ n = K * (n \div K) + (n % K)
           /\ n \div K \in Int /\ n % K \in 0 .. K - 1
OBVIOUS

LEMMA Multiples ==
    ASSUME NEW K \in Nat \ {0}, NEW q \in Int
    PROVE  /\ (K * q) % K = 0
           /\ -K < K * q /\ K * q < K => K * q = 0
<1>1. q >= 1 => K * q >= K 
  OBVIOUS
<1>2. q <= -1 => K * q <= - K
  OBVIOUS
<1>3. (K * q) % K = 0
  OBVIOUS
<1> QED
  BY <1>1, <1>2, <1>3

(* The rest is the only number below the divisor that is congruent.        *)
LEMMA Rest ==
    ASSUME NEW K \in Nat \ {0}, NEW n \in Int, NEW r, r = n % K
    PROVE  /\ r \in 0 .. K - 1 /\ (r - n) % K = 0
           /\ \A w \in 0 .. K - 1 : (w - n) % K = 0 => w = r
<1> DEFINE q == n \div K
<1>1. r \in 0 .. K - 1 /\ n = K * q + r /\ q \in Int
  BY Divided
<1> HIDE DEF q
<1>2. (r - n) % K = 0
  <2>1. r - n = K * (- q) /\ - q \in Int
    BY <1>1
  <2> QED
    BY <2>1, Multiples
<1>3. ASSUME NEW w \in 0 .. K - 1, (w - n) % K = 0
      PROVE  w = r
  <2>1. PICK p \in Int : w - n = K * p
    <3>1. w - n \in Int
      OBVIOUS
    <3>2. w - n = K * ((w - n) \div K) + ((w - n) % K) /\ (w - n) \div K \in Int
      BY <3>1, Divided
    <3>3. w - n = K * ((w - n) \div K)
      BY <1>3, <3>1, <3>2
    <3> QED
      BY <3>2, <3>3
  <2>2. w - r = K * (p + q) /\ p + q \in Int
    <3>1. K * (p + q) = K * p + K * q
      BY <1>1
    <3>2. w - r = (w - n) + (n - r) /\ n - r = K * q
      <4>1. K * q \in Int
        BY <1>1
      <4> QED
        BY <1>1, <4>1
    <3> QED
      BY <1>1, <2>1, <3>1, <3>2
  <2>3. -K < w - r /\ w - r < K
    BY <1>1
  <2>4. w - r = 0
    BY <2>2, <2>3, Multiples
  <2> QED
    BY <1>1, <2>4
<1> QED
  BY <1>1, <1>2, <1>3

(* The low bits of a number are the word congruent to it.                  *)
LEMMA WordIsChosen ==
    ASSUME NEW n \in Int, 2 ^ WordBits \in Nat \ {0}
    PROVE  n % 2 ^ WordBits = ISA!Congruent(n) /\ n % 2 ^ WordBits \in Word
<1> DEFINE K == 2 ^ WordBits
           r == n % K
<1>1. K \in Nat \ {0}
  OBVIOUS
<1>2. ISA!Congruent(n) = CHOOSE w \in 0 .. K - 1 : (w - n) % K = 0
  BY DEF ISA!Congruent, ISA!Word
<1> HIDE DEF K
<1>3. /\ r \in 0 .. K - 1 /\ (r - n) % K = 0
      /\ \A w \in 0 .. K - 1 : (w - n) % K = 0 => w = r
  BY <1>1, Rest
<1>4. r = CHOOSE w \in 0 .. K - 1 : (w - n) % K = 0
  <2> HIDE DEF r
  <2> QED
    BY <1>3
<1> QED
  BY <1>2, <1>3, <1>4 DEF K, Word

(* The arithmetic of OpcodeHandlers.c is that of the instruction set,      *)
(* whatever the width of a word.                                           *)
LEMMA ArithmeticAgrees == AgreeOn(Arithmetic)
<1> SUFFICES ASSUME NEW opcode \in Arithmetic,
                    NEW a \in Word, NEW b \in Word
             PROVE  /\ Result(OperationOf(opcode), a, b) \in Word
                    /\ (opcode \in Op.SLL .. Op.SRL => b < WordBits) =>
                          Result(OperationOf(opcode), a, b) = ISA!Value(opcode, a, b)
  BY DEF AgreeOn, Arithmetic
<1>1. 2 ^ WordBits \in Nat \ {0} /\ a \in Nat /\ b \in Nat
  <2>1. 2 ^ WordBits \in Int
    BY WordBitsAssumption
  <2> QED
    BY <2>1 DEF Word
<1>2. \A n \in Int : n % 2 ^ WordBits = ISA!Congruent(n) /\ n % 2 ^ WordBits \in Word
  BY <1>1, WordIsChosen
<1>3. /\ ISA!Op.ADD = 0 /\ ISA!Op.SUB = 1 /\ ISA!Op.MUL = 5 /\ ISA!Op.SLL = 6
      /\ ISA!Op.AND = 2 /\ ISA!Op.OR = 3 /\ ISA!Op.XOR = 4 /\ ISA!Op.SRA = 7
      /\ ISA!Op.SRL = 8
      /\ Op.ADD = 0 /\ Op.SUB = 1 /\ Op.MUL = 5 /\ Op.SLL = 6 /\ Op.SRL = 8
  BY DEF ISA!Op, Op
<1>4. CASE opcode = Op.ADD
  <2>1. OperationOf(opcode) = "add"
    BY <1>3, <1>4 DEF OperationOf, OpcodeFunctionTable
  <2>2. Result(OperationOf(opcode), a, b) = (a + b) % 2 ^ WordBits
    BY <2>1 DEF Result, Exact
  <2>3. ISA!Value(opcode, a, b) = ISA!Congruent(a + b)
    BY <1>3, <1>4 DEF ISA!Value
  <2> QED
    BY <1>1, <1>2, <2>2, <2>3
<1>5. CASE opcode = Op.SUB
  <2>1. OperationOf(opcode) = "sub"
    BY <1>3, <1>5 DEF OperationOf, OpcodeFunctionTable
  <2>2. Result(OperationOf(opcode), a, b) = (a - b) % 2 ^ WordBits
    BY <2>1 DEF Result, Exact
  <2>3. ISA!Value(opcode, a, b) = ISA!Congruent(a - b)
    BY <1>3, <1>5 DEF ISA!Value
  <2> QED
    BY <1>1, <1>2, <2>2, <2>3
<1>6. CASE opcode = Op.MUL
  <2>1. OperationOf(opcode) = "mul"
    BY <1>3, <1>6 DEF OperationOf, OpcodeFunctionTable
  <2>2. Result(OperationOf(opcode), a, b) = (a * b) % 2 ^ WordBits
    BY <2>1 DEF Result, Exact
  <2>3. ISA!Value(opcode, a, b) = ISA!Congruent(a * b)
    BY <1>3, <1>6 DEF ISA!Value
  <2>4. a * b \in Int
    BY <1>1
  <2> QED
    BY <1>2, <2>2, <2>3, <2>4
<1>7. CASE opcode = Op.SLL
  <2>1. OperationOf(opcode) = "logicShiftLeft"
    BY <1>3, <1>7 DEF OperationOf, OpcodeFunctionTable
  <2>2. Result(OperationOf(opcode), a, b) = (a * 2 ^ (b % WordBits)) % 2 ^ WordBits
    BY <2>1 DEF Result, Exact
  <2>3. ISA!Value(opcode, a, b) = ISA!Congruent(a * 2 ^ b)
    BY <1>3, <1>7 DEF ISA!Value
  <2>4. b % WordBits \in Nat /\ (b < WordBits => b % WordBits = b)
    BY <1>1, WordBitsAssumption
  <2>5. 2 ^ (b % WordBits) \in Int /\ 2 ^ b \in Int
    BY <1>1, <2>4
  <2>6. a * 2 ^ (b % WordBits) \in Int
    BY <1>1, <2>5
  <2>7. opcode \in Op.SLL .. Op.SRL
    BY <1>3, <1>7
  <2> QED
    BY <1>2, <2>2, <2>3, <2>4, <2>6, <2>7
<1> QED
  BY <1>4, <1>5, <1>6, <1>7 DEF Arithmetic

LEMMA AllOperationsAgree == BitOperationsAgree => OperationsAgree
BY ArithmeticAgrees DEF BitOperationsAgree, OperationsAgree, AgreeOn

-----------------------------------------------------------------------------
(* The theorems.                                                           *)

LEMMA DecodeInvInit == Init => DecodeInv
BY DEF Init, Pipe_Init, DecodeInv, DecodeReady, DecodedBeforeExecuted, Active, Stage, Stages

(* No stall of DECODE is forgotten while an access waits                   *)
(* (execute_pipe_stages), whatever the program, unless DECODE waited for   *)
(* WRITE_BACK alone when the access was presented.                         *)
THEOREM StallsLast == Spec /\ []WaitsBeyondWriteBack => StallsOutlastRefusals
<1> DEFINE Lasting == data_stall /\ mem_stall => DataHazard
<1>1. Init => Lasting
  BY DEF Init, Pipe_Init
<1>2. PipelineInv /\ WaitsBeyondWriteBack /\ [Next]_vars /\ Lasting => Lasting'
  <2> SUFFICES ASSUME PipelineInv, WaitsBeyondWriteBack, [Next]_vars, Lasting,
                      data_stall', mem_stall'
               PROVE  DataHazard'
    OBVIOUS
  <2>1. ASSUME NEW served \in BOOLEAN, RunsCycle(served) PROVE DataHazard'
    <3>1. Shaped /\ HeldAccess /\ Pipe_iteration_exe(served)
      BY <2>1 DEF PipelineInv, RunsCycle
    <3>2. /\ stages_in_pipe'["DECODE"].instruction = stages_in_pipe["DECODE"].instruction
          /\ stages_in_pipe'["EXECUTE"].instruction = stages_in_pipe["EXECUTE"].instruction
          /\ stages_in_pipe'["EXECUTE"].pc = stages_in_pipe["EXECUTE"].pc
          /\ stages_in_pipe'["MEM"].instruction = stages_in_pipe["MEM"].instruction
          /\ stages_in_pipe'["MEM"].pc = stages_in_pipe["MEM"].pc
          /\ stages_in_pipe'["WRITE_BACK"].instruction = stages_in_pipe["WRITE_BACK"].instruction
      BY <3>1, InstructionsMove DEF Stage
    <3>3. DataHazard
      BY <3>1 DEF Pipe_iteration_exe
    <3>4. Active("MEM") /\ IsOpcodeMemory(OpcodeIn("MEM"))
      BY <3>1, StallIsRefusal
    <3>5. HazardWith("EXECUTE") \/ HazardWith("MEM")
      BY <3>3, <3>4 DEF WaitsBeyondWriteBack
    <3>6. ChecksRd' <=> ChecksRd
      BY <3>2 DEF ChecksRd, OpcodeIn, Stage
    <3>7. HazardWith("EXECUTE")' \/ HazardWith("MEM")'
      BY <3>2, <3>5, <3>6 DEF HazardWith, Active, Stage
    <3> QED
      BY <3>7 DEF DataHazard
  <2>2. CASE UNCHANGED pipeVars
    <3>1. DataHazard
      BY <2>2 DEF pipeVars
    <3> QED
      BY <2>2, <3>1 DEF pipeVars, DataHazard, HazardWith, ChecksRd, Active, OpcodeIn, Stage
  <2> QED
    BY <2>1, <2>2 DEF Next, core_run_single_cycle, CycleServed, CycleRefused, CoreHalts,
                      CoreIsHalted, vars
<1>3. PipelineInv /\ Lasting /\ [Next]_vars => [data_stall /\ mem_stall => data_stall']_vars
  <2> SUFFICES ASSUME PipelineInv, Lasting, Next, data_stall, mem_stall
               PROVE  data_stall' \/ UNCHANGED vars
    OBVIOUS
  <2>1. ASSUME NEW served \in BOOLEAN, RunsCycle(served) PROVE data_stall'
    BY <2>1 DEF RunsCycle, Pipe_iteration_exe
  <2>2. CASE CoreHalts
    BY <2>2 DEF CoreHalts, pipeVars
  <2> QED
    BY <2>1, <2>2 DEF Next, core_run_single_cycle, CycleServed, CycleRefused, CoreIsHalted
<1> QED
  BY <1>1, <1>2, <1>3, PipelineInvariant, PTL DEF Spec, StallsOutlastRefusals

(* Whatever the program, its arithmetic and the refusals of its cache: no  *)
(* counter, register, word or stage leaves its range (ProcessorCore.h,     *)
(* PipelineController.h) while the program counter stays in its own.       *)
THEOREM StaysTyped ==
    ASSUME BitOperationsAgree
    PROVE  Spec /\ StallsOutlastRefusals /\ []PcInReach => []PipeTypeOK
<1>1. Init => Typed
  BY InOrderInit DEF OrderInv, InOrder
<1>2. /\ PipelineInv /\ DecodeInv /\ Typed /\ PcInReach /\ [Next]_vars
      => Typed'
  <2> SUFFICES ASSUME PipelineInv, DecodeInv, Typed, PcInReach, [Next]_vars PROVE Typed'
    OBVIOUS
  <2>1. Shaped /\ DecodedBeforeExecuted
    BY DEF PipelineInv, DecodeInv
  <2>2. refusals \in 0 .. MaxRefusals /\ MaxRefusals \in Nat
    BY MaxRefusalsAssumption DEF Typed
  <2>3. CASE CycleServed
    BY <2>1, <2>2, <2>3, TypedCycle, AllOperationsAgree DEF CycleServed
  <2>4. CASE CycleRefused
    <3>1. refusals' \in 0 .. MaxRefusals
      BY <2>2, <2>4 DEF CycleRefused
    <3>2. RunsCycle(FALSE)
      BY <2>4 DEF CycleRefused
    <3> QED
      BY <2>1, <3>1, <3>2, TypedCycle, AllOperationsAgree
  <2>5. CASE CoreHalts \/ UNCHANGED vars
    BY <2>5 DEF CoreHalts, vars, pipeVars, Typed
  <2> QED
    BY <2>3, <2>4, <2>5 DEF Next, core_run_single_cycle, CoreIsHalted
<1>3. /\ PipelineInv /\ DecodeInv /\ [Next]_vars
      /\ [data_stall /\ mem_stall => data_stall']_vars
      => DecodeInv'
  BY DecodeInvNext
<1>4. PipelineInv /\ Typed /\ PcInReach => PipeTypeOK
  BY DEF PipelineInv, Shaped, Typed, CounterType, PcInReach, PipeTypeOK
<1> QED
  BY <1>1, <1>2, <1>3, <1>4, DecodeInvInit, PipelineInvariant, PTL
     DEF Spec, StallsOutlastRefusals

(* Whatever DECODE would read before it is written makes it wait           *)
(* (checkfor_data_hazards), but for the links and the data of stores that  *)
(* ProgramFits speaks of.                                                  *)
THEOREM HazardsAreFound == Spec /\ []ProgramFits => []HazardsFound
<1>1. ProgramFits => HazardsFound
  BY HazardCheck DEF ProgramFits
<1> QED
  BY <1>1, PTL

(* Of every program that fits the pipeline the stages hold the             *)
(* instructions it runs one by one, none behind one whose result it would  *)
(* miss, and carry the values the instruction set gives them               *)
(* (execute_pipe_stages, Pipe_Bubbles).                                    *)
THEOREM StagesInOrder ==
    ASSUME BitOperationsAgree, ProgramsKeepRegisterZero
    PROVE  Spec /\ StallsOutlastRefusals /\ []ProgramFits => []InOrder
<1>1. Init => OrderInv /\ DecodeInv
  BY InOrderInit, DecodeInvInit
<1>2. /\ PipelineInv /\ DecodeInv /\ OrderInv /\ ProgramFits /\ [Next]_vars
      /\ [data_stall /\ mem_stall => data_stall']_vars
      => OrderInv' /\ DecodeInv'
  BY InOrderNext, DecodeInvNext, AllOperationsAgree
<1>3. OrderInv => InOrder
  BY DEF OrderInv
<1> QED
  BY <1>1, <1>2, <1>3, PipelineInvariant, PTL DEF Spec, StallsOutlastRefusals

(* Every program that fits the pipeline runs as the instruction set says:  *)
(* the registers, the memory, the order of the instructions and their      *)
(* number are those of a machine that runs one instruction at a time       *)
(* (Pipe_iteration_exe, Pipe_Bubbles, update_tracking_info).               *)
THEOREM InstructionSetImplemented ==
    ASSUME BitOperationsAgree, ProgramsKeepRegisterZero
    PROVE  Spec /\ StallsOutlastRefusals /\ []ProgramFits => ImplementsISA
<1>1. Init => OrderInv /\ DecodeInv /\ ISA!Init
  BY InOrderInit, DecodeInvInit, InitIsInstruction
<1>2. /\ PipelineInv /\ DecodeInv /\ OrderInv /\ ProgramFits /\ [Next]_vars
      /\ [data_stall /\ mem_stall => data_stall']_vars
      => OrderInv' /\ DecodeInv' /\ [ISA!Next]_ISA!vars
  BY InOrderNext, DecodeInvNext, StepIsInstruction, AllOperationsAgree
<1> QED
  BY <1>1, <1>2, PipelineInvariant, PTL
     DEF Spec, StallsOutlastRefusals, ImplementsISA, ISA!Spec

=============================================================================
