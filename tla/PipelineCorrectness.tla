------------------------ MODULE PipelineCorrectness -------------------------
(***************************************************************************)
(* What makes the pipeline correct: it implements the instruction set, it  *)
(* counts its cycles right, and it halts with nothing left behind.         *)
(***************************************************************************)
EXTENDS Pipeline

Slot == [pc                  : Nat,
         instruction         : Instruction,
         result_of_execution : Word,
         operation           : Range(OpcodeFunctionTable) \union {NULL}]

(* Every variable keeps its type; results and targets stay in their widths.*)
PipeTypeOK ==
    /\ pc \in 0 .. 2 ^ PcBits
    /\ registers \in [Registers \ {IMM_REG} -> Word]
    /\ stages_in_pipe \in [Stages -> Slot]
    /\ is_halted \in BOOLEAN /\ data_stall \in BOOLEAN /\ mem_stall \in BOOLEAN
    /\ isHalted \in BOOLEAN
    /\ stats \in [cycles : Nat \union {-1}, instructions : Nat,
                  stalls_in_decode : Nat, stalls_in_mem : Nat]
    /\ memory \in [Word -> Word]
    /\ refusals \in 0 .. MaxRefusals

-----------------------------------------------------------------------------
(* The state of the program as the instruction set sees it.  An            *)
(* instruction takes effect when it leaves MEM: what its slot in           *)
(* WRITE_BACK is about to write counts as written, and what is in the      *)
(* earlier stages has not happened yet.                                    *)

Halted == -1
Place(address) ==
    IF InstructionAt(imem, address).opcode = Op.HALT THEN Halted ELSE address

(* The place of the instruction that DECODE takes next, then of the oldest *)
(* instruction in DECODE or behind it, then in EXECUTE or behind it; once  *)
(* HALT is decoded none follows.                                           *)
AtFetch ==
    IF is_halted THEN Halted
    ELSE Place(IF mem_stall /\ ~ data_stall THEN Stage["FETCH"].pc ELSE pc)
InDecode  == IF Active("DECODE") THEN Place(Stage["DECODE"].pc) ELSE AtFetch
InExecute == IF Active("EXECUTE") THEN Place(Stage["EXECUTE"].pc) ELSE InDecode

(* The two oldest that have not taken effect.                              *)
AbstractPc == IF Active("MEM") THEN Place(Stage["MEM"].pc) ELSE InExecute
AbstractNpc ==
    CASE AbstractPc = Halted -> Halted
      [] AbstractPc # Halted /\ Active("MEM") -> InExecute
      [] AbstractPc # Halted /\ ~ Active("MEM") /\ Active("EXECUTE") -> InDecode
      [] OTHER -> IF Active("DECODE") THEN AtFetch ELSE Place(pc + 1)

AbstractRegisters ==
    [r \in MutableRegisters |->
        IF Active("WRITE_BACK") /\ WrittenRegister = r
            THEN Stage["WRITE_BACK"].result_of_execution
            ELSE registers[r]]

(* HALT itself and the instruction fetched behind it are counted and are   *)
(* not run.                                                                *)
Holds(s) == IF Active(s) THEN 1 ELSE 0
HoldsToRun(s) == IF Active(s) /\ OpcodeIn(s) # Op.HALT THEN 1 ELSE 0

AbstractExecuted ==
    IF is_halted
        THEN stats.instructions - 2 - HoldsToRun("MEM") - HoldsToRun("EXECUTE")
        ELSE stats.instructions - Holds("MEM") - Holds("EXECUTE") - Holds("DECODE")
             - (IF mem_stall \/ data_stall THEN 1 ELSE 0)

ISA == INSTANCE InstructionSet WITH
           pc <- AbstractPc, npc <- AbstractNpc, registers <- AbstractRegisters,
           executed <- AbstractExecuted

(* The registers, the memory, the order of the instructions and their      *)
(* number are those of a machine that runs one instruction at a time       *)
(* (Pipe_iteration_exe, Pipe_Bubbles, update_tracking_info), whatever the  *)
(* stalls; "instructions" of the stats file counts the HALT as well.  What *)
(* a jump leaves in the last register is not part of this.                 *)
ImplementsISA == ISA!Spec

(* "Jump and link operation" (OpcodeHandlers.h, and JAL in writeback): a   *)
(* jump saves the place behind the instruction that follows it.            *)
JumpsLink == ISA!JumpsLink

-----------------------------------------------------------------------------
(* What a program and the arithmetic must be like for that.                *)

Reads(i) ==
    {i.rs, i.rt} \union IF IsOpcodeBranch(i.opcode) \/ i.opcode = Op.SW THEN {i.rd} ELSE {}
Changes(i) ==
    (IF i.opcode = Op.JAL THEN {PC_REG}
     ELSE IF i.opcode \in (Op.ADD .. Op.SRL) \union {Op.LW} THEN {i.rd} ELSE {})
    \ {ZERO_REG, IMM_REG}
Independent(later, earlier) == Reads(later) \intersect Changes(earlier) = {}

(* The stages whose instructions will write only after i has read: a       *)
(* branch reads in DECODE, an operation in EXECUTE, an access in MEM.      *)
NotWritten(i) ==
    {"EXECUTE"} \union (IF IsOpcodeMemory(i.opcode) THEN {} ELSE {"MEM"})
                \union (IF IsOpcodeBranch(i.opcode) THEN {"WRITE_BACK"} ELSE {})

(* checkfor_data_hazards stalls DECODE whenever its instruction would read *)
(* a register too early.                                                   *)
HazardsFound ==
    Active("DECODE") /\ ~ DataHazard =>
        \A s \in NotWritten(Stage["DECODE"].instruction) :
            Active(s) => Independent(Stage["DECODE"].instruction, Stage[s].instruction)

(* A branch that is decoded has its target within the reach of Target, a   *)
(* shift that is executed an amount below the width of a word.             *)
OperandsInReach ==
    /\ /\ Active("DECODE") /\ IsOpcodeBranch(OpcodeIn("DECODE"))
       /\ ~ mem_stall /\ ~ DataHazard
       => Target(Param("DECODE", "rd")) = Param("DECODE", "rd") % 2 ^ PcBits
    /\ Active("EXECUTE") /\ OpcodeIn("EXECUTE") \in Op.SLL .. Op.SRL /\ ~ mem_stall
       => Param("EXECUTE", "rt") < WordBits

PcInReach == pc \in 0 .. 2 ^ PcBits

(* DECODE is not to miss the link of a JAL (its hazard check compares the  *)
(* rd of JAL), nor a store the data of the instruction right before it     *)
(* (behind another store only rs and rt are compared).                     *)
LinkAwaited ==
    Active("DECODE") /\ ~ DataHazard /\ PC_REG \in Reads(Stage["DECODE"].instruction) =>
        \A s \in NotWritten(Stage["DECODE"].instruction) :
            Active(s) => OpcodeIn(s) # Op.JAL
StoreDataAwaited ==
    /\ Active("DECODE") /\ ~ DataHazard
    /\ OpcodeIn("DECODE") = Op.SW /\ OpcodeIn("WRITE_BACK") = Op.SW
    /\ Active("EXECUTE")
    => Stage["DECODE"].instruction.rd \notin Changes(Stage["EXECUTE"].instruction)

(* The program running keeps to what the pipeline supports                 *)
(* (checkfor_data_hazards, and the masks of OpcodeHandlers.c).             *)
ProgramFits == PcInReach /\ LinkAwaited /\ StoreDataAwaited /\ OperandsInReach

(* An instruction with register 0 for its rd computes zero, from constants;*)
(* HALT names no other register to write.                                  *)
KeepsRegisterZero(i) ==
    LET constant(r) == IF r = ZERO_REG THEN 0 ELSE i.imm
    IN  /\ i.opcode = Op.HALT => i.rd \in {ZERO_REG, IMM_REG}
        /\ i.rd = ZERO_REG =>
              /\ i.opcode # Op.LW
              /\ i.opcode \in Op.ADD .. Op.SRL =>
                    /\ {i.rs, i.rt} \subseteq {ZERO_REG, IMM_REG}
                    /\ Result(OperationOf(i.opcode), constant(i.rs), constant(i.rt)) = 0

ProgramsKeepRegisterZero ==
    \A p \in Programs : \A i \in Range(p) \union {ZeroInstruction} : KeepsRegisterZero(i)

(* The opcode functions compute what the instruction set says, on all words*)
(* and every amount a shift may have.                                      *)
AgreeOn(opcodes) ==
    \A opcode \in opcodes, a \in Word, b \in Word :
        /\ Result(OperationOf(opcode), a, b) \in Word
        /\ (opcode \in Op.SLL .. Op.SRL => b < WordBits) =>
              Result(OperationOf(opcode), a, b) = ISA!Value(opcode, a, b)

Arithmetic         == {Op.ADD, Op.SUB, Op.MUL, Op.SLL}
OperationsAgree    == AgreeOn(Op.ADD .. Op.SRL)
BitOperationsAgree == AgreeOn((Op.ADD .. Op.SRL) \ Arithmetic)

-----------------------------------------------------------------------------
(* checkfor_data_hazards and cache_handler: a stall of DECODE found in the *)
(* cycle that presents an access lasts until the access is served, though  *)
(* the instruction in WRITE_BACK leaves meanwhile.  DECODE does not run    *)
(* then, and the stages would otherwise move on without it (finding        *)
(* hidden_stall).                                                          *)
StallsOutlastRefusals == [][data_stall /\ mem_stall => data_stall']_vars

(* checkfor_data_hazards: while an access is in MEM, DECODE does not wait  *)
(* for WRITE_BACK alone, whose instruction leaves even if the access is    *)
(* refused.                                                                *)
WaitsBeyondWriteBack ==
    Active("MEM") /\ IsOpcodeMemory(OpcodeIn("MEM")) /\ DataHazard =>
        HazardWith("EXECUTE") \/ HazardWith("MEM")

(* "Execute the decoded instruction" (stage_to_exe): what EXECUTE holds    *)
(* went through decode, and so carries its own operation; decoding HALT    *)
(* has stopped the fetching.                                               *)
DecodedBeforeExecuted ==
    Active("EXECUTE") =>
        /\ Stage["EXECUTE"].instruction.opcode \in Op.ADD .. Op.JAL =>
               Stage["EXECUTE"].operation = OperationOf(OpcodeIn("EXECUTE"))
        /\ OpcodeIn("EXECUTE") = Op.HALT => is_halted

(* Pipe_Flush and core_run_single_cycle: a core that counts as halted has  *)
(* no instruction in its pipeline, decoded HALT, and does not wait for its *)
(* cache.                                                                  *)
HaltedCoreIsQuiet ==
    isHalted => ~ mem_stall /\ is_halted /\ \A s \in Stages : ~ Active(s)

(* update_tracking_info and stats_update: until HALT is decoded every      *)
(* cycle is counted once, as an instruction, as a stall of decode or as a  *)
(* stall of mem, although the instructions are counted with the flags of   *)
(* the last cycle; after it the pipeline drains in three cycles and the    *)
(* stalls of its accesses.                                                 *)
CyclesAccounted ==
    LET cycles  == stats.cycles + 1
        counted == stats.instructions + stats.stalls_in_decode + stats.stalls_in_mem
        stalled == IF data_stall \/ mem_stall THEN 1 ELSE 0
    IN  /\ ~ is_halted => counted = cycles + stalled
        /\ is_halted => cycles - counted \in -1 .. 3

(* A program whose loops end comes to its end, and its core halts, if the  *)
(* cache serves each access in the end (MaxRefusals) and the core gets its *)
(* cycles (main's loop).                                                   *)
ProgramHalts == <>isHalted
=============================================================================
