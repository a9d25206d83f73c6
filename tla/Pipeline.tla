------------------------------ MODULE Pipeline ------------------------------
(***************************************************************************)
(* One core: its cycle (ProcessorCore.c) and its five-stage pipeline       *)
(* (PipelineController.c).  The core's cache is what the pipeline sees of  *)
(* it: it serves an access or refuses it, and the access is presented      *)
(* again in the next cycle.                                                *)
(*                                                                         *)
(* The stages run in the order fetch, decode, execute, mem, writeback, so  *)
(* that each of them reads the registers before writeback writes them: one *)
(* cycle is one simultaneous assignment.  Register 1 is set to the         *)
(* immediate just before each read of it and has no state here.            *)
(***************************************************************************)
EXTENDS OpcodeHandlers

CONSTANTS
    Programs,       \* the programs to run, none of them empty
    InitialMemory,  \* the words of memory at the start
    MaxRefusals     \* how often the cache refuses in a run, at most

ASSUME ProgramsAssumption    == Programs \subseteq Seq(Instruction) \ {<< >>}
ASSUME MemoryAssumption      == InitialMemory \in [Word -> Word]
ASSUME MaxRefusalsAssumption == MaxRefusals \in Nat

VARIABLES
    imem,            \* instruction_memory
    pc,              \* the core's pc
    registers,       \* the core's registers
    stages_in_pipe,  \* what each stage of the pipeline holds
    is_halted,       \* the pipeline has decoded HALT
    data_stall,      \* the flag of the last cycle
    mem_stall,       \* the flag of the last cycle
    isHalted,        \* the core is halted
    stats,           \* the counters of the stats file
    memory,          \* the words the cache reads and writes
    refusals         \* how often the cache has refused

pipeVars == <<pc, registers, stages_in_pipe, is_halted, data_stall, mem_stall>>
vars     == <<imem, pipeVars, isHalted, stats, memory, refusals>>

Stages     == {"FETCH", "DECODE", "EXECUTE", "MEM", "WRITE_BACK"}
UINT16_MAX == 65535

Stage  == stages_in_pipe
Active(s)    == Stage[s].pc # UINT16_MAX
OpcodeIn(s)  == Stage[s].instruction.opcode

Pipe_Init ==
    /\ stages_in_pipe =
          [s \in Stages |-> [pc                  |-> IF s = "FETCH" THEN 0 ELSE UINT16_MAX,
                             instruction         |-> ZeroInstruction,
                             result_of_execution |-> 0,
                             operation           |-> NULL]]
    /\ is_halted = FALSE /\ data_stall = FALSE /\ mem_stall = FALSE

(* ProcessorCore_Init of a core that has instructions.                     *)
Init ==
    /\ imem \in Programs
    /\ pc = 0
    /\ registers = [r \in Registers \ {IMM_REG} |-> 0]
    /\ Pipe_Init
    /\ isHalted = FALSE
    /\ stats = [cycles |-> -1, instructions |-> 0, stalls_in_decode |-> 0, stalls_in_mem |-> 0]
    /\ memory = InitialMemory
    /\ refusals = 0

(* The immediate that another stage has left in register 1 is read.  A     *)
(* slip.                                                                   *)
ParamImmediateOfDecode(s, field) ==
    LET i == Stage[s].instruction
    IN  IF i[field] = IMM_REG THEN Stage["DECODE"].instruction.imm ELSE registers[i[field]]

(* The value of register r for the instruction in stage s, as              *)
(* enter_params_to_regs loads it.                                          *)
Param(s, field) ==
    LET i == Stage[s].instruction
    IN  IF i[field] = IMM_REG THEN i.imm ELSE registers[i[field]]

-----------------------------------------------------------------------------
(* Hazards.                                                                *)

(* A branch taken for an operation, which only writes its rd.  A slip.     *)
ChecksRdNotOfBranches ==
    ~ \/ OpcodeIn("DECODE") <= Op.LW
      \/ OpcodeIn("DECODE") = Op.SW /\ OpcodeIn("WRITE_BACK") = Op.SW

(* Whether the instruction in DECODE is taken to read its rd as well.  Its *)
(* slot, and WRITE_BACK's, may be empty and hold an old instruction.       *)
ChecksRd ==
    ~ \/ OpcodeIn("DECODE") <= Op.SRL
      \/ OpcodeIn("DECODE") = Op.LW
      \/ OpcodeIn("DECODE") = Op.SW /\ OpcodeIn("WRITE_BACK") = Op.SW

(* Register 1 is taken for one that a stage may still write.  A slip.      *)
HazardWithImmediate(s) ==
    LET reg == Stage[s].instruction.rd
        d   == Stage["DECODE"].instruction
    IN  /\ Active(s)
        /\ reg # ZERO_REG
        /\ \/ reg \in {d.rs, d.rt}
           \/ ChecksRd /\ reg = d.rd

HazardWith(s) ==
    LET reg == Stage[s].instruction.rd
        d   == Stage["DECODE"].instruction
    IN  /\ Active(s)
        /\ reg \notin {IMM_REG, ZERO_REG}
        /\ \/ reg \in {d.rs, d.rt}
           \/ ChecksRd /\ reg = d.rd

(* WRITE_BACK is not looked at.  A slip.                                   *)
DataHazardNotWriteBack == \E s \in {"EXECUTE", "MEM"} : HazardWith(s)

(* MEM is not looked at.  A slip.                                          *)
DataHazardNotMem == \E s \in {"EXECUTE", "WRITE_BACK"} : HazardWith(s)

DataHazard == \E s \in {"EXECUTE", "MEM", "WRITE_BACK"} : HazardWith(s)

-----------------------------------------------------------------------------
(* The stages.  data_stall' is the hazard check of this cycle, mem_stall   *)
(* still the flag of the last one.                                         *)

Fetches == ~ is_halted /\ ~ mem_stall

Runs(s) ==
    /\ Active(s)
    /\ s \in {"MEM", "WRITE_BACK"} \/ ~ mem_stall
    /\ s = "DECODE" => ~ data_stall'

fetch ==
    IF Fetches
        THEN [Stage["FETCH"] EXCEPT !.pc = pc, !.instruction = InstructionAt(imem, pc)]
        ELSE Stage["FETCH"]

DecodesHalt == Runs("DECODE") /\ OpcodeIn("DECODE") = Op.HALT
Branches    == Runs("DECODE") /\ IsOpcodeBranch(OpcodeIn("DECODE"))

decode ==
    LET operation == OperationOf(OpcodeIn("DECODE"))
    IN  IF ~ Runs("DECODE") \/ DecodesHalt
            THEN Stage["DECODE"]
            ELSE [Stage["DECODE"] EXCEPT
                     !.operation = operation,
                     !.result_of_execution = IF Branches THEN Param("DECODE", "rd") ELSE @]

NextPc ==
    IF /\ Branches
       /\ Taken(OperationOf(OpcodeIn("DECODE")), Param("DECODE", "rs"), Param("DECODE", "rt"))
        THEN Target(Param("DECODE", "rd"))
        ELSE IF Fetches /\ ~ data_stall' THEN pc + 1 ELSE pc

Operates == Runs("EXECUTE") /\ OpcodeIn("EXECUTE") \in Op.ADD .. Op.SRL

(* A result wider than a register.  A slip.                                *)
executeNotCut ==
    IF Operates
        THEN [Stage["EXECUTE"] EXCEPT
                 !.result_of_execution = Exact(Stage["EXECUTE"].operation,
                                               Param("EXECUTE", "rs"), Param("EXECUTE", "rt"))]
        ELSE Stage["EXECUTE"]

execute ==
    IF Operates
        THEN [Stage["EXECUTE"] EXCEPT
                 !.result_of_execution = Result(Stage["EXECUTE"].operation,
                                                Param("EXECUTE", "rs"), Param("EXECUTE", "rt"))]
        ELSE Stage["EXECUTE"]

Accesses == Runs("MEM") /\ IsOpcodeMemory(OpcodeIn("MEM"))
Address  == (Param("MEM", "rs") + Param("MEM", "rt")) % 2 ^ WordBits

mem(served) ==
    IF Accesses
        THEN [Stage["MEM"] EXCEPT
                 !.result_of_execution = IF served /\ OpcodeIn("MEM") = Op.LW
                                            THEN memory[Address] ELSE Param("MEM", "rd")]
        ELSE Stage["MEM"]

Stored(served) ==
    IF Accesses /\ served /\ OpcodeIn("MEM") = Op.SW
        THEN [memory EXCEPT ![Address] = Param("MEM", "rd")]
        ELSE memory

(* The register writeback writes.                                          *)
WrittenRegister ==
    IF OpcodeIn("WRITE_BACK") = Op.JAL THEN PC_REG ELSE Stage["WRITE_BACK"].instruction.rd

writeback ==
    [r \in DOMAIN registers |->
        IF Runs("WRITE_BACK") /\ r = WrittenRegister
            THEN Stage["WRITE_BACK"].result_of_execution ELSE registers[r]]

-----------------------------------------------------------------------------
(* Pipe_Bubbles: how the stages, after they have run, move on.             *)

Emptied(slot) == [slot EXCEPT !.pc = UINT16_MAX]

(* BubbleStage.                                                            *)
Moved(to, from) == IF from.pc = UINT16_MAX THEN Emptied(to) ELSE from

(* Every stage takes over what the one before it holds; a stalled DECODE   *)
(* keeps its instruction and sends nothing on.                             *)
Advanced(s, stalled) ==
    [s EXCEPT
        !["WRITE_BACK"] = Moved(@, s["MEM"]),
        !["MEM"]        = Moved(@, s["EXECUTE"]),
        !["EXECUTE"]    = IF stalled THEN Emptied(@) ELSE Moved(@, s["DECODE"]),
        !["DECODE"]     = IF stalled THEN @ ELSE Moved(@, s["FETCH"])]

(* The stall of DECODE forgotten in the shift.  A slip.                    *)
ShiftedStagesIgnoreDataStall(s) ==
    IF mem_stall' THEN [s EXCEPT !["WRITE_BACK"] = Emptied(@)] ELSE Advanced(s, FALSE)

ShiftedStages(s) ==
    IF mem_stall' THEN [s EXCEPT !["WRITE_BACK"] = Emptied(@)] ELSE Advanced(s, data_stall')

Pipe_Bubbles(s) ==
    LET shifted == ShiftedStages(s)
    IN  IF is_halted'
            THEN [shifted EXCEPT !["FETCH"] = Emptied(@), !["DECODE"] = Emptied(@)]
            ELSE shifted

(* The last stage is left out.  A slip.                                    *)
Pipe_FlushButWriteBack == is_halted /\ \A s \in Stages \ {"WRITE_BACK"} : ~ Active(s)

Pipe_Flush == is_halted /\ \A s \in Stages : ~ Active(s)

-----------------------------------------------------------------------------
(* The cycle of the core.                                                  *)

(* With the flags of the last cycle.                                       *)
update_tracking_info(counters) ==
    [counters EXCEPT
        !.cycles       = @ + 1,
        !.instructions = IF ~ is_halted /\ ~ mem_stall /\ ~ data_stall THEN @ + 1 ELSE @]

(* A stall of both kinds counted twice.  A slip.                           *)
stats_updateTwice(counters) ==
    [counters EXCEPT
        !.stalls_in_decode = IF data_stall' THEN @ + 1 ELSE @,
        !.stalls_in_mem    = IF mem_stall' THEN @ + 1 ELSE @]

(* With the flags of this cycle.                                           *)
stats_update(counters) ==
    [counters EXCEPT
        !.stalls_in_decode = IF data_stall' /\ ~ mem_stall' THEN @ + 1 ELSE @,
        !.stalls_in_mem    = IF mem_stall' THEN @ + 1 ELSE @]

(* An addition, say, that was never decoded has no function to call.       *)
CallsNull == Operates /\ Stage["EXECUTE"].operation = NULL

(* What the stages hold when they have run.                                *)
execute_pipe_stages(served) ==
    [s \in Stages |->
        CASE s = "FETCH"   -> fetch
          [] s = "DECODE"  -> decode
          [] s = "EXECUTE" -> execute
          [] s = "MEM"     -> mem(served)
          [] OTHER         -> Stage[s]]

Pipe_iteration_exe(served) ==
    /\ data_stall' = DataHazard
    /\ ~ CallsNull
    /\ is_halted' = (is_halted \/ DecodesHalt)
    /\ mem_stall' = IF Accesses THEN ~ served ELSE mem_stall
    /\ pc' = NextPc
    /\ registers' = writeback
    /\ memory' = Stored(served)
    /\ stages_in_pipe' = Pipe_Bubbles(execute_pipe_stages(served))

RunsCycle(served) ==
    /\ ~ isHalted /\ ~ Pipe_Flush
    /\ Pipe_iteration_exe(served)
    /\ stats' = stats_update(update_tracking_info(stats))
    /\ UNCHANGED <<imem, isHalted>>

(* The access in MEM, if there is one, is served.                          *)
CycleServed == RunsCycle(TRUE) /\ UNCHANGED refusals

(* The cache is busy, or the access a miss or an upgrade.                  *)
CycleRefused ==
    /\ refusals < MaxRefusals
    /\ RunsCycle(FALSE)
    /\ mem_stall'
    /\ refusals' = refusals + 1

CoreHalts ==
    /\ ~ isHalted /\ Pipe_Flush
    /\ isHalted' = TRUE
    /\ UNCHANGED <<imem, pipeVars, stats, memory, refusals>>

(* core_run_single_cycle of a halted core, while other cores run.          *)
CoreIsHalted == isHalted /\ UNCHANGED vars

core_run_single_cycle == CycleServed \/ CycleRefused \/ CoreHalts \/ CoreIsHalted

Next == core_run_single_cycle

Spec     == Init /\ [][Next]_vars
FairSpec == Spec /\ WF_vars(Next)
=============================================================================
