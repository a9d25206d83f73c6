--------------------------- MODULE PipelineProofs ---------------------------
(***************************************************************************)
(* For every program, cache and size of a word: a halted core is quiet,    *)
(* every cycle of a core is accounted for once, and what EXECUTE holds was *)
(* decoded.                                                                *)
(***************************************************************************)
EXTENDS PipelineCorrectness, TLAPS

(* A slot and the counters have their fields, whatever those hold.         *)
IsSlot(x) ==
    x = [pc                  |-> x.pc,
         instruction         |-> x.instruction,
         result_of_execution |-> x.result_of_execution,
         operation           |-> x.operation]

Counters == [cycles : Int, instructions : Int, stalls_in_decode : Int, stalls_in_mem : Int]

Shaped ==
    /\ stages_in_pipe = [s \in Stages |-> stages_in_pipe[s]]
    /\ \A s \in Stages : IsSlot(stages_in_pipe[s])
    /\ is_halted \in BOOLEAN /\ data_stall \in BOOLEAN /\ mem_stall \in BOOLEAN
    /\ isHalted \in BOOLEAN
    /\ stats \in Counters

(* A stalled pipeline still holds the access it waits for.                 *)
HeldAccess == mem_stall => Active("MEM") /\ IsOpcodeMemory(OpcodeIn("MEM"))

(* Once HALT is decoded nothing follows it.                                *)
NothingFollowsHalt == is_halted => ~ Active("FETCH") /\ ~ Active("DECODE")

(* How many cycles without a stall the stages behind DECODE still need.    *)
Depth ==
    IF Active("EXECUTE") THEN 3
    ELSE IF Active("MEM") THEN 2
    ELSE IF Active("WRITE_BACK") THEN 1 ELSE 0

Counted == stats.instructions + stats.stalls_in_decode + stats.stalls_in_mem
Uncounted == stats.cycles + 1 - Counted

(* What is still to be drained and what was left uncounted add up.         *)
Draining ==
    /\ ~ is_halted => Uncounted = IF data_stall \/ mem_stall THEN -1 ELSE 0
    /\ is_halted => Uncounted >= -1 /\ Uncounted + Depth <= 3

PipelineInv ==
    Shaped /\ HeldAccess /\ NothingFollowsHalt /\ HaltedCoreIsQuiet /\ Draining

-----------------------------------------------------------------------------
(* A stage that has run holds the address and the instruction it held;     *)
(* only FETCH takes others, and not once HALT is decoded.                  *)
LEMMA StagesRun ==
    ASSUME Shaped, NEW served \in BOOLEAN
    PROVE  LET ran == execute_pipe_stages(served) IN
           /\ \A s \in Stages : IsSlot(ran[s])
           /\ ran = [s \in Stages |-> ran[s]]
           /\ \A s \in Stages \ {"FETCH"} :
                  /\ ran[s].pc = stages_in_pipe[s].pc
                  /\ ran[s].instruction = stages_in_pipe[s].instruction
           /\ is_halted => ran["FETCH"].pc = stages_in_pipe["FETCH"].pc
<1> DEFINE ran == execute_pipe_stages(served)
<1> USE DEF Shaped, IsSlot, Stages, Stage
<1>1. ran = [s \in Stages |-> ran[s]]
    BY DEF execute_pipe_stages
<1>2. /\ ran["FETCH"] = fetch /\ ran["DECODE"] = decode /\ ran["EXECUTE"] = execute
      /\ ran["MEM"] = mem(served) /\ ran["WRITE_BACK"] = stages_in_pipe["WRITE_BACK"]
    BY DEF execute_pipe_stages
<1>3. IsSlot(fetch) /\ (is_halted => fetch.pc = stages_in_pipe["FETCH"].pc)
    BY DEF fetch, Fetches
<1>4. /\ IsSlot(decode) /\ decode.pc = stages_in_pipe["DECODE"].pc
      /\ decode.instruction = stages_in_pipe["DECODE"].instruction
    BY DEF decode
<1>5. /\ IsSlot(execute) /\ execute.pc = stages_in_pipe["EXECUTE"].pc
      /\ execute.instruction = stages_in_pipe["EXECUTE"].instruction
    BY DEF execute
<1>6. /\ IsSlot(mem(served)) /\ mem(served).pc = stages_in_pipe["MEM"].pc
      /\ mem(served).instruction = stages_in_pipe["MEM"].instruction
    BY DEF mem
<1> QED BY <1>1, <1>2, <1>3, <1>4, <1>5, <1>6

(* Where the addresses are after a cycle.                                  *)
LEMMA StagesMove ==
    ASSUME Shaped, NEW served \in BOOLEAN, Pipe_iteration_exe(served)
    PROVE  /\ stages_in_pipe' = [s \in Stages |-> stages_in_pipe'[s]]
           /\ \A s \in Stages : IsSlot(stages_in_pipe'[s])
           /\ mem_stall' =>
                 /\ stages_in_pipe'["MEM"].pc = stages_in_pipe["MEM"].pc
                 /\ stages_in_pipe'["MEM"].instruction = stages_in_pipe["MEM"].instruction
                 /\ stages_in_pipe'["EXECUTE"].pc = stages_in_pipe["EXECUTE"].pc
           /\ ~ mem_stall' =>
                 /\ stages_in_pipe'["WRITE_BACK"].pc = stages_in_pipe["MEM"].pc
                 /\ stages_in_pipe'["MEM"].pc = stages_in_pipe["EXECUTE"].pc
                 /\ stages_in_pipe'["EXECUTE"].pc =
                       IF data_stall' THEN UINT16_MAX ELSE stages_in_pipe["DECODE"].pc
           /\ is_halted' =>
                 /\ stages_in_pipe'["FETCH"].pc = UINT16_MAX
                 /\ stages_in_pipe'["DECODE"].pc = UINT16_MAX
<1> DEFINE ran     == execute_pipe_stages(served)
           shifted == ShiftedStages(ran)
<1>1. /\ \A s \in Stages : IsSlot(ran[s])
      /\ ran = [s \in Stages |-> ran[s]]
      /\ \A s \in Stages \ {"FETCH"} :
             /\ ran[s].pc = stages_in_pipe[s].pc
             /\ ran[s].instruction = stages_in_pipe[s].instruction
    BY StagesRun
<1>2. stages_in_pipe' = Pipe_Bubbles(ran)
    BY DEF Pipe_iteration_exe
<1> HIDE DEF ran
<1>3. \A x : IsSlot(x) => IsSlot(Emptied(x)) /\ Emptied(x).pc = UINT16_MAX
    BY DEF IsSlot, Emptied
<1>4. \A x, y : IsSlot(x) /\ IsSlot(y) => IsSlot(Moved(x, y)) /\ Moved(x, y).pc = y.pc
    BY <1>3 DEF Moved
<1>5. CASE mem_stall'
  <2>1. /\ shifted = [s \in Stages |-> shifted[s]]
        /\ shifted["WRITE_BACK"] = Emptied(ran["WRITE_BACK"])
        /\ \A s \in Stages \ {"WRITE_BACK"} : shifted[s] = ran[s]
      BY <1>1, <1>5 DEF ShiftedStages, Stages
  <2> HIDE DEF shifted
  <2>2. /\ stages_in_pipe' = [s \in Stages |-> stages_in_pipe'[s]]
        /\ \A s \in {"EXECUTE", "MEM", "WRITE_BACK"} : stages_in_pipe'[s] = shifted[s]
        /\ \A s \in {"FETCH", "DECODE"} :
              stages_in_pipe'[s] = IF is_halted' THEN Emptied(shifted[s]) ELSE shifted[s]
      BY <1>2, <2>1 DEF Pipe_Bubbles, Stages, shifted
  <2> QED BY <1>1, <1>3, <1>5, <2>1, <2>2 DEF Stages
<1>6. CASE ~ mem_stall'
  <2>1. /\ shifted = [s \in Stages |-> shifted[s]]
        /\ shifted["WRITE_BACK"] = Moved(ran["WRITE_BACK"], ran["MEM"])
        /\ shifted["MEM"] = Moved(ran["MEM"], ran["EXECUTE"])
        /\ shifted["EXECUTE"] = IF data_stall' THEN Emptied(ran["EXECUTE"])
                                ELSE Moved(ran["EXECUTE"], ran["DECODE"])
        /\ shifted["DECODE"] = IF data_stall' THEN ran["DECODE"]
                               ELSE Moved(ran["DECODE"], ran["FETCH"])
        /\ shifted["FETCH"] = ran["FETCH"]
      BY <1>1, <1>6 DEF ShiftedStages, Advanced, Stages
  <2> HIDE DEF shifted
  <2>2. /\ stages_in_pipe' = [s \in Stages |-> stages_in_pipe'[s]]
        /\ \A s \in {"EXECUTE", "MEM", "WRITE_BACK"} : stages_in_pipe'[s] = shifted[s]
        /\ \A s \in {"FETCH", "DECODE"} :
              stages_in_pipe'[s] = IF is_halted' THEN Emptied(shifted[s]) ELSE shifted[s]
      BY <1>2, <2>1 DEF Pipe_Bubbles, Stages, shifted
  <2>3. \A s \in Stages : IsSlot(shifted[s])
      BY <1>1, <1>3, <1>4, <2>1 DEF Stages
  <2> QED BY <1>1, <1>3, <1>4, <1>6, <2>1, <2>2, <2>3 DEF Stages
<1> QED BY <1>5, <1>6

(* The counters.                                                           *)
LEMMA CountersTyped ==
    ASSUME NEW x \in Counters
    PROVE  /\ x.cycles \in Int /\ x.instructions \in Int
           /\ x.stalls_in_decode \in Int /\ x.stalls_in_mem \in Int
BY DEF Counters

LEMMA CyclesCounted ==
    ASSUME NEW x \in Counters
    PROVE  LET u == update_tracking_info(x) IN
           /\ u \in Counters
           /\ u.cycles = x.cycles + 1
           /\ u.instructions = IF ~ is_halted /\ ~ mem_stall /\ ~ data_stall
                                 THEN x.instructions + 1 ELSE x.instructions
           /\ u.stalls_in_decode = x.stalls_in_decode
           /\ u.stalls_in_mem = x.stalls_in_mem
<1> DEFINE a == x.cycles + 1
           b == IF ~ is_halted /\ ~ mem_stall /\ ~ data_stall
                THEN x.instructions + 1 ELSE x.instructions
<1>1. a \in Int /\ b \in Int
    BY CountersTyped
<1>2. update_tracking_info(x) = [x EXCEPT !.cycles = a, !.instructions = b]
    BY DEF update_tracking_info
<1> HIDE DEF a, b
<1>3. /\ update_tracking_info(x) \in Counters
      /\ update_tracking_info(x).cycles = a
      /\ update_tracking_info(x).instructions = b
      /\ update_tracking_info(x).stalls_in_decode = x.stalls_in_decode
      /\ update_tracking_info(x).stalls_in_mem = x.stalls_in_mem
    BY <1>1, <1>2 DEF Counters
<1> QED BY <1>3 DEF a, b

LEMMA StallsCounted ==
    ASSUME NEW x \in Counters
    PROVE  LET u == stats_update(x) IN
           /\ u \in Counters
           /\ u.cycles = x.cycles
           /\ u.instructions = x.instructions
           /\ u.stalls_in_decode = IF data_stall' /\ ~ mem_stall'
                                     THEN x.stalls_in_decode + 1 ELSE x.stalls_in_decode
           /\ u.stalls_in_mem = IF mem_stall' THEN x.stalls_in_mem + 1 ELSE x.stalls_in_mem
<1> DEFINE a == IF data_stall' /\ ~ mem_stall'
                THEN x.stalls_in_decode + 1 ELSE x.stalls_in_decode
           b == IF mem_stall' THEN x.stalls_in_mem + 1 ELSE x.stalls_in_mem
<1>1. a \in Int /\ b \in Int
    BY CountersTyped
<1>2. stats_update(x) = [x EXCEPT !.stalls_in_decode = a, !.stalls_in_mem = b]
    BY DEF stats_update
<1> HIDE DEF a, b
<1>3. /\ stats_update(x) \in Counters
      /\ stats_update(x).cycles = x.cycles
      /\ stats_update(x).instructions = x.instructions
      /\ stats_update(x).stalls_in_decode = a
      /\ stats_update(x).stalls_in_mem = b
    BY <1>1, <1>2 DEF Counters
<1> QED BY <1>3 DEF a, b

(* A cycle is counted once, but for the stalls of this cycle and the last. *)
LEMMA CountersMove ==
    ASSUME Shaped, NEW served \in BOOLEAN, RunsCycle(served)
    PROVE  /\ stats' \in Counters
           /\ Uncounted' = Uncounted + 1
                 - (IF ~ is_halted /\ ~ mem_stall /\ ~ data_stall THEN 1 ELSE 0)
                 - (IF data_stall' \/ mem_stall' THEN 1 ELSE 0)
<1> DEFINE u == update_tracking_info(stats)
<1>1. /\ stats' = stats_update(u)
      /\ stats \in Counters
    BY DEF RunsCycle, Shaped
<1>2. /\ u \in Counters
      /\ u.cycles = stats.cycles + 1
      /\ u.instructions = IF ~ is_halted /\ ~ mem_stall /\ ~ data_stall
                            THEN stats.instructions + 1 ELSE stats.instructions
      /\ u.stalls_in_decode = stats.stalls_in_decode
      /\ u.stalls_in_mem = stats.stalls_in_mem
    BY <1>1, CyclesCounted
<1> HIDE DEF u
<1>3. /\ stats' \in Counters
      /\ stats'.cycles = u.cycles
      /\ stats'.instructions = u.instructions
      /\ stats'.stalls_in_decode = IF data_stall' /\ ~ mem_stall'
                                     THEN u.stalls_in_decode + 1 ELSE u.stalls_in_decode
      /\ stats'.stalls_in_mem = IF mem_stall' THEN u.stalls_in_mem + 1 ELSE u.stalls_in_mem
    BY <1>1, <1>2, StallsCounted
<1>4. /\ stats.cycles \in Int /\ stats.instructions \in Int
      /\ stats.stalls_in_decode \in Int /\ stats.stalls_in_mem \in Int
    BY <1>1, CountersTyped
<1>5. Uncounted' = stats'.cycles + 1
          - (stats'.instructions + stats'.stalls_in_decode + stats'.stalls_in_mem)
    BY DEF Uncounted, Counted
<1>6. Uncounted = stats.cycles + 1
          - (stats.instructions + stats.stalls_in_decode + stats.stalls_in_mem)
    BY DEF Uncounted, Counted
<1> QED BY <1>2, <1>3, <1>4, <1>5, <1>6

-----------------------------------------------------------------------------
(* The invariant.                                                          *)
LEMMA PipelineInvInit == Init => PipelineInv
<1> SUFFICES ASSUME Init PROVE PipelineInv
    OBVIOUS
<1>1. Shaped
  <2>1. \A s \in Stages : IsSlot(stages_in_pipe[s])
      BY DEF Init, Pipe_Init, IsSlot, Stages
  <2>2. stages_in_pipe = [s \in Stages |-> stages_in_pipe[s]]
      BY DEF Init, Pipe_Init
  <2>3. is_halted \in BOOLEAN /\ data_stall \in BOOLEAN /\ mem_stall \in BOOLEAN
      BY DEF Init, Pipe_Init
  <2>4. isHalted \in BOOLEAN
      BY DEF Init
  <2>5. stats \in Counters
      BY DEF Init, Counters
  <2> QED BY <2>1, <2>2, <2>3, <2>4, <2>5 DEF Shaped
<1>2. ~ mem_stall /\ ~ is_halted /\ ~ data_stall
    BY DEF Init, Pipe_Init
<1>3. HaltedCoreIsQuiet
    BY <1>2 DEF Init, HaltedCoreIsQuiet
<1>4. Uncounted = 0
    BY DEF Init, Uncounted, Counted
<1> QED BY <1>1, <1>2, <1>3, <1>4 DEF PipelineInv, HeldAccess, NothingFollowsHalt, Draining

LEMMA ShapedNext ==
    ASSUME Shaped, NEW served \in BOOLEAN, RunsCycle(served)
    PROVE  Shaped'
<1>1. data_stall' = DataHazard /\ data_stall' \in BOOLEAN
    BY Zenon DEF RunsCycle, Pipe_iteration_exe, DataHazard
<1>2. is_halted' = (is_halted \/ DecodesHalt) /\ is_halted' \in BOOLEAN
    BY Zenon DEF RunsCycle, Pipe_iteration_exe
<1>3. mem_stall' \in BOOLEAN
    BY Zenon DEF RunsCycle, Pipe_iteration_exe, Shaped
<1>4. /\ stages_in_pipe' = [s \in Stages |-> stages_in_pipe'[s]]
      /\ \A s \in Stages : IsSlot(stages_in_pipe'[s])
    BY StagesMove DEF RunsCycle
<1>5. stats' \in Counters
    BY CountersMove
<1> QED BY <1>1, <1>2, <1>3, <1>4, <1>5 DEF Shaped, RunsCycle

LEMMA HeldAccessNext ==
    ASSUME PipelineInv, NEW served \in BOOLEAN, RunsCycle(served)
    PROVE  HeldAccess'
<1> SUFFICES ASSUME mem_stall' PROVE Active("MEM")' /\ IsOpcodeMemory(OpcodeIn("MEM"))'
    BY DEF HeldAccess
<1>1. Shaped /\ HeldAccess
    BY DEF PipelineInv
<1>2. mem_stall' = IF Accesses THEN ~ served ELSE mem_stall
    BY DEF RunsCycle, Pipe_iteration_exe
<1>3. Active("MEM") /\ IsOpcodeMemory(OpcodeIn("MEM"))
  <2>1. CASE Accesses
      BY <2>1 DEF Accesses, Runs
  <2>2. CASE ~ Accesses
      BY <1>1, <1>2, <2>2 DEF HeldAccess
  <2> QED BY <2>1, <2>2
<1>4. /\ stages_in_pipe'["MEM"].pc = stages_in_pipe["MEM"].pc
      /\ stages_in_pipe'["MEM"].instruction = stages_in_pipe["MEM"].instruction
    BY <1>1, StagesMove DEF RunsCycle
<1> QED BY <1>3, <1>4 DEF Active, OpcodeIn, Stage, IsOpcodeMemory

LEMMA NothingFollowsHaltNext ==
    ASSUME Shaped, NEW served \in BOOLEAN, RunsCycle(served)
    PROVE  NothingFollowsHalt'
BY StagesMove DEF RunsCycle, NothingFollowsHalt, Active, Stage

LEMMA HaltedCoreIsQuietNext ==
    ASSUME HaltedCoreIsQuiet, NEW served \in BOOLEAN, RunsCycle(served)
    PROVE  HaltedCoreIsQuiet'
BY DEF RunsCycle, HaltedCoreIsQuiet

(* While the pipeline drains, a cycle without a stall takes every          *)
(* instruction one stage on, and a stall of mem leaves it where it is.     *)
LEMMA DepthFalls ==
    ASSUME PipelineInv, NEW served \in BOOLEAN, RunsCycle(served), is_halted
    PROVE  /\ Depth \in 0 .. 3 /\ Depth' \in 0 .. 3
           /\ mem_stall' => Depth' <= Depth
           /\ ~ mem_stall' => Depth' < Depth
<1>1. Shaped /\ HeldAccess /\ NothingFollowsHalt /\ HeldAccess'
    BY HeldAccessNext DEF PipelineInv
<1>2. Depth \in 0 .. 3 /\ Depth' \in 0 .. 3
    BY DEF Depth
<1>3. ~ Active("FETCH") /\ ~ Active("DECODE")
    BY <1>1 DEF NothingFollowsHalt
<1>4. Active("EXECUTE") \/ Active("MEM") \/ Active("WRITE_BACK")
    BY <1>3 DEF RunsCycle, Pipe_Flush, Stages
<1>5. CASE mem_stall'
  <2>1. /\ Active("MEM")' /\ Active("MEM")
        /\ Active("EXECUTE")' <=> Active("EXECUTE")
      BY <1>1, <1>5, StagesMove DEF RunsCycle, HeldAccess, Active, Stage
  <2> QED BY <1>2, <1>5, <2>1 DEF Depth
<1>6. CASE ~ mem_stall'
  <2>1. /\ ~ Active("EXECUTE")'
        /\ Active("MEM")' <=> Active("EXECUTE")
        /\ Active("WRITE_BACK")' <=> Active("MEM")
      BY <1>1, <1>3, <1>6, StagesMove DEF RunsCycle, Active, Stage
  <2> QED BY <1>2, <1>4, <1>6, <2>1 DEF Depth
<1> QED BY <1>2, <1>5, <1>6

(* The arithmetic of one draining cycle: what was left uncounted grows     *)
(* only when the pipeline gets emptier.                                    *)
LEMMA Drained ==
    ASSUME NEW u \in Int, NEW v \in Int, NEW d \in 0 .. 3, NEW e \in 0 .. 3,
           u >= -1, u + d <= 3,
           (v = u /\ e <= d) \/ ((v = u \/ v = u + 1) /\ e < d)
    PROVE  v >= -1 /\ v + e <= 3
OBVIOUS

LEMMA DrainingNext ==
    ASSUME PipelineInv, NEW served \in BOOLEAN, RunsCycle(served)
    PROVE  Draining'
<1>1. Shaped /\ Draining /\ Shaped'
    BY ShapedNext DEF PipelineInv
<1>2. Uncounted \in Int /\ Uncounted' \in Int
    BY <1>1, CountersTyped DEF Shaped, Uncounted, Counted
<1>3. Uncounted' = Uncounted + 1
          - (IF ~ is_halted /\ ~ mem_stall /\ ~ data_stall THEN 1 ELSE 0)
          - (IF data_stall' \/ mem_stall' THEN 1 ELSE 0)
    BY <1>1, CountersMove
<1>4. CASE is_halted
  <2>1. is_halted'
      BY <1>4 DEF RunsCycle, Pipe_iteration_exe
  <2>2. /\ Depth \in 0 .. 3 /\ Depth' \in 0 .. 3
        /\ mem_stall' => Depth' <= Depth
        /\ ~ mem_stall' => Depth' < Depth
      BY <1>4, DepthFalls
  <2>3. Uncounted >= -1 /\ Uncounted + Depth <= 3
      BY <1>1, <1>4 DEF Draining
  <2>4. Uncounted' = Uncounted + 1 - (IF data_stall' \/ mem_stall' THEN 1 ELSE 0)
      BY <1>2, <1>3, <1>4
  <2>5. \/ Uncounted' = Uncounted /\ Depth' <= Depth
        \/ (Uncounted' = Uncounted \/ Uncounted' = Uncounted + 1) /\ Depth' < Depth
    <3>1. CASE mem_stall'
      <4>1. Uncounted' = Uncounted
          BY <1>2, <2>4, <3>1
      <4> QED BY <2>2, <3>1, <4>1
    <3>2. CASE ~ mem_stall'
      <4>1. Uncounted' = Uncounted \/ Uncounted' = Uncounted + 1
          BY <1>2, <2>4
      <4> QED BY <2>2, <3>2, <4>1
    <3> QED BY <3>1, <3>2
  <2>6. Uncounted' >= -1 /\ Uncounted' + Depth' <= 3
      BY <1>2, <2>2, <2>3, <2>5, Drained
  <2> QED BY <2>1, <2>6 DEF Draining
<1>5. CASE ~ is_halted
  <2>1. Uncounted = IF data_stall \/ mem_stall THEN -1 ELSE 0
      BY <1>1, <1>5 DEF Draining
  <2>2. Uncounted' = IF data_stall' \/ mem_stall' THEN -1 ELSE 0
      BY <1>2, <1>3, <1>5, <2>1
  <2>3. Depth' \in 0 .. 3
      BY DEF Depth
  <2>4. Uncounted' = -1 \/ Uncounted' = 0
      BY <2>2
  <2>5. \A u \in Int, d \in 0 .. 3 : u = -1 \/ u = 0 => u >= -1 /\ u + d <= 3
      OBVIOUS
  <2>6. Uncounted' >= -1 /\ Uncounted' + Depth' <= 3
      BY <1>2, <2>3, <2>4, <2>5
  <2> QED BY <2>2, <2>6 DEF Draining
<1> QED BY <1>1, <1>4, <1>5 DEF Shaped

LEMMA PipelineInvNext == PipelineInv /\ [Next]_vars => PipelineInv'
<1> SUFFICES ASSUME PipelineInv, [Next]_vars PROVE PipelineInv'
    OBVIOUS
<1>1. ASSUME NEW served \in BOOLEAN, RunsCycle(served) PROVE PipelineInv'
    BY <1>1, ShapedNext, HeldAccessNext, NothingFollowsHaltNext, HaltedCoreIsQuietNext,
       DrainingNext DEF PipelineInv
<1>2. CASE CycleServed
    BY <1>1, <1>2 DEF CycleServed
<1>3. CASE CycleRefused
    BY <1>1, <1>3 DEF CycleRefused
<1>4. CASE CoreHalts
  <2>1. HaltedCoreIsQuiet'
      BY <1>4 DEF PipelineInv, HeldAccess, CoreHalts, Pipe_Flush, HaltedCoreIsQuiet,
                  Active, Stage, Stages, pipeVars
  <2>2. UNCHANGED <<stages_in_pipe, is_halted, data_stall, mem_stall, stats>> /\ isHalted' = TRUE
      BY <1>4 DEF CoreHalts, pipeVars
  <2> QED BY <2>1, <2>2 DEF PipelineInv, Shaped, HeldAccess, NothingFollowsHalt, Draining, Depth,
                            Uncounted, Counted, Active, OpcodeIn, Stage, IsOpcodeMemory
<1>5. CASE UNCHANGED vars
    BY <1>5 DEF vars, pipeVars, PipelineInv, Shaped, HeldAccess, NothingFollowsHalt, Draining, Depth,
                HaltedCoreIsQuiet, Uncounted, Counted, Active, OpcodeIn, Stage, IsOpcodeMemory
<1> QED BY <1>2, <1>3, <1>4, <1>5 DEF Next, core_run_single_cycle, CoreIsHalted

LEMMA PipelineInvariant == Spec => []PipelineInv
BY PipelineInvInit, PipelineInvNext, PTL DEF Spec

-----------------------------------------------------------------------------
(* Whatever the program and however often its cache refuses: a core that   *)
(* is halted (core_run_single_cycle) has decoded HALT, holds no            *)
(* instruction and does not wait for its cache.                            *)
THEOREM HaltedIsQuiet == Spec => []HaltedCoreIsQuiet
<1>1. PipelineInv => HaltedCoreIsQuiet
    BY DEF PipelineInv
<1> QED BY <1>1, PipelineInvariant, PTL

(* Whatever the program: until HALT is decoded each cycle is counted once, *)
(* and after it at most three are not (update_tracking_info, stats_update).*)
THEOREM CyclesAreAccounted == Spec => []CyclesAccounted
<1>1. PipelineInv => CyclesAccounted
  <2> SUFFICES ASSUME PipelineInv PROVE CyclesAccounted
      OBVIOUS
  <2>1. Shaped /\ Draining /\ Depth \in 0 .. 3
      BY DEF PipelineInv, Depth
  <2>2. /\ stats.cycles \in Int /\ stats.instructions \in Int
        /\ stats.stalls_in_decode \in Int /\ stats.stalls_in_mem \in Int
      BY <2>1, CountersTyped DEF Shaped
  <2>3. Uncounted = stats.cycles + 1
            - (stats.instructions + stats.stalls_in_decode + stats.stalls_in_mem)
      BY DEF Uncounted, Counted
  <2> QED BY <2>1, <2>2, <2>3 DEF Draining, CyclesAccounted
<1> QED BY <1>1, PipelineInvariant, PTL
-----------------------------------------------------------------------------
(* What DECODE has done.                                                   *)

Decoded(s) ==
    /\ OpcodeIn(s) \in Op.ADD .. Op.JAL => Stage[s].operation = OperationOf(OpcodeIn(s))
    /\ OpcodeIn(s) = Op.HALT => is_halted

(* While an access waits, DECODE has run, unless it is stalled itself.     *)
DecodeReady == mem_stall /\ ~ data_stall /\ Active("DECODE") => Decoded("DECODE")

DecodeInv == DecodeReady /\ DecodedBeforeExecuted

(* A slot that is not empty carries what it held and what its stage did.   *)
LEMMA SlotsMove ==
    ASSUME Shaped, NEW served \in BOOLEAN, Pipe_iteration_exe(served)
    PROVE  /\ mem_stall' =>
                 /\ stages_in_pipe'["EXECUTE"] = execute
                 /\ Active("DECODE")' => stages_in_pipe'["DECODE"] = decode
           /\ ~ mem_stall' /\ Active("EXECUTE")' =>
                 /\ ~ data_stall'
                 /\ stages_in_pipe'["EXECUTE"] = decode
                 /\ Active("DECODE")
<1> DEFINE ran     == execute_pipe_stages(served)
           shifted == ShiftedStages(ran)
<1>1. /\ ran["DECODE"] = decode /\ ran["EXECUTE"] = execute
      /\ ran = [s \in Stages |-> ran[s]]
  BY DEF execute_pipe_stages, Stages
<1>2. /\ \A s \in Stages : IsSlot(ran[s])
      /\ \A s \in Stages \ {"FETCH"} : ran[s].pc = stages_in_pipe[s].pc
  BY StagesRun
<1>3. stages_in_pipe' = Pipe_Bubbles(ran)
  BY DEF Pipe_iteration_exe
<1> HIDE DEF ran
<1>4. \A x : IsSlot(x) => Emptied(x).pc = UINT16_MAX
  BY DEF IsSlot, Emptied
<1>5. CASE mem_stall'
  <2>1. /\ shifted = [s \in Stages |-> shifted[s]]
        /\ \A s \in Stages \ {"WRITE_BACK"} : shifted[s] = ran[s]
    BY <1>1, <1>5 DEF ShiftedStages, Stages
  <2> HIDE DEF shifted
  <2>2. /\ stages_in_pipe'["EXECUTE"] = shifted["EXECUTE"]
        /\ stages_in_pipe'["DECODE"] =
              IF is_halted' THEN Emptied(shifted["DECODE"]) ELSE shifted["DECODE"]
    BY <1>3, <2>1 DEF Pipe_Bubbles, Stages, shifted
  <2> QED
    BY <1>1, <1>2, <1>4, <1>5, <2>1, <2>2 DEF Stages, Active, Stage
<1>6. CASE ~ mem_stall'
  <2>1. /\ shifted = [s \in Stages |-> shifted[s]]
        /\ shifted["EXECUTE"] = IF data_stall' THEN Emptied(ran["EXECUTE"])
                                ELSE Moved(ran["EXECUTE"], ran["DECODE"])
    BY <1>1, <1>6 DEF ShiftedStages, Advanced, Stages
  <2> HIDE DEF shifted
  <2>2. stages_in_pipe'["EXECUTE"] = shifted["EXECUTE"]
    BY <1>3, <2>1 DEF Pipe_Bubbles, Stages, shifted
  <2>3. CASE data_stall'
    BY <1>2, <1>4, <1>6, <2>1, <2>2, <2>3 DEF Stages, Active, Stage
  <2>4. CASE ~ data_stall'
    BY <1>1, <1>2, <1>4, <1>6, <2>1, <2>2, <2>4 DEF Stages, Active, Stage, Moved
  <2> QED
    BY <2>3, <2>4
<1> QED
  BY <1>5, <1>6

(* What a stage that runs makes of an instruction.                         *)
LEMMA DecodeRuns ==
    ASSUME Shaped, NEW served \in BOOLEAN, Pipe_iteration_exe(served), Runs("DECODE")
    PROVE  /\ decode.instruction = Stage["DECODE"].instruction
           /\ OpcodeIn("DECODE") \in Op.ADD .. Op.JAL =>
                 decode.operation = OperationOf(OpcodeIn("DECODE"))
           /\ OpcodeIn("DECODE") = Op.HALT => is_halted'
<1>1. IsSlot(Stage["DECODE"])
  BY DEF Shaped, Stage, Stages
<1>2. CASE OpcodeIn("DECODE") = Op.HALT
  <2>1. DecodesHalt
    BY <1>2 DEF DecodesHalt
  <2>2. decode = Stage["DECODE"] /\ is_halted'
    BY <2>1 DEF decode, Pipe_iteration_exe
  <2>3. Op.HALT \notin Op.ADD .. Op.JAL
    BY DEF Op
  <2> QED
    BY <1>2, <2>2, <2>3
<1>3. CASE OpcodeIn("DECODE") # Op.HALT
  BY <1>1, <1>3 DEF decode, DecodesHalt, IsSlot
<1> QED
  BY <1>2, <1>3

LEMMA DecodeWaits ==
    ASSUME ~ Runs("DECODE")
    PROVE  decode = Stage["DECODE"]
BY DEF decode

LEMMA ExecuteKeeps ==
    ASSUME Shaped
    PROVE  /\ execute.instruction = Stage["EXECUTE"].instruction
           /\ execute.operation = Stage["EXECUTE"].operation
           /\ execute.pc = Stage["EXECUTE"].pc
<1>1. IsSlot(Stage["EXECUTE"])
  BY DEF Shaped, Stage, Stages
<1> QED
  BY <1>1 DEF execute, IsSlot

LEMMA DecodeReadyNext ==
    ASSUME Shaped, DecodeReady, NEW served \in BOOLEAN, RunsCycle(served),
           data_stall /\ mem_stall => data_stall'
    PROVE  DecodeReady'
<1> SUFFICES ASSUME mem_stall', ~ data_stall', Active("DECODE")' PROVE Decoded("DECODE")'
  BY DEF DecodeReady
<1>1. Pipe_iteration_exe(served) /\ (is_halted => is_halted')
  BY DEF RunsCycle, Pipe_iteration_exe
<1>2. stages_in_pipe'["DECODE"] = decode
  BY <1>1, SlotsMove
<1>3. decode.pc = Stage["DECODE"].pc
  BY <1>1, <1>2, StagesRun DEF Stages, Stage, execute_pipe_stages
<1>4. Active("DECODE")
  BY <1>2, <1>3 DEF Active, Stage
<1>5. CASE mem_stall
  <2>1. ~ Runs("DECODE") /\ Decoded("DECODE")
    BY <1>4, <1>5 DEF Runs, DecodeReady
  <2> QED
    BY <1>1, <1>2, <2>1, DecodeWaits DEF Decoded, OpcodeIn, Stage
<1>6. CASE ~ mem_stall
  <2>1. Runs("DECODE")
    BY <1>4, <1>6 DEF Runs
  <2> QED
    BY <1>1, <1>2, <2>1, DecodeRuns DEF Decoded, OpcodeIn, Stage
<1> QED
  BY <1>5, <1>6

LEMMA DecodedNext ==
    ASSUME Shaped, DecodeInv, NEW served \in BOOLEAN, RunsCycle(served),
           data_stall /\ mem_stall => data_stall'
    PROVE  DecodedBeforeExecuted'
<1> SUFFICES ASSUME Active("EXECUTE")' PROVE Decoded("EXECUTE")'
  BY DEF DecodedBeforeExecuted, Decoded, OpcodeIn
<1>1. Pipe_iteration_exe(served) /\ (is_halted => is_halted')
  BY DEF RunsCycle, Pipe_iteration_exe
<1>2. CASE mem_stall'
  <2>1. stages_in_pipe'["EXECUTE"] = execute /\ Active("EXECUTE")
    BY <1>1, <1>2, SlotsMove, ExecuteKeeps DEF Active, Stage
  <2>2. Decoded("EXECUTE")
    BY <2>1 DEF DecodeInv, DecodedBeforeExecuted, Decoded, OpcodeIn
  <2> QED
    BY <1>1, <2>1, <2>2, ExecuteKeeps DEF Decoded, OpcodeIn, Stage
<1>3. CASE ~ mem_stall'
  <2>1. /\ stages_in_pipe'["EXECUTE"] = decode
        /\ Active("DECODE") /\ ~ data_stall'
    BY <1>1, <1>3, SlotsMove
  <2>2. CASE mem_stall
    <3>1. ~ Runs("DECODE") /\ Decoded("DECODE")
      BY <2>1, <2>2 DEF Runs, DecodeInv, DecodeReady
    <3> QED
      BY <1>1, <2>1, <3>1, DecodeWaits DEF Decoded, OpcodeIn, Stage
  <2>3. CASE ~ mem_stall
    <3>1. Runs("DECODE")
      BY <2>1, <2>3 DEF Runs
    <3> QED
      BY <1>1, <2>1, <3>1, DecodeRuns DEF Decoded, OpcodeIn, Stage
  <2> QED
    BY <2>2, <2>3
<1> QED
  BY <1>2, <1>3

LEMMA DecodeInvNext ==
    ASSUME PipelineInv, DecodeInv, [Next]_vars, [data_stall /\ mem_stall => data_stall']_vars
    PROVE  DecodeInv'
<1>1. CASE UNCHANGED vars
  BY <1>1 DEF vars, pipeVars, DecodeInv, DecodeReady, Decoded, DecodedBeforeExecuted,
              Active, OpcodeIn, Stage
<1>2. CASE CoreHalts
  BY <1>2 DEF CoreHalts, pipeVars, DecodeInv, DecodeReady, Decoded, DecodedBeforeExecuted,
              Active, OpcodeIn, Stage
<1>3. ASSUME NEW served \in BOOLEAN, RunsCycle(served), vars' # vars PROVE DecodeInv'
  <2>1. Shaped /\ (data_stall /\ mem_stall => data_stall')
    BY <1>3 DEF PipelineInv
  <2> QED
    BY <1>3, <2>1, DecodeReadyNext, DecodedNext DEF DecodeInv
<1>4. CASE (CycleServed \/ CycleRefused) /\ vars' # vars
  BY <1>3, <1>4 DEF CycleServed, CycleRefused
<1> QED
  BY <1>1, <1>2, <1>4 DEF Next, core_run_single_cycle, CoreIsHalted

(* Whatever the program: EXECUTE holds only what DECODE has decoded, as    *)
(* long as no stall of DECODE is forgotten while an access waits.          *)
THEOREM DecodedFirst == Spec /\ StallsOutlastRefusals => []DecodedBeforeExecuted
<1>1. Init => DecodeInv
  BY DEF Init, Pipe_Init, DecodeInv, DecodeReady, DecodedBeforeExecuted, Active, Stage, Stages
<1>2. /\ PipelineInv /\ DecodeInv /\ [Next]_vars
      /\ [data_stall /\ mem_stall => data_stall']_vars
      => DecodeInv'
  BY DecodeInvNext
<1>3. DecodeInv => DecodedBeforeExecuted
  BY DEF DecodeInv
<1> QED
  BY <1>1, <1>2, <1>3, PipelineInvariant, PTL DEF Spec, StallsOutlastRefusals

(* The operation that stage_to_exe will call has been stored: CallsNull    *)
(* cannot be.                                                              *)
OperationReady ==
    Active("EXECUTE") /\ OpcodeIn("EXECUTE") \in Op.ADD .. Op.SRL =>
        Stage["EXECUTE"].operation # NULL

(* Then EXECUTE never calls a null pointer of the operation table          *)
(* (stage_to_exe).                                                         *)
THEOREM NeverCallsNull == Spec /\ StallsOutlastRefusals => []OperationReady
<1>1. \A opcode \in Op.ADD .. Op.SRL : opcode \in Op.ADD .. Op.JAL /\ OperationOf(opcode) # NULL
  BY DEF Op, OperationOf, OpcodeFunctionTable, NULL
<1>2. DecodedBeforeExecuted => OperationReady
  BY <1>1 DEF DecodedBeforeExecuted, OperationReady, OpcodeIn
<1> QED
  BY <1>2, DecodedFirst, PTL
=============================================================================
