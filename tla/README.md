# A verification project for the MultiCore MESI simulator

The repository is a cycle-accurate simulator, in C, of four cores with private
caches kept coherent by MESI over a shared bus. This directory holds TLA+
modules translated from its source, configurations that check them with TLC,
and theorems about them that TLAPS proves. Paths below are relative to
`src/MultiCoreProject/src/` unless they start with `src/`.

## 1. The system

### Components

| Component | Files | State | Operations |
|---|---|---|---|
| Bus | `BusController.c` | the queue of transactions; the transaction granted last, whether it is in progress, the word it has reached; the state of each core's own transaction | `AddTransaction_to_bus`, `IsBusInTransaction`, `IsBusWaitForTransaction`, `Run_Bus_Iteration` |
| Caches | `CacheController.c` | per core: 64 lines of tag and MESI state, 256 words, hit and miss counters; two miss flags that all cores share | `Read_Data_from_Cache`, `Write_Data_to_Cache`; for the bus `shared_or_modified_handler`, `snooping_handler`, `cache_response_handle` |
| Main memory | `MainMemory.c` | 2^20 words; a cycle counter and a busy flag | `bus_transaction_handler`, loading and printing |
| Pipeline | `PipelineController.c` | five stages, data stall, memory stall, halt flag, stall counters | `Pipe_iteration_exe`, `Pipe_Bubbles`, `Pipe_Flush` |
| Core | `ProcessorCore.c` | registers, instruction memory, pc, halted | `core_run_single_cycle`, start-up, shutdown |
| Opcodes | `OpcodeHandlers.c` | none | one function per ALU and branch opcode |
| Files | `FilesManager.c` | file handles | open, close |
| Simulator | `src/MultiCoreSim.c` | the four cores | start-up; the loop |

### How they interact

`main` repeats one bus iteration and then one cycle of core 0, 1, 2 and 3 until
all cores are halted. Everything runs in one thread: the interleaving is fixed,
and the nondeterminism lies in the programs, that is, in which core presents
which access in which of its cycles.

A core's MEM stage calls its cache. The cache answers at once, on a hit, or adds
transactions to the bus's queue and refuses; the pipeline then stalls and
presents the access again in every later cycle. The cache is closed
(`is_cache_busy`) while the bus holds a transaction of its core, which it learns
from `gTransactionStatePerCore` alone. The bus serves one transaction at a time,
one word of the block per iteration, and calls back in each of them: every cache
for whether the block is shared or modified, every cache to snoop (with one
packet that each of them may change), the memory, and the cache of the caller.

### What is hard

- A transaction takes up to twenty iterations, and the other cores go on loading
  and storing meanwhile, also to the block being transferred.
- An eviction is queued, and may be served after the block has changed hands.
- The bus writes a core's state from three places, and a core has up to two
  entries in the queue.
- The packet handed round changes on its way, so the order of the cores matters.
- The shared flag, the modified flag, the memory's counter and the word index
  are set in one iteration and used in a later one, or after the caches moved on.
- A load or store that misses gives up and is presented again once its request is
  complete, and the next request is granted in the iteration that lets it.
- In the pipeline a data stall and a memory stall may be found in the same cycle;
  one is a flag of this cycle, the other of the last, and the stages, the shift and
  the counters each combine them in their own way.
- The slots of the pipeline keep their old instruction when they are emptied, and
  the hazard check reads them all the same.

### What makes each component correct

- **Bus**: the queue, the granted transaction and the cores' states agree; no
  core is queued for two accesses; nothing is served between an eviction and its
  refill; the queue is bounded; every transaction is served.
- **Caches**: one writer or many readers; a line dropped without a flush agrees
  with memory; a write request ends in ownership, and the store in success.
- **Main memory**: a word changes only by a flush of a stored word; the first
  word of a transaction comes after the delay.
- **Together**: one serial memory; every access completes.
- **Pipeline**: a program runs as it would one instruction at a time, whatever
  the stalls; it comes to its end; every cycle is counted once.
- **Opcodes**: each result is that of the width of a register; a branch goes where
  its register says.
- **Core**: it halts only when nothing of it is under way.

## 2. The modules

    SimTypes                    constants, addresses, transactions
      +-- MainMemory            words, counter, busy flag
      +-- BusQueue              the queue and the cores' states
      |     +-- CacheController the caches; three callbacks as operators
      +-----------+-- MemorySystem      the bus, the loop, the MEM stages
      |                 +-- BusProtocol       invariants of the bookkeeping
      |                 |     +-- MemorySystemProofs   TypeOK
      |                 |           +-- BusProtocolProofs    BusProtocol
      |                 |                 +-- QueueBoundProofs   QueueBounded
      |                 +-- Coherence         SWMR, refinement, liveness
      |                       +-- CoherenceInvariant   hypotheses, inductive invariants
      |                             +-- CoherenceProofs      SWMR
      |                                   +-- WordProofs     CleanLinesAgree
      |                                         +-- SerialProofs   SerialSpec
      +-- SerialMemory          the abstract specification
    MCMemorySystem              workloads for TLC (Coherence + BusProtocol)
      +-- MCCoherence           those that keep the hypotheses (CoherenceInvariant)

    Instructions                words, registers, opcodes, programs
      +-- OpcodeHandlers        the functions of the opcodes
      |     +-- Pipeline        one core: its cycle, stages, hazards, stalls
      |           +-- PipelineCorrectness    invariants, refinement, liveness
      |                 +-- PipelineProofs   halting, counters, decoding
      |                 +-- PipelineOrder   what the stages hold
      |                       +-- InstructionSetProofs   (and PipelineProofs) ImplementsISA
      |                       +-- MCPipeline       programs for TLC
      +-- InstructionSet        the abstract specification

**SimTypes** has the sizes as constants with their assumptions, the enumerations
of the headers, addresses as records of tag, index and offset (both address
unions of the code split an address so), and `bus_transaction` as a record
without the two fields that are derived (`original_caller`, `bus_shared`).

**MainMemory** is `bus_transaction_handler` and what it calls. The code's 16 and
19 are `MemDelay` and `MemDelay + BlockSize - 1`.

**BusQueue** is the queue as a sequence and `AddTransaction_to_bus`.

**CacheController** has one action per way a load or a store can go: `ReadHit`,
`ReadMiss`, `WriteHit`, `WriteUpgrade`, `WriteMiss`. A miss of a dirty line adds
the eviction and the request in one step (`MissTransactions`), as the code does;
an upgrade adds the request and the entry of `invalid_caller`. The callbacks,
which the bus calls core by core with one packet they may change, are operators
of the state before: `CmdSeenBy(c, ...)` is the command core `c` finds in the
packet, `Snooped` the packet after the last core, `SnoopedTsram` the lines after
it, `FilledTsram` and `FilledDram` the caller's cache after its response.

**MemorySystem** composes them. `Run_Bus_Iteration` is five actions, one per way
through the function:

| Action | Way through `Run_Bus_Iteration` |
|---|---|
| `BusIdle` | nothing queued, nothing in progress (256-262) |
| `BusDropInvalid` | the next entry has no caller (274-275) |
| `BusWaitForOwner` | some cache owns the line, first time: return (305-309) |
| `BusAwaitMemory` | the caches snoop, the memory has no answer yet (311-318) |
| `BusTransferWord` | the memory serves a word and the caller takes it (311-331) |

Granting the next entry is part of the last three (`Current`, `Grant`), and
releasing the last core is part of all five (`ReleasedStates`). A core's cycle is
its MEM stage: `CacheBusy`, `LoadHit`, `LoadMiss`, `StoreHit`, `StoreUpgrade`,
`StoreMiss`, or `Compute` when no memory instruction is in the stage. `turn`
gives the order of the loop. `Requests[c]` is the set of accesses core `c` may
present: a program is abstracted to it, so a property holds for every program
that makes no other access, at whatever times.

**SerialMemory** is what the caches, the bus and the memory promise together: one
memory in which each load and store takes effect in one step. `Coherence` gives
the refinement mapping: the word of a block is that of the cache that owns it,
unless the line is just being filled, and otherwise that of main memory.

**CoherenceInvariant** says what programs the caches are coherent for
(`SharedBlocksStay`, `StoresEndSharedBlocks`) and has the three inductive
invariants behind that: `LinesInv` of the states of the lines, `MemoryInStep` of
the counters of bus and memory, `WordsInv` of the words. `CoherenceProofs` extends
it and `BusProtocolProofs`, and the chain of proof modules goes on from there.

A few definitions are marked as slips: they are the definition beside them with
one plausible mistake, and are there to show that a property notices it.

**Instructions** has the sizes of a word, of an immediate, of the program counter
and of the register file as constants, and **OpcodeHandlers** one operator per kind of
function: `Result` what an operation writes, cut to a word, `Taken` whether a
branch is taken, `Target` where it goes.

**Pipeline** is one core. The stages run from FETCH to WRITE_BACK, so that each
reads the registers before WRITE_BACK writes them: a cycle is one simultaneous
assignment, each stage an operator of the state before.

| Definition | Code |
|---|---|
| `DataHazard`, `HazardWith`, `ChecksRd` | `checkfor_data_hazards` (335-387) |
| `Fetches`, `Runs(s)` | which stages `execute_pipe_stages` runs (304-330) |
| `fetch`, `decode`, `execute`, `mem`, `writeback` | the five stages (159-279) |
| `NextPc`, `Stored` | what FETCH and a branch do to `pc`, MEM to the memory |
| `ShiftedStages`, `Pipe_Bubbles` | the shift of the stages (124-154) |
| `update_tracking_info`, `stats_update` | the counters |
| `CycleServed`, `CycleRefused` | a cycle whose access, if any, is served or refused |
| `CoreHalts`, `CoreIsHalted` | `core_run_single_cycle` of a core that is done (87-94) |

`data_stall'` is the hazard check of the cycle, `mem_stall` the flag the last one
left and `mem_stall'` the one MEM leaves; the conjuncts read the one the code has
at that point. An operation that was never decoded calls a null pointer, and the
model stops there (`CallsNull`), which deadlock checking and `ProgramHalts` see.

**InstructionSet** is the machine a program is written for: one instruction at a
time, with the instruction after a branch run before its target. Its arithmetic is
stated apart from the code's (`Congruent`, `WordOf`, `Halved`). What a jump leaves
in the last register is left open, so that `ImplementsISA` says nothing of it;
that it should be the place to come back to is stated by itself (`JumpsLink`,
finding `jump_and_link`). In `PipelineCorrectness` an instruction takes effect
when it leaves MEM, with the access of a load or store in the memory and its
result in WRITE_BACK. So `AbstractRegisters` counts what WRITE_BACK is about to
write as written. `AbstractPc` is the place of the oldest instruction that has not
taken effect, that of MEM or else `InExecute`, `InDecode`, `AtFetch`, each of
which is the place of its stage or else the next in the chain; `AbstractNpc` is
the one behind it. A place of a HALT, and every place behind one, is `Halted`.
`AtFetch` is what DECODE takes next, which is in FETCH while an access waits and
DECODE has run, and otherwise still at `pc`. `AbstractExecuted` takes the
instructions still in the stages off the counter of the code.
`PipelineCorrectness` also says what a program must be like (`ProgramFits`,
`ProgramsKeepRegisterZero`).

**PipelineOrder** says what the stages hold between two cycles of such a
program, `InOrder`: instructions of the program (`Placed`), in the order in which
the program runs them (`Followed`), none behind one whose result it would miss
(`Interlocked`), with the values they should carry (`Results`).

### Modelling decisions

- *A stalled access is presented again unchanged.* The MEM stage recomputes the
  address and the data from the registers in each cycle, and WRITE_BACK writes one
  of them after the first. They stay the same for programs that fit the pipeline,
  for which no instruction in WRITE_BACK writes what the one in MEM reads
  (`Interlocked`, part of `InOrder`). The memory system is not modelled for
  a program that falls into a blind spot of the hazard check, with an access
  behind a jump whose link it uses, or a store behind a store whose data it does
  not wait for: its operands may change between the first refusal and the second.
- *Addresses have 20 bits*: tag, index and offset. A program is taken to compute no
  larger one. With one the code does worse than drop the upper bits: the cache
  drops them from the tag, and the bus keeps them in `bus_addr`, with which the
  memory is indexed (`CacheController.c:125`, `MainMemory.c:82`).
- *Immediates are narrower than words*: the field has 12 bits, and is put into
  register 1 with zeroes in front (`sim.h:25`, `PipelineController.c:290`), not with
  its sign. `Immediate` is the set of its values, `ImmBits` its width.
- *A stalled core does not halt*, so the loop of `main` goes on while anything
  waits; a halted core is one that only ever takes `Compute`.
- *The index outside `gTransactionStatePerCore`* (`BusController.c:253` with
  `invalid_caller`) touches memory the C text does not determine. `StrayWords` is
  the set of words of `mainMemory` that the build places there: one word in
  `bus_protocol`, none in the other runs.
- *Allocation of a queue entry succeeds.* The code ignores a failure.
- *All four programs have an instruction*, so that all four caches are registered,
  and no core is halted before it starts.
- *The pipeline's cache* is one memory that serves an access or refuses it, any
  number of cycles in a row up to `MaxRefusals` in a run. That the caches and the
  bus serve it as one memory would, and serve it in the end, is what the other half
  of the project checks (`SerialSpec`, `RequestsComplete`).
- *Register 1 has no state.* Each stage sets it to the immediate of its own
  instruction just before it reads its operands, so a reader sees that immediate
  and never what another instruction left.
- *Opcodes 18, 19 and those above 20* are in no program: the table ends before them.
- *Shifts* by the width of a word or more, undefined in C, take the amount modulo
  the width, as the build's processor does.
- Left out because nothing modelled reads them: hit and miss counters, traces.

## 3. The runs

The runs of the memory system use `MCMemorySystem`, those of the pipeline
`MCPipeline`; those whose programs keep the hypotheses of the coherence theorems
use `MCCoherence`, in which TLC evaluates these hypotheses before it starts. Blocks
have two words and the delay is one iteration unless noted: a block of two words
has a first, and a last word that completes the transaction, and a delay of one
has an iteration of waiting. Two addresses conflict when they share the index and
differ in the tag.

| Run | Instance | Shows |
|---|---|---|
| `bus_protocol` | 2 cores, two blocks of one line; each core stores to both and loads one; the stray word of an idle bus is a word of the memory | `TypeOK`, `BusProtocol`, `QueueBounded`, `TransactionsComplete` |
| `mixed_blocks` | 3 cores, 4 words, two lines: one block that all share, loads and stores of its last word, and private blocks that evict each other | `SWMR`, `CleanLinesAgree`, `LinesInv`, `WordsInv`, `SerialSpec` |
| `private_blocks` | 2 cores, one line, no sharing, dirty evictions; 4 words, delay 16 | `OnlyStoredWords`, `SerialSpec`, `RequestsComplete` |
| `code_sizes` | 4 cores, 4 words, delay 16; one writer | `MemoryInStep`, `SomeRequestCompletes` |
| `pipeline` | one core, 15614 programs: every sequence of four instructions of a pool of eleven that keeps loads and stores apart, each followed by an epilogue that stores what they left; every operation on every pair of operands and every branch on every operand and immediate; loops that count a word of memory | `PipeTypeOK`, `ProgramFits`, `HazardsFound`, `InOrder`, `WaitsBeyondWriteBack`, `DecodedBeforeExecuted`, `HaltedCoreIsQuiet`, `CyclesAccounted`, `StallsOutlastRefusals`, `ImplementsISA`, `ProgramHalts` |

Bounds. Two cores are enough for a race for one block and for two owners of one
packet; three are needed for a reader beside a transfer between two others. Two
tags in one line give every eviction. One value besides zero is enough where the
question is whether a store is seen; two where the values of two blocks must not
be mixed up. `code_sizes` shows that the parameters set to the sizes of the build
behave as the small ones do. No counter is unbounded: the queue is bounded by the
protocol (a property, not a constraint) and the memory's counter by `TypeOK`. No
run uses symmetry, because the order of the cores matters to the code.

Words of four bits (`WordBits`) make every pair of operands of every operation
small enough to enumerate, and have a sign and overflow; immediates of three bits
(`ImmBits`) are narrower than words, as in the code, so that `Set` puts a word
into a register by three additions. `PcBits` of four leaves targets three bits, as
many as the programs need, and `NumRegs` of five has two general registers beside
the one that JAL writes. Four instructions in a row are all that can meet in
DECODE, EXECUTE, MEM and WRITE_BACK; the pool has an operation that depends on
itself and one that depends on another, loads and stores at a fixed and at a
computed address, branches that go both ways, a jump, a HALT and a no-op. Two
refusals (`MaxRefusals`) give a load and the access behind it a stall each, or one
of them a stall of two cycles.

Deadlock is checked in every run: the loop can always go on, a halted core by
being passed over.

Fairness. `FairSpec` is weak fairness of `Next` as a whole: the loop of `main`
never waits for anything, so it takes its next step. Nothing is assumed of a
single core: a core whose access is not pending need not present one. In the
pipeline `Next` is a cycle of the core, which `main` runs until it halts, and a
cache that refuses `MaxRefusals` times serves afterwards.

Where the shared memory is checked, the workload says what must be avoided for it
to hold, and the runs of the next section show that it must. By
`StoresEndSharedBlocks` a program stores only the last word of a block that two
cores access, so that no store can hit a word that has already been transferred;
by `SharedBlocksStay` a core that accesses such a block accesses no other of its
line, so that it is never evicted. `mixed_blocks`, `private_blocks` and
`code_sizes` keep both. `store_during_flush` breaks the first only,
`eviction_race` and `self_snoop` the second as well, and the property that each of
them violates is one that a theorem states. `mixed_blocks` has both kinds of block
in one instance and is the one that fills and evicts lines around a shared block,
with a third core beside a transfer between two, so it is where the inductive
invariants are checked: every conjunct of them has states there in which its
precondition holds. `code_sizes` asks only that some core gets on, since a single
reader may be starved: the store takes the block away before the reader's turn.

So it is with the pipeline: `SafePrograms` are those that are `Spaced` (behind a
load or store no instruction waits only for the one in front of that) and whose
stores keep apart (`StoresApart`), 12090 of the 14641 sequences of the pool. The
first condition is for `WaitsBeyondWriteBack`, the second for `StoreDataAwaited`.
The other sequences are the programs of `hidden_stall` and `store_after_store`. The
safe ones also write register 0 only with zero, keep branch targets within the mask,
and read the link of a jump once it is written. What the theorems assume of a
program is checked of all of them: `ProgramFits`, `WaitsBeyondWriteBack` and
`StallsOutlastRefusals` as properties of the run,
`ProgramsKeepRegisterZero` and `OperationsAgree` by `ASSUME ProgramsFit` of
`MCPipeline`, before the run starts.

## 4. Where the code does not do what its comments say

Each is a run that TLC ends with a counterexample. All were also reproduced with
programs for the compiled simulator.

- `store_during_flush` (`CacheController.c:311`). The owner of a block that
  another core reads stays MODIFIED, and its cache open, until the last word is
  transferred. A store that hits an earlier word succeeds, is not transferred and
  is not written back. Both caches end SHARED with different words.
- `eviction_race` (`CacheController.c:106`). An eviction carries one word for the
  block, the one at the offset of the *new* address. That is harmless while the
  line is still MODIFIED when the eviction is granted, since the core then snoops
  its own flush and supplies each word. If another core's request was queued
  before, the line is no longer MODIFIED and the one word is written four times.
- `self_snoop` (`CacheController.c:296`). A line that is evicted dirty stays
  MODIFIED, and the first word of its refill sets the new tag: the caller then owns
  the block it asks for. It ignores its own packet only while that is not a flush,
  and an owner asked before it has turned it into one, so it answers itself with
  the words of the evicted block and stays MODIFIED beside the former owner:
  `SWMR` fails. In the compiled simulator core 0 stores 11 to words 0 to 3, core 1
  stores 99 to 0x100 to 0x103, then loads words 0, 1, 2 and reads 11, 99, 99.
- `store_livelock` (`BusController.c:253`). A store miss asks for its block with
  busRdX. The other caches give the block up in the first snoop, so the line arrives
  EXCLUSIVE; but the core is still `finally`, and its cache closed, until the next
  iteration of the bus. That iteration releases the core and in the same call grants
  the busRdX that the other core has queued, whose first snoop invalidates the line
  before the core's turn. So the store misses again and queues its request behind
  the other's, and each of two stores takes the block from the other for ever. An
  upgrade would get through: the entry of `invalid_caller` behind it costs the bus
  the iteration that releases the core. A miss has no such entry.
- `jump_and_link` (`PipelineController.c:268`). "Jump and link" saves no place to come
  back to: what WRITE_BACK puts into the last register is the value of `rd`, the
  target. In the compiled simulator a jump at 5 to the place 10 leaves 10 in
  register 15; the instruction behind the one that runs before the target is at 7.
- `hidden_stall` (`PipelineController.c:308`). An access is refused in the very
  cycle in which the hazard check stalls DECODE. While the access waits the
  instruction in WRITE_BACK leaves and ends the hazard, so that when it is served
  the stages shift though DECODE has not run: an addition calls a null pointer in
  EXECUTE, a branch is not taken, and the instruction behind is fetched
  twice. In the compiled simulator `add r2; lw r3; add r4, r2, r2`, the
  load being a miss, ends with a segmentation fault.
- `store_after_store` (`PipelineController.c:361`). For a store in DECODE the
  hazard check leaves out its data register when the WRITE_BACK slot holds the
  opcode of a store, even an old one in an empty slot. In the compiled simulator
  `sw; nop; add r5 = 9; sw r5` stores the value r5 had before.

Smaller things met on the way, without a run of their own:

- A branch keeps nine bits of its target (`0x1FF`), where the comments say ten
  (`OpcodeHandlers.c:82`): the upper half of the instruction memory is reached only
  in a straight line. `ImplementsISA` fails for a program with such a target.
- A jump writes its link to the last register, and the hazard check looks at the
  `rd` of its instruction: the link is not waited for.
- A result written to register 0 stays there.
- A modified line of another block at the same index makes the memory answer a
  request without its delay (`CacheController.c:278` asks for the state whatever the
  tag). The words are right.
- After an idle iteration the caller is `invalid_caller`, and the code reads, and
  may clear, a word far outside the four states (`BusController.c:253`).
  In `bus_protocol` that word is one of main memory: the bookkeeping of the bus, which
  does not look at the memory, is not disturbed, and the word is lost. No property
  of a run catches the loss, and the theorems about words exclude it
  (`StrayWords = {}`).
- After HALT is decoded a cycle may still count as a stall of decode, and the
  fetching of the instruction behind HALT counts as an instruction, which
  `Print_tracking_info` takes off again.

## 5. What is proved

For every number of cores, block size, delay, set of tags, indices and values,
initial memory and program, from the assumptions named in `SimTypes` and
`MemorySystem`, and for every width, program and cache from those in
`Instructions` and `Pipeline`:

- `MemorySystemProofs!TypeCorrect`: `Spec => []TypeOK`. Two parts are not mere
  typing. The word index never leaves the block, because the transaction
  completes at the last word. And a busy memory has not counted past its last
  cycle, so the test for equality with that cycle (`numOfCycles == 19`) cannot be
  missed.
- `BusProtocolProofs!BusProtocolInvariant`: `Spec => []BusProtocol`. The invariant
  is inductive relative to `TypeOK`, and its parts need each other. That a core is
  not queued twice (`OneRequestPerCore`) needs that it is not idle while it is
  queued (`QueuedCoreIsBusy`). The bus sets a core idle when a transaction ends,
  so that needs that a granted core has no other entry but the request behind its
  eviction (`GrantedCoreHasNoOther`), which is granted in the very iteration that
  releases the eviction: `EvictionThenRequest`; and that the entry of
  `invalid_caller` comes behind a busRdX: `DelayFollowsRequest`.
  `AskPreservesProtocol` is the step of a cache that adds entries, `GrantProtocol`
  and `ContinueProtocol` those of the bus.
- `QueueBoundProofs!QueueBoundInvariant`: `Spec => []QueueBounded`, from the two
  theorems before. By `DelayFollowsRequest` each entry belongs to a core, the
  entry of `invalid_caller` to the core queued before it, and by
  `OneRequestPerCore` and `EvictionThenRequest` a core has at most two. So entries
  map one to one into `0 .. 2 * NumCores - 1`, and there are no more of them.
- `PipelineProofs!HaltedIsQuiet` and `CyclesAreAccounted`: `Spec => []HaltedCoreIsQuiet`
  and `Spec => []CyclesAccounted`, for every program, those of the findings
  included. Both follow from `PipelineInv`. A halted core waits for no access
  because a stalled pipeline still holds its access in MEM (`HeldAccess`), and
  holds no instruction because it is flushed. The counters need more: while
  nothing has decoded HALT, a cycle is counted by the stall flags of the cycle
  before and by those it sets, so one stall is counted ahead
  (`Uncounted` is -1 or 0 by the flags); afterwards cycles go uncounted only while
  the pipeline drains, and each of those takes every instruction one stage on.
  `Depth`, the number of such cycles still to come, plus `Uncounted` stays within
  three (`Draining`). That nothing follows HALT (`NothingFollowsHalt`) makes
  `Depth` fall. `StagesMove` and `CountersMove` say once what a cycle does to the
  stages and to the counters, and `Shaped` keeps the shape of the records they
  speak of.
- `PipelineProofs!DecodedFirst`: `Spec /\ StallsOutlastRefusals =>
  []DecodedBeforeExecuted`, and `NeverCallsNull`: under the same condition no null
  pointer of the operation table is called. The condition is on the behaviour: a
  stall of DECODE found while an access waits is found in every cycle until the
  access is served. Without it `hidden_stall` is a counterexample; the run
  `pipeline` checks it of every program it runs. The theorem says that forgetting
  such a stall is the only way to execute what was not decoded. The invariant is
  `DecodeReady`: while an access waits and DECODE is not stalled, DECODE has run,
  namely in the cycle that presented the access first.

- `InstructionSetProofs!HazardsAreFound`: `Spec /\ []ProgramFits => []HazardsFound`.
  DECODE waits for whatever an instruction in EXECUTE, MEM or WRITE_BACK has still
  to write when it would read it. The hazard check compares an `rd` that the
  instruction may not write, and the opcode of a slot that may be empty; the
  argument (`HazardCheck`) leaves it just two blind spots, and those are the
  hypotheses `LinkAwaited` (the link of a jump) and `StoreDataAwaited` (the data of
  a store, behind a store).
- `InstructionSetProofs!StallsLast`: `Spec /\ []WaitsBeyondWriteBack =>
  StallsOutlastRefusals`. When an access is refused only WRITE_BACK is emptied; a
  hazard found with EXECUTE or MEM is found again in every cycle of the wait. So
  the one way to forget a stall of DECODE is that it waited for WRITE_BACK alone
  while an access was in MEM, which a program can see from its own instructions.
- `InstructionSetProofs!StagesInOrder` and `InstructionSetImplemented`: with the
  hypotheses below, `[]InOrder` and `ImplementsISA`: whatever the program, the
  width of a word, the size of the register file and the refusals of the cache,
  the pipeline runs as one instruction at a time, but for the link of a jump, which
  may be any word. The argument follows an
  instruction through the stages. `HazardsFound` holds when it is in DECODE; it
  goes on as `Interlocked` in EXECUTE and MEM, since a stage behind it that is
  stalled does not overtake it and a bubble between two instructions depends on
  neither. So what a stage reads in the register file is what the abstract
  registers hold when its instruction takes effect, though WRITE_BACK writes later
  and an access may wait in between (`ReadsRight`), and what it computes then is
  `Results`. `Results` gives the direction and the target of a branch, hence
  `Followed`: the instruction fetched behind it is its delay slot and the next one
  its target, neither dropped nor repeated by a stall. When the instruction leaves
  MEM, the four facts make the cycle a step of the instruction set
  (`InstructionRuns`); in every other cycle, bubbles and refusals included,
  nothing abstract changes (`InstructionWaits`, `StutterStays`). `OrderInv` is
  `InOrder` with the types it needs; it is inductive together with `PipelineInv`
  and `DecodeInv`.
- `InstructionSetProofs!StaysTyped`: `PipeTypeOK`, while the program counter stays in
  its range and no stall is forgotten. Results are cut to a word before they are
  stored, targets to the program counter, and no stage writes register 1.

The hypotheses of the last two points:

| Hypothesis | What it asks | Why |
|---|---|---|
| `StallsOutlastRefusals`, or `[]WaitsBeyondWriteBack` | a stall of DECODE lasts while an access waits | `hidden_stall` is a counterexample without it |
| `LinkAwaited`, `StoreDataAwaited` | no instruction falls into a blind spot of the hazard check | `store_after_store`, for the second |
| `PcInReach`, `OperandsInReach` | `pc` does not run off its width, branch targets are within the mask, shifts below the width | the code cuts targets to nine bits; C leaves such shifts undefined |
| `ProgramsKeepRegisterZero` | register 0 is only ever written with zero | the code stores a result there like any other |
| `BitOperationsAgree` | AND, OR, XOR and the two right shifts are those of the instruction set | a recursive sum over bits, out of the provers' reach; TLC evaluates it |

The first four are conditions on the program that runs, the last on the operators
of `OpcodeHandlers` and `InstructionSet` only. That addition, subtraction,
multiplication and the shift to the left agree is proved for every width
(`ArithmeticAgrees`).

For programs that keep the hypotheses of section 3:

- `CoherenceProofs!LinesInvariant` and `Coherent`: with `SharedBlocksStay`,
  `Spec => []LinesInv` and `Spec => []SWMR`. The hypothesis is needed: `self_snoop`
  violates `SWMR` without it. `SWMR` is not inductive. A store that hits must find
  no other holder, and a block becomes EXCLUSIVE or MODIFIED in the last iteration
  of its request, so the argument follows a request from the queue to that
  iteration. A request is never for a block its core may write already
  (`RequestsNotOwned`); what is held, asked for or waited for belongs to the core's
  program (`HeldInProgram`, `AskedInProgram`, `PendingInProgram`), so that a line of
  another block is private by the hypothesis; an eviction still owns its block when
  it is granted, and nobody else asks for it (`EvictionsOwned`), which is where
  `eviction_race` goes wrong; and the line being filled, which has its new tag and
  its old state, may be EXCLUSIVE or MODIFIED only if the new block is private too
  (`FilledLinePrivate`), so no other cache is deceived by it. `SnoopedLines` says what
  an iteration does to every line; then there is one lemma for each action of the
  bus and of a core.
- `WordProofs!CountersInStep`: `Spec => []MemoryInStep`, with no hypothesis. The
  memory and the bus count the words of a transaction in two files, and agree.
- `WordProofs!WordsInvariant` and `CleanLinesCorrect`: with `SharedBlocksStay`,
  `StoresEndSharedBlocks` and no stray word in memory (`StrayWords = {}`),
  `Spec => []WordsInv` and `Spec => []CleanLinesAgree`. A clean line is made in the
  last iteration, from words that were transferred one by one before: each of them
  agrees in the caller's line, the owner's line and main memory from its iteration
  on (`TransferredAgree`). A store that hits in between keeps to the last word,
  which is not transferred yet; `store_during_flush` breaks just this.
  `SnoopedBlock` says that no third cache supplies another word later. A line that
  is evicted dirty is in main memory before it is overwritten: `DirtyLineSaved`
  and `FlushedSaved`. `RequestWordWords` and `EvictionWordWords` are
  the steps of the bus that transfer a word, `StoreHitWords` the store in between.
- `SerialProofs!SerialMemoryImplemented`: with the same hypotheses,
  `Spec => SerialSpec`. The mapping takes the word of an address from its owner and
  otherwise from main memory; by `LinesInv` there is at most one owner, so the
  choice is a value (`SeenWords`). The initial memory is the initial memory. A
  step of the bus is a stutter, though it moves words between caches and memory,
  gives ownership away and takes it: each address keeps its word
  (`BusKeepsMemory`), since `WordsInv` has what is moved agree. A core's step is a
  `Load` of the word the mapping shows, a `Store` of one word and no other, or a
  `Wait`.
- `SerialProofs!OnlyStoredWordsKept`: with the same hypotheses,
  `Spec => []OnlyStoredWords`, the property that `eviction_race` violates. A flush
  writes to main memory the word the mapping shows at that address
  (`FlushedWordSeen`), and that one was stored there.

All hypotheses are conditions on the programs (`Requests`), and on the build in
`StrayWords = {}`. Programs that keep them exist for every number of cores, and
TLC evaluates them for the three instances of `MCCoherence`.

Only model-checked:

- `ProgramFits` and `WaitsBeyondWriteBack`, which are conditions on programs, and
  `BitOperationsAgree`, for words of four bits.
- The properties under fairness: `TransactionsComplete`, `RequestsComplete`,
  `SomeRequestCompletes` and `ProgramHalts`.

## 6. Not modelled

- The start of the simulator and its end: reading files, a core without
  instructions (it is halted before its cache is registered, and the bus calls
  every cache), the end of the loop, shutdown and printing. Traces and memory
  images are file output.
- Hit and miss counters, with the two flags that all caches share: nothing but the
  printed statistics reads them.
- A failed allocation of a queue entry, which the code ignores, and the links of
  the list; the queue is the sequence it holds.
- `FilesManager.c` opens and closes files. The assembly tests are inputs and
  expected outputs; project files and binaries hold nothing to model.

## 7. Plan

Done: the memory system, its bookkeeping, coherence and the serial memory; the
opcodes, the pipeline and the core against the instruction set. Every safety
property of theirs is proved, under the hypotheses of section 5. Next:

1. A syntactic condition on programs (`Spaced`, `StoresApart`) proved to keep
   `WaitsBeyondWriteBack` and `StoreDataAwaited`.
2. `QueueList`: the doubly linked list with its allocation implements the
   sequence of `BusQueue`.
3. `CacheStats`: the counters with the two shared flags.
4. `Simulator`: start-up with empty programs, halting, the end of the loop.
