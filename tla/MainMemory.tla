----------------------------- MODULE MainMemory -----------------------------
(***************************************************************************)
(* MainMemory.c: the words of main memory and the counter that paces a     *)
(* transaction.  A transaction that finds the memory free starts the       *)
(* counter at 0, or at MemDelay when a cache supplies the block (a         *)
(* "direct" transaction); one word is then served in each iteration from   *)
(* MemDelay on, and the iteration that serves at MemDelay + BlockSize - 1  *)
(* frees the memory (16 and 19 in the code).                               *)
(*                                                                         *)
(* bus_transaction_handler is a callback of the bus, so its state changes  *)
(* are the conjuncts MemoryWaits and MemoryServes of the bus's actions.    *)
(***************************************************************************)
EXTENDS SimTypes

CONSTANT InitialMemory  \* the memory images memin.txt may hold

VARIABLES
    mainMemory,     \* mainMemory[word]
    numOfCycles,    \* numOfCycles
    gIsMemoryBusy   \* gIsMemoryBusy

memoryVars == <<mainMemory, numOfCycles, gIsMemoryBusy>>

(* The cycle that serves the last word.                                    *)
LastCycle == MemDelay + BlockSize - 1

(* A busy memory has not served the last word yet.                         *)
MemoryTypeOK ==
    /\ mainMemory \in [Addr -> Value]
    /\ gIsMemoryBusy \in BOOLEAN
    /\ numOfCycles \in 0 .. LastCycle + 1
    /\ gIsMemoryBusy => numOfCycles <= LastCycle

MainMemoryInit ==
    /\ mainMemory \in InitialMemory
    /\ numOfCycles = 0
    /\ gIsMemoryBusy = FALSE

(* The counter once initialize_memory_transaction has run.                 *)
StartedCycles(direct) ==
    IF gIsMemoryBusy THEN numOfCycles ELSE IF direct THEN MemDelay ELSE 0

MemoryReady(direct) == StartedCycles(direct) >= MemDelay

(* A slip, which no specification here uses: a flush is not written.       *)
WrittenNever(t, memory) == memory

(* process_memory_command: the word a read is answered with, and the       *)
(* memory a flush leaves.                                                  *)
Reply(t, memory) ==
    IF t.bus_cmd \in {"busRd", "busRdX"}
    THEN NewTransaction(main_memory, "flush", t.bus_addr, memory[t.bus_addr])
    ELSE t

Written(t, memory) ==
    IF t.bus_cmd = "flush" THEN [memory EXCEPT ![t.bus_addr] = t.bus_data]
                           ELSE memory

(* bus_transaction_handler answers false: the delay is not over.           *)
MemoryWaits(t, direct) ==
    /\ t.bus_cmd # "no_cmd"
    /\ ~ MemoryReady(direct)
    /\ gIsMemoryBusy' = TRUE
    /\ numOfCycles' = StartedCycles(direct) + 1

(* A slip, which no specification here uses: the memory is never freed.    *)
MemoryServesNeverFrees(t, direct, memory) ==
    /\ t.bus_cmd # "no_cmd"
    /\ MemoryReady(direct)
    /\ mainMemory' = Written(t, memory)
    /\ gIsMemoryBusy' = TRUE
    /\ numOfCycles' = StartedCycles(direct) + 1

(* bus_transaction_handler answers true: a word is served.                 *)
MemoryServes(t, direct, memory) ==
    /\ t.bus_cmd # "no_cmd"
    /\ MemoryReady(direct)
    /\ mainMemory' = Written(t, memory)
    /\ gIsMemoryBusy' = (StartedCycles(direct) # LastCycle)
    /\ numOfCycles' = StartedCycles(direct) + 1
=============================================================================
