------------------------- MODULE CoherenceInvariant -------------------------
(***************************************************************************)
(* Why the caches stay coherent: what the programs must respect, and the   *)
(* inductive invariants behind SWMR, CleanLinesAgree and SerialSpec.  The  *)
(* proofs are in CoherenceProofs, WordProofs and SerialProofs.             *)
(***************************************************************************)
EXTENDS Coherence, BusProtocol

-----------------------------------------------------------------------------
(* What the programs must respect.                                         *)

(* Some access of core c's program is to this block.                       *)
Accesses(c, tag, i) ==
    \E r \in Requests[c] : r.addr.tag = tag /\ r.addr.index = i

(* No other core's program accesses the block.                             *)
Private(c, tag, i) == \A d \in Cores \ {c} : ~ Accesses(d, tag, i)

(* A core that accesses a block another core accesses too accesses no      *)
(* other block of that line: shared blocks are never evicted.              *)
SharedBlocksStay ==
    \A c \in Cores, i \in Indices, tag, other \in Tags :
        Accesses(c, tag, i) /\ Accesses(c, other, i) =>
            other = tag \/ Private(c, tag, i)

(* The last word is the only one stored of a block two cores access.       *)
StoresEndSharedBlocks ==
    \A c \in Cores : \A r \in Requests[c] :
        r.op = "SW" =>
            r.addr.offset = LastOffset \/ Private(c, r.addr.tag, r.addr.index)

-----------------------------------------------------------------------------
(* Vocabulary.                                                             *)

Queued == {queue[i] : i \in Position}

(* The transactions that are queued or in progress, and those of which no  *)
(* word has been transferred yet.                                          *)
Undone ==
    Queued \union IF gIsBusTransactionActive THEN {gOngoingTransaction} ELSE {}

Unserved ==
    Queued \union IF gIsBusTransactionActive /\ gBusAddrOffset = 0
                  THEN {gOngoingTransaction} ELSE {}

IsRequest(t)  == t.bus_cmd \in RequestCommands
IsEviction(t) == t.bus_cmd = "flush"

RequestInProgress  == gIsBusTransactionActive /\ IsRequest(gOngoingTransaction)
EvictionInProgress == gIsBusTransactionActive /\ IsEviction(gOngoingTransaction)

(* The block of the address a.                                             *)
AccessesBlockOf(c, a) == Accesses(c, a.tag, a.index)
PrivateBlockOf(c, a)  == Private(c, a.tag, a.index)

-----------------------------------------------------------------------------
(* The states of the lines.                                                *)

(* What a core waits for, what it asks for and what its cache holds are    *)
(* blocks of its program.                                                  *)
PendingInProgram == \A c \in Cores : pending[c] # NoRequest => pending[c] \in Requests[c]

HeldInProgram ==
    \A c \in Cores, i \in Indices :
        tsram[c][i].mesi # "INVALID" => Accesses(c, tsram[c][i].tag, i)

AskedInProgram ==
    \A t \in Undone :
        t.origid \in Cores => AccessesBlockOf(t.origid, t.bus_addr)

(* The block of an eviction is still the owner's, and nobody else's.       *)
EvictionsOwned ==
    \A t \in Undone :
        IsEviction(t) =>
            Owns(t.origid, t.bus_addr) /\ PrivateBlockOf(t.origid, t.bus_addr)

(* A core asks for a block it does not hold, or holds SHARED.              *)
RequestsNotOwned ==
    \A t \in Unserved :
        IsRequest(t) /\ Line(t.origid, t.bus_addr).tag = t.bus_addr.tag =>
            Line(t.origid, t.bus_addr).mesi \in {"INVALID", "SHARED"}

(* A line that is being filled has its new tag with the state of the block *)
(* it replaces; that state is EXCLUSIVE or MODIFIED only in a line whose   *)
(* blocks are the core's own.                                              *)
FilledLinePrivate ==
    LET t == gOngoingTransaction
    IN  RequestInProgress /\ gBusAddrOffset > 0 =>
            /\ Line(t.origid, t.bus_addr).tag = t.bus_addr.tag
            /\ Line(t.origid, t.bus_addr).mesi \in {"EXCLUSIVE", "MODIFIED"} =>
                   PrivateBlockOf(t.origid, t.bus_addr)

(* The caches hold, ask for and evict blocks of their own programs only.   *)
(* An eviction owns its block until it is written back, a request is never *)
(* for a block its core may write already (handle_dirty_block,             *)
(* update_cache_read, update_cache_write), and the new tag of a line being *)
(* filled beside its old state (cache_response_handle) deceives nobody.    *)
LinesInv ==
    /\ PendingInProgram
    /\ HeldInProgram
    /\ AskedInProgram
    /\ EvictionsOwned
    /\ RequestsNotOwned
    /\ FilledLinePrivate
    /\ SWMR

-----------------------------------------------------------------------------
(* The words.                                                              *)

(* The memory is free between transactions, and the cycle it counts is the *)
(* word the bus is at: two counters that two files keep, numOfCycles in    *)
(* MainMemory.c (bus_transaction_handler) and gBusAddrOffset in            *)
(* BusController.c (Run_Bus_Iteration).                                    *)
MemoryInStep ==
    /\ ~ gIsBusTransactionActive => ~ gIsMemoryBusy
    /\ gIsBusTransactionActive /\ gBusAddrOffset > 0 =>
           gIsMemoryBusy /\ numOfCycles = MemDelay + gBusAddrOffset
    /\ gIsBusTransactionActive /\ gBusAddrOffset = 0 /\ gIsMemoryBusy =>
           numOfCycles <= MemDelay

(* Once a request has been snooped, no other cache holds the block         *)
(* EXCLUSIVE, and if the memory delay was started, none owns it.           *)
SnoopedBlock ==
    LET t == gOngoingTransaction
    IN  RequestInProgress /\ gIsMemoryBusy =>
            \A d \in Cores \ {t.origid} :
                Line(d, t.bus_addr).tag = t.bus_addr.tag =>
                    /\ Line(d, t.bus_addr).mesi # "EXCLUSIVE"
                    /\ gBusAddrOffset = 0 => Line(d, t.bus_addr).mesi # "MODIFIED"

(* Word o of core c's line i is in main memory, at the address of its tag. *)
WordSaved(c, i, o) == dram[c][i][o] = mainMemory[WordAt(tsram[c][i].tag, i, o)]

(* The words a request has transferred are the same in the caller's line,  *)
(* in the owner's line and in main memory.                                 *)
TransferredAgree ==
    LET t == gOngoingTransaction
    IN  RequestInProgress =>
            \A o \in Offsets, d \in Cores :
                /\ o < gBusAddrOffset
                /\ d = t.origid \/ Owns(d, t.bus_addr)
                => WordSaved(d, t.bus_addr.index, o)

(* The words an eviction has transferred are in main memory.               *)
FlushedSaved ==
    LET t == gOngoingTransaction
    IN  EvictionInProgress =>
            \A o \in Offsets :
                o < gBusAddrOffset => WordSaved(t.origid, t.bus_addr.index, o)

(* A dirty line that a request will replace has an eviction to come, or is *)
(* in main memory.                                                         *)
DirtyLineSaved ==
    \A t \in Unserved :
        /\ IsRequest(t)
        /\ Line(t.origid, t.bus_addr).mesi = "MODIFIED"
        => \/ \E e \in Undone :
                 /\ IsEviction(e)
                 /\ e.origid = t.origid
                 /\ e.bus_addr.index = t.bus_addr.index
           \/ \A o \in Offsets : WordSaved(t.origid, t.bus_addr.index, o)

(* A word agrees in the caller's line, the owner's line and main memory    *)
(* from the iteration that transfers it, and no dirty line is replaced     *)
(* before it is in main memory (snooped_transaction, flush_data,           *)
(* process_memory_command, handle_dirty_block).                            *)
WordsInv ==
    /\ SnoopedBlock
    /\ TransferredAgree
    /\ FlushedSaved
    /\ DirtyLineSaved
    /\ CleanLinesAgree
=============================================================================
