------------------------------ MODULE Coherence ------------------------------
(***************************************************************************)
(* What the memory system must guarantee: the bookkeeping of the bus, the  *)
(* coherence of the caches, and that together they are one shared memory.  *)
(***************************************************************************)
EXTENDS MemorySystem

-----------------------------------------------------------------------------
(* Vocabulary.                                                             *)

(* Core c's line i is being filled: it has its new tag, some of its new    *)
(* words, and still its old state.                                         *)
Filling(c, i) ==
    /\ gIsBusTransactionActive
    /\ gOngoingTransaction.origid = c
    /\ gOngoingTransaction.bus_cmd # "flush"
    /\ gOngoingTransaction.bus_addr.index = i
    /\ gBusAddrOffset > 0

(* Core c holds line i in one of states, and the line is not being filled. *)
Settled(c, i, states) == tsram[c][i].mesi \in states /\ ~ Filling(c, i)

(* The shared memory the cores see: a word is in the cache that owns its   *)
(* block, or else in main memory.                                          *)
CoherentMemory ==
    [a \in Addr |->
        LET owners == {c \in Cores : Owns(c, a) /\ ~ Filling(c, a.index)}
        IN  IF owners = {} THEN mainMemory[a]
            ELSE Word(CHOOSE c \in owners : TRUE, a)]

Serial == INSTANCE SerialMemory WITH store <- CoherentMemory

-----------------------------------------------------------------------------
(* Properties.                                                             *)

(* Single writer or many readers: while one cache may write a block        *)
(* without asking (EXCLUSIVE or MODIFIED), no other cache holds it.        *)
SWMR ==
    \A c, d \in Cores : \A i \in Indices :
        /\ c # d
        /\ Settled(c, i, {"EXCLUSIVE", "MODIFIED"})
        /\ Settled(d, i, {"SHARED", "EXCLUSIVE", "MODIFIED"})
        => tsram[c][i].tag # tsram[d][i].tag

(* A line that would be dropped without a flush (SHARED or EXCLUSIVE)      *)
(* agrees with main memory, word by word.                                  *)
CleanLinesAgree ==
    \A c \in Cores, i \in Indices :
        Settled(c, i, {"SHARED", "EXCLUSIVE"}) =>
            \A o \in Offsets :
                dram[c][i][o] = mainMemory[WordAt(tsram[c][i].tag, i, o)]

(* What the word at a may be: a word it held at the start, or what some    *)
(* core stores to that very word.                                          *)
WordsOf(a) ==
    {m[a] : m \in InitialMemory}
    \union {r.data : r \in {q \in UNION {Requests[c] : c \in Cores} :
                               q.op = "SW" /\ q.addr = a}}

(* "write data to memory" (process_memory_command), "write back"           *)
(* (CacheController.c, header): a word of main memory holds what it held   *)
(* at the start or what some core stores to that very word.                *)
OnlyStoredWords == \A a \in Addr : mainMemory[a] \in WordsOf(a)

(* The caches, the bus and the memory implement one shared memory: a store *)
(* is seen by every later load of any core, a load returns the word stored *)
(* last, and nothing but a store changes a word.                           *)
SerialSpec == Serial!Spec

(* Every load and store a core waits for completes.                        *)
RequestsComplete ==
    \A c \in Cores : pending[c] # NoRequest ~> pending[c] = NoRequest

(* The cores do not stall each other for ever: when all of them wait, one  *)
(* of them gets on.                                                        *)
SomeRequestCompletes ==
    (\A c \in Cores : pending[c] # NoRequest)
        ~> (\E c \in Cores : pending[c] = NoRequest)
=============================================================================
