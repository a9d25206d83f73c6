---------------------------- MODULE MemorySystem ----------------------------
(***************************************************************************)
(* The caches, the bus and the main memory together, driven by the loop of *)
(* MultiCoreSim.c: one bus iteration, then one cycle of core 0, of core 1, *)
(* and so on.  A core is seen only through its MEM stage                   *)
(* (PipelineController.c, mem): in a cycle it presents a load or a store   *)
(* to its cache or does something else, and a load or a store the cache    *)
(* refuses is presented again in every later cycle until it succeeds.      *)
(*                                                                         *)
(* Which accesses a core may present is the parameter Requests; when it    *)
(* presents them is left open.                                             *)
(***************************************************************************)
EXTENDS CacheController, MainMemory

CONSTANTS
    Requests,    \* Requests[core]: the loads and stores of its program
    StrayWords   \* the words of mainMemory the build places where
                 \* gTransactionStatePerCore[invalid_caller] would be

ASSUME RequestsAssumption   == Requests \in [Cores -> SUBSET Request]
ASSUME StrayWordsAssumption == StrayWords \subseteq Addr
ASSUME MemoryAssumption     == InitialMemory \subseteq [Addr -> Value]

VARIABLES
    gOngoingTransaction,     \* the transaction granted last
    gIsBusTransactionActive,
    gBusAddrOffset,          \* the word of the block being transferred
    is_first_access_shared,
    pending,                 \* pending[core]: the access its MEM stage holds
    rd,                      \* rd[core]: the word its last load returned
    turn                     \* whose turn it is: a core, or NumCores, the bus

busVars  == <<gOngoingTransaction, gIsBusTransactionActive, gBusAddrOffset,
              is_first_access_shared>>
coreVars == <<pending, rd>>
vars     == <<cacheVars, queueVars, memoryVars, busVars, coreVars, turn>>

Bus == NumCores

TypeOK ==
    /\ CacheTypeOK
    /\ QueueTypeOK
    /\ MemoryTypeOK
    /\ gOngoingTransaction \in Transaction
    /\ gIsBusTransactionActive \in BOOLEAN
    /\ gBusAddrOffset \in Offsets
    /\ is_first_access_shared \in BOOLEAN
    /\ pending \in [Cores -> Request \union {NoRequest}]
    /\ rd \in [Cores -> Value]
    /\ turn \in Cores \union {Bus}

(* The C statics start zeroed: gOngoingTransaction names core 0.           *)
BusInit ==
    /\ gOngoingTransaction = NewTransaction(0, "no_cmd", ZeroAddr, 0)
    /\ gIsBusTransactionActive = FALSE
    /\ gBusAddrOffset = 0
    /\ is_first_access_shared = TRUE

Init ==
    /\ CacheInit
    /\ QueueInit
    /\ MainMemoryInit
    /\ BusInit
    /\ pending = [c \in Cores |-> NoRequest]
    /\ rd = [c \in Cores |-> 0]
    /\ turn = Bus

-----------------------------------------------------------------------------
(* Run_Bus_Iteration, one action per way through it.                       *)

(* It begins by releasing the core whose transaction is over.  When no     *)
(* transaction was granted last, gOngoingTransaction.origid is             *)
(* invalid_caller and the test and the assignment fall outside             *)
(* gTransactionStatePerCore: a word that lies there and holds the value    *)
(* of the enumerator finally becomes idle, 0.                              *)
FinallyWord == 3

(* A slip, which no specification here uses: the core is never released.   *)
ReleasedStatesNever == gTransactionStatePerCore

ReleasedStates ==
    [c \in Cores |-> IF /\ gOngoingTransaction.origid = c
                        /\ gTransactionStatePerCore[c] = "finally"
                     THEN "idle" ELSE gTransactionStatePerCore[c]]

ReleasedMemory ==
    [w \in Addr |-> IF /\ gOngoingTransaction.origid = invalid_caller
                       /\ w \in StrayWords
                       /\ mainMemory[w] = FinallyWord
                    THEN 0 ELSE mainMemory[w]]

(* Nothing queued and nothing in progress.                                 *)
BusIdle ==
    /\ turn = Bus
    /\ ~ gIsBusTransactionActive
    /\ queue = << >>
    /\ gOngoingTransaction' = [gOngoingTransaction EXCEPT !.origid = invalid_caller]
    /\ gTransactionStatePerCore' = ReleasedStates
    /\ mainMemory' = ReleasedMemory
    /\ turn' = 0
    /\ UNCHANGED <<cacheVars, queue, numOfCycles, gIsMemoryBusy,
                   gIsBusTransactionActive, gBusAddrOffset,
                   is_first_access_shared, coreVars>>

(* The next entry has no caller: it is dropped, and costs this iteration.  *)
BusDropInvalid ==
    /\ turn = Bus
    /\ ~ gIsBusTransactionActive
    /\ queue # << >>
    /\ Head(queue).origid = invalid_caller
    /\ queue' = Dequeued
    /\ gOngoingTransaction' = Head(queue)
    /\ is_first_access_shared' = TRUE
    /\ gTransactionStatePerCore' = ReleasedStates
    /\ mainMemory' = ReleasedMemory
    /\ turn' = 0
    /\ UNCHANGED <<cacheVars, numOfCycles, gIsMemoryBusy,
                   gIsBusTransactionActive, gBusAddrOffset, coreVars>>

(* The transaction this iteration works on: the one in progress, or the    *)
(* next entry, granted in this iteration.                                  *)
Serving ==
    /\ turn = Bus
    /\ ~ gIsBusTransactionActive => queue # << >> /\ Head(queue).origid # invalid_caller

Current       == IF gIsBusTransactionActive THEN gOngoingTransaction ELSE Head(queue)
CurrentOffset == IF gIsBusTransactionActive THEN gBusAddrOffset ELSE 0
FirstAccess   == gIsBusTransactionActive => is_first_access_shared

GrantedStates ==
    IF gIsBusTransactionActive THEN ReleasedStates
    ELSE [ReleasedStates EXCEPT ![Current.origid] = "operation"]

Grant ==
    /\ gOngoingTransaction' = Current
    /\ queue' = IF gIsBusTransactionActive THEN queue ELSE Dequeued

(* The local copy of the transaction, addressing the current word, and     *)
(* what the caches make of it.                                             *)
Packet        == [Current EXCEPT !.bus_addr.offset = CurrentOffset]
SnoopedPacket == Snooped(Current.origid, Packet)

(* Some cache may own the block: the first time, the bus lets a cycle pass.*)
OwnerAnnounced == IsModified(Current) /\ FirstAccess

BusWaitForOwner ==
    /\ Serving
    /\ OwnerAnnounced
    /\ Grant
    /\ gIsBusTransactionActive' = TRUE
    /\ gBusAddrOffset' = CurrentOffset
    /\ is_first_access_shared' = FALSE
    /\ gTransactionStatePerCore' = GrantedStates
    /\ mainMemory' = ReleasedMemory
    /\ turn' = 0
    /\ UNCHANGED <<cacheVars, numOfCycles, gIsMemoryBusy, coreVars>>

(* The caches snoop, the memory has no answer yet.                         *)
BusAwaitMemory ==
    /\ Serving
    /\ ~ OwnerAnnounced
    /\ MemoryWaits(SnoopedPacket, IsModified(Current))
    /\ Grant
    /\ gIsBusTransactionActive' = TRUE
    /\ gBusAddrOffset' = CurrentOffset
    /\ is_first_access_shared' = FirstAccess
    /\ gTransactionStatePerCore' = GrantedStates
    /\ mainMemory' = ReleasedMemory
    /\ tsram' = SnoopedTsram(Current.origid, Packet)
    /\ turn' = 0
    /\ UNCHANGED <<dram, coreVars>>

(* The caches snoop, the memory serves the word, and the caller's cache    *)
(* takes it.                                                               *)
BusTransferWord ==
    LET caller   == Current.origid
        response == Reply(SnoopedPacket, ReleasedMemory)
        complete == LastWordTaken(caller, response)
    IN  /\ Serving
        /\ ~ OwnerAnnounced
        /\ MemoryServes(SnoopedPacket, IsModified(Current), ReleasedMemory)
        /\ Grant
        /\ tsram' = FilledTsram(caller, response, IsShared(Current),
                                SnoopedTsram(caller, Packet))
        /\ dram' = FilledDram(caller, response)
        /\ gIsBusTransactionActive' = ~ complete
        /\ gBusAddrOffset' = IF complete \/ Ignored(caller, response)
                             THEN CurrentOffset ELSE CurrentOffset + 1
        /\ gTransactionStatePerCore' =
               IF complete THEN [GrantedStates EXCEPT ![caller] = "finally"]
                           ELSE GrantedStates
        /\ is_first_access_shared' = FirstAccess
        /\ turn' = 0
        /\ UNCHANGED coreVars

Run_Bus_Iteration ==
    \/ BusIdle
    \/ BusDropInvalid
    \/ BusWaitForOwner
    \/ BusAwaitMemory
    \/ BusTransferWord

-----------------------------------------------------------------------------
(* A cycle of core c, as its MEM stage.                                    *)

(* A refused access is presented again as it was.  The MEM stage reads its *)
(* operands anew in each cycle; none of them changes while it waits, as    *)
(* long as no instruction in WRITE_BACK writes what the one in MEM reads   *)
(* (Interlocked of PipelineOrder).                                         *)
Demand(c) == IF pending[c] = NoRequest THEN Requests[c] ELSE {pending[c]}

Presents(c, op, r) == turn = c /\ r \in Demand(c) /\ r.op = op

Stalls(c, r) ==
    /\ pending' = [pending EXCEPT ![c] = r]
    /\ turn' = c + 1
    /\ UNCHANGED <<memoryVars, busVars, rd>>

Succeeds(c) ==
    /\ pending' = [pending EXCEPT ![c] = NoRequest]
    /\ turn' = c + 1
    /\ UNCHANGED <<memoryVars, busVars>>

(* The cache has a transaction under way.                                  *)
CacheBusy(c) ==
    \E r \in Demand(c) :
        /\ turn = c
        /\ is_cache_busy(c)
        /\ Stalls(c, r)
        /\ UNCHANGED <<cacheVars, queueVars>>

LoadHit(c) ==
    \E r \in Demand(c) :
        /\ Presents(c, "LW", r)
        /\ ReadHit(c, r.addr)
        /\ rd' = [rd EXCEPT ![c] = Word(c, r.addr)]
        /\ Succeeds(c)

LoadMiss(c) ==
    \E r \in Demand(c) :
        /\ Presents(c, "LW", r)
        /\ ReadMiss(c, r.addr)
        /\ Stalls(c, r)

StoreHit(c) ==
    \E r \in Demand(c) :
        /\ Presents(c, "SW", r)
        /\ WriteHit(c, r.addr, r.data)
        /\ Succeeds(c)
        /\ UNCHANGED rd

StoreUpgrade(c) ==
    \E r \in Demand(c) :
        /\ Presents(c, "SW", r)
        /\ WriteUpgrade(c, r.addr)
        /\ Stalls(c, r)

StoreMiss(c) ==
    \E r \in Demand(c) :
        /\ Presents(c, "SW", r)
        /\ WriteMiss(c, r.addr)
        /\ Stalls(c, r)

(* A cycle without a memory instruction in the MEM stage.                  *)
Compute(c) ==
    /\ turn = c
    /\ pending[c] = NoRequest
    /\ turn' = c + 1
    /\ UNCHANGED <<cacheVars, queueVars, memoryVars, busVars, coreVars>>

CoreCycle(c) ==
    \/ CacheBusy(c)
    \/ LoadHit(c)
    \/ LoadMiss(c)
    \/ StoreHit(c)
    \/ StoreUpgrade(c)
    \/ StoreMiss(c)
    \/ Compute(c)

-----------------------------------------------------------------------------
Next == Run_Bus_Iteration \/ \E c \in Cores : CoreCycle(c)

Spec == Init /\ [][Next]_vars

(* The loop of main never waits: each iteration runs to its end.           *)
FairSpec == Spec /\ WF_vars(Next)
=============================================================================
