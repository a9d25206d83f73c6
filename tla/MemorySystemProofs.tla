------------------------- MODULE MemorySystemProofs -------------------------
(***************************************************************************)
(* Type correctness of the memory system and the bus protocol, for every   *)
(* number of cores, size of blocks, delay, set of addresses and workload.  *)
(***************************************************************************)
EXTENDS BusProtocol, TLAPS, WellFoundedInduction

-----------------------------------------------------------------------------
(* Helpers.                                                                *)

(* A non-empty set of cores has a maximum: Max, which picks the last owner *)
(* that answers a snoop, picks one of them.                                *)
LEMMA MaxOfCores ==
    ASSUME NEW S \in SUBSET Cores, S # {}
    PROVE  Max(S) \in S
<1> DEFINE R == {p \in Nat \X Nat : p[1] < p[2]}
<1> DEFINE T == {NumCores - c : c \in S}
<1>1. NumCores \in Nat
  BY NumCoresAssumption
<1>2. \A c \in S : c \in Nat /\ NumCores - c \in Nat
  BY <1>1 DEF Cores
<1>3. IsWellFoundedOn(R, Nat)
  <2>1. R = OpToRel(<, Nat)
    BY DEF OpToRel
  <2> QED
    BY <2>1, NatLessThanWellFounded
<1>4. T \subseteq Nat /\ T # {}
  BY <1>2
<1>5. PICK x \in T : \A y \in T : ~ (<<y, x>> \in R)
  <2> HIDE DEF R, T
  <2> QED
    BY <1>3, <1>4, WFMin
<1>6. PICK m \in S : x = NumCores - m
  OBVIOUS
<1>7. \A c \in S : m >= c
  <2> TAKE c \in S
  <2>1. ~ (NumCores - c < NumCores - m)
    BY <1>2, <1>4, <1>5, <1>6
  <2> QED
    BY <2>1, <1>1, <1>2
<1> QED
  BY <1>7 DEF Max

-----------------------------------------------------------------------------
(* Types of what the bus and the caches compute.                           *)

LEMMA QueueParts ==
    ASSUME NEW S, NEW q \in Seq(S), q # << >>
    PROVE  Head(q) \in S /\ Tail(q) \in Seq(S)
OBVIOUS

LEMMA NewTransactionType ==
    ASSUME NEW c \in Cores \union {invalid_caller}, NEW cmd \in Commands,
           NEW a \in Addr, NEW d \in Value
    PROVE  NewTransaction(c, cmd, a, d) \in Transaction
BY DEF NewTransaction, Transaction

LEMMA ConstantTypes ==
    /\ ZeroAddr \in Addr
    /\ InvalidTransaction \in Transaction
    /\ 0 \in Offsets /\ LastOffset \in Offsets
    /\ 0 \in Value
<1>1. 0 \in Offsets /\ LastOffset \in Offsets
  BY BlockSizeAssumption DEF Offsets, LastOffset
<1>2. ZeroAddr \in Addr
  BY <1>1, ZeroAssumption DEF ZeroAddr, WordAt, Addr
<1>3. InvalidTransaction \in Transaction
  BY <1>2, ZeroAssumption, NewTransactionType DEF InvalidTransaction, Commands
<1> QED
  BY <1>1, <1>2, <1>3, ZeroAssumption

(* The transaction an iteration works on, and its copy for the callbacks.  *)
LEMMA PacketType ==
    ASSUME TypeOK, Serving
    PROVE  /\ Current \in Transaction
           /\ CurrentOffset \in Offsets
           /\ Packet \in Transaction
           /\ (~ gIsBusTransactionActive => Tail(queue) \in Seq(Transaction))
<1>1. ~ gIsBusTransactionActive =>
        Head(queue) \in Transaction /\ Tail(queue) \in Seq(Transaction)
  BY QueueParts DEF TypeOK, QueueTypeOK, Serving
<1>2. Current \in Transaction
  BY <1>1 DEF Current, TypeOK
<1>3. CurrentOffset \in Offsets
  BY ConstantTypes DEF CurrentOffset, TypeOK
<1>4. Packet \in Transaction
  BY <1>2, <1>3 DEF Packet, Transaction, Addr
<1> QED
  BY <1>1, <1>2, <1>3, <1>4

LEMMA SnoopedType ==
    ASSUME CacheTypeOK, NEW caller, NEW t \in Transaction
    PROVE  /\ Snooped(caller, t) \in Transaction
           /\ Snooped(caller, t).bus_addr = t.bus_addr
<1>1. CASE Flushers(caller, t) = {}
  BY <1>1 DEF Snooped
<1>2. CASE Flushers(caller, t) # {}
  <2> DEFINE owner == Max(Flushers(caller, t))
  <2>1. owner \in Cores
    BY <1>2, MaxOfCores DEF Flushers
  <2>2. t.bus_addr \in Addr
    BY DEF Transaction
  <2>3. Word(owner, t.bus_addr) \in Value
    BY <2>1, <2>2 DEF CacheTypeOK, Word, Addr
  <2>4. Snooped(caller, t) = NewTransaction(owner, "flush", t.bus_addr, Word(owner, t.bus_addr))
    BY <1>2 DEF Snooped
  <2> HIDE DEF owner
  <2>5. "flush" \in Commands
    BY DEF Commands
  <2>6. Snooped(caller, t) \in Transaction
    BY <2>1, <2>2, <2>3, <2>4, <2>5, NewTransactionType
  <2> QED
    BY <2>4, <2>6 DEF NewTransaction
<1> QED
  BY <1>1, <1>2

LEMMA MesiUpdateType ==
    ASSUME NEW f \in [Indices -> TSRAMLine], NEW i \in Indices, NEW m \in MesiStates
    PROVE  [f EXCEPT ![i].mesi = m] \in [Indices -> TSRAMLine]
<1>1. [f[i] EXCEPT !.mesi = m] \in TSRAMLine
  BY DEF TSRAMLine
<1> QED
  BY <1>1

LEMMA SnoopedTsramType ==
    ASSUME CacheTypeOK, NEW caller, NEW t \in Transaction
    PROVE  SnoopedTsram(caller, t) \in [Cores -> [Indices -> TSRAMLine]]
<1>1. t.bus_addr.index \in Indices
  BY DEF Transaction, Addr
<1>2. \A mesi \in MesiStates : \A cmd : StateHandler(mesi, cmd) \in MesiStates
  BY DEF StateHandler, MesiStates
<1> DEFINE Seen(c) == [tsram[c] EXCEPT ![t.bus_addr.index].mesi =
                                   StateHandler(@, CmdSeenBy(c, caller, t))]
<1>3. \A c \in Cores : tsram[c] \in [Indices -> TSRAMLine]
  BY DEF CacheTypeOK
<1>4. \A c \in Cores : Seen(c) \in [Indices -> TSRAMLine]
  <2> TAKE c \in Cores
  <2> DEFINE next == StateHandler(tsram[c][t.bus_addr.index].mesi,
                                  CmdSeenBy(c, caller, t))
  <2>1. next \in MesiStates
    BY <1>1, <1>2 DEF CacheTypeOK, TSRAMLine
  <2> HIDE DEF next
  <2>2. [tsram[c] EXCEPT ![t.bus_addr.index].mesi = next] \in [Indices -> TSRAMLine]
    BY <1>1, <1>3, <2>1, MesiUpdateType
  <2>3. Seen(c) = [tsram[c] EXCEPT ![t.bus_addr.index].mesi = next]
    BY DEF next
  <2> HIDE DEF Seen
  <2> QED
    BY <2>2, <2>3
<1>5. SnoopedTsram(caller, t) =
        [c \in Cores |->
            IF /\ Snoops(c, caller, t)
               /\ t.bus_addr.offset = LastOffset \/ Line(c, t.bus_addr).mesi # "MODIFIED"
            THEN Seen(c) ELSE tsram[c]]
  BY DEF SnoopedTsram
<1> HIDE DEF Seen
<1> QED
  BY <1>3, <1>4, <1>5

LEMMA ReleasedTypes ==
    ASSUME TypeOK
    PROVE  /\ ReleasedStates \in [Cores -> TransactionStates]
           /\ GrantedStates \in [Cores -> TransactionStates]
           /\ ReleasedMemory \in [Addr -> Value]
<1>1. ReleasedStates \in [Cores -> TransactionStates]
  BY DEF ReleasedStates, TypeOK, QueueTypeOK, TransactionStates
<1>2. GrantedStates \in [Cores -> TransactionStates]
  BY <1>1 DEF GrantedStates, TransactionStates
<1>3. ReleasedMemory \in [Addr -> Value]
  BY ConstantTypes DEF ReleasedMemory, TypeOK, MemoryTypeOK
<1> QED
  BY <1>1, <1>2, <1>3

(* What the caller's cache takes from the answer.                          *)
LEMMA ReplyType ==
    ASSUME NEW memory \in [Addr -> Value], NEW t \in Transaction
    PROVE  /\ Reply(t, memory).bus_addr = t.bus_addr
           /\ Reply(t, memory).bus_data \in Value
           /\ Written(t, memory) \in [Addr -> Value]
BY DEF Reply, Written, NewTransaction, Transaction

LEMMA FilledTypes ==
    ASSUME CacheTypeOK, NEW caller, NEW r, NEW shared,
           r.bus_addr \in Addr, r.bus_data \in Value,
           NEW lines \in [Cores -> [Indices -> TSRAMLine]]
    PROVE  /\ FilledTsram(caller, r, shared, lines) \in [Cores -> [Indices -> TSRAMLine]]
           /\ FilledDram(caller, r) \in [Cores -> [Indices -> [Offsets -> Value]]]
<1>1. /\ r.bus_addr.index \in Indices
      /\ r.bus_addr.tag \in Tags
      /\ r.bus_addr.offset \in Offsets
  BY DEF Addr
<1>2. CASE caller \notin Cores
  BY <1>2 DEF FilledTsram, FilledDram, CacheTypeOK
<1>3. CASE caller \in Cores
  <2> DEFINE old  == lines[caller][r.bus_addr.index].mesi
             line == [tag  |-> r.bus_addr.tag,
                      mesi |-> IF r.bus_addr.offset # LastOffset THEN old
                               ELSE IF shared THEN "SHARED" ELSE "EXCLUSIVE"]
  <2>1. line \in TSRAMLine
    BY <1>1, <1>3 DEF TSRAMLine, MesiStates
  <2>2. FilledTsram(caller, r, shared, lines) =
          IF ~ Fills(caller, r) THEN lines
          ELSE [lines EXCEPT ![caller][r.bus_addr.index] = line]
    BY <1>1, <1>3 DEF FilledTsram
  <2> HIDE DEF line
  <2>3. FilledTsram(caller, r, shared, lines) \in [Cores -> [Indices -> TSRAMLine]]
    BY <1>1, <1>3, <2>1, <2>2
  <2>4. FilledDram(caller, r) \in [Cores -> [Indices -> [Offsets -> Value]]]
    BY <1>1, <1>3 DEF FilledDram, CacheTypeOK
  <2> QED
    BY <2>3, <2>4
<1> QED
  BY <1>2, <1>3

(* What a cache adds to the queue.                                         *)
LEMMA AddTransactionsType ==
    ASSUME QueueTypeOK, NEW ts \in Seq(Transaction), AddTransactions(ts)
    PROVE  QueueTypeOK'
BY DEF QueueTypeOK, AddTransactions, Enqueued, TransactionStates

LEMMA NewEntriesType ==
    ASSUME CacheTypeOK, NEW c \in Cores, NEW a \in Addr
    PROVE  /\ MissTransactions(c, a, "busRd") \in Seq(Transaction)
           /\ MissTransactions(c, a, "busRdX") \in Seq(Transaction)
           /\ UpgradeTransactions(c, a) \in Seq(Transaction)
<1>1. WordAt(Line(c, a).tag, a.index, 0) \in Addr
  BY ConstantTypes DEF WordAt, Line, Addr, CacheTypeOK, TSRAMLine
<1>2. Word(c, a) \in Value
  BY DEF Word, Addr, CacheTypeOK
<1>3. EvictionOf(c, a) \in Seq(Transaction)
  BY <1>1, <1>2, NewTransactionType DEF EvictionOf, Commands
<1>4. \A cmd \in Commands : NewTransaction(c, cmd, a, 0) \in Transaction
  BY ConstantTypes, NewTransactionType
<1>5. \A cmd \in Commands : MissTransactions(c, a, cmd) \in Seq(Transaction)
  BY <1>3, <1>4 DEF MissTransactions
<1>6. UpgradeTransactions(c, a) \in Seq(Transaction)
  BY <1>4, ConstantTypes DEF UpgradeTransactions, Commands
<1> QED
  BY <1>5, <1>6 DEF Commands

-----------------------------------------------------------------------------
(* Type correctness.                                                       *)

LEMMA InitType == Init => TypeOK
<1> SUFFICES ASSUME Init PROVE TypeOK
  OBVIOUS
<1>1. CacheTypeOK
  BY ZeroAssumption, ConstantTypes
     DEF Init, CacheInit, CacheTypeOK, TSRAMLine, MesiStates
<1>2. QueueTypeOK
  BY DEF Init, QueueInit, QueueTypeOK, TransactionStates
<1>3. MemoryTypeOK
  <2>1. mainMemory \in [Addr -> Value]
    BY MemoryAssumption DEF Init, MainMemoryInit
  <2>2. 0 \in 0 .. LastCycle + 1
    BY MemDelayAssumption, BlockSizeAssumption DEF LastCycle
  <2> QED
    BY <2>1, <2>2 DEF Init, MainMemoryInit, MemoryTypeOK
<1>4. gOngoingTransaction \in Transaction
  <2>1. 0 \in Cores
    BY NumCoresAssumption DEF Cores
  <2> QED
    BY <2>1, ConstantTypes, NewTransactionType DEF Init, BusInit, Commands
<1> QED
  BY <1>1, <1>2, <1>3, <1>4, ConstantTypes DEF Init, BusInit, TypeOK, Bus

(* The counter that paces the memory.                                      *)
LEMMA MemoryPace ==
    ASSUME MemoryTypeOK, NEW t, NEW direct \in BOOLEAN
    PROVE  /\ MemoryWaits(t, direct) =>
                 numOfCycles' \in 0 .. LastCycle /\ gIsMemoryBusy' = TRUE
           /\ \A memory : MemoryServes(t, direct, memory) =>
                 /\ numOfCycles' \in 0 .. LastCycle + 1
                 /\ gIsMemoryBusy' \in BOOLEAN
                 /\ gIsMemoryBusy' => numOfCycles' <= LastCycle
<1>1. StartedCycles(direct) \in 0 .. LastCycle
  BY MemDelayAssumption, BlockSizeAssumption
     DEF StartedCycles, MemoryTypeOK, LastCycle
<1>2. MemDelay \in Nat /\ LastCycle \in Nat /\ MemDelay <= LastCycle
  BY MemDelayAssumption, BlockSizeAssumption DEF LastCycle
<1>3. ASSUME MemoryWaits(t, direct)
      PROVE  numOfCycles' \in 0 .. LastCycle /\ gIsMemoryBusy' = TRUE
  BY <1>1, <1>2, <1>3 DEF MemoryWaits, MemoryReady
<1>4. ASSUME NEW memory, MemoryServes(t, direct, memory)
      PROVE  /\ numOfCycles' \in 0 .. LastCycle + 1
             /\ gIsMemoryBusy' \in BOOLEAN
             /\ gIsMemoryBusy' => numOfCycles' <= LastCycle
  <2>1. /\ numOfCycles' = StartedCycles(direct) + 1
        /\ gIsMemoryBusy' = (StartedCycles(direct) # LastCycle)
    BY <1>4 DEF MemoryServes
  <2>2. gIsMemoryBusy' => StartedCycles(direct) # LastCycle
    BY <2>1
  <2>3. gIsMemoryBusy' \in BOOLEAN
    BY <2>1
  <2> QED
    BY <1>1, <1>2, <2>1, <2>2, <2>3
<1> QED
  BY <1>3, <1>4

LEMMA BusIdleType == TypeOK /\ BusIdle => TypeOK'
<1> SUFFICES ASSUME TypeOK, BusIdle PROVE TypeOK'
  OBVIOUS
<1>1. gOngoingTransaction' \in Transaction
  BY DEF TypeOK, BusIdle, Transaction
<1>2. 0 \in Cores
  BY NumCoresAssumption DEF Cores
<1> QED
  BY <1>1, <1>2, ReleasedTypes
     DEF TypeOK, BusIdle, CacheTypeOK, QueueTypeOK, MemoryTypeOK, cacheVars, coreVars

LEMMA BusDropInvalidType == TypeOK /\ BusDropInvalid => TypeOK'
<1> SUFFICES ASSUME TypeOK, BusDropInvalid PROVE TypeOK'
  OBVIOUS
<1>1. Head(queue) \in Transaction /\ Tail(queue) \in Seq(Transaction)
  BY QueueParts DEF TypeOK, QueueTypeOK, BusDropInvalid, Dequeued
<1>2. 0 \in Cores
  BY NumCoresAssumption DEF Cores
<1> QED
  BY <1>1, <1>2, ReleasedTypes
     DEF TypeOK, BusDropInvalid, Dequeued, CacheTypeOK, QueueTypeOK, MemoryTypeOK,
         cacheVars, coreVars

(* What the actions that serve a transaction have in common.               *)
LEMMA GrantType ==
    ASSUME TypeOK, Serving, Grant
    PROVE  gOngoingTransaction' \in Transaction /\ queue' \in Seq(Transaction)
BY PacketType DEF Grant, Dequeued, TypeOK, QueueTypeOK

LEMMA BusWaitForOwnerType == TypeOK /\ BusWaitForOwner => TypeOK'
<1> SUFFICES ASSUME TypeOK, BusWaitForOwner PROVE TypeOK'
  OBVIOUS
<1>1. Serving /\ Grant
  BY DEF BusWaitForOwner
<1>2. 0 \in Cores
  BY NumCoresAssumption DEF Cores
<1> QED
  BY <1>1, <1>2, PacketType, GrantType, ReleasedTypes
     DEF TypeOK, BusWaitForOwner, CacheTypeOK, QueueTypeOK, MemoryTypeOK,
         cacheVars, coreVars

LEMMA BusAwaitMemoryType == TypeOK /\ BusAwaitMemory => TypeOK'
<1> SUFFICES ASSUME TypeOK, BusAwaitMemory PROVE TypeOK'
  OBVIOUS
<1>1. Serving /\ Grant
  BY DEF BusAwaitMemory
<1>2. 0 \in Cores
  BY NumCoresAssumption DEF Cores
<1>3. CacheTypeOK'
  <2>1. tsram' \in [Cores -> [Indices -> TSRAMLine]]
    BY <1>1, PacketType, SnoopedTsramType DEF BusAwaitMemory, TypeOK
  <2> QED
    BY <2>1 DEF BusAwaitMemory, TypeOK, CacheTypeOK
<1>4. MemoryTypeOK'
  <2>1. IsModified(Current) \in BOOLEAN
    BY DEF IsModified
  <2>2. numOfCycles' \in 0 .. LastCycle /\ gIsMemoryBusy' = TRUE
    BY <2>1, MemoryPace DEF BusAwaitMemory, TypeOK
  <2>3. LastCycle \in Nat
    BY MemDelayAssumption, BlockSizeAssumption DEF LastCycle
  <2> QED
    BY <2>2, <2>3, ReleasedTypes DEF BusAwaitMemory, MemoryTypeOK
<1>5. QueueTypeOK' /\ gOngoingTransaction' \in Transaction
  BY <1>1, GrantType, ReleasedTypes DEF BusAwaitMemory, QueueTypeOK
<1>6. gBusAddrOffset' \in Offsets /\ is_first_access_shared' \in BOOLEAN
  BY <1>1, PacketType DEF BusAwaitMemory, FirstAccess, TypeOK
<1> QED
  BY <1>2, <1>3, <1>4, <1>5, <1>6 DEF TypeOK, BusAwaitMemory, coreVars

LEMMA BusTransferWordType == TypeOK /\ BusTransferWord => TypeOK'
<1> SUFFICES ASSUME TypeOK, BusTransferWord PROVE TypeOK'
  OBVIOUS
<1> DEFINE caller   == Current.origid
           response == Reply(SnoopedPacket, ReleasedMemory)
           complete == LastWordTaken(caller, response)
<1>1. Serving /\ Grant
  BY DEF BusTransferWord
<1>2. 0 \in Cores
  BY NumCoresAssumption DEF Cores
<1>3. /\ SnoopedPacket \in Transaction
      /\ SnoopedPacket.bus_addr = Packet.bus_addr
      /\ Packet.bus_addr \in Addr
      /\ Packet.bus_addr.offset = CurrentOffset
  BY <1>1, PacketType, SnoopedType
     DEF SnoopedPacket, TypeOK, Transaction, Packet, Addr
<1>4. response.bus_addr = Packet.bus_addr /\ response.bus_data \in Value
  BY <1>3, ReplyType, ReleasedTypes
<1>5. CacheTypeOK'
  <2>1. SnoopedTsram(caller, Packet) \in [Cores -> [Indices -> TSRAMLine]]
    BY <1>1, PacketType, SnoopedTsramType DEF TypeOK
  <2>2. /\ tsram' = FilledTsram(caller, response, IsShared(Current),
                                SnoopedTsram(caller, Packet))
        /\ dram' = FilledDram(caller, response)
    BY DEF BusTransferWord
  <2> HIDE DEF caller, response
  <2> QED
    BY <1>3, <1>4, <2>1, <2>2, FilledTypes DEF TypeOK, CacheTypeOK
<1>6. MemoryTypeOK'
  <2>1. IsModified(Current) \in BOOLEAN
    BY DEF IsModified
  <2>2. MemoryServes(SnoopedPacket, IsModified(Current), ReleasedMemory)
    BY DEF BusTransferWord
  <2>3. mainMemory' \in [Addr -> Value]
    BY <1>3, <2>2, ReplyType, ReleasedTypes DEF MemoryServes
  <2> QED
    BY <2>1, <2>2, <2>3, MemoryPace DEF TypeOK, MemoryTypeOK
<1>7. QueueTypeOK' /\ gOngoingTransaction' \in Transaction
  <2>1. gTransactionStatePerCore' \in [Cores -> TransactionStates]
    BY ReleasedTypes DEF BusTransferWord, TransactionStates
  <2> QED
    BY <1>1, <2>1, GrantType DEF QueueTypeOK
<1>8. gBusAddrOffset' \in Offsets
  <2>1. ~ (complete \/ Ignored(caller, response)) => CurrentOffset # LastOffset
    BY <1>3, <1>4 DEF LastWordTaken
  <2>2. gBusAddrOffset' = IF complete \/ Ignored(caller, response)
                          THEN CurrentOffset ELSE CurrentOffset + 1
    BY DEF BusTransferWord
  <2>3. CurrentOffset \in Offsets
    BY <1>1, PacketType
  <2> HIDE DEF complete, caller, response
  <2> QED
    BY <2>1, <2>2, <2>3, BlockSizeAssumption DEF Offsets, LastOffset
<1>9. is_first_access_shared' \in BOOLEAN /\ gIsBusTransactionActive' \in BOOLEAN
  BY DEF BusTransferWord, FirstAccess, TypeOK, LastWordTaken, Ignored
<1> QED
  BY <1>2, <1>5, <1>6, <1>7, <1>8, <1>9 DEF TypeOK, BusTransferWord, coreVars

(* A core's cycle.  The cache's part first, then what it does to the core. *)
LEMMA DemandType ==
    ASSUME TypeOK, NEW c \in Cores, NEW r \in Demand(c)
    PROVE  r \in Request /\ r.addr \in Addr /\ r.data \in Value
<1>1. r \in Request
  BY RequestsAssumption DEF Demand, TypeOK
<1> QED
  BY <1>1 DEF Request

LEMMA CoreTurns == \A c \in Cores : c + 1 \in Cores \union {Bus}
BY NumCoresAssumption DEF Cores, Bus

LEMMA StallsType ==
    ASSUME TypeOK, NEW c \in Cores, NEW r \in Demand(c),
           Stalls(c, r), CacheTypeOK', QueueTypeOK'
    PROVE  TypeOK'
<1>1. pending' \in [Cores -> Request \union {NoRequest}]
  BY DemandType DEF Stalls, TypeOK
<1>2. MemoryTypeOK'
  BY DEF Stalls, memoryVars, TypeOK, MemoryTypeOK
<1> QED
  BY <1>1, <1>2, CoreTurns DEF Stalls, busVars, TypeOK

LEMMA SucceedsType ==
    ASSUME TypeOK, NEW c \in Cores, Succeeds(c),
           CacheTypeOK', QueueTypeOK', rd' \in [Cores -> Value]
    PROVE  TypeOK'
<1>1. pending' \in [Cores -> Request \union {NoRequest}]
  BY DEF Succeeds, TypeOK
<1>2. MemoryTypeOK'
  BY DEF Succeeds, memoryVars, TypeOK, MemoryTypeOK
<1> QED
  BY <1>1, <1>2, CoreTurns DEF Succeeds, busVars, TypeOK

(* The cache adds transactions of its core and changes no line.            *)
LEMMA AskingType ==
    ASSUME TypeOK, NEW c \in Cores, NEW a \in Addr, UNCHANGED cacheVars,
           \/ AddTransactions(MissTransactions(c, a, "busRd"))
           \/ AddTransactions(MissTransactions(c, a, "busRdX"))
           \/ AddTransactions(UpgradeTransactions(c, a))
    PROVE  CacheTypeOK' /\ QueueTypeOK'
<1>1. CacheTypeOK'
  BY DEF TypeOK, CacheTypeOK, cacheVars
<1>2. CacheTypeOK /\ QueueTypeOK
  BY DEF TypeOK
<1>3. QueueTypeOK'
  BY <1>2, NewEntriesType, AddTransactionsType
<1> QED
  BY <1>1, <1>3

LEMMA WriteHitType ==
    ASSUME TypeOK, NEW c \in Cores, NEW a \in Addr, NEW data \in Value,
           WriteHit(c, a, data)
    PROVE  CacheTypeOK' /\ QueueTypeOK'
<1>1. a.index \in Indices /\ a.offset \in Offsets
  BY DEF Addr
<1>2. tsram[c] \in [Indices -> TSRAMLine]
  BY DEF TypeOK, CacheTypeOK
<1>3. [tsram[c] EXCEPT ![a.index].mesi = "MODIFIED"] \in [Indices -> TSRAMLine]
  BY <1>1, <1>2, MesiUpdateType DEF MesiStates
<1>4. tsram' = [tsram EXCEPT ![c] = [tsram[c] EXCEPT ![a.index].mesi = "MODIFIED"]]
  BY DEF WriteHit
<1>5. tsram' \in [Cores -> [Indices -> TSRAMLine]]
  BY <1>3, <1>4 DEF TypeOK, CacheTypeOK
<1>6. dram' \in [Cores -> [Indices -> [Offsets -> Value]]]
  BY <1>1 DEF WriteHit, TypeOK, CacheTypeOK
<1> QED
  BY <1>5, <1>6 DEF WriteHit, queueVars, TypeOK, QueueTypeOK, CacheTypeOK

LEMMA CoreCycleType ==
    ASSUME TypeOK, NEW c \in Cores, CoreCycle(c)
    PROVE  TypeOK'
<1>1. CASE CacheBusy(c)
  <2>1. PICK r \in Demand(c) : Stalls(c, r) /\ UNCHANGED <<cacheVars, queueVars>>
    BY <1>1 DEF CacheBusy
  <2>2. CacheTypeOK' /\ QueueTypeOK'
    BY <2>1 DEF cacheVars, queueVars, TypeOK, CacheTypeOK, QueueTypeOK
  <2> QED
    BY <2>1, <2>2, StallsType
<1>2. CASE LoadHit(c)
  <2>1. PICK r \in Demand(c) : /\ ReadHit(c, r.addr)
                               /\ rd' = [rd EXCEPT ![c] = Word(c, r.addr)]
                               /\ Succeeds(c)
    BY <1>2 DEF LoadHit
  <2>2. CacheTypeOK' /\ QueueTypeOK'
    BY <2>1 DEF ReadHit, cacheVars, queueVars, TypeOK, CacheTypeOK, QueueTypeOK
  <2>3. Word(c, r.addr) \in Value
    BY DemandType DEF Word, Addr, TypeOK, CacheTypeOK
  <2>4. rd' \in [Cores -> Value]
    BY <2>1, <2>3 DEF TypeOK
  <2> QED
    BY <2>1, <2>2, <2>4, SucceedsType
<1>3. CASE LoadMiss(c)
  <2>1. PICK r \in Demand(c) : ReadMiss(c, r.addr) /\ Stalls(c, r)
    BY <1>3 DEF LoadMiss
  <2>2. CacheTypeOK' /\ QueueTypeOK'
    BY <2>1, DemandType, AskingType DEF ReadMiss
  <2> QED
    BY <2>1, <2>2, StallsType
<1>4. CASE StoreHit(c)
  <2>1. PICK r \in Demand(c) : /\ WriteHit(c, r.addr, r.data)
                               /\ Succeeds(c)
                               /\ UNCHANGED rd
    BY <1>4 DEF StoreHit
  <2>2. CacheTypeOK' /\ QueueTypeOK'
    BY <2>1, DemandType, WriteHitType
  <2>3. rd' \in [Cores -> Value]
    BY <2>1 DEF TypeOK
  <2> QED
    BY <2>1, <2>2, <2>3, SucceedsType
<1>5. CASE StoreUpgrade(c)
  <2>1. PICK r \in Demand(c) : WriteUpgrade(c, r.addr) /\ Stalls(c, r)
    BY <1>5 DEF StoreUpgrade
  <2>2. CacheTypeOK' /\ QueueTypeOK'
    BY <2>1, DemandType, AskingType DEF WriteUpgrade
  <2> QED
    BY <2>1, <2>2, StallsType
<1>6. CASE StoreMiss(c)
  <2>1. PICK r \in Demand(c) : WriteMiss(c, r.addr) /\ Stalls(c, r)
    BY <1>6 DEF StoreMiss
  <2>2. CacheTypeOK' /\ QueueTypeOK'
    BY <2>1, DemandType, AskingType DEF WriteMiss
  <2> QED
    BY <2>1, <2>2, StallsType
<1>7. CASE Compute(c)
  BY <1>7, CoreTurns
     DEF Compute, TypeOK, CacheTypeOK, QueueTypeOK, MemoryTypeOK,
         cacheVars, queueVars, memoryVars, busVars, coreVars
<1> QED
  BY <1>1, <1>2, <1>3, <1>4, <1>5, <1>6, <1>7 DEF CoreCycle

(* Every variable keeps its type: a word index never leaves the block, the *)
(* memory's counter stays in step with its busy flag (so the last word of  *)
(* a block frees the memory), and only transactions the bus can serve are  *)
(* queued (Run_Bus_Iteration, bus_transaction_handler, the caches).        *)
THEOREM TypeCorrect == Spec => []TypeOK
<1>1. Init => TypeOK
  BY InitType
<1>2. TypeOK /\ [Next]_vars => TypeOK'
  <2> SUFFICES ASSUME TypeOK, [Next]_vars PROVE TypeOK'
    OBVIOUS
  <2>1. CASE Run_Bus_Iteration
    BY <2>1, BusIdleType, BusDropInvalidType, BusWaitForOwnerType,
       BusAwaitMemoryType, BusTransferWordType DEF Run_Bus_Iteration
  <2>2. CASE \E c \in Cores : CoreCycle(c)
    BY <2>2, CoreCycleType
  <2>3. CASE UNCHANGED vars
    BY <2>3 DEF vars, cacheVars, queueVars, memoryVars, busVars, coreVars,
                TypeOK, CacheTypeOK, QueueTypeOK, MemoryTypeOK
  <2> QED
    BY <2>1, <2>2, <2>3 DEF Next
<1> QED
  BY <1>1, <1>2, PTL DEF Spec
=============================================================================
