----------------------------- MODULE WordProofs -----------------------------
(***************************************************************************)
(* The words: the memory's counter and the bus's stay in step, and lines   *)
(* that may be dropped agree with main memory (CleanLinesAgree), for every *)
(* number of cores, block size, delay and set of addresses.  WordsInv is   *)
(* inductive relative to TypeOK, BusProtocol, LinesInv and MemoryInStep.   *)
(***************************************************************************)
EXTENDS CoherenceProofs

-----------------------------------------------------------------------------
(* The two counters.                                                       *)

(* The memory serves word o at cycle MemDelay + o, and lets an iteration   *)
(* pass only before the first word.                                        *)
LEMMA ServedInStep ==
    ASSUME TypeOK, MemoryInStep, Serving, NEW direct \in BOOLEAN
    PROVE  /\ MemoryReady(direct) => StartedCycles(direct) = MemDelay + CurrentOffset
           /\ ~ MemoryReady(direct) => /\ CurrentOffset = 0
                                       /\ StartedCycles(direct) \in 0 .. MemDelay - 1
                                       /\ gIsMemoryBusy \/ ~ direct
<1>1. MemDelay \in Nat \ {0} /\ numOfCycles \in Nat /\ gBusAddrOffset \in Nat
  BY MemDelayAssumption, BlockSizeAssumption DEF TypeOK, MemoryTypeOK, Offsets
<1>2. CASE gIsBusTransactionActive /\ gBusAddrOffset > 0
  <2>1. StartedCycles(direct) = MemDelay + CurrentOffset
    BY <1>2 DEF MemoryInStep, StartedCycles, CurrentOffset
  <2>2. CurrentOffset \in Nat
    BY <1>1, <1>2 DEF CurrentOffset
  <2> QED
    BY <1>1, <2>1, <2>2 DEF MemoryReady
<1>3. CASE ~ (gIsBusTransactionActive /\ gBusAddrOffset > 0) /\ gIsMemoryBusy
  <2>1. CurrentOffset = 0
    BY <1>1, <1>3 DEF CurrentOffset
  <2>2. StartedCycles(direct) = numOfCycles /\ numOfCycles <= MemDelay
    <3>1. gIsBusTransactionActive /\ gBusAddrOffset = 0
      BY <1>1, <1>3 DEF MemoryInStep
    <3> QED
      BY <1>3, <3>1 DEF MemoryInStep, StartedCycles
  <2> QED
    BY <1>1, <1>3, <2>1, <2>2 DEF MemoryReady
<1>4. CASE ~ (gIsBusTransactionActive /\ gBusAddrOffset > 0) /\ ~ gIsMemoryBusy
  <2>1. CurrentOffset = 0
    BY <1>1, <1>4 DEF CurrentOffset
  <2>2. CASE direct
    <3>1. StartedCycles(direct) = MemDelay
      BY <1>4, <2>2 DEF StartedCycles
    <3> QED
      BY <1>1, <2>1, <3>1 DEF MemoryReady
  <2>3. CASE ~ direct
    <3>1. StartedCycles(direct) = 0
      BY <1>4, <2>3 DEF StartedCycles
    <3> QED
      BY <1>1, <2>1, <2>3, <3>1 DEF MemoryReady
  <2> QED
    BY <2>2, <2>3
<1> QED
  BY <1>2, <1>3, <1>4

LEMMA AwaitInStep ==
    ASSUME TypeOK, MemoryInStep, BusAwaitMemory
    PROVE  MemoryInStep'
<1> DEFINE direct == IsModified(Current)
<1>1. /\ Serving /\ direct \in BOOLEAN /\ ~ MemoryReady(direct)
      /\ gIsBusTransactionActive' = TRUE /\ gBusAddrOffset' = CurrentOffset
      /\ gIsMemoryBusy' = TRUE /\ numOfCycles' = StartedCycles(direct) + 1
  BY DEF BusAwaitMemory, MemoryWaits, IsModified
<1>2. CurrentOffset = 0 /\ StartedCycles(direct) \in 0 .. MemDelay - 1
  BY <1>1, ServedInStep
<1> HIDE DEF direct
<1>3. gBusAddrOffset' = 0 /\ numOfCycles' <= MemDelay
  BY <1>1, <1>2, MemDelayAssumption
<1>4. ~ (gBusAddrOffset' > 0)
  BY <1>3
<1> QED
  BY <1>1, <1>3, <1>4 DEF MemoryInStep

LEMMA TransferInStep ==
    ASSUME TypeOK, BusProtocol, MemoryInStep, BusTransferWord
    PROVE  MemoryInStep'
<1> DEFINE direct == IsModified(Current)
           o == CurrentOffset
<1>1. /\ Serving /\ direct \in BOOLEAN /\ MemoryReady(direct) /\ o \in Offsets
      /\ gIsMemoryBusy' = (StartedCycles(direct) # LastCycle)
      /\ numOfCycles' = StartedCycles(direct) + 1
      /\ gIsBusTransactionActive' = (o # LastOffset)
      /\ gBusAddrOffset' = IF o = LastOffset THEN o ELSE o + 1
  BY TransferPace, ServedFacts DEF BusTransferWord, MemoryServes, IsModified
<1>2. StartedCycles(direct) = MemDelay + o
  BY <1>1, ServedInStep
<1> HIDE DEF direct, o
<1>3. /\ StartedCycles(direct) # LastCycle <=> o # LastOffset
      /\ o # LastOffset => /\ numOfCycles' = MemDelay + gBusAddrOffset'
                           /\ gBusAddrOffset' > 0
      /\ gBusAddrOffset' > 0 => gBusAddrOffset' # 0
  BY <1>1, <1>2, MemDelayAssumption, BlockSizeAssumption DEF LastCycle, LastOffset, Offsets
<1> QED
  BY <1>1, <1>3 DEF MemoryInStep

LEMMA QuietInStep ==
    ASSUME MemoryInStep, UNCHANGED <<numOfCycles, gIsMemoryBusy>>,
           \/ UNCHANGED <<gIsBusTransactionActive, gBusAddrOffset>>
           \/ ~ gIsBusTransactionActive /\ ~ gIsBusTransactionActive'
           \/ ~ gIsBusTransactionActive /\ gBusAddrOffset' = 0
    PROVE  MemoryInStep'
<1>1. CASE UNCHANGED <<gIsBusTransactionActive, gBusAddrOffset>>
  BY <1>1 DEF MemoryInStep
<1>2. CASE ~ gIsBusTransactionActive
  BY <1>2 DEF MemoryInStep
<1> QED
  BY <1>1, <1>2

(* The memory is free between transactions, and in one the cycle it counts *)
(* is the word the bus is at (initialize_memory_transaction,               *)
(* bus_transaction_handler, Run_Bus_Iteration).                            *)
THEOREM CountersInStep == Spec => []MemoryInStep
<1>1. Init => MemoryInStep
  BY DEF Init, BusInit, MainMemoryInit, MemoryInStep
<1>2. TypeOK /\ BusProtocol /\ MemoryInStep /\ [Next]_vars => MemoryInStep'
  <2> SUFFICES ASSUME TypeOK, BusProtocol, MemoryInStep, [Next]_vars
               PROVE  MemoryInStep'
    OBVIOUS
  <2>1. CASE BusIdle
    BY <2>1, QuietInStep DEF BusIdle
  <2>2. CASE BusDropInvalid
    BY <2>2, QuietInStep DEF BusDropInvalid
  <2>3. CASE BusWaitForOwner
    <3>1. \/ UNCHANGED <<gIsBusTransactionActive, gBusAddrOffset>>
          \/ ~ gIsBusTransactionActive /\ gBusAddrOffset' = 0
      BY <2>3 DEF BusWaitForOwner, CurrentOffset, TypeOK
    <3> QED
      BY <2>3, <3>1, QuietInStep DEF BusWaitForOwner
  <2>4. CASE BusAwaitMemory
    BY <2>4, AwaitInStep
  <2>5. CASE BusTransferWord
    BY <2>5, TransferInStep
  <2>6. CASE UNCHANGED <<memoryVars, busVars>>
    BY <2>6, QuietInStep DEF memoryVars, busVars
  <2>7. ASSUME NEW c \in Cores, CoreCycle(c) PROVE UNCHANGED <<memoryVars, busVars>>
    BY <2>7 DEF CoreCycle, CacheBusy, LoadHit, LoadMiss, StoreHit, StoreUpgrade,
                StoreMiss, Compute, Stalls, Succeeds
  <2> QED
    BY <2>1, <2>2, <2>3, <2>4, <2>5, <2>6, <2>7
       DEF Next, Run_Bus_Iteration, vars
<1> QED
  BY <1>1, <1>2, TypeCorrect, BusProtocolInvariant, PTL DEF Spec

-----------------------------------------------------------------------------
(* What a transferred word does to the words.                              *)

LEMMA MemoryKept == TypeOK /\ StrayWords = {} => ReleasedMemory = mainMemory
BY DEF TypeOK, MemoryTypeOK, ReleasedMemory

LEMMA WordAddresses ==
    ASSUME NEW a \in Addr, NEW tag \in Tags, NEW i \in Indices, NEW o \in Offsets
    PROVE  /\ WordAt(tag, i, o) \in Addr
           /\ a = WordAt(tag, i, o) <=> a.tag = tag /\ a.index = i /\ a.offset = o
BY DEF WordAt, Addr

(* A word of a request: the caller's line and main memory have it alike;   *)
(* it is the owner's word, or main memory is left as it was.               *)
LEMMA RequestWord ==
    ASSUME TypeOK, BusProtocol, LinesInv, StrayWords = {}, BusTransferWord, IsRequest(Current)
    PROVE  LET k == Current.origid
               a == Current.bus_addr
               p == WordAt(a.tag, a.index, CurrentOffset)
           IN  /\ dram'[k][a.index][CurrentOffset] = mainMemory'[p]
               /\ \A c \in Cores, j \in Indices, w \in Offsets :
                      c # k \/ j # a.index \/ w # CurrentOffset =>
                          dram'[c][j][w] = dram[c][j][w]
               /\ \A x \in Addr : x # p => mainMemory'[x] = mainMemory[x]
               /\ (\A d \in Cores \ {k} : ~ Owns(d, a)) => mainMemory' = mainMemory
               /\ \A d \in Cores \ {k} : Owns(d, a) =>
                      mainMemory'[p] = dram[d][a.index][CurrentOffset]
<1> DEFINE k == Current.origid
           a == Current.bus_addr
           i == a.index
           o == CurrentOffset
           p == WordAt(a.tag, i, o)
           r == Reply(SnoopedPacket, mainMemory)
<1>1. /\ Serving /\ k \in Cores /\ i \in Indices /\ o \in Offsets /\ a.tag \in Tags
      /\ Packet.bus_addr \in Addr /\ Packet.bus_addr.tag = a.tag
      /\ Packet.bus_addr.index = i /\ Packet.bus_addr.offset = o
      /\ ReleasedMemory = mainMemory
      /\ mainMemory \in [Addr -> Value]
      /\ dram \in [Cores -> [Indices -> [Offsets -> Value]]]
  BY MemoryKept, TransferPace, ServedFacts
     DEF Addr, Transaction, TypeOK, CacheTypeOK, MemoryTypeOK
<1>2. Packet.bus_addr = p
  BY <1>1, WordAddresses
<1>3. p \in Addr
  BY <1>1, <1>2
<1>4. /\ dram' = FilledDram(k, r)
      /\ mainMemory' = Written(SnoopedPacket, mainMemory)
  BY <1>1 DEF BusTransferWord, MemoryServes
<1>5. r.origid # k /\ r.bus_cmd = "flush" /\ r.bus_addr = p
  BY <1>1, <1>2, AnswerOrigin, AnswerIsWord
<1>6. p.index = i /\ p.offset = o
  BY DEF WordAt
<1>7. dram' = [dram EXCEPT ![k][i][o] = r.bus_data]
  <2> HIDE DEF r, p, k, i, o
  <2> QED
    BY <1>4, <1>5, <1>6 DEF FilledDram, Fills
<1>8. CASE SnoopedPacket = Packet /\ \A d \in Cores \ {k} : ~ Owns(d, a)
  <2>1. Packet.bus_cmd \in {"busRd", "busRdX"}
    BY ServedFacts, <1>1 DEF IsRequest, RequestCommands
  <2>2. r.bus_data = mainMemory[p]
    BY <1>2, <1>8, <2>1 DEF Reply, NewTransaction
  <2>3. mainMemory' = mainMemory
    BY <1>4, <1>8, <2>1 DEF Written
  <2> HIDE DEF r, p, k, i, o
  <2> QED
    BY <1>1, <1>7, <1>8, <2>2, <2>3 DEF p, k, i, o
<1>9. CASE \E d \in Cores \ {k} :
               /\ Owns(d, a)
               /\ SnoopedPacket = NewTransaction(d, "flush", Packet.bus_addr,
                                                 Word(d, Packet.bus_addr))
  <2>1. PICK d \in Cores \ {k} :
               /\ Owns(d, a)
               /\ SnoopedPacket = NewTransaction(d, "flush", Packet.bus_addr,
                                                 Word(d, Packet.bus_addr))
    BY <1>9
  <2> DEFINE word == dram[d][i][o]
  <2>2. SnoopedPacket = NewTransaction(d, "flush", p, word)
    BY <1>2, <1>6, <2>1 DEF Word
  <2>3. /\ r.bus_data = word
        /\ SnoopedPacket.bus_cmd = "flush" /\ SnoopedPacket.bus_addr = p
        /\ SnoopedPacket.bus_data = word
    BY <2>2 DEF Reply, NewTransaction
  <2>4. mainMemory' = [mainMemory EXCEPT ![p] = word]
    BY <1>4, <2>3 DEF Written
  <2>5. \A e \in Cores \ {k} : Owns(e, a) => e = d
    BY <1>1, <2>1, OwnerAlone DEF Owns, Holds
  <2> HIDE DEF r, p, k, i, o, word
  <2>6. /\ mainMemory'[p] = word
        /\ \A x \in Addr : x # p => mainMemory'[x] = mainMemory[x]
    BY <1>1, <1>3, <2>4
  <2>7. /\ dram'[k][i][o] = word
        /\ \A c \in Cores, j \in Indices, w \in Offsets :
              c # k \/ j # i \/ w # o => dram'[c][j][w] = dram[c][j][w]
    BY <1>1, <1>7, <2>3
  <2>8. \A e \in Cores \ {k} : Owns(e, a) => word = dram[e][i][o]
    BY <2>5 DEF word
  <2> QED
    BY <1>1, <2>1, <2>6, <2>7, <2>8 DEF p, k, i, o
<1> QED
  BY <1>1, <1>8, <1>9, RequestSnooped

(* No other cache holds the block of an eviction, so no line changes.      *)
LEMMA EvictionLines ==
    ASSUME TypeOK, BusProtocol, LinesInv, Serving, IsEviction(Current)
    PROVE  \A c \in Cores, j \in Indices :
               /\ SnoopedTsram(Current.origid, Packet)[c][j].tag = tsram[c][j].tag
               /\ SnoopedTsram(Current.origid, Packet)[c][j].mesi = tsram[c][j].mesi
<1> DEFINE k == Current.origid
           a == Current.bus_addr
<1>1. PrivateBlockOf(k, a) /\ a.index \in Indices
  BY ServedFacts DEF LinesInv, EvictionsOwned, Addr
<1>2. ASSUME NEW c \in Cores, c # k, Holds(c, a) PROVE FALSE
  <2>1. Accesses(c, a.tag, a.index)
    BY <1>1, <1>2 DEF LinesInv, HeldInProgram, Holds, Line
  <2> QED
    BY <1>1, <1>2, <2>1 DEF PrivateBlockOf, Private
<1> QED
  BY <1>2, SnoopDeclines

LEMMA EvictionWord ==
    ASSUME TypeOK, BusProtocol, LinesInv, StrayWords = {}, BusTransferWord, IsEviction(Current)
    PROVE  LET k == Current.origid
               a == Current.bus_addr
               p == WordAt(a.tag, a.index, CurrentOffset)
           IN  /\ dram' = dram
               /\ mainMemory'[p] = dram[k][a.index][CurrentOffset]
               /\ \A x \in Addr : x # p => mainMemory'[x] = mainMemory[x]
               /\ \A c \in Cores, j \in Indices :
                      tsram'[c][j].tag = tsram[c][j].tag /\ tsram'[c][j].mesi = tsram[c][j].mesi
<1> DEFINE k == Current.origid
           a == Current.bus_addr
           i == a.index
           o == CurrentOffset
           p == WordAt(a.tag, i, o)
           word == dram[k][i][o]
<1>1. /\ Serving /\ i \in Indices /\ o \in Offsets /\ a.tag \in Tags
      /\ Packet.bus_addr \in Addr /\ Packet.bus_addr.tag = a.tag
      /\ Packet.bus_addr.index = i /\ Packet.bus_addr.offset = o
      /\ ReleasedMemory = mainMemory
      /\ mainMemory \in [Addr -> Value]
  BY MemoryKept, TransferPace, ServedFacts DEF Addr, Transaction, TypeOK, MemoryTypeOK
<1>2. Packet.bus_addr = p /\ p \in Addr
  BY <1>1, WordAddresses
<1>3. p.index = i /\ p.offset = o
  BY DEF WordAt
<1>4. SnoopedPacket = NewTransaction(k, "flush", p, word)
  BY <1>1, <1>2, <1>3, EvictionSnooped DEF Word
<1>5. mainMemory' = Written(SnoopedPacket, mainMemory)
  BY <1>1 DEF BusTransferWord, MemoryServes
<1> HIDE DEF p, word
<1>6. mainMemory' = [mainMemory EXCEPT ![p] = word]
  BY <1>4, <1>5 DEF Written, NewTransaction
<1>7. /\ mainMemory'[p] = word
      /\ \A x \in Addr : x # p => mainMemory'[x] = mainMemory[x]
  BY <1>1, <1>2, <1>6
<1>8. /\ dram' = dram
      /\ tsram' = SnoopedTsram(k, Packet)
  BY EvictionFillsNothing
<1>9. \A c \in Cores, j \in Indices :
          tsram'[c][j].tag = tsram[c][j].tag /\ tsram'[c][j].mesi = tsram[c][j].mesi
  BY <1>1, <1>8, EvictionLines
<1> QED
  BY <1>7, <1>8, <1>9 DEF p, word

-----------------------------------------------------------------------------
(* Steps that change no word and no line.                                  *)

(* A dirty line stays saved, or its eviction stays undone until the line   *)
(* is saved.                                                               *)
LEMMA DirtyStays ==
    ASSUME DirtyLineSaved, Unserved' \subseteq Unserved,
           \A t \in Unserved' :
               IsRequest(t) /\ Line(t.origid, t.bus_addr)'.mesi = "MODIFIED" =>
                   /\ Line(t.origid, t.bus_addr).mesi = "MODIFIED"
                   /\ \A o \in Offsets : WordSaved(t.origid, t.bus_addr.index, o) =>
                                         WordSaved(t.origid, t.bus_addr.index, o)',
           \A e \in Undone :
               IsEviction(e) =>
                   \/ e \in Undone'
                   \/ \A o \in Offsets : WordSaved(e.origid, e.bus_addr.index, o)'
    PROVE  DirtyLineSaved'
<1> SUFFICES ASSUME NEW t \in Unserved', IsRequest(t),
                    Line(t.origid, t.bus_addr)'.mesi = "MODIFIED"
             PROVE  \/ \E e \in Undone' : /\ IsEviction(e)
                                          /\ e.origid = t.origid
                                          /\ e.bus_addr.index = t.bus_addr.index
                    \/ \A o \in Offsets : WordSaved(t.origid, t.bus_addr.index, o)'
  BY DEF DirtyLineSaved
<1>1. t \in Unserved /\ Line(t.origid, t.bus_addr).mesi = "MODIFIED"
  OBVIOUS
<1>2. CASE \A o \in Offsets : WordSaved(t.origid, t.bus_addr.index, o)
  BY <1>2
<1>3. CASE \E e \in Undone : /\ IsEviction(e)
                             /\ e.origid = t.origid
                             /\ e.bus_addr.index = t.bus_addr.index
  <2>1. PICK e \in Undone : /\ IsEviction(e)
                            /\ e.origid = t.origid
                            /\ e.bus_addr.index = t.bus_addr.index
    BY <1>3
  <2>2. CASE e \in Undone'
    BY <2>1, <2>2
  <2>3. CASE \A o \in Offsets : WordSaved(e.origid, e.bus_addr.index, o)'
    BY <2>1, <2>3
  <2> QED
    BY <2>1, <2>2, <2>3
<1> QED
  BY <1>1, <1>2, <1>3 DEF DirtyLineSaved

LEMMA StillWords ==
    ASSUME WordsInv, DirtyLineSaved', UNCHANGED <<tsram, dram, mainMemory>>,
           \A c \in Cores, i \in Indices : Filling(c, i)' <=> Filling(c, i),
           \/ UNCHANGED <<gIsBusTransactionActive, gOngoingTransaction, gBusAddrOffset,
                          gIsMemoryBusy>>
           \/ ~ gIsBusTransactionActive'
           \/ gBusAddrOffset' = 0 /\ ~ gIsMemoryBusy'
    PROVE  WordsInv'
<1>1. CleanLinesAgree'
  BY DEF WordsInv, CleanLinesAgree, Settled
<1>2. CASE UNCHANGED <<gIsBusTransactionActive, gOngoingTransaction, gBusAddrOffset,
                       gIsMemoryBusy>>
  <2>1. SnoopedBlock'
    BY <1>2 DEF WordsInv, SnoopedBlock, RequestInProgress, Line
  <2>2. TransferredAgree'
    BY <1>2 DEF WordsInv, TransferredAgree, RequestInProgress, Line, Owns, WordSaved
  <2>3. FlushedSaved'
    BY <1>2 DEF WordsInv, FlushedSaved, EvictionInProgress, WordSaved
  <2> QED
    BY <1>1, <2>1, <2>2, <2>3 DEF WordsInv
<1>3. CASE ~ gIsBusTransactionActive'
  BY <1>1, <1>3 DEF WordsInv, SnoopedBlock, TransferredAgree, FlushedSaved,
                    RequestInProgress, EvictionInProgress
<1>4. CASE gBusAddrOffset' = 0 /\ ~ gIsMemoryBusy'
  <2>1. \A o \in Offsets : ~ (o < gBusAddrOffset')
    BY <1>4, BlockSizeAssumption DEF Offsets
  <2> QED
    BY <1>1, <1>4, <2>1 DEF WordsInv, SnoopedBlock, TransferredAgree, FlushedSaved
<1> QED
  BY <1>2, <1>3, <1>4

LEMMA BusIdleWords ==
    ASSUME TypeOK, StrayWords = {}, WordsInv, BusIdle
    PROVE  WordsInv'
<1>1. /\ UNCHANGED <<tsram, dram, mainMemory, queue>>
      /\ ~ gIsBusTransactionActive /\ ~ gIsBusTransactionActive'
  BY MemoryKept DEF BusIdle, cacheVars
<1>2. Undone' = Undone /\ Unserved' = Unserved
  BY <1>1 DEF Undone, Unserved, Queued, Position
<1>3. DirtyLineSaved'
  BY <1>1, <1>2, DirtyStays DEF WordsInv, Line, WordSaved
<1>4. \A c \in Cores, i \in Indices : Filling(c, i)' <=> Filling(c, i)
  BY <1>1 DEF Filling
<1> QED
  BY <1>1, <1>3, <1>4, StillWords

LEMMA BusDropInvalidWords ==
    ASSUME TypeOK, BusProtocol, StrayWords = {}, WordsInv, BusDropInvalid
    PROVE  WordsInv'
<1>1. /\ UNCHANGED <<tsram, dram, mainMemory>>
      /\ ~ gIsBusTransactionActive /\ ~ gIsBusTransactionActive'
      /\ queue # << >> /\ queue' = Tail(queue) /\ Head(queue).origid = invalid_caller
  BY MemoryKept DEF BusDropInvalid, Dequeued, cacheVars
<1>2. /\ Unserved' \subseteq Unserved
      /\ Undone \subseteq Undone' \union {Head(queue)}
  BY <1>1, TailProtocol DEF Undone, Unserved, Queued
<1>3. ~ IsEviction(Head(queue))
  <2>1. Head(queue) \in Undone
    BY <1>1, TailProtocol DEF Undone, Queued
  <2> QED
    BY <1>1, <2>1, UndoneTypes, CallersDiffer
<1>4. DirtyLineSaved'
  BY <1>1, <1>2, <1>3, DirtyStays DEF WordsInv, Line, WordSaved
<1>5. \A c \in Cores, i \in Indices : Filling(c, i)' <=> Filling(c, i)
  BY <1>1 DEF Filling
<1> QED
  BY <1>1, <1>4, <1>5, StillWords

(* Serving a transaction, until its last word, keeps it undone.            *)
LEMMA WaitForOwnerWords ==
    ASSUME TypeOK, BusProtocol, MemoryInStep, StrayWords = {}, WordsInv, BusWaitForOwner
    PROVE  WordsInv'
<1>1. /\ UNCHANGED <<tsram, dram, mainMemory, gIsMemoryBusy>>
      /\ Serving /\ Grant /\ gIsBusTransactionActive' /\ gBusAddrOffset' = CurrentOffset
  BY MemoryKept DEF BusWaitForOwner, cacheVars
<1>2. /\ Unserved' \subseteq Unserved /\ gOngoingTransaction' = Current
      /\ Undone \subseteq Undone'
  BY <1>1, ServedEntries DEF Undone
<1>3. DirtyLineSaved'
  BY <1>1, <1>2, DirtyStays DEF WordsInv, Line, WordSaved
<1>4. \A c \in Cores, i \in Indices : Filling(c, i)' <=> Filling(c, i)
  BY <1>1, <1>2 DEF Filling, Current, CurrentOffset
<1>5. CASE gIsBusTransactionActive
  <2>1. UNCHANGED <<gIsBusTransactionActive, gOngoingTransaction, gBusAddrOffset, gIsMemoryBusy>>
    BY <1>1, <1>2, <1>5 DEF Current, CurrentOffset, TypeOK
  <2> QED
    BY <1>1, <1>3, <1>4, <2>1, StillWords
<1>6. CASE ~ gIsBusTransactionActive
  <2>1. gBusAddrOffset' = 0 /\ ~ gIsMemoryBusy'
    BY <1>1, <1>6 DEF CurrentOffset, MemoryInStep
  <2> QED
    BY <1>1, <1>3, <1>4, <2>1, StillWords
<1> QED
  BY <1>5, <1>6

-----------------------------------------------------------------------------
(* The memory delay.                                                       *)

(* A request that waits for the memory finds no owner: an owner would have *)
(* been answered for at once.                                              *)
LEMMA NoOwnerAwaited ==
    ASSUME TypeOK, BusProtocol, MemoryInStep, WordsInv, BusAwaitMemory, IsRequest(Current)
    PROVE  /\ CurrentOffset = 0
           /\ \A d \in Cores \ {Current.origid} : ~ Owns(d, Current.bus_addr)
<1>1. /\ Serving /\ ~ MemoryReady(IsModified(Current))
      /\ IsModified(Current) \in BOOLEAN
  BY DEF BusAwaitMemory, MemoryWaits, IsModified
<1>2. CurrentOffset = 0 /\ (gIsMemoryBusy \/ ~ IsModified(Current))
  BY <1>1, ServedInStep
<1>3. CASE gIsMemoryBusy
  <2>1. gIsBusTransactionActive /\ Current = gOngoingTransaction /\ gBusAddrOffset = 0
    BY <1>2, <1>3 DEF MemoryInStep, Current, CurrentOffset
  <2> QED
    BY <1>2, <1>3, <2>1 DEF WordsInv, SnoopedBlock, RequestInProgress, Owns
<1>4. CASE ~ IsModified(Current)
  BY <1>2, <1>4 DEF IsModified, Owns
<1> QED
  BY <1>2, <1>3, <1>4

(* After the snoop of a request no other cache holds the block EXCLUSIVE.  *)
LEMMA SnoopEndsExclusive ==
    ASSUME TypeOK, BusProtocol, LinesInv, Serving, IsRequest(Current),
           NEW d \in Cores \ {Current.origid},
           tsram[d][Current.bus_addr.index].tag = Current.bus_addr.tag
    PROVE  SnoopedTsram(Current.origid, Packet)[d][Current.bus_addr.index].mesi # "EXCLUSIVE"
<1> DEFINE k == Current.origid
           a == Current.bus_addr
           i == a.index
           new == SnoopedTsram(k, Packet)[d][i].mesi
           old == tsram[d][i].mesi
<1>1. /\ k \in Cores /\ i \in Indices /\ Packet \in Transaction /\ CacheTypeOK
      /\ i = Packet.bus_addr.index /\ a.tag = Packet.bus_addr.tag
  BY ServedFacts DEF TypeOK, Addr
<1>2. new # old => new \in {"INVALID", "SHARED"}
  BY <1>1, SnoopDeclines
<1>3. ASSUME old = "EXCLUSIVE" PROVE new \in {"INVALID", "SHARED"}
  <2>1. Holds(d, a) /\ Holds(d, Packet.bus_addr)
    BY <1>1, <1>3 DEF Holds, Line
  <2>2. CmdSeenBy(d, k, Packet) \in RequestCommands
    BY <2>1, RequestSeen DEF IsRequest
  <2>3. d # k /\ d \in Cores
    OBVIOUS
  <2>4. old # "MODIFIED"
    BY <1>3
  <2> HIDE DEF k, i
  <2> QED
    BY <1>1, <2>1, <2>2, <2>3, <2>4, SnoopedLines
<1> HIDE DEF new, old
<1>4. new # "EXCLUSIVE"
  BY <1>2, <1>3
<1> QED
  BY <1>4 DEF new

LEMMA AwaitWords ==
    ASSUME TypeOK, BusProtocol, LinesInv, MemoryInStep, StrayWords = {}, WordsInv,
           BusAwaitMemory
    PROVE  WordsInv'
<1> SUFFICES ASSUME NEW k, NEW a, NEW i,
                    k = Current.origid, a = Current.bus_addr, i = a.index
             PROVE  WordsInv'
  OBVIOUS
<1>1. /\ Serving /\ Grant /\ gIsBusTransactionActive' /\ gBusAddrOffset' = CurrentOffset
      /\ UNCHANGED <<dram, mainMemory>>
      /\ tsram' = SnoopedTsram(k, Packet)
      /\ gOngoingTransaction' = Current
      /\ k \in Cores /\ a \in Addr /\ i \in Indices
  BY MemoryKept, ServedFacts DEF BusAwaitMemory, Grant, Addr
<1>2. CurrentOffset = 0
  <2>1. ~ MemoryReady(IsModified(Current)) /\ IsModified(Current) \in BOOLEAN
    BY DEF BusAwaitMemory, MemoryWaits, IsModified
  <2> QED
    BY <1>1, <2>1, ServedInStep
<1>3. \A o \in Offsets : ~ (o < gBusAddrOffset')
  BY <1>1, <1>2, BlockSizeAssumption DEF Offsets
<1>4. TransferredAgree' /\ FlushedSaved'
  BY <1>3 DEF TransferredAgree, FlushedSaved
<1>5. \A c \in Cores, j \in Indices : ~ Filling(c, j) /\ ~ Filling(c, j)'
  BY <1>1, <1>2 DEF Filling, CurrentOffset
<1>6. \A c \in Cores, j \in Indices :
        /\ tsram'[c][j].tag = tsram[c][j].tag
        /\ tsram'[c][j].mesi # tsram[c][j].mesi =>
               /\ tsram[c][j].mesi \in {"SHARED", "EXCLUSIVE"}
               /\ tsram'[c][j].mesi \in {"INVALID", "SHARED"}
  <2> SUFFICES ASSUME NEW c \in Cores, NEW j \in Indices
               PROVE  /\ tsram'[c][j].tag = tsram[c][j].tag
                      /\ tsram'[c][j].mesi # tsram[c][j].mesi =>
                             /\ tsram[c][j].mesi \in {"SHARED", "EXCLUSIVE"}
                             /\ tsram'[c][j].mesi \in {"INVALID", "SHARED"}
    OBVIOUS
  <2>1. CASE IsEviction(Current)
    BY <1>1, <2>1, EvictionLines
  <2>2. CASE IsRequest(Current)
    <3>1. tsram[c][j].mesi \in MesiStates
      BY DEF TypeOK, CacheTypeOK, TSRAMLine
    <3>2. c # k => ~ Owns(c, a)
      BY <2>2, NoOwnerAwaited
    <3> QED
      BY <1>1, <3>1, <3>2, SnoopDeclines DEF Owns, Holds, Line, MesiStates
  <2> QED
    BY <1>1, <2>1, <2>2, ServedFacts
<1>7. SnoopedBlock'
  <2> SUFFICES ASSUME IsRequest(Current), NEW d \in Cores \ {k}, tsram'[d][i].tag = a.tag
               PROVE  tsram'[d][i].mesi # "EXCLUSIVE" /\ tsram'[d][i].mesi # "MODIFIED"
    BY <1>1 DEF SnoopedBlock, RequestInProgress, Line
  <2>1. tsram[d][i].tag = a.tag
    BY <1>1, <1>6
  <2>2. tsram'[d][i].mesi # "EXCLUSIVE"
    BY <1>1, <2>1, SnoopEndsExclusive
  <2>3. tsram[d][i].mesi # "MODIFIED"
    BY <2>1, NoOwnerAwaited DEF Owns, Line
  <2> QED
    BY <1>1, <1>6, <2>2, <2>3
<1>8. DirtyLineSaved'
  <2>1. Unserved' \subseteq Unserved /\ Undone \subseteq Undone'
    BY <1>1, ServedEntries DEF Undone
  <2>2. \A t \in Unserved' : IsRequest(t) => t.origid \in Cores /\ t.bus_addr.index \in Indices
    BY <2>1, UndoneTypes DEF Transaction, Addr
  <2>3. \A t \in Unserved' :
            IsRequest(t) /\ Line(t.origid, t.bus_addr)'.mesi = "MODIFIED" =>
                /\ Line(t.origid, t.bus_addr).mesi = "MODIFIED"
                /\ \A o \in Offsets : WordSaved(t.origid, t.bus_addr.index, o) =>
                                      WordSaved(t.origid, t.bus_addr.index, o)'
    BY <1>1, <1>6, <2>2 DEF Line, WordSaved
  <2> QED
    BY <2>1, <2>3, DirtyStays DEF WordsInv
<1>9. CleanLinesAgree'
  BY <1>1, <1>5, <1>6 DEF WordsInv, CleanLinesAgree, Settled
<1> QED
  BY <1>4, <1>7, <1>8, <1>9 DEF WordsInv

-----------------------------------------------------------------------------
(* A word of an eviction.                                                  *)

(* Only the owner holds the block being written back.                      *)
LEMMA EvictedBlock ==
    ASSUME TypeOK, BusProtocol, LinesInv, Serving, IsEviction(Current),
           NEW c \in Cores, NEW j \in Indices, tsram[c][j].mesi # "INVALID",
           tsram[c][j].tag = Current.bus_addr.tag, j = Current.bus_addr.index
    PROVE  c = Current.origid /\ tsram[c][j].mesi = "MODIFIED"
<1>1. Owns(Current.origid, Current.bus_addr) /\ PrivateBlockOf(Current.origid, Current.bus_addr)
  BY ServedFacts DEF LinesInv, EvictionsOwned
<1>2. Accesses(c, tsram[c][j].tag, j)
  BY DEF LinesInv, HeldInProgram
<1> QED
  BY <1>1, <1>2 DEF Owns, Line, PrivateBlockOf, Private

LEMMA EvictionWordWords ==
    ASSUME TypeOK, BusProtocol, LinesInv, MemoryInStep, StrayWords = {}, WordsInv,
           BusTransferWord, IsEviction(Current)
    PROVE  WordsInv'
<1> SUFFICES ASSUME NEW k, NEW a, NEW i, NEW o, NEW p,
                    k = Current.origid, a = Current.bus_addr, i = a.index,
                    o = CurrentOffset, p = WordAt(a.tag, i, o)
             PROVE  WordsInv'
  OBVIOUS
<1>1. /\ Serving /\ Grant /\ gOngoingTransaction' = Current
      /\ k \in Cores /\ a \in Addr /\ i \in Indices /\ a.tag \in Tags /\ o \in Offsets
      /\ gIsBusTransactionActive' = (o # LastOffset)
      /\ gBusAddrOffset' = IF o = LastOffset THEN o ELSE o + 1
  BY TransferPace, ServedFacts DEF Grant, Addr
<1>2. /\ dram' = dram
      /\ mainMemory'[p] = dram[k][i][o]
      /\ \A x \in Addr : x # p => mainMemory'[x] = mainMemory[x]
      /\ \A c \in Cores, j \in Indices :
            tsram'[c][j].tag = tsram[c][j].tag /\ tsram'[c][j].mesi = tsram[c][j].mesi
  BY EvictionWord
<1>3. \A c \in Cores, j \in Indices : tsram[c][j].tag \in Tags
  BY DEF TypeOK, CacheTypeOK, TSRAMLine
<1>4. \A tag \in Tags, j \in Indices, w \in Offsets :
        /\ WordAt(tag, j, w) \in Addr
        /\ WordAt(tag, j, w) = p <=> tag = a.tag /\ j = i /\ w = o
  BY <1>1 DEF WordAt, Addr
<1>5. Owns(k, a)
  BY <1>1, ServedFacts DEF LinesInv, EvictionsOwned
<1>6. WordSaved(k, i, o)'
  BY <1>1, <1>2, <1>5 DEF WordSaved, Owns, Line
<1>7. \A c \in Cores, j \in Indices, w \in Offsets :
        tsram[c][j].mesi # "INVALID" /\ WordSaved(c, j, w) => WordSaved(c, j, w)'
  <2> SUFFICES ASSUME NEW c \in Cores, NEW j \in Indices, NEW w \in Offsets,
                      tsram[c][j].mesi # "INVALID", WordSaved(c, j, w)
               PROVE  WordSaved(c, j, w)'
    OBVIOUS
  <2>1. CASE WordAt(tsram[c][j].tag, j, w) = p
    <3>1. tsram[c][j].tag = a.tag /\ j = i /\ w = o
      BY <1>3, <1>4, <2>1
    <3>2. c = k
      BY <1>1, <3>1, EvictedBlock
    <3> QED
      BY <1>6, <3>1, <3>2
  <2>2. CASE WordAt(tsram[c][j].tag, j, w) # p
    BY <1>2, <1>3, <1>4, <2>2 DEF WordSaved
  <2> QED
    BY <2>1, <2>2
<1>8. ~ IsRequest(Current)
  BY DEF IsEviction, IsRequest, RequestCommands
<1>9. SnoopedBlock' /\ TransferredAgree'
  BY <1>1, <1>8 DEF SnoopedBlock, TransferredAgree, RequestInProgress
<1>10. \A w \in Offsets : w < o => WordSaved(k, i, w)
  <2> SUFFICES ASSUME NEW w \in Offsets, w < o PROVE WordSaved(k, i, w)
    OBVIOUS
  <2>1. o # 0
    BY BlockSizeAssumption DEF Offsets
  <2>2. EvictionInProgress /\ Current = gOngoingTransaction /\ o = gBusAddrOffset
    BY <1>1, <2>1, ServedFacts DEF EvictionInProgress
  <2> QED
    BY <2>2 DEF WordsInv, FlushedSaved
<1>11. \A w \in Offsets : w <= o => WordSaved(k, i, w)'
  <2> SUFFICES ASSUME NEW w \in Offsets, w <= o PROVE WordSaved(k, i, w)'
    OBVIOUS
  <2>1. w < o \/ w = o
    BY <1>1 DEF Offsets
  <2>2. tsram[k][i].mesi # "INVALID"
    BY <1>5 DEF Owns, Line
  <2> QED
    BY <1>1, <1>6, <1>7, <1>10, <2>1, <2>2
<1>12. FlushedSaved'
  <2>1. o # LastOffset => \A w \in Offsets : w < gBusAddrOffset' => w <= o
    BY <1>1 DEF Offsets
  <2> QED
    BY <1>1, <1>11, <2>1 DEF FlushedSaved, EvictionInProgress
<1>13. DirtyLineSaved'
  <2>1. Unserved' \subseteq Unserved /\ Undone \subseteq Queued' \union {Current}
    <3>1. gBusAddrOffset' # 0 \/ ~ gIsBusTransactionActive'
      <4>1. o # LastOffset => gBusAddrOffset' # 0
        BY <1>1 DEF Offsets
      <4> QED
        BY <1>1, <4>1
    <3>2. Queued' \subseteq Unserved
      BY <1>1, ServedEntries DEF Unserved
    <3> QED
      BY <1>1, <3>1, <3>2, ServedEntries
  <2>2. \A t \in Unserved' : IsRequest(t) => t.origid \in Cores /\ t.bus_addr.index \in Indices
    BY <2>1, UndoneTypes DEF Transaction, Addr
  <2>3. \A t \in Unserved' :
            IsRequest(t) /\ Line(t.origid, t.bus_addr)'.mesi = "MODIFIED" =>
                /\ Line(t.origid, t.bus_addr).mesi = "MODIFIED"
                /\ \A w \in Offsets : WordSaved(t.origid, t.bus_addr.index, w) =>
                                      WordSaved(t.origid, t.bus_addr.index, w)'
    BY <1>2, <1>7, <2>2 DEF Line
  <2>4. o # LastOffset => Current \in Undone'
    BY <1>1 DEF Undone
  <2>5. o = LastOffset => \A w \in Offsets : WordSaved(k, i, w)'
    <3>1. \A w \in Offsets : w <= LastOffset
      BY BlockSizeAssumption DEF Offsets, LastOffset
    <3> QED
      BY <1>11, <3>1
  <2>6. \A e \in Undone :
            IsEviction(e) =>
                \/ e \in Undone'
                \/ \A w \in Offsets : WordSaved(e.origid, e.bus_addr.index, w)'
    BY <2>1, <2>4, <2>5 DEF Undone
  <2> QED
    BY <2>1, <2>3, <2>6, DirtyStays DEF WordsInv
<1>14. CleanLinesAgree'
  <2> SUFFICES ASSUME NEW c \in Cores, NEW j \in Indices, NEW w \in Offsets,
                      Settled(c, j, {"SHARED", "EXCLUSIVE"})'
               PROVE  WordSaved(c, j, w)'
    BY DEF CleanLinesAgree, WordSaved
  <2>1. ~ Filling(c, j)
    BY <1>1 DEF Filling, Current, IsEviction
  <2>2. Settled(c, j, {"SHARED", "EXCLUSIVE"})
    BY <1>2, <2>1 DEF Settled
  <2>3. WordSaved(c, j, w)
    BY <2>2 DEF WordsInv, CleanLinesAgree, WordSaved
  <2>4. tsram[c][j].mesi # "INVALID"
    BY <2>2 DEF Settled
  <2> QED
    BY <1>7, <2>3, <2>4
<1> QED
  BY <1>9, <1>12, <1>13, <1>14 DEF WordsInv

-----------------------------------------------------------------------------
(* A word of a request.                                                    *)

(* A MODIFIED line that the snoop of a word changes is the owner's, at the *)
(* last word.                                                              *)
LEMMA OwnerDeclinesLast ==
    ASSUME TypeOK, BusProtocol, LinesInv, BusTransferWord, IsRequest(Current),
           NEW c \in Cores, NEW j \in Indices,
           c # Current.origid \/ j # Current.bus_addr.index,
           tsram[c][j].mesi = "MODIFIED", tsram'[c][j].mesi # "MODIFIED"
    PROVE  /\ CurrentOffset = LastOffset
           /\ c # Current.origid /\ j = Current.bus_addr.index /\ Owns(c, Current.bus_addr)
<1> SUFFICES ASSUME NEW k, k = Current.origid,
                    tsram[c][j].mesi # SnoopedTsram(k, Packet)[c][j].mesi
             PROVE  /\ CurrentOffset = LastOffset
                    /\ c # k /\ j = Current.bus_addr.index /\ Owns(c, Current.bus_addr)
  BY FilledLines
<1>1. /\ Serving /\ k \in Cores /\ Packet \in Transaction /\ CacheTypeOK
      /\ Packet.bus_addr.tag = Current.bus_addr.tag
      /\ Packet.bus_addr.index = Current.bus_addr.index
      /\ Packet.bus_addr.offset = CurrentOffset
  BY ServedFacts, TransferPace DEF TypeOK
<1>2. /\ c # k /\ j = Packet.bus_addr.index /\ Holds(c, Packet.bus_addr)
      /\ CurrentOffset = LastOffset
  BY <1>1, SnoopedLines
<1>3. Owns(c, Current.bus_addr)
  BY <1>1, <1>2 DEF Holds, Owns, Line
<1> QED
  BY <1>1, <1>2, <1>3

(* A valid line that agreed with main memory in a word still does: the     *)
(* owner has supplied the word, or main memory is as it was.               *)
LEMMA OtherWordsKept ==
    ASSUME TypeOK, BusProtocol, LinesInv, StrayWords = {}, BusTransferWord,
           IsRequest(Current),
           NEW c \in Cores, NEW j \in Indices, NEW w \in Offsets,
           c # Current.origid \/ j # Current.bus_addr.index,
           tsram[c][j].mesi # "INVALID", WordSaved(c, j, w)
    PROVE  WordSaved(c, j, w)'
<1> SUFFICES ASSUME NEW k, NEW a, NEW i, NEW o, NEW p,
                    k = Current.origid, a = Current.bus_addr, i = a.index,
                    o = CurrentOffset, p = WordAt(a.tag, i, o)
             PROVE  WordSaved(c, j, w)'
  OBVIOUS
<1>1. /\ Serving /\ k \in Cores /\ a \in Addr /\ i \in Indices /\ a.tag \in Tags
      /\ o \in Offsets
  BY TransferPace, ServedFacts DEF Addr
<1>2. /\ \A x \in Addr : x # p => mainMemory'[x] = mainMemory[x]
      /\ (\A d \in Cores \ {k} : ~ Owns(d, a)) => mainMemory' = mainMemory
      /\ \A d \in Cores \ {k} : Owns(d, a) => mainMemory'[p] = dram[d][i][o]
      /\ dram'[c][j][w] = dram[c][j][w]
  BY RequestWord
<1>3. /\ tsram[c][j].tag \in Tags /\ tsram[c][j].mesi \in MesiStates
      /\ tsram'[c][j].tag = tsram[c][j].tag
  BY OtherLines DEF Declines, TypeOK, CacheTypeOK, TSRAMLine
<1>4. CASE WordAt(tsram[c][j].tag, j, w) = p
  <2>1. tsram[c][j].tag = a.tag /\ j = i /\ w = o
    BY <1>1, <1>3, <1>4, WordAddresses DEF WordAt
  <2>2. c \in Cores \ {k}
    BY <2>1
  <2>3. CASE Owns(c, a)
    BY <1>2, <1>3, <1>4, <2>1, <2>2, <2>3 DEF WordSaved
  <2>4. CASE \A d \in Cores \ {k} : ~ Owns(d, a)
    BY <1>2, <1>3, <2>4 DEF WordSaved
  <2>5. ASSUME NEW d \in Cores \ {k}, d # c, Owns(d, a) PROVE FALSE
    <3>1. Holds(c, a)
      BY <2>1 DEF Holds, Line
    <3> QED
      BY <1>1, <2>2, <2>5, <3>1, OwnerAlone DEF Owns
  <2> QED
    BY <2>3, <2>4, <2>5
<1>5. CASE WordAt(tsram[c][j].tag, j, w) # p
  <2>1. WordAt(tsram[c][j].tag, j, w) \in Addr
    BY <1>3 DEF WordAt, Addr
  <2> QED
    BY <1>2, <1>3, <1>5, <2>1 DEF WordSaved
<1> QED
  BY <1>4, <1>5

(* The words of the block up to the one transferred agree in the caller's  *)
(* line and in the owner's.                                                *)
LEMMA TransferredSoFar ==
    ASSUME TypeOK, BusProtocol, LinesInv, StrayWords = {}, WordsInv, BusTransferWord,
           IsRequest(Current),
           NEW d \in Cores, d = Current.origid \/ Owns(d, Current.bus_addr),
           NEW i \in Indices, i = Current.bus_addr.index,
           NEW w \in Offsets, w <= CurrentOffset
    PROVE  WordSaved(d, i, w)'
<1> SUFFICES ASSUME NEW k, NEW a, NEW o, NEW p,
                    k = Current.origid, a = Current.bus_addr,
                    o = CurrentOffset, p = WordAt(a.tag, i, o)
             PROVE  WordSaved(d, i, w)'
  OBVIOUS
<1>1. /\ Serving /\ k \in Cores /\ a \in Addr /\ i \in Indices /\ a.tag \in Tags
      /\ o \in Offsets
  BY TransferPace, ServedFacts DEF Addr
<1>2. /\ dram'[k][i][o] = mainMemory'[p]
      /\ \A c \in Cores, j \in Indices, v \in Offsets :
            c # k \/ j # i \/ v # o => dram'[c][j][v] = dram[c][j][v]
      /\ \A x \in Addr : x # p => mainMemory'[x] = mainMemory[x]
      /\ \A c \in Cores \ {k} : Owns(c, a) => mainMemory'[p] = dram[c][i][o]
  BY RequestWord
<1>3. tsram'[d][i].tag = a.tag
  <2>1. CASE d = k
    BY <2>1, FilledLines
  <2>2. CASE d # k
    BY <1>1, <2>2, OtherLines DEF Declines, Owns, Line
  <2> QED
    BY <2>1, <2>2
<1>4. CASE w = o
  BY <1>1, <1>2, <1>3, <1>4 DEF WordSaved
<1>5. CASE w < o
  <2>1. o # 0
    BY <1>5, BlockSizeAssumption DEF Offsets
  <2>2. Current = gOngoingTransaction /\ o = gBusAddrOffset /\ RequestInProgress
    BY <1>1, <2>1, ServedFacts DEF RequestInProgress
  <2>3. gBusAddrOffset > 0
    BY <1>1, <2>1, <2>2 DEF Offsets
  <2>4. WordSaved(d, i, w)
    BY <1>5, <2>2 DEF WordsInv, TransferredAgree
  <2>5. tsram[d][i].tag = a.tag
    BY <2>2, <2>3 DEF LinesInv, FilledLinePrivate, Owns, Line
  <2>6. w # o
    BY <1>1, <1>5 DEF Offsets
  <2>7. WordAt(a.tag, i, w) \in Addr /\ WordAt(a.tag, i, w) # p
    BY <1>1, <2>6 DEF WordAt, Addr
  <2> QED
    BY <1>1, <1>2, <1>3, <2>4, <2>5, <2>6, <2>7 DEF WordSaved
<1> QED
  BY <1>1, <1>4, <1>5 DEF Offsets

LEMMA RequestWordWords ==
    ASSUME TypeOK, BusProtocol, BusProtocol', LinesInv, MemoryInStep, StrayWords = {},
           WordsInv, BusTransferWord, IsRequest(Current)
    PROVE  WordsInv'
<1> SUFFICES ASSUME NEW k, NEW a, NEW i, NEW o,
                    k = Current.origid, a = Current.bus_addr, i = a.index,
                    o = CurrentOffset
             PROVE  WordsInv'
  OBVIOUS
<1>1. /\ Serving /\ Grant /\ gOngoingTransaction' = Current
      /\ k \in Cores /\ a \in Addr /\ i \in Indices /\ a.tag \in Tags /\ o \in Offsets
      /\ gIsBusTransactionActive' = (o # LastOffset)
      /\ gBusAddrOffset' = IF o = LastOffset THEN o ELSE o + 1
      /\ ServesTransaction(o = LastOffset)
  BY TransferPace, ServedFacts DEF Grant, Addr
<1>2. /\ o # LastOffset => gBusAddrOffset' = o + 1 /\ gBusAddrOffset' > 0
      /\ gBusAddrOffset' > 0 => gBusAddrOffset' # 0
      /\ \A w \in Offsets : w < o + 1 => w <= o
      /\ \A w \in Offsets : w <= LastOffset
  BY <1>1, BlockSizeAssumption DEF Offsets, LastOffset
<1>3. ~ IsEviction(Current)
  BY DEF IsEviction, IsRequest, RequestCommands
<1>4. \A c \in Cores, j \in Indices :
        c # k \/ j # i => Declines(c, j) /\ ~ Filling(c, j)
  BY OtherLines
<1>5. SnoopedBlock'
  <2> SUFFICES ASSUME o # LastOffset, NEW d \in Cores \ {k}, tsram'[d][i].tag = a.tag
               PROVE  tsram'[d][i].mesi # "EXCLUSIVE"
    BY <1>1, <1>2 DEF SnoopedBlock, RequestInProgress, Line
  <2>1. tsram[d][i].tag = a.tag
    BY <1>1, <1>4 DEF Declines
  <2>2. tsram'[d][i] = SnoopedTsram(k, Packet)[d][i]
    BY <1>1, FilledLines
  <2> QED
    BY <1>1, <2>1, <2>2, SnoopEndsExclusive
<1>6. TransferredAgree'
  <2> SUFFICES ASSUME o # LastOffset, NEW w \in Offsets, NEW d \in Cores,
                      w < o + 1, d = k \/ Owns(d, a)'
               PROVE  WordSaved(d, i, w)'
    BY <1>1, <1>2 DEF TransferredAgree, RequestInProgress
  <2>1. d = k \/ Owns(d, a)
    BY <1>1, <1>4 DEF Owns, Line, Declines
  <2> QED
    BY <1>1, <1>2, <2>1, TransferredSoFar
<1>7. FlushedSaved'
  BY <1>1, <1>3 DEF FlushedSaved, EvictionInProgress
<1>8. DirtyLineSaved'
  <2>1. Unserved' \subseteq Unserved /\ Undone \subseteq Queued' \union {Current}
    <3>1. gBusAddrOffset' # 0 \/ ~ gIsBusTransactionActive'
      BY <1>1, <1>2
    <3>2. Queued' \subseteq Unserved
      BY <1>1, ServedEntries DEF Unserved
    <3> QED
      BY <1>1, <3>1, <3>2, ServedEntries
  <2>2. \A t \in Unserved' : IsRequest(t) =>
            /\ t.origid \in Cores /\ t.bus_addr.index \in Indices
            /\ t.origid # k
    <3>1. Unserved' = Queued'
      BY <1>1, <1>2, ServedEntries
    <3>2. \A t \in Queued' : t.origid # k
      BY <1>1, ServedCoreAlone
    <3> QED
      BY <2>1, <3>1, <3>2, UndoneTypes DEF Transaction, Addr
  <2>3. \A t \in Unserved' :
            IsRequest(t) /\ Line(t.origid, t.bus_addr)'.mesi = "MODIFIED" =>
                /\ Line(t.origid, t.bus_addr).mesi = "MODIFIED"
                /\ \A w \in Offsets : WordSaved(t.origid, t.bus_addr.index, w) =>
                                      WordSaved(t.origid, t.bus_addr.index, w)'
    <3> SUFFICES ASSUME NEW t \in Unserved', IsRequest(t),
                        tsram'[t.origid][t.bus_addr.index].mesi = "MODIFIED"
                 PROVE  /\ tsram[t.origid][t.bus_addr.index].mesi = "MODIFIED"
                        /\ \A w \in Offsets : WordSaved(t.origid, t.bus_addr.index, w) =>
                                              WordSaved(t.origid, t.bus_addr.index, w)'
      BY DEF Line
    <3>1. tsram[t.origid][t.bus_addr.index].mesi = "MODIFIED"
      BY <1>4, <2>2 DEF Declines
    <3> QED
      BY <2>2, <3>1, OtherWordsKept
  <2>4. \A e \in Undone :
            IsEviction(e) =>
                \/ e \in Undone'
                \/ \A w \in Offsets : WordSaved(e.origid, e.bus_addr.index, w)'
    BY <1>3, <2>1 DEF Undone
  <2> QED
    BY <2>1, <2>3, <2>4, DirtyStays DEF WordsInv
<1>9. CleanLinesAgree'
  <2> SUFFICES ASSUME NEW c \in Cores, NEW j \in Indices, NEW w \in Offsets,
                      Settled(c, j, {"SHARED", "EXCLUSIVE"})'
               PROVE  WordSaved(c, j, w)'
    BY DEF CleanLinesAgree, WordSaved
  <2>1. CASE c = k /\ j = i
    <3>1. o = LastOffset
      BY <1>1, <1>2, <1>3, <2>1 DEF Settled, Filling, IsEviction
    <3> QED
      BY <1>1, <1>2, <2>1, <3>1, TransferredSoFar
  <2>2. CASE c # k \/ j # i
    <3>1. tsram'[c][j].mesi \in {"SHARED", "EXCLUSIVE"}
      BY DEF Settled
    <3>2. tsram[c][j].mesi \in MesiStates
      BY DEF TypeOK, CacheTypeOK, TSRAMLine
    <3>3. tsram[c][j].mesi # "INVALID"
      BY <1>4, <2>2, <3>1 DEF Declines
    <3>4. CASE tsram[c][j].mesi = "MODIFIED"
      <4>1. o = LastOffset /\ j = i /\ Owns(c, a)
        BY <2>2, <3>1, <3>4, OwnerDeclinesLast
      <4> QED
        BY <1>1, <1>2, <4>1, TransferredSoFar
    <3>5. CASE tsram[c][j].mesi # "MODIFIED"
      <4>1. Settled(c, j, {"SHARED", "EXCLUSIVE"})
        BY <1>4, <2>2, <3>2, <3>3, <3>5 DEF Settled, MesiStates
      <4>2. WordSaved(c, j, w)
        BY <4>1 DEF WordsInv, CleanLinesAgree, WordSaved
      <4> QED
        BY <2>2, <3>3, <4>2, OtherWordsKept
    <3> QED
      BY <3>4, <3>5
  <2> QED
    BY <2>1, <2>2
<1> QED
  BY <1>5, <1>6, <1>7, <1>8, <1>9 DEF WordsInv

-----------------------------------------------------------------------------
(* The cores.                                                              *)

LEMMA WriteHitChanges ==
    ASSUME TypeOK, NEW c \in Cores, NEW a \in Addr, NEW data, WriteHit(c, a, data)
    PROVE  /\ tsram[c][a.index].tag = a.tag
           /\ tsram[c][a.index].mesi \in {"EXCLUSIVE", "MODIFIED"}
           /\ tsram'[c][a.index].tag = a.tag
           /\ tsram'[c][a.index].mesi = "MODIFIED"
           /\ \A d \in Cores, j \in Indices :
                 d # c \/ j # a.index => tsram'[d][j] = tsram[d][j]
           /\ dram'[c][a.index][a.offset] = data
           /\ \A d \in Cores, j \in Indices, w \in Offsets :
                 d # c \/ j # a.index \/ w # a.offset => dram'[d][j][w] = dram[d][j][w]
<1>1. /\ a.index \in Indices /\ a.offset \in Offsets
      /\ tsram \in [Cores -> [Indices -> TSRAMLine]]
      /\ dram \in [Cores -> [Indices -> [Offsets -> Value]]]
  BY DEF Addr, TypeOK, CacheTypeOK
<1>2. /\ dram' = [dram EXCEPT ![c][a.index][a.offset] = data]
      /\ tsram' = [tsram EXCEPT ![c][a.index].mesi = "MODIFIED"]
      /\ tsram[c][a.index].tag = a.tag
      /\ tsram[c][a.index].mesi \in MesiStates \ {"INVALID", "SHARED"}
  BY <1>1 DEF WriteHit, Holds, Line, TSRAMLine
<1>3. tsram[c][a.index].mesi \in {"EXCLUSIVE", "MODIFIED"}
  BY <1>2 DEF MesiStates
<1>4. /\ tsram'[c][a.index].tag = a.tag
      /\ tsram'[c][a.index].mesi = "MODIFIED"
      /\ \A d \in Cores, j \in Indices :
            d # c \/ j # a.index => tsram'[d][j] = tsram[d][j]
  BY <1>1, <1>2 DEF TSRAMLine
<1>5. /\ dram'[c][a.index][a.offset] = data
      /\ \A d \in Cores, j \in Indices, w \in Offsets :
            d # c \/ j # a.index \/ w # a.offset => dram'[d][j][w] = dram[d][j][w]
  BY <1>1, <1>2
<1> QED
  BY <1>2, <1>3, <1>4, <1>5

(* While the block is on its way to another core, the owner stores only    *)
(* its last word, which has not been transferred yet.                      *)
LEMMA StoreHitWords ==
    ASSUME StoresEndSharedBlocks, TypeOK, BusProtocol, LinesInv, MemoryInStep, WordsInv,
           NEW c \in Cores, StoreHit(c)
    PROVE  WordsInv'
<1>1. PICK r \in Demand(c) : r.op = "SW" /\ WriteHit(c, r.addr, r.data) /\ Succeeds(c)
  BY DEF StoreHit, Presents
<1> SUFFICES ASSUME NEW a, NEW i, a = r.addr, i = a.index
             PROVE  WordsInv'
  OBVIOUS
<1>2. /\ r \in Requests[c] /\ a \in Addr /\ i \in Indices
      /\ a.tag \in Tags /\ a.offset \in Offsets
  BY DemandInProgram, DemandType DEF LinesInv, Addr
<1>3. a.offset = LastOffset \/ Private(c, a.tag, i)
  BY <1>1, <1>2 DEF StoresEndSharedBlocks
<1>4. /\ CacheAvailable(c)
      /\ UNCHANGED <<queue, mainMemory, numOfCycles, gIsMemoryBusy, gOngoingTransaction,
                     gIsBusTransactionActive, gBusAddrOffset>>
  BY <1>1 DEF WriteHit, Succeeds, queueVars, memoryVars, busVars
<1>5. /\ tsram[c][i].tag = a.tag
      /\ tsram[c][i].mesi \in {"EXCLUSIVE", "MODIFIED"}
      /\ tsram'[c][i].tag = a.tag
      /\ tsram'[c][i].mesi = "MODIFIED"
      /\ \A d \in Cores, j \in Indices : d # c \/ j # i => tsram'[d][j] = tsram[d][j]
      /\ \A d \in Cores, j \in Indices, w \in Offsets :
            d # c \/ j # i \/ w # a.offset => dram'[d][j][w] = dram[d][j][w]
  BY <1>1, <1>2, WriteHitChanges
<1>6. /\ Undone' = Undone /\ Unserved' = Unserved /\ Unserved \subseteq Undone
      /\ \A t \in Undone : t.origid # c
      /\ \A t \in Undone : IsRequest(t) \/ IsEviction(t) =>
            t.origid \in Cores /\ t.bus_addr.index \in Indices
  BY <1>4, AvailableCore, UndoneTypes
     DEF Undone, Unserved, Queued, Position, Transaction, Addr
<1>7. \A d \in Cores, j \in Indices : Filling(d, j)' <=> Filling(d, j)
  BY <1>4 DEF Filling
<1>8. \A d \in Cores, j \in Indices, w \in Offsets :
        d # c \/ j # i => (WordSaved(d, j, w)' <=> WordSaved(d, j, w))
  BY <1>4, <1>5 DEF WordSaved
<1>9. ASSUME NEW t, t = gOngoingTransaction, gIsBusTransactionActive
      PROVE  /\ t \in Undone /\ t.origid # c
             /\ IsRequest(t) \/ IsEviction(t) => t.origid \in Cores /\ t.bus_addr.index \in Indices
  BY <1>6, <1>9 DEF Undone
<1>10. SnoopedBlock'
  <2> SUFFICES ASSUME NEW t, t = gOngoingTransaction, RequestInProgress, gIsMemoryBusy,
                      NEW d \in Cores \ {t.origid},
                      tsram'[d][t.bus_addr.index].tag = t.bus_addr.tag
               PROVE  /\ tsram'[d][t.bus_addr.index].mesi # "EXCLUSIVE"
                      /\ gBusAddrOffset = 0 => tsram'[d][t.bus_addr.index].mesi # "MODIFIED"
    BY <1>4 DEF SnoopedBlock, RequestInProgress, Line
  <2>1. t.bus_addr.index \in Indices
    BY <1>9 DEF RequestInProgress
  <2>2. tsram[d][t.bus_addr.index].tag = t.bus_addr.tag
    BY <1>5, <2>1
  <2>3. /\ tsram[d][t.bus_addr.index].mesi # "EXCLUSIVE"
        /\ gBusAddrOffset = 0 => tsram[d][t.bus_addr.index].mesi # "MODIFIED"
    BY <2>2 DEF WordsInv, SnoopedBlock, Line
  <2> QED
    BY <1>5, <2>1, <2>3
<1>11. TransferredAgree'
  <2> SUFFICES ASSUME NEW t, t = gOngoingTransaction, RequestInProgress,
                      NEW w \in Offsets, NEW d \in Cores, w < gBusAddrOffset,
                      NEW j, j = t.bus_addr.index,
                      \/ d = t.origid
                      \/ tsram'[d][j].tag = t.bus_addr.tag /\ tsram'[d][j].mesi = "MODIFIED"
               PROVE  WordSaved(d, j, w)'
    BY <1>4 DEF TransferredAgree, RequestInProgress, Owns, Line
  <2>1. j \in Indices /\ t.origid # c /\ t \in Undone /\ t.origid \in Cores
        /\ gIsBusTransactionActive
    BY <1>9 DEF RequestInProgress
  <2>2. CASE d # c \/ j # i
    <3>1. d = t.origid \/ Owns(d, t.bus_addr)
      BY <1>5, <2>1, <2>2 DEF Owns, Line
    <3>2. WordSaved(d, j, w)
      BY <3>1 DEF WordsInv, TransferredAgree
    <3> QED
      BY <1>8, <2>1, <2>2, <3>2
  <2>3. CASE d = c /\ j = i
    <3>1. t.bus_addr.tag = a.tag /\ d # t.origid
      BY <1>5, <2>1, <2>3
    <3>2. gBusAddrOffset \in Offsets /\ gBusAddrOffset > 0
      BY DEF TypeOK, Offsets
    <3>3. gIsMemoryBusy
      BY <2>1, <3>2 DEF MemoryInStep
    <3>4. tsram[d][j].mesi # "EXCLUSIVE"
      BY <1>5, <2>3, <3>1, <3>3 DEF WordsInv, SnoopedBlock, Line
    <3>5. Owns(d, t.bus_addr)
      BY <1>5, <2>3, <3>1, <3>4 DEF Owns, Line
    <3>6. WordSaved(d, j, w)
      BY <3>5 DEF WordsInv, TransferredAgree
    <3>7. ~ Private(c, a.tag, i)
      <4>1. Accesses(t.origid, a.tag, i)
        BY <2>1, <2>3, <3>1 DEF LinesInv, AskedInProgram, AccessesBlockOf
      <4> QED
        BY <2>1, <4>1 DEF Private
    <3>8. w # a.offset
      BY <1>3, <3>2, <3>7 DEF Offsets, LastOffset
    <3>9. dram'[d][j][w] = dram[d][j][w] /\ tsram'[d][j].tag = tsram[d][j].tag
      BY <1>5, <2>1, <2>3, <3>8
    <3> QED
      BY <1>4, <3>6, <3>9 DEF WordSaved
  <2> QED
    BY <2>2, <2>3
<1>12. FlushedSaved'
  <2> SUFFICES ASSUME NEW t, t = gOngoingTransaction, EvictionInProgress,
                      NEW w \in Offsets, w < gBusAddrOffset
               PROVE  WordSaved(t.origid, t.bus_addr.index, w)'
    BY <1>4 DEF FlushedSaved, EvictionInProgress
  <2>1. t.origid # c /\ t.origid \in Cores /\ t.bus_addr.index \in Indices
    BY <1>9 DEF EvictionInProgress
  <2>2. WordSaved(t.origid, t.bus_addr.index, w)
    BY DEF WordsInv, FlushedSaved
  <2> QED
    BY <1>8, <2>1, <2>2
<1>13. DirtyLineSaved'
  <2>1. \A t \in Unserved' :
            IsRequest(t) /\ Line(t.origid, t.bus_addr)'.mesi = "MODIFIED" =>
                /\ Line(t.origid, t.bus_addr).mesi = "MODIFIED"
                /\ \A w \in Offsets : WordSaved(t.origid, t.bus_addr.index, w) =>
                                      WordSaved(t.origid, t.bus_addr.index, w)'
    BY <1>5, <1>6, <1>8 DEF Line
  <2> QED
    BY <1>6, <2>1, DirtyStays DEF WordsInv
<1>14. CleanLinesAgree'
  <2> SUFFICES ASSUME NEW d \in Cores, NEW j \in Indices, NEW w \in Offsets,
                      Settled(d, j, {"SHARED", "EXCLUSIVE"})'
               PROVE  WordSaved(d, j, w)'
    BY DEF CleanLinesAgree, WordSaved
  <2>1. d # c \/ j # i
    BY <1>5 DEF Settled
  <2>2. Settled(d, j, {"SHARED", "EXCLUSIVE"})
    BY <1>5, <1>7, <2>1 DEF Settled
  <2>3. WordSaved(d, j, w)
    BY <2>2 DEF WordsInv, CleanLinesAgree, WordSaved
  <2> QED
    BY <1>8, <2>1, <2>3
<1> QED
  BY <1>10, <1>11, <1>12, <1>13, <1>14 DEF WordsInv

(* A request that will replace a dirty line is added with its eviction.    *)
LEMMA AskWords ==
    ASSUME TypeOK, BusProtocol, WordsInv,
           NEW c \in Cores, NEW a \in Addr, UNCHANGED <<cacheVars, memoryVars, busVars>>,
           NEW ts, AddTransactions(ts),
           \/ ts = MissTransactions(c, a, "busRd") \/ ts = MissTransactions(c, a, "busRdX")
           \/ Line(c, a).mesi = "SHARED" /\ ts = UpgradeTransactions(c, a)
    PROVE  WordsInv'
<1> DEFINE new == {ts[i] : i \in DOMAIN ts}
<1>1. /\ UNCHANGED <<tsram, dram, mainMemory, gIsMemoryBusy, gOngoingTransaction,
                     gIsBusTransactionActive, gBusAddrOffset>>
      /\ queue' = queue \o ts /\ queue \in Seq(Transaction)
  BY DEF cacheVars, memoryVars, busVars, AddTransactions, Enqueued, TypeOK, QueueTypeOK
<1>2. ts \in Seq(Transaction)
  BY NewEntriesType DEF TypeOK
<1>3. Queued \union new = Queued'
  <2>1. /\ Len(queue) \in Nat /\ DOMAIN queue = 1 .. Len(queue) /\ DOMAIN ts = 1 .. Len(ts)
        /\ DOMAIN queue' = 1 .. Len(queue) + Len(ts) /\ Len(ts) \in Nat
        /\ \A j \in 1 .. Len(queue) : queue'[j] = queue[j]
        /\ \A j \in 1 .. Len(ts) : queue'[Len(queue) + j] = ts[j]
    BY <1>1, <1>2, ConcatFacts
  <2>2. /\ \A j \in 1 .. Len(queue) : j \in 1 .. Len(queue) + Len(ts)
        /\ \A j \in 1 .. Len(ts) : Len(queue) + j \in 1 .. Len(queue) + Len(ts)
    BY <2>1
  <2>3. Queued \subseteq Queued' /\ new \subseteq Queued'
    BY <2>1, <2>2 DEF Queued, Position
  <2>4. Queued' \subseteq Queued \union new
    BY <1>1, <1>2, ConcatFacts DEF Queued, Position
  <2> QED
    BY <2>3, <2>4
<1>4. /\ Unserved' = Unserved \union new
      /\ Undone' = Undone \union new
  BY <1>1, <1>3 DEF Undone, Unserved
<1>5. ASSUME NEW t \in new, IsRequest(t), Line(t.origid, t.bus_addr).mesi = "MODIFIED"
      PROVE  \E e \in new : /\ IsEviction(e)
                            /\ e.origid = t.origid
                            /\ e.bus_addr.index = t.bus_addr.index
  <2>1. CASE Line(c, a).mesi = "SHARED" /\ ts = UpgradeTransactions(c, a)
    <3> DEFINE r == NewTransaction(c, "busRdX", a, 0)
    <3>1. ts = <<r, InvalidTransaction>>
      BY <2>1 DEF UpgradeTransactions
    <3>2. r.origid = c /\ r.bus_addr = a
      BY DEF NewTransaction
    <3>3. ~ IsRequest(InvalidTransaction)
      BY DEF InvalidTransaction, NewTransaction, IsRequest, RequestCommands
    <3> HIDE DEF r
    <3>4. t = r \/ t = InvalidTransaction
      BY <3>1
    <3> QED
      BY <1>5, <2>1, <3>2, <3>3, <3>4
  <2>2. CASE \E cmd \in RequestCommands : ts = MissTransactions(c, a, cmd)
    <3>1. PICK cmd \in RequestCommands : ts = MissTransactions(c, a, cmd)
      BY <2>2
    <3> DEFINE f == NewTransaction(c, "flush", WordAt(Line(c, a).tag, a.index, 0), Word(c, a))
               r == NewTransaction(c, cmd, a, 0)
    <3>2. ts = IF Line(c, a).mesi = "MODIFIED" THEN Append(<<f>>, r) ELSE Append(<< >>, r)
      BY <3>1 DEF MissTransactions, EvictionOf
    <3>3. /\ r.origid = c /\ r.bus_addr = a
          /\ f.origid = c /\ f.bus_cmd = "flush" /\ f.bus_addr.index = a.index
      BY DEF NewTransaction, WordAt
    <3> HIDE DEF f, r
    <3>4. Append(<<f>>, r) = <<f, r>> /\ Append(<< >>, r) = <<r>>
      BY AppendToOne
    <3>5. IsEviction(f) /\ ~ IsRequest(f)
      BY <3>3 DEF IsEviction, IsRequest, RequestCommands
    <3>6. t = r
      BY <1>5, <3>2, <3>4, <3>5
    <3>7. ts = <<f, r>>
      BY <1>5, <3>2, <3>3, <3>4, <3>6
    <3>8. f \in new
      BY <3>7
    <3> HIDE DEF new
    <3> QED
      BY <3>3, <3>5, <3>6, <3>8
  <2> QED
    BY <2>1, <2>2 DEF RequestCommands
<1> HIDE DEF new
<1>6. DirtyLineSaved'
  <2> SUFFICES ASSUME NEW t \in Unserved \union new, IsRequest(t),
                      Line(t.origid, t.bus_addr).mesi = "MODIFIED"
               PROVE  \/ \E e \in Undone \union new : /\ IsEviction(e)
                                                      /\ e.origid = t.origid
                                                      /\ e.bus_addr.index = t.bus_addr.index
                      \/ \A o \in Offsets : WordSaved(t.origid, t.bus_addr.index, o)
    BY <1>1, <1>4 DEF DirtyLineSaved, Line, WordSaved
  <2>1. CASE t \in new
    BY <1>5, <2>1
  <2>2. CASE t \in Unserved
    BY <2>2 DEF WordsInv, DirtyLineSaved
  <2> QED
    BY <2>1, <2>2
<1>7. \A d \in Cores, j \in Indices : Filling(d, j)' <=> Filling(d, j)
  BY <1>1 DEF Filling
<1> QED
  BY <1>1, <1>6, <1>7, StillWords

LEMMA QuietWords ==
    ASSUME WordsInv, UNCHANGED <<cacheVars, queueVars, memoryVars, busVars>>
    PROVE  WordsInv'
<1>1. UNCHANGED <<tsram, dram, mainMemory, gIsMemoryBusy, gOngoingTransaction,
                  gIsBusTransactionActive, gBusAddrOffset, queue>>
  BY DEF cacheVars, memoryVars, busVars, queueVars
<1>2. Undone' = Undone /\ Unserved' = Unserved
  BY <1>1 DEF Undone, Unserved, Queued, Position
<1>3. DirtyLineSaved'
  BY <1>1, <1>2, DirtyStays DEF WordsInv, Line, WordSaved
<1>4. \A d \in Cores, j \in Indices : Filling(d, j)' <=> Filling(d, j)
  BY <1>1 DEF Filling
<1> QED
  BY <1>1, <1>3, <1>4, StillWords

LEMMA CoreWordsStep ==
    ASSUME StoresEndSharedBlocks, TypeOK, BusProtocol, LinesInv, MemoryInStep, WordsInv,
           NEW c \in Cores, CoreCycle(c)
    PROVE  WordsInv'
<1>1. \A r \in Demand(c) : r.addr \in Addr
  BY DemandType
<1>2. CASE CacheBusy(c)
  BY <1>2, QuietWords DEF CacheBusy, Stalls
<1>3. CASE LoadHit(c)
  BY <1>3, QuietWords DEF LoadHit, ReadHit, Succeeds
<1>4. CASE LoadMiss(c)
  BY <1>1, <1>4, AskWords DEF LoadMiss, ReadMiss, Stalls
<1>5. CASE StoreHit(c)
  BY <1>5, StoreHitWords
<1>6. CASE StoreUpgrade(c)
  BY <1>1, <1>6, AskWords DEF StoreUpgrade, WriteUpgrade, Stalls
<1>7. CASE StoreMiss(c)
  BY <1>1, <1>7, AskWords DEF StoreMiss, WriteMiss, Stalls
<1>8. CASE Compute(c)
  BY <1>8, QuietWords DEF Compute
<1> QED
  BY <1>2, <1>3, <1>4, <1>5, <1>6, <1>7, <1>8 DEF CoreCycle

-----------------------------------------------------------------------------
(* The theorems.                                                           *)

LEMMA BusWordsStep ==
    ASSUME TypeOK, BusProtocol, BusProtocol', LinesInv, MemoryInStep, StrayWords = {},
           WordsInv, Run_Bus_Iteration
    PROVE  WordsInv'
<1>1. CASE BusTransferWord
  <2>1. IsRequest(Current) \/ IsEviction(Current)
    BY <1>1, TransferPace, ServedFacts
  <2> QED
    BY <1>1, <2>1, RequestWordWords, EvictionWordWords
<1> QED
  BY <1>1, BusIdleWords, BusDropInvalidWords, WaitForOwnerWords, AwaitWords
     DEF Run_Bus_Iteration

LEMMA InitWords == Init => WordsInv
<1> SUFFICES ASSUME Init PROVE WordsInv
  OBVIOUS
<1>1. Unserved = {} /\ ~ gIsBusTransactionActive
  BY DEF Init, QueueInit, BusInit, Unserved, Queued, Position
<1>2. \A c \in Cores, i \in Indices : tsram[c][i].mesi = "INVALID"
  BY DEF Init, CacheInit
<1> QED
  BY <1>1, <1>2
     DEF WordsInv, SnoopedBlock, TransferredAgree, FlushedSaved, DirtyLineSaved,
         CleanLinesAgree, RequestInProgress, EvictionInProgress, Settled

(* The words of a block that has been transferred, in part or whole, agree *)
(* in the caches and in main memory, and a dirty line is written back      *)
(* before another block takes its place (Run_Bus_Iteration,                *)
(* handle_dirty_block, process_memory_command).                            *)
THEOREM WordsInvariant ==
    ASSUME SharedBlocksStay, StoresEndSharedBlocks, StrayWords = {}
    PROVE  Spec => []WordsInv
<1>1. Init => WordsInv
  BY InitWords
<1>2. /\ TypeOK /\ BusProtocol /\ BusProtocol' /\ LinesInv /\ MemoryInStep
      /\ WordsInv /\ [Next]_vars
      => WordsInv'
  <2> SUFFICES ASSUME TypeOK, BusProtocol, BusProtocol', LinesInv, MemoryInStep,
                      WordsInv, [Next]_vars
               PROVE  WordsInv'
    OBVIOUS
  <2>1. CASE Run_Bus_Iteration
    BY <2>1, BusWordsStep
  <2>2. CASE \E c \in Cores : CoreCycle(c)
    BY <2>2, CoreWordsStep
  <2>3. CASE UNCHANGED vars
    BY <2>3, QuietWords DEF vars
  <2> QED
    BY <2>1, <2>2, <2>3 DEF Next
<1> QED
  BY <1>1, <1>2, TypeCorrect, BusProtocolInvariant, LinesInvariant, CountersInStep,
     PTL DEF Spec

(* A line that is dropped without a flush agrees with main memory          *)
(* (update_cache_read, update_cache_write, cache_response_handle).         *)
THEOREM CleanLinesCorrect ==
    ASSUME SharedBlocksStay, StoresEndSharedBlocks, StrayWords = {}
    PROVE  Spec => []CleanLinesAgree
<1>1. WordsInv => CleanLinesAgree
  BY DEF WordsInv
<1> QED
  BY <1>1, WordsInvariant, PTL
=============================================================================
