---------------------------- MODULE SerialProofs ----------------------------
(***************************************************************************)
(* The caches, the bus and the main memory implement one shared memory     *)
(* (SerialMemory), for every number of cores, block size, delay and set of *)
(* addresses.  CoherentMemory is the refinement mapping: the bus's steps   *)
(* leave it as it is, and a core's step is a load, a store or a wait.      *)
(***************************************************************************)
EXTENDS WordProofs

-----------------------------------------------------------------------------
(* The word the cores see at an address.                                   *)

(* Core c owns the word at a: the owner CoherentMemory looks for.          *)
HasWord(c, a) == Owns(c, a) /\ ~ Filling(c, a.index)

(* There is one owner at most, and its word is the one the cores see.      *)
SeenWords ==
    \A a \in Addr :
        /\ \A c \in Cores : HasWord(c, a) => CoherentMemory[a] = Word(c, a)
        /\ (\A c \in Cores : ~ HasWord(c, a)) => CoherentMemory[a] = mainMemory[a]

LEMMA OneOwner ==
    ASSUME LinesInv, NEW a \in Addr, NEW c \in Cores, NEW d \in Cores, HasWord(d, a),
           tsram[c][a.index].tag = a.tag, ~ Filling(c, a.index),
           tsram[c][a.index].mesi \in {"SHARED", "EXCLUSIVE", "MODIFIED"}
    PROVE  c = d
<1>1. a.index \in Indices
  BY DEF Addr
<1> QED
  BY <1>1 DEF LinesInv, SWMR, Settled, HasWord, Owns, Line

LEMMA WordsSeen == LinesInv => SeenWords
<1> SUFFICES ASSUME LinesInv, NEW a \in Addr
             PROVE  /\ \A c \in Cores : HasWord(c, a) => CoherentMemory[a] = Word(c, a)
                    /\ (\A c \in Cores : ~ HasWord(c, a)) => CoherentMemory[a] = mainMemory[a]
  BY DEF SeenWords
<1> DEFINE owners == {c \in Cores : Owns(c, a) /\ ~ Filling(c, a.index)}
           owner  == CHOOSE c \in owners : TRUE
<1>1. CoherentMemory[a] = IF owners = {} THEN mainMemory[a] ELSE Word(owner, a)
  BY DEF CoherentMemory
<1>2. \A c \in Cores : HasWord(c, a) <=> c \in owners
  BY DEF HasWord
<1>3. \A c, d \in owners : c = d
  BY <1>2, OneOwner DEF HasWord, Owns, Line
<1>4. \A c \in owners : owner \in owners
  OBVIOUS
<1> HIDE DEF owners, owner
<1>5. ASSUME NEW c \in Cores, HasWord(c, a) PROVE CoherentMemory[a] = Word(c, a)
  <2>1. c \in owners /\ c = owner
    BY <1>2, <1>3, <1>4, <1>5
  <2> QED
    BY <1>1, <2>1
<1>6. ASSUME \A c \in Cores : ~ HasWord(c, a) PROVE CoherentMemory[a] = mainMemory[a]
  <2>1. owners = {}
    BY <1>2, <1>6 DEF owners
  <2> QED
    BY <1>1, <2>1
<1> QED
  BY <1>5, <1>6

(* The word at a stays while its owner and the owner's word do, or while   *)
(* there is none and main memory has it.                                   *)
LEMMA SameWord ==
    ASSUME SeenWords, SeenWords', NEW a \in Addr,
           \A c \in Cores : HasWord(c, a)' <=> HasWord(c, a),
           \A c \in Cores : HasWord(c, a) => Word(c, a)' = Word(c, a),
           (\A c \in Cores : ~ HasWord(c, a)) => mainMemory'[a] = mainMemory[a]
    PROVE  CoherentMemory'[a] = CoherentMemory[a]
<1>1. CASE \E c \in Cores : HasWord(c, a)
  BY <1>1 DEF SeenWords
<1>2. CASE \A c \in Cores : ~ HasWord(c, a)
  BY <1>2 DEF SeenWords
<1> QED
  BY <1>1, <1>2

LEMMA SameMemory ==
    ASSUME \A a \in Addr : CoherentMemory'[a] = CoherentMemory[a]
    PROVE  CoherentMemory' = CoherentMemory
<1>1. /\ CoherentMemory = [a \in Addr |-> CoherentMemory[a]]
      /\ CoherentMemory' = [a \in Addr |-> CoherentMemory'[a]]
  BY DEF CoherentMemory
<1> QED
  BY <1>1

(* Words that move nowhere.                                                *)
LEMMA StillMemory ==
    ASSUME SeenWords, SeenWords', UNCHANGED <<tsram, dram, mainMemory>>,
           \A c \in Cores, i \in Indices : Filling(c, i)' <=> Filling(c, i)
    PROVE  CoherentMemory' = CoherentMemory
<1> SUFFICES ASSUME NEW a \in Addr PROVE CoherentMemory'[a] = CoherentMemory[a]
  BY SameMemory
<1>1. a.index \in Indices
  BY DEF Addr
<1>2. \A c \in Cores : /\ HasWord(c, a)' <=> HasWord(c, a)
                       /\ Word(c, a)' = Word(c, a)
  BY <1>1 DEF HasWord, Owns, Line, Word
<1> QED
  BY <1>2, SameWord

-----------------------------------------------------------------------------
(* The bus.                                                                *)

LEMMA AwaitKeepsMemory ==
    ASSUME TypeOK, BusProtocol, LinesInv, MemoryInStep, StrayWords = {}, WordsInv,
           SeenWords, SeenWords', BusAwaitMemory
    PROVE  CoherentMemory' = CoherentMemory
<1> SUFFICES ASSUME NEW x \in Addr, NEW k, k = Current.origid
             PROVE  CoherentMemory'[x] = CoherentMemory[x]
  BY SameMemory
<1>1. /\ Serving /\ Grant /\ gIsBusTransactionActive' /\ gBusAddrOffset' = CurrentOffset
      /\ UNCHANGED <<dram, mainMemory>>
      /\ tsram' = SnoopedTsram(k, Packet)
      /\ x.index \in Indices
  BY MemoryKept DEF BusAwaitMemory, Addr
<1>2. CurrentOffset = 0
  <2>1. ~ MemoryReady(IsModified(Current)) /\ IsModified(Current) \in BOOLEAN
    BY DEF BusAwaitMemory, MemoryWaits, IsModified
  <2> QED
    BY <1>1, <2>1, ServedInStep
<1>3. \A c \in Cores, j \in Indices : ~ Filling(c, j) /\ ~ Filling(c, j)'
  BY <1>1, <1>2 DEF Filling, CurrentOffset
<1>4. \A c \in Cores, j \in Indices :
        /\ tsram'[c][j].tag = tsram[c][j].tag
        /\ tsram'[c][j].mesi = "MODIFIED" <=> tsram[c][j].mesi = "MODIFIED"
  <2>1. CASE IsEviction(Current)
    BY <1>1, <2>1, EvictionLines
  <2>2. CASE IsRequest(Current)
    BY <1>1, <2>2, SnoopDeclines, NoOwnerAwaited DEF Owns, Holds, Line
  <2> QED
    BY <1>1, <2>1, <2>2, ServedFacts
<1>5. \A c \in Cores : /\ HasWord(c, x)' <=> HasWord(c, x)
                       /\ Word(c, x)' = Word(c, x)
  BY <1>1, <1>3, <1>4 DEF HasWord, Owns, Line, Word
<1> QED
  BY <1>1, <1>5, SameWord

(* An eviction copies to main memory the word its owner still supplies.    *)
LEMMA EvictionKeepsMemory ==
    ASSUME TypeOK, BusProtocol, LinesInv, StrayWords = {}, SeenWords, SeenWords',
           BusTransferWord, IsEviction(Current)
    PROVE  CoherentMemory' = CoherentMemory
<1> SUFFICES ASSUME NEW x \in Addr, NEW k, NEW a, NEW i, NEW o, NEW p,
                    k = Current.origid, a = Current.bus_addr, i = a.index,
                    o = CurrentOffset, p = WordAt(a.tag, i, o)
             PROVE  CoherentMemory'[x] = CoherentMemory[x]
  BY SameMemory
<1>1. /\ Serving /\ k \in Cores /\ gOngoingTransaction' = Current /\ x.index \in Indices
      /\ Current.bus_cmd = "flush"
  BY TransferPace, ServedFacts DEF Grant, Addr, IsEviction
<1>2. /\ dram' = dram
      /\ \A y \in Addr : y # p => mainMemory'[y] = mainMemory[y]
      /\ \A c \in Cores, j \in Indices :
            tsram'[c][j].tag = tsram[c][j].tag /\ tsram'[c][j].mesi = tsram[c][j].mesi
  BY EvictionWord
<1>3. \A c \in Cores, j \in Indices : ~ Filling(c, j)' /\ (Filling(c, j) => c # k)
  BY <1>1 DEF Filling, Current
<1>4. \A c \in Cores, j \in Indices : ~ Filling(c, j)
  BY <1>1 DEF Filling, Current
<1>5. \A c \in Cores : /\ HasWord(c, x)' <=> HasWord(c, x)
                       /\ Word(c, x)' = Word(c, x)
  BY <1>1, <1>2, <1>3, <1>4 DEF HasWord, Owns, Line, Word
<1>6. ASSUME \A c \in Cores : ~ HasWord(c, x) PROVE mainMemory'[x] = mainMemory[x]
  <2>1. Owns(k, a)
    BY <1>1, ServedFacts DEF LinesInv, EvictionsOwned
  <2>2. HasWord(k, x) <=> Owns(k, x)
    BY <1>1, <1>4 DEF HasWord
  <2>3. x # p
    BY <1>1, <1>6, <2>1, <2>2 DEF Owns, Line, WordAt
  <2> QED
    BY <1>2, <2>3
<1> QED
  BY <1>5, <1>6, SameWord

(* The lines that a request does not fill keep their words.                *)
LEMMA UnfilledLines ==
    ASSUME TypeOK, BusProtocol, LinesInv, StrayWords = {}, BusTransferWord,
           IsRequest(Current),
           NEW c \in Cores, NEW j \in Indices,
           c # Current.origid \/ j # Current.bus_addr.index
    PROVE  /\ Declines(c, j) /\ ~ Filling(c, j) /\ ~ Filling(c, j)'
           /\ \A w \in Offsets : dram'[c][j][w] = dram[c][j][w]
<1>1. Declines(c, j) /\ ~ Filling(c, j)
  BY OtherLines
<1>2. gOngoingTransaction' = Current
  BY TransferPace DEF Grant
<1>3. ~ Filling(c, j)'
  BY <1>2 DEF Filling
<1>4. \A w \in Offsets : dram'[c][j][w] = dram[c][j][w]
  BY RequestWord
<1> QED
  BY <1>1, <1>3, <1>4

(* The caller does not own the block, nor when it has got its last word.   *)
LEMMA CallerHasNoWord ==
    ASSUME TypeOK, BusProtocol, LinesInv, BusTransferWord, IsRequest(Current),
           NEW x \in Addr, x.tag = Current.bus_addr.tag, x.index = Current.bus_addr.index,
           NEW k, k = Current.origid
    PROVE  ~ HasWord(k, x) /\ ~ HasWord(k, x)'
<1> SUFFICES ASSUME NEW a, NEW i, NEW o,
                    a = Current.bus_addr, i = a.index, o = CurrentOffset
             PROVE  ~ HasWord(k, x) /\ ~ HasWord(k, x)'
  OBVIOUS
<1>1. /\ Serving /\ k \in Cores /\ i \in Indices /\ o \in Offsets
      /\ gOngoingTransaction' = Current /\ Current.bus_cmd # "flush"
      /\ gIsBusTransactionActive' = (o # LastOffset)
      /\ gBusAddrOffset' = IF o = LastOffset THEN o ELSE o + 1
  BY TransferPace, ServedFacts DEF Grant, Addr, IsRequest, RequestCommands
<1>2. /\ o # 0 => o > 0
      /\ o # LastOffset => gBusAddrOffset' > 0
  BY <1>1 DEF Offsets
<1>3. ~ HasWord(k, x)
  <2>1. CASE o = 0
    BY <1>1, <2>1, ServedFacts DEF LinesInv, RequestsNotOwned, HasWord, Owns, Line
  <2>2. CASE o # 0
    BY <1>1, <1>2, <2>2, ServedFacts DEF Filling, HasWord
  <2> QED
    BY <2>1, <2>2
<1>4. ~ HasWord(k, x)'
  <2>1. CASE o # LastOffset
    BY <1>1, <1>2, <2>1 DEF Filling, HasWord
  <2>2. CASE o = LastOffset
    <3>1. tsram'[k][i].mesi # "MODIFIED"
      BY <1>1, <2>2, FilledLines
    <3> QED
      BY <3>1 DEF HasWord, Owns, Line
  <2> QED
    BY <2>1, <2>2
<1> QED
  BY <1>3, <1>4

(* A word of the block a request transfers: it stays with the owner until  *)
(* the last word, and is then the one in main memory.                      *)
LEMMA RequestKeepsItsBlock ==
    ASSUME TypeOK, BusProtocol, LinesInv, StrayWords = {}, WordsInv, SeenWords, SeenWords',
           BusTransferWord, IsRequest(Current),
           NEW x \in Addr, x.tag = Current.bus_addr.tag, x.index = Current.bus_addr.index
    PROVE  CoherentMemory'[x] = CoherentMemory[x]
<1> SUFFICES ASSUME NEW k, NEW a, NEW i, NEW o, NEW w,
                    k = Current.origid, a = Current.bus_addr, i = a.index,
                    o = CurrentOffset, w = x.offset
             PROVE  CoherentMemory'[x] = CoherentMemory[x]
  OBVIOUS
<1>1. /\ Serving /\ k \in Cores /\ i \in Indices /\ o \in Offsets /\ w \in Offsets
      /\ x.tag = a.tag /\ x.index = i /\ x = WordAt(a.tag, i, w)
  BY TransferPace, ServedFacts DEF Addr, WordAt
<1>2. ~ HasWord(k, x) /\ ~ HasWord(k, x)'
  BY CallerHasNoWord
<1>3. \A c \in Cores \ {k} :
        /\ Declines(c, i) /\ ~ Filling(c, i) /\ ~ Filling(c, i)'
        /\ dram'[c][i][w] = dram[c][i][w]
  BY <1>1, UnfilledLines
<1>4. \A c \in Cores \ {k} : /\ HasWord(c, x) <=> Owns(c, a)
                             /\ HasWord(c, x)' => HasWord(c, x)
                             /\ Word(c, x)' = Word(c, x)
                             /\ Word(c, x) = dram[c][i][w]
  BY <1>1, <1>3 DEF HasWord, Owns, Line, Word, Declines
<1>5. CASE \A c \in Cores \ {k} : ~ Owns(c, a)
  <2>1. mainMemory' = mainMemory
    BY <1>5, RequestWord
  <2> QED
    BY <1>2, <1>4, <1>5, <2>1, SameWord
<1>6. ASSUME NEW d \in Cores \ {k}, Owns(d, a), o # LastOffset
      PROVE  CoherentMemory'[x] = CoherentMemory[x]
  <2>1. \A c \in Cores \ {k} : HasWord(c, x) => HasWord(c, x)'
    <3> SUFFICES ASSUME NEW c \in Cores \ {k}, HasWord(c, x) PROVE HasWord(c, x)'
      OBVIOUS
    <3>1. Owns(c, a)
      BY <1>4
    <3>2. tsram'[c][i].mesi = "MODIFIED"
      BY <1>1, <1>6, <3>1, OwnerDeclinesLast DEF Owns, Line
    <3> QED
      BY <1>1, <1>3, <3>1, <3>2 DEF HasWord, Owns, Line, Declines
  <2> QED
    BY <1>2, <1>4, <1>6, <2>1, SameWord
<1>7. ASSUME NEW d \in Cores \ {k}, Owns(d, a), o = LastOffset
      PROVE  CoherentMemory'[x] = CoherentMemory[x]
  <2>1. w <= o
    BY <1>1, <1>7, BlockSizeAssumption DEF Offsets, LastOffset
  <2>2. WordSaved(d, i, w)'
    BY <1>1, <1>7, <2>1, TransferredSoFar
  <2>3. tsram'[d][i].tag = a.tag
    BY <1>1, <1>3, <1>7 DEF Declines, Owns, Line
  <2>4. mainMemory'[x] = dram[d][i][w]
    BY <1>1, <1>3, <2>2, <2>3 DEF WordSaved
  <2>5. \A c \in Cores \ {k} : ~ HasWord(c, x)'
    <3> SUFFICES ASSUME NEW c \in Cores \ {k}, HasWord(c, x)' PROVE FALSE
      OBVIOUS
    <3>1. tsram'[c][i].tag = a.tag /\ tsram'[c][i].mesi = "MODIFIED"
      BY <1>1 DEF HasWord, Owns, Line
    <3> QED
      BY <1>1, <1>7, <3>1, LastWordLines
  <2>6. CoherentMemory'[x] = mainMemory'[x]
    BY <1>2, <2>5 DEF SeenWords
  <2>7. CoherentMemory[x] = dram[d][i][w]
    BY <1>4, <1>7 DEF SeenWords
  <2> QED
    BY <2>4, <2>6, <2>7
<1> QED
  BY <1>5, <1>6, <1>7

(* A word of another block: if the caller owned it and loses its line, the *)
(* word has been written back.                                             *)
LEMMA RequestKeepsOthers ==
    ASSUME TypeOK, BusProtocol, BusProtocol', LinesInv, StrayWords = {}, WordsInv,
           SeenWords, SeenWords', BusTransferWord, IsRequest(Current),
           NEW x \in Addr, x.tag # Current.bus_addr.tag \/ x.index # Current.bus_addr.index
    PROVE  CoherentMemory'[x] = CoherentMemory[x]
<1> SUFFICES ASSUME NEW k, NEW a, NEW i, NEW o, NEW j, NEW w,
                    k = Current.origid, a = Current.bus_addr, i = a.index,
                    o = CurrentOffset, j = x.index, w = x.offset
             PROVE  CoherentMemory'[x] = CoherentMemory[x]
  OBVIOUS
<1>1. /\ Serving /\ k \in Cores /\ i \in Indices /\ o \in Offsets
      /\ j \in Indices /\ w \in Offsets
      /\ x # WordAt(a.tag, i, o) /\ x = WordAt(x.tag, j, w)
      /\ Current.bus_cmd # "flush"
      /\ ServesTransaction(o = LastOffset)
  BY TransferPace, ServedFacts DEF Addr, WordAt, IsRequest, RequestCommands
<1>2. mainMemory'[x] = mainMemory[x]
  BY <1>1, RequestWord
<1>3. \A c \in Cores :
        c # k \/ j # i => /\ Declines(c, j) /\ ~ Filling(c, j) /\ ~ Filling(c, j)'
                          /\ dram'[c][j][w] = dram[c][j][w]
  BY <1>1, UnfilledLines
<1>4. \A c \in Cores :
        c # k \/ j # i => /\ HasWord(c, x)' <=> HasWord(c, x)
                          /\ Word(c, x)' = Word(c, x)
  <2> SUFFICES ASSUME NEW c \in Cores, c # k \/ j # i
               PROVE  /\ HasWord(c, x)' <=> HasWord(c, x)
                      /\ Word(c, x)' = Word(c, x)
    OBVIOUS
  <2>1. HasWord(c, x)' => HasWord(c, x)
    BY <1>3 DEF HasWord, Owns, Line, Declines
  <2>2. ASSUME HasWord(c, x) PROVE HasWord(c, x)'
    <3>1. tsram[c][j].mesi = "MODIFIED" /\ tsram[c][j].tag = x.tag
      BY <2>2 DEF HasWord, Owns, Line
    <3>2. ~ (j = i /\ Owns(c, a))
      BY <3>1 DEF Owns, Line
    <3>3. tsram'[c][j].mesi = "MODIFIED"
      BY <1>1, <3>1, <3>2, OwnerDeclinesLast
    <3> QED
      BY <1>3, <3>1, <3>3 DEF HasWord, Owns, Line, Declines
  <2>3. Word(c, x)' = Word(c, x)
    BY <1>3 DEF Word
  <2> QED
    BY <2>1, <2>2, <2>3
<1>5. CASE j = i
  <2>1. tsram'[k][i].tag = a.tag /\ a.tag # x.tag
    BY <1>5, FilledLines
  <2>2. ~ HasWord(k, x)'
    BY <1>5, <2>1 DEF HasWord, Owns, Line
  <2>3. CASE ~ HasWord(k, x)
    BY <1>2, <1>4, <2>2, <2>3, SameWord
  <2>4. CASE HasWord(k, x)
    <3>1. tsram[k][i].mesi = "MODIFIED" /\ tsram[k][i].tag = x.tag /\ ~ Filling(k, i)
      BY <1>5, <2>4 DEF HasWord, Owns, Line
    <3>2. o = 0
      <4>1. o # 0 => o > 0
        BY <1>1 DEF Offsets
      <4> QED
        BY <1>1, <3>1, <4>1, ServedFacts DEF Filling
    <3>3. Current \in Unserved
      BY <1>1, <3>2, ServedFacts
    <3>4. ~ \E e \in Undone : IsEviction(e) /\ e.origid = k
      <4>1. Undone \subseteq Queued' \union {Current}
        BY <1>1, ServedEntries DEF ServesTransaction, Grant
      <4>2. \A e \in Queued' : e.origid # k
        BY <1>1, ServedCoreAlone
      <4> QED
        BY <1>1, <4>1, <4>2 DEF IsEviction
    <3>5. \A v \in Offsets : WordSaved(k, i, v)
      BY <3>1, <3>3, <3>4 DEF WordsInv, DirtyLineSaved, Line
    <3>6. mainMemory[x] = Word(k, x)
      BY <1>1, <1>5, <3>1, <3>5 DEF WordSaved, Word
    <3>7. CoherentMemory[x] = Word(k, x)
      BY <1>1, <2>4 DEF SeenWords
    <3>8. \A c \in Cores : ~ HasWord(c, x)'
      <4> SUFFICES ASSUME NEW c \in Cores, c # k, HasWord(c, x) PROVE FALSE
        BY <1>4, <2>2
      <4>1. /\ tsram[c][x.index].tag = x.tag /\ ~ Filling(c, x.index)
            /\ tsram[c][x.index].mesi = "MODIFIED"
        BY DEF HasWord, Owns, Line
      <4> QED
        BY <1>1, <2>4, <4>1, OneOwner
    <3>9. CoherentMemory'[x] = mainMemory'[x]
      BY <3>8 DEF SeenWords
    <3> QED
      BY <1>2, <3>6, <3>7, <3>9
  <2> QED
    BY <2>3, <2>4
<1>6. CASE j # i
  BY <1>2, <1>4, <1>6, SameWord
<1> QED
  BY <1>5, <1>6

LEMMA BusKeepsMemory ==
    ASSUME TypeOK, BusProtocol, BusProtocol', LinesInv, MemoryInStep, StrayWords = {},
           WordsInv, SeenWords, SeenWords', Run_Bus_Iteration
    PROVE  UNCHANGED <<CoherentMemory, pending, rd>>
<1>1. UNCHANGED <<pending, rd>>
  BY DEF Run_Bus_Iteration, BusIdle, BusDropInvalid, BusWaitForOwner, BusAwaitMemory,
         BusTransferWord, coreVars
<1>2. CASE BusIdle \/ BusDropInvalid
  <2>1. /\ UNCHANGED <<tsram, dram, mainMemory>>
        /\ ~ gIsBusTransactionActive /\ ~ gIsBusTransactionActive'
    BY <1>2, MemoryKept DEF BusIdle, BusDropInvalid, cacheVars
  <2>2. \A c \in Cores, i \in Indices : Filling(c, i)' <=> Filling(c, i)
    BY <2>1 DEF Filling
  <2> QED
    BY <1>1, <2>1, <2>2, StillMemory
<1>3. CASE BusWaitForOwner
  <2>1. /\ UNCHANGED <<tsram, dram, mainMemory>>
        /\ gOngoingTransaction' = Current
        /\ gIsBusTransactionActive' /\ gBusAddrOffset' = CurrentOffset
    BY <1>3, MemoryKept DEF BusWaitForOwner, Grant, cacheVars
  <2>2. \A c \in Cores, i \in Indices : Filling(c, i)' <=> Filling(c, i)
    BY <2>1 DEF Filling, Current, CurrentOffset
  <2> QED
    BY <1>1, <2>1, <2>2, StillMemory
<1>4. CASE BusAwaitMemory
  BY <1>1, <1>4, AwaitKeepsMemory
<1>5. CASE BusTransferWord
  <2>1. IsRequest(Current) \/ IsEviction(Current)
    BY <1>5, TransferPace, ServedFacts
  <2>2. CASE IsRequest(Current)
    <3>1. \A x \in Addr : CoherentMemory'[x] = CoherentMemory[x]
      BY <1>5, <2>2, RequestKeepsItsBlock, RequestKeepsOthers
    <3> QED
      BY <1>1, <3>1, SameMemory
  <2>3. CASE IsEviction(Current)
    BY <1>1, <1>5, <2>3, EvictionKeepsMemory
  <2> QED
    BY <2>1, <2>2, <2>3
<1> QED
  BY <1>2, <1>3, <1>4, <1>5 DEF Run_Bus_Iteration

-----------------------------------------------------------------------------
(* The cores.                                                              *)

(* A cache supplies the word the cores see.                                *)
LEMMA HeldWordSeen ==
    ASSUME TypeOK, BusProtocol, LinesInv, WordsInv, SeenWords,
           NEW c \in Cores, CacheAvailable(c), NEW a \in Addr, Holds(c, a)
    PROVE  Word(c, a) = CoherentMemory[a]
<1> SUFFICES ASSUME NEW i, i = a.index PROVE Word(c, a) = CoherentMemory[a]
  OBVIOUS
<1>1. /\ i \in Indices /\ a.offset \in Offsets /\ a = WordAt(a.tag, i, a.offset)
      /\ ~ Filling(c, i)
      /\ tsram[c][i].tag = a.tag /\ tsram[c][i].mesi \in {"SHARED", "EXCLUSIVE", "MODIFIED"}
  BY AvailableCore DEF Addr, WordAt, Holds, Line, TypeOK, CacheTypeOK, TSRAMLine, MesiStates
<1>2. CASE tsram[c][i].mesi = "MODIFIED"
  <2>1. HasWord(c, a)
    BY <1>1, <1>2 DEF HasWord, Owns, Line
  <2> QED
    BY <2>1 DEF SeenWords
<1>3. CASE tsram[c][i].mesi # "MODIFIED"
  <2>1. Settled(c, i, {"SHARED", "EXCLUSIVE"})
    BY <1>1, <1>3 DEF Settled
  <2>2. Word(c, a) = mainMemory[a]
    BY <1>1, <2>1 DEF WordsInv, CleanLinesAgree, Word
  <2>3. \A d \in Cores : ~ HasWord(d, a)
    <3> SUFFICES ASSUME NEW d \in Cores, HasWord(d, a) PROVE FALSE
      OBVIOUS
    <3>1. c = d
      BY <1>1, OneOwner
    <3> QED
      BY <1>3, <3>1 DEF HasWord, Owns, Line
  <2> QED
    BY <2>2, <2>3 DEF SeenWords
<1> QED
  BY <1>2, <1>3

(* A store into a line the cache may write changes that word only.         *)
LEMMA WriteHitStores ==
    ASSUME TypeOK, BusProtocol, LinesInv, WordsInv, SeenWords, SeenWords',
           NEW c \in Cores, NEW a \in Addr, NEW data, WriteHit(c, a, data),
           UNCHANGED <<memoryVars, busVars>>
    PROVE  CoherentMemory' = [CoherentMemory EXCEPT ![a] = data]
<1> SUFFICES ASSUME NEW i, i = a.index
             PROVE  CoherentMemory' = [CoherentMemory EXCEPT ![a] = data]
  OBVIOUS
<1>1. /\ i \in Indices /\ a.offset \in Offsets /\ CacheAvailable(c) /\ Holds(c, a)
      /\ UNCHANGED <<mainMemory, gOngoingTransaction, gIsBusTransactionActive, gBusAddrOffset>>
  BY DEF WriteHit, memoryVars, busVars, Addr
<1>2. /\ tsram[c][i].tag = a.tag
      /\ tsram[c][i].mesi \in {"EXCLUSIVE", "MODIFIED"}
      /\ tsram'[c][i].tag = a.tag
      /\ tsram'[c][i].mesi = "MODIFIED"
      /\ \A d \in Cores, j \in Indices : d # c \/ j # i => tsram'[d][j] = tsram[d][j]
      /\ dram'[c][i][a.offset] = data
      /\ \A d \in Cores, j \in Indices, w \in Offsets :
            d # c \/ j # i \/ w # a.offset => dram'[d][j][w] = dram[d][j][w]
  BY WriteHitChanges
<1>3. \A d \in Cores, j \in Indices : /\ Filling(d, j)' <=> Filling(d, j)
                                      /\ ~ Filling(c, j)
  BY <1>1, AvailableCore DEF Filling
<1>4. CoherentMemory'[a] = data
  <2>1. HasWord(c, a)'
    BY <1>1, <1>2, <1>3 DEF HasWord, Owns, Line
  <2> QED
    BY <1>2, <2>1 DEF SeenWords, Word
<1>5. ASSUME NEW x \in Addr, x # a PROVE CoherentMemory'[x] = CoherentMemory[x]
  <2>1. x.index \in Indices /\ x.offset \in Offsets
    BY DEF Addr
  <2>2. CASE x.tag = a.tag /\ x.index = i
    <3>1. x.offset # a.offset
      BY <1>5, <2>2 DEF Addr
    <3>2. HasWord(c, x)'
      BY <1>1, <1>2, <1>3, <2>2 DEF HasWord, Owns, Line
    <3>3. Word(c, x)' = Word(c, x)
      BY <1>2, <2>1, <2>2, <3>1 DEF Word
    <3>4. CoherentMemory'[x] = Word(c, x)
      BY <3>2, <3>3 DEF SeenWords
    <3>5. Holds(c, x)
      BY <1>1, <2>2 DEF Holds, Line
    <3> QED
      BY <1>1, <3>4, <3>5, HeldWordSeen
  <2>3. CASE ~ (x.tag = a.tag /\ x.index = i)
    <3>1. \A d \in Cores : HasWord(d, x)' <=> HasWord(d, x)
      <4> SUFFICES ASSUME NEW d \in Cores PROVE HasWord(d, x)' <=> HasWord(d, x)
        OBVIOUS
      <4>1. CASE d = c /\ x.index = i
        BY <1>2, <2>3, <4>1 DEF HasWord, Owns, Line
      <4>2. CASE d # c \/ x.index # i
        BY <1>2, <1>3, <2>1, <4>2 DEF HasWord, Owns, Line
      <4> QED
        BY <4>1, <4>2
    <3>2. \A d \in Cores : HasWord(d, x) => Word(d, x)' = Word(d, x)
      <4> SUFFICES ASSUME NEW d \in Cores, HasWord(d, x) PROVE Word(d, x)' = Word(d, x)
        OBVIOUS
      <4>1. d # c \/ x.index # i
        BY <1>2, <2>3 DEF HasWord, Owns, Line
      <4> QED
        BY <1>2, <2>1, <4>1 DEF Word
    <3> QED
      BY <1>1, <3>1, <3>2, SameWord
  <2> QED
    BY <2>2, <2>3
<1>6. /\ CoherentMemory = [x \in Addr |-> CoherentMemory[x]]
      /\ CoherentMemory' = [x \in Addr |-> CoherentMemory'[x]]
  BY DEF CoherentMemory
<1> QED
  BY <1>4, <1>5, <1>6

(* Steps of a core in which no word of a cache or of main memory changes.  *)
LEMMA QuietMemory ==
    ASSUME SeenWords, SeenWords', UNCHANGED <<cacheVars, memoryVars, busVars>>
    PROVE  CoherentMemory' = CoherentMemory
<1>1. /\ UNCHANGED <<tsram, dram, mainMemory>>
      /\ \A c \in Cores, i \in Indices : Filling(c, i)' <=> Filling(c, i)
  BY DEF cacheVars, memoryVars, busVars, Filling
<1> QED
  BY <1>1, StillMemory

LEMMA CoreStepSerial ==
    ASSUME TypeOK, BusProtocol, LinesInv, WordsInv, SeenWords, SeenWords',
           NEW c \in Cores, CoreCycle(c)
    PROVE  Serial!Next \/ UNCHANGED <<CoherentMemory, pending, rd>>
<1>1. /\ Demand(c) = Serial!Demand(c)
      /\ Cores = Serial!Cores
  BY DEF Demand, Serial!Demand, NoRequest, Serial!NoRequest, ZeroAddr, Serial!ZeroAddr,
         WordAt, Serial!WordAt, Cores, Serial!Cores
<1>2. \A r \in Demand(c) : r.addr \in Addr
  BY DemandType
<1>3. ASSUME NEW r \in Demand(c), Stalls(c, r), UNCHANGED cacheVars
      PROVE  Serial!Wait(c)
  BY <1>1, <1>3, QuietMemory DEF Stalls, Serial!Wait
<1>4. CASE CacheBusy(c)
  BY <1>1, <1>3, <1>4 DEF CacheBusy, Serial!Next
<1>5. CASE LoadMiss(c)
  BY <1>1, <1>3, <1>5 DEF LoadMiss, ReadMiss, Serial!Next
<1>6. CASE StoreUpgrade(c)
  BY <1>1, <1>3, <1>6 DEF StoreUpgrade, WriteUpgrade, Serial!Next
<1>7. CASE StoreMiss(c)
  BY <1>1, <1>3, <1>7 DEF StoreMiss, WriteMiss, Serial!Next
<1>8. CASE Compute(c)
  BY <1>8, QuietMemory DEF Compute, coreVars
<1>9. CASE LoadHit(c)
  <2>1. PICK r \in Demand(c) : /\ r.op = "LW" /\ ReadHit(c, r.addr) /\ Succeeds(c)
                               /\ rd' = [rd EXCEPT ![c] = Word(c, r.addr)]
    BY <1>9 DEF LoadHit, Presents
  <2>2. Word(c, r.addr) = CoherentMemory[r.addr]
    BY <1>2, <2>1, HeldWordSeen DEF ReadHit
  <2>3. CoherentMemory' = CoherentMemory
    BY <2>1, QuietMemory DEF ReadHit, Succeeds
  <2>4. pending' = [pending EXCEPT ![c] = Serial!NoRequest]
    BY <2>1 DEF Succeeds, NoRequest, Serial!NoRequest, ZeroAddr, Serial!ZeroAddr,
                WordAt, Serial!WordAt
  <2>5. Serial!Load(c)
    BY <1>1, <2>1, <2>2, <2>3, <2>4 DEF Serial!Load
  <2> QED
    BY <1>1, <2>5 DEF Serial!Next
<1>10. CASE StoreHit(c)
  <2>1. PICK r \in Demand(c) : /\ r.op = "SW" /\ WriteHit(c, r.addr, r.data) /\ Succeeds(c)
                               /\ rd' = rd
    BY <1>10 DEF StoreHit, Presents
  <2>2. CoherentMemory' = [CoherentMemory EXCEPT ![r.addr] = r.data]
    BY <1>2, <2>1, WriteHitStores DEF Succeeds
  <2>3. pending' = [pending EXCEPT ![c] = Serial!NoRequest]
    BY <2>1 DEF Succeeds, NoRequest, Serial!NoRequest, ZeroAddr, Serial!ZeroAddr,
                WordAt, Serial!WordAt
  <2>4. Serial!Store(c)
    BY <1>1, <2>1, <2>2, <2>3 DEF Serial!Store
  <2> QED
    BY <1>1, <2>4 DEF Serial!Next
<1> QED
  BY <1>4, <1>5, <1>6, <1>7, <1>8, <1>9, <1>10 DEF CoreCycle

LEMMA InitSerial == Init => Serial!Init
<1> SUFFICES ASSUME Init PROVE Serial!Init
  OBVIOUS
<1>1. mainMemory \in InitialMemory /\ mainMemory \in [Addr -> Value]
  BY MemoryAssumption DEF Init, MainMemoryInit
<1>2. \A a \in Addr : CoherentMemory[a] = mainMemory[a]
  <2>1. \A c \in Cores, i \in Indices : tsram[c][i].mesi = "INVALID"
    BY DEF Init, CacheInit
  <2>2. \A a \in Addr, c \in Cores : ~ HasWord(c, a)
    BY <2>1 DEF HasWord, Owns, Line, Addr
  <2> QED
    BY <2>2, InitLines, WordsSeen DEF SeenWords
<1>3. CoherentMemory = [a \in Addr |-> CoherentMemory[a]]
  BY DEF CoherentMemory
<1>4. CoherentMemory = mainMemory
  BY <1>1, <1>2, <1>3
<1> QED
  BY <1>1, <1>4 DEF Init, Serial!Init, NoRequest, Serial!NoRequest, ZeroAddr,
                    Serial!ZeroAddr, WordAt, Serial!WordAt, Cores, Serial!Cores

-----------------------------------------------------------------------------
(* The theorem.                                                            *)

(* The caches, the bus and the memory implement one shared memory: a store *)
(* is seen by every later load of any core, a load returns the word stored *)
(* last, and nothing but a store changes a word (CacheController.c,        *)
(* BusController.c, MainMemory.c).                                         *)
THEOREM SerialMemoryImplemented ==
    ASSUME SharedBlocksStay, StoresEndSharedBlocks, StrayWords = {}
    PROVE  Spec => SerialSpec
<1>1. Init => Serial!Init
  BY InitSerial
<1>2. LinesInv => SeenWords
  BY WordsSeen
<1>3. /\ TypeOK /\ BusProtocol /\ BusProtocol' /\ LinesInv /\ MemoryInStep
      /\ WordsInv /\ SeenWords /\ SeenWords' /\ [Next]_vars
      => [Serial!Next]_Serial!serialVars
  <2> SUFFICES ASSUME TypeOK, BusProtocol, BusProtocol', LinesInv, MemoryInStep,
                      WordsInv, SeenWords, SeenWords', [Next]_vars
               PROVE  Serial!Next \/ UNCHANGED <<CoherentMemory, pending, rd>>
    BY DEF Serial!serialVars
  <2>1. CASE Run_Bus_Iteration
    BY <2>1, BusKeepsMemory
  <2>2. CASE \E c \in Cores : CoreCycle(c)
    BY <2>2, CoreStepSerial
  <2>3. CASE UNCHANGED vars
    BY <2>3, QuietMemory DEF vars, coreVars
  <2> QED
    BY <2>1, <2>2, <2>3 DEF Next
<1> QED
  BY <1>1, <1>2, <1>3, TypeCorrect, BusProtocolInvariant, LinesInvariant, CountersInStep,
     WordsInvariant, PTL DEF Spec, SerialSpec, Serial!Spec

-----------------------------------------------------------------------------
(* What is written back.                                                   *)

(* A flush writes the word the cores see; no other step writes main memory.*)
LEMMA FlushedWordSeen ==
    ASSUME TypeOK, BusProtocol, LinesInv, StrayWords = {}, SeenWords, BusTransferWord,
           NEW x \in Addr
    PROVE  mainMemory'[x] = mainMemory[x] \/ mainMemory'[x] = CoherentMemory[x]
<1> SUFFICES ASSUME NEW k, NEW a, NEW i, NEW o, NEW p,
                    k = Current.origid, a = Current.bus_addr, i = a.index,
                    o = CurrentOffset, p = WordAt(a.tag, i, o), x = p
             PROVE  mainMemory'[x] = mainMemory[x] \/ mainMemory'[x] = CoherentMemory[x]
  BY TransferPace, ServedFacts, RequestWord, EvictionWord
<1>1. /\ Serving /\ k \in Cores /\ i \in Indices
      /\ x.tag = a.tag /\ x.index = i /\ x.offset = o
      /\ IsRequest(Current) \/ IsEviction(Current)
  BY TransferPace, ServedFacts DEF Addr, WordAt
<1>2. \A d \in Cores : Owns(d, a) => Owns(d, x) /\ Word(d, x) = dram[d][i][o]
  BY <1>1 DEF Owns, Line, Word
<1>3. CASE IsEviction(Current)
  <2>1. Owns(k, a) /\ ~ Filling(k, i)
    BY <1>1, <1>3, ServedFacts DEF LinesInv, EvictionsOwned, Filling, Current, IsEviction
  <2>2. HasWord(k, x)
    BY <1>1, <1>2, <2>1 DEF HasWord
  <2>3. mainMemory'[x] = dram[k][i][o]
    BY <1>3, EvictionWord
  <2> QED
    BY <1>1, <1>2, <2>1, <2>2, <2>3 DEF SeenWords
<1>4. CASE IsRequest(Current)
  <2>1. CASE \A d \in Cores \ {k} : ~ Owns(d, a)
    BY <1>4, <2>1, RequestWord
  <2>2. ASSUME NEW d \in Cores \ {k}, Owns(d, a)
        PROVE  mainMemory'[x] = CoherentMemory[x]
    <3>1. ~ Filling(d, i)
      BY <1>1, <2>2 DEF Filling, Current
    <3>2. HasWord(d, x)
      BY <1>1, <1>2, <2>2, <3>1 DEF HasWord
    <3>3. mainMemory'[x] = dram[d][i][o]
      BY <1>4, <2>2, RequestWord
    <3> QED
      BY <1>2, <2>2, <3>2, <3>3 DEF SeenWords
  <2> QED
    BY <2>1, <2>2
<1> QED
  BY <1>1, <1>3, <1>4

LEMMA MemoryStep ==
    ASSUME TypeOK, BusProtocol, LinesInv, StrayWords = {}, SeenWords, [Next]_vars,
           NEW x \in Addr
    PROVE  mainMemory'[x] = mainMemory[x] \/ mainMemory'[x] = CoherentMemory[x]
<1>1. CASE Run_Bus_Iteration
  <2>1. CASE BusTransferWord
    BY <2>1, FlushedWordSeen
  <2>2. CASE ~ BusTransferWord
    BY <1>1, <2>2, MemoryKept
       DEF Run_Bus_Iteration, BusIdle, BusDropInvalid, BusWaitForOwner, BusAwaitMemory
  <2> QED
    BY <2>1, <2>2
<1>2. CASE \E c \in Cores : CoreCycle(c)
  <2> SUFFICES ASSUME NEW c \in Cores, CoreCycle(c) PROVE UNCHANGED memoryVars
    BY <1>2 DEF memoryVars
  <2>1. ASSUME NEW r \in Demand(c), Stalls(c, r) PROVE UNCHANGED memoryVars
    BY <2>1 DEF Stalls
  <2>2. ASSUME Succeeds(c) PROVE UNCHANGED memoryVars
    BY <2>2 DEF Succeeds
  <2>3. ASSUME Compute(c) PROVE UNCHANGED memoryVars
    BY <2>3 DEF Compute
  <2> QED
    BY <2>1, <2>2, <2>3
       DEF CoreCycle, CacheBusy, LoadHit, LoadMiss, StoreHit, StoreUpgrade, StoreMiss
<1>3. CASE UNCHANGED vars
  BY <1>3 DEF vars, memoryVars
<1> QED
  BY <1>1, <1>2, <1>3 DEF Next

(* A word the cores see was there at the start or was stored.              *)
LEMMA SeenStep ==
    ASSUME LinesInv, [Serial!Next]_Serial!serialVars, NEW x \in Addr,
           CoherentMemory[x] \in WordsOf(x)
    PROVE  CoherentMemory'[x] \in WordsOf(x)
<1>1. CASE \E c \in Serial!Cores : Serial!Store(c)
  <2>1. PICK c \in Cores : \E r \in Demand(c) :
             r.op = "SW" /\ CoherentMemory' = [CoherentMemory EXCEPT ![r.addr] = r.data]
    BY <1>1 DEF Serial!Store, Demand, Serial!Demand, NoRequest, Serial!NoRequest, ZeroAddr,
                Serial!ZeroAddr, WordAt, Serial!WordAt, Cores, Serial!Cores
  <2>2. PICK r \in Demand(c) :
             r.op = "SW" /\ CoherentMemory' = [CoherentMemory EXCEPT ![r.addr] = r.data]
    BY <2>1
  <2>3. r \in Requests[c]
    BY DemandInProgram DEF LinesInv
  <2>4. CoherentMemory'[x] = IF r.addr = x THEN r.data ELSE CoherentMemory[x]
    BY <2>2 DEF CoherentMemory
  <2>5. r.addr = x => r.data \in WordsOf(x)
    BY <2>2, <2>3 DEF WordsOf
  <2> QED
    BY <2>4, <2>5
<1>2. CASE UNCHANGED CoherentMemory
  BY <1>2
<1> QED
  BY <1>1, <1>2 DEF Serial!Next, Serial!Load, Serial!Wait, Serial!serialVars

(* A flush (process_memory_command) writes back only what some core stored *)
(* to that very word, or what the word held at the start.                  *)
THEOREM OnlyStoredWordsKept ==
    ASSUME SharedBlocksStay, StoresEndSharedBlocks, StrayWords = {}
    PROVE  Spec => []OnlyStoredWords
<1> DEFINE Inv == \A x \in Addr : mainMemory[x] \in WordsOf(x) /\ CoherentMemory[x] \in WordsOf(x)
<1>1. Init => Inv
  <2>1. Init => mainMemory \in InitialMemory
    BY DEF Init, MainMemoryInit
  <2>2. Init => CoherentMemory \in InitialMemory
    BY InitSerial DEF Serial!Init
  <2> QED
    BY <2>1, <2>2 DEF WordsOf
<1>2. /\ TypeOK /\ BusProtocol /\ LinesInv /\ SeenWords /\ Inv
      /\ [Next]_vars /\ [Serial!Next]_Serial!serialVars
      => Inv'
  BY MemoryStep, SeenStep DEF WordsOf
<1>3. Inv => OnlyStoredWords
  BY DEF OnlyStoredWords
<1>4. LinesInv => SeenWords
  BY WordsSeen
<1>5. SerialSpec => [][Serial!Next]_Serial!serialVars
  BY PTL DEF SerialSpec, Serial!Spec
<1> QED
  BY <1>1, <1>2, <1>3, <1>4, <1>5, SerialMemoryImplemented, TypeCorrect, BusProtocolInvariant,
     LinesInvariant, PTL DEF Spec
=============================================================================
