--------------------------- MODULE CoherenceProofs ---------------------------
(***************************************************************************)
(* The caches are coherent (SWMR) for every number of cores, block size,   *)
(* delay and set of addresses, if the programs keep SharedBlocksStay.      *)
(* LinesInv is inductive relative to TypeOK and BusProtocol.               *)
(***************************************************************************)
EXTENDS BusProtocolProofs, CoherenceInvariant

-----------------------------------------------------------------------------
(* The entries of the queue and the transaction in progress.               *)

LEMMA UndoneTypes ==
    ASSUME TypeOK, BusProtocol
    PROVE  /\ Unserved \subseteq Undone
           /\ Undone \subseteq Transaction
           /\ \A t \in Undone :
                 \/ t.origid \in Cores /\ (IsRequest(t) \/ IsEviction(t))
                 \/ t.origid \notin Cores /\ ~ IsRequest(t) /\ ~ IsEviction(t)
           /\ \A t : ~ (IsRequest(t) /\ IsEviction(t))
<1>1. Position = 1 .. Len(queue) /\ queue \in Seq(Transaction)
  BY QueueFacts DEF TypeOK, QueueTypeOK
<1>2. \A i \in Position : queue[i] \in Transaction
  BY <1>1
<1>3. Undone \subseteq Transaction
  BY <1>2 DEF Undone, Queued, TypeOK
<1>4. \A t \in Undone : WellFormed(t)
  BY DEF Undone, Queued, BusProtocol, EntriesWellFormed, OneGrant, WellFormed
<1>5. \A t : WellFormed(t) =>
          \/ t.origid \in Cores /\ (IsRequest(t) \/ IsEviction(t))
          \/ t.origid \notin Cores /\ ~ IsRequest(t) /\ ~ IsEviction(t)
  BY CallersDiffer DEF WellFormed, IsRequest, IsEviction, RequestCommands
<1>6. Unserved \subseteq Undone
  BY DEF Unserved, Undone
<1> QED
  BY <1>3, <1>4, <1>5, <1>6 DEF IsRequest, IsEviction, RequestCommands

(* What the caches know of the transaction an iteration works on.          *)
LEMMA ServedFacts ==
    ASSUME TypeOK, BusProtocol, Serving
    PROVE  /\ Current \in Undone
           /\ Current \in Transaction
           /\ CurrentOffset = 0 => Current \in Unserved
           /\ CurrentOffset \in Offsets
           /\ CurrentOffset # 0 => /\ gIsBusTransactionActive
                                   /\ Current = gOngoingTransaction
                                   /\ CurrentOffset = gBusAddrOffset
           /\ Current.origid \in Cores
           /\ IsRequest(Current) \/ IsEviction(Current)
           /\ Current.bus_addr \in Addr
           /\ Packet \in Transaction
           /\ Packet.origid = Current.origid
           /\ Packet.bus_cmd = Current.bus_cmd
           /\ Packet.bus_addr.tag = Current.bus_addr.tag
           /\ Packet.bus_addr.index = Current.bus_addr.index
           /\ Packet.bus_addr.offset = CurrentOffset
<1>1. Current \in Transaction /\ CurrentOffset \in Offsets /\ Packet \in Transaction
  BY PacketType
<1>2. CASE gIsBusTransactionActive
  <2>1. Current = gOngoingTransaction /\ CurrentOffset = gBusAddrOffset
    BY <1>2 DEF Current, CurrentOffset
  <2>2. Current \in Undone /\ (CurrentOffset = 0 => Current \in Unserved)
    BY <1>2, <2>1 DEF Undone, Unserved
  <2>3. Current.origid \in Cores
    BY <1>2, <2>1 DEF BusProtocol, OneGrant
  <2> QED
    BY <1>1, <1>2, <2>1, <2>2, <2>3, UndoneTypes DEF Packet, Transaction, Addr
<1>3. CASE ~ gIsBusTransactionActive
  <2>1. /\ queue # << >> /\ Head(queue).origid # invalid_caller
        /\ Current = Head(queue) /\ CurrentOffset = 0
    BY <1>3 DEF Serving, Current, CurrentOffset
  <2>2. Head(queue) = queue[1] /\ 1 \in Position
    BY <2>1, TailFacts DEF TypeOK, QueueTypeOK, Position
  <2>3. Current \in Undone /\ Current \in Unserved
    BY <2>1, <2>2 DEF Undone, Unserved, Queued
  <2>4. Current.origid \in Cores
    BY <2>1, <2>2 DEF BusProtocol, EntriesWellFormed, WellFormed
  <2> QED
    BY <1>1, <2>1, <2>3, <2>4, UndoneTypes DEF Packet, Transaction, Addr
<1> QED
  BY <1>2, <1>3

(* Serving a transaction adds no entry, and one word served, or the last,  *)
(* takes it out.                                                           *)
LEMMA ServedEntries ==
    ASSUME TypeOK, BusProtocol, Serving, Grant
    PROVE  /\ Queued' \subseteq Queued
           /\ Undone' \subseteq Undone
           /\ gBusAddrOffset' = CurrentOffset => Unserved' \subseteq Unserved
           /\ gBusAddrOffset' # 0 \/ ~ gIsBusTransactionActive' => Unserved' = Queued'
           /\ Undone \subseteq Queued' \union {Current}
           /\ gOngoingTransaction' = Current
<1>1. gOngoingTransaction' = Current
  BY DEF Grant
<1>2. Queued' \subseteq Queued /\ Undone \subseteq Queued' \union {Current}
  <2>1. CASE gIsBusTransactionActive
    BY <2>1 DEF Grant, Queued, Undone, Position, Current
  <2>2. CASE ~ gIsBusTransactionActive
    <3>1. queue # << >> /\ queue' = Tail(queue) /\ Current = Head(queue)
      BY <2>2 DEF Serving, Grant, Dequeued, Current
    <3> QED
      BY <2>2, <3>1, TailProtocol DEF Queued, Undone
  <2> QED
    BY <2>1, <2>2
<1>3. Undone' \subseteq Undone
  BY <1>1, <1>2, ServedFacts DEF Undone
<1>4. gBusAddrOffset' = CurrentOffset => Unserved' \subseteq Unserved
  BY <1>1, <1>2, ServedFacts DEF Unserved
<1>5. gBusAddrOffset' # 0 \/ ~ gIsBusTransactionActive' => Unserved' = Queued'
  BY DEF Unserved
<1> QED
  BY <1>1, <1>2, <1>3, <1>4, <1>5

(* A core whose request is being served has nothing queued.                *)
LEMMA ServedCoreAlone ==
    ASSUME TypeOK, BusProtocol, BusProtocol', NEW complete \in BOOLEAN,
           ServesTransaction(complete), IsRequest(Current)
    PROVE  \A t \in Queued' : t.origid # Current.origid
<1> SUFFICES ASSUME NEW k \in Cores, k = Current.origid
             PROVE  \A t \in Queued' : t.origid # k
  BY ServedFacts DEF ServesTransaction
<1>1. Serving /\ Grant /\ k \in Cores /\ gOngoingTransaction' = Current
  BY ServedFacts DEF ServesTransaction, Grant
<1>2. gTransactionStatePerCore'[k] \in {"operation", "finally"}
  <2>1. GrantedStates \in [Cores -> TransactionStates]
    BY ReleasedTypes
  <2>2. GrantedStates[k] = "operation"
    <3>1. CASE gIsBusTransactionActive
      BY <3>1, ReleasedFacts DEF GrantedStates, BusProtocol, OneGrant, Current
    <3>2. CASE ~ gIsBusTransactionActive
      BY <1>1, <3>2, ReleasedTypes DEF GrantedStates
    <3> QED
      BY <3>1, <3>2
  <2> QED
    BY <1>1, <2>1, <2>2 DEF ServesTransaction
<1>3. gOngoingTransaction'.bus_cmd # "flush"
  BY <1>1 DEF IsRequest, RequestCommands
<1>4. \A i \in Position' : queue'[i].origid # k
  <2>1. gOngoingTransaction'.bus_cmd # "flush" /\ Granted(k)'
    BY <1>2, <1>3 DEF Granted
  <2> QED
    BY <1>1, <2>1 DEF BusProtocol, GrantedCoreHasNoOther
<1> QED
  BY <1>4 DEF Queued

-----------------------------------------------------------------------------
(* The snoop.                                                              *)

(* A snoop changes lines only of other caches, only lines that hold the    *)
(* block, and only to SHARED or INVALID.                                   *)
LEMMA SnoopedLines ==
    ASSUME CacheTypeOK, NEW caller \in Cores, NEW t \in Transaction,
           NEW c \in Cores, NEW i \in Indices
    PROVE  LET old == tsram[c][i]
               new == SnoopedTsram(caller, t)[c][i]
               a   == t.bus_addr
           IN  /\ new.tag = old.tag
               /\ new.mesi # old.mesi =>
                      /\ c # caller
                      /\ i = a.index
                      /\ Holds(c, a)
                      /\ IsRequest(t)
                      /\ new.mesi \in {"INVALID", "SHARED"}
                      /\ a.offset = LastOffset \/ old.mesi # "MODIFIED"
               /\ (/\ c # caller
                   /\ i = a.index
                   /\ Holds(c, a)
                   /\ CmdSeenBy(c, caller, t) \in RequestCommands
                   /\ a.offset = LastOffset \/ old.mesi # "MODIFIED")
                  => new.mesi \in {"INVALID", "SHARED"}
<1> DEFINE a    == t.bus_addr
           seen == CmdSeenBy(c, caller, t)
           next == StateHandler(tsram[c][a.index].mesi, seen)
           part == /\ Snoops(c, caller, t)
                   /\ a.offset = LastOffset \/ Line(c, a).mesi # "MODIFIED"
           new  == SnoopedTsram(caller, t)[c]
<1>1. /\ tsram[c] \in [Indices -> TSRAMLine]
      /\ a.index \in Indices
      /\ tsram[c][a.index].mesi \in MesiStates
  BY DEF CacheTypeOK, Transaction, Addr, TSRAMLine
<1>2. new = IF part THEN [tsram[c] EXCEPT ![a.index].mesi = next] ELSE tsram[c]
  BY DEF SnoopedTsram
<1>3. Line(c, a) = tsram[c][a.index]
  BY DEF Line
<1>4. part => Holds(c, a) /\ (c = caller => seen = "flush")
  BY DEF Snoops
<1>5. /\ next # tsram[c][a.index].mesi =>
             seen \in RequestCommands /\ next \in {"INVALID", "SHARED"}
      /\ seen \in RequestCommands /\ tsram[c][a.index].mesi # "INVALID" =>
             next \in {"INVALID", "SHARED"}
  BY <1>1 DEF StateHandler, RequestCommands, MesiStates
<1>6. seen \in RequestCommands => IsRequest(t)
  BY DEF CmdSeenBy, RequestCommands, IsRequest
<1>7. "flush" \notin RequestCommands
  BY DEF RequestCommands
<1>8. c # caller /\ Holds(c, a) => Snoops(c, caller, t)
  BY DEF Snoops
<1>9. Holds(c, a) => tsram[c][a.index].mesi # "INVALID"
  BY DEF Holds, Line
<1> HIDE DEF seen, next
<1>10. CASE part
  <2>1. new = [tsram[c] EXCEPT ![a.index].mesi = next]
    BY <1>2, <1>10
  <2>2. /\ new[i].tag = tsram[c][i].tag
        /\ i # a.index => new[i] = tsram[c][i]
        /\ i = a.index => new[i].mesi = next
    BY <1>1, <2>1 DEF TSRAMLine
  <2> QED
    BY <1>3, <1>4, <1>5, <1>6, <1>7, <1>9, <1>10, <2>2 DEF seen
<1>11. CASE ~ part
  BY <1>2, <1>3, <1>8, <1>11
<1> QED
  BY <1>10, <1>11

(* The state of a line a snoop may leave: a line of a block another core   *)
(* accesses becomes SHARED or INVALID.                                     *)
Declines(c, i) ==
    /\ tsram'[c][i].tag = tsram[c][i].tag
    /\ tsram'[c][i].mesi # tsram[c][i].mesi =>
           /\ tsram[c][i].mesi # "INVALID"
           /\ tsram'[c][i].mesi \in {"INVALID", "SHARED"}
           /\ ~ Private(c, tsram[c][i].tag, i)

(* Lines that decline, while no transaction is added and no filling starts *)
(* or ends, keep the invariant.                                            *)
LEMMA DecliningLines ==
    ASSUME TypeOK, TypeOK', BusProtocol, LinesInv, PendingInProgram',
           Undone' \subseteq Undone, Unserved' \subseteq Unserved,
           \A c \in Cores, i \in Indices : Declines(c, i) /\ (Filling(c, i)' <=> Filling(c, i)),
           RequestInProgress' /\ gBusAddrOffset' > 0 =>
               /\ RequestInProgress /\ gBusAddrOffset > 0
               /\ gOngoingTransaction' = gOngoingTransaction
    PROVE  LinesInv'
<1>1. HeldInProgram'
  BY DEF LinesInv, HeldInProgram, Declines
<1>2. AskedInProgram'
  BY DEF LinesInv, AskedInProgram
<1>3. EvictionsOwned'
  <2> SUFFICES ASSUME NEW t \in Undone', IsEviction(t)
               PROVE  Owns(t.origid, t.bus_addr)' /\ PrivateBlockOf(t.origid, t.bus_addr)
    BY DEF EvictionsOwned, PrivateBlockOf, Private, Accesses
  <2>1. /\ t \in Undone /\ t.origid \in Cores /\ t.bus_addr.index \in Indices
        /\ Owns(t.origid, t.bus_addr) /\ PrivateBlockOf(t.origid, t.bus_addr)
    BY UndoneTypes DEF LinesInv, EvictionsOwned, Transaction, Addr
  <2> QED
    BY <2>1 DEF Owns, Line, Declines, PrivateBlockOf
<1>4. RequestsNotOwned'
  <2> SUFFICES ASSUME NEW t \in Unserved', IsRequest(t),
                      tsram'[t.origid][t.bus_addr.index].tag = t.bus_addr.tag
               PROVE  tsram'[t.origid][t.bus_addr.index].mesi \in {"INVALID", "SHARED"}
    BY DEF RequestsNotOwned, Line
  <2>1. t \in Unserved /\ t.origid \in Cores /\ t.bus_addr.index \in Indices
    BY UndoneTypes DEF Transaction, Addr
  <2> QED
    BY <2>1 DEF LinesInv, RequestsNotOwned, Line, Declines
<1>5. FilledLinePrivate'
  <2> SUFFICES ASSUME RequestInProgress', gBusAddrOffset' > 0
               PROVE  LET t == gOngoingTransaction
                          l == tsram'[t.origid][t.bus_addr.index]
                      IN  /\ l.tag = t.bus_addr.tag
                          /\ l.mesi \in {"EXCLUSIVE", "MODIFIED"} =>
                                 PrivateBlockOf(t.origid, t.bus_addr)
    BY DEF FilledLinePrivate, Line, PrivateBlockOf, Private, Accesses
  <2> DEFINE t == gOngoingTransaction
  <2>1. /\ RequestInProgress /\ gBusAddrOffset > 0
        /\ t.origid \in Cores /\ t.bus_addr.index \in Indices
    BY DEF RequestInProgress, BusProtocol, OneGrant, TypeOK, Transaction, Addr
  <2>2. /\ Line(t.origid, t.bus_addr).tag = t.bus_addr.tag
        /\ Line(t.origid, t.bus_addr).mesi \in {"EXCLUSIVE", "MODIFIED"} =>
               PrivateBlockOf(t.origid, t.bus_addr)
    BY <2>1 DEF LinesInv, FilledLinePrivate
  <2> HIDE DEF t
  <2>3. Declines(t.origid, t.bus_addr.index)
    BY <2>1
  <2> QED
    BY <2>1, <2>2, <2>3 DEF Line, Declines, t
<1>6. SWMR'
  <2> SUFFICES ASSUME NEW c \in Cores, NEW d \in Cores, NEW i \in Indices, c # d,
                      tsram'[c][i].mesi \in {"EXCLUSIVE", "MODIFIED"}, ~ Filling(c, i)',
                      tsram'[d][i].mesi \in {"SHARED", "EXCLUSIVE", "MODIFIED"},
                      ~ Filling(d, i)'
               PROVE  tsram'[c][i].tag # tsram'[d][i].tag
    BY DEF SWMR, Settled
  <2>1. Settled(c, i, {"EXCLUSIVE", "MODIFIED"})
    BY DEF Settled, Declines
  <2>2. tsram[d][i].mesi \in MesiStates
    BY DEF TypeOK, CacheTypeOK, TSRAMLine
  <2>3. Settled(d, i, {"SHARED", "EXCLUSIVE", "MODIFIED"})
    BY <2>2 DEF Settled, Declines, MesiStates
  <2> QED
    BY <2>1, <2>3 DEF LinesInv, SWMR, Declines
<1> QED
  BY <1>1, <1>2, <1>3, <1>4, <1>5, <1>6 DEF LinesInv

LEMMA SnoopDeclines ==
    ASSUME TypeOK, BusProtocol, LinesInv, Serving,
           NEW c \in Cores, NEW i \in Indices
    PROVE  LET old == tsram[c][i]
               new == SnoopedTsram(Current.origid, Packet)[c][i]
           IN  /\ new.tag = old.tag
               /\ new.mesi # old.mesi =>
                      /\ old.mesi # "INVALID"
                      /\ new.mesi \in {"INVALID", "SHARED"}
                      /\ ~ Private(c, old.tag, i)
                      /\ c # Current.origid
                      /\ Holds(c, Current.bus_addr)
                      /\ i = Current.bus_addr.index
<1> DEFINE k == Current.origid
           a == Current.bus_addr
           p == Packet
           old == tsram[c][i]
           new == SnoopedTsram(k, p)[c][i]
<1>1. /\ k \in Cores /\ p \in Transaction /\ CacheTypeOK
      /\ p.bus_addr.tag = a.tag /\ p.bus_addr.index = a.index
      /\ Current \in Undone
  BY ServedFacts DEF TypeOK
<1>2. AccessesBlockOf(k, a)
  BY <1>1 DEF LinesInv, AskedInProgram
<1>3. Holds(c, p.bus_addr) => Holds(c, a)
  BY <1>1 DEF Holds, Line
<1>4. Holds(c, a) /\ i = a.index => old.mesi # "INVALID" /\ old.tag = a.tag
  BY DEF Holds, Line
<1>5. old.tag = a.tag /\ i = a.index /\ c # k => ~ Private(c, old.tag, i)
  BY <1>1, <1>2 DEF Private, AccessesBlockOf
<1>6. /\ new.tag = old.tag
      /\ new.mesi # old.mesi =>
             /\ c # k
             /\ i = p.bus_addr.index
             /\ Holds(c, p.bus_addr)
             /\ new.mesi \in {"INVALID", "SHARED"}
  <2> HIDE DEF k, p
  <2> QED
    BY <1>1, SnoopedLines
<1> HIDE DEF k, a, p, old, new
<1>7. /\ new.tag = old.tag
      /\ new.mesi # old.mesi =>
             /\ old.mesi # "INVALID"
             /\ new.mesi \in {"INVALID", "SHARED"}
             /\ ~ Private(c, old.tag, i)
             /\ c # k
             /\ Holds(c, a)
             /\ i = a.index
  BY <1>1, <1>3, <1>4, <1>5, <1>6
<1> QED
  BY <1>7 DEF k, a, p, old, new

-----------------------------------------------------------------------------
(* The bus.                                                                *)

(* An iteration that transfers no word to a cache.                         *)
LEMMA NoFillLines ==
    ASSUME TypeOK, TypeOK', BusProtocol, LinesInv, Serving, Grant,
           pending' = pending,
           \/ tsram' = tsram
           \/ tsram' = SnoopedTsram(Current.origid, Packet),
           \/ gIsBusTransactionActive' /\ gBusAddrOffset' = CurrentOffset
           \/ IsEviction(Current) /\ (gBusAddrOffset' # 0 \/ ~ gIsBusTransactionActive')
    PROVE  LinesInv'
<1>1. PendingInProgram'
  BY DEF LinesInv, PendingInProgram
<1>2. /\ Undone' \subseteq Undone /\ Unserved' \subseteq Unserved
      /\ gOngoingTransaction' = Current
  <2>1. Queued \subseteq Unserved
    BY DEF Unserved
  <2> QED
    BY <2>1, ServedEntries
<1>3. \A c \in Cores, i \in Indices : Declines(c, i)
  BY SnoopDeclines DEF Declines
<1>4. gIsBusTransactionActive =>
        Current = gOngoingTransaction /\ CurrentOffset = gBusAddrOffset
  BY DEF Current, CurrentOffset
<1>5. ~ gIsBusTransactionActive => CurrentOffset = 0
  BY DEF CurrentOffset
<1>6. IsEviction(Current) => Current.bus_cmd = "flush" /\ ~ IsRequest(Current)
  BY DEF IsEviction, IsRequest, RequestCommands
<1>7. \A c \in Cores, i \in Indices : Filling(c, i)' <=> Filling(c, i)
  BY <1>2, <1>4, <1>5, <1>6 DEF Filling
<1>8. RequestInProgress' /\ gBusAddrOffset' > 0 =>
          /\ RequestInProgress /\ gBusAddrOffset > 0
          /\ gOngoingTransaction' = gOngoingTransaction
  BY <1>2, <1>4, <1>5, <1>6 DEF RequestInProgress, IsRequest
<1> QED
  BY <1>1, <1>2, <1>3, <1>7, <1>8, DecliningLines

LEMMA BusIdleLines ==
    ASSUME TypeOK, TypeOK', BusProtocol, LinesInv, BusIdle
    PROVE  LinesInv'
<1>1. /\ queue' = queue /\ tsram' = tsram /\ pending' = pending
      /\ ~ gIsBusTransactionActive /\ ~ gIsBusTransactionActive'
  BY DEF BusIdle, cacheVars, coreVars
<1>2. Undone' \subseteq Undone /\ Unserved' \subseteq Unserved
  BY <1>1 DEF Undone, Unserved, Queued, Position
<1>3. PendingInProgram'
  BY <1>1 DEF LinesInv, PendingInProgram
<1>4. \A c \in Cores, i \in Indices : Declines(c, i) /\ (Filling(c, i)' <=> Filling(c, i))
  BY <1>1 DEF Declines, Filling
<1>5. ~ RequestInProgress'
  BY <1>1 DEF RequestInProgress
<1> QED
  BY <1>2, <1>3, <1>4, <1>5, DecliningLines

LEMMA BusDropInvalidLines ==
    ASSUME TypeOK, TypeOK', BusProtocol, LinesInv, BusDropInvalid
    PROVE  LinesInv'
<1>1. /\ queue # << >> /\ queue' = Tail(queue) /\ tsram' = tsram /\ pending' = pending
      /\ ~ gIsBusTransactionActive /\ ~ gIsBusTransactionActive'
  BY DEF BusDropInvalid, Dequeued, cacheVars, coreVars
<1>2. Undone' \subseteq Undone /\ Unserved' \subseteq Unserved
  BY <1>1, TailProtocol DEF Undone, Unserved, Queued
<1>3. PendingInProgram'
  BY <1>1 DEF LinesInv, PendingInProgram
<1>4. \A c \in Cores, i \in Indices : Declines(c, i) /\ (Filling(c, i)' <=> Filling(c, i))
  BY <1>1 DEF Declines, Filling
<1>5. ~ RequestInProgress'
  BY <1>1 DEF RequestInProgress
<1> QED
  BY <1>2, <1>3, <1>4, <1>5, DecliningLines

(* While a core is served, the owner of the block among the others is the  *)
(* only one of them that holds it.                                         *)
LEMMA OwnerAlone ==
    ASSUME TypeOK, BusProtocol, LinesInv, Serving,
           NEW d \in Cores \ {Current.origid}, NEW e \in Cores \ {Current.origid}, d # e,
           Line(d, Current.bus_addr).mesi \in {"EXCLUSIVE", "MODIFIED"},
           Line(d, Current.bus_addr).tag = Current.bus_addr.tag
    PROVE  ~ Holds(e, Current.bus_addr)
<1> DEFINE i == Current.bus_addr.index
<1>1. i \in Indices
  BY ServedFacts DEF Addr
<1>2. ~ Filling(d, i) /\ ~ Filling(e, i)
  BY DEF Filling, Current
<1>3. tsram[e][i].mesi \in MesiStates
  BY <1>1 DEF TypeOK, CacheTypeOK, TSRAMLine
<1> QED
  BY <1>1, <1>2, <1>3 DEF LinesInv, SWMR, Settled, Holds, Line, MesiStates

(* So every other holder of the block sees the request as it was made.     *)
LEMMA RequestSeen ==
    ASSUME TypeOK, BusProtocol, LinesInv, Serving,
           NEW c \in Cores \ {Current.origid}, Holds(c, Current.bus_addr)
    PROVE  CmdSeenBy(c, Current.origid, Packet) = Current.bus_cmd
<1> DEFINE k == Current.origid
<1>1. SUFFICES ASSUME NEW d \in 0 .. c - 1, d # k, Owns(d, Packet.bus_addr)
               PROVE  FALSE
  BY ServedFacts DEF CmdSeenBy
<1>2. d \in Cores \ {k} /\ d # c
  BY <1>1, NumCoresAssumption DEF Cores
<1>3. /\ Line(d, Current.bus_addr).mesi = "MODIFIED"
      /\ Line(d, Current.bus_addr).tag = Current.bus_addr.tag
  BY <1>1, ServedFacts DEF Owns, Line
<1> QED
  BY <1>2, <1>3, OwnerAlone

(* The caller of a request never answers itself.                           *)
LEMMA CallerDoesNotAnswer ==
    ASSUME TypeOK, BusProtocol, LinesInv, Serving, IsRequest(Current)
    PROVE  Current.origid \notin Flushers(Current.origid, Packet)
<1> DEFINE k == Current.origid
           a == Current.bus_addr
<1>1. SUFFICES ASSUME Snoops(k, k, Packet), Owns(k, Packet.bus_addr) PROVE FALSE
  BY DEF Flushers
<1>2. Line(k, a).tag = a.tag /\ Line(k, a).mesi = "MODIFIED"
  BY <1>1, ServedFacts DEF Owns, Line
<1>3. /\ k \in Cores /\ a.index \in Indices /\ a.tag \in Tags
      /\ CurrentOffset \in Offsets
  BY ServedFacts DEF Addr
<1>4. CurrentOffset # 0
  BY <1>2, ServedFacts DEF LinesInv, RequestsNotOwned
<1>5. PrivateBlockOf(k, a)
  <2>1. Current = gOngoingTransaction /\ RequestInProgress /\ gBusAddrOffset > 0
    BY <1>3, <1>4, ServedFacts DEF RequestInProgress, Offsets
  <2> QED
    BY <1>2, <2>1 DEF LinesInv, FilledLinePrivate
<1>6. CmdSeenBy(k, k, Packet) = "flush"
  BY <1>1 DEF Snoops
<1>7. Packet.bus_cmd # "flush"
  BY ServedFacts DEF IsRequest, RequestCommands
<1>8. PICK d \in 0 .. k - 1 : d # k /\ Owns(d, Packet.bus_addr)
  BY <1>6, <1>7 DEF CmdSeenBy
<1>9. d \in Cores \ {k}
  BY <1>3, <1>8, NumCoresAssumption DEF Cores
<1>10. tsram[d][a.index].tag = a.tag /\ tsram[d][a.index].mesi = "MODIFIED"
  BY <1>8, ServedFacts DEF Owns, Line
<1>11. Accesses(d, a.tag, a.index)
  BY <1>3, <1>9, <1>10 DEF LinesInv, HeldInProgram
<1> QED
  BY <1>5, <1>9, <1>11 DEF PrivateBlockOf, Private

(* The packet the caches leave of a request: the owner's word if there is  *)
(* an owner, or else the request.                                          *)
LEMMA RequestSnooped ==
    ASSUME TypeOK, BusProtocol, LinesInv, Serving, IsRequest(Current)
    PROVE  \/ /\ \A d \in Cores \ {Current.origid} : ~ Owns(d, Current.bus_addr)
              /\ SnoopedPacket = Packet
           \/ \E d \in Cores \ {Current.origid} :
                 /\ Owns(d, Current.bus_addr)
                 /\ SnoopedPacket = NewTransaction(d, "flush", Packet.bus_addr,
                                                   Word(d, Packet.bus_addr))
<1> DEFINE k == Current.origid
           F == Flushers(k, Packet)
<1>1. /\ \A d \in Cores : Owns(d, Packet.bus_addr) <=> Owns(d, Current.bus_addr)
      /\ \A d \in Cores : Owns(d, Current.bus_addr) => Holds(d, Packet.bus_addr)
  BY ServedFacts DEF Owns, Holds, Line
<1>2. F \subseteq Cores \ {k}
  BY CallerDoesNotAnswer DEF Flushers
<1>3. \A d \in Cores \ {k} : d \in F <=> Owns(d, Current.bus_addr)
  BY <1>1 DEF Flushers, Snoops
<1>4. CASE F = {}
  BY <1>3, <1>4 DEF SnoopedPacket, Snooped
<1>5. CASE F # {}
  <2> DEFINE d == Max(F)
  <2>1. d \in F
    BY <1>2, <1>5, MaxOfCores
  <2>2. SnoopedPacket = NewTransaction(d, "flush", Packet.bus_addr, Word(d, Packet.bus_addr))
    BY <1>5 DEF SnoopedPacket, Snooped
  <2> HIDE DEF d
  <2> QED
    BY <1>2, <1>3, <2>1, <2>2
<1> QED
  BY <1>4, <1>5

(* And of an eviction: the word of the block that its caller still owns.   *)
LEMMA EvictionSnooped ==
    ASSUME TypeOK, BusProtocol, LinesInv, Serving, IsEviction(Current)
    PROVE  SnoopedPacket = NewTransaction(Current.origid, "flush", Packet.bus_addr,
                                          Word(Current.origid, Packet.bus_addr))
<1> DEFINE k == Current.origid
           a == Current.bus_addr
           F == Flushers(k, Packet)
<1>1. k \in Cores /\ a.index \in Indices /\ Packet.bus_cmd = "flush"
  BY ServedFacts DEF IsEviction, Addr
<1>2. Owns(k, a) /\ PrivateBlockOf(k, a)
  BY ServedFacts DEF LinesInv, EvictionsOwned
<1>3. /\ Owns(k, Packet.bus_addr) /\ Holds(k, Packet.bus_addr)
      /\ \A d \in Cores : Owns(d, Packet.bus_addr) =>
            tsram[d][a.index].tag = a.tag /\ tsram[d][a.index].mesi = "MODIFIED"
  BY <1>2, ServedFacts DEF Owns, Holds, Line
<1>4. k \in F
  BY <1>1, <1>3 DEF Flushers, Snoops, CmdSeenBy
<1>5. \A d \in F : d = k
  <2> SUFFICES ASSUME NEW d \in Cores, d # k, Owns(d, Packet.bus_addr) PROVE FALSE
    BY DEF Flushers
  <2>1. Accesses(d, a.tag, a.index)
    BY <1>1, <1>3 DEF LinesInv, HeldInProgram
  <2> QED
    BY <1>2, <2>1 DEF PrivateBlockOf, Private
<1>6. Max(F) = k
  <2>1. F \in SUBSET Cores /\ F # {}
    BY <1>4 DEF Flushers
  <2> HIDE DEF F, k
  <2> QED
    BY <1>5, <2>1, MaxOfCores
<1>7. F # {}
  BY <1>4
<1> QED
  BY <1>6, <1>7 DEF SnoopedPacket, Snooped

(* The answer the caches get is always a word of the block.                *)
LEMMA AnswerIsWord ==
    ASSUME TypeOK, BusProtocol, Serving, NEW memory
    PROVE  LET r == Reply(SnoopedPacket, memory)
           IN  r.bus_cmd = "flush" /\ r.bus_addr = Packet.bus_addr
<1>1. Packet.bus_cmd \in {"busRd", "busRdX", "flush"}
  BY ServedFacts DEF IsRequest, IsEviction, RequestCommands
<1>2. CASE Flushers(Current.origid, Packet) = {}
  BY <1>1, <1>2 DEF SnoopedPacket, Snooped, Reply, NewTransaction
<1>3. CASE Flushers(Current.origid, Packet) # {}
  BY <1>3 DEF SnoopedPacket, Snooped, Reply, NewTransaction
<1> QED
  BY <1>2, <1>3

(* A request is answered by somebody else, an eviction by its own cache.   *)
LEMMA AnswerOrigin ==
    ASSUME TypeOK, BusProtocol, LinesInv, Serving, NEW memory
    PROVE  LET r == Reply(SnoopedPacket, memory)
           IN  /\ IsRequest(Current) => r.origid # Current.origid
               /\ IsEviction(Current) => r = SnoopedPacket /\ r.origid = Current.origid
<1> DEFINE k == Current.origid
<1>1. k \in Cores /\ k # main_memory
  BY ServedFacts, NumCoresAssumption DEF Cores, main_memory
<1>2. CASE IsRequest(Current)
  <2>1. ~ IsEviction(Current) /\ Packet.bus_cmd \in {"busRd", "busRdX"}
    BY <1>2, ServedFacts DEF IsRequest, IsEviction, RequestCommands
  <2>2. CASE SnoopedPacket = Packet
    BY <1>1, <2>1, <2>2 DEF Reply, NewTransaction
  <2>3. CASE \E d \in Cores \ {k} :
               SnoopedPacket = NewTransaction(d, "flush", Packet.bus_addr,
                                              Word(d, Packet.bus_addr))
    BY <1>1, <2>1, <2>3 DEF Reply, NewTransaction
  <2> QED
    BY <1>2, <2>2, <2>3, RequestSnooped
<1>3. CASE IsEviction(Current)
  <2>1. ~ IsRequest(Current)
    BY <1>3 DEF IsRequest, IsEviction, RequestCommands
  <2> QED
    BY <1>3, <2>1, EvictionSnooped DEF Reply, NewTransaction
<1> QED
  BY <1>2, <1>3, ServedFacts

(* What a transferred word does to the bus and its counters.               *)
LEMMA TransferPace ==
    ASSUME TypeOK, BusProtocol, BusTransferWord
    PROVE  /\ Serving /\ Grant /\ pending' = pending /\ rd' = rd
           /\ ServesTransaction(CurrentOffset = LastOffset)
           /\ gIsBusTransactionActive' = (CurrentOffset # LastOffset)
           /\ gBusAddrOffset' = IF CurrentOffset = LastOffset
                                THEN CurrentOffset ELSE CurrentOffset + 1
<1> DEFINE k == Current.origid
           r == Reply(SnoopedPacket, ReleasedMemory)
<1>1. Serving /\ Grant /\ pending' = pending /\ rd' = rd
  BY DEF BusTransferWord, coreVars
<1>2. r.bus_cmd = "flush" /\ r.bus_addr.offset = CurrentOffset
  BY <1>1, AnswerIsWord, ServedFacts
<1>3. LastWordTaken(k, r) = (CurrentOffset = LastOffset) /\ ~ Ignored(k, r)
  BY <1>2 DEF LastWordTaken, Ignored
<1>4. /\ gIsBusTransactionActive' = ~ LastWordTaken(k, r)
      /\ gBusAddrOffset' = IF LastWordTaken(k, r) \/ Ignored(k, r)
                           THEN CurrentOffset ELSE CurrentOffset + 1
      /\ gTransactionStatePerCore' =
             IF LastWordTaken(k, r) THEN [GrantedStates EXCEPT ![k] = "finally"]
                                    ELSE GrantedStates
  BY DEF BusTransferWord
<1> HIDE DEF r
<1>5. gIsBusTransactionActive' = (CurrentOffset # LastOffset)
  BY <1>3, <1>4
<1>6. gBusAddrOffset' = IF CurrentOffset = LastOffset THEN CurrentOffset ELSE CurrentOffset + 1
  BY <1>3, <1>4
<1>7. ServesTransaction(CurrentOffset = LastOffset)
  BY <1>1, <1>3, <1>4 DEF ServesTransaction
<1> QED
  BY <1>1, <1>5, <1>6, <1>7

(* A transferred word of an eviction fills no line.                        *)
LEMMA EvictionFillsNothing ==
    ASSUME TypeOK, BusProtocol, LinesInv, BusTransferWord, IsEviction(Current)
    PROVE  /\ tsram' = SnoopedTsram(Current.origid, Packet)
           /\ dram' = dram
<1> DEFINE k == Current.origid
           r == Reply(SnoopedPacket, ReleasedMemory)
<1>1. ~ Fills(k, r)
  BY AnswerOrigin DEF BusTransferWord, Fills
<1>2. /\ tsram' = FilledTsram(k, r, IsShared(Current), SnoopedTsram(k, Packet))
      /\ dram' = FilledDram(k, r)
  BY DEF BusTransferWord
<1> HIDE DEF r
<1> QED
  BY <1>1, <1>2 DEF FilledTsram, FilledDram

(* A word transferred for a request: the caller's line takes the tag of    *)
(* the block, with the last word its new state, and the other lines are as *)
(* the snoop left them.                                                    *)
LEMMA FilledLines ==
    ASSUME TypeOK, BusProtocol, LinesInv, BusTransferWord, IsRequest(Current)
    PROVE  LET k == Current.origid
               i == Current.bus_addr.index
           IN  /\ tsram'[k][i].tag = Current.bus_addr.tag
               /\ CurrentOffset # LastOffset => tsram'[k][i].mesi = tsram[k][i].mesi
               /\ CurrentOffset = LastOffset =>
                      tsram'[k][i].mesi = IF IsShared(Current) THEN "SHARED" ELSE "EXCLUSIVE"
               /\ \A c \in Cores, j \in Indices :
                      c # k \/ j # i => tsram'[c][j] = SnoopedTsram(k, Packet)[c][j]
<1> DEFINE k == Current.origid
           a == Current.bus_addr
           i == a.index
           r == Reply(SnoopedPacket, ReleasedMemory)
           L == SnoopedTsram(k, Packet)
           new == IF CurrentOffset # LastOffset THEN L[k][i].mesi
                  ELSE IF IsShared(Current) THEN "SHARED" ELSE "EXCLUSIVE"
           line == [tag |-> a.tag, mesi |-> new]
<1>1. /\ Serving /\ k \in Cores /\ i \in Indices /\ a.tag \in Tags
      /\ Packet \in Transaction /\ CacheTypeOK
      /\ Packet.bus_addr.tag = a.tag /\ Packet.bus_addr.index = i
      /\ Packet.bus_addr.offset = CurrentOffset
  BY ServedFacts DEF BusTransferWord, Addr, TypeOK
<1>2. r.origid # k /\ r.bus_addr = Packet.bus_addr
  BY <1>1, AnswerOrigin, AnswerIsWord
<1>3. tsram' = FilledTsram(k, r, IsShared(Current), L)
  BY DEF BusTransferWord
<1>4. L \in [Cores -> [Indices -> TSRAMLine]]
  BY <1>1, SnoopedTsramType
<1>5. L[k][i].mesi = tsram[k][i].mesi
  BY <1>1, SnoopDeclines
<1> HIDE DEF r, L
<1>6. tsram' = [L EXCEPT ![k][i] = line]
  BY <1>1, <1>2, <1>3, <1>4 DEF FilledTsram, Fills
<1>7. line.tag = a.tag /\ line.mesi = new
  OBVIOUS
<1> HIDE DEF line, new, k, i
<1>8. /\ tsram'[k][i] = line
      /\ \A c \in Cores, j \in Indices : c # k \/ j # i => tsram'[c][j] = L[c][j]
  BY <1>1, <1>4, <1>6
<1> QED
  BY <1>5, <1>7, <1>8 DEF new, L, k, i

(* A line other than the one being filled keeps its tag and state or       *)
(* declines, as in a snoop.                                                *)
LEMMA OtherLines ==
    ASSUME TypeOK, BusProtocol, LinesInv, BusTransferWord, IsRequest(Current),
           NEW c \in Cores, NEW j \in Indices,
           c # Current.origid \/ j # Current.bus_addr.index
    PROVE  Declines(c, j) /\ ~ Filling(c, j)
<1>1. Serving
  BY TransferPace
<1>2. Declines(c, j)
  BY <1>1, FilledLines, SnoopDeclines DEF Declines
<1>3. ~ Filling(c, j)
  BY DEF Filling, Current
<1> QED
  BY <1>2, <1>3

(* The line that takes the last word of a block is the only one to hold it *)
(* unless it is SHARED, and then no other is EXCLUSIVE or MODIFIED.        *)
LEMMA LastWordLines ==
    ASSUME TypeOK, BusProtocol, LinesInv, BusTransferWord, IsRequest(Current),
           CurrentOffset = LastOffset,
           NEW d \in Cores \ {Current.origid},
           tsram'[d][Current.bus_addr.index].tag = Current.bus_addr.tag
    PROVE  LET mine   == tsram'[Current.origid][Current.bus_addr.index].mesi
               theirs == tsram'[d][Current.bus_addr.index].mesi
           IN  /\ mine = "EXCLUSIVE" => theirs = "INVALID"
               /\ theirs \notin {"EXCLUSIVE", "MODIFIED"}
<1> DEFINE k == Current.origid
           a == Current.bus_addr
           i == a.index
           L == SnoopedTsram(k, Packet)
<1>1. /\ Serving /\ k \in Cores /\ i \in Indices /\ Packet \in Transaction /\ CacheTypeOK
      /\ Packet.bus_addr.tag = a.tag /\ Packet.bus_addr.index = i
      /\ Packet.bus_addr.offset = LastOffset
  BY ServedFacts, TransferPace DEF TypeOK, Addr
<1>2. /\ tsram'[d][i] = L[d][i]
      /\ tsram'[k][i].mesi = IF IsShared(Current) THEN "SHARED" ELSE "EXCLUSIVE"
  BY <1>1, FilledLines
<1>3. /\ L[d][i].tag = tsram[d][i].tag
      /\ L[d][i].mesi # tsram[d][i].mesi =>
             tsram[d][i].mesi # "INVALID" /\ L[d][i].mesi \in {"INVALID", "SHARED"}
  BY <1>1, SnoopDeclines
<1>4. tsram[d][i].mesi # "INVALID" => Holds(d, a)
  BY <1>2, <1>3 DEF Holds, Line
<1>5. L[d][i].mesi # "INVALID" => IsShared(Current)
  BY <1>3, <1>4 DEF IsShared
<1>6. L[d][i].mesi \notin {"EXCLUSIVE", "MODIFIED"}
  <2>1. CASE Holds(d, a)
    <3>1. CmdSeenBy(d, k, Packet) \in RequestCommands
      BY <1>1, <2>1, RequestSeen DEF IsRequest
    <3>2. Holds(d, Packet.bus_addr)
      BY <1>1, <2>1 DEF Holds, Line
    <3> HIDE DEF L, k, i
    <3>3. /\ d # k /\ i = Packet.bus_addr.index
      BY <1>1 DEF k
    <3> QED
      BY <1>1, <3>1, <3>2, <3>3, SnoopedLines DEF L
  <2>2. CASE ~ Holds(d, a)
    BY <1>3, <1>4, <2>2
  <2> QED
    BY <2>1, <2>2
<1> QED
  BY <1>2, <1>5, <1>6

LEMMA RequestWordLines ==
    ASSUME SharedBlocksStay, TypeOK, TypeOK', BusProtocol, BusProtocol', LinesInv, BusTransferWord,
           IsRequest(Current)
    PROVE  LinesInv'
<1> SUFFICES ASSUME NEW k, NEW a, NEW i, NEW o,
                    k = Current.origid, a = Current.bus_addr, i = a.index, o = CurrentOffset
             PROVE  LinesInv'
  OBVIOUS
<1>1. /\ Serving /\ Grant /\ pending' = pending /\ gOngoingTransaction' = Current
      /\ k \in Cores /\ a \in Addr /\ i \in Indices /\ a.tag \in Tags /\ o \in Offsets
      /\ gIsBusTransactionActive' = (o # LastOffset)
      /\ gBusAddrOffset' = IF o = LastOffset THEN o ELSE o + 1
  BY ServedFacts, TransferPace DEF Grant, Addr
<1>2. gIsBusTransactionActive' => gBusAddrOffset' # 0
  <2>1. o # LastOffset => gBusAddrOffset' # 0
    BY <1>1 DEF Offsets
  <2> QED
    BY <1>1, <2>1
<1>3. AccessesBlockOf(k, a)
  BY <1>1, ServedFacts DEF LinesInv, AskedInProgram
<1>4. /\ Undone' \subseteq Undone /\ Queued' \subseteq Undone /\ Queued' \subseteq Unserved
      /\ Unserved' = Queued'
      /\ Undone' \subseteq Queued' \union {Current}
      /\ \A t \in Queued' : t.origid # k
  <2>1. \A t \in Queued' : t.origid # k
    BY <1>1, TransferPace, ServedCoreAlone
  <2>2. Queued \subseteq Undone /\ Queued \subseteq Unserved
    BY DEF Undone, Unserved
  <2> QED
    BY <1>1, <1>2, <2>1, <2>2, ServedEntries DEF Undone
<1>5. \A c \in Cores, j \in Indices : c # k \/ j # i => Declines(c, j) /\ ~ Filling(c, j)
  BY <1>1, OtherLines
<1>6. /\ tsram'[k][i].tag = a.tag
      /\ o # LastOffset => tsram'[k][i].mesi = tsram[k][i].mesi
      /\ o = LastOffset => tsram'[k][i].mesi \in {"SHARED", "EXCLUSIVE"}
  BY FilledLines
<1>7. \A c \in Cores, j \in Indices :
          Filling(c, j)' <=> o # LastOffset /\ c = k /\ j = i
  <2>1. Current.bus_cmd # "flush"
    BY DEF IsRequest, RequestCommands
  <2>2. o # LastOffset => gBusAddrOffset' > 0
    BY <1>1 DEF Offsets
  <2> QED
    BY <1>1, <2>1, <2>2 DEF Filling
<1>8. PendingInProgram' /\ AskedInProgram'
  BY <1>1, <1>4 DEF LinesInv, PendingInProgram, AskedInProgram
<1>9. HeldInProgram'
  <2> SUFFICES ASSUME NEW c \in Cores, NEW j \in Indices, tsram'[c][j].mesi # "INVALID"
               PROVE  Accesses(c, tsram'[c][j].tag, j)
    BY DEF HeldInProgram
  <2>1. CASE c = k /\ j = i
    BY <1>1, <1>3, <1>6, <2>1 DEF AccessesBlockOf
  <2>2. CASE c # k \/ j # i
    BY <1>5, <2>2 DEF LinesInv, HeldInProgram, Declines
  <2> QED
    BY <2>1, <2>2
<1>10. EvictionsOwned'
  <2> SUFFICES ASSUME NEW t \in Undone', IsEviction(t)
               PROVE  Owns(t.origid, t.bus_addr)' /\ PrivateBlockOf(t.origid, t.bus_addr)
    BY DEF EvictionsOwned
  <2>1. t \in Queued' /\ t.origid # k
    BY <1>4 DEF IsEviction, IsRequest, RequestCommands
  <2>2. /\ t \in Undone /\ t.origid \in Cores /\ t.bus_addr.index \in Indices
        /\ Owns(t.origid, t.bus_addr) /\ PrivateBlockOf(t.origid, t.bus_addr)
    BY <1>4, <2>1, UndoneTypes DEF LinesInv, EvictionsOwned, Transaction, Addr
  <2> QED
    BY <1>5, <2>1, <2>2 DEF Owns, Line, Declines, PrivateBlockOf
<1>11. RequestsNotOwned'
  <2> SUFFICES ASSUME NEW t \in Unserved', IsRequest(t),
                      tsram'[t.origid][t.bus_addr.index].tag = t.bus_addr.tag
               PROVE  tsram'[t.origid][t.bus_addr.index].mesi \in {"INVALID", "SHARED"}
    BY DEF RequestsNotOwned, Line
  <2>1. t \in Unserved /\ t.origid \in Cores /\ t.bus_addr.index \in Indices /\ t.origid # k
    BY <1>4, UndoneTypes DEF Transaction, Addr
  <2> QED
    BY <1>5, <2>1 DEF LinesInv, RequestsNotOwned, Line, Declines
<1>12. FilledLinePrivate'
  <2> SUFFICES ASSUME o # LastOffset, tsram'[k][i].mesi \in {"EXCLUSIVE", "MODIFIED"}
               PROVE  PrivateBlockOf(k, a)
    BY <1>1, <1>6 DEF FilledLinePrivate, RequestInProgress, Line
  <2>1. tsram[k][i].mesi \in {"EXCLUSIVE", "MODIFIED"}
    BY <1>6
  <2>2. CASE o = 0
    <3>1. tsram[k][i].tag # a.tag
      BY <1>1, <2>1, <2>2, ServedFacts DEF LinesInv, RequestsNotOwned, Line
    <3>2. Accesses(k, tsram[k][i].tag, i) /\ tsram[k][i].tag \in Tags
      BY <1>1, <2>1 DEF LinesInv, HeldInProgram, TypeOK, CacheTypeOK, TSRAMLine
    <3> QED
      BY <1>1, <1>3, <3>1, <3>2
         DEF AccessesBlockOf, PrivateBlockOf, SharedBlocksStay, LinesInv
  <2>3. CASE o # 0
    <3>1. /\ RequestInProgress /\ gBusAddrOffset > 0 /\ Current = gOngoingTransaction
      BY <1>1, <2>3, ServedFacts DEF RequestInProgress, Offsets
    <3> QED
      BY <2>1, <3>1 DEF LinesInv, FilledLinePrivate, Line
  <2> QED
    BY <2>2, <2>3
<1>13. SWMR'
  <2> SUFFICES ASSUME NEW c \in Cores, NEW d \in Cores, NEW j \in Indices, c # d,
                      tsram'[c][j].mesi \in {"EXCLUSIVE", "MODIFIED"}, ~ Filling(c, j)',
                      tsram'[d][j].mesi \in {"SHARED", "EXCLUSIVE", "MODIFIED"},
                      ~ Filling(d, j)',
                      tsram'[c][j].tag = tsram'[d][j].tag
               PROVE  FALSE
    BY DEF SWMR, Settled
  <2>1. CASE (c # k \/ j # i) /\ (d # k \/ j # i)
    <3>1. Declines(c, j) /\ Declines(d, j) /\ ~ Filling(c, j) /\ ~ Filling(d, j)
      BY <1>5, <2>1
    <3>2. tsram[d][j].mesi \in MesiStates
      BY DEF TypeOK, CacheTypeOK, TSRAMLine
    <3> QED
      BY <3>1, <3>2 DEF LinesInv, SWMR, Settled, Declines, MesiStates
  <2>2. CASE c = k /\ j = i
    <3>1. o = LastOffset /\ tsram'[d][i].tag = a.tag /\ tsram'[k][i].mesi = "EXCLUSIVE"
      BY <1>6, <1>7, <2>2
    <3>2. tsram'[d][i].mesi = "INVALID"
      BY <2>2, <3>1, LastWordLines
    <3> QED
      BY <2>2, <3>2
  <2>3. CASE d = k /\ j = i
    <3>1. o = LastOffset /\ tsram'[c][i].tag = a.tag
      BY <1>6, <1>7, <2>3
    <3>2. tsram'[c][i].mesi \notin {"EXCLUSIVE", "MODIFIED"}
      BY <2>3, <3>1, LastWordLines
    <3> QED
      BY <2>3, <3>2
  <2> QED
    BY <2>1, <2>2, <2>3
<1> QED
  BY <1>8, <1>9, <1>10, <1>11, <1>12, <1>13 DEF LinesInv

-----------------------------------------------------------------------------
(* The cores.                                                              *)

LEMMA DemandInProgram ==
    ASSUME PendingInProgram, NEW c \in Cores, NEW r \in Demand(c)
    PROVE  r \in Requests[c]
BY DEF PendingInProgram, Demand

LEMMA PendingStep ==
    ASSUME TypeOK, PendingInProgram, NEW c \in Cores, CoreCycle(c)
    PROVE  PendingInProgram'
<1>1. ASSUME NEW r \in Demand(c), Stalls(c, r) PROVE PendingInProgram'
  BY <1>1, DemandInProgram DEF Stalls, TypeOK, PendingInProgram
<1>2. ASSUME Succeeds(c) PROVE PendingInProgram'
  BY <1>2 DEF Succeeds, TypeOK, PendingInProgram
<1>3. CASE Compute(c)
  BY <1>3 DEF Compute, coreVars, PendingInProgram
<1> QED
  BY <1>1, <1>2, <1>3
     DEF CoreCycle, CacheBusy, LoadHit, LoadMiss, StoreHit, StoreUpgrade, StoreMiss

(* A cycle that touches neither a line nor the bus.                        *)
LEMMA QuietLines ==
    ASSUME TypeOK, TypeOK', BusProtocol, LinesInv, PendingInProgram',
           UNCHANGED <<tsram, queueVars, busVars>>
    PROVE  LinesInv'
<1>1. Undone' \subseteq Undone /\ Unserved' \subseteq Unserved
  BY DEF Undone, Unserved, Queued, Position, queueVars, busVars
<1>2. \A c \in Cores, i \in Indices : Declines(c, i) /\ (Filling(c, i)' <=> Filling(c, i))
  BY DEF Declines, Filling, busVars
<1>3. RequestInProgress' /\ gBusAddrOffset' > 0 =>
          /\ RequestInProgress /\ gBusAddrOffset > 0
          /\ gOngoingTransaction' = gOngoingTransaction
  BY DEF RequestInProgress, busVars
<1> QED
  BY <1>1, <1>2, <1>3, DecliningLines

(* What a cache adds to the queue: the eviction of a line that another     *)
(* block of the program takes, and a request for a block it does not own.  *)
EntryInLine(t) ==
    /\ t.origid \in Cores => AccessesBlockOf(t.origid, t.bus_addr)
    /\ IsEviction(t) => Owns(t.origid, t.bus_addr) /\ PrivateBlockOf(t.origid, t.bus_addr)
    /\ IsRequest(t) /\ Line(t.origid, t.bus_addr).tag = t.bus_addr.tag =>
           Line(t.origid, t.bus_addr).mesi \in {"INVALID", "SHARED"}

LEMMA EvictionInLine ==
    ASSUME SharedBlocksStay, TypeOK, LinesInv, NEW c \in Cores,
           NEW a \in Addr, AccessesBlockOf(c, a), ~ Holds(c, a), Line(c, a).mesi = "MODIFIED"
    PROVE  EntryInLine(NewTransaction(c, "flush", WordAt(Line(c, a).tag, a.index, 0), Word(c, a)))
<1> DEFINE t == NewTransaction(c, "flush", WordAt(Line(c, a).tag, a.index, 0), Word(c, a))
           old == tsram[c][a.index].tag
<1>1. /\ t.origid = c /\ t.bus_cmd = "flush"
      /\ t.bus_addr.tag = old /\ t.bus_addr.index = a.index
  BY DEF NewTransaction, WordAt, Line
<1>2. /\ a.index \in Indices /\ a.tag \in Tags /\ old \in Tags
      /\ tsram[c][a.index].mesi = "MODIFIED" /\ old # a.tag
  BY DEF Addr, TypeOK, CacheTypeOK, TSRAMLine, Holds, Line
<1> HIDE DEF t, old
<1>3. Accesses(c, old, a.index) /\ Accesses(c, a.tag, a.index)
  BY <1>2 DEF LinesInv, HeldInProgram, AccessesBlockOf, old
<1>4. Private(c, old, a.index)
  BY <1>2, <1>3 DEF SharedBlocksStay
<1>5. AccessesBlockOf(c, t.bus_addr) /\ PrivateBlockOf(c, t.bus_addr)
  BY <1>1, <1>3, <1>4 DEF AccessesBlockOf, PrivateBlockOf
<1>6. Owns(c, t.bus_addr)
  BY <1>1, <1>2 DEF Owns, Line, old
<1>7. ~ IsRequest(t)
  BY <1>1 DEF IsRequest, RequestCommands
<1> QED
  BY <1>1, <1>5, <1>6, <1>7 DEF EntryInLine, t

LEMMA RequestInLine ==
    ASSUME TypeOK, NEW c \in Cores, NEW a \in Addr, NEW cmd \in RequestCommands,
           AccessesBlockOf(c, a), ~ Holds(c, a) \/ Line(c, a).mesi = "SHARED"
    PROVE  EntryInLine(NewTransaction(c, cmd, a, 0))
<1> DEFINE t == NewTransaction(c, cmd, a, 0)
<1>1. t.origid = c /\ t.bus_addr = a /\ t.bus_cmd = cmd
  BY DEF NewTransaction
<1>2. ~ IsEviction(t)
  BY <1>1 DEF IsEviction, RequestCommands
<1> HIDE DEF t
<1> QED
  BY <1>1, <1>2 DEF EntryInLine, Holds, t

LEMMA AddedInLine ==
    ASSUME SharedBlocksStay, TypeOK, LinesInv, NEW c \in Cores,
           NEW a \in Addr, AccessesBlockOf(c, a), NEW ts,
           \/ /\ ~ Holds(c, a)
              /\ ts = MissTransactions(c, a, "busRd") \/ ts = MissTransactions(c, a, "busRdX")
           \/ Line(c, a).mesi = "SHARED" /\ ts = UpgradeTransactions(c, a)
    PROVE  ts \in Seq(Transaction) /\ \A i \in DOMAIN ts : EntryInLine(ts[i])
<1>1. ts \in Seq(Transaction)
  BY NewEntriesType DEF TypeOK
<1>2. CASE ~ Holds(c, a) /\ \E cmd \in RequestCommands : ts = MissTransactions(c, a, cmd)
  <2>1. PICK cmd \in RequestCommands : ts = MissTransactions(c, a, cmd)
    BY <1>2
  <2> DEFINE f == NewTransaction(c, "flush", WordAt(Line(c, a).tag, a.index, 0), Word(c, a))
             r == NewTransaction(c, cmd, a, 0)
  <2>2. EntryInLine(r) /\ (Line(c, a).mesi = "MODIFIED" => EntryInLine(f))
    BY <1>2, EvictionInLine, RequestInLine
  <2>3. ts = IF Line(c, a).mesi = "MODIFIED" THEN Append(<<f>>, r) ELSE Append(<< >>, r)
    BY <2>1 DEF MissTransactions, EvictionOf
  <2> HIDE DEF f, r
  <2>4. Append(<<f>>, r) = <<f, r>> /\ Append(<< >>, r) = <<r>>
    BY AppendToOne
  <2>5. CASE Line(c, a).mesi = "MODIFIED"
    BY <1>1, <2>2, <2>3, <2>4, <2>5
  <2>6. CASE Line(c, a).mesi # "MODIFIED"
    BY <1>1, <2>2, <2>3, <2>4, <2>6
  <2> QED
    BY <2>5, <2>6
<1>3. CASE Line(c, a).mesi = "SHARED" /\ ts = UpgradeTransactions(c, a)
  <2> DEFINE r == NewTransaction(c, "busRdX", a, 0)
  <2>1. EntryInLine(r)
    BY <1>3, RequestInLine DEF RequestCommands
  <2>2. EntryInLine(InvalidTransaction)
    BY CallersDiffer DEF EntryInLine, InvalidTransaction, NewTransaction, IsEviction,
                         IsRequest, RequestCommands
  <2>3. ts = <<r, InvalidTransaction>>
    BY <1>3 DEF UpgradeTransactions
  <2> HIDE DEF r
  <2> QED
    BY <1>1, <2>1, <2>2, <2>3
<1> QED
  BY <1>2, <1>3 DEF RequestCommands

LEMMA AskLines ==
    ASSUME SharedBlocksStay, TypeOK, TypeOK', BusProtocol, LinesInv, PendingInProgram',
           NEW c \in Cores, NEW a \in Addr, AccessesBlockOf(c, a),
           UNCHANGED <<cacheVars, busVars>>, NEW ts, AddTransactions(ts),
           \/ /\ ~ Holds(c, a)
              /\ ts = MissTransactions(c, a, "busRd") \/ ts = MissTransactions(c, a, "busRdX")
           \/ Line(c, a).mesi = "SHARED" /\ ts = UpgradeTransactions(c, a)
    PROVE  LinesInv'
<1> DEFINE new == {ts[i] : i \in DOMAIN ts}
<1>1. ts \in Seq(Transaction) /\ \A t \in new : EntryInLine(t)
  BY AddedInLine
<1>2. queue' = queue \o ts /\ queue \in Seq(Transaction)
  BY DEF AddTransactions, Enqueued, TypeOK, QueueTypeOK
<1>3. Queued' \subseteq Queued \union new
  BY <1>1, <1>2, ConcatFacts DEF Queued, Position
<1>4. UNCHANGED <<tsram, gOngoingTransaction, gIsBusTransactionActive, gBusAddrOffset>>
  BY DEF cacheVars, busVars
<1> HIDE DEF new
<1>5. Undone' \subseteq Undone \union new /\ Unserved' \subseteq Unserved \union new
  BY <1>3, <1>4 DEF Undone, Unserved
<1>6. AskedInProgram'
  BY <1>1, <1>5 DEF LinesInv, AskedInProgram, EntryInLine
<1>7. EvictionsOwned'
  BY <1>1, <1>4, <1>5 DEF LinesInv, EvictionsOwned, EntryInLine, Owns, Line
<1>8. RequestsNotOwned'
  BY <1>1, <1>4, <1>5 DEF LinesInv, RequestsNotOwned, EntryInLine, Line
<1>9. HeldInProgram' /\ FilledLinePrivate' /\ SWMR'
  BY <1>4 DEF LinesInv, HeldInProgram, FilledLinePrivate, RequestInProgress, Line, SWMR,
              Settled, Filling
<1> QED
  BY <1>6, <1>7, <1>8, <1>9 DEF LinesInv

(* A core whose cache is available has no transaction under way.           *)
LEMMA AvailableCore ==
    ASSUME TypeOK, BusProtocol, NEW c \in Cores, CacheAvailable(c)
    PROVE  /\ \A t \in Undone : t.origid # c
           /\ \A i \in Indices : ~ Filling(c, i)
<1>1. gTransactionStatePerCore[c] = "idle"
  BY DEF CacheAvailable, is_cache_busy, IsBusInTransaction
<1>2. gIsBusTransactionActive => gOngoingTransaction.origid # c
  BY <1>1 DEF BusProtocol, OneGrant
<1>3. \A t \in Queued : t.origid # c
  BY <1>1 DEF Queued, BusProtocol, QueuedCoreIsBusy
<1> QED
  BY <1>2, <1>3 DEF Undone, Filling

LEMMA WriteHitLines ==
    ASSUME TypeOK, TypeOK', BusProtocol, LinesInv, PendingInProgram',
           NEW c \in Cores, NEW a \in Addr, NEW data, WriteHit(c, a, data),
           UNCHANGED busVars
    PROVE  LinesInv'
<1> DEFINE i == a.index
<1>1. /\ i \in Indices /\ tsram \in [Cores -> [Indices -> TSRAMLine]]
      /\ UNCHANGED <<queueVars, busVars>> /\ CacheAvailable(c)
  BY DEF WriteHit, Addr, TypeOK, CacheTypeOK
<1>2. /\ tsram[c][i].mesi \in {"EXCLUSIVE", "MODIFIED"}
      /\ tsram'[c][i].mesi = "MODIFIED" /\ tsram'[c][i].tag = tsram[c][i].tag
      /\ \A d \in Cores, j \in Indices : d # c \/ j # i => tsram'[d][j] = tsram[d][j]
  BY <1>1 DEF WriteHit, Holds, Line, TSRAMLine, MesiStates
<1>3. /\ Undone' = Undone /\ Unserved' = Unserved
      /\ \A t \in Undone : t \in Transaction /\ t.origid # c /\ t.bus_addr.index \in Indices
      /\ Unserved \subseteq Undone
      /\ \A t \in Undone : IsRequest(t) \/ IsEviction(t) => t.origid \in Cores
  BY <1>1, AvailableCore, UndoneTypes
     DEF Undone, Unserved, Queued, Position, queueVars, busVars, Transaction, Addr
<1>4. \A d \in Cores, j \in Indices : /\ Filling(d, j)' <=> Filling(d, j)
                                      /\ ~ Filling(c, j)
  BY <1>1, AvailableCore DEF Filling, busVars
<1> HIDE DEF i
<1>5. HeldInProgram'
  BY <1>2 DEF LinesInv, HeldInProgram
<1>6. AskedInProgram'
  BY <1>3 DEF LinesInv, AskedInProgram
<1>7. EvictionsOwned'
  BY <1>2, <1>3 DEF LinesInv, EvictionsOwned, Owns, Line
<1>8. RequestsNotOwned'
  BY <1>2, <1>3 DEF LinesInv, RequestsNotOwned, Line
<1>9. FilledLinePrivate'
  <2>1. RequestInProgress => gOngoingTransaction \in Undone
    BY DEF RequestInProgress, Undone
  <2>2. /\ RequestInProgress' <=> RequestInProgress
        /\ gOngoingTransaction' = gOngoingTransaction
        /\ gBusAddrOffset' = gBusAddrOffset
    BY <1>1 DEF RequestInProgress, busVars
  <2>3. RequestInProgress =>
          /\ gOngoingTransaction.origid \in Cores \ {c}
          /\ gOngoingTransaction.bus_addr.index \in Indices
    BY <1>3, <2>1 DEF RequestInProgress
  <2>4. RequestInProgress =>
          Line(gOngoingTransaction.origid, gOngoingTransaction.bus_addr)'
            = Line(gOngoingTransaction.origid, gOngoingTransaction.bus_addr)
    BY <1>2, <2>2, <2>3 DEF Line
  <2> QED
    BY <2>2, <2>4 DEF LinesInv, FilledLinePrivate
<1>10. SWMR'
  <2> SUFFICES ASSUME NEW d \in Cores, NEW e \in Cores, NEW j \in Indices, d # e,
                      tsram'[d][j].mesi \in {"EXCLUSIVE", "MODIFIED"}, ~ Filling(d, j)',
                      tsram'[e][j].mesi \in {"SHARED", "EXCLUSIVE", "MODIFIED"},
                      ~ Filling(e, j)'
               PROVE  tsram'[d][j].tag # tsram'[e][j].tag
    BY DEF SWMR, Settled
  <2>1. tsram[d][j].mesi \in {"EXCLUSIVE", "MODIFIED"} /\ tsram'[d][j].tag = tsram[d][j].tag
    BY <1>2
  <2>2. /\ tsram[e][j].mesi \in {"SHARED", "EXCLUSIVE", "MODIFIED"}
        /\ tsram'[e][j].tag = tsram[e][j].tag
    BY <1>2
  <2> QED
    BY <1>4, <2>1, <2>2 DEF LinesInv, SWMR, Settled
<1> QED
  BY <1>5, <1>6, <1>7, <1>8, <1>9, <1>10 DEF LinesInv

LEMMA CoreLinesStep ==
    ASSUME SharedBlocksStay, TypeOK, TypeOK', BusProtocol, LinesInv,
           NEW c \in Cores, CoreCycle(c)
    PROVE  LinesInv'
<1>1. PendingInProgram' /\ PendingInProgram
  BY PendingStep DEF LinesInv
<1>2. \A r \in Demand(c) : r.addr \in Addr /\ AccessesBlockOf(c, r.addr)
  BY <1>1, DemandInProgram, DemandType DEF AccessesBlockOf, Accesses
<1>3. CASE CacheBusy(c)
  BY <1>1, <1>3, QuietLines DEF CacheBusy, Stalls, cacheVars
<1>4. CASE LoadHit(c)
  BY <1>1, <1>4, QuietLines DEF LoadHit, ReadHit, Succeeds, cacheVars
<1>5. CASE LoadMiss(c)
  BY <1>1, <1>2, <1>5, AskLines DEF LoadMiss, ReadMiss, Stalls
<1>6. CASE StoreHit(c)
  BY <1>1, <1>2, <1>6, WriteHitLines DEF StoreHit, Succeeds
<1>7. CASE StoreUpgrade(c)
  BY <1>1, <1>2, <1>7, AskLines DEF StoreUpgrade, WriteUpgrade, Stalls
<1>8. CASE StoreMiss(c)
  BY <1>1, <1>2, <1>8, AskLines DEF StoreMiss, WriteMiss, Stalls
<1>9. CASE Compute(c)
  BY <1>1, <1>9, QuietLines DEF Compute, cacheVars
<1> QED
  BY <1>3, <1>4, <1>5, <1>6, <1>7, <1>8, <1>9 DEF CoreCycle

LEMMA BusLinesStep ==
    ASSUME SharedBlocksStay, TypeOK, TypeOK', BusProtocol, BusProtocol', LinesInv,
           Run_Bus_Iteration
    PROVE  LinesInv'
<1>1. CASE BusIdle
  BY <1>1, BusIdleLines
<1>2. CASE BusDropInvalid
  BY <1>2, BusDropInvalidLines
<1>3. CASE BusWaitForOwner
  BY <1>3, NoFillLines DEF BusWaitForOwner, cacheVars, coreVars
<1>4. CASE BusAwaitMemory
  BY <1>4, NoFillLines DEF BusAwaitMemory, coreVars
<1>5. CASE BusTransferWord
  <2>1. CASE IsRequest(Current)
    BY <1>5, <2>1, RequestWordLines
  <2>2. CASE IsEviction(Current)
    <3>1. /\ Serving /\ Grant /\ pending' = pending
          /\ tsram' = SnoopedTsram(Current.origid, Packet)
      BY <1>5, <2>2, TransferPace, EvictionFillsNothing
    <3>2. gBusAddrOffset' # 0 \/ ~ gIsBusTransactionActive'
      <4>1. CurrentOffset # LastOffset => gBusAddrOffset' # 0
        BY <1>5, <3>1, TransferPace, ServedFacts DEF Offsets
      <4> QED
        BY <1>5, <4>1, TransferPace
    <3> QED
      BY <2>2, <3>1, <3>2, NoFillLines
  <2> QED
    BY <1>5, <2>1, <2>2, TransferPace, ServedFacts
<1> QED
  BY <1>1, <1>2, <1>3, <1>4, <1>5 DEF Run_Bus_Iteration

-----------------------------------------------------------------------------
(* The theorems.                                                           *)

LEMMA InitLines == Init => LinesInv
<1> SUFFICES ASSUME Init PROVE LinesInv
  OBVIOUS
<1>1. Undone = {} /\ Unserved = {} /\ ~ gIsBusTransactionActive
  BY DEF Init, QueueInit, BusInit, Undone, Unserved, Queued, Position
<1>2. \A c \in Cores, i \in Indices : tsram[c][i].mesi = "INVALID"
  BY DEF Init, CacheInit
<1>3. \A c \in Cores : pending[c] = NoRequest
  BY DEF Init
<1> QED
  BY <1>1, <1>2, <1>3
     DEF LinesInv, PendingInProgram, HeldInProgram, AskedInProgram, EvictionsOwned,
         RequestsNotOwned, FilledLinePrivate, RequestInProgress, SWMR, Settled

LEMMA LinesStep ==
    ASSUME SharedBlocksStay, TypeOK, TypeOK', BusProtocol, BusProtocol', LinesInv,
           [Next]_vars
    PROVE  LinesInv'
<1>1. CASE Run_Bus_Iteration
  BY <1>1, BusLinesStep
<1>2. CASE \E c \in Cores : CoreCycle(c)
  BY <1>2, CoreLinesStep
<1>3. CASE UNCHANGED vars
  <2>1. PendingInProgram'
    BY <1>3 DEF vars, coreVars, LinesInv, PendingInProgram
  <2> QED
    BY <1>3, <2>1, QuietLines DEF vars, cacheVars
<1> QED
  BY <1>1, <1>2, <1>3 DEF Next

(* What the caches hold, ask for and evict are blocks of their cores'      *)
(* programs; the block of an eviction is owned until it has been written   *)
(* back, and no request is made for a block the caller may write           *)
(* (handle_dirty_block, update_cache_read, update_cache_write).            *)
THEOREM LinesInvariant ==
    ASSUME SharedBlocksStay
    PROVE  Spec => []LinesInv
<1>1. Init => LinesInv
  BY InitLines
<1>2. TypeOK /\ TypeOK' /\ BusProtocol /\ BusProtocol' /\ LinesInv /\ [Next]_vars => LinesInv'
  BY LinesStep
<1> QED
  BY <1>1, <1>2, TypeCorrect, BusProtocolInvariant, PTL DEF Spec

(* Single writer or many readers: while a cache may write a block without  *)
(* asking, no other cache holds it (snooping_handler, the MESI handlers,   *)
(* cache_response_handle).                                                 *)
THEOREM Coherent ==
    ASSUME SharedBlocksStay
    PROVE  Spec => []SWMR
<1>1. LinesInv => SWMR
  BY DEF LinesInv
<1> QED
  BY <1>1, LinesInvariant, PTL
=============================================================================
