-------------------------- MODULE BusProtocolProofs --------------------------
(***************************************************************************)
(* The bus protocol is an invariant whatever the constants and the         *)
(* programs are.  BusProtocol is inductive relative to TypeOK; its parts   *)
(* need each other: that a core has no second entry needs that it is never *)
(* idle while one is queued, and that needs that an eviction is followed   *)
(* at once by its request, since the bus sets the core idle in between.    *)
(***************************************************************************)
EXTENDS MemorySystemProofs, SequenceTheorems

-----------------------------------------------------------------------------
(* Sequences.                                                              *)

LEMMA TailFacts ==
    ASSUME NEW S, NEW q \in Seq(S), q # << >>
    PROVE  /\ Len(q) \in Nat \ {0}
           /\ DOMAIN q = 1 .. Len(q)
           /\ DOMAIN Tail(q) = 1 .. Len(q) - 1
           /\ Head(q) = q[1]
           /\ \A i \in 1 .. Len(q) - 1 : Tail(q)[i] = q[i + 1]
<1>1. Len(q) \in Nat \ {0} /\ DOMAIN q = 1 .. Len(q) /\ Head(q) = q[1]
  OBVIOUS
<1>2. Tail(q) \in Seq(S) /\ Len(Tail(q)) = Len(q) - 1
  OBVIOUS
<1>3. DOMAIN Tail(q) = 1 .. Len(q) - 1
  BY <1>2
<1>4. \A i \in 1 .. Len(q) - 1 : Tail(q)[i] = q[i + 1]
  BY <1>1
<1> QED
  BY <1>1, <1>3, <1>4

LEMMA AppendToOne ==
    ASSUME NEW e, NEW f
    PROVE  Append(<<e>>, f) = <<e, f>>
<1> DEFINE S == {e, f}
           s == Append(<<e>>, f)
           t == <<e, f>>
<1>1. s \in Seq(S) /\ Len(s) = 2 /\ s[1] = e /\ s[2] = f
  OBVIOUS
<1>2. t \in Seq(S) /\ Len(t) = 2 /\ t[1] = e /\ t[2] = f
  OBVIOUS
<1> HIDE DEF S, s, t
<1>3. \A i \in 1 .. Len(s) : s[i] = t[i]
  BY <1>1, <1>2
<1>4. s = t
  BY <1>1, <1>2, <1>3, SeqEqual
<1> QED
  BY <1>4 DEF s, t

LEMMA ConcatFacts ==
    ASSUME NEW S, NEW q \in Seq(S), NEW r \in Seq(S)
    PROVE  /\ Len(q) \in Nat /\ Len(r) \in Nat
           /\ DOMAIN q = 1 .. Len(q)
           /\ DOMAIN r = 1 .. Len(r)
           /\ DOMAIN (q \o r) = 1 .. Len(q) + Len(r)
           /\ \A i \in 1 .. Len(q) : (q \o r)[i] = q[i]
           /\ \A i \in 1 .. Len(r) : (q \o r)[Len(q) + i] = r[i]
           /\ \A i \in 1 .. Len(q) + Len(r) :
                 i \notin 1 .. Len(q) => i - Len(q) \in 1 .. Len(r) /\ (q \o r)[i] = r[i - Len(q)]
OBVIOUS

-----------------------------------------------------------------------------
(* The initial state.                                                      *)
LEMMA InitProtocol == Init => BusProtocol
<1> SUFFICES ASSUME Init PROVE BusProtocol
  OBVIOUS
<1>1. Position = {}
  BY DEF Init, QueueInit, Position
<1>2. \A c \in Cores : gTransactionStatePerCore[c] = "idle"
  BY DEF Init, QueueInit
<1>3. ~ gIsBusTransactionActive
  BY DEF Init, BusInit
<1> QED
  BY <1>1, <1>2, <1>3
     DEF BusProtocol, EntriesWellFormed, OneGrant, QueuedCoreIsBusy,
         WaitingCoreIsQueued, GrantedCoreHasNoOther, EvictionThenRequest,
         OneRequestPerCore, DelayFollowsRequest, BusyCoreStalls, Granted, is_cache_busy,
         IsBusInTransaction, IsBusWaitForTransaction

-----------------------------------------------------------------------------
(* A cache adds transactions.                                              *)

(* What core c's cache adds in one call: its request, possibly after its   *)
(* eviction or before the delay entry.                                     *)
Batch(c, ts) ==
    /\ ts \in Seq(Transaction)
    /\ Len(ts) \in {1, 2}
    /\ \A i \in 1 .. Len(ts) : WellFormed(ts[i]) /\ ts[i].origid \in {c, invalid_caller}
    /\ \E i \in 1 .. Len(ts) : ts[i].origid = c
    /\ \A i \in 1 .. Len(ts) :
          ts[i].bus_cmd = "flush" =>
              i = 1 /\ Len(ts) = 2 /\ ts[2].origid = ts[1].origid /\ ts[2].bus_cmd \in RequestCommands
    /\ Len(ts) = 2 /\ ts[1].origid = ts[2].origid => ts[1].bus_cmd = "flush"
    /\ \A i \in 1 .. Len(ts) :
          ts[i].origid = invalid_caller => i = 2 /\ ts[1].origid = c /\ ts[1].bus_cmd = "busRdX"

LEMMA CallersDiffer == invalid_caller \notin Cores
BY NumCoresAssumption DEF Cores, invalid_caller

LEMMA Batches ==
    ASSUME CacheTypeOK, NEW c \in Cores, NEW a \in Addr
    PROVE  /\ Batch(c, MissTransactions(c, a, "busRd"))
           /\ Batch(c, MissTransactions(c, a, "busRdX"))
           /\ Batch(c, UpgradeTransactions(c, a))
<1>1. ASSUME NEW cmd \in RequestCommands
      PROVE  /\ WellFormed(NewTransaction(c, cmd, a, 0))
             /\ NewTransaction(c, cmd, a, 0).origid = c
             /\ NewTransaction(c, cmd, a, 0).bus_cmd = cmd
             /\ cmd # "flush"
  BY DEF WellFormed, NewTransaction, RequestCommands
<1>2. ASSUME NEW cmd \in RequestCommands,
             MissTransactions(c, a, cmd) \in Seq(Transaction)
      PROVE  Batch(c, MissTransactions(c, a, cmd))
  <2>1. CASE Line(c, a).mesi = "MODIFIED"
    <3> DEFINE f == NewTransaction(c, "flush", WordAt(Line(c, a).tag, a.index, 0), Word(c, a))
               r == NewTransaction(c, cmd, a, 0)
    <3>1. MissTransactions(c, a, cmd) = Append(<<f>>, r)
      BY <2>1 DEF MissTransactions, EvictionOf
    <3>2. WellFormed(f) /\ f.origid = c /\ f.bus_cmd = "flush"
      BY DEF WellFormed, NewTransaction
    <3>3. WellFormed(r) /\ r.origid = c /\ r.bus_cmd = cmd /\ cmd # "flush"
      BY <1>1, <1>2
    <3> HIDE DEF f, r
    <3>4. Append(<<f>>, r) = <<f, r>>
      BY AppendToOne
    <3> QED
      BY <1>2, <3>1, <3>2, <3>3, <3>4, CallersDiffer DEF Batch
  <2>2. CASE Line(c, a).mesi # "MODIFIED"
    <3> DEFINE r == NewTransaction(c, cmd, a, 0)
    <3>1. MissTransactions(c, a, cmd) = <<r>>
      BY <2>2 DEF MissTransactions, EvictionOf
    <3>2. WellFormed(r) /\ r.origid = c /\ r.bus_cmd # "flush"
      BY <1>1, <1>2
    <3> HIDE DEF r
    <3>3. Len(<<r>>) = 1 /\ <<r>>[1] = r
      OBVIOUS
    <3> QED
      BY <1>2, <3>1, <3>2, <3>3, CallersDiffer DEF Batch
  <2> QED
    BY <2>1, <2>2
<1>3. Batch(c, UpgradeTransactions(c, a))
  <2> DEFINE r == NewTransaction(c, "busRdX", a, 0)
  <2>1. UpgradeTransactions(c, a) = <<r, InvalidTransaction>>
    BY DEF UpgradeTransactions
  <2>2. /\ WellFormed(InvalidTransaction)
        /\ InvalidTransaction.origid = invalid_caller
        /\ InvalidTransaction.bus_cmd = "no_cmd"
    BY DEF InvalidTransaction, NewTransaction, WellFormed
  <2>3. WellFormed(r) /\ r.origid = c /\ r.bus_cmd = "busRdX"
    BY <1>1 DEF RequestCommands
  <2>4. UpgradeTransactions(c, a) \in Seq(Transaction)
    BY NewEntriesType
  <2> HIDE DEF r
  <2> QED
    BY <2>1, <2>2, <2>3, <2>4, CallersDiffer DEF Batch
<1> QED
  BY <1>2, <1>3, NewEntriesType DEF RequestCommands

LEMMA AskPreservesProtocol ==
    ASSUME TypeOK, BusProtocol, NEW c \in Cores, NEW ts, Batch(c, ts),
           CacheAvailable(c), AddTransactions(ts),
           UNCHANGED busVars,
           pending' \in [Cores -> Request \union {NoRequest}],
           pending'[c] # NoRequest,
           \A d \in Cores \ {c} : pending'[d] = pending[d]
    PROVE  BusProtocol'
<1> DEFINE n == Len(queue)
           m == Len(ts)
<1>1. /\ n \in Nat /\ m \in {1, 2}
      /\ DOMAIN queue = 1 .. n
      /\ DOMAIN ts = 1 .. m
      /\ DOMAIN queue' = 1 .. n + m
      /\ \A i \in 1 .. n : queue'[i] = queue[i]
      /\ \A i \in 1 .. m : queue'[n + i] = ts[i]
      /\ \A i \in 1 .. n + m :
            i \notin 1 .. n => i - n \in 1 .. m /\ queue'[i] = ts[i - n]
  BY ConcatFacts DEF Batch, AddTransactions, Enqueued, TypeOK, QueueTypeOK
<1>2. /\ gTransactionStatePerCore'[c] = "wait_cmd"
      /\ gTransactionStatePerCore[c] = "idle"
      /\ \A d \in Cores \ {c} : gTransactionStatePerCore'[d] = gTransactionStatePerCore[d]
  BY <1>1, CallersDiffer
     DEF Batch, AddTransactions, CacheAvailable, is_cache_busy, IsBusInTransaction,
         IsBusWaitForTransaction
<1>3. \A i \in 1 .. n : queue[i].origid # c
  BY <1>1, <1>2 DEF BusProtocol, QueuedCoreIsBusy, Position
<1> HIDE DEF n, m
<1>4. EntriesWellFormed'
  BY <1>1 DEF BusProtocol, EntriesWellFormed, Position, Batch, WellFormed
<1>5. OneGrant'
  BY <1>2 DEF BusProtocol, OneGrant, busVars
<1>6. QueuedCoreIsBusy'
  BY <1>1, <1>2, CallersDiffer DEF BusProtocol, QueuedCoreIsBusy, Position, Batch, m
<1>7. WaitingCoreIsQueued'
  <2> SUFFICES ASSUME NEW d \in Cores, gTransactionStatePerCore'[d] = "wait_cmd"
               PROVE  \E i \in 1 .. n + m : queue'[i].origid = d
    BY <1>1 DEF WaitingCoreIsQueued, Position
  <2>1. CASE d = c
    <3>1. PICK i \in 1 .. m : ts[i].origid = c
      BY DEF Batch, m
    <3> QED
      BY <1>1, <2>1, <3>1
  <2>2. CASE d # c
    <3>1. PICK i \in 1 .. n : queue[i].origid = d
      BY <1>1, <1>2, <2>2 DEF BusProtocol, WaitingCoreIsQueued, Position
    <3> QED
      BY <1>1, <3>1
  <2> QED
    BY <2>1, <2>2
<1>8. GrantedCoreHasNoOther'
  <2> SUFFICES ASSUME NEW d \in Cores, Granted(d)'
               PROVE  /\ gOngoingTransaction.bus_cmd = "flush" =>
                            queue' # << >> /\ queue'[1].origid = d /\ queue'[1].bus_cmd # "flush"
                      /\ \A i \in 1 .. n + m :
                            queue'[i].origid = d => i = 1 /\ gOngoingTransaction.bus_cmd = "flush"
    BY <1>1 DEF GrantedCoreHasNoOther, Position, busVars
  <2>1. d # c /\ Granted(d)
    BY <1>2 DEF Granted
  <2>2. /\ gOngoingTransaction.bus_cmd = "flush" =>
              queue # << >> /\ queue[1].origid = d /\ queue[1].bus_cmd # "flush"
        /\ \A i \in 1 .. n :
              queue[i].origid = d => i = 1 /\ gOngoingTransaction.bus_cmd = "flush"
    BY <1>1, <2>1 DEF BusProtocol, GrantedCoreHasNoOther, Position
  <2>3. queue # << >> => 1 \in 1 .. n /\ queue' # << >>
    BY <1>1
  <2>4. \A i \in 1 .. m : ts[i].origid # d
    BY <2>1, CallersDiffer DEF Batch, m
  <2> QED
    BY <1>1, <2>2, <2>3, <2>4
<1>9. EvictionThenRequest'
  <2> SUFFICES ASSUME NEW i \in 1 .. n + m, queue'[i].bus_cmd = "flush"
               PROVE  /\ i + 1 \in 1 .. n + m
                      /\ queue'[i + 1].origid = queue'[i].origid
                      /\ queue'[i + 1].bus_cmd \in RequestCommands
    BY <1>1 DEF EvictionThenRequest, Position
  <2>1. CASE i \in 1 .. n
    <3>1. /\ i + 1 \in 1 .. n
          /\ queue[i + 1].origid = queue[i].origid
          /\ queue[i + 1].bus_cmd \in RequestCommands
      BY <1>1, <2>1 DEF BusProtocol, EvictionThenRequest, Position
    <3> QED
      BY <1>1, <2>1, <3>1
  <2>2. CASE i \notin 1 .. n
    <3>1. i - n \in 1 .. m /\ ts[i - n].bus_cmd = "flush"
      BY <1>1, <2>2
    <3>2. /\ i - n = 1 /\ m = 2
          /\ ts[2].origid = ts[1].origid /\ ts[2].bus_cmd \in RequestCommands
      BY <3>1 DEF Batch, m
    <3>3. i = n + 1 /\ i + 1 = n + 2
      BY <1>1, <3>2
    <3> QED
      BY <1>1, <3>2, <3>3
  <2> QED
    BY <2>1, <2>2
<1>10. OneRequestPerCore'
  <2> SUFFICES ASSUME NEW i \in 1 .. n + m, NEW j \in 1 .. n + m, i < j,
                      queue'[i].origid \in Cores,
                      queue'[i].origid = queue'[j].origid
               PROVE  j = i + 1 /\ queue'[i].bus_cmd = "flush"
    BY <1>1 DEF OneRequestPerCore, Position
  <2>1. CASE j \in 1 .. n
    <3>1. i \in 1 .. n
      BY <1>1, <2>1
    <3> QED
      BY <1>1, <2>1, <3>1 DEF BusProtocol, OneRequestPerCore, Position
  <2>2. CASE j \notin 1 .. n
    <3>1. j - n \in 1 .. m /\ queue'[j] = ts[j - n]
      BY <1>1, <2>2
    <3>2. queue'[i].origid = c
      BY <3>1, CallersDiffer DEF Batch, m
    <3>3. i \notin 1 .. n
      BY <1>1, <1>3, <3>2
    <3>4. i - n \in 1 .. m /\ queue'[i] = ts[i - n]
      BY <1>1, <3>3
    <3>5. i - n = 1 /\ j - n = 2 /\ m = 2
      BY <1>1, <3>1, <3>4
    <3>6. ts[1].bus_cmd = "flush"
      BY <3>1, <3>4, <3>5 DEF Batch, m
    <3> QED
      BY <1>1, <3>4, <3>5, <3>6
  <2> QED
    BY <2>1, <2>2
<1>11. BusyCoreStalls'
  <2> SUFFICES ASSUME NEW d \in Cores, is_cache_busy(d)'
               PROVE  pending'[d] # NoRequest
    BY DEF BusyCoreStalls
  <2>1. CASE d = c
    BY <2>1
  <2>2. CASE d # c
    BY <1>2, <2>2
       DEF BusProtocol, BusyCoreStalls, is_cache_busy, IsBusInTransaction,
           IsBusWaitForTransaction
  <2> QED
    BY <2>1, <2>2
<1>12. DelayFollowsRequest'
  <2> SUFFICES ASSUME NEW i \in 1 .. n + m, queue'[i].origid = invalid_caller
               PROVE  \/ /\ i - 1 \in 1 .. n + m
                         /\ queue'[i - 1].origid \in Cores
                         /\ queue'[i - 1].bus_cmd = "busRdX"
                         /\ i - 2 \in 1 .. n + m => queue'[i - 2].origid # queue'[i - 1].origid
                      \/ /\ i = 1
                         /\ gOngoingTransaction.origid \in Cores
                         /\ gOngoingTransaction.bus_cmd = "busRdX"
                         /\ gTransactionStatePerCore'[gOngoingTransaction.origid]
                               \in {"operation", "finally"}
    BY <1>1 DEF DelayFollowsRequest, Granted, Position, busVars
  <2>1. CASE i \in 1 .. n
    <3>1. \/ /\ i - 1 \in 1 .. n
             /\ queue[i - 1].origid \in Cores
             /\ queue[i - 1].bus_cmd = "busRdX"
             /\ i - 2 \in 1 .. n => queue[i - 2].origid # queue[i - 1].origid
          \/ /\ i = 1
             /\ gOngoingTransaction.origid \in Cores
             /\ gOngoingTransaction.bus_cmd = "busRdX"
             /\ Granted(gOngoingTransaction.origid)
      BY <1>1, <2>1 DEF BusProtocol, DelayFollowsRequest, Position
    <3>2. \A d \in Cores :
            Granted(d) => gTransactionStatePerCore'[d] \in {"operation", "finally"}
      BY <1>2 DEF Granted
    <3>3. CASE /\ i - 1 \in 1 .. n
               /\ queue[i - 1].origid \in Cores
               /\ queue[i - 1].bus_cmd = "busRdX"
               /\ i - 2 \in 1 .. n => queue[i - 2].origid # queue[i - 1].origid
      <4>1. i - 2 \in 1 .. n + m => i - 2 \in 1 .. n
        BY <1>1, <2>1
      <4>2. i - 1 \in 1 .. n + m
        BY <1>1, <3>3
      <4> QED
        BY <1>1, <3>3, <4>1, <4>2
    <3> QED
      BY <3>1, <3>2, <3>3
  <2>2. CASE i \notin 1 .. n
    <3>1. i - n \in 1 .. m /\ ts[i - n].origid = invalid_caller
      BY <1>1, <2>2
    <3>2. i - n = 2 /\ m = 2 /\ ts[1].origid = c /\ ts[1].bus_cmd = "busRdX"
      BY <3>1 DEF Batch, m
    <3>3. i = n + 2 /\ i - 1 = n + 1 /\ i - 2 = n
      BY <1>1, <3>2
    <3>4. queue'[i - 1] = ts[1]
      BY <1>1, <3>2, <3>3
    <3>5. i - 2 \in 1 .. n + m => queue'[i - 2].origid # c
      BY <1>1, <1>3, <3>3
    <3> QED
      BY <1>1, <3>2, <3>3, <3>4, <3>5
  <2> QED
    BY <2>1, <2>2
<1> QED
  BY <1>4, <1>5, <1>6, <1>7, <1>8, <1>9, <1>10, <1>11, <1>12 DEF BusProtocol

-----------------------------------------------------------------------------
(* The bus.                                                                *)

LEMMA QueueFacts ==
    ASSUME TypeOK
    PROVE  /\ Len(queue) \in Nat
           /\ Position = 1 .. Len(queue)
           /\ queue # << >> => Len(queue) > 0
BY DEF TypeOK, QueueTypeOK, Position

(* Releasing idles a core that is done and leaves the others alone.        *)
LEMMA ReleasedFacts ==
    ASSUME TypeOK, BusProtocol
    PROVE  \A d \in Cores :
               /\ gTransactionStatePerCore[d] = "finally" => ReleasedStates[d] = "idle"
               /\ gTransactionStatePerCore[d] # "finally" =>
                      ReleasedStates[d] = gTransactionStatePerCore[d]
BY DEF ReleasedStates, BusProtocol, OneGrant

LEMMA BusIdleProtocol == TypeOK /\ BusProtocol /\ BusIdle => BusProtocol'
<1> SUFFICES ASSUME TypeOK, BusProtocol, BusIdle PROVE BusProtocol'
  OBVIOUS
<1>1. queue = << >> /\ queue' = << >> /\ Position = {} /\ Position' = {}
  BY DEF BusIdle, Position
<1>2. ~ gIsBusTransactionActive /\ ~ gIsBusTransactionActive'
  BY DEF BusIdle
<1>3. \A d \in Cores :
        gTransactionStatePerCore[d] \in {"idle", "finally"} /\ gTransactionStatePerCore'[d] = "idle"
  <2> TAKE d \in Cores
  <2>1. gTransactionStatePerCore[d] \in TransactionStates
    BY DEF TypeOK, QueueTypeOK
  <2>2. gTransactionStatePerCore[d] # "wait_cmd"
    BY <1>1 DEF BusProtocol, WaitingCoreIsQueued
  <2>3. gTransactionStatePerCore[d] # "operation"
    BY <1>2 DEF BusProtocol, OneGrant
  <2>4. gTransactionStatePerCore'[d] = ReleasedStates[d]
    BY DEF BusIdle
  <2> QED
    BY <2>1, <2>2, <2>3, <2>4, ReleasedFacts DEF TransactionStates
<1>4. /\ EntriesWellFormed' /\ QueuedCoreIsBusy' /\ EvictionThenRequest'
      /\ OneRequestPerCore' /\ DelayFollowsRequest'
  BY <1>1 DEF EntriesWellFormed, QueuedCoreIsBusy, EvictionThenRequest,
              OneRequestPerCore, DelayFollowsRequest
<1>5. OneGrant'
  BY <1>2, <1>3 DEF OneGrant
<1>6. WaitingCoreIsQueued' /\ GrantedCoreHasNoOther' /\ BusyCoreStalls'
  BY <1>3 DEF WaitingCoreIsQueued, GrantedCoreHasNoOther, Granted, BusyCoreStalls,
              is_cache_busy, IsBusInTransaction, IsBusWaitForTransaction
<1> QED
  BY <1>4, <1>5, <1>6 DEF BusProtocol

(* Taking the first entry shifts the queue; what is said of two entries,   *)
(* or of an entry and the next, is said of the rest as well.               *)
LEMMA TailProtocol ==
    ASSUME TypeOK, BusProtocol, queue # << >>, queue' = Tail(queue)
    PROVE  /\ Head(queue) = queue[1]
           /\ 1 \in Position
           /\ Position' = 1 .. Len(queue) - 1
           /\ \A i \in Position' : i + 1 \in Position /\ queue'[i] = queue[i + 1]
           /\ \A i \in Position : i # 1 => i - 1 \in Position' /\ queue'[i - 1] = queue[i]
           /\ EntriesWellFormed'
           /\ EvictionThenRequest'
           /\ OneRequestPerCore'
<1>1. /\ Len(queue) \in Nat \ {0}
      /\ Position = 1 .. Len(queue)
      /\ Position' = 1 .. Len(queue) - 1
      /\ Head(queue) = queue[1]
      /\ \A i \in Position' : queue'[i] = queue[i + 1]
  BY TailFacts DEF TypeOK, QueueTypeOK, Position
<1>2. \A i \in Position' : i + 1 \in Position /\ queue'[i] = queue[i + 1]
  BY <1>1
<1>3. \A i \in Position : i # 1 => i - 1 \in Position' /\ queue'[i - 1] = queue[i]
  BY <1>1
<1>4. EntriesWellFormed'
  BY <1>2 DEF EntriesWellFormed, BusProtocol, WellFormed
<1>5. EvictionThenRequest'
  <2> SUFFICES ASSUME NEW i \in Position', queue'[i].bus_cmd = "flush"
               PROVE  /\ i + 1 \in Position'
                      /\ queue'[i + 1].origid = queue'[i].origid
                      /\ queue'[i + 1].bus_cmd \in RequestCommands
    BY DEF EvictionThenRequest
  <2>1. /\ i + 1 + 1 \in Position
        /\ queue[i + 1 + 1].origid = queue[i + 1].origid
        /\ queue[i + 1 + 1].bus_cmd \in RequestCommands
    BY <1>2 DEF BusProtocol, EvictionThenRequest
  <2>2. i + 1 \in Position'
    BY <1>1, <2>1
  <2> QED
    BY <1>2, <2>1, <2>2
<1>6. OneRequestPerCore'
  <2> SUFFICES ASSUME NEW i \in Position', NEW j \in Position', i < j,
                      queue'[i].origid \in Cores, queue'[i].origid = queue'[j].origid
               PROVE  j = i + 1 /\ queue'[i].bus_cmd = "flush"
    BY DEF OneRequestPerCore
  <2>1. i \in Int /\ j \in Int
    BY <1>1
  <2>2. i + 1 < j + 1
    BY <2>1
  <2>3. j + 1 = i + 1 + 1 /\ queue[i + 1].bus_cmd = "flush"
    BY <1>2, <2>2 DEF BusProtocol, OneRequestPerCore
  <2>4. j = i + 1
    BY <2>1, <2>3
  <2>5. queue'[i] = queue[i + 1]
    BY <1>2
  <2> QED
    BY <2>3, <2>4, <2>5
<1> QED
  BY <1>1, <1>2, <1>3, <1>4, <1>5, <1>6

(* The delay entries of the rest: each is still behind its request, unless *)
(* that is the entry taken.                                                *)
LEMMA TailDelays ==
    ASSUME TypeOK, BusProtocol, queue # << >>, queue' = Tail(queue),
           NEW i \in Position', queue'[i].origid = invalid_caller
    PROVE  \/ /\ i - 1 \in Position'
              /\ queue'[i - 1].origid \in Cores
              /\ queue'[i - 1].bus_cmd = "busRdX"
              /\ i - 2 \in Position' => queue'[i - 2].origid # queue'[i - 1].origid
           \/ /\ i = 1
              /\ queue[1].origid \in Cores
              /\ queue[1].bus_cmd = "busRdX"
<1>1. /\ Position' = 1 .. Len(queue) - 1
      /\ Len(queue) \in Nat
      /\ Position = 1 .. Len(queue)
      /\ i + 1 \in Position
      /\ \A j \in Position' : queue'[j] = queue[j + 1]
  BY TailProtocol, QueueFacts
<1>2. i + 1 # 1 /\ i \in Int
  BY <1>1
<1>3. /\ i + 1 - 1 \in Position
      /\ queue[i + 1 - 1].origid \in Cores
      /\ queue[i + 1 - 1].bus_cmd = "busRdX"
      /\ i + 1 - 2 \in Position => queue[i + 1 - 2].origid # queue[i + 1 - 1].origid
  BY <1>1, <1>2 DEF BusProtocol, DelayFollowsRequest
<1>4. i + 1 - 1 = i /\ i + 1 - 2 = i - 1
  BY <1>2
<1>5. CASE i = 1
  BY <1>3, <1>4, <1>5
<1>6. CASE i # 1
  <2>1. i - 1 \in Position' /\ i - 1 \in Position
    BY <1>1, <1>6
  <2>2. queue'[i - 1] = queue[i]
    BY <1>1, <1>2, <2>1
  <2>3. i - 2 \in Position' => queue'[i - 2] = queue[i - 1]
    BY <1>1, <1>2
  <2> QED
    BY <1>3, <1>4, <2>1, <2>2, <2>3
<1> QED
  BY <1>5, <1>6

LEMMA BusDropInvalidProtocol == TypeOK /\ BusProtocol /\ BusDropInvalid => BusProtocol'
<1> SUFFICES ASSUME TypeOK, BusProtocol, BusDropInvalid PROVE BusProtocol'
  OBVIOUS
<1>1. /\ ~ gIsBusTransactionActive /\ ~ gIsBusTransactionActive'
      /\ queue # << >> /\ queue' = Tail(queue)
      /\ Head(queue).origid = invalid_caller
      /\ gTransactionStatePerCore' = ReleasedStates
      /\ pending' = pending
  BY DEF BusDropInvalid, Dequeued, coreVars
<1>2. queue[1].origid \notin Cores
  BY <1>1, TailProtocol, CallersDiffer
<1>3. \A d \in Cores :
        /\ gTransactionStatePerCore[d] = "finally" => gTransactionStatePerCore'[d] = "idle"
        /\ gTransactionStatePerCore[d] # "finally" =>
               gTransactionStatePerCore'[d] = gTransactionStatePerCore[d]
        /\ gTransactionStatePerCore[d] # "operation"
  BY <1>1, ReleasedFacts DEF BusProtocol, OneGrant
<1>4. OneGrant'
  BY <1>1, <1>3 DEF OneGrant
<1>5. QueuedCoreIsBusy'
  <2> SUFFICES ASSUME NEW i \in Position', queue'[i].origid \in Cores
               PROVE  gTransactionStatePerCore'[queue'[i].origid] # "idle"
    BY DEF QueuedCoreIsBusy
  <2>1. i + 1 \in Position /\ queue'[i] = queue[i + 1] /\ i \in 1 .. Len(queue) - 1
    BY <1>1, TailProtocol
  <2>2. i + 1 # 1
    BY <2>1, QueueFacts
  <2> DEFINE d == queue[i + 1].origid
  <2>3. d \in Cores
    BY <2>1
  <2>4. gTransactionStatePerCore[d] # "idle"
    BY <2>1, <2>3 DEF BusProtocol, QueuedCoreIsBusy
  <2>5. gTransactionStatePerCore[d] # "finally"
    BY <2>1, <2>2, <2>3 DEF BusProtocol, GrantedCoreHasNoOther, Granted
  <2> HIDE DEF d
  <2>6. gTransactionStatePerCore'[d] # "idle"
    BY <1>3, <2>3, <2>4, <2>5
  <2> QED
    BY <2>1, <2>6 DEF d
<1>6. WaitingCoreIsQueued'
  <2> SUFFICES ASSUME NEW d \in Cores, gTransactionStatePerCore'[d] = "wait_cmd"
               PROVE  \E i \in Position' : queue'[i].origid = d
    BY DEF WaitingCoreIsQueued
  <2>1. gTransactionStatePerCore[d] = "wait_cmd"
    BY <1>3
  <2>2. PICK i \in Position : queue[i].origid = d
    BY <2>1 DEF BusProtocol, WaitingCoreIsQueued
  <2> QED
    BY <1>1, <1>2, <2>2, TailProtocol
<1>7. GrantedCoreHasNoOther'
  BY <1>3 DEF GrantedCoreHasNoOther, Granted
<1>8. BusyCoreStalls'
  BY <1>1, <1>3 DEF BusProtocol, BusyCoreStalls, is_cache_busy, IsBusInTransaction,
                    IsBusWaitForTransaction
<1>9. DelayFollowsRequest'
  BY <1>1, <1>2, TailDelays DEF DelayFollowsRequest
<1> QED
  BY <1>1, <1>4, <1>5, <1>6, <1>7, <1>8, <1>9, TailProtocol DEF BusProtocol

(* What serving a transaction does to the bookkeeping: the transaction in  *)
(* progress goes on or completes, or the next entry is granted and, if one *)
(* word is a whole block, completes at once.                               *)
ServesTransaction(complete) ==
    /\ Serving
    /\ Grant
    /\ gIsBusTransactionActive' = ~ complete
    /\ gTransactionStatePerCore' =
           IF complete THEN [GrantedStates EXCEPT ![Current.origid] = "finally"]
                       ELSE GrantedStates
    /\ pending' = pending

LEMMA ContinueProtocol ==
    ASSUME TypeOK, BusProtocol, NEW complete \in BOOLEAN,
           ServesTransaction(complete), gIsBusTransactionActive
    PROVE  BusProtocol'
<1> DEFINE k == gOngoingTransaction.origid
<1>1. /\ queue' = queue /\ gOngoingTransaction' = gOngoingTransaction
      /\ gIsBusTransactionActive' = ~ complete
      /\ pending' = pending
  BY DEF ServesTransaction, Grant, Current
<1>2. /\ k \in Cores
      /\ gOngoingTransaction.bus_cmd \in RequestCommands \union {"flush"}
      /\ gTransactionStatePerCore[k] = "operation"
      /\ \A d \in Cores : gTransactionStatePerCore[d] # "finally"
      /\ \A d \in Cores \ {k} : gTransactionStatePerCore[d] # "operation"
  BY DEF BusProtocol, OneGrant
<1>3. /\ \A d \in Cores \ {k} : gTransactionStatePerCore'[d] = gTransactionStatePerCore[d]
      /\ gTransactionStatePerCore'[k] = IF complete THEN "finally" ELSE "operation"
  <2>1. GrantedStates = ReleasedStates /\ Current = gOngoingTransaction
    BY DEF GrantedStates, Current
  <2>2. \A d \in Cores : ReleasedStates[d] = gTransactionStatePerCore[d]
    BY <1>2, ReleasedFacts
  <2>3. ReleasedStates \in [Cores -> TransactionStates]
    BY ReleasedTypes
  <2> QED
    BY <1>2, <2>1, <2>2, <2>3 DEF ServesTransaction
<1> HIDE DEF k
<1>4. Position' = Position
  BY <1>1 DEF Position
<1>5. \A d \in Cores :
        /\ Granted(d)' <=> Granted(d)
        /\ gTransactionStatePerCore'[d] = "idle" <=> gTransactionStatePerCore[d] = "idle"
        /\ gTransactionStatePerCore'[d] = "wait_cmd" <=> gTransactionStatePerCore[d] = "wait_cmd"
  BY <1>2, <1>3 DEF Granted
<1>6. EntriesWellFormed' /\ EvictionThenRequest' /\ OneRequestPerCore'
  BY <1>1, <1>4 DEF BusProtocol, EntriesWellFormed, WellFormed, EvictionThenRequest,
                    OneRequestPerCore
<1>7. OneGrant'
  <2>1. gOngoingTransaction'.origid = k /\ gOngoingTransaction'.bus_cmd # "no_cmd"
    BY <1>1, <1>2 DEF k, RequestCommands
  <2> QED
    BY <1>1, <1>2, <1>3, <2>1 DEF OneGrant
<1>8. QueuedCoreIsBusy' /\ WaitingCoreIsQueued'
  BY <1>1, <1>4, <1>5 DEF BusProtocol, QueuedCoreIsBusy, WaitingCoreIsQueued
<1>9. GrantedCoreHasNoOther'
  BY <1>1, <1>4, <1>5 DEF BusProtocol, GrantedCoreHasNoOther
<1>10. BusyCoreStalls'
  BY <1>1, <1>5 DEF BusProtocol, BusyCoreStalls, is_cache_busy, IsBusInTransaction,
                    IsBusWaitForTransaction
<1>11. DelayFollowsRequest'
  BY <1>1, <1>4, <1>5 DEF BusProtocol, DelayFollowsRequest
<1> QED
  BY <1>6, <1>7, <1>8, <1>9, <1>10, <1>11 DEF BusProtocol

LEMMA GrantProtocol ==
    ASSUME TypeOK, BusProtocol, NEW complete \in BOOLEAN,
           ServesTransaction(complete), ~ gIsBusTransactionActive
    PROVE  BusProtocol'
<1> DEFINE k == queue[1].origid
<1>1. /\ queue # << >> /\ queue' = Tail(queue)
      /\ gOngoingTransaction' = Head(queue)
      /\ Head(queue).origid # invalid_caller
      /\ gIsBusTransactionActive' = ~ complete
      /\ pending' = pending
  BY DEF ServesTransaction, Serving, Grant, Dequeued, Current
<1>2. /\ Head(queue) = queue[1] /\ 1 \in Position
      /\ Current = queue[1]
  BY <1>1, TailProtocol DEF Current
<1>3. k \in Cores /\ queue[1].bus_cmd \in RequestCommands \union {"flush"}
  BY <1>1, <1>2 DEF BusProtocol, EntriesWellFormed, WellFormed
<1>4. /\ \A d \in Cores \ {k} :
            /\ gTransactionStatePerCore[d] = "finally" => gTransactionStatePerCore'[d] = "idle"
            /\ gTransactionStatePerCore[d] # "finally" =>
                   gTransactionStatePerCore'[d] = gTransactionStatePerCore[d]
      /\ gTransactionStatePerCore'[k] = IF complete THEN "finally" ELSE "operation"
  <2>1. GrantedStates = [ReleasedStates EXCEPT ![k] = "operation"]
    BY <1>2 DEF GrantedStates
  <2>2. ReleasedStates \in [Cores -> TransactionStates]
    BY ReleasedTypes
  <2> QED
    BY <1>2, <1>3, <2>1, <2>2, ReleasedFacts DEF ServesTransaction
<1>5. \A d \in Cores : gTransactionStatePerCore[d] # "operation"
  BY DEF BusProtocol, OneGrant
<1> HIDE DEF k
<1>6. OneGrant'
  <2>1. gOngoingTransaction'.origid = k /\ gOngoingTransaction'.bus_cmd = queue[1].bus_cmd
    BY <1>1, <1>2 DEF k
  <2>2. queue[1].bus_cmd # "no_cmd"
    BY <1>3 DEF RequestCommands
  <2> QED
    BY <1>1, <1>3, <1>4, <1>5, <2>1, <2>2 DEF OneGrant
<1>7. QueuedCoreIsBusy'
  <2> SUFFICES ASSUME NEW i \in Position', queue'[i].origid \in Cores
               PROVE  gTransactionStatePerCore'[queue'[i].origid] # "idle"
    BY DEF QueuedCoreIsBusy
  <2>1. i + 1 \in Position /\ queue'[i] = queue[i + 1] /\ i \in 1 .. Len(queue) - 1
    BY <1>1, TailProtocol
  <2>2. i + 1 # 1
    BY <2>1, QueueFacts
  <2> DEFINE d == queue[i + 1].origid
  <2>3. d \in Cores
    BY <2>1
  <2>4. gTransactionStatePerCore[d] # "idle"
    BY <2>1, <2>3 DEF BusProtocol, QueuedCoreIsBusy
  <2>5. gTransactionStatePerCore[d] # "finally"
    BY <2>1, <2>2, <2>3 DEF BusProtocol, GrantedCoreHasNoOther, Granted
  <2> HIDE DEF d
  <2>6. gTransactionStatePerCore'[d] # "idle"
    BY <1>4, <2>3, <2>4, <2>5
  <2> QED
    BY <2>1, <2>6 DEF d
<1>8. WaitingCoreIsQueued'
  <2> SUFFICES ASSUME NEW d \in Cores, gTransactionStatePerCore'[d] = "wait_cmd"
               PROVE  \E i \in Position' : queue'[i].origid = d
    BY DEF WaitingCoreIsQueued
  <2>1. d # k /\ gTransactionStatePerCore[d] = "wait_cmd"
    BY <1>4
  <2>2. PICK i \in Position : queue[i].origid = d
    BY <2>1 DEF BusProtocol, WaitingCoreIsQueued
  <2>3. i # 1
    BY <2>1, <2>2 DEF k
  <2> QED
    BY <1>1, <2>2, <2>3, TailProtocol
<1>9. GrantedCoreHasNoOther'
  <2> SUFFICES ASSUME NEW d \in Cores, Granted(d)'
               PROVE  /\ queue[1].bus_cmd = "flush" =>
                            queue' # << >> /\ queue'[1].origid = d /\ queue'[1].bus_cmd # "flush"
                      /\ \A i \in Position' :
                            queue'[i].origid = d => i = 1 /\ queue[1].bus_cmd = "flush"
    BY <1>1, <1>2 DEF GrantedCoreHasNoOther
  <2>1. d = k
    BY <1>4, <1>5 DEF Granted
  <2>2. ASSUME queue[1].bus_cmd = "flush"
        PROVE  queue' # << >> /\ queue'[1].origid = d /\ queue'[1].bus_cmd # "flush"
    <3>1. /\ 2 \in Position
          /\ queue[2].origid = queue[1].origid
          /\ queue[2].bus_cmd \in RequestCommands
      BY <1>2, <2>2 DEF BusProtocol, EvictionThenRequest
    <3>2. 1 \in Position' /\ queue'[1] = queue[2]
      BY <1>1, <3>1, TailProtocol
    <3>3. queue' # << >>
      BY <3>2 DEF Position
    <3> QED
      BY <2>1, <3>1, <3>2, <3>3 DEF k, RequestCommands
  <2>3. ASSUME NEW i \in Position', queue'[i].origid = d
        PROVE  i = 1 /\ queue[1].bus_cmd = "flush"
    <3>1. i + 1 \in Position /\ queue'[i] = queue[i + 1] /\ i \in 1 .. Len(queue) - 1
      BY <1>1, TailProtocol
    <3>2. i \in Int /\ 1 < i + 1
      BY <3>1, QueueFacts
    <3>3. queue[1].origid \in Cores /\ queue[1].origid = queue[i + 1].origid
      BY <1>3, <2>1, <2>3, <3>1 DEF k
    <3>4. i + 1 = 1 + 1 /\ queue[1].bus_cmd = "flush"
      BY <1>2, <3>1, <3>2, <3>3 DEF BusProtocol, OneRequestPerCore
    <3> QED
      BY <3>2, <3>4
  <2> QED
    BY <2>2, <2>3
<1>10. BusyCoreStalls'
  <2> SUFFICES ASSUME NEW d \in Cores, is_cache_busy(d)' PROVE pending'[d] # NoRequest
    BY DEF BusyCoreStalls
  <2>1. gTransactionStatePerCore[d] # "idle"
    <3>1. CASE d = k
      BY <1>2, <1>3, <3>1 DEF BusProtocol, QueuedCoreIsBusy, k
    <3>2. CASE d # k
      BY <1>4, <3>2 DEF is_cache_busy, IsBusInTransaction, IsBusWaitForTransaction
    <3> QED
      BY <3>1, <3>2
  <2> QED
    BY <1>1, <2>1 DEF BusProtocol, BusyCoreStalls, is_cache_busy, IsBusInTransaction
<1>11. DelayFollowsRequest'
  <2>1. gOngoingTransaction' = queue[1] /\ gTransactionStatePerCore'[k] \in {"operation", "finally"}
    BY <1>1, <1>2, <1>4
  <2> QED
    BY <1>1, <2>1, TailDelays DEF DelayFollowsRequest, Granted, k
<1> QED
  BY <1>1, <1>6, <1>7, <1>8, <1>9, <1>10, <1>11, TailProtocol DEF BusProtocol

LEMMA BusProtocolStep ==
    ASSUME TypeOK, BusProtocol, Run_Bus_Iteration
    PROVE  BusProtocol'
<1>1. \A complete \in BOOLEAN : ServesTransaction(complete) => BusProtocol'
  BY ContinueProtocol, GrantProtocol
<1>2. CASE BusIdle
  BY <1>2, BusIdleProtocol
<1>3. CASE BusDropInvalid
  BY <1>3, BusDropInvalidProtocol
<1>4. CASE BusWaitForOwner
  <2>1. ServesTransaction(FALSE)
    BY <1>4 DEF BusWaitForOwner, ServesTransaction, coreVars
  <2> QED
    BY <1>1, <2>1
<1>5. CASE BusAwaitMemory
  <2>1. ServesTransaction(FALSE)
    BY <1>5 DEF BusAwaitMemory, ServesTransaction, coreVars
  <2> QED
    BY <1>1, <2>1
<1>6. CASE BusTransferWord
  <2> DEFINE complete == LastWordTaken(Current.origid, Reply(SnoopedPacket, ReleasedMemory))
  <2>1. complete \in BOOLEAN
    BY DEF LastWordTaken, Ignored
  <2>2. ServesTransaction(complete)
    BY <1>6 DEF BusTransferWord, ServesTransaction, coreVars
  <2> HIDE DEF complete
  <2> QED
    BY <1>1, <2>1, <2>2
<1> QED
  BY <1>2, <1>3, <1>4, <1>5, <1>6 DEF Run_Bus_Iteration

-----------------------------------------------------------------------------
(* The cores.                                                              *)

(* A core that stalls presents a load or a store, never nothing.           *)
LEMMA StalledRequest ==
    ASSUME TypeOK, NEW c \in Cores, NEW r \in Demand(c), r.op \in {"LW", "SW"}, Stalls(c, r)
    PROVE  /\ pending' \in [Cores -> Request \union {NoRequest}]
           /\ pending'[c] # NoRequest
           /\ \A d \in Cores \ {c} : pending'[d] = pending[d]
           /\ UNCHANGED busVars
<1>1. r # NoRequest
  BY DEF NoRequest
<1>2. pending' = [pending EXCEPT ![c] = r]
  BY DEF Stalls
<1> QED
  BY <1>1, <1>2, DemandType DEF Stalls, TypeOK

LEMMA MissProtocol ==
    ASSUME TypeOK, BusProtocol, NEW c \in Cores, NEW r \in Demand(c), r.op \in {"LW", "SW"},
           CacheAvailable(c), Stalls(c, r),
           \/ AddTransactions(MissTransactions(c, r.addr, "busRd"))
           \/ AddTransactions(MissTransactions(c, r.addr, "busRdX"))
           \/ AddTransactions(UpgradeTransactions(c, r.addr))
    PROVE  BusProtocol'
<1>1. PICK ts : Batch(c, ts) /\ AddTransactions(ts)
  <2>1. CacheTypeOK /\ r.addr \in Addr
    BY DemandType DEF TypeOK, Request
  <2> QED
    BY <2>1, Batches
<1> QED
  BY <1>1, StalledRequest, AskPreservesProtocol

(* A step that leaves the bus and the cores' states as they are, and       *)
(* changes no busy core's access.                                          *)
LEMMA QuietProtocol ==
    ASSUME TypeOK, BusProtocol, UNCHANGED <<queueVars, busVars>>,
           \A d \in Cores : is_cache_busy(d) => pending'[d] # NoRequest
    PROVE  BusProtocol'
<1>1. /\ queue' = queue
      /\ gTransactionStatePerCore' = gTransactionStatePerCore
      /\ gOngoingTransaction' = gOngoingTransaction
      /\ gIsBusTransactionActive' = gIsBusTransactionActive
      /\ Position' = Position
  BY DEF queueVars, busVars, Position
<1>2. EntriesWellFormed' /\ EvictionThenRequest' /\ OneRequestPerCore'
  BY <1>1 DEF BusProtocol, EntriesWellFormed, WellFormed, EvictionThenRequest,
              OneRequestPerCore
<1>3. OneGrant' /\ QueuedCoreIsBusy' /\ WaitingCoreIsQueued'
  BY <1>1 DEF BusProtocol, OneGrant, QueuedCoreIsBusy, WaitingCoreIsQueued
<1>4. GrantedCoreHasNoOther'
  BY <1>1 DEF BusProtocol, GrantedCoreHasNoOther, Granted
<1>5. BusyCoreStalls'
  BY <1>1 DEF BusyCoreStalls, is_cache_busy, IsBusInTransaction, IsBusWaitForTransaction
<1>6. DelayFollowsRequest'
  BY <1>1 DEF BusProtocol, DelayFollowsRequest, Granted
<1> QED
  BY <1>2, <1>3, <1>4, <1>5, <1>6 DEF BusProtocol

LEMMA HitProtocol ==
    ASSUME TypeOK, BusProtocol, NEW c \in Cores, CacheAvailable(c), Succeeds(c),
           UNCHANGED queueVars
    PROVE  BusProtocol'
<1>1. \A d \in Cores : is_cache_busy(d) => pending'[d] # NoRequest
  <2> SUFFICES ASSUME NEW d \in Cores, is_cache_busy(d) PROVE pending'[d] # NoRequest
    OBVIOUS
  <2>1. d # c
    BY DEF CacheAvailable
  <2> QED
    BY <2>1 DEF BusProtocol, BusyCoreStalls, Succeeds, TypeOK
<1> QED
  BY <1>1, QuietProtocol DEF Succeeds

LEMMA CoreProtocolStep ==
    ASSUME TypeOK, BusProtocol, NEW c \in Cores, CoreCycle(c)
    PROVE  BusProtocol'
<1>1. CASE CacheBusy(c)
  <2>1. PICK r \in Demand(c) : is_cache_busy(c) /\ Stalls(c, r) /\ UNCHANGED queueVars
    BY <1>1 DEF CacheBusy
  <2>2. pending[c] # NoRequest
    BY <2>1 DEF BusProtocol, BusyCoreStalls
  <2>3. pending' = pending /\ UNCHANGED busVars
    BY <2>1, <2>2 DEF Demand, Stalls, TypeOK
  <2> QED
    BY <2>1, <2>3, QuietProtocol DEF BusProtocol, BusyCoreStalls
<1>2. CASE LoadHit(c)
  BY <1>2, HitProtocol DEF LoadHit, ReadHit
<1>3. CASE StoreHit(c)
  BY <1>3, HitProtocol DEF StoreHit, WriteHit
<1>4. CASE LoadMiss(c)
  BY <1>4, MissProtocol DEF LoadMiss, ReadMiss, Presents
<1>5. CASE StoreUpgrade(c)
  BY <1>5, MissProtocol DEF StoreUpgrade, WriteUpgrade, Presents
<1>6. CASE StoreMiss(c)
  BY <1>6, MissProtocol DEF StoreMiss, WriteMiss, Presents
<1>7. CASE Compute(c)
  BY <1>7, QuietProtocol DEF Compute, coreVars, BusProtocol, BusyCoreStalls
<1> QED
  BY <1>1, <1>2, <1>3, <1>4, <1>5, <1>6, <1>7 DEF CoreCycle

-----------------------------------------------------------------------------
(* The queue, the granted transaction and the cores' states always agree:  *)
(* a cache is closed from its miss until the last transaction of the miss  *)
(* is done, a core is never queued for a second access, and nothing is     *)
(* served between an eviction and the request it makes room for            *)
(* (AddTransaction_to_bus, Run_Bus_Iteration, handle_dirty_block).         *)
THEOREM BusProtocolInvariant == Spec => []BusProtocol
<1>1. Init => BusProtocol
  BY InitProtocol
<1>2. TypeOK /\ BusProtocol /\ [Next]_vars => BusProtocol'
  <2> SUFFICES ASSUME TypeOK, BusProtocol, [Next]_vars PROVE BusProtocol'
    OBVIOUS
  <2>1. CASE Run_Bus_Iteration
    BY <2>1, BusProtocolStep
  <2>2. CASE \E c \in Cores : CoreCycle(c)
    BY <2>2, CoreProtocolStep
  <2>3. CASE UNCHANGED vars
    BY <2>3, QuietProtocol DEF vars, coreVars, BusProtocol, BusyCoreStalls
  <2> QED
    BY <2>1, <2>2, <2>3 DEF Next
<1> QED
  BY <1>1, <1>2, TypeCorrect, PTL DEF Spec
=============================================================================
