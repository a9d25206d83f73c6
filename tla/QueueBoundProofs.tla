-------------------------- MODULE QueueBoundProofs --------------------------
(***************************************************************************)
(* The queue never holds more than two entries per core, whatever the      *)
(* constants and the programs are.  Every entry has an owner, the core     *)
(* whose access it was added for, and an owner has two places for its      *)
(* entries: the eviction or the request alone takes the first, a request   *)
(* behind an eviction or a delay entry the second.  By BusProtocol no two  *)
(* entries have the same place.                                            *)
(***************************************************************************)
EXTENDS BusProtocolProofs, FiniteSetTheorems

(* The core the entry at position i was added for.                         *)
Owner(i) ==
    IF queue[i].origid \in Cores THEN queue[i].origid
    ELSE IF i = 1 THEN gOngoingTransaction.origid
    ELSE queue[i - 1].origid

Second(i) ==
    \/ queue[i].origid = invalid_caller
    \/ i > 1 /\ queue[i - 1].bus_cmd = "flush"

Place(i) == IF Second(i) THEN 2 * Owner(i) + 1 ELSE 2 * Owner(i)

Places == 0 .. 2 * NumCores - 1

LEMMA EntryOrigins ==
    ASSUME TypeOK, BusProtocol, NEW i \in Position
    PROVE  /\ queue[i].origid \in Cores \/ queue[i].origid = invalid_caller
           /\ i \in Nat \ {0}
           /\ \A j \in 1 .. i : j \in Position
BY QueueFacts DEF BusProtocol, EntriesWellFormed, WellFormed

(* What is said of a delay entry: its owner is the core before it, or the  *)
(* one being served, and in neither case has that core another entry but   *)
(* the request.                                                            *)
LEMMA DelayOwner ==
    ASSUME TypeOK, BusProtocol, NEW i \in Position, queue[i].origid = invalid_caller
    PROVE  /\ Owner(i) \in Cores
           /\ i = 1 => \A j \in Position : queue[j].origid # Owner(i)
           /\ i # 1 => /\ i - 1 \in Position /\ queue[i - 1].origid = Owner(i)
                       /\ i - 2 \in Position => queue[i - 2].origid # Owner(i)
<1>1. queue[i].origid \notin Cores
  BY CallersDiffer
<1>2. i \in Nat \ {0} /\ 1 - 1 \notin Position
  BY EntryOrigins, QueueFacts
<1>3. CASE i = 1
  <2> DEFINE k == gOngoingTransaction.origid
  <2>1. k \in Cores /\ gOngoingTransaction.bus_cmd = "busRdX" /\ Granted(k)
    BY <1>2, <1>3 DEF BusProtocol, DelayFollowsRequest
  <2>2. Owner(i) = k
    BY <1>1, <1>3 DEF Owner
  <2>3. \A j \in Position : queue[j].origid # k
    BY <2>1 DEF BusProtocol, GrantedCoreHasNoOther
  <2> QED
    BY <1>3, <2>1, <2>2, <2>3
<1>4. CASE i # 1
  BY <1>1, <1>4 DEF BusProtocol, DelayFollowsRequest, Owner
<1> QED
  BY <1>3, <1>4

LEMMA OwnerIsCore == ASSUME TypeOK, BusProtocol, NEW i \in Position PROVE Owner(i) \in Cores
<1>1. CASE queue[i].origid \in Cores
  BY <1>1 DEF Owner
<1>2. CASE queue[i].origid = invalid_caller
  BY <1>2, DelayOwner
<1> QED
  BY <1>1, <1>2, EntryOrigins

(* Two entries of one owner have different places.                         *)
LEMMA PlacesDiffer ==
    ASSUME TypeOK, BusProtocol, NEW i \in Position, NEW j \in Position, i < j,
           Owner(i) = Owner(j)
    PROVE  Second(i) <=> ~ Second(j)
<1> DEFINE c == Owner(j)
<1>1. c \in Cores /\ i \in Nat \ {0} /\ j \in Nat \ {0}
  BY OwnerIsCore, EntryOrigins
<1>2. CASE queue[i].origid \in Cores /\ queue[j].origid \in Cores
  <2>1. queue[i].origid = c /\ queue[j].origid = c
    BY <1>2 DEF Owner
  <2>2. j = i + 1 /\ queue[i].bus_cmd = "flush"
    BY <1>1, <2>1 DEF BusProtocol, OneRequestPerCore
  <2>3. Second(j)
    BY <1>1, <2>2 DEF Second
  <2>4. ~ Second(i)
    <3> SUFFICES ASSUME i > 1, queue[i - 1].bus_cmd = "flush" PROVE FALSE
      BY <1>2, CallersDiffer DEF Second
    <3>1. i - 1 \in Position /\ i - 1 + 1 = i
      BY <1>1, EntryOrigins
    <3>2. queue[i].bus_cmd \in RequestCommands
      BY <3>1 DEF BusProtocol, EvictionThenRequest
    <3> QED
      BY <2>2, <3>2 DEF RequestCommands
  <2> QED
    BY <2>3, <2>4
<1>3. CASE queue[i].origid \in Cores /\ queue[j].origid = invalid_caller
  <2>1. queue[i].origid = c /\ j # 1
    BY <1>1, <1>3 DEF Owner
  <2>2. /\ j - 1 \in Position /\ queue[j - 1].origid = c
        /\ j - 2 \in Position => queue[j - 2].origid # c
    BY <1>3, <2>1, DelayOwner
  <2>3. i = j - 1
    <3>1. SUFFICES ASSUME i # j - 1 PROVE FALSE
      OBVIOUS
    <3>2. i < j - 1
      BY <1>1, <3>1
    <3>3. j - 1 = i + 1
      BY <1>1, <2>1, <2>2, <3>2 DEF BusProtocol, OneRequestPerCore
    <3>4. i = j - 2
      BY <1>1, <3>3
    <3> QED
      BY <2>1, <2>2, <3>4
  <2>4. ~ Second(i)
    <3> SUFFICES ASSUME i > 1, queue[i - 1].bus_cmd = "flush" PROVE FALSE
      BY <1>3, CallersDiffer DEF Second
    <3>1. i - 1 \in Position /\ i - 1 + 1 = i /\ i - 1 = j - 2
      BY <1>1, <2>3, EntryOrigins
    <3>2. queue[i - 1].origid = queue[i].origid
      BY <3>1 DEF BusProtocol, EvictionThenRequest
    <3> QED
      BY <2>1, <2>2, <3>1, <3>2
  <2> QED
    BY <1>3, <2>4 DEF Second
<1>4. CASE queue[i].origid = invalid_caller /\ queue[j].origid \in Cores
  <2>1. queue[j].origid = c
    BY <1>4 DEF Owner
  <2>2. i # 1
    BY <1>4, <2>1, DelayOwner
  <2>3. i - 1 \in Position /\ queue[i - 1].origid = c
    BY <1>4, <2>2, DelayOwner
  <2>4. i - 1 < j
    BY <1>1
  <2>5. j = i - 1 + 1
    BY <1>1, <2>1, <2>3, <2>4 DEF BusProtocol, OneRequestPerCore
  <2> QED
    BY <1>1, <2>5
<1>5. CASE queue[i].origid = invalid_caller /\ queue[j].origid = invalid_caller
  <2>1. j - 1 \in Position /\ queue[j - 1].origid = c
    BY <1>1, <1>5, DelayOwner
  <2>2. i # 1
    BY <1>5, <2>1, DelayOwner
  <2>3. i - 1 \in Position /\ queue[i - 1].origid = c /\ i - 1 < j - 1
    BY <1>1, <1>5, <2>2, DelayOwner
  <2>4. j - 1 = i - 1 + 1
    BY <1>1, <2>1, <2>3 DEF BusProtocol, OneRequestPerCore
  <2>5. j - 1 = i
    BY <1>1, <2>4
  <2> QED
    BY <1>1, <1>5, <2>1, <2>5, CallersDiffer
<1> QED
  BY <1>2, <1>3, <1>4, <1>5, EntryOrigins

LEMMA BoundFollows == TypeOK /\ BusProtocol => QueueBounded
<1> SUFFICES ASSUME TypeOK, BusProtocol PROVE QueueBounded
  OBVIOUS
<1> DEFINE f == [i \in Position |-> Place(i)]
<1>1. NumCores \in Nat \ {0} /\ Cores = 0 .. NumCores - 1
  BY NumCoresAssumption DEF Cores
<1>2. \A i \in Position : Owner(i) \in 0 .. NumCores - 1 /\ Place(i) \in Places
  <2> TAKE i \in Position
  <2>1. Owner(i) \in 0 .. NumCores - 1
    BY <1>1, OwnerIsCore
  <2> QED
    BY <1>1, <2>1 DEF Place, Places
<1>3. ASSUME NEW i \in Position, NEW j \in Position, i < j PROVE Place(i) # Place(j)
  <2>1. Owner(i) \in 0 .. NumCores - 1 /\ Owner(j) \in 0 .. NumCores - 1
    BY <1>2
  <2>2. CASE Owner(i) = Owner(j)
    <3>1. Second(i) <=> ~ Second(j)
      BY <1>3, <2>2, PlacesDiffer
    <3> QED
      BY <1>1, <2>1, <2>2, <3>1 DEF Place
  <2>3. CASE Owner(i) # Owner(j)
    BY <1>1, <2>1, <2>3 DEF Place
  <2> QED
    BY <2>2, <2>3
<1>4. \A i, j \in Position : Place(i) = Place(j) => i = j
  <2> SUFFICES ASSUME NEW i \in Position, NEW j \in Position, i # j
               PROVE  Place(i) # Place(j)
    OBVIOUS
  <2>1. i < j \/ j < i
    BY EntryOrigins
  <2> QED
    BY <1>3, <2>1
<1>5. f \in Injection(Position, Places)
  BY <1>2, <1>4 DEF Injection, IsInjective
<1>6. IsFiniteSet(Places) /\ Cardinality(Places) = 2 * NumCores
  BY <1>1, FS_Interval DEF Places
<1>7. Cardinality(Position) <= 2 * NumCores
  BY <1>5, <1>6, FS_Injection
<1>8. Cardinality(Position) = Len(queue)
  BY QueueFacts, FS_Interval
<1> QED
  BY <1>7, <1>8 DEF QueueBounded

(* The list of transactions never grows past two entries per core, so the  *)
(* allocations of queue_enqueue are bounded however long the simulator     *)
(* runs (queue_enqueue, AddTransaction_to_bus).                            *)
THEOREM QueueBoundInvariant == Spec => []QueueBounded
BY TypeCorrect, BusProtocolInvariant, BoundFollows, PTL
=============================================================================
