----------------------------- MODULE BusProtocol -----------------------------
(***************************************************************************)
(* What the bus, its queue and the state it keeps for each core must agree *)
(* on, whatever the programs do.  A cache decides that it may be used from *)
(* gTransactionStatePerCore alone (is_cache_busy), and the bus overwrites  *)
(* that state from three places: when an entry is added, when it is        *)
(* granted, and when the previous transaction is released.                 *)
(***************************************************************************)
EXTENDS MemorySystem

RequestCommands == {"busRd", "busRdX"}

Position == DOMAIN queue

(* Core c's transaction is the one the bus was granted last.               *)
Granted(c) == gTransactionStatePerCore[c] \in {"operation", "finally"}

(* An entry is a core's request, a core's eviction, or the delay entry.    *)
WellFormed(t) ==
    \/ t.origid \in Cores /\ t.bus_cmd \in RequestCommands \union {"flush"}
    \/ t.origid = invalid_caller /\ t.bus_cmd = "no_cmd"

EntriesWellFormed == \A i \in Position : WellFormed(queue[i])

(* At most one core is in operation, the one whose transaction is in       *)
(* progress, and at most one is being released, the one served last.       *)
OneGrant ==
    /\ gIsBusTransactionActive =>
           /\ gOngoingTransaction.origid \in Cores
           /\ gOngoingTransaction.bus_cmd \in RequestCommands \union {"flush"}
           /\ gTransactionStatePerCore[gOngoingTransaction.origid] = "operation"
    /\ \A c \in Cores :
           /\ gTransactionStatePerCore[c] = "operation" =>
                  gIsBusTransactionActive /\ gOngoingTransaction.origid = c
           /\ gTransactionStatePerCore[c] = "finally" =>
                  /\ ~ gIsBusTransactionActive
                  /\ gOngoingTransaction.origid = c
                  /\ gOngoingTransaction.bus_cmd # "no_cmd"

(* A core whose entry is queued is never idle: its cache stays closed from *)
(* the miss until the last of its transactions is done, although the bus   *)
(* sets the core idle after each of them.                                  *)
QueuedCoreIsBusy ==
    \A i \in Position :
        queue[i].origid \in Cores => gTransactionStatePerCore[queue[i].origid] # "idle"

(* A core waiting for the bus has an entry in the queue, and a core the    *)
(* bus serves has none behind, unless it is being served its eviction.     *)
WaitingCoreIsQueued ==
    \A c \in Cores :
        gTransactionStatePerCore[c] = "wait_cmd" => \E i \in Position : queue[i].origid = c

GrantedCoreHasNoOther ==
    \A c \in Cores :
        Granted(c) =>
            /\ gOngoingTransaction.bus_cmd = "flush" =>
                   queue # << >> /\ queue[1].origid = c /\ queue[1].bus_cmd # "flush"
            /\ \A i \in Position :
                   queue[i].origid = c => i = 1 /\ gOngoingTransaction.bus_cmd = "flush"

(* An eviction is followed at once by the request it makes room for.       *)
EvictionThenRequest ==
    \A i \in Position :
        queue[i].bus_cmd = "flush" =>
            /\ i + 1 \in Position
            /\ queue[i + 1].origid = queue[i].origid
            /\ queue[i + 1].bus_cmd \in RequestCommands

(* A core has no other two entries.                                        *)
OneRequestPerCore ==
    \A i, j \in Position :
        /\ i < j
        /\ queue[i].origid \in Cores
        /\ queue[i].origid = queue[j].origid
        => j = i + 1 /\ queue[i].bus_cmd = "flush"

(* A delay entry is behind the request it was added with, which no         *)
(* eviction of its core precedes, or that request is being served.         *)
DelayFollowsRequest ==
    \A i \in Position :
        queue[i].origid = invalid_caller =>
            \/ /\ i - 1 \in Position
               /\ queue[i - 1].origid \in Cores
               /\ queue[i - 1].bus_cmd = "busRdX"
               /\ i - 2 \in Position => queue[i - 2].origid # queue[i - 1].origid
            \/ /\ i = 1
               /\ gOngoingTransaction.origid \in Cores
               /\ gOngoingTransaction.bus_cmd = "busRdX"
               /\ Granted(gOngoingTransaction.origid)

(* A busy cache is one whose MEM stage is stalled on it.                   *)
BusyCoreStalls == \A c \in Cores : is_cache_busy(c) => pending[c] # NoRequest

-----------------------------------------------------------------------------
(* Properties.                                                             *)

(* The queue, the granted transaction and the cores' states agree: no      *)
(* cache is opened while a transaction of its core is still to come, no    *)
(* core asks twice, and nothing comes between an eviction and its refill   *)
(* (AddTransaction_to_bus, Run_Bus_Iteration, handle_dirty_block).         *)
BusProtocol ==
    /\ EntriesWellFormed
    /\ OneGrant
    /\ QueuedCoreIsBusy
    /\ WaitingCoreIsQueued
    /\ GrantedCoreHasNoOther
    /\ EvictionThenRequest
    /\ OneRequestPerCore
    /\ DelayFollowsRequest
    /\ BusyCoreStalls

(* The list the queue allocates never grows past two entries per core: an  *)
(* eviction and a request, or a request and its delay entry.               *)
QueueBounded == Len(queue) <= 2 * NumCores

(* Every transaction is served: a cache that was closed by a miss is open  *)
(* again at some later time (the loop of main, Run_Bus_Iteration).         *)
TransactionsComplete ==
    \A c \in Cores : is_cache_busy(c) ~> CacheAvailable(c)
=============================================================================
