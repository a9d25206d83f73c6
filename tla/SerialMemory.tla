---------------------------- MODULE SerialMemory ----------------------------
(***************************************************************************)
(* What the caches, the bus and the main memory promise together: one      *)
(* memory shared by all cores, in which each load and each store takes     *)
(* effect in one step between the cycle the core first presents it and the *)
(* cycle it succeeds, and a load returns the word stored last              *)
(* (CacheController.c, header: "interacts with the Bus and Main Memory to  *)
(* ensure data consistency").                                              *)
(***************************************************************************)
EXTENDS SimTypes

CONSTANTS InitialMemory, Requests

VARIABLES
    store,    \* store[word]
    pending,  \* pending[core]: the access the core is waiting for
    rd        \* rd[core]: the word its last load returned

serialVars == <<store, pending, rd>>

Init ==
    /\ store \in InitialMemory
    /\ pending = [c \in Cores |-> NoRequest]
    /\ rd = [c \in Cores |-> 0]

Demand(c) == IF pending[c] = NoRequest THEN Requests[c] ELSE {pending[c]}

Wait(c) ==
    \E r \in Demand(c) :
        /\ pending' = [pending EXCEPT ![c] = r]
        /\ UNCHANGED <<store, rd>>

Load(c) ==
    \E r \in Demand(c) :
        /\ r.op = "LW"
        /\ rd' = [rd EXCEPT ![c] = store[r.addr]]
        /\ pending' = [pending EXCEPT ![c] = NoRequest]
        /\ UNCHANGED store

Store(c) ==
    \E r \in Demand(c) :
        /\ r.op = "SW"
        /\ store' = [store EXCEPT ![r.addr] = r.data]
        /\ pending' = [pending EXCEPT ![c] = NoRequest]
        /\ UNCHANGED rd

Next == \E c \in Cores : Wait(c) \/ Load(c) \/ Store(c)

Spec == Init /\ [][Next]_serialVars
=============================================================================
