------------------------------ MODULE BusQueue ------------------------------
(***************************************************************************)
(* The waiting side of BusController.c: the FIFO of transactions and the   *)
(* state of each core's own transaction, which is what a cache looks at to *)
(* know whether it may be used (IsBusInTransaction).                       *)
(*                                                                         *)
(* The doubly linked list is a sequence: queue_enqueue appends at its end, *)
(* queue_dequeue takes its first element.  The allocation of an entry is   *)
(* assumed to succeed.                                                     *)
(***************************************************************************)
EXTENDS SimTypes

VARIABLES
    queue,                    \* head_of_queue .. tail_of_queue
    gTransactionStatePerCore  \* gTransactionStatePerCore[core]

queueVars == <<queue, gTransactionStatePerCore>>

QueueTypeOK ==
    /\ queue \in Seq(Transaction)
    /\ gTransactionStatePerCore \in [Cores -> TransactionStates]

QueueInit ==
    /\ queue = << >>
    /\ gTransactionStatePerCore = [c \in Cores |-> "idle"]

IsBusInTransaction(c)      == gTransactionStatePerCore[c] # "idle"
IsBusWaitForTransaction(c) == gTransactionStatePerCore[c] = "wait_cmd"

(* queue_enqueue, for each element of ts in turn, and queue_dequeue of     *)
(* Head(queue).                                                            *)
Enqueued(ts) == queue \o ts
Dequeued     == Tail(queue)

(* AddTransaction_to_bus, for each element of ts in turn.  An entry of     *)
(* invalid_caller changes no core's state.                                 *)
AddTransactions(ts) ==
    /\ queue' = Enqueued(ts)
    /\ gTransactionStatePerCore' =
           [c \in Cores |-> IF \E i \in DOMAIN ts : ts[i].origid = c
                            THEN "wait_cmd"
                            ELSE gTransactionStatePerCore[c]]
=============================================================================
