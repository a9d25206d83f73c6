------------------------------ MODULE SimTypes ------------------------------
(***************************************************************************)
(* The vocabulary shared by the bus, the caches and the main memory of the *)
(* simulator (MultiCoreProject/headers/BusController.h, sim.h and          *)
(* CacheController.h): the bus callers, the bus commands, the MESI states, *)
(* the states of a core's bus transaction, addresses and transactions.     *)
(*                                                                         *)
(* The sizes are parameters: the code builds with 4 cores, blocks of 4     *)
(* words, a memory delay of 16 iterations, 64 lines, 4096 tags and 32-bit  *)
(* words.                                                                  *)
(***************************************************************************)
EXTENDS Integers, Sequences, FiniteSets

CONSTANTS
    NumCores,   \* NUM_OF_CORES
    BlockSize,  \* BLOCK_SIZE: the words of a cache block
    MemDelay,   \* bus iterations the memory lets pass before its first word
    Tags,       \* the values of an address's tag field
    Indices,    \* the lines of the direct-mapped cache
    Value       \* the 32-bit words

ASSUME NumCoresAssumption  == NumCores \in 1 .. 65534
ASSUME BlockSizeAssumption == BlockSize \in Nat \ {0}
ASSUME MemDelayAssumption  == MemDelay \in Nat \ {0}
ASSUME ZeroAssumption      == 0 \in Tags /\ 0 \in Indices /\ 0 \in Value

(* Bus_transaction_caller.                                                 *)
Cores          == 0 .. NumCores - 1
main_memory    == NumCores
invalid_caller == 65535

(* cmd_on_the_bus.  These, the MESI states and the transaction states are  *)
(* written as the strings of the enumerators' names.                       *)
Commands == {"no_cmd", "busRd", "busRdX", "flush"}

MesiStates == {"INVALID", "SHARED", "EXCLUSIVE", "MODIFIED"}

(* state_of_transaction.                                                   *)
TransactionStates == {"idle", "wait_cmd", "operation", "finally"}

(* An address split into the fields both address unions give it.  These    *)
(* are its low 20 bits: programs are taken to compute no larger one.  (The *)
(* code drops the higher bits of a tag, and not in bus_addr, with which it *)
(* indexes main memory.)                                                   *)
Offsets    == 0 .. BlockSize - 1
LastOffset == BlockSize - 1
Addr       == [tag : Tags, index : Indices, offset : Offsets]

WordAt(tag, index, offset) == [tag |-> tag, index |-> index, offset |-> offset]

(* bus_transaction.  The field original_caller is the origid the entry was *)
(* granted with, and bus_shared is 0 in every entry of the queue and       *)
(* recomputed in each iteration: neither is kept in the record.            *)
Transaction == [origid   : Cores \union {invalid_caller},
                bus_cmd  : Commands,
                bus_addr : Addr,
                bus_data : Value]

NewTransaction(caller, cmd, addr, data) ==
    [origid |-> caller, bus_cmd |-> cmd, bus_addr |-> addr, bus_data |-> data]

(* A transaction whose fields the initializer leaves at zero.              *)
ZeroAddr == WordAt(0, 0, 0)

InvalidTransaction == NewTransaction(invalid_caller, "no_cmd", ZeroAddr, 0)

(* What a core's MEM stage asks of its cache: a load, or a store of data.  *)
Request == [op : {"LW", "SW"}, addr : Addr, data : Value]

NoRequest == [op |-> "none", addr |-> ZeroAddr, data |-> 0]
=============================================================================
