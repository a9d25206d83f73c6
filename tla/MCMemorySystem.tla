--------------------------- MODULE MCMemorySystem ---------------------------
(***************************************************************************)
(* Instances of the memory system for TLC: main memory starts at zero, and *)
(* each core's program is a small set of loads and stores (a workload).    *)
(***************************************************************************)
EXTENDS Coherence, BusProtocol

ZeroMemory == {[w \in Addr |-> 0]}

Load(tag, index, offset) ==
    [op |-> "LW", addr |-> WordAt(tag, index, offset), data |-> 0]
StoreOf(data, tag, index, offset) ==
    [op |-> "SW", addr |-> WordAt(tag, index, offset), data |-> data]

(* Each core has two blocks of its own in the same line, so that its dirty *)
(* blocks are evicted; no block is shared.                                 *)
PrivateBlocks ==
    [c \in Cores |->
        IF c = 0 THEN {StoreOf(1, 0, 0, 0), StoreOf(2, 0, 0, 1),
                       Load(0, 0, 1), Load(1, 0, 0)}
                 ELSE {StoreOf(1, 2 * c, 0, 1), Load(2 * c + 1, 0, 0)}]

(* Every core loads and stores the last word of a block, which line 0      *)
(* holds.  In line 1 core 0 has two blocks of its own, one of which it     *)
(* dirties.                                                                *)
MixedBlocks ==
    [c \in Cores |->
        {Load(0, 0, LastOffset), StoreOf(1, 0, 0, LastOffset)}
        \union IF c = 0 THEN {StoreOf(1, 0, 1, 0), Load(1, 1, 0)} ELSE {}]

(* Core 0 stores the last word of a block, and every core loads it.        *)
OneWriter ==
    [c \in Cores |->
        {Load(0, 0, LastOffset)}
        \union IF c = 0 THEN {StoreOf(1, 0, 0, LastOffset)} ELSE {}]

(* Every core loads and stores every word of the blocks of tag 0.          *)
AnyWordStored ==
    [c \in Cores |->
        [op : {"LW"}, addr : {a \in Addr : a.tag = 0}, data : {0}]
        \union [op : {"SW"}, addr : {a \in Addr : a.tag = 0}, data : {1}]]

(* Every core stores one word and does nothing else.                       *)
StoreOnly == [c \in Cores |-> {StoreOf(1, 0, 0, 0)}]

(* Two blocks that share a line: every core stores the first word of       *)
(* either, a different value in each.                                      *)
SharedConflicts == [c \in Cores |-> {StoreOf(1, 0, 0, 0), StoreOf(2, 1, 0, 0)}]

(* The same, and every core loads one of the blocks: evictions, upgrades   *)
(* and loads compete for the bus.                                          *)
MixedConflicts == [c \in Cores |-> SharedConflicts[c] \union {Load(0, 0, 0)}]

(* One word holds the value of the enumerator finally, and an idle bus may *)
(* take it for the state of a core.                                        *)
FinallyMemory == {[w \in Addr |-> IF w = ZeroAddr THEN 3 ELSE 0]}
ZeroWord      == {ZeroAddr}
=============================================================================
