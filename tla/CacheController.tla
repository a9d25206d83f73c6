--------------------------- MODULE CacheController ---------------------------
(***************************************************************************)
(* CacheController.c: a direct-mapped, write-back, write-allocate cache    *)
(* per core, kept coherent by MESI.                                        *)
(*                                                                         *)
(* The core's side (Read_Data_from_Cache, Write_Data_to_Cache) is a set of *)
(* actions, one per way the call can go.  The bus's side is three          *)
(* callbacks that Run_Bus_Iteration calls for every cache in turn; their   *)
(* effect is given by operators that module MemorySystem composes into the *)
(* bus's actions.  The hit and miss counters are left out: nothing here    *)
(* reads them.                                                             *)
(***************************************************************************)
EXTENDS BusQueue, FiniteSetsExt

VARIABLES
    tsram,  \* tsram[core][index]: the tag and the MESI state of a line
    dram    \* dram[core][index][offset]: the words of a line

cacheVars == <<tsram, dram>>

TSRAMLine == [tag : Tags, mesi : MesiStates]

CacheTypeOK ==
    /\ tsram \in [Cores -> [Indices -> TSRAMLine]]
    /\ dram \in [Cores -> [Indices -> [Offsets -> Value]]]

(* CacheController_Init clears the whole cache: tag 0, INVALID, zero data. *)
CacheInit ==
    /\ tsram = [c \in Cores |->
                  [i \in Indices |-> [tag |-> 0, mesi |-> "INVALID"]]]
    /\ dram = [c \in Cores |-> [i \in Indices |-> [o \in Offsets |-> 0]]]

Line(c, a) == tsram[c][a.index]
Word(c, a) == dram[c][a.index][a.offset]

(* is_block_valid_and_matching.                                            *)
Holds(c, a) == Line(c, a).tag = a.tag /\ Line(c, a).mesi # "INVALID"
Owns(c, a)  == Line(c, a).tag = a.tag /\ Line(c, a).mesi = "MODIFIED"

-----------------------------------------------------------------------------
(* The transactions a cache adds to the bus.                               *)

(* handle_dirty_block: one word is captured for the whole block, and it is *)
(* the word at the offset of the new address, not of the evicted one.      *)
EvictionOf(c, a) ==
    IF Line(c, a).mesi = "MODIFIED"
    THEN <<NewTransaction(c, "flush", WordAt(Line(c, a).tag, a.index, 0), Word(c, a))>>
    ELSE << >>

(* A slip, which no specification here uses: the request goes first.       *)
MissTransactionsSwapped(c, a, cmd) ==
    <<NewTransaction(c, cmd, a, 0)>> \o EvictionOf(c, a)

(* A miss: the eviction, if the line is dirty, and then the request.       *)
MissTransactions(c, a, cmd) ==
    Append(EvictionOf(c, a), NewTransaction(c, cmd, a, 0))

(* handle_share_state: a request and an entry of no caller, "for delay".   *)
UpgradeTransactions(c, a) ==
    <<NewTransaction(c, "busRdX", a, 0), InvalidTransaction>>

-----------------------------------------------------------------------------
(* The core's side.                                                        *)

(* A slip, which no specification here uses: waiting is not being busy.    *)
is_cache_busyInOperation(c) == gTransactionStatePerCore[c] \in {"operation", "finally"}

(* is_cache_busy.                                                          *)
is_cache_busy(c) == IsBusInTransaction(c) \/ IsBusWaitForTransaction(c)

CacheAvailable(c) == ~ is_cache_busy(c)

(* Read_Data_from_Cache on a hit; the word read is Word(c, a).             *)
ReadHit(c, a) ==
    /\ CacheAvailable(c)
    /\ Holds(c, a)
    /\ UNCHANGED <<cacheVars, queueVars>>

ReadMiss(c, a) ==
    /\ CacheAvailable(c)
    /\ ~ Holds(c, a)
    /\ AddTransactions(MissTransactions(c, a, "busRd"))
    /\ UNCHANGED cacheVars

(* A slip, which no specification here uses: a SHARED line is written.     *)
WriteHitShared(c, a, data) ==
    /\ CacheAvailable(c)
    /\ Holds(c, a)
    /\ dram' = [dram EXCEPT ![c][a.index][a.offset] = data]
    /\ tsram' = [tsram EXCEPT ![c][a.index].mesi = "MODIFIED"]
    /\ UNCHANGED queueVars

(* update_cache_write.                                                     *)
WriteHit(c, a, data) ==
    /\ CacheAvailable(c)
    /\ Holds(c, a)
    /\ Line(c, a).mesi # "SHARED"
    /\ dram' = [dram EXCEPT ![c][a.index][a.offset] = data]
    /\ tsram' = [tsram EXCEPT ![c][a.index].mesi = "MODIFIED"]
    /\ UNCHANGED queueVars

WriteUpgrade(c, a) ==
    /\ CacheAvailable(c)
    /\ Holds(c, a)
    /\ Line(c, a).mesi = "SHARED"
    /\ AddTransactions(UpgradeTransactions(c, a))
    /\ UNCHANGED cacheVars

WriteMiss(c, a) ==
    /\ CacheAvailable(c)
    /\ ~ Holds(c, a)
    /\ AddTransactions(MissTransactions(c, a, "busRdX"))
    /\ UNCHANGED cacheVars

-----------------------------------------------------------------------------
(* shared_or_modified_handler, asked of every cache but the one named by   *)
(* the transaction's origid.  The modified answer looks at the line of the *)
(* address's index whatever its tag.                                       *)
IsShared(t)   == \E c \in Cores \ {t.origid} : Holds(c, t.bus_addr)
IsModified(t) == \E c \in Cores \ {t.origid} : Line(c, t.bus_addr).mesi = "MODIFIED"

-----------------------------------------------------------------------------
(* snooping_handler, called for core 0, 1, ... with one packet that the    *)
(* calls may change.  A cache that owns the block replaces the packet's    *)
(* data by its own word, its command by flush and its origid by itself, so *)
(* a later cache sees a flush.  caller is the packet's original_caller.    *)

(* Slips, which no specification here uses: an EXCLUSIVE line stays        *)
(* EXCLUSIVE when another core reads it; every line is given up to a read. *)
StateHandlerKeepsExclusive(mesi, cmd) ==
    CASE cmd = "busRdX" -> "INVALID"
      [] cmd = "busRd" /\ mesi = "MODIFIED" -> "SHARED"
      [] OTHER -> mesi

StateHandlerInvalidates(mesi, cmd) ==
    IF cmd \in {"busRd", "busRdX"} THEN "INVALID" ELSE mesi

(* MSEI_invalid, MSEI_shared, MSEI_exclusive and MSEI_modified: the state  *)
(* a line in state mesi moves to when it sees cmd.                         *)
StateHandler(mesi, cmd) ==
    CASE cmd = "busRdX" -> "INVALID"
      [] cmd = "busRd" /\ mesi \in {"EXCLUSIVE", "MODIFIED"} -> "SHARED"
      [] OTHER -> mesi

(* The command core c sees: a flush once an earlier owner has answered.    *)
CmdSeenBy(c, caller, t) ==
    IF \E d \in 0 .. c - 1 : d # caller /\ Owns(d, t.bus_addr)
    THEN "flush" ELSE t.bus_cmd

(* A slip, which no specification here uses: nor at its own flush.         *)
SnoopsOthersOnly(c, caller, t) == Holds(c, t.bus_addr) /\ c # caller

(* Core c takes part: it holds the block, and it is not the caller looking *)
(* at its own request (a caller looks at its own flush).                   *)
Snoops(c, caller, t) ==
    /\ Holds(c, t.bus_addr)
    /\ c = caller => CmdSeenBy(c, caller, t) = "flush"

Flushers(caller, t) == {c \in Cores : Snoops(c, caller, t) /\ Owns(c, t.bus_addr)}

(* The packet after the last cache has seen it (flush_data by the owners). *)
Snooped(caller, t) ==
    IF Flushers(caller, t) = {} THEN t
    ELSE LET owner == Max(Flushers(caller, t))
         IN  NewTransaction(owner, "flush", t.bus_addr, Word(owner, t.bus_addr))

(* The tag and state lines afterwards: a MODIFIED line keeps its state     *)
(* until the last word of the block.                                       *)
SnoopedTsram(caller, t) ==
    [c \in Cores |->
        IF /\ Snoops(c, caller, t)
           /\ t.bus_addr.offset = LastOffset \/ Line(c, t.bus_addr).mesi # "MODIFIED"
        THEN [tsram[c] EXCEPT ![t.bus_addr.index].mesi =
                                  StateHandler(@, CmdSeenBy(c, caller, t))]
        ELSE tsram[c]]

-----------------------------------------------------------------------------
(* cache_response_handle, called for the cache of the transaction's caller *)
(* with the packet r that the owners and the memory left.  lines is tsram  *)
(* as the snoop left it.                                                   *)

(* The caller sees its own flush: the cache is left alone.                 *)
OwnFlush(caller, r) == r.origid = caller /\ r.bus_cmd = "flush"

(* A packet of the caller that is not a flush: no progress.                *)
Ignored(caller, r) == r.origid = caller /\ r.bus_cmd # "flush"

(* Any other packet fills a word of the caller's line.                     *)
Fills(caller, r) == r.origid # caller

(* A slip, which no specification here uses: the tag is not replaced.      *)
FilledTsramKeepsTag(caller, r, shared, lines) ==
    IF ~ Fills(caller, r) THEN lines
    ELSE [lines EXCEPT ![caller][r.bus_addr.index].mesi =
             IF r.bus_addr.offset # LastOffset THEN @
             ELSE IF shared THEN "SHARED" ELSE "EXCLUSIVE"]

FilledTsram(caller, r, shared, lines) ==
    IF ~ Fills(caller, r) THEN lines
    ELSE [lines EXCEPT ![caller][r.bus_addr.index] =
             [tag  |-> r.bus_addr.tag,
              mesi |-> IF r.bus_addr.offset # LastOffset THEN @.mesi
                       ELSE IF shared THEN "SHARED" ELSE "EXCLUSIVE"]]

FilledDram(caller, r) ==
    IF Fills(caller, r) /\ r.bus_cmd = "flush"
    THEN [dram EXCEPT ![caller][r.bus_addr.index][r.bus_addr.offset] = r.bus_data]
    ELSE dram

(* The answer true: the transaction is complete.                           *)
LastWordTaken(caller, r) ==
    ~ Ignored(caller, r) /\ r.bus_addr.offset = LastOffset
=============================================================================
