----------------------------- MODULE Blockchain ------------------------------
(***************************************************************************)
(* chia/consensus/blockchain.py: how a full node adds blocks, chooses its  *)
(* peak and reorganises the coin store, with the database transaction, the *)
(* in-memory state that is updated after the commit, failures, crashes and *)
(* restarts.                                                               *)
(*                                                                         *)
(* Callers are the tasks that add blocks: a peer's new_peak handler running*)
(* short_sync_backtrack() or short_sync_batch(), the long sync, a block    *)
(* infused by a timelord.  A caller holds the priority mutex during one    *)
(* add_block() and owns a ForkInfo object that it passes to consecutive    *)
(* calls; between the calls the mutex is free and other callers may run.   *)
(*                                                                         *)
(* add_block() is split where another task or a crash can come between:    *)
(* validation (AddBlock), the database transaction (Commit, or             *)
(* TransactionFails), the update of the in-memory state (UpdateMemory).    *)
(***************************************************************************)
EXTENDS CoinStore, FiniteSets

CONSTANTS
    Callers,
    BLOCKS_CACHE_SIZE,
    CallersRecheckFork    \* TRUE: no caller passes a ForkInfo whose fork block
                          \* has left the main chain.  The code has no such
                          \* check: FALSE is the code as it is.

ASSUME CacheSizeAssumption == BLOCKS_CACHE_SIZE \in Nat \ {0}
ASSUME RecheckAssumption == CallersRecheckFork \in BOOLEAN

VARIABLES
    \* the database
    full_blocks,      \* rows of full_blocks
    in_main_chain,    \* rows with in_main_chain = 1
    current_peak,     \* the row of current_peak; GENESIS_CHALLENGE if none
    confirmed_index,  \* columns of coin_record
    spent_index,
    \* memory
    height_map,       \* the blocks of BlockHeightMap, each at its own height
    peak_height,      \* _peak_height, -1 for None
    block_records,    \* the cache __block_records
    \* the callers
    fork_info,
    \* the holder of the mutex
    pc,               \* "idle", "transaction", "update"; "down" after a crash
    adding            \* the add_block() call in progress

database == <<full_blocks, in_main_chain, current_peak, confirmed_index, spent_index>>
memory   == <<height_map, peak_height, block_records>>
vars     == <<database, memory, fork_info, pc, adding>>

-----------------------------------------------------------------------------
(***************************************************************************)
(* ForkInfo                                                                *)
(***************************************************************************)

\* ForkInfo(h, h, p), and what reset(h, p) leaves: an empty fork on top of p.
FreshForkInfo(p) ==
    [ fork_height  |-> height[p],
      peak_hash    |-> p,
      block_hashes |-> {},
      additions    |-> EmptyDict,
      removals     |-> EmptyDict ]

\* Mutant: the block is not appended to block_hashes.
IncludeSpendsOnly(fi, b) ==
    [ fi EXCEPT
        !.peak_hash = b,
        !.additions = [c \in Coins |-> IF c \in Additions(b) THEN height[b] ELSE @[c]],
        !.removals  = [c \in Coins |-> IF c \in removals[b] THEN height[b] ELSE @[c]] ]

\* Mutant: the previous peak of the fork is appended to block_hashes, in place
\* of the block.
IncludeSpendsOldPeak(fi, b) ==
    [ IncludeSpendsOnly(fi, b) EXCEPT !.block_hashes = @ \cup {fi.peak_hash} ]

\* include_spends() and include_block() record the same coins, the first from
\* the conditions of the block, the second by running its generator again.
IncludeSpends(fi, b) ==
    [ fork_height  |-> fi.fork_height,
      peak_hash    |-> b,
      block_hashes |-> fi.block_hashes \cup {b},
      additions    |-> [c \in Coins |-> IF c \in Additions(b) THEN height[b] ELSE fi.additions[c]],
      removals     |-> [c \in Coins |-> IF c \in removals[b] THEN height[b] ELSE fi.removals[c]] ]

-----------------------------------------------------------------------------
(***************************************************************************)
(* Reading the in-memory state                                             *)
(***************************************************************************)

\* height_to_hash() at a height the map contains
HashAt(h) == CHOOSE b \in height_map : height[b] = h

get_peak == IF peak_height = -1 THEN GENESIS_CHALLENGE ELSE HashAt(peak_height)

ContainsBlock(b) == b \in height_map

ExtendingMainChain(b) ==
    height[b] = 0 \/ get_peak = GENESIS_CHALLENGE \/ prev_hash[b] = get_peak

\* The block of a fork's chain at its fork_height is on the main chain.
ForkPointShared(fi) ==
    \A a \in Anc[fi.peak_hash] : height[a] = fi.fork_height => a \in height_map

\* Mutant: a tie in weight keeps the peak whatever the iterations.
HeavierThanPeak(b) ==
    \/ get_peak = GENESIS_CHALLENGE
    \/ height[b] # 0 /\ weight[b] > weight[get_peak]

\* _reconsider_peak(): heavier wins, then fewer iterations, then the older one
BetterThanPeak(b) ==
    \/ get_peak = GENESIS_CHALLENGE
    \/ /\ height[b] # 0
       /\ \/ weight[b] > weight[get_peak]
          \/ weight[b] = weight[get_peak] /\ total_iters[b] < total_iters[get_peak]

(***************************************************************************)
(* validate_block_body(), rule 15: every coin the block spends is created  *)
(* by the block itself, or it is in the coin store at or below the fork    *)
(* and not spent there, or the fork has created it; and the fork has not   *)
(* spent it.  The rules that need no coin record are in Malformed.         *)
(***************************************************************************)
\* Mutant: a row is believed even if the main chain created the coin after the fork.
InStoreAnywhere(fi, c) == confirmed_index[c] # NoRow

InStoreBelowFork(fi, c) ==
    confirmed_index[c] # NoRow /\ confirmed_index[c] <= fi.fork_height

\* Mutant: what the fork itself has spent is not looked up.
SpendAllowedTwice(fi, b, c) ==
    \/ c \in Additions(b)
    \/ IF InStoreBelowFork(fi, c)
       THEN ~ (spent_index[c] > 0 /\ spent_index[c] <= fi.fork_height)
       ELSE fi.additions[c] # NoRow

\* Mutant: a coin the fork has created is not found.
SpendAllowedByStore(fi, b, c) ==
    \/ c \in Additions(b)
    \/ /\ fi.removals[c] = NoRow
       /\ InStoreBelowFork(fi, c)
       /\ ~ (spent_index[c] > 0 /\ spent_index[c] <= fi.fork_height)

SpendAllowed(fi, b, c) ==
    \/ c \in Additions(b)
    \/ /\ fi.removals[c] = NoRow
       /\ IF InStoreBelowFork(fi, c)
          THEN ~ (spent_index[c] > 0 /\ spent_index[c] <= fi.fork_height)
          ELSE fi.additions[c] # NoRow

ValidateBlockBody(fi, b) == \A c \in removals[b] : SpendAllowed(fi, b, c)

-----------------------------------------------------------------------------
NoCall == [caller |-> "none", block |-> GENESIS_CHALLENGE, new_peak |-> FALSE]

Init ==
    /\ full_blocks = {}
    /\ in_main_chain = {}
    /\ current_peak = GENESIS_CHALLENGE
    /\ confirmed_index = EmptyDict
    /\ spent_index = [c \in Coins |-> 0]
    /\ height_map = {}
    /\ peak_height = -1
    /\ block_records = {}
    /\ fork_info = [s \in Callers |-> FreshForkInfo(GENESIS_CHALLENGE)]
    /\ pc = "idle"
    /\ adding = NoCall

\* The caller is not inside add_block().
Free(s) == pc = "idle" \/ (pc \in {"transaction", "update"} /\ adding.caller # s)

\* A caller starts a fork on top of a block it has found on the main chain.
NewForkInfo(s, p) ==
    /\ Free(s)
    /\ p \in height_map \cup {GENESIS_CHALLENGE}
    /\ fork_info' = [fork_info EXCEPT ![s] = FreshForkInfo(p)]
    /\ UNCHANGED <<database, memory, pc, adding>>

\* FullNode.add_block() of a block of the main chain only advances the fork;
\* the first of its two checks is made without the mutex.
RunContainedBlock(s, b) ==
    /\ Free(s)
    /\ ContainsBlock(b)
    /\ fork_info[s].peak_hash = prev_hash[b]
    /\ fork_info' = [fork_info EXCEPT ![s] = IncludeSpends(@, b)]
    /\ UNCHANGED <<database, memory, pc, adding>>

\* FullNode.skip_blocks(): a batch begins with blocks the node has stored.
\* One on the main chain moves the fork up to it, an orphan is run again.
SkipBlock(s, b) ==
    /\ pc = "idle"
    /\ b \in block_records \cup full_blocks
    /\ fork_info[s].peak_hash = prev_hash[b]
    /\ fork_info' = [fork_info EXCEPT ![s] =
                        IF ContainsBlock(b) THEN FreshForkInfo(b) ELSE IncludeSpends(@, b)]
    /\ block_records' = block_records \cup {b}
    /\ UNCHANGED <<database, height_map, peak_height, pc, adding>>

-----------------------------------------------------------------------------
(***************************************************************************)
(* Blockchain.add_block() up to its database transaction.  PassesChecks are*)
(* the early returns and the assertions on fork_info; a caller whose block *)
(* fails one of them, or is invalid, gives up its fork.                    *)
(***************************************************************************)
PassesChecks(s, b) ==
    LET fi == fork_info[s] IN
    /\ prev_hash[b] \in full_blocks \cup block_records \cup {GENESIS_CHALLENGE}
    /\ ExtendingMainChain(b) \/ prev_hash[b] \in block_records
    /\ b \notin Malformed
    /\ fi.peak_hash = prev_hash[b]
    /\ fi.fork_height = height[fi.peak_hash]
          => prev_hash[b] \in height_map \cup {GENESIS_CHALLENGE}

\* fork_info after the reset add_block() makes when it extends the main chain
ForkInfoFor(s, b) ==
    IF ExtendingMainChain(b) THEN FreshForkInfo(prev_hash[b]) ELSE fork_info[s]

Known(b) == b \in block_records \cup full_blocks

MayAdd(s, b) ==
    /\ pc = "idle"
    /\ ~ ContainsBlock(b)
    /\ CallersRecheckFork => ForkPointShared(fork_info[s])

RefuseBlock(s, b) ==
    /\ MayAdd(s, b)
    /\ ~ ( /\ PassesChecks(s, b)
           /\ Known(b) \/ ValidateBlockBody(ForkInfoFor(s, b), b) )
    /\ fork_info' = [fork_info EXCEPT ![s] = FreshForkInfo(GENESIS_CHALLENGE)]
    /\ UNCHANGED <<database, memory, pc, adding>>

AlreadyHaveBlock(s, b) ==
    /\ MayAdd(s, b)
    /\ PassesChecks(s, b)
    /\ Known(b)
    /\ fork_info' = [fork_info EXCEPT ![s] = IncludeSpends(ForkInfoFor(s, b), b)]
    /\ block_records' = block_records \cup {b}
    /\ UNCHANGED <<database, height_map, peak_height, pc, adding>>

AddBlock(s, b) ==
    /\ MayAdd(s, b)
    /\ PassesChecks(s, b)
    /\ ~ Known(b)
    /\ ValidateBlockBody(ForkInfoFor(s, b), b)
    /\ fork_info' = [fork_info EXCEPT ![s] = IncludeSpends(ForkInfoFor(s, b), b)]
    /\ pc' = "transaction"
    /\ adding' = [caller |-> s, block |-> b, new_peak |-> BetterThanPeak(b)]
    /\ UNCHANGED <<database, memory>>

-----------------------------------------------------------------------------
(***************************************************************************)
(* The database transaction: add_full_block() and _reconsider_peak().      *)
(***************************************************************************)
Fork == fork_info[adding.caller]

\* Mutant: a block higher than the peak is taken for an extension of it.
RollsBackIfLower ==
    /\ get_peak # GENESIS_CHALLENGE
    /\ prev_hash[adding.block] # get_peak
    /\ height[adding.block] <= height[get_peak]

\* "if block_record.prev_hash != peak.header_hash": a reorganisation
RollsBack == get_peak # GENESIS_CHALLENGE /\ prev_hash[adding.block] # get_peak

BaseConfirmed ==
    IF RollsBack THEN RolledBackConfirmed(confirmed_index, Fork.fork_height)
                 ELSE confirmed_index
BaseSpent ==
    IF RollsBack THEN RolledBackSpent(confirmed_index, spent_index, Fork.fork_height)
                 ELSE spent_index

RecordsToAdd == IF height[adding.block] = 0 THEN {adding.block} ELSE Fork.block_hashes

\* new_block() or set_in_chain() raises
ReconsiderPeakRaises ==
    \/ NewBlocksRaise(BaseConfirmed, BaseSpent, Fork.additions, Fork.removals)
    \/ ~ (RecordsToAdd \subseteq full_blocks \cup {adding.block})

\* Mutant: block_store.rollback() is forgotten, the old flags stay.
ReconsiderPeakKeepsFlags ==
    /\ confirmed_index' = AddedConfirmed(BaseConfirmed, Fork.additions)
    /\ spent_index' = AddedSpent(BaseSpent, Fork.additions, Fork.removals)
    /\ in_main_chain' = in_main_chain \cup RecordsToAdd
    /\ current_peak' = adding.block

ReconsiderPeak ==
    /\ confirmed_index' = AddedConfirmed(BaseConfirmed, Fork.additions)
    /\ spent_index' = AddedSpent(BaseSpent, Fork.additions, Fork.removals)
    /\ in_main_chain' = {a \in in_main_chain : height[a] <= Fork.fork_height} \cup RecordsToAdd
    /\ current_peak' = adding.block

\* What the transaction leaves in the database
CommitDatabase ==
    /\ full_blocks' = full_blocks \cup {adding.block}
    /\ IF adding.new_peak
       THEN ~ ReconsiderPeakRaises /\ ReconsiderPeak
       ELSE UNCHANGED <<confirmed_index, spent_index, in_main_chain, current_peak>>

Commit ==
    /\ pc = "transaction"
    /\ CommitDatabase
    /\ block_records' = block_records \cup {adding.block}
    /\ pc' = "update"
    /\ UNCHANGED <<height_map, peak_height, fork_info, adding>>

\* "except BaseException": memory is put back and the caller's sync ends.
RestoreMemory ==
    /\ block_records' = block_records \ {adding.block}
    /\ fork_info' = [fork_info EXCEPT ![adding.caller] = FreshForkInfo(GENESIS_CHALLENGE)]
    /\ pc' = "idle"
    /\ adding' = NoCall
    /\ UNCHANGED <<height_map, peak_height>>

\* Mutant: add_full_block() is outside the transaction that is rolled back.
TransactionFailsPartly ==
    /\ pc = "transaction"
    /\ RestoreMemory
    /\ full_blocks' = full_blocks \cup {adding.block}
    /\ UNCHANGED <<in_main_chain, current_peak, confirmed_index, spent_index>>

\* A statement fails, or the task is cancelled before the RELEASE: the
\* savepoint is rolled back.
TransactionFails ==
    /\ pc = "transaction"
    /\ RestoreMemory
    /\ UNCHANGED database

\* The task is cancelled while it waits for the RELEASE: sqlite's thread
\* commits, the task sees CancelledError.
CancelledInRelease ==
    /\ pc = "transaction"
    /\ CommitDatabase
    /\ RestoreMemory

-----------------------------------------------------------------------------
(***************************************************************************)
(* After the commit: the height map, _peak_height and, as part of the      *)
(* peak post-processing, the trimming of the block record cache.           *)
(***************************************************************************)

\* clean_block_record(cutoff) removes cached heights from the cutoff down to
\* the first height with no cached block.
CleanBlockRecord(recs, cutoff) ==
    {r \in recs : \/ height[r] > cutoff
                  \/ \E h \in height[r]..cutoff : \A r2 \in recs : height[r2] # h}

\* Mutant: the cutoff is the peak itself.
CleanAllBlockRecords(recs, peak) ==
    IF Cardinality(recs) < BLOCKS_CACHE_SIZE \/ peak < BLOCKS_CACHE_SIZE
    THEN recs
    ELSE CleanBlockRecord(recs, peak)

CleanBlockRecords(recs, peak) ==
    IF Cardinality(recs) < BLOCKS_CACHE_SIZE \/ peak < BLOCKS_CACHE_SIZE
    THEN recs
    ELSE CleanBlockRecord(recs, peak - BLOCKS_CACHE_SIZE)

MaxOf(x, y) == IF x >= y THEN x ELSE y

\* Mutant: no rollback, so that a lower peak leaves heights above it.
UpdatedWithoutRollback ==
    {a \in height_map : \A r \in RecordsToAdd : height[r] # height[a]} \cup RecordsToAdd

\* height_map.rollback(max(fork_height, 0)), then update_height() per record
UpdatedHeightMap ==
    {a \in height_map : /\ height[a] <= MaxOf(Fork.fork_height, 0)
                        /\ \A r \in RecordsToAdd : height[r] # height[a]} \cup RecordsToAdd

\* A block on its own, or the last block of a batch, is followed by the peak
\* post-processing; a batch also resets its fork at every new peak.
UpdateMemory ==
    /\ pc = "update"
    /\ IF adding.new_peak
       THEN /\ height_map' = UpdatedHeightMap
            /\ peak_height' = height[adding.block]
            /\ \E in_batch, post_process \in BOOLEAN :
                 /\ in_batch \/ post_process
                 /\ fork_info' = IF in_batch
                                 THEN [fork_info EXCEPT ![adding.caller] = FreshForkInfo(adding.block)]
                                 ELSE fork_info
                 /\ block_records' = IF post_process
                                     THEN CleanBlockRecords(block_records, height[adding.block])
                                     ELSE block_records
       ELSE UNCHANGED <<memory, fork_info>>
    /\ pc' = "idle"
    /\ adding' = NoCall
    /\ UNCHANGED database

-----------------------------------------------------------------------------
\* The process dies: the open transaction is lost, and memory with it.
Crash ==
    /\ pc # "down"
    /\ pc' = "down"
    /\ height_map' = {}
    /\ peak_height' = -1
    /\ block_records' = {}
    /\ fork_info' = [s \in Callers |-> FreshForkInfo(GENESIS_CHALLENGE)]
    /\ adding' = NoCall
    /\ UNCHANGED database

\* _load_chain_from_store() with the height map BlockHeightMap.create() builds
\* (module HeightMap).
LoadChainFromStore ==
    /\ pc = "down"
    /\ pc' = "idle"
    /\ height_map' = Anc[current_peak]
    /\ peak_height' = height[current_peak]
    /\ block_records' = {r \in in_main_chain : height[r] >= height[current_peak] - BLOCKS_CACHE_SIZE}
    /\ UNCHANGED <<database, fork_info, adding>>

Next ==
    \/ \E s \in Callers : \E p \in Tips : NewForkInfo(s, p)
    \/ \E s \in Callers : \E b \in Blocks :
          \/ RunContainedBlock(s, b)
          \/ SkipBlock(s, b)
          \/ RefuseBlock(s, b)
          \/ AlreadyHaveBlock(s, b)
          \/ AddBlock(s, b)
    \/ Commit
    \/ TransactionFails
    \/ UpdateMemory
    \/ Crash
    \/ LoadChainFromStore

Spec == Init /\ [][Next]_vars

\* Spec has no task that is cancelled while its RELEASE runs, the case the
\* writer's guards do not cover.  A timelord connection that closes during
\* new_infusion_point_vdf can cause it.
SpecWithCancel == Init /\ [][Next \/ CancelledInRelease]_vars

-----------------------------------------------------------------------------
ForkInfos ==
    [ fork_height  : Int,
      peak_hash    : Tips,
      block_hashes : SUBSET Blocks,
      additions    : [Coins -> Int],
      removals     : [Coins -> Int] ]

\* Every variable has its type.
TypeOK ==
    /\ full_blocks \subseteq Blocks
    /\ in_main_chain \subseteq Blocks
    /\ current_peak \in Tips
    /\ confirmed_index \in [Coins -> Int]
    /\ spent_index \in [Coins -> Int]
    /\ height_map \subseteq Blocks
    /\ peak_height \in Int
    /\ block_records \subseteq Blocks
    /\ fork_info \in [Callers -> ForkInfos]
    /\ pc \in {"idle", "transaction", "update", "down"}
    /\ adding \in [caller : Callers \cup {"none"}, block : Tips, new_peak : BOOLEAN]

\* The coin_record table is, in every state another task or a restart can see,
\* exactly what applying the blocks of the peak's chain gives: which coins
\* exist, when they were confirmed and spent, and which carry the fast-forward
\* marker, however many reorganisations have undone and redone blocks.
CoinStoreMatchesPeak == CoinStoreOf(confirmed_index, spent_index, current_peak)

\* The in_main_chain flags select the ancestry of the stored peak.
MainChainMatchesPeak == in_main_chain = Anc[current_peak]

\* Whenever no add_block() is in progress, _peak_height and the height map are
\* those of the stored peak, also after failures, crashes and restarts.
MemoryMatchesStore ==
    pc = "idle" => /\ height_map = Anc[current_peak]
                   /\ peak_height = height[current_peak]

\* A block other tasks find through _peak_height or the height map is already
\* in the database, and the record of the peak is in the cache.
PeakIsAvailable ==
    pc # "down" => /\ height_map \subseteq full_blocks
                   /\ get_peak \in block_records \cup {GENESIS_CHALLENGE}

\* Every stored block is valid on its own chain, and its whole chain is stored:
\* validation against the coin store of another chain lets nothing through.
StoredBlocksValid ==
    \A b \in full_blocks : ValidBlock(b) /\ Anc[b] \subseteq full_blocks

\* The stored peak is the best stored block: no block is heavier, and among the
\* blocks as heavy none has fewer iterations.
PeakIsBest ==
    \A b \in full_blocks :
        height[b] # 0 =>
            /\ current_peak # GENESIS_CHALLENGE
            /\ \/ weight[b] < weight[current_peak]
               \/ /\ weight[b] = weight[current_peak]
                  /\ total_iters[b] >= total_iters[current_peak]

\* Validating a block of a fork against the coin store of the main chain and
\* the fork's additions and removals gives the verdict that the block's own
\* chain gives: no valid block is refused and no invalid one accepted.
BodyValidationExact ==
    \A s \in Callers, b \in Blocks :
        (MayAdd(s, b) /\ PassesChecks(s, b) /\ ~ Known(b))
            => (ValidateBlockBody(ForkInfoFor(s, b), b) <=> SpendsValid(b))

\* Applying a validated fork never trips over the coin store: no inserted coin
\* has a row, every removed coin is there and unspent.
ReorgNeverRaises == (pc = "transaction" /\ adding.new_peak) => ~ ReconsiderPeakRaises

\* Every ForkInfo holds exactly the blocks above its fork height on the chain
\* it stands on, with the heights at which they create and spend coins.
ForkInfoExact ==
    \A s \in Callers :
        LET fi == fork_info[s] IN
        /\ fi.block_hashes = {a \in Anc[fi.peak_hash] : height[a] > fi.fork_height}
        /\ ForkDictsExact(fi.block_hashes, fi.additions, fi.removals)

-----------------------------------------------------------------------------
\* The coins a reader of the coin store finds unspent
Unspent == {c \in Coins : confirmed_index[c] # NoRow /\ spent_index[c] <= 0}

(***************************************************************************)
(* The node implements module ChainState: seen through its database, it    *)
(* only ever adds one valid block to a stored chain and moves, in the same *)
(* step, the peak to it exactly when it is the better one and the unspent  *)
(* coins to those of the new peak.  Failures, crashes, restarts, refused   *)
(* blocks and the bookkeeping of forks do not show.                        *)
(***************************************************************************)
Abstract == INSTANCE ChainState WITH
    stored <- full_blocks, peak <- current_peak, unspent <- Unspent

ImplementsChainState == Abstract!Spec
==============================================================================
