# A verification project for the Chia full node

This directory holds TLA+ specifications of the parts of the Chia node that keep its
chain state: how blocks are added, how the node changes its peak and reorganises the
coin store, how the caches next to the database are kept and rebuilt, and the lock that
serialises all of it; of the transactions that wait for a block, from the queue in front
of the node to the mempool that follows the peak; and of plot sync, the protocol by
which a harvester tells its farmer what it has. TLC checks the specifications on small
instances, and TLAPS proves the safety properties for every value of the constants: every
block tree, set of coins, tasks, peers, transactions and plots.

`PROJECT.json` maps every definition to the lines it models, and lists the runs, the
mutants that each property detects, the findings, the hazards and the theorems.

## 1. The system and its parts

| part | state it keeps | operations | interacts with | what is hard | what makes it correct |
|---|---|---|---|---|---|
| `Blockchain` (consensus/blockchain.py) | `_peak_height`, block record cache, height map; through the stores: blocks, main-chain flags, peak | `add_block`, `_reconsider_peak`, `clean_block_records`, startup | called by the full node under the mutex; writes coin and block store in one transaction | reorganisations, failure between database and memory, crash, awaits at the commit | stores and memory describe the heaviest valid chain |
| body validation, `ForkInfo` (block_body_validation.py) | additions and removals of a fork, fork height | `validate_block_body`, `include_spends`, `reset` | reads the coin store of another chain | which rows of that store count | the verdict is that of the block's own chain |
| coin store (coin_store.py) | table `coin_record` | `new_block`, `rollback_to_block` | mempool, RPC and wallets read it | undoing spends, the fast-forward marker | the table of the peak's chain, exactly |
| block store (block_store.py) | blocks, `in_main_chain`, `current_peak` | `add_full_block`, `rollback`, `set_in_chain`, `set_peak` | startup | all in one transaction | the flags are the peak's ancestry |
| height map (block_height_map.py) | height to hash, sub-epoch summaries, two files | `update_height`, `rollback`, `maybe_flush`, `create` | every lookup by height | files of two chains, partial flush, crash | the map is the main chain of the database |
| priority mutex (priority_mutex.py) | deques of waiters, the owner | `acquire` and its `finally` | block and transaction tasks | cancellation in every await | exclusion, no lost wakeup, order |
| database wrapper (db_wrapper.py) | writer connection, savepoints, readers | `writer`, `reader` | every store | nesting, cancellation | a transaction is all or nothing |
| full node (full_node.py, full_node_api.py) | sync state, connections, caches | `new_peak`, short and long sync, `add_block`, `add_transaction` | all of the above | many tasks between awaits | one `ForkInfo` per fork, used while it is true |
| mempool (mempool.py, mempool_manager.py, pending_tx_cache.py) | items by coin, fee and cost, pending and conflict caches, seen and in-flight sets | `add_spend_bundle`, `new_peak` | coin store, peak | stale pre-validation, replacement, bounds | items valid at the peak, no two conflict, cost bound |
| transaction queue (tx_processing_queue.py) | queue and deficit per peer | `put`, `pop` | full node | renumbering of peers, fairness | nothing lost, every peer served |
| sync store, pipeline (sync_store.py, task_pipeline.py) | peaks of peers, target; queues between stages | `peer_has_block`, `peer_disconnected`, `run` | long sync | failure of one stage, bounded maps | the target is kept, no result lost |
| full node store (full_node_store.py) | unfinished blocks, signage points, sub-slots | `new_finished_sub_slot`, `new_peak` | timelords, farmers | bounded caches, order of arrival | the cached slots extend the peak |
| connections (server/) | pending requests, timed-out requests, rate windows | `call_api`, `close` | all services | late answers, cancellation | an answer reaches its own request |
| plot sync (plot_sync/) | sync and message ids, plots | sender and receiver | harvester and farmer | lost answers, retries, restarts | the farmer's plots are the harvester's |
| timelord, farmer, harvester | VDF processes, signage points, proofs | handlers | full node | results out of order | an infused block extends the peak |
| wallet, pools, data layer | coins, transactions, singleton and tree states | sync, RPC | full node | reorganisations, pending states | the wallet's view is that of a trusted peak |
| daemon, RPC, commands, seeder, introducer, simulator | processes, interfaces | | | | |

Every part is listed under `components` with what is and what is not modelled of it.

## 2. Plan

The order is by how much depends on a part. Stages 1 and 2 and the first part of stage 3
are done, the rest is open.

1. **Chain state** (done). `BlockTree`, `CoinStore`, `Blockchain`, `ChainState`
   (abstract), `HeightMap`, `PriorityMutex`, and the proofs about them.
2. **Transactions** (done). `Mempool`: admission, replacement, eviction, fast forward, the
   pending and the conflict cache, both paths of `new_peak()`, on top of the abstract
   chain `ChainState` that `Blockchain` implements. `TransactionQueue`: the deficit
   round robin in front of it.
3. **Messages.** `PlotSync` (done): refresh thread, sender and receiver over a connection
   that delays and closes. Open: `Connection` (requests, timeouts, late answers),
   `SyncStore` and `TaskPipeline` for the long sync, the full node store.
4. **Database wrapper.** Nested savepoints, readers and cancellation, with the
   transaction of `Blockchain` as its abstraction.
5. **Pure algorithms.** The MMR with rollback, difficulty adjustment, against reference
   definitions over bounded inputs.

Every invariant and action property of the passing runs is a theorem, some of them under
hypotheses that section 6 states and whose necessity a finding or a trace shows. What
remains to be proved are the theorems of the modules still to be written.

## 3. Modules

| module | models | notes |
|---|---|---|
| `BlockTree` | the data: blocks, weights, ancestry, coins | constants and assumptions only |
| `CoinStore` | coin_store.py | functions from table to table, and the reference `CoinStoreOf` |
| `Blockchain` | blockchain.py, ForkInfo and rule 15 of block_body_validation.py, the callers in full_node.py, the transaction of block_store.py | the state machine |
| `ChainState` | what the chain database promises | abstract; `Blockchain` implements it |
| `HeightMap` | block_height_map.py | has its own state machine, over the peak of the database |
| `PriorityMutex` | priority_mutex.py | with a history variable for the order of arrival |
| `TransactionQueue` | tx_processing_queue.py, and the task of full_node.py that takes from it | a cost is a small number, an entry a record |
| `Mempool` | mempool.py, mempool_manager.py, pending_tx_cache.py; `add_transaction()` and the reports of a new peak in full_node.py | over `ChainState` |
| `PlotSync` | plot_sync/, the refresh thread of plotting/manager.py, connect and disconnect of the harvester | |
| `MCBlockchain`, `MCHeightMap`, `MCPriorityMutex`, `MCTransactionQueue`, `MCMempool`, `MCPlotSync` | instances for TLC | |
| `Subsequences` | filtering a list and listing a set in order, as `Mempool` and `TransactionQueue` do | without recursion, so that it can be reasoned about |
| `DataLemmas` | facts about sequences, their filtering, least elements, cardinality | lemmas only |
| `CoinStoreProofs`, `BlockchainProofs`, `HeightMapProofs`, `PriorityMutexProofs`, `TransactionQueueProofs`, `MempoolProofs`, `PlotSyncProofs` | proofs | one per component |

### BlockTree

A header hash commits to a block's whole ancestry, so the tree of all blocks is a
constant; what changes is what the node knows of it. The assumptions are what header
validation and hashing guarantee: heights count from the genesis block, weight grows,
ancestries are chains, reward coins are not created by spends. `CoinIdsCommitToParents`
deserves a word. The code never checks that a block does not create a coin again that
exists already; it need not, because a coin's id is a hash over its parent's id, so to
create it again is to spend its parent again. The assumption says just that, and TLC
evaluates it on the instances.

### Blockchain

`add_block()` is cut where another task or a crash can come between:

| action | code |
|---|---|
| `NewForkInfo` | a caller makes `ForkInfo(h, h, hash)` for a block it has found on the main chain |
| `RunContainedBlock` | `FullNode.add_block()`: the block is on the main chain, run it into the fork and return |
| `SkipBlock` | `FullNode.skip_blocks()`: a batch begins with stored blocks |
| `RefuseBlock` | every early return and failed assertion; the caller ends its sync |
| `AlreadyHaveBlock` | the block is stored: only the fork is advanced |
| `AddBlock` | checks, reset of the fork, body validation, `include_spends()` |
| `Commit` | the transaction: `add_full_block()`, and `_reconsider_peak()` with rollback, `new_block()` per record, flags and peak |
| `TransactionFails` | an exception or a cancellation before the RELEASE: savepoint rolled back, memory restored |
| `CancelledInRelease` | a cancellation during the RELEASE (only in `SpecWithCancel`) |
| `UpdateMemory` | height map, `_peak_height`, reset of a batch's fork, trimming of the cache |
| `Crash`, `LoadChainFromStore` | the process dies; `_load_chain_from_store()` |

A caller that is refused resets its `ForkInfo`: in the code it ends, and the object with
it. A caller that goes on after a disconnected block is a stutter, since every later
block of it fails the assertion on `peak_height`.

`_reconsider_peak()` calls `new_block()` once per record; no other task sees the states
between the calls, and each coin is at one height of either dictionary, so the model
uses the closed form of the sequence, with the conditions under which some call raises
(`NewBlocksRaise`).

Data left out: amounts, puzzle hashes, timestamps, signatures, costs, and every rule
that does not read the coin store (rule 15, existence and earlier spends, is the one that
does). A block's additions and removals are sets, so duplicates within a block are among
what is left out. Whether a block breaks such a rule is the constant
`Malformed`. Also left out are sub-epochs and the MMR.

`LoadChainFromStore` takes the height map `BlockHeightMap.create()` should build. Module
`HeightMap` shows when it does.

### HeightMap

The buffer and the file are sequences of hashes (index height + 1), a summary is the
block that includes it. `maybe_flush()` is two steps, because a crash or a failure may
come between the two files. `NewPeak` stands for the commit of `Blockchain`, with its
fork choice (`Preferred`): more weight, or the same weight and fewer iterations. The first
block of a chain includes no summary: `can_finish_sub_and_full_epoch()` is not even asked
for it (block_header_validation.py). `SubEpochAssumption` says so.

### PriorityMutex

A task is `out`, `waiting` or `inside`. The event that wakes it is the set `ready`.
`CancelWait` may come before or after the lock has been handed to the task.

### TransactionQueue

`pop()` is cut at its one await, the semaphore: `BeginPop` takes a handler slot and then
a unit of the semaphore or waits for one, `ResumePop` is the waiter that was woken. What
follows runs without an await, so while `popper = "select"` no other action is possible;
still each round of the loop is a step, because the question is whether it ends
(`SelectionEnds`). A round ends in `TakeHigh`, in `TakePeer` (the first peer from the
cursor on that can afford its top transaction, with the cleanup after every
`cleanup_period` of them) or in `AddDeficits`, after which the next round begins.

An entry is a name with the fee and the cost the peer advertised. A cost of 0 stands for
no advertisement, and `max_tx_clvm_cost` counts instead; a peer that advertises the cost
0 is banned before (full_node_api.py, `new_transaction`). An advertised cost is not
bounded by `max_tx_clvm_cost`, so the bounds of `DeficitBounded` and `CostFairness` are in
terms of the largest cost there is, and a peer's share is one of advertised cost.
`lead` is a history variable for two peers: the difference in the cost served since both
have had a backlog.

### Mempool

| action | code |
|---|---|
| `SubmitPresent`, `Submit` | `add_transaction()` up to the pre-validation: already present, or marked as in flight |
| `PreValidated` | the pre-validation ends: it succeeded, timed out, or the bundle is invalid |
| `AddTransaction` | under the lock: checked again, then `add_spend_bundle()` |
| `AddBlock`, `EndBatch` | blocks of a batch; then `peak_post_processing()` reports the peak and the spent coins |
| `SyncBlock`, `EndSync`, `FinishSync` | a long sync adds blocks without telling the mempool, leaves the lock, and reports the peak later |
| `Readd`, `Drain`, `Retry` | the loops of `new_peak()`: items of the old pool on the slow path, then what the caches held |

`new_peak()` holds the lock throughout, but submissions go on: the pre-validation and the
bookkeeping of seen and in-flight bundles need no lock, so they interleave with its
loops. `AddSpendBundle` is `add_spend_bundle()` as a whole: `Verdict` is
`validate_spend_bundle()` in the order of its checks, then the conflicts leave, then
`add_to_pool()` evicts or refuses. `TooSlow` is the rejection of a spend that took long
to validate, which may happen to any bundle.

A transaction is a name with the coins it spends, its fee, cost and height locks. One of
its spends may be a singleton's, fast forwarded: then the item stands for the version
that is unspent now, the lineage. Priorities are compared as fractions by
cross-multiplication, as the code's float division does for small numbers. Left out:
ephemeral coins, identical-spend deduplication, locks in seconds and relative locks,
block creation, fee estimation.

A version of a singleton has an amount. `can_fast_forward_singleton()` lets a spend be fast
forwarded only if the unspent version has the amount of the coin it spends; otherwise the
spend is a regular one (`LineageOf`). `new_peak()` does not ask again: at a block that moves
the singleton to another amount it rebases the item onto a version that the spend does not
fit. The comment in `perform_the_fast_forward()` knows the case, and the item is rejected
when a block is built. So `ItemsFitPeak` says that such an item stands on the version that
is unspent, and not that a block can take it. In the run a2 is such a block.

`FeeTooHigh` is the bound on fees that keeps sqlite's sums exact. The check lets a fee of
exactly `MEMPOOL_ITEM_FEE_LIMIT` (2^50) pass, and `add_to_pool()` asserts that the fee is
less. `FeeAssumption` leaves out that one value.

`SingletonAssumption`: on a valid chain at most one version of a singleton that is fast
forwarded is unspent. It is what `supports_fast_forward()` of chia_rs is for, which lets
only spends of the singleton top layer pass: its puzzle hash commits to the launcher, and
a spend creates exactly one version.

`OneBlockSyncs` says whether a long sync may end one transaction block ahead of the
mempool. The code allows it; the fifth finding is what follows, and the run `mempool`
excludes it. There is a second way to the same effect, which the run has. Let a long sync
add two transaction blocks, a1 and a2, and leave the lock. Before it reports, n2 arrives on
top of a1, is preferred to a2 and is no transaction block. The chain now ends one
transaction block, a1, ahead of the mempool, and the batch of n2 has no removals:
`new_peak()` takes the fast path, and an item whose coin a1 spends stays. The history
variable `overtaken` is true from the moment a block is stored between the end of a sync and
its report, until `new_peak()` builds the pool anew. `ItemsFitPeak` says nothing of these
states; TLC reaches such an item there, and reaches the rebuild after it.

### PlotSync

Two threads of the harvester share the sender: the event loop, which sends and resets,
and the refresh thread, which finds files, loads them in batches and queues what it did.
An action is what one of them does between two points where the other can see it:
`BeginRefresh`, `SyncStart`, `DropVanished`, `LoadBatch`, `ReportBatch` and `SyncDone` are
the thread, `SendNextMessage`, `Timeout` and `Answered` the sender's task, `Receive` a
handler of the farmer with its answer (the update callback of the farmer never suspends,
so handlers do not overlap).

A connection keeps order and loses nothing until it closes; but an answer may take longer
than `message_timeout`. `Timeout` therefore marks the messages under way as no longer
fresh: `set_response()` skips an answer whose message was sent more than ten seconds ago,
and since a failed attempt is followed by a sleep of ten seconds, two attempts are twenty
seconds apart. So an answer to an earlier attempt is never taken for one to a later.

A reset by `failed()` runs on the event loop while the refresh thread runs on: `BeginReset`
clears the state, `ResetStart` is its `sync_start()`, `ResetList`, `ResetBatch` and
`ResetDone` queue what there is. If the thread starts a sync between the first two, the
`sync_start()` of the reset, which sleeps without yielding, waits for that sync to end, and
only the event loop that it blocks could send it: the harvester hangs. This is `Hung`. TLC
reaches it, and it is the one exception that `SyncEnds` makes. The reset at a new
connection (`Reset`) and that of `await_closed()` (`ResetClosed`) run while there is no
thread, so they are one step.

What the model joins: the four assignments at the head of `_reset()` (a thread that starts
a sync between them ends in the same hang), `sync_start()`'s test of `sync_active()` with
its assignment of the id, the messages that one `sync_done()` queues, and a message id
with its `append()` in `_add_message()`; two threads may come between these, too. `stop()`
and the end of refreshing happen together. The invalid files, missing keys and duplicates
are three lists that differ in name only; one message with an empty list stands for them.

The variable `lost` records that `_finalize_sync()` cleared messages that were never
sent. It can: one answer delayed by more than ten seconds, to the last message the
refresh has queued so far, makes the receiver expect a message beyond the end of the
queue. The sender takes that as not recoverable and resets in the middle of the refresh,
and the thread's later messages stand behind the `done` of the reset. When that is
confirmed they are cleared, and the farmer misses these plots although the sender
believes the sync complete, until the next reset or connection. (If the reset's sync ends
before the thread's next message, an assertion fails in the thread, the plot manager is
reset, and the next refresh repairs everything.) `FarmerInSync` exempts these states;
without the exemption TLC shows the run just described. It also says nothing while a reset
is at work, and while `initial` is true: an exception in the thread has emptied the plot
manager, and the next refresh has not ended.

## 4. Runs

| run | states | result |
|---|---|---|
| `chain_one` | 152,281 | the properties below hold, with one caller |
| `chain_two` | 62,960 | with two callers that recheck their fork, coin store and validation stay right |
| `chain_stale_fork` | | two callers as the code has them: `CoinStoreMatchesPeak` is violated |
| `chain_cancel` | | cancellation in the RELEASE: `MemoryMatchesStore` is violated |
| `heightmap_rising` | 3,720 | map in sync, dirty heights tracked, if reorganisations never lower the peak |
| `heightmap_falling` | | they do: `HeightToHashInSync` is violated |
| `heightmap_summaries` | | `SummariesInSync` is violated |
| `priority_mutex` | 3,760 | exclusion, no lost wakeup, order, no starvation at the best priority |
| `tx_queue` | 100,991 | the queue loses nothing, is fair in cost, and every peer is served |
| `mempool` | 406,799 | the items fit the peak, unless a long sync's report was overtaken; they are compatible, index and bounds exact |
| `mempool_sync` | | a sync of one transaction block: `ItemsFitPeak` is violated |
| `plot_sync` | 358,039 | the farmer has the harvester's plots, unless messages were cleared unsent (`lost`) or a refresh failed (`initial`); a sync ends only when applied, and each one ends or the event loop hangs in a reset |

**Properties of `chain_one`.** `CoinStoreMatchesPeak`, `MainChainMatchesPeak` and
`MemoryMatchesStore` relate database and memory to the peak's chain; `PeakIsAvailable`
is what other tasks need between the commit and `_peak_height`; `StoredBlocksValid` and
`BodyValidationExact` compare the incremental, fork-aware validation with the
definition of validity along a block's own chain; `ReorgNeverRaises` says that a
validated fork always applies; `PeakIsBest` is fork choice; `ForkInfoExact` is the
contract of `ForkInfo`; `ImplementsChainState` is refinement.

**Properties of `tx_queue`.** `QueueLengthExact` relates the semaphore, the waiting
handler and the queues; `BacklogReachable` says that a peer with a backlog is in the list
the cursor runs over, after every cleanup; `DeficitBounded` that no peer saves up twice
the highest cost, nor keeps anything when its queue runs empty; `CostFairness` that two
peers with a backlog throughout are served the same cost up to four times the highest;
`SelectionEnds` that the loop without an await ends; `PeerServed` that a peer with a
backlog throughout is served again and again, once local transactions stop coming.

**Properties of `mempool`.** `ItemsFitPeak` is what makes the pool fit the peak:
checked whenever the lock is free, no sync is about to report and none was overtaken
(section 3). `NoConflicts` and
`IndexExact` hold at every step, within `new_peak()` too. `PendingIsEarly` says that
nothing that is due is left in the pending cache.

**Properties of `plot_sync`.** `FarmerInSync` is the purpose of the protocol, with the
exemptions of section 3: a reset at work, `initial`, and `lost`. `DeltaIsPrefix` is the
relation between sender and receiver behind it, `FinalizedIsApplied` says that the sender
does not end a sync on a wrong guess about a lost answer, `SyncEnds` that resets and
repeats do not go on, and that a hang in `_reset()` is all that can stop a sync.

**Bounds.** The tree of `MCBlockchain` has 14 blocks on four levels. It has forks below,
at and above the height of the spends it undoes; a coin created at different heights on
different branches; a coin with the fast-forward marker spent above the fork point; a coin
created and spent in one block; a tie in weight; a heavier but lower branch; a double
spend; a spend of a coin that only another branch has; a malformed block.
`BLOCKS_CACHE_SIZE` is 1 so that trimming happens. The runs with two callers use seven of
the blocks. Two callers suffice: a step concerns one `ForkInfo` and one chain, and what a
third caller could change below a fork the second can. The trees of `MCHeightMap` have two
or three branches that overtake each other, one of them by a tie in weight that the
iterations decide, and a flush every two changes instead of 1000. Nothing else is bounded
there: there are no counters.

`tx_queue` has three peers with room for two entries each, at most three in all
(`QueuedBound`), one local transaction (`HighBound`), costs 1 and 2, a cleanup every two
transactions and one handler slot: the fewest with which peers before, at and after the
cursor are cleaned up, and with which a peer cannot pay in the first round. `mempool` has
six transactions on a tree of five blocks that moves a singleton on, moves it to another
amount, brings an earlier version back, and has the block that can overtake a sync: a
replacement, one waiting in either cache, a fast-forward spend and a plain spend of one
singleton, items that expire soon; pool and caches are small enough to be full. One
handler is in the run. With two, which validate two bundles, or one bundle twice, before
either is in the pool, the properties hold on the instance without `one` and `late`
(563,510 states up to symmetry). `plot_sync` has two plots in batches of one, so that a
refresh has a middle, one change of the disk, one closed connection, two seconds (so a
timeout, and a reset in the middle of a refresh), and two messages under way. With a
second change of the disk (1,129,243 states), and with three seconds instead (1,028,854
states), the properties hold as well. Batches of two, two plots and up to three changes
(1,861,390 states) were checked without `SyncEnds`, together with the inductive invariant
of section 6: there a list of two plots can be refused at its second, which
`RefusesCurrent` in `DeltaIsPrefix` is about.

**Symmetry.** Callers are interchangeable in `chain_two`. No liveness is checked there.

**Deadlock** is checked in every passing run but two. `mempool` stops when every block
is stored, the handlers are idle and every transaction has been seen. `plot_sync` stops
when the event loop hangs and the thread waits for it: the system really does.

**Fairness.** In `priority_mutex`: weak fairness of `Resume` (the event loop runs every
task that can run) and of `Leave` (every `with` block ends, for it contains bounded work
on database and executor). Nothing is assumed of `Acquire` and `CancelWait`. A task of the
low priority may wait forever while others come in; that is the promise of the class
("Lower values are given access first") and is not asserted. In `tx_queue`: weak fairness
of the handler task (it loops for ever and the semaphore wakes its waiter) and of the end
of a handler (each has a bounded validation). Nothing is assumed of `put()`; the number of
local transactions is bounded, for they are served first and without end they starve the
peers, as the class documents. In `plot_sync`: weak fairness of the thread, of the sender,
of delivery while the connection is up, and of connecting again, and strong fairness of
`on_disconnect()`: on a closed connection every send fails and starts a reset, during
which nothing else runs on the event loop, but the sender awaits between two of them and
the event loop serves its tasks in turn. Timeouts, closes and changes of the disk may but
need not happen, and their number is bounded: an answer that is always late is not a sync
that must end.

## 5. Findings

1. **A stale `ForkInfo`** (`chain_stale_fork`). `add_block()` asserts that a fork starts
   on the main chain only as long as the fork is empty. `short_sync_backtrack()` and
   `short_sync_batch()` keep one `ForkInfo` while they acquire and release the mutex per
   block or batch. If another peer's sync reorganises the chain below the fork height in
   between, the fork height is no longer that of a shared block. The next new peak of the
   first sync rolls back to it only. In the trace the fork {b2} of height 1 stands on g,
   a1 while the chain becomes g, c1, c2; then d3 on b2 is adopted. The rollback to height
   1 deletes the row of coin r that c2 wrote, and nothing writes the one of a1, which
   belongs to the adopted chain: its coin is missing. In the same way a row that a
   replaced block wrote at or below the stale height would stay. `chain_two` and the
   theorems show that this is the only obstacle: a check that the block at the fork height
   is still on the main chain, made under the mutex, is enough.
2. **Cancellation during the RELEASE** (`chain_cancel`). The database has the new peak,
   the memory the old one. The comment of `_suppress_task_cancellation` names the gap. A
   restart repairs it.
3. **Summaries at or above the peak** (`heightmap_summaries`). `create()` never removes
   a cached summary at the height of a peak that has none, nor above it. The theorem
   `SummariesCorrect` shows that nothing else can make the summaries wrong.
4. **A stale tail in the height-to-hash file** (`heightmap_falling`). The file is never
   truncated. After a reorganisation to a heavier but lower chain and one back, a
   restart may stop at a match in the tail and keep wrong hashes below it.
5. **A sync of one transaction block** (`mempool_sync`). `_finish_sync()` reports the new
   peak with an empty list of spent coins, and `new_peak()` takes an empty list for a
   block that spends nothing. When a long sync ended exactly one transaction block
   ahead (a failed batch keeps its valid prefix), the fast path removes nothing, and
   items whose coins are spent stay in the pool. `None` instead of the empty list
   would take the slow path. It would not help a sync that is overtaken by a block
   (section 3), where the fast path is that of the later batch.

Plot sync's lost messages and its hang in `_reset()` (section 3) are not runs of their own:
no comment, document or test of the repository says that they cannot happen.

Besides, "restore fork_info to the state before adding the block" (blockchain.py, the
except clause of `add_block()`) restores nothing: the state is captured after
`include_spends()`, and `ForkInfo.rollback()` does not shorten `block_hashes`. No caller
uses the object after the exception.

## 6. Proofs

**CoinStoreProofs.** `RollbackCorrect`: rolling the table of a valid chain back to one of
its blocks gives the table of that block, the fast-forward marker included. The marker
is recomputed from the parent's row, and the argument is that a coin with the puzzle
hash and amount of its parent was created in the block that spent the parent, so the
parent's row survives the rollback if the coin's does. `ApplyCorrect`: applying the
additions and removals of the blocks above q to the table of q gives the table of the
new tip, and no statement raises.

**BlockchainProofs.** All theorems are about `Spec` with arbitrary constants that satisfy
the assumptions of `BlockTree` and `Blockchain`, and assume `ForkInfoTrusted`: there is
one caller, or callers recheck their fork. Without it the first finding refutes them.

The inductive invariant `IInv` adds to the properties what `add_block()` relies on from
one step to the next:

- every `ForkInfo` is exact, and the chain it stands on is valid and stored;
- a `ForkInfo` that may be used starts at a block of the main chain;
- in `"transaction"`, the block being added is valid, extends its caller's fork and is
  better than the peak if and only if it is to become the peak, and memory is in step
  with the database;
- in `"update"`, the database already has the new peak, the height map is the old
  chain's, and the two share everything up to the fork height.

From `IInv` follow `TypeCorrect`, `CoinStoreCorrect`, `MainChainCorrect`,
`MemoryCorrect`, `StoredCorrect`, `ValidationCorrect`, `ReorgSafe` and
`ForkInfoCorrect`. `PeakCorrect` and `PeakFound` use it as a lemma for an invariant of
their own, and `Refinement` shows that `Commit` is a step of `ChainState` and every other
action a stutter. TLC checked `IInv` on the instances of `chain_one` and `chain_two`
before it was proved.

**HeightMapProofs.** For every tree, `SizeInv`: the map has as many entries as the chain
has blocks, and what lies below `first_dirty` is in the file (`DirtyCorrect`). That the
entries are the right ones (`InSyncCorrect`) is proved for the behaviours in which no
reorganisation lowers the peak (`PeakRises`); the run `heightmap_falling` is the
counterexample without it. `InSyncOnRisingTrees` turns this into a statement about all
behaviours on trees where `_reconsider_peak()` prefers no block to a higher one, by weight
or by iterations (`PreferredIsHigher`). With `PeakRises`
the file, if there is one, is always the map of a single chain that is no higher than the
peak (`FileIsChain`). So an entry that matches a block of the main chain has that block's
ancestors below it, and the walk of `_load_blocks_from()` may stop there: the sentence of
the comment that the finding refutes becomes the lemma. The walk and the buffers it
writes are recursive functions; what is needed of them is proved by taking a least step
at which it fails, since the provers cannot apply an induction theorem.

`SummariesCorrect` concerns the other file. Its inductive invariant `SummariesInv` says
that the file has the summaries of one chain, which need not be that of the peak, and
that memory has the peak's, or before the update the old peak's. Loading sets or deletes
the entries that the walk passes and keeps those below a match, which are the main
chain's. What it never looks at is above: so the hypothesis is that at a start the file
has no summary of another chain at or above the height of the peak (`NoneAbove`). It
allows falling peaks, and TLC checked it on all three trees.

**PriorityMutexProofs.** None of the properties is inductive. `OwnerOnly`: a task that is
inside, or has been told to go on, is the active one. `OwnerRuns`: if any task is in a
deque there is an active one, and it is inside or has been woken. `Ordered`: the deques
keep the order of arrival. With the first follows `MutexCorrect`, with the second
`WakeupCorrect`, with the third the action property `HandOnCorrect`. The set of
priorities is finite, as the enumeration of the code is. `OrderKept` is the safety half
of `BestPriorityServed`: no step puts a task ahead of a waiting one, except a new request
of a strictly better priority. A waiter of the best priority therefore only sees the
tasks ahead of it become fewer, whoever leaves or is cancelled.

**TransactionQueueProofs.** `LengthCorrect` counts: a queue is a bag, its entries numbered
copies (`Items`), and the semaphore, plus the unit the handler has been granted, is their
number. `PopFinds` is that number being positive when a handler selects, with every
backlogged peer in the map. `TypeCorrect` contains that the cursor stays in range after
`_cleanup_peer_queues()`. `CostCorrect` rests on `Shares`: the lead of one watched peer
over the other, plus its deficit, minus the other's, stays within twice the highest cost,
because every top-up gives both the same and every service moves cost from the deficit to
the lead. The cleanup's effect on deficits matters here: only an empty queue is dropped,
and that has no deficit. `OneTopUp` is the safety half of `SelectionEnds`: after a round
that topped up the deficits some peer in the map can pay, namely the one whose top
transaction is the cheapest, so the loop of `pop()` runs at most twice over the peers.

**MempoolProofs.** `MempoolInv` keeps for the pool (`IsPool`): items are distinct, the index
is theirs, the total is within the limit, and a fast-forward spend is based on a version
of its singleton while no other spend of the item is (`VersionsApart`). The last is what
makes rebasing safe for the index: it never takes away the row of another spend. For the
caches, cost and number; for `PendingCorrect`, that nothing is due at `mempool_peak`
outside of `new_peak()`, that `new_peak()` reports the peak before the lock is free, and
that heights of transaction blocks below a peak are below its own. Costs are summed as
the number of units (`TotalCost`), so that adding, evicting in order of priority and the
bounds of the caches are statements about cardinality.

`FitCorrect` and `ConflictsCorrect` need each other: a rebased spend is known to
meet no other only if each item is based on the version that is unspent at the peak, and
a peak's spends are known to remove every item they invalidate only if the index has
them. The inductive invariant `SpendInv` holds in the middle of batches and of
`new_peak()`: the items fit the chain of the *manager's* peak, which may be behind the
node's (`ItemsFit`, `LocksMet`); a batch has collected every coin that the blocks beyond
that peak spend (`BatchCovered`), which is why the fast path may remove by coin; a sync
that is yet to be reported will not be taken for one block (`SyncAhead`); and two items
share at most the version both are based on (`AllApart`). Amounts play no part in it: a
rebase keeps what the invariant says whatever the amount of the new version is.

One hypothesis is needed: `~OneBlockSyncs`, which excludes the fifth finding. Blocks may
be stored between the end of a long sync and its report; then `SpendInv` is lost, and what
is proved inductive (`PoolReported`) is that it holds or `overtaken` does, and that a pool
which `new_peak()` builds anew has it again, since it starts empty (`RebuiltIsReported`).

**PlotSyncProofs.** `PlotSyncInv` has, besides the types, these parts. An answer counts
only when it is to the last attempt, and by then every earlier copy has been processed: so
the connection only ever holds copies of the message that is being sent (`NetInv`). Hence
the receiver is at that message, just past it, refuses it, or has applied the done message
(`ReceiverInv`). `QueueInv` describes the queue of a sync, and `ThreadInv` what there is
between connections. `DataInv` says what the queue amounts to: the farmer's plots, with
the loaded ones and without the removed ones, are the harvester's, up to the part of the
refresh that is still to come; and a refresh that a reset has overtaken has messages
behind a done message. While a reset is at work nothing is under way to the farmer
(`ResetInv`), and if no refresh is at work either, what the queue lists and what the reset
has still to queue are together the harvester's plots (`ResetData`). Nothing is promised
of the receiver while the thread may still start a sync before the reset does: that way
leads to the hang. `FinalizeCorrect` follows because the error from which the sender
concludes that its done message was applied can only come from a receiver past it: a fresh
receiver is ruled out by the position that the protocol has reached.

The proof corrected a property. `DeltaIsPrefix` used to say that the delta always consists
of whole messages. With batches of two that is false: `_process_loaded()` and
`process_path_list()` stop in the middle of a list that contradicts what they have, and
keep the part before. It takes messages lost behind a reset's done message to get there,
and the sender then resets. The property now allows for it (`RefusesCurrent`).

**Assumptions.** Those of `BlockTree` (section 3). For `HeightMap`: the first block
includes no summary. For `Mempool`: the first block is a transaction block (it is, in the
code and on the chain), only transaction blocks spend or create coins, a singleton that is
fast forwarded has at most one unspent version on a chain, a bundle spends finitely many
coins and costs at most `max_block_clvm_cost`, which is at most `max_size_in_cost` (the
code makes the second a multiple of the first), and no fee is exactly the limit (section
3). For `TransactionQueue`: finitely many peers and entries, at least one entry. For
`PlotSync`: finitely many plots, a positive batch size. TLC evaluates all of them on its
instances.

Some theorems have a hypothesis besides, because the code does not keep the property
without it: `ForkInfoTrusted` (those of `BlockchainProofs`; finding 1), `PeakRises` or
`PreferredIsHigher` (`InSyncCorrect`, `InSyncOnRisingTrees`; finding 4), `NoneAbove`
(`SummariesCorrect`; finding 3), `~OneBlockSyncs` (`FitCorrect`, `ConflictsCorrect`;
finding 5). `ConflictsCorrect`, like `ItemsFitPeak`, excepts the states in which `overtaken`
is true. The passing runs have behaviours
that satisfy them.

**Only model-checked.**

- `SelectionEnds`, `PeerServed`, `BestPriorityServed` and `SyncEnds` are liveness under
  fairness, which TLAPS does not prove.
- `NoConflicts` after a block was stored between the end of a long sync and its report:
  it holds on the tree of the run.
- The behaviour of callers of `add_block()` that do not recheck their fork, and of
  cancelled tasks: there the properties fail (findings 1 and 2).

## 7. Not modelled

See `components` for each part and its reason. Of the parts modelled, these behaviours
are missing: torn or partial writes of the height-to-hash file and the fallback that
rewrites it after any exception; nested savepoints and readers; the MMR; compact proofs;
requests and bans of peers around a sync; the rest of the peak post-processing (hints,
subscriptions, signage points); ephemeral coins, deduplication and locks in seconds in
the mempool, and the rejection of a fast forward spend when a block is built; in plot sync,
a thread switch between the test and the assignment of `sync_start()`, within `sync_done()`
and within `_add_message()`.

## 8. Running

    tlc -config Blockchain_one.cfg MCBlockchain
    tlapm BlockchainProofs.tla

and likewise for the other configurations and proof modules.
