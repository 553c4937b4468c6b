------------------------------- MODULE Mempool -------------------------------
(***************************************************************************)
(* The mempool of a full node: chia/full_node/mempool.py (the pool),       *)
(* mempool_manager.py (admission, replacement, new_peak()),                *)
(* pending_tx_cache.py, and the callers in full_node.py: add_transaction() *)
(* and the places that report a new peak.                                  *)
(*                                                                         *)
(* The chain underneath is ChainState, which Blockchain implements.  The   *)
(* pool changes only under the blockchain lock; the handlers check, and    *)
(* keep books of what they have seen, without it.                          *)
(*                                                                         *)
(* A transaction is a constant with the coins it spends, its fee, its cost *)
(* and its height locks.  At most one of its spends, ff[t], may be fast    *)
(* forwarded: it then stands for the latest version of its singleton, the  *)
(* lineage, which new_peak() moves on.  A spend keeps its amount when it is*)
(* fast forwarded, so admission looks at the amount of the lineage;        *)
(* new_peak() does not.  Left out: ephemeral coins, dedup spends, relative *)
(* locks (resolved to heights against the coin record) and locks in seconds*)
(* (like those in heights, but an unmet one fails).                        *)
(***************************************************************************)
EXTENDS BlockTree, Subsequences, SequencesExt, FiniteSetsExt

CONSTANTS
    TxBlocks,             \* is_transaction_block
    singleton,            \* the puzzle hash of the coins that are versions of a singleton
    amount,               \* of a coin
    Txs,                  \* spend bundle names
    coin_spends, fee, cost, assert_height, assert_before_height,
    ff,                   \* the spend that is eligible for fast forward, or NoCoin
    NoCoin,
    NoHeight              \* assert_before_height is None: above every height

CONSTANTS
    max_size_in_cost,          \* of the pool
    max_block_clvm_cost,       \* bounds the cost of the items that expire soon
    expires_soon,              \* in how many blocks, 48 in the code
    nonzero_fee_minimum_fpc,
    MEMPOOL_MIN_FEE_INCREASE,
    MEMPOOL_ITEM_FEE_LIMIT,
    SQLITE_INT_MAX,
    SPEND_PENALTY_COST,
    cache_max_total_cost,      \* of the conflict cache and of the pending cache
    cache_max_size,
    seen_cache_size

CONSTANTS
    Handlers,             \* running add_transaction() calls
    OneBlockSyncs         \* whether a long sync may end one transaction block ahead

ASSUME MempoolTyping ==
    /\ TxBlocks \subseteq Blocks
    /\ \A b \in Blocks : prev_hash[b] = GENESIS_CHALLENGE => b \in TxBlocks
    /\ \A b \in Blocks \ TxBlocks : Additions(b) = {} /\ removals[b] = {}
    /\ NoCoin \notin Coins
    /\ Txs # {}
    /\ coin_spends \in [Txs -> SUBSET Coins]
    /\ \A t \in Txs : /\ coin_spends[t] # {} /\ IsFiniteSet(coin_spends[t])
                      /\ ff[t] \in coin_spends[t] \cup {NoCoin}
                      /\ fee[t] \in Nat
                      /\ cost[t] \in 1..max_block_clvm_cost
                      /\ assert_height[t] \in Nat /\ assert_before_height[t] \in Nat
                      /\ assert_height[t] < assert_before_height[t]

ASSUME AmountAssumption ==
    /\ amount \in [Coins -> Nat]
    /\ \A c \in SameAsParent : amount[c] = amount[coin_parent[c]]

\* A fee of exactly the limit is left out: it is admitted, and add_to_pool()
\* asserts that it is below the limit.
ASSUME FeeAssumption ==
    /\ MEMPOOL_ITEM_FEE_LIMIT \in Nat /\ SQLITE_INT_MAX \in Nat
    /\ \A t \in Txs : fee[t] # MEMPOOL_ITEM_FEE_LIMIT

\* max_size_in_cost is MEMPOOL_BLOCK_BUFFER times max_block_clvm_cost.
ASSUME LimitsAssumption ==
    /\ max_block_clvm_cost \in Nat /\ max_size_in_cost \in Nat
    /\ max_block_clvm_cost <= max_size_in_cost
    /\ SPEND_PENALTY_COST \in Nat
    /\ cache_max_total_cost \in Nat /\ cache_max_size \in Nat /\ seen_cache_size \in Nat

VARIABLES
    \* the chain
    stored, peak, unspent,
    \* the pool
    items,            \* tx table and _items, in order of insertion: name and lineage
    spends,           \* spends table: the coin an item is found under, and its name
    block_height,     \* _block_height
    \* the manager
    mempool_peak,     \* peak: a transaction block, or GENESIS_CHALLENGE for None
    conflict_cache,   \* _conflict_cache, in order of insertion
    pending_cache,    \* _pending_cache, in order of insertion
    seen,             \* seen_bundle_hashes, in order of insertion
    in_flight,        \* in_flight_bundle_hashes
    \* the tasks
    lock,             \* who holds the blockchain lock: "free", "batch" and "sync" add blocks,
                      \* "readd" and "retry" are the two loops of new_peak()
    spent_coins,      \* removals of the blocks added in this batch
    finishing,        \* a long sync has left the lock and has not finished
    todo,             \* what the loop of new_peak() still has to go through
    handler,          \* what each add_transaction() call does, with which transaction
    \* history
    overtaken         \* a block was added before a long sync was reported, and the pool
                      \* has not been rebuilt since

chain_vars == <<stored, peak, unspent>>
pool_vars == <<items, spends, block_height>>
cache_vars == <<conflict_cache, pending_cache>>
vars == <<stored, peak, unspent, items, spends, block_height, mempool_peak, conflict_cache,
          pending_cache, seen, in_flight, lock, spent_coins, finishing, todo, handler,
          overtaken>>

Chain == INSTANCE ChainState

\* chia_rs's supports_fast_forward() only passes spends of the singleton top
\* layer, whose puzzle hash commits to the launcher and which creates one version
\* from one: on a valid chain at most one version of such a singleton is unspent.
ASSUME SingletonAssumption ==
    \A t \in Txs, p \in Tips :
        ff[t] # NoCoin /\ (\A a \in Anc[p] : ValidBlock(a)) =>
            \A c, d \in Chain!UnspentAt(p) \cap SameAsParent :
                singleton[c] = singleton[ff[t]] /\ singleton[d] = singleton[ff[t]] => c = d

-----------------------------------------------------------------------------
(* The chain as the mempool sees it *)

LatestTx(A) ==
    IF A \cap TxBlocks = {} THEN GENESIS_CHALLENGE
    ELSE CHOOSE b \in A \cap TxBlocks : \A a \in A \cap TxBlocks : height[a] <= height[b]

\* Mutant: the peak is reported, whatever block it is.
AnyPeak(p) == p

\* get_tx_peak()
TxPeak(p) == LatestTx(Anc[p])

\* prev_transaction_block_hash
PrevTx(b) == LatestTx(ProperAnc(b))

Created(c) == \E a \in Anc[peak] : c \in Additions(a)

\* get_unspent_lineage_info_for_puzzle_hash(): the one unspent version whose
\* parent has its puzzle hash and amount
Lineage(c) ==
    LET versions == {d \in unspent \cap SameAsParent : singleton[d] = singleton[c]}
    IN IF \E d \in versions : versions = {d} THEN CHOOSE d \in versions : TRUE ELSE NoCoin

-----------------------------------------------------------------------------
(* The pool *)

Names(its) == {its[i].tx : i \in DOMAIN its}

\* The cost of the transactions txs: as many units for each as it costs
TotalCost(txs) == Cardinality({u \in txs \X (1..max_block_clvm_cost) : u[2] <= cost[u[1]]})

\* The coins under which an item is indexed
Effective(t, lineage) ==
    IF lineage = NoCoin THEN coin_spends[t] ELSE (coin_spends[t] \ {ff[t]}) \cup {lineage}

\* The items its without those of the transactions txs
Without(its, txs) == Keep(its, {i \in ToSet(its) : i.tx \notin txs})

\* remove_from_pool()
RemoveFromPool(txs) ==
    [items |-> Without(items, txs),
     spends |-> {s \in spends : s[2] \notin txs}]

virtual_cost(t) == cost[t] + Cardinality(coin_spends[t]) * SPEND_PENALTY_COST

\* The item at i is ordered before the one at j by priority DESC, seq ASC.
Outranks(its, i, j) ==
    LET pi == fee[its[i].tx] * virtual_cost(its[j].tx)
        pj == fee[its[j].tx] * virtual_cost(its[i].tx)
    IN pi > pj \/ (pi = pj /\ i <= j)

\* SUM(cost) OVER (ORDER BY priority DESC, seq ASC) among the items in S
CumulativeCost(its, S, i) == TotalCost({its[j].tx : j \in {k \in S : Outranks(its, k, i)}})

\* at_full_capacity()
AtFullCapacity(t) == TotalCost(Names(items)) + cost[t] > max_size_in_cost

\* The fee per cost of the item that get_min_fee_rate() returns is below that of
\* t: taking away the cheapest items first, it is the one that makes room.
BeatsMinFeeRate(t) ==
    LET Cheaper(i, j) == \/ fee[items[i].tx] * cost[items[j].tx] < fee[items[j].tx] * cost[items[i].tx]
                         \/ /\ fee[items[i].tx] * cost[items[j].tx] = fee[items[j].tx] * cost[items[i].tx]
                            /\ i >= j
        Left(i) == {items[j].tx : j \in {k \in DOMAIN items : ~Cheaper(k, i)}}
        fits == {i \in DOMAIN items : TotalCost(Left(i)) + cost[t] <= max_size_in_cost}
    IN \E i \in fits : /\ \A j \in fits : Cheaper(i, j)
                       /\ fee[t] * cost[items[i].tx] > fee[items[i].tx] * cost[t]

Soon(t) == assert_before_height[t] < block_height + expires_soon

\* The items that add_to_pool() evicts for t because too many expire soon, from
\* the lowest priority on; its is the pool without the conflicts.
EvictedSoon(its, t) ==
    LET S == {i \in DOMAIN its : Soon(its[i].tx)}
    IN IF Soon(t) THEN {i \in S : CumulativeCost(its, S, i) + cost[t] > max_block_clvm_cost} ELSE {}

\* One of those has a higher priority than t: t is refused.
SoonRefused(its, t) ==
    \E i \in EvictedSoon(its, t) : fee[its[i].tx] * virtual_cost(t) > fee[t] * virtual_cost(its[i].tx)

\* Mutant: the items that do not fit next to t are found without counting t.
EvictedFullShort(its, t) ==
    IF TotalCost(Names(its)) + cost[t] > max_size_in_cost
    THEN {its[i].tx : i \in {j \in DOMAIN its : CumulativeCost(its, DOMAIN its, j) > max_size_in_cost}}
    ELSE {}

\* The items that add_to_pool() evicts because the pool would exceed its size
EvictedFull(its, t) ==
    IF TotalCost(Names(its)) + cost[t] > max_size_in_cost
    THEN {its[i].tx : i \in {j \in DOMAIN its : CumulativeCost(its, DOMAIN its, j) > max_size_in_cost - cost[t]}}
    ELSE {}

-----------------------------------------------------------------------------
(* Admission *)

\* can_fast_forward_singleton(): a fast forwarded spend of c keeps its amount.  That the
\* parent has it too is what Lineage() asks for.
CanFastForward(c, latest) == amount[latest] = amount[c]

\* The lineage of t: it is fast forwarded if its singleton has an unspent version
\* of the same amount, and is a regular spend otherwise.
LineageOf(t) ==
    IF ff[t] # NoCoin /\ Lineage(ff[t]) # NoCoin /\ CanFastForward(ff[t], Lineage(ff[t]))
    THEN Lineage(ff[t])
    ELSE NoCoin

IsFF(t, lineage, c) == lineage # NoCoin /\ c = ff[t]

\* Mutant: only the coin itself is looked up, not the latest version.
ConflictsByCoin(t, lineage) ==
    {i.tx : i \in {j \in ToSet(items) : \E c \in coin_spends[t] :
        <<c, j.tx>> \in spends /\ ~(IsFF(t, lineage, c) /\ IsFF(j.tx, j.lineage, c))}}

\* check_removals(): the items that t conflicts with.  Two fast forward spends of
\* a singleton do not conflict, every other pair of spends of a coin does.
Conflicts(t, lineage) ==
    LET Latest(c) == IF IsFF(t, lineage, c) THEN lineage ELSE c
        \* the spend of the item i that was found under c or under its latest version
        Found(i, c) == CASE c \in coin_spends[i.tx] -> c
                         [] c \notin coin_spends[i.tx] /\ Latest(c) \in coin_spends[i.tx] -> Latest(c)
                         [] OTHER -> ff[i.tx]
    IN  {i.tx : i \in {j \in ToSet(items) : \E c \in coin_spends[t] :
            /\ <<c, j.tx>> \in spends \/ <<Latest(c), j.tx>> \in spends
            /\ ~(IsFF(t, lineage, c) /\ IsFF(j.tx, j.lineage, Found(j, c)))}}

\* can_replace()
CanReplace(conflicts, t, lineage) ==
    LET fees == MapThenSumSet(LAMBDA u : fee[u], conflicts)
        ffSpends == {ff[i.tx] : i \in {j \in ToSet(items) : j.tx \in conflicts /\ j.lineage # NoCoin}}
    IN  /\ \A u \in conflicts : coin_spends[u] \subseteq coin_spends[t]
        /\ fee[t] * TotalCost(conflicts) > fees * cost[t]
        /\ fee[t] - fees >= MEMPOOL_MIN_FEE_INCREASE
        /\ assert_height[t] = Max({assert_height[u] : u \in conflicts})
        /\ assert_before_height[t] = Min({assert_before_height[u] : u \in conflicts})
        /\ \A c \in ffSpends : IsFF(t, lineage, c)

\* "to ensure SQLite never runs out of precision in its computation of fees"
FeeTooHigh(t) ==
    \/ fee[t] > MEMPOOL_ITEM_FEE_LIMIT
    \/ SQLITE_INT_MAX - MapThenSumSet(LAMBDA u : fee[u], Names(items)) <= fee[t]

\* The bundle is refused whatever its locks and conflicts are: it fast forwards
\* onto a coin it also spends, has no other spend, spends a coin that does not
\* exist or is spent, its fee is out of bounds, or the pool is full and its fee
\* too low.
Refused(t, lineage) ==
    \/ mempool_peak = GENESIS_CHALLENGE
    \/ lineage # NoCoin /\ (lineage \in coin_spends[t] \ {ff[t]} \/ coin_spends[t] = {ff[t]})
    \/ \E c \in coin_spends[t] : ~Created(c)
    \/ FeeTooHigh(t)
    \/ AtFullCapacity(t) /\ (fee[t] < nonzero_fee_minimum_fpc * cost[t] \/ ~BeatsMinFeeRate(t))
    \/ \E c \in coin_spends[t] : c \notin unspent /\ ~IsFF(t, lineage, c)

\* validate_spend_bundle() in the order of its checks
Verdict(t, lineage) ==
    LET conflicts == Conflicts(t, lineage)
        h == height[mempool_peak]
    IN  CASE t \in Names(items) -> "present"
          [] t \notin Names(items) /\ Refused(t, lineage) -> "failed"
          [] OTHER -> IF h < assert_height[t] THEN "early"
                      ELSE IF h >= assert_before_height[t] THEN "failed"
                      ELSE IF conflicts # {} /\ ~CanReplace(conflicts, t, lineage) THEN "conflict"
                      ELSE "add"

\* The transactions of a cache that are left when those with the highest rank, the
\* oldest first, are dropped until the cache keeps its bounds
Bounded(cache, rank) ==
    LET Before(i, j) == rank[cache[i]] > rank[cache[j]] \/ (rank[cache[i]] = rank[cache[j]] /\ i < j)
        Fits(i) == LET rest == {cache[j] : j \in {k \in DOMAIN cache : k = i \/ Before(i, k)}}
                   IN TotalCost(rest) <= cache_max_total_cost /\ Cardinality(rest) <= cache_max_size
        kept == {cache[i] : i \in {j \in DOMAIN cache : Fits(j)}}
    IN  Keep(cache, kept)

\* ConflictTxCache.add(): first in, first out
ConflictCacheAdd(t) ==
    IF t \in ToSet(conflict_cache) THEN conflict_cache
    ELSE Bounded(Append(conflict_cache, t), [u \in Txs |-> 0])

\* Mutant: the bounds are compared before the new item is counted.
PendingCacheAddFirst(t) ==
    IF t \in ToSet(pending_cache) \/ Len(pending_cache) > cache_max_size THEN pending_cache
    ELSE Append(pending_cache, t)

\* PendingTxCache.add(): the highest assert_height goes first
PendingCacheAdd(t) ==
    IF t \in ToSet(pending_cache) THEN pending_cache
    ELSE Bounded(Append(pending_cache, t), assert_height)

\* add_spend_bundle(): the conflicts leave before add_to_pool() may still refuse.
AddSpendBundle(t, status) ==
    LET lineage == LineageOf(t)
        verdict == Verdict(t, lineage)
        conflicts == Conflicts(t, lineage)
        without == RemoveFromPool(conflicts)
        refused == SoonRefused(without.items, t)
        soon == {without.items[i].tx : i \in EvictedSoon(without.items, t)}
        full == EvictedFull(Without(without.items, soon), t)
        gone == IF refused THEN conflicts ELSE conflicts \cup soon \cup full
        left == RemoveFromPool(gone)
        added == verdict = "add" /\ ~refused
    IN  /\ status = CASE verdict = "present" \/ added -> "SUCCESS"
                      [] verdict \in {"early", "conflict"} -> "PENDING"
                      [] OTHER -> "FAILED"
        /\ items' = CASE verdict # "add" -> items
                      [] verdict = "add" /\ refused -> left.items
                      [] OTHER -> Append(left.items, [tx |-> t, lineage |-> lineage])
        /\ spends' = CASE verdict # "add" -> spends
                       [] verdict = "add" /\ refused -> left.spends
                       [] OTHER -> left.spends \cup {<<c, t>> : c \in Effective(t, lineage)}
        /\ conflict_cache' = IF verdict = "conflict" THEN ConflictCacheAdd(t) ELSE conflict_cache
        /\ pending_cache' = IF verdict = "early" THEN PendingCacheAdd(t) ELSE pending_cache

\* "validating spend took too long, rejecting"
TooSlow(t, status) ==
    /\ Verdict(t, LineageOf(t)) = "add"
    /\ status = "FAILED"
    /\ UNCHANGED <<items, spends, cache_vars>>

-----------------------------------------------------------------------------
Init ==
    /\ Chain!Init
    /\ items = <<>> /\ spends = {} /\ block_height = 0
    /\ mempool_peak = GENESIS_CHALLENGE
    /\ conflict_cache = <<>> /\ pending_cache = <<>>
    /\ seen = <<>> /\ in_flight = {}
    /\ lock = "free" /\ spent_coins = {} /\ finishing = FALSE /\ todo = <<>>
    /\ handler \in [Handlers -> [pc : {"idle"}, tx : {CHOOSE t \in Txs : TRUE}]]
    /\ overtaken = FALSE

-----------------------------------------------------------------------------
(* add_transaction() *)

\* add_and_maybe_pop_seen()
SeenWith(t) ==
    IF t \in ToSet(seen) THEN seen
    ELSE LET new == Append(seen, t)
         IN IF Len(new) > seen_cache_size THEN Tail(new) ELSE new

\* remove_seen()
SeenWithout(t) == Keep(seen, Txs \ {t})

\* In sync mode every call is refused.
SyncMode == lock = "sync"

\* The call returns at once: the transaction is in the pool already.  (One that is
\* seen or in flight, or comes before there is a peak, is refused with no effect.)
SubmitPresent(t) ==
    /\ ~SyncMode
    /\ t \in Names(items)
    /\ seen' = SeenWithout(t)
    /\ UNCHANGED <<chain_vars, pool_vars, cache_vars, mempool_peak, in_flight, lock, spent_coins,
                   finishing, todo, handler, overtaken>>

\* The call marks the transaction and pre-validates it, without the lock.
Submit(h, t) ==
    /\ handler[h].pc = "idle"
    /\ ~SyncMode
    /\ t \notin Names(items) /\ t \notin ToSet(seen) /\ t \notin in_flight
    /\ mempool_peak # GENESIS_CHALLENGE
    /\ in_flight' = in_flight \cup {t}
    /\ handler' = [handler EXCEPT ![h] = [pc |-> "validating", tx |-> t]]
    /\ UNCHANGED <<chain_vars, pool_vars, cache_vars, mempool_peak, seen, lock, spent_coins,
                   finishing, todo, overtaken>>

\* Pre-validation succeeds, times out, or finds the bundle invalid for good.
PreValidated(h) ==
    LET t == handler[h].tx
    IN  /\ handler[h].pc = "validating"
        /\ in_flight' = in_flight \ {t}
        /\ \/ /\ seen' = SeenWith(t)
              /\ \E pc \in {"locking", "idle"} : handler' = [handler EXCEPT ![h].pc = pc]
           \/ /\ handler' = [handler EXCEPT ![h].pc = "idle"]
              /\ UNCHANGED seen
        /\ UNCHANGED <<chain_vars, pool_vars, cache_vars, mempool_peak, lock, spent_coins,
                       finishing, todo, overtaken>>

\* The call has the lock, checks again and adds the bundle.
AddTransaction(h) ==
    LET t == handler[h].tx
    IN  /\ handler[h].pc = "locking"
        /\ lock = "free"
        /\ \E status \in {"SUCCESS", "PENDING", "FAILED"} :
             /\ AddSpendBundle(t, status) \/ TooSlow(t, status)
             /\ seen' = IF status = "SUCCESS" /\ t \notin Names(items) THEN seen ELSE SeenWithout(t)
        /\ handler' = [handler EXCEPT ![h].pc = "idle"]
        /\ UNCHANGED <<chain_vars, block_height, mempool_peak, in_flight, lock, spent_coins,
                       finishing, todo, overtaken>>

-----------------------------------------------------------------------------
(* Blocks *)

\* A block of a batch (add_block() is a batch of one).  The removals of the
\* blocks that become the peak are added up for new_peak().
AddBlock(b) ==
    /\ lock \in {"free", "batch"}
    /\ Chain!StoreBlock(b)
    /\ lock' = "batch"
    /\ spent_coins' = spent_coins \cup UNION {removals[a] : a \in Anc[peak'] \ Anc[peak]}
    /\ overtaken' = (overtaken \/ finishing)
    /\ UNCHANGED <<pool_vars, cache_vars, mempool_peak, seen, in_flight, finishing, todo, handler>>

\* A block of a long sync, which does not tell the mempool.
SyncBlock(b) ==
    /\ lock \in {"free", "sync"}
    /\ ~finishing
    /\ Chain!StoreBlock(b)
    /\ lock' = "sync"
    /\ UNCHANGED <<pool_vars, cache_vars, mempool_peak, seen, in_flight, spent_coins, finishing,
                   todo, handler, overtaken>>

\* The long sync ends, with the chain synced or by an error, and leaves the lock.
EndSync ==
    /\ lock = "sync"
    /\ OneBlockSyncs \/ PrevTx(TxPeak(peak)) # mempool_peak \/ mempool_peak = GENESIS_CHALLENGE
    /\ lock' = "free"
    /\ finishing' = TRUE
    /\ UNCHANGED <<chain_vars, pool_vars, cache_vars, mempool_peak, seen, in_flight, spent_coins,
                   todo, handler, overtaken>>

Expired(tip) == {t \in Names(items) : assert_before_height[t] <= height[tip]}

\* Mutant: the rebased item keeps its row under the old version.
RebasedIndexKept(spent) ==
    LET Regular(i) == IF i.lineage = NoCoin THEN coin_spends[i.tx] ELSE coin_spends[i.tx] \ {ff[i.tx]}
        moved == {i \in ToSet(items) : i.lineage \in spent}
        evicted == {i.tx : i \in {j \in ToSet(items) :
                        Regular(j) \cap spent # {} \/ (j \in moved /\ Lineage(ff[j.tx]) = NoCoin)}}
        Moved(i) == IF i \in moved THEN [i EXCEPT !.lineage = Lineage(ff[i.tx])] ELSE i
    IN [evicted |-> evicted, items |-> [k \in DOMAIN items |-> Moved(items[k])], spends |-> spends]

\* The fast path of new_peak(): items with a regular spend of a spent coin go; fast
\* forward spends of a spent version are rebased onto the latest one, in the item
\* and in the index, or go when there is none.
Rebased(spent) ==
    LET Regular(i) == IF i.lineage = NoCoin THEN coin_spends[i.tx] ELSE coin_spends[i.tx] \ {ff[i.tx]}
        moved == {i \in ToSet(items) : i.lineage \in spent}
        evicted == {i.tx : i \in {j \in ToSet(items) :
                        Regular(j) \cap spent # {} \/ (j \in moved /\ Lineage(ff[j.tx]) = NoCoin)}}
        Moved(i) == IF i \in moved THEN [i EXCEPT !.lineage = Lineage(ff[i.tx])] ELSE i
    IN  [evicted |-> evicted,
         items |-> [k \in DOMAIN items |-> Moved(items[k])],
         spends |-> {s \in spends : ~\E i \in moved : s = <<i.lineage, i.tx>>}
                      \cup {<<Lineage(ff[i.tx]), i.tx>> : i \in moved}]

\* Mutant: the fast path is taken for every new peak.
UseOptimizationAlways(tip) == mempool_peak # GENESIS_CHALLENGE

\* use_optimization
UseOptimization(tip) == mempool_peak # GENESIS_CHALLENGE /\ PrevTx(tip) = mempool_peak

\* new_peak() up to its first loop.  Every caller passes the removals of the blocks
\* it knows of, spent.
NewPeak(spent) ==
    LET tip == TxPeak(peak)
        rebased == Rebased(spent)
        gone == Expired(tip) \cup rebased.evicted
    IN  \/ /\ tip \in {GENESIS_CHALLENGE, mempool_peak}
           /\ lock' = "free"
           /\ UNCHANGED <<pool_vars, mempool_peak, seen, in_flight, todo>>
        \/ /\ tip \notin {GENESIS_CHALLENGE, mempool_peak}
           /\ mempool_peak' = tip
           /\ lock' = "readd"
           /\ \/ /\ UseOptimization(tip)
                 /\ items' = Without(rebased.items, gone)
                 /\ spends' = {s \in rebased.spends : s[2] \notin gone}
                 /\ block_height' = height[tip]
                 /\ seen' = Keep(seen, Txs \ (rebased.evicted \ Expired(tip)))
                 /\ todo' = <<>>
                 /\ UNCHANGED in_flight
              \/ /\ ~UseOptimization(tip)
                 \* a new Mempool object
                 /\ items' = <<>>
                 /\ spends' = {}
                 /\ block_height' = 0
                 /\ seen' = <<>>
                 /\ in_flight' = {}
                 /\ todo' = Keep([i \in DOMAIN items |-> items[i].tx], Txs \ Expired(tip))

\* new_peak() builds the pool anew.
Rebuilds == TxPeak(peak) \notin {GENESIS_CHALLENGE, mempool_peak} /\ ~UseOptimization(TxPeak(peak))

\* peak_post_processing() after a batch
EndBatch ==
    /\ lock = "batch"
    /\ NewPeak(spent_coins)
    /\ spent_coins' = {}
    /\ overtaken' = (overtaken /\ (finishing \/ ~Rebuilds))
    /\ UNCHANGED <<chain_vars, cache_vars, finishing, handler>>

\* _finish_sync(): its summary of the changes is empty.
FinishSync ==
    /\ lock = "free"
    /\ finishing
    /\ finishing' = FALSE
    /\ NewPeak({})
    /\ overtaken' = (overtaken /\ ~Rebuilds)
    /\ UNCHANGED <<chain_vars, cache_vars, spent_coins, handler>>

\* The slow path adds the items of the old pool again, one by one.
Readd ==
    /\ lock = "readd"
    /\ todo # <<>>
    /\ todo' = Tail(todo)
    /\ \E status \in {"SUCCESS", "PENDING", "FAILED"} :
         /\ AddSpendBundle(Head(todo), status) \/ TooSlow(Head(todo), status)
         /\ seen' = IF status = "SUCCESS" THEN SeenWith(Head(todo)) ELSE seen
    /\ UNCHANGED <<chain_vars, block_height, mempool_peak, in_flight, lock, spent_coins,
                   finishing, handler, overtaken>>

\* Mutant: transactions that become valid at the next height are drained, the ones
\* that are valid now stay.
DueLate(t) == assert_height[t] < height[mempool_peak]

Due(t) == assert_height[t] <= height[mempool_peak]

\* Both caches are drained: pending transactions by height, then the conflicts.
Drain ==
    LET LockOf(i) == assert_height[pending_cache[i]]
        due == {i \in DOMAIN pending_cache : Due(pending_cache[i])}
        byHeight == {ij \in due \X due : \/ LockOf(ij[1]) < LockOf(ij[2])
                                         \/ LockOf(ij[1]) = LockOf(ij[2]) /\ ij[1] <= ij[2]}
        early == [k \in 1..Cardinality(due) |-> pending_cache[InOrder(due, byHeight)[k]]]
    IN  /\ lock = "readd"
        /\ todo = <<>>
        /\ todo' = early \o Keep(conflict_cache, Txs \ ToSet(early))
        /\ pending_cache' = Keep(pending_cache, {t \in Txs : ~Due(t)})
        /\ conflict_cache' = <<>>
        /\ lock' = IF todo' = <<>> THEN "free" ELSE "retry"
        /\ UNCHANGED <<chain_vars, pool_vars, mempool_peak, seen, in_flight, spent_coins,
                       finishing, handler, overtaken>>

\* The second loop retries what was drained; then the lock is left.
Retry ==
    /\ lock = "retry"
    /\ todo' = Tail(todo)
    /\ lock' = IF Tail(todo) = <<>> THEN "free" ELSE "retry"
    /\ \E status \in {"SUCCESS", "PENDING", "FAILED"} :
         AddSpendBundle(Head(todo), status) \/ TooSlow(Head(todo), status)
    /\ UNCHANGED <<chain_vars, block_height, mempool_peak, seen, in_flight, spent_coins,
                   finishing, handler, overtaken>>

Next ==
    \/ \E t \in Txs : SubmitPresent(t)
    \/ \E h \in Handlers :
         \/ \E t \in Txs : Submit(h, t)
         \/ PreValidated(h)
         \/ AddTransaction(h)
    \/ \E b \in Blocks : AddBlock(b) \/ SyncBlock(b)
    \/ EndBatch \/ EndSync \/ FinishSync
    \/ Readd \/ Drain \/ Retry

Spec == Init /\ [][Next]_vars

-----------------------------------------------------------------------------
InStep == lock = "free" /\ ~finishing

\* Every variable has its type.
TypeOK ==
    /\ items \in Seq([tx : Txs, lineage : Coins \cup {NoCoin}])
    /\ spends \subseteq Coins \X Txs
    /\ block_height \in Nat
    /\ mempool_peak \in TxBlocks \cup {GENESIS_CHALLENGE}
    /\ conflict_cache \in Seq(Txs)
    /\ pending_cache \in Seq(Txs)
    /\ seen \in Seq(Txs)
    /\ in_flight \subseteq Txs
    /\ lock \in {"free", "batch", "sync", "readd", "retry"}
    /\ spent_coins \subseteq Coins
    /\ finishing \in BOOLEAN
    /\ todo \in Seq(Txs)
    /\ handler \in [Handlers -> [pc : {"idle", "validating", "locking"}, tx : Txs]]
    /\ overtaken \in BOOLEAN

\* Whenever the lock is free, every item of the mempool fits the peak: its coins
\* are unspent, a fast forward spend is based on the version that is unspent now,
\* and its height locks are met.  A bundle pre-validated against an older peak
\* gets in only if that still holds.  This is not to say that a block can take it:
\* new_peak() may have moved a fast forward spend onto a version of another amount,
\* which is rejected when a block is built (perform_the_fast_forward()).  And once a
\* block was added between a long sync and its report, nothing is said of the pool
\* until new_peak() has built it anew.
ItemsFitPeak ==
    InStep /\ ~overtaken =>
        \A i \in ToSet(items) :
            /\ Effective(i.tx, i.lineage) \subseteq unspent
            /\ i.lineage # NoCoin => i.lineage = Lineage(ff[i.tx])
            /\ assert_height[i.tx] <= height[TxPeak(peak)]
            /\ height[TxPeak(peak)] < assert_before_height[i.tx]

\* No two items spend the same coin, unless both fast forward the same singleton:
\* also after a replacement, after the items of a reorganised chain are added
\* again, and after a spend was rebased onto a new version.
NoConflicts ==
    \A i, j \in ToSet(items) :
        \/ i.tx = j.tx
        \/ Effective(i.tx, i.lineage) \cap Effective(j.tx, j.lineage)
              \subseteq {i.lineage} \cap {j.lineage}

\* The index by coin has exactly the rows of the items, the fast forward spends
\* under their latest version: the next block that spends it will find them.
IndexExact == spends = UNION {{<<c, i.tx>> : c \in Effective(i.tx, i.lineage)} : i \in ToSet(items)}

\* The pool keeps to its size whatever add_to_pool() has to evict for the new
\* item, and an item is in it once, however often it is retried.
PoolWithinLimit ==
    /\ TotalCost(Names(items)) <= max_size_in_cost
    /\ Cardinality(Names(items)) = Len(items)

\* What waits for a height waits for one that the peak has not reached: nothing
\* that is due is left behind when new_peak() returns.
PendingIsEarly ==
    InStep => \A t \in ToSet(pending_cache) : assert_height[t] > height[TxPeak(peak)]

\* The two caches keep to their bounds in cost and number.
CachesWithinLimit ==
    \A cache \in {conflict_cache, pending_cache} :
        TotalCost(ToSet(cache)) <= cache_max_total_cost /\ Len(cache) <= cache_max_size
==============================================================================
