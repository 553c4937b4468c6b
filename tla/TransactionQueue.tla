-------------------------- MODULE TransactionQueue ---------------------------
(***************************************************************************)
(* chia/full_node/tx_processing_queue.py and the loop of the full node that*)
(* drains it (_handle_transactions, _handle_one_transaction).              *)
(*                                                                         *)
(* Transactions that peers sent wait in one priority queue per peer, local *)
(* ones in a high priority queue.  A single task pops them by a deficit    *)
(* round robin over the peers, measured in CLVM cost, and hands each to a  *)
(* handler task; a semaphore counts the entries and another bounds the     *)
(* handlers.                                                               *)
(*                                                                         *)
(* pop() does not suspend between the semaphore and its return, so while   *)
(* popper = "select" no other action is possible; its loop is modelled one *)
(* iteration per step.  A put that raises TransactionQueueFull changes     *)
(* nothing: its caller drops the transaction, or tries the next peer that  *)
(* advertised it, which is a Put of that peer.                             *)
(***************************************************************************)
EXTENDS Subsequences, SequencesExt, FiniteSetsExt

CONSTANTS
    Peers,
    Entries,            \* what a peer may queue: a transaction and what the peer advertised of it
    spend_name,         \* the order of the entries' names, which breaks ties of priority
    advertised_fee,
    advertised_cost,    \* 0: the peer advertised nothing for this transaction
    max_tx_clvm_cost,   \* the fallback for entries without cost
    peer_size_limit,
    cleanup_period,     \* 100 in the code
    max_handlers,       \* the add_transaction_semaphore, 200 in the code
    HighBound,          \* bound on the high priority transactions of a behaviour
    QueuedBound,        \* bound on the peers' entries that wait at once
    Watched             \* a pair of peers, the ones the history `lead` compares

ASSUME PeersAssumption == IsFiniteSet(Peers) /\ Watched \in Peers \X Peers
ASSUME EntriesAssumption ==
    /\ IsFiniteSet(Entries) /\ Entries # {}
    /\ spend_name \in [Entries -> Nat]
    /\ \A e, f \in Entries : e # f => spend_name[e] # spend_name[f]
    /\ advertised_fee \in [Entries -> Nat]
    /\ advertised_cost \in [Entries -> Nat]
ASSUME BoundsAssumption ==
    /\ max_tx_clvm_cost \in Nat \ {0}
    /\ peer_size_limit \in Nat \ {0}
    /\ cleanup_period \in Nat \ {0}
    /\ max_handlers \in Nat \ {0}
    /\ HighBound \in Nat
    /\ QueuedBound \in Nat

VARIABLES
    list_cursor,         \* _list_cursor, an index from 0
    index_to_peer_map,   \* _index_to_peer_map
    queued,              \* priority_queue of each peer, a bag of entries
    deficit,             \* deficit of each peer; 0 for a peer without a queue
    high_priority,       \* the number of entries in _high_priority_queue
    queue_length,        \* the value of the semaphore _queue_length
    cleanup_counter,     \* _cleanup_counter
    popper,              \* _handle_transactions: "slot" awaits a handler slot, "pop" awaits
                         \* the queue length, "granted" was woken, "select" is in the loop
    handlers,            \* running _handle_one_transaction tasks
    high_puts,           \* high priority puts so far
    lead                 \* history: cost served to Watched[1] less cost served to Watched[2]
                         \* since both have had a transaction waiting

vars == <<list_cursor, index_to_peer_map, queued, deficit, high_priority, queue_length,
          cleanup_counter, popper, handlers, high_puts, lead>>

-----------------------------------------------------------------------------
\* The copies of the entries in a queue, numbered
Items(q) == UNION {{e} \X (1..q[e]) : e \in Entries}

Size(q) == Cardinality(Items(q))

TotalQueued == Cardinality(UNION {{p} \X Items(queued[p]) : p \in Peers})

IsEmptyQueue(q) == \A e \in Entries : q[e] = 0

Backlogged(p) == ~IsEmptyQueue(queued[p])

Registered == {index_to_peer_map[i] : i \in DOMAIN index_to_peer_map}

\* "If we don't know the cost information for this transaction we fallback to
\* the highest cost."
Cost(e) == IF advertised_cost[e] > 0 THEN advertised_cost[e] ELSE max_tx_clvm_cost

\* (priority, entry) of e is below that of f: a higher fee per cost, nothing
\* advertised last, and the name on a tie
Precedes(e, f) ==
    LET feeE == advertised_fee[e] * advertised_cost[f]
        feeF == advertised_fee[f] * advertised_cost[e]
        knownE == advertised_cost[e] > 0
        knownF == advertised_cost[f] > 0
    IN  \/ knownE /\ ~knownF
        \/ knownE /\ knownF /\ feeE > feeF
        \/ /\ knownE <=> knownF
           /\ knownE => feeE = feeF
           /\ spend_name[e] < spend_name[f]

\* priority_queue.queue[0]
Top(q) == CHOOSE e \in Entries : q[e] > 0 /\ \A f \in Entries : q[f] > 0 => f = e \/ Precedes(e, f)

TopCost(p) == Cost(Top(queued[p]))

CanAfford(p) == Backlogged(p) /\ deficit[p] >= TopCost(p)

-----------------------------------------------------------------------------
Init ==
    /\ list_cursor = 0
    /\ index_to_peer_map = <<>>
    /\ queued = [p \in Peers |-> [e \in Entries |-> 0]]
    /\ deficit = [p \in Peers |-> 0]
    /\ high_priority = 0
    /\ queue_length = 0
    /\ cleanup_counter = 0
    /\ popper = "slot"
    /\ handlers = 0
    /\ high_puts = 0
    /\ lead = 0

\* Mutant: the semaphore hands the unit to the waiter and keeps it as well.
ReleaseTwice ==
    /\ queue_length' = queue_length + 1
    /\ popper' = IF popper = "pop" THEN "granted" ELSE popper

\* _queue_length.release(): a waiting popper takes the unit at once.
Release ==
    \/ /\ popper = "pop"
       /\ popper' = "granted"
       /\ UNCHANGED queue_length
    \/ /\ popper # "pop"
       /\ queue_length' = queue_length + 1
       /\ UNCHANGED popper

\* put() of a local transaction
PutHigh ==
    /\ popper # "select"
    /\ high_puts < HighBound
    /\ high_puts' = high_puts + 1
    /\ high_priority' = high_priority + 1
    /\ Release
    /\ UNCHANGED <<list_cursor, index_to_peer_map, queued, deficit, cleanup_counter, handlers, lead>>

\* put() of a peer's transaction, unless its queue is full
Put(p, e) ==
    /\ popper # "select"
    /\ Size(queued[p]) < peer_size_limit
    /\ TotalQueued < QueuedBound
    /\ index_to_peer_map' = IF p \in Registered THEN index_to_peer_map ELSE Append(index_to_peer_map, p)
    /\ queued' = [queued EXCEPT ![p][e] = @ + 1]
    /\ Release
    /\ UNCHANGED <<list_cursor, deficit, high_priority, cleanup_counter, handlers, high_puts, lead>>

\* _handle_transactions acquires a handler slot and calls pop().
BeginPop ==
    /\ popper = "slot"
    /\ handlers < max_handlers
    /\ \/ /\ queue_length > 0
          /\ queue_length' = queue_length - 1
          /\ popper' = "select"
       \/ /\ queue_length = 0
          /\ popper' = "pop"
          /\ UNCHANGED queue_length
    /\ UNCHANGED <<list_cursor, index_to_peer_map, queued, deficit, high_priority, cleanup_counter,
                   handlers, high_puts, lead>>

\* The event loop runs the popper again.
ResumePop ==
    /\ popper = "granted"
    /\ popper' = "select"
    /\ UNCHANGED <<list_cursor, index_to_peer_map, queued, deficit, high_priority, queue_length,
                   cleanup_counter, handlers, high_puts, lead>>

\* The popped entry gets its handler task, and the loop starts again.
Dispatch ==
    /\ popper' = "slot"
    /\ handlers' = handlers + 1

TakeHigh ==
    /\ popper = "select"
    /\ high_priority > 0
    /\ high_priority' = high_priority - 1
    /\ Dispatch
    /\ UNCHANGED <<list_cursor, index_to_peer_map, queued, deficit, queue_length, cleanup_counter,
                   high_puts, lead>>

\* The peer that the loop looks at after `offset` others
PeerAt(offset) == index_to_peer_map[((list_cursor + offset) % Len(index_to_peer_map)) + 1]

\* Mutant: the cursor is not wrapped when peers are removed.
CleanupKeepingCursor(q, c) ==
    /\ index_to_peer_map' = Keep(index_to_peer_map, {p \in Peers : ~IsEmptyQueue(q[p])})
    /\ list_cursor' = c

\* Mutant: the peers that still have entries are removed.
CleanupOthers(q, c) ==
    /\ index_to_peer_map' = Keep(index_to_peer_map, {p \in Peers : IsEmptyQueue(q[p])})
    /\ list_cursor' = 0

\* The cursor after the loop of _cleanup_peer_queues() over the map, which
\* compares each index with the cursor as already decremented
CursorAfter(q, c) ==
    LET map == index_to_peer_map
        Cursor[i \in 0..Len(map)] ==
            IF i = 0 THEN c
            ELSE Cursor[i-1] - (IF IsEmptyQueue(q[map[i]]) /\ i - 1 < Cursor[i-1] THEN 1 ELSE 0)
    IN  Cursor[Len(map)]

\* _cleanup_peer_queues() with the queues q and the cursor c that the pop leaves
Cleanup(q, c) ==
    LET kept == Keep(index_to_peer_map, {p \in Peers : ~IsEmptyQueue(q[p])})
    IN  /\ index_to_peer_map' = kept
        /\ list_cursor' = IF CursorAfter(q, c) >= Len(kept) THEN 0 ELSE CursorAfter(q, c)

\* Mutant: the deficit survives an empty queue.
DeficitKept(p, rest) == deficit[p] - TopCost(p)

\* Mutant: serving a transaction costs nothing.
DeficitFree(p, rest) == IF IsEmptyQueue(rest) THEN 0 ELSE deficit[p]

\* The deficit of p after its top transaction was taken, leaving `rest` queued
DeficitAfter(p, rest) == IF IsEmptyQueue(rest) THEN 0 ELSE deficit[p] - TopCost(p)

\* The history after p was served: it starts again when one of the two is empty.
LeadAfter(p, q) ==
    IF \E i \in 1..2 : IsEmptyQueue(q[Watched[i]])
    THEN 0
    ELSE lead + (IF p = Watched[1] THEN TopCost(p) ELSE 0) - (IF p = Watched[2] THEN TopCost(p) ELSE 0)

\* The first peer from the cursor on that can afford its top transaction sends it.
TakePeer(p) ==
    /\ popper = "select"
    /\ high_priority = 0
    /\ \E offset \in 0..(Len(index_to_peer_map) - 1) :
         LET rest == [queued[p] EXCEPT ![Top(queued[p])] = @ - 1]
             q == [queued EXCEPT ![p] = rest]
             cursor == (((list_cursor + offset) % Len(index_to_peer_map)) + 1) % Len(index_to_peer_map)
         IN  /\ PeerAt(offset) = p
             /\ CanAfford(p)
             /\ \A i \in 0..(offset - 1) : ~CanAfford(PeerAt(i))
             /\ queued' = q
             /\ deficit' = [deficit EXCEPT ![p] = DeficitAfter(p, rest)]
             /\ cleanup_counter' = (cleanup_counter + 1) % cleanup_period
             /\ \/ cleanup_counter' = 0 /\ Cleanup(q, cursor)
                \/ /\ cleanup_counter' # 0
                   /\ list_cursor' = cursor
                   /\ UNCHANGED index_to_peer_map
             /\ lead' = LeadAfter(p, q)
    /\ Dispatch
    /\ UNCHANGED <<high_priority, queue_length, high_puts>>

\* Mutant: a peer that can afford nothing gets the cost of its own transaction.
OwnCost(p) == deficit[p] + TopCost(p)

\* Mutant: the lowest cost is taken over the advertised costs, without the fallback.
ToppedByAdvertised(p) ==
    deficit[p] + Min({advertised_cost[Top(queued[r])] : r \in {s \in Registered : Backlogged(s)}})

\* The deficit of a peer that has entries, after a round in which no one could pay
Topped(p) == deficit[p] + Min({TopCost(r) : r \in {s \in Registered : Backlogged(s)}})

\* "None of the peers could afford to send their top transactions."
AddDeficits ==
    /\ popper = "select"
    /\ high_priority = 0
    /\ \A p \in Registered : ~CanAfford(p)
    /\ \E p \in Registered : Backlogged(p)
    /\ deficit' = [p \in Peers |-> IF p \in Registered /\ Backlogged(p) THEN Topped(p) ELSE deficit[p]]
    /\ UNCHANGED <<list_cursor, index_to_peer_map, queued, high_priority, queue_length,
                   cleanup_counter, popper, handlers, high_puts, lead>>

\* _handle_one_transaction() ends, with or without an error, and releases its slot.
EndHandler ==
    /\ popper # "select"
    /\ handlers > 0
    /\ handlers' = handlers - 1
    /\ UNCHANGED <<list_cursor, index_to_peer_map, queued, deficit, high_priority, queue_length,
                   cleanup_counter, popper, high_puts, lead>>

Take == TakeHigh \/ \E p \in Peers : TakePeer(p)

Next ==
    \/ PutHigh
    \/ \E p \in Peers, e \in Entries : Put(p, e)
    \/ BeginPop
    \/ ResumePop
    \/ TakeHigh
    \/ \E p \in Peers : TakePeer(p)
    \/ AddDeficits
    \/ EndHandler

\* The event loop runs the popping task and the handlers, and add_transaction
\* returns.
Fairness ==
    /\ WF_vars(BeginPop)
    /\ WF_vars(ResumePop)
    /\ WF_vars(Take)
    /\ WF_vars(AddDeficits)
    /\ WF_vars(EndHandler)

Spec == Init /\ [][Next]_vars /\ Fairness

-----------------------------------------------------------------------------
Reserved == IF popper \in {"granted", "select"} THEN 1 ELSE 0

MaxCost == Max({Cost(e) : e \in Entries})

\* Every variable has its type; the cursor is a valid index, and a peer has one
\* place in the map.
TypeOK ==
    /\ index_to_peer_map \in Seq(Peers)
    /\ IsInjective(index_to_peer_map)
    /\ list_cursor \in 0..Len(index_to_peer_map)
    /\ list_cursor = 0 \/ list_cursor < Len(index_to_peer_map)
    /\ queued \in [Peers -> [Entries -> Nat]]
    /\ deficit \in [Peers -> Nat]
    /\ high_priority \in Nat
    /\ queue_length \in Nat
    /\ cleanup_counter \in 0..(cleanup_period - 1)
    /\ popper \in {"slot", "pop", "granted", "select"}
    /\ handlers \in 0..max_handlers
    /\ high_puts \in 0..HighBound
    /\ lead \in Int

\* The semaphore counts the entries of all the queues, less the one that the
\* popper has been granted and has not taken yet: pop() never finds the queues
\* empty, and no entry is left behind when the popper waits.
QueueLengthExact ==
    high_priority + TotalQueued = queue_length + Reserved

\* A peer with entries is in the map the popper goes through, whatever the
\* periodic cleanup removed: the two assertions of pop() hold.
BacklogReachable ==
    /\ \A p \in Peers : Backlogged(p) => p \in Registered
    /\ popper = "select" /\ high_priority = 0 => \E p \in Registered : Backlogged(p)

\* No peer hoards credit: what it has never reaches twice the highest cost, and
\* it keeps nothing when its queue runs empty.
DeficitBounded ==
    \A p \in Peers : /\ deficit[p] < 2 * MaxCost
                     /\ ~Backlogged(p) => deficit[p] = 0

\* Two peers that both have transactions waiting are served the same cost, up to
\* a constant: sending many or expensive transactions, or having them cleaned up,
\* buys no share.
CostFairness == lead < 4 * MaxCost /\ -lead < 4 * MaxCost

\* The loop of pop(), which never suspends, ends.
SelectionEnds == popper = "select" ~> popper = "slot"

\* A peer that always has a transaction waiting is served again and again.
PeerServed == \A p \in Peers : []<>(~Backlogged(p)) \/ []<><<TakePeer(p)>>_vars
==============================================================================
