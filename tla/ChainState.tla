----------------------------- MODULE ChainState ------------------------------
(***************************************************************************)
(* What a full node's chain database promises, with no fork points,        *)
(* transactions, caches or failures: a set of stored blocks, the peak among*)
(* them, and the coins that are unspent at the peak.  The one operation    *)
(* stores a block.                                                         *)
(***************************************************************************)
EXTENDS BlockTree

VARIABLES stored, peak, unspent

\* The coins that the chain ending in p has created and not spent
UnspentAt(p) ==
    {c \in Coins : /\ \E a \in Anc[p] : c \in Additions(a)
                   /\ \A a \in Anc[p] : c \notin removals[a]}

\* b replaces p as the peak: it is heavier, or as heavy with fewer iterations.
Better(b, p) ==
    \/ p = GENESIS_CHALLENGE
    \/ /\ prev_hash[b] # GENESIS_CHALLENGE
       /\ \/ weight[b] > weight[p]
          \/ weight[b] = weight[p] /\ total_iters[b] < total_iters[p]

Init ==
    /\ stored = {}
    /\ peak = GENESIS_CHALLENGE
    /\ unspent = {}

StoreBlock(b) ==
    /\ b \notin stored
    /\ ValidBlock(b)
    /\ prev_hash[b] \in stored \cup {GENESIS_CHALLENGE}
    /\ stored' = stored \cup {b}
    /\ peak' = IF Better(b, peak) THEN b ELSE peak
    /\ unspent' = UnspentAt(peak')

Next == \E b \in Blocks : StoreBlock(b)

Spec == Init /\ [][Next]_<<stored, peak, unspent>>
==============================================================================
