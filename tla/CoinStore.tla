------------------------------ MODULE CoinStore ------------------------------
(***************************************************************************)
(* chia/full_node/coin_store.py: the table coin_record, which "always only *)
(* represents a single peak".  It is kept here by column: ci[c] is the     *)
(* confirmed_index of coin c, or NoRow if the table has no row for c; si[c]*)
(* is its spent_index: a positive height if spent, 0 if unspent, -1 if     *)
(* unspent and a candidate for singleton fast forward.                     *)
(*                                                                         *)
(* A ForkInfo carries the coins a fork creates and spends as two           *)
(* dictionaries from coin to height; here they are functions that are NoRow*)
(* at the coins they do not hold.                                          *)
(***************************************************************************)
EXTENDS BlockTree

NoRow == -1

EmptyDict == [c \in Coins |-> NoRow]

\* spent_index of an unspent coin: new_block() writes -1 for a coin a spend
\* has created with the puzzle hash and the amount of the coin it spent.
UnspentIndex(c) == IF c \in SameAsParent THEN -1 ELSE 0

(***************************************************************************)
(* rollback_to_block(h): delete the rows confirmed above h, then make the  *)
(* coins spent above h unspent.  The fast-forward marker is restored when  *)
(* the (surviving) parent row is spent and has the same puzzle hash and    *)
(* amount.                                                                 *)
(***************************************************************************)
RolledBackConfirmed(ci, h) ==
    [c \in Coins |-> IF ci[c] > h THEN NoRow ELSE ci[c]]

\* Mutant: a coin that is unspent again loses its fast-forward marker.
RestoredToZero(ci, si, h, c) == 0

RestoredIndex(ci, si, h, c) ==
    IF c \in SameAsParent
       /\ RolledBackConfirmed(ci, h)[coin_parent[c]] # NoRow
       /\ si[coin_parent[c]] > 0
    THEN -1 ELSE 0

\* Mutant: coins spent above h stay spent.
RolledBackSpentKept(ci, si, h) ==
    [c \in Coins |-> IF RolledBackConfirmed(ci, h)[c] = NoRow THEN 0 ELSE si[c]]

RolledBackSpent(ci, si, h) ==
    [c \in Coins |->
        CASE RolledBackConfirmed(ci, h)[c] = NoRow -> 0
          [] RolledBackConfirmed(ci, h)[c] # NoRow /\ si[c] > h /\ si[c] > 0
                -> RestoredIndex(ci, si, h, c)
          [] OTHER -> si[c]]

(***************************************************************************)
(* new_block() for every transaction block of a fork, in height order: the *)
(* fork's additions are inserted, then its removals are marked spent.  Each*)
(* coin is in either dictionary at one height at most, so the result of the*)
(* whole sequence has a closed form.                                       *)
(***************************************************************************)
AddedConfirmed(ci, adds) ==
    [c \in Coins |-> IF adds[c] # NoRow THEN adds[c] ELSE ci[c]]

AddedSpent(si, adds, rems) ==
    [c \in Coins |-> CASE rems[c] # NoRow -> rems[c]
                       [] rems[c] = NoRow /\ adds[c] # NoRow -> UnspentIndex(c)
                       [] OTHER -> si[c]]

\* The sequence raises when an inserted coin already has a row (coin_name is
\* the primary key) or when _set_spent() finds a removed coin missing or spent.
NewBlocksRaise(ci, si, adds, rems) ==
    \E c \in Coins :
        \/ adds[c] # NoRow /\ ci[c] # NoRow
        \/ /\ rems[c] # NoRow
           /\ ~ \/ adds[c] # NoRow /\ adds[c] <= rems[c]
                \/ ci[c] # NoRow /\ si[c] <= 0

(***************************************************************************)
(* The reference: the table a node would have after applying exactly the   *)
(* blocks of the chain that ends in p.                                     *)
(***************************************************************************)
CoinStoreOf(ci, si, p) ==
    \A c \in Coins :
        /\ \A a \in Anc[p] : c \in Additions(a) => ci[c] = height[a]
        /\ (\A a \in Anc[p] : c \notin Additions(a)) => ci[c] = NoRow /\ si[c] = 0
        /\ \A a \in Anc[p] : c \in removals[a] => si[c] = height[a]
        /\ (/\ \E a \in Anc[p] : c \in Additions(a)
            /\ \A a \in Anc[p] : c \notin removals[a]) => si[c] = UnspentIndex(c)

\* The additions and removals of a fork are exactly those of its blocks bs.
ForkDictsExact(bs, adds, rems) ==
    \A c \in Coins :
        /\ \A a \in bs : c \in Additions(a) => adds[c] = height[a]
        /\ \A a \in bs : c \in removals[a] => rems[c] = height[a]
        /\ (\A a \in bs : c \notin Additions(a)) => adds[c] = NoRow
        /\ (\A a \in bs : c \notin removals[a]) => rems[c] = NoRow
==============================================================================
