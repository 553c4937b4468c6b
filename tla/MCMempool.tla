------------------------------ MODULE MCMempool ------------------------------
(***************************************************************************)
(*   g -- a1 -- a2           a1 and b3 move a singleton, s0 -> s1 -> s2;   *)
(*          \-- n2 -- b3     a2 moves it to another amount, s1 -> t -> u    *)
(*                                                                         *)
(* n2 is not a transaction block and is preferred to a2: it brings s1 back,*)
(* and may overtake the report of a sync that ended in a2.  b3 follows a1  *)
(* by the fast path.  a2 and b3 also spend c1.                             *)
(***************************************************************************)
EXTENDS Mempool, TLC

GEN == "genesis_challenge"
MCBlocks == {"g", "a1", "a2", "n2", "b3"}
MCTxBlocks == {"g", "a1", "a2", "b3"}
PrevOf == "g" :> GEN @@ "a1" :> "g" @@ "a2" :> "a1" @@ "n2" :> "a1" @@ "b3" :> "n2"
MCprev == [b \in Blocks |-> PrevOf[b]]
MCAnc[b \in Tips] == IF b = GEN THEN {} ELSE {b} \cup MCAnc[PrevOf[b]]
MCheight[b \in Tips] == IF b = GEN THEN -1 ELSE 1 + MCheight[PrevOf[b]]
MCweight == [b \in Blocks |-> MCheight[b] + 1]
MCiters == [b \in Blocks |-> IF b = "n2" THEN 1 ELSE 2]
MCMalformed == {}

MCCoins == {"c1", "c2", "c3", "c4", "s0", "s1", "s2", "t", "u"}
MCparent == "s1" :> "s0" @@ "s2" :> "s1" @@ "u" :> "t"
MCSameAsParent == {"s1", "s2", "u"}
MCsingleton == [c \in Coins |-> IF c \in {"s0", "s1", "s2", "t", "u"} THEN "s" ELSE c]
MCamount == [c \in Coins |-> IF c \in {"t", "u"} THEN 3 ELSE 1]
MCrewards == [b \in Blocks |-> IF b = "g" THEN {"c1", "c2", "c3", "c4", "s0"} ELSE {}]
MCremovals ==
    [b \in Blocks |-> CASE b = "a1" -> {"s0"} [] b = "a2" -> {"c1", "s1", "t"} [] b = "b3" -> {"c1", "s1"}
                        [] OTHER -> {}]
MCadditions == 
    [b \in Blocks |-> CASE b = "a1" -> {"s1"} [] b = "a2" -> {"t", "u"} [] b = "b3" -> {"s2"} [] OTHER -> {}]

(***************************************************************************)
(* both replaces one, which waits in the conflict cache while both is in   *)
(* the pool; late and later wait for their heights; fwd and plain spend    *)
(* the singleton, one by fast forward and one not.  one, both and plain    *)
(* expire at height 3: from height 1 on they expire soon.                  *)
(***************************************************************************)
MCTxs == {"one", "both", "late", "later", "fwd", "plain"}
MCspends == "one" :> {"c2"} @@ "both" :> {"c1", "c2"} @@ "late" :> {"c4"} @@ "later" :> {"c2"} @@
            "fwd" :> {"c3", "s0"} @@ "plain" :> {"s1"}
MCff == [t \in Txs |-> IF t = "fwd" THEN "s0" ELSE NoCoin]
MCfee == "one" :> 1 @@ "both" :> 6 @@ "late" :> 3 @@ "later" :> 2 @@ "fwd" :> 3 @@ "plain" :> 2
MCcost == [t \in Txs |-> IF t \in {"both", "late"} THEN 2 ELSE 1]
MCassert_height == [t \in Txs |-> CASE t = "late" -> 2 [] t = "later" -> 3 [] OTHER -> 0]
MCbefore == [t \in Txs |-> IF t \in {"one", "both", "plain"} THEN 3 ELSE NoHeight]
==============================================================================
