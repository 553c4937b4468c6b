---------------------------- MODULE MCBlockchain -----------------------------
(***************************************************************************)
(* A block tree small enough for TLC in which every kind of reorganisation *)
(* happens.                                                                *)
(*                                                                         *)
(*   g -- a1 -- a2 -- a3          e3 : child of a2, spends nothing         *)
(*    \     \-- b2 -- b3          x3 : child of a2, spends r again         *)
(*     \          \-- d3          y3 : child of b2, spends k, which only   *)
(*      \-- c1 -- c2 -- c3             the a-chain has created             *)
(*                                                                         *)
(* r is a reward coin, k is created by spending r, m by spending k.  All   *)
(* three exist on several branches, confirmed and spent at different       *)
(* heights; b3 creates and spends k in one block.  b3 ties with a3 in      *)
(* weight and has fewer iterations.  c2 is heavier than both and lower.  A *)
(* reorganisation from a3 to e3 makes k unspent again.  z1 is malformed.   *)
(***************************************************************************)
EXTENDS Blockchain, TLC

GEN == "genesis_challenge"

\* The whole tree, and the part of it that the runs with two callers use.
AllBlocks == {"g", "a1", "a2", "a3", "e3", "b2", "b3", "d3", "c1", "c2", "c3", "x3", "y3", "z1"}
ThreeBranches == {"g", "a1", "a2", "b2", "d3", "c1", "c2"}

PrevOf ==
    "g"  :> GEN  @@ "a1" :> "g"  @@ "a2" :> "a1" @@ "a3" :> "a2" @@
    "b2" :> "a1" @@ "b3" :> "b2" @@ "d3" :> "b2" @@ "c1" :> "g"  @@
    "c2" :> "c1" @@ "c3" :> "c2" @@ "x3" :> "a2" @@ "y3" :> "b2" @@ "z1" :> "g"  @@
    "e3" :> "a2"

WeightOf ==
    "g"  :> 1  @@ "a1" :> 10 @@ "a2" :> 20 @@ "a3" :> 30 @@
    "b2" :> 15 @@ "b3" :> 30 @@ "d3" :> 35 @@ "c1" :> 5  @@
    "c2" :> 32 @@ "c3" :> 40 @@ "x3" :> 50 @@ "y3" :> 50 @@ "z1" :> 60 @@
    "e3" :> 33

MCprev == [b \in Blocks |-> PrevOf[b]]
MCAnc[b \in Tips] == IF b = GEN THEN {} ELSE {b} \cup MCAnc[PrevOf[b]]
MCheight[b \in Tips] == IF b = GEN THEN -1 ELSE 1 + MCheight[PrevOf[b]]
MCweight == [b \in Blocks |-> WeightOf[b]]
MCiters == [b \in Blocks |-> IF b = "b3" THEN 3 ELSE 4]
MCMalformed == Blocks \cap {"z1"}

MCCoins == {"r", "k", "m"}
MCparent == "k" :> "r" @@ "m" :> "k"
MCSameAsParent == {"k", "m"}

MCrewards == [b \in Blocks |-> IF b \in {"a1", "c2"} THEN {"r"} ELSE {}]

MCremovals ==
    [b \in Blocks |-> CASE b \in {"a2", "c3", "x3"} -> {"r"}
                        [] b \in {"a3", "y3"} -> {"k"}
                        [] b = "b3" -> {"r", "k"}
                        [] OTHER -> {}]

MCadditions ==
    [b \in Blocks |-> CASE b \in {"a2", "c3"} -> {"k"}
                        [] b = "a3" -> {"m"}
                        [] b = "b3" -> {"k", "m"}
                        [] OTHER -> {}]

CallerSymmetry == Permutations(Callers)
==============================================================================
