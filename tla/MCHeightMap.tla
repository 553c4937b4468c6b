---------------------------- MODULE MCHeightMap ------------------------------
(***************************************************************************)
(* Two trees of blocks whose branches overtake each other.  A star marks a *)
(* block with a sub-epoch summary.                                         *)
(*                                                                         *)
(*   rising:   g -- a1* - a2 -- a3* - a4     no block is heavier than a    *)
(*              \-- b1* - b2 -- b3 -- b4*    higher one; c3 is as heavy as *)
(*                          \-- c3           b3, with fewer iterations     *)
(*                                                                         *)
(*   falling:  g -- a1 -- a2* - a3 -- a4     b1 is heavier than a3, which  *)
(*              \-- b1                       is higher; a4 is heavier yet  *)
(***************************************************************************)
EXTENDS HeightMap, TLC

GEN == "genesis_challenge"

RisingPrev ==
    "g"  :> GEN  @@ "a1" :> "g"  @@ "a2" :> "a1" @@ "a3" :> "a2" @@ "a4" :> "a3" @@
    "b1" :> "g"  @@ "b2" :> "b1" @@ "b3" :> "b2" @@ "b4" :> "b3" @@ "c3" :> "b2"
RisingWeight ==
    "g"  :> 1  @@ "a1" :> 10 @@ "a2" :> 20 @@ "a3" :> 30 @@ "a4" :> 40 @@
    "b1" :> 15 @@ "b2" :> 25 @@ "b3" :> 35 @@ "b4" :> 45 @@ "c3" :> 35
RisingSubEpochs == {"a1", "b1", "a3", "b4"}

FallingPrev ==
    "g" :> GEN @@ "a1" :> "g" @@ "a2" :> "a1" @@ "a3" :> "a2" @@ "a4" :> "a3" @@ "b1" :> "g"
FallingWeight ==
    "g" :> 1 @@ "a1" :> 10 @@ "a2" :> 20 @@ "a3" :> 30 @@ "a4" :> 50 @@ "b1" :> 40
FallingSubEpochs == {"a2"}

RisingBlocks == DOMAIN RisingPrev
FallingBlocks == DOMAIN FallingPrev

MCAnc[b \in Tips] == IF b = GEN THEN {} ELSE {b} \cup MCAnc[prev_hash[b]]
MCheight[b \in Tips] == IF b = GEN THEN -1 ELSE 1 + MCheight[prev_hash[b]]

MCiters == [b \in Blocks |-> IF b = "c3" THEN 35 ELSE 10 * (height[b] + 1)]

\* The height map does not look at coins.
NoCoins == [b \in Blocks |-> {}]
NoParents == [c \in {} |-> c]
==============================================================================
