------------------------- MODULE MCTransactionQueue --------------------------
(***************************************************************************)
(* Three peers; a cheap transaction with a high fee, and one without       *)
(* advertised cost, which counts as the most expensive.                    *)
(***************************************************************************)
EXTENDS TransactionQueue

CONSTANTS p1, p2, p3, cheap, unknown

MCPeers == {p1, p2, p3}
MCEntries == {cheap, unknown}
MCName == cheap :> 1 @@ unknown :> 2
MCFee == cheap :> 2 @@ unknown :> 0
MCCost == cheap :> 1 @@ unknown :> 0
MCWatched == <<p1, p2>>
==============================================================================
