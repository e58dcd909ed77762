------------------------- MODULE MC_MempoolWorker -------------------------
(***************************************************************************)
(* Instances of MempoolWorker for TLC.  Four transfers between two         *)
(* accounts:                                                               *)
(*   t1  a1 -> a2, nonce 0, amount 1                                        *)
(*   t2  a1 -> a2, nonce 1, amount 1   (depends on t1)                      *)
(*   t3  a1 -> a2, nonce 2, amount 0   (depends on t2)                      *)
(*   t4  a1 -> a2, nonce 0, amount 1   (spends the same nonce as t1)        *)
(* a2 starts with balance 1, so with MaxBalance 2 the credit of t2 after   *)
(* t1 overflows after a1 was already debited (a partial failure).          *)
(***************************************************************************)
EXTENDS MempoolWorker, TLC

CONSTANTS t1, t2, t3, t4, a1, a2, h1, h2

MCTxs == {t1, t2, t3, t4}
MCAccounts == {a1, a2}
MCFrom == [t \in MCTxs |-> a1]
MCTo == [t \in MCTxs |-> a2]
MCNonce == (t1 :> 0 @@ t2 :> 1 @@ t3 :> 2 @@ t4 :> 0)
MCAmount == (t1 :> 1 @@ t2 :> 1 @@ t3 :> 0 @@ t4 :> 1)
MCSize == (t1 :> 1 @@ t2 :> 2 @@ t3 :> 1 @@ t4 :> 1)
MCFee == (t1 :> 1 @@ t2 :> 3 @@ t3 :> 2 @@ t4 :> 2)
MCGenesis == (a1 :> [nonce |-> 0, balance |-> 2] @@ a2 :> [nonce |-> 0, balance |-> 1])
\* h1: a tip with the genesis state; h2: a block that includes t1 on top of it
AfterT1 == (a1 :> [nonce |-> 1, balance |-> 1] @@ a2 :> [nonce |-> 0, balance |-> 2])
MCChainState == [h \in Hashes |-> IF h = h2 THEN AfterT1 ELSE MCGenesis]
MCHashes == {h1}
TwoTips == {h1, h2}

\* config.BLOCK_MAX_SIZE: 3 lets t2 overflow the block after t1; 5 holds them all
SmallBlock == 3
LargeBlock == 5

\* AddBalance overflow: 2 makes t2's credit overflow after t1, 3 does not
TightBalance == 2
RoomyBalance == 3

Singletons == {{t} : t \in MCTxs}

MCMaxSends == [work |-> 2, suspend |-> 1, continue |-> 1, add |-> 3, remove |-> 1]

=============================================================================
