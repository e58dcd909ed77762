--------------------------- MODULE MC_MempoolTxs ---------------------------
EXTENDS MempoolTxs, TLC

CONSTANTS x1, x2, x3, x4, x5, a1, a2, nativeTok, otherTok

MCTxs == {x1, x2, x3, x4, x5}
MCTokens == {nativeTok, otherTok}

\* x1 pays enough in both tokens, x2 only in otherTok (its native fee is
\* below the minimum per byte), x3 pays nothing, x4 spends more than it
\* has (underflow) and x5's inputs overflow.
MCFEES_PER_BYTE == [k \in MCTokens |-> IF k = nativeTok THEN 1 ELSE 2]
IO(a, k, n) == [acc |-> a, token |-> k, amount |-> n]
MCVin == (x1 :> <<IO(a1, nativeTok, 3), IO(a1, otherTok, 2)>> @@
          x2 :> <<IO(a2, nativeTok, 1), IO(a2, otherTok, 5)>> @@
          x3 :> <<IO(a1, nativeTok, 1)>> @@
          x4 :> <<IO(a2, nativeTok, 1)>> @@
          x5 :> <<IO(a2, nativeTok, 3), IO(a2, nativeTok, 3)>>)
\* x1 and x2 pay each other and x3 pays a2: a2's native balance 0 survives
\* x2's debit only when x1 or x3 is listed before x2.
MCVout == (x1 :> <<IO(a2, nativeTok, 1)>> @@
           x2 :> <<IO(a1, otherTok, 1)>> @@
           x3 :> <<IO(a2, nativeTok, 1)>> @@
           x4 :> <<IO(a1, nativeTok, 2)>> @@
           x5 :> <<IO(a1, nativeTok, 1)>>)
\* a1 signs x1 and x3 with consecutive nonces; a2's x2 reuses nonce 0
MCNonce == (x1 :> 0 @@ x2 :> 0 @@ x3 :> 1 @@ x4 :> 2 @@ x5 :> 3)
\* uint64 shrunk so that x5's two inputs of 3 overflow
SmallU64 == 5
MCSize == [t \in MCTxs |-> IF t = x1 THEN 1 ELSE 2]

\* Every batch of one or two transactions, repeats included.
MaxBatch == 2
MCBatches == UNION {[1..n -> MCTxs] : n \in 1..MaxBatch}
MCCalls == 4
=============================================================================
