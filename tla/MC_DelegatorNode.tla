------------------------- MODULE MC_DelegatorNode -------------------------
EXTENDS DelegatorNode, TLC

CONSTANTS c1, c2, d1

\* A block may confirm c1's delegation to d1 with the node's fee, or with
\* too low a fee, or say nothing about it.
MCUpdates == {[acc |-> c1, stored |-> "update", delegate |-> d1, fee |-> 1],
              [acc |-> c1, stored |-> "update", delegate |-> d1, fee |-> 0]}

\* The code's 10 blocks shrunk to 2: the order in which the goroutines see
\* heights and account changes does not depend on the window's length.
ShortExpiry == 2
MCMaxHeight == 4
=============================================================================
