\* Remove requests against every backlog and applied-set state: removeTxs
\* never stores its filtered list, and a hash in txsMap but not in txsList
\* (an explicit add that failed) gives newList a negative length.
CONSTANTS
    t1 = t1  t2 = t2  t3 = t3  t4 = t4  a1 = a1  a2 = a2  h1 = h1  h2 = h2
    NilHash = NilHash  NoWork = NoWork  NoMsg = NoMsg
    Txs <- MCTxs
    Accounts <- MCAccounts
    From <- MCFrom
    To <- MCTo
    Nonce <- MCNonce
    Amount <- MCAmount
    Size <- MCSize
    Fee <- MCFee
    ChainState <- MCChainState
    InitialTip = h1
    MaxBalance <- TightBalance
    BLOCK_MAX_SIZE <- LargeBlock
    Hashes <- MCHashes
    ContinueValues = {TRUE}
    RemoveSets <- Singletons
    MaxSends <- MCMaxSends
SPECIFICATION Spec
INVARIANT RemovePurges
\* The worker blocks forever in its select once the callers stop sending,
\* and a panic ends the node.
CHECK_DEADLOCK FALSE
