\* Continues of both kinds and a block too small for every tx: a continue
\* with an error keeps the template while accs is rebuilt, and a valid tx
\* that does not fit is neither committed nor rolled back.
CONSTANTS
    t1 = t1  t2 = t2  t3 = t3  t4 = t4  a1 = a1  a2 = a2  h1 = h1  h2 = h2
    NilHash = NilHash  NoWork = NoWork  NoMsg = NoMsg
    Txs <- MCTxs
    Accounts <- MCAccounts
    From <- MCFrom
    To <- MCTo
    Nonce <- MCNonce
    Amount <- MCAmount
    Size <- MCSize
    Fee <- MCFee
    ChainState <- MCChainState
    InitialTip = h1
    MaxBalance <- RoomyBalance
    BLOCK_MAX_SIZE <- SmallBlock
    Hashes <- MCHashes
    ContinueValues = {TRUE, FALSE}
    RemoveSets <- Singletons
    MaxSends <- MCMaxSends
SPECIFICATION Spec
INVARIANT TemplateValid
\* The worker blocks forever in its select once the callers stop sending,
\* and a panic ends the node.
CHECK_DEADLOCK FALSE
