CONSTANTS
    x1 = x1
    x2 = x2
    x3 = x3
    x4 = x4
    x5 = x5
    a1 = a1
    a2 = a2
    nativeTok = nativeTok
    otherTok = otherTok
    Txs <- MCTxs
    Accounts = {a1, a2}
    Nonce <- MCNonce
    Tokens <- MCTokens
    NATIVE_TOKEN = nativeTok
    FEES_PER_BYTE <- MCFEES_PER_BYTE
    Vin <- MCVin
    Vout <- MCVout
    MaxU64 <- SmallU64
    Size <- MCSize
    BadBloom = {}
    Batches <- MCBatches
    IdBatches <- MCBatches
    MaxCalls <- MCCalls
SPECIFICATION Spec
INVARIANT TypeOK UniqueHashes CountMatchesList FeeBackedByInputs BalanceOfPending NonceAfterPending
CHECK_DEADLOCK FALSE
PROPERTY PoolRefinement
