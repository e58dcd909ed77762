CONSTANTS
    c1 = c1
    c2 = c2
    d1 = d1
    Accounts = {c1}
    DelegateKeys = {d1}
    Updates <- MCUpdates
    DELEGATOR_FEE = 1
    Expiry <- ShortExpiry
    MaxHeight <- MCMaxHeight
SPECIFICATION Spec
PROPERTY ConfirmedRegistered
\* The chain stops at MaxHeight and the goroutines then block on their
\* channels and the ticker.
CHECK_DEADLOCK FALSE
