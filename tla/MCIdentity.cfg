CONSTANTS
    Login = {l1}
    Tx = {t1, t2, t3}
    Token = {k1, k2}
    Initial = Initial
    NoPassword = NoPassword
    NoTx = NoTx
SPECIFICATION LiveSpec
CHECK_DEADLOCK FALSE
INVARIANTS
    TypeOK
    NoSessionOpenedAfterSuspension
    EarlierSessionsAreRevoked
    ResetTokensAreSpent
    OnlyDeletionsDeadlock
PROPERTIES
    TransitionsAreComplete
    NoPasswordIsLost
    RequestsEnd
