CONSTANTS
    Login = {l1}
    Tx = {t1, t2}
    Token = {k1}
    Initial = Initial
    NoPassword = NoPassword
    NoTx = NoTx
SPECIFICATION Spec
SYMMETRY IdentitySymmetry
CHECK_DEADLOCK FALSE
INVARIANTS
    InactiveHasNoSession
