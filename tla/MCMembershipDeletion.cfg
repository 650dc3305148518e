CONSTANTS
    u1 = u1
    u2 = u2
    u3 = u3
    u4 = u4
    a1 = a1
    a2 = a2
    a3 = a3
    a4 = a4
    i1 = i1
    i2 = i2
    User = {u1, u2, u3, u4}
    Mail = {a1, a2, a3, a4}
    Unborn = Unborn
    Gone = Gone
    Invitation = {i1}
    Tx = {t1, t2}
    Outsider = Outsider
    NoUser = NoUser
    Kinds = {"update", "delete"}
    Asked <- Demotion
    Offered <- Offers
    FirstMail <- Addresses
    FirstMember <- Administrators12
    FirstPlatform <- PlatformAdministrator
    FirstInvitation <- Invited
SPECIFICATION Spec
SYMMETRY TxSymmetry
CHECK_DEADLOCK FALSE
PROPERTIES
    UpdateKeepsAdministrator
