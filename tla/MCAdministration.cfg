CONSTANTS
    d1 = d1
    d2 = d2
    x1 = x1
    x2 = x2
    Edit = {t1, t2, t3}
    Owner = {o1, p1}
    Platform = {p1}
    Nobody = Nobody
    Document = {d1, d2}
    NoDocument = NoDocument
    Entry = {x1, x2}
    Names <- Calls
    Attachment = {g1, g2}
    NoAttachment = NoAttachment
    MaxVersion = 3
    Mixes <- Meetings
    Grant = {g1, g2}
    Tx = {t1, t2, t3, t4}
    Actor = {a1}
    NoActor = NoActor
    NoGrant = NoGrant
SPECIFICATION SpecParts
SYMMETRY Symmetry
CHECK_DEADLOCK FALSE
INVARIANTS
    TypeOK
    OneCurrentGrant
    AdministrationIsSound
PROPERTIES
    RevocationIsTerminal
    ImplementsRegister
    DetachmentIsFinal
    PublishedWasOffered
