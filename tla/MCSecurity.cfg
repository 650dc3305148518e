CONSTANTS
    Challenge = {t1, t2, t3}
    Enrolled = Enrolled
    NoSecret = NoSecret
    LastPeriod = 2
    Attempt = {t1, t2, t3}
    Address = {a1}
    Rule = {login, token}
    LockoutRule = {login}
    Max = 1
    Threshold = 2
    Mailing = {t1, t2, t3, t4}
    NoLink = NoLink
    Signer = {t1, t2, t3}
    LastKey = 3
    Requests = 3
    Visit = {t1, t2}
    PolicyScope = {k1}
    Policies = {p1, p2}
    NoPolicies = NoPolicies
    Operation = {t1, t2, t3}
    MaxAwaited = 2
    LastPart = 1
    Row = {r1, r2}
    NoChoice = NoChoice
    LastRevision = 2
    LastEvent = 3
    LastTick = 2
    Fractions = 2
    Retention = 1
    PageSize = 1
    ExportCap = 2
    Service = "s"
    AnyService = {"s", "o"}
    Segment = {"doc", "read", "list", "x"}
    Variables <- VariableTypes
    MaxStatements = 3
    Statement <- Statements
    Question <- Questions
    NoSid = NoSid
    Documents <- TwoPolicies
SPECIFICATION SpecParts
CHECK_DEADLOCK FALSE
INVARIANTS
    TypesOK
    OnlyAdmittedAreHandled
    ReplacedKeySignsNothing
    DecidedWithPoliciesOfItsTime
    SessionIsCoherent
    PagesMissOnlyWithinMillisecond
    DecisionIsTheReference
    PagesActAsShown
PROPERTIES
    EndedIsOver
    AcceptedCodeIsNew
    VerificationIsCurrent
