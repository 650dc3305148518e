CONSTANTS
    Service = "s"
    AnyService = {"s", "o"}
    Segment = {"doc", "read", "list", "x"}
    Variables <- VariableTypes
    MaxStatements = 3
    Statement <- Statements
    Question <- Questions
    NoSid = NoSid
    Documents <- TwoPolicies
SPECIFICATION SpecPolicyEvaluator
CHECK_DEADLOCK FALSE
INVARIANTS
    MergedIsEvaluated
