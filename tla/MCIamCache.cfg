CONSTANTS
    s1 = s1
    s2 = s2
    m1 = m1
    m2 = m2
    m3 = m3
    r1 = r1
    r2 = r2
    q1 = q1
    Cases = {"one scope", "two scopes"}
    Scope = {s1, s2}
    Mutation = {m1, m2}
    Reader = {r1, r2}
    RequestId = {m1, m2, m3, q1}
    RequestIdOf <- OwnIds
    Kinds = {"policy", "policy-attach", "policy-detach", "group-member-add"}
    RedisRestarts = FALSE
SPECIFICATION SpecCases
SYMMETRY MCSymmetry
INVARIANTS
    TypeOK
    NoOlderThanInvalidation
    AcknowledgedMutationIsSeen
