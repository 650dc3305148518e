CONSTANTS
    s1 = s1
    s2 = s2
    m1 = m1
    m2 = m2
    m3 = m3
    r1 = r1
    r2 = r2
    q1 = q1
    Cases = {"whole"}
    Scope = {s1, s2}
    Mutation = {m1, m2}
    Reader = {r1}
    RequestId = {m1, m2, m3, q1}
    RequestIdOf <- SameId
    Kinds = {"policy"}
    RedisRestarts = FALSE
SPECIFICATION SpecCases
SYMMETRY MCSymmetry
INVARIANTS
    AcknowledgedMutationIsSeen
