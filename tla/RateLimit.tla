----------------------------- MODULE RateLimit -----------------------------
(***************************************************************************)
(* The limiter in front of the authentication routes                       *)
(* (apps/api/src/rate-limit.ts, hooked in by apps/api/src/app.ts) for the  *)
(* requests about one subject: a window per address and one of the subject *)
(* in Redis, and for a rule with a lockout the failures and the lock of    *)
(* the pair.  Every Redis call is a step, and may fail.  A key lives as    *)
(* long as its TTL: it may go away at any step.                            *)
(***************************************************************************)
EXTENDS Naturals, FiniteSets

CONSTANTS
    Attempt,        \* bound: the requests
    Address,        \* clientAddress
    Rule,           \* the entries of rules()
    LockoutRule,    \* those with a lockout
    Max,            \* max of a rule
    Threshold       \* threshold of a lockout

ASSUME RateLimitAssumption ==
    /\ LockoutRule \subseteq Rule
    /\ Max \in Nat \ {0} /\ Threshold \in Nat \ {0}
    /\ IsFiniteSet(Attempt) /\ "subject" \notin Address     \* keys of other prefixes

VARIABLES
    count,      \* the windows: requests counted, 0 when the key is gone
    admitted,   \* how many requests each window allowed while it lived
    failures,   \* <compositeKey>:failures, per rule and address
    locked,     \* <compositeKey>:lock, while lockRetryAfter finds a TTL above 0
    attempt     \* a request: where it is, its rule and address, the windows
                \* that allowed it, whether it arrived under the lock

varsRateLimit == <<count, admitted, failures, locked, attempt>>

Subject == "subject"
Window == Rule \X (Address \cup {Subject})
Pair == LockoutRule \X Address

\* consume(ip, max), consume(subject, max * 3)
Limit(w) == IF w[2] = Subject THEN 3 * Max ELSE Max

Idle == [at |-> "idle", pair |-> <<>>,
         allowed |-> {}, underLock |-> FALSE]

InitRateLimit ==
    /\ count = [w \in Window |-> 0]
    /\ admitted = [w \in Window |-> 0]
    /\ failures = [p \in Pair |-> 0]
    /\ locked = {}
    /\ attempt = [r \in Attempt |-> Idle]

At(r, s) == attempt[r].at = s
PairOf(r) == attempt[r].pair
SubjectOf(r) == <<PairOf(r)[1], Subject>>

\* An answered request leaves nothing behind: scopes is a WeakMap.
Gone(a, s) == IF s = "ended" THEN [Idle EXCEPT !.at = s] ELSE [a EXCEPT !.at = s]
GoTo(r, s) == attempt' = [attempt EXCEPT ![r] = Gone(@, s)]

\* A request of one of the rules; the others are let through.
Arrive(r) ==
    /\ At(r, "idle")
    /\ \E p \in Rule \X Address :
        attempt' = [attempt EXCEPT ![r] =
            [at |-> IF p \in Pair THEN "lock" ELSE "address", pair |-> p,
             allowed |-> {}, underLock |-> p \in locked]]
    /\ UNCHANGED <<count, admitted, failures, locked>>

\* lockRetryAfter: 429 locked.
ReadLock(r) ==
    /\ At(r, "lock")
    /\ GoTo(r, IF PairOf(r) \in locked THEN "ended" ELSE "address")
    /\ UNCHANGED <<count, admitted, failures, locked>>

\* CONSUME_SCRIPT
Consume(w) ==
    /\ count' = [count EXCEPT ![w] = @ + 1]
    /\ admitted' = [admitted EXCEPT ![w] = IF count[w] < Limit(w) THEN @ + 1 ELSE @]
Allowed(r, w) == attempt[r].allowed \cup IF count[w] < Limit(w) THEN {w} ELSE {}

\* Promise.all: both windows are counted, whatever the first one answers.
ConsumeAddress(r) ==
    /\ At(r, "address")
    /\ Consume(PairOf(r))
    /\ attempt' = [attempt EXCEPT ![r].at = "subject", ![r].allowed = Allowed(r, PairOf(r))]
    /\ UNCHANGED <<failures, locked>>

\* Mutant: one of the two decisions is enough.
ConsumeSubjectEither(r) ==
    LET allowed == Allowed(r, SubjectOf(r)) IN
    /\ At(r, "subject")
    /\ Consume(SubjectOf(r))
    /\ attempt' = [attempt EXCEPT ![r] =
            Gone([@ EXCEPT !.allowed = allowed], IF allowed # {} THEN "handler" ELSE "ended")]
    /\ UNCHANGED <<failures, locked>>

\* 429 rate_limited unless both allow it.
ConsumeSubject(r) ==
    LET allowed == Allowed(r, SubjectOf(r)) IN
    /\ At(r, "subject")
    /\ Consume(SubjectOf(r))
    /\ attempt' = [attempt EXCEPT ![r] =
            Gone([@ EXCEPT !.allowed = allowed],
                 IF allowed = {PairOf(r), SubjectOf(r)} THEN "handler" ELSE "ended")]
    /\ UNCHANGED <<failures, locked>>

\* The catch of check: 503.  The command that failed may have been executed or
\* not, and so may the other one of the two.
CheckFails(r) ==
    /\ \/ /\ At(r, "lock") \/ At(r, "address") \/ At(r, "subject")
          /\ UNCHANGED <<count, admitted>>
       \/ At(r, "address") /\ \E w \in {PairOf(r), SubjectOf(r)} : Consume(w)
       \/ At(r, "subject") /\ Consume(SubjectOf(r))
    /\ GoTo(r, "ended")
    /\ UNCHANGED <<failures, locked>>

\* The route answers, below 400 or not; onAfterHandle does not run when it throws.
Handle(r) ==
    /\ At(r, "handler")
    /\ \E s \in {"success", "failure", "ended"} :
        GoTo(r, IF PairOf(r) \in Pair THEN s ELSE "ended")
    /\ UNCHANGED <<count, admitted, failures, locked>>

\* observe, below 400: clearFailures.
ObserveSuccess(r) ==
    LET p == PairOf(r) IN
    /\ At(r, "success")
    /\ failures' = [failures EXCEPT ![p] = 0]
    /\ locked' = locked \ {p}
    /\ attempt' = [q \in Attempt |->
            IF q = r THEN Gone(attempt[q], "ended")
            ELSE IF PairOf(q) = p THEN [attempt[q] EXCEPT !.underLock = FALSE] ELSE attempt[q]]
    /\ UNCHANGED <<count, admitted>>

\* Mutant: the lock is set and the failures are not deleted.
ObserveFailureKeeping(r) ==
    LET p == PairOf(r)
        reached == failures[p] + 1 >= Threshold IN
    /\ At(r, "failure")
    /\ failures' = [failures EXCEPT ![p] = @ + 1]
    /\ locked' = IF reached THEN locked \cup {p} ELSE locked
    /\ GoTo(r, "ended")
    /\ UNCHANGED <<count, admitted>>

\* FAILURE_SCRIPT
ObserveFailure(r) ==
    LET p == PairOf(r)
        reached == failures[p] + 1 >= Threshold IN
    /\ At(r, "failure")
    /\ failures' = [failures EXCEPT ![p] = IF reached THEN 0 ELSE @ + 1]
    /\ locked' = IF reached THEN locked \cup {p} ELSE locked
    /\ GoTo(r, "ended")
    /\ UNCHANGED <<count, admitted>>

\* The catch of observe: nothing is said of it.
ObserveFails(r) ==
    /\ At(r, "success") \/ At(r, "failure")
    /\ GoTo(r, "ended")
    /\ UNCHANGED <<count, admitted, failures, locked>>

\* EXPIRE and EX: Redis drops a key.
ExpireWindow(w) ==
    /\ count[w] > 0
    /\ count' = [count EXCEPT ![w] = 0]
    /\ admitted' = [admitted EXCEPT ![w] = 0]
    /\ UNCHANGED <<failures, locked, attempt>>

ExpireFailures(p) ==
    /\ failures[p] > 0
    /\ failures' = [failures EXCEPT ![p] = 0]
    /\ UNCHANGED <<count, admitted, locked, attempt>>

ExpireLock(p) ==
    /\ p \in locked
    /\ locked' = locked \ {p}
    /\ attempt' = [q \in Attempt |->
            IF PairOf(q) = p THEN [attempt[q] EXCEPT !.underLock = FALSE] ELSE attempt[q]]
    /\ UNCHANGED <<count, admitted, failures>>

NextRateLimit ==
    \/ \E r \in Attempt :
        \/ Arrive(r) \/ ReadLock(r) \/ ConsumeAddress(r) \/ ConsumeSubject(r) \/ CheckFails(r)
        \/ Handle(r) \/ ObserveSuccess(r) \/ ObserveFailure(r) \/ ObserveFails(r)
    \/ \E w \in Window : ExpireWindow(w)
    \/ \E p \in Pair : ExpireFailures(p) \/ ExpireLock(p)

SpecRateLimit == InitRateLimit /\ [][NextRateLimit]_varsRateLimit

-----------------------------------------------------------------------------
(* Properties *)

\* The keys have their types; the failures that reach the threshold turn into
\* the lock at once.
TypeOKRateLimit ==
    /\ count \in [Window -> 0..Cardinality(Attempt)]
    /\ failures \in [Pair -> 0..(Threshold - 1)]
    /\ locked \subseteq Pair
    /\ \A r \in Attempt : attempt[r].at \in
        {"idle", "lock", "address", "subject", "handler", "success", "failure", "ended"}

Handled(r) == attempt[r].at \in {"handler", "success", "failure"}

\* check: a request reaches a protected route only when both windows counted
\* and allowed it, whatever Redis call failed, and a window allows no more than
\* its maximum while it lives, however requests overlap.
HandledWereAdmitted ==
    /\ \A w \in Window : admitted[w] <= Limit(w)
    /\ \A r \in Attempt : Handled(r) => attempt[r].allowed = {PairOf(r), SubjectOf(r)}

\* lockRetryAfter, recordFailure, clearFailures: a request that arrived under
\* a lock is not handled while the lock is there, whatever the requests that
\* were checked before it do.
LockedOutIsNotHandled ==
    \A r \in Attempt : attempt[r].underLock => PairOf(r) \in locked /\ ~Handled(r)

\* rateLimit.check: the authentication handler sees no request that a window or
\* a lock should have kept out, whatever overlaps, fails or expires.
OnlyAdmittedAreHandled == HandledWereAdmitted /\ LockedOutIsNotHandled
=============================================================================
