-------------------------------- MODULE Mfa --------------------------------
(***************************************************************************)
(* The second factor of one platform administrator: packages/db/src/mfa.ts *)
(* behind the routes of apps/api/src/mfa.ts.  A secret is named by the     *)
(* enrollment that drew it, and a code is a secret and a period of 30      *)
(* seconds.  Each call is a transaction that locks the row of              *)
(* mfa_enrollments, and takes the time before it waits for it.             *)
(***************************************************************************)
EXTENDS Integers

CONSTANTS
    Challenge,      \* bound: the calls
    Enrolled,       \* a secret of an earlier day
    NoSecret,
    LastPeriod      \* bound: the clock

ASSUME MfaAssumption ==
    /\ {Enrolled, NoSecret} \cap Challenge = {} /\ Enrolled # NoSecret
    /\ LastPeriod \in Nat \ {0}

VARIABLES
    period,                     \* totpCounter of the clock
    secret, verified, lastUsed, \* mfa_enrollments; lastUsed is -1 for null
    known,                      \* the secrets that were answered
    call, code, now,            \* call c: which, the code it carries, its time
    stage,                      \* its next statement
    enrollmentLock,             \* who holds the row, a set of one at most
    read,                       \* the row as it read it
    accepted                    \* history: the codes that were accepted

enrollment == <<secret, verified, lastUsed>>
varsMfa == <<period, enrollment, known, call, code, now, stage, enrollmentLock, read, accepted>>

NoCode == <<NoSecret, 0>>
EnrollmentRow == [secret |-> secret, verified |-> verified, lastUsed |-> lastUsed]
NoRow == [secret |-> NoSecret, verified |-> FALSE, lastUsed |-> -1]

InitMfa ==
    /\ period = 1
    /\ \/ secret = NoSecret /\ verified = FALSE /\ lastUsed = -1 /\ known = {} /\ accepted = {}
       \/ /\ secret = Enrolled /\ verified = TRUE /\ lastUsed = 0 /\ known = {Enrolled}
          /\ accepted = {[code |-> <<Enrolled, 0>>, call |-> "verify"]}
    /\ call = [c \in Challenge |-> "none"]
    /\ code = [c \in Challenge |-> NoCode]
    /\ now = [c \in Challenge |-> 0]
    /\ stage = [c \in Challenge |-> "idle"]
    /\ enrollmentLock = {}
    /\ read = [c \in Challenge |-> NoRow]

NextPeriod ==
    /\ period < LastPeriod
    /\ period' = period + 1
    /\ UNCHANGED <<enrollment, known, call, code, now, stage, enrollmentLock, read, accepted>>

\* The routes /enroll and /verify and enforceRequestMfa: a code is of a secret
\* the user was given, of any period, or none.
CallMfa(c) ==
    /\ stage[c] = "idle"
    /\ \E k \in {"begin", "verify", "enforce"} :
        /\ call' = [call EXCEPT ![c] = k]
        /\ \E s \in known \cup {NoSecret}, p \in 0..period :
            /\ s = NoSecret => p = 0
            /\ k = "begin" => s = NoSecret
            /\ code' = [code EXCEPT ![c] = <<s, p>>]
        /\ stage' = [stage EXCEPT ![c] = IF k = "enforce" THEN "role" ELSE "lock"]
    /\ now' = [now EXCEPT ![c] = period]
    /\ UNCHANGED <<period, enrollment, known, enrollmentLock, read, accepted>>

EndMfa(c) ==
    /\ stage' = [stage EXCEPT ![c] = "ended"]
    /\ call' = [call EXCEPT ![c] = "none"]
    /\ code' = [code EXCEPT ![c] = NoCode]
    /\ now' = [now EXCEPT ![c] = 0]
    /\ read' = [read EXCEPT ![c] = NoRow]
    /\ enrollmentLock' = enrollmentLock \ {c}
    /\ UNCHANGED period

RefuseMfa(c) == EndMfa(c) /\ UNCHANGED <<enrollment, known, accepted>>

\* The role is read without a lock: the call is refused, or not required.
ReadRole(c) ==
    /\ stage[c] = "role"
    /\ \/ stage' = [stage EXCEPT ![c] = "lock"]
          /\ UNCHANGED <<period, enrollment, known, call, code, now, enrollmentLock, read, accepted>>
       \/ RefuseMfa(c)

\* Mutant: the row is read without for update.
ReadEnrollment(c) ==
    /\ stage[c] = "lock"
    /\ read' = [read EXCEPT ![c] = EnrollmentRow]
    /\ stage' = [stage EXCEPT ![c] = "commit"]
    /\ UNCHANGED <<period, enrollment, known, call, code, now, enrollmentLock, accepted>>

LockEnrollment(c) ==
    /\ stage[c] = "lock"
    /\ enrollmentLock = {}
    /\ enrollmentLock' = {c}
    /\ read' = [read EXCEPT ![c] = EnrollmentRow]
    /\ stage' = [stage EXCEPT ![c] = "commit"]
    /\ UNCHANGED <<period, enrollment, known, call, code, now, accepted>>

\* matchingCounter: the code of this period or of the one before.
Matches(c) == code[c][1] = read[c].secret /\ code[c][2] \in {now[c], now[c] - 1}

Deciding(c, k) == stage[c] = "commit" /\ call[c] = k

\* beginMfaEnrollment
CommitBegin(c) ==
    /\ Deciding(c, "begin")
    /\ secret' = c
    /\ verified' = FALSE
    /\ lastUsed' = -1
    /\ known' = known \cup {c}
    /\ EndMfa(c)
    /\ UNCHANGED accepted

\* verifyMfaEnrollment
CommitVerify(c) ==
    /\ Deciding(c, "verify")
    /\ IF read[c].secret # NoSecret /\ ~read[c].verified /\ Matches(c)
       THEN /\ verified' = TRUE
            /\ lastUsed' = code[c][2]
            /\ accepted' = accepted \cup {[code |-> code[c], call |-> "verify"]}
            /\ EndMfa(c)
            /\ UNCHANGED <<secret, known>>
       ELSE RefuseMfa(c)

\* enforcePlatformAdminMfa
CommitEnforce(c) ==
    /\ Deciding(c, "enforce")
    /\ IF read[c].verified /\ Matches(c) /\ code[c][2] > read[c].lastUsed
       THEN /\ lastUsed' = code[c][2]
            /\ accepted' = accepted \cup {[code |-> code[c], call |-> "enforce"]}
            /\ EndMfa(c)
            /\ UNCHANGED <<secret, verified, known>>
       ELSE RefuseMfa(c)

LoseMfa(c) == stage[c] \notin {"idle", "ended"} /\ RefuseMfa(c)

NextMfa ==
    \/ NextPeriod
    \/ \E c \in Challenge :
        \/ CallMfa(c) \/ ReadRole(c) \/ LockEnrollment(c)
        \/ CommitBegin(c) \/ CommitVerify(c) \/ CommitEnforce(c) \/ LoseMfa(c)

SpecMfa == InitMfa /\ [][NextMfa]_varsMfa

-----------------------------------------------------------------------------
(* Properties *)

\* The row of mfa_enrollments and the calls have their types; the row is locked
\* by a call that has read it.
TypeOKMfa ==
    /\ period \in 1..LastPeriod
    /\ secret \in Challenge \cup {Enrolled, NoSecret}
    /\ verified \in BOOLEAN
    /\ lastUsed \in -1..LastPeriod
    /\ known \subseteq Challenge \cup {Enrolled}
    /\ code \in [Challenge -> (Challenge \cup {Enrolled, NoSecret}) \X (0..LastPeriod)]
    /\ now \in [Challenge -> 0..LastPeriod]
    /\ stage \in [Challenge -> {"idle", "role", "lock", "commit", "ended"}]
    /\ enrollmentLock \subseteq {c \in Challenge : stage[c] = "commit"}
    /\ \A a \in accepted : a.code[1] \in known /\ a.code[2] <= period

\* enforcePlatformAdminMfa, verifyMfaEnrollment, beginMfaEnrollment: "each
\* 30-second counter is consumed atomically, so an expired or replayed code is
\* rejected" (README.md:54).  An accepted code is of the secret enrolled, of a
\* later period than any other that was accepted of it, and lets nobody in
\* before a code of that secret was verified, whatever was enrolled before it.
AcceptedCodeIsNew ==
    [][\A a \in accepted' \ accepted :
          /\ a.code[1] = secret
          /\ \A b \in accepted : b.code[1] = a.code[1] => b.code[2] < a.code[2]
          /\ a.call = "enforce" =>
                \E b \in accepted : b.call = "verify" /\ b.code[1] = a.code[1]]_varsMfa
=============================================================================
