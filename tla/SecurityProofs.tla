--------------------------- MODULE SecurityProofs ---------------------------
(***************************************************************************)
(* Proofs about the components that guard an identity, one section for     *)
(* each, for any number of requests, codes, keys and addresses: MFA codes, *)
(* signing keys, the limiter of requests, the verification of an e-mail    *)
(* address, the sessions and tokens of OAuth, and the journal of what was  *)
(* done.                                                                   *)
(*                                                                         *)
(* Three of them are of one kind. A call decides on the row as it is,      *)
(* because it has read the row under a lock it still holds: the TOTP       *)
(* codes, the limiter's windows and the links of an e-mail address. The    *)
(* other two have no lock, and what decides them only goes one way: a      *)
(* rotation leaves a newer key behind, and what a sign-in, a membership or *)
(* a token was when a request began is never there again once it is gone.  *)
(* The journal, too: what a page owes is only ever taken from it by the    *)
(* retention, and follows the cursor of the page before.                   *)
(***************************************************************************)
EXTENDS Mfa, SigningKeys, RateLimit, EmailVerification, OAuthLifecycle, AuditLog,
        FiniteSetTheorems, SequenceTheorems, TLAPS

-----------------------------------------------------------------------------
(* MFA codes *)

Secrets == Challenge \cup {Enrolled, NoSecret}
Codes == Secrets \X Int

MfaTypes ==
    /\ period \in Nat
    /\ secret \in Secrets
    /\ verified \in BOOLEAN
    /\ lastUsed \in Int
    /\ known \subseteq Secrets
    /\ code \in [Challenge -> Codes]
    /\ stage \in [Challenge -> {"idle", "role", "lock", "commit", "ended"}]
    /\ read \in [Challenge -> [secret : Secrets, verified : BOOLEAN, lastUsed : Int]]
    /\ accepted \subseteq [code : Codes, call : {"verify", "enforce"}]

\* A call decides on the row as it is.
DecidesUnderLock ==
    \A c \in Challenge : stage[c] = "commit" =>
        enrollmentLock = {c} /\ read[c] = EnrollmentRow

\* The row knows what was accepted of its secret.
RowKnowsAccepted ==
    /\ \A b \in accepted : b.code[1] = secret => verified /\ b.code[2] <= lastUsed
    /\ verified => \E b \in accepted : b.call = "verify" /\ b.code[1] = secret

\* The secret of a call is nobody's before that call has ended.
SecretsAreNew ==
    \A c \in Challenge : stage[c] # "ended" =>
        secret # c /\ \A b \in accepted : b.code[1] # c

MfaInv == MfaTypes /\ DecidesUnderLock /\ RowKnowsAccepted /\ SecretsAreNew

-----------------------------------------------------------------------------
\* The row of the start has accepted no code.
LEMMA InitRow == InitMfa => MfaInv
<1> SUFFICES ASSUME InitMfa PROVE MfaInv
  OBVIOUS
<1> USE DEF InitMfa
<1>0. NoCode \in Codes /\ NoRow \in [secret : Secrets, verified : BOOLEAN, lastUsed : Int]
  BY DEF NoCode, NoRow, Codes, Secrets
<1>1. MfaTypes
  <2>1. accepted \subseteq [code : Codes, call : {"verify", "enforce"}]
    <3>1. <<Enrolled, 0>> \in Codes
      BY DEF Codes, Secrets
    <3> QED  BY <3>1
  <2>2. secret \in Secrets /\ known \subseteq Secrets
    BY DEF Secrets
  <2>3. verified \in {TRUE, FALSE} /\ lastUsed \in {-1, 0}
    BY Zenon
  <2>4. period \in Nat /\ -1 \in Int /\ 0 \in Int
    OBVIOUS
  <2>5. verified \in BOOLEAN
    BY <2>3, Zenon
  <2>6. lastUsed \in Int
    BY <2>3, <2>4, Zenon
  <2> QED  BY <1>0, <2>1, <2>2, <2>4, <2>5, <2>6, Zenon DEF MfaTypes
<1>2. DecidesUnderLock
  BY DEF DecidesUnderLock
<1>3. RowKnowsAccepted
  <2>1. CASE accepted = {} /\ verified = FALSE
    BY <2>1 DEF RowKnowsAccepted
  <2>2. CASE /\ accepted = {[code |-> <<Enrolled, 0>>, call |-> "verify"]}
             /\ secret = Enrolled /\ verified = TRUE /\ lastUsed = 0
    BY <2>2 DEF RowKnowsAccepted
  <2> QED  BY <2>1, <2>2
<1>4. SecretsAreNew
  BY MfaAssumption DEF SecretsAreNew
<1> QED  BY <1>1, <1>2, <1>3, <1>4 DEF MfaInv

\* A call that ends lets only its own lock go.
LEMMA EndKeeps ==
    ASSUME MfaInv, NEW c \in Challenge, stage[c] \notin {"idle", "ended"}, EndMfa(c)
    PROVE  /\ code' \in [Challenge -> Codes]
           /\ stage' = [stage EXCEPT ![c] = "ended"]
           /\ stage' \in [Challenge -> {"idle", "role", "lock", "commit", "ended"}]
           /\ read' \in [Challenge -> [secret : Secrets, verified : BOOLEAN, lastUsed : Int]]
           /\ \A d \in Challenge : stage'[d] = "commit" =>
                  d # c /\ stage[d] = "commit" /\ enrollmentLock' = {d} /\ read'[d] = read[d]
           /\ \A d \in Challenge : stage'[d] # "ended" => d # c /\ stage[d] # "ended"
<1>1. NoRow \in [secret : Secrets, verified : BOOLEAN, lastUsed : Int] /\ NoCode \in Codes
  BY DEF NoRow, NoCode, Secrets, Codes
<1> QED  BY <1>1 DEF EndMfa, MfaInv, MfaTypes, DecidesUnderLock

\* A refused code leaves the row as it is.
LEMMA RefuseKeeps ==
    ASSUME MfaInv, NEW c \in Challenge, stage[c] \notin {"idle", "ended"}, RefuseMfa(c)
    PROVE  MfaInv'
<1>1. EndMfa(c) /\ UNCHANGED <<secret, verified, lastUsed, known, accepted, period>>
  BY DEF RefuseMfa, EndMfa, enrollment
<1>2. MfaTypes'
  BY <1>1, EndKeeps DEF MfaInv, MfaTypes
<1>3. DecidesUnderLock'
  BY <1>1, EndKeeps DEF MfaInv, DecidesUnderLock, EnrollmentRow
<1>4. RowKnowsAccepted'
  BY <1>1 DEF MfaInv, RowKnowsAccepted
<1>5. SecretsAreNew'
  BY <1>1, EndKeeps DEF MfaInv, SecretsAreNew
<1> QED  BY <1>2, <1>3, <1>4, <1>5 DEF MfaInv

\* The two ways a code is accepted: the row is the one it was compared with.
LEMMA AcceptKeeps ==
    ASSUME MfaInv, NEW c \in Challenge, stage[c] = "commit", EndMfa(c), Matches(c),
           NEW k \in {"verify", "enforce"},
           k = "verify" => ~read[c].verified,
           k = "enforce" => read[c].verified /\ code[c][2] > read[c].lastUsed,
           secret' = secret, known' = known, verified' = TRUE, lastUsed' = code[c][2],
           accepted' = accepted \cup {[code |-> code[c], call |-> k]}
    PROVE  /\ MfaInv'
           /\ code[c][1] = secret
           /\ \A b \in accepted : b.code[1] = secret => b.code[2] < code[c][2]
           /\ k = "enforce" => \E b \in accepted : b.call = "verify" /\ b.code[1] = secret
<1> DEFINE a == [code |-> code[c], call |-> k]
<1>1. read[c].secret = secret /\ read[c].verified = verified /\ read[c].lastUsed = lastUsed
  BY DEF MfaInv, DecidesUnderLock, EnrollmentRow
<1>2. code[c] \in Codes /\ code[c][1] = secret /\ code[c][2] \in Int
  BY <1>1 DEF Matches, MfaInv, MfaTypes, Codes
<1>3. a \in [code : Codes, call : {"verify", "enforce"}] /\ a.code = code[c] /\ a.call = k
  BY <1>2
<1>4. \A b \in accepted : b.code[1] = secret => b.code[2] < code[c][2]
  <2>1. ASSUME NEW b \in accepted, b.code[1] = secret PROVE b.code[2] < code[c][2]
    <3>1. verified /\ b.code[2] <= lastUsed /\ b.code[2] \in Int /\ lastUsed \in Int
      BY <2>1 DEF MfaInv, MfaTypes, RowKnowsAccepted, Codes
    <3>2. k = "enforce"
      BY <1>1, <3>1
    <3> QED  BY <1>1, <1>2, <3>1, <3>2
  <2> QED  BY <2>1
<1>5. k = "enforce" => \E b \in accepted : b.call = "verify" /\ b.code[1] = secret
  BY <1>1 DEF MfaInv, RowKnowsAccepted
<1>6. MfaTypes'
  <2>1. period' = period
    BY DEF EndMfa
  <2> QED  BY <1>2, <1>3, <2>1, EndKeeps DEF MfaInv, MfaTypes
<1>7. DecidesUnderLock'
  \* Nobody else can be about to decide.
  <2>1. ASSUME NEW d \in Challenge, stage'[d] = "commit" PROVE FALSE
    <3>1. d # c /\ d \in enrollmentLock /\ enrollmentLock = {c}
      BY <2>1, EndKeeps DEF MfaInv, DecidesUnderLock
    <3> QED  BY <3>1
  <2> QED  BY <2>1 DEF DecidesUnderLock
<1>8. RowKnowsAccepted'
  <2>1. ASSUME NEW b \in accepted', b.code[1] = secret PROVE b.code[2] <= lastUsed'
    <3>1. CASE b \in accepted
      <4>1. b.code[2] < code[c][2] /\ b.code[2] \in Int
        BY <1>4, <2>1, <3>1 DEF MfaInv, MfaTypes, Codes
      <4> QED  BY <1>2, <4>1
    <3>2. CASE b = a
      BY <1>2, <1>3, <3>2
    <3> QED  BY <3>1, <3>2
  <2>2. \E b \in accepted' : b.call = "verify" /\ b.code[1] = secret
    <3>1. CASE k = "verify"
      BY <1>2, <1>3, <3>1
    <3>2. CASE k = "enforce"
      BY <1>5, <3>2
    <3> QED  BY <3>1, <3>2
  <2> QED  BY <2>1, <2>2 DEF RowKnowsAccepted
<1>9. SecretsAreNew'
  <2>1. ASSUME NEW d \in Challenge, stage'[d] # "ended", NEW b \in accepted' PROVE b.code[1] # d
    <3>1. stage[d] # "ended"
      BY <2>1, EndKeeps
    <3> QED  BY <1>2, <1>3, <3>1 DEF MfaInv, SecretsAreNew
  <2>2. \A d \in Challenge : stage'[d] # "ended" => secret # d
    BY EndKeeps DEF MfaInv, SecretsAreNew
  <2> QED  BY <2>1, <2>2 DEF SecretsAreNew
<1> QED  BY <1>2, <1>4, <1>5, <1>6, <1>7, <1>8, <1>9 DEF MfaInv

\* beginMfaEnrollment: a secret no code was accepted of.
LEMMA BeginKeeps ==
    ASSUME MfaInv, NEW c \in Challenge, CommitBegin(c) PROVE MfaInv'
<1>1. /\ stage[c] = "commit" /\ EndMfa(c) /\ UNCHANGED <<period, accepted>>
      /\ secret' = c /\ verified' = FALSE /\ lastUsed' = -1 /\ known' = known \cup {c}
  BY DEF CommitBegin, Deciding, EndMfa
<1>2. c \in Secrets /\ \A b \in accepted : b.code[1] # c
  BY <1>1 DEF Secrets, MfaInv, SecretsAreNew
<1>3. MfaTypes'
  <2>1. secret' \in Secrets /\ known' \subseteq Secrets
    BY <1>1, <1>2 DEF MfaInv, MfaTypes
  <2>3. verified' \in BOOLEAN
    BY <1>1, Zenon
  <2>4. lastUsed' \in Int
    BY <1>1
  <2>5. period' \in Nat /\ accepted' \subseteq [code : Codes, call : {"verify", "enforce"}]
    BY <1>1, Zenon DEF MfaInv, MfaTypes
  <2>2. stage[c] \notin {"idle", "ended"}
    BY <1>1
  <2>6. /\ code' \in [Challenge -> Codes]
        /\ stage' \in [Challenge -> {"idle", "role", "lock", "commit", "ended"}]
        /\ read' \in [Challenge -> [secret : Secrets, verified : BOOLEAN, lastUsed : Int]]
    BY <1>1, <2>2, EndKeeps
  <2> QED  BY <2>1, <2>3, <2>4, <2>5, <2>6, Zenon DEF MfaTypes
<1>4. DecidesUnderLock'
  <2>1. ASSUME NEW d \in Challenge, stage'[d] = "commit" PROVE FALSE
    <3>1. d # c /\ d \in enrollmentLock /\ enrollmentLock = {c}
      BY <1>1, <2>1, EndKeeps DEF MfaInv, DecidesUnderLock
    <3> QED  BY <3>1
  <2> QED  BY <2>1 DEF DecidesUnderLock
<1>5. RowKnowsAccepted'
  BY <1>1, <1>2 DEF RowKnowsAccepted
<1>6. SecretsAreNew'
  BY <1>1, EndKeeps DEF MfaInv, SecretsAreNew
<1> QED  BY <1>3, <1>4, <1>5, <1>6 DEF MfaInv

\* What a step of a call keeps, and what it accepts.
LEMMA CallKeeps ==
    ASSUME MfaInv, NEW c \in Challenge,
           \/ CallMfa(c) \/ ReadRole(c) \/ LockEnrollment(c)
           \/ CommitBegin(c) \/ CommitVerify(c) \/ CommitEnforce(c) \/ LoseMfa(c)
    PROVE  /\ MfaInv'
           /\ \A a \in accepted' \ accepted :
                /\ a.code[1] = secret
                /\ \A b \in accepted : b.code[1] = a.code[1] => b.code[2] < a.code[2]
                /\ a.call = "enforce" =>
                      \E b \in accepted : b.call = "verify" /\ b.code[1] = a.code[1]
<1>1. CASE CallMfa(c)
  <2>1. /\ stage[c] = "idle" /\ code' \in [Challenge -> Codes]
        /\ \E s \in {"role", "lock"} : stage' = [stage EXCEPT ![c] = s]
        /\ UNCHANGED <<period, secret, verified, lastUsed, known, enrollmentLock, read, accepted>>
    <3>1. PICK s \in known \cup {NoSecret}, p \in 0..period : code' = [code EXCEPT ![c] = <<s, p>>]
      BY <1>1 DEF CallMfa
    <3>2. <<s, p>> \in Codes
      BY <3>1 DEF MfaInv, MfaTypes, Codes, Secrets
    <3> QED  BY <1>1, <3>1, <3>2 DEF CallMfa, enrollment, MfaInv, MfaTypes
  <2>2. MfaTypes' /\ SecretsAreNew'
    BY <2>1 DEF MfaInv, MfaTypes, SecretsAreNew
  <2>3. DecidesUnderLock' /\ RowKnowsAccepted'
    BY <2>1 DEF MfaInv, MfaTypes, DecidesUnderLock, RowKnowsAccepted, EnrollmentRow
  <2> QED  BY <2>1, <2>2, <2>3 DEF MfaInv
<1>2. CASE RefuseMfa(c) /\ stage[c] \notin {"idle", "ended"}
  BY <1>2, RefuseKeeps DEF RefuseMfa
<1>3. CASE ReadRole(c)
  <2>1. CASE stage' = [stage EXCEPT ![c] = "lock"] /\ stage[c] = "role" /\
             UNCHANGED <<period, enrollment, known, code, enrollmentLock, read, accepted>>
    <3>1. MfaTypes' /\ SecretsAreNew'
      BY <2>1 DEF MfaInv, MfaTypes, SecretsAreNew, enrollment
    <3>2. DecidesUnderLock' /\ RowKnowsAccepted'
      BY <2>1 DEF MfaInv, MfaTypes, DecidesUnderLock, RowKnowsAccepted, EnrollmentRow, enrollment
    <3> QED  BY <2>1, <3>1, <3>2 DEF MfaInv
  <2> QED  BY <1>2, <1>3, <2>1 DEF ReadRole
<1>4. CASE LockEnrollment(c)
  <2>1. /\ stage[c] = "lock" /\ enrollmentLock = {} /\ enrollmentLock' = {c}
        /\ read' = [read EXCEPT ![c] = EnrollmentRow] /\ stage' = [stage EXCEPT ![c] = "commit"]
        /\ UNCHANGED <<period, secret, verified, lastUsed, known, code, accepted>>
    BY <1>4 DEF LockEnrollment, enrollment
  <2>2. EnrollmentRow \in [secret : Secrets, verified : BOOLEAN, lastUsed : Int]
    BY DEF EnrollmentRow, MfaInv, MfaTypes
  <2>3. MfaTypes' /\ SecretsAreNew' /\ RowKnowsAccepted'
    BY <2>1, <2>2 DEF MfaInv, MfaTypes, SecretsAreNew, RowKnowsAccepted
  <2>4. DecidesUnderLock'
    <3>1. EnrollmentRow' = EnrollmentRow
      BY <2>1 DEF EnrollmentRow
    <3>2. \A d \in Challenge \ {c} : stage'[d] # "commit"
      BY <2>1 DEF MfaInv, MfaTypes, DecidesUnderLock
    <3> QED  BY <2>1, <3>1, <3>2 DEF MfaInv, MfaTypes, DecidesUnderLock
  <2> QED  BY <2>1, <2>3, <2>4 DEF MfaInv
<1>5. CASE CommitBegin(c)
  BY <1>5, BeginKeeps DEF CommitBegin
<1>6. CASE CommitVerify(c)
  <2>1. CASE read[c].secret # NoSecret /\ ~read[c].verified /\ Matches(c)
    <3> DEFINE a == [code |-> code[c], call |-> "verify"]
    <3>1. /\ stage[c] = "commit" /\ EndMfa(c) /\ secret' = secret /\ known' = known
          /\ verified' = TRUE /\ lastUsed' = code[c][2] /\ accepted' = accepted \cup {a}
      BY <1>6, <2>1 DEF CommitVerify, Deciding
    <3>2. /\ MfaInv' /\ code[c][1] = secret
          /\ \A b \in accepted : b.code[1] = secret => b.code[2] < code[c][2]
      BY <2>1, <3>1, AcceptKeeps
    <3>3. a.code = code[c] /\ a.call # "enforce" /\ \A x \in accepted' \ accepted : x = a
      BY <3>1
    <3> HIDE DEF a
    <3> QED  BY <3>2, <3>3
  <2> QED  BY <1>2, <1>6, <2>1 DEF CommitVerify, Deciding
<1>7. CASE CommitEnforce(c)
  <2>1. CASE read[c].verified /\ Matches(c) /\ code[c][2] > read[c].lastUsed
    <3> DEFINE a == [code |-> code[c], call |-> "enforce"]
    <3>0. verified
      BY <1>7, <2>1 DEF MfaInv, DecidesUnderLock, EnrollmentRow, CommitEnforce, Deciding
    <3>1. /\ stage[c] = "commit" /\ EndMfa(c) /\ secret' = secret /\ known' = known
          /\ verified' = TRUE /\ lastUsed' = code[c][2] /\ accepted' = accepted \cup {a}
      BY <1>7, <2>1, <3>0 DEF CommitEnforce, Deciding, MfaInv, MfaTypes
    <3>2. /\ MfaInv' /\ code[c][1] = secret
          /\ \A b \in accepted : b.code[1] = secret => b.code[2] < code[c][2]
          /\ \E b \in accepted : b.call = "verify" /\ b.code[1] = secret
      BY <2>1, <3>1, AcceptKeeps
    <3>3. a.code = code[c] /\ \A x \in accepted' \ accepted : x = a
      BY <3>1
    <3> HIDE DEF a
    <3> QED  BY <3>2, <3>3
  <2> QED  BY <1>2, <1>7, <2>1 DEF CommitEnforce, Deciding
<1>8. CASE LoseMfa(c)
  BY <1>2, <1>8 DEF LoseMfa
<1> QED  BY <1>1, <1>3, <1>4, <1>5, <1>6, <1>7, <1>8

\* Calls, losses and the passing of time touch no row.
LEMMA OthersKeep ==
    ASSUME MfaInv, NextPeriod \/ UNCHANGED varsMfa PROVE MfaInv' /\ accepted' = accepted
<1>1. /\ UNCHANGED <<secret, verified, lastUsed, known, code, stage, enrollmentLock, read, accepted>>
      /\ period' \in Nat
  BY DEF NextPeriod, varsMfa, enrollment, MfaInv, MfaTypes
<1> QED  BY <1>1 DEF MfaInv, MfaTypes, DecidesUnderLock, RowKnowsAccepted, SecretsAreNew,
            EnrollmentRow

\* "Each 30-second counter is consumed atomically": whatever calls overlap, an
\* accepted code is of the secret enrolled and later than any other of it.
THEOREM AcceptedIsNew == SpecMfa => AcceptedCodeIsNew
<1>1. MfaInv /\ [NextMfa]_varsMfa => MfaInv'
  BY CallKeeps, OthersKeep DEF NextMfa
<1>2. MfaInv /\ [NextMfa]_varsMfa =>
        [\A a \in accepted' \ accepted :
          /\ a.code[1] = secret
          /\ \A b \in accepted : b.code[1] = a.code[1] => b.code[2] < a.code[2]
          /\ a.call = "enforce" =>
                \E b \in accepted : b.call = "verify" /\ b.code[1] = a.code[1]]_varsMfa
  BY CallKeeps, OthersKeep DEF NextMfa
<1> QED  BY InitRow, <1>1, <1>2, PTL DEF SpecMfa, AcceptedCodeIsNew

\* The clock bounds what the calls carry and what the row keeps; what was
\* accepted was of a secret that somebody was shown.
MfaFits ==
    /\ period \in 1..LastPeriod
    /\ lastUsed \in -1..period
    /\ known \subseteq Challenge \cup {Enrolled}
    /\ secret \in known \cup {NoSecret}
    /\ code \in [Challenge -> (known \cup {NoSecret}) \X (0..period)]
    /\ now \in [Challenge -> 0..period]
    /\ enrollmentLock \subseteq {c \in Challenge : stage[c] = "commit"}
    /\ \A a \in accepted : a.code[1] \in known /\ a.code[2] <= period

\* A call that ends carries nothing.
LEMMA EndFits ==
    ASSUME MfaInv, MfaFits, NEW c \in Challenge, EndMfa(c), known \subseteq known'
    PROVE  /\ period' = period
           /\ code' \in [Challenge -> (known' \cup {NoSecret}) \X (0..period)]
           /\ now' \in [Challenge -> 0..period]
           /\ enrollmentLock' \subseteq {d \in Challenge : stage'[d] = "commit"}
<1>1. period \in Nat /\ 0 \in 0..period
  BY DEF MfaInv, MfaTypes
<1>2. NoCode \in (known' \cup {NoSecret}) \X (0..period)
  BY <1>1 DEF NoCode
<1>3. code \in [Challenge -> (known' \cup {NoSecret}) \X (0..period)]
  BY DEF MfaFits
<1>4. enrollmentLock' \subseteq {d \in Challenge : stage'[d] = "commit"}
  BY DEF EndMfa, MfaFits, MfaInv, MfaTypes
<1> QED  BY <1>1, <1>2, <1>3, <1>4 DEF EndMfa, MfaFits

\* A call that is refused, or lost.
LEMMA RefuseFits ==
    ASSUME MfaInv, MfaFits, NEW c \in Challenge, RefuseMfa(c)
    PROVE  MfaFits'
<1>1. EndMfa(c) /\ UNCHANGED <<secret, verified, lastUsed, known, accepted>>
  BY DEF RefuseMfa, enrollment
<1> QED  BY <1>1, EndFits DEF MfaFits

\* A code that is accepted is of the secret that was read, and not of tomorrow.
LEMMA AcceptFits ==
    ASSUME MfaInv, MfaFits, NEW c \in Challenge, EndMfa(c), NEW k,
           code[c][1] = secret, secret # NoSecret,
           secret' = secret, known' = known, lastUsed' = code[c][2],
           accepted' = accepted \cup {[code |-> code[c], call |-> k]}
    PROVE  MfaFits'
<1>1. code[c] \in (known \cup {NoSecret}) \X (0..period) /\ period \in Nat
  BY DEF MfaFits, MfaInv, MfaTypes
<1>2. code[c][1] \in known /\ code[c][2] \in 0..period
  BY <1>1 DEF MfaFits
<1>3. lastUsed' \in -1..period
  BY <1>1, <1>2
<1>4. \A a \in accepted' : a.code[1] \in known /\ a.code[2] <= period
  BY <1>1, <1>2 DEF MfaFits
<1> QED  BY <1>3, <1>4, EndFits DEF MfaFits

\* What the steps of a call keep.
LEMMA CallingFits ==
    ASSUME MfaInv, MfaFits, NEW c \in Challenge,
           \/ CallMfa(c) \/ ReadRole(c) \/ LockEnrollment(c)
           \/ CommitBegin(c) \/ CommitVerify(c) \/ CommitEnforce(c) \/ LoseMfa(c)
    PROVE  MfaFits'
<1>0. period \in Nat /\ period \in 0..period
  BY DEF MfaInv, MfaTypes
<1>1. CASE CallMfa(c)
  <2>1. PICK s \in known \cup {NoSecret}, p \in 0..period : code' = [code EXCEPT ![c] = <<s, p>>]
    BY <1>1 DEF CallMfa
  <2>2. code' \in [Challenge -> (known \cup {NoSecret}) \X (0..period)]
    BY <2>1 DEF MfaFits
  <2>3. now' \in [Challenge -> 0..period]
    BY <1>0, <1>1 DEF CallMfa, MfaFits
  <2>4. \A d \in enrollmentLock : stage'[d] = "commit"
    BY <1>1 DEF CallMfa, MfaFits, MfaInv, MfaTypes
  <2> QED  BY <1>1, <2>2, <2>3, <2>4 DEF CallMfa, MfaFits, enrollment
<1>2. CASE RefuseMfa(c)
  BY <1>2, RefuseFits
<1>3. CASE ReadRole(c)
  <2>1. CASE /\ stage' = [stage EXCEPT ![c] = "lock"] /\ stage[c] = "role"
             /\ UNCHANGED <<period, enrollment, known, call, code, now, enrollmentLock, read, accepted>>
    <3>1. \A d \in enrollmentLock : stage'[d] = "commit"
      BY <2>1 DEF MfaFits, MfaInv, MfaTypes
    <3> QED  BY <2>1, <3>1 DEF MfaFits, enrollment
  <2> QED  BY <1>2, <1>3, <2>1 DEF ReadRole
<1>4. CASE LockEnrollment(c)
  <2>1. enrollmentLock' \subseteq {d \in Challenge : stage'[d] = "commit"}
    BY <1>4 DEF LockEnrollment, MfaInv, MfaTypes
  <2> QED  BY <1>4, <2>1 DEF LockEnrollment, MfaFits, enrollment
<1>5. CASE CommitBegin(c)
  <2>1. /\ EndMfa(c) /\ secret' = c /\ lastUsed' = -1 /\ known' = known \cup {c}
        /\ accepted' = accepted
    BY <1>5 DEF CommitBegin
  <2>2. lastUsed' \in -1..period
    BY <1>0, <2>1
  <2> QED  BY <2>1, <2>2, EndFits DEF MfaFits
<1>6. CASE CommitVerify(c)
  <2>1. CASE read[c].secret # NoSecret /\ ~read[c].verified /\ Matches(c)
    <3>1. read[c].secret = secret
      BY <1>6 DEF CommitVerify, Deciding, MfaInv, DecidesUnderLock, EnrollmentRow
    <3> QED  BY <1>6, <2>1, <3>1, AcceptFits DEF CommitVerify, Matches
  <2> QED  BY <1>2, <1>6, <2>1 DEF CommitVerify
<1>7. CASE CommitEnforce(c)
  <2>1. CASE read[c].verified /\ Matches(c) /\ code[c][2] > read[c].lastUsed
    <3>1. read[c].secret = secret /\ read[c].verified = verified
      BY <1>7 DEF CommitEnforce, Deciding, MfaInv, DecidesUnderLock, EnrollmentRow
    \* A verified row has a secret: a code of it was verified.
    <3>2. secret # NoSecret
      <4>1. secret \in known
        BY <2>1, <3>1 DEF MfaInv, RowKnowsAccepted, MfaFits
      <4> QED  BY <4>1, MfaAssumption DEF MfaFits
    <3> QED  BY <1>7, <2>1, <3>1, <3>2, AcceptFits DEF CommitEnforce, Matches
  <2> QED  BY <1>2, <1>7, <2>1 DEF CommitEnforce
<1>8. CASE LoseMfa(c)
  BY <1>2, <1>8 DEF LoseMfa
<1> QED  BY <1>1, <1>3, <1>4, <1>5, <1>6, <1>7, <1>8

\* The clock goes on.
LEMMA PeriodFits ==
    ASSUME MfaInv, MfaFits, NextPeriod \/ UNCHANGED varsMfa, LastPeriod \in Nat
    PROVE  MfaFits'
<1>1. /\ UNCHANGED <<secret, lastUsed, known, code, now, stage, enrollmentLock, accepted>>
      /\ period' \in 1..LastPeriod /\ period <= period' /\ period \in Nat /\ period' \in Nat
  BY DEF NextPeriod, varsMfa, enrollment, MfaInv, MfaTypes, MfaFits
<1>2. 0..period \subseteq 0..period' /\ -1..period \subseteq -1..period'
  BY <1>1
<1>3. code' \in [Challenge -> (known' \cup {NoSecret}) \X (0..period')]
  BY <1>1, <1>2 DEF MfaFits
<1>4. now' \in [Challenge -> 0..period'] /\ lastUsed' \in -1..period'
  BY <1>1, <1>2 DEF MfaFits
<1>5. \A a \in accepted' : a.code[1] \in known' /\ a.code[2] <= period'
  <2>1. \A a \in accepted : a.code[2] \in Int
    BY DEF MfaInv, MfaTypes, Codes
  <2> QED  BY <1>1, <2>1 DEF MfaFits
<1> QED  BY <1>1, <1>3, <1>4, <1>5 DEF MfaFits

\* mfa_enrollments and the calls of its routes: the lock is held by a call that
\* has read the row, and every code that was accepted is of a secret that was
\* shown and of no later period, for any clock that has begun.
THEOREM MfaTypesKept == SpecMfa => []TypeOKMfa
<1>1. InitMfa => MfaFits
  <2> SUFFICES ASSUME InitMfa PROVE MfaFits
    OBVIOUS
  <2> USE DEF InitMfa
  <2>1. period \in 1..LastPeriod /\ period = 1
    BY MfaAssumption
  <2>2. NoCode \in (known \cup {NoSecret}) \X (0..period) /\ 0 \in 0..period
    BY DEF NoCode
  <2>3. CASE secret = NoSecret /\ lastUsed = -1 /\ known = {} /\ accepted = {}
    BY <2>1, <2>2, <2>3 DEF MfaFits
  <2>4. CASE /\ secret = Enrolled /\ lastUsed = 0 /\ known = {Enrolled}
             /\ accepted = {[code |-> <<Enrolled, 0>>, call |-> "verify"]}
    <3>1. lastUsed \in -1..period
      BY <2>1, <2>4
    <3>2. \A a \in accepted : a.code[1] \in known /\ a.code[2] <= period
      BY <2>1, <2>4
    <3> QED  BY <2>1, <2>2, <2>4, <3>1, <3>2 DEF MfaFits
  <2> QED  BY <2>3, <2>4
<1>2. MfaInv /\ MfaFits /\ [NextMfa]_varsMfa => MfaInv' /\ MfaFits'
  BY CallKeeps, OthersKeep, CallingFits, PeriodFits, MfaAssumption DEF NextMfa
<1>3. MfaInv /\ MfaFits => TypeOKMfa
  <2> SUFFICES ASSUME MfaInv, MfaFits PROVE TypeOKMfa
    OBVIOUS
  <2>1. 0..period \subseteq 0..LastPeriod /\ -1..period \subseteq -1..LastPeriod
    BY MfaAssumption DEF MfaFits
  <2>2. code \in [Challenge -> (Challenge \cup {Enrolled, NoSecret}) \X (0..LastPeriod)]
    BY <2>1 DEF MfaFits
  <2>3. now \in [Challenge -> 0..LastPeriod] /\ lastUsed \in -1..LastPeriod
    BY <2>1 DEF MfaFits
  <2>4. secret \in Challenge \cup {Enrolled, NoSecret} /\ verified \in BOOLEAN
        /\ stage \in [Challenge -> {"idle", "role", "lock", "commit", "ended"}]
    BY Zenon DEF MfaInv, MfaTypes, Secrets
  <2>5. /\ period \in 1..LastPeriod /\ known \subseteq Challenge \cup {Enrolled}
        /\ enrollmentLock \subseteq {c \in Challenge : stage[c] = "commit"}
        /\ \A a \in accepted : a.code[1] \in known /\ a.code[2] <= period
    BY Zenon DEF MfaFits
  <2> QED  BY <2>2, <2>3, <2>4, <2>5, Zenon DEF TypeOKMfa
<1> QED  BY InitRow, <1>1, <1>2, <1>3, PTL DEF SpecMfa

-----------------------------------------------------------------------------
(* Signing keys *)

KeyInv ==
    /\ newest \in Nat
    /\ picked \in [Signer -> [key : Nat, expired : BOOLEAN]]
    /\ existing \in [Signer -> Nat]
    /\ \A s \in Signer : picked[s].key = existing[s]
    /\ replaced \subseteq {k \in Nat : k < newest}
    /\ misused = {}

\* The first key has not been replaced.
LEMMA InitKeys == InitSigningKeys => KeyInv
  BY DEF InitSigningKeys, KeyInv, Unsigned, NoKey

\* A request ends, or goes on with what it has read.
LEMMA StopKeeps ==
    ASSUME KeyInv, NEW s \in Signer, Stop(s), newest' = newest, misused' = misused,
           replaced' \subseteq {k \in Nat : k < newest}
    PROVE  KeyInv'
<1>1. NoKey \in [key : Nat, expired : BOOLEAN] /\ NoKey.key = 0
  BY DEF NoKey
<1> QED  BY <1>1 DEF Stop, KeyInv

\* A step of a signer that writes no key.
LEMMA ThenKeeps ==
    ASSUME KeyInv, UNCHANGED <<picked, existing>>,
           newest' \in Nat, newest' >= newest, misused' = {}, replaced' = replaced
    PROVE  KeyInv'
<1>1. replaced' \subseteq {k \in Nat : k < newest'}
  BY DEF KeyInv
<1> QED  BY <1>1 DEF KeyInv

\* Every step keeps replaced keys apart from the newest one.
LEMMA StepKeeps ==
    ASSUME KeyInv, NEW s \in Signer,
           \/ BeginSigner(s) \/ ReadKeys(s) \/ ExpirePrevious(s) \/ LatestKey(s) \/ CreateKey(s)
           \/ EndSignature(s) \/ EndRotation(s) \/ SignerFails(s) \/ RestorePrevious(s)
           \/ RestoreFails(s)
    PROVE  KeyInv'
<1>0. newest \in Nat /\ newest >= newest /\ misused = {}
  BY DEF KeyInv
<1>1. CASE BeginSigner(s)
  BY <1>0, <1>1, ThenKeeps DEF BeginSigner
<1>2. CASE ReadKeys(s)
  <2>1. [key |-> newest, expired |-> newest \in expiredKeys] \in [key : Nat, expired : BOOLEAN]
    BY <1>0
  <2>2. /\ picked' = [picked EXCEPT ![s] = [key |-> newest, expired |-> newest \in expiredKeys]]
        /\ existing' = [existing EXCEPT ![s] = newest] /\ UNCHANGED <<newest, replaced, misused>>
    BY <1>2 DEF ReadKeys
  <2> QED  BY <2>1, <2>2 DEF KeyInv
<1>3. CASE ExpirePrevious(s)
  BY <1>0, <1>3, ThenKeeps DEF ExpirePrevious
\* The key taken is the newest, which no rotation has replaced.
<1>4. CASE LatestKey(s)
  <2>1. newest \notin replaced
    BY DEF KeyInv
  <2>2. misused' = {}
    BY <1>4, <2>1 DEF LatestKey, KeyInv
  <2> QED  BY <1>0, <1>4, <2>2, ThenKeeps DEF LatestKey
<1>5. CASE CreateKey(s)
  <2>1. newest' \in Nat /\ newest' >= newest
    BY <1>0, <1>5 DEF CreateKey
  <2> QED  BY <1>0, <1>5, <2>1, ThenKeeps DEF CreateKey
<1>6. CASE EndSignature(s) \/ RestorePrevious(s) \/ RestoreFails(s)
  BY <1>6, StopKeeps DEF EndSignature, RestorePrevious, RestoreFails, KeyInv
\* A success is that of a rotation whose key is older than the newest.
<1>7. CASE EndRotation(s)
  <2>1. CASE newest > existing[s]
    <3>1. replaced' \subseteq {k \in Nat : k < newest}
      BY <1>7, <2>1 DEF EndRotation, KeyInv
    <3> QED  BY <1>7, <2>1, <3>1, StopKeeps DEF EndRotation
  <2>2. CASE ~(newest > existing[s])
    BY <1>0, <1>7, <2>2, ThenKeeps DEF EndRotation
  <2> QED  BY <2>1, <2>2
<1>8. CASE SignerFails(s)
  <2>1. replaced' \subseteq {k \in Nat : k < newest}
    BY <1>8 DEF SignerFails, KeyInv
  <2> QED  BY <1>0, <1>8, <2>1, ThenKeeps, StopKeeps DEF SignerFails
<1> QED  BY <1>1, <1>2, <1>3, <1>4, <1>5, <1>6, <1>7, <1>8

\* What any step does to the keys.
LEMMA KeyNextKeeps == KeyInv /\ [NextSigningKeys]_varsSigningKeys => KeyInv'
<1> SUFFICES ASSUME KeyInv, [NextSigningKeys]_varsSigningKeys PROVE KeyInv'
  OBVIOUS
<1>1. CASE UNCHANGED varsSigningKeys
  BY <1>1 DEF varsSigningKeys, KeyInv
<1>2. CASE LapseKey
  BY <1>2 DEF LapseKey, KeyInv
<1> QED  BY <1>1, <1>2, StepKeeps DEF NextSigningKeys

\* rotate: a replaced key signs nothing, whatever fails and is restored.
THEOREM ReplacedStaysReplaced == SpecSigningKeys => []ReplacedKeySignsNothing
<1>1. KeyInv => ReplacedKeySignsNothing
  BY DEF KeyInv, ReplacedKeySignsNothing
<1> QED  BY InitKeys, KeyNextKeeps, <1>1, PTL DEF SpecSigningKeys

\* The steps of a request, and what they read.
KeySteps == {"idle", "read", "expire", "latest", "create", "signed", "restore", "ended"}
SignerTypes ==
    signer \in [Signer -> [call : {"none", "sign", "rotate"}, at : KeySteps]]

\* The keys are numbered, and a rotation that has begun works on one of them.
KeysFit ==
    /\ newest \in 1..LastKey /\ expiredKeys \subseteq 1..newest
    /\ replaced \subseteq 1..newest
    /\ \A s \in Signer :
        /\ existing[s] \in 0..newest
        /\ signer[s].at = "expire" => existing[s] # 0
        /\ signer[s].call = "rotate" /\ signer[s].at \in {"latest", "create", "signed"} =>
                existing[s] # 0

\* A request that stops has read nothing.
LEMMA StopFits ==
    ASSUME KeyInv, SignerTypes, KeysFit, NEW s \in Signer, Stop(s), newest' = newest,
           expiredKeys' \subseteq 1..newest, replaced' \subseteq 1..newest
    PROVE  SignerTypes' /\ KeysFit'
<1>1. [Unsigned EXCEPT !.at = "ended"] = [call |-> "none", at |-> "ended"]
  BY DEF Unsigned
<1>2. /\ signer' = [signer EXCEPT ![s] = [call |-> "none", at |-> "ended"]]
      /\ existing' = [existing EXCEPT ![s] = 0]
  BY <1>1 DEF Stop
<1>3. SignerTypes'
  BY <1>2 DEF SignerTypes, KeySteps
<1>4. newest \in Nat /\ 0 \in 0..newest
  BY DEF KeyInv
<1>5. ASSUME NEW q \in Signer
      PROVE  \/ q = s /\ existing'[q] = 0 /\ signer'[q].at = "ended"
             \/ existing'[q] = existing[q] /\ signer'[q] = signer[q]
  BY <1>2 DEF SignerTypes, KeyInv
<1> QED  BY <1>3, <1>4, <1>5 DEF KeysFit

\* A request goes on with a key.
LEMMA ThenFits ==
    ASSUME KeyInv, SignerTypes, KeysFit, NEW s \in Signer, NEW a \in KeySteps, Then(s, a),
           newest' \in 1..LastKey, newest <= newest', expiredKeys' \subseteq 1..newest',
           replaced' = replaced, existing' = existing,
           a \in {"expire", "latest", "create", "signed"} =>
                a # "expire" /\ (signer[s].call = "rotate" => existing[s] # 0)
    PROVE  SignerTypes' /\ KeysFit'
<1>1. signer' = [signer EXCEPT ![s].at = a]
  BY DEF Then
<1>2. SignerTypes'
  BY <1>1 DEF SignerTypes
<1>3. newest \in Nat /\ newest' \in Nat
  BY LastKeyAssumption DEF KeyInv
<1>4. ASSUME NEW q \in Signer
      PROVE  /\ signer'[q].call = signer[q].call
             /\ q # s => signer'[q] = signer[q]
             /\ q = s => signer'[q].at = a
  BY <1>1 DEF SignerTypes
<1>5. 1..newest \subseteq 1..newest' /\ 0..newest \subseteq 0..newest'
  BY <1>3
<1> QED  BY <1>2, <1>4, <1>5 DEF KeysFit

\* What a step of a request does to the keys.
LEMMA StepFits ==
    ASSUME KeyInv, SignerTypes, KeysFit, NEW s \in Signer,
           \/ BeginSigner(s) \/ ReadKeys(s) \/ ExpirePrevious(s) \/ LatestKey(s) \/ CreateKey(s)
           \/ EndSignature(s) \/ EndRotation(s) \/ SignerFails(s) \/ RestorePrevious(s)
           \/ RestoreFails(s)
    PROVE  SignerTypes' /\ KeysFit'
<1>0. /\ newest \in Nat /\ newest <= newest /\ newest \in 1..newest /\ newest \in 1..LastKey
      /\ expiredKeys \subseteq 1..newest /\ replaced \subseteq 1..newest
      /\ existing \in [Signer -> Nat] /\ picked[s].key = existing[s] /\ existing[s] \in 0..newest
      /\ LastKey \in Nat
  BY LastKeyAssumption DEF KeyInv, KeysFit
<1>1. CASE BeginSigner(s)
  <2>1. PICK c \in {"sign", "rotate"} : signer' = [signer EXCEPT ![s] =
            [call |-> c, at |-> IF c = "sign" THEN "latest" ELSE "read"]]
    BY <1>1 DEF BeginSigner
  <2>2. SignerTypes'
    BY <2>1 DEF SignerTypes, KeySteps
  <2>3. ASSUME NEW q \in Signer
        PROVE  \/ signer'[q] = signer[q]
               \/ signer'[q].at = "read"
               \/ signer'[q].at = "latest" /\ signer'[q].call = "sign"
    BY <2>1 DEF SignerTypes
  <2>4. UNCHANGED <<newest, expiredKeys, existing, replaced>>
    BY <1>1 DEF BeginSigner
  <2> QED  BY <2>2, <2>3, <2>4 DEF KeysFit
<1>2. CASE ReadKeys(s)
  <2>1. /\ signer' = [signer EXCEPT ![s].at = "expire"] /\ existing' = [existing EXCEPT ![s] = newest]
        /\ UNCHANGED <<newest, expiredKeys, replaced>>
    BY <1>2 DEF ReadKeys, Then
  <2>2. SignerTypes'
    BY <2>1 DEF SignerTypes, KeySteps
  <2>3. ASSUME NEW q \in Signer
        PROVE  \/ q = s /\ existing'[q] = newest
               \/ existing'[q] = existing[q] /\ signer'[q] = signer[q]
    BY <1>0, <2>1 DEF SignerTypes
  <2>4. newest # 0 /\ newest \in 0..newest
    BY <1>0
  <2> QED  BY <2>1, <2>2, <2>3, <2>4 DEF KeysFit
<1>3. CASE ExpirePrevious(s)
  <2>1. existing[s] # 0
    BY <1>3 DEF ExpirePrevious, Step, KeysFit
  <2>2. picked[s].key \in 1..newest
    BY <1>0, <2>1
  <2>3. expiredKeys' \subseteq 1..newest /\ Then(s, "latest") /\ "latest" \in KeySteps
        /\ UNCHANGED <<newest, existing, replaced>>
    BY <1>0, <1>3, <2>2 DEF ExpirePrevious, KeySteps
  <2> QED  BY <1>0, <2>1, <2>3, ThenFits
<1>4. CASE LatestKey(s)
  <2>1. signer[s].at = "latest" /\ (signer[s].call = "rotate" => existing[s] # 0)
    BY <1>4 DEF LatestKey, Step, KeysFit
  <2>2. PICK a \in {"create", "signed"} : Then(s, a)
    BY <1>4 DEF LatestKey
  <2> QED  BY <1>0, <1>4, <2>1, <2>2, ThenFits DEF LatestKey, KeySteps
<1>5. CASE CreateKey(s)
  <2>1. signer[s].at = "create" /\ (signer[s].call = "rotate" => existing[s] # 0)
    BY <1>5 DEF CreateKey, Step, KeysFit
  <2>2. newest' \in 1..LastKey /\ newest <= newest' /\ expiredKeys' \subseteq 1..newest'
    BY <1>0, <1>5 DEF CreateKey
  <2>3. Then(s, "signed") /\ "signed" \in KeySteps /\ UNCHANGED <<existing, replaced>>
    BY <1>5 DEF CreateKey, KeySteps
  <2> QED  BY <2>1, <2>2, <2>3, ThenFits
<1>6. CASE EndSignature(s) \/ RestorePrevious(s) \/ RestoreFails(s)
  BY <1>0, <1>6, StopFits DEF EndSignature, RestorePrevious, RestoreFails
<1>7. CASE EndRotation(s)
  <2>1. picked[s].key \in 1..newest
    BY <1>0, <1>7 DEF EndRotation, Step, KeysFit
  <2>2. CASE newest > existing[s]
    BY <1>0, <1>7, <2>1, <2>2, StopFits DEF EndRotation
  <2>3. CASE ~(newest > existing[s])
    BY <1>0, <1>7, <2>3, ThenFits DEF EndRotation, KeySteps
  <2> QED  BY <2>2, <2>3
<1>8. CASE SignerFails(s)
  BY <1>0, <1>8, ThenFits, StopFits DEF SignerFails, KeySteps
<1> QED  BY <1>1, <1>2, <1>3, <1>4, <1>5, <1>6, <1>7, <1>8

\* jwks and the requests for a key: no row but one that was created expires or
\* is replaced, for any number of rotations and signatures.
THEOREM KeyTypesKept == SpecSigningKeys => []TypeOKSigningKeys
<1>1. InitSigningKeys => SignerTypes /\ KeysFit
  BY LastKeyAssumption DEF InitSigningKeys, Unsigned, SignerTypes, KeySteps, KeysFit
<1>2. KeyInv /\ SignerTypes /\ KeysFit /\ [NextSigningKeys]_varsSigningKeys => SignerTypes' /\ KeysFit'
  <2> SUFFICES ASSUME KeyInv, SignerTypes, KeysFit, [NextSigningKeys]_varsSigningKeys
               PROVE  SignerTypes' /\ KeysFit'
    OBVIOUS
  <2>1. CASE UNCHANGED varsSigningKeys
    BY <2>1 DEF varsSigningKeys, SignerTypes, KeysFit
  <2>2. CASE LapseKey
    BY <2>2 DEF LapseKey, SignerTypes, KeysFit
  <2> QED  BY <2>1, <2>2, StepFits DEF NextSigningKeys
<1>3. KeyInv /\ SignerTypes /\ KeysFit => TypeOKSigningKeys
  BY DEF KeyInv, SignerTypes, KeySteps, KeysFit, TypeOKSigningKeys
<1> QED  BY InitKeys, KeyNextKeeps, <1>1, <1>2, <1>3, PTL DEF SpecSigningKeys

-----------------------------------------------------------------------------
(* The limiter *)

Stages == {"idle", "lock", "address", "subject", "handler", "success", "failure", "ended"}
Asking == Rule \X Address

AttemptRow == [at : Stages, pair : Asking \cup {<<>>},
               allowed : SUBSET Window, underLock : BOOLEAN]

\* A window has let through no more than it counted, nor than it may.
WindowFits(w) == admitted[w] <= count[w] /\ admitted[w] <= Limit(w)

\* A request that arrived under a lock still there has not got past reading it,
\* and one that reached its route was allowed by both windows.
AttemptFits(r) ==
    /\ attempt[r].at \notin {"idle", "ended"} => PairOf(r) \in Asking
    /\ attempt[r].at \in {"lock", "success", "failure"} => PairOf(r) \in Pair
    /\ attempt[r].underLock => attempt[r].at = "lock" /\ PairOf(r) \in locked
    /\ Handled(r) => attempt[r].allowed = {PairOf(r), SubjectOf(r)}

LimiterTypes ==
    /\ count \in [Window -> Nat]
    /\ admitted \in [Window -> Nat]
    /\ failures \in [Pair -> Nat]
    /\ locked \subseteq Pair
    /\ attempt \in [Attempt -> AttemptRow]

LimiterInv ==
    /\ LimiterTypes
    /\ \A w \in Window : WindowFits(w)
    /\ \A r \in Attempt : AttemptFits(r)

\* Nothing is counted and nobody asks.
LEMMA LimiterInitially == InitRateLimit => LimiterInv
<1>1. SUFFICES ASSUME InitRateLimit PROVE LimiterInv
  OBVIOUS
<1>2. LimiterTypes
  BY <1>1 DEF InitRateLimit, LimiterTypes, AttemptRow, Idle, Stages
<1>3. ASSUME NEW w \in Window PROVE WindowFits(w)
  <2>1. Limit(w) \in Nat
    BY RateLimitAssumption DEF Limit
  <2>2. QED
    BY <1>1, <2>1 DEF InitRateLimit, WindowFits
<1>4. \A r \in Attempt : AttemptFits(r)
  BY <1>1 DEF InitRateLimit, AttemptFits, Idle, Handled
<1>5. QED
  BY <1>2, <1>3, <1>4 DEF LimiterInv

\* The windows of a request are windows.
LEMMA WindowsOf ==
  ASSUME LimiterInv, NEW r \in Attempt, attempt[r].at \notin {"idle", "ended"}
  PROVE  /\ PairOf(r) \in Asking
         /\ PairOf(r) \in Window /\ SubjectOf(r) \in Window
<1>1. PairOf(r) \in Rule \X Address
  BY DEF LimiterInv, AttemptFits, Asking
<1>2. PairOf(r) \in Window
  BY <1>1 DEF Window
<1>3. PairOf(r)[1] \in Rule
  BY <1>1
<1>4. SubjectOf(r) \in Window
  BY <1>3 DEF SubjectOf, Window
<1>5. QED
  BY <1>1, <1>2, <1>4 DEF Asking

\* CONSUME_SCRIPT counts once, and allows at most up to the limit.
LEMMA ConsumeKeeps ==
  ASSUME LimiterInv, NEW v \in Window, Consume(v)
  PROVE  /\ count' \in [Window -> Nat] /\ admitted' \in [Window -> Nat]
         /\ \A w \in Window : WindowFits(w)'
<1>1. count \in [Window -> Nat] /\ admitted \in [Window -> Nat]
  BY DEF LimiterInv, LimiterTypes
<1>2. count' \in [Window -> Nat] /\ admitted' \in [Window -> Nat]
  BY <1>1 DEF Consume
<1>3. ASSUME NEW w \in Window PROVE WindowFits(w)'
  <2>1. Limit(w) \in Nat
    BY RateLimitAssumption DEF Limit
  <2>2. WindowFits(w) /\ Limit(w)' = Limit(w)
    BY DEF LimiterInv, Limit
  <2>3. CASE w = v
    BY <1>1, <2>1, <2>2, <2>3 DEF Consume, WindowFits, Limit
  <2>4. CASE w # v
    BY <1>1, <2>1, <2>2, <2>4 DEF Consume, WindowFits, Limit
  <2>5. QED
    BY <2>3, <2>4
<1>4. QED
  BY <1>2, <1>3

\* The windows stay as they are.
LEMMA WindowsRest ==
  ASSUME LimiterInv, UNCHANGED <<count, admitted>>
  PROVE  /\ count' \in [Window -> Nat] /\ admitted' \in [Window -> Nat]
         /\ \A w \in Window : WindowFits(w)'
BY DEF LimiterInv, LimiterTypes, WindowFits, Limit

\* A request that moves on without a look at its lock, while no lock goes.
LEMMA AttemptMoves ==
  ASSUME LimiterInv, NEW r \in Attempt, NEW a \in AttemptRow,
         attempt' = [attempt EXCEPT ![r] = a],
         count' \in [Window -> Nat] /\ admitted' \in [Window -> Nat],
         \A w \in Window : WindowFits(w)',
         failures' \in [Pair -> Nat],
         locked \subseteq locked', locked' \subseteq Pair,
         AttemptFits(r)'
  PROVE  LimiterInv'
<1>1. attempt' \in [Attempt -> AttemptRow] /\ \A q \in Attempt \ {r} : attempt'[q] = attempt[q]
  BY DEF LimiterInv, LimiterTypes
<1>2. ASSUME NEW q \in Attempt \ {r} PROVE AttemptFits(q)'
  <2>1. AttemptFits(q) /\ attempt'[q] = attempt[q]
    BY <1>1 DEF LimiterInv
  <2>2. QED
    BY <2>1 DEF AttemptFits, PairOf, SubjectOf, Handled
<1>3. QED
  BY <1>1, <1>2 DEF LimiterInv, LimiterTypes

\* A request that ends is forgotten.
LEMMA AttemptEnds ==
  ASSUME LimiterInv, NEW r \in Attempt, GoTo(r, "ended"),
         count' \in [Window -> Nat] /\ admitted' \in [Window -> Nat],
         \A w \in Window : WindowFits(w)',
         failures' \in [Pair -> Nat],
         locked \subseteq locked', locked' \subseteq Pair
  PROVE  LimiterInv'
<1> DEFINE a == [Idle EXCEPT !.at = "ended"]
<1>1. a \in AttemptRow /\ a.at = "ended" /\ a.underLock = FALSE
  BY DEF AttemptRow, Idle, Stages
<1>2. attempt' = [attempt EXCEPT ![r] = a]
  BY DEF GoTo, Gone
<1>3. attempt'[r] = a
  BY <1>2 DEF LimiterInv, LimiterTypes
<1> HIDE DEF a
<1>4. AttemptFits(r)'
  BY <1>1, <1>3 DEF AttemptFits, Handled
<1>5. QED
  BY <1>1, <1>2, <1>4, AttemptMoves

\* A request that goes on keeps what is known of it.
LEMMA AttemptGoesOn ==
  ASSUME LimiterInv, NEW r \in Attempt, NEW s \in Stages \ {"idle", "ended"}, GoTo(r, s)
  PROVE  /\ attempt'[r] = [attempt[r] EXCEPT !.at = s]
         /\ attempt'[r] \in AttemptRow
         /\ attempt' = [attempt EXCEPT ![r] = attempt'[r]]
         /\ attempt'[r].at = s /\ PairOf(r)' = PairOf(r)
         /\ attempt'[r].allowed = attempt[r].allowed
         /\ attempt'[r].underLock = attempt[r].underLock
<1>1. attempt \in [Attempt -> AttemptRow] /\ attempt[r] \in AttemptRow
  BY DEF LimiterInv, LimiterTypes
<1>2. attempt' = [attempt EXCEPT ![r] = [attempt[r] EXCEPT !.at = s]]
  BY DEF GoTo, Gone
<1>3. attempt'[r] = [attempt[r] EXCEPT !.at = s]
  BY <1>1, <1>2
<1>4. /\ attempt'[r] \in AttemptRow
      /\ attempt'[r].at = s /\ attempt'[r].pair = attempt[r].pair
      /\ attempt'[r].allowed = attempt[r].allowed
      /\ attempt'[r].underLock = attempt[r].underLock
  BY <1>1, <1>3 DEF AttemptRow
<1>5. QED
  BY <1>2, <1>3, <1>4 DEF PairOf

\* A request arrives, before a lock that may be there.
LEMMA ArriveKeeps ==
  ASSUME LimiterInv, NEW r \in Attempt, Arrive(r)
  PROVE  LimiterInv'
<1>1. PICK p \in Rule \X Address : attempt' = [attempt EXCEPT ![r] =
            [at |-> IF p \in Pair THEN "lock" ELSE "address", pair |-> p,
             allowed |-> {}, underLock |-> p \in locked]]
  BY DEF Arrive
<1> DEFINE a == [at |-> IF p \in Pair THEN "lock" ELSE "address", pair |-> p,
                 allowed |-> {}, underLock |-> p \in locked]
<1>2. /\ a \in AttemptRow
      /\ a.at = (IF p \in Pair THEN "lock" ELSE "address")
      /\ a.pair = p /\ a.underLock = (p \in locked)
  BY DEF AttemptRow, Stages, Asking
<1>3. attempt'[r] = a
  BY <1>1 DEF LimiterInv, LimiterTypes
<1>4. locked \subseteq Pair /\ UNCHANGED <<count, admitted, failures, locked>>
  BY DEF Arrive, LimiterInv, LimiterTypes
<1>5. attempt' = [attempt EXCEPT ![r] = a]
  BY <1>1
<1> HIDE DEF a
<1>6. AttemptFits(r)'
  BY <1>2, <1>3, <1>4 DEF AttemptFits, PairOf, Handled, Asking
<1>7. failures' \in [Pair -> Nat]
  BY <1>4 DEF LimiterInv, LimiterTypes
<1>8. QED
  BY <1>2, <1>4, <1>5, <1>6, <1>7, AttemptMoves, WindowsRest

\* A request under a lock ends where it reads it.
LEMMA ReadLockKeeps ==
  ASSUME LimiterInv, NEW r \in Attempt, ReadLock(r)
  PROVE  LimiterInv'
<1>1. /\ attempt[r].at = "lock" /\ AttemptFits(r)
      /\ UNCHANGED <<count, admitted, failures, locked>>
      /\ failures' \in [Pair -> Nat] /\ locked' \subseteq Pair
  BY DEF ReadLock, At, LimiterInv, LimiterTypes
<1>2. CASE PairOf(r) \in locked
  <2>1. GoTo(r, "ended")
    BY <1>2 DEF ReadLock
  <2>2. QED
    BY <1>1, <2>1, AttemptEnds, WindowsRest
<1>3. CASE PairOf(r) \notin locked
  <2>1. GoTo(r, "address") /\ "address" \in Stages \ {"idle", "ended"}
    BY <1>3 DEF ReadLock, Stages
  <2>2. /\ attempt'[r] \in AttemptRow /\ attempt' = [attempt EXCEPT ![r] = attempt'[r]]
        /\ attempt'[r].at = "address" /\ PairOf(r)' = PairOf(r)
        /\ attempt'[r].underLock = attempt[r].underLock
    BY <2>1, AttemptGoesOn
  <2>3. AttemptFits(r)'
    BY <1>1, <1>3, <2>2 DEF AttemptFits, Handled
  <2>4. QED
    BY <1>1, <2>2, <2>3, AttemptMoves, WindowsRest
<1>4. QED
  BY <1>2, <1>3

\* What a request is allowed are windows.
LEMMA AllowedOf ==
  ASSUME LimiterInv, NEW r \in Attempt, NEW w \in Window
  PROVE  Allowed(r, w) \in SUBSET Window
BY DEF LimiterInv, LimiterTypes, AttemptRow, Allowed

\* The window of the address.
LEMMA ConsumeAddressKeeps ==
  ASSUME LimiterInv, NEW r \in Attempt, ConsumeAddress(r)
  PROVE  LimiterInv'
<1> DEFINE allowed == Allowed(r, PairOf(r))
           a == [attempt[r] EXCEPT !.at = "subject", !.allowed = allowed]
<1>1. attempt[r].at = "address" /\ AttemptFits(r) /\ attempt[r] \in AttemptRow
  BY DEF ConsumeAddress, At, LimiterInv, LimiterTypes
<1>2. PairOf(r) \in Window /\ PairOf(r) \in Asking
  BY <1>1, WindowsOf
<1>3. allowed \in SUBSET Window
  BY <1>2, AllowedOf
<1>4. attempt' = [attempt EXCEPT ![r] = a]
  BY DEF ConsumeAddress
<1> HIDE DEF allowed
<1>5. /\ a \in AttemptRow /\ a.at = "subject" /\ a.pair = attempt[r].pair
      /\ a.underLock = attempt[r].underLock
  BY <1>1, <1>3 DEF AttemptRow, Stages
<1>6. attempt'[r] = a
  BY <1>4 DEF LimiterInv, LimiterTypes
<1> HIDE DEF a
<1>7. AttemptFits(r)'
  BY <1>1, <1>2, <1>5, <1>6 DEF AttemptFits, PairOf, Handled
<1>8. /\ failures' \in [Pair -> Nat] /\ locked' = locked /\ locked' \subseteq Pair
      /\ Consume(PairOf(r))
  BY DEF ConsumeAddress, LimiterInv, LimiterTypes
<1>9. QED
  BY <1>2, <1>4, <1>5, <1>7, <1>8, ConsumeKeeps, AttemptMoves

\* The window of the subject, and the answer of the two.
LEMMA ConsumeSubjectKeeps ==
  ASSUME LimiterInv, NEW r \in Attempt, ConsumeSubject(r)
  PROVE  LimiterInv'
<1> DEFINE allowed == Allowed(r, SubjectOf(r))
           s == IF allowed = {PairOf(r), SubjectOf(r)} THEN "handler" ELSE "ended"
           a == Gone([attempt[r] EXCEPT !.allowed = allowed], s)
<1>1. attempt[r].at = "subject" /\ AttemptFits(r) /\ attempt[r] \in AttemptRow
  BY DEF ConsumeSubject, At, LimiterInv, LimiterTypes
<1>2. SubjectOf(r) \in Window /\ PairOf(r) \in Asking
  BY <1>1, WindowsOf
<1>3. allowed \in SUBSET Window
  BY <1>2, AllowedOf
<1>4. attempt' = [attempt EXCEPT ![r] = a]
  BY DEF ConsumeSubject
<1>5. attempt'[r] = a
  BY <1>4 DEF LimiterInv, LimiterTypes
<1>6. /\ failures' \in [Pair -> Nat] /\ locked' = locked /\ locked' \subseteq Pair
      /\ Consume(SubjectOf(r))
  BY DEF ConsumeSubject, LimiterInv, LimiterTypes
<1>7. a \in AttemptRow /\ AttemptFits(r)'
  <2>1. CASE allowed = {PairOf(r), SubjectOf(r)}
    <3>1. a = [[attempt[r] EXCEPT !.allowed = allowed] EXCEPT !.at = "handler"]
      BY <2>1 DEF Gone
    <3> HIDE DEF allowed
    <3>2. /\ a \in AttemptRow /\ a.at = "handler" /\ a.pair = attempt[r].pair
          /\ a.underLock = attempt[r].underLock /\ a.allowed = allowed
      BY <1>1, <1>3, <3>1 DEF AttemptRow, Stages
    <3> HIDE DEF a
    <3>3. AttemptFits(r)'
      BY <1>1, <1>2, <1>5, <2>1, <3>2 DEF AttemptFits, PairOf, SubjectOf, Handled
    <3>4. QED
      BY <3>2, <3>3
  <2>2. CASE allowed # {PairOf(r), SubjectOf(r)}
    <3>1. a = [Idle EXCEPT !.at = "ended"]
      BY <2>2 DEF Gone
    <3>2. a \in AttemptRow /\ a.at = "ended" /\ a.underLock = FALSE
      BY <3>1 DEF AttemptRow, Stages, Idle
    <3> HIDE DEF a
    <3>3. AttemptFits(r)'
      BY <1>5, <3>2 DEF AttemptFits, Handled
    <3>4. QED
      BY <3>2, <3>3
  <2>3. QED
    BY <2>1, <2>2
<1> HIDE DEF a
<1>8. QED
  BY <1>2, <1>4, <1>6, <1>7, ConsumeKeeps, AttemptMoves

\* A Redis call fails: what was counted stays counted.
LEMMA CheckFailsKeeps ==
  ASSUME LimiterInv, NEW r \in Attempt, CheckFails(r)
  PROVE  LimiterInv'
<1>1. /\ GoTo(r, "ended") /\ failures' \in [Pair -> Nat]
      /\ locked' = locked /\ locked' \subseteq Pair
  BY DEF CheckFails, LimiterInv, LimiterTypes
<1>2. \/ UNCHANGED <<count, admitted>>
      \/ attempt[r].at \notin {"idle", "ended"} /\ \E w \in {PairOf(r), SubjectOf(r)} : Consume(w)
  BY DEF CheckFails, At
<1>3. CASE UNCHANGED <<count, admitted>>
  BY <1>1, <1>3, WindowsRest, AttemptEnds
<1>4. CASE attempt[r].at \notin {"idle", "ended"} /\ \E w \in {PairOf(r), SubjectOf(r)} : Consume(w)
  <2>1. PICK w \in Window : Consume(w)
    BY <1>4, WindowsOf
  <2>2. QED
    BY <1>1, <2>1, ConsumeKeeps, AttemptEnds
<1>5. QED
  BY <1>2, <1>3, <1>4

\* The route answers.
LEMMA HandleKeeps ==
  ASSUME LimiterInv, NEW r \in Attempt, Handle(r)
  PROVE  LimiterInv'
<1>1. /\ attempt[r].at = "handler" /\ AttemptFits(r)
      /\ UNCHANGED <<count, admitted, failures, locked>>
      /\ failures' \in [Pair -> Nat] /\ locked' \subseteq Pair
  BY DEF Handle, At, LimiterInv, LimiterTypes
<1>2. CASE GoTo(r, "ended")
  BY <1>1, <1>2, AttemptEnds, WindowsRest
<1>3. ASSUME NEW s \in {"success", "failure"}, GoTo(r, s), PairOf(r) \in Pair
      PROVE  LimiterInv'
  <2>1. s \in Stages \ {"idle", "ended"}
    BY DEF Stages
  <2>2. /\ attempt'[r] \in AttemptRow /\ attempt' = [attempt EXCEPT ![r] = attempt'[r]]
        /\ attempt'[r].at = s /\ PairOf(r)' = PairOf(r)
        /\ attempt'[r].allowed = attempt[r].allowed
        /\ attempt'[r].underLock = attempt[r].underLock
    BY <1>3, <2>1, AttemptGoesOn
  <2>3. AttemptFits(r)'
    BY <1>1, <1>3, <2>2 DEF AttemptFits, Handled, SubjectOf
  <2>4. QED
    BY <1>1, <2>2, <2>3, AttemptMoves, WindowsRest
<1>4. GoTo(r, "ended") \/ \E s \in {"success", "failure"} : GoTo(r, s) /\ PairOf(r) \in Pair
  BY DEF Handle
<1>5. QED
  BY <1>2, <1>3, <1>4

\* The locks of a pair go, and with them what is said of requests under them.
LEMMA LockGoes ==
  ASSUME LimiterInv, NEW p \in Pair, locked' = locked \ {p},
         UNCHANGED <<count, admitted>>, failures' \in [Pair -> Nat],
         attempt' \in [Attempt -> AttemptRow],
         \A q \in Attempt :
            \/ attempt'[q].at = "ended" /\ ~attempt'[q].underLock
            \/ /\ PairOf(q) = p
               /\ attempt'[q] = [attempt[q] EXCEPT !.underLock = FALSE]
            \/ PairOf(q) # p /\ attempt'[q] = attempt[q]
  PROVE  LimiterInv'
<1>1. ASSUME NEW q \in Attempt PROVE AttemptFits(q)'
  <2>1. AttemptFits(q) /\ attempt[q] \in AttemptRow
    BY DEF LimiterInv, LimiterTypes
  <2>2. CASE attempt'[q].at = "ended" /\ ~attempt'[q].underLock
    BY <2>2 DEF AttemptFits, Handled
  <2>3. CASE PairOf(q) = p /\ attempt'[q] = [attempt[q] EXCEPT !.underLock = FALSE]
    <3>1. /\ attempt'[q].at = attempt[q].at /\ attempt'[q].pair = attempt[q].pair
          /\ attempt'[q].allowed = attempt[q].allowed /\ ~attempt'[q].underLock
      BY <2>1, <2>3 DEF AttemptRow
    <3>2. QED
      BY <2>1, <3>1 DEF AttemptFits, PairOf, SubjectOf, Handled
  <2>4. CASE PairOf(q) # p /\ attempt'[q] = attempt[q]
    BY <2>1, <2>4 DEF AttemptFits, PairOf, SubjectOf, Handled
  <2>5. QED
    BY <2>2, <2>3, <2>4
<1>2. locked' \subseteq Pair
  BY DEF LimiterInv, LimiterTypes
<1>3. QED
  BY <1>1, <1>2, WindowsRest DEF LimiterInv, LimiterTypes

\* clearFailures
LEMMA ObserveSuccessKeeps ==
  ASSUME LimiterInv, NEW r \in Attempt, ObserveSuccess(r)
  PROVE  LimiterInv'
<1> DEFINE p == PairOf(r)
<1>1. p \in Pair
  BY DEF ObserveSuccess, At, LimiterInv, AttemptFits
<1>2. /\ locked' = locked \ {p} /\ UNCHANGED <<count, admitted>>
      /\ failures' \in [Pair -> Nat]
      /\ attempt' = [q \in Attempt |->
            IF q = r THEN Gone(attempt[q], "ended")
            ELSE IF PairOf(q) = p THEN [attempt[q] EXCEPT !.underLock = FALSE] ELSE attempt[q]]
  BY DEF ObserveSuccess, LimiterInv, LimiterTypes
<1>3. [Idle EXCEPT !.at = "ended"] \in AttemptRow
  BY DEF AttemptRow, Stages, Idle
<1>4. \A q \in Attempt : attempt[q] \in AttemptRow
                         /\ [attempt[q] EXCEPT !.underLock = FALSE] \in AttemptRow
  BY DEF LimiterInv, LimiterTypes, AttemptRow
<1>5. attempt' \in [Attempt -> AttemptRow]
  BY <1>2, <1>3, <1>4 DEF Gone
<1>6. attempt'[r].at = "ended" /\ ~attempt'[r].underLock
  BY <1>2 DEF Gone, Idle
<1>7. \A q \in Attempt \ {r} :
            \/ PairOf(q) = p /\ attempt'[q] = [attempt[q] EXCEPT !.underLock = FALSE]
            \/ PairOf(q) # p /\ attempt'[q] = attempt[q]
  BY <1>2
<1> HIDE DEF p
<1>8. QED
  BY <1>1, <1>2, <1>5, <1>6, <1>7, LockGoes

\* FAILURE_SCRIPT
LEMMA ObserveFailureKeeps ==
  ASSUME LimiterInv, NEW r \in Attempt, ObserveFailure(r)
  PROVE  LimiterInv'
<1>1. PairOf(r) \in Pair
  BY DEF ObserveFailure, At, LimiterInv, AttemptFits
<1>2. failures \in [Pair -> Nat] /\ locked \subseteq Pair
  BY DEF LimiterInv, LimiterTypes
<1>3. failures[PairOf(r)] + 1 \in Nat
  BY <1>1, <1>2
<1>4. failures' \in [Pair -> Nat]
  BY <1>2, <1>3 DEF ObserveFailure
<1>5. locked \subseteq locked' /\ locked' \subseteq Pair
  BY <1>1, <1>2 DEF ObserveFailure
<1>6. GoTo(r, "ended") /\ UNCHANGED <<count, admitted>>
  BY DEF ObserveFailure
<1>7. QED
  BY <1>4, <1>5, <1>6, AttemptEnds, WindowsRest

\* Every step keeps the invariant.
LEMMA LimiterNextKeeps == LimiterInv /\ [NextRateLimit]_varsRateLimit => LimiterInv'
<1>1. SUFFICES ASSUME LimiterInv, [NextRateLimit]_varsRateLimit PROVE LimiterInv'
  OBVIOUS
<1>2. ASSUME NEW r \in Attempt, ObserveFails(r) PROVE LimiterInv'
  <2>1. /\ GoTo(r, "ended") /\ UNCHANGED <<count, admitted, failures, locked>>
        /\ failures' \in [Pair -> Nat] /\ locked' \subseteq Pair
    BY <1>1, <1>2 DEF ObserveFails, LimiterInv, LimiterTypes
  <2>2. QED
    BY <1>1, <2>1, AttemptEnds, WindowsRest
<1>3. ASSUME NEW w \in Window, ExpireWindow(w) PROVE LimiterInv'
  <2>1. count' \in [Window -> Nat] /\ admitted' \in [Window -> Nat]
    BY <1>1, <1>3 DEF ExpireWindow, LimiterInv, LimiterTypes
  <2>2. ASSUME NEW v \in Window PROVE WindowFits(v)'
    <3>1. WindowFits(v) /\ Limit(v)' = Limit(v) /\ Limit(v) \in Nat
      BY <1>1, RateLimitAssumption DEF LimiterInv, Limit
    <3>2. CASE v = w
      BY <1>1, <1>3, <3>1, <3>2 DEF ExpireWindow, WindowFits, LimiterInv, LimiterTypes
    <3>3. CASE v # w
      BY <1>1, <1>3, <3>1, <3>3 DEF ExpireWindow, WindowFits, LimiterInv, LimiterTypes
    <3>4. QED
      BY <3>2, <3>3
  <2>3. \A r \in Attempt : AttemptFits(r)'
    BY <1>1, <1>3 DEF ExpireWindow, LimiterInv, AttemptFits, PairOf, SubjectOf, Handled
  <2>4. QED
    BY <1>1, <1>3, <2>1, <2>2, <2>3 DEF ExpireWindow, LimiterInv, LimiterTypes
<1>4. ASSUME NEW p \in Pair, ExpireFailures(p) PROVE LimiterInv'
  <2>1. failures' \in [Pair -> Nat]
    BY <1>1, <1>4 DEF ExpireFailures, LimiterInv, LimiterTypes
  <2>2. \A r \in Attempt : AttemptFits(r)'
    BY <1>1, <1>4 DEF ExpireFailures, LimiterInv, AttemptFits, PairOf, SubjectOf, Handled
  <2>3. QED
    BY <1>1, <1>4, <2>1, <2>2, WindowsRest DEF ExpireFailures, LimiterInv, LimiterTypes
<1>5. ASSUME NEW p \in Pair, ExpireLock(p) PROVE LimiterInv'
  <2>1. \A q \in Attempt : attempt[q] \in AttemptRow
                           /\ [attempt[q] EXCEPT !.underLock = FALSE] \in AttemptRow
    BY <1>1 DEF LimiterInv, LimiterTypes, AttemptRow
  <2>2. attempt' \in [Attempt -> AttemptRow]
    BY <1>5, <2>1 DEF ExpireLock
  <2>3. QED
    BY <1>1, <1>5, <2>2, LockGoes DEF ExpireLock, LimiterInv, LimiterTypes
<1>6. CASE UNCHANGED varsRateLimit
  <2>1. \A r \in Attempt : AttemptFits(r)'
    BY <1>1, <1>6 DEF varsRateLimit, LimiterInv, AttemptFits, PairOf, SubjectOf, Handled
  <2>2. QED
    BY <1>1, <1>6, <2>1, WindowsRest DEF varsRateLimit, LimiterInv, LimiterTypes
<1>7. QED
  BY <1>1, <1>2, <1>3, <1>4, <1>5, <1>6, ArriveKeeps, ReadLockKeeps, ConsumeAddressKeeps,
     ConsumeSubjectKeeps, CheckFailsKeeps, HandleKeeps, ObserveSuccessKeeps, ObserveFailureKeeps
     DEF NextRateLimit

\* rateLimit.check: the authentication handler sees no request that a window or
\* a lock should have kept out, for any requests, rules, limits and thresholds.
THEOREM LimiterHolds == SpecRateLimit => []OnlyAdmittedAreHandled
<1>1. LimiterInv => OnlyAdmittedAreHandled
  BY DEF LimiterInv, WindowFits, AttemptFits, Handled, OnlyAdmittedAreHandled,
         HandledWereAdmitted, LockedOutIsNotHandled
<1>2. QED
  BY <1>1, LimiterInitially, LimiterNextKeeps, PTL DEF SpecRateLimit

\* A request that this window has counted.
HasCounted(r, w) ==
    /\ attempt[r].at \notin {"idle", "lock", "address"}
    /\ attempt[r].at = "subject" => w = PairOf(r)
Counted(w) == {r \in Attempt : HasCounted(r, w)}

\* A request is counted once, and the failures do not reach the threshold.
CountsFit ==
    /\ \A w \in Window : count[w] <= Cardinality(Counted(w))
    /\ \A p \in Pair : failures[p] < Threshold

\* A window counts a request that it had not counted, or it counts none.
LEMMA WindowCounts ==
    ASSUME LimiterInv, LimiterInv', CountsFit, IsFiniteSet(Attempt), NEW w \in Window,
           Counted(w) \subseteq Counted(w)',
           \/ count'[w] = count[w] \/ count'[w] = 0
           \/ count'[w] = count[w] + 1 /\ \E r \in Counted(w)' : r \notin Counted(w)
    PROVE  count'[w] <= Cardinality(Counted(w)')
<1>1. Counted(w)' \subseteq Attempt /\ IsFiniteSet(Counted(w)')
  BY FS_Subset DEF Counted
<1>2. /\ Cardinality(Counted(w)) \in Nat /\ Cardinality(Counted(w)') \in Nat
      /\ Cardinality(Counted(w)) <= Cardinality(Counted(w)')
  BY <1>1, FS_Subset, FS_CardinalityType
<1>3. (\E r \in Counted(w)' : r \notin Counted(w)) =>
            Cardinality(Counted(w)) < Cardinality(Counted(w)')
  BY <1>1, <1>2, FS_Subset
<1>4. count[w] \in Nat /\ count[w] <= Cardinality(Counted(w))
  BY DEF LimiterInv, LimiterTypes, CountsFit
<1> QED  BY <1>2, <1>3, <1>4

\* A request that moves on is not counted less.
LEMMA MoverCounts ==
    ASSUME LimiterInv, NEW r \in Attempt,
           \A q \in Attempt \ {r} : attempt'[q].at = attempt[q].at /\ PairOf(q)' = PairOf(q),
           \A v \in Window : HasCounted(r, v) => HasCounted(r, v)'
    PROVE  \A w \in Window : Counted(w) \subseteq Counted(w)'
<1> SUFFICES ASSUME NEW w \in Window, NEW q \in Attempt, HasCounted(q, w)
             PROVE  HasCounted(q, w)'
  BY DEF Counted
<1>1. CASE q = r
  BY <1>1
<1>2. CASE q # r
  BY <1>2 DEF HasCounted
<1> QED  BY <1>1, <1>2

\* The requests other than r stay as they are, but for the lock they saw.
LEMMA OthersStay ==
    ASSUME LimiterInv, NEW r \in Attempt, NEW a, attempt' = [attempt EXCEPT ![r] = a]
    PROVE  /\ attempt'[r] = a
           /\ \A q \in Attempt \ {r} : attempt'[q].at = attempt[q].at /\ PairOf(q)' = PairOf(q)
BY DEF LimiterInv, LimiterTypes, PairOf

\* A request that ends is counted as far as it can be.
LEMMA EndingCounts ==
    ASSUME LimiterInv, NEW r \in Attempt, GoTo(r, "ended")
    PROVE  /\ \A w \in Window : Counted(w) \subseteq Counted(w)'
           /\ \A w \in Window : r \in Counted(w)'
<1>1. /\ attempt'[r].at = "ended"
      /\ \A q \in Attempt \ {r} : attempt'[q].at = attempt[q].at /\ PairOf(q)' = PairOf(q)
  <2> DEFINE a == [Idle EXCEPT !.at = "ended"]
  <2>1. attempt' = [attempt EXCEPT ![r] = a] /\ a.at = "ended"
    BY DEF GoTo, Gone, Idle
  <2> HIDE DEF a
  <2> QED  BY <2>1, OthersStay
<1>2. \A v \in Window : HasCounted(r, v)'
  BY <1>1 DEF HasCounted
<1> QED  BY <1>1, <1>2, MoverCounts DEF Counted

\* A request that goes on without a look at its windows.
LEMMA GoingOnCounts ==
    ASSUME LimiterInv, NEW r \in Attempt, NEW s \in Stages \ {"idle", "ended"}, GoTo(r, s),
           s \in {"lock", "address", "subject"} => attempt[r].at \in {"idle", "lock"}
    PROVE  \A w \in Window : Counted(w) \subseteq Counted(w)'
<1>1. attempt'[r].at = s /\ \A q \in Attempt \ {r} : attempt'[q] = attempt[q]
  BY AttemptGoesOn DEF LimiterInv, LimiterTypes
<1>2. \A v \in Window : HasCounted(r, v) => HasCounted(r, v)'
  BY <1>1 DEF HasCounted, Stages
<1> QED  BY <1>1, <1>2, MoverCounts DEF PairOf

\* CONSUME_SCRIPT counts one window.
LEMMA ConsumeCounts ==
    ASSUME LimiterInv, NEW v \in Window, Consume(v), NEW w \in Window
    PROVE  count'[w] = IF w = v THEN count[w] + 1 ELSE count[w]
BY DEF Consume, LimiterInv, LimiterTypes

\* A window counts a request for the first time.
LEMMA ConsumedFits ==
    ASSUME LimiterInv, LimiterInv', CountsFit, IsFiniteSet(Attempt),
           \A w \in Window : Counted(w) \subseteq Counted(w)',
           NEW v \in Window, Consume(v), NEW r, r \in Counted(v)', r \notin Counted(v)
    PROVE  \A w \in Window : count'[w] <= Cardinality(Counted(w)')
<1> SUFFICES ASSUME NEW w \in Window PROVE count'[w] <= Cardinality(Counted(w)')
  OBVIOUS
<1>1. CASE w = v
  <2>1. count'[w] = count[w] + 1 /\ \E q \in Counted(w)' : q \notin Counted(w)
    BY <1>1, ConsumeCounts
  <2> QED  BY <2>1, WindowCounts
<1>2. CASE w # v
  <2>1. count'[w] = count[w]
    BY <1>2, ConsumeCounts
  <2> QED  BY <2>1, WindowCounts
<1> QED  BY <1>1, <1>2

\* What a request does to the windows.
LEMMA RequestCounts ==
    ASSUME LimiterInv, LimiterInv', CountsFit, IsFiniteSet(Attempt), Subject \notin Address,
           NEW r \in Attempt,
           \/ Arrive(r) \/ ReadLock(r) \/ ConsumeAddress(r) \/ ConsumeSubject(r) \/ CheckFails(r)
           \/ Handle(r) \/ ObserveSuccess(r) \/ ObserveFailure(r) \/ ObserveFails(r)
    PROVE  \A w \in Window : count'[w] <= Cardinality(Counted(w)')
<1>0. attempt \in [Attempt -> AttemptRow]
  BY DEF LimiterInv, LimiterTypes
<1>1. CASE \E s \in Stages : GoTo(r, s) /\ UNCHANGED count /\
                (s # "ended" => s # "idle" /\
                    (s \in {"lock", "address", "subject"} => attempt[r].at \in {"idle", "lock"}))
  <2>1. \A w \in Window : Counted(w) \subseteq Counted(w)'
    BY <1>1, EndingCounts, GoingOnCounts
  <2> QED  BY <1>1, <2>1, WindowCounts
<1>2. CASE Arrive(r)
  <2>1. PICK p \in Rule \X Address : attempt' = [attempt EXCEPT ![r] =
            [at |-> IF p \in Pair THEN "lock" ELSE "address", pair |-> p,
             allowed |-> {}, underLock |-> p \in locked]]
    BY <1>2 DEF Arrive
  <2>2. \A q \in Attempt \ {r} : attempt'[q].at = attempt[q].at /\ PairOf(q)' = PairOf(q)
    BY <2>1, OthersStay
  <2>3. \A v \in Window : ~HasCounted(r, v)
    BY <1>2 DEF Arrive, At, HasCounted
  <2>4. \A w \in Window : Counted(w) \subseteq Counted(w)'
    BY <2>2, <2>3, MoverCounts
  <2> QED  BY <1>2, <2>4, WindowCounts DEF Arrive
<1>3. CASE ReadLock(r)
  BY <1>1, <1>3 DEF ReadLock, At, Stages
<1>4. CASE ConsumeAddress(r)
  <2>1. /\ attempt[r].at = "address" /\ PairOf(r) \in Window /\ Consume(PairOf(r))
    BY <1>4, WindowsOf DEF ConsumeAddress, At
  <2> DEFINE a == [attempt[r] EXCEPT !.at = "subject", !.allowed = Allowed(r, PairOf(r))]
  <2>2. a.at = "subject" /\ a.pair = attempt[r].pair
    BY <1>0 DEF AttemptRow
  <2>3. attempt' = [attempt EXCEPT ![r] = a]
    BY <1>4 DEF ConsumeAddress
  <2> HIDE DEF a
  <2>4. /\ attempt'[r].at = "subject" /\ PairOf(r)' = PairOf(r)
        /\ \A q \in Attempt \ {r} : attempt'[q].at = attempt[q].at /\ PairOf(q)' = PairOf(q)
    BY <2>2, <2>3, OthersStay DEF PairOf
  <2>5. \A v \in Window : ~HasCounted(r, v)
    BY <2>1 DEF HasCounted
  <2>6. \A w \in Window : Counted(w) \subseteq Counted(w)'
    BY <2>4, <2>5, MoverCounts
  <2>7. PICK v \in Window : v = PairOf(r)
    BY <2>1
  <2>8. r \in Counted(v)' /\ r \notin Counted(v) /\ Consume(v)
    BY <2>1, <2>4, <2>5, <2>7 DEF Counted, HasCounted
  <2> QED  BY <2>6, <2>8, ConsumedFits
<1>5. CASE ConsumeSubject(r)
  <2>1. /\ attempt[r].at = "subject" /\ SubjectOf(r) \in Window /\ Consume(SubjectOf(r))
        /\ PairOf(r) \in Asking
    BY <1>5, WindowsOf DEF ConsumeSubject, At
  <2>2. SubjectOf(r) # PairOf(r)
    BY <2>1 DEF Asking, SubjectOf
  <2> DEFINE allowed == Allowed(r, SubjectOf(r))
             s == IF allowed = {PairOf(r), SubjectOf(r)} THEN "handler" ELSE "ended"
             a == Gone([attempt[r] EXCEPT !.allowed = allowed], s)
  <2>3. attempt' = [attempt EXCEPT ![r] = a]
    BY <1>5 DEF ConsumeSubject
  <2>4. a.at \in {"handler", "ended"}
    BY <1>0 DEF Gone, Idle, AttemptRow
  <2> HIDE DEF a
  <2>5. /\ attempt'[r].at \in {"handler", "ended"}
        /\ \A q \in Attempt \ {r} : attempt'[q].at = attempt[q].at /\ PairOf(q)' = PairOf(q)
    BY <2>3, <2>4, OthersStay
  <2>6. \A v \in Window : HasCounted(r, v)'
    BY <2>5 DEF HasCounted
  <2>7. \A w \in Window : Counted(w) \subseteq Counted(w)'
    BY <2>5, <2>6, MoverCounts
  <2>8. PICK v \in Window : v = SubjectOf(r)
    BY <2>1
  <2>9. r \in Counted(v)' /\ r \notin Counted(v) /\ Consume(v)
    BY <2>1, <2>2, <2>6, <2>8 DEF Counted, HasCounted
  <2> QED  BY <2>7, <2>9, ConsumedFits
<1>6. CASE CheckFails(r)
  <2>0. GoTo(r, "ended")
    BY <1>6 DEF CheckFails
  <2>1. /\ \A w \in Window : Counted(w) \subseteq Counted(w)'
        /\ \A w \in Window : r \in Counted(w)'
    BY <2>0, EndingCounts
  <2>2. CASE UNCHANGED count
    BY <2>1, <2>2, WindowCounts
  <2>3. ASSUME NEW v \in Window, Consume(v), r \notin Counted(v)
        PROVE  \A w \in Window : count'[w] <= Cardinality(Counted(w)')
    BY <2>1, <2>3, ConsumedFits
  <2>4. CASE At(r, "address") /\ \E w \in {PairOf(r), SubjectOf(r)} : Consume(w)
    <3>1. \A v \in Window : r \notin Counted(v)
      BY <2>4 DEF At, Counted, HasCounted
    <3> QED  BY <2>3, <2>4, <3>1, WindowsOf DEF At
  <2>5. CASE At(r, "subject") /\ Consume(SubjectOf(r))
    <3>1. SubjectOf(r) \in Window /\ PairOf(r) \in Asking
      BY <2>5, WindowsOf DEF At
    <3>2. r \notin Counted(SubjectOf(r))
      BY <2>5, <3>1 DEF At, Counted, HasCounted, Asking, SubjectOf
    <3> QED  BY <2>3, <2>5, <3>1, <3>2
  <2> QED  BY <1>6, <2>2, <2>4, <2>5 DEF CheckFails
<1>7. CASE Handle(r)
  BY <1>1, <1>7 DEF Handle, At, Stages
<1>8. CASE ObserveSuccess(r)
  <2>1. attempt[r].at = "success" /\ UNCHANGED count /\ attempt' = [q \in Attempt |->
            IF q = r THEN Gone(attempt[q], "ended")
            ELSE IF PairOf(q) = PairOf(r) THEN [attempt[q] EXCEPT !.underLock = FALSE]
            ELSE attempt[q]]
    BY <1>8 DEF ObserveSuccess, At
  <2>2. \A q \in Attempt \ {r} : attempt'[q].at = attempt[q].at /\ PairOf(q)' = PairOf(q)
    BY <1>0, <2>1 DEF AttemptRow, PairOf
  <2>3. \A v \in Window : HasCounted(r, v)'
    BY <2>1 DEF HasCounted, Gone, Idle
  <2>4. \A w \in Window : Counted(w) \subseteq Counted(w)'
    BY <2>2, <2>3, MoverCounts
  <2> QED  BY <2>1, <2>4, WindowCounts
<1>9. CASE ObserveFailure(r) \/ ObserveFails(r)
  BY <1>1, <1>9 DEF ObserveFailure, ObserveFails, Stages
<1> QED  BY <1>2, <1>3, <1>4, <1>5, <1>6, <1>7, <1>8, <1>9

\* FAILURE_SCRIPT turns the failures that reach the threshold into a lock.
LEMMA FailuresFit ==
    ASSUME LimiterInv, CountsFit, [NextRateLimit]_varsRateLimit
    PROVE  \A p \in Pair : failures'[p] < Threshold
<1>1. Threshold \in Nat \ {0} /\ failures \in [Pair -> Nat]
  BY RateLimitAssumption DEF LimiterInv, LimiterTypes
<1>2. CASE UNCHANGED failures
  BY <1>2 DEF CountsFit
<1>3. ASSUME NEW p \in Pair, NEW n \in Nat, n < Threshold, failures' = [failures EXCEPT ![p] = n]
      PROVE  \A q \in Pair : failures'[q] < Threshold
  BY <1>1, <1>3 DEF CountsFit
<1>4. ASSUME NEW r \in Attempt, ObserveFailure(r) PROVE \A p \in Pair : failures'[p] < Threshold
  <2> DEFINE p == PairOf(r)
             n == IF failures[p] + 1 >= Threshold THEN 0 ELSE failures[p] + 1
  <2>1. p \in Pair
    BY <1>4 DEF ObserveFailure, At, LimiterInv, AttemptFits
  <2>2. failures' = [failures EXCEPT ![p] = n]
    BY <1>4 DEF ObserveFailure
  <2>3. failures[p] \in Nat
    BY <1>1, <2>1
  <2> HIDE DEF p
  <2>4. n \in Nat /\ n < Threshold
    BY <1>1, <2>3
  <2> QED  BY <1>3, <2>1, <2>2, <2>4
<1>5. ASSUME NEW r \in Attempt, ObserveSuccess(r) PROVE \A p \in Pair : failures'[p] < Threshold
  <2>1. PairOf(r) \in Pair
    BY <1>5 DEF ObserveSuccess, At, LimiterInv, AttemptFits
  <2>2. PICK p \in Pair : p = PairOf(r)
    BY <2>1
  <2>3. failures' = [failures EXCEPT ![p] = 0] /\ 0 < Threshold /\ 0 \in Nat
    BY <1>1, <1>5, <2>2 DEF ObserveSuccess
  <2> QED  BY <1>3, <2>3
<1>6. ASSUME NEW p \in Pair, ExpireFailures(p) PROVE \A q \in Pair : failures'[q] < Threshold
  <2>1. failures' = [failures EXCEPT ![p] = 0] /\ 0 < Threshold /\ 0 \in Nat
    BY <1>1, <1>6 DEF ExpireFailures
  <2> QED  BY <1>3, <2>1
<1> QED  BY <1>2, <1>4, <1>5, <1>6
  DEF NextRateLimit, varsRateLimit, Arrive, ReadLock, ConsumeAddress, ConsumeSubject, CheckFails,
      Handle, ObserveFails, ExpireWindow, ExpireLock

\* Every step keeps the counts.
LEMMA CountsNextFit ==
    ASSUME IsFiniteSet(Attempt), Subject \notin Address,
           LimiterInv, CountsFit, [NextRateLimit]_varsRateLimit
    PROVE  CountsFit'
<1>0. LimiterInv' /\ \A p \in Pair : failures'[p] < Threshold
  BY LimiterNextKeeps, FailuresFit
<1>1. CASE \E r \in Attempt :
        \/ Arrive(r) \/ ReadLock(r) \/ ConsumeAddress(r) \/ ConsumeSubject(r) \/ CheckFails(r)
        \/ Handle(r) \/ ObserveSuccess(r) \/ ObserveFailure(r) \/ ObserveFails(r)
  BY <1>0, <1>1, RequestCounts DEF CountsFit
<1>2. CASE UNCHANGED <<count, attempt>>
  <2>1. \A w \in Window : Counted(w)' = Counted(w)
    BY <1>2 DEF Counted, HasCounted, PairOf
  <2> QED  BY <1>0, <1>2, <2>1 DEF CountsFit
<1>3. ASSUME NEW v \in Window, ExpireWindow(v) PROVE CountsFit'
  <2>1. \A w \in Window : Counted(w)' = Counted(w)
    BY <1>3 DEF ExpireWindow, Counted, HasCounted, PairOf
  <2>2. \A w \in Window : count'[w] = count[w] \/ count'[w] = 0
    BY <1>3 DEF ExpireWindow, LimiterInv, LimiterTypes
  <2>3. \A w \in Window : Counted(w) \subseteq Counted(w)'
    BY <2>1
  <2> QED  BY <1>0, <2>2, <2>3, WindowCounts DEF CountsFit
<1>4. ASSUME NEW p \in Pair, ExpireLock(p) PROVE CountsFit'
  <2>0. UNCHANGED count
    BY <1>4 DEF ExpireLock
  <2>1. \A q \in Attempt : attempt'[q].at = attempt[q].at /\ PairOf(q)' = PairOf(q)
    BY <1>4 DEF ExpireLock, LimiterInv, LimiterTypes, AttemptRow, PairOf
  <2>2. \A w \in Window : Counted(w) \subseteq Counted(w)'
    BY <2>1 DEF Counted, HasCounted
  <2> QED  BY <1>0, <2>0, <2>2, WindowCounts DEF CountsFit
<1> QED  BY <1>1, <1>2, <1>3, <1>4 DEF NextRateLimit, varsRateLimit, ExpireFailures

\* consume, recordFailure: a request is counted once by a window, whatever
\* overlaps and whatever Redis call fails, and the failures that reach the
\* threshold are not kept.
THEOREM LimiterTypesKept == SpecRateLimit => []TypeOKRateLimit
<1>0. IsFiniteSet(Attempt) /\ Subject \notin Address
  BY RateLimitAssumption DEF Subject
<1>1. InitRateLimit => CountsFit
  <2> SUFFICES ASSUME InitRateLimit PROVE CountsFit
    OBVIOUS
  <2>1. \A w \in Window : Cardinality(Counted(w)) \in Nat /\ count[w] = 0
    BY <1>0, FS_Subset, FS_CardinalityType DEF Counted, InitRateLimit
  <2> QED  BY <2>1, RateLimitAssumption DEF InitRateLimit, CountsFit
<1>2. LimiterInv /\ CountsFit => TypeOKRateLimit
  <2> SUFFICES ASSUME LimiterInv, CountsFit PROVE TypeOKRateLimit
    OBVIOUS
  <2>1. ASSUME NEW w \in Window PROVE count[w] \in 0..Cardinality(Attempt)
    <3>1. Cardinality(Counted(w)) \in Nat /\ Cardinality(Attempt) \in Nat
          /\ Cardinality(Counted(w)) <= Cardinality(Attempt)
      BY <1>0, FS_Subset, FS_CardinalityType DEF Counted
    <3>2. count[w] \in Nat /\ count[w] <= Cardinality(Counted(w))
      BY DEF LimiterInv, LimiterTypes, CountsFit
    <3> QED  BY <3>1, <3>2
  <2>2. ASSUME NEW p \in Pair PROVE failures[p] \in 0..(Threshold - 1)
    BY RateLimitAssumption DEF LimiterInv, LimiterTypes, CountsFit
  <2> QED  BY <2>1, <2>2 DEF LimiterInv, LimiterTypes, AttemptRow, Stages, TypeOKRateLimit
<1>3. LimiterInv /\ CountsFit /\ [NextRateLimit]_varsRateLimit => CountsFit'
  BY <1>0, CountsNextFit
<1> QED  BY <1>1, <1>2, <1>3, LimiterInitially, LimiterNextKeeps, PTL DEF SpecRateLimit

-----------------------------------------------------------------------------
(* E-mail verification *)

Changes == {"suspend", "reactivate", "delete"}
MailingPlaces == {"idle", "user", "pending", "update", "link", "identity", "commit",
                  "status", "ended"}
MailingRow == [call : {"none", "request", "complete"} \cup Changes, at : MailingPlaces,
               link : Mailing \cup {NoLink}, saw : SUBSET Mailing, inTime : BOOLEAN]

MailTypes ==
    /\ identity \in [status : {"active", "suspended", "deleted"}, verified : BOOLEAN]
    /\ link \in [Mailing -> {"none", "pending", "used"}]
    /\ mailing \in [Mailing -> MailingRow]
    /\ holder \in [Lockables -> SUBSET Mailing]

CallFits(m) ==
    /\ mailing[m].call = "none" => mailing[m].at \in {"idle", "ended"}
    /\ mailing[m].call = "request" => mailing[m].at \in {"user", "pending", "update"}
    /\ mailing[m].call = "complete" => /\ mailing[m].at \in {"link", "identity", "commit"}
                                       /\ mailing[m].link \in Mailing
    /\ mailing[m].call \in Changes => mailing[m].at \in {"user", "status"}

\* The rows a call has at each place, and none when it is over.
CallHolds(m) ==
    /\ mailing[m].call = "none" => \A w \in Lockables : m \notin holder[w]
    /\ mailing[m].at \in {"pending", "update", "commit", "status"} => Holds(m, User)
    /\ mailing[m].at \in {"identity", "commit"} => Holds(m, mailing[m].link)

\* What those rows keep saying: a request that has seen the pending links has
\* seen them all.
CallKnows(m) ==
    /\ mailing[m].at \in {"pending", "update", "commit"} => Verifiable
    /\ mailing[m].at = "update" => Pending \subseteq mailing[m].saw
    /\ mailing[m].at \in {"identity", "commit"} => link[mailing[m].link] = "pending"

\* A row has one holder at most.
OneHolder == \A w \in Lockables : \A m, n \in holder[w] : m = n

MailInv ==
    /\ MailTypes
    /\ \A m \in Mailing : CallFits(m) /\ CallHolds(m) /\ CallKnows(m)
    /\ OneHolder
    /\ Pending \subseteq {last}

\* No link has been sent.
LEMMA MailInitially == InitEmailVerification => MailInv
<1>1. SUFFICES ASSUME InitEmailVerification PROVE MailInv
  OBVIOUS
<1>2. MailTypes
  BY <1>1 DEF InitEmailVerification, MailTypes, MailingRow, MailingPlaces, Nothing
<1>3. \A m \in Mailing : mailing[m].call = "none" /\ mailing[m].at = "idle"
  BY <1>1 DEF InitEmailVerification, Nothing
<1>4. \A m \in Mailing : CallFits(m) /\ CallHolds(m) /\ CallKnows(m)
  BY <1>1, <1>3 DEF InitEmailVerification, CallFits, CallHolds, CallKnows, Changes
<1>5. OneHolder /\ Pending = {}
  BY <1>1 DEF InitEmailVerification, OneHolder, Pending
<1>6. QED
  BY <1>2, <1>4, <1>5 DEF MailInv

\* A call that ends leaves its rows, and the others theirs.
LEMMA CloseShape ==
  ASSUME MailInv, NEW m \in Mailing, Close(m)
  PROVE  /\ mailing' \in [Mailing -> MailingRow]
         /\ holder' \in [Lockables -> SUBSET Mailing]
         /\ mailing'[m].call = "none" /\ mailing'[m].at = "ended"
         /\ \A n \in Mailing \ {m} : mailing'[n] = mailing[n]
         /\ OneHolder'
         /\ \A n \in Mailing : CallFits(n)' /\ CallHolds(n)'
<1>1. /\ mailing \in [Mailing -> MailingRow] /\ holder \in [Lockables -> SUBSET Mailing]
      /\ OneHolder /\ \A n \in Mailing : CallFits(n) /\ CallHolds(n)
  BY DEF MailInv, MailTypes
<1>2. [Nothing EXCEPT !.at = "ended"] \in MailingRow
  BY DEF MailingRow, MailingPlaces, Nothing
<1>3. mailing' \in [Mailing -> MailingRow] /\ mailing'[m] = [Nothing EXCEPT !.at = "ended"]
  BY <1>1, <1>2 DEF Close
<1>4. mailing'[m].call = "none" /\ mailing'[m].at = "ended"
  BY <1>3 DEF Nothing
<1>5. \A n \in Mailing \ {m} : mailing'[n] = mailing[n]
  BY <1>1 DEF Close
<1>6. /\ holder' \in [Lockables -> SUBSET Mailing]
      /\ \A w \in Lockables : holder'[w] = holder[w] \ {m}
  BY <1>1 DEF Close
<1>7. OneHolder'
  BY <1>1, <1>6 DEF OneHolder
<1>8. CallFits(m)' /\ CallHolds(m)'
  BY <1>4, <1>6 DEF CallFits, CallHolds, Changes
<1>9. ASSUME NEW n \in Mailing \ {m} PROVE CallFits(n)' /\ CallHolds(n)'
  <2>1. User \in Lockables /\ Mailing \subseteq Lockables
    BY DEF Lockables
  <2>2. \A w \in Lockables : Holds(n, w) => Holds(n, w)'
    BY <1>6 DEF Holds
  <2>3. mailing[n].at \in {"identity", "commit"} => mailing[n].link \in Mailing
    BY <1>1 DEF CallFits, MailingRow, Changes
  <2>4. QED
    BY <1>1, <1>5, <1>6, <2>1, <2>2, <2>3 DEF CallFits, CallHolds
<1>10. QED
  BY <1>3, <1>4, <1>5, <1>6, <1>7, <1>8, <1>9

\* A call that ends without a change.
LEMMA GiveUpMailing ==
  ASSUME MailInv, NEW m \in Mailing, Close(m), UNCHANGED <<identity, link, last>>
  PROVE  MailInv'
<1>1. \A n \in Mailing : CallKnows(n)'
  <2>1. ASSUME NEW n \in Mailing \ {m} PROVE CallKnows(n)'
    BY CloseShape DEF MailInv, CallKnows, Verifiable, Pending
  <2>2. CallKnows(m)'
    BY CloseShape DEF CallKnows
  <2>3. QED
    BY <2>1, <2>2
<1>2. QED
  BY <1>1, CloseShape DEF MailInv, MailTypes, Pending

\* A call that takes free rows, and no change of the tables.
LEMMA CallMoves ==
  ASSUME MailInv, NEW m \in Mailing, UNCHANGED <<identity, link, last>>,
         mailing' \in [Mailing -> MailingRow],
         \A n \in Mailing \ {m} : mailing'[n] = mailing[n],
         holder' \in [Lockables -> SUBSET Mailing],
         \A w \in Lockables : \/ holder'[w] = holder[w]
                              \/ holder'[w] = {m} /\ Lockable(m, w),
         CallFits(m)', CallHolds(m)', CallKnows(m)'
  PROVE  MailInv'
<1>1. OneHolder'
  BY DEF MailInv, OneHolder
<1>2. ASSUME NEW n \in Mailing \ {m} PROVE CallFits(n)' /\ CallHolds(n)' /\ CallKnows(n)'
  <2>1. CallFits(n) /\ CallHolds(n) /\ CallKnows(n) /\ mailing[n] \in MailingRow
    BY DEF MailInv, MailTypes
  <2>2. User \in Lockables /\ Mailing \subseteq Lockables
    BY DEF Lockables
  <2>3. \A w \in Lockables : /\ Holds(n, w) => Holds(n, w)'
                             /\ n \notin holder[w] => n \notin holder'[w]
    BY DEF Holds, Lockable
  <2>4. mailing[n].at \in {"identity", "commit"} => mailing[n].link \in Mailing
    BY <2>1 DEF CallFits, MailingRow, Changes
  <2>5. CallFits(n)' /\ CallHolds(n)'
    BY <2>1, <2>2, <2>3, <2>4 DEF CallFits, CallHolds
  <2>6. CallKnows(n)'
    BY <2>1 DEF CallKnows, Verifiable, Pending
  <2>7. QED
    BY <2>5, <2>6
<1>3. QED
  BY <1>1, <1>2 DEF MailInv, MailTypes, Pending

\* GoOn changes the place only.
LEMMA GoOnShape ==
  ASSUME MailInv, NEW m \in Mailing, NEW s \in MailingPlaces, GoOn(m, s)
  PROVE  /\ mailing' \in [Mailing -> MailingRow]
         /\ \A n \in Mailing \ {m} : mailing'[n] = mailing[n]
         /\ mailing'[m].at = s /\ mailing'[m].call = mailing[m].call
         /\ mailing'[m].link = mailing[m].link /\ mailing'[m].saw = mailing[m].saw
<1>1. mailing \in [Mailing -> MailingRow] /\ mailing[m] \in MailingRow
  BY DEF MailInv, MailTypes
<1>2. /\ mailing'[m] = [mailing[m] EXCEPT !.at = s]
      /\ \A n \in Mailing \ {m} : mailing'[n] = mailing[n]
      /\ DOMAIN mailing' = Mailing
      /\ mailing' = [n \in Mailing |-> mailing'[n]]
  BY <1>1 DEF GoOn
<1>3. /\ [mailing[m] EXCEPT !.at = s] \in MailingRow
      /\ mailing'[m].at = s /\ mailing'[m].call = mailing[m].call
      /\ mailing'[m].link = mailing[m].link /\ mailing'[m].saw = mailing[m].saw
  BY <1>1, <1>2 DEF MailingRow
<1>4. \A n \in Mailing : mailing'[n] \in MailingRow
  BY <1>1, <1>2, <1>3
<1>5. QED
  BY <1>2, <1>3, <1>4

\* A row that is free is taken.
LEMMA LockRowShape ==
  ASSUME MailInv, NEW m \in Mailing, NEW w \in Lockables, LockRow(m, w), Lockable(m, w)
  PROVE  /\ holder' \in [Lockables -> SUBSET Mailing]
         /\ holder'[w] = {m}
         /\ \A v \in Lockables : \/ holder'[v] = holder[v]
                                 \/ holder'[v] = {m} /\ Lockable(m, v)
         /\ \A v \in Lockables : Holds(m, v) => Holds(m, v)'
BY DEF MailInv, MailTypes, LockRow, Holds

\* The routes.
LEMMA AskKeeps ==
  ASSUME MailInv, NEW m \in Mailing, Ask(m)
  PROVE  MailInv'
<1>1. /\ mailing \in [Mailing -> MailingRow] /\ holder \in [Lockables -> SUBSET Mailing]
      /\ CallFits(m) /\ CallHolds(m) /\ mailing[m].at = "idle" /\ mailing[m] \in MailingRow
      /\ UNCHANGED <<identity, link, holder, last>>
  BY DEF Ask, MailInv, MailTypes
<1>2. mailing[m].call = "none"
  BY <1>1 DEF CallFits, MailingRow, Changes
<1>3. ASSUME NEW row \in MailingRow, mailing' = [mailing EXCEPT ![m] = row],
             row.call # "none", row.call \in {"request"} \cup Changes => row.at = "user",
             row.call = "complete" => row.at = "link" /\ row.link \in Mailing
      PROVE  MailInv'
  <2>1. mailing'[m] = row /\ mailing' \in [Mailing -> MailingRow]
    BY <1>1, <1>3
  <2>2. row.at \in {"user", "link"} /\ row.call \in {"request", "complete"} \cup Changes
    BY <1>3 DEF MailingRow
  <2>3. CallFits(m)' /\ CallHolds(m)' /\ CallKnows(m)'
    BY <1>3, <2>1, <2>2 DEF CallFits, CallHolds, CallKnows, Changes
  <2>4. \A n \in Mailing \ {m} : mailing'[n] = mailing[n]
    BY <1>1, <1>3
  <2>5. QED
    BY <1>1, <2>1, <2>3, <2>4, CallMoves
<1>4. ASSUME NEW k \in {"request", "suspend", "reactivate", "delete"},
             mailing' = [mailing EXCEPT ![m] = [Nothing EXCEPT !.call = k, !.at = "user"]]
      PROVE  MailInv'
  <2>1. /\ [Nothing EXCEPT !.call = k, !.at = "user"] \in MailingRow
        /\ [Nothing EXCEPT !.call = k, !.at = "user"].call = k
        /\ [Nothing EXCEPT !.call = k, !.at = "user"].at = "user"
    BY DEF Nothing, MailingRow, MailingPlaces, Changes
  <2>2. QED
    BY <1>3, <1>4, <2>1
<1>5. ASSUME NEW l \in Mailing,
             mailing' = [mailing EXCEPT ![m] =
                [call |-> "complete", at |-> "link", link |-> l, saw |-> {},
                 inTime |-> l \notin lapsed]]
      PROVE  MailInv'
  <2>1. [call |-> "complete", at |-> "link", link |-> l, saw |-> {},
         inTime |-> l \notin lapsed] \in MailingRow
    BY DEF MailingRow, MailingPlaces
  <2>2. QED
    BY <1>3, <1>5, <2>1 DEF Changes
<1>6. QED
  BY <1>4, <1>5 DEF Ask

\* What is true of a call that the next lemmas start from.
LEMMA CallAt ==
  ASSUME MailInv, NEW m \in Mailing
  PROVE  /\ CallFits(m) /\ CallHolds(m) /\ CallKnows(m) /\ mailing[m] \in MailingRow
         /\ mailing \in [Mailing -> MailingRow] /\ holder \in [Lockables -> SUBSET Mailing]
         /\ User \in Lockables /\ Mailing \subseteq Lockables
BY DEF MailInv, MailTypes, Lockables

\* A call that takes one row and goes on.
LEMMA LocksAndGoesOn ==
  ASSUME MailInv, NEW m \in Mailing, NEW s \in MailingPlaces, NEW w \in Lockables,
         GoOn(m, s), LockRow(m, w), Lockable(m, w), UNCHANGED <<identity, link, last>>,
         CallFits(m)', CallHolds(m)', CallKnows(m)'
  PROVE  MailInv'
BY GoOnShape, LockRowShape, CallMoves

\* requestEmailVerification: the user's row.
LEMMA RequestEmailVerificationKeeps ==
  ASSUME MailInv, NEW m \in Mailing, RequestEmailVerification(m)
  PROVE  MailInv'
<1>1. /\ mailing[m].call = "request" /\ Lockable(m, User)
      /\ UNCHANGED <<identity, link, last>>
  BY DEF RequestEmailVerification, Is
<1>2. CASE Verifiable
  <2>1. GoOn(m, "pending") /\ LockRow(m, User) /\ "pending" \in MailingPlaces
    BY <1>2 DEF RequestEmailVerification, MailingPlaces
  <2>2. /\ mailing'[m].at = "pending" /\ mailing'[m].call = "request"
        /\ holder'[User] = {m} /\ User \in Lockables
    BY <1>1, <2>1, GoOnShape, LockRowShape, CallAt
  <2>3. CallFits(m)' /\ CallHolds(m)' /\ CallKnows(m)'
    BY <1>1, <1>2, <2>2 DEF CallFits, CallHolds, CallKnows, Holds, Verifiable, Changes
  <2>4. QED
    BY <1>1, <2>1, <2>2, <2>3, LocksAndGoesOn
<1>3. CASE ~Verifiable
  BY <1>1, <1>3, GiveUpMailing DEF RequestEmailVerification
<1>4. QED
  BY <1>2, <1>3

\* The links the update sees.
LEMMA SeePendingKeeps ==
  ASSUME MailInv, NEW m \in Mailing, SeePending(m)
  PROVE  MailInv'
<1>1. /\ mailing[m].call = "request" /\ mailing[m].at = "pending"
      /\ UNCHANGED <<identity, link, holder, last>>
      /\ mailing' = [mailing EXCEPT ![m].at = "update", ![m].saw = Pending]
  BY DEF SeePending, Is
<1>2. Pending \in SUBSET Mailing
  BY DEF Pending
<1>3. [mailing[m] EXCEPT !.at = "update", !.saw = Pending] \in MailingRow
  <2>1. mailing[m] \in MailingRow
    BY CallAt
  <2>2. QED
    BY <1>2, <2>1 DEF MailingRow, MailingPlaces
<1>4. /\ mailing' \in [Mailing -> MailingRow]
      /\ mailing'[m] = [mailing[m] EXCEPT !.at = "update", !.saw = Pending]
      /\ \A n \in Mailing \ {m} : mailing'[n] = mailing[n]
  BY <1>1, <1>3, CallAt
<1>5. /\ mailing'[m].at = "update" /\ mailing'[m].call = "request"
      /\ mailing'[m].saw = Pending
  BY <1>1, <1>4, CallAt DEF MailingRow
<1>6. CallFits(m)' /\ CallHolds(m)' /\ CallKnows(m)'
  <2>1. CallFits(m)'
    BY <1>5 DEF CallFits, Changes
  <2>2. Holds(m, User)' /\ Verifiable'
    BY <1>1, CallAt DEF CallHolds, CallKnows, Holds, Verifiable
  <2>3. Pending' = Pending
    BY <1>1 DEF Pending
  <2>4. CallHolds(m)' /\ CallKnows(m)'
    BY <1>5, <2>2, <2>3 DEF CallHolds, CallKnows
  <2>5. QED
    BY <2>1, <2>4
<1>7. holder' \in [Lockables -> SUBSET Mailing]
  BY <1>1, CallAt
<1>8. QED
  BY <1>1, <1>4, <1>6, <1>7, CallMoves

\* The rows of those links, one by one.
LEMMA LockPendingKeeps ==
  ASSUME MailInv, NEW m \in Mailing, LockPending(m)
  PROVE  MailInv'
<1>1. /\ mailing[m].call = "request" /\ mailing[m].at = "update"
      /\ UNCHANGED <<identity, link, mailing, last>>
  BY DEF LockPending, Is
<1>2. PICK l \in mailing[m].saw : Lockable(m, l) /\ LockRow(m, l)
  BY DEF LockPending
<1>3. l \in Lockables
  BY <1>2, CallAt DEF MailingRow
<1>4. /\ holder' \in [Lockables -> SUBSET Mailing]
      /\ \A v \in Lockables : \/ holder'[v] = holder[v]
                              \/ holder'[v] = {m} /\ Lockable(m, v)
      /\ \A v \in Lockables : Holds(m, v) => Holds(m, v)'
  BY <1>2, <1>3, LockRowShape
<1>5. CallFits(m)' /\ CallHolds(m)' /\ CallKnows(m)'
  BY <1>1, <1>4, CallAt DEF CallFits, CallHolds, CallKnows, Verifiable, Pending
<1>6. QED
  BY <1>1, <1>4, <1>5, CallAt, CallMoves

\* completeEmailVerification: the link's row.
LEMMA LockLinkKeeps ==
  ASSUME MailInv, NEW m \in Mailing, LockLink(m)
  PROVE  MailInv'
<1> DEFINE l == mailing[m].link
<1>1. /\ mailing[m].call = "complete" /\ mailing[m].at = "link" /\ Lockable(m, l)
      /\ UNCHANGED <<identity, link, last>>
  BY DEF LockLink, Is
<1>2. l \in Mailing /\ l \in Lockables
  BY <1>1, CallAt DEF CallFits
<1>3. CASE link[l] = "pending"
  <2>1. GoOn(m, "identity") /\ LockRow(m, l) /\ "identity" \in MailingPlaces
    BY <1>3 DEF LockLink, MailingPlaces
  <2>2. /\ mailing'[m].at = "identity" /\ mailing'[m].call = "complete"
        /\ mailing'[m].link = l /\ holder'[l] = {m}
    BY <1>1, <1>2, <2>1, GoOnShape, LockRowShape
  <2>3. CallFits(m)' /\ CallHolds(m)' /\ CallKnows(m)'
    BY <1>1, <1>2, <1>3, <2>2 DEF CallFits, CallHolds, CallKnows, Holds, Changes
  <2>4. QED
    BY <1>1, <1>2, <2>1, <2>3, LocksAndGoesOn
<1>4. CASE link[l] # "pending"
  BY <1>1, <1>4, GiveUpMailing DEF LockLink
<1>5. QED
  BY <1>3, <1>4

\* ... then the user's.
LEMMA LockIdentityKeeps ==
  ASSUME MailInv, NEW m \in Mailing, LockIdentity(m)
  PROVE  MailInv'
<1>1. /\ mailing[m].call = "complete" /\ mailing[m].at = "identity" /\ Lockable(m, User)
      /\ UNCHANGED <<identity, link, last>>
  BY DEF LockIdentity, Is
<1>2. CASE Verifiable /\ mailing[m].inTime
  <2>1. GoOn(m, "commit") /\ LockRow(m, User) /\ "commit" \in MailingPlaces
    BY <1>2 DEF LockIdentity, MailingPlaces
  <2>2. /\ mailing'[m].at = "commit" /\ mailing'[m].call = "complete"
        /\ mailing'[m].link = mailing[m].link /\ mailing[m].link \in Mailing
        /\ holder'[User] = {m} /\ User \in Lockables
        /\ \A v \in Lockables : Holds(m, v) => Holds(m, v)'
    BY <1>1, <2>1, GoOnShape, LockRowShape, CallAt DEF CallFits
  <2>3. mailing[m].link \in Lockables
    BY <2>2, CallAt
  <2>4. Holds(m, mailing[m].link)'
    BY <1>1, <2>2, <2>3, CallAt DEF CallHolds
  <2>5. CallFits(m)' /\ CallHolds(m)' /\ CallKnows(m)'
    BY <1>1, <1>2, <2>2, <2>4, CallAt
       DEF CallFits, CallHolds, CallKnows, Holds, Verifiable, Changes
  <2>6. QED
    BY <1>1, <2>1, <2>2, <2>5, LocksAndGoesOn
<1>3. CASE ~(Verifiable /\ mailing[m].inTime)
  BY <1>1, <1>3, GiveUpMailing DEF LockIdentity
<1>4. QED
  BY <1>2, <1>3

\* setUserStatus, deleteUser: the user's row.
LEMMA LockStatusKeeps ==
  ASSUME MailInv, NEW m \in Mailing, LockStatus(m)
  PROVE  MailInv'
<1>1. /\ mailing[m].call \in Changes /\ Lockable(m, User)
      /\ UNCHANGED <<identity, link, last>>
  BY DEF LockStatus, Target, Changes
<1>2. CASE Close(m)
  BY <1>1, <1>2, GiveUpMailing
<1>3. CASE GoOn(m, "status") /\ LockRow(m, User)
  <2>1. "status" \in MailingPlaces
    BY DEF MailingPlaces
  <2>2. /\ mailing'[m].at = "status" /\ mailing'[m].call \in Changes
        /\ holder'[User] = {m} /\ User \in Lockables
    BY <1>1, <1>3, <2>1, GoOnShape, LockRowShape, CallAt
  <2>3. CallFits(m)' /\ CallHolds(m)' /\ CallKnows(m)'
    BY <1>1, <2>2 DEF CallFits, CallHolds, CallKnows, Holds, Changes
  <2>4. QED
    BY <1>1, <1>3, <2>1, <2>2, <2>3, LocksAndGoesOn
<1>4. QED
  BY <1>2, <1>3 DEF LockStatus

\* One row has not two holders.
LEMMA HeldApart ==
  ASSUME MailInv, NEW m \in Mailing, NEW n \in Mailing \ {m}, NEW w, Holds(m, w)
  PROVE  ~Holds(n, w)
BY DEF Holds

\* A request commits: the links it has seen were all, and nobody uses one.
LEMMA CommitMailingKeeps ==
  ASSUME MailInv, NEW m \in Mailing, CommitMailing(m)
  PROVE  MailInv' /\ Pending' \subseteq {last'} /\ Verifiable
<1>1. /\ mailing[m].call = "request" /\ mailing[m].at = "update"
      /\ \A l \in mailing[m].saw : Holds(m, l)
      /\ link' = [l \in Mailing |->
            IF l = m THEN "pending"
            ELSE IF l \in mailing[m].saw THEN "used" ELSE link[l]]
      /\ last' = m /\ Close(m) /\ UNCHANGED identity
  BY DEF CommitMailing, Is
<1>2. Verifiable /\ Pending \subseteq mailing[m].saw /\ Holds(m, User)
  BY <1>1, CallAt DEF CallKnows, CallHolds
<1>3. link' \in [Mailing -> {"none", "pending", "used"}]
  BY <1>1 DEF MailInv, MailTypes
<1>4. Pending' \subseteq {last'}
  BY <1>1, <1>2 DEF Pending
<1>5. ASSUME NEW n \in Mailing \ {m} PROVE CallKnows(n)'
  <2>1. CallKnows(n) /\ CallHolds(n) /\ CallFits(n) /\ mailing'[n] = mailing[n]
        /\ mailing[n] \in MailingRow
    BY <1>1, CallAt, CloseShape
  <2>2. mailing[n].at \notin {"pending", "update", "commit"}
    BY <1>2, <2>1, HeldApart DEF CallHolds
  <2>3. CASE mailing[n].at = "identity"
    <3>1. Holds(n, mailing[n].link) /\ mailing[n].link \in Mailing
          /\ link[mailing[n].link] = "pending"
      BY <2>1, <2>3 DEF CallHolds, CallFits, CallKnows, MailingRow, Changes
    <3>2. mailing[n].link \notin mailing[m].saw
      BY <1>1, <3>1, HeldApart
    <3>3. QED
      BY <1>2, <3>1, <3>2 DEF Pending
  <2>4. CASE mailing[n].at # "identity"
    BY <2>1, <2>2, <2>4 DEF CallKnows
  <2>5. QED
    BY <2>3, <2>4
<1>6. CallKnows(m)'
  BY <1>1, CloseShape DEF CallKnows
<1>7. MailTypes' /\ OneHolder' /\ \A n \in Mailing : CallFits(n)' /\ CallHolds(n)'
  BY <1>1, <1>3, CloseShape DEF MailInv, MailTypes
<1>8. QED
  BY <1>2, <1>4, <1>5, <1>6, <1>7 DEF MailInv

\* A verification commits: its link is the one sent last.
LEMMA CompleteEmailVerificationKeeps ==
  ASSUME MailInv, NEW m \in Mailing, CompleteEmailVerification(m)
  PROVE  /\ MailInv'
         /\ identity'.status = "active"
         /\ link[last] = "pending" /\ link'[last] = "used"
<1> DEFINE l == mailing[m].link
<1>1. /\ mailing[m].call = "complete" /\ mailing[m].at = "commit"
      /\ identity' = [identity EXCEPT !.verified = TRUE]
      /\ link' = [link EXCEPT ![l] = "used"]
      /\ Close(m) /\ UNCHANGED last
  BY DEF CompleteEmailVerification, Is
<1>2. /\ Verifiable /\ Holds(m, User) /\ Holds(m, l) /\ l \in Mailing /\ link[l] = "pending"
  BY <1>1, CallAt DEF CallKnows, CallHolds, CallFits
<1>3. /\ link \in [Mailing -> {"none", "pending", "used"}]
      /\ identity \in [status : {"active", "suspended", "deleted"}, verified : BOOLEAN]
      /\ Pending \subseteq {last}
  BY DEF MailInv, MailTypes
<1>4. l = last
  BY <1>2, <1>3 DEF Pending
<1>5. /\ link' \in [Mailing -> {"none", "pending", "used"}]
      /\ link'[l] = "used" /\ \A k \in Mailing \ {l} : link'[k] = link[k]
      /\ identity' \in [status : {"active", "suspended", "deleted"}, verified : BOOLEAN]
      /\ identity'.status = "active"
  BY <1>1, <1>2, <1>3 DEF Verifiable
<1>6. Pending' \subseteq Pending
  BY <1>3, <1>5 DEF Pending
<1>7. ASSUME NEW n \in Mailing \ {m} PROVE CallKnows(n)'
  <2>1. CallKnows(n) /\ CallHolds(n) /\ CallFits(n) /\ mailing'[n] = mailing[n]
        /\ mailing[n] \in MailingRow
    BY <1>1, CallAt, CloseShape
  <2>2. mailing[n].at \notin {"pending", "update", "commit"}
    BY <1>2, <2>1, HeldApart DEF CallHolds
  <2>3. CASE mailing[n].at = "identity"
    <3>1. Holds(n, mailing[n].link) /\ mailing[n].link \in Mailing
          /\ link[mailing[n].link] = "pending"
      BY <2>1, <2>3 DEF CallHolds, CallFits, CallKnows, MailingRow, Changes
    <3>2. mailing[n].link # l
      BY <1>2, <3>1, HeldApart
    <3>3. link'[mailing'[n].link] = "pending"
      BY <1>5, <2>1, <3>1, <3>2
    <3>4. QED
      BY <2>1, <2>3, <3>3 DEF CallKnows
  <2>4. CASE mailing[n].at # "identity"
    BY <2>1, <2>2, <2>4 DEF CallKnows
  <2>5. QED
    BY <2>3, <2>4
<1>8. CallKnows(m)'
  BY <1>1, CloseShape DEF CallKnows
<1>9. MailTypes' /\ OneHolder' /\ \A n \in Mailing : CallFits(n)' /\ CallHolds(n)'
  BY <1>1, <1>5, CloseShape DEF MailInv, MailTypes
<1>10. QED
  BY <1>1, <1>2, <1>3, <1>4, <1>5, <1>6, <1>7, <1>8, <1>9 DEF MailInv

\* A change of status commits: no request or verification is between.
LEMMA CommitIdentityKeeps ==
  ASSUME MailInv, NEW m \in Mailing, CommitIdentity(m)
  PROVE  MailInv' /\ (identity'.verified => identity.verified)
<1>1. /\ mailing[m].at = "status" /\ Close(m) /\ UNCHANGED <<link, last>>
      /\ identity' = [status |-> Target[mailing[m].call],
                      verified |-> identity.verified /\ mailing[m].call # "delete"]
  BY DEF CommitIdentity
<1>2. Holds(m, User) /\ mailing[m].call \in Changes
  BY <1>1, CallAt DEF CallHolds, CallFits, MailingRow
<1>3. Target[mailing[m].call] \in {"active", "suspended", "deleted"}
  BY <1>2 DEF Target, Changes
<1>4. identity' \in [status : {"active", "suspended", "deleted"}, verified : BOOLEAN]
  BY <1>1, <1>3 DEF MailInv, MailTypes
<1>5. ASSUME NEW n \in Mailing \ {m} PROVE CallKnows(n)'
  <2>1. CallKnows(n) /\ CallHolds(n) /\ mailing'[n] = mailing[n]
    BY <1>1, CallAt, CloseShape
  <2>2. mailing[n].at \notin {"pending", "update", "commit"}
    BY <1>2, <2>1, HeldApart DEF CallHolds
  <2>3. QED
    BY <1>1, <2>1, <2>2 DEF CallKnows
<1>6. CallKnows(m)'
  BY <1>1, CloseShape DEF CallKnows
<1>7. MailTypes' /\ OneHolder' /\ \A n \in Mailing : CallFits(n)' /\ CallHolds(n)'
  BY <1>1, <1>4, CloseShape DEF MailInv, MailTypes
<1>8. Pending' \subseteq {last'}
  BY <1>1 DEF MailInv, Pending
<1>9. QED
  BY <1>1, <1>5, <1>6, <1>7, <1>8 DEF MailInv

\* The conjuncts of VerificationIsCurrent, of a step.
Current ==
    /\ Pending' \subseteq {last'}
    /\ last' # last => Verifiable
    /\ ~identity.verified /\ identity'.verified =>
        /\ identity'.status = "active"
        /\ link[last] = "pending" /\ link'[last] = "used"

\* Every step keeps the invariant, and sends and uses links as it may.
LEMMA MailNextKeeps ==
  ASSUME MailInv, [NextEmailVerification]_varsEmailVerification
  PROVE  MailInv' /\ Current
<1>1. ASSUME MailInv', UNCHANGED <<identity, last>> PROVE Current
  BY <1>1 DEF MailInv, Current
<1>2. ASSUME NEW m \in Mailing, Ask(m) PROVE MailInv' /\ UNCHANGED <<identity, last>>
  BY <1>2, AskKeeps DEF Ask
<1>3. ASSUME NEW m \in Mailing, RequestEmailVerification(m) \/ SeePending(m) \/ LockPending(m)
      PROVE MailInv' /\ UNCHANGED <<identity, last>>
  BY <1>3, RequestEmailVerificationKeeps, SeePendingKeeps, LockPendingKeeps
     DEF RequestEmailVerification, SeePending, LockPending
<1>4. ASSUME NEW m \in Mailing, LockLink(m) \/ LockIdentity(m) \/ LockStatus(m)
      PROVE MailInv' /\ UNCHANGED <<identity, last>>
  BY <1>4, LockLinkKeeps, LockIdentityKeeps, LockStatusKeeps
     DEF LockLink, LockIdentity, LockStatus
<1>5. ASSUME NEW m \in Mailing, RollBack(m) PROVE MailInv' /\ UNCHANGED <<identity, last>>
  BY <1>5, GiveUpMailing DEF RollBack
<1>6. ASSUME UNCHANGED <<identity, link, mailing, holder, last>>
      PROVE  MailInv' /\ UNCHANGED <<identity, last>>
  <2>1. \A m \in Mailing : CallFits(m)' /\ CallHolds(m)' /\ CallKnows(m)'
    BY <1>6 DEF MailInv, CallFits, CallHolds, CallKnows, Holds, Verifiable, Pending
  <2>2. QED
    BY <1>6, <2>1 DEF MailInv, MailTypes, OneHolder, Pending
<1>7. ASSUME NEW m \in Mailing, CommitMailing(m) PROVE MailInv' /\ Current
  <2>1. UNCHANGED identity
    BY <1>7 DEF CommitMailing
  <2>2. QED
    BY <1>7, <2>1, CommitMailingKeeps DEF Current
<1>8. ASSUME NEW m \in Mailing, CompleteEmailVerification(m) PROVE MailInv' /\ Current
  <2>1. UNCHANGED last
    BY <1>8 DEF CompleteEmailVerification
  <2>2. QED
    BY <1>8, <2>1, CompleteEmailVerificationKeeps DEF Current, MailInv
<1>9. ASSUME NEW m \in Mailing, CommitIdentity(m) PROVE MailInv' /\ Current
  <2>1. UNCHANGED last
    BY <1>9 DEF CommitIdentity
  <2>2. QED
    BY <1>9, <2>1, CommitIdentityKeeps DEF Current, MailInv
<1>10. QED
  BY <1>1, <1>2, <1>3, <1>4, <1>5, <1>6, <1>7, <1>8, <1>9
     DEF NextEmailVerification, Lapse, varsEmailVerification

\* requestEmailVerification, completeEmailVerification: only the link sent last
\* is ever pending, and it alone verifies an address, of an active identity.
THEOREM VerifiedByTheLastLink == SpecEmailVerification => VerificationIsCurrent
<1>1. MailInv /\ [NextEmailVerification]_varsEmailVerification =>
          MailInv' /\ [Current]_varsEmailVerification
  BY MailNextKeeps
<1>2. QED
  BY <1>1, MailInitially, PTL DEF SpecEmailVerification, VerificationIsCurrent, Current

\* The identity, the links and the calls keep their types, a call that is over
\* holds no row, and a row has one holder.
THEOREM MailTypesKept == SpecEmailVerification => []TypeOKEmailVerification
<1>1. ASSUME MailInv PROVE TypeOKEmailVerification
  <2>1. ASSUME NEW w \in Lockables PROVE Cardinality(holder[w]) <= 1
    <3>1. CASE holder[w] = {}
      BY <3>1, FS_EmptySet
    <3>2. CASE holder[w] # {}
      <4>1. PICK m \in holder[w] : TRUE
        BY <3>2
      <4>2. holder[w] = {m}
        BY <1>1, <4>1 DEF MailInv, OneHolder
      <4>3. Cardinality({m}) = 1
        BY FS_Singleton
      <4>4. QED
        BY <4>2, <4>3
    <3>3. QED
      BY <3>1, <3>2
  <2>2. ASSUME NEW m \in Mailing
        PROVE  mailing[m].call \in {"none", "request", "complete", "suspend", "reactivate", "delete"}
    BY <1>1, CallAt DEF MailingRow, Changes
  <2>3. QED
    BY <1>1, <2>1, <2>2 DEF MailInv, MailTypes, CallHolds, TypeOKEmailVerification
<1>2. MailInv /\ [NextEmailVerification]_varsEmailVerification => MailInv'
  BY MailNextKeeps
<1>3. QED
  BY <1>1, <1>2, MailInitially, PTL DEF SpecEmailVerification

-----------------------------------------------------------------------------
(* The OAuth lifecycle *)

ExchangeRow == [call : {"none", "code", "refresh", "logout", "revoke", "check"},
                at : {"idle", "begin", "member", "handler", "rotate", "delete", "purge",
                      "persist", "session", "revocation", "revoking", "ended", "granted"},
                token : Pairs, sid : BOOLEAN]
BasisRow == [active : BOOLEAN, member : BOOLEAN, revoked : BOOLEAN]

\* What there was when a request began is there no more than then, and what it
\* has checked was there.
ExchangeFits(e) ==
    /\ exchange[e].at \in {"idle", "ended", "granted"} <=> exchange[e].call = "none"
    /\ exchange[e].call # "none" => refresh[exchange[e].token] # "none"
    /\ exchange[e].at # "granted" => e \notin bound
    /\ exchange[e].call \in {"refresh", "check"} => (signedIn = "active" => basis[e].active)
    /\ exchange[e].call = "code" => basis[e].active
    /\ exchange[e].call \in {"code", "refresh"} => (member => basis[e].member)
    /\ exchange[e].at \in {"member", "handler", "rotate", "revocation"} => basis[e].active
    /\ exchange[e].at \in {"handler", "rotate"} => basis[e].member
    /\ exchange[e].call = "check" /\ basis[e].revoked =>
           exchange[e].token \in revoked \cup outdated

OAuthInv ==
    /\ TypeOKOAuth
    /\ exchange \in [Exchange -> ExchangeRow]
    /\ basis \in [Exchange -> BasisRow]
    /\ \A e \in Exchange : ExchangeFits(e)

\* No request has begun.
LEMMA OAuthInitially == InitOAuth => OAuthInv
<1>1. SUFFICES ASSUME InitOAuth PROVE OAuthInv
  OBVIOUS
<1>2. First \in Pairs /\ \A e \in Exchange : e # First
  BY RequestsAssumption DEF Pairs, First, Exchange
<1>3. TypeOKOAuth
  BY <1>1, <1>2 DEF InitOAuth, TypeOKOAuth
<1>4. NoRequest \in ExchangeRow /\ NoBasis \in BasisRow
  BY <1>2 DEF NoRequest, NoBasis, ExchangeRow, BasisRow
<1>5. exchange \in [Exchange -> ExchangeRow] /\ basis \in [Exchange -> BasisRow]
  BY <1>1, <1>4 DEF InitOAuth
<1>6. \A e \in Exchange : ExchangeFits(e)
  BY <1>1, <1>2 DEF InitOAuth, ExchangeFits, NoRequest, NoBasis
<1>7. QED
  BY <1>3, <1>5, <1>6 DEF OAuthInv

\* What the other requests rely on only goes away: sessions, members, and of
\* the revocations those of tokens that have expired.
Fades ==
    /\ signedIn' = "active" => signedIn = "active"
    /\ member' => member
    /\ revoked \subseteq revoked' \cup outdated' /\ outdated \subseteq outdated'
    /\ \A t \in Pairs : refresh[t] # "none" => refresh'[t] # "none"

\* A request that rests still fits.
LEMMA RestsFitting ==
  ASSUME OAuthInv, NEW e \in Exchange, exchange'[e] = exchange[e], basis'[e] = basis[e],
         Fades, e \in bound' => e \in bound
  PROVE  ExchangeFits(e)'
<1>1. ExchangeFits(e) /\ exchange[e].token \in Pairs
  BY DEF OAuthInv, ExchangeRow
<1>2. QED
  BY <1>1 DEF ExchangeFits, Fades

\* A step of request e.
LEMMA ExchangeMoves ==
  ASSUME OAuthInv, NEW e \in Exchange, NEW row \in ExchangeRow, NEW base \in BasisRow,
         exchange' = [exchange EXCEPT ![e] = row], basis' = [basis EXCEPT ![e] = base],
         Fades, TypeOKOAuth', bound' \subseteq bound \cup {e},
         ExchangeFits(e)'
  PROVE  OAuthInv'
<1>1. /\ exchange' \in [Exchange -> ExchangeRow] /\ basis' \in [Exchange -> BasisRow]
      /\ \A d \in Exchange \ {e} : exchange'[d] = exchange[d] /\ basis'[d] = basis[d]
  BY DEF OAuthInv
<1>2. \A d \in Exchange \ {e} : ExchangeFits(d)'
  BY <1>1, RestsFitting
<1>3. QED
  BY <1>1, <1>2 DEF OAuthInv

\* A request that is over is forgotten.
LEMMA DoneKeeps ==
  ASSUME OAuthInv, NEW e \in Exchange, NEW how \in {"ended", "granted"}, Done(e, how),
         Fades, TypeOKOAuth', bound' \subseteq bound \cup {e},
         e \in bound' => how = "granted"
  PROVE  OAuthInv'
<1> DEFINE row == [NoRequest EXCEPT !.at = how]
<1>1. First \in Pairs
  BY DEF Pairs
<1>2. row \in ExchangeRow /\ row.call = "none" /\ row.at = how /\ NoBasis \in BasisRow
  BY <1>1 DEF NoRequest, ExchangeRow, NoBasis, BasisRow
<1>3. exchange' = [exchange EXCEPT ![e] = row] /\ basis' = [basis EXCEPT ![e] = NoBasis]
  BY DEF Done
<1> HIDE DEF row
<1>4. exchange'[e] = row
  BY <1>3 DEF OAuthInv
<1>5. ExchangeFits(e)'
  BY <1>2, <1>4 DEF ExchangeFits
<1>6. QED
  BY <1>2, <1>3, <1>5, ExchangeMoves

\* ... without a change of the tables.
LEMMA DenyKeeps ==
  ASSUME OAuthInv, NEW e \in Exchange, exchange[e].at # "granted",
         Over(e), UNCHANGED tables, familyLock' \subseteq familyLock
  PROVE  OAuthInv'
<1>1. Fades /\ TypeOKOAuth' /\ bound' = bound
  BY DEF tables, Fades, OAuthInv, TypeOKOAuth
<1>2. e \notin bound'
  BY <1>1 DEF OAuthInv, ExchangeFits
<1>3. QED
  BY <1>1, <1>2, DoneKeeps DEF Over

\* A request that goes on has checked what its next place says.
LEMMA ProceedKeeps ==
  ASSUME OAuthInv, NEW e \in Exchange, exchange[e].call # "none",
         NEW s \in {"member", "handler", "rotate", "delete", "purge", "persist", "session",
                    "revocation", "revoking"},
         NEW b \in BOOLEAN,
         exchange' = [exchange EXCEPT ![e].at = s, ![e].sid = b] \/ Proceed(e, s),
         UNCHANGED basis, Fades, TypeOKOAuth', bound' = bound,
         s \in {"member", "handler", "rotate", "revocation"} => basis[e].active,
         s \in {"handler", "rotate"} => basis[e].member
  PROVE  OAuthInv'
<1>1. /\ exchange \in [Exchange -> ExchangeRow] /\ exchange[e] \in ExchangeRow
      /\ basis \in [Exchange -> BasisRow] /\ ExchangeFits(e)
  BY DEF OAuthInv
<1>2. PICK row \in ExchangeRow :
          /\ exchange' = [exchange EXCEPT ![e] = row]
          /\ row.call = exchange[e].call /\ row.token = exchange[e].token /\ row.at = s
  <2>1. CASE Proceed(e, s)
    <3>1. exchange' = [exchange EXCEPT ![e] = [exchange[e] EXCEPT !.at = s]]
      BY <2>1 DEF Proceed
    <3>2. /\ [exchange[e] EXCEPT !.at = s] \in ExchangeRow
          /\ [exchange[e] EXCEPT !.at = s].call = exchange[e].call
          /\ [exchange[e] EXCEPT !.at = s].token = exchange[e].token
          /\ [exchange[e] EXCEPT !.at = s].at = s
      BY <1>1 DEF ExchangeRow
    <3>3. QED
      BY <3>1, <3>2
  <2>2. CASE exchange' = [exchange EXCEPT ![e].at = s, ![e].sid = b]
    <3>1. exchange' = [exchange EXCEPT ![e] = [exchange[e] EXCEPT !.at = s, !.sid = b]]
      BY <1>1, <2>2
    <3>2. /\ [exchange[e] EXCEPT !.at = s, !.sid = b] \in ExchangeRow
          /\ [exchange[e] EXCEPT !.at = s, !.sid = b].call = exchange[e].call
          /\ [exchange[e] EXCEPT !.at = s, !.sid = b].token = exchange[e].token
          /\ [exchange[e] EXCEPT !.at = s, !.sid = b].at = s
      BY <1>1 DEF ExchangeRow
    <3>3. QED
      BY <3>1, <3>2
  <2>3. QED
    BY <2>1, <2>2
<1>3. exchange'[e] = row /\ basis'[e] = basis[e] /\ basis' = [basis EXCEPT ![e] = basis[e]]
  BY <1>1, <1>2
<1>4. exchange[e].at # "granted" /\ exchange[e].token \in Pairs
  BY <1>1 DEF ExchangeFits, ExchangeRow
<1>5. ExchangeFits(e)'
  BY <1>1, <1>2, <1>3, <1>4 DEF ExchangeFits, Fades
<1>6. QED
  BY <1>1, <1>2, <1>3, <1>5, ExchangeMoves

\* Tables that stay fade no further.
LEMMA TablesRest ==
  ASSUME OAuthInv, UNCHANGED tables, familyLock' \subseteq Pairs
  PROVE  Fades /\ TypeOKOAuth' /\ bound' = bound
BY DEF tables, Fades, OAuthInv, TypeOKOAuth

\* The endpoints.
LEMMA PresentKeeps ==
  ASSUME OAuthInv, NEW e \in Exchange, Present(e)
  PROVE  OAuthInv'
<1>1. PICK k \in {"code", "refresh", "logout", "revoke", "check"}, t \in Pairs :
        /\ refresh[t] # "none"
        /\ exchange' = [exchange EXCEPT ![e] =
                           [call |-> k, at |-> "begin", token |-> t, sid |-> FALSE]]
        /\ basis' = [basis EXCEPT ![e] = IF k \in {"code", "refresh", "check"}
                THEN [active |-> k # "code" => signedIn = "active",
                      member |-> k # "check" => member,
                      revoked |-> k = "check" /\ t \in revoked]
                ELSE NoBasis]
  BY DEF Present
<1>2. exchange[e].at = "idle" /\ UNCHANGED <<tables, familyLock>>
  BY DEF Present
<1> DEFINE row == [call |-> k, at |-> "begin", token |-> t, sid |-> FALSE]
           base == IF k \in {"code", "refresh", "check"}
                   THEN [active |-> k # "code" => signedIn = "active",
                         member |-> k # "check" => member,
                         revoked |-> k = "check" /\ t \in revoked]
                   ELSE NoBasis
<1>3. /\ row \in ExchangeRow /\ row.call = k /\ row.at = "begin" /\ row.token = t
  BY DEF ExchangeRow
<1>4. /\ base \in BasisRow
      /\ k \in {"refresh", "check"} => base.active = (signedIn = "active")
      /\ k = "code" => base.active
      /\ k \in {"code", "refresh"} => base.member = member
      /\ k = "check" => base.revoked = (t \in revoked)
  <2>1. signedIn \in {"active", "expired", "deleted"} /\ member \in BOOLEAN
    BY DEF OAuthInv, TypeOKOAuth
  <2>2. CASE k = "code"
    BY <2>1, <2>2 DEF BasisRow
  <2>3. CASE k = "refresh"
    BY <2>1, <2>3 DEF BasisRow
  <2>4. CASE k = "check"
    BY <2>1, <2>4 DEF BasisRow
  <2>5. CASE k \in {"logout", "revoke"}
    BY <2>5 DEF BasisRow, NoBasis
  <2> HIDE DEF base
  <2>6. QED
    BY <2>2, <2>3, <2>4, <2>5
<1> HIDE DEF row, base
<1>5. /\ exchange' = [exchange EXCEPT ![e] = row] /\ basis' = [basis EXCEPT ![e] = base]
  BY <1>1 DEF row, base
<1>6. exchange'[e] = row /\ basis'[e] = base
  BY <1>5 DEF OAuthInv
<1>7. Fades /\ TypeOKOAuth' /\ bound' = bound
  BY <1>2, TablesRest DEF OAuthInv, TypeOKOAuth
<1>8. e \notin bound
  BY <1>2 DEF OAuthInv, ExchangeFits
<1>9. UNCHANGED <<signedIn, member, refresh, revoked, outdated>>
  BY <1>2 DEF tables
<1>10. ExchangeFits(e)'
  BY <1>1, <1>3, <1>4, <1>6, <1>7, <1>8, <1>9 DEF ExchangeFits
<1>11. QED
  BY <1>3, <1>4, <1>5, <1>7, <1>10, ExchangeMoves

\* A check that reads the tables and goes on or is denied.
LEMMA ReadKeeps ==
  ASSUME OAuthInv, NEW e \in Exchange, exchange[e].call # "none",
         NEW s \in {"member", "handler", "rotate", "delete", "purge", "persist", "session",
                    "revocation", "revoking"},
         (Proceed(e, s) /\ UNCHANGED <<tables, familyLock, basis>>) \/ Deny(e),
         s \in {"member", "handler", "rotate", "revocation"} =>
             Deny(e) \/ basis[e].active,
         s \in {"handler", "rotate"} => Deny(e) \/ basis[e].member
  PROVE  OAuthInv'
<1>1. familyLock \subseteq Pairs /\ ExchangeFits(e)
  BY DEF OAuthInv, TypeOKOAuth
<1>2. CASE Deny(e)
  BY <1>1, <1>2, DenyKeeps DEF Deny, ExchangeFits
<1>3. CASE ~Deny(e)
  BY <1>1, <1>3, ProceedKeeps, TablesRest
<1>4. QED
  BY <1>2, <1>3

\* resolveStoredGrantContext
LEMMA ResolveStoredGrantKeeps ==
  ASSUME OAuthInv, NEW e \in Exchange, ResolveStoredGrant(e)
  PROVE  OAuthInv'
<1>1. exchange[e].call = "refresh" /\ (signedIn = "active" => basis[e].active)
  BY DEF ResolveStoredGrant, In, OAuthInv, ExchangeFits
<1>2. QED
  BY <1>1, ReadKeeps DEF ResolveStoredGrant

\* ... for an authorization code, whose session it does not ask for.
LEMMA ResolveCodeKeeps ==
  ASSUME OAuthInv, NEW e \in Exchange, ResolveCode(e)
  PROVE  OAuthInv'
<1>1. exchange[e].call = "code" /\ basis[e].active
  BY DEF ResolveCode, In, OAuthInv, ExchangeFits
<1>2. QED
  BY <1>1, ReadKeeps DEF ResolveCode

\* hasActiveOrganizationMembership
LEMMA HasActiveMembershipKeeps ==
  ASSUME OAuthInv, NEW e \in Exchange, HasActiveMembership(e)
  PROVE  OAuthInv'
<1>1. /\ exchange[e].call # "none" /\ basis[e].active /\ (member => basis[e].member)
  BY DEF HasActiveMembership, In, OAuthInv, ExchangeFits
<1>2. QED
  BY <1>1, ReadKeeps DEF HasActiveMembership

\* inspectRevocation, and the checks of an access token.
LEMMA InspectRevocationKeeps ==
  ASSUME OAuthInv, NEW e \in Exchange, InspectRevocation(e)
  PROVE  OAuthInv'
<1>1. exchange[e].call = "revoke"
  BY DEF InspectRevocation, In
<1>2. \/ Deny(e)
      \/ \E s \in {"purge", "revoking"} :
             Proceed(e, s) /\ UNCHANGED <<tables, familyLock, basis>>
  BY DEF InspectRevocation
<1>3. QED
  BY <1>1, <1>2, ReadKeeps

\* A check verifies the signature and the expiry of its token ...
LEMMA VerifyTokenKeeps ==
  ASSUME OAuthInv, NEW e \in Exchange, VerifyToken(e)
  PROVE  OAuthInv'
BY ReadKeeps DEF VerifyToken, In

\* ... then that its sign-in is there: it was there when the check began.
LEMMA ReadSessionKeeps ==
  ASSUME OAuthInv, NEW e \in Exchange, ReadSession(e)
  PROVE  OAuthInv'
<1>1. exchange[e].call = "check" /\ (signedIn = "active" => basis[e].active)
  BY DEF ReadSession, In, OAuthInv, ExchangeFits
<1>2. QED
  BY <1>1, ReadKeeps DEF ReadSession

\* Better Auth reads the token, which is there.
LEMMA HandlerReadsKeeps ==
  ASSUME OAuthInv, NEW e \in Exchange, HandlerReads(e)
  PROVE  OAuthInv'
<1> DEFINE t == exchange[e].token
<1>1. /\ exchange[e].call = "refresh" /\ exchange[e].at = "handler"
      /\ exchange[e] \in ExchangeRow /\ ExchangeFits(e) /\ TypeOKOAuth
  BY DEF HandlerReads, In, OAuthInv
<1>2. t \in Pairs /\ refresh[t] \in {"live", "revoked"}
  BY <1>1 DEF ExchangeRow, ExchangeFits, TypeOKOAuth
<1>3. CASE refresh[t] = "live"
  <2>1. /\ exchange' = [exchange EXCEPT ![e].at = "rotate", ![e].sid = t \in bound]
        /\ UNCHANGED <<tables, familyLock, basis>>
    BY <1>3 DEF HandlerReads
  <2>2. (t \in bound) \in BOOLEAN /\ basis[e].active /\ basis[e].member
    BY <1>1 DEF ExchangeFits
  <2>3. Fades /\ TypeOKOAuth' /\ bound' = bound
    BY <1>1, <2>1, TablesRest DEF TypeOKOAuth
  <2>4. QED
    BY <1>1, <2>1, <2>2, <2>3, ProceedKeeps
<1>4. CASE refresh[t] = "revoked"
  <2>1. /\ refresh' = [x \in Pairs |-> IF refresh[x] = "none" THEN "none" ELSE "revoked"]
        /\ Done(e, "ended")
        /\ UNCHANGED <<signedIn, member, bound, access, codeStored, outdated, revoked, familyLock>>
    BY <1>4 DEF HandlerReads, Over
  <2>2. Fades /\ TypeOKOAuth' /\ e \notin bound'
    BY <1>1, <2>1 DEF Fades, TypeOKOAuth, ExchangeFits
  <2>3. QED
    BY <2>1, <2>2, DoneKeeps
<1>5. QED
  BY <1>2, <1>3, <1>4

\* ... and rotates it.
LEMMA HandlerRotatesKeeps ==
  ASSUME OAuthInv, NEW e \in Exchange, HandlerRotates(e)
  PROVE  OAuthInv' /\ basis[e].active /\ basis[e].member
<1> DEFINE t == exchange[e].token
<1>1. /\ exchange[e].call = "refresh" /\ exchange[e].at = "rotate"
      /\ exchange[e] \in ExchangeRow /\ ExchangeFits(e) /\ TypeOKOAuth
  BY DEF HandlerRotates, In, OAuthInv
<1>2. t \in Pairs /\ e \in Pairs /\ basis[e].active /\ basis[e].member
  BY <1>1 DEF ExchangeRow, ExchangeFits, Pairs
<1>3. CASE Deny(e)
  BY <1>1, <1>2, <1>3, DenyKeeps DEF Deny
<1>4. CASE ~Deny(e)
  <2>1. /\ ~(exchange[e].sid /\ signedIn = "deleted")
        /\ refresh' = [refresh EXCEPT ![t] = "revoked", ![e] = "live"]
        /\ bound' = IF exchange[e].sid THEN bound \cup {e} ELSE bound
        /\ access' = [access EXCEPT ![e] = IF exchange[e].sid THEN "sid" ELSE "no sid"]
        /\ Done(e, "granted")
        /\ UNCHANGED <<signedIn, member, codeStored, outdated, revoked, familyLock>>
    BY <1>4 DEF HandlerRotates, Accept
  <2>2. e \notin bound
    BY <1>1 DEF ExchangeFits
  <2>3. Fades
    BY <1>1, <1>2, <2>1 DEF Fades, TypeOKOAuth
  <2>4. /\ refresh' \in [Pairs -> {"none", "live", "revoked"}]
        /\ access' \in [Pairs -> {"none", "sid", "no sid"}]
    BY <1>1, <1>2, <2>1 DEF TypeOKOAuth
  <2>5. bound' \subseteq {x \in Pairs : access'[x] = "sid"}
    BY <1>1, <1>2, <2>1, <2>2 DEF TypeOKOAuth
  <2>6. TypeOKOAuth'
    BY <1>1, <2>1, <2>4, <2>5 DEF TypeOKOAuth
  <2>7. QED
    BY <1>2, <2>1, <2>3, <2>6, DoneKeeps
<1>5. QED
  BY <1>2, <1>3, <1>4

\* Better Auth takes the code, and issues a pair or refuses.
LEMMA HandlerExchangesCodeKeeps ==
  ASSUME OAuthInv, NEW e \in Exchange, HandlerExchangesCode(e)
  PROVE  OAuthInv' /\ basis[e].active /\ basis[e].member
<1>1. /\ exchange[e].call = "code" /\ exchange[e].at = "handler"
      /\ ExchangeFits(e) /\ TypeOKOAuth /\ e \in Pairs
      /\ codeStored' = FALSE /\ UNCHANGED <<signedIn, member, outdated, revoked, familyLock>>
  BY DEF HandlerExchangesCode, In, OAuthInv, Pairs
<1>2. basis[e].active /\ basis[e].member /\ e \notin bound
  BY <1>1 DEF ExchangeFits
<1>3. CASE Over(e) /\ UNCHANGED <<refresh, bound, access>>
  <2>1. TypeOKOAuth' /\ Fades
    BY <1>1, <1>3 DEF TypeOKOAuth, Fades
  <2>2. QED
    BY <1>2, <1>3, <2>1, DoneKeeps DEF Over
<1>4. CASE ~(Over(e) /\ UNCHANGED <<refresh, bound, access>>)
  <2>1. /\ signedIn # "deleted" /\ Done(e, "granted")
        /\ refresh' = [refresh EXCEPT ![e] = "live"]
        /\ bound' = bound \cup {e}
        /\ access' = [access EXCEPT ![e] = "sid"]
    BY <1>4 DEF HandlerExchangesCode, Accept
  <2>2. TypeOKOAuth' /\ Fades
    BY <1>1, <2>1 DEF TypeOKOAuth, Fades
  <2>3. QED
    BY <1>2, <2>1, <2>2, DoneKeeps
<1>5. QED
  BY <1>2, <1>3, <1>4

\* Better Auth revokes a refresh token, or a family.
LEMMA HandlerRevokesKeeps ==
  ASSUME OAuthInv, NEW e \in Exchange, HandlerRevokes(e)
  PROVE  OAuthInv'
<1>1. PICK ended \in SUBSET Pairs :
          refresh' = [x \in Pairs |-> IF x \in ended /\ refresh[x] # "none"
                                      THEN "revoked" ELSE refresh[x]]
  <2>1. exchange[e].token \in Pairs
    BY DEF OAuthInv, ExchangeRow
  <2>2. QED
    BY <2>1 DEF HandlerRevokes
<1>2. /\ Done(e, "ended") /\ exchange[e].at = "revoking"
      /\ UNCHANGED <<signedIn, member, bound, access, codeStored, outdated, revoked, familyLock>>
  BY DEF HandlerRevokes, In, Over
<1>3. TypeOKOAuth' /\ Fades /\ e \notin bound'
  BY <1>1, <1>2 DEF OAuthInv, TypeOKOAuth, Fades, ExchangeFits
<1>4. QED
  BY <1>2, <1>3, DoneKeeps

\* handleOidcLogout: the tokens of the session, then the session.
LEMMA RevokeFamilyKeeps ==
  ASSUME OAuthInv, NEW e \in Exchange, RevokeFamily(e)
  PROVE  OAuthInv'
<1>1. /\ exchange[e].call = "logout" /\ Proceed(e, "delete")
      /\ familyLock' = {t \in bound : refresh[t] = "live"}
      /\ UNCHANGED <<tables, basis>>
  BY DEF RevokeFamily, In
<1>2. familyLock' \subseteq Pairs
  BY <1>1 DEF OAuthInv, TypeOKOAuth
<1>3. QED
  BY <1>1, <1>2, TablesRest, ProceedKeeps

\* A sign-out deletes the sign-in and revokes its family of tokens.
LEMMA DeleteSessionKeeps ==
  ASSUME OAuthInv, NEW e \in Exchange, DeleteSession(e)
  PROVE  OAuthInv'
<1>1. /\ refresh' = [t \in Pairs |-> IF t \in familyLock THEN "revoked" ELSE refresh[t]]
      /\ signedIn' = "deleted" /\ bound' = {} /\ familyLock' = {}
      /\ Done(e, "ended")
      /\ UNCHANGED <<member, access, codeStored, outdated, revoked>>
  BY DEF DeleteSession, Over
<1>2. TypeOKOAuth' /\ Fades
  BY <1>1 DEF OAuthInv, TypeOKOAuth, Fades
<1>3. QED
  BY <1>1, <1>2, DoneKeeps

\* persistAccessTokenRevocation: the purge takes only expired revocations away.
LEMMA PurgeRevocationsKeeps ==
  ASSUME OAuthInv, NEW e \in Exchange, PurgeRevocations(e)
  PROVE  OAuthInv'
<1>1. /\ exchange[e].call = "revoke" /\ Proceed(e, "persist")
      /\ revoked' = revoked \ outdated
      /\ UNCHANGED <<signedIn, member, refresh, bound, access, codeStored, outdated, familyLock, basis>>
  BY DEF PurgeRevocations, In
<1>2. TypeOKOAuth' /\ Fades
  BY <1>1 DEF OAuthInv, TypeOKOAuth, Fades
<1>3. QED
  BY <1>1, <1>2, ProceedKeeps

\* A revocation is written after the purge of those that have expired.
LEMMA PersistRevocationKeeps ==
  ASSUME OAuthInv, NEW e \in Exchange, PersistRevocation(e)
  PROVE  OAuthInv'
<1>1. /\ exchange[e].call = "revoke" /\ Done(e, "ended")
      /\ revoked' = revoked \cup {exchange[e].token}
      /\ UNCHANGED <<signedIn, member, refresh, bound, access, codeStored, outdated, familyLock>>
  BY DEF PersistRevocation, In, Over
<1>2. exchange[e].token \in Pairs /\ e \notin bound
  BY <1>1 DEF OAuthInv, ExchangeRow, ExchangeFits
<1>3. TypeOKOAuth' /\ Fades
  BY <1>1, <1>2 DEF OAuthInv, TypeOKOAuth, Fades
<1>4. QED
  BY <1>1, <1>2, <1>3, DoneKeeps

\* The last check of an access token.
LEMMA ReadRevocationKeeps ==
  ASSUME OAuthInv, NEW e \in Exchange, ReadRevocation(e)
  PROVE  /\ OAuthInv' /\ exchange[e].call = "check"
         /\ Deny(e) \/ /\ basis[e].active
                       /\ basis[e].revoked => exchange[e].token \in outdated
<1>1. /\ exchange[e].call = "check" /\ exchange[e].at = "revocation" /\ ExchangeFits(e)
  BY DEF ReadRevocation, In, OAuthInv
<1>2. e \notin bound /\ familyLock \subseteq Pairs
  BY <1>1 DEF OAuthInv, ExchangeFits, TypeOKOAuth
<1>3. CASE exchange[e].token \notin revoked \ outdated
  <2>1. Done(e, "granted") /\ UNCHANGED <<tables, familyLock>>
    BY <1>3 DEF ReadRevocation, Accept
  <2>2. OAuthInv'
    BY <1>2, <2>1, TablesRest, DoneKeeps
  <2>3. QED
    BY <1>1, <1>3, <2>2 DEF ExchangeFits
<1>4. CASE exchange[e].token \in revoked \ outdated
  <2>1. Deny(e)
    BY <1>4 DEF ReadRevocation
  <2>2. QED
    BY <1>1, <2>1, DenyKeeps DEF Deny
<1>5. QED
  BY <1>3, <1>4

\* A statement throws.
LEMMA BreakKeeps ==
  ASSUME OAuthInv, NEW e \in Exchange, Break(e)
  PROVE  OAuthInv'
BY DenyKeeps DEF Break

\* What ends by itself.
LEMMA EndingsKeep ==
  ASSUME OAuthInv, UNCHANGED <<exchange, basis>>, Fades, TypeOKOAuth', bound' \subseteq bound
  PROVE  OAuthInv'
BY RestsFitting DEF OAuthInv

\* The request that is granted was promised what the property says.
GrantedInTime(e) ==
    exchange[e].at # "granted" /\ exchange'[e].at = "granted" =>
        /\ basis[e].active
        /\ exchange[e].call \in {"code", "refresh"} => basis[e].member
        /\ exchange[e].call = "check" /\ basis[e].revoked => exchange[e].token \in outdated

\* No other step grants request d.
LEMMA NotGranted ==
  ASSUME OAuthInv, NEW e \in Exchange, NEW d \in Exchange,
         \/ \E how \in {"ended", "granted"} : Done(e, how) /\ (d = e => how = "ended")
         \/ \E s \in {"member", "handler", "rotate", "delete", "purge", "persist", "session",
                      "revocation", "revoking"} :
                \/ Proceed(e, s)
                \/ \E b \in BOOLEAN : exchange' = [exchange EXCEPT ![e].at = s, ![e].sid = b]
         \/ UNCHANGED exchange
  PROVE  GrantedInTime(d)
<1>1. exchange \in [Exchange -> ExchangeRow] /\ exchange[e] \in ExchangeRow
  BY DEF OAuthInv
<1>2. CASE d # e
  <2>1. exchange'[d] = exchange[d]
    BY <1>1, <1>2 DEF Done, Proceed
  <2>2. QED
    BY <2>1 DEF GrantedInTime
<1>3. CASE d = e
  <2>1. CASE Done(e, "ended")
    <3>1. exchange'[e].at = "ended"
      BY <1>1, <2>1 DEF Done, NoRequest
    <3>2. QED
      BY <1>3, <3>1 DEF GrantedInTime
  <2>2. ASSUME NEW s \in {"member", "handler", "rotate", "delete", "purge", "persist",
                          "session", "revocation", "revoking"}, Proceed(e, s)
        PROVE  GrantedInTime(d)
    <3>1. exchange'[e].at = s
      BY <1>1, <2>2 DEF Proceed, ExchangeRow
    <3>2. QED
      BY <1>3, <3>1 DEF GrantedInTime
  <2>3. ASSUME NEW s \in {"member", "handler", "rotate", "delete", "purge", "persist",
                          "session", "revocation", "revoking"}, NEW b \in BOOLEAN,
               exchange' = [exchange EXCEPT ![e].at = s, ![e].sid = b]
        PROVE  GrantedInTime(d)
    <3>1. exchange'[e].at = s
      BY <1>1, <2>3 DEF ExchangeRow
    <3>2. QED
      BY <1>3, <3>1 DEF GrantedInTime
  <2>4. CASE UNCHANGED exchange
    BY <2>4 DEF GrantedInTime
  <2>5. QED
    BY <1>3, <2>1, <2>2, <2>3, <2>4
<1>4. QED
  BY <1>2, <1>3

\* A step grants no request, or that of a rotation or of a check that read all.
LEMMA Grants ==
  ASSUME OAuthInv, NextOAuth, NEW d \in Exchange
  PROVE  GrantedInTime(d)
<1>1. ASSUME NEW e \in Exchange, Over(e) PROVE GrantedInTime(d)
  BY <1>1, NotGranted DEF Over
<1>2. ASSUME NEW e \in Exchange,
             NEW s \in {"member", "handler", "rotate", "delete", "purge", "persist", "session",
                        "revocation", "revoking"}, Proceed(e, s)
      PROVE  GrantedInTime(d)
  BY <1>2, NotGranted
<1>3. ASSUME UNCHANGED exchange PROVE GrantedInTime(d)
  BY <1>3 DEF GrantedInTime
<1>4. ASSUME NEW e \in Exchange, Present(e) PROVE GrantedInTime(d)
  <2>1. exchange'[d].at = exchange[d].at \/ exchange'[d].at = "begin"
    BY <1>4 DEF Present, OAuthInv
  <2>2. QED
    BY <2>1 DEF GrantedInTime
<1>5. ASSUME NEW e \in Exchange, HandlerReads(e) PROVE GrantedInTime(d)
  <2>1. exchange[e].token \in Pairs /\ refresh[exchange[e].token] \in {"live", "revoked"}
    BY <1>5 DEF HandlerReads, In, OAuthInv, ExchangeRow, ExchangeFits, TypeOKOAuth
  <2>2. \/ Over(e)
        \/ exchange' = [exchange EXCEPT ![e].at = "rotate", ![e].sid = exchange[e].token \in bound]
    BY <1>5, <2>1 DEF HandlerReads
  <2>3. (exchange[e].token \in bound) \in BOOLEAN
    OBVIOUS
  <2>4. QED
    BY <1>1, <2>2, <2>3, NotGranted
<1>6. ASSUME NEW e \in Exchange, HandlerRotates(e) PROVE GrantedInTime(d)
  <2>1. basis[e].active /\ basis[e].member /\ exchange[e].call = "refresh"
    BY <1>6, HandlerRotatesKeeps DEF HandlerRotates, In
  <2>2. CASE d = e
    BY <2>1, <2>2 DEF GrantedInTime
  <2>3. CASE d # e
    BY <1>1, <1>6, <2>3, NotGranted DEF HandlerRotates, Deny, Accept
  <2>4. QED
    BY <2>2, <2>3
<1>6a. ASSUME NEW e \in Exchange, HandlerExchangesCode(e) PROVE GrantedInTime(d)
  <2>1. basis[e].active /\ basis[e].member /\ exchange[e].call = "code"
    BY <1>6a, HandlerExchangesCodeKeeps DEF HandlerExchangesCode, In
  <2>2. CASE d = e
    BY <2>1, <2>2 DEF GrantedInTime
  <2>3. CASE d # e
    BY <1>1, <1>6a, <2>3, NotGranted DEF HandlerExchangesCode, Accept
  <2>4. QED
    BY <2>2, <2>3
<1>7. ASSUME NEW e \in Exchange, ReadRevocation(e) PROVE GrantedInTime(d)
  <2>1. CASE Deny(e)
    BY <1>1, <2>1 DEF Deny
  <2>2. CASE ~Deny(e)
    <3>1. /\ exchange[e].call = "check" /\ basis[e].active
          /\ basis[e].revoked => exchange[e].token \in outdated
      BY <1>7, <2>2, ReadRevocationKeeps
    <3>2. Done(e, "granted")
      BY <1>7, <2>2 DEF ReadRevocation, Accept
    <3>3. CASE d = e
      BY <3>1, <3>3 DEF GrantedInTime
    <3>4. CASE d # e
      BY <3>2, <3>4, NotGranted
    <3>5. QED
      BY <3>3, <3>4
  <2>3. QED
    BY <2>1, <2>2
<1>8. ASSUME NEW e \in Exchange,
             \/ ResolveStoredGrant(e) \/ ResolveCode(e) \/ HasActiveMembership(e)
             \/ HandlerRevokes(e) \/ RevokeFamily(e)
             \/ DeleteSession(e) \/ InspectRevocation(e) \/ PurgeRevocations(e)
             \/ PersistRevocation(e) \/ VerifyToken(e) \/ ReadSession(e) \/ Break(e)
      PROVE  GrantedInTime(d)
  <2>1. \/ Over(e)
        \/ \E s \in {"member", "handler", "delete", "purge", "persist", "session",
                     "revocation", "revoking"} : Proceed(e, s)
    BY <1>8 DEF ResolveStoredGrant, ResolveCode, HasActiveMembership, HandlerRevokes,
                RevokeFamily, DeleteSession,
                InspectRevocation, PurgeRevocations, PersistRevocation, VerifyToken, ReadSession,
                Break, Deny
  <2>2. QED
    BY <1>1, <1>2, <2>1
<1>9. ASSUME \/ \E t \in Pairs : TokenExpires(t)
             \/ SessionEnds
             \/ MembershipEnds
      PROVE  GrantedInTime(d)
  BY <1>3, <1>9 DEF TokenExpires, SessionEnds, MembershipEnds
<1>10. QED
  BY <1>4, <1>5, <1>6, <1>6a, <1>7, <1>8, <1>9 DEF NextOAuth

\* Every step keeps the invariant.
LEMMA OAuthNextKeeps == OAuthInv /\ [NextOAuth]_varsOAuth => OAuthInv'
<1>1. SUFFICES ASSUME OAuthInv, [NextOAuth]_varsOAuth PROVE OAuthInv'
  OBVIOUS
<1>2. CASE UNCHANGED varsOAuth
  BY <1>1, <1>2, TablesRest, EndingsKeep DEF varsOAuth, OAuthInv, TypeOKOAuth
<1>3. CASE SessionEnds
  <2>1. Fades /\ TypeOKOAuth' /\ bound' \subseteq bound /\ UNCHANGED <<exchange, basis>>
    BY <1>1, <1>3 DEF SessionEnds, Fades, OAuthInv, TypeOKOAuth
  <2>2. QED
    BY <1>1, <2>1, EndingsKeep
<1>4. CASE MembershipEnds
  <2>1. Fades /\ TypeOKOAuth' /\ bound' \subseteq bound /\ UNCHANGED <<exchange, basis>>
    BY <1>1, <1>4 DEF MembershipEnds, Fades, OAuthInv, TypeOKOAuth
  <2>2. QED
    BY <1>1, <2>1, EndingsKeep
<1>5. ASSUME NEW t \in Pairs, TokenExpires(t) PROVE OAuthInv'
  <2>1. Fades /\ TypeOKOAuth' /\ bound' \subseteq bound /\ UNCHANGED <<exchange, basis>>
    BY <1>1, <1>5 DEF TokenExpires, Fades, OAuthInv, TypeOKOAuth
  <2>2. QED
    BY <1>1, <2>1, EndingsKeep
<1>6. QED
  BY <1>1, <1>2, <1>3, <1>4, <1>5, PresentKeeps, ResolveStoredGrantKeeps,
     ResolveCodeKeeps, HasActiveMembershipKeeps, HandlerExchangesCodeKeeps, HandlerRevokesKeeps,
     HandlerReadsKeeps, HandlerRotatesKeeps, RevokeFamilyKeeps,
     DeleteSessionKeeps, InspectRevocationKeeps, PurgeRevocationsKeeps, PersistRevocationKeeps,
     VerifyTokenKeeps, ReadSessionKeeps, ReadRevocationKeeps, BreakKeeps DEF NextOAuth

\* A session, its tokens and the requests keep their types, and a token bound
\* to a session has the session's id.
THEOREM OAuthTypesKept == SpecOAuth => []TypeOKOAuth
<1>1. OAuthInv => TypeOKOAuth
  BY DEF OAuthInv
<1>2. QED
  BY <1>1, OAuthInitially, OAuthNextKeeps, PTL DEF SpecOAuth

\* resolveStoredGrantContext, authenticateResourceAccessToken: what has ended is
\* over for every request that begins afterwards, for any number of them.
THEOREM EndedStaysOver == SpecOAuth => EndedIsOver
<1>1. OAuthInv /\ [NextOAuth]_varsOAuth =>
        [\A e \in Exchange : exchange[e].at # "granted" /\ exchange'[e].at = "granted" =>
          /\ basis[e].active
          /\ exchange[e].call \in {"code", "refresh"} => basis[e].member
          /\ exchange[e].call = "check" /\ basis[e].revoked => exchange[e].token \in outdated]_varsOAuth
  BY Grants DEF GrantedInTime
<1>2. QED
  BY <1>1, OAuthInitially, OAuthNextKeeps, PTL DEF SpecOAuth, EndedIsOver


-----------------------------------------------------------------------------
(* The journal *)

\* The events that the journal may hold.
Event == [id : EventIds, date : 0..LastTick]

\* The bounds and the sizes are numbers.
LEMMA AuditNumbers ==
    /\ LastEvent \in Nat /\ LastTick \in Nat /\ Fractions \in Nat \ {0} /\ Retention \in Nat
    /\ PageSize \in Nat \ {0} /\ ExportCap \in Nat \ {0}
BY AuditAssumption DEF AuditAssumption

\* An event is its number and its date.
LEMMA EventNumbers ==
    \A e \in Event : /\ e.id \in Nat /\ e.date \in Nat /\ e.date <= LastTick /\ e.id > 0
                     /\ e = [id |-> e.id, date |-> e.date]
BY AuditNumbers DEF Event, EventIds

\* order by created_at desc, id desc: of two events one comes first.
LEMMA NewerIsTotal ==
    /\ \A e \in Event : ~Newer(e, e)
    /\ \A e, f \in Event : e = f \/ Newer(e, f) \/ Newer(f, e)
    /\ \A e, f, g \in Event : Newer(e, f) /\ Newer(f, g) => Newer(e, g)
<1>1. \A e, f \in Event : e.id = f.id /\ e.date = f.date => e = f BY DEF Event
<1> QED BY <1>1, EventNumbers DEF Newer

\* The newer of two events has fewer ahead of it.
LEMMA AheadLess ==
    ASSUME NEW S, IsFiniteSet(S), S \subseteq Event
    PROVE  /\ \A e \in S : Cardinality(Ahead(S, e)) \in 0..(Cardinality(S) - 1)
           /\ \A e, f \in S : Newer(e, f) <=> Cardinality(Ahead(S, e)) < Cardinality(Ahead(S, f))
<1>1. \A e \in S : Ahead(S, e) \subseteq S /\ Ahead(S, e) # S BY NewerIsTotal DEF Ahead
<1>2. \A e \in S : IsFiniteSet(Ahead(S, e)) /\ Cardinality(Ahead(S, e)) \in Nat
    BY <1>1, FS_Subset, FS_CardinalityType
<1>3. \A e \in S : Cardinality(Ahead(S, e)) < Cardinality(S)
    BY <1>1, FS_Subset, FS_CardinalityType
<1>4. ASSUME NEW e \in S, NEW f \in S, Newer(e, f)
      PROVE  Cardinality(Ahead(S, e)) < Cardinality(Ahead(S, f))
    <2>1. Ahead(S, e) \subseteq Ahead(S, f) BY <1>4, NewerIsTotal DEF Ahead
    <2>2. e \in Ahead(S, f) /\ e \notin Ahead(S, e) BY <1>4, NewerIsTotal DEF Ahead
    <2> QED BY <1>2, <2>1, <2>2, FS_Subset
<1>5. Cardinality(S) \in Nat BY FS_CardinalityType
<1>6. \A e, f \in S : e = f \/ Newer(e, f) \/ Newer(f, e) BY NewerIsTotal
<1>7. \A e \in S : Cardinality(Ahead(S, e)) \in 0..(Cardinality(S) - 1) BY <1>2, <1>3, <1>5
<1>8. \A e, f \in S : Newer(e, f) <=> Cardinality(Ahead(S, e)) < Cardinality(Ahead(S, f))
    BY <1>2, <1>4, <1>6
<1> QED BY <1>7, <1>8

\* The order of the query: every event once, the newer ones first.
LEMMA DescendingSorts ==
    ASSUME NEW S, IsFiniteSet(S), S \subseteq Event
    PROVE  /\ Descending(S) \in Seq(Event) /\ Len(Descending(S)) = Cardinality(S)
           /\ Cardinality(S) \in Nat
           /\ \A k \in 1..Cardinality(S) : Descending(S)[k] \in S
           /\ \A e \in S : \E k \in 1..Cardinality(S) : Descending(S)[k] = e
           /\ \A i, j \in 1..Cardinality(S) : i < j => Newer(Descending(S)[i], Descending(S)[j])
<1> DEFINE n == Cardinality(S)
           rank == [e \in S |-> Cardinality(Ahead(S, e))]
           s == Descending(S)
<1>1. n \in Nat BY FS_CardinalityType
<1>2. rank \in [S -> 0..(n - 1)] BY AheadLess
<1>3. \A e, f \in S : rank[e] = rank[f] => e = f
    <2>1. \A e, f \in S : e = f \/ Newer(e, f) \/ Newer(f, e) BY NewerIsTotal
    <2>2. \A e, f \in S : Newer(e, f) <=> rank[e] < rank[f] BY AheadLess
    <2>3. \A e \in S : rank[e] \in Nat BY <1>1, <1>2
    <2> HIDE DEF rank
    <2> QED BY <2>1, <2>2, <2>3
<1>4. rank \in Injection(S, 0..(n - 1)) BY <1>2, <1>3 DEF Injection, IsInjective
<1>5. IsFiniteSet(0..(n - 1)) /\ Cardinality(0..(n - 1)) = n
    BY <1>1, FS_Interval
<1>6. rank \in Surjection(S, 0..(n - 1))
    <2> HIDE DEF rank, n
    <2>1. Cardinality(S) = Cardinality(0..(n - 1)) BY <1>5 DEF n
    <2> QED BY <1>4, <1>5, <2>1, FS_Injection
<1>7. \A k \in 1..n : \E e \in S : rank[e] = k - 1
    <2>1. \A k \in 1..n : k - 1 \in 0..(n - 1) BY <1>1
    <2> HIDE DEF rank, n
    <2> QED BY <1>6, <2>1 DEF Surjection
<1>8. \A k \in 1..n : s[k] \in S /\ rank[s[k]] = k - 1 BY <1>7 DEF Descending
<1>9. s \in [1..n -> S] BY <1>8 DEF Descending
<1>10. s \in Seq(Event) /\ Len(s) = n BY <1>1, <1>9
<1>11. \A e \in S : \E k \in 1..n : s[k] = e
    <2> SUFFICES ASSUME NEW e \in S PROVE \E k \in 1..n : s[k] = e OBVIOUS
    <2> HIDE DEF rank, n, s
    <2>1. rank[e] + 1 \in 1..n /\ rank[e] \in Int BY <1>1, <1>2
    <2>2. rank[s[rank[e] + 1]] = rank[e] /\ s[rank[e] + 1] \in S BY <1>8, <2>1
    <2> QED BY <1>3, <2>1, <2>2
<1>12. \A i, j \in 1..n : i < j => Newer(s[i], s[j])
    <2>1. \A e, f \in S : Newer(e, f) <=> rank[e] < rank[f] BY AheadLess
    <2> HIDE DEF rank, n, s
    <2> QED BY <1>1, <1>8, <2>1
<1> QED BY <1>1, <1>8, <1>10, <1>11, <1>12

\* What lies between a millisecond and a date in it is of that millisecond.
LEMMA MillisecondHolds ==
    ASSUME NEW d \in Nat
    PROVE  /\ Milliseconds(d) \in Nat /\ Milliseconds(d) <= d
           /\ \A e \in Nat : Milliseconds(d) <= e /\ e <= d => Milliseconds(e) = Milliseconds(d)
<1> DEFINE F == Fractions
<1>0. F \in Nat \ {0} BY AuditNumbers
<1> HIDE DEF F
<1>1. ASSUME NEW e \in Nat
      PROVE  e \div F \in Nat /\ (e \div F) * F \in Nat /\ (e \div F) * F <= e /\ e < (e \div F) * F + F
    BY <1>0, Z3
<1>2. ASSUME NEW e \in Nat, (d \div F) * F <= e, e <= d
      PROVE  (e \div F) = (d \div F)
    <2> DEFINE p == e \div F   q == d \div F
    <2>1. p \in Nat /\ q \in Nat /\ p * F <= e /\ e < p * F + F /\ q * F <= e /\ e < q * F + F
        BY <1>0, <1>1, <1>2
    <2> HIDE DEF p, q
    <2>2. CASE p < q
        <3>1. (p + 1) * F <= q * F BY <1>0, <2>1, <2>2, Z3
        <3> QED BY <1>0, <2>1, <3>1, Z3
    <2>3. CASE q < p
        <3>1. (q + 1) * F <= p * F BY <1>0, <2>1, <2>3, Z3
        <3> QED BY <1>0, <2>1, <3>1, Z3
    <2>4. p \in Nat /\ q \in Nat BY <2>1
    <2>5. p < q \/ q < p \/ p = q BY <2>4
    <2> QED BY <2>2, <2>3, <2>5 DEF p, q
<1> QED BY <1>1, <1>2 DEF Milliseconds, F

\* There are pages to come.
Reading == listing.at \in {"authorize", "query", "page"}
Last(s) == s[Len(s)]

\* The journal: no two events have one number, and at most one is being recorded.
JournalTypes ==
    /\ tick \in 0..LastTick
    /\ journal \subseteq Event /\ \A e, f \in journal : e.id = f.id => e = f
    /\ recording = {} \/ \E d \in 0..tick : recording = {d}
    /\ purging = {} \/ \E c \in Int : purging = {c} /\ c <= RetentionCutoff(tick)
    /\ mayRead \in BOOLEAN

\* The listing: a cursor or none, and the events that were given.
ListingTypes ==
    /\ listing \in [of : {"none", "pages", "export"},
                    at : {"idle", "authorize", "query", "page", "record", "denied", "ended"},
                    now : 0..tick, cursor : [date : Nat, id : Nat], given : Seq(Event),
                    whole : BOOLEAN]
    /\ present \subseteq Event
    /\ listing.at \in {"idle", "denied"} \/ Reading => ~listing.whole

\* What is owed has not been purged.
OwedIsKept == Owed \subseteq journal

\* The cursor of a listing is that of the last event given.
CursorFits ==
    Reading =>
        \/ listing.given = <<>> /\ listing.cursor = NoCursor
        \/ listing.given # <<>> /\ listing.cursor = EncodeAuditCursor(Last(listing.given))

\* What was given is newest first.
Descends ==
    \A i, j \in DOMAIN listing.given : i < j => Newer(listing.given[i], listing.given[j])

\* Of what is owed and not given, the reader is yet to come to it, or it shares
\* its millisecond with an event given before.
Excused(e) == \E f \in GivenEvents : Newer(f, e) /\ Milliseconds(f.date) = Milliseconds(e.date)
OwedIsToCome ==
    /\ Reading => \A e \in Owed \ GivenEvents : Beyond(e, listing.cursor) \/ Excused(e)
    /\ listing.whole => \A e \in Owed \ GivenEvents : Excused(e)

\* The inductive invariant of the journal.
JournalInv ==
    JournalTypes /\ ListingTypes /\ OwedIsKept /\ CursorFits /\ Descends /\ OwedIsToCome

\* Before anything is recorded or listed there is nothing to account for.
LEMMA JournalInitially == InitAuditLog => JournalInv
<1> SUFFICES ASSUME InitAuditLog PROVE JournalInv OBVIOUS
<1>1. JournalTypes BY AuditNumbers DEF InitAuditLog, JournalTypes
<1>2. listing = NoListing /\ present = {} /\ tick = 0 BY DEF InitAuditLog
<1>3. NoCursor \in [date : Nat, id : Nat] BY AuditNumbers DEF NoCursor
<1>4. ListingTypes BY <1>2, <1>3, EmptySeq DEF ListingTypes, NoListing, Reading
<1>5. OwedIsKept /\ OwedIsToCome BY <1>2 DEF OwedIsKept, OwedIsToCome, Owed, NoListing
<1>6. CursorFits /\ Descends BY <1>2 DEF CursorFits, Descends, NoListing, Reading
<1> QED BY <1>1, <1>4, <1>5, <1>6 DEF JournalInv

\* The journal is finite: the events have numbers.
LEMMA EventsAreFinite == IsFiniteSet(Event)
<1>1. IsFiniteSet(EventIds) /\ IsFiniteSet(0..LastTick)
    BY AuditNumbers, FS_Interval DEF EventIds
<1>2. IsFiniteSet(EventIds \X (0..LastTick)) BY <1>1, FS_Product
<1> DEFINE g == [x \in EventIds \X (0..LastTick) |-> [id |-> x[1], date |-> x[2]]]
<1>3. g \in Surjection(EventIds \X (0..LastTick), Event)
    <2>1. g \in [EventIds \X (0..LastTick) -> Event] BY DEF Event
    <2>2. ASSUME NEW e \in Event PROVE \E x \in EventIds \X (0..LastTick) : g[x] = e
        <3>1. <<e.id, e.date>> \in EventIds \X (0..LastTick) BY DEF Event
        <3>2. e = [id |-> e.id, date |-> e.date] BY DEF Event
        <3>3. g[<<e.id, e.date>>] = [id |-> e.id, date |-> e.date] BY <3>1
        <3> QED BY <3>1, <3>2, <3>3
    <2> QED BY <2>1, <2>2 DEF Surjection
<1> QED BY <1>2, <1>3, FS_Surjection

\* While the listing rests, time and the journal may go on as long as what is
\* owed stays.
LEMMA ListingRests ==
    ASSUME JournalInv, UNCHANGED <<listing, present>>, JournalTypes', tick <= tick',
           \A e \in journal : e.date >= RetentionCutoff(tick') => e \in journal'
    PROVE  JournalInv'
<1>0. tick \in Nat /\ tick' \in Nat /\ Retention \in Nat
    BY AuditNumbers DEF JournalInv, JournalTypes
<1>1. ListingTypes'
    <2>1. 0..tick \subseteq 0..tick' BY <1>0
    <2>2. listing.now \in 0..tick' BY <2>1 DEF JournalInv, ListingTypes
    <2> QED BY <2>2 DEF JournalInv, ListingTypes, Reading
<1>2. Owed' \subseteq Owed
    <2>1. \A e \in present : e.date \in Nat BY EventNumbers DEF JournalInv, ListingTypes
    <2> QED BY <1>0, <2>1 DEF Owed, RetentionCutoff
<1>3. OwedIsKept'
    BY <1>2 DEF JournalInv, OwedIsKept, Owed
<1>4. CursorFits' /\ Descends' BY DEF JournalInv, CursorFits, Descends, Reading, NoCursor, Last
<1>5. GivenEvents' = GivenEvents BY DEF GivenEvents
<1>6. \A e : Excused(e)' <=> Excused(e) BY <1>5 DEF Excused
<1>7. OwedIsToCome' BY <1>2, <1>5, <1>6 DEF JournalInv, OwedIsToCome, Reading
<1> QED BY <1>1, <1>3, <1>4, <1>7 DEF JournalInv

\* A listing that ends with nothing, or begins, leaves nothing to account for.
LEMMA DropKeeps ==
    ASSUME JournalInv, listing' = Dropped, present' = {}, JournalTypes', tick' = tick
    PROVE  JournalInv'
<1>1. NoCursor \in [date : Nat, id : Nat] BY AuditNumbers DEF NoCursor
<1>2. tick \in Nat BY DEF JournalInv, JournalTypes
<1>3. listing' = [of |-> "none", at |-> "ended", now |-> 0, cursor |-> NoCursor,
                  given |-> <<>>, whole |-> FALSE] /\ tick' \in Nat
    BY <1>2 DEF Dropped, NoListing
<1>6. ListingTypes' BY <1>1, <1>3, EmptySeq DEF ListingTypes, Reading
<1>4. OwedIsKept' /\ OwedIsToCome'
    BY DEF OwedIsKept, OwedIsToCome, Owed, Dropped, NoListing, Reading
<1>5. CursorFits' /\ Descends' BY DEF CursorFits, Descends, Dropped, NoListing, Reading
<1> QED BY <1>4, <1>5, <1>6 DEF JournalInv

\* What is too old to be kept stays too old.
LEMMA CutoffGrows ==
    \A t, u \in Nat : t < u => \A c \in Int : c <= RetentionCutoff(t) => c <= RetentionCutoff(u)
BY AuditNumbers DEF RetentionCutoff

\* The clock: the events that are owed get fewer.
LEMMA TickKeeps == JournalInv /\ Tick => JournalInv'
<1> SUFFICES ASSUME JournalInv, Tick PROVE JournalInv' OBVIOUS
<1>1. tick' \in 0..LastTick /\ tick < tick' /\ tick \in Nat /\ tick' \in Nat
    BY AuditNumbers DEF JournalInv, JournalTypes, Tick
<1>2. 0..tick \subseteq 0..tick' BY <1>1
<1>3. \A c \in Int : c <= RetentionCutoff(tick) => c <= RetentionCutoff(tick')
    BY <1>1, CutoffGrows
<1>4. JournalTypes'
    BY <1>1, <1>2, <1>3 DEF JournalInv, JournalTypes, Tick
<1> QED BY <1>1, <1>4, ListingRests DEF Tick

\* An event is recorded with the date it began with.
LEMMA RecordingKeeps == JournalInv /\ (BeginRecording \/ CommitRecording) => JournalInv'
<1> SUFFICES ASSUME JournalInv, BeginRecording \/ CommitRecording PROVE JournalInv' OBVIOUS
<1>0. tick \in Nat /\ tick <= LastTick BY DEF JournalInv, JournalTypes
<1>1. CASE BeginRecording
    <2>1. JournalTypes'
        BY <1>0, <1>1 DEF JournalInv, JournalTypes, BeginRecording, RetentionCutoff
    <2> QED BY <1>0, <1>1, <2>1, ListingRests DEF BeginRecording
<1>2. CASE CommitRecording
    <2>1. PICK d \in recording : \E ids \in SUBSET Unused :
            journal' = journal \cup {[id |-> i, date |-> d] : i \in ids}
        BY <1>2 DEF CommitRecording
    <2>2. PICK ids \in SUBSET Unused : journal' = journal \cup {[id |-> i, date |-> d] : i \in ids}
        BY <2>1
    <2>3. d \in 0..LastTick BY <1>0, AuditNumbers DEF JournalInv, JournalTypes
    <2>4. journal' \subseteq Event BY <2>2, <2>3 DEF JournalInv, JournalTypes, Event, Unused
    <2>5. \A e, f \in journal' : e.id = f.id => e = f
        BY <2>2 DEF JournalInv, JournalTypes, Unused
    <2>6. JournalTypes'
        BY <1>2, <2>4, <2>5 DEF JournalInv, JournalTypes, CommitRecording, RetentionCutoff
    <2> QED BY <1>0, <1>2, <2>2, <2>6, ListingRests DEF CommitRecording
<1> QED BY <1>1, <1>2

\* purgeExpiredAuditEvents: what it deletes was not owed.
LEMMA PurgeKeeps == JournalInv /\ (LoseRole \/ BeginPurge \/ Purge) => JournalInv'
<1> SUFFICES ASSUME JournalInv, LoseRole \/ BeginPurge \/ Purge PROVE JournalInv' OBVIOUS
<1>0. tick \in Nat /\ tick <= LastTick BY DEF JournalInv, JournalTypes
<1>1. CASE LoseRole
    <2>1. JournalTypes' BY <1>1 DEF JournalInv, JournalTypes, LoseRole, RetentionCutoff
    <2> QED BY <1>0, <1>1, <2>1, ListingRests DEF LoseRole
<1>2. CASE BeginPurge
    <2>1. RetentionCutoff(tick) \in Int BY <1>0, AuditNumbers DEF RetentionCutoff
    <2>2. JournalTypes'
        BY <1>2, <2>1 DEF JournalInv, JournalTypes, BeginPurge, RetentionCutoff
    <2> QED BY <1>0, <1>2, <2>2, ListingRests DEF BeginPurge
<1>3. CASE Purge
    <2>1. JournalTypes' BY <1>3 DEF JournalInv, JournalTypes, Purge
    <2>2. PICK c \in Int : purging = {c} /\ c <= RetentionCutoff(tick)
        BY <1>3 DEF JournalInv, JournalTypes, Purge
    <2>3. RetentionCutoff(tick) \in Int BY <1>0, AuditNumbers DEF RetentionCutoff
    <2>4. \A e \in journal : e.date \in Nat BY EventNumbers DEF JournalInv, JournalTypes
    <2>5. \A e \in journal : e.date >= RetentionCutoff(tick) => e \in journal'
        BY <1>3, <2>2, <2>3, <2>4 DEF Purge
    <2> QED BY <1>0, <1>3, <2>1, <2>5, ListingRests DEF Purge
<1> QED BY <1>1, <1>2, <1>3

\* A listing begins: all it owes is still to come.
LEMMA BeginListingKeeps ==
    ASSUME JournalInv, NEW k \in {"pages", "export"}, BeginListing(k)
    PROVE  JournalInv'
<1>0. tick \in Nat /\ tick <= LastTick BY DEF JournalInv, JournalTypes
<1>1. JournalTypes' BY DEF JournalInv, JournalTypes, BeginListing, RetentionCutoff
<1>2. NoCursor \in [date : Nat, id : Nat] BY AuditNumbers DEF NoCursor
<1>3. listing' = [of |-> k, at |-> "authorize", now |-> tick, cursor |-> NoCursor,
                  given |-> <<>>, whole |-> FALSE] /\ present' = journal /\ journal' = journal /\ tick' = tick
    BY DEF BeginListing, NoListing
<1>4. ListingTypes' BY <1>0, <1>2, <1>3, EmptySeq DEF JournalInv, JournalTypes, ListingTypes, Reading
<1>5. OwedIsKept' BY <1>3 DEF OwedIsKept, Owed
<1>6. CursorFits' /\ Descends' BY <1>3 DEF CursorFits, Descends, NoCursor
<1>7. \A e \in journal : Beyond(e, NoCursor)
    BY EventNumbers, AuditNumbers DEF JournalInv, JournalTypes, Beyond, NoCursor
<1>8. OwedIsToCome'
    <2>1. \A e \in Owed' : Beyond(e, listing'.cursor) BY <1>3, <1>7 DEF Owed
    <2>2. Owed' = (Owed)' /\ listing'.whole = FALSE BY <1>3
    <2>3. (\A e \in Owed \ GivenEvents : Beyond(e, listing.cursor))' BY <2>1
    <2> QED BY <2>2, <2>3 DEF OwedIsToCome
<1> QED BY <1>1, <1>4, <1>5, <1>6, <1>8 DEF JournalInv

\* The same listing goes on: of it only where it is and its time change.
LEMMA ListingMoves ==
    ASSUME JournalInv, JournalTypes', tick' = tick, present' = present, journal \subseteq journal',
           listing' \in [of : {"none", "pages", "export"},
                    at : {"idle", "authorize", "query", "page", "record", "denied", "ended"},
                    now : 0..tick, cursor : [date : Nat, id : Nat], given : Seq(Event),
                    whole : BOOLEAN],
           listing'.cursor = listing.cursor, listing'.given = listing.given,
           listing'.whole = listing.whole, listing.whole => listing'.at = "ended",
           listing'.at \in {"authorize", "query", "page"} => Reading
    PROVE  JournalInv'
<1>1. ListingTypes' BY DEF JournalInv, ListingTypes, Reading
<1>2. Owed' = Owed /\ GivenEvents' = GivenEvents BY DEF Owed, GivenEvents
<1>3. \A e : Excused(e)' <=> Excused(e) BY <1>2 DEF Excused
<1>4. OwedIsKept' BY <1>2 DEF JournalInv, OwedIsKept
<1>5. CursorFits' /\ Descends' BY DEF JournalInv, CursorFits, Descends, Reading, NoCursor, Last
<1>6. OwedIsToCome' BY <1>2, <1>3 DEF JournalInv, OwedIsToCome, Reading
<1> QED BY <1>1, <1>4, <1>5, <1>6 DEF JournalInv

\* The steps of a listing that read no page.
LEMMA ReaderKeeps == JournalInv /\ (CanRead \/ NextPage \/ RecordExport \/ LeaveListing) => JournalInv'
<1> SUFFICES ASSUME JournalInv, CanRead \/ NextPage \/ RecordExport \/ LeaveListing
             PROVE  JournalInv'
    OBVIOUS
<1>0. tick \in Nat /\ tick <= LastTick /\ tick \in 0..tick BY DEF JournalInv, JournalTypes
<1>1. CASE CanRead
    <2>1. JournalTypes' BY <1>1 DEF JournalInv, JournalTypes, CanRead, RetentionCutoff
    <2>2. CASE mayRead /\ listing' = [listing EXCEPT !.at = "query"] /\ UNCHANGED present
        BY <1>1, <2>1, <2>2, ListingMoves DEF CanRead, JournalInv, ListingTypes, Reading
    <2>3. CASE ~mayRead /\ listing.of = "export" /\ listing' = [listing EXCEPT !.at = "denied"]
                        /\ UNCHANGED present
        BY <1>1, <2>1, <2>3, ListingMoves DEF CanRead, JournalInv, ListingTypes, Reading
    <2>4. CASE ~mayRead /\ listing.of = "pages" /\ listing' = Dropped /\ present' = {}
        BY <1>1, <2>1, <2>4, DropKeeps DEF CanRead
    <2> QED BY <1>1, <2>2, <2>3, <2>4 DEF CanRead
<1>2. CASE NextPage
    <2>1. JournalTypes' BY <1>2 DEF JournalInv, JournalTypes, NextPage, RetentionCutoff
    <2> QED BY <1>0, <1>2, <2>1, ListingMoves DEF NextPage, JournalInv, ListingTypes, Reading
<1>3. CASE RecordExport
    <2>1. PICK i \in Unused : journal' = journal \cup {[id |-> i, date |-> tick]}
        BY <1>3 DEF RecordExport
    <2>2. journal' \subseteq Event
        BY <1>0, <2>1, AuditNumbers DEF JournalInv, JournalTypes, Event, Unused
    <2>3. \A e, f \in journal' : e.id = f.id => e = f
        BY <2>1 DEF JournalInv, JournalTypes, Unused
    <2>4. JournalTypes'
        BY <1>3, <2>2, <2>3 DEF JournalInv, JournalTypes, RecordExport, RetentionCutoff
    <2>5. CASE listing.at = "record"
        BY <1>3, <2>1, <2>4, <2>5, ListingMoves DEF RecordExport, JournalInv, ListingTypes, Reading
    <2>6. CASE listing.at # "record" BY <1>3, <2>4, <2>6, DropKeeps DEF RecordExport
    <2> QED BY <2>5, <2>6
<1>4. CASE LeaveListing
    <2>1. JournalTypes' BY <1>4 DEF JournalInv, JournalTypes, LeaveListing, RetentionCutoff
    <2> QED BY <1>4, <2>1, DropKeeps DEF LeaveListing
<1> QED BY <1>1, <1>2, <1>3, <1>4

\* A page: what follows the cursor, in order, the first PageSize of it.
LEMMA PageHolds ==
    ASSUME JournalInv, NEW c
    PROVE  LET rows == Rows(listing.now, c)
               page == Page(rows)
               due == {e \in journal : e.date >= RetentionCutoff(listing.now) /\ Beyond(e, c)} IN
           /\ rows \in Seq(Event) /\ Len(rows) \in Nat
           /\ \A k \in 1..Len(rows) : rows[k] \in due
           /\ \A e \in due : \E k \in 1..Len(rows) : rows[k] = e
           /\ \A i, j \in 1..Len(rows) : i < j => Newer(rows[i], rows[j])
           /\ page \in Seq(Event) /\ Len(page) \in 0..Len(rows)
           /\ Len(page) = IF Len(rows) < PageSize THEN Len(rows) ELSE PageSize
           /\ \A k \in 1..Len(page) : page[k] = rows[k]
<1> DEFINE rows == Rows(listing.now, c)
           page == Page(rows)
           due == {e \in journal : e.date >= RetentionCutoff(listing.now) /\ Beyond(e, c)}
<1>1. due \subseteq Event /\ IsFiniteSet(due)
    BY EventsAreFinite, FS_Subset DEF JournalInv, JournalTypes
<1>2. rows = Descending(due) BY DEF Rows
<1> HIDE DEF due, rows
<1>3. /\ rows \in Seq(Event) /\ Len(rows) \in Nat
      /\ \A k \in 1..Len(rows) : rows[k] \in due
      /\ \A e \in due : \E k \in 1..Len(rows) : rows[k] = e
      /\ \A i, j \in 1..Len(rows) : i < j => Newer(rows[i], rows[j])
    BY <1>1, <1>2, DescendingSorts
<1> DEFINE n == IF Len(rows) < PageSize THEN Len(rows) ELSE PageSize
<1>4. n \in 0..Len(rows) /\ n \in Int BY <1>3, AuditNumbers
<1>5. page = SubSeq(rows, 1, n) BY DEF Page
<1> HIDE DEF n, page
<1>6. page \in Seq(Event) /\ Len(page) = n /\ \A k \in 1..n : page[k] = rows[k]
    BY <1>3, <1>4, <1>5, SubSeqProperties
<1> QED BY <1>3, <1>4, <1>6 DEF n, due, rows, page

\* What follows the cursor of an event is older than it, and what does not,
\* though older, is of its millisecond.
LEMMA BeyondCursor ==
    ASSUME NEW e \in Event, NEW f \in Event
    PROVE  /\ Beyond(e, EncodeAuditCursor(f)) => Newer(f, e)
           /\ Newer(f, e) => \/ Beyond(e, EncodeAuditCursor(f))
                             \/ Milliseconds(f.date) = Milliseconds(e.date)
<1>1. /\ e.date \in Nat /\ f.date \in Nat /\ e.id \in Nat /\ f.id \in Nat BY EventNumbers
<1>2. /\ Milliseconds(f.date) \in Nat /\ Milliseconds(f.date) <= f.date
      /\ Milliseconds(f.date) <= e.date /\ e.date <= f.date => Milliseconds(e.date) = Milliseconds(f.date)
    BY <1>1, MillisecondHolds
<1> QED BY <1>1, <1>2 DEF Beyond, EncodeAuditCursor, Newer

\* listIamAuditEvents: what a page gives is newer than what follows its cursor, and
\* what it leaves out, though it was owed, is of the millisecond of its last event.
LEMMA ListKeeps == JournalInv /\ ListIamAuditEvents => JournalInv'
<1> SUFFICES ASSUME JournalInv, ListIamAuditEvents PROVE JournalInv' OBVIOUS
<1> DEFINE c == listing.cursor
           g == listing.given
           rows == Rows(listing.now, c)
           page == Page(rows)
           due == {e \in journal : e.date >= RetentionCutoff(listing.now) /\ Beyond(e, c)}
           h == g \o page
           more == Len(rows) > PageSize
<1>1. /\ listing' = [listing EXCEPT
            !.given = h,
            !.cursor = IF more THEN EncodeAuditCursor(rows[PageSize]) ELSE NoCursor,
            !.whole = ~more,
            !.at = IF listing.of = "export"
                   THEN IF more /\ Len(h) < ExportCap THEN "authorize" ELSE "record"
                   ELSE IF more THEN "page" ELSE "ended"]
      /\ Reading /\ UNCHANGED <<tick, journal, recording, mayRead, present, purging>>
    BY DEF ListIamAuditEvents, Given, Reading
<1>2. /\ rows \in Seq(Event) /\ Len(rows) \in Nat
      /\ \A k \in 1..Len(rows) : rows[k] \in due
      /\ \A e \in due : \E k \in 1..Len(rows) : rows[k] = e
      /\ \A i, j \in 1..Len(rows) : i < j => Newer(rows[i], rows[j])
      /\ page \in Seq(Event) /\ Len(page) \in 0..Len(rows)
      /\ Len(page) = IF Len(rows) < PageSize THEN Len(rows) ELSE PageSize
      /\ \A k \in 1..Len(page) : page[k] = rows[k]
    BY PageHolds
<1>3. /\ g \in Seq(Event) /\ Len(g) \in Nat /\ DOMAIN g = 1..Len(g)
      /\ \A i \in 1..Len(g) : g[i] \in Event
      /\ \A i, j \in 1..Len(g) : i < j => Newer(g[i], g[j])
    BY ElementOfSeq, LenProperties DEF JournalInv, ListingTypes, Descends
<1>4. due \subseteq Event /\ due \subseteq journal BY DEF JournalInv, JournalTypes
<1>5. (g = <<>> /\ c = NoCursor) \/ (g # <<>> /\ c = EncodeAuditCursor(Last(g)))
    BY <1>1 DEF JournalInv, CursorFits
<1>6. \A e \in due : Beyond(e, c) OBVIOUS
<1>7. /\ \A e \in Owed : e \in journal
      /\ \A e \in Owed \ GivenEvents : Beyond(e, c) \/ Excused(e)
    BY <1>1 DEF JournalInv, OwedIsKept, OwedIsToCome
<1>8. PageSize \in Nat \ {0} /\ Retention \in Nat /\ tick \in Nat /\ listing.now \in 0..tick
    BY AuditNumbers DEF JournalInv, JournalTypes, ListingTypes
<1> DEFINE l == Len(g)   m == Len(page)
<1>9. m \in Nat /\ l \in Nat /\ m <= Len(rows) BY <1>2, <1>3
<1>10. /\ h \in Seq(Event) /\ Len(h) = l + m /\ DOMAIN h = 1..(l + m)
       /\ \A i \in 1..l : h[i] = g[i]
       /\ \A i \in 1..m : h[l + i] = rows[i]
    <2> HIDE DEF g, page
    <2>1. /\ h \in Seq(Event) /\ Len(h) = l + m
          /\ \A i \in 1..(l + m) : h[i] = IF i <= l THEN g[i] ELSE page[i - l]
        BY <1>2, <1>3, ConcatProperties
    <2>2. DOMAIN h = 1..(l + m) BY <2>1, LenProperties
    <2> HIDE DEF h, l, m
    <2>3. \A i \in 1..l : h[i] = g[i]
        <3>1. \A i \in 1..l : i \in 1..(l + m) /\ i <= l BY <1>9
        <3> QED BY <2>1, <3>1
    <2>4. \A i \in 1..m : h[l + i] = rows[i]
        <3>1. \A i \in 1..m : l + i \in 1..(l + m) /\ ~(l + i <= l) /\ (l + i) - l = i BY <1>9
        <3>2. \A i \in 1..m : page[i] = rows[i] BY <1>2 DEF m
        <3> QED BY <2>1, <3>1, <3>2
    <2> QED BY <2>1, <2>2, <2>3, <2>4
<1>11. listing'.given = h /\ listing'.whole = ~more
    BY <1>1 DEF JournalInv, ListingTypes
<1>12. JournalTypes' BY <1>1 DEF JournalInv, JournalTypes, RetentionCutoff
<1>13. \A k \in 1..l, e \in due : Newer(g[k], e)
    <2> SUFFICES ASSUME NEW k \in 1..l, NEW e \in due PROVE Newer(g[k], e) OBVIOUS
    <2> HIDE DEF g, c, due
    <2>1. l # 0 /\ l \in 1..l /\ k \in Nat /\ k <= l BY <1>3
    <2>2. g # <<>> BY <2>1
    <2>3. Newer(g[l], e) BY <1>3, <1>4, <1>5, <1>6, <2>1, <2>2, BeyondCursor DEF Last
    <2>4. k = l \/ Newer(g[k], g[l])
        <3>1. k = l \/ k < l BY <1>9, <2>1
        <3> QED BY <1>3, <2>1, <3>1
    <2> QED BY <1>3, <1>4, <2>1, <2>3, <2>4, NewerIsTotal
<1>14. Descends'
    <2> SUFFICES ASSUME NEW i \in 1..(l + m), NEW j \in 1..(l + m), i < j
                 PROVE  Newer(h[i], h[j])
        BY <1>10, <1>11 DEF Descends
    <2> HIDE DEF g, h, c, due, rows, page, l, m
    <2>1. CASE j <= l
        <3>1. i \in 1..l /\ j \in 1..l BY <1>9, <2>1
        <3> QED BY <1>3, <1>10, <3>1 DEF l
    <2>2. CASE i <= l /\ ~(j <= l)
        <3>1. i \in 1..l /\ j - l \in 1..m /\ l + (j - l) = j BY <1>9, <2>2
        <3>2. j - l \in 1..Len(rows) BY <1>2, <1>9, <3>1
        <3>3. h[i] = g[i] /\ h[j] = rows[j - l] /\ rows[j - l] \in due BY <1>2, <1>10, <3>1, <3>2
        <3> QED BY <1>13, <3>1, <3>3
    <2>3. CASE ~(i <= l)
        <3>1. i - l \in 1..m /\ l + (i - l) = i /\ j - l \in 1..m /\ l + (j - l) = j /\ i - l < j - l
            BY <1>9, <2>3
        <3>2. i - l \in 1..Len(rows) /\ j - l \in 1..Len(rows) BY <1>2, <1>9, <3>1
        <3>3. h[i] = rows[i - l] /\ h[j] = rows[j - l] BY <1>10, <3>1
        <3> QED BY <1>2, <3>1, <3>2, <3>3
    <2> QED BY <2>1, <2>2, <2>3
<1>15. more => /\ m = PageSize /\ PageSize \in 1..Len(rows) /\ rows[PageSize] \in Event
               /\ h # <<>> /\ Last(h) = rows[PageSize]
    <2> HIDE DEF g, h, c, due, rows, page, l
    <2>1. SUFFICES ASSUME more
                   PROVE /\ m = PageSize /\ PageSize \in 1..Len(rows) /\ rows[PageSize] \in Event
                         /\ h # <<>> /\ Last(h) = rows[PageSize]
        OBVIOUS
    <2>2. m = PageSize /\ PageSize \in 1..Len(rows) BY <1>2, <1>8, <2>1
    <2>3. rows[PageSize] \in Event BY <1>2, <1>4, <2>2
    <2>4. Len(h) = l + PageSize /\ Len(h) # 0 BY <1>8, <1>9, <1>10, <2>2
    <2>5. h[Len(h)] = rows[PageSize] BY <1>8, <1>10, <2>2, <2>4
    <2>6. h # <<>> BY <2>4
    <2> QED BY <2>2, <2>3, <2>5, <2>6 DEF Last
<1>16. listing'.cursor \in [date : Nat, id : Nat]
    <2>1. NoCursor \in [date : Nat, id : Nat] BY AuditNumbers DEF NoCursor
    <2>2. \A f \in Event : EncodeAuditCursor(f) \in [date : Nat, id : Nat]
        BY EventNumbers, MillisecondHolds DEF EncodeAuditCursor
    <2> HIDE DEF rows, h, more
    <2> QED BY <1>1, <1>15, <2>1, <2>2 DEF JournalInv, ListingTypes
<1>17. ListingTypes' /\ (Reading' => more)
    <2> HIDE DEF rows, h, more
    <2>1. /\ listing'.of = listing.of /\ listing'.now = listing.now
          /\ listing'.at \in {"authorize", "record", "page", "ended"}
          /\ listing'.at \in {"authorize", "page"} => more
        BY <1>1 DEF JournalInv, ListingTypes
    <2>2. DOMAIN listing' = {"of", "at", "now", "cursor", "given", "whole"}
          /\ listing' = [of |-> listing'.of, at |-> listing'.at, now |-> listing'.now,
                         cursor |-> listing'.cursor, given |-> listing'.given,
                         whole |-> listing'.whole]
        BY <1>1 DEF JournalInv, ListingTypes
    <2>3. listing'.given \in Seq(Event) /\ listing'.whole \in BOOLEAN BY <1>10, <1>11 DEF more
    <2>4. Reading' => more BY <2>1 DEF Reading
    <2>5. listing' \in [of : {"none", "pages", "export"},
                    at : {"idle", "authorize", "query", "page", "record", "denied", "ended"},
                    now : 0..tick, cursor : [date : Nat, id : Nat], given : Seq(Event),
                    whole : BOOLEAN]
        BY <1>16, <2>1, <2>2, <2>3 DEF JournalInv, ListingTypes
    <2>6. listing'.at \in {"idle", "denied"} \/ Reading' => ~listing'.whole
        BY <1>11, <2>1, <2>4
    <2> QED BY <1>1, <2>4, <2>5, <2>6 DEF JournalInv, ListingTypes, Reading
<1>18. CursorFits'
    <2> HIDE DEF rows, h, more
    <2>1. more => listing'.cursor = EncodeAuditCursor(rows[PageSize])
        BY <1>1 DEF JournalInv, ListingTypes
    <2> QED BY <1>11, <1>15, <1>17, <2>1 DEF CursorFits
<1>19. Owed' = Owed BY <1>1 DEF Owed
<1>20. OwedIsKept' BY <1>1, <1>19 DEF JournalInv, OwedIsKept
<1>21. GivenEvents' = GivenEvents \cup {rows[k] : k \in 1..m}
    <2>1. GivenEvents' = {h[i] : i \in 1..(l + m)} BY <1>10, <1>11 DEF GivenEvents
    <2>2. GivenEvents = {g[i] : i \in 1..l} BY <1>3 DEF GivenEvents
    <2> HIDE DEF g, h, c, due, rows, page, l, m
    <2>3. \A i \in 1..(l + m) : i \in 1..l \/ (i - l \in 1..m /\ l + (i - l) = i) BY <1>9
    <2>4. \A i \in 1..l : i \in 1..(l + m) BY <1>9
    <2>5. \A i \in 1..m : l + i \in 1..(l + m) BY <1>9
    <2>6. \A i \in 1..(l + m) : h[i] \in GivenEvents \cup {rows[k] : k \in 1..m}
        BY <1>10, <2>2, <2>3
    <2>7. \A i \in 1..l : g[i] \in GivenEvents' BY <1>10, <2>1, <2>4
    <2>8. \A i \in 1..m : rows[i] \in GivenEvents' BY <1>10, <2>1, <2>5
    <2> QED BY <2>1, <2>2, <2>6, <2>7, <2>8
<1>22. \A e : Excused(e) => Excused(e)' BY <1>21 DEF Excused
<1>23. ASSUME NEW e \in Owed, e \notin GivenEvents'
       PROVE  Excused(e)' \/ (more /\ Beyond(e, EncodeAuditCursor(rows[PageSize])))
    <2>1. SUFFICES ASSUME ~Excused(e)
                   PROVE  Excused(e)' \/ (more /\ Beyond(e, EncodeAuditCursor(rows[PageSize])))
        BY <1>22
    <2>2. Beyond(e, c) /\ e \in journal /\ e \in Event
        BY <1>7, <1>21, <1>23, <2>1 DEF JournalInv, JournalTypes
    <2>3. e.date \in Nat /\ e.date >= RetentionCutoff(tick) BY <2>2, EventNumbers DEF Owed
    <2>4. e.date >= RetentionCutoff(listing.now)
        BY <1>8, <2>3 DEF RetentionCutoff
    <2>5. e \in due BY <2>2, <2>4
    <2> HIDE DEF g, h, c, due, rows, page, l
    <2>6. PICK k \in 1..Len(rows) : rows[k] = e BY <1>2, <2>5
    <2>7. ~(k \in 1..m) BY <1>21, <1>23, <2>6
    <2>8. more /\ PageSize < k BY <1>2, <1>8, <2>6, <2>7
    <2>9. Newer(rows[PageSize], e) /\ rows[PageSize] \in Event
        BY <1>2, <1>15, <2>6, <2>8
    <2>10. rows[PageSize] \in GivenEvents' BY <1>8, <1>15, <1>21, <2>8
    <2>11. Beyond(e, EncodeAuditCursor(rows[PageSize]))
           \/ Milliseconds(rows[PageSize].date) = Milliseconds(e.date)
        BY <2>2, <2>9, BeyondCursor
    <2> QED BY <2>8, <2>9, <2>10, <2>11 DEF Excused
<1>24. OwedIsToCome'
    <2> HIDE DEF rows, h, more
    <2>1. more => listing'.cursor = EncodeAuditCursor(rows[PageSize])
        BY <1>1 DEF JournalInv, ListingTypes
    <2> QED BY <1>11, <1>17, <1>19, <1>23, <2>1 DEF OwedIsToCome
<1> QED BY <1>12, <1>14, <1>17, <1>18, <1>20, <1>24 DEF JournalInv

\* Every step of the journal keeps the invariant.
LEMMA JournalNextKeeps == JournalInv /\ [NextAuditLog]_varsAuditLog => JournalInv'
<1> SUFFICES ASSUME JournalInv, [NextAuditLog]_varsAuditLog PROVE JournalInv' OBVIOUS
<1>1. CASE UNCHANGED varsAuditLog
    <2>1. JournalTypes' BY <1>1 DEF JournalInv, JournalTypes, varsAuditLog, RetentionCutoff
    <2>2. tick \in Nat BY DEF JournalInv, JournalTypes
    <2> QED BY <1>1, <2>1, <2>2, ListingRests DEF varsAuditLog
<1>2. CASE NextAuditLog
    BY <1>2, TickKeeps, RecordingKeeps, PurgeKeeps, BeginListingKeeps, ReaderKeeps, ListKeeps
    DEF NextAuditLog
<1> QED BY <1>1, <1>2

\* purgeExpiredAuditEvents, listIamAuditEvents: the journal,
\* the listing and its cursor have their types, for any number of events and any
\* size of a page.
THEOREM JournalTypesKept == SpecAuditLog => []TypeOKAuditLog
<1>1. JournalInv => TypeOKAuditLog
    <2> SUFFICES ASSUME JournalInv PROVE TypeOKAuditLog OBVIOUS
    <2>1. \A x : Cardinality({x}) = 1 BY FS_Singleton
    <2>2. Cardinality(recording) <= 1 /\ Cardinality(purging) <= 1
        <3>1. Cardinality({}) = 0 BY FS_EmptySet
        <3>2. \A S : S = {} => Cardinality(S) <= 1 BY <3>1
        <3>5. \A x : Cardinality({x}) <= 1 BY <2>1
        <3>3. recording = {} \/ \E d \in 0..tick : recording = {d} BY DEF JournalInv, JournalTypes
        <3>4. purging = {} \/ \E c \in Int : purging = {c} BY DEF JournalInv, JournalTypes
        <3>6. Cardinality(recording) <= 1 BY <3>2, <3>3, <3>5
        <3>7. Cardinality(purging) <= 1 BY <3>2, <3>4, <3>5
        <3> QED BY <3>6, <3>7
    <2> QED BY <2>2 DEF JournalInv, JournalTypes, ListingTypes, TypeOKAuditLog, Event
<1> QED BY <1>1, JournalInitially, JournalNextKeeps, PTL DEF SpecAuditLog

\* listIamAuditEvents, exportIamAuditEvents: the pages that follow one another's
\* cursor give the events newest first and none of them twice, and whoever reads
\* them to the end has seen every event that was there when the listing began and
\* is still kept, unless it is of the millisecond of one that was given.
THEOREM PagesHoldTogether == SpecAuditLog => []PagesMissOnlyWithinMillisecond
<1>1. JournalInv => PagesMissOnlyWithinMillisecond
    BY DEF JournalInv, PagesMissOnlyWithinMillisecond, Descends, OwedIsToCome, ReadWhole, Excused
<1> QED BY <1>1, JournalInitially, JournalNextKeeps, PTL DEF SpecAuditLog
=============================================================================
