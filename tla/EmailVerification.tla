------------------------- MODULE EmailVerification -------------------------
(***************************************************************************)
(* The verification of one identity's address:                             *)
(* packages/db/src/email-verification.ts, behind                           *)
(* apps/api/src/email-verification.ts, beside the changes of status of     *)
(* packages/db/src/user-lifecycle.ts.  Each call is a READ COMMITTED       *)
(* transaction: a statement that waits for a row reads it again as its     *)
(* holder left it, what it writes is seen at its commit, and PostgreSQL    *)
(* may roll it back at any step.                                           *)
(***************************************************************************)
EXTENDS Naturals, FiniteSets

CONSTANTS
    Mailing,        \* bound: the calls; a link is named by the call that sent it
    NoLink

ASSUME MailingAssumption == NoLink \notin Mailing

VARIABLES
    identity,       \* user: its status and email_verified
    link,           \* email_verification_requests: none, pending or used
    lapsed,         \* the links sent more than 24 hours ago
    mailing,        \* a call: which, where it is, its link, the rows it saw
    holder,         \* who has locked a row: the user's, or a link's
    last            \* history: the link sent last

varsEmailVerification == <<identity, link, lapsed, mailing, holder, last>>

User == "user"
Lockables == {User} \cup Mailing
Nothing == [call |-> "none", at |-> "idle", link |-> NoLink, saw |-> {}, inTime |-> FALSE]

InitEmailVerification ==
    /\ identity = [status |-> "active", verified |-> FALSE]
    /\ link = [m \in Mailing |-> "none"]
    /\ lapsed = {}
    /\ mailing = [m \in Mailing |-> Nothing]
    /\ holder = [w \in Lockables |-> {}]
    /\ last = NoLink

Is(m, k, s) == mailing[m].call = k /\ mailing[m].at = s
Holds(m, w) == holder[w] = {m}
Lockable(m, w) == holder[w] \subseteq {m}
LockRow(m, w) == holder' = [holder EXCEPT ![w] = {m}]
GoOn(m, s) == mailing' = [mailing EXCEPT ![m].at = s]

Close(m) ==
    /\ mailing' = [mailing EXCEPT ![m] = [Nothing EXCEPT !.at = "ended"]]
    /\ holder' = [w \in Lockables |-> holder[w] \ {m}]

\* The routes, and those of apps/api/src/users.ts.  The time is taken here.
Ask(m) ==
    /\ mailing[m].at = "idle"
    /\ \/ \E k \in {"request", "suspend", "reactivate", "delete"} :
            mailing' = [mailing EXCEPT ![m] =
                [Nothing EXCEPT !.call = k, !.at = "user"]]
       \/ \E l \in {x \in Mailing : link[x] # "none"} :
            mailing' = [mailing EXCEPT ![m] =
                [call |-> "complete", at |-> "link", link |-> l, saw |-> {},
                 inTime |-> l \notin lapsed]]
    /\ UNCHANGED <<identity, link, lapsed, holder, last>>

Pending == {l \in Mailing : link[l] = "pending"}
Verifiable == identity = [status |-> "active", verified |-> FALSE]

\* select ... for update; a request for another address, or one that cannot be
\* verified, is answered alike.
RequestEmailVerification(m) ==
    /\ Is(m, "request", "user") /\ Lockable(m, User)
    /\ IF Verifiable
       THEN GoOn(m, "pending") /\ LockRow(m, User)
       ELSE Close(m)
    /\ UNCHANGED <<identity, link, lapsed, last>>

\* update email_verification_requests: the rows the statement sees ...
SeePending(m) ==
    /\ Is(m, "request", "pending")
    /\ mailing' = [mailing EXCEPT ![m].at = "update", ![m].saw = Pending]
    /\ UNCHANGED <<identity, link, lapsed, holder, last>>

\* ... and locks in turn.
LockPending(m) ==
    /\ Is(m, "request", "update")
    /\ \E l \in mailing[m].saw : ~Holds(m, l) /\ Lockable(m, l) /\ LockRow(m, l)
    /\ UNCHANGED <<identity, link, lapsed, mailing, last>>

\* Every pending link is used up, the new one inserted and mailed.
CommitMailing(m) ==
    /\ Is(m, "request", "update")
    /\ \A l \in mailing[m].saw : Holds(m, l)
    /\ link' = [l \in Mailing |->
            IF l = m THEN "pending"
            ELSE IF l \in mailing[m].saw THEN "used" ELSE link[l]]
    /\ last' = m
    /\ Close(m)
    /\ UNCHANGED <<identity, lapsed>>

\* for update of r, u: the link's row, unless it was used meanwhile ...
LockLink(m) ==
    LET l == mailing[m].link IN
    /\ Is(m, "complete", "link") /\ Lockable(m, l)
    /\ IF link[l] = "pending"
       THEN GoOn(m, "identity") /\ LockRow(m, l)
       ELSE Close(m)
    /\ UNCHANGED <<identity, link, lapsed, last>>

\* Mutant: for update of r alone.
LockIdentityNot(m) ==
    /\ Is(m, "complete", "identity")
    /\ IF Verifiable /\ mailing[m].inTime
       THEN GoOn(m, "commit") /\ UNCHANGED holder
       ELSE Close(m)
    /\ UNCHANGED <<identity, link, lapsed, last>>

\* ... then the user's, and the checks on what was read.  The address is the
\* one the link was sent to as long as the identity is not deleted.
LockIdentity(m) ==
    /\ Is(m, "complete", "identity") /\ Lockable(m, User)
    /\ IF Verifiable /\ mailing[m].inTime
       THEN GoOn(m, "commit") /\ LockRow(m, User)
       ELSE Close(m)
    /\ UNCHANGED <<identity, link, lapsed, last>>

CompleteEmailVerification(m) ==
    /\ Is(m, "complete", "commit")
    /\ identity' = [identity EXCEPT !.verified = TRUE]
    /\ link' = [link EXCEPT ![mailing[m].link] = "used"]
    /\ Close(m)
    /\ UNCHANGED <<lapsed, last>>

Target == [suspend |-> "suspended", reactivate |-> "active", delete |-> "deleted"]

\* setUserStatus: the row is locked to the commit ...
LockStatus(m) ==
    /\ mailing[m].call \in DOMAIN Target
    /\ mailing[m].at = "user" /\ Lockable(m, User)
    /\ IF identity.status \in {"deleted", Target[mailing[m].call]}
       THEN Close(m)
       ELSE GoOn(m, "status") /\ LockRow(m, User)
    /\ UNCHANGED <<identity, link, lapsed, last>>

\* ... and deleteUser takes the address away.
CommitIdentity(m) ==
    /\ mailing[m].at = "status"
    /\ identity' = [status |-> Target[mailing[m].call],
                    verified |-> identity.verified /\ mailing[m].call # "delete"]
    /\ Close(m)
    /\ UNCHANGED <<link, lapsed, last>>

\* A deadlock, a lost connection, a crash.
RollBack(m) ==
    /\ mailing[m].at \notin {"idle", "ended"}
    /\ Close(m)
    /\ UNCHANGED <<identity, link, lapsed, last>>

\* 24 hours later.
Lapse(l) ==
    /\ link[l] = "pending" /\ l \notin lapsed
    /\ lapsed' = lapsed \cup {l}
    /\ UNCHANGED <<identity, link, mailing, holder, last>>

NextEmailVerification == \E m \in Mailing :
    \/ Ask(m) \/ RequestEmailVerification(m) \/ SeePending(m) \/ LockPending(m) \/ CommitMailing(m)
    \/ LockLink(m) \/ LockIdentity(m) \/ CompleteEmailVerification(m)
    \/ LockStatus(m) \/ CommitIdentity(m) \/ RollBack(m) \/ Lapse(m)

SpecEmailVerification == InitEmailVerification /\ [][NextEmailVerification]_varsEmailVerification

-----------------------------------------------------------------------------
(* Properties *)

\* The identity, the links and the calls have their types, and a call that has
\* ended holds no row.
TypeOKEmailVerification ==
    /\ identity \in [status : {"active", "suspended", "deleted"}, verified : BOOLEAN]
    /\ link \in [Mailing -> {"none", "pending", "used"}]
    /\ \A m \in Mailing :
        /\ mailing[m].call \in {"none", "request", "complete", "suspend", "reactivate", "delete"}
        /\ mailing[m].call = "none" => \A w \in Lockables : m \notin holder[w]
    /\ \A w \in Lockables : Cardinality(holder[w]) <= 1

\* requestEmailVerification, completeEmailVerification: "resending invalidates
\* the prior link" and "verified or suspended accounts receive no new token"
\* (README.md:58), also when two requests, or a request and a verification,
\* overlap.  No link but the one sent last is ever pending, none is sent unless
\* the identity can be verified, and the address becomes verified by that link
\* and while the identity is active.
VerificationIsCurrent ==
    [][/\ Pending' \subseteq {last'}
       /\ last' # last => Verifiable
       /\ ~identity.verified /\ identity'.verified =>
            /\ identity'.status = "active"
            /\ link[last] = "pending" /\ link'[last] = "used"]_varsEmailVerification
=============================================================================
