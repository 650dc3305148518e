------------------------------ MODULE Identity ------------------------------
(***************************************************************************)
(* One identity of NTAuth: its status, its password, its password reset    *)
(* tokens and the sessions opened for it.  The requests that change them   *)
(* are packages/db/src/user-lifecycle.ts, passwords.ts and sessions.ts;    *)
(* sign-in is Better Auth's, with the hook of apps/api/src/auth/auth.ts.   *)
(*                                                                         *)
(* A request is a READ COMMITTED transaction: each of its statements sees  *)
(* what is committed when the statement starts, waits for the rows it      *)
(* locks and keeps them to the end.  What it writes becomes visible at its *)
(* Commit, so a step before that only reads and takes locks.  Sign-in has  *)
(* no transaction: it reads twice, then inserts the session.               *)
(*                                                                         *)
(* The identity's e-mail is verified, and the administrators' requests are *)
(* authorized: another one writes nothing but an audit event.              *)
(***************************************************************************)
EXTENDS Integers, FiniteSets

CONSTANTS
    Login,          \* sign-ins; a session is named by the sign-in that opened it
    Tx,             \* bound: the requests, one transaction each
    Token,          \* bound: the reset tokens that can be drawn
    Initial,        \* the first password; Tx names the later ones
    NoPassword,     \* no credential account
    NoTx

ASSUME PasswordAssumption == Initial # NoPassword /\ {Initial, NoPassword} \cap Tx = {}
ASSUME TxAssumption == NoTx \notin Tx
ASSUME LockAssumption ==
    {"user", "account"} \cap (Token \cup Login) = {} /\ Token \cap Login = {}

VARIABLES
    status, password, sessions,  \* tables user, account and session
    issued,         \* issued[k]: table password_reset_requests
    expired,        \* tokens issued more than 30 minutes ago
    at,             \* sign-in l: its progress
    kind, input,    \* request t: which one, and its argument
    place,          \* its next statement
    locks,          \* the rows it has locked
    permitted,      \* the unlocked reads of its first statement let it go on
    doomed,         \* the sessions its delete statement saw
    outcome,        \* how it ended
    transition,     \* history: the request that set the status
    before,         \* before[l]: history: requests committed before sign-in l
    old             \* old[t]: history: sessions there when request t began

database == <<status, password, sessions, issued, transition>>
signIns == <<at, before>>
requests == <<kind, input, place, locks, permitted, doomed, outcome, old>>
vars == <<database, expired, signIns, requests>>

Reversible == {"active", "suspended", "deactivated"}
Passwords == Tx \cup {Initial, NoPassword}

Init ==
    /\ status = "active"
    /\ password = Initial
    /\ sessions = {}
    /\ issued = [k \in Token |-> "none"]
    /\ expired = {}
    /\ at = [l \in Login |-> "idle"]
    /\ kind = [t \in Tx |-> "none"]
    /\ input = [t \in Tx |-> "none"]
    /\ place = [t \in Tx |-> "idle"]
    /\ locks = [t \in Tx |-> {}]
    /\ permitted = [t \in Tx |-> FALSE]
    /\ doomed = [t \in Tx |-> {}]
    /\ outcome = [t \in Tx |-> "none"]
    /\ transition = NoTx
    /\ before = [l \in Login |-> {}]
    /\ old = [t \in Tx |-> {}]

-----------------------------------------------------------------------------
(* Transactions *)

Free(t, rows) == \A u \in Tx \ {t} : locks[u] \cap rows = {}

\* The first statement of request t: which it is, and what it goes on with.
Begin(t, k, argument, next, rows, permit) ==
    /\ kind' = [kind EXCEPT ![t] = k]
    /\ input' = [input EXCEPT ![t] = argument]
    /\ place' = [place EXCEPT ![t] = next]
    /\ locks' = [locks EXCEPT ![t] = rows]
    /\ permitted' = [permitted EXCEPT ![t] = permit]
    /\ old' = [old EXCEPT ![t] = sessions]
    /\ UNCHANGED <<doomed, outcome, database, expired, signIns>>

\* Mutant: an outcome no caller knows.
RefuseDenied(t, k, argument) ==
    /\ kind' = [kind EXCEPT ![t] = k]
    /\ input' = [input EXCEPT ![t] = argument]
    /\ place' = [place EXCEPT ![t] = "ended"]
    /\ outcome' = [outcome EXCEPT ![t] = "denied"]
    /\ UNCHANGED <<locks, permitted, doomed, old, database, expired, signIns>>

\* The first statement makes the request return without a change.
Refuse(t, k, argument) ==
    /\ kind' = [kind EXCEPT ![t] = k]
    /\ input' = [input EXCEPT ![t] = argument]
    /\ place' = [place EXCEPT ![t] = "ended"]
    /\ outcome' = [outcome EXCEPT ![t] = "refused"]
    /\ UNCHANGED <<locks, permitted, doomed, old, database, expired, signIns>>

\* A later statement: wait for its rows, lock them, go on.
Lock(t, here, rows, next) ==
    /\ place[t] = here
    /\ Free(t, rows)
    /\ locks' = [locks EXCEPT ![t] = @ \cup rows]
    /\ place' = [place EXCEPT ![t] = next]
    /\ UNCHANGED <<kind, input, permitted, doomed, outcome, old>>
    /\ UNCHANGED <<database, expired, signIns>>

\* Mutant: the transaction is left open.
EndHolding(t, how) ==
    /\ place' = [place EXCEPT ![t] = "ended"]
    /\ doomed' = [doomed EXCEPT ![t] = {}]
    /\ outcome' = [outcome EXCEPT ![t] = how]
    /\ UNCHANGED <<kind, input, locks, permitted, old, expired, signIns>>

End(t, how) ==
    /\ place' = [place EXCEPT ![t] = "ended"]
    /\ locks' = [locks EXCEPT ![t] = {}]
    /\ doomed' = [doomed EXCEPT ![t] = {}]
    /\ outcome' = [outcome EXCEPT ![t] = how]
    /\ UNCHANGED <<kind, input, permitted, old, expired, signIns>>

\* The connection is lost, or PostgreSQL ends a deadlock with this victim.
Rollback(t) ==
    /\ place[t] \notin {"idle", "ended"}
    /\ End(t, "failed")
    /\ UNCHANGED database

\* delete from session where user_id = ...: a snapshot of the rows, then
\* their locks.
SeeSessions(t) ==
    /\ place[t] = "sessions"
    /\ doomed' = [doomed EXCEPT ![t] = sessions]
    /\ place' = [place EXCEPT ![t] = "revoking"]
    /\ UNCHANGED <<kind, input, locks, permitted, outcome, old>>
    /\ UNCHANGED <<database, expired, signIns>>

AfterSessions(t) == IF kind[t] = "delete" THEN "account" ELSE "commit"

LockSessions(t) == Lock(t, "revoking", doomed[t], AfterSessions(t))

Committing(t, k) == place[t] = "commit" /\ kind[t] = k

-----------------------------------------------------------------------------
(* setUserStatus, deleteUser, revokeUserSessions *)

\* Mutant: the row of the user is read without for update.
SetUserStatusUnlocked(t, s) ==
    /\ place[t] = "idle"
    /\ IF status \in {"deleted", s}
       THEN Refuse(t, "status", s)
       ELSE Begin(t, "status", s, "sessions", {}, TRUE)

SetUserStatus(t, s) ==
    /\ place[t] = "idle"
    /\ Free(t, {"user"})
    /\ IF status \in {"deleted", s}
       THEN Refuse(t, "status", s)
       ELSE Begin(t, "status", s, "sessions", {"user"}, TRUE)

CommitStatus(t) ==
    /\ Committing(t, "status")
    /\ status' = input[t]
    /\ transition' = t
    /\ sessions' = sessions \ doomed[t]
    /\ UNCHANGED <<password, issued>>
    /\ End(t, "committed")

DeleteUser(t) ==
    /\ place[t] = "idle"
    /\ Free(t, {"user"})
    /\ IF status = "deleted"
       THEN Refuse(t, "delete", "deleted")
       ELSE Begin(t, "delete", "deleted", "sessions", {"user"}, TRUE)

DeleteAccount(t) == Lock(t, "account", {"account"}, "commit")

CommitDelete(t) ==
    /\ Committing(t, "delete")
    /\ status' = "deleted"
    /\ transition' = t
    /\ password' = NoPassword
    /\ sessions' = sessions \ doomed[t]
    /\ UNCHANGED issued
    /\ End(t, "committed")

RevokeUserSessions(t) ==
    /\ place[t] = "idle"
    /\ Begin(t, "revoke", "none", "sessions", {}, TRUE)

CommitRevoke(t) ==
    /\ Committing(t, "revoke")
    /\ sessions' = sessions \ doomed[t]
    /\ UNCHANGED <<status, password, issued, transition>>
    /\ End(t, "committed")

-----------------------------------------------------------------------------
(* requestPasswordReset, completePasswordReset, changePassword *)

Unused == {k \in Token : issued[k] = "unused"}

RequestPasswordReset(t, k) ==
    /\ place[t] = "idle"
    /\ issued[k] = "none"
    /\ \A u \in Tx : kind[u] = "request" => input[u] # k
    /\ Free(t, {"user"})
    /\ IF status = "active"
       THEN Begin(t, "request", k, "resets", {"user"}, TRUE)
       ELSE Refuse(t, "request", k)

\* update password_reset_requests set used_at ... where used_at is null
InvalidateResets(t) == Lock(t, "resets", Unused, "commit")

CommitRequest(t) ==
    /\ Committing(t, "request")
    /\ issued' = [k \in Token |-> IF k = input[t] THEN "unused"
                                  ELSE IF k \in Unused THEN "used" ELSE issued[k]]
    /\ UNCHANGED <<status, password, sessions, transition>>
    /\ End(t, "committed")

\* The time is read before the transaction; the status belongs to the
\* statement's snapshot, for only the row of the request is locked.
CompletePasswordReset(t, k) ==
    /\ place[t] = "idle"
    /\ issued[k] # "none"
    /\ IF issued[k] = "used"
       THEN Refuse(t, "complete", k)
       ELSE Begin(t, "complete", k, "token", {}, status = "active" /\ k \notin expired)

\* Mutant: without for update, used_at is what the first read saw.
LockTokenStale(t) ==
    LET k == input[t] IN
    /\ place[t] = "token"
    /\ Free(t, {k})
    /\ IF permitted[t]
       THEN Lock(t, "token", {k}, "password")
       ELSE End(t, "refused") /\ UNCHANGED database

\* Mutant: the reset ends the sessions before it updates the account.
LockTokenAndSessions(t) ==
    LET k == input[t] IN
    /\ place[t] = "token"
    /\ Free(t, {k})
    /\ IF issued[k] = "unused" /\ permitted[t]
       THEN Lock(t, "token", {k} \cup sessions, "password")
       ELSE End(t, "refused") /\ UNCHANGED database

\* for update of r: the row is there if it is still unused.
LockToken(t) ==
    LET k == input[t] IN
    /\ place[t] = "token"
    /\ Free(t, {k})
    /\ IF issued[k] = "unused" /\ permitted[t]
       THEN Lock(t, "token", {k}, "password")
       ELSE End(t, "refused") /\ UNCHANGED database

\* update account set password: no row once the account is deleted.
UpdatePassword(t) == Lock(t, "password", {"account"}, "sessions")

CommitReset(t) ==
    /\ Committing(t, "complete")
    /\ password' = IF password = NoPassword THEN NoPassword ELSE t
    /\ sessions' = sessions \ doomed[t]
    /\ issued' = [issued EXCEPT ![input[t]] = "used"]
    /\ UNCHANGED <<status, transition>>
    /\ End(t, "committed")

\* The caller has a session and knows the password; only the row of the
\* account is locked, and its newest version is verified.
ChangePassword(t) ==
    /\ place[t] = "idle"
    /\ sessions # {}
    /\ IF password = NoPassword
       THEN Refuse(t, "change", password)
       ELSE Begin(t, "change", password, "credential", {}, status = "active")

\* Mutant: the account is verified without for update.
VerifyPasswordUnlocked(t) ==
    /\ place[t] = "credential"
    /\ IF permitted[t] /\ password # NoPassword /\ password = input[t]
       THEN Lock(t, "credential", {}, "sessions")
       ELSE End(t, "refused") /\ UNCHANGED database

VerifyPassword(t) ==
    /\ place[t] = "credential"
    /\ Free(t, {"account"})
    /\ IF permitted[t] /\ password # NoPassword /\ password = input[t]
       THEN Lock(t, "credential", {"account"}, "sessions")
       ELSE End(t, "refused") /\ UNCHANGED database

\* Mutant: sessions survive a change of password.
CommitChangeOnly(t) ==
    /\ Committing(t, "change")
    /\ password' = t
    /\ UNCHANGED <<status, sessions, issued, transition>>
    /\ End(t, "committed")

CommitChange(t) ==
    /\ Committing(t, "change")
    /\ password' = t
    /\ sessions' = sessions \ doomed[t]
    /\ UNCHANGED <<status, issued, transition>>
    /\ End(t, "committed")

Expire(k) ==
    /\ issued[k] # "none"
    /\ k \notin expired
    /\ expired' = expired \cup {k}
    /\ UNCHANGED <<database, signIns, requests>>

-----------------------------------------------------------------------------
(* Sign-in *)

\* Better Auth finds the identity by its e-mail, which a deletion replaces,
\* and verifies the password.
CheckPassword(l) ==
    /\ at[l] = "idle"
    /\ password # NoPassword
    /\ at' = [at EXCEPT ![l] = "checked"]
    /\ before' = [before EXCEPT ![l] = {t \in Tx : outcome[t] = "committed"}]
    /\ UNCHANGED <<database, expired, requests>>

\* Mutant: no hook.
BeforeSessionUnchecked(l) ==
    /\ at[l] = "checked"
    /\ at' = [at EXCEPT ![l] = "allowed"]
    /\ UNCHANGED <<before, database, expired, requests>>

\* databaseHooks.session.create.before
BeforeSession(l) ==
    /\ at[l] = "checked"
    /\ at' = [at EXCEPT ![l] = IF status = "active" THEN "allowed" ELSE "ended"]
    /\ UNCHANGED <<before, database, expired, requests>>

\* Better Auth inserts the session; its foreign key waits for whoever holds
\* the row of the user for update.
InsertSession(l) ==
    /\ at[l] = "allowed"
    /\ \A t \in Tx : "user" \notin locks[t]
    /\ sessions' = sessions \cup {l}
    /\ at' = [at EXCEPT ![l] = "ended"]
    /\ UNCHANGED <<status, password, issued, transition>>
    /\ UNCHANGED <<before, expired, requests>>

SignIn(l) ==
    \/ CheckPassword(l)
    \/ BeforeSession(l)
    \/ InsertSession(l)

Start(t) ==
    \/ \E s \in Reversible : SetUserStatus(t, s)
    \/ DeleteUser(t)
    \/ RevokeUserSessions(t)
    \/ \E k \in Token : RequestPasswordReset(t, k)
    \/ \E k \in Token : CompletePasswordReset(t, k)
    \/ ChangePassword(t)

Commit(t) ==
    \/ CommitStatus(t)
    \/ CommitDelete(t)
    \/ CommitRevoke(t)
    \/ CommitRequest(t)
    \/ CommitReset(t)
    \/ CommitChange(t)

Continue(t) ==
    \/ SeeSessions(t)
    \/ LockSessions(t)
    \/ DeleteAccount(t)
    \/ InvalidateResets(t)
    \/ LockToken(t)
    \/ UpdatePassword(t)
    \/ VerifyPassword(t)
    \/ Commit(t)

Next ==
    \/ \E l \in Login : SignIn(l)
    \/ \E t \in Tx : Start(t) \/ Continue(t) \/ Rollback(t)
    \/ \E k \in Token : Expire(k)

Spec == Init /\ [][Next]_vars

\* The rows the next statement of t waits for, and who holds them.
Wanted(t) ==
    CASE place[t] = "revoking" -> doomed[t]
      [] place[t] \in {"account", "password", "credential"} -> {"account"}
      [] place[t] = "resets" -> Unused
      [] place[t] = "token" -> {input[t]}
      [] OTHER -> {}

Blockers(t) == {u \in Tx \ {t} : locks[u] \cap Wanted(t) # {}}

Circle(S) == S # {} /\ \A u \in S : Blockers(u) \cap S # {}

Deadlocked(t) == \E S \in SUBSET Tx : t \in S /\ Circle(S)

\* Some transaction whose rows are free goes on, and PostgreSQL ends a deadlock.
\* Nothing is assumed of each one: transactions are finite.
Fairness == WF_vars(\E t \in Tx : Continue(t) \/ (Rollback(t) /\ Deadlocked(t)))

LiveSpec == Spec /\ Fairness
-----------------------------------------------------------------------------
(* Properties *)

Places == {"idle", "sessions", "revoking", "account", "resets", "token",
           "password", "credential", "commit", "ended"}

\* Every variable keeps its type.
TypeOK ==
    /\ status \in Reversible \cup {"deleted"}
    /\ password \in Passwords
    /\ sessions \subseteq Login
    /\ issued \in [Token -> {"none", "unused", "used"}]
    /\ expired \subseteq Token
    /\ at \in [Login -> {"idle", "checked", "allowed", "ended"}]
    /\ place \in [Tx -> Places]
    /\ locks \in [Tx -> SUBSET ({"user", "account"} \cup Token \cup Login)]
    /\ permitted \in [Tx -> BOOLEAN]
    /\ doomed \in [Tx -> SUBSET Login]
    /\ outcome \in [Tx -> {"none", "committed", "refused", "failed"}]
    /\ transition \in Tx \cup {NoTx}
    /\ before \in [Login -> SUBSET Tx]
    /\ old \in [Tx -> SUBSET Login]

\* A sign-in that begins after the identity was suspended, deactivated or
\* deleted opens no session while it stays so.
NoSessionOpenedAfterSuspension ==
    \A l \in sessions : status # "active" => transition \notin before[l]

\* At the commit of a change of status no session is left, neither one opened
\* while the transaction ran nor one its delete statement could not see.
TransitionLeavesNoSession ==
    [][status' # status => sessions' = {}]_vars

\* A reset, a change of password and a revocation end every session that
\* existed when the request began.
EarlierSessionsAreRevoked ==
    \A t \in Tx : outcome[t] = "committed" /\ kind[t] # "request" =>
        old[t] \cap sessions = {}

\* Of the reset tokens sent, at most one can still be used: a new one, or its
\* use, makes the others worthless, whatever requests run at the same time.
OneLiveToken == Cardinality(Unused) <= 1

\* A reset token sets a password at most once.
TokenIsUsedOnce ==
    \A t, u \in Tx :
        /\ kind[t] = "complete" /\ kind[u] = "complete"
        /\ input[t] = input[u]
        /\ outcome[t] = "committed" /\ outcome[u] = "committed"
        => t = u

\* A change of password replaces the password it verified: it never undoes a
\* reset or a change that came between.
NoPasswordIsLost ==
    [][\A t \in Tx : CommitChange(t) => password = input[t]]_vars

\* Deletion is terminal: nothing under way at the time or later brings back
\* the identity or a credential.
DeletionIsFinal ==
    [][status = "deleted" => status' = "deleted" /\ password' = NoPassword]_vars

\* completePasswordReset: a reset link is spent by its use, and by a newer one.
ResetTokensAreSpent == OneLiveToken /\ TokenIsUsedOnce

\* setUserStatus, deleteUser: when the transition is committed nothing is left
\* of the access it takes away, and after a deletion nothing comes back.
TransitionsAreComplete == TransitionLeavesNoSession /\ DeletionIsFinal

\* deleteUser d has deleted sessions that r waits to delete, and r, a reset or a
\* change of password, has locked the account that d waits to delete.
Cross(d, r) ==
    /\ kind[d] = "delete" /\ place[d] = "account"
    /\ kind[r] \in {"complete", "change"} /\ place[r] = "revoking"
    /\ "account" \in locks[r]
    /\ locks[d] \cap doomed[r] # {}

\* No requests wait for one another in a circle, so that PostgreSQL has to end
\* one, but those of deleteUser, which ends the sessions before it locks the
\* account, with a reset or a change of password, which lock the account first
\* (user-lifecycle.ts:296, passwords.ts).
OnlyDeletionsDeadlock ==
    \A S \in SUBSET Tx : Circle(S) => \E d, r \in S : Cross(d, r)

\* Whatever requests come, there is always a time when none is under way: every
\* transaction ends, deadlocks of deleteUser with a reset or a change of
\* password included.
RequestsEnd == []<>(\A t \in Tx : place[t] \in {"idle", "ended"})

\* The transitions of the README: existing sessions are revoked at once and
\* an identity that is not active cannot create new ones.
InactiveHasNoSession == status # "active" => sessions = {}
=============================================================================
