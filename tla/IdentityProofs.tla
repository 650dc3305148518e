---------------------------- MODULE IdentityProofs ----------------------------
(***************************************************************************)
(* Proofs about Identity: for every set of requests, sign-ins and tokens,  *)
(* a transition leaves no session, a deletion is final, a change of        *)
(* password loses no other, and a reset link is spent by its use and by a  *)
(* newer one.                                                              *)
(*                                                                         *)
(* The argument is about locks.  No two requests hold the same row         *)
(* (Exclusive); LocksFit says which rows a request has at each place, Knows *)
(* what those rows keep saying while it has them, and Sees what its delete *)
(* statement has collected of the sessions it must end.                    *)
(***************************************************************************)
EXTENDS Identity, FiniteSetTheorems, TLAPS

Kinds == {"none", "status", "delete", "revoke", "request", "complete", "change"}
Inputs == {"none", "deleted"} \cup Reversible \cup Token \cup Passwords

IdentityTypes ==
    /\ TypeOK
    /\ kind \in [Tx -> Kinds]
    /\ input \in [Tx -> Inputs]

Underway(t) == place[t] \notin {"idle", "ended"}

\* The places a request of each kind goes through, and its argument.
PlaceFits(t) ==
    /\ kind[t] = "none" <=> place[t] = "idle"
    /\ outcome[t] = "none" <=> place[t] # "ended"
    /\ kind[t] = "status" => /\ place[t] \in {"sessions", "revoking", "commit", "ended"}
                             /\ input[t] \in Reversible
    /\ kind[t] = "delete" =>
           place[t] \in {"sessions", "revoking", "account", "commit", "ended"}
    /\ kind[t] = "revoke" => place[t] \in {"sessions", "revoking", "commit", "ended"}
    /\ kind[t] = "request" => /\ place[t] \in {"resets", "commit", "ended"}
                              /\ input[t] \in Token
    /\ kind[t] = "complete" =>
           /\ place[t] \in {"token", "password", "sessions", "revoking", "commit", "ended"}
           /\ input[t] \in Token
    /\ kind[t] = "change" =>
           /\ place[t] \in {"credential", "sessions", "revoking", "commit", "ended"}
           /\ place[t] # "ended" => input[t] \in Tx \cup {Initial}

\* Past the statement that locks the account, or the token, it names.
HasAccount(t) ==
    \/ kind[t] = "delete" /\ place[t] = "commit"
    \/ kind[t] = "change" /\ place[t] \in {"sessions", "revoking", "commit"}
    \/ kind[t] = "complete" /\ place[t] \in {"sessions", "revoking", "commit"}

HasToken(t) ==
    kind[t] = "complete" /\ place[t] \in {"password", "sessions", "revoking", "commit"}

LocksFit(t) ==
    /\ ~Underway(t) => locks[t] = {}
    /\ kind[t] \in {"status", "delete", "request"} /\ Underway(t) => "user" \in locks[t]
    /\ HasAccount(t) => "account" \in locks[t]
    /\ HasToken(t) => input[t] \in locks[t]

\* What the rows a request has locked keep saying, and what its end leaves.
Knows(t) ==
    /\ kind[t] \in {"status", "delete"} /\ Underway(t) => status # "deleted"
    /\ kind[t] = "change" /\ HasAccount(t) => password = input[t]
    /\ HasToken(t) => issued[input[t]] = "unused"
    /\ kind[t] = "request" /\ Underway(t) => issued[input[t]] = "none"
    /\ kind[t] = "request" /\ place[t] = "commit" => Unused \subseteq locks[t]
    /\ kind[t] = "complete" /\ outcome[t] = "committed" => issued[input[t]] = "used"

Collected(t) == kind[t] # "request" /\ place[t] \in {"revoking", "account", "commit"}

\* The sessions a request found: those its delete statement has not collected
\* are gone, and a transition has collected every one.
Sees(t) ==
    /\ \A l \in old[t] : at[l] = "ended"
    /\ Collected(t) => old[t] \cap sessions \subseteq doomed[t]
    /\ Collected(t) /\ kind[t] \in {"status", "delete"} => sessions \subseteq doomed[t]
    /\ outcome[t] = "committed" /\ kind[t] # "request" => old[t] \cap sessions = {}

Exclusive == \A t, u \in Tx : t # u => locks[t] \cap locks[u] = {}

TokensDiffer ==
    \A t, u \in Tx : /\ kind[t] = "request"
                     /\ kind[u] = "request"
                     /\ input[t] = input[u]
                     => t = u

OneUnused == \A j, k \in Unused : j = k

DeletedIsBare == status = "deleted" => password = NoPassword

\* A session is of a sign-in that has ended, and one let through since the
\* last transition to an inactive status began before it.
SignInFits(l) ==
    /\ l \in sessions => at[l] = "ended"
    /\ before[l] \subseteq {t \in Tx : outcome[t] = "committed"}
    /\ l \in sessions \/ at[l] = "allowed" => (status # "active" => transition \notin before[l])

RequestFits(t) == PlaceFits(t) /\ LocksFit(t) /\ Knows(t) /\ Sees(t)

IdentityInv ==
    /\ IdentityTypes
    /\ \A t \in Tx : RequestFits(t)
    /\ Exclusive
    /\ TokensDiffer
    /\ OneUnused
    /\ TokenIsUsedOnce
    /\ DeletedIsBare
    /\ \A l \in Login : SignInFits(l)

-----------------------------------------------------------------------------
(* Steps of one request *)

\* Request u is left as it is.
Rests(u) ==
    /\ kind'[u] = kind[u]
    /\ input'[u] = input[u]
    /\ place'[u] = place[u]
    /\ locks'[u] = locks[u]
    /\ doomed'[u] = doomed[u]
    /\ outcome'[u] = outcome[u]
    /\ old'[u] = old[u]

\* What a request that rests has still fits when the tables it speaks of do.
LEMMA Frames ==
  ASSUME NEW u \in Tx, Rests(u), RequestFits(u)
  PROVE  /\ PlaceFits(u)' /\ LocksFit(u)'
         /\ UNCHANGED <<status, password, issued>> => Knows(u)'
         /\ UNCHANGED <<sessions, at>> => Sees(u)'
<1>1. PlaceFits(u)' /\ LocksFit(u)'
  BY DEF Rests, RequestFits, PlaceFits, LocksFit, Underway, HasAccount, HasToken
<1>2. ASSUME UNCHANGED <<status, password, issued>> PROVE Knows(u)'
  <2>1. Unused' = Unused
    BY <1>2 DEF Unused
  <2>2. QED
    BY <1>2, <2>1 DEF Rests, RequestFits, Knows, Underway, HasAccount, HasToken
<1>3. ASSUME UNCHANGED <<sessions, at>> PROVE Sees(u)'
  BY <1>3 DEF Rests, RequestFits, Sees, Collected
<1>4. QED
  BY <1>1, <1>2, <1>3

\* A step of request t alone keeps the invariant when it leaves t fitting, takes
\* only free rows and, if t asks for a token, names one nobody else has named.
LEMMA AloneKeeps ==
  ASSUME IdentityInv, IdentityTypes', NEW t \in Tx,
         \A u \in Tx \ {t} : Rests(u),
         UNCHANGED <<status, password, issued, transition, sessions, at, before>>,
         outcome[t] # "committed", outcome'[t] # "committed",
         \A u \in Tx \ {t} : locks[u] \cap locks'[t] = {},
         kind'[t] = "request" =>
             \A u \in Tx \ {t} : kind[u] = "request" => input[u] # input'[t],
         RequestFits(t)'
  PROVE  IdentityInv'
<1>1. \A u \in Tx : RequestFits(u)'
  <2>1. ASSUME NEW u \in Tx \ {t} PROVE RequestFits(u)'
    <3>1. Rests(u) /\ RequestFits(u)
      BY DEF IdentityInv
    <3>2. QED
      BY <3>1, Frames DEF RequestFits
  <2>2. QED
    BY <2>1
<1>2. Exclusive'
  BY DEF IdentityInv, Exclusive, Rests
<1>3. TokensDiffer'
  BY DEF IdentityInv, TokensDiffer, Rests
<1>4. OneUnused' /\ DeletedIsBare' /\ TokenIsUsedOnce'
  BY DEF IdentityInv, OneUnused, DeletedIsBare, TokenIsUsedOnce, Unused, Rests
<1>5. ASSUME NEW l \in Login PROVE SignInFits(l)'
  <2>1. SignInFits(l)
    BY DEF IdentityInv
  <2>2. \A u \in Tx : outcome[u] = "committed" => outcome'[u] = "committed"
    BY DEF Rests
  <2>3. QED
    BY <2>1, <2>2 DEF SignInFits
<1>6. QED
  BY <1>1, <1>2, <1>3, <1>4, <1>5 DEF IdentityInv

\* Changing a function at t leaves every other request as it was.
LEMMA BeginShape ==
  ASSUME IdentityTypes, NEW t \in Tx, NEW k \in Kinds, NEW a \in Inputs,
         NEW next \in Places, NEW rows \in SUBSET ({"user", "account"} \cup Token \cup Login),
         NEW permit \in BOOLEAN, Begin(t, k, a, next, rows, permit)
  PROVE  /\ IdentityTypes'
         /\ \A u \in Tx \ {t} : Rests(u)
         /\ UNCHANGED <<status, password, issued, transition, sessions, at, before>>
         /\ kind'[t] = k /\ input'[t] = a /\ place'[t] = next /\ locks'[t] = rows
         /\ doomed'[t] = doomed[t] /\ outcome'[t] = outcome[t] /\ old'[t] = sessions
BY DEF Begin, IdentityTypes, TypeOK, Rests, database, signIns

\* A refusal ends the request at once.
LEMMA RefuseShape ==
  ASSUME IdentityTypes, NEW t \in Tx, NEW k \in Kinds, NEW a \in Inputs,
         Refuse(t, k, a)
  PROVE  /\ IdentityTypes'
         /\ \A u \in Tx \ {t} : Rests(u)
         /\ UNCHANGED <<status, password, issued, transition, sessions, at, before>>
         /\ kind'[t] = k /\ input'[t] = a /\ place'[t] = "ended" /\ locks'[t] = locks[t]
         /\ doomed'[t] = doomed[t] /\ outcome'[t] = "refused" /\ old'[t] = old[t]
BY DEF Refuse, IdentityTypes, TypeOK, Rests, Places, database, signIns

\* A later statement takes its rows from nobody.
LEMMA LockShape ==
  ASSUME IdentityInv, NEW t \in Tx, NEW here \in Places, NEW next \in Places,
         NEW rows \in SUBSET ({"user", "account"} \cup Token \cup Login),
         Lock(t, here, rows, next)
  PROVE  /\ IdentityTypes'
         /\ \A u \in Tx \ {t} : Rests(u)
         /\ \A u \in Tx \ {t} : locks[u] \cap locks'[t] = {}
         /\ UNCHANGED <<status, password, issued, transition, sessions, at, before>>
         /\ kind'[t] = kind[t] /\ input'[t] = input[t] /\ place'[t] = next
         /\ locks'[t] = locks[t] \cup rows /\ doomed'[t] = doomed[t]
         /\ outcome'[t] = outcome[t] /\ old'[t] = old[t]
<1>1. IdentityTypes /\ Exclusive
  BY DEF IdentityInv
<1>2. /\ IdentityTypes'
      /\ \A u \in Tx \ {t} : Rests(u)
      /\ UNCHANGED <<status, password, issued, transition, sessions, at, before>>
      /\ kind'[t] = kind[t] /\ input'[t] = input[t] /\ place'[t] = next
      /\ locks'[t] = locks[t] \cup rows /\ doomed'[t] = doomed[t]
      /\ outcome'[t] = outcome[t] /\ old'[t] = old[t]
  BY <1>1 DEF Lock, IdentityTypes, TypeOK, Rests, database, signIns
<1>3. \A u \in Tx \ {t} : locks[u] \cap locks'[t] = {}
  BY <1>1, <1>2 DEF Lock, Free, Exclusive
<1>4. QED
  BY <1>2, <1>3

\* An end frees the rows.
LEMMA EndShape ==
  ASSUME IdentityTypes, NEW t \in Tx, NEW how \in {"committed", "refused", "failed"},
         End(t, how)
  PROVE  /\ \A u \in Tx \ {t} : Rests(u)
         /\ UNCHANGED <<expired, at, before>>
         /\ kind'[t] = kind[t] /\ input'[t] = input[t] /\ place'[t] = "ended"
         /\ locks'[t] = {} /\ doomed'[t] = {} /\ outcome'[t] = how /\ old'[t] = old[t]
         /\ kind' \in [Tx -> Kinds] /\ input' \in [Tx -> Inputs]
         /\ place' \in [Tx -> Places]
         /\ locks' \in [Tx -> SUBSET ({"user", "account"} \cup Token \cup Login)]
         /\ permitted' \in [Tx -> BOOLEAN]
         /\ doomed' \in [Tx -> SUBSET Login]
         /\ outcome' \in [Tx -> {"none", "committed", "refused", "failed"}]
         /\ old' \in [Tx -> SUBSET Login]
BY DEF End, IdentityTypes, TypeOK, Rests, Places, signIns

-----------------------------------------------------------------------------
(* First statements *)

\* A refused request has fitted nothing but its place.
LEMMA RefuseKeeps ==
  ASSUME IdentityInv, NEW t \in Tx, NEW k \in Kinds \ {"none"}, NEW a \in Inputs,
         place[t] = "idle", Refuse(t, k, a),
         k = "status" => a \in Reversible,
         k \in {"request", "complete"} => a \in Token,
         k = "request" => \A u \in Tx : kind[u] = "request" => input[u] # a
  PROVE  IdentityInv'
<1>1. IdentityTypes /\ Exclusive /\ RequestFits(t)
  BY DEF IdentityInv
<1>2. /\ IdentityTypes'
      /\ \A u \in Tx \ {t} : Rests(u)
      /\ UNCHANGED <<status, password, issued, transition, sessions, at, before>>
      /\ kind'[t] = k /\ input'[t] = a /\ place'[t] = "ended" /\ locks'[t] = locks[t]
      /\ doomed'[t] = doomed[t] /\ outcome'[t] = "refused" /\ old'[t] = old[t]
  BY <1>1, RefuseShape
<1>3. locks[t] = {} /\ outcome[t] = "none"
  BY <1>1 DEF RequestFits, PlaceFits, LocksFit, Underway
<1>4. PlaceFits(t)'
  BY <1>2 DEF PlaceFits, Kinds
<1>5. LocksFit(t)' /\ Knows(t)' /\ Sees(t)'
  BY <1>1, <1>2, <1>3
     DEF RequestFits, LocksFit, Knows, Sees, Underway, HasAccount, HasToken, Collected
<1>6. QED
  BY <1>1, <1>2, <1>3, <1>4, <1>5, AloneKeeps DEF RequestFits

\* A request that begins takes free rows and has not collected anything.
LEMMA BeginKeeps ==
  ASSUME IdentityInv, NEW t \in Tx, NEW k \in Kinds \ {"none"}, NEW a \in Inputs,
         NEW next \in Places \ {"idle", "ended", "revoking", "account", "password", "commit"},
         NEW rows \in SUBSET {"user"}, NEW permit \in BOOLEAN,
         place[t] = "idle", Begin(t, k, a, next, rows, permit), Free(t, rows),
         k \in {"status", "delete", "revoke"} => next = "sessions",
         k \in {"status", "delete", "request"} => "user" \in rows,
         k = "status" => a \in Reversible,
         k \in {"status", "delete"} => status # "deleted",
         k = "request" => next = "resets" /\ a \in Token /\ issued[a] = "none",
         k = "request" => \A u \in Tx : kind[u] = "request" => input[u] # a,
         k = "complete" => next = "token" /\ a \in Token,
         k = "change" => next = "credential" /\ a \in Tx \cup {Initial}
  PROVE  IdentityInv'
<1>1. IdentityTypes /\ Exclusive /\ RequestFits(t) /\ \A l \in Login : SignInFits(l)
  BY DEF IdentityInv
<1>2. /\ IdentityTypes'
      /\ \A u \in Tx \ {t} : Rests(u)
      /\ UNCHANGED <<status, password, issued, transition, sessions, at, before>>
      /\ kind'[t] = k /\ input'[t] = a /\ place'[t] = next /\ locks'[t] = rows
      /\ doomed'[t] = doomed[t] /\ outcome'[t] = outcome[t] /\ old'[t] = sessions
  BY <1>1, BeginShape
<1>3. outcome[t] = "none"
  BY <1>1 DEF RequestFits, PlaceFits
<1>4. PlaceFits(t)'
  BY <1>2, <1>3 DEF PlaceFits, Kinds
<1>5. LocksFit(t)' /\ Knows(t)'
  BY <1>2, <1>3 DEF LocksFit, Knows, Underway, HasAccount, HasToken, Kinds
<1>6. \A l \in sessions : at[l] = "ended"
  BY <1>1 DEF SignInFits, IdentityTypes, TypeOK
<1>7. Sees(t)'
  BY <1>2, <1>3, <1>6 DEF Sees, Collected
<1>8. \A u \in Tx \ {t} : locks[u] \cap locks'[t] = {}
  BY <1>2 DEF Free
<1>9. QED
  BY <1>2, <1>3, <1>4, <1>5, <1>7, <1>8, AloneKeeps DEF RequestFits

\* setUserStatus
LEMMA SetUserStatusKeeps ==
  ASSUME IdentityInv, NEW t \in Tx, NEW s \in Reversible, SetUserStatus(t, s)
  PROVE  IdentityInv'
<1>1. s \in Inputs /\ "status" \in Kinds \ {"none"} /\ "sessions" \in Places
  BY DEF Inputs, Kinds, Places
<1>2. CASE status \in {"deleted", s}
  BY <1>1, <1>2, RefuseKeeps DEF SetUserStatus
<1>3. CASE status \notin {"deleted", s}
  BY <1>1, <1>3, BeginKeeps DEF SetUserStatus
<1>4. QED
  BY <1>2, <1>3

\* deleteUser
LEMMA DeleteUserKeeps ==
  ASSUME IdentityInv, NEW t \in Tx, DeleteUser(t)
  PROVE  IdentityInv'
<1>1. "deleted" \in Inputs /\ "delete" \in Kinds \ {"none"} /\ "sessions" \in Places
  BY DEF Inputs, Kinds, Places
<1>2. CASE status = "deleted"
  BY <1>1, <1>2, RefuseKeeps DEF DeleteUser
<1>3. CASE status # "deleted"
  BY <1>1, <1>3, BeginKeeps DEF DeleteUser
<1>4. QED
  BY <1>2, <1>3

\* revokeUserSessions
LEMMA RevokeUserSessionsKeeps ==
  ASSUME IdentityInv, NEW t \in Tx, RevokeUserSessions(t)
  PROVE  IdentityInv'
<1>1. "none" \in Inputs /\ "revoke" \in Kinds \ {"none"} /\ "sessions" \in Places
  BY DEF Inputs, Kinds, Places
<1>2. Free(t, {})
  BY DEF Free
<1>3. QED
  BY <1>1, <1>2, BeginKeeps DEF RevokeUserSessions

\* requestPasswordReset
LEMMA RequestPasswordResetKeeps ==
  ASSUME IdentityInv, NEW t \in Tx, NEW k \in Token, RequestPasswordReset(t, k)
  PROVE  IdentityInv'
<1>1. k \in Inputs /\ "request" \in Kinds \ {"none"} /\ "resets" \in Places
  BY DEF Inputs, Kinds, Places
<1>2. CASE status = "active"
  BY <1>1, <1>2, BeginKeeps DEF RequestPasswordReset
<1>3. CASE status # "active"
  BY <1>1, <1>3, RefuseKeeps DEF RequestPasswordReset
<1>4. QED
  BY <1>2, <1>3

\* completePasswordReset
LEMMA CompletePasswordResetKeeps ==
  ASSUME IdentityInv, NEW t \in Tx, NEW k \in Token, CompletePasswordReset(t, k)
  PROVE  IdentityInv'
<1>1. k \in Inputs /\ "complete" \in Kinds \ {"none"} /\ "token" \in Places
  BY DEF Inputs, Kinds, Places
<1>2. Free(t, {})
  BY DEF Free
<1>3. CASE issued[k] = "used"
  BY <1>1, <1>3, RefuseKeeps DEF CompletePasswordReset
<1>4. CASE issued[k] # "used"
  <2>1. (status = "active" /\ k \notin expired) \in BOOLEAN
    OBVIOUS
  <2>2. QED
    BY <1>1, <1>2, <1>4, <2>1, BeginKeeps DEF CompletePasswordReset
<1>5. QED
  BY <1>3, <1>4

\* changePassword
LEMMA ChangePasswordKeeps ==
  ASSUME IdentityInv, NEW t \in Tx, ChangePassword(t)
  PROVE  IdentityInv'
<1>1. password \in Passwords
  BY DEF IdentityInv, IdentityTypes, TypeOK
<1>2. password \in Inputs /\ "change" \in Kinds \ {"none"} /\ "credential" \in Places
  BY <1>1 DEF Inputs, Kinds, Places
<1>3. Free(t, {})
  BY DEF Free
<1>4. CASE password = NoPassword
  BY <1>2, <1>4, RefuseKeeps DEF ChangePassword
<1>5. CASE password # NoPassword
  <2>1. (status = "active") \in BOOLEAN /\ password \in Tx \cup {Initial}
    BY <1>1, <1>5 DEF Passwords
  <2>2. QED
    BY <1>2, <1>3, <1>5, <2>1, BeginKeeps DEF ChangePassword
<1>6. QED
  BY <1>4, <1>5

-----------------------------------------------------------------------------
(* Later statements *)

\* delete from session: the snapshot holds every session there is.
LEMMA SeeSessionsKeeps ==
  ASSUME IdentityInv, NEW t \in Tx, SeeSessions(t)
  PROVE  IdentityInv'
<1>1. IdentityTypes /\ Exclusive /\ TokensDiffer /\ RequestFits(t)
  BY DEF IdentityInv
<1>2. /\ IdentityTypes'
      /\ \A u \in Tx \ {t} : Rests(u)
      /\ UNCHANGED <<status, password, issued, transition, sessions, at, before>>
      /\ kind'[t] = kind[t] /\ input'[t] = input[t] /\ place'[t] = "revoking"
      /\ locks'[t] = locks[t] /\ doomed'[t] = sessions
      /\ outcome'[t] = outcome[t] /\ old'[t] = old[t]
  BY <1>1 DEF SeeSessions, IdentityTypes, TypeOK, Rests, Places, database, signIns
<1>3. place[t] = "sessions" /\ outcome[t] = "none"
  BY <1>1 DEF SeeSessions, RequestFits, PlaceFits
<1>4. PlaceFits(t)' /\ LocksFit(t)' /\ Knows(t)'
  BY <1>1, <1>2, <1>3
     DEF RequestFits, PlaceFits, LocksFit, Knows, Underway, HasAccount, HasToken
<1>5. Sees(t)'
  BY <1>1, <1>2, <1>3 DEF RequestFits, Sees, Collected
<1>6. /\ \A u \in Tx \ {t} : locks[u] \cap locks'[t] = {}
      /\ kind'[t] = "request" =>
             \A u \in Tx \ {t} : kind[u] = "request" => input[u] # input'[t]
  BY <1>1, <1>2 DEF Exclusive, TokensDiffer
<1>7. QED
  BY <1>2, <1>3, <1>4, <1>5, <1>6, AloneKeeps DEF RequestFits

\* A statement that waits for rows keeps the invariant when its request fits
\* afterwards.
LEMMA LockKeeps ==
  ASSUME IdentityInv, NEW t \in Tx, NEW here \in Places \ {"ended"}, NEW next \in Places,
         NEW rows \in SUBSET ({"user", "account"} \cup Token \cup Login),
         Lock(t, here, rows, next), RequestFits(t)'
  PROVE  IdentityInv'
<1>1. IdentityTypes /\ TokensDiffer /\ RequestFits(t)
  BY DEF IdentityInv
<1>2. place[t] = here
  BY DEF Lock
<1>3. outcome[t] # "committed"
  BY <1>1, <1>2 DEF RequestFits, PlaceFits
<1>4. /\ IdentityTypes'
      /\ \A u \in Tx \ {t} : Rests(u)
      /\ \A u \in Tx \ {t} : locks[u] \cap locks'[t] = {}
      /\ UNCHANGED <<status, password, issued, transition, sessions, at, before>>
      /\ kind'[t] = kind[t] /\ input'[t] = input[t] /\ outcome'[t] = outcome[t]
  BY LockShape
<1>5. kind'[t] = "request" =>
          \A u \in Tx \ {t} : kind[u] = "request" => input[u] # input'[t]
  BY <1>1, <1>4 DEF TokensDiffer
<1>6. QED
  BY <1>3, <1>4, <1>5, AloneKeeps

\* The rows of the sessions collected.
LEMMA LockSessionsKeeps ==
  ASSUME IdentityInv, NEW t \in Tx, LockSessions(t)
  PROVE  IdentityInv'
<1>1. IdentityTypes /\ RequestFits(t)
  BY DEF IdentityInv
<1>2. /\ AfterSessions(t) \in Places /\ "revoking" \in Places \ {"ended"}
      /\ doomed[t] \in SUBSET ({"user", "account"} \cup Token \cup Login)
  BY <1>1 DEF AfterSessions, Places, IdentityTypes, TypeOK
<1>3. /\ UNCHANGED <<status, password, issued, transition, sessions, at, before>>
      /\ kind'[t] = kind[t] /\ input'[t] = input[t] /\ place'[t] = AfterSessions(t)
      /\ locks'[t] = locks[t] \cup doomed[t] /\ doomed'[t] = doomed[t]
      /\ outcome'[t] = outcome[t] /\ old'[t] = old[t]
  BY <1>2, LockShape DEF LockSessions
<1>4. place[t] = "revoking"
  BY DEF LockSessions, Lock
<1>5. PlaceFits(t)'
  BY <1>1, <1>3, <1>4 DEF AfterSessions, RequestFits, PlaceFits
<1>6. LocksFit(t)' /\ Knows(t)'
  BY <1>1, <1>3, <1>4
     DEF AfterSessions, RequestFits, PlaceFits, LocksFit, Knows, Underway, HasAccount, HasToken
<1>7. Sees(t)'
  BY <1>1, <1>3, <1>4 DEF AfterSessions, RequestFits, Sees, Collected
<1>8. QED
  BY <1>2, <1>5, <1>6, <1>7, LockKeeps DEF LockSessions, RequestFits

\* deleteUser: the row of the account.
LEMMA DeleteAccountKeeps ==
  ASSUME IdentityInv, NEW t \in Tx, DeleteAccount(t)
  PROVE  IdentityInv'
<1>1. IdentityTypes /\ RequestFits(t)
  BY DEF IdentityInv
<1>2. "commit" \in Places /\ "account" \in Places \ {"ended"}
  BY DEF Places
<1>3. /\ UNCHANGED <<status, password, issued, transition, sessions, at, before>>
      /\ kind'[t] = kind[t] /\ input'[t] = input[t] /\ place'[t] = "commit"
      /\ locks'[t] = locks[t] \cup {"account"} /\ doomed'[t] = doomed[t]
      /\ outcome'[t] = outcome[t] /\ old'[t] = old[t]
  BY <1>2, LockShape DEF DeleteAccount
<1>4. place[t] = "account" /\ kind[t] = "delete"
  BY <1>1 DEF DeleteAccount, Lock, RequestFits, PlaceFits, IdentityTypes, Kinds
<1>5. PlaceFits(t)' /\ LocksFit(t)' /\ Knows(t)'
  BY <1>1, <1>3, <1>4
     DEF RequestFits, PlaceFits, LocksFit, Knows, Underway, HasAccount, HasToken
<1>6. Sees(t)'
  BY <1>1, <1>3, <1>4 DEF RequestFits, Sees, Collected
<1>7. QED
  BY <1>2, <1>5, <1>6, LockKeeps DEF DeleteAccount, RequestFits

\* requestPasswordReset: the rows of the unused tokens.
LEMMA InvalidateResetsKeeps ==
  ASSUME IdentityInv, NEW t \in Tx, InvalidateResets(t)
  PROVE  IdentityInv'
<1>1. IdentityTypes /\ RequestFits(t)
  BY DEF IdentityInv
<1>2. /\ "commit" \in Places /\ "resets" \in Places \ {"ended"}
      /\ Unused \in SUBSET ({"user", "account"} \cup Token \cup Login)
  BY DEF Places, Unused
<1>3. /\ UNCHANGED <<status, password, issued, transition, sessions, at, before>>
      /\ kind'[t] = kind[t] /\ input'[t] = input[t] /\ place'[t] = "commit"
      /\ locks'[t] = locks[t] \cup Unused /\ doomed'[t] = doomed[t]
      /\ outcome'[t] = outcome[t] /\ old'[t] = old[t]
  BY <1>2, LockShape DEF InvalidateResets
<1>4. place[t] = "resets" /\ kind[t] = "request"
  BY <1>1 DEF InvalidateResets, Lock, RequestFits, PlaceFits, IdentityTypes, Kinds
<1>5. PlaceFits(t)' /\ LocksFit(t)'
  BY <1>1, <1>3, <1>4
     DEF RequestFits, PlaceFits, LocksFit, Underway, HasAccount, HasToken
<1>6. Unused' = Unused
  BY <1>3 DEF Unused
<1>7. Knows(t)'
  BY <1>1, <1>3, <1>4, <1>6 DEF RequestFits, PlaceFits, Knows, Underway, HasAccount, HasToken
<1>8. Sees(t)'
  BY <1>1, <1>3, <1>4 DEF RequestFits, Sees, Collected
<1>9. QED
  BY <1>2, <1>5, <1>7, <1>8, LockKeeps DEF InvalidateResets, RequestFits

\* completePasswordReset: the row of the account.
LEMMA UpdatePasswordKeeps ==
  ASSUME IdentityInv, NEW t \in Tx, UpdatePassword(t)
  PROVE  IdentityInv'
<1>1. IdentityTypes /\ RequestFits(t)
  BY DEF IdentityInv
<1>2. "sessions" \in Places /\ "password" \in Places \ {"ended"}
  BY DEF Places
<1>3. /\ UNCHANGED <<status, password, issued, transition, sessions, at, before>>
      /\ kind'[t] = kind[t] /\ input'[t] = input[t] /\ place'[t] = "sessions"
      /\ locks'[t] = locks[t] \cup {"account"} /\ doomed'[t] = doomed[t]
      /\ outcome'[t] = outcome[t] /\ old'[t] = old[t]
  BY <1>2, LockShape DEF UpdatePassword
<1>4. place[t] = "password" /\ kind[t] = "complete"
  BY <1>1 DEF UpdatePassword, Lock, RequestFits, PlaceFits, IdentityTypes, Kinds
<1>5. PlaceFits(t)' /\ LocksFit(t)' /\ Knows(t)'
  BY <1>1, <1>3, <1>4
     DEF RequestFits, PlaceFits, LocksFit, Knows, Underway, HasAccount, HasToken
<1>6. Sees(t)'
  BY <1>1, <1>3, <1>4 DEF RequestFits, Sees, Collected
<1>7. QED
  BY <1>2, <1>5, <1>6, LockKeeps DEF UpdatePassword, RequestFits

-----------------------------------------------------------------------------
(* Ends *)

\* What no end disturbs, whatever the tables.
LEMMA EndKeeps ==
  ASSUME IdentityInv, NEW t \in Tx, NEW how \in {"committed", "refused", "failed"},
         Underway(t), End(t, how)
  PROVE  /\ \A u \in Tx : PlaceFits(u)' /\ LocksFit(u)'
         /\ Exclusive' /\ TokensDiffer'
         /\ \A l \in Login : before'[l] \subseteq {u \in Tx : outcome'[u] = "committed"}
<1>1. IdentityTypes /\ Exclusive /\ TokensDiffer /\ \A u \in Tx : RequestFits(u)
  BY DEF IdentityInv
<1>2. /\ \A u \in Tx \ {t} : Rests(u)
      /\ before' = before
      /\ kind'[t] = kind[t] /\ input'[t] = input[t] /\ place'[t] = "ended"
      /\ locks'[t] = {} /\ outcome'[t] = how
  BY <1>1, EndShape
<1>3. PlaceFits(t)'
  BY <1>1, <1>2 DEF RequestFits, PlaceFits, Underway
<1>4. LocksFit(t)'
  BY <1>2 DEF LocksFit, Underway, HasAccount, HasToken
<1>5. \A u \in Tx : PlaceFits(u)' /\ LocksFit(u)'
  BY <1>1, <1>2, <1>3, <1>4, Frames
<1>6. Exclusive' /\ TokensDiffer'
  BY <1>1, <1>2 DEF Exclusive, TokensDiffer, Rests
<1>7. outcome[t] = "none"
  BY <1>1 DEF RequestFits, PlaceFits, Underway
<1>8. ASSUME NEW l \in Login PROVE before'[l] \subseteq {u \in Tx : outcome'[u] = "committed"}
  <2>1. before[l] \subseteq {u \in Tx : outcome[u] = "committed"}
    BY DEF IdentityInv, SignInFits
  <2>2. QED
    BY <1>2, <1>7, <2>1 DEF Rests
<1>9. QED
  BY <1>5, <1>6, <1>8

\* An end that changes no table.
LEMMA GiveUpKeeps ==
  ASSUME IdentityInv, NEW t \in Tx, NEW how \in {"refused", "failed"},
         Underway(t), End(t, how), UNCHANGED database
  PROVE  IdentityInv'
<1>1. IdentityTypes /\ RequestFits(t)
  BY DEF IdentityInv
<1>2. /\ \A u \in Tx \ {t} : Rests(u)
      /\ UNCHANGED <<expired, at, before>>
      /\ kind'[t] = kind[t] /\ input'[t] = input[t] /\ place'[t] = "ended"
      /\ locks'[t] = {} /\ doomed'[t] = {} /\ outcome'[t] = how /\ old'[t] = old[t]
  BY <1>1, EndShape
<1>3. UNCHANGED <<status, password, sessions, issued, transition>>
  BY DEF database
<1>4. IdentityTypes'
  BY <1>1, <1>2, <1>3, EndShape DEF IdentityTypes, TypeOK
<1>5. RequestFits(t)'
  BY <1>1, <1>2, <1>3, EndKeeps
     DEF RequestFits, Knows, Sees, Underway, HasAccount, HasToken, Collected
<1>6. outcome[t] # "committed"
  BY <1>1 DEF RequestFits, PlaceFits, Underway
<1>7. \A u \in Tx \ {t} : locks[u] \cap locks'[t] = {}
  BY <1>2
<1>8. kind'[t] = "request" =>
          \A u \in Tx \ {t} : kind[u] = "request" => input[u] # input'[t]
  BY <1>1, <1>2 DEF TokensDiffer, IdentityInv
<1>9. QED
  BY <1>2, <1>3, <1>4, <1>5, <1>6, <1>7, <1>8, AloneKeeps

\* A connection is lost, or a deadlock ends.
LEMMA RollbackKeeps ==
  ASSUME IdentityInv, NEW t \in Tx, Rollback(t)
  PROVE  IdentityInv'
BY GiveUpKeeps DEF Rollback, Underway

\* completePasswordReset: the row of the token.
LEMMA LockTokenKeeps ==
  ASSUME IdentityInv, NEW t \in Tx, LockToken(t)
  PROVE  IdentityInv'
<1>1. IdentityTypes /\ RequestFits(t)
  BY DEF IdentityInv
<1>2. place[t] = "token" /\ kind[t] = "complete" /\ input[t] \in Token
  BY <1>1 DEF LockToken, RequestFits, PlaceFits, IdentityTypes, Kinds
<1>3. CASE issued[input[t]] = "unused" /\ permitted[t]
  <2>1. Lock(t, "token", {input[t]}, "password")
    BY <1>3 DEF LockToken
  <2>2. /\ "password" \in Places /\ "token" \in Places \ {"ended"}
        /\ {input[t]} \in SUBSET ({"user", "account"} \cup Token \cup Login)
    BY <1>2 DEF Places
  <2>3. /\ UNCHANGED <<status, password, issued, transition, sessions, at, before>>
        /\ kind'[t] = kind[t] /\ input'[t] = input[t] /\ place'[t] = "password"
        /\ locks'[t] = locks[t] \cup {input[t]} /\ doomed'[t] = doomed[t]
        /\ outcome'[t] = outcome[t] /\ old'[t] = old[t]
    BY <2>1, <2>2, LockShape
  <2>4. RequestFits(t)'
    BY <1>1, <1>2, <1>3, <2>3
       DEF RequestFits, PlaceFits, LocksFit, Knows, Sees, Underway, HasAccount, HasToken,
           Collected
  <2>5. QED
    BY <2>1, <2>2, <2>4, LockKeeps
<1>4. CASE ~(issued[input[t]] = "unused" /\ permitted[t])
  BY <1>2, <1>4, GiveUpKeeps DEF LockToken, Underway
<1>5. QED
  BY <1>3, <1>4

\* changePassword: the row of the account.
LEMMA VerifyPasswordKeeps ==
  ASSUME IdentityInv, NEW t \in Tx, VerifyPassword(t)
  PROVE  IdentityInv'
<1>1. IdentityTypes /\ RequestFits(t)
  BY DEF IdentityInv
<1>2. place[t] = "credential" /\ kind[t] = "change"
  BY <1>1 DEF VerifyPassword, RequestFits, PlaceFits, IdentityTypes, Kinds
<1>3. CASE permitted[t] /\ password # NoPassword /\ password = input[t]
  <2>1. Lock(t, "credential", {"account"}, "sessions")
    BY <1>3 DEF VerifyPassword
  <2>2. "sessions" \in Places /\ "credential" \in Places \ {"ended"}
    BY DEF Places
  <2>3. /\ UNCHANGED <<status, password, issued, transition, sessions, at, before>>
        /\ kind'[t] = kind[t] /\ input'[t] = input[t] /\ place'[t] = "sessions"
        /\ locks'[t] = locks[t] \cup {"account"} /\ doomed'[t] = doomed[t]
        /\ outcome'[t] = outcome[t] /\ old'[t] = old[t]
    BY <2>1, <2>2, LockShape
  <2>4. RequestFits(t)'
    BY <1>1, <1>2, <1>3, <2>3
       DEF RequestFits, PlaceFits, LocksFit, Knows, Sees, Underway, HasAccount, HasToken,
           Collected
  <2>5. QED
    BY <2>1, <2>2, <2>4, LockKeeps
<1>4. CASE ~(permitted[t] /\ password # NoPassword /\ password = input[t])
  BY <1>2, <1>4, GiveUpKeeps DEF VerifyPassword, Underway
<1>5. QED
  BY <1>3, <1>4

\* A commit keeps the invariant when what it writes is what the other requests
\* know, for it only removes sessions and is in no sign-in's past.
LEMMA CommitKeeps ==
  ASSUME IdentityInv, NEW t \in Tx, place[t] = "commit", End(t, "committed"),
         status' \in Reversible \cup {"deleted"}, password' \in Passwords,
         issued' \in [Token -> {"none", "unused", "used"}],
         transition' \in Tx \cup {NoTx},
         sessions' = IF kind[t] = "request" THEN sessions ELSE sessions \ doomed[t],
         (status' = status /\ transition' = transition) \/ transition' = t,
         \A u \in Tx : Knows(u)',
         OneUnused', DeletedIsBare'
  PROVE  IdentityInv'
<1>1. IdentityTypes /\ \A u \in Tx : RequestFits(u)
  BY DEF IdentityInv
<1>2. Underway(t) /\ outcome[t] = "none"
  BY <1>1 DEF Underway, RequestFits, PlaceFits
<1>3. /\ \A u \in Tx \ {t} : Rests(u)
      /\ UNCHANGED <<expired, at, before>>
      /\ kind'[t] = kind[t] /\ input'[t] = input[t] /\ place'[t] = "ended"
      /\ locks'[t] = {} /\ doomed'[t] = {} /\ outcome'[t] = "committed" /\ old'[t] = old[t]
  BY <1>1, EndShape
<1>4. sessions' \subseteq sessions
  OBVIOUS
<1>5. IdentityTypes'
  BY <1>1, <1>3, <1>4, EndShape DEF IdentityTypes, TypeOK
<1>6. /\ \A u \in Tx : PlaceFits(u)' /\ LocksFit(u)'
      /\ Exclusive' /\ TokensDiffer'
      /\ \A l \in Login : before'[l] \subseteq {u \in Tx : outcome'[u] = "committed"}
  BY <1>2, EndKeeps
<1>7. Sees(t)'
  BY <1>1, <1>3 DEF RequestFits, Sees, Collected
<1>8. ASSUME NEW u \in Tx \ {t} PROVE Sees(u)'
  <2>1. Sees(u) /\ Rests(u)
    BY <1>1, <1>3 DEF RequestFits
  <2>2. QED
    BY <1>3, <1>4, <2>1 DEF Sees, Rests, Collected
<1>9. \A u \in Tx : RequestFits(u)'
  BY <1>6, <1>7, <1>8 DEF RequestFits
<1>10. ASSUME NEW l \in Login PROVE SignInFits(l)'
  <2>1. SignInFits(l)
    BY DEF IdentityInv
  <2>2. t \notin before[l]
    BY <1>2, <2>1 DEF SignInFits
  <2>3. QED
    BY <1>3, <1>4, <1>6, <2>1, <2>2 DEF SignInFits
<1>11. TokenIsUsedOnce'
  <2>1. kind[t] = "complete" => issued[input[t]] = "unused"
    BY <1>1 DEF RequestFits, Knows, HasToken
  <2>2. \A u \in Tx : kind[u] = "complete" /\ outcome[u] = "committed" =>
                        issued[input[u]] = "used"
    BY <1>1 DEF RequestFits, Knows
  <2>3. QED
    BY <1>3, <2>1, <2>2 DEF IdentityInv, TokenIsUsedOnce, Rests
<1>12. QED
  BY <1>5, <1>6, <1>9, <1>10, <1>11 DEF IdentityInv

\* No other request has a row that t has.
LEMMA Apart ==
  ASSUME IdentityInv, NEW t \in Tx, NEW u \in Tx \ {t}, NEW row, row \in locks[t]
  PROVE  row \notin locks[u]
BY DEF IdentityInv, Exclusive

\* The one that ends knows what it knew, if it knew it of tables that stay.
LEMMA EndKnows ==
  ASSUME IdentityInv, NEW t \in Tx, place[t] = "commit", End(t, "committed"),
         kind[t] = "complete" => issued'[input[t]] = "used"
  PROVE  Knows(t)'
<1>1. IdentityTypes
  BY DEF IdentityInv
<1>2. /\ kind'[t] = kind[t] /\ input'[t] = input[t] /\ place'[t] = "ended"
      /\ outcome'[t] = "committed"
  BY <1>1, EndShape
<1>3. QED
  BY <1>2 DEF Knows, Underway, HasAccount, HasToken

\* setUserStatus ends.
LEMMA CommitStatusKeeps ==
  ASSUME IdentityInv, NEW t \in Tx, CommitStatus(t)
  PROVE  IdentityInv'
<1>1. IdentityTypes /\ \A u \in Tx : RequestFits(u)
  BY DEF IdentityInv
<1>2. /\ place[t] = "commit" /\ kind[t] = "status" /\ input[t] \in Reversible
      /\ End(t, "committed")
      /\ status' = input[t] /\ transition' = t
      /\ sessions' = sessions \ doomed[t]
      /\ UNCHANGED <<password, issued>>
  BY <1>1 DEF CommitStatus, Committing, RequestFits, PlaceFits
<1>3. Unused' = Unused
  BY <1>2 DEF Unused
<1>4. ASSUME NEW u \in Tx \ {t} PROVE Knows(u)'
  <2>1. Knows(u) /\ Rests(u)
    BY <1>1, <1>2, EndShape DEF RequestFits
  <2>2. QED
    BY <1>2, <1>3, <2>1 DEF Knows, Rests, Reversible, Underway, HasAccount, HasToken
<1>5. \A u \in Tx : Knows(u)'
  BY <1>2, <1>4, EndKnows
<1>6. OneUnused' /\ DeletedIsBare'
  BY <1>2, <1>3 DEF IdentityInv, OneUnused, DeletedIsBare, Reversible
<1>7. /\ status' \in Reversible \cup {"deleted"} /\ password' \in Passwords
      /\ issued' \in [Token -> {"none", "unused", "used"}]
      /\ transition' \in Tx \cup {NoTx}
  BY <1>1, <1>2 DEF IdentityTypes, TypeOK
<1>8. QED
  BY <1>2, <1>5, <1>6, <1>7, CommitKeeps

\* deleteUser ends: no other transition and no other holder of the account is
\* under way.
LEMMA CommitDeleteKeeps ==
  ASSUME IdentityInv, NEW t \in Tx, CommitDelete(t)
  PROVE  IdentityInv'
<1>1. IdentityTypes /\ \A u \in Tx : RequestFits(u)
  BY DEF IdentityInv
<1>2. /\ place[t] = "commit" /\ kind[t] = "delete"
      /\ End(t, "committed")
      /\ status' = "deleted" /\ transition' = t /\ password' = NoPassword
      /\ sessions' = sessions \ doomed[t]
      /\ UNCHANGED issued
  BY DEF CommitDelete, Committing
<1>3. "user" \in locks[t] /\ "account" \in locks[t]
  BY <1>1, <1>2 DEF RequestFits, LocksFit, Underway, HasAccount
<1>4. Unused' = Unused
  BY <1>2 DEF Unused
<1>5. ASSUME NEW u \in Tx \ {t} PROVE Knows(u)'
  <2>1. Knows(u) /\ LocksFit(u) /\ Rests(u)
    BY <1>1, <1>2, EndShape DEF RequestFits
  <2>2. "user" \notin locks[u] /\ "account" \notin locks[u]
    BY <1>3, Apart
  <2>3. ~(kind[u] \in {"status", "delete"} /\ Underway(u)) /\ ~HasAccount(u)
    BY <2>1, <2>2 DEF LocksFit
  <2>4. QED
    BY <1>2, <1>4, <2>1, <2>3 DEF Knows, Rests, Underway, HasAccount, HasToken
<1>6. \A u \in Tx : Knows(u)'
  BY <1>2, <1>5, EndKnows
<1>7. OneUnused' /\ DeletedIsBare'
  BY <1>2, <1>4 DEF IdentityInv, OneUnused, DeletedIsBare
<1>8. /\ status' \in Reversible \cup {"deleted"} /\ password' \in Passwords
      /\ issued' \in [Token -> {"none", "unused", "used"}]
      /\ transition' \in Tx \cup {NoTx}
  BY <1>1, <1>2 DEF IdentityTypes, TypeOK, Passwords
<1>9. QED
  BY <1>2, <1>6, <1>7, <1>8, CommitKeeps

\* revokeUserSessions ends.
LEMMA CommitRevokeKeeps ==
  ASSUME IdentityInv, NEW t \in Tx, CommitRevoke(t)
  PROVE  IdentityInv'
<1>1. IdentityTypes /\ \A u \in Tx : RequestFits(u)
  BY DEF IdentityInv
<1>2. /\ place[t] = "commit" /\ kind[t] = "revoke"
      /\ End(t, "committed")
      /\ sessions' = sessions \ doomed[t]
      /\ UNCHANGED <<status, password, issued, transition>>
  BY DEF CommitRevoke, Committing
<1>3. \A u \in Tx \ {t} : Knows(u)'
  BY <1>1, <1>2, EndShape, Frames
<1>4. \A u \in Tx : Knows(u)'
  BY <1>2, <1>3, EndKnows
<1>5. OneUnused' /\ DeletedIsBare'
  BY <1>2 DEF IdentityInv, OneUnused, DeletedIsBare, Unused
<1>6. /\ status' \in Reversible \cup {"deleted"} /\ password' \in Passwords
      /\ issued' \in [Token -> {"none", "unused", "used"}]
      /\ transition' \in Tx \cup {NoTx}
  BY <1>1, <1>2 DEF IdentityTypes, TypeOK
<1>7. QED
  BY <1>2, <1>4, <1>5, <1>6, CommitKeeps

\* requestPasswordReset ends: every other live token was locked, so none is
\* being used, and no other request is about to issue one.
LEMMA CommitRequestKeeps ==
  ASSUME IdentityInv, NEW t \in Tx, CommitRequest(t)
  PROVE  IdentityInv'
<1>1. IdentityTypes /\ TokensDiffer /\ \A u \in Tx : RequestFits(u)
  BY DEF IdentityInv
<1>2. /\ place[t] = "commit" /\ kind[t] = "request"
      /\ End(t, "committed")
      /\ issued' = [k \in Token |-> IF k = input[t] THEN "unused"
                                    ELSE IF k \in Unused THEN "used" ELSE issued[k]]
      /\ UNCHANGED <<status, password, sessions, transition>>
  BY DEF CommitRequest, Committing
<1>3. /\ Unused \subseteq locks[t] /\ "user" \in locks[t]
      /\ input[t] \in Token /\ issued[input[t]] = "none"
  BY <1>1, <1>2 DEF RequestFits, PlaceFits, LocksFit, Knows, Underway
<1>4. issued \in [Token -> {"none", "unused", "used"}]
  BY <1>1 DEF IdentityTypes, TypeOK
<1>5. Unused' = {input[t]}
  BY <1>2, <1>3, <1>4 DEF Unused
<1>6. ASSUME NEW u \in Tx \ {t} PROVE Knows(u)'
  <2>1. Knows(u) /\ LocksFit(u) /\ PlaceFits(u) /\ Rests(u)
    BY <1>1, <1>2, EndShape DEF RequestFits
  <2>2. "user" \notin locks[u] /\ \A k \in Unused : k \notin locks[u]
    BY <1>3, Apart
  <2>3. ~(kind[u] = "request" /\ Underway(u))
    BY <2>1, <2>2 DEF LocksFit
  <2>4. ~HasToken(u)
    <3>1. SUFFICES ASSUME HasToken(u) PROVE FALSE
      OBVIOUS
    <3>2. input[u] \in Token /\ input[u] \in locks[u] /\ issued[input[u]] = "unused"
      BY <2>1, <3>1 DEF HasToken, LocksFit, Knows, PlaceFits
    <3>3. QED
      BY <2>2, <3>2 DEF Unused
  <2>5. kind[u] = "complete" /\ outcome[u] = "committed" => issued'[input[u]] = "used"
    <3>1. SUFFICES ASSUME kind[u] = "complete", outcome[u] = "committed"
                   PROVE  issued'[input[u]] = "used"
      OBVIOUS
    <3>2. input[u] \in Token /\ issued[input[u]] = "used"
      BY <2>1, <3>1 DEF Knows, PlaceFits
    <3>3. QED
      BY <1>2, <1>3, <3>2 DEF Unused
  <2>6. kind[u] = "request" /\ place[u] = "commit" => Underway(u)
    BY DEF Underway
  <2>7. QED
    BY <1>2, <2>1, <2>3, <2>4, <2>5, <2>6 DEF Knows, Rests, Underway, HasAccount, HasToken
<1>7. \A u \in Tx : Knows(u)'
  BY <1>2, <1>6, EndKnows
<1>8. OneUnused' /\ DeletedIsBare'
  BY <1>2, <1>5 DEF IdentityInv, OneUnused, DeletedIsBare
<1>9. /\ status' \in Reversible \cup {"deleted"} /\ password' \in Passwords
      /\ issued' \in [Token -> {"none", "unused", "used"}]
      /\ transition' \in Tx \cup {NoTx}
  BY <1>1, <1>2, <1>4 DEF IdentityTypes, TypeOK
<1>10. QED
  BY <1>2, <1>7, <1>8, <1>9, CommitKeeps

\* completePasswordReset ends: nobody else has its token or the account.
LEMMA CommitResetKeeps ==
  ASSUME IdentityInv, NEW t \in Tx, CommitReset(t)
  PROVE  IdentityInv'
<1>1. IdentityTypes /\ \A u \in Tx : RequestFits(u)
  BY DEF IdentityInv
<1>2. /\ place[t] = "commit" /\ kind[t] = "complete"
      /\ End(t, "committed")
      /\ password' = IF password = NoPassword THEN NoPassword ELSE t
      /\ sessions' = sessions \ doomed[t]
      /\ issued' = [issued EXCEPT ![input[t]] = "used"]
      /\ UNCHANGED <<status, transition>>
  BY DEF CommitReset, Committing
<1>3. /\ "account" \in locks[t] /\ input[t] \in locks[t]
      /\ input[t] \in Token /\ issued[input[t]] = "unused"
  BY <1>1, <1>2 DEF RequestFits, PlaceFits, LocksFit, Knows, HasAccount, HasToken
<1>4. issued \in [Token -> {"none", "unused", "used"}]
  BY <1>1 DEF IdentityTypes, TypeOK
<1>5. Unused' \subseteq Unused
  BY <1>2, <1>3, <1>4 DEF Unused
<1>6. ASSUME NEW u \in Tx \ {t} PROVE Knows(u)'
  <2>1. Knows(u) /\ LocksFit(u) /\ PlaceFits(u) /\ Rests(u)
    BY <1>1, <1>2, EndShape DEF RequestFits
  <2>2. "account" \notin locks[u] /\ input[t] \notin locks[u]
    BY <1>3, Apart
  <2>3. ~HasAccount(u)
    BY <2>1, <2>2 DEF LocksFit
  <2>4. HasToken(u) => input[u] \in Token /\ input[u] # input[t]
    BY <2>1, <2>2 DEF LocksFit, PlaceFits, HasToken
  <2>5. kind[u] = "request" /\ Underway(u) => input[u] \in Token /\ input[u] # input[t]
    BY <1>3, <2>1 DEF Knows, PlaceFits
  <2>6. kind[u] = "complete" => input[u] \in Token
    BY <2>1 DEF PlaceFits
  <2>7. \A k \in Token : issued'[k] = IF k = input[t] THEN "used" ELSE issued[k]
    BY <1>2, <1>3, <1>4
  <2>8. QED
    BY <1>2, <1>5, <2>1, <2>3, <2>4, <2>5, <2>6, <2>7
       DEF Knows, Rests, Underway, HasAccount, HasToken
<1>7. \A u \in Tx : Knows(u)'
  BY <1>2, <1>3, <1>4, <1>6, EndKnows
<1>8. OneUnused' /\ DeletedIsBare'
  BY <1>2, <1>5 DEF IdentityInv, OneUnused, DeletedIsBare
<1>9. /\ status' \in Reversible \cup {"deleted"} /\ password' \in Passwords
      /\ issued' \in [Token -> {"none", "unused", "used"}]
      /\ transition' \in Tx \cup {NoTx}
  BY <1>1, <1>2, <1>4 DEF IdentityTypes, TypeOK, Passwords
<1>10. QED
  BY <1>2, <1>7, <1>8, <1>9, CommitKeeps

\* changePassword ends: nobody else has the account, and it is still there.
LEMMA CommitChangeKeeps ==
  ASSUME IdentityInv, NEW t \in Tx, CommitChange(t)
  PROVE  IdentityInv' /\ password = input[t] /\ status # "deleted"
<1>1. IdentityTypes /\ DeletedIsBare /\ \A u \in Tx : RequestFits(u)
  BY DEF IdentityInv
<1>2. /\ place[t] = "commit" /\ kind[t] = "change"
      /\ End(t, "committed")
      /\ password' = t
      /\ sessions' = sessions \ doomed[t]
      /\ UNCHANGED <<status, issued, transition>>
  BY DEF CommitChange, Committing
<1>3. /\ "account" \in locks[t]
      /\ password = input[t] /\ input[t] \in Tx \cup {Initial}
  BY <1>1, <1>2 DEF RequestFits, PlaceFits, LocksFit, Knows, HasAccount
<1>4. status # "deleted"
  BY <1>1, <1>3, PasswordAssumption DEF DeletedIsBare
<1>5. Unused' = Unused
  BY <1>2 DEF Unused
<1>6. ASSUME NEW u \in Tx \ {t} PROVE Knows(u)'
  <2>1. Knows(u) /\ LocksFit(u) /\ Rests(u)
    BY <1>1, <1>2, EndShape DEF RequestFits
  <2>2. ~HasAccount(u)
    BY <1>3, <2>1, Apart DEF LocksFit
  <2>3. QED
    BY <1>2, <1>5, <2>1, <2>2 DEF Knows, Rests, Underway, HasAccount, HasToken
<1>7. \A u \in Tx : Knows(u)'
  BY <1>2, <1>6, EndKnows
<1>8. OneUnused' /\ DeletedIsBare'
  BY <1>2, <1>4, <1>5 DEF IdentityInv, OneUnused, DeletedIsBare
<1>9. /\ status' \in Reversible \cup {"deleted"} /\ password' \in Passwords
      /\ issued' \in [Token -> {"none", "unused", "used"}]
      /\ transition' \in Tx \cup {NoTx}
  BY <1>1, <1>2 DEF IdentityTypes, TypeOK, Passwords
<1>10. QED
  BY <1>2, <1>3, <1>4, <1>7, <1>8, <1>9, CommitKeeps

-----------------------------------------------------------------------------
(* Sign-ins *)

\* A sign-in touches no request.
LEMMA SignInFrame ==
  ASSUME IdentityInv, UNCHANGED requests, UNCHANGED <<status, password, issued, transition>>,
         \A l \in Login : at[l] = "ended" => at'[l] = "ended",
         \A u \in Tx : Sees(u)'
  PROVE  /\ \A u \in Tx : RequestFits(u)'
         /\ Exclusive' /\ TokensDiffer' /\ OneUnused' /\ TokenIsUsedOnce' /\ DeletedIsBare'
<1>1. \A u \in Tx : RequestFits(u) /\ Rests(u)
  BY DEF IdentityInv, requests, Rests
<1>2. \A u \in Tx : RequestFits(u)'
  BY <1>1, Frames DEF RequestFits
<1>3. Exclusive' /\ TokensDiffer' /\ OneUnused' /\ TokenIsUsedOnce' /\ DeletedIsBare'
  BY DEF IdentityInv, Exclusive, TokensDiffer, OneUnused, TokenIsUsedOnce, DeletedIsBare,
         Unused, requests
<1>4. QED
  BY <1>2, <1>3

\* A sign-in that only moves on sees what was seen.
LEMMA SeesOn ==
  ASSUME IdentityInv, UNCHANGED requests, UNCHANGED sessions, NEW u \in Tx,
         \A l \in Login : at[l] = "ended" => at'[l] = "ended"
  PROVE  Sees(u)'
<1>1. Sees(u) /\ old[u] \subseteq Login
  BY DEF IdentityInv, RequestFits, IdentityTypes, TypeOK
<1>2. QED
  BY <1>1 DEF Sees, Collected, requests

\* The password is verified: no session is of this sign-in yet.
LEMMA CheckPasswordKeeps ==
  ASSUME IdentityInv, NEW l \in Login, CheckPassword(l)
  PROVE  IdentityInv'
<1>1. IdentityTypes /\ \A m \in Login : SignInFits(m)
  BY DEF IdentityInv
<1>2. /\ at[l] = "idle" /\ at' = [at EXCEPT ![l] = "checked"]
      /\ before' = [before EXCEPT ![l] = {t \in Tx : outcome[t] = "committed"}]
      /\ UNCHANGED <<status, password, sessions, issued, transition, expired, requests>>
  BY DEF CheckPassword, database
<1>3. IdentityTypes'
  BY <1>1, <1>2 DEF IdentityTypes, TypeOK, requests
<1>4. \A m \in Login : at[m] = "ended" => at'[m] = "ended"
  BY <1>1, <1>2 DEF IdentityTypes, TypeOK
<1>5. ASSUME NEW m \in Login PROVE SignInFits(m)'
  <2>1. SignInFits(m)
    BY <1>1
  <2>2. outcome' = outcome
    BY <1>2 DEF requests
  <2>3. CASE m = l
    BY <1>1, <1>2, <2>1, <2>2, <2>3 DEF SignInFits, IdentityTypes, TypeOK
  <2>4. CASE m # l
    BY <1>1, <1>2, <2>1, <2>2, <2>4 DEF SignInFits, IdentityTypes, TypeOK
  <2>5. QED
    BY <2>3, <2>4
<1>6. QED
  BY <1>2, <1>3, <1>4, <1>5, SeesOn, SignInFrame DEF IdentityInv

\* The hook lets only an active identity through.
LEMMA BeforeSessionKeeps ==
  ASSUME IdentityInv, NEW l \in Login, BeforeSession(l)
  PROVE  IdentityInv'
<1>1. IdentityTypes /\ \A m \in Login : SignInFits(m)
  BY DEF IdentityInv
<1>2. /\ at[l] = "checked"
      /\ at' = [at EXCEPT ![l] = IF status = "active" THEN "allowed" ELSE "ended"]
      /\ UNCHANGED <<status, password, sessions, issued, transition, expired, before, requests>>
  BY DEF BeforeSession, database
<1>3. IdentityTypes'
  BY <1>1, <1>2 DEF IdentityTypes, TypeOK, requests
<1>4. \A m \in Login : at[m] = "ended" => at'[m] = "ended"
  BY <1>1, <1>2 DEF IdentityTypes, TypeOK
<1>5. ASSUME NEW m \in Login PROVE SignInFits(m)'
  <2>1. SignInFits(m)
    BY <1>1
  <2>2. outcome' = outcome
    BY <1>2 DEF requests
  <2>3. CASE m = l
    BY <1>1, <1>2, <2>1, <2>2, <2>3 DEF SignInFits, IdentityTypes, TypeOK
  <2>4. CASE m # l
    BY <1>1, <1>2, <2>1, <2>2, <2>4 DEF SignInFits, IdentityTypes, TypeOK
  <2>5. QED
    BY <2>3, <2>4
<1>6. QED
  BY <1>2, <1>3, <1>4, <1>5, SeesOn, SignInFrame DEF IdentityInv

\* The session is inserted while no request holds the user, so none that has
\* collected the sessions of a transition misses it; it is in no request's past.
LEMMA InsertSessionKeeps ==
  ASSUME IdentityInv, NEW l \in Login, InsertSession(l)
  PROVE  IdentityInv'
<1>1. IdentityTypes /\ (\A m \in Login : SignInFits(m)) /\ \A u \in Tx : RequestFits(u)
  BY DEF IdentityInv
<1>2. /\ at[l] = "allowed" /\ at' = [at EXCEPT ![l] = "ended"]
      /\ \A t \in Tx : "user" \notin locks[t]
      /\ sessions' = sessions \cup {l}
      /\ UNCHANGED <<status, password, issued, transition, before, expired, requests>>
  BY DEF InsertSession
<1>3. IdentityTypes'
  BY <1>1, <1>2 DEF IdentityTypes, TypeOK, requests
<1>4. \A m \in Login : at[m] = "ended" => at'[m] = "ended"
  BY <1>1, <1>2 DEF IdentityTypes, TypeOK
<1>5. ASSUME NEW u \in Tx PROVE Sees(u)'
  <2>1. Sees(u) /\ LocksFit(u) /\ old[u] \subseteq Login
    BY <1>1 DEF RequestFits, IdentityTypes, TypeOK
  <2>2. l \notin old[u]
    BY <1>2, <2>1 DEF Sees
  <2>3. old[u] \cap sessions' = old[u] \cap sessions
    BY <1>2, <2>2
  <2>4. ~(Collected(u) /\ kind[u] \in {"status", "delete"})
    BY <1>2, <2>1 DEF LocksFit, Collected, Underway
  <2>5. QED
    BY <1>2, <1>4, <2>1, <2>3, <2>4 DEF Sees, Collected, requests
<1>6. ASSUME NEW m \in Login PROVE SignInFits(m)'
  <2>1. SignInFits(m) /\ SignInFits(l)
    BY <1>1
  <2>2. outcome' = outcome
    BY <1>2 DEF requests
  <2>3. CASE m = l
    BY <1>1, <1>2, <2>1, <2>2, <2>3 DEF SignInFits, IdentityTypes, TypeOK
  <2>4. CASE m # l
    BY <1>1, <1>2, <2>1, <2>2, <2>4 DEF SignInFits, IdentityTypes, TypeOK
  <2>5. QED
    BY <2>3, <2>4
<1>7. QED
  BY <1>2, <1>3, <1>4, <1>5, <1>6, SignInFrame DEF IdentityInv

-----------------------------------------------------------------------------
(* The invariant and what follows from it *)

\* The first state fits.
LEMMA IdentityInitially == Init => IdentityInv
<1>1. SUFFICES ASSUME Init PROVE IdentityInv
  OBVIOUS
<1>2. IdentityTypes
  BY <1>1 DEF Init, IdentityTypes, TypeOK, Reversible, Passwords, Places, Kinds, Inputs
<1>3. Unused = {}
  BY <1>1 DEF Init, Unused
<1>4. \A t \in Tx : PlaceFits(t) /\ LocksFit(t)
  BY <1>1 DEF Init, PlaceFits, LocksFit, Underway, HasAccount, HasToken
<1>5. \A t \in Tx : Knows(t) /\ Sees(t)
  BY <1>1 DEF Init, Knows, Sees, Collected, Underway, HasAccount, HasToken
<1>6. Exclusive /\ TokensDiffer /\ OneUnused /\ TokenIsUsedOnce /\ DeletedIsBare
  BY <1>1, <1>3 DEF Init, Exclusive, TokensDiffer, OneUnused, TokenIsUsedOnce, DeletedIsBare
<1>7. \A l \in Login : SignInFits(l)
  BY <1>1 DEF Init, SignInFits
<1>8. QED
  BY <1>2, <1>4, <1>5, <1>6, <1>7 DEF IdentityInv, RequestFits

\* The clock only expires tokens.
LEMMA ExpireKeeps ==
  ASSUME IdentityInv, NEW k \in Token, Expire(k)
  PROVE  IdentityInv'
<1>1. UNCHANGED <<status, password, sessions, issued, transition, at, before, requests>>
  BY DEF Expire, database, signIns
<1>2. IdentityTypes'
  BY <1>1 DEF Expire, IdentityInv, IdentityTypes, TypeOK, requests
<1>3. \A l \in Login : SignInFits(l)'
  BY <1>1 DEF IdentityInv, SignInFits, requests
<1>4. QED
  BY <1>1, <1>2, <1>3, SeesOn, SignInFrame DEF IdentityInv

\* Every step keeps the invariant.
LEMMA IdentityNextKeeps == IdentityInv /\ [Next]_vars => IdentityInv'
<1>1. SUFFICES ASSUME IdentityInv, [Next]_vars PROVE IdentityInv'
  OBVIOUS
<1>2. ASSUME NEW l \in Login, SignIn(l) PROVE IdentityInv'
  BY <1>1, <1>2, CheckPasswordKeeps, BeforeSessionKeeps, InsertSessionKeeps DEF SignIn
<1>3. ASSUME NEW t \in Tx, Start(t) PROVE IdentityInv'
  BY <1>1, <1>3, SetUserStatusKeeps, DeleteUserKeeps, RevokeUserSessionsKeeps,
     RequestPasswordResetKeeps, CompletePasswordResetKeeps, ChangePasswordKeeps DEF Start
<1>4. ASSUME NEW t \in Tx, Commit(t) PROVE IdentityInv'
  BY <1>1, <1>4, CommitStatusKeeps, CommitDeleteKeeps, CommitRevokeKeeps,
     CommitRequestKeeps, CommitResetKeeps, CommitChangeKeeps DEF Commit
<1>5. ASSUME NEW t \in Tx, Continue(t) PROVE IdentityInv'
  BY <1>1, <1>4, <1>5, SeeSessionsKeeps, LockSessionsKeeps, DeleteAccountKeeps,
     InvalidateResetsKeeps, LockTokenKeeps, UpdatePasswordKeeps, VerifyPasswordKeeps
     DEF Continue
<1>6. ASSUME NEW t \in Tx, Rollback(t) PROVE IdentityInv'
  BY <1>1, <1>6, RollbackKeeps
<1>7. ASSUME NEW k \in Token, Expire(k) PROVE IdentityInv'
  BY <1>1, <1>7, ExpireKeeps
<1>8. CASE UNCHANGED vars
  <2>1. UNCHANGED <<status, password, sessions, issued, transition, at, before, expired, requests>>
    BY <1>8 DEF vars, database, signIns
  <2>2. IdentityTypes'
    BY <1>1, <2>1 DEF IdentityInv, IdentityTypes, TypeOK, requests
  <2>3. \A l \in Login : SignInFits(l)'
    BY <1>1, <2>1 DEF IdentityInv, SignInFits, requests
  <2>4. QED
    BY <1>1, <2>1, <2>2, <2>3, SeesOn, SignInFrame DEF IdentityInv
<1>9. QED
  BY <1>1, <1>2, <1>3, <1>5, <1>6, <1>7, <1>8 DEF Next

\* The locks, and what they protect, hold together in every reachable state.
THEOREM IdentityInvariant == Spec => []IdentityInv
BY IdentityInitially, IdentityNextKeeps, PTL DEF Spec

\* The tables and the requests keep their types.
THEOREM TypeCorrect == Spec => []TypeOK
<1>1. IdentityInv => TypeOK
  BY DEF IdentityInv, IdentityTypes
<1>2. QED
  BY <1>1, IdentityInvariant, PTL

\* A sign-in that begins after a transition to an inactive status has no session
\* while that status stays: the hook of session.create.before, however late.
THEOREM SuspensionHolds == Spec => []NoSessionOpenedAfterSuspension
<1>1. IdentityInv => NoSessionOpenedAfterSuspension
  BY DEF IdentityInv, IdentityTypes, TypeOK, SignInFits, NoSessionOpenedAfterSuspension
<1>2. QED
  BY <1>1, IdentityInvariant, PTL

\* The sessions a revocation, a change, a reset or a transition found are gone
\* once it is committed.
THEOREM RevocationIsComplete == Spec => []EarlierSessionsAreRevoked
<1>1. IdentityInv => EarlierSessionsAreRevoked
  BY DEF IdentityInv, RequestFits, Sees, EarlierSessionsAreRevoked
<1>2. QED
  BY <1>1, IdentityInvariant, PTL

\* One live reset token at most, and none that works twice.
THEOREM TokensAreSpent == Spec => []ResetTokensAreSpent
<1>1. ASSUME IdentityInv PROVE OneLiveToken
  <2>1. CASE Unused = {}
    BY <2>1, FS_EmptySet DEF OneLiveToken
  <2>2. CASE Unused # {}
    <3>1. PICK k \in Unused : TRUE
      BY <2>2
    <3>2. Unused = {k}
      BY <1>1, <3>1 DEF IdentityInv, OneUnused
    <3>3. Cardinality({k}) = 1
      BY FS_Singleton
    <3>4. QED
      BY <3>2, <3>3 DEF OneLiveToken
  <2>3. QED
    BY <2>1, <2>2
<1>2. IdentityInv => ResetTokensAreSpent
  BY <1>1 DEF IdentityInv, ResetTokensAreSpent
<1>3. QED
  BY <1>2, IdentityInvariant, PTL

\* The status and the password are written by no other steps.
LEMMA Writers ==
  ASSUME [Next]_vars
  PROVE  /\ status' # status => \E t \in Tx : CommitStatus(t) \/ CommitDelete(t)
         /\ password' # password =>
                \E t \in Tx : CommitDelete(t) \/ CommitReset(t) \/ CommitChange(t)
<1>1. CASE UNCHANGED vars
  BY <1>1 DEF vars, database
<1>2. ASSUME NEW l \in Login, SignIn(l) PROVE UNCHANGED <<status, password>>
  BY <1>2 DEF SignIn, CheckPassword, BeforeSession, InsertSession, database
<1>3. ASSUME NEW k \in Token, Expire(k) PROVE UNCHANGED <<status, password>>
  BY <1>3 DEF Expire, database
<1>4. ASSUME NEW t \in Tx, Rollback(t) PROVE UNCHANGED <<status, password>>
  BY <1>4 DEF Rollback, database
<1>5. ASSUME NEW t \in Tx, Start(t) PROVE UNCHANGED <<status, password>>
  BY <1>5 DEF Start, SetUserStatus, DeleteUser, RevokeUserSessions, RequestPasswordReset,
              CompletePasswordReset, ChangePassword, Begin, Refuse, database
<1>6. ASSUME NEW t \in Tx, Continue(t), ~Commit(t) PROVE UNCHANGED <<status, password>>
  BY <1>6 DEF Continue, SeeSessions, LockSessions, DeleteAccount, InvalidateResets, LockToken,
              UpdatePassword, VerifyPassword, Lock, database
<1>7. ASSUME NEW t \in Tx, Commit(t)
      PROVE  \/ UNCHANGED <<status, password>>
             \/ CommitStatus(t) /\ password' = password
             \/ CommitDelete(t)
             \/ CommitReset(t) /\ status' = status
             \/ CommitChange(t) /\ status' = status
  BY <1>7 DEF Commit, CommitStatus, CommitRevoke, CommitRequest, CommitReset, CommitChange
<1>8. QED
  BY <1>1, <1>2, <1>3, <1>4, <1>5, <1>6, <1>7 DEF Next

\* A change of password ends with the password it verified still in place:
\* changePassword holds the account from the verification to the commit.
THEOREM PasswordsAreKept == Spec => NoPasswordIsLost
<1>1. IdentityInv /\ [Next]_vars => [\A t \in Tx : CommitChange(t) => password = input[t]]_vars
  BY CommitChangeKeeps
<1>2. QED
  BY <1>1, IdentityInvariant, PTL DEF NoPasswordIsLost, Spec

\* setUserStatus and deleteUser hold the user, so the sessions they collect are
\* all there are; a deleted identity is neither revived nor given a password.
THEOREM TransitionsComplete == Spec => TransitionsAreComplete
<1>1. ASSUME IdentityInv, [Next]_vars, status' # status PROVE sessions' = {}
  <2>1. PICK t \in Tx : CommitStatus(t) \/ CommitDelete(t)
    BY <1>1, Writers
  <2>2. /\ place[t] = "commit" /\ kind[t] \in {"status", "delete"}
        /\ sessions' = sessions \ doomed[t]
    BY <2>1 DEF CommitStatus, CommitDelete, Committing
  <2>3. sessions \subseteq doomed[t]
    BY <1>1, <2>2 DEF IdentityInv, RequestFits, Sees, Collected
  <2>4. QED
    BY <2>2, <2>3
<1>2. ASSUME IdentityInv, [Next]_vars, status = "deleted"
      PROVE  status' = "deleted" /\ password' = NoPassword
  <2>1. password = NoPassword
    BY <1>2 DEF IdentityInv, DeletedIsBare
  <2>2. ASSUME NEW t \in Tx PROVE ~CommitStatus(t) /\ ~CommitDelete(t)
    BY <1>2 DEF IdentityInv, RequestFits, Knows, Underway, CommitStatus, CommitDelete, Committing
  <2>3. ASSUME NEW t \in Tx, CommitReset(t) PROVE password' = NoPassword
    BY <2>1, <2>3 DEF CommitReset
  <2>4. ASSUME NEW t \in Tx PROVE ~CommitChange(t)
    BY <1>2, CommitChangeKeeps
  <2>5. QED
    BY <1>2, <2>1, <2>2, <2>3, <2>4, Writers
<1>3. IdentityInv /\ [Next]_vars =>
          /\ [status' # status => sessions' = {}]_vars
          /\ [status = "deleted" => status' = "deleted" /\ password' = NoPassword]_vars
  BY <1>1, <1>2
<1>4. QED
  BY <1>3, IdentityInvariant, PTL
     DEF TransitionsAreComplete, TransitionLeavesNoSession, DeletionIsFinal, Spec

-----------------------------------------------------------------------------
(* Who waits for whom *)

\* What a request has locked it has come past the statement for.
HeldFits(t) ==
    /\ "account" \in locks[t] => HasAccount(t)
    /\ locks[t] \cap Token # {} =>
           HasToken(t) \/ (kind[t] = "request" /\ place[t] = "commit")
    /\ locks[t] \cap Login # {} => place[t] \in {"account", "commit"}

WaitInv == \A t \in Tx : HeldFits(t)

\* A request that stays as it is holds what it held.
LEMMA HeldRests ==
  ASSUME NEW u \in Tx, HeldFits(u),
         kind'[u] = kind[u], place'[u] = place[u], locks'[u] = locks[u]
  PROVE  HeldFits(u)'
BY DEF HeldFits, HasAccount, HasToken

\* A request that begins holds the user, or nothing; one refused holds nothing.
LEMMA StartHolds ==
  ASSUME IdentityInv, WaitInv, NEW t \in Tx, Start(t)
  PROVE  WaitInv'
<1>1. IdentityTypes /\ LocksFit(t) /\ place[t] = "idle"
  BY DEF IdentityInv, RequestFits, Start, SetUserStatus, DeleteUser, RevokeUserSessions,
         RequestPasswordReset, CompletePasswordReset, ChangePassword
<1>2. locks[t] = {}
  BY <1>1 DEF LocksFit, Underway
<1>3. locks'[t] \subseteq {"user"}
  BY <1>1, <1>2 DEF IdentityTypes, TypeOK, Start, SetUserStatus, DeleteUser, RevokeUserSessions,
         RequestPasswordReset, CompletePasswordReset, ChangePassword, Begin, Refuse
<1>4. ASSUME NEW u \in Tx, u # t
      PROVE  kind'[u] = kind[u] /\ place'[u] = place[u] /\ locks'[u] = locks[u]
  BY <1>1, <1>4 DEF IdentityTypes, TypeOK, Start, SetUserStatus, DeleteUser, RevokeUserSessions,
         RequestPasswordReset, CompletePasswordReset, ChangePassword, Begin, Refuse
<1>5. HeldFits(t)'
  BY <1>3, LockAssumption DEF HeldFits
<1>6. ASSUME NEW u \in Tx, u # t PROVE HeldFits(u)'
  BY <1>4, <1>6, HeldRests DEF WaitInv
<1>7. QED
  BY <1>5, <1>6 DEF WaitInv

\* An end gives back every row.
LEMMA EndHolds ==
  ASSUME IdentityInv, WaitInv, NEW t \in Tx, NEW how, End(t, how)
  PROVE  WaitInv'
<1>1. IdentityTypes
  BY DEF IdentityInv
<1>2. locks'[t] = {}
  BY <1>1 DEF IdentityTypes, TypeOK, End
<1>3. ASSUME NEW u \in Tx, u # t
      PROVE  kind'[u] = kind[u] /\ place'[u] = place[u] /\ locks'[u] = locks[u]
  BY <1>1, <1>3 DEF IdentityTypes, TypeOK, End
<1>4. HeldFits(t)'
  BY <1>2 DEF HeldFits
<1>5. ASSUME NEW u \in Tx, u # t PROVE HeldFits(u)'
  BY <1>3, <1>5, HeldRests DEF WaitInv
<1>6. QED
  BY <1>4, <1>5 DEF WaitInv

\* A statement that locks leaves the others, and adds its rows to the request's.
LEMMA LockHolds ==
  ASSUME IdentityInv, WaitInv, NEW t \in Tx, NEW here, NEW rows, NEW next,
         Lock(t, here, rows, next), HeldFits(t)'
  PROVE  WaitInv'
<1>1. IdentityTypes
  BY DEF IdentityInv
<1>2. ASSUME NEW u \in Tx, u # t
      PROVE  kind'[u] = kind[u] /\ place'[u] = place[u] /\ locks'[u] = locks[u]
  BY <1>1, <1>2 DEF IdentityTypes, TypeOK, Lock
<1>3. ASSUME NEW u \in Tx, u # t PROVE HeldFits(u)'
  BY <1>2, <1>3, HeldRests DEF WaitInv
<1>4. QED
  BY <1>3 DEF WaitInv

\* Each later statement of a request locks the rows of its place, and no other.
LEMMA ContinueHolds ==
  ASSUME IdentityInv, WaitInv, NEW t \in Tx, Continue(t)
  PROVE  WaitInv'
<1>1. /\ IdentityTypes /\ PlaceFits(t) /\ HeldFits(t)
      /\ kind \in [Tx -> Kinds] /\ place \in [Tx -> Places]
      /\ locks \in [Tx -> SUBSET ({"user", "account"} \cup Token \cup Login)]
      /\ input \in [Tx -> Inputs]
  BY DEF IdentityInv, IdentityTypes, TypeOK, RequestFits, WaitInv
<1>2. ASSUME NEW here, NEW rows, NEW next, Lock(t, here, rows, next)
      PROVE  /\ place[t] = here /\ kind'[t] = kind[t] /\ input'[t] = input[t]
             /\ place'[t] = next /\ locks'[t] = locks[t] \cup rows
  BY <1>1, <1>2 DEF Lock
<1>3. CASE SeeSessions(t)
  <2>1. ASSUME NEW u \in Tx
        PROVE  kind'[u] = kind[u] /\ locks'[u] = locks[u] /\ (u # t => place'[u] = place[u])
    BY <1>1, <1>3 DEF SeeSessions
  <2>2. place[t] = "sessions" /\ place'[t] = "revoking"
    BY <1>1, <1>3 DEF SeeSessions
  <2>3. HeldFits(t)'
    BY <1>1, <2>1, <2>2 DEF HeldFits, HasAccount, HasToken
  <2>4. ASSUME NEW u \in Tx, u # t PROVE HeldFits(u)'
    BY <2>1, <2>4, HeldRests DEF WaitInv
  <2>5. QED
    BY <2>3, <2>4 DEF WaitInv
<1>4. CASE LockSessions(t)
  <2>1. doomed[t] \subseteq Login
    BY <1>1 DEF IdentityTypes, TypeOK
  <2>2. HeldFits(t)'
    BY <1>1, <1>2, <1>4, <2>1, LockAssumption
       DEF LockSessions, AfterSessions, HeldFits, HasAccount, HasToken, PlaceFits
  <2>3. QED
    BY <1>4, <2>2, LockHolds DEF LockSessions
<1>5. CASE DeleteAccount(t)
  <2>1. HeldFits(t)'
    BY <1>1, <1>2, <1>5, LockAssumption
       DEF DeleteAccount, HeldFits, HasAccount, HasToken, PlaceFits, Kinds
  <2>2. QED
    BY <1>5, <2>1, LockHolds DEF DeleteAccount
<1>6. CASE InvalidateResets(t)
  <2>1. HeldFits(t)'
    BY <1>1, <1>2, <1>6, LockAssumption
       DEF InvalidateResets, HeldFits, HasAccount, HasToken, PlaceFits, Kinds, Unused
  <2>2. QED
    BY <1>6, <2>1, LockHolds DEF InvalidateResets
<1>7. CASE LockToken(t)
  <2>1. CASE issued[input[t]] = "unused" /\ permitted[t]
    <3>1. Lock(t, "token", {input[t]}, "password")
      BY <1>7, <2>1 DEF LockToken
    <3>2. kind[t] = "complete" /\ input[t] \in Token
      BY <1>1, <3>1, <1>2 DEF PlaceFits, Kinds
    <3>3. HeldFits(t)'
      BY <1>1, <1>2, <3>1, <3>2, LockAssumption DEF HeldFits, HasAccount, HasToken
    <3>4. QED
      BY <3>1, <3>3, LockHolds
  <2>2. CASE ~(issued[input[t]] = "unused" /\ permitted[t])
    BY <1>7, <2>2, EndHolds DEF LockToken
  <2>3. QED
    BY <2>1, <2>2
<1>8. CASE UpdatePassword(t)
  <2>1. HeldFits(t)'
    BY <1>1, <1>2, <1>8, LockAssumption
       DEF UpdatePassword, HeldFits, HasAccount, HasToken, PlaceFits, Kinds
  <2>2. QED
    BY <1>8, <2>1, LockHolds DEF UpdatePassword
<1>9. CASE VerifyPassword(t)
  <2>1. CASE permitted[t] /\ password # NoPassword /\ password = input[t]
    <3>1. Lock(t, "credential", {"account"}, "sessions")
      BY <1>9, <2>1 DEF VerifyPassword
    <3>2. kind[t] = "change"
      BY <1>1, <3>1, <1>2 DEF PlaceFits, Kinds
    <3>3. HeldFits(t)'
      BY <1>1, <1>2, <3>1, <3>2, LockAssumption DEF HeldFits, HasAccount, HasToken
    <3>4. QED
      BY <3>1, <3>3, LockHolds
  <2>2. CASE ~(permitted[t] /\ password # NoPassword /\ password = input[t])
    BY <1>9, <2>2, EndHolds DEF VerifyPassword
  <2>3. QED
    BY <2>1, <2>2
<1>10. CASE Commit(t)
  BY <1>10, EndHolds DEF Commit, CommitStatus, CommitDelete, CommitRevoke, CommitRequest,
                         CommitReset, CommitChange
<1>11. QED
  BY <1>3, <1>4, <1>5, <1>6, <1>7, <1>8, <1>9, <1>10 DEF Continue

\* Every step of every request keeps what the requests hold to what they passed.
LEMMA WaitNextKeeps == IdentityInv /\ WaitInv /\ [Next]_vars => WaitInv'
<1> SUFFICES ASSUME IdentityInv, WaitInv, [Next]_vars PROVE WaitInv'
  OBVIOUS
<1>1. ASSUME UNCHANGED <<kind, place, locks>> PROVE WaitInv'
  <2>1. ASSUME NEW u \in Tx PROVE HeldFits(u)'
    BY <1>1, HeldRests DEF WaitInv
  <2>2. QED
    BY <2>1 DEF WaitInv
<1>2. ASSUME NEW t \in Tx, Rollback(t) PROVE WaitInv'
  BY <1>2, EndHolds DEF Rollback
<1>3. ASSUME NEW l \in Login, SignIn(l) PROVE WaitInv'
  BY <1>1, <1>3 DEF SignIn, CheckPassword, BeforeSession, InsertSession, requests
<1>4. ASSUME NEW k \in Token, Expire(k) PROVE WaitInv'
  BY <1>1, <1>4 DEF Expire, requests
<1>5. ASSUME UNCHANGED vars PROVE WaitInv'
  BY <1>1, <1>5 DEF vars, requests
<1>6. QED
  BY <1>2, <1>3, <1>4, <1>5, StartHolds, ContinueHolds DEF Next

\* Each wait leads to a request further on, except the one for the account.
LEMMA Waits ==
  ASSUME IdentityInv, WaitInv, NEW u \in Tx, NEW v \in Blockers(u)
  PROVE  /\ v \in Tx /\ v # u
         /\ place[u] = "revoking" => /\ place[v] \in {"account", "commit"}
                                     /\ locks[v] \cap doomed[u] # {}
         /\ place[u] \in {"account", "password", "credential"} =>
                "account" \in locks[v] /\ HasAccount(v)
         /\ place[u] \in {"resets", "token"} =>
                place[v] \in {"password", "sessions", "revoking", "commit"}
         /\ place[u] \in {"revoking", "account", "password", "credential", "resets", "token"}
<1>1. /\ v \in Tx /\ v # u /\ locks[v] \cap Wanted(u) # {}
      /\ HeldFits(v) /\ PlaceFits(u) /\ PlaceFits(v)
      /\ place \in [Tx -> Places] /\ kind \in [Tx -> Kinds]
      /\ doomed \in [Tx -> SUBSET Login]
  BY DEF Blockers, WaitInv, IdentityInv, RequestFits, IdentityTypes, TypeOK
<1>2. place[u] \in {"revoking", "account", "password", "credential", "resets", "token"}
  BY <1>1 DEF Wanted
<1>3. CASE place[u] = "revoking"
  <2>1. Wanted(u) = doomed[u] /\ doomed[u] \subseteq Login
    BY <1>1, <1>3 DEF Wanted
  <2>2. QED
    BY <1>1, <1>2, <1>3, <2>1 DEF HeldFits
<1>4. CASE place[u] \in {"account", "password", "credential"}
  <2>1. Wanted(u) = {"account"}
    BY <1>4 DEF Wanted
  <2>2. QED
    BY <1>1, <1>2, <1>4, <2>1 DEF HeldFits
<1>5. CASE place[u] = "resets"
  <2>1. Wanted(u) = Unused /\ Unused \subseteq Token
    BY <1>5 DEF Wanted, Unused
  <2>2. QED
    BY <1>1, <1>2, <1>5, <2>1 DEF HeldFits, HasToken
<1>6. CASE place[u] = "token"
  <2>1. Wanted(u) = {input[u]} /\ input[u] \in Token
    BY <1>1, <1>6 DEF Wanted, PlaceFits, Kinds
  <2>2. QED
    BY <1>1, <1>2, <1>6, <2>1 DEF HeldFits, HasToken
<1>7. QED
  BY <1>2, <1>3, <1>4, <1>5, <1>6

\* A circle of requests that wait for one another runs through a deletion.
LEMMA CircleCrosses ==
  ASSUME IdentityInv, WaitInv, NEW S \in SUBSET Tx, S # {},
         \A u \in S : Blockers(u) \cap S # {}
  PROVE  \E d, r \in S : Cross(d, r)
<1>1. ASSUME NEW u \in S
      PROVE  \E v \in S : v \in Blockers(u)
  OBVIOUS
<1>2. ASSUME NEW u \in S
      PROVE  place[u] \in {"revoking", "account", "password", "credential", "resets", "token"}
  BY <1>1, Waits
<1>3. \E d \in S : place[d] = "account"
  <2> SUFFICES ASSUME \A u \in S : place[u] # "account" PROVE FALSE
    OBVIOUS
  <2>1. ASSUME NEW u \in S PROVE place[u] # "revoking"
    BY <1>1, <1>2, Waits
  <2>2. ASSUME NEW u \in S PROVE place[u] \notin {"password", "credential"}
    BY <1>1, <1>2, <2>1, Waits DEF HasAccount
  <2>3. ASSUME NEW u \in S PROVE place[u] \notin {"resets", "token"}
    BY <1>1, <1>2, <2>1, <2>2, Waits
  <2>4. QED
    BY <1>2, <2>1, <2>2, <2>3
<1>4. PICK d \in S : place[d] = "account"
  BY <1>3
<1>5. PICK r \in S : r \in Blockers(d)
  BY <1>1
<1>6. /\ "account" \in locks[r] /\ place[r] = "revoking"
      /\ kind[r] \in {"complete", "change"}
  BY <1>2, <1>4, <1>5, Waits DEF HasAccount
<1>7. PICK e \in S : e \in Blockers(r)
  BY <1>1
<1>8. place[e] = "account" /\ locks[e] \cap doomed[r] # {}
  BY <1>2, <1>6, <1>7, Waits
<1>9. kind[e] = "delete"
  <2>1. PlaceFits(e) /\ kind[e] \in Kinds
    BY DEF IdentityInv, RequestFits, IdentityTypes
  <2>2. QED
    BY <1>8, <2>1 DEF PlaceFits, Kinds
<1>10. QED
  BY <1>6, <1>8, <1>9 DEF Cross

\* The locks, and the requests that hold them, in every reachable state.
THEOREM HoldersAreKnown == Spec => [](IdentityInv /\ WaitInv)
<1>1. Init => WaitInv
  BY DEF Init, WaitInv, HeldFits
<1>2. QED
  BY <1>1, WaitNextKeeps, IdentityInitially, IdentityNextKeeps, PTL DEF Spec

\* The deadlocks of an identity's requests are those of deleteUser, which ends
\* the sessions before it locks the account, with a reset or a change of
\* password, which lock the account first: every circle holds such a pair.
THEOREM DeadlocksAreOfDeletions == Spec => []OnlyDeletionsDeadlock
<1>1. IdentityInv /\ WaitInv => OnlyDeletionsDeadlock
  BY CircleCrosses DEF OnlyDeletionsDeadlock, Circle
<1>2. QED
  BY <1>1, HoldersAreKnown, PTL

\* While a request is under way, one of them has every row its next statement
\* locks, or a deletion and a password change wait for each other and PostgreSQL
\* ends one of them: the part of RequestsEnd that is not about fairness.
THEOREM SomeRequestIsFree ==
    Spec => []((\E t \in Tx : Underway(t)) =>
                   \/ \E t \in Tx : Underway(t) /\ Free(t, Wanted(t))
                   \/ \E d, r \in Tx : Cross(d, r))
<1>1. ASSUME IdentityInv, WaitInv, NEW t \in Tx, Underway(t),
             \A u \in Tx : Underway(u) => ~Free(u, Wanted(u))
      PROVE  \E d, r \in Tx : Cross(d, r)
  <2> DEFINE S == {u \in Tx : Underway(u)}
  <2>1. ASSUME NEW u \in S PROVE Blockers(u) \cap S # {}
    <3>1. PICK v \in Tx \ {u} : locks[v] \cap Wanted(u) # {}
      BY <1>1 DEF Free
    <3>2. Underway(v)
      BY <1>1, <3>1 DEF IdentityInv, RequestFits, LocksFit
    <3>3. QED
      BY <3>1, <3>2 DEF Blockers
  <2>2. S \in SUBSET Tx /\ S # {}
    BY <1>1
  <2>3. QED
    BY <1>1, <2>1, <2>2, CircleCrosses
<1>2. IdentityInv /\ WaitInv =>
          ((\E t \in Tx : Underway(t)) =>
               \/ \E t \in Tx : Underway(t) /\ Free(t, Wanted(t))
               \/ \E d, r \in Tx : Cross(d, r))
  BY <1>1
<1>3. QED
  BY <1>2, HoldersAreKnown, PTL
=============================================================================
