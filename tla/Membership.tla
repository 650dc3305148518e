----------------------------- MODULE Membership -----------------------------
(***************************************************************************)
(* One organization of NTAuth: its members, its administrators and its     *)
(* invitations.  The requests that change them are                         *)
(* updateOrganizationMember (packages/db/src/organizations.ts),            *)
(* createInvitation, cancelInvitation, acceptInvitation (invitations.ts)   *)
(* and deleteUser (user-lifecycle.ts).                                     *)
(*                                                                         *)
(* As in Identity, a request is a READ COMMITTED transaction, a step before*)
(* its Commit reads, waits and locks, and its writes appear at the commit. *)
(* locks holds the rows taken for update (or the entry of a unique index   *)
(* that an insert has made), shares those a foreign key holds for key      *)
(* share.  owner and admin are one role: the code never tells them apart.  *)
(***************************************************************************)
EXTENDS Integers, FiniteSets

CONSTANTS
    User,           \* bound: the identities
    Mail,           \* e-mail addresses
    Unborn, Gone,   \* mail of an identity not yet created, or deleted
    Invitation,     \* bound: the invitations
    Tx,             \* bound: the requests, one transaction each
    Outsider,       \* no membership
    NoUser,
    Kinds,          \* the kinds of requests that are made
    Asked,          \* the memberships that updates ask for
    Offered,        \* the invitations that are created
    FirstMail, FirstMember, FirstPlatform, FirstInvitation  \* where Init starts

Memberships == [role : {"admin", "member"}, status : {"active", "suspended"}]
Letters == [status : {"none", "pending", "accepted", "cancelled"},
            mail : Mail, role : {"admin", "member"}]

ASSUME NamesAssumption ==
    /\ Invitation # {}
    /\ {Unborn, Gone} \cap Mail = {} /\ Unborn # Gone
    /\ Outsider \notin Memberships
    /\ NoUser \notin User /\ IsFiniteSet(User)
    /\ Asked \subseteq Memberships
    /\ Offered \subseteq {l \in Letters : l.status = "pending"}
ASSUME FirstAssumption ==
    /\ FirstMail \in [User -> Mail \cup {Unborn}]
    /\ FirstMember \in [User -> Memberships \cup {Outsider}]
    /\ FirstPlatform \subseteq User
    /\ FirstInvitation \in [Invitation -> Letters]
    /\ \A u \in User : FirstMail[u] = Unborn => FirstMember[u] = Outsider

VARIABLES
    mail, member, platform, invitation,  \* the tables
    expired,        \* invitations created more than 72 hours ago
    kind, actor,    \* request t: which one, and who makes it
    subject,        \* the identity it changes
    letter,         \* the invitation it is about
    input,          \* the membership or the letter it writes
    place,          \* its next statement
    timely,         \* the invitation had not expired when it was called
    locks, shares,  \* the rows it holds
    outcome         \* how it ended

tables == <<mail, member, platform, invitation>>
request == <<kind, actor, subject, letter, input, timely>>
vars == <<tables, expired, request, place, locks, shares, outcome>>

Live(u) == mail[u] \in Mail
Administers(u) == member[u] = [role |-> "admin", status |-> "active"]
Administrators == {u \in User : Administers(u)}

\* canManage, canManageOrganizationSql
Manages(u) == u \in platform \/ Administers(u)

Nothing == CHOOSE i \in Invitation : TRUE

Init ==
    /\ mail = FirstMail
    /\ member = FirstMember
    /\ platform = FirstPlatform
    /\ invitation = FirstInvitation
    /\ expired = {}
    /\ kind = [t \in Tx |-> "none"]
    /\ actor = [t \in Tx |-> NoUser]
    /\ subject = [t \in Tx |-> NoUser]
    /\ letter = [t \in Tx |-> Nothing]
    /\ input = [t \in Tx |-> Outsider]
    /\ place = [t \in Tx |-> "idle"]
    /\ timely = [t \in Tx |-> TRUE]
    /\ locks = [t \in Tx |-> {}]
    /\ shares = [t \in Tx |-> {}]
    /\ outcome = [t \in Tx |-> "none"]

-----------------------------------------------------------------------------
(* Transactions *)

Row(u) == <<"member", u>>
Organization == <<"organization">>

\* The rows of the four tables are different things.
ASSUME RowsAssumption ==
    /\ Invitation \cap (User \cup Mail) = {}
    /\ Organization \notin Invitation \cup User \cup Mail
    /\ \A u \in User : Row(u) \notin Invitation \cup User \cup Mail \cup {Organization}

Free(t, rows) == \A x \in Tx \ {t} : (locks[x] \cup shares[x]) \cap rows = {}
Sharable(t, rows) == \A x \in Tx \ {t} : locks[x] \cap rows = {}

Ask(t, k, a, u, i, value, intime) ==
    /\ kind' = [kind EXCEPT ![t] = k]
    /\ actor' = [actor EXCEPT ![t] = a]
    /\ subject' = [subject EXCEPT ![t] = u]
    /\ letter' = [letter EXCEPT ![t] = i]
    /\ input' = [input EXCEPT ![t] = value]
    /\ timely' = [timely EXCEPT ![t] = intime]

\* A handler is called; nothing is read or locked yet.
Call(t, k, a, u, i, value, first) ==
    /\ place[t] = "idle"
    /\ k \in Kinds
    /\ Ask(t, k, a, u, i, value, i \notin expired)
    /\ place' = [place EXCEPT ![t] = first]
    /\ UNCHANGED <<tables, expired, locks, shares, outcome>>

Goto(t, next) ==
    /\ place' = [place EXCEPT ![t] = next]
    /\ UNCHANGED <<tables, expired, request, locks, shares, outcome>>

\* Wait for the rows, lock them and go on.
Hold(t, rows, next) ==
    /\ Free(t, rows)
    /\ locks' = [locks EXCEPT ![t] = @ \cup rows]
    /\ place' = [place EXCEPT ![t] = next]
    /\ UNCHANGED <<tables, expired, shares, outcome>>

Take(t, rows, next) == Hold(t, rows, next) /\ UNCHANGED request

Share(t, rows, next) ==
    /\ Sharable(t, rows)
    /\ shares' = [shares EXCEPT ![t] = @ \cup rows]
    /\ place' = [place EXCEPT ![t] = next]
    /\ UNCHANGED <<tables, expired, request, locks, outcome>>

\* The transaction ends: its locks are gone, and so is what it was about.
End(t, how) ==
    /\ place' = [place EXCEPT ![t] = "ended"]
    /\ locks' = [locks EXCEPT ![t] = {}]
    /\ shares' = [shares EXCEPT ![t] = {}]
    /\ outcome' = [outcome EXCEPT ![t] = how]
    /\ Ask(t, "none", NoUser, NoUser, Nothing, Outsider, TRUE)
    /\ UNCHANGED expired

\* Mutant: a request that is turned down leaves its transaction open.
AbortHolding(t, how) ==
    /\ place' = [place EXCEPT ![t] = "ended"]
    /\ outcome' = [outcome EXCEPT ![t] = how]
    /\ UNCHANGED <<tables, expired, request, locks, shares>>

Abort(t, how) == End(t, how) /\ UNCHANGED tables

Rollback(t) ==
    /\ place[t] \notin {"idle", "ended"}
    /\ Abort(t, "rejected")

Committing(t, k) == place[t] = "commit" /\ kind[t] = k

\* The check of the actor, a statement of its own.
Authorize(t) ==
    /\ place[t] = "authorize"
    /\ IF Manages(actor[t])
       THEN \/ kind[t] = "update" /\ Goto(t, "member")
            \/ kind[t] = "create" /\ Goto(t, "insert")
            \/ kind[t] = "cancel" /\ Goto(t, "commit")
       ELSE Abort(t, "rejected")

-----------------------------------------------------------------------------
(* updateOrganizationMember *)

Update(t) ==
    \E a, u \in User : \E value \in Asked :
        /\ Live(a) /\ mail[u] # Unborn
        /\ Call(t, "update", a, u, Nothing, value, "organization")

\* Mutant: the organization is not locked.
LockOrganizationNot(t) ==
    /\ place[t] = "organization"
    /\ Goto(t, "authorize")

LockOrganization(t) ==
    /\ place[t] = "organization"
    /\ Take(t, {Organization}, "authorize")

Removes(t) == Administers(subject[t]) /\ input[t] # member[subject[t]]

LockMember(t) ==
    LET u == subject[t] IN
    /\ place[t] = "member"
    /\ Free(t, {Row(u)})
    /\ IF member[u] = Outsider THEN Abort(t, "rejected")
       ELSE Take(t, {Row(u)}, IF Removes(t) THEN "count" ELSE "commit")

\* The last active administrator is kept.
CountAdministrators(t) ==
    /\ place[t] = "count"
    /\ IF Cardinality(Administrators) <= 1 THEN Abort(t, "rejected") ELSE Goto(t, "commit")

CommitUpdate(t) ==
    /\ Committing(t, "update")
    /\ member' = [member EXCEPT ![subject[t]] = input[t]]
    /\ UNCHANGED <<mail, platform, invitation>>
    /\ End(t, "committed")

-----------------------------------------------------------------------------
(* createInvitation, cancelInvitation *)

Create(t) ==
    \E a \in User, i \in Invitation, offer \in Offered :
        /\ Live(a)
        /\ invitation[i].status = "none"
        /\ \A x \in Tx : kind[x] = "create" => letter[x] # i
        /\ Call(t, "create", a, NoUser, i, offer, "authorize")

\* Foreign keys to the organization and to the inviting identity.
InsertInvitation(t) ==
    /\ place[t] = "insert"
    /\ Share(t, {Organization, actor[t]}, "commit")

CommitCreate(t) ==
    /\ Committing(t, "create")
    /\ invitation' = [invitation EXCEPT ![letter[t]] = input[t]]
    /\ UNCHANGED <<mail, member, platform>>
    /\ End(t, "committed")

Cancel(t) ==
    \E a \in User, i \in Invitation :
        /\ Live(a)
        /\ Call(t, "cancel", a, NoUser, i, Outsider, "pending")

\* where status = 'pending' for update
LockPending(t) ==
    LET i == letter[t] IN
    /\ place[t] = "pending"
    /\ Free(t, {i})
    /\ IF invitation[i].status = "pending" THEN Take(t, {i}, "authorize")
       ELSE Abort(t, "rejected")

\* Mutant: a status that the table does not know.
CommitCancelRevoked(t) ==
    /\ Committing(t, "cancel")
    /\ invitation' = [invitation EXCEPT ![letter[t]].status = "revoked"]
    /\ UNCHANGED <<mail, member, platform>>
    /\ End(t, "committed")

CommitCancel(t) ==
    /\ Committing(t, "cancel")
    /\ invitation' = [invitation EXCEPT ![letter[t]].status = "cancelled"]
    /\ UNCHANGED <<mail, member, platform>>
    /\ End(t, "committed")

-----------------------------------------------------------------------------
(* acceptInvitation *)

Accept(t) ==
    \E i \in Invitation :
        /\ invitation[i].status # "none"
        /\ Call(t, "accept", NoUser, NoUser, i, Outsider, "token")

Holder(m) == {u \in User : mail[u] = m}

\* Mutant: the status is read without a lock.
LockTokenUnlocked(t) ==
    LET i == letter[t] IN
    /\ place[t] = "token"
    /\ IF invitation[i].status = "pending" /\ timely[t] THEN Goto(t, "identity")
       ELSE Abort(t, "rejected")

\* An accepted invitation answers as before while its membership is there.
LockToken(t) ==
    LET i == letter[t] IN
    /\ place[t] = "token"
    /\ Free(t, {i})
    /\ CASE invitation[i].status = "accepted" ->
                Abort(t, IF \E u \in Holder(invitation[i].mail) : member[u] # Outsider
                         THEN "repeated" ELSE "rejected")
         [] invitation[i].status = "pending" /\ timely[t] -> Take(t, {i}, "identity")
         [] OTHER -> Abort(t, "rejected")

\* Mutant: the identity is read without for update.
FindIdentityUnlocked(t) ==
    LET found == Holder(invitation[letter[t]].mail) IN
    /\ place[t] = "identity"
    /\ subject' = [subject EXCEPT ![t] =
          IF found = {} THEN NoUser ELSE CHOOSE u \in found : TRUE]
    /\ Hold(t, {}, IF found = {} THEN "new" ELSE "join")
    /\ UNCHANGED <<kind, actor, letter, input, timely>>

\* select id from "user" where email = ... for update: a row that a deletion
\* has renamed in the meantime is no longer found.
FindIdentity(t) ==
    LET found == Holder(invitation[letter[t]].mail) IN
    /\ place[t] = "identity"
    /\ subject' = [subject EXCEPT ![t] =
          IF found = {} THEN NoUser ELSE CHOOSE u \in found : TRUE]
    /\ Hold(t, found, IF found = {} THEN "new" ELSE "join")
    /\ UNCHANGED <<kind, actor, letter, input, timely>>

\* Identities no request has created, or is creating.
Fresh == {u \in User : mail[u] = Unborn /\
             \A x \in Tx : subject[x] = u => place[x] = "ended"}

\* The insert waits for another one of the same e-mail, and fails if that
\* one committed.
InsertIdentity(t) ==
    LET m == invitation[letter[t]].mail IN
    /\ place[t] = "new"
    /\ Free(t, {m})
    /\ IF Holder(m) # {} THEN Abort(t, "rejected")
       ELSE \E u \in Fresh :
               /\ subject' = [subject EXCEPT ![t] = u]
               /\ Hold(t, {m, u}, "join")
               /\ UNCHANGED <<kind, actor, letter, input, timely>>

\* The unique index of the memberships and the foreign key to the
\* organization.
InsertMember(t) ==
    /\ place[t] = "join"
    /\ Free(t, {Row(subject[t])})
    /\ IF member[subject[t]] # Outsider THEN Abort(t, "rejected")
       ELSE Share(t, {Organization}, "commit")

CommitAccept(t) ==
    LET u == subject[t]
        i == letter[t] IN
    /\ Committing(t, "accept")
    /\ mail' = [mail EXCEPT ![u] = IF @ = Unborn THEN invitation[i].mail ELSE @]
    /\ member' = [member EXCEPT ![u] = [role |-> invitation[i].role, status |-> "active"]]
    /\ invitation' = [invitation EXCEPT ![i].status = "accepted"]
    /\ UNCHANGED platform
    /\ End(t, "committed")

-----------------------------------------------------------------------------
(* deleteUser *)

Delete(t) ==
    \E a, u \in User :
        /\ Live(a) /\ mail[u] # Unborn
        /\ a \in platform
        /\ Call(t, "delete", a, u, Nothing, Outsider, "user")

LockUser(t) ==
    LET u == subject[t] IN
    /\ place[t] = "user"
    /\ Free(t, {u})
    /\ IF Live(u) THEN Take(t, {u}, "memberships") ELSE Abort(t, "rejected")

\* delete from organization_members: no membership is inserted while the
\* identity is locked.
DeleteMemberships(t) ==
    /\ place[t] = "memberships"
    /\ Take(t, {Row(subject[t])}, "commit")

CommitDelete(t) ==
    LET u == subject[t] IN
    /\ Committing(t, "delete")
    /\ mail' = [mail EXCEPT ![u] = Gone]
    /\ member' = [member EXCEPT ![u] = Outsider]
    /\ platform' = platform \ {u}
    /\ UNCHANGED invitation
    /\ End(t, "committed")

-----------------------------------------------------------------------------
Expire(i) ==
    /\ invitation[i].status # "none"
    /\ i \notin expired
    /\ expired' = expired \cup {i}
    /\ UNCHANGED <<tables, request, place, locks, shares, outcome>>

Start(t) ==
    \/ Update(t)
    \/ Create(t)
    \/ Cancel(t)
    \/ Accept(t)
    \/ Delete(t)

Continue(t) ==
    \/ Authorize(t)
    \/ LockOrganization(t)
    \/ LockMember(t)
    \/ CountAdministrators(t)
    \/ CommitUpdate(t)
    \/ InsertInvitation(t)
    \/ CommitCreate(t)
    \/ LockPending(t)
    \/ CommitCancel(t)
    \/ LockToken(t)
    \/ FindIdentity(t)
    \/ InsertIdentity(t)
    \/ InsertMember(t)
    \/ CommitAccept(t)
    \/ LockUser(t)
    \/ DeleteMemberships(t)
    \/ CommitDelete(t)

Next ==
    \/ \E t \in Tx : Start(t) \/ Continue(t) \/ Rollback(t)
    \/ \E i \in Invitation : Expire(i)

Spec == Init /\ [][Next]_vars
-----------------------------------------------------------------------------
(* Properties *)

Places == {"idle", "organization", "authorize", "member", "count", "insert",
           "pending", "token", "identity", "new", "join", "user",
           "memberships", "commit", "ended"}

\* Every table and the progress of every request keep their types.
TypeOK ==
    /\ mail \in [User -> Mail \cup {Unborn, Gone}]
    /\ member \in [User -> Memberships \cup {Outsider}]
    /\ platform \subseteq User
    /\ invitation \in [Invitation -> Letters]
    /\ expired \subseteq Invitation
    /\ kind \in [Tx -> {"none", "update", "create", "cancel", "accept", "delete"}]
    /\ actor \in [Tx -> User \cup {NoUser}]
    /\ subject \in [Tx -> User \cup {NoUser}]
    /\ letter \in [Tx -> Invitation]
    /\ place \in [Tx -> Places]
    /\ outcome \in [Tx -> {"none", "rejected", "repeated", "committed"}]

\* Requests that demote or suspend administrators, however they overlap, leave
\* one: only the deletion of an identity can take the last one away.
AdministratorRemains ==
    Administrators = {} => \E u \in User : mail[u] = Gone

\* A membership is changed by someone who manages the organization at the
\* commit, not merely when the request came in: of two administrators that
\* demote each other one is denied.  A deletion alone does not wait.
ActorManagesAtCommit ==
    [][\A t \in Tx : CommitUpdate(t) =>
          Manages(actor[t]) \/ mail[actor[t]] = Gone]_vars

\* Whoever becomes a member holds the e-mail of an invitation that was pending
\* until that very step: an invitation admits one identity, and neither a
\* cancelled nor an accepted one admits anybody.
AdmissionUsesUpInvitation ==
    [][\A u \in User : member[u] = Outsider /\ member'[u] # Outsider =>
          \E i \in Invitation :
              /\ invitation[i].status = "pending"
              /\ invitation'[i].status = "accepted"
              /\ mail'[u] = invitation[i].mail]_vars

\* accepted and cancelled are final: a cancellation that overlaps an
\* acceptance does not revoke it, nor the other way round.
InvitationsSettleOnce ==
    [][\A i \in Invitation : invitation[i].status \in {"accepted", "cancelled"} =>
          invitation'[i] = invitation[i]]_vars

\* acceptOrganizationInvitation, cancelOrganizationInvitation: an invitation is
\* spent once, on one identity or on none.
InvitationsAreSpent == AdmissionUsesUpInvitation /\ InvitationsSettleOnce

\* No membership outlives or follows the deletion of its identity, even one
\* that is being accepted at that moment.
DeletedIsNobodysMember ==
    \A u \in User : member[u] # Outsider => Live(u)

\* These requests never deadlock: while one is under way, one can go on.
SomeRequestGoesOn ==
    (\E t \in Tx : place[t] \notin {"idle", "ended"}) => \E t \in Tx : ENABLED Continue(t)

\* The message of updateOrganizationMember: the last active administrator
\* must be preserved.
UpdateKeepsAdministrator ==
    [][\A t \in Tx : CommitUpdate(t) /\ Administrators # {} => Administrators' # {}]_vars
=============================================================================
