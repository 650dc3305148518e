--------------------------- MODULE ServiceGrants ---------------------------
(***************************************************************************)
(* The grants of one user for one service in one organization:             *)
(* createServiceGrant, setServiceGrantActive and revokeServiceGrant of     *)
(* packages/db/src/service-grants.ts.                                      *)
(*                                                                         *)
(* None of them locks what it reads.  The grant, the rights of the actor   *)
(* and the eligibility of the user are read in statements of their own and *)
(* may be stale at the write; what protects the table then is its CHECK    *)
(* constraint and its partial unique index (packages/db/src/schema.ts).    *)
(* writing[t] is the grant whose row t has written and not yet committed.  *)
(***************************************************************************)
EXTENDS FiniteSets

CONSTANTS
    Grant,          \* bound: the rows, of one organization, service and user
    Tx,             \* bound: the requests, one transaction each
    Actor, NoActor,
    NoGrant

ASSUME NoActorAssumption == NoActor \notin Actor
ASSUME NoGrantAssumption == NoGrant \notin Grant

VARIABLES
    status, revokedBy,      \* the rows of service_grants
    managers,               \* actors that canManage admits
    eligible,               \* the user is an active member
    available,              \* the service is active
    kind, actor, grant,     \* request t: which one, by whom, for which row
    loaded,                 \* the status loadGrant read
    place,                  \* its next statement
    writing,
    outcome                 \* how it ended

table == <<status, revokedBy>>
world == <<managers, eligible, available>>
request == <<kind, actor, grant>>
vars == <<table, world, request, loaded, place, writing, outcome>>

Statuses == {"none", "active", "inactive", "revoked"}
Kinds == {"create", "activate", "deactivate", "revoke"}

Current == {g \in Grant : status[g] \in {"active", "inactive"}}

Init ==
    /\ status = [g \in Grant |-> "none"]
    /\ revokedBy = [g \in Grant |-> NoActor]
    /\ managers = Actor
    /\ eligible = TRUE
    /\ available = TRUE
    /\ kind = [t \in Tx |-> "none"]
    /\ actor = [t \in Tx |-> NoActor]
    /\ grant = [t \in Tx |-> NoGrant]
    /\ loaded = [t \in Tx |-> "none"]
    /\ place = [t \in Tx |-> "idle"]
    /\ writing = [t \in Tx |-> NoGrant]
    /\ outcome = [t \in Tx |-> "none"]

-----------------------------------------------------------------------------
Goto(t, next) ==
    /\ place' = [place EXCEPT ![t] = next]
    /\ UNCHANGED <<table, writing, outcome>>

End(t, how) ==
    /\ place' = [place EXCEPT ![t] = "ended"]
    /\ writing' = [writing EXCEPT ![t] = NoGrant]
    /\ outcome' = [outcome EXCEPT ![t] = how]

Abort(t, how) == End(t, how) /\ UNCHANGED table

\* No other transaction has an uncommitted version of these rows.
Settled(t, rows) == \A x \in Tx \ {t} : writing[x] \notin rows

\* The row is written, and commits or not in a later step.
Write(t) ==
    /\ writing' = [writing EXCEPT ![t] = grant[t]]
    /\ place' = [place EXCEPT ![t] = "commit"]
    /\ UNCHANGED <<table, outcome>>

\* Mutant: the table has no constraint.
CheckAllowsAll(g, new) == new # "revoked" => revokedBy[g] \in Actor \cup {NoActor}

\* service_grants_revocation_check: who revoked is recorded for revoked
\* grants and for no other.
CheckAllows(g, new) == new # "revoked" => revokedBy[g] = NoActor

\* service_grants_current_subject_unique waits for uncommitted versions of
\* the other rows of its key: the current ones and those being inserted.
IndexSettled(t, g) == Settled(t, {h \in Grant \ {g} : status[h] # "revoked"})

\* Mutant: the table has no unique index.
IndexAllowsAll(g) == Current \ {g} \subseteq Grant

\* Once they are settled, a row enters if no other is current.
IndexAllows(g) == Current \ {g} = {}

-----------------------------------------------------------------------------
(* Requests *)

\* The client names a grant that exists; a new one has an identifier of its own.
Call(t) ==
    \E k \in Kinds, a \in Actor, g \in Grant :
        /\ place[t] = "idle"
        /\ IF k = "create" THEN status[g] = "none" /\ \A x \in Tx : grant[x] # g
           ELSE status[g] # "none"
        /\ kind' = [kind EXCEPT ![t] = k]
        /\ actor' = [actor EXCEPT ![t] = a]
        /\ grant' = [grant EXCEPT ![t] = g]
        /\ Goto(t, IF k = "create" THEN "authorize" ELSE "load")
        /\ UNCHANGED <<world, loaded>>

LoadGrant(t) ==
    /\ place[t] = "load"
    /\ loaded' = [loaded EXCEPT ![t] = status[grant[t]]]
    /\ Goto(t, "authorize")
    /\ UNCHANGED <<world, request>>

\* canManage, then for a creation the user, otherwise what loadGrant read: a
\* revoked grant is not found, or is revoked already.
Authorize(t) ==
    /\ place[t] = "authorize"
    /\ IF actor[t] \in managers /\ (kind[t] = "create" => eligible)
       THEN \/ kind[t] = "create" /\ Goto(t, "existing")
            \/ kind[t] # "create" /\ loaded[t] # "revoked" /\ Goto(t, "write")
            \/ /\ kind[t] # "create" /\ loaded[t] = "revoked"
               /\ Abort(t, IF kind[t] = "revoke" THEN "success" ELSE "missing")
       ELSE Abort(t, "denied")
    /\ UNCHANGED <<world, request, loaded>>

\* The service, and the current grant if there is one.
FindExisting(t) ==
    /\ place[t] = "existing"
    /\ IF available /\ Current = {} THEN Goto(t, "insert") ELSE Abort(t, "conflict")
    /\ UNCHANGED <<world, request, loaded>>

Insert(t) ==
    /\ place[t] = "insert"
    /\ IndexSettled(t, grant[t])
    /\ IF IndexAllows(grant[t]) THEN Write(t) ELSE Abort(t, "conflict")
    /\ UNCHANGED <<world, request, loaded>>

\* update ... where id = ..., whatever has become of the row since it was
\* loaded; a violated constraint is an internal error.
UpdateStatus(t) ==
    LET g == grant[t]
        new == IF kind[t] = "activate" THEN "active" ELSE "inactive" IN
    /\ place[t] = "write"
    /\ kind[t] \in {"activate", "deactivate"}
    /\ Settled(t, {g})
    /\ IndexSettled(t, g)
    /\ IF CheckAllows(g, new) /\ IndexAllows(g) THEN Write(t) ELSE Abort(t, "error")
    /\ UNCHANGED <<world, request, loaded>>

UpdateRevoked(t) ==
    /\ place[t] = "write"
    /\ kind[t] = "revoke"
    /\ Settled(t, {grant[t]})
    /\ Write(t)
    /\ UNCHANGED <<world, request, loaded>>

\* Active or not, as the client asked.
CommitCreate(t) ==
    /\ place[t] = "commit" /\ kind[t] = "create"
    /\ \E s \in {"active", "inactive"} : status' = [status EXCEPT ![grant[t]] = s]
    /\ UNCHANGED revokedBy
    /\ End(t, "success")
    /\ UNCHANGED <<world, request, loaded>>

CommitStatus(t) ==
    /\ place[t] = "commit" /\ kind[t] \in {"activate", "deactivate"}
    /\ status' = [status EXCEPT ![grant[t]] =
          IF kind[t] = "activate" THEN "active" ELSE "inactive"]
    /\ UNCHANGED revokedBy
    /\ End(t, "success")
    /\ UNCHANGED <<world, request, loaded>>

\* Mutant: the update sets the status only.
CommitRevokedUnsigned(t) ==
    /\ place[t] = "commit" /\ kind[t] = "revoke"
    /\ status' = [status EXCEPT ![grant[t]] = "revoked"]
    /\ UNCHANGED revokedBy
    /\ End(t, "success")
    /\ UNCHANGED <<world, request, loaded>>

CommitRevoked(t) ==
    /\ place[t] = "commit" /\ kind[t] = "revoke"
    /\ status' = [status EXCEPT ![grant[t]] = "revoked"]
    /\ revokedBy' = [revokedBy EXCEPT ![grant[t]] = actor[t]]
    /\ End(t, "success")
    /\ UNCHANGED <<world, request, loaded>>

Rollback(t) ==
    /\ place[t] \notin {"idle", "ended"}
    /\ Abort(t, "error")
    /\ UNCHANGED <<world, request, loaded>>

\* Memberships, roles and the service change beside all this.
WorldChanges ==
    /\ managers' \in SUBSET Actor
    /\ eligible' \in BOOLEAN
    /\ available' \in BOOLEAN
    /\ UNCHANGED <<table, request, loaded, place, writing, outcome>>

Step(t) ==
    \/ Call(t)
    \/ LoadGrant(t)
    \/ Authorize(t)
    \/ FindExisting(t)
    \/ Insert(t)
    \/ UpdateStatus(t)
    \/ UpdateRevoked(t)
    \/ CommitCreate(t)
    \/ CommitStatus(t)
    \/ CommitRevoked(t)
    \/ Rollback(t)

Next == WorldChanges \/ \E t \in Tx : Step(t)

Spec == Init /\ [][Next]_vars
-----------------------------------------------------------------------------
(* Properties *)

Places == {"idle", "load", "authorize", "existing", "insert", "write", "commit", "ended"}
Outcomes == {"none", "denied", "conflict", "missing", "error", "success"}

\* The types of the table and of the progress of every request.
GrantTypes ==
    /\ status \in [Grant -> Statuses]
    /\ revokedBy \in [Grant -> Actor \cup {NoActor}]
    /\ managers \subseteq Actor
    /\ eligible \in BOOLEAN
    /\ available \in BOOLEAN
    /\ kind \in [Tx -> Kinds \cup {"none"}]
    /\ actor \in [Tx -> Actor \cup {NoActor}]
    /\ grant \in [Tx -> Grant \cup {NoGrant}]
    /\ loaded \in [Tx -> Statuses]
    /\ place \in [Tx -> Places]
    /\ writing \in [Tx -> Grant \cup {NoGrant}]
    /\ outcome \in [Tx -> Outcomes]

\* Who revoked is recorded exactly for the revoked grants.
RevokedIsSigned ==
    \A g \in Grant : status[g] = "revoked" <=> revokedBy[g] # NoActor

\* The table and the requests keep their types, and no row comes to disagree
\* with its CHECK constraint: revokeServiceGrant signs every row it revokes, and
\* a change of status is not written over a signature.
TypeOK == GrantTypes /\ RevokedIsSigned

\* At most one grant of an organization, service and user is current, however
\* creations, revocations and changes of status overlap.
OneCurrentGrant ==
    \A g, h \in Current : g = h

\* A revoked grant stays revoked: a change of status that loaded the grant
\* before its revocation does not bring it back.
RevocationIsTerminal ==
    [][\A g \in Grant : status[g] = "revoked" => status'[g] = "revoked"]_vars
=============================================================================
