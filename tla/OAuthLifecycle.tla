--------------------------- MODULE OAuthLifecycle ---------------------------
(***************************************************************************)
(* The tokens of one signed-in session: a family of refresh tokens, each   *)
(* issued with an access token (a JWT), under                              *)
(* apps/api/src/auth/audited-handler.ts, oauth-organization.ts and         *)
(* oauth-lifecycle.ts.  The handler between their statements is Better     *)
(* Auth's.  A statement is a step; only the logout is a transaction.       *)
(* Its delete of oauthAccessTokens is not a step here: those are opaque    *)
(* tokens, and an access token accepted anywhere is a JWT.                 *)
(***************************************************************************)
EXTENDS Naturals, FiniteSets

CONSTANT Requests   \* bound: the requests, numbered as they arrive

ASSUME RequestsAssumption == Requests \in Nat

Exchange == 1..Requests

\* The pair a first authorization code was exchanged for, and those that the
\* refreshes, and the exchange of a second code, issue among the requests.
First == 0
Pairs == Exchange \cup {First}

VARIABLES
    signedIn,       \* session: active, expired or deleted
    member,         \* organization_members of the grant's organization: active
    refresh,        \* oauth_refresh_tokens: none, live or revoked
    bound,          \* the refresh tokens whose session_id is set
    access,         \* the access tokens issued: with a sid, or without
    codeStored,     \* verification: the row of a second authorization code is there
    outdated,       \* the access tokens whose exp has passed
    revoked,        \* oauth_token_revocations
    exchange,       \* a request: which, where it is, its token, what it read
    familyLock,     \* the refresh tokens a logout has updated
    basis           \* history: what there was when a request began

tables == <<signedIn, member, refresh, bound, access, codeStored, outdated, revoked>>
varsOAuth == <<tables, exchange, familyLock, basis>>

NoRequest == [call |-> "none", at |-> "idle", token |-> First, sid |-> FALSE]
NoBasis == [active |-> FALSE, member |-> FALSE, revoked |-> FALSE]

InitOAuth ==
    /\ signedIn = "active" /\ member = TRUE
    /\ refresh = [t \in Pairs |-> IF t = First THEN "live" ELSE "none"]
    /\ bound = {First}
    /\ access = [t \in Pairs |-> IF t = First THEN "sid" ELSE "none"]
    /\ codeStored = TRUE /\ outdated = {} /\ revoked = {}
    /\ exchange = [e \in Exchange |-> NoRequest]
    /\ familyLock = {}
    /\ basis = [e \in Exchange |-> NoBasis]

In(e, k, s) == exchange[e].call = k /\ exchange[e].at = s
Proceed(e, s) == exchange' = [exchange EXCEPT ![e].at = s]

Done(e, outcome) ==
    /\ exchange' = [exchange EXCEPT ![e] = [NoRequest EXCEPT !.at = outcome]]
    /\ basis' = [basis EXCEPT ![e] = NoBasis]
Over(e) == Done(e, "ended")
Deny(e) == Over(e) /\ UNCHANGED <<tables, familyLock>>

\* The request is granted: it has issued a pair, or its token is accepted.
Accept(e) == Done(e, "granted")

\* The endpoints of createAuditedAuthHandler, and the resource server's.
Present(e) ==
    /\ exchange[e].at = "idle"
    /\ \A d \in 1..(e - 1) : exchange[d].at # "idle"
    /\ \E k \in {"code", "refresh", "logout", "revoke", "check"}, t \in Pairs :
        /\ refresh[t] # "none"
        /\ k \in {"code", "logout"} => t = First
        /\ exchange' = [exchange EXCEPT ![e] =
                           [call |-> k, at |-> "begin", token |-> t, sid |-> FALSE]]
        /\ basis' = [basis EXCEPT ![e] = IF k \in {"code", "refresh", "check"}
                THEN [active |-> k # "code" => signedIn = "active",
                      member |-> k # "check" => member,
                      revoked |-> k = "check" /\ t \in revoked]
                ELSE NoBasis]
    /\ UNCHANGED <<tables, familyLock>>

\* resolveStoredGrantContext: the family's session must be active.
ResolveStoredGrant(e) ==
    /\ In(e, "refresh", "begin")
    /\ IF exchange[e].token \in bound /\ signedIn = "active"
       THEN Proceed(e, "member") /\ UNCHANGED <<tables, familyLock, basis>>
       ELSE Deny(e)

\* ... of an authorization code, which must be stored: the session is not asked
\* for.
ResolveCode(e) ==
    /\ In(e, "code", "begin")
    /\ IF codeStored
       THEN Proceed(e, "member") /\ UNCHANGED <<tables, familyLock, basis>>
       ELSE Deny(e)

\* hasActiveOrganizationMembership
HasActiveMembership(e) ==
    /\ In(e, "code", "member") \/ In(e, "refresh", "member")
    /\ IF member
       THEN Proceed(e, "handler") /\ UNCHANGED <<tables, familyLock, basis>>
       ELSE Deny(e)

\* Better Auth takes the code and issues a pair bound to the session, which a
\* foreign key wants there, or refuses: the code is used, has expired.
HandlerExchangesCode(e) ==
    /\ In(e, "code", "handler")
    /\ codeStored' = FALSE
    /\ \/ /\ codeStored /\ signedIn # "deleted"
          /\ refresh' = [refresh EXCEPT ![e] = "live"]
          /\ bound' = bound \cup {e}
          /\ access' = [access EXCEPT ![e] = "sid"]
          /\ Accept(e)
       \/ Over(e) /\ UNCHANGED <<refresh, bound, access>>
    /\ UNCHANGED <<signedIn, member, outdated, revoked, familyLock>>

\* Better Auth reads the token; one that is revoked ends its family.
HandlerReads(e) ==
    LET t == exchange[e].token IN
    /\ In(e, "refresh", "handler")
    /\ CASE refresh[t] = "live" ->
              /\ exchange' = [exchange EXCEPT ![e].at = "rotate", ![e].sid = t \in bound]
              /\ UNCHANGED <<tables, familyLock, basis>>
         [] refresh[t] = "revoked" ->
              /\ familyLock = {}
              /\ refresh' = [x \in Pairs |-> IF refresh[x] = "none" THEN "none" ELSE "revoked"]
              /\ Over(e)
              /\ UNCHANGED <<signedIn, member, bound, access, codeStored, outdated, revoked, familyLock>>

\* ... and rotates it: the token it read revoked, a new pair inserted.  The
\* session it read must still be there: a foreign key.
HandlerRotates(e) ==
    LET t == exchange[e].token IN
    /\ In(e, "refresh", "rotate")
    /\ t \notin familyLock
    /\ IF exchange[e].sid /\ signedIn = "deleted"
       THEN Deny(e)
       ELSE /\ refresh' = [refresh EXCEPT ![t] = "revoked", ![e] = "live"]
            /\ bound' = IF exchange[e].sid THEN bound \cup {e} ELSE bound
            /\ access' = [access EXCEPT ![e] = IF exchange[e].sid THEN "sid" ELSE "no sid"]
            /\ Accept(e)
            /\ UNCHANGED <<signedIn, member, codeStored, outdated, revoked, familyLock>>

\* handleOidcLogout: its first statement locks the live tokens of the session ...
RevokeFamily(e) ==
    /\ In(e, "logout", "begin")
    /\ familyLock = {}
    /\ familyLock' = {t \in bound : refresh[t] = "live"}
    /\ Proceed(e, "delete")
    /\ UNCHANGED <<tables, basis>>

\* ... the last one deletes the session: a token inserted in between loses its
\* session_id and stays unrevoked.
DeleteSession(e) ==
    /\ In(e, "logout", "delete")
    /\ refresh' = [t \in Pairs |-> IF t \in familyLock THEN "revoked" ELSE refresh[t]]
    /\ signedIn' = "deleted"
    /\ bound' = {}
    /\ familyLock' = {}
    /\ Over(e)
    /\ UNCHANGED <<member, access, codeStored, outdated, revoked>>

\* inspectRevocation: the access token, of a public client and one that
\* verifies; the refresh token, which is left to Better Auth; or a token of
\* another client, an access token of a confidential one: nothing is persisted.
InspectRevocation(e) ==
    /\ In(e, "revoke", "begin")
    /\ \/ /\ exchange[e].token \notin outdated /\ access[exchange[e].token] = "sid"
          /\ Proceed(e, "purge") /\ UNCHANGED <<tables, familyLock, basis>>
       \/ Proceed(e, "revoking") /\ UNCHANGED <<tables, familyLock, basis>>
       \/ Deny(e)

\* Better Auth revokes the refresh token; one that is revoked ends its family.
HandlerRevokes(e) ==
    LET t == exchange[e].token
        ended == IF refresh[t] = "live" THEN {t} ELSE Pairs IN
    /\ In(e, "revoke", "revoking")
    /\ ended \cap familyLock = {}
    /\ refresh' = [x \in Pairs |-> IF x \in ended /\ refresh[x] # "none"
                                   THEN "revoked" ELSE refresh[x]]
    /\ Over(e)
    /\ UNCHANGED <<signedIn, member, bound, access, codeStored, outdated, revoked, familyLock>>

\* Mutant: lte for gte.
PurgeLive(e) ==
    /\ In(e, "revoke", "purge")
    /\ revoked' = revoked \cap outdated
    /\ Proceed(e, "persist")
    /\ UNCHANGED <<signedIn, member, refresh, bound, access, codeStored, outdated, familyLock, basis>>

\* persistAccessTokenRevocation: delete the expired ones ...
PurgeRevocations(e) ==
    /\ In(e, "revoke", "purge")
    /\ revoked' = revoked \ outdated
    /\ Proceed(e, "persist")
    /\ UNCHANGED <<signedIn, member, refresh, bound, access, codeStored, outdated, familyLock, basis>>

\* ... then insert, on conflict do update.
PersistRevocation(e) ==
    /\ In(e, "revoke", "persist")
    /\ revoked' = revoked \cup {exchange[e].token}
    /\ Over(e)
    /\ UNCHANGED <<signedIn, member, refresh, bound, access, codeStored, outdated, familyLock>>

\* authenticateResourceAccessToken, and the introspection that Better Auth
\* answers first: the signature and the exp ...
VerifyToken(e) ==
    /\ In(e, "check", "begin")
    /\ IF exchange[e].token \notin outdated /\ access[exchange[e].token] = "sid"
       THEN Proceed(e, "session") /\ UNCHANGED <<tables, familyLock, basis>>
       ELSE Deny(e)

\* ... the session of the token ...
ReadSession(e) ==
    /\ In(e, "check", "session")
    /\ IF signedIn = "active"
       THEN Proceed(e, "revocation") /\ UNCHANGED <<tables, familyLock, basis>>
       ELSE Deny(e)

\* ... and the revocations that have not expired.
ReadRevocation(e) ==
    /\ In(e, "check", "revocation")
    /\ IF exchange[e].token \notin revoked \ outdated
       THEN Accept(e) /\ UNCHANGED <<tables, familyLock>>
       ELSE Deny(e)

\* A statement that throws, a crash: a transaction is rolled back.
Break(e) ==
    /\ exchange[e].at \notin {"idle", "ended", "granted"}
    /\ Over(e)
    /\ familyLock' = IF exchange[e].call = "logout" /\ exchange[e].at = "delete" THEN {} ELSE familyLock
    /\ UNCHANGED <<tables>>

\* The session expires, or is deleted by a suspension, a new password or a
\* revocation: on delete set null.
SessionEnds ==
    /\ \/ signedIn = "active" /\ signedIn' = "expired" /\ UNCHANGED bound
       \/ signedIn # "deleted" /\ signedIn' = "deleted" /\ bound' = {}
    /\ UNCHANGED <<member, refresh, access, codeStored, outdated, revoked, exchange, familyLock, basis>>

MembershipEnds ==
    /\ member /\ member' = FALSE
    /\ UNCHANGED <<signedIn, refresh, bound, access, codeStored, outdated, revoked, exchange, familyLock, basis>>

\* Fifteen minutes later: the first one expires first.
TokenExpires(t) ==
    /\ access[t] # "none" /\ t \notin outdated
    /\ t = First \/ First \in outdated
    /\ outdated' = outdated \cup {t}
    /\ UNCHANGED <<signedIn, member, refresh, bound, access, codeStored, revoked, exchange, familyLock, basis>>

NextOAuth ==
    \/ \E e \in Exchange :
        \/ Present(e) \/ ResolveStoredGrant(e) \/ ResolveCode(e) \/ HasActiveMembership(e)
        \/ HandlerExchangesCode(e) \/ HandlerReads(e) \/ HandlerRotates(e)
        \/ RevokeFamily(e) \/ DeleteSession(e)
        \/ InspectRevocation(e) \/ HandlerRevokes(e) \/ PurgeRevocations(e) \/ PersistRevocation(e)
        \/ VerifyToken(e) \/ ReadSession(e) \/ ReadRevocation(e) \/ Break(e)
    \/ \E t \in Pairs : TokenExpires(t)
    \/ SessionEnds \/ MembershipEnds

SpecOAuth == InitOAuth /\ [][NextOAuth]_varsOAuth

-----------------------------------------------------------------------------
(* Properties *)

\* The session, its tokens and the requests have their types; a token bound to
\* the session is one that was issued while the session was there.
TypeOKOAuth ==
    /\ signedIn \in {"active", "expired", "deleted"} /\ member \in BOOLEAN /\ codeStored \in BOOLEAN
    /\ refresh \in [Pairs -> {"none", "live", "revoked"}]
    /\ access \in [Pairs -> {"none", "sid", "no sid"}]
    /\ bound \subseteq {t \in Pairs : access[t] = "sid"}
    /\ signedIn = "deleted" => bound = {}
    /\ outdated \subseteq Pairs /\ revoked \subseteq Pairs /\ familyLock \subseteq Pairs

\* resolveStoredGrantContext, hasActiveOrganizationMembership,
\* authenticateResourceAccessToken, enforceIntrospectionState,
\* persistAccessTokenRevocation: what has ended is over for every request that
\* begins afterwards.  A refresh issues nothing once the session has ended, by a
\* logout that overlapped other refreshes too, and neither a refresh nor a code
\* once the membership has: NTAuth "verifies it again before each token
\* issuance" (README.md:64).  An access token is not accepted once its session
\* has ended, or its revocation is persisted unless it expires during the
\* check: the purge of expired revocations takes none away that still matters.
EndedIsOver ==
    [][\A e \in Exchange : exchange[e].at # "granted" /\ exchange'[e].at = "granted" =>
          /\ basis[e].active
          /\ exchange[e].call \in {"code", "refresh"} => basis[e].member
          /\ exchange[e].call = "check" /\ basis[e].revoked => exchange[e].token \in outdated]_varsOAuth
=============================================================================
