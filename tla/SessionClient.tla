---------------------------- MODULE SessionClient ----------------------------
(***************************************************************************)
(* The session of the browser, packages/nuxt-auth/src/session.ts, over the *)
(* transport of transport.ts.  Its functions may be called at any time and *)
(* overlap; a step is what runs between two awaits.                        *)
(***************************************************************************)
EXTENDS FiniteSets

CONSTANT Operation      \* bound: calls under way at once

VARIABLES
    snapshot,           \* snapshot.value # null
    status, failed,     \* status.value, error.value # null
    refreshInFlight,    \* refreshInFlight is a promise
    operation,          \* a call: its function and where it is
    begun               \* history: the session has been asked for

varsSessionClient == <<snapshot, status, failed, refreshInFlight, operation, begun>>

\* The functions that set the status to loading.
Loading == {"hydrate", "callback", "refresh"}

NoOperation == [of |-> "none", at |-> "idle"]

InitSessionClient ==
    /\ snapshot = FALSE /\ status = "loading" /\ failed = FALSE
    /\ refreshInFlight = FALSE
    /\ operation = [o \in Operation |-> NoOperation]
    /\ begun = FALSE

Launch(o, f) ==
    /\ operation[o] = NoOperation
    /\ operation' = [operation EXCEPT ![o] = [of |-> f, at |-> "asked"]]
    /\ begun' = (begun \/ f \in Loading)
Settle(o, s) ==
    /\ operation' = [operation EXCEPT ![o] = IF s = "idle" THEN NoOperation ELSE [@ EXCEPT !.at = s]]
    /\ UNCHANGED begun
Asked(o, f) == operation[o] = [of |-> f, at |-> "asked"]

\* apply, of a snapshot or of null
Apply(there) ==
    /\ snapshot' = there
    /\ status' = IF there THEN "authenticated" ELSE "anonymous"
    /\ failed' = FALSE

\* fail: the snapshot stays.
Fail ==
    /\ status' = "error" /\ failed' = TRUE
    /\ UNCHANGED snapshot

Hydrate(o) ==
    /\ Launch(o, "hydrate")
    /\ status' = "loading"
    /\ UNCHANGED <<snapshot, failed, refreshInFlight>>

Login(o) ==
    /\ Launch(o, "login")
    /\ UNCHANGED <<snapshot, status, failed, refreshInFlight>>

\* handleCallback: the parameters are parsed before anything is asked.
HandleCallback(o) ==
    /\ \/ Launch(o, "callback") /\ status' = "loading" /\ UNCHANGED <<snapshot, failed>>
       \/ Fail /\ begun' = TRUE /\ UNCHANGED operation
    /\ UNCHANGED refreshInFlight

\* A call of refresh that finds a promise is answered by it.
Refresh(o) ==
    /\ ~refreshInFlight
    /\ Launch(o, "refresh")
    /\ status' = "loading" /\ refreshInFlight' = TRUE
    /\ UNCHANGED <<snapshot, failed>>

Logout(o) ==
    /\ Launch(o, "logout")
    /\ UNCHANGED <<snapshot, status, failed, refreshInFlight>>

\* The transport: 401 is no session; another status or no answer is an error.
SessionAnswered(o) ==
    /\ \/ Asked(o, "hydrate") /\ \E there \in BOOLEAN : Apply(there)
       \/ Asked(o, "callback") /\ Apply(TRUE)
       \/ Asked(o, "hydrate") /\ Fail
       \/ Asked(o, "callback") /\ Fail
    /\ Settle(o, "idle")
    /\ UNCHANGED refreshInFlight

LoginAnswered(o) ==
    /\ Asked(o, "login")
    /\ Fail \/ UNCHANGED <<snapshot, status, failed>>
    /\ Settle(o, "idle")
    /\ UNCHANGED refreshInFlight

\* then(apply), catch(fail) ...
RefreshAnswered(o) ==
    /\ Asked(o, "refresh")
    /\ (\E there \in BOOLEAN : Apply(there)) \/ Fail
    /\ Settle(o, "settled")
    /\ UNCHANGED refreshInFlight

\* Mutant: the promise is dropped by then, not by finally.
RefreshSettledThen(o) ==
    /\ operation[o] = [of |-> "refresh", at |-> "settled"]
    /\ refreshInFlight' = failed
    /\ Settle(o, "idle")
    /\ UNCHANGED <<snapshot, status, failed>>

\* ... finally
RefreshSettled(o) ==
    /\ operation[o] = [of |-> "refresh", at |-> "settled"]
    /\ refreshInFlight' = FALSE
    /\ Settle(o, "idle")
    /\ UNCHANGED <<snapshot, status, failed>>

\* logout: apply(null) even when it fails.
LogoutAnswered(o) ==
    /\ Asked(o, "logout")
    /\ snapshot' = FALSE
    /\ \E error \in BOOLEAN :
        failed' = error /\ status' = IF error THEN "error" ELSE "anonymous"
    /\ Settle(o, "idle")
    /\ UNCHANGED refreshInFlight

NextSessionClient ==
    \E o \in Operation :
        \/ Hydrate(o) \/ Login(o) \/ HandleCallback(o) \/ Refresh(o) \/ Logout(o)
        \/ SessionAnswered(o) \/ LoginAnswered(o) \/ RefreshAnswered(o) \/ RefreshSettled(o)
        \/ LogoutAnswered(o)

SpecSessionClient == InitSessionClient /\ [][NextSessionClient]_varsSessionClient

-----------------------------------------------------------------------------
(* Properties *)

\* The state of the session has its type.
TypeOKSessionClient ==
    /\ {snapshot, failed, refreshInFlight, begun} \subseteq BOOLEAN
    /\ status \in {"loading", "authenticated", "anonymous", "error"}
    /\ operation \in [Operation -> [of : {"none", "hydrate", "login", "callback", "refresh", "logout"},
                                    at : {"idle", "asked", "settled"}]]

\* refresh: "le refresh concurrent est sérialisé"
\* (docs/integrations/packages.md:36).  One refresh is under way exactly while
\* its promise is kept, after failures too: none is sent twice, and the next
\* call sends a new one.
RefreshIsSerialized ==
    Cardinality({o \in Operation : operation[o].of = "refresh"})
        = IF refreshInFlight THEN 1 ELSE 0

\* apply, fail: whatever the order in which answers arrive, the session does
\* not keep loading with nothing under way, is not authenticated without a
\* snapshot, and shows an error exactly in the status "error" or while it
\* loads again.
StatusIsHonest ==
    /\ status = "loading" /\ begun =>
            \E o \in Operation : operation[o].of \in Loading
    /\ status = "authenticated" => snapshot
    /\ status = "error" => failed
    /\ failed => status \in {"error", "loading"}

\* The two together.
SessionIsCoherent == RefreshIsSerialized /\ StatusIsHonest
=============================================================================
