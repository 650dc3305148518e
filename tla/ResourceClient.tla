--------------------------- MODULE ResourceClient ---------------------------
(***************************************************************************)
(* The client of a resource server, packages/elysia-auth/src/client.ts: an *)
(* in-memory cache of effective policies, revalidated with an ETag against *)
(* apps/api/src/effective-policies.ts at every request.  The client yields *)
(* only while it waits for the server, so the step before the wait and the *)
(* one after it are atomic.                                                *)
(***************************************************************************)
CONSTANTS
    Visit,          \* requests to the resource server under way at once
    PolicyScope,     \* cacheKey: subject, organization and service
    Policies,       \* the policies a scope may have, each with an ETag of its own
    NoPolicies      \* what the cache has of a scope it does not know

ASSUME PoliciesAssumption ==
    /\ NoPolicies \notin Policies /\ PolicyScope # {}
    /\ {"refused", "none", "not modified", "unusable"} \cap Policies = {}

VARIABLES
    held,       \* held[k]: what the server answers for the scope now
    entries,    \* the cache of the client
    visit,      \* a request: where it is, its scope, what it found in the
                \* cache, the reply, the policies it is answered with
    window      \* history: what the server held since the request asked

varsResourceClient == <<held, entries, visit, window>>

\* 401 and 403 are dealt with alike.
Refusal == "refused"
Answers == Policies \cup {Refusal}
NoVisit == [at |-> "idle", scope |-> CHOOSE k \in PolicyScope : TRUE,
            cached |-> NoPolicies, reply |-> "none", policies |-> NoPolicies]

InitResourceClient ==
    /\ held \in [PolicyScope -> Policies]
    /\ entries = [k \in PolicyScope |-> NoPolicies]
    /\ visit = [v \in Visit |-> NoVisit]
    /\ window = [v \in Visit |-> {}]

\* authenticate: a bearer token that verifies names a scope; the client takes
\* what it has of it and asks the server.
LoadPolicies(v) ==
    /\ visit[v].at = "idle"
    /\ \E k \in PolicyScope :
        /\ visit' = [visit EXCEPT ![v] =
                [at |-> "asked", scope |-> k, cached |-> entries[k],
                 reply |-> "none", policies |-> NoPolicies]]
        /\ window' = [window EXCEPT ![v] = {held[k]}]
    /\ UNCHANGED <<held, entries>>

\* The route: 401 and 403 before anything is read, 304 if the ETag is the
\* one the client sent.
Respond(v) ==
    LET k == visit[v].scope IN
    /\ visit[v].at = "asked"
    /\ visit' = [visit EXCEPT ![v].at = "replied", ![v].reply =
            IF held[k] = visit[v].cached THEN "not modified" ELSE held[k]]
    /\ UNCHANGED <<held, entries, window>>

\* The fetch throws, the status is another one, parsePolicies refuses the body.
RespondUnusable(v) ==
    /\ visit[v].at = "asked"
    /\ visit' = [visit EXCEPT ![v].at = "replied", ![v].reply = "unusable"]
    /\ UNCHANGED <<held, entries, window>>

AnswerWith(v, p) == visit' = [visit EXCEPT ![v].at = "answered", ![v].policies = p]
Leave(v) == visit' = [visit EXCEPT ![v] = NoVisit] /\ window' = [window EXCEPT ![v] = {}]

\* Mutant: what the cache has when the 304 comes, not what was sent.
NotModifiedNow(v) ==
    /\ visit[v].at = "replied" /\ visit[v].reply = "not modified"
    /\ AnswerWith(v, entries[visit[v].scope])
    /\ UNCHANGED <<held, entries, window>>

\* 304: the entry the request found, which another may have replaced since.
NotModified(v) ==
    /\ visit[v].at = "replied" /\ visit[v].reply = "not modified"
    /\ AnswerWith(v, visit[v].cached)
    /\ UNCHANGED <<held, entries, window>>

\* 200: kept for the scope, whatever came in between.
Modified(v) ==
    /\ visit[v].at = "replied" /\ visit[v].reply \in Policies
    /\ entries' = [entries EXCEPT ![visit[v].scope] = visit[v].reply]
    /\ AnswerWith(v, visit[v].reply)
    /\ UNCHANGED <<held, window>>

\* 401, 403: the entry is dropped and the request refused.
Refused(v) ==
    /\ visit[v].at = "replied" /\ visit[v].reply = Refusal
    /\ entries' = [entries EXCEPT ![visit[v].scope] = NoPolicies]
    /\ Leave(v)
    /\ UNCHANGED held

\* 503 policy_unavailable: the request fails closed, the entry stays.
Unavailable(v) ==
    /\ visit[v].at = "replied" /\ visit[v].reply = "unusable"
    /\ Leave(v)
    /\ UNCHANGED <<held, entries>>

\* authorize was called as often as the handler liked, and it has answered.
Finish(v) ==
    /\ visit[v].at = "answered"
    /\ Leave(v)
    /\ UNCHANGED <<held, entries>>

\* invalidate, of one scope or of all of them.
Invalidate ==
    /\ \E forgotten \in {{k} : k \in PolicyScope} \cup {PolicyScope} :
        entries' = [k \in PolicyScope |-> IF k \in forgotten THEN NoPolicies ELSE entries[k]]
    /\ UNCHANGED <<held, visit, window>>

\* Policies, grants, memberships and sessions change on the server.
ServerChanges(k) ==
    /\ \E p \in Answers :
        /\ held' = [held EXCEPT ![k] = p]
        /\ window' = [v \in Visit |->
              IF visit[v].at \in {"asked", "replied"} /\ visit[v].scope = k
              THEN window[v] \cup {p} ELSE window[v]]
    /\ UNCHANGED <<entries, visit>>

NextResourceClient ==
    \/ \E v \in Visit :
        \/ LoadPolicies(v) \/ Respond(v) \/ RespondUnusable(v) \/ NotModified(v)
        \/ Modified(v) \/ Refused(v) \/ Unavailable(v) \/ Finish(v)
    \/ Invalidate
    \/ \E k \in PolicyScope : ServerChanges(k)

-----------------------------------------------------------------------------
(* Properties *)

Visits == [at : {"idle", "asked", "replied", "answered"}, scope : PolicyScope,
           cached : Policies \cup {NoPolicies},
           reply : Answers \cup {"none", "not modified", "unusable"},
           policies : Policies \cup {NoPolicies}]

\* The cache and the requests have their types.
TypeOKResourceClient ==
    /\ held \in [PolicyScope -> Answers]
    /\ entries \in [PolicyScope -> Policies \cup {NoPolicies}]
    /\ visit \in [Visit -> Visits]
    /\ window \in [Visit -> SUBSET Answers]

\* loadPolicies: however its requests overlap and whoever wrote the entry
\* last, a request is decided with policies the server had for its scope at
\* some moment between its question and the answer, never with older ones.
DecidedWithPoliciesOfItsTime ==
    \A v \in Visit : visit[v].at = "answered" => visit[v].policies \in window[v]
=============================================================================
