------------------------------ MODULE IamCache ------------------------------
(***************************************************************************)
(* The permission cache of apps/api/src/iam-cache.ts and the routes that   *)
(* invalidate it after a mutation, for one user and one group of that      *)
(* user's organization.                                                    *)
(*                                                                         *)
(* PostgreSQL decides what the user may do in a scope (an organization and *)
(* a service); Redis keeps, per scope, a generation and the answers cached *)
(* under it.  A mutation commits first and increments the generation in a  *)
(* second step, or several for a group; a read takes a generation, looks   *)
(* up its entry, reads PostgreSQL on a miss and writes the entry back, each*)
(* in a step of its own.  Any Redis call may fail before or after it took  *)
(* effect.                                                                 *)
(***************************************************************************)
EXTENDS Integers, Sequences, FiniteSets

CONSTANTS
    Scope,          \* organization and service, the key of a generation
    Mutation,       \* bound: the mutating requests, each made once
    Reader,         \* concurrent calls of get
    RequestId,      \* values of the header x-request-id
    RequestIdOf,    \* the one that comes with each mutation
    Kinds,          \* the kinds of mutation that are made
    RedisRestarts   \* whether Redis may lose the writes of its last second

ASSUME ScopeAssumption == Scope # {}
ASSUME RequestAssumption == RequestIdOf \in [Mutation -> RequestId]
ASSUME RestartAssumption == RedisRestarts \in BOOLEAN

VARIABLES
    policy,         \* policy[s]: changes of policies and grants in scope s
    attached,       \* the scopes with a policy attached to the group
    member,         \* the user is a member of the group
    active,         \* the user's membership of the organization is active
    log,            \* history: log[s], what the user could do, first to last
    generation, cache, events,  \* Redis
    saved,          \* what Redis finds on its disk when it restarts
    stage,          \* stage[m]: progress of mutation m
    kindOf,         \* kindOf[m]: what m changed
    todo,           \* todo[m]: scopes m still has to invalidate
    index,          \* index[m][s]: length of log[s] once m changed scope s, or 0
    clean,          \* mutations whose Redis calls all succeeded so far
    invalidations,  \* history: for each scope, <<log length, generation>>
    at,             \* at[r]: progress of the read r
    scope, gen, value,  \* its scope, the generation and the answer it holds
    known,          \* known[r]: invalidations of its scope before r began
    acknowledged    \* acknowledged[r]: mutations answered before r began

database == <<policy, attached, member, active, log>>
redis == <<generation, cache, events, saved>>
mutators == <<stage, kindOf, todo, index, clean, invalidations>>
readers == <<at, scope, gen, value, known, acknowledged>>
vars == <<database, redis, mutators, readers>>

AnyScope == CHOOSE s \in Scope : TRUE

\* getEffectivePolicies in the state of the database given: one answer, or
\* none, the authorization error for a membership that is not active.
Effective(s, p, a, g, ok) ==
    {x \in {[policy |-> p[s], viaGroup |-> g /\ s \in a]} : ok}

Current(s) == Len(log[s])
Answer(s, i) == log[s][i]

Init ==
    /\ policy = [s \in Scope |-> 0]
    /\ attached \in SUBSET Scope
    /\ member = FALSE
    /\ active = TRUE
    /\ log = [s \in Scope |-> <<Effective(s, policy, attached, member, active)>>]
    /\ generation = [s \in Scope |-> 0]
    /\ cache = {}
    /\ events = {}
    /\ saved = [generation |-> generation, cache |-> cache, events |-> events]
    /\ stage = [m \in Mutation |-> "idle"]
    /\ kindOf = [m \in Mutation |-> "none"]
    /\ todo = [m \in Mutation |-> {}]
    /\ index = [m \in Mutation |-> [s \in Scope |-> 0]]
    /\ clean = Mutation
    /\ invalidations = [s \in Scope |-> {}]
    /\ at = [r \in Reader |-> "idle"]
    /\ scope = [r \in Reader |-> AnyScope]
    /\ gen = [r \in Reader |-> 0]
    /\ value = [r \in Reader |-> 0]
    /\ known = [r \in Reader |-> {}]
    /\ acknowledged = [r \in Reader |-> {}]

-----------------------------------------------------------------------------
(* Mutations *)

\* Record what the user may do now, and where the commit of m, a change of
\* the rows of the scopes given, stands in that history.
Commit(m, kind, changed, scopes, next) ==
    /\ stage[m] = "idle"
    /\ kind \in Kinds
    /\ log' = [x \in Scope |->
          LET now == Effective(x, policy', attached', member', active')
          IN  IF now = Answer(x, Current(x)) THEN log[x] ELSE Append(log[x], now)]
    /\ index' = [index EXCEPT ![m] = [x \in Scope |->
          IF x \in changed THEN Len(log'[x]) ELSE 0]]
    /\ kindOf' = [kindOf EXCEPT ![m] = kind]
    /\ todo' = [todo EXCEPT ![m] = scopes]
    /\ stage' = [stage EXCEPT ![m] = next]
    /\ UNCHANGED <<clean, invalidations, redis, readers>>

\* A policy version, a rollback, a status or a service grant of scope s: the
\* route calls invalidateScope with the scope of the row it changed.
ChangePolicy(m, s) ==
    /\ policy' = [policy EXCEPT ![s] = @ + 1]
    /\ UNCHANGED <<attached, member, active>>
    /\ Commit(m, "policy", {s}, {s}, "invalidating")

\* attachIamPolicy to the group, and invalidatePolicy.
Attach(m, s) ==
    /\ s \notin attached
    /\ attached' = attached \cup {s}
    /\ UNCHANGED <<policy, member, active>>
    /\ Commit(m, "policy-attach", {s}, {s}, "invalidating")

\* detachIamPolicy, idempotent, and invalidatePolicy.
Detach(m, s) ==
    /\ attached' = attached \ {s}
    /\ UNCHANGED <<policy, member, active>>
    /\ Commit(m, "policy-detach", {s}, {s}, "invalidating")

\* addIamGroupMember; a second membership of the same user is a conflict.
AddGroupMember(m) ==
    /\ ~member
    /\ member' = TRUE
    /\ UNCHANGED <<policy, attached, active>>
    /\ Commit(m, "group-member-add", attached, {}, "listing")

\* updateOrganizationMember; its route has no policyCache.
SetMembership(m) ==
    /\ active' = ~active
    /\ UNCHANGED <<policy, attached, member>>
    /\ Commit(m, "membership", Scope, {}, "invalidating")

\* Mutant: only the first scope of the group is invalidated.
ListFirstScope(m) ==
    /\ stage[m] = "listing"
    /\ todo' = [todo EXCEPT ![m] = attached \cap {AnyScope}]
    /\ stage' = [stage EXCEPT ![m] = "invalidating"]
    /\ UNCHANGED <<kindOf, index, clean, invalidations, database, redis, readers>>

\* invalidateGroup: the scopes that have the group attached now, read in a
\* query of its own after the commit.
ListScopes(m) ==
    /\ stage[m] = "listing"
    /\ todo' = [todo EXCEPT ![m] = attached]
    /\ stage' = [stage EXCEPT ![m] = "invalidating"]
    /\ UNCHANGED <<kindOf, index, clean, invalidations, database, redis, readers>>

Event(m, s) == [kind |-> kindOf[m], id |-> RequestIdOf[m], scope |-> s]

\* INVALIDATE_SCRIPT: the generation moves only for an event not seen before.
InvalidateScript(m, s) ==
    IF Event(m, s) \in events
    THEN UNCHANGED <<generation, cache, events, saved, invalidations>>
    ELSE /\ events' = events \cup {Event(m, s)}
         /\ generation' = [generation EXCEPT ![s] = @ + 1]
         /\ invalidations' = [invalidations EXCEPT ![s] =
                @ \cup {<<index[m][s], generation[s] + 1>>}]
         /\ UNCHANGED <<cache, saved>>

InvalidateScope(m) ==
    /\ stage[m] = "invalidating"
    /\ \E s \in todo[m] :
          /\ InvalidateScript(m, s)
          /\ todo' = [todo EXCEPT ![m] = @ \ {s}]
    /\ UNCHANGED <<stage, kindOf, index, clean, database, readers>>

\* The catch of invalidateScope: false, which the route does not look at.
InvalidateFails(m) ==
    /\ stage[m] = "invalidating"
    /\ \E s \in todo[m] :
          /\ InvalidateScript(m, s) \/ UNCHANGED <<redis, invalidations>>
          /\ todo' = [todo EXCEPT ![m] = @ \ {s}]
    /\ clean' = clean \ {m}
    /\ UNCHANGED <<stage, kindOf, index, database, readers>>

\* The route answers its client.
Acknowledge(m) ==
    /\ stage[m] = "invalidating"
    /\ todo[m] = {}
    /\ stage' = [stage EXCEPT ![m] = "answered"]
    /\ UNCHANGED <<kindOf, todo, index, clean, invalidations, database, redis, readers>>

Mutate(m) ==
    \/ \E s \in Scope : ChangePolicy(m, s) \/ Attach(m, s) \/ Detach(m, s)
    \/ AddGroupMember(m)
    \/ SetMembership(m)

-----------------------------------------------------------------------------
(* get *)

Move(r, place) == at' = [at EXCEPT ![r] = place]

\* Mutant: generations are counted from -1.
BeginBelow(r) ==
    /\ at[r] = "idle"
    /\ \E s \in Scope :
          /\ scope' = [scope EXCEPT ![r] = s]
          /\ known' = [known EXCEPT ![r] = invalidations[s]]
          /\ gen' = [gen EXCEPT ![r] = generation[s] - 1]
    /\ acknowledged' = [acknowledged EXCEPT ![r] =
          {m \in clean : stage[m] = "answered"}]
    /\ Move(r, "lookup")
    /\ UNCHANGED <<value, database, redis, mutators>>

\* The generation, missing or not, that this call looks under.
Begin(r) ==
    /\ at[r] = "idle"
    /\ \E s \in Scope :
          /\ scope' = [scope EXCEPT ![r] = s]
          /\ known' = [known EXCEPT ![r] = invalidations[s]]
          /\ gen' = [gen EXCEPT ![r] = generation[s]]
    /\ acknowledged' = [acknowledged EXCEPT ![r] =
          {m \in clean : stage[m] = "answered"}]
    /\ Move(r, "lookup")
    /\ UNCHANGED <<value, database, redis, mutators>>

Cached(r) == {e \in cache : e.scope = scope[r] /\ e.generation = gen[r]}

Hit(r) ==
    /\ at[r] = "lookup"
    /\ \E e \in Cached(r) : value' = [value EXCEPT ![r] = e.index]
    /\ Move(r, "done")
    /\ UNCHANGED <<scope, gen, known, acknowledged, database, redis, mutators>>

Miss(r) ==
    /\ at[r] = "lookup"
    /\ Cached(r) = {}
    /\ Move(r, "miss")
    /\ UNCHANGED <<scope, gen, value, known, acknowledged, database, redis, mutators>>

\* One repeatable read snapshot.  An authorization error is thrown inside the
\* try: it is not cached, and the catch reads again.
ReadDatabase(r) ==
    /\ at[r] = "miss"
    /\ IF active
       THEN /\ value' = [value EXCEPT ![r] = Current(scope[r])]
            /\ Move(r, "fill")
       ELSE /\ UNCHANGED value
            /\ Move(r, "fallback")
    /\ UNCHANGED <<scope, gen, known, acknowledged, database, redis, mutators>>

\* Mutant: the entry is written under the generation of now.
StoreAsCurrent(r) ==
    cache' = {e \in cache : e.scope # scope[r] \/ e.generation # generation[scope[r]]} \cup
        {[scope |-> scope[r], generation |-> generation[scope[r]], index |-> value[r]]}

\* SET with EX: replaces the entry of this key and generation.
Store(r) ==
    cache' = (cache \ Cached(r)) \cup
        {[scope |-> scope[r], generation |-> gen[r], index |-> value[r]]}

Fill(r) ==
    /\ at[r] = "fill"
    /\ Store(r)
    /\ Move(r, "done")
    /\ UNCHANGED <<scope, gen, value, known, acknowledged>>
    /\ UNCHANGED <<generation, events, saved, database, mutators>>

\* A Redis call of get throws, with or without its effect.
RedisFails(r) ==
    /\ at[r] \in {"lookup", "fill"}
    /\ \/ UNCHANGED cache
       \/ at[r] = "fill" /\ Store(r)
    /\ Move(r, "fallback")
    /\ UNCHANGED <<scope, gen, value, known, acknowledged>>
    /\ UNCHANGED <<generation, events, saved, database, mutators>>

\* The catch: the answer of PostgreSQL, denied included.
Fallback(r) ==
    /\ at[r] = "fallback"
    /\ value' = [value EXCEPT ![r] = Current(scope[r])]
    /\ Move(r, "done")
    /\ UNCHANGED <<scope, gen, known, acknowledged, database, redis, mutators>>

\* The caller has its answer; the next call starts from nothing.
Return(r) ==
    /\ at[r] = "done"
    /\ scope' = [scope EXCEPT ![r] = AnyScope]
    /\ gen' = [gen EXCEPT ![r] = 0]
    /\ value' = [value EXCEPT ![r] = 0]
    /\ known' = [known EXCEPT ![r] = {}]
    /\ acknowledged' = [acknowledged EXCEPT ![r] = {}]
    /\ Move(r, "idle")
    /\ UNCHANGED <<database, redis, mutators>>

-----------------------------------------------------------------------------
(* Redis *)

\* Mutant: SET without EX.
ExpireNever(e) ==
    /\ e \in cache \cap {}
    /\ UNCHANGED vars

\* The five seconds of an entry are over, on disk too.
Expire(e) ==
    /\ e \in cache \cup saved.cache
    /\ cache' = cache \ {e}
    /\ saved' = [saved EXCEPT !.cache = @ \ {e}]
    /\ UNCHANGED <<generation, events, database, mutators, readers>>

\* appendfsync everysec
Fsync ==
    /\ RedisRestarts
    /\ saved' = [generation |-> generation, cache |-> cache, events |-> events]
    /\ UNCHANGED <<generation, cache, events, database, mutators, readers>>

Restart ==
    /\ RedisRestarts
    /\ generation' = saved.generation
    /\ cache' = saved.cache
    /\ events' = saved.events
    /\ UNCHANGED <<saved, database, mutators, readers>>

Next ==
    \/ \E m \in Mutation :
          \/ Mutate(m)
          \/ ListScopes(m)
          \/ InvalidateScope(m)
          \/ InvalidateFails(m)
          \/ Acknowledge(m)
    \/ \E r \in Reader :
          \/ Begin(r)
          \/ Hit(r)
          \/ Miss(r)
          \/ ReadDatabase(r)
          \/ Fill(r)
          \/ RedisFails(r)
          \/ Fallback(r)
          \/ Return(r)
    \/ \E e \in cache \cup saved.cache : Expire(e)
    \/ Fsync
    \/ Restart

Spec == Init /\ [][Next]_vars

\* Entries have a TTL; nothing else has to happen.
Entries == [scope : Scope, generation : 0 .. Cardinality(Mutation) * Cardinality(Scope),
            index : 1 .. Cardinality(Mutation) + 1]

LiveSpec == Spec /\ \A e \in Entries : WF_vars(Expire(e))
-----------------------------------------------------------------------------
(* Properties *)

Places == {"idle", "lookup", "miss", "fill", "fallback", "done"}
Stages == {"idle", "listing", "invalidating", "answered"}
EntryType == [scope : Scope, generation : Nat, index : Nat]
Verdicts == SUBSET [policy : Nat, viaGroup : BOOLEAN]

\* The variables the answers depend on keep their types.
TypeOK ==
    /\ policy \in [Scope -> Nat]
    /\ attached \subseteq Scope
    /\ member \in BOOLEAN
    /\ active \in BOOLEAN
    /\ log \in [Scope -> Seq(Verdicts)]
    /\ generation \in [Scope -> Nat]
    /\ cache \subseteq EntryType
    /\ stage \in [Mutation -> Stages]
    /\ todo \in [Mutation -> SUBSET Scope]
    /\ index \in [Mutation -> [Scope -> Nat]]
    /\ clean \subseteq Mutation
    /\ invalidations \in [Scope -> SUBSET (Nat \X Nat)]
    /\ at \in [Reader -> Places]
    /\ scope \in [Reader -> Scope]
    /\ gen \in [Reader -> Nat]
    /\ value \in [Reader -> Nat]
    /\ known \in [Reader -> SUBSET (Nat \X Nat)]

\* A call of get that begins after an invalidation of its scope was accepted
\* answers with a state of the database no older than the mutation that was
\* invalidated, whatever fills of older reads are still under way.
NoOlderThanInvalidation ==
    \A r \in Reader : at[r] = "done" =>
        \A k \in known[r] : value[r] >= k[1]

Reflects(r, m) ==
    LET s == scope[r] IN
    index[m][s] > 0 => \E k \in index[m][s] .. Current(s) : Answer(s, k) = Answer(s, value[r])

\* What m gave through the group in scope s was detached again: s may be gone
\* from the scopes that m lists.
Detached(m, s) ==
    /\ kindOf[m] = "group-member-add"
    /\ \E n \in Mutation : kindOf[n] = "policy-detach" /\ index[n][s] >= index[m][s]

\* A get that begins after a mutation of a policy, a grant, an attachment or a
\* group was answered, its Redis calls having succeeded, returns what the user
\* could do at that commit or later, unless a later detach in the scope, which
\* invalidates for itself, hid the scope from the listing of the group.
AcknowledgedMutationIsSeen ==
    \A r \in Reader : at[r] = "done" =>
        \A m \in acknowledged[r] :
            kindOf[m] # "membership" /\ ~Detached(m, scope[r]) => Reflects(r, m)

\* Once mutations stop, what Redis serves under the current generations agrees
\* with the database for good, whatever Redis calls failed, whatever process
\* died before invalidating and whatever writes Redis lost.
EventuallyFresh ==
    <>[](\A e \in cache : e.generation = generation[e.scope] =>
            Answer(e.scope, e.index) = Answer(e.scope, Current(e.scope)))
=============================================================================
