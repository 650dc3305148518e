--------------------------- MODULE IamCacheProofs ---------------------------
(***************************************************************************)
(* For any number of scopes, mutations and readers: a get that begins      *)
(* after an accepted invalidation answers with no state of the database    *)
(* older than the mutation behind it, as long as Redis keeps what it       *)
(* accepted.                                                               *)
(*                                                                         *)
(* The argument: a generation is given to a mutation only after its commit,*)
(* so an answer computed or stored under a generation at least as new was  *)
(* read from PostgreSQL after that commit; and a get looks under a         *)
(* generation at least as new as every invalidation it must respect.       *)
(* Whatever Redis loses, stale answers only fade while no commit comes.    *)
(***************************************************************************)
EXTENDS IamCache, TLAPS

\* A mutation is invalidated after its commit, under a generation that exists.
Past ==
    \A s \in Scope : \A k \in invalidations[s] :
        k[1] <= Len(log[s]) /\ k[2] <= generation[s]

Committed ==
    \A m \in Mutation : \A s \in Scope : index[m][s] <= Len(log[s])

\* An answer under generation g is no older than what g or less invalidated.
Respects(s, g, i) == \A k \in invalidations[s] : k[2] <= g => k[1] <= i

EntriesRespect ==
    \A e \in cache :
        e.generation <= generation[e.scope] /\ Respects(e.scope, e.generation, e.index)

ReadersRespect ==
    \A r \in Reader :
        /\ known[r] \subseteq invalidations[scope[r]]
        /\ gen[r] <= generation[scope[r]]
        /\ at[r] \in {"lookup", "miss", "fill"} => \A k \in known[r] : k[2] <= gen[r]
        /\ at[r] = "fill" => Respects(scope[r], gen[r], value[r])

\* How old an answer may be.
AgeInv ==
    /\ Past
    /\ Committed
    /\ EntriesRespect
    /\ ReadersRespect
    /\ NoOlderThanInvalidation

IndInv == TypeOK /\ AgeInv

-----------------------------------------------------------------------------
(* Lemmas about single steps *)

\* What the database decides is a verdict.
LEMMA EffectiveType ==
    ASSUME NEW s \in Scope, NEW p \in [Scope -> Nat], NEW a, NEW g \in BOOLEAN,
           NEW ok \in BOOLEAN
    PROVE  Effective(s, p, a, g, ok) \in Verdicts
<1>1. [policy |-> p[s], viaGroup |-> g /\ s \in a] \in
         [policy : Nat, viaGroup : BOOLEAN]
  <2>1. p[s] \in Nat  OBVIOUS
  <2>2. (g /\ s \in a) \in BOOLEAN  OBVIOUS
  <2> QED  BY <2>1, <2>2
<1> QED  BY <1>1 DEF Effective, Verdicts

\* A history only grows, and has a verdict from the start.
LEMMA LogsGrow ==
    ASSUME TypeOK, NEW m \in Mutation, NEW kind, NEW changed,
           NEW scopes, NEW next, Commit(m, kind, changed, scopes, next),
           policy' \in [Scope -> Nat], member' \in BOOLEAN, active' \in BOOLEAN
    PROVE  \A x \in Scope : /\ Len(log[x]) \in Nat /\ Len(log'[x]) \in Nat
                            /\ Len(log[x]) <= Len(log'[x])
<1> DEFINE Now(x) == Effective(x, policy', attached', member', active')
<1>1. log' = [x \in Scope |->
            IF Now(x) = Answer(x, Current(x)) THEN log[x] ELSE Append(log[x], Now(x))]
  BY DEF Commit, Now
<1>2. \A x \in Scope : log[x] \in Seq(Verdicts)
  BY DEF TypeOK
<1>3. \A x \in Scope : Now(x) \in Verdicts
  BY EffectiveType DEF Now
<1> HIDE DEF Now
<1> QED  BY <1>1, <1>2, <1>3

\* A commit of any kind keeps the types.
LEMMA CommitTypes ==
    ASSUME TypeOK, NEW m \in Mutation, NEW kind, NEW changed,
           NEW scopes \in SUBSET Scope, NEW next \in Stages,
           policy' \in [Scope -> Nat], attached' \subseteq Scope,
           member' \in BOOLEAN, active' \in BOOLEAN,
           Commit(m, kind, changed, scopes, next)
    PROVE  /\ TypeOK'
           /\ \A x \in Scope : /\ Len(log[x]) \in Nat
                               /\ Len(log'[x]) \in Nat
                               /\ Len(log[x]) <= Len(log'[x])
<1> DEFINE Now(x) == Effective(x, policy', attached', member', active')
<1>1. log' = [x \in Scope |->
          IF Now(x) = Answer(x, Current(x)) THEN log[x] ELSE Append(log[x], Now(x))]
  BY DEF Commit, Now
<1>2. \A x \in Scope : Now(x) \in Verdicts
  BY EffectiveType
<1>3. \A x \in Scope : log[x] \in Seq(Verdicts)
  BY DEF TypeOK
<1> HIDE DEF Now
<1>4. log' \in [Scope -> Seq(Verdicts)]
  <2>1. \A x \in Scope : Append(log[x], Now(x)) \in Seq(Verdicts)
    BY <1>2, <1>3
  <2> QED  BY <1>1, <1>3, <2>1
<1>5. \A x \in Scope : /\ Len(log[x]) \in Nat
                       /\ Len(log'[x]) \in Nat
                       /\ Len(log[x]) <= Len(log'[x])
  BY LogsGrow
<1>6. index' \in [Mutation -> [Scope -> Nat]]
  BY <1>5 DEF TypeOK, Commit
<1> QED  BY <1>4, <1>5, <1>6 DEF TypeOK, Commit, readers, redis, Stages

\* A mutation is a commit of one kind.
LEMMA MutateCommits ==
    ASSUME TypeOK, NEW m \in Mutation, Mutate(m)
    PROVE  /\ policy' \in [Scope -> Nat] /\ attached' \subseteq Scope
           /\ member' \in BOOLEAN /\ active' \in BOOLEAN
           /\ \E kind, changed : \E scopes \in SUBSET Scope : \E next \in Stages :
                  Commit(m, kind, changed, scopes, next)
<1> DEFINE Commits == \E kind, changed : \E scopes \in SUBSET Scope : \E next \in Stages :
                          Commit(m, kind, changed, scopes, next)
<1>1. ASSUME NEW kind, NEW changed, NEW scopes \in SUBSET Scope, NEW next \in Stages,
             Commit(m, kind, changed, scopes, next)
      PROVE  Commits
  BY <1>1
<1>2. attached \in SUBSET Scope /\ {} \in SUBSET Scope /\ Scope \in SUBSET Scope
  BY DEF TypeOK
<1>3. "invalidating" \in Stages /\ "listing" \in Stages
  BY DEF Stages
<1> HIDE DEF Commits
<1>4. ASSUME NEW s \in Scope, ChangePolicy(m, s) PROVE Commits
  <2>1. Commit(m, "policy", {s}, {s}, "invalidating") /\ {s} \in SUBSET Scope
    BY <1>4 DEF ChangePolicy
  <2> QED  BY <1>1, <1>3, <2>1
<1>5. ASSUME NEW s \in Scope, Attach(m, s) PROVE Commits
  <2>1. Commit(m, "policy-attach", {s}, {s}, "invalidating") /\ {s} \in SUBSET Scope
    BY <1>5 DEF Attach
  <2> QED  BY <1>1, <1>3, <2>1
<1>6. ASSUME NEW s \in Scope, Detach(m, s) PROVE Commits
  <2>1. Commit(m, "policy-detach", {s}, {s}, "invalidating") /\ {s} \in SUBSET Scope
    BY <1>6 DEF Detach
  <2> QED  BY <1>1, <1>3, <2>1
<1>7. AddGroupMember(m) => Commits
  BY <1>1, <1>2, <1>3 DEF AddGroupMember
<1>8. SetMembership(m) => Commits
  BY <1>1, <1>2, <1>3 DEF SetMembership
<1>9. Commits
  BY <1>4, <1>5, <1>6, <1>7, <1>8 DEF Mutate
<1>10. /\ policy' \in [Scope -> Nat] /\ attached' \subseteq Scope
       /\ member' \in BOOLEAN /\ active' \in BOOLEAN
  <2>1. CASE \E s \in Scope : ChangePolicy(m, s)
    BY <2>1 DEF TypeOK, ChangePolicy
  <2>2. CASE \E s \in Scope : Attach(m, s) \/ Detach(m, s)
    BY <2>2 DEF TypeOK, Attach, Detach
  <2>3. CASE AddGroupMember(m) \/ SetMembership(m)
    BY <2>3 DEF TypeOK, AddGroupMember, SetMembership
  <2> QED  BY <2>1, <2>2, <2>3 DEF Mutate
<1> QED  BY <1>9, <1>10 DEF Commits

\* What Redis finds on its disk is of the types of what it had.
SavedTypes ==
    /\ saved = [generation |-> saved.generation, cache |-> saved.cache, events |-> saved.events]
    /\ saved.generation \in [Scope -> Nat]
    /\ saved.cache \subseteq EntryType

\* The entry a read writes, early or late.
EntryOf(r) == [scope |-> scope[r], generation |-> gen[r], index |-> value[r]]

\* A write adds that entry and no other.
LEMMA Stored ==
    ASSUME NEW r, Store(r)
    PROVE  cache' \subseteq cache \cup {EntryOf(r)}
BY DEF Store, EntryOf

\* The steps of a read.
LEMMA ReadTypes ==
    ASSUME TypeOK, NEW r \in Reader,
           \/ Begin(r) \/ Hit(r) \/ Miss(r) \/ ReadDatabase(r) \/ Fill(r)
           \/ RedisFails(r) \/ Fallback(r) \/ Return(r)
    PROVE  TypeOK' /\ UNCHANGED <<generation, saved>>
<1>1. at' \in [Reader -> Places] /\ UNCHANGED <<database, generation, saved, mutators>>
  BY DEF TypeOK, Begin, Hit, Miss, ReadDatabase, Fill, RedisFails, Fallback, Return, Move, Places,
         redis
<1>2. scope' \in [Reader -> Scope] /\ gen' \in [Reader -> Nat]
      /\ known' \in [Reader -> SUBSET (Nat \X Nat)]
  <2>1. CASE Begin(r)
    BY <2>1 DEF TypeOK, Begin
  <2>2. CASE Return(r)
    BY <2>2, ScopeAssumption DEF TypeOK, Return, AnyScope
  <2>3. CASE UNCHANGED <<scope, gen, known>>
    BY <2>3 DEF TypeOK
  <2> QED  BY <2>1, <2>2, <2>3 DEF Hit, Miss, ReadDatabase, Fill, RedisFails, Fallback
<1>3. value' \in [Reader -> Nat]
  <2>1. CASE Hit(r)
    BY <2>1 DEF TypeOK, Hit, Cached, EntryType
  <2>2. CASE ReadDatabase(r) \/ Fallback(r)
    <3>1. Current(scope[r]) \in Nat
      BY DEF TypeOK, Current
    <3> QED  BY <2>2, <3>1 DEF TypeOK, ReadDatabase, Fallback
  <2>3. CASE Return(r)
    BY <2>3 DEF TypeOK, Return
  <2>4. CASE UNCHANGED value
    BY <2>4 DEF TypeOK
  <2>5. CASE ReadDatabase(r) /\ ~active
    BY <2>4, <2>5 DEF ReadDatabase
  <2> QED  BY <2>1, <2>2, <2>3, <2>4, <2>5 DEF Begin, Miss, Fill, RedisFails
<1>4. cache' \subseteq EntryType
  <2>1. EntryOf(r) \in EntryType
    BY DEF TypeOK, EntryOf, EntryType
  <2>2. CASE Store(r)
    BY <2>1, <2>2, Stored DEF TypeOK
  <2>3. CASE UNCHANGED cache
    BY <2>3 DEF TypeOK
  <2> QED
    BY <2>2, <2>3
       DEF Begin, Hit, Miss, ReadDatabase, Fill, RedisFails, Fallback, Return, redis
<1> QED  BY <1>1, <1>2, <1>3, <1>4 DEF TypeOK, database, mutators

\* The steps of a mutation.
LEMMA MutationTypes ==
    ASSUME TypeOK, NEW m \in Mutation,
           \/ Mutate(m) \/ ListScopes(m) \/ InvalidateScope(m)
           \/ InvalidateFails(m) \/ Acknowledge(m)
    PROVE  TypeOK' /\ UNCHANGED <<cache, saved>>
<1>1. CASE Mutate(m)
  <2>1. PICK kind, changed : \E scopes \in SUBSET Scope : \E next \in Stages :
            Commit(m, kind, changed, scopes, next)
    BY <1>1, MutateCommits
  <2>2. PICK scopes \in SUBSET Scope, next \in Stages : Commit(m, kind, changed, scopes, next)
    BY <2>1
  <2>3. TypeOK'
    BY <1>1, <2>2, MutateCommits, CommitTypes
  <2> QED  BY <2>2, <2>3 DEF Commit, redis
<1>2. CASE ListScopes(m) \/ Acknowledge(m)
  BY <1>2 DEF TypeOK, ListScopes, Acknowledge, Stages, database, redis, readers
<1>3. CASE InvalidateScope(m) \/ InvalidateFails(m)
  <2>1. PICK s \in todo[m] :
            /\ InvalidateScript(m, s) \/ UNCHANGED <<redis, invalidations>>
            /\ todo' = [todo EXCEPT ![m] = @ \ {s}]
    BY <1>3 DEF InvalidateScope, InvalidateFails
  <2>2. s \in Scope /\ generation[s] \in Nat /\ index[m][s] \in Nat
    BY DEF TypeOK
  <2>3. clean' \subseteq clean /\ UNCHANGED <<stage, index, database, readers>>
    BY <1>3 DEF InvalidateScope, InvalidateFails
  <2>4. /\ generation' \in [Scope -> Nat] /\ invalidations' \in [Scope -> SUBSET (Nat \X Nat)]
        /\ UNCHANGED <<cache, saved>>
    <3>1. CASE UNCHANGED <<generation, cache, saved, invalidations>>
      BY <3>1 DEF TypeOK
    <3>2. CASE /\ generation' = [generation EXCEPT ![s] = @ + 1]
               /\ invalidations' = [invalidations EXCEPT ![s] =
                      @ \cup {<<index[m][s], generation[s] + 1>>}]
               /\ UNCHANGED <<cache, saved>>
      BY <2>2, <3>2 DEF TypeOK
    <3> QED  BY <2>1, <3>1, <3>2 DEF InvalidateScript, redis
  <2> QED  BY <2>1, <2>3, <2>4 DEF TypeOK, database, readers
<1> QED  BY <1>1, <1>2, <1>3

\* Every step, the restart of Redis from its disk included.
LEMMA TypesStep ==
    ASSUME TypeOK, [Next]_vars, Restart => SavedTypes
    PROVE  TypeOK'
<1>1. CASE \E e \in cache \cup saved.cache : Expire(e)
  BY <1>1 DEF TypeOK, Expire, database, mutators, readers
<1>2. CASE Fsync
  BY <1>2 DEF TypeOK, Fsync, database, mutators, readers
<1>3. CASE Restart
  BY <1>3 DEF TypeOK, SavedTypes, Restart, database, mutators, readers
<1>4. CASE UNCHANGED vars
  BY <1>4 DEF TypeOK, vars, database, redis, mutators, readers
<1> QED  BY <1>1, <1>2, <1>3, <1>4, ReadTypes, MutationTypes DEF Next

\* What is on the disk was in Redis.
LEMMA SavedStep ==
    ASSUME TypeOK, SavedTypes, [Next]_vars
    PROVE  SavedTypes'
<1>1. CASE UNCHANGED saved
  BY <1>1 DEF SavedTypes
<1>2. CASE \E e \in cache \cup saved.cache : Expire(e)
  <2>1. PICK e : saved' = [saved EXCEPT !.cache = @ \ {e}]
    BY <1>2 DEF Expire
  <2>2. saved' = [generation |-> saved.generation, cache |-> saved.cache \ {e},
                  events |-> saved.events]
    BY <2>1 DEF SavedTypes
  <2> QED  BY <2>2 DEF SavedTypes
<1>3. CASE Fsync
  BY <1>3 DEF TypeOK, SavedTypes, Fsync
<1>4. CASE Restart \/ UNCHANGED vars
  BY <1>1, <1>4 DEF Restart, vars, redis
<1> QED  BY <1>1, <1>2, <1>3, <1>4, ReadTypes, MutationTypes DEF Next

\* What is committed is in the history, and what a read holds stays there.
LEMMA CommitKeeps ==
    ASSUME IndInv, NEW m \in Mutation, NEW kind, NEW changed,
           NEW scopes \in SUBSET Scope, NEW next \in Stages,
           policy' \in [Scope -> Nat], attached' \subseteq Scope,
           member' \in BOOLEAN, active' \in BOOLEAN,
           Commit(m, kind, changed, scopes, next)
    PROVE  AgeInv'
<1>1. /\ TypeOK'
      /\ \A x \in Scope : /\ Len(log[x]) \in Nat
                          /\ Len(log'[x]) \in Nat
                          /\ Len(log[x]) <= Len(log'[x])
  BY CommitTypes DEF IndInv
<1>2. Past'
  BY <1>1 DEF IndInv, AgeInv, TypeOK, Past, Commit, redis
<1>3. Committed'
  BY <1>1 DEF IndInv, AgeInv, TypeOK, Committed, Commit
<1>4. EntriesRespect'
  BY DEF IndInv, AgeInv, EntriesRespect, Respects, Commit, redis
<1>5. ReadersRespect'
  BY DEF IndInv, AgeInv, ReadersRespect, Respects, Commit, redis, readers
<1>6. NoOlderThanInvalidation'
  BY DEF IndInv, AgeInv, NoOlderThanInvalidation, Commit, readers
<1> QED  BY <1>1, <1>2, <1>3, <1>4, <1>5, <1>6 DEF AgeInv

\* Every mutation of the database commits once.
LEMMA MutateKeeps ==
    ASSUME IndInv, NEW m \in Mutation, Mutate(m)
    PROVE  AgeInv'
<1>1. TypeOK
  BY DEF IndInv
<1>2. PICK kind, changed : \E scopes \in SUBSET Scope : \E next \in Stages :
          Commit(m, kind, changed, scopes, next)
  BY <1>1, MutateCommits
<1>3. PICK scopes \in SUBSET Scope, next \in Stages : Commit(m, kind, changed, scopes, next)
  BY <1>2
<1> QED  BY <1>1, <1>3, MutateCommits, CommitKeeps

\* The increment of a generation: entries and fills under older generations
\* owe nothing to the mutation that caused it.
LEMMA InvalidateKeeps ==
    ASSUME IndInv, NEW m \in Mutation, NEW s \in Scope,
           \/ InvalidateScript(m, s)
           \/ UNCHANGED <<redis, invalidations>>,
           todo' = [todo EXCEPT ![m] = @ \ {s}], clean' \subseteq clean,
           UNCHANGED <<stage, index, database, readers>>
    PROVE  AgeInv'
<1>1. CASE UNCHANGED <<generation, cache, invalidations>>
  <2>1. Past' /\ Committed' /\ EntriesRespect'
    BY <1>1 DEF IndInv, AgeInv, Past, Committed, EntriesRespect, Respects, database
  <2>2. ReadersRespect' /\ NoOlderThanInvalidation'
    BY <1>1 DEF IndInv, AgeInv, ReadersRespect, NoOlderThanInvalidation, Respects, readers
  <2> QED  BY <2>1, <2>2 DEF AgeInv
<1>2. CASE /\ generation' = [generation EXCEPT ![s] = @ + 1]
           /\ invalidations' = [invalidations EXCEPT ![s] =
                  @ \cup {<<index[m][s], generation[s] + 1>>}]
           /\ UNCHANGED cache
  <2>1. /\ generation[s] \in Nat
        /\ index[m][s] \in Nat
        /\ index[m][s] <= Len(log[s])
    BY DEF IndInv, AgeInv, TypeOK, Committed
  <2>2. \A x \in Scope : \A k \in invalidations'[x] :
            \/ k \in invalidations[x]
            \/ x = s /\ k[1] = index[m][s] /\ k[2] = generation[s] + 1
    BY <1>2 DEF IndInv, TypeOK
  <2>3. Past'
    BY <1>2, <2>1, <2>2 DEF IndInv, AgeInv, TypeOK, Past, database
  <2>4. Committed'
    BY DEF IndInv, AgeInv, Committed, database
  <2>5. \A x \in Scope, g \in Nat, i \in Nat :
            g <= generation[x] /\ Respects(x, g, i) => Respects(x, g, i)'
    BY <2>1, <2>2 DEF Respects
  <2>6. EntriesRespect'
    BY <1>2, <2>1, <2>5 DEF IndInv, AgeInv, TypeOK, EntryType, EntriesRespect
  <2>7. ReadersRespect'
    BY <1>2, <2>1, <2>5 DEF IndInv, AgeInv, TypeOK, ReadersRespect, readers
  <2>8. NoOlderThanInvalidation'
    BY DEF IndInv, AgeInv, NoOlderThanInvalidation, readers
  <2> QED  BY <2>3, <2>4, <2>6, <2>7, <2>8 DEF AgeInv
<1> QED  BY <1>1, <1>2 DEF InvalidateScript, redis

\* A step that only writes the entry of its read, if anything.
LEMMA StoreKeeps ==
    ASSUME IndInv, NEW r \in Reader, at[r] = "fill", Store(r),
           UNCHANGED <<generation, invalidations, log>>
    PROVE  EntriesRespect'
<1> DEFINE new == [scope |-> scope[r], generation |-> gen[r], index |-> value[r]]
<1>1. /\ new.generation <= generation[new.scope]
      /\ Respects(new.scope, new.generation, new.index)
  BY DEF IndInv, AgeInv, ReadersRespect
<1>2. \A e \in cache' : e \in cache \/ e = new
  BY DEF Store
<1> HIDE DEF new
<1> QED  BY <1>1, <1>2 DEF IndInv, AgeInv, EntriesRespect, Respects

-----------------------------------------------------------------------------
(* The steps *)

\* Nothing is cached or invalidated at the start.
LEMMA InitEstablishes == Init => IndInv
<1> SUFFICES ASSUME Init PROVE IndInv
  OBVIOUS
<1>1. AnyScope \in Scope
  BY ScopeAssumption DEF AnyScope
<1>2. \A s \in Scope : Effective(s, policy, attached, member, active) \in Verdicts
  <2>1. policy \in [Scope -> Nat] /\ member \in BOOLEAN /\ active \in BOOLEAN
    BY DEF Init
  <2> QED  BY <2>1, EffectiveType
<1>3. log \in [Scope -> Seq(Verdicts)]
  <2> DEFINE Now(s) == Effective(s, policy, attached, member, active)
  <2>1. \A s \in Scope : Now(s) \in Verdicts
    BY <1>2
  <2>2. log = [s \in Scope |-> <<Now(s)>>]
    BY DEF Init
  <2> HIDE DEF Now
  <2> QED  BY <2>1, <2>2
<1>4. TypeOK
  BY <1>1, <1>3 DEF Init, TypeOK, Places, Stages, EntryType
<1>5. Past /\ EntriesRespect
  BY DEF Init, Past, EntriesRespect
<1>6. Committed
  <2>1. \A s \in Scope : Len(log[s]) \in Nat
    BY <1>3
  <2> QED  BY <2>1 DEF Init, Committed
<1>7. ReadersRespect /\ NoOlderThanInvalidation
  BY <1>1 DEF Init, ReadersRespect, NoOlderThanInvalidation
<1> QED  BY <1>4, <1>5, <1>6, <1>7 DEF IndInv, AgeInv

\* The steps of a mutation after its commit.
LEMMA MutationKeeps ==
    ASSUME IndInv, NEW m \in Mutation,
           ListScopes(m) \/ InvalidateScope(m) \/ InvalidateFails(m) \/ Acknowledge(m)
    PROVE  AgeInv'
<1>1. CASE ListScopes(m) \/ Acknowledge(m)
  <2>1. UNCHANGED <<index, clean, invalidations, database, redis, readers>>
    BY <1>1 DEF ListScopes, Acknowledge
  <2>2. Past' /\ Committed' /\ EntriesRespect'
    BY <2>1 DEF IndInv, AgeInv, Past, Committed, EntriesRespect, Respects, database, redis
  <2>3. ReadersRespect' /\ NoOlderThanInvalidation'
    BY <2>1
    DEF IndInv, AgeInv, ReadersRespect, NoOlderThanInvalidation, Respects, redis, readers
  <2> QED  BY <2>2, <2>3 DEF AgeInv
<1>2. CASE InvalidateScope(m)
  <2>1. PICK s \in todo[m] : /\ InvalidateScript(m, s)
                             /\ todo' = [todo EXCEPT ![m] = @ \ {s}]
    BY <1>2 DEF InvalidateScope
  <2>2. s \in Scope
    BY DEF IndInv, TypeOK
  <2>3. clean' \subseteq clean /\ UNCHANGED <<stage, index, database, readers>>
    BY <1>2 DEF InvalidateScope
  <2> QED  BY <2>1, <2>2, <2>3, InvalidateKeeps
<1>3. CASE InvalidateFails(m)
  <2>1. PICK s \in todo[m] :
            /\ InvalidateScript(m, s) \/ UNCHANGED <<redis, invalidations>>
            /\ todo' = [todo EXCEPT ![m] = @ \ {s}]
    BY <1>3 DEF InvalidateFails
  <2>2. s \in Scope
    BY DEF IndInv, TypeOK
  <2>3. clean' \subseteq clean /\ UNCHANGED <<stage, index, database, readers>>
    BY <1>3 DEF InvalidateFails
  <2> QED  BY <2>1, <2>2, <2>3, InvalidateKeeps
<1> QED  BY <1>1, <1>2, <1>3

\* The steps of a read.  Only Fill and a failing SET touch what others see.
LEMMA ReadKeeps ==
    ASSUME IndInv, NEW r \in Reader,
           \/ Begin(r) \/ Hit(r) \/ Miss(r) \/ ReadDatabase(r)
           \/ Fallback(r) \/ Return(r)
    PROVE  AgeInv'
<1>1. UNCHANGED <<database, redis, mutators>>
  BY DEF Begin, Hit, Miss, ReadDatabase, Fallback, Return
<1>2. Past' /\ Committed' /\ EntriesRespect'
  BY <1>1
  DEF IndInv, AgeInv, Past, Committed, EntriesRespect, Respects, database, redis, mutators
<1>3. \A s \in Scope : Current(s) \in Nat
  BY DEF IndInv, TypeOK, Current
<1>4. CASE Begin(r)
  <2>1. ReadersRespect'
    BY <1>1, <1>4
    DEF IndInv, AgeInv, TypeOK, Past, ReadersRespect, Respects, Begin, Move, redis, mutators
  <2>2. NoOlderThanInvalidation'
    BY <1>4 DEF IndInv, AgeInv, TypeOK, NoOlderThanInvalidation, Begin, Move
  <2> QED  BY <1>2, <2>1, <2>2 DEF AgeInv
<1>5. CASE Hit(r)
  <2>1. PICK e \in Cached(r) : value' = [value EXCEPT ![r] = e.index]
    BY <1>5 DEF Hit
  <2>2. e \in cache /\ e.scope = scope[r] /\ e.generation = gen[r] /\ e.index \in Nat
    BY DEF IndInv, TypeOK, Cached, EntryType
  <2>3. ReadersRespect'
    BY <1>1, <1>5, <2>1
    DEF IndInv, AgeInv, TypeOK, ReadersRespect, Respects, Hit, Move, redis, mutators
  <2>4. \A k \in known[r] : e.index >= k[1]
    BY <1>5, <2>2
    DEF IndInv, AgeInv, TypeOK, EntriesRespect, ReadersRespect, Respects, Hit
  <2>5. NoOlderThanInvalidation'
    BY <1>5, <2>1, <2>4 DEF IndInv, AgeInv, TypeOK, NoOlderThanInvalidation, Hit, Move
  <2> QED  BY <1>2, <2>3, <2>5 DEF AgeInv
<1>6. CASE Miss(r)
  <2>1. ReadersRespect'
    BY <1>1, <1>6
    DEF IndInv, AgeInv, TypeOK, ReadersRespect, Respects, Miss, Move, redis, mutators
  <2>2. NoOlderThanInvalidation'
    BY <1>6 DEF IndInv, AgeInv, TypeOK, NoOlderThanInvalidation, Miss, Move
  <2> QED  BY <1>2, <2>1, <2>2 DEF AgeInv
<1>7. CASE ReadDatabase(r)
  <2>1. \A k \in invalidations[scope[r]] : k[1] <= Current(scope[r])
    BY DEF IndInv, AgeInv, TypeOK, Past, Current
  <2>2. ReadersRespect'
    BY <1>1, <1>7, <2>1
    DEF IndInv, AgeInv, TypeOK, ReadersRespect, Respects, ReadDatabase, Move, redis, mutators
  <2>3. NoOlderThanInvalidation'
    BY <1>7 DEF IndInv, AgeInv, TypeOK, NoOlderThanInvalidation, ReadDatabase, Move
  <2> QED  BY <1>2, <2>2, <2>3 DEF AgeInv
<1>8. CASE Fallback(r)
  <2>1. ReadersRespect'
    BY <1>1, <1>8
    DEF IndInv, AgeInv, TypeOK, ReadersRespect, Respects, Fallback, Move, redis, mutators
  <2>2. \A k \in known[r] : Current(scope[r]) >= k[1]
    BY <1>3 DEF IndInv, AgeInv, TypeOK, Past, ReadersRespect, Current
  <2>3. NoOlderThanInvalidation'
    BY <1>8, <2>2 DEF IndInv, AgeInv, TypeOK, NoOlderThanInvalidation, Fallback, Move
  <2> QED  BY <1>2, <2>1, <2>3 DEF AgeInv
<1>9. CASE Return(r)
  <2>1. AnyScope \in Scope
    BY ScopeAssumption DEF AnyScope
  <2>2. ReadersRespect'
    BY <1>1, <1>9, <2>1
    DEF IndInv, AgeInv, TypeOK, ReadersRespect, Respects, Return, Move, redis, mutators
  <2>3. NoOlderThanInvalidation'
    BY <1>9 DEF IndInv, AgeInv, TypeOK, NoOlderThanInvalidation, Return, Move
  <2> QED  BY <1>2, <2>2, <2>3 DEF AgeInv
<1> QED  BY <1>4, <1>5, <1>6, <1>7, <1>8, <1>9

\* The write of a read, late or not.
LEMMA WriteKeeps ==
    ASSUME IndInv, NEW r \in Reader, Fill(r) \/ RedisFails(r)
    PROVE  AgeInv'
<1>1. UNCHANGED <<scope, gen, value, known, generation, database, mutators>>
  BY DEF Fill, RedisFails
<1>2. EntriesRespect'
  <2>1. CASE at[r] = "fill" /\ Store(r)
    BY <1>1, <2>1, StoreKeeps DEF database, mutators
  <2>2. CASE UNCHANGED cache
    BY <1>1, <2>2 DEF IndInv, AgeInv, EntriesRespect, Respects, mutators
  <2> QED  BY <2>1, <2>2 DEF Fill, RedisFails
<1>3. \A q \in Reader : at'[q] = at[q] \/ (q = r /\ at'[q] \in {"done", "fallback"})
  BY DEF IndInv, TypeOK, Fill, RedisFails, Move, Places
<1>4. Past' /\ Committed'
  BY <1>1 DEF IndInv, AgeInv, Past, Committed, database, mutators
<1>5. ReadersRespect'
  BY <1>1, <1>3 DEF IndInv, AgeInv, ReadersRespect, Respects, mutators
<1>6. NoOlderThanInvalidation'
  <2>1. CASE Fill(r)
    <3>1. \A k \in known[r] : value[r] >= k[1]
      BY <2>1 DEF IndInv, AgeInv, TypeOK, ReadersRespect, Respects, Fill
    <3> QED  BY <1>1, <2>1, <3>1 DEF IndInv, AgeInv, TypeOK, NoOlderThanInvalidation, Fill, Move
  <2>2. CASE RedisFails(r)
    BY <1>1, <2>2 DEF IndInv, AgeInv, TypeOK, NoOlderThanInvalidation, RedisFails, Move
  <2> QED  BY <2>1, <2>2
<1> QED  BY <1>2, <1>4, <1>5, <1>6 DEF AgeInv

\* Entries only go.
LEMMA ExpireKeeps ==
    ASSUME IndInv, NEW e, Expire(e)
    PROVE  AgeInv'
<1>1. /\ cache' \subseteq cache
      /\ UNCHANGED <<generation, events, database, mutators, readers>>
  BY DEF Expire
<1>2. Past' /\ Committed' /\ EntriesRespect'
  BY <1>1 DEF IndInv, AgeInv, Past, Committed, EntriesRespect, Respects, database, mutators
<1>3. ReadersRespect' /\ NoOlderThanInvalidation'
  BY <1>1
  DEF IndInv, AgeInv, ReadersRespect, NoOlderThanInvalidation, Respects, mutators, readers
<1> QED  BY <1>2, <1>3 DEF AgeInv

\* Redis writes its append-only file.
LEMMA FsyncKeeps == ASSUME IndInv, Fsync PROVE AgeInv'
<1>1. UNCHANGED <<generation, cache, events, database, mutators, readers>>
  BY DEF Fsync
<1>2. Past' /\ Committed' /\ EntriesRespect'
  BY <1>1 DEF IndInv, AgeInv, Past, Committed, EntriesRespect, Respects, database, mutators
<1>3. ReadersRespect' /\ NoOlderThanInvalidation'
  BY <1>1
  DEF IndInv, AgeInv, ReadersRespect, NoOlderThanInvalidation, Respects, mutators, readers
<1> QED  BY <1>2, <1>3 DEF AgeInv

\* Every step but the restart of Redis keeps the invariant.
LEMMA NextKeeps == IndInv /\ [Next]_vars /\ [~Restart]_vars => IndInv'
<1> SUFFICES ASSUME IndInv, [Next]_vars, [~Restart]_vars PROVE IndInv'
  OBVIOUS
<1>0. TypeOK'
  <2>1. CASE UNCHANGED vars
    BY <2>1 DEF IndInv, TypeOK, vars, database, redis, mutators, readers
  <2>2. CASE ~Restart
    BY <2>2, TypesStep DEF IndInv
  <2> QED  BY <2>1, <2>2
<1>1. ASSUME NEW m \in Mutation,
             \/ Mutate(m) \/ ListScopes(m) \/ InvalidateScope(m)
             \/ InvalidateFails(m) \/ Acknowledge(m)
      PROVE  AgeInv'
  BY <1>1, MutateKeeps, MutationKeeps
<1>2. ASSUME NEW r \in Reader,
             \/ Begin(r) \/ Hit(r) \/ Miss(r) \/ ReadDatabase(r) \/ Fill(r)
             \/ RedisFails(r) \/ Fallback(r) \/ Return(r)
      PROVE  AgeInv'
  BY <1>2, ReadKeeps, WriteKeeps
<1>3. ASSUME NEW e \in cache \cup saved.cache, Expire(e) PROVE AgeInv'
  BY <1>0, <1>3, ExpireKeeps
<1>4. CASE Fsync
  BY <1>0, <1>4, FsyncKeeps DEF IndInv
<1>5. CASE UNCHANGED vars
  <2>1. Past' /\ Committed' /\ EntriesRespect'
    BY <1>5 DEF IndInv, AgeInv, Past, Committed, EntriesRespect, Respects, vars, database,
                redis, mutators
  <2>2. ReadersRespect' /\ NoOlderThanInvalidation'
    BY <1>5 DEF IndInv, AgeInv, ReadersRespect, NoOlderThanInvalidation, Respects, vars,
                redis, mutators, readers
  <2> QED  BY <1>0, <2>1, <2>2 DEF AgeInv, IndInv
<1> QED  BY <1>0, <1>1, <1>2, <1>3, <1>4, <1>5 DEF Next, IndInv

-----------------------------------------------------------------------------
(* The theorems *)

\* The inductive invariant holds in every state of the cache as long as Redis
\* does not restart from a file that lacks writes it had accepted.
THEOREM CacheInvariant == Spec /\ [][~Restart]_vars => []IndInv
<1>1. Init => IndInv
  BY InitEstablishes
<1>2. IndInv /\ [Next]_vars /\ [~Restart]_vars => IndInv'
  BY NextKeeps
<1> QED  BY <1>1, <1>2, PTL DEF Spec

\* Every variable an answer depends on keeps its type, whatever Redis loses.
THEOREM TypeCorrect == Spec => []TypeOK
<1>1. Init => TypeOK /\ SavedTypes
  <2>1. Init => SavedTypes
    BY DEF Init, SavedTypes, EntryType
  <2> QED  BY <2>1, InitEstablishes DEF IndInv
<1>2. TypeOK /\ SavedTypes /\ [Next]_vars => TypeOK' /\ SavedTypes'
  BY TypesStep, SavedStep
<1> QED  BY <1>1, <1>2, PTL DEF Spec

\* A get that begins after an accepted invalidation answers with no state of
\* the database older than the mutation behind it, for any number of scopes,
\* mutations and concurrent reads, and whichever Redis calls fail.
THEOREM AnswersAreFresh ==
    Spec /\ [][~Restart]_vars => []NoOlderThanInvalidation
<1>1. IndInv => NoOlderThanInvalidation
  BY DEF IndInv, AgeInv
<1> QED  BY <1>1, CacheInvariant, PTL

-----------------------------------------------------------------------------
(* Mutations that were answered *)

\* The requests have ids of their own.
DistinctIds == \A m, n \in Mutation : RequestIdOf[m] = RequestIdOf[n] => m = n

\* What m owes to scope s: the premise of AcknowledgedMutationIsSeen.
Owes(m, s) ==
    /\ kindOf[m] # "membership"
    /\ ~Detached(m, s)
    /\ index[m][s] > 0

\* The scope is invalidated for m, or for a mutation that came after it.
Told(m, s) == \E k \in invalidations[s] : index[m][s] <= k[1]

\* An event that Redis has seen was counted once, for the mutation of its id.
EventsCount ==
    \A e \in events :
        /\ e.scope \in Scope
        /\ \A m \in Mutation : e.id = RequestIdOf[m] => stage[m] # "idle" /\ Told(m, e.scope)

\* The scopes that m changed are still to be listed, to be invalidated, or are.
Invalidates(m) ==
    /\ stage[m] = "idle" => kindOf[m] = "none"
    /\ stage[m] = "listing" =>
            /\ kindOf[m] = "group-member-add"
            /\ \A s \in Scope : Owes(m, s) => s \in attached
    /\ stage[m] \in {"invalidating", "answered"} /\ m \in clean =>
            \A s \in Scope : Owes(m, s) => s \in todo[m] \/ Told(m, s)
    /\ stage[m] = "answered" => todo[m] = {}

\* A get knows of an invalidation for every mutation answered before it, and
\* answers with a state of the database that exists.
KnowsOf(r) ==
    /\ \A m \in acknowledged[r] :
        /\ m \in Mutation /\ stage[m] = "answered"
        /\ Owes(m, scope[r]) => \E k \in known[r] : index[m][scope[r]] <= k[1]
    /\ at[r] \in {"fill", "done"} => value[r] <= Len(log[scope[r]])

EntriesExist == \A e \in cache : e.index <= Len(log[e.scope])

SeenInv ==
    /\ kindOf \in [Mutation -> Kinds \cup {"none"}]
    /\ acknowledged \in [Reader -> SUBSET Mutation]
    /\ EventsCount
    /\ \A m \in Mutation : Invalidates(m)
    /\ \A r \in Reader : KnowsOf(r)
    /\ EntriesExist

\* At the start nothing is changed, read or cached.
LEMMA SeenInitially == ASSUME Init PROVE SeenInv
BY DEF Init, SeenInv, EventsCount, Invalidates, KnowsOf, EntriesExist

\* A step that keeps the mutations and what was invalidated keeps what is owed.
LEMMA OwedKeeps ==
    ASSUME SeenInv, UNCHANGED <<stage, kindOf, index, todo, clean, invalidations, events>>,
           attached \subseteq attached'
    PROVE  EventsCount' /\ \A m \in Mutation : Invalidates(m)'
BY DEF SeenInv, EventsCount, Invalidates, Owes, Detached, Told

\* A commit: the others have changed what they had changed, and the scopes
\* that it changes are those it invalidates or lists.
LEMMA SeenCommit ==
    ASSUME IndInv, SeenInv, NEW m \in Mutation, NEW kind, NEW changed, NEW scopes, NEW next,
           Commit(m, kind, changed, scopes, next),
           policy' \in [Scope -> Nat], member' \in BOOLEAN, active' \in BOOLEAN,
           attached \subseteq attached' \cup changed,
           attached \subseteq attached' \/ kind = "policy-detach",
           \/ kind = "membership" /\ next = "invalidating"
           \/ changed \subseteq scopes /\ next = "invalidating"
           \/ changed \subseteq attached' /\ next = "listing" /\ kind = "group-member-add"
    PROVE  SeenInv'
<1>1. /\ stage[m] = "idle" /\ kind \in Kinds
      /\ UNCHANGED <<clean, invalidations, generation, cache, events, at, scope, gen, value, known,
                     acknowledged>>
  BY DEF Commit, redis, readers
<1>2. /\ stage'[m] = next /\ kindOf'[m] = kind /\ todo'[m] = scopes
      /\ \A s \in Scope : /\ index'[m][s] > 0 => s \in changed
                          /\ s \in changed => index'[m][s] = Len(log'[s])
      /\ \A n \in Mutation \ {m} : /\ stage'[n] = stage[n] /\ todo'[n] = todo[n]
                                   /\ index'[n] = index[n] /\ kindOf'[n] = kindOf[n]
  <2>1. /\ stage \in [Mutation -> Stages] /\ todo \in [Mutation -> SUBSET Scope]
        /\ index \in [Mutation -> [Scope -> Nat]] /\ kindOf \in [Mutation -> Kinds \cup {"none"}]
    BY DEF IndInv, TypeOK, SeenInv
  <2>2. QED
    BY <2>1 DEF Commit
<1>3. EventsCount'
  BY <1>1, <1>2 DEF SeenInv, EventsCount, Told
<1>4. ASSUME NEW n \in Mutation \ {m}, NEW s \in Scope, Owes(n, s)'
      PROVE  /\ Owes(n, s)
             /\ kindOf[n] = "group-member-add" /\ s \in attached => s \in attached'
  <2>1. kindOf[m] = "none"
    BY <1>1 DEF SeenInv, Invalidates
  <2>2. Owes(n, s)
    <3>1. ASSUME NEW o \in Mutation, kindOf[o] = "policy-detach", index[o][s] >= index[n][s],
                 kindOf[n] = "group-member-add"
          PROVE  FALSE
      <4>1. o \in Mutation \ {m}
        BY <2>1, <3>1
      <4>2. QED
        BY <1>2, <1>4, <3>1, <4>1 DEF Owes, Detached
    <3>2. QED
      BY <1>2, <1>4, <3>1 DEF Owes, Detached
  <2>3. ASSUME s \in attached, s \notin attached', kindOf[n] = "group-member-add" PROVE FALSE
    <3>1. s \in changed /\ kindOf'[m] = "policy-detach"
      BY <1>2, <2>3
    <3>2. /\ index[n][s] \in Nat /\ Len(log[s]) \in Nat /\ Len(log'[s]) \in Nat
          /\ index[n][s] <= Len(log[s]) /\ Len(log[s]) <= Len(log'[s])
      <4>1. index[n][s] \in Nat /\ index[n][s] <= Len(log[s])
        BY DEF IndInv, AgeInv, TypeOK, Committed
      <4>2. QED
        BY <4>1, LogsGrow DEF IndInv
    <3>3. index'[m][s] >= index'[n][s]
      BY <1>2, <3>1, <3>2
    <3>4. QED
      BY <1>2, <1>4, <2>3, <3>1, <3>3 DEF Owes, Detached
  <2>4. QED
    BY <2>2, <2>3
<1>5. ASSUME NEW n \in Mutation \ {m} PROVE Invalidates(n)'
  <2>1. Invalidates(n)
    BY DEF SeenInv
  <2>2. \A s \in Scope : Told(n, s)' <=> Told(n, s)
    BY <1>1, <1>2 DEF Told
  <2>3. QED
    BY <1>1, <1>2, <1>4, <2>1, <2>2 DEF Invalidates
<1>6. Invalidates(m)'
  <2>1. \A s \in Scope : Owes(m, s)' => s \in changed /\ kind # "membership"
    BY <1>2 DEF Owes
  <2>2. QED
    BY <1>1, <1>2, <2>1 DEF Invalidates
<1>7. ASSUME NEW r \in Reader PROVE KnowsOf(r)'
  <2>1. scope[r] \in Scope /\ value[r] \in Nat
    BY DEF IndInv, TypeOK
  <2>2. KnowsOf(r)
    BY DEF SeenInv
  <2>3. at[r] \in {"fill", "done"} => value[r] <= Len(log'[scope[r]])
    BY <2>1, <2>2, LogsGrow DEF KnowsOf, IndInv
  <2>4. \A n \in acknowledged[r] : n \in Mutation \ {m}
    BY <1>1, <2>2 DEF KnowsOf
  <2>5. QED
    BY <1>1, <1>2, <1>4, <2>1, <2>2, <2>3, <2>4 DEF KnowsOf
<1>8. EntriesExist'
  <2>1. ASSUME NEW e \in cache PROVE e.index <= Len(log'[e.scope])
    <3>1. e.scope \in Scope /\ e.index \in Nat /\ e.index <= Len(log[e.scope])
      BY DEF IndInv, AgeInv, TypeOK, EntryType, SeenInv, EntriesExist
    <3>2. QED
      BY <3>1, LogsGrow DEF IndInv
  <2>2. QED
    BY <1>1, <2>1 DEF EntriesExist
<1>9. /\ kindOf' \in [Mutation -> Kinds \cup {"none"}]
      /\ acknowledged' \in [Reader -> SUBSET Mutation]
  BY <1>1 DEF Commit, SeenInv
<1>10. QED
  BY <1>3, <1>5, <1>6, <1>7, <1>8, <1>9 DEF SeenInv

\* Every mutation of the database commits once.
LEMMA SeenMutate ==
    ASSUME IndInv, SeenInv, NEW m \in Mutation, Mutate(m) PROVE SeenInv'
<1>1. /\ policy \in [Scope -> Nat] /\ attached \subseteq Scope
      /\ member \in BOOLEAN /\ active \in BOOLEAN
  BY DEF IndInv, TypeOK
<1>2. ASSUME NEW s \in Scope, ChangePolicy(m, s) PROVE SeenInv'
  BY <1>1, <1>2, SeenCommit DEF ChangePolicy
<1>3. ASSUME NEW s \in Scope, Attach(m, s) PROVE SeenInv'
  BY <1>1, <1>3, SeenCommit DEF Attach
<1>4. ASSUME NEW s \in Scope, Detach(m, s) PROVE SeenInv'
  BY <1>1, <1>4, SeenCommit DEF Detach
<1>5. CASE AddGroupMember(m)
  BY <1>1, <1>5, SeenCommit DEF AddGroupMember
<1>6. CASE SetMembership(m)
  BY <1>1, <1>6, SeenCommit DEF SetMembership
<1>7. QED
  BY <1>2, <1>3, <1>4, <1>5, <1>6 DEF Mutate

\* One scope is invalidated, or its call fails and the mutation is not clean.
LEMMA SeenInvalidate ==
    ASSUME DistinctIds, IndInv, SeenInv, NEW m \in Mutation, stage[m] = "invalidating",
           NEW s \in todo[m],
           \/ InvalidateScript(m, s) /\ clean' \in {clean, clean \ {m}}
           \/ UNCHANGED <<redis, invalidations>> /\ clean' = clean \ {m},
           todo' = [todo EXCEPT ![m] = @ \ {s}],
           UNCHANGED <<stage, kindOf, index, database, readers>>
    PROVE  SeenInv'
<1>1. /\ s \in Scope /\ index[m][s] \in Nat /\ generation[s] \in Nat
      /\ invalidations \in [Scope -> SUBSET (Nat \X Nat)]
      /\ todo \in [Mutation -> SUBSET Scope]
  BY DEF IndInv, TypeOK
<1>2. \A x \in Scope : invalidations[x] \subseteq invalidations'[x]
  BY <1>1 DEF InvalidateScript, redis
<1>3. \A n \in Mutation, x \in Scope : Told(n, x) => Told(n, x)'
  BY <1>2 DEF Told
<1>4. CASE InvalidateScript(m, s)
  <2>1. Told(m, s)' /\ EventsCount'
    <3>1. CASE Event(m, s) \in events
      <4>1. Event(m, s).scope = s /\ Event(m, s).id = RequestIdOf[m]
        BY DEF Event
      <4>2. Told(m, s)
        BY <3>1, <4>1 DEF SeenInv, EventsCount
      <4>3. events' = events
        BY <1>4, <3>1 DEF InvalidateScript
      <4>4. ASSUME NEW e \in events, NEW n \in Mutation, e.id = RequestIdOf[n]
            PROVE  e.scope \in Scope /\ stage[n] # "idle" /\ Told(n, e.scope)'
        <5>1. e.scope \in Scope /\ stage[n] # "idle" /\ Told(n, e.scope)
          BY <4>4 DEF SeenInv, EventsCount
        <5>2. QED
          BY <1>3, <5>1
      <4>5. \A e \in events : e.scope \in Scope
        BY DEF SeenInv, EventsCount
      <4>6. QED
        BY <1>1, <1>3, <4>2, <4>3, <4>4, <4>5 DEF EventsCount
    <3>2. CASE Event(m, s) \notin events
      <4>1. /\ events' = events \cup {Event(m, s)}
            /\ invalidations'[s] = invalidations[s] \cup {<<index[m][s], generation[s] + 1>>}
        BY <1>1, <1>4, <3>2 DEF InvalidateScript
      <4>2. <<index[m][s], generation[s] + 1>>[1] = index[m][s]
        OBVIOUS
      <4>3. Told(m, s)'
        <5>1. <<index[m][s], generation[s] + 1>> \in invalidations'[s]
          BY <4>1
        <5>2. index'[m][s] <= <<index[m][s], generation[s] + 1>>[1]
          BY <1>1, <4>2
        <5>3. QED
          BY <5>1, <5>2 DEF Told
      <4>4. Event(m, s).scope = s /\ Event(m, s).id = RequestIdOf[m]
        BY DEF Event
      <4>5. ASSUME NEW e \in events'
            PROVE  /\ e.scope \in Scope
                   /\ \A n \in Mutation : e.id = RequestIdOf[n] =>
                            stage[n] # "idle" /\ Told(n, e.scope)'
        <5>1. CASE e \in events
          BY <1>3, <5>1 DEF SeenInv, EventsCount
        <5>2. CASE e = Event(m, s)
          BY <1>1, <4>3, <4>4, <5>2 DEF DistinctIds
        <5>3. QED
          BY <4>1, <5>1, <5>2
      <4>6. QED
        BY <4>3, <4>5 DEF EventsCount
    <3>3. QED
      BY <3>1, <3>2
  <2>2. ASSUME NEW n \in Mutation PROVE Invalidates(n)'
    <3>1. \A x \in todo[n] : x \in todo'[n] \/ Told(n, x)'
      BY <1>1, <2>1
    <3>2. stage[n] = "answered" => todo'[n] = {}
      BY <1>1 DEF SeenInv, Invalidates
    <3>3. Invalidates(n) /\ clean' \subseteq clean
      BY <1>4 DEF SeenInv
    <3>4. ASSUME NEW x \in Scope, stage[n] \in {"invalidating", "answered"}, n \in clean, Owes(n, x)
          PROVE  x \in todo'[n] \/ Told(n, x)'
      BY <1>3, <3>1, <3>3, <3>4 DEF Invalidates
    <3>5. QED
      BY <3>2, <3>3, <3>4 DEF Invalidates, Owes, Detached, database
  <2>3. cache' = cache
    BY <1>4 DEF InvalidateScript
  <2>4. QED
    BY <2>1, <2>2, <2>3 DEF SeenInv, KnowsOf, EntriesExist, Owes, Detached, database, readers
<1>5. CASE UNCHANGED <<redis, invalidations>> /\ clean' = clean \ {m}
  <2>1. EventsCount'
    BY <1>5 DEF SeenInv, EventsCount, Told, redis
  <2>2. ASSUME NEW n \in Mutation PROVE Invalidates(n)'
    BY <1>1, <1>5 DEF SeenInv, Invalidates, Owes, Detached, Told, database
  <2>3. QED
    BY <1>5, <2>1, <2>2 DEF SeenInv, KnowsOf, EntriesExist, Owes, Detached, database, readers, redis
<1>6. QED
  BY <1>4, <1>5

\* The steps of a mutation after its commit.
LEMMA SeenMutation ==
    ASSUME DistinctIds, IndInv, SeenInv, NEW m \in Mutation,
           ListScopes(m) \/ InvalidateScope(m) \/ InvalidateFails(m) \/ Acknowledge(m)
    PROVE  SeenInv'
<1>1. stage \in [Mutation -> Stages] /\ todo \in [Mutation -> SUBSET Scope]
  BY DEF IndInv, TypeOK
<1>2. CASE ListScopes(m) \/ Acknowledge(m)
  <2>1. UNCHANGED <<kindOf, index, clean, invalidations, database, redis, readers>>
    BY <1>2 DEF ListScopes, Acknowledge
  <2>2. /\ stage[m] \in {"listing", "invalidating"}
        /\ stage'[m] \in {"invalidating", "answered"}
        /\ \A n \in Mutation \ {m} : stage'[n] = stage[n] /\ todo'[n] = todo[n]
    BY <1>1, <1>2 DEF ListScopes, Acknowledge
  <2>3. EventsCount'
    BY <2>1, <2>2 DEF SeenInv, EventsCount, Told, redis
  <2>4. ASSUME NEW n \in Mutation \ {m} PROVE Invalidates(n)'
    BY <2>1, <2>2 DEF SeenInv, Invalidates, Owes, Detached, Told, database
  <2>5. Invalidates(m)'
    <3>1. CASE ListScopes(m)
      <4>1. stage[m] = "listing" /\ stage'[m] = "invalidating" /\ todo'[m] = attached
        BY <1>1, <3>1 DEF ListScopes
      <4>2. QED
        BY <2>1, <4>1 DEF SeenInv, Invalidates, Owes, Detached
    <3>2. CASE Acknowledge(m)
      <4>1. stage[m] = "invalidating" /\ stage'[m] = "answered" /\ todo[m] = {} /\ todo' = todo
        BY <1>1, <3>2 DEF Acknowledge
      <4>2. QED
        BY <2>1, <4>1 DEF SeenInv, Invalidates, Owes, Detached, Told
    <3>3. QED
      BY <1>2, <3>1, <3>2
  <2>6. ASSUME NEW r \in Reader PROVE KnowsOf(r)'
    BY <2>1, <2>2 DEF SeenInv, KnowsOf, Owes, Detached, database, readers
  <2>7. QED
    BY <2>1, <2>3, <2>4, <2>5, <2>6 DEF SeenInv, EntriesExist, database, redis, readers
<1>3. CASE InvalidateScope(m)
  <2>1. PICK s \in todo[m] : /\ InvalidateScript(m, s)
                             /\ todo' = [todo EXCEPT ![m] = @ \ {s}]
    BY <1>3 DEF InvalidateScope
  <2>2. /\ stage[m] = "invalidating" /\ clean' = clean
        /\ UNCHANGED <<stage, kindOf, index, database, readers>>
    BY <1>3 DEF InvalidateScope
  <2>3. QED
    BY <2>1, <2>2, SeenInvalidate
<1>4. CASE InvalidateFails(m)
  <2>1. PICK s \in todo[m] :
            /\ InvalidateScript(m, s) \/ UNCHANGED <<redis, invalidations>>
            /\ todo' = [todo EXCEPT ![m] = @ \ {s}]
    BY <1>4 DEF InvalidateFails
  <2>2. /\ stage[m] = "invalidating" /\ clean' = clean \ {m}
        /\ UNCHANGED <<stage, kindOf, index, database, readers>>
    BY <1>4 DEF InvalidateFails
  <2>3. QED
    BY <2>1, <2>2, SeenInvalidate
<1>5. QED
  BY <1>2, <1>3, <1>4

\* A read or an entry that changes nothing of the mutations.
LEMMA ReadersOnly ==
    ASSUME SeenInv, UNCHANGED <<database, mutators, events>>,
           acknowledged' \in [Reader -> SUBSET Mutation],
           \A r \in Reader : KnowsOf(r)', EntriesExist'
    PROVE  SeenInv'
BY OwedKeeps DEF SeenInv, database, mutators

\* A get that begins knows of what was invalidated for the mutations answered;
\* it answers with an entry, or with PostgreSQL, that exist.
LEMMA SeenRead ==
    ASSUME IndInv, SeenInv, NEW r \in Reader,
           \/ Begin(r) \/ Hit(r) \/ Miss(r) \/ ReadDatabase(r) \/ Fill(r)
           \/ RedisFails(r) \/ Fallback(r) \/ Return(r)
    PROVE  SeenInv'
<1> USE DEF Begin, Hit, Miss, ReadDatabase, Fill, RedisFails, Fallback, Return
<1>1. UNCHANGED <<database, mutators, events, generation, saved>>
  BY DEF redis
<1>2. /\ at \in [Reader -> Places] /\ scope \in [Reader -> Scope] /\ value \in [Reader -> Nat]
      /\ gen \in [Reader -> Nat] /\ known \in [Reader -> SUBSET (Nat \X Nat)]
      /\ cache \subseteq EntryType /\ clean \subseteq Mutation
      /\ acknowledged \in [Reader -> SUBSET Mutation]
  BY DEF IndInv, TypeOK, SeenInv
<1>3. EntriesExist'
  <2>1. CASE UNCHANGED cache
    BY <1>1, <2>1 DEF SeenInv, EntriesExist, database
  <2>2. CASE at[r] = "fill" /\ Store(r)
    <3> DEFINE new == [scope |-> scope[r], generation |-> gen[r], index |-> value[r]]
    <3>1. \A e \in cache' : e \in cache \/ e = new
      BY <2>2 DEF Store
    <3>2. new.index <= Len(log[new.scope])
      BY <2>2 DEF SeenInv, KnowsOf
    <3> HIDE DEF new
    <3>3. QED
      BY <1>1, <3>1, <3>2 DEF SeenInv, EntriesExist, database
  <2>3. QED
    BY <2>1, <2>2 DEF redis
<1>4. ASSUME NEW q \in Reader \ {r} PROVE KnowsOf(q)'
  <2>1. /\ at'[q] = at[q] /\ scope'[q] = scope[q] /\ value'[q] = value[q] /\ known'[q] = known[q]
        /\ acknowledged'[q] = acknowledged[q]
    BY <1>2 DEF Move
  <2>2. QED
    BY <1>1, <2>1 DEF SeenInv, KnowsOf, Owes, Detached, database, mutators
<1>5. KnowsOf(r)'
  <2>1. KnowsOf(r) /\ \A m \in Mutation : Invalidates(m)
    BY DEF SeenInv
  <2>2. scope[r] \in Scope /\ value[r] \in Nat /\ Len(log[scope[r]]) \in Nat
    BY <1>2 DEF IndInv, TypeOK
  <2>3. ASSUME scope'[r] = scope[r], known'[r] = known[r], acknowledged'[r] = acknowledged[r],
               at'[r] \in {"fill", "done"} => value'[r] <= Len(log[scope[r]])
        PROVE  KnowsOf(r)'
    BY <1>1, <2>1, <2>3 DEF KnowsOf, Owes, Detached, database, mutators
  <2>4. CASE Begin(r)
    <3>1. PICK s \in Scope : /\ scope' = [scope EXCEPT ![r] = s]
                             /\ known' = [known EXCEPT ![r] = invalidations[s]]
      BY <2>4
    <3>2. scope'[r] = s /\ known'[r] = invalidations[s] /\ at'[r] = "lookup"
      BY <1>2, <2>4, <3>1 DEF Move
    <3>3. \A m \in acknowledged'[r] : m \in clean /\ m \in Mutation /\ stage[m] = "answered"
      <4>1. clean \subseteq Mutation
        BY DEF IndInv, TypeOK
      <4>2. acknowledged'[r] \subseteq {m \in clean : stage[m] = "answered"}
        BY <1>2, <2>4
      <4>3. QED
        BY <4>1, <4>2
    <3>4. ASSUME NEW m \in acknowledged'[r]
          PROVE  Owes(m, s) => \E k \in invalidations[s] : index[m][s] <= k[1]
      BY <2>1, <3>3 DEF Invalidates, Told
    <3>5. QED
      BY <1>1, <3>2, <3>3, <3>4 DEF KnowsOf, Owes, Detached, database, mutators
  <2>5. CASE Hit(r)
    <3>1. PICK e \in Cached(r) : value' = [value EXCEPT ![r] = e.index]
      BY <2>5
    <3>2. e.index <= Len(log[scope[r]])
      BY DEF Cached, SeenInv, EntriesExist
    <3>3. value'[r] = e.index
      BY <1>2, <3>1
    <3>4. QED
      BY <2>3, <2>5, <3>2, <3>3
  <2>6. CASE Miss(r)
    <3>1. at'[r] = "miss"
      BY <1>2, <2>6 DEF Move
    <3>2. QED
      BY <2>3, <2>6, <3>1
  <2>7. CASE ReadDatabase(r)
    <3>1. \/ at'[r] = "fallback"
          \/ value'[r] = Len(log[scope[r]])
      BY <1>2, <2>7 DEF Move, Current
    <3>2. QED
      BY <2>2, <2>3, <2>7, <3>1
  <2>8. CASE Fill(r)
    <3>1. at[r] = "fill"
      BY <2>8
    <3>2. QED
      BY <2>1, <2>3, <2>8, <3>1 DEF KnowsOf
  <2>9. CASE RedisFails(r)
    <3>1. at'[r] = "fallback"
      BY <1>2, <2>9 DEF Move
    <3>2. QED
      BY <2>3, <2>9, <3>1
  <2>10. CASE Fallback(r)
    <3>1. value'[r] = Len(log[scope[r]])
      BY <1>2, <2>10 DEF Current
    <3>2. QED
      BY <2>2, <2>3, <2>10, <3>1
  <2>11. CASE Return(r)
    <3>1. at'[r] = "idle" /\ acknowledged'[r] \subseteq {}
      BY <1>2, <2>11 DEF Move
    <3>2. QED
      BY <3>1 DEF KnowsOf
  <2>12. QED
    BY <2>4, <2>5, <2>6, <2>7, <2>8, <2>9, <2>10, <2>11
<1>6. acknowledged' \in [Reader -> SUBSET Mutation]
  BY <1>2
<1>7. QED
  BY <1>1, <1>3, <1>4, <1>5, <1>6, ReadersOnly

\* Entries only go, and Redis writes its file: nothing else moves.
LEMMA SeenRedis ==
    ASSUME SeenInv, Fsync \/ (\E e : Expire(e)) PROVE SeenInv'
<1>1. /\ UNCHANGED <<events, database, mutators, readers>>
      /\ cache' \subseteq cache
  BY DEF Fsync, Expire
<1>2. EntriesExist'
  BY <1>1 DEF SeenInv, EntriesExist, database
<1>3. ASSUME NEW r \in Reader PROVE KnowsOf(r)'
  BY <1>1 DEF SeenInv, KnowsOf, Owes, Detached, database, mutators, readers
<1>4. acknowledged' \in [Reader -> SUBSET Mutation]
  BY <1>1 DEF SeenInv, readers
<1>5. QED
  BY <1>1, <1>2, <1>3, <1>4, ReadersOnly

\* Every step but the restart of Redis keeps it.
LEMMA SeenNext ==
    ASSUME DistinctIds, IndInv, SeenInv, [Next]_vars, [~Restart]_vars
    PROVE  SeenInv'
<1>1. ASSUME NEW m \in Mutation,
             \/ Mutate(m) \/ ListScopes(m) \/ InvalidateScope(m)
             \/ InvalidateFails(m) \/ Acknowledge(m)
      PROVE  SeenInv'
  BY <1>1, SeenMutate, SeenMutation
<1>2. ASSUME NEW r \in Reader,
             \/ Begin(r) \/ Hit(r) \/ Miss(r) \/ ReadDatabase(r) \/ Fill(r)
             \/ RedisFails(r) \/ Fallback(r) \/ Return(r)
      PROVE  SeenInv'
  BY <1>2, SeenRead
<1>3. CASE Fsync \/ \E e \in cache \cup saved.cache : Expire(e)
  BY <1>3, SeenRedis
<1>4. CASE UNCHANGED vars
  <2>1. UNCHANGED <<events, cache, database, mutators, readers>>
    BY <1>4 DEF vars, redis
  <2>2. EntriesExist'
    BY <2>1 DEF SeenInv, EntriesExist, database
  <2>3. ASSUME NEW r \in Reader PROVE KnowsOf(r)'
    BY <2>1 DEF SeenInv, KnowsOf, Owes, Detached, database, mutators, readers
  <2>4. acknowledged' \in [Reader -> SUBSET Mutation]
    BY <2>1 DEF SeenInv, readers
  <2>5. QED
    BY <2>1, <2>2, <2>3, <2>4, ReadersOnly
<1>5. QED
  BY <1>1, <1>2, <1>3, <1>4 DEF Next

\* A read that is done holds a state of the database that exists, and one no
\* older than what it knows of, which is no older than the mutation.
LEMMA SeenImplies ==
    ASSUME IndInv, SeenInv, NEW r \in Reader, at[r] = "done",
           NEW m \in acknowledged[r],
           kindOf[m] # "membership", ~Detached(m, scope[r])
    PROVE  Reflects(r, m)
<1>1. /\ m \in Mutation /\ scope[r] \in Scope /\ value[r] \in Nat
      /\ index[m][scope[r]] \in Nat /\ known[r] \subseteq Nat \X Nat
      /\ Len(log[scope[r]]) \in Nat
  BY DEF IndInv, TypeOK, SeenInv, KnowsOf
<1>2. SUFFICES ASSUME index[m][scope[r]] > 0
               PROVE  \E k \in index[m][scope[r]] .. Current(scope[r]) :
                          Answer(scope[r], k) = Answer(scope[r], value[r])
  BY DEF Reflects
<1>3. PICK k \in known[r] : index[m][scope[r]] <= k[1]
  BY <1>2 DEF SeenInv, KnowsOf, Owes
<1>4. value[r] >= k[1]
  BY DEF IndInv, AgeInv, NoOlderThanInvalidation
<1>5. value[r] <= Current(scope[r])
  BY DEF SeenInv, KnowsOf, Current
<1>6. value[r] \in index[m][scope[r]] .. Current(scope[r])
  <2>1. k[1] \in Nat
    BY <1>1, <1>3
  <2>2. QED
    BY <1>1, <1>3, <1>4, <1>5, <2>1 DEF Current
<1>7. QED
  BY <1>6

\* What each get has to know of, with what it needs of the freshness of the
\* answers, as long as the requests have ids of their own.
LEMMA SeenInvariant ==
    ASSUME DistinctIds PROVE Spec /\ [][~Restart]_vars => [](IndInv /\ SeenInv)
<1>1. Init => IndInv /\ SeenInv
  BY InitEstablishes, SeenInitially
<1>2. IndInv /\ SeenInv /\ [Next]_vars /\ [~Restart]_vars => (IndInv /\ SeenInv)'
  BY NextKeeps, SeenNext
<1>3. QED
  BY <1>1, <1>2, PTL DEF Spec

\* A get that begins after a mutation of a policy, a grant, an attachment or a
\* group was answered, its Redis calls having succeeded, returns what the user
\* could do at that commit or later, whatever is mutated and read at the same
\* time, as long as no two requests have one id and Redis keeps its writes.
THEOREM MutationsAreSeen ==
    ASSUME DistinctIds
    PROVE  Spec /\ [][~Restart]_vars => []AcknowledgedMutationIsSeen
<1>1. IndInv /\ SeenInv => AcknowledgedMutationIsSeen
  BY SeenImplies DEF AcknowledgedMutationIsSeen
<1>2. QED
  BY <1>1, SeenInvariant, PTL

-----------------------------------------------------------------------------
(* What heals *)

Stale(s, i) == Answer(s, i) # Answer(s, Current(s))

\* The entries of Redis, on its disk or not, that do not agree with the
\* database, under whatever generation, and the reads about to write one.
StaleEntries == {e \in cache \cup saved.cache : Stale(e.scope, e.index)}
StaleFills == {r \in Reader : at[r] = "fill" /\ Stale(scope[r], value[r])}

\* The steps of a read.
LEMMA ReadFades ==
    ASSUME TypeOK, NEW r \in Reader, log' = log,
           \/ Begin(r) \/ Hit(r) \/ Miss(r) \/ ReadDatabase(r) \/ Fill(r)
           \/ RedisFails(r) \/ Fallback(r) \/ Return(r)
    PROVE  /\ StaleFills' \subseteq StaleFills
           /\ \A e \in StaleEntries' \ StaleEntries :
                  \E x \in StaleFills \ StaleFills' : e = EntryOf(x)
<1>1. \A s, i : Stale(s, i)' <=> Stale(s, i)
  BY DEF Stale, Answer, Current
<1>2. ASSUME NEW x \in StaleFills' PROVE x \in StaleFills
  <2>1. at'[x] = "fill" /\ x \in Reader /\ Stale(scope'[x], value'[x])
    BY <1>1 DEF StaleFills
  <2>2. CASE x = r
    <3>1. ReadDatabase(r)
      BY <2>1, <2>2
         DEF TypeOK, Begin, Hit, Miss, Fill, RedisFails, Fallback, Return, Move
    <3>2. scope'[r] = scope[r] /\ value'[r] = Current(scope[r])
      BY <2>1, <2>2, <3>1 DEF TypeOK, ReadDatabase, Move
    <3> QED  BY <2>1, <2>2, <3>2 DEF Stale
  <2>3. CASE x # r
    <3>1. at'[x] = at[x] /\ scope'[x] = scope[x] /\ value'[x] = value[x]
      BY <2>1, <2>3
         DEF TypeOK, Begin, Hit, Miss, ReadDatabase, Fill, RedisFails, Fallback, Return, Move
    <3> QED  BY <2>1, <3>1 DEF StaleFills
  <2> QED  BY <2>2, <2>3
<1>3. ASSUME NEW e \in StaleEntries' \ StaleEntries
      PROVE  \E x \in StaleFills \ StaleFills' : e = EntryOf(x)
  <2>1. e \in cache' \cup saved'.cache /\ Stale(e.scope, e.index)
    BY <1>1 DEF StaleEntries
  <2>2. saved' = saved
    BY ReadTypes
  <2>3. e \in cache' /\ e \notin cache
    BY <2>1, <2>2 DEF StaleEntries
  <2>4. at[r] = "fill" /\ Store(r) /\ at'[r] # "fill"
    BY <2>3
       DEF TypeOK, Begin, Hit, Miss, ReadDatabase, Fill, RedisFails, Fallback, Return, Move, redis
  <2>5. e = EntryOf(r)
    BY <2>3, <2>4, Stored
  <2>6. r \in StaleFills
    BY <2>1, <2>4, <2>5 DEF StaleFills, EntryOf
  <2>7. r \notin StaleFills'
    BY <2>4 DEF StaleFills
  <2> QED  BY <2>5, <2>6, <2>7
<1> QED  BY <1>2, <1>3

\* The safety part of EventuallyFresh, with Redis restarting and any of its
\* calls failing.  While nothing is committed, no read comes to hold an answer
\* that the database would not give, and each that holds one writes it once at
\* most; no other step puts such an answer into Redis or brings it back, and the
\* end of its time takes it out for good.
THEOREM StaleAnswersFade ==
    Spec => [][log' = log =>
                 /\ StaleFills' \subseteq StaleFills
                 /\ \A e \in StaleEntries' \ StaleEntries :
                        \E r \in StaleFills \ StaleFills' : e = EntryOf(r)
                 /\ \A e : Expire(e) => StaleEntries' = StaleEntries \ {e}]_vars
<1> DEFINE Fades ==
        /\ StaleFills' \subseteq StaleFills
        /\ \A e \in StaleEntries' \ StaleEntries :
               \E r \in StaleFills \ StaleFills' : e = EntryOf(r)
        /\ \A e : Expire(e) => StaleEntries' = StaleEntries \ {e}
<1>1. ASSUME TypeOK, SavedTypes, Next, log' = log PROVE Fades
  <2>1. \A s, i : Stale(s, i)' <=> Stale(s, i)
    BY <1>1 DEF Stale, Answer, Current
  <2>2. \A e : Expire(e) => StaleEntries' = StaleEntries \ {e}
    <3> SUFFICES ASSUME NEW e, Expire(e) PROVE StaleEntries' = StaleEntries \ {e}
      OBVIOUS
    <3>1. cache' = cache \ {e} /\ saved'.cache = saved.cache \ {e}
      BY <1>1 DEF Expire, SavedTypes
    <3> QED  BY <2>1, <3>1 DEF StaleEntries
  <2>3. CASE UNCHANGED readers /\ cache' \cup saved'.cache \subseteq cache \cup saved.cache
    <3>1. StaleFills' = StaleFills
      BY <2>1, <2>3 DEF StaleFills, readers
    <3>2. StaleEntries' \subseteq StaleEntries
      BY <2>1, <2>3 DEF StaleEntries
    <3> QED  BY <2>2, <3>1, <3>2
  <2>4. ASSUME NEW m \in Mutation,
               \/ Mutate(m) \/ ListScopes(m) \/ InvalidateScope(m)
               \/ InvalidateFails(m) \/ Acknowledge(m)
        PROVE  Fades
    <3>1. UNCHANGED <<cache, saved>>
      BY <1>1, <2>4, MutationTypes
    <3>2. UNCHANGED readers
      BY <2>4 DEF Mutate, ChangePolicy, Attach, Detach, AddGroupMember, SetMembership, Commit,
                  ListScopes, InvalidateScope, InvalidateFails, Acknowledge
    <3> QED  BY <2>3, <3>1, <3>2
  <2>5. ASSUME NEW e, Expire(e) PROVE Fades
    <3>1. saved'.cache = saved.cache \ {e}
      BY <1>1, <2>5 DEF Expire, SavedTypes
    <3> QED  BY <2>3, <2>5, <3>1 DEF Expire
  <2>6. CASE Fsync \/ Restart
    BY <2>3, <2>6 DEF Fsync, Restart
  <2>7. ASSUME NEW r \in Reader,
               \/ Begin(r) \/ Hit(r) \/ Miss(r) \/ ReadDatabase(r) \/ Fill(r)
               \/ RedisFails(r) \/ Fallback(r) \/ Return(r)
        PROVE  Fades
    BY <1>1, <2>2, <2>7, ReadFades
  <2> QED  BY <1>1, <2>4, <2>5, <2>6, <2>7 DEF Next
<1>2. Init => TypeOK /\ SavedTypes
  <2>1. Init => SavedTypes
    BY DEF Init, SavedTypes, EntryType
  <2> QED  BY <2>1, InitEstablishes DEF IndInv
<1>3. TypeOK /\ SavedTypes /\ [Next]_vars => TypeOK' /\ SavedTypes'
  BY TypesStep, SavedStep
<1>4. TypeOK /\ SavedTypes /\ [Next]_vars => [log' = log => Fades]_vars
  BY <1>1
<1> QED  BY <1>2, <1>3, <1>4, PTL DEF Spec
=============================================================================
