# NTAuth in TLA+

A verification project for NTAuth: TLA+ modules translated from the source,
TLC configurations that check them on small instances, and theorems TLAPS
checks for every value of the constants. `PROJECT.json` gives for each
definition the lines of code it stands for, for each property a mutation of the
code that breaks it, and the list of hazards the properties are aimed at.

## 1. The system

NTAuth is an identity and permission service: an Elysia API (`apps/api`), a
worker (`apps/worker`), an administration site (`apps/web`), the database layer
(`packages/db`), the policy language (`packages/permissions`) and two client
libraries (`packages/elysia-auth`, `packages/nuxt-auth`). All durable state is in
PostgreSQL (Drizzle, READ COMMITTED unless said otherwise); Redis holds rate
limits and the permission cache. Several API processes and several workers may
run; they share nothing but PostgreSQL and Redis, and every interaction that is
hard goes through a row, a row lock or a Redis key.

| Component (source) | State | Operations | What makes it correct |
| --- | --- | --- | --- |
| Job queue and worker (`apps/worker/src/queue.ts`, `worker.ts`, `email.ts`) | table `jobs`: status, attempts, lock owner and age | claim, complete, retry, the poll loop | one worker per attempt, late answers change nothing, final outcomes, honest outcomes, every job settles |
| E-mail outbox (`packages/db/src/outbox.ts`) | the same table | transactWithEmail, enqueueEmail | a job is visible with its mutation, a repeated key returns the existing job |
| Permission cache (`apps/api/src/iam-cache.ts`) | Redis: a generation per organization and service, entries per user and generation, seen events | get, invalidateScope, invalidatePolicy, invalidateGroup | a get after an answered mutation reflects it; after lost invalidations the TTL heals |
| Effective policies (`packages/db/src/effective-policies.ts`) | none; one REPEATABLE READ snapshot | getEffectivePolicies | an answer is one state of the database |
| User lifecycle (`packages/db/src/user-lifecycle.ts`) | table `user`, sessions, accounts, memberships | setUserStatus, deleteUser | an inactive identity has no session, deletion is terminal |
| Passwords (`packages/db/src/passwords.ts`) | `account.password`, `password_reset_requests` | requestPasswordReset, completePasswordReset, changePassword | one live token, used once, no lost password, sessions revoked |
| Sessions (`packages/db/src/sessions.ts`, hook in `apps/api/src/auth/auth.ts`) | table `session` | revokeUserSessions, the creation hook | a revocation ends every earlier session |
| Invitations (`packages/db/src/invitations.ts`) | invitations by token hash; user, membership | create, cancel, accept | a token admits one identity, once |
| E-mail verification (`packages/db/src/email-verification.ts`) | requests by token hash; user | request, verify | the last link only, of an active identity |
| Organizations (`packages/db/src/organizations.ts`) | organizations, memberships, roles | create, archive, members and their status and role | an organization keeps an administrator |
| IAM policies, attachments, groups, catalogue (`packages/db/src/iam-policies.ts`, `iam-attachments.ts`, `iam-catalog.ts`) | policies and versions, attachments, groups, services and their actions | create, version, rollback, attach, detach, update | gapless history, no two edits of one version, one live attachment, what is published was offered |
| Service grants (`packages/db/src/service-grants.ts`) | table `service_grants` | create, change of status, revoke | one current grant, terminal revocation |
| MFA (`packages/db/src/mfa.ts`) | secret, last counter | enroll, verify, step-up | a code is accepted once, the counter never goes back |
| Rate limiter (`apps/api/src/rate-limit.ts`) | Redis windows, failures and locks | check, observe | nothing is handled that a window or a lock keeps out |
| OAuth (`apps/api/src/auth/*`, `oauth-clients.ts`) | clients, consents, tokens (Better Auth) | refresh, revoke, introspect, logout | no token outlives its session or its revocation |
| Signing keys (`apps/api/src/signing-keys.ts`) | table `jwks` | emergency rotation, signature | a replaced key signs nothing |
| Evaluator (`packages/permissions/src`) | none | validate, merge, evaluate | deny overrides, default deny |
| Audit (`packages/db/src/audit-events.ts`) | table `audit_events` | record, list by cursor, export, purge | paging loses and repeats no event |
| Clients (`packages/elysia-auth`, `packages/nuxt-auth`) | a policy cache, a browser session | authorize, refresh, logout | a late answer never passes for a newer one |
| Administration pages (`apps/web/app/pages/admin`) | what is chosen, loaded, edited and asked for | choose, load, submit, show the answer | a request goes to what the page names, and its answer is shown there |

How they interact: every route runs one PostgreSQL transaction that also writes
its audit event; a route that changes permissions then calls the cache; a route
that sends mail inserts a job in its transaction, and a worker picks it up by
polling. Sign-in, sessions, OAuth and keys are Better Auth's over the same
tables, with hooks of the API. What is hard is therefore: statements of two
transactions in any order and the rows they lock; reads in one transaction and
writes in another; a Redis call after a commit that fails or comes late; workers
that crash or answer after their lock expired; and, in the clients and the
pages, answers that arrive after what they were asked for has changed.

## 2. Modules

| Module | Models | Uses |
| --- | --- | --- |
| `JobQueue` | queue, worker loop, e-mail handler, producer | refines `OutboxPromise` |
| `OutboxPromise` | what an enqueuer may rely on | |
| `IamCache` | permission cache, its mutations and its readers | |
| `Identity` | status, password, reset tokens and sessions of one identity | |
| `Membership` | members, administrators and invitations of one organization, deletion of identities | |
| `IamAdministration` | one policy and its versions, attachments, a group, the catalogue of a service | refines `VersionedRegister` |
| `VersionedRegister` | what the authors of a policy rely on | |
| `ServiceGrants` | the grants of one organization, service and user | |
| `Mfa` | the second factor of a platform administrator | |
| `RateLimit` | windows, failures and locks in front of the authentication routes | |
| `EmailVerification` | the links and the address of one identity | |
| `SigningKeys` | keys, rotations and signatures | |
| `OAuthLifecycle` | the tokens of one session | |
| `PolicyEvaluator` | documents from their validation to a decision | |
| `ResourceClient` | the policy cache of a resource server | |
| `SessionClient` | the session in the browser | |
| `AdminPages` | five pages of the administration site | |
| `AuditLog` | the journal, its pages, exports and purge | |
| `MCJobQueue`, `MCIamCache`, `MCIdentity`, `MCMembership`, `MCPolicyEvaluator` | instances for TLC | the module they name |
| `MCAdministration` | one instance of two parts | `IamAdministration`, `ServiceGrants` |
| `MCSecurity` | one instance of ten parts | `Mfa` to `AuditLog` |
| `JobQueueProofs`, `IamCacheProofs`, `IdentityProofs`, `MembershipProofs` | inductive invariants and theorems | the module they name, TLAPS |
| `AdministrationProofs` | the same | `IamAdministration`, `ServiceGrants`, TLAPS |
| `SecurityProofs` | the same, a section for each part | `Mfa`, `SigningKeys`, `RateLimit`, `EmailVerification`, `OAuthLifecycle`, `AuditLog`, TLAPS |
| `ClientProofs` | the same | `ResourceClient`, `SessionClient`, `AdminPages`, `PolicyEvaluator`, TLAPS |
| `PartsProofs` | what is proved of the parts, for the instance | `MCSecurity`, `SecurityProofs`, `ClientProofs` |

The parts of `MCAdministration` share no row, lock or key with each other, nor
do those of `MCSecurity`: a behaviour of the instance is one of one part, with
the others at rest (for `MCSecurity` that is the theorem `PartsAreThemselves`).

### Transactions

`Identity`, `Membership`, `IamAdministration`, `ServiceGrants`,
`EmailVerification` and `Mfa` model READ COMMITTED transactions alike. One action
is one statement, with the early returns that follow it. A statement that locks
waits until the rows are free and then reads them as they are; one that does not
lock reads at once, and what it read may be stale when it is used. The writes of
a transaction become visible in one step, its commit, since nobody else can read
them earlier and every row it writes is locked. An insert takes the entry of its
unique index, and shares the rows its foreign keys refer to (`for key share`).
A transaction may be rolled back anywhere.

### JobQueue

The six variables of `table` are columns of `jobs`; `pc` and `held` are where
`runOnce` of each worker is and the row its claim returned. One action is one SQL
statement or one end of the handler:

| Code | Actions |
| --- | --- |
| insert of `transactWithEmail` | `Enqueue` |
| `claim` (CTEs `expired` and `candidate`, then the update) | `ClaimStatement`, issued by `ClaimJob`, `ClaimNothing`, `ClaimThrows` |
| the handler, `createEmailHandler` | `HandlerReturns`, `HandlerThrows` |
| `complete` | `CompleteStatement`, issued by `Complete`, `CompleteThrows` |
| `retry` | `RetryStatement`, issued by `Retry`, `RetryThrows` |
| end of the process | `Crash` |

An action whose name ends in `Throws` has the statement commit or not: the
client cannot know. `complete` is inside the `try` of `runOnce`, so its failure
calls `retry` on a job that may already be completed; `claim` and `retry` are
outside, so their failure ends `run`, which nothing calls again: the worker is
`down`. A worker's identity includes a random suffix, so a restarted process is
another worker and a worker that is down never comes back.

Time is relative. `availableIn` is `available_at - now()`, `lockAge` is
`now() - locked_at`; `Tick` advances both and stops where no comparison of the
code tells more apart. The random component of identifiers, the HTTP server
and the metrics of the worker are left out.

`OutboxPromise` has no worker, lock or clock: a job is tried at most
`MaxAttempts` times, a try takes effect at most once, a completed job had its
effect, a job is given up only with all tries used, outcomes are final. An effect
may be late, and a job may fail although it was delivered, since that is what an
interrupted worker does. `ImplementsPromise` is the refinement, for jobs of type
`email`.

### IamCache

PostgreSQL is the four variables `policy`, `attached`, `member`, `active`, for one
user and one group; `log[s]` is the history of what the user could do in scope
`s`, so that an answer is a place in that history. Redis is `generation`, `cache`
and `events` (the deduplication keys of `INVALIDATE_SCRIPT`); `saved` is its
append-only file.

A mutation is: its commit (`ChangePolicy`, `Attach`, `Detach`, `AddGroupMember`,
`SetMembership`), for a group the query of its scopes (`ListScopes`), one
`InvalidateScope` or `InvalidateFails` per scope, in any order as in
`Promise.all`, and the answer to the client (`Acknowledge`). The process may
stop after any of them. A `get` is `Begin` (the generation), `Hit` or `Miss`,
`ReadDatabase` (one repeatable read snapshot), `Fill`, with `RedisFails` and
`Fallback` for the `catch`. `Expire` is the TTL; `Fsync` and `Restart` are Redis
with `appendfsync everysec` (compose.yaml).

### Identity

Where the code reads without a lock (`permitted`, the status in
`completePasswordReset` and `changePassword`) the value is taken at that
statement and used later. Where a statement with `for update` waits, PostgreSQL
re-reads the row, and so does `LockToken` (`used_at is null`) and
`VerifyPassword` (the newest hash). A `delete from session` sees a snapshot
(`SeeSessions`) and then waits for its rows (`LockSessions`): a session inserted in
between survives, unless the row of the user is locked, for which the foreign
key of the insert waits.

Sign-in belongs to Better Auth: `CheckPassword`, then the hook of
`auth.ts` (`BeforeSession`), then the insert (`InsertSession`), without a
transaction around them.

### Membership

One organization, with its members, its invitations, the e-mail of each identity
and the platform's administrators. `shares` holds what a foreign key locks: it
excludes a `for update` and not another share. The action that calls a handler
only records the request and the end of its transaction forgets it; each
statement between is a step of its own:

| Code | Actions |
| --- | --- |
| `updateOrganizationMember` | `Update`, `LockOrganization`, `Authorize`, `LockMember`, `CountAdministrators`, `CommitUpdate` |
| `createInvitation` | `Create`, `Authorize`, `InsertInvitation`, `CommitCreate` |
| `cancelInvitation` | `Cancel`, `LockPending`, `Authorize`, `CommitCancel` |
| `acceptInvitation` | `Accept`, `LockToken`, `FindIdentity`, `InsertIdentity`, `InsertMember`, `CommitAccept` |
| `deleteUser` | `Delete`, `LockUser`, `DeleteMemberships`, `CommitDelete` |

The order of locks is the code's: an update takes the organization, then the
membership; an acceptance the invitation, then the identity, then the entry of
the unique index and a share of the organization; a deletion the identity, then
its memberships. That a deletion does not take the organization is what
`UpdateKeepsAdministrator` is about. The roles `owner` and `admin` are one, since
every condition of the code lists both. `Kinds`, `Asked` and the constants
`First...` choose what an instance starts from and which requests it makes.

### IamAdministration

One policy with its versions, its attachments to one principal, one group and
its member, one service of the catalogue and its entries. An edit is one of
thirteen operations; `line` is the statement it is at, `found` what it has read,
`holds` and `shares` the rows it has locked:

| Code | Actions |
| --- | --- |
| a route calls a function | `CallEdit` |
| the row the operation begins with | `LockPolicy`, `ReadPolicy`, `LockAttachment`, `LockJoinedPolicy` |
| `loadScope`, `authorize` | `LoadScope`, `AuthorizeEdit` |
| `validatedDocument` | `ReadActiveService`, `ReadEntries` |
| `rollbackIamPolicy`, `appendVersion` | `ReadTarget`, `AppendVersion` |
| the inserts, their unique indexes and foreign keys | `InsertRow`, `ShareForeignKey` |
| `detachIamPolicy` | `UpdateAttachment` |
| `updateService`, `setIamCatalogEntryStatus`, `addIamGroupMember` | `ReadService`, `ReadNewOwner`, `ReadEntry`, `ReadGroup`, `WriteRow` |
| the commits | `CommitPolicy`, `CommitVersion`, `CommitStatusOfPolicy`, `CommitAttach`, `CommitDetach`, `CommitGroup`, `CommitService`, `CommitEntry` |
| `getIamPolicyHistory` | `AnswerHistory` |
| a transaction that is rolled back | `LoseEdit` |

What the code reads without a lock and of tables that are not modelled here
(memberships, the status of an organization, of a user) may be either. `since`
is a history: the entries that were active at some moment of the request.
`Mixes` says which operations an instance lets meet. `VersionedRegister` is what
an author relies on: an edit names the version it is built on and is made, at
once, if that is the last one still; `ImplementsRegister` is the refinement.

### ServiceGrants

The rows of `service_grants` under one key (organization, service, user), and
requests that read without locks:

| Code | Actions |
| --- | --- |
| `createServiceGrant` | `Call`, `Authorize`, `FindExisting`, `Insert`, `CommitCreate` |
| `setServiceGrantActive` | `Call`, `LoadGrant`, `Authorize`, `UpdateStatus`, `CommitStatus` |
| `revokeServiceGrant` | `Call`, `LoadGrant`, `Authorize`, `UpdateRevoked`, `CommitRevoked` |

`writing` is the row a transaction has written and not committed; another write
of it waits (`Settled`), and so does an insert under the same unique key
(`IndexSettled`). The CHECK constraint is `CheckAllows`: a status other than
`revoked` does not fit a row that records who revoked it, so that the stale
request fails with an internal error, `error`. What the requests read of
memberships and services changes at any time (`WorldChanges`).

### Mfa

A secret is named by the enrollment that drew it, a code is a secret and a
period of 30 seconds, and the clock (`NextPeriod`) may pass between any two steps.
A call of `beginMfaEnrollment`, `verifyMfaEnrollment` or `enforcePlatformAdminMfa`
takes the time and its code (`CallMfa`), reads the platform role (`ReadRole`),
waits for the row of `mfa_enrollments` (`LockEnrollment`) and decides
(`CommitBegin`, `CommitVerify`, `CommitEnforce`), or is rolled back (`LoseMfa`). Codes
of the current and the previous period are accepted (`Matches`). The cryptography
and the encryption of the secret are left out.

### RateLimit

`Arrive`, `ReadLock`, `ConsumeAddress`, `ConsumeSubject` are the Redis calls of
`check`, in the order of the code; `CheckFails` is any of them failing, which is
answered with 503; `Handle` is the authentication handler, and
`ObserveSuccess`, `ObserveFailure`, `ObserveFails` what `observe` does with its
answer. Each script is atomic. `check` sends both windows at once, so that a failure may
leave neither, one or both counted. A key lives as long as its TTL, which may end
at any step (`ExpireWindow`, `ExpireFailures`, `ExpireLock`); a lock holds while
its key is there, the rounding of its last second left out.

### EmailVerification

`Ask` calls one of `requestEmailVerification` (`RequestEmailVerification`,
`SeePending`, `LockPending`, `CommitMailing`), `completeEmailVerification`
(`LockLink`, `LockIdentity`, `CompleteEmailVerification`) and the changes of status
they race (`LockStatus`, `CommitIdentity`). A request locks the user and then the
links it invalidates, a verification the link and then the user: the two may
deadlock, and `RollBack` is how PostgreSQL ends that. `Lapse` is the expiry of a
link.

### SigningKeys

`BeginSigner` is a rotation or a signature. A rotation reads the newest key
(`ReadKeys`), expires it (`ExpirePrevious`), and has Better Auth sign something
(`LatestKey`, and `CreateKey` if the newest has expired); it succeeds only if a
newer key is there (`EndRotation`), else it fails (`SignerFails`) and its `catch`
restores the expiry (`RestorePrevious`, `RestoreFails`). No transaction holds
these together. `LapseKey` is the lifetime of a key. `replaced` and `misused` are
histories: the keys reported as replaced, and those used all the same.

### OAuthLifecycle

`audited-handler.ts` around Better Auth:

| Code | Actions |
| --- | --- |
| a request to one of the endpoints | `Present` |
| exchange of an authorization code | `ResolveCode`, `HasActiveMembership`, Better Auth's `HandlerExchangesCode` |
| refresh | `ResolveStoredGrant`, `HasActiveMembership`, Better Auth's `HandlerReads`, `HandlerRotates` |
| logout, one transaction | `RevokeFamily`, `DeleteSession` |
| revocation of an access token | `InspectRevocation`, `PurgeRevocations`, `PersistRevocation` |
| revocation of a refresh token | `InspectRevocation`, Better Auth's `HandlerRevokes` |
| check by a resource server, introspection | `VerifyToken`, `ReadSession`, `ReadRevocation` |
| a request that fails | `Break` |

`SessionEnds`, `MembershipEnds` and `TokenExpires` happen at any time. `basis` is
what there was when a request began. A code is resolved without a look at its
session, so that `EndedIsOver` asks an exchange for the membership only; a
revocation of which nothing is persisted (a token of another client, an access
token of a confidential one) promises nothing. `oauth_access_tokens`, from which
a logout deletes too, holds opaque tokens, and none of the requests reads it.

### PolicyEvaluator

A behaviour takes the documents of a subject, each valid when it was written
(`ValidPolicyDocument`), and a question. `MergeEffectivePolicies` puts their
statements one after the other, `ParsePolicies` is the validation by the client,
which refuses the request if it fails (`RefuseRequest`); `EvaluateStatement` and
`Conclude` are the loop of `evaluatePolicy` and its end. An identifier is the
sequence of its segments; the characters of a segment are abstracted to whether
the pattern takes it. Of `POLICY_LIMITS` only the number of statements is a limit;
the sizes (bytes of a document, length of an identifier, numbers of actions,
resources and values) are left out. A merge of more than `documentBytes` is
refused by the client like one of too many statements, and is no merge of the
model. The reference `Speaking` has no order and no positions.

### ResourceClient and SessionClient

JavaScript runs between two awaits without interruption, so that a step is what
runs there. In `ResourceClient`, `LoadPolicies` asks with the ETag of the entry
there is; the server answers (`Respond`, `RespondUnusable`) from what it holds,
which changes at any time (`ServerChanges`); `NotModified`, `Modified`, `Refused`
and `Unavailable` are the branches of the answer; `Invalidate` may come at any
time. `window` is what the server held since the request asked.

In `SessionClient`, `Hydrate`, `Login`, `HandleCallback`, `Refresh` and `Logout` may be
called at any time, several at once, and `SessionAnswered`, `LoginAnswered`,
`RefreshAnswered`, `RefreshSettled` and `LogoutAnswered` are what follows their awaits,
with either outcome. `RefreshSettled` is the `finally` that forgets the promise.

### AdminPages

A behaviour is that of one page: `UsersPage`, `OrganizationsPage`, `GrantsPage`,
`ClientsPage` or `PoliciesPage`. `screen` is what is chosen in the register, what was
loaded of it and what the forms are about; a request keeps what the page named
to the user and what it was sent to; its answer is written where the code writes
it, by what is chosen or loaded at that moment. `RequestFails` is every `catch`.
`CancelAction` is "Annuler" on a prepared change of a grant, whose answer may be
on its way; `CreateClient` and `ClientCreated` leave the selection alone;
`LockWorkspace` is what typing in the key of the service does: what is open stays
open under a workspace that has to be loaded again.
The policy editor also has the draft and the version it was opened from, and the
server answers its `expectedVersion` as `IamAdministration` does (`ServeSave`),
while others publish (`ReviseElsewhere`). `disturbed` records that another row
was chosen under a pending request.

### AuditLog

`Tick` is the microsecond clock; an event takes the time of the beginning of its
transaction (`BeginRecording`) and is there at its commit (`CommitRecording`), so that
events appear out of order. `BeginListing`, `CanRead`, `ListIamAuditEvents` and
`NextPage` are a reader that follows the cursor, or an export, which also records
itself (`RecordExport`); `LoseRole` and `LeaveListing` end it early. `BeginPurge` and
`Purge` are the retention timer of the worker. `EncodeAuditCursor` loses what a
JavaScript date loses.

## 3. Runs

| Run | Instance | What it shows |
| --- | --- | --- |
| `queue` | 3 workers, 2 jobs with 3 and 1 attempts, one of them an e-mail, locks of 2 ticks | outcomes are honest, attempts are sound, every job settles, and the queue implements `OutboxPromise` |
| `cache` | 2 mutations, 2 readers; one scope with failing Redis calls, or two scopes under a group | an answer is never older than an invalidation or an answered mutation it follows |
| `cache_live` | 1 scope, 2 mutations, 1 reader, Redis restarts | the TTL alone makes the cache agree with the database |
| `cache_same_id` | one request id for all | violation, finding 1 |
| `identity` | 3 transactions of any kind, 1 sign-in, 2 tokens | status, passwords, tokens and sessions stay right, only a deletion is ever part of a deadlock, and every transaction ends |
| `identity_suspension` | 2 transactions, 1 sign-in | violation, finding 2 |
| `membership` | 4 identities, 2 of them administrators and 1 to be created, 2 invitations, 3 requests of any kind | an administrator remains, who acts still manages, an invitation admits one identity and settles once, nobody deleted is a member, no deadlock |
| `membership_deletion` | 2 updates or deletions | violation, finding 3 |
| `administration` | 3 edits of 6 mixes of operations, 2 documents, 2 entries, 2 attachments, 3 versions; or 4 requests on 2 grants | history is whole and a register, one attachment and one grant are current, what is detached or revoked stays so, what is published was offered |
| `audit_paging` | 3 events, 3 ticks | violation, finding 4 |
| `effective_merge` | 2 policies | violation, finding 5 |
| `security` | one of ten parts, see below | one property for each part |

The properties of `security`, which `TypesOK` completes:

| Part and bounds | Property |
| --- | --- |
| `Mfa`: 3 calls, 2 periods | `AcceptedCodeIsNew`: an accepted code is of the secret enrolled, later than any before it, and of a secret that was verified |
| `RateLimit`: 3 requests, 1 address, a rule with a lockout and one without, a window of 1, a threshold of 2 | `OnlyAdmittedAreHandled`: both windows admitted what is handled, and a lock keeps out what arrives under it |
| `EmailVerification`: 4 calls | `VerificationIsCurrent`: only the last link is pending, and it verifies an active identity |
| `SigningKeys`: 3 rotations or signatures, 3 keys | `ReplacedKeySignsNothing` |
| `OAuthLifecycle`: 3 requests | `EndedIsOver`: nothing is issued or accepted for a request that began after the session, the membership or the revocation said no |
| `ResourceClient`: 2 requests, 1 scope, 2 policies | `DecidedWithPoliciesOfItsTime` |
| `SessionClient`: 3 operations | `SessionIsCoherent`: one refresh at a time, and the status says what there is |
| `AdminPages`: 2 rows with one part each, 2 revisions, 2 requests awaited | `PagesActAsShown`: a draft replaces what it was opened from, and without another choice in between a request goes to what the page names |
| `AuditLog`: 3 events, 2 ticks, 2 ticks to a millisecond, pages of 1, exports of 2, a retention of 1 | `PagesMissOnlyWithinMillisecond`: no event twice, and none missing but beside a page's last one |
| `PolicyEvaluator`: 10 statements, 2 documents of at most 2 and 1 of them, 40 questions | `DecisionIsTheReference` |

Why the bounds are enough:

- Queue. Three workers are the smallest number in which a first is late, a
  second took its job over and a third polls; the crash of a worker needs one
  more to stay. Three attempts give a first, a middle and a last one, and the
  job with one attempt makes the first the last. `LockTimeout = 2`
  distinguishes a fresh, an old and an expired lock. `BaseDelay = 1` and
  `MaxDelay = 2` reach the cap. `Horizon` makes two waiting jobs of different age
  comparable. Every history is finite: attempts bound it.
- Cache. What can go wrong needs a reader that read before a mutation and
  writes after it, a second reader that begins then, and a mutation on each side
  of the fill: two readers and two mutations. The constant `Mutation` bounds the
  changes of the database and so every generation; each request is made once.
  `Cases` selects the instances of a run: in `"one scope"` the policy alone
  changes and any Redis call may fail; in `"two scopes"` attachments and the
  group change, invalidations succeed, and one reader at a time is under way.
  With restarts one reader is enough, since entries survive their readers.
- Identity. Three transactions are a change in the middle of a second with a
  third after both (a token requested while an older one is used; a deadlock of
  three). Each is any request, so each triple of kinds and each interleaving is
  covered.
- Membership. Two administrators are the smallest number of which one may go;
  three requests are two that see each other as administrators and a deletion or
  an acceptance between them, or the creation, acceptance and cancellation of
  one invitation. `Asked` is a demotion: a suspension takes the same branches.
  `Offers` invite an address that has an identity and one that has none yet,
  which two acceptances may race to create.
- Administration. Three edits are two that race and one that changes what
  either relies on. The six `Meetings` are the sets of operations that touch a
  common row: the edits of a policy that is created meanwhile, or that is there;
  a publication beside the status of the policy and of the entries; the
  attachments beside the status; the service with its entries; the group.
  Three versions are a
  first, a second and a rollback. Four requests on a grant are a creation, a
  revocation, another creation and a change of status that loaded the first
  grant before it was revoked.
- Security. Three calls or requests are two that race and one that comes after
  both, with four where a third actor (a change of status) races the two; two
  periods, two rows or two policies are an older and a newer one. Two requests
  awaited by a page are one whose answer is late and one that comes before it.
  Two ticks to a millisecond are what a cursor confuses.

Symmetry is used over requests, mutations, readers, transactions and
attachments; no property or definition names one of them. The runs that check
liveness use none.

Deadlock is checked in `queue` and in the runs of the cache. In the others every
request is made once, so that the instance really comes to its end; that no
transaction is left waiting is `RequestsEnd` and `SomeRequestGoesOn`. `RequestsEnd`
counts on PostgreSQL's deadlock detector and would hold for any order of locks;
what it would not notice, a lock order that a change of the code breaks, is
`OnlyDeletionsDeadlock`: no set of requests waits in a circle, except with a
`deleteUser` that has ended the sessions and wants the account of a reset or
change that wants a session.

### Fairness

- Queue (`LiveSpec`): the clock ticks; a live worker polls (`run` is a loop);
  its handler ends, since the SMTP client has timeouts; the statement that
  follows is issued. Nothing is assumed of success: claims, handlers,
  completions and retries may throw as often as they like. The guard `Replaced`
  on whatever ends a worker stands for `restart: unless-stopped`
  (compose.yaml): some process polls. Without it no job would settle, and the
  code alone does not guarantee it, because a worker whose loop has ended stays
  up and ready.
- Cache (`LiveSpecCases`): only expiry is fair. No mutation and no reader is: a
  process may die between any two steps.
- Identity (`LiveSpec`): some transaction whose rows are free goes on
  (`Continue`), or one of a deadlock is ended by PostgreSQL's deadlock detector
  (`Rollback /\ Deadlocked`). Fairness of `Rollback` is not assumed elsewhere.

## 4. Proofs

TLAPS checks these for any number of jobs, workers, scopes, mutations, readers,
identities, invitations, grants, calls, requests, events and documents, from the
assumptions named in the modules and in the theorems.

`JobQueueProofs`. `QueueInvariant` is `Spec => []IndInv`; `TypeCorrect` and
`AttemptsStaySound` are its consequences. The safety properties are not
inductive alone. `IndInv` adds that a claim held by a busy
worker is of a job of the table and of an attempt already counted
(`HeldWasClaimed`), that attempts stay within `MaxAttempts` (`AttemptsBounded`),
that a row has an owner exactly while it is running (`LockedIffRunning`), that
a worker whose handler returned has delivered (`ReturnedMeansDelivered`), and
that only claimed attempts deliver (`DeliveredWasClaimed`). The heart of the
argument: a claim increments `attempts`, so the pair of job and attempt it
returns is new; an owner of the lock therefore holds the newest attempt, and
whoever holds an older one fails the `where` clause. There is one lemma per
action, with one step per conjunct it can disturb. `QueueKeepsPromise` is the
refinement: with the invariant, every step of the queue does to an e-mail job
one of the things named by `Settling`, and each of those is a step of
`OutboxPromise` or leaves it at rest.

`NoJobIsStranded` is the part of `EveryJobSettles` that needs no fairness. The
two statements that could lose a job are the claim, which takes only rows with
attempts left and fails only running ones, and the retry, which makes a row wait
again: an available row without attempts would be looked at by neither. The
theorem says that there is none. A row that waits has attempts left and is due
within `MaxDelay`, because whoever reschedules a job owns its lock and so knows
the newest attempt; a row that runs is worked on by the live owner of its lock,
or its lock expires and the next claim takes the row or fails it (`Reachable`).

`IamCacheProofs`. `CacheInvariant` and `AnswersAreFresh` hold for behaviours in
which Redis does not restart (`[][~Restart]_vars`). A restart may bring back an
old generation together with entries made under it, and the property then really
fails until the TTL ends them; `cache_live` checks that it does. `IndInv` says
that a generation is given to a mutation only after its commit, that an entry or
a pending fill under generation `g` is no older than any mutation invalidated at
`g` or earlier (`EntriesRespect`, `ReadersRespect`), and that a reader looks
under a generation at least as new as each invalidation it must respect.

`TypeCorrect` and `StaleAnswersFade` hold with restarts too. The second is the
part of `EventuallyFresh` that needs no fairness: while nothing is committed, no
read comes to hold an answer the database would not give (`StaleFills`), a read
that holds one writes it once at most, and no other step, the restart from the
disk included, adds such an entry to those in memory or on disk
(`StaleEntries`), from which the end of its time takes it. Both sets therefore
only shrink, and what the TTL has to do is finite.

`MutationsAreSeen` rests on a second invariant, `SeenInv`. An event that Redis
knows was counted for the mutation of its id (`EventsCount`); each scope a clean
mutation changed is still to be listed, still to be invalidated, or invalidated
for it or for a later one (`Invalidates`), which for an answered mutation leaves
the last; so a get that begins after the answer has such an invalidation among
those it must respect (`KnowsOf`), and by the first invariant its answer is no
older. It assumes that no two requests carry one id (`DistinctIds`), without
which it fails: finding 1. The attempt to prove it also corrected the property.
In an instance with three mutations, a user is added to a group, a policy is
changed and then detached from the group, and only then are the group's scopes
listed: the scope is gone from the list, the addition is answered without an
invalidation, and until one of the other two invalidates, a get may return an
answer older than all three. What the addition gave is taken away again by then,
so the property now excepts it (`Detached`).

`MembershipProofs`. `MemInv` says, statement by statement, what each request
holds and has seen that is still true (`RequestOK`), and that no two hold a row
of each other or create one invitation (`Apart`). `MembersAreLive`,
`ActorsManage` and `InvitationsStaySpent` follow: an update past the check holds
the organization, under which no other update commits; an acceptance past the
token holds an invitation that is pending and an identity that lives.
`AdministratorStays` needs more. `AdminInv` says that, unless somebody is
deleted, there is an administrator, and every update about to take one away
leaves another; of two updates only one is past the lock of the organization, so
that what it counted is still there when it commits. It assumes an administrator
at the start. A deletion falsifies both parts, which is finding 3, and is why
the property excepts it. `TypeCorrect` adds to `MemInv` how a request may end.

`NobodyIsStuck` says without `ENABLED` that there is no deadlock. Every request
takes its rows in one order: invitations, then identities and addresses, then the
organization, then memberships (`Level`). `HeldFits` says it place by place: who
is about to lock a row holds only rows of lower levels, and shares the foreign
keys of an insert only at its commit. So, of the rows somebody waits for, take
one of the highest level: whoever holds it waits for nothing. A name stands for
one row (`RowsAssumption`).

`IdentityProofs`. `IdentityInvariant` is `Spec => []IdentityInv`, and the six other
theorems follow. No two transactions hold one row (`Exclusive`); `LocksFit` says
which rows a transaction has at each place, `Knows` what those rows keep saying
while it has them (a token it will use is unused, the password it verified is
the password, a deleted identity is nobody's to change), and `Sees` what its
delete statement has collected of the sessions it must end. The rows are of
different kinds, and a step can disturb only what another transaction knows of
a row that the first one holds. `TransitionsComplete`: while the identity is
locked no session is inserted, so that a transition has collected every one.
`SuspensionHolds` needs `SignInFits`: a sign-in let through by the hook since the
transition began before it.

The requests on an identity can wait in a circle, and PostgreSQL then ends one of
them. `DeadlocksAreOfDeletions` says which circles there are. All requests take the
token first, then the other tokens or the account, then the sessions, with one
exception: `deleteUser` ends the sessions before it deletes the account. So every
circle holds a deletion at its account and a reset or a change of password that
has the account and waits for a session the deletion has ended (`Cross`).
`SomeRequestIsFree` follows: while a request is under way, one finds every row of
its next statement free, or there is such a pair. That is the part of
`RequestsEnd` that needs no fairness.

`SecurityProofs`, in six sections.

- `AcceptedIsNew`. A call decides on the row of the second factor as it is,
  because it has read it under the lock it still holds (`DecidesUnderLock`); the
  row knows the last code accepted of its secret (`RowKnowsAccepted`); and the
  secret a call may enroll is one no code is of yet (`SecretsAreNew`).
  `MfaTypesKept` adds that the clock bounds what is carried, stored and accepted
  (`MfaFits`); a verified row has a secret because a code of it was accepted.
- `ReplacedStaysReplaced`. A rotation succeeds only when a key newer than the one
  it replaces is there, so that no replaced key is the newest one, and only the
  newest signs: a restored expiry changes nothing of that. `KeyTypesKept`: a
  rotation that goes past its first statement has read a key, since there is one
  from the start (`KeysFit`), so that every key that is named exists.
- `LimiterHolds`. A window admits only what it has counted (`WindowFits`), and a
  request that arrived under a lock that is still there has not got past reading
  it (`AttemptFits`). `LimiterTypesKept`: the counter of a window is at most the
  number of requests that have come past it (`CountsFit`), and less when the window
  has expired. That counts a set, and `RateLimitAssumption` makes it finite.
- `VerifiedByTheLastLink`. `CallHolds` says which rows a request or a completion
  has at each place; the links are written only under the row of the identity,
  and the status a call decides on is the one it reads under it. `MailTypesKept`
  is the type invariant.
- `EndedStaysOver`. No lock is needed: a sign-in, a membership, a bound token only
  fade (`Fades`), so that what a request finds there was there when it began
  (`ExchangeFits`); a revocation goes only when its token has expired.
  `OAuthTypesKept` is the type invariant.
- `PagesHoldTogether`. Newest first is a total order, so that an event is ranked by
  how many are ahead of it (`Ahead`), and a page is an initial part of the ranks
  (`DescendingSorts`). The cursor of a reader is that of the last event it got
  (`CursorFits`); what it is owed is not purged (`OwedIsKept`); and each event it is
  owed and has not got is beyond the cursor, or behind an event it got of the same
  millisecond (`OwedIsToCome`). At an event that a page leaves behind, the cursor
  is between the two, and rounding down maps all three to one millisecond
  (`MillisecondHolds`). `JournalTypesKept` is the type invariant.

`ClientProofs`, in four sections, the last with two theorems.

- `DecidedOnTime`. What a request of a resource server carries from one wait to
  the next was the server's since it asked: what the server holds while it
  waits, then the reply, or, for a 304, the entry whose ETag the request itself
  had sent (`CarriesItsTime`). That the shared cache is written by others
  meanwhile is harmless because no branch reads it again.
- `SessionHolds`. The promise that is kept says that one refresh is under way, and
  which (`OneRefresh`); a status that loads does so for an operation whose answer
  is still to come (`LoadsForAnAnswer`), and every answer writes the status
  together with the snapshot and the error (`ShownAgrees`).
- `PagesHold`. `Steady` is what lasts until another row is chosen under a pending
  request: each request, sent or answered, names the row that is shown and acts
  on it (`ActsOn`). `EditorFits` is the other half: what the editor would publish
  over is what its draft was opened from, because the answer that changes the one
  is dropped or changes the other, whatever order answers come in. `OneAtATime`
  says which controls a pending request disables.
  `PageTypesKept` adds that each version the editor lists, has open or edits from,
  and each that an answer on its way names, is one that the server has saved
  (`VersionsFit`); versions are only added, so that it stays so.
- `DecidedByTheDocuments`. What the walks over policies, statements, segments and
  patterns compute, for every length. The library's induction takes an operator
  as parameter; here every set of numbers has a least one (`LeastNumber`), so that
  a set with 0 and every successor holds all (`HoldsOfEach`), and the set to which
  it is applied is that of the lengths for which the claim holds
  (`FlattenExists`, `FlattenHolds`). `EvaluatorInv` says that the merge has every
  statement of the documents and no other (`MergedInv`), and that what the
  loop has found are the statements that speak among those it is past
  (`EvaluationInv`). `EvaluatorAssumption` says that documents and questions
  are made of sequences of segments.
- `RefusedOnlyForAClash`. How far finding 5 goes: of documents that the API has
  accepted, the client refuses the merge exactly when there are more statements
  together than one document may have, or two of the documents use one sid
  (`Clash`); the size in bytes, which the model leaves out, is a third reason. Each statement of each document has one place in the merge, and each
  place one statement (`FlattenPlaces`), so that what one document may not have
  twice can be there twice only from two.

`AdministrationProofs`. `AdmInv` says of each edit which statements its
operation has (`PlaceOK`), what it has been offered (`OfferOK`), what it has read
of the history (`HistoryOK`) and of the attachments (`AttachmentOK`), and that no
two hold a row of each other or insert one attachment (`Apart`). A request for a
version holds the row of the policy from its first statement, so that the
version it compared with `expectedVersion` is still the current one when it
commits; a creation or an attachment holds its key of the index, so that no
equal row is committed; a detachment holds the row it saw live. `Frames` says
which tables each part is about, so that every other step leaves it alone.
`AdministrationStaysSound`, `DetachedForGood` and `PublishedIsOffered` follow,
and so does `HistoryIsRegister`, the refinement of `VersionedRegister`: a commit
of a policy or a version is a write at the version its author named
(`CommitWrites`), a call is the choice of that version, and no other statement
touches either.

`EditsNeverDeadlock`: in every set of edits under way one waits for no other. An
edit of a version holds the policy alone; a creation takes one entry of an index
and commits; a detachment takes the row of its attachment, then the policy, then
the entry of the live attachment; an attachment takes that entry, then shares the
policy for its foreign key. The last two take their rows in opposite orders, and
their never meeting is the point of the proof: an attach gets past the index only
when nothing is live, and a detach that holds the policy and waits for the entry
holds a live row, or finds its row detached and ends. `HoldInv` says, row by row,
who may hold it and at which statement.

For the grants: `GrantInvariant`, `TypeCorrect`, `CurrentIsUnique` and
`RevocationHolds`. `GrantInv` says that who revoked is recorded exactly for revoked
grants (`RevokedIsSigned`), that nobody can name a grant before its creation
commits (`NewIsUnknown`), and that whoever has written a row other than to
revoke it writes one that is not revoked, while no other is current or being
written (`WriterIsAlone`). The constraint and the index establish the last part
at the write; it lasts until the commit because the others wait for the row.

`PartsProofs`. `PartsAreThemselves`: a behaviour of `MCSecurity` is one of each
part's specification, since a step of one part leaves the variables of the others
alone. `PartsTypesKept` puts the type invariants of the parts together: `TypesOK`,
as the run checks it.

Only model-checked:

- Liveness (`EveryJobSettles`, `EventuallyFresh`, `RequestsEnd`): fairness is out
  of the prover's reach. What each needs besides fairness is proved:
  `NoJobIsStranded`, `StaleAnswersFade`, `SomeRequestIsFree`.
- `SomeRequestGoesOn`: it is about `ENABLED`, which the prover does not expand.
  Why it holds is proved: `NobodyIsStuck`.

## 5. Findings

Where the code does not do what the repository's documents say; each is a run
in which TLC finds the counterexample.

1. `cache_same_id`: events are deduplicated by the client's `x-request-id`, so
   a second mutation with the same id leaves the old answers in use
   (docs/iam/permission-cache.md:11).
2. `identity_suspension`: a sign-in that overlaps a suspension leaves a session
   on a suspended identity (README.md:50). What does hold is
   `NoSessionOpenedAfterSuspension`.
3. `membership_deletion`: a deletion that commits between the count of
   administrators and an update takes the other one away, and the update leaves
   none (packages/db/src/organizations.ts:312,
   apps/web/app/pages/admin/organizations.vue:356).
4. `audit_paging`: the cursor carries milliseconds and the rows microseconds, so
   that an event of the same millisecond as a page's last one may be in no page
   (docs/iam/audit-events.md:39). What does hold is
   `PagesMissOnlyWithinMillisecond`.
5. `effective_merge`: two policies that are valid alone but use the same `sid`
   merge into a document the client refuses, and every request of the subject
   fails (docs/iam/effective-policies.md:72).

The models also show these, for which no run is kept:

- A suspended membership is served from the cache for up to five seconds, since
  its route invalidates nothing (docs/iam/effective-policies.md:71);
  `AcknowledgedMutationIsSeen` leaves memberships out, `EventuallyFresh` does
  not.
- A sign-in that verified the old password can insert its session after a reset
  (README.md:52); `EarlierSessionsAreRevoked` is what holds.
- A reset refused for a suspended identity does not use up its token
  (README.md:52).
- The token of an accepted invitation answers with success again while its
  membership exists (README.md:48).
- The second of two overlapping revocations of a grant overwrites who revoked it
  (docs/iam/service-grants.md:22).
- `updateService` writes back every field it has read without a lock, so that a
  concurrent transfer or change of status is reverted
  (docs/iam/service-catalogue.md:22).
- A rotation that fails while another succeeds restores the expiry of a key that
  was replaced: it signs nothing, but stays published (README.md:68).
- A success that was admitted before a lock clears the failures and the lock
  that others have set since.
- A refresh token inserted during a logout is not revoked by it. It is of no
  use: its `session_id` is null.
- An answer to `refresh` or `hydrate` that arrives after `logout` brings the
  snapshot back in the browser.
- The pages, when another row is chosen under a pending request: `users.vue`
  acts on identity B under the e-mail of A, and keeps the confirmations that
  were ticked for A; `organizations.vue` saves A under the title of B and writes
  the answer over B's entry of the list; `service-grants.vue` writes the answer
  for A on B's row, or shows A's grant in B's list, against its own line 327;
  `oauth-clients.vue` shows A's addresses or new secret on B, or drops B from
  the list after A was deleted; a panel closed meanwhile has a change that was
  made reported as failed; `policies.vue` drops what is typed while a save is
  pending.

## 6. Plan

Done: the queue with its promise, the permission cache, the identity, the
organization, the administration of policies and the catalogue with its
register, the service grants, and the ten parts of `MCSecurity`; proofs about all
of them, in eight modules, with the orders in which the transactions of the
identity, of the organization and of the policies take their rows.

What could come next:

- A token store (issued, used once, expired) as the common abstract
  specification of reset tokens, invitations and verification links.
- Authorization and consent, and the secrets of OAuth clients
  (`oauth-clients.ts`).
- The journal page (`audit-events.vue`). Read, not modelled: filters changed
  between two pages meet a cursor of the old ones, and a change of scope during
  a load shows the events of the old scope under the new name.

## 7. Not modelled, and why

- The wiring of the API, discovery documents, public cache headers,
  configuration, logging and metrics, migrations, deployment and tooling: no
  state a property is about.
- Of the pages of `apps/web`, the unlocking of the registers, the journal and
  everything outside of `admin`: they read, or submit one form.
- Listings and previews: they only read, in one statement.
- `oauth-clients.ts` and the consent screens: one statement each, under Better
  Auth's own checks. `pkce.ts`: a pure function.
- Parsing and formatting of cursors, tokens and mail bodies, and the characters
  of identifiers: pure data, left to unit tests.
- Better Auth's protocol code, PostgreSQL and Redis: external, modelled by what
  the code of the repository relies on (row locks and snapshots, unique indexes
  and foreign keys, atomic scripts, TTL, append-only file).
- Authorization of the administrators' requests in `Identity` and `IamCache`: a
  refused one writes nothing but an audit event.
- The event keys of the cache live 24 hours and are kept for good in the model;
  the TTL of an entry may end at any time.
- The period of grace in which a replaced key is still published.
