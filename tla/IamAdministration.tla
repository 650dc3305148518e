------------------------- MODULE IamAdministration -------------------------
(***************************************************************************)
(* The administration of one policy, of its attachments to one principal,  *)
(* of a group and of the catalogue of the policy's service:                *)
(* packages/db/src/iam-policies.ts, iam-attachments.ts, iam-catalog.ts.    *)
(*                                                                         *)
(* Each edit is a READ COMMITTED transaction, one step per statement; what *)
(* it writes appears at its commit.  holds are the rows it has locked for  *)
(* update, changed, or inserted into a unique index; shares those a foreign*)
(* key locks for key share.  Whether an actor may manage the organization  *)
(* or the service, whether the organization is active and whether a        *)
(* principal or a new owner is an active user is read without a lock and   *)
(* changes at any time: either answer.                                     *)
(***************************************************************************)
EXTENDS Integers, Sequences

CONSTANTS
    Edit,           \* bound: the requests
    Owner,          \* users that may own the service
    Platform,       \* those who are platform administrators
    Nobody,
    Document, NoDocument,
    Entry,          \* actions and resources of the service
    Names,          \* the entries a document names
    Attachment, NoAttachment,
    MaxVersion,     \* bound: the versions of the policy
    Mixes           \* the sets of operations that meet

ASSUME EntriesAssumption == Entry # {} /\ Names \in [Document -> SUBSET Entry]
ASSUME OwnersAssumption ==
    Platform \subseteq Owner /\ Owner \ Platform # {} /\ Nobody \notin Owner \cup Edit
ASSUME NonesAssumption == NoDocument \notin Document /\ NoAttachment \notin Attachment
ASSUME MaxVersionAssumption == MaxVersion \in Nat \ {0}

Operations == {"create", "version", "rollback", "status", "history", "attach", "detach",
               "group", "member", "service", "transfer", "entry", "entry status"}

ASSUME MixesAssumption == Mixes \subseteq SUBSET Operations

VARIABLES
    versions, current, policyStatus,    \* iam_policies, iam_policy_versions
    attachment, detachedBy,             \* iam_policy_attachments
    groups,                             \* iam_groups, iam_group_members
    service,                            \* services
    entry,                              \* iam_catalog_entries
    mix, op, by, input,     \* edit e: which one, by whom, what it asks for
    basis,          \* the expectedVersion of an edit of the policy
    found,          \* the current version, or liveness, it has read
    image,          \* the service it has read
    line, holds, shares,    \* its next statement and its rows
    since,          \* the entries active at some time since it began
    made, shown     \* the version it made; what a reader of the history saw

catalogue == <<service, entry>>
rows == <<versions, current, policyStatus, attachment, detachedBy, groups, catalogue>>
asked == <<mix, op, by, input, basis>>
results == <<made, shown>>
varsAdministration ==
    <<rows, asked, found, image, line, holds, shares, since, results>>

Active == {x \in Entry : entry[x] = "active"}
NoService == [owner |-> Nobody, status |-> "none"]

\* What a request may carry; Nobody and "same" stand for a field left out.
Blank == [document |-> NoDocument, target |-> 0, attachment |-> NoAttachment,
          entry |-> CHOOSE x \in Entry : TRUE, owner |-> Nobody, status |-> "same"]

Inputs(k) ==
    CASE k \in {"create", "version"} -> {[Blank EXCEPT !.document = d] : d \in Document}
      [] k = "rollback" -> {[Blank EXCEPT !.target = v] : v \in 1..MaxVersion}
      [] k = "status" -> {[Blank EXCEPT !.status = s] : s \in {"active", "inactive"}}
      [] k \in {"attach", "detach"} -> {[Blank EXCEPT !.attachment = a] : a \in Attachment}
      [] k = "service" -> {[Blank EXCEPT !.owner = u] : u \in Owner}
      [] k = "transfer" -> {[Blank EXCEPT !.owner = u] : u \in Owner} \cup
                           {[Blank EXCEPT !.status = s] : s \in {"active", "inactive"}}
      [] k = "entry" -> {[Blank EXCEPT !.entry = x] : x \in Entry}
      [] k = "entry status" -> {[Blank EXCEPT !.entry = p[1], !.status = p[2]] :
                                    p \in Entry \X {"active", "inactive"}}
      [] OTHER -> {Blank}

InitAdministration ==
    /\ mix \in Mixes
    /\ versions \in IF "create" \in mix THEN {<<>>}
                    ELSE {<<[document |-> d, source |-> 0]>> : d \in Document}
    /\ current = Len(versions) /\ policyStatus = "active"
    /\ attachment \in {f \in [Attachment -> {"none", "live"}] :
                           \A a, b \in Attachment : f[a] = "live" /\ f[b] = "live" => a = b}
    /\ detachedBy = [a \in Attachment |-> Nobody]
    /\ groups = {}
    /\ service = IF "service" \in mix THEN NoService
                 ELSE [owner |-> CHOOSE u \in Owner \ Platform : TRUE, status |-> "active"]
    /\ entry = [x \in Entry |-> IF "entry" \in mix THEN "none" ELSE "active"]
    /\ op = [e \in Edit |-> "none"]
    /\ by = [e \in Edit |-> Nobody]
    /\ input = [e \in Edit |-> Blank]
    /\ basis = [e \in Edit |-> 0]
    /\ found = [e \in Edit |-> 0]
    /\ image = [e \in Edit |-> NoService]
    /\ line = [e \in Edit |-> "idle"]
    /\ holds = [e \in Edit |-> {}]
    /\ shares = [e \in Edit |-> {}]
    /\ since = [e \in Edit |-> {}]
    /\ made = [e \in Edit |-> 0]
    /\ shown = [e \in Edit |-> <<0, 0>>]

-----------------------------------------------------------------------------
(* Statements *)

Policy == <<"policy">>
Live == <<"live">>          \* the entry of the index of live attachments

Unlocked(e, row) == \A x \in Edit \ {e} : row \notin holds[x]
Unshared(e, row) == \A x \in Edit \ {e} : row \notin shares[x]

Reach(e, next) ==
    /\ line' = [line EXCEPT ![e] = next]
    /\ UNCHANGED <<rows, asked, image, since, results>>

To(e, next) == Reach(e, next) /\ UNCHANGED <<found, holds, shares>>

\* Wait for a row, lock it, and note what it says.
Lock(e, row, value, next) ==
    /\ Unlocked(e, row) /\ Unshared(e, row)
    /\ holds' = [holds EXCEPT ![e] = @ \cup {row}]
    /\ found' = [found EXCEPT ![e] = value]
    /\ Reach(e, next)
    /\ UNCHANGED shares

Finish(e) ==
    /\ line' = [line EXCEPT ![e] = "ended"]
    /\ holds' = [holds EXCEPT ![e] = {}]
    /\ shares' = [shares EXCEPT ![e] = {}]
    /\ op' = [op EXCEPT ![e] = "none"]
    /\ by' = [by EXCEPT ![e] = Nobody]
    /\ input' = [input EXCEPT ![e] = Blank]
    /\ found' = [found EXCEPT ![e] = 0]
    /\ image' = [image EXCEPT ![e] = NoService]
    /\ UNCHANGED <<mix, basis>>

\* The edit throws: not found, forbidden, conflict, or the connection is lost.
Throw(e) == Finish(e) /\ UNCHANGED <<rows, since, results>>

Start(k) ==
    CASE k \in {"create", "service", "group"} -> "authorize"
      [] k \in {"version", "rollback", "status"} -> "policy"
      [] k = "history" -> "read policy"
      [] k = "attach" -> "scope"
      [] k = "detach" -> "attachment"
      [] k = "transfer" -> "read service"
      [] k = "entry" -> "authorize"
      [] OTHER -> "read"

CallEdit(e) ==
    /\ line[e] = "idle"
    /\ \E k \in mix, u \in Owner : \E i \in Inputs(k) :
        /\ k = "attach" => /\ attachment[i.attachment] = "none"
                           /\ \A x \in Edit : input[x].attachment # i.attachment
        /\ k = "detach" => attachment[i.attachment] # "none"
        /\ k # "transfer" => u \in Platform
        /\ op' = [op EXCEPT ![e] = k]
        /\ by' = [by EXCEPT ![e] = u]
        /\ input' = [input EXCEPT ![e] = i]
        /\ \E v \in IF k \in {"version", "rollback"} THEN 1..MaxVersion ELSE {0} :
               basis' = [basis EXCEPT ![e] = v]
        /\ line' = [line EXCEPT ![e] = Start(k)]
    /\ since' = [since EXCEPT ![e] = Active]
    /\ UNCHANGED <<rows, mix, found, image, holds, shares, results>>

At(e, here, kinds) == line[e] = here /\ op[e] \in kinds

\* lockedPolicy, and the policy of the join that detachIamPolicy locks.
LockPolicy(e) ==
    /\ line[e] = "policy"
    /\ IF current = 0 THEN Throw(e) ELSE Lock(e, Policy, current, "authorize")

\* Mutant: the attachment is read and not locked.
ReadAttachment(e) ==
    /\ line[e] = "attachment"
    /\ found' = [found EXCEPT ![e] = IF attachment[input[e].attachment] = "live" THEN 1 ELSE 0]
    /\ Reach(e, "authorize")
    /\ UNCHANGED <<holds, shares>>

LockAttachment(e) ==
    LET a == input[e].attachment IN
    /\ line[e] = "attachment"
    /\ Lock(e, <<"attachment", a>>, IF attachment[a] = "live" THEN 1 ELSE 0, "joined policy")

LockJoinedPolicy(e) ==
    /\ line[e] = "joined policy"
    /\ Lock(e, Policy, found[e], "authorize")

\* The current version that getIamPolicyHistory answers with.
ReadPolicy(e) ==
    /\ line[e] = "read policy"
    /\ IF current = 0 THEN Throw(e)
       ELSE /\ found' = [found EXCEPT ![e] = current]
            /\ Reach(e, "authorize")
            /\ UNCHANGED <<holds, shares>>

\* loadPolicyScope
LoadScope(e) ==
    /\ line[e] = "scope"
    /\ IF current > 0 /\ service.status = "active" THEN To(e, "authorize") ELSE Throw(e)

Allowed(e) ==
    CASE op[e] \in {"create", "version", "entry"} -> "service"
      [] op[e] = "rollback" -> "target"
      [] op[e] = "history" -> "versions"
      [] op[e] = "detach" -> IF found[e] = 1 THEN "update" ELSE "commit"
      [] op[e] \in {"attach", "group", "member", "service"} -> "insert"
      [] op[e] = "entry status" -> "write"
      [] OTHER -> "commit"

\* canManage, canManageService, validPrincipal, validOrganizationUser.
AuthorizeEdit(e) ==
    /\ line[e] = "authorize"
    /\ To(e, Allowed(e)) \/ Throw(e)

\* Mutant: inactive entries are offered too.
ReadEntriesAll(e) ==
    /\ line[e] = "entries"
    /\ IF Names[input[e].document] \subseteq {x \in Entry : entry[x] # "none"}
       THEN To(e, IF op[e] = "create" THEN "insert" ELSE "append")
       ELSE Throw(e)

\* validatedDocument: the service, then its active entries.
ReadActiveService(e) ==
    /\ line[e] = "service"
    /\ IF service.status = "active" THEN To(e, IF op[e] = "entry" THEN "insert" ELSE "entries")
       ELSE Throw(e)

ReadEntries(e) ==
    /\ line[e] = "entries"
    /\ IF Names[input[e].document] \subseteq Active
       THEN To(e, IF op[e] = "create" THEN "insert" ELSE "append")
       ELSE Throw(e)

ReadTarget(e) ==
    LET v == input[e].target IN
    /\ line[e] = "target"
    /\ IF v \notin DOMAIN versions THEN Throw(e)
       ELSE /\ input' = [input EXCEPT ![e].document = versions[v].document]
            /\ line' = [line EXCEPT ![e] = "append"]
            /\ UNCHANGED <<rows, mix, op, by, basis, found, image, holds, shares, since, results>>

\* Mutant: expectedVersion is not compared.
AppendVersionAnyway(e) ==
    /\ line[e] = "append"
    /\ found[e] < MaxVersion
    /\ To(e, "commit")

\* appendVersion.  It waits for nothing: its rows are the locked policy's.
AppendVersion(e) ==
    /\ line[e] = "append"
    /\ found[e] < MaxVersion
    /\ IF basis[e] # found[e] THEN Throw(e) ELSE To(e, "commit")

-----------------------------------------------------------------------------
(* Inserts under a unique index, which waits for an uncommitted equal *)

Key(e) ==
    CASE op[e] = "attach" -> Live
      [] op[e] = "entry" -> <<"entry", input[e].entry>>
      [] OTHER -> <<op[e]>>

\* Mutant: the index of attachments is not unique.
TakenElsewhere(e) ==
    CASE op[e] = "create" -> current > 0
      [] op[e] = "attach" -> FALSE
      [] op[e] = "entry" -> entry[input[e].entry] # "none"
      [] op[e] = "service" -> service # NoService
      [] OTHER -> op[e] \in groups

Taken(e) ==
    CASE op[e] = "create" -> current > 0
      [] op[e] = "attach" -> \E a \in Attachment : attachment[a] = "live"
      [] op[e] = "entry" -> entry[input[e].entry] # "none"
      [] op[e] = "service" -> service # NoService
      [] OTHER -> op[e] \in groups

InsertRow(e) ==
    /\ line[e] = "insert"
    /\ Unlocked(e, Key(e))
    /\ IF Taken(e) THEN Throw(e)
       ELSE Lock(e, Key(e), found[e], IF op[e] = "attach" THEN "foreign key" ELSE "commit")

ShareForeignKey(e) ==
    /\ line[e] = "foreign key"
    /\ Unlocked(e, Policy)
    /\ shares' = [shares EXCEPT ![e] = @ \cup {Policy}]
    /\ Reach(e, "commit")
    /\ UNCHANGED <<found, holds>>

-----------------------------------------------------------------------------
(* Updates *)

\* The row that leaves the index of live attachments is waited for there.
UpdateAttachment(e) ==
    /\ line[e] = "update"
    /\ Lock(e, Live, 1, "commit")

\* updateService reads the row, then who asks, then a new owner; no lock.
ReadService(e) ==
    LET i == input[e] IN
    /\ line[e] = "read service"
    /\ IF \/ service = NoService
          \/ by[e] \notin Platform /\ (service.owner # by[e] \/ i.owner # Nobody)
       THEN Throw(e)
       ELSE /\ image' = [image EXCEPT ![e] = service]
            /\ line' = [line EXCEPT ![e] = "new owner"]
            /\ UNCHANGED <<rows, asked, found, holds, shares, since, results>>

ReadNewOwner(e) ==
    /\ line[e] = "new owner"
    /\ To(e, "write") \/ (input[e].owner # Nobody /\ Throw(e))

ReadEntry(e) ==
    /\ line[e] = "read"
    /\ op[e] = "entry status"
    /\ IF entry[input[e].entry] = "none" THEN Throw(e) ELSE To(e, "authorize")

ReadGroup(e) ==
    /\ line[e] = "read"
    /\ op[e] = "member"
    /\ IF "group" \in groups THEN To(e, "authorize") ELSE Throw(e)

WriteRow(e) ==
    /\ line[e] = "write"
    /\ Lock(e, IF op[e] = "transfer" THEN <<"service">> ELSE <<"entry", input[e].entry>>,
            found[e], "commit")

-----------------------------------------------------------------------------
(* Commits *)

Committing(e, k) == line[e] = "commit" /\ op[e] = k

CommitPolicy(e) ==
    /\ Committing(e, "create")
    /\ versions' = <<[document |-> input[e].document, source |-> 0]>>
    /\ current' = 1
    /\ policyStatus' = "active"
    /\ made' = [made EXCEPT ![e] = 1]
    /\ Finish(e)
    /\ UNCHANGED <<attachment, detachedBy, groups, catalogue, since, shown>>

CommitVersion(e) ==
    /\ \E k \in {"version", "rollback"} : Committing(e, k)
    /\ versions' = Append(versions,
                          [document |-> input[e].document, source |-> input[e].target])
    /\ current' = found[e] + 1
    /\ made' = [made EXCEPT ![e] = found[e] + 1]
    /\ Finish(e)
    /\ UNCHANGED <<policyStatus, attachment, detachedBy, groups, catalogue, since, shown>>

CommitStatusOfPolicy(e) ==
    /\ Committing(e, "status")
    /\ policyStatus' = input[e].status
    /\ Finish(e)
    /\ UNCHANGED <<versions, current, attachment, detachedBy, groups, catalogue, since, results>>

CommitAttach(e) ==
    /\ Committing(e, "attach")
    /\ attachment' = [attachment EXCEPT ![input[e].attachment] = "live"]
    /\ Finish(e)
    /\ UNCHANGED <<versions, current, policyStatus, detachedBy, groups, catalogue, since, results>>

CommitDetach(e) ==
    LET a == input[e].attachment IN
    /\ Committing(e, "detach")
    /\ IF found[e] = 0 THEN UNCHANGED <<attachment, detachedBy>>
       ELSE /\ attachment' = [attachment EXCEPT ![a] = "detached"]
            /\ detachedBy' = [detachedBy EXCEPT ![a] = e]
    /\ Finish(e)
    /\ UNCHANGED <<versions, current, policyStatus, groups, catalogue, since, results>>

CommitGroup(e) ==
    /\ \E k \in {"group", "member"} : Committing(e, k)
    /\ groups' = groups \cup {op[e]}
    /\ Finish(e)
    /\ UNCHANGED <<versions, current, policyStatus, attachment, detachedBy, catalogue,
                   since, results>>

\* createService and updateService: what was not asked for is written as read.
CommitService(e) ==
    LET i == input[e] IN
    /\ \E k \in {"service", "transfer"} : Committing(e, k)
    /\ service' = IF op[e] = "service" THEN [owner |-> i.owner, status |-> "active"]
                  ELSE [owner |-> IF i.owner = Nobody THEN image[e].owner ELSE i.owner,
                        status |-> IF i.status = "same" THEN image[e].status ELSE i.status]
    /\ Finish(e)
    /\ UNCHANGED <<versions, current, policyStatus, attachment, detachedBy, groups, entry,
                   since, results>>

\* createIamCatalogEntry and setIamCatalogEntryStatus.
CommitEntry(e) ==
    LET x == input[e].entry IN
    /\ \E k \in {"entry", "entry status"} : Committing(e, k)
    /\ entry' = [entry EXCEPT ![x] = IF op[e] = "entry" THEN "active" ELSE input[e].status]
    /\ since' = [f \in Edit |-> IF line[f] \in {"idle", "ended"} THEN since[f]
                                ELSE since[f] \cup {y \in Entry : entry'[y] = "active"}]
    /\ Finish(e)
    /\ UNCHANGED <<versions, current, policyStatus, attachment, detachedBy, groups, service,
                   results>>

\* getIamPolicyHistory answers with the policy read first and all versions now.
AnswerHistory(e) ==
    /\ line[e] = "versions"
    /\ shown' = [shown EXCEPT ![e] = <<found[e], Len(versions)>>]
    /\ Finish(e)
    /\ UNCHANGED <<rows, since, made>>

\* The connection or the process is lost, and with it the transaction.
LoseEdit(e) == line[e] \notin {"idle", "ended"} /\ Throw(e)

Statement(e) ==
    \/ CallEdit(e) \/ LoseEdit(e)
    \/ LockPolicy(e) \/ LockAttachment(e) \/ LockJoinedPolicy(e)
    \/ ReadPolicy(e) \/ LoadScope(e) \/ AuthorizeEdit(e)
    \/ ReadActiveService(e) \/ ReadEntries(e) \/ ReadTarget(e) \/ AppendVersion(e)
    \/ InsertRow(e) \/ ShareForeignKey(e)
    \/ UpdateAttachment(e) \/ ReadService(e) \/ ReadNewOwner(e)
    \/ ReadEntry(e) \/ ReadGroup(e) \/ WriteRow(e)
    \/ CommitPolicy(e) \/ CommitVersion(e) \/ CommitStatusOfPolicy(e)
    \/ CommitAttach(e) \/ CommitDetach(e) \/ CommitGroup(e)
    \/ CommitService(e) \/ CommitEntry(e) \/ AnswerHistory(e)

NextAdministration == \E e \in Edit : Statement(e)

SpecAdministration == InitAdministration /\ [][NextAdministration]_varsAdministration

-----------------------------------------------------------------------------
(* Properties *)

\* Rows, requests and locks have the types the code gives them.
TypeOKAdministration ==
    /\ versions \in Seq([document : Document, source : 0..MaxVersion])
    /\ current \in 0..MaxVersion
    /\ policyStatus \in {"active", "inactive"}
    /\ attachment \in [Attachment -> {"none", "live", "detached"}]
    /\ detachedBy \in [Attachment -> Edit \cup {Nobody}]
    /\ groups \subseteq {"group", "member"}
    /\ service \in [owner : Owner, status : {"active", "inactive"}] \cup {NoService}
    /\ entry \in [Entry -> {"none", "active", "inactive"}]
    /\ op \in [Edit -> Operations \cup {"none"}]
    /\ input \in [Edit ->
                    [document : Document \cup {NoDocument}, target : 0..MaxVersion,
                     attachment : Attachment \cup {NoAttachment}, entry : Entry,
                     owner : Owner \cup {Nobody}, status : {"active", "inactive", "same"}]]
    /\ made \in [Edit -> 0..MaxVersion]
    /\ shown \in [Edit -> (0..MaxVersion) \X (0..MaxVersion)]

\* appendVersion, iam_policy_versions: the current version is the last, and a
\* rollback has appended an earlier document, whatever edits overlapped.
HistoryIsWhole ==
    /\ current = Len(versions)
    /\ \A v \in DOMAIN versions :
        LET source == versions[v].source IN
        source # 0 => source < v /\ versions[v].document = versions[source].document

\* createIamPolicy, createIamPolicyVersion and rollbackIamPolicy are the writes
\* of a register: each builds on the version it names, and no two on the same.
Register == INSTANCE VersionedRegister WITH
    Author <- Edit, Text <- Document, log <- [v \in DOMAIN versions |-> versions[v].document]

ImplementsRegister == Register!Spec

\* getIamPolicyHistory: an answer may hold versions newer than its policy, but
\* never misses the one the policy says is current.
HistoryCoversCurrent == \A e \in Edit : shown[e][1] <= shown[e][2]

\* attachIamPolicy: one live attachment of the policy to the principal.
OneLiveAttachment ==
    \A a, b \in Attachment : attachment[a] = "live" /\ attachment[b] = "live" => a = b

\* detachIamPolicy: a detached attachment stays so, and who detached it first
\* stays recorded, however often and at once it is detached.
DetachmentIsFinal ==
    [][\A a \in Attachment : detachedBy[a] # Nobody =>
          detachedBy'[a] = detachedBy[a] /\ attachment'[a] = "detached"]_varsAdministration

\* validatedDocument: a document that is published, other than by a rollback,
\* names only entries that were active at some time during its request.
PublishedWasOffered ==
    [][\A e \in Edit : made'[e] # made[e] /\ versions'[made'[e]].source = 0 =>
          Names[versions'[made'[e]].document] \subseteq since[e]]_varsAdministration

\* The rows of the policy, its history and its attachments agree, whatever
\* changes overlap.
AdministrationIsSound ==
    TypeOKAdministration /\ HistoryIsWhole /\ HistoryCoversCurrent /\ OneLiveAttachment
=============================================================================
