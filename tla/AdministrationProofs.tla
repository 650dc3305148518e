------------------------ MODULE AdministrationProofs ------------------------
(***************************************************************************)
(* Proofs about what administrators change, for any number of requests:    *)
(* the policies, their attachments, the groups and the catalogue           *)
(* (IamAdministration), and the grants of a service (ServiceGrants).       *)
(*                                                                         *)
(* Of the policies: the history is a register, one attachment is live,     *)
(* what is detached stays so, and what is published was offered. What an   *)
(* edit has read under a lock is true until it commits, since it holds the *)
(* row and nobody else does (RequestOK, Apart); what it has read without   *)
(* one is either checked again by an index or only grows.                  *)
(*                                                                         *)
(* Of the grants: one is current at most, and a revoked one stays revoked. *)
(* Who writes a grant other than to revoke it found, at that statement,    *)
(* that the grant is not revoked (the CHECK constraint, or the grant is    *)
(* new) and that no other is current or about to be (the index).  Until it *)
(* commits the uncommitted row keeps the others waiting, so both are still *)
(* true at the commit.                                                     *)
(***************************************************************************)
EXTENDS IamAdministration, ServiceGrants, SequenceTheorems, TLAPS

-----------------------------------------------------------------------------
(* Policies: what holds of a request *)

Lockable == {Policy, Live, <<"service">>} \cup {<<k>> : k \in Operations}
            \cup {<<"attachment", a>> : a \in Attachment} \cup {<<"entry", x>> : x \in Entry}
Lines == {"idle", "policy", "attachment", "joined policy", "read policy", "scope", "authorize",
          "service", "entries", "target", "append", "insert", "foreign key", "update",
          "read service", "new owner", "read", "write", "versions", "commit", "ended"}
Standings == {"active", "inactive"}
Services == [owner : Owner, status : Standings]
InputType == [document : Document \cup {NoDocument}, target : 0..MaxVersion,
              attachment : Attachment \cup {NoAttachment}, entry : Entry,
              owner : Owner \cup {Nobody}, status : Standings \cup {"same"}]
Version == [document : Document, source : 0..MaxVersion]

\* The tables.
RowsOK ==
    /\ versions \in Seq(Version)
    /\ current \in 0..MaxVersion
    /\ policyStatus \in Standings
    /\ attachment \in [Attachment -> {"none", "live", "detached"}]
    /\ detachedBy \in [Attachment -> Edit \cup {Nobody}]
    /\ groups \subseteq {"group", "member"}
    /\ service \in Services \cup {NoService}
    /\ entry \in [Entry -> {"none", "active", "inactive"}]
    /\ HistoryIsWhole
    /\ OneLiveAttachment
    /\ \A a \in Attachment : detachedBy[a] # Nobody => attachment[a] = "detached"

\* The requests.
RequestTypes ==
    /\ mix \in Mixes
    /\ op \in [Edit -> Operations \cup {"none"}]
    /\ by \in [Edit -> Owner \cup {Nobody}]
    /\ input \in [Edit -> InputType]
    /\ basis \in [Edit -> 0..MaxVersion]
    /\ found \in [Edit -> 0..MaxVersion]
    /\ image \in [Edit -> Services \cup {NoService}]
    /\ line \in [Edit -> Lines]
    /\ holds \in [Edit -> SUBSET Lockable]
    /\ since \in [Edit -> SUBSET Entry]
    /\ made \in [Edit -> 0..MaxVersion]
    /\ shown \in [Edit -> (0..MaxVersion) \X (0..MaxVersion)]

\* The statements of each operation.
Placed(k, l) ==
    /\ k = "create" => l \in {"authorize", "service", "entries", "insert", "commit"}
    /\ k = "version" => l \in {"policy", "authorize", "service", "entries", "append", "commit"}
    /\ k = "rollback" => l \in {"policy", "authorize", "target", "append", "commit"}
    /\ k = "status" => l \in {"policy", "authorize", "commit"}
    /\ k = "history" => l \in {"read policy", "authorize", "versions"}
    /\ k = "attach" => l \in {"scope", "authorize", "insert", "foreign key", "commit"}
    /\ k = "detach" => l \in {"attachment", "joined policy", "authorize", "update", "commit"}
    /\ k \in {"group", "service"} => l \in {"authorize", "insert", "commit"}
    /\ k = "member" => l \in {"read", "authorize", "insert", "commit"}
    /\ k = "transfer" => l \in {"read service", "new owner", "write", "commit"}
    /\ k = "entry" => l \in {"authorize", "service", "insert", "commit"}
    /\ k = "entry status" => l \in {"read", "authorize", "write", "commit"}
    /\ k = "none" => l \in {"idle", "ended"}

\* A new version of the policy, whose row is locked.
NextVersionOK(e) ==
    /\ line[e] # "policy" => Policy \in holds[e] /\ found[e] = current /\ current > 0
    /\ line[e] = "commit" => basis[e] = found[e] /\ found[e] < MaxVersion

\* A document is given, and its entries were offered.
DocumentOK(e, checked) ==
    /\ input[e].target = 0 /\ input[e].document \in Document
    /\ line[e] \in checked => Names[input[e].document] \subseteq since[e]

CreateOK(e) ==
    /\ basis[e] = 0
    /\ line[e] = "commit" => <<"create">> \in holds[e] /\ current = 0

RollbackOK(e) ==
    /\ input[e].target # 0
    /\ line[e] \in {"append", "commit"} =>
            /\ input[e].target \in DOMAIN versions
            /\ input[e].document = versions[input[e].target].document

AttachOK(e) ==
    /\ input[e].attachment \in Attachment
    /\ attachment[input[e].attachment] = "none"
    /\ line[e] \in {"foreign key", "commit"} =>
            Live \in holds[e] /\ \A a \in Attachment : attachment[a] # "live"

DetachOK(e) ==
    LET a == input[e].attachment IN
    /\ a \in Attachment /\ attachment[a] # "none"
    /\ line[e] # "attachment" =>
            /\ <<"attachment", a>> \in holds[e] /\ found[e] \in {0, 1}
            /\ found[e] = 1 <=> attachment[a] = "live"
    /\ line[e] = "update" => found[e] = 1

\* What a request knows of itself, of the entries, of the history and of the
\* attachments.
PlaceOK(e) ==
    /\ Placed(op[e], line[e])
    /\ line[e] # "ended" => made[e] = 0
    /\ shown[e][1] <= shown[e][2]
    /\ op[e] \in {"status", "entry status"} => input[e].status \in Standings
    /\ op[e] = "service" => input[e].owner \in Owner
    /\ op[e] = "transfer" /\ line[e] # "read service" => image[e] \in Services

OfferOK(e) ==
    /\ line[e] \notin {"idle", "ended"} => Active \subseteq since[e]
    /\ op[e] = "create" => DocumentOK(e, {"insert", "commit"})
    /\ op[e] = "version" => DocumentOK(e, {"append", "commit"})

HistoryOK(e) ==
    /\ op[e] = "create" => CreateOK(e)
    /\ op[e] = "version" => NextVersionOK(e)
    /\ op[e] = "rollback" => NextVersionOK(e) /\ RollbackOK(e)
    /\ op[e] = "history" /\ line[e] # "read policy" => found[e] <= current

AttachmentOK(e) ==
    /\ op[e] = "attach" => AttachOK(e)
    /\ op[e] = "detach" => DetachOK(e)

RequestOK(e) == PlaceOK(e) /\ OfferOK(e) /\ HistoryOK(e) /\ AttachmentOK(e)

\* No two edits hold the same row or insert the same attachment.
Apart(e, x) ==
    /\ holds[e] \cap holds[x] = {}
    /\ op[e] = "attach" /\ op[x] = "attach" => input[e].attachment # input[x].attachment

AdmInv ==
    /\ RowsOK
    /\ RequestTypes
    /\ \A e \in Edit : RequestOK(e)
    /\ \A e, x \in Edit : e # x => Apart(e, x)

\* A request other than e is where it was.
Rests(x) ==
    /\ op'[x] = op[x] /\ input'[x] = input[x] /\ basis'[x] = basis[x] /\ found'[x] = found[x]
    /\ image'[x] = image[x] /\ line'[x] = line[x] /\ holds'[x] = holds[x]
    /\ made'[x] = made[x] /\ shown'[x] = shown[x]

-----------------------------------------------------------------------------
(* What the definitions of a request give *)

\* The input of a request that has none.
LEMMA BlankType ==
    /\ Blank \in InputType /\ Blank.target = 0 /\ Blank.document = NoDocument
    /\ Blank.attachment = NoAttachment /\ Blank.owner = Nobody /\ Blank.status = "same"
<1>1. (CHOOSE x \in Entry : TRUE) \in Entry
  BY EntriesAssumption
<1>2. 0 \in 0..MaxVersion
  BY MaxVersionAssumption
<1> QED  BY <1>1, <1>2 DEF Blank, InputType

\* What a request knows stays so while what it is about does.
LEMMA Frames ==
    ASSUME NEW x \in Edit, RequestOK(x), Rests(x)
    PROVE  /\ PlaceOK(x)'
           /\ UNCHANGED entry /\ since'[x] = since[x] => OfferOK(x)'
           /\ UNCHANGED <<versions, current>> => HistoryOK(x)'
           /\ UNCHANGED attachment => AttachmentOK(x)'
<1>1. PlaceOK(x)'
  BY DEF RequestOK, PlaceOK, Rests
<1>2. ASSUME UNCHANGED entry, since'[x] = since[x] PROVE OfferOK(x)'
  BY <1>2 DEF RequestOK, OfferOK, DocumentOK, Active, Rests
<1>3. ASSUME UNCHANGED <<versions, current>> PROVE HistoryOK(x)'
  BY <1>3 DEF RequestOK, HistoryOK, NextVersionOK, CreateOK, RollbackOK, Rests
<1>4. ASSUME UNCHANGED attachment PROVE AttachmentOK(x)'
  BY <1>4 DEF RequestOK, AttachmentOK, AttachOK, DetachOK, Rests
<1> QED  BY <1>1, <1>2, <1>3, <1>4

\* Two requests that were apart stay so when one lets go or takes a free row.
LEMMA StayApart ==
    ASSUME AdmInv, NEW e \in Edit,
           \A x \in Edit \ {e} : Rests(x) /\ holds'[e] \cap holds[x] = {},
           op'[e] = "attach" =>
               \A x \in Edit \ {e} : op[x] = "attach" =>
                   input'[e].attachment # input[x].attachment
    PROVE  \A x, y \in Edit : x # y => Apart(x, y)'
<1> SUFFICES ASSUME NEW x \in Edit, NEW y \in Edit, x # y PROVE Apart(x, y)'
  OBVIOUS
<1>1. CASE x # e /\ y # e
  BY <1>1 DEF AdmInv, Apart, Rests
<1>2. CASE x = e
  BY <1>2 DEF Apart, Rests
<1>3. CASE y = e
  BY <1>3 DEF Apart, Rests
<1> QED  BY <1>1, <1>2, <1>3

\* A step that changes no table: only its own request is to be looked at.
LEMMA QuietKeeps ==
    ASSUME AdmInv, NEW e \in Edit, UNCHANGED rows, RequestTypes',
           \A x \in Edit \ {e} :
               Rests(x) /\ since'[x] = since[x] /\ holds'[e] \cap holds[x] = {},
           RequestOK(e)',
           op'[e] = "attach" =>
               \A x \in Edit \ {e} : op[x] = "attach" =>
                   input'[e].attachment # input[x].attachment
    PROVE  AdmInv'
<1>1. RowsOK'
  BY DEF AdmInv, RowsOK, HistoryIsWhole, OneLiveAttachment, rows, catalogue
<1>2. ASSUME NEW x \in Edit \ {e} PROVE RequestOK(x)'
  BY Frames DEF AdmInv, rows, catalogue, RequestOK
<1>3. \A x, y \in Edit : x # y => Apart(x, y)'
  BY StayApart
<1> QED  BY <1>1, <1>2, <1>3 DEF AdmInv

\* A request that ends forgets everything and lets its rows go.
LEMMA FinishTypes ==
    ASSUME AdmInv, NEW e \in Edit, Finish(e)
    PROVE  /\ mix' \in Mixes
           /\ op' \in [Edit -> Operations \cup {"none"}] /\ by' \in [Edit -> Owner \cup {Nobody}]
           /\ input' \in [Edit -> InputType] /\ basis' \in [Edit -> 0..MaxVersion]
           /\ found' \in [Edit -> 0..MaxVersion] /\ image' \in [Edit -> Services \cup {NoService}]
           /\ line' \in [Edit -> Lines] /\ holds' \in [Edit -> SUBSET Lockable]
           /\ op'[e] = "none" /\ line'[e] = "ended" /\ holds'[e] = {}
           /\ \A x \in Edit \ {e} :
                /\ op'[x] = op[x] /\ input'[x] = input[x] /\ basis'[x] = basis[x]
                /\ found'[x] = found[x] /\ image'[x] = image[x] /\ line'[x] = line[x]
                /\ holds'[x] = holds[x]
<1>1. 0 \in 0..MaxVersion
  BY MaxVersionAssumption
<1> QED  BY <1>1, BlankType DEF AdmInv, RequestTypes, Finish, Lines

\* A request that is refused, fails or is lost has written nothing.
LEMMA ThrowKeeps ==
    ASSUME AdmInv, NEW e \in Edit, Throw(e) PROVE AdmInv'
<1>1. UNCHANGED <<rows, since, made, shown>> /\ Finish(e)
  BY DEF Throw, results
<1>2. RequestTypes'
  BY <1>1, FinishTypes DEF AdmInv, RequestTypes
<1>3. RequestOK(e)'
  <2>1. RequestOK(e) /\ op'[e] = "none" /\ line'[e] = "ended"
    BY <1>1, FinishTypes DEF AdmInv
  <2> QED  BY <1>1, <2>1 DEF RequestOK, PlaceOK, OfferOK, HistoryOK, AttachmentOK, Placed
<1> QED  BY <1>1, <1>2, <1>3, FinishTypes, QuietKeeps DEF Rests

\* Which operations are at a statement.
LEMMA Stops ==
    ASSUME RequestTypes, NEW e \in Edit, PlaceOK(e)
    PROVE  /\ line[e] = "idle" => op[e] = "none" /\ made[e] = 0
           /\ line[e] = "policy" => op[e] \in {"version", "rollback", "status"}
           /\ line[e] \in {"attachment", "joined policy", "update"} => op[e] = "detach"
           /\ line[e] \in {"read policy", "versions"} => op[e] = "history"
           /\ line[e] \in {"scope", "foreign key"} => op[e] = "attach"
           /\ line[e] = "service" => op[e] \in {"create", "version", "entry"}
           /\ line[e] = "entries" => op[e] \in {"create", "version"}
           /\ line[e] = "target" => op[e] = "rollback"
           /\ line[e] = "append" => op[e] \in {"version", "rollback"}
           /\ line[e] = "insert" =>
                op[e] \in {"create", "attach", "group", "member", "service", "entry"}
           /\ line[e] \in {"read service", "new owner"} => op[e] = "transfer"
           /\ line[e] = "read" => op[e] \in {"member", "entry status"}
           /\ line[e] = "write" => op[e] \in {"transfer", "entry status"}
           /\ line[e] \notin {"idle", "ended"} => op[e] # "none"
<1>1. op[e] \in Operations \cup {"none"}
  BY DEF RequestTypes
<1> QED  BY <1>1 DEF PlaceOK, Placed, Operations

\* A statement that goes on to another, and may lock rows and note a value.
LEMMA ReachKeeps ==
    ASSUME AdmInv, NEW e \in Edit, NEW next \in Lines, Reach(e, next),
           found' \in [Edit -> 0..MaxVersion], holds' \in [Edit -> SUBSET Lockable],
           \A x \in Edit \ {e} :
               found'[x] = found[x] /\ holds'[x] = holds[x] /\ holds'[e] \cap holds[x] = {},
           RequestOK(e)'
    PROVE  AdmInv'
<1>1. UNCHANGED <<rows, mix, op, by, input, basis, image, since, made, shown>>
      /\ line' = [line EXCEPT ![e] = next]
  BY DEF Reach, asked, results
<1>2. RequestTypes'
  BY <1>1 DEF AdmInv, RequestTypes
<1>3. ASSUME NEW x \in Edit \ {e} PROVE Rests(x) /\ since'[x] = since[x]
  <2>1. line'[x] = line[x]
    BY <1>1 DEF AdmInv, RequestTypes
  <2> QED  BY <1>1, <2>1 DEF Rests
<1>4. ASSUME op'[e] = "attach", NEW x \in Edit \ {e}, op[x] = "attach"
      PROVE  input'[e].attachment # input[x].attachment
  BY <1>1, <1>4 DEF AdmInv, Apart
<1> QED  BY <1>1, <1>2, <1>3, <1>4, QuietKeeps

\* A statement that takes no row and notes nothing.
LEMMA ToKeeps ==
    ASSUME AdmInv, NEW e \in Edit, NEW next \in Lines, To(e, next), RequestOK(e)'
    PROVE  AdmInv'
<1>1. Reach(e, next) /\ found' = found /\ holds' = holds
  BY DEF To
<1>2. \A x \in Edit \ {e} : holds[e] \cap holds[x] = {}
  BY DEF AdmInv, Apart
<1>3. found' \in [Edit -> 0..MaxVersion] /\ holds' \in [Edit -> SUBSET Lockable]
  BY <1>1 DEF AdmInv, RequestTypes
<1> QED  BY <1>1, <1>2, <1>3, ReachKeeps

\* A statement that waits for a row and takes it: nobody else holds it.
LEMMA LockKeeps ==
    ASSUME AdmInv, NEW e \in Edit, NEW next \in Lines, NEW v \in 0..MaxVersion,
           NEW row \in Lockable, Lock(e, row, v, next), RequestOK(e)'
    PROVE  AdmInv'
<1>1. Reach(e, next) /\ found' = [found EXCEPT ![e] = v]
      /\ holds' = [holds EXCEPT ![e] = @ \cup {row}]
  BY DEF Lock
<1>2. found \in [Edit -> 0..MaxVersion] /\ holds \in [Edit -> SUBSET Lockable]
  BY DEF AdmInv, RequestTypes
<1>3. found' \in [Edit -> 0..MaxVersion] /\ holds' \in [Edit -> SUBSET Lockable]
  BY <1>1, <1>2
<1>4. ASSUME NEW x \in Edit \ {e}
      PROVE  found'[x] = found[x] /\ holds'[x] = holds[x] /\ holds'[e] \cap holds[x] = {}
  <2>1. holds[e] \cap holds[x] = {} /\ row \notin holds[x]
    BY DEF Lock, Unlocked, AdmInv, Apart
  <2> QED  BY <1>1, <1>2, <2>1
<1> QED  BY <1>1, <1>3, <1>4, ReachKeeps

\* What a request has after a statement that only moves it on.
LEMMA Moved ==
    ASSUME AdmInv, NEW e \in Edit, NEW next, Reach(e, next)
    PROVE  /\ UNCHANGED rows /\ op'[e] = op[e] /\ input'[e] = input[e] /\ basis'[e] = basis[e]
           /\ image'[e] = image[e] /\ since'[e] = since[e] /\ made'[e] = made[e]
           /\ shown'[e] = shown[e] /\ line'[e] = next
           /\ RequestOK(e) /\ PlaceOK(e) /\ OfferOK(e) /\ HistoryOK(e) /\ AttachmentOK(e)
           /\ RequestTypes
  BY DEF AdmInv, RequestTypes, Reach, asked, results, RequestOK

\* What is left to show of a request that a statement has moved on.
LEMMA MovedOK ==
    ASSUME AdmInv, NEW e \in Edit, NEW next, Reach(e, next), Placed(op[e], next),
           line[e] \notin {"idle", "ended"},
           op[e] = "transfer" => image[e] \in Services,
           op[e] = "create" /\ next \in {"insert", "commit"} =>
                Names[input[e].document] \subseteq since[e],
           op[e] = "version" /\ next \in {"append", "commit"} =>
                Names[input[e].document] \subseteq since[e],
           HistoryOK(e)', AttachmentOK(e)'
    PROVE  RequestOK(e)'
<1>1. PlaceOK(e)'
  BY Moved DEF PlaceOK
<1>2. OfferOK(e)'
  <2>1. entry' = entry
    BY Moved DEF rows, catalogue
  <2> QED  BY <2>1, Moved DEF OfferOK, DocumentOK, Active
<1> QED  BY <1>1, <1>2 DEF RequestOK

\* Of a request that keeps what it has read and locked.
LEMMA SteadyHistory ==
    ASSUME AdmInv, NEW e \in Edit, NEW next, Reach(e, next), UNCHANGED <<found, holds>>,
           line[e] \notin {"policy", "read policy"},
           op[e] = "create" => next # "commit",
           op[e] \in {"version", "rollback"} /\ next = "commit" =>
                basis[e] = found[e] /\ found[e] < MaxVersion,
           op[e] = "rollback" /\ next \in {"append", "commit"} => line[e] \in {"append", "commit"}
    PROVE  HistoryOK(e)'
<1>1. /\ versions' = versions /\ current' = current
      /\ found'[e] = found[e] /\ holds'[e] = holds[e] /\ line'[e] = next
      /\ op'[e] = op[e] /\ input'[e] = input[e] /\ basis'[e] = basis[e] /\ HistoryOK(e)
  BY Moved DEF rows
<1>2. ASSUME op[e] \in {"version", "rollback"} PROVE NextVersionOK(e)'
  BY <1>1, <1>2 DEF HistoryOK, NextVersionOK
<1>3. ASSUME op[e] = "rollback" PROVE RollbackOK(e)'
  BY <1>1, <1>3 DEF HistoryOK, RollbackOK
<1>4. ASSUME op[e] = "create" PROVE CreateOK(e)'
  BY <1>1, <1>4 DEF HistoryOK, CreateOK
<1> QED  BY <1>1, <1>2, <1>3, <1>4 DEF HistoryOK

\* The same of an attachment, until its key is free or its row is read.
LEMMA SteadyAttachment ==
    ASSUME AdmInv, NEW e \in Edit, NEW next, Reach(e, next), UNCHANGED <<found, holds>>,
           line[e] # "attachment",
           op[e] = "attach" /\ next \in {"foreign key", "commit"} => line[e] = "foreign key",
           op[e] = "detach" /\ next = "update" => found[e] = 1
    PROVE  AttachmentOK(e)'
<1>1. /\ attachment' = attachment /\ found'[e] = found[e] /\ holds'[e] = holds[e]
      /\ line'[e] = next /\ op'[e] = op[e] /\ input'[e] = input[e] /\ AttachmentOK(e)
  BY Moved DEF rows
<1>2. ASSUME op[e] = "attach" PROVE AttachOK(e)'
  BY <1>1, <1>2 DEF AttachmentOK, AttachOK
<1>3. ASSUME op[e] = "detach" PROVE DetachOK(e)'
  BY <1>1, <1>3 DEF AttachmentOK, DetachOK
<1> QED  BY <1>1, <1>2, <1>3 DEF AttachmentOK

\* A request of another operation has nothing to show.
LEMMA Elsewhere ==
    ASSUME AdmInv, NEW e \in Edit, NEW next, Reach(e, next)
    PROVE  /\ op[e] \notin {"create", "version", "rollback", "history"} => HistoryOK(e)'
           /\ op[e] \notin {"attach", "detach"} => AttachmentOK(e)'
<1>1. op'[e] = op[e]
  BY Moved
<1> QED  BY <1>1 DEF HistoryOK, AttachmentOK

\* A statement that only reads.
LEMMA ReadKeeps ==
    ASSUME AdmInv, NEW e \in Edit, NEW next \in Lines, To(e, next), Placed(op[e], next),
           line[e] \notin {"idle", "ended", "policy", "read policy", "attachment", "read service"},
           op[e] = "create" => next # "commit",
           op[e] = "create" /\ next = "insert" => Names[input[e].document] \subseteq since[e],
           op[e] = "version" /\ next \in {"append", "commit"} =>
                Names[input[e].document] \subseteq since[e],
           op[e] \in {"version", "rollback"} /\ next = "commit" =>
                basis[e] = found[e] /\ found[e] < MaxVersion,
           op[e] = "rollback" /\ next \in {"append", "commit"} => line[e] \in {"append", "commit"},
           op[e] = "attach" => next \notin {"foreign key", "commit"},
           op[e] = "detach" /\ next = "update" => found[e] = 1
    PROVE  AdmInv'
<1>1. Reach(e, next) /\ UNCHANGED <<found, holds>>
  BY DEF To
<1>2. PlaceOK(e)
  BY DEF AdmInv, RequestOK
<1>3. op[e] = "transfer" => image[e] \in Services
  BY <1>2 DEF PlaceOK
<1>4. HistoryOK(e)'
  BY <1>1, SteadyHistory
<1>5. AttachmentOK(e)'
  BY <1>1, SteadyAttachment
<1>6. RequestOK(e)'
  BY <1>1, <1>3, <1>4, <1>5, MovedOK
<1> QED  BY <1>6, ToKeeps

-----------------------------------------------------------------------------
(* The statements *)

\* lockedPolicy: the current version is read under the lock of its row.
LEMMA LockPolicyKeeps ==
    ASSUME AdmInv, NEW e \in Edit, LockPolicy(e) PROVE AdmInv'
<1>1. CASE current = 0
  BY <1>1, ThrowKeeps DEF LockPolicy
<1>2. CASE current # 0
  <2>1. Lock(e, Policy, current, "authorize") /\ line[e] = "policy"
    BY <1>2 DEF LockPolicy
  <2>2. Reach(e, "authorize") /\ current \in 0..MaxVersion /\ Policy \in Lockable /\ current > 0
    BY <1>2, <2>1, MaxVersionAssumption DEF Lock, AdmInv, RowsOK, Lockable
  <2>3. found'[e] = current /\ Policy \in holds'[e]
    BY <2>1 DEF Lock, AdmInv, RequestTypes
  <2>4. op[e] \in {"version", "rollback", "status"}
    BY <2>1, Stops DEF AdmInv, RequestOK
  <2>5. current' = current /\ op'[e] = op[e] /\ input'[e] = input[e] /\ line'[e] = "authorize"
        /\ HistoryOK(e)
    BY <2>2, Moved DEF rows
  <2>6. HistoryOK(e)'
    BY <2>2, <2>3, <2>4, <2>5 DEF HistoryOK, NextVersionOK, RollbackOK
  <2>7. AttachmentOK(e)'
    BY <2>2, <2>4, Moved DEF AttachmentOK
  <2>8. Placed(op[e], "authorize")
    BY <2>4 DEF Placed
  <2>9. RequestOK(e)'
    BY <2>1, <2>2, <2>4, <2>6, <2>7, <2>8, MovedOK
  <2> QED  BY <2>1, <2>2, <2>9, LockKeeps DEF Lines
<1> QED  BY <1>1, <1>2

\* loadPolicyScope relies on nothing later.
LEMMA LoadScopeKeeps ==
    ASSUME AdmInv, NEW e \in Edit, LoadScope(e) PROVE AdmInv'
<1>1. op[e] = "attach" /\ line[e] = "scope"
  BY Stops DEF LoadScope, AdmInv, RequestOK
<1>2. CASE To(e, "authorize")
  <2>1. Placed(op[e], "authorize") /\ "authorize" \in Lines
    BY <1>1 DEF Placed, Lines
  <2> QED  BY <1>1, <1>2, <2>1, ReadKeeps
<1> QED  BY <1>2, ThrowKeeps DEF LoadScope

\* The checks of the actor send each operation to its next statement.
LEMMA AuthorizeEditKeeps ==
    ASSUME AdmInv, NEW e \in Edit, AuthorizeEdit(e) PROVE AdmInv'
<1>1. line[e] = "authorize" /\ PlaceOK(e) /\ op[e] \in Operations \cup {"none"}
  BY DEF AuthorizeEdit, AdmInv, RequestOK, RequestTypes
<1>2. op[e] \in Operations \ {"transfer"}
  BY <1>1 DEF PlaceOK, Placed
<1>3. CASE To(e, Allowed(e))
  <2>1. /\ Allowed(e) \in Lines /\ Placed(op[e], Allowed(e))
        /\ op[e] \in {"create", "version"} => Allowed(e) = "service"
        /\ op[e] = "rollback" => Allowed(e) = "target"
        /\ op[e] = "attach" => Allowed(e) = "insert"
        /\ op[e] = "detach" /\ Allowed(e) = "update" => found[e] = 1
    BY <1>2 DEF Allowed, Placed, Lines, Operations
  <2> QED  BY <1>1, <1>3, <2>1, ReadKeeps
<1> QED  BY <1>3, ThrowKeeps DEF AuthorizeEdit

\* validatedDocument, the service.
LEMMA ReadActiveServiceKeeps ==
    ASSUME AdmInv, NEW e \in Edit, ReadActiveService(e) PROVE AdmInv'
<1>1. op[e] \in {"create", "version", "entry"} /\ line[e] = "service"
  BY Stops DEF ReadActiveService, AdmInv, RequestOK
<1>2. CASE To(e, IF op[e] = "entry" THEN "insert" ELSE "entries")
  <2> DEFINE next == IF op[e] = "entry" THEN "insert" ELSE "entries"
  <2>1. Placed(op[e], next) /\ next \in Lines /\ next \notin {"commit", "append"}
        /\ (op[e] # "entry" => next = "entries")
    BY <1>1 DEF Placed, Lines
  <2>2. To(e, next)
    BY <1>2
  <2> HIDE DEF next
  <2> QED  BY <1>1, <2>1, <2>2, ReadKeeps
<1> QED  BY <1>2, ThrowKeeps DEF ReadActiveService

\* validatedDocument, the entries: what is named was active just now.
LEMMA ReadEntriesKeeps ==
    ASSUME AdmInv, NEW e \in Edit, ReadEntries(e) PROVE AdmInv'
<1>1. op[e] \in {"create", "version"} /\ line[e] = "entries"
  BY Stops DEF ReadEntries, AdmInv, RequestOK
<1>2. CASE /\ Names[input[e].document] \subseteq Active
           /\ To(e, IF op[e] = "create" THEN "insert" ELSE "append")
  <2> DEFINE next == IF op[e] = "create" THEN "insert" ELSE "append"
  <2>1. Placed(op[e], next) /\ next \in Lines \ {"commit"} /\ To(e, next)
    BY <1>1, <1>2 DEF Placed, Lines
  <2>2. Names[input[e].document] \subseteq since[e]
    BY <1>1, <1>2 DEF AdmInv, RequestOK, OfferOK
  <2> HIDE DEF next
  <2> QED  BY <1>1, <2>1, <2>2, ReadKeeps
<1> QED  BY <1>2, ThrowKeeps DEF ReadEntries

\* appendVersion compares the expected version with the locked one.
LEMMA AppendVersionKeeps ==
    ASSUME AdmInv, NEW e \in Edit, AppendVersion(e) PROVE AdmInv'
<1>1. op[e] \in {"version", "rollback"} /\ line[e] = "append" /\ found[e] < MaxVersion
  BY Stops DEF AppendVersion, AdmInv, RequestOK
<1>2. CASE basis[e] = found[e] /\ To(e, "commit")
  <2>1. Placed(op[e], "commit") /\ "commit" \in Lines
    BY <1>1 DEF Placed, Lines
  <2>2. op[e] = "version" => Names[input[e].document] \subseteq since[e]
    BY <1>1 DEF AdmInv, RequestOK, OfferOK, DocumentOK
  <2> QED  BY <1>1, <1>2, <2>1, <2>2, ReadKeeps
<1> QED  BY <1>2, ThrowKeeps DEF AppendVersion

\* updateService, the new owner.
LEMMA ReadNewOwnerKeeps ==
    ASSUME AdmInv, NEW e \in Edit, ReadNewOwner(e) PROVE AdmInv'
<1>1. op[e] = "transfer" /\ line[e] = "new owner"
  BY Stops DEF ReadNewOwner, AdmInv, RequestOK
<1>2. CASE To(e, "write")
  <2>1. Placed(op[e], "write") /\ "write" \in Lines
    BY <1>1 DEF Placed, Lines
  <2> QED  BY <1>1, <1>2, <2>1, ReadKeeps
<1> QED  BY <1>2, ThrowKeeps DEF ReadNewOwner

\* An entry or a group that exists.
LEMMA ReadRowKeeps ==
    ASSUME AdmInv, NEW e \in Edit, ReadEntry(e) \/ ReadGroup(e) PROVE AdmInv'
<1>1. op[e] \in {"member", "entry status"} /\ line[e] = "read"
  BY DEF ReadEntry, ReadGroup
<1>2. CASE To(e, "authorize")
  <2>1. Placed(op[e], "authorize") /\ "authorize" \in Lines
    BY <1>1 DEF Placed, Lines
  <2> QED  BY <1>1, <1>2, <2>1, ReadKeeps
<1> QED  BY <1>2, ThrowKeeps DEF ReadEntry, ReadGroup

\* detachIamPolicy: whether the attachment is live is read under its lock.
LEMMA LockAttachmentKeeps ==
    ASSUME AdmInv, NEW e \in Edit, LockAttachment(e) PROVE AdmInv'
<1> DEFINE a == input[e].attachment
           row == <<"attachment", a>>
           v == IF attachment[a] = "live" THEN 1 ELSE 0
<1>1. op[e] = "detach" /\ line[e] = "attachment" /\ Lock(e, row, v, "joined policy")
  BY Stops DEF LockAttachment, AdmInv, RequestOK
<1>2. a \in Attachment /\ attachment[a] # "none"
  BY <1>1 DEF AdmInv, RequestOK, AttachmentOK, DetachOK
<1>3. row \in Lockable /\ v \in 0..MaxVersion
  BY <1>2, MaxVersionAssumption DEF Lockable
<1>4. row \in holds'[e] /\ found'[e] = v /\ Reach(e, "joined policy")
  BY <1>1 DEF Lock, AdmInv, RequestTypes
<1>5. input'[e] = input[e] /\ attachment' = attachment /\ op'[e] = op[e]
      /\ line'[e] = "joined policy"
  BY <1>4, Moved DEF rows
<1>6. AttachmentOK(e)'
  <2>1. /\ input'[e].attachment \in Attachment /\ attachment'[input'[e].attachment] # "none"
        /\ <<"attachment", input'[e].attachment>> \in holds'[e] /\ found'[e] \in {0, 1}
        /\ found'[e] = 1 <=> attachment'[input'[e].attachment] = "live"
    <3>1. v \in {0, 1} /\ (v = 1 <=> attachment[a] = "live")
      OBVIOUS
    <3> HIDE DEF v
    <3> QED  BY <1>2, <1>4, <1>5, <3>1
  <2>2. DetachOK(e)'
    BY <1>5, <2>1 DEF DetachOK
  <2> QED  BY <1>1, <1>5, <2>2 DEF AttachmentOK
<1>7. HistoryOK(e)'
  BY <1>1, <1>4, Elsewhere
<1>8. Placed(op[e], "joined policy") /\ "joined policy" \in Lines
  BY <1>1 DEF Placed, Lines
<1>9. RequestOK(e)'
  BY <1>1, <1>4, <1>6, <1>7, <1>8, MovedOK
<1> HIDE DEF row, v
<1> QED  BY <1>1, <1>3, <1>8, <1>9, LockKeeps

\* detachIamPolicy also locks the policy of the join.
LEMMA LockJoinedPolicyKeeps ==
    ASSUME AdmInv, NEW e \in Edit, LockJoinedPolicy(e) PROVE AdmInv'
<1>1. op[e] = "detach" /\ line[e] = "joined policy" /\ Lock(e, Policy, found[e], "authorize")
  BY Stops DEF LockJoinedPolicy, AdmInv, RequestOK
<1>2. DetachOK(e) /\ found[e] \in 0..MaxVersion
  BY <1>1 DEF AdmInv, RequestOK, AttachmentOK, RequestTypes
<1>3. holds[e] \subseteq holds'[e] /\ found'[e] = found[e] /\ Reach(e, "authorize")
  BY <1>1 DEF Lock, AdmInv, RequestTypes
<1>4. input'[e] = input[e] /\ attachment' = attachment /\ op'[e] = op[e]
      /\ line'[e] = "authorize"
  BY <1>3, Moved DEF rows
<1>5. AttachmentOK(e)'
  BY <1>1, <1>2, <1>3, <1>4 DEF AttachmentOK, DetachOK
<1>6. HistoryOK(e)'
  BY <1>1, <1>3, Elsewhere
<1>7. Placed(op[e], "authorize") /\ "authorize" \in Lines /\ Policy \in Lockable
  BY <1>1 DEF Placed, Lines, Lockable
<1>8. RequestOK(e)'
  BY <1>1, <1>3, <1>5, <1>6, <1>7, MovedOK
<1> QED  BY <1>1, <1>2, <1>7, <1>8, LockKeeps

\* getIamPolicyHistory: a current version once read is never ahead of the row.
LEMMA ReadPolicyKeeps ==
    ASSUME AdmInv, NEW e \in Edit, ReadPolicy(e) PROVE AdmInv'
<1>1. CASE current = 0
  BY <1>1, ThrowKeeps DEF ReadPolicy
<1>2. CASE current # 0
  <2>1. op[e] = "history" /\ line[e] = "read policy" /\ Reach(e, "authorize")
        /\ found' = [found EXCEPT ![e] = current] /\ holds' = holds
    BY <1>2, Stops DEF ReadPolicy, AdmInv, RequestOK
  <2>2. current \in 0..MaxVersion /\ found \in [Edit -> 0..MaxVersion]
        /\ holds \in [Edit -> SUBSET Lockable]
    BY DEF AdmInv, RowsOK, RequestTypes
  <2>3. current' = current /\ op'[e] = op[e]
    BY <2>1, Moved DEF rows
  <2>4. HistoryOK(e)'
    <3>1. MaxVersion \in Nat
      BY MaxVersionAssumption
    <3>2. current \in Nat
      BY <2>2, <3>1
    <3>3. found'[e] = current
      BY <2>1, <2>2
    <3>4. found'[e] <= current'
      BY <2>3, <3>2, <3>3
    <3> QED  BY <2>1, <2>3, <3>4 DEF HistoryOK
  <2>5. AttachmentOK(e)'
    BY <2>1, Elsewhere
  <2>6. Placed(op[e], "authorize") /\ "authorize" \in Lines
    BY <2>1 DEF Placed, Lines
  <2>7. RequestOK(e)'
    BY <2>1, <2>4, <2>5, <2>6, MovedOK
  <2>8. \A x \in Edit \ {e} : holds[e] \cap holds[x] = {}
    BY DEF AdmInv, Apart
  <2> QED  BY <2>1, <2>2, <2>6, <2>7, <2>8, ReachKeeps
<1> QED  BY <1>1, <1>2

\* An insert holds its key in the index, and nobody committed an equal one.
LEMMA InsertRowKeeps ==
    ASSUME AdmInv, NEW e \in Edit, InsertRow(e) PROVE AdmInv'
<1> DEFINE next == IF op[e] = "attach" THEN "foreign key" ELSE "commit"
<1>1. op[e] \in {"create", "attach", "group", "member", "service", "entry"} /\ line[e] = "insert"
  BY Stops DEF InsertRow, AdmInv, RequestOK
<1>2. CASE Taken(e)
  BY <1>2, ThrowKeeps DEF InsertRow
<1>3. CASE ~Taken(e)
  <2>1. Lock(e, Key(e), found[e], next)
    BY <1>3 DEF InsertRow
  <2>2. found[e] \in 0..MaxVersion /\ input[e].entry \in Entry /\ HistoryOK(e)
        /\ AttachmentOK(e) /\ OfferOK(e) /\ current \in 0..MaxVersion
    BY DEF AdmInv, RequestTypes, InputType, RequestOK, RowsOK
  <2>3. /\ Key(e) \in Lockable
        /\ op[e] = "create" => Key(e) = <<"create">>
        /\ op[e] = "attach" => Key(e) = Live
    BY <1>1, <2>2 DEF Key, Lockable, Operations
  <2>4. Key(e) \in holds'[e] /\ found'[e] = found[e] /\ Reach(e, next)
    BY <2>1 DEF Lock, AdmInv, RequestTypes
  <2>5. /\ op'[e] = op[e] /\ input'[e] = input[e] /\ basis'[e] = basis[e] /\ line'[e] = next
        /\ current' = current /\ attachment' = attachment
    BY <2>4, Moved DEF rows
  <2>6. op[e] = "create" => current = 0
    BY <1>3, <2>2 DEF Taken
  <2>7. op[e] = "attach" => \A a \in Attachment : attachment[a] # "live"
    BY <1>3 DEF Taken
  <2>8. HistoryOK(e)'
    BY <1>1, <2>2, <2>3, <2>4, <2>5, <2>6 DEF HistoryOK, CreateOK
  <2>9. AttachmentOK(e)'
    BY <1>1, <2>2, <2>3, <2>4, <2>5, <2>7 DEF AttachmentOK, AttachOK
  <2>10. Placed(op[e], next) /\ next \in Lines
    BY <1>1 DEF Placed, Lines
  <2>11. op[e] = "create" => Names[input[e].document] \subseteq since[e]
    BY <1>1, <2>2 DEF OfferOK, DocumentOK
  <2> HIDE DEF next
  <2>12. RequestOK(e)'
    BY <1>1, <2>4, <2>8, <2>9, <2>10, <2>11, MovedOK
  <2> QED  BY <2>1, <2>2, <2>3, <2>10, <2>12, LockKeeps
<1> QED  BY <1>2, <1>3

\* attachIamPolicy shares the row of the policy and keeps its own.
LEMMA ShareForeignKeyKeeps ==
    ASSUME AdmInv, NEW e \in Edit, ShareForeignKey(e) PROVE AdmInv'
<1>1. op[e] = "attach" /\ line[e] = "foreign key" /\ Reach(e, "commit")
      /\ UNCHANGED <<found, holds>>
  BY Stops DEF ShareForeignKey, AdmInv, RequestOK
<1>2. HistoryOK(e)' /\ AttachmentOK(e)'
  BY <1>1, Elsewhere, SteadyAttachment
<1>3. Placed(op[e], "commit") /\ "commit" \in Lines
  BY <1>1 DEF Placed, Lines
<1>4. RequestOK(e)'
  BY <1>1, <1>2, <1>3, MovedOK
<1>5. \A x \in Edit \ {e} : holds[e] \cap holds[x] = {}
  BY DEF AdmInv, Apart
<1>6. found \in [Edit -> 0..MaxVersion] /\ holds \in [Edit -> SUBSET Lockable]
  BY DEF AdmInv, RequestTypes
<1> QED  BY <1>1, <1>3, <1>4, <1>5, <1>6, ReachKeeps

\* detachIamPolicy: the row leaves the index of live attachments.
LEMMA UpdateAttachmentKeeps ==
    ASSUME AdmInv, NEW e \in Edit, UpdateAttachment(e) PROVE AdmInv'
<1>1. op[e] = "detach" /\ line[e] = "update" /\ Lock(e, Live, 1, "commit")
  BY Stops DEF UpdateAttachment, AdmInv, RequestOK
<1>2. DetachOK(e)
  BY <1>1 DEF AdmInv, RequestOK, AttachmentOK
<1>3. holds[e] \subseteq holds'[e] /\ found'[e] = found[e] /\ Reach(e, "commit")
  BY <1>1, <1>2 DEF Lock, AdmInv, RequestTypes, DetachOK
<1>4. input'[e] = input[e] /\ attachment' = attachment /\ op'[e] = op[e] /\ line'[e] = "commit"
  BY <1>3, Moved DEF rows
<1>5. AttachmentOK(e)'
  BY <1>1, <1>2, <1>3, <1>4 DEF AttachmentOK, DetachOK
<1>6. HistoryOK(e)'
  BY <1>1, <1>3, Elsewhere
<1>7. Placed(op[e], "commit") /\ "commit" \in Lines /\ Live \in Lockable /\ 1 \in 0..MaxVersion
  BY <1>1, MaxVersionAssumption DEF Placed, Lines, Lockable
<1>8. RequestOK(e)'
  BY <1>1, <1>3, <1>5, <1>6, <1>7, MovedOK
<1> QED  BY <1>1, <1>7, <1>8, LockKeeps

\* An update waits for the row it writes.
LEMMA WriteRowKeeps ==
    ASSUME AdmInv, NEW e \in Edit, WriteRow(e) PROVE AdmInv'
<1> DEFINE row == IF op[e] = "transfer" THEN <<"service">> ELSE <<"entry", input[e].entry>>
<1>1. op[e] \in {"transfer", "entry status"} /\ line[e] = "write"
      /\ Lock(e, row, found[e], "commit") /\ PlaceOK(e)
  BY Stops DEF WriteRow, AdmInv, RequestOK
<1>2. row \in Lockable /\ found[e] \in 0..MaxVersion
  BY DEF Lockable, AdmInv, RequestTypes, InputType
<1>3. Reach(e, "commit") /\ (op[e] = "transfer" => image[e] \in Services)
  BY <1>1 DEF Lock, PlaceOK
<1>4. HistoryOK(e)' /\ AttachmentOK(e)'
  BY <1>1, <1>3, Elsewhere
<1>5. Placed(op[e], "commit") /\ "commit" \in Lines
  BY <1>1 DEF Placed, Lines
<1>6. RequestOK(e)'
  BY <1>1, <1>3, <1>4, <1>5, MovedOK
<1> HIDE DEF row
<1> QED  BY <1>1, <1>2, <1>5, <1>6, LockKeeps

\* rollbackIamPolicy takes the document of an earlier version.
LEMMA ReadTargetKeeps ==
    ASSUME AdmInv, NEW e \in Edit, ReadTarget(e) PROVE AdmInv'
<1> DEFINE t == input[e].target
           d == versions[t].document
<1>1. op[e] = "rollback" /\ line[e] = "target" /\ RequestOK(e)
  BY Stops DEF ReadTarget, AdmInv, RequestOK
<1>2. CASE t \notin DOMAIN versions
  BY <1>2, ThrowKeeps DEF ReadTarget
<1>3. CASE t \in DOMAIN versions
  <2>1. /\ input' = [input EXCEPT ![e].document = d] /\ line' = [line EXCEPT ![e] = "append"]
        /\ UNCHANGED <<rows, mix, op, by, basis, found, image, holds, since, made, shown>>
    BY <1>3 DEF ReadTarget, results
  <2>2. d \in Document
    <3>1. versions \in Seq(Version)
      BY DEF AdmInv, RowsOK
    <3> HIDE DEF t
    <3>2. versions[t] \in Version
      BY <1>3, <3>1
    <3> QED  BY <3>2 DEF Version
  <2>3. /\ input' \in [Edit -> InputType]
        /\ input'[e].target = t /\ input'[e].document = d
    <3>1. input \in [Edit -> InputType] /\ input[e] \in InputType
      BY DEF AdmInv, RequestTypes
    <3> HIDE DEF d
    <3>2. [input[e] EXCEPT !.document = d] \in InputType
      BY <2>2, <3>1 DEF InputType
    <3>3. input' = [input EXCEPT ![e] = [input[e] EXCEPT !.document = d]]
      BY <2>1
    <3>4. input'[e] = [input[e] EXCEPT !.document = d]
      BY <3>1, <3>3
    <3> QED  BY <3>1, <3>2, <3>3, <3>4 DEF InputType
  <2>4. line' \in [Edit -> Lines] /\ line'[e] = "append"
    BY <2>1 DEF AdmInv, RequestTypes, Lines
  <2>5. RequestTypes'
    BY <2>1, <2>3, <2>4 DEF AdmInv, RequestTypes
  <2>6. ASSUME NEW x \in Edit \ {e}
        PROVE  Rests(x) /\ since'[x] = since[x] /\ holds'[e] \cap holds[x] = {}
    BY <2>1 DEF Rests, AdmInv, Apart, RequestTypes
  <2>7. versions' = versions /\ current' = current /\ entry' = entry /\ op'[e] = "rollback"
        /\ basis'[e] = basis[e] /\ found'[e] = found[e] /\ holds'[e] = holds[e]
        /\ made'[e] = made[e] /\ shown'[e] = shown[e] /\ since'[e] = since[e]
    BY <1>1, <2>1 DEF rows, catalogue
  <2>8. PlaceOK(e)'
    BY <1>1, <2>4, <2>7 DEF RequestOK, PlaceOK, Placed
  <2>9. OfferOK(e)'
    BY <1>1, <2>4, <2>7 DEF RequestOK, OfferOK, Active
  <2>10. NextVersionOK(e)'
    BY <1>1, <2>4, <2>7 DEF RequestOK, HistoryOK, NextVersionOK
  <2>11. RollbackOK(e)'
    BY <1>1, <1>3, <2>3, <2>7 DEF RequestOK, HistoryOK, RollbackOK
  <2>12. HistoryOK(e)' /\ AttachmentOK(e)'
    BY <2>7, <2>10, <2>11 DEF HistoryOK, AttachmentOK
  <2>13. RequestOK(e)'
    BY <2>8, <2>9, <2>12 DEF RequestOK
  <2>14. UNCHANGED rows /\ op'[e] # "attach"
    BY <2>1, <2>7
  <2> QED  BY <2>5, <2>6, <2>13, <2>14, QuietKeeps
<1> QED  BY <1>2, <1>3

\* updateService reads the service it will write back.
LEMMA ReadServiceKeeps ==
    ASSUME AdmInv, NEW e \in Edit, ReadService(e) PROVE AdmInv'
<1>1. op[e] = "transfer" /\ line[e] = "read service" /\ RequestOK(e)
  BY Stops DEF ReadService, AdmInv, RequestOK
<1>2. CASE Throw(e)
  BY <1>2, ThrowKeeps
<1>3. CASE ~Throw(e)
  <2>1. /\ service # NoService
        /\ image' = [image EXCEPT ![e] = service] /\ line' = [line EXCEPT ![e] = "new owner"]
        /\ UNCHANGED <<rows, mix, op, by, input, basis, found, holds, since, made, shown>>
    BY <1>3 DEF ReadService, asked, results
  <2>2. service \in Services
    BY <2>1 DEF AdmInv, RowsOK
  <2>3. image' \in [Edit -> Services \cup {NoService}] /\ image'[e] \in Services
    BY <2>1, <2>2 DEF AdmInv, RequestTypes
  <2>4. line' \in [Edit -> Lines] /\ line'[e] = "new owner"
    BY <2>1 DEF AdmInv, RequestTypes, Lines
  <2>5. RequestTypes'
    BY <2>1, <2>3, <2>4 DEF AdmInv, RequestTypes
  <2>6. ASSUME NEW x \in Edit \ {e}
        PROVE  Rests(x) /\ since'[x] = since[x] /\ holds'[e] \cap holds[x] = {}
    BY <2>1 DEF Rests, AdmInv, Apart, RequestTypes
  <2>7. entry' = entry /\ op'[e] = "transfer" /\ made'[e] = made[e] /\ shown'[e] = shown[e]
        /\ since'[e] = since[e]
    BY <1>1, <2>1 DEF rows, catalogue
  <2>8. PlaceOK(e)'
    BY <1>1, <2>3, <2>4, <2>7 DEF RequestOK, PlaceOK, Placed
  <2>9. OfferOK(e)'
    BY <1>1, <2>4, <2>7 DEF RequestOK, OfferOK, Active
  <2>10. HistoryOK(e)' /\ AttachmentOK(e)'
    BY <2>7 DEF HistoryOK, AttachmentOK
  <2>11. RequestOK(e)'
    BY <2>8, <2>9, <2>10 DEF RequestOK
  <2>12. UNCHANGED rows /\ op'[e] # "attach"
    BY <2>1, <2>7
  <2> QED  BY <2>5, <2>6, <2>11, <2>12, QuietKeeps
<1> QED  BY <1>2, <1>3

\* What a request may carry.
LEMMA InputsOf ==
    ASSUME NEW k \in Operations, NEW i \in Inputs(k)
    PROVE  /\ i \in InputType
           /\ k \in {"create", "version"} => i.target = 0 /\ i.document \in Document
           /\ k = "rollback" => i.target # 0
           /\ k \in {"status", "entry status"} => i.status \in Standings
           /\ k \in {"attach", "detach"} => i.attachment \in Attachment
           /\ k = "service" => i.owner \in Owner
<1>1. CASE k \in {"create", "version"}
  <2>1. Inputs(k) = {[Blank EXCEPT !.document = d] : d \in Document}
    <3>1. CASE k = "create"
      BY <3>1 DEF Inputs
    <3>2. CASE k = "version"
      BY <3>2 DEF Inputs
    <3> QED  BY <1>1, <3>1, <3>2
  <2>2. PICK d \in Document : i = [Blank EXCEPT !.document = d]
    BY <2>1
  <2> QED  BY <1>1, <2>2, BlankType DEF InputType
<1>2. CASE k = "rollback"
  <2>1. Inputs(k) = {[Blank EXCEPT !.target = v] : v \in 1..MaxVersion}
    BY <1>2 DEF Inputs
  <2>2. PICK v \in 1..MaxVersion : i = [Blank EXCEPT !.target = v]
    BY <2>1
  <2>3. v \in 0..MaxVersion /\ v # 0
    BY MaxVersionAssumption
  <2> QED  BY <1>2, <2>2, <2>3, BlankType DEF InputType
<1>3. CASE k = "status"
  <2>1. Inputs(k) = {[Blank EXCEPT !.status = s] : s \in {"active", "inactive"}}
    BY <1>3 DEF Inputs
  <2>2. PICK s \in {"active", "inactive"} : i = [Blank EXCEPT !.status = s]
    BY <2>1
  <2> QED  BY <1>3, <2>2, BlankType DEF InputType, Standings
<1>4. CASE k \in {"attach", "detach"}
  <2>1. Inputs(k) = {[Blank EXCEPT !.attachment = a] : a \in Attachment}
    <3>1. CASE k = "attach"
      BY <3>1 DEF Inputs
    <3>2. CASE k = "detach"
      BY <3>2 DEF Inputs
    <3> QED  BY <1>4, <3>1, <3>2
  <2>2. PICK a \in Attachment : i = [Blank EXCEPT !.attachment = a]
    BY <2>1
  <2> QED  BY <1>4, <2>2, BlankType DEF InputType
<1>5. CASE k = "service"
  <2>1. Inputs(k) = {[Blank EXCEPT !.owner = u] : u \in Owner}
    BY <1>5 DEF Inputs
  <2>2. PICK u \in Owner : i = [Blank EXCEPT !.owner = u]
    BY <2>1
  <2> QED  BY <1>5, <2>2, BlankType DEF InputType
<1>6. CASE k = "transfer"
  <2>1. Inputs(k) = {[Blank EXCEPT !.owner = u] : u \in Owner}
                    \cup {[Blank EXCEPT !.status = s] : s \in {"active", "inactive"}}
    BY <1>6 DEF Inputs
  <2>2. CASE \E u \in Owner : i = [Blank EXCEPT !.owner = u]
    BY <1>6, <2>2, BlankType DEF InputType
  <2>3. CASE \E s \in {"active", "inactive"} : i = [Blank EXCEPT !.status = s]
    BY <1>6, <2>3, BlankType DEF InputType, Standings
  <2> QED  BY <2>1, <2>2, <2>3
<1>7. CASE k = "entry"
  <2>1. Inputs(k) = {[Blank EXCEPT !.entry = x] : x \in Entry}
    BY <1>7 DEF Inputs
  <2>2. PICK x \in Entry : i = [Blank EXCEPT !.entry = x]
    BY <2>1
  <2> QED  BY <1>7, <2>2, BlankType DEF InputType
<1>8. CASE k = "entry status"
  <2>1. Inputs(k) = {[Blank EXCEPT !.entry = p[1], !.status = p[2]] :
                        p \in Entry \X {"active", "inactive"}}
    BY <1>8 DEF Inputs
  <2>2. PICK p \in Entry \X {"active", "inactive"} :
            i = [Blank EXCEPT !.entry = p[1], !.status = p[2]]
    BY <2>1
  <2> QED  BY <1>8, <2>2, BlankType DEF InputType, Standings
<1>9. CASE k \in {"history", "group", "member"}
  <2>1. Inputs(k) = {Blank}
    <3>1. CASE k = "history"
      BY <3>1 DEF Inputs
    <3>2. CASE k = "group"
      BY <3>2 DEF Inputs
    <3>3. CASE k = "member"
      BY <3>3 DEF Inputs
    <3> QED  BY <1>9, <3>1, <3>2, <3>3
  <2> QED  BY <1>9, <2>1, BlankType
<1> QED  BY <1>1, <1>2, <1>3, <1>4, <1>5, <1>6, <1>7, <1>8, <1>9 DEF Operations

\* A request begins with what it asks for and has read nothing.
LEMMA CallEditKeeps ==
    ASSUME AdmInv, NEW e \in Edit, CallEdit(e) PROVE AdmInv'
<1>1. mix \subseteq Operations
  BY MixesAssumption DEF AdmInv, RequestTypes
<1>2. PICK k \in mix, u \in Owner : \E i \in Inputs(k) :
        /\ k = "attach" => /\ attachment[i.attachment] = "none"
                           /\ \A x \in Edit : input[x].attachment # i.attachment
        /\ k = "detach" => attachment[i.attachment] # "none"
        /\ op' = [op EXCEPT ![e] = k]
        /\ by' = [by EXCEPT ![e] = u]
        /\ input' = [input EXCEPT ![e] = i]
        /\ \E v \in IF k \in {"version", "rollback"} THEN 1..MaxVersion ELSE {0} :
               basis' = [basis EXCEPT ![e] = v]
        /\ line' = [line EXCEPT ![e] = Start(k)]
  BY DEF CallEdit
<1>3. PICK i \in Inputs(k) :
        /\ k = "attach" => /\ attachment[i.attachment] = "none"
                           /\ \A x \in Edit : input[x].attachment # i.attachment
        /\ k = "detach" => attachment[i.attachment] # "none"
        /\ op' = [op EXCEPT ![e] = k]
        /\ by' = [by EXCEPT ![e] = u]
        /\ input' = [input EXCEPT ![e] = i]
        /\ \E v \in IF k \in {"version", "rollback"} THEN 1..MaxVersion ELSE {0} :
               basis' = [basis EXCEPT ![e] = v]
        /\ line' = [line EXCEPT ![e] = Start(k)]
  BY <1>2
<1>4. k \in Operations
  BY <1>1
<1>5. /\ i \in InputType
      /\ k \in {"create", "version"} => i.target = 0 /\ i.document \in Document
      /\ k = "rollback" => i.target # 0
      /\ k \in {"status", "entry status"} => i.status \in Standings
      /\ k \in {"attach", "detach"} => i.attachment \in Attachment
      /\ k = "service" => i.owner \in Owner
  BY <1>4, InputsOf
<1>6. /\ line[e] = "idle" /\ op[e] = "none" /\ made[e] = 0 /\ RequestOK(e)
      /\ since' = [since EXCEPT ![e] = Active]
      /\ UNCHANGED <<rows, mix, found, image, holds, made, shown>>
  BY Stops DEF CallEdit, results, AdmInv, RequestOK
<1>7. /\ Start(k) \in Lines /\ Placed(k, Start(k))
      /\ k \in {"version", "rollback"} => Start(k) = "policy"
      /\ k = "history" => Start(k) = "read policy"
      /\ k = "attach" => Start(k) = "scope"
      /\ k = "detach" => Start(k) = "attachment"
      /\ k = "transfer" => Start(k) = "read service"
      /\ k = "create" => Start(k) = "authorize"
  BY <1>4 DEF Operations, Start, Placed, Lines
<1>8. /\ basis' \in [Edit -> 0..MaxVersion]
      /\ k = "create" => basis'[e] = 0
      /\ \A x \in Edit \ {e} : basis'[x] = basis[x]
  <2>1. PICK v \in IF k \in {"version", "rollback"} THEN 1..MaxVersion ELSE {0} :
            basis' = [basis EXCEPT ![e] = v]
    BY <1>3
  <2>2. v \in 0..MaxVersion /\ (k = "create" => v = 0)
    BY <2>1, MaxVersionAssumption
  <2> QED  BY <2>1, <2>2 DEF AdmInv, RequestTypes
<1>9. /\ op' \in [Edit -> Operations \cup {"none"}] /\ by' \in [Edit -> Owner \cup {Nobody}]
      /\ input' \in [Edit -> InputType] /\ line' \in [Edit -> Lines]
      /\ since' \in [Edit -> SUBSET Entry]
      /\ op'[e] = k /\ input'[e] = i /\ line'[e] = Start(k) /\ since'[e] = Active
  <2>1. RequestTypes
    BY DEF AdmInv
  <2>2. op' \in [Edit -> Operations \cup {"none"}] /\ op'[e] = k
    BY <1>3, <1>4, <2>1 DEF RequestTypes
  <2>3. by' \in [Edit -> Owner \cup {Nobody}]
    BY <1>3, <2>1 DEF RequestTypes
  <2>4. input' \in [Edit -> InputType] /\ input'[e] = i
    BY <1>3, <1>5, <2>1 DEF RequestTypes
  <2>5. line' \in [Edit -> Lines] /\ line'[e] = Start(k)
    BY <1>3, <1>7, <2>1 DEF RequestTypes
  <2>6. Active \subseteq Entry
    BY DEF Active
  <2>7. since' \in [Edit -> SUBSET Entry] /\ since'[e] = Active
    BY <1>6, <2>1, <2>6 DEF RequestTypes
  <2> QED  BY <2>2, <2>3, <2>4, <2>5, <2>7
<1>10. RequestTypes'
  BY <1>6, <1>8, <1>9 DEF AdmInv, RequestTypes
<1>11. ASSUME NEW x \in Edit \ {e}
       PROVE  Rests(x) /\ since'[x] = since[x] /\ holds'[e] \cap holds[x] = {}
  BY <1>3, <1>6, <1>8 DEF Rests, AdmInv, Apart, RequestTypes
<1>12. UNCHANGED rows /\ attachment' = attachment /\ entry' = entry
       /\ made'[e] = made[e] /\ shown'[e] = shown[e]
  BY <1>6 DEF rows, catalogue
<1>13. PlaceOK(e)'
  BY <1>5, <1>6, <1>7, <1>9, <1>12 DEF RequestOK, PlaceOK
<1>14. OfferOK(e)'
  BY <1>5, <1>7, <1>9, <1>12 DEF OfferOK, DocumentOK, Active
<1>15. HistoryOK(e)'
  <2>1. k \in {"version", "rollback"} => NextVersionOK(e)'
    BY <1>7, <1>9 DEF NextVersionOK
  <2>2. k = "rollback" => RollbackOK(e)'
    BY <1>5, <1>7, <1>9 DEF RollbackOK
  <2>3. k = "create" => CreateOK(e)'
    BY <1>7, <1>8, <1>9 DEF CreateOK
  <2> QED  BY <1>7, <1>9, <2>1, <2>2, <2>3 DEF HistoryOK
<1>16. AttachmentOK(e)'
  <2>1. k = "attach" => AttachOK(e)'
    BY <1>3, <1>5, <1>7, <1>9, <1>12 DEF AttachOK
  <2>2. k = "detach" => DetachOK(e)'
    BY <1>3, <1>5, <1>7, <1>9, <1>12 DEF DetachOK
  <2> QED  BY <1>9, <2>1, <2>2 DEF AttachmentOK
<1>17. RequestOK(e)'
  BY <1>13, <1>14, <1>15, <1>16 DEF RequestOK
<1>18. op'[e] = "attach" => \A x \in Edit \ {e} : input'[e].attachment # input[x].attachment
  BY <1>3, <1>9
<1> QED  BY <1>10, <1>11, <1>12, <1>17, <1>18, QuietKeeps

-----------------------------------------------------------------------------
(* The commits *)

\* A commit ends its request; what the others rely on has to survive it.
LEMMA FinishKeeps ==
    ASSUME AdmInv, NEW e \in Edit, Finish(e), RowsOK',
           made' \in [Edit -> 0..MaxVersion], since' \in [Edit -> SUBSET Entry],
           shown' \in [Edit -> (0..MaxVersion) \X (0..MaxVersion)],
           shown'[e][1] <= shown'[e][2],
           \A x \in Edit \ {e} : made'[x] = made[x] /\ shown'[x] = shown[x],
           \A x \in Edit \ {e} : Rests(x) => OfferOK(x)' /\ HistoryOK(x)' /\ AttachmentOK(x)'
    PROVE  AdmInv'
<1>1. RequestTypes'
  BY FinishTypes DEF AdmInv, RequestTypes
<1>2. op'[e] = "none" /\ line'[e] = "ended" /\ holds'[e] = {}
  BY FinishTypes
<1>3. \A x \in Edit \ {e} : Rests(x) /\ holds'[e] \cap holds[x] = {}
  BY <1>2, FinishTypes DEF Rests
<1>4. RequestOK(e)'
  BY <1>2 DEF RequestOK, PlaceOK, Placed, OfferOK, HistoryOK, AttachmentOK
<1>5. ASSUME NEW x \in Edit \ {e} PROVE RequestOK(x)'
  <2>1. RequestOK(x)
    BY DEF AdmInv
  <2>2. PlaceOK(x)'
    BY <1>3, <2>1, Frames
  <2> QED  BY <1>3, <2>2 DEF RequestOK
<1>6. \A x, y \in Edit : x # y => Apart(x, y)'
  BY <1>2, <1>3, StayApart
<1> QED  BY <1>1, <1>4, <1>5, <1>6 DEF AdmInv

\* A commit that leaves policies, attachments and entries as they are.
LEMMA AsideKeeps ==
    ASSUME AdmInv, NEW e \in Edit, Finish(e), RowsOK',
           UNCHANGED <<versions, current, attachment, entry, since, made, shown>>
    PROVE  AdmInv'
<1>1. \A x \in Edit : RequestOK(x)
  BY DEF AdmInv
<1>2. ASSUME NEW x \in Edit \ {e}, Rests(x)
      PROVE  OfferOK(x)' /\ HistoryOK(x)' /\ AttachmentOK(x)'
  BY <1>1, <1>2, Frames
<1>3. shown'[e][1] <= shown'[e][2]
  BY <1>1 DEF RequestOK, PlaceOK
<1> QED  BY <1>2, <1>3, FinishKeeps DEF AdmInv, RequestTypes

\* setIamPolicyStatus.
LEMMA CommitStatusOfPolicyKeeps ==
    ASSUME AdmInv, NEW e \in Edit, CommitStatusOfPolicy(e) PROVE AdmInv'
<1>1. Finish(e) /\ policyStatus' = input[e].status /\ op[e] = "status"
      /\ UNCHANGED <<versions, current, attachment, detachedBy, groups, service, entry, since,
                     made, shown>>
  BY DEF CommitStatusOfPolicy, Committing, catalogue, results
<1>2. policyStatus' \in Standings
  BY <1>1 DEF AdmInv, RequestOK, PlaceOK
<1>3. RowsOK'
  BY <1>1, <1>2 DEF AdmInv, RowsOK, HistoryIsWhole, OneLiveAttachment
<1> QED  BY <1>1, <1>3, AsideKeeps

\* createIamGroup and addIamGroupMember.
LEMMA CommitGroupKeeps ==
    ASSUME AdmInv, NEW e \in Edit, CommitGroup(e) PROVE AdmInv'
<1>1. Finish(e) /\ groups' = groups \cup {op[e]} /\ op[e] \in {"group", "member"}
      /\ UNCHANGED <<versions, current, policyStatus, attachment, detachedBy, service, entry,
                     since, made, shown>>
  BY DEF CommitGroup, Committing, catalogue, results
<1>2. RowsOK'
  BY <1>1 DEF AdmInv, RowsOK, HistoryIsWhole, OneLiveAttachment
<1> QED  BY <1>1, <1>2, AsideKeeps

\* createService and updateService.
LEMMA CommitServiceKeeps ==
    ASSUME AdmInv, NEW e \in Edit, CommitService(e) PROVE AdmInv'
<1> DEFINE i == input[e]
           owner == IF i.owner = Nobody THEN image[e].owner ELSE i.owner
           standing == IF i.status = "same" THEN image[e].status ELSE i.status
<1>1. Finish(e) /\ op[e] \in {"service", "transfer"} /\ line[e] = "commit"
      /\ UNCHANGED <<versions, current, policyStatus, attachment, detachedBy, groups, entry,
                     since, made, shown>>
  BY DEF CommitService, Committing, results
<1>2. PlaceOK(e) /\ i \in InputType
  BY DEF AdmInv, RequestOK, RequestTypes
<1>3. service' \in Services
  <2>1. CASE op[e] = "service"
    <3>1. service' = [owner |-> i.owner, status |-> "active"] /\ i.owner \in Owner
      BY <1>2, <2>1 DEF CommitService, PlaceOK
    <3> QED  BY <3>1 DEF Services, Standings
  <2>2. CASE op[e] = "transfer"
    <3>1. service' = [owner |-> owner, status |-> standing] /\ image[e] \in Services
      BY <1>1, <1>2, <2>2 DEF CommitService, PlaceOK
    <3>2. owner \in Owner /\ standing \in Standings
      BY <1>2, <3>1 DEF Services, InputType, Standings
    <3> QED  BY <3>1, <3>2 DEF Services
  <2> QED  BY <1>1, <2>1, <2>2
<1>4. RowsOK'
  BY <1>1, <1>3 DEF AdmInv, RowsOK, HistoryIsWhole, OneLiveAttachment
<1> QED  BY <1>1, <1>4, AsideKeeps

\* The answer of getIamPolicyHistory holds all versions committed by now.
LEMMA AnswerHistoryKeeps ==
    ASSUME AdmInv, NEW e \in Edit, AnswerHistory(e) PROVE AdmInv'
<1>1. Finish(e) /\ shown' = [shown EXCEPT ![e] = <<found[e], Len(versions)>>]
      /\ UNCHANGED <<rows, since, made>>
  BY DEF AnswerHistory
<1>2. op[e] = "history" /\ line[e] = "versions"
  BY Stops DEF AnswerHistory, AdmInv, RequestOK
<1>3. found[e] <= current /\ found[e] \in 0..MaxVersion /\ current \in 0..MaxVersion
      /\ current = Len(versions)
  BY <1>2 DEF AdmInv, RequestOK, HistoryOK, RequestTypes, RowsOK, HistoryIsWhole
<1>4. shown' \in [Edit -> (0..MaxVersion) \X (0..MaxVersion)]
      /\ shown'[e] = <<found[e], current>>
  BY <1>1, <1>3 DEF AdmInv, RequestTypes
<1>5. shown'[e][1] <= shown'[e][2]
  BY <1>3, <1>4
<1>6. \A x \in Edit \ {e} : made'[x] = made[x] /\ shown'[x] = shown[x]
  BY <1>1 DEF AdmInv, RequestTypes
<1>7. RowsOK'
  BY <1>1 DEF AdmInv, RowsOK, HistoryIsWhole, OneLiveAttachment, rows, catalogue
<1>8. UNCHANGED <<versions, current, attachment, entry>>
  BY <1>1 DEF rows, catalogue
<1>9. ASSUME NEW x \in Edit \ {e}, Rests(x)
      PROVE  OfferOK(x)' /\ HistoryOK(x)' /\ AttachmentOK(x)'
  <2>1. RequestOK(x) /\ since'[x] = since[x]
    BY <1>1 DEF AdmInv
  <2> QED  BY <1>8, <1>9, <2>1, Frames
<1> QED  BY <1>1, <1>4, <1>5, <1>6, <1>7, <1>9, FinishKeeps DEF AdmInv, RequestTypes

\* createIamCatalogEntry and setIamCatalogEntryStatus: an entry that becomes
\* active has been active during every request under way.
LEMMA CommitEntryKeeps ==
    ASSUME AdmInv, NEW e \in Edit, CommitEntry(e) PROVE AdmInv'
<1> DEFINE x == input[e].entry
           s == IF op[e] = "entry" THEN "active" ELSE input[e].status
<1>1. /\ Finish(e) /\ op[e] \in {"entry", "entry status"}
      /\ entry' = [entry EXCEPT ![x] = s]
      /\ since' = [f \in Edit |-> IF line[f] \in {"idle", "ended"} THEN since[f]
                                   ELSE since[f] \cup {y \in Entry : entry'[y] = "active"}]
      /\ UNCHANGED <<versions, current, policyStatus, attachment, detachedBy, groups, service,
                     made, shown>>
  BY DEF CommitEntry, Committing, results
<1>2. s \in Standings /\ x \in Entry
  BY <1>1 DEF AdmInv, RequestOK, PlaceOK, Standings, RequestTypes, InputType
<1>3. entry' \in [Entry -> {"none", "active", "inactive"}]
  BY <1>1, <1>2 DEF AdmInv, RowsOK, Standings
<1>4. since' \in [Edit -> SUBSET Entry]
  BY <1>1 DEF AdmInv, RequestTypes
<1>5. RowsOK'
  BY <1>1, <1>3 DEF AdmInv, RowsOK, HistoryIsWhole, OneLiveAttachment
<1>6. ASSUME NEW z \in Edit \ {e}, Rests(z)
      PROVE  OfferOK(z)' /\ HistoryOK(z)' /\ AttachmentOK(z)'
  <2>1. RequestOK(z) /\ op[z] \in Operations \cup {"none"}
    BY DEF AdmInv, RequestTypes
  <2>2. HistoryOK(z)' /\ AttachmentOK(z)'
    BY <1>1, <1>6, <2>1, Frames
  <2>3. /\ since[z] \subseteq since'[z]
        /\ line[z] \notin {"idle", "ended"} => Active' \subseteq since'[z]
    BY <1>1 DEF Active
  <2>4. OfferOK(z)'
    BY <1>6, <2>1, <2>3 DEF RequestOK, OfferOK, DocumentOK, Rests
  <2> QED  BY <2>2, <2>4
<1>7. shown'[e][1] <= shown'[e][2]
  BY <1>1 DEF AdmInv, RequestOK, PlaceOK
<1> QED  BY <1>1, <1>4, <1>5, <1>6, <1>7, FinishKeeps DEF AdmInv, RequestTypes

\* Two requests do not hold the same row.
LEMMA HeldByOne ==
    ASSUME AdmInv, NEW e \in Edit, NEW x \in Edit \ {e}, NEW row, row \in holds[e]
    PROVE  row \notin holds[x]
  BY DEF AdmInv, Apart

\* createIamPolicy: nobody else is past the index, nor has read a policy.
LEMMA CommitPolicyKeeps ==
    ASSUME AdmInv, NEW e \in Edit, CommitPolicy(e) PROVE AdmInv'
<1> DEFINE r == [document |-> input[e].document, source |-> 0]
<1>1. /\ Finish(e) /\ op[e] = "create" /\ line[e] = "commit"
      /\ versions' = <<r>> /\ current' = 1 /\ policyStatus' = "active"
      /\ made' = [made EXCEPT ![e] = 1]
      /\ UNCHANGED <<attachment, detachedBy, groups, service, entry, since, shown>>
  BY DEF CommitPolicy, Committing, catalogue
<1>2. /\ CreateOK(e) /\ DocumentOK(e, {"insert", "commit"}) /\ PlaceOK(e)
      /\ <<"create">> \in holds[e] /\ current = 0
  BY <1>1 DEF AdmInv, RequestOK, HistoryOK, OfferOK, CreateOK
<1>3. r \in Version
  BY <1>2, MaxVersionAssumption DEF DocumentOK, Version
<1>4. 1 \in 0..MaxVersion /\ versions' \in Seq(Version) /\ Len(versions') = 1 /\ versions'[1] = r
  BY <1>1, <1>3, MaxVersionAssumption
<1>5. HistoryIsWhole'
  <2>1. DOMAIN versions' = {1} /\ versions'[1].source = 0
    BY <1>1, <1>4
  <2> QED  BY <1>1, <1>4, <2>1 DEF HistoryIsWhole
<1>6. RowsOK'
  BY <1>1, <1>4, <1>5 DEF AdmInv, RowsOK, OneLiveAttachment, Standings
<1>7. made' \in [Edit -> 0..MaxVersion] /\ \A x \in Edit \ {e} : made'[x] = made[x]
  BY <1>1, <1>4 DEF AdmInv, RequestTypes
<1>8. ASSUME NEW x \in Edit \ {e}, Rests(x)
      PROVE  OfferOK(x)' /\ HistoryOK(x)' /\ AttachmentOK(x)'
  <2>1. RequestOK(x) /\ HistoryOK(x)
    BY DEF AdmInv, RequestOK
  <2>2. OfferOK(x)' /\ AttachmentOK(x)'
    BY <1>1, <1>8, <2>1, Frames
  <2>3. op[x] = "create" => CreateOK(x)'
    BY <1>2, <1>8, <2>1, HeldByOne DEF HistoryOK, CreateOK, Rests
  <2>4. op[x] \in {"version", "rollback"} => line[x] = "policy"
    <3>1. ~(current > 0)
      BY <1>2
    <3> QED  BY <2>1, <3>1 DEF HistoryOK, NextVersionOK
  <2>5. op[x] \in {"version", "rollback"} => NextVersionOK(x)'
    BY <1>8, <2>4 DEF NextVersionOK, Rests
  <2>6. op[x] = "rollback" => RollbackOK(x)'
    BY <1>8, <2>1, <2>4 DEF HistoryOK, RollbackOK, Rests
  <2>7. op[x] = "history" /\ line[x] # "read policy" => found'[x] <= current'
    <3>1. found[x] \in 0..MaxVersion /\ MaxVersion \in Nat
      BY MaxVersionAssumption DEF AdmInv, RequestTypes
    <3>2. op[x] = "history" /\ line[x] # "read policy" => found[x] <= 0
      BY <1>2, <2>1 DEF HistoryOK
    <3>3. found'[x] = found[x]
      BY <1>8 DEF Rests
    <3>4. found[x] \in Nat /\ current' \in Nat /\ 0 <= current'
      BY <1>1, <3>1
    <3>5. found[x] <= 0 => found[x] <= current'
      BY <3>4
    <3> QED  BY <3>2, <3>3, <3>5
  <2>8. HistoryOK(x)'
    BY <1>8, <2>3, <2>5, <2>6, <2>7 DEF HistoryOK, Rests
  <2> QED  BY <2>2, <2>8
<1>9. shown'[e][1] <= shown'[e][2]
  BY <1>1, <1>2 DEF PlaceOK
<1> QED  BY <1>1, <1>6, <1>7, <1>8, <1>9, FinishKeeps DEF AdmInv, RequestTypes

\* A version or a rollback: nobody else holds the policy, so only answers with the
\* history, which may be older, see the row change.
LEMMA CommitVersionKeeps ==
    ASSUME AdmInv, NEW e \in Edit, CommitVersion(e) PROVE AdmInv'
<1> DEFINE r == [document |-> input[e].document, source |-> input[e].target]
<1>1. /\ Finish(e) /\ op[e] \in {"version", "rollback"} /\ line[e] = "commit"
      /\ versions' = Append(versions, r) /\ current' = found[e] + 1
      /\ made' = [made EXCEPT ![e] = found[e] + 1]
      /\ UNCHANGED <<policyStatus, attachment, detachedBy, groups, service, entry, since, shown>>
  BY DEF CommitVersion, Committing, catalogue
<1>2. RequestOK(e) /\ HistoryOK(e) /\ OfferOK(e) /\ PlaceOK(e)
  BY DEF AdmInv, RequestOK
<1>3. /\ Policy \in holds[e] /\ found[e] = current /\ current > 0 /\ found[e] < MaxVersion
      /\ op[e] = "rollback" => RollbackOK(e)
  BY <1>1, <1>2 DEF HistoryOK, NextVersionOK
<1>4. /\ versions \in Seq(Version) /\ current = Len(versions) /\ current \in 0..MaxVersion
      /\ MaxVersion \in Nat /\ HistoryIsWhole
  BY MaxVersionAssumption DEF AdmInv, RowsOK, HistoryIsWhole
<1>5. /\ r \in Version
      /\ r.source # 0 => r.source \in 1..Len(versions)
                         /\ r.document = versions[r.source].document
  <2>1. input[e].target \in 0..MaxVersion
    BY DEF AdmInv, RequestTypes, InputType
  <2>2. CASE op[e] = "version"
    BY <1>2, <2>1, <2>2 DEF OfferOK, DocumentOK, Version
  <2>3. CASE op[e] = "rollback"
    <3>1. input[e].target \in 1..Len(versions)
          /\ input[e].document = versions[input[e].target].document
      BY <1>1, <1>3, <1>4, <2>3 DEF RollbackOK
    <3>2. versions[input[e].target] \in Version
      BY <1>4, <3>1
    <3> QED  BY <2>1, <3>1, <3>2 DEF Version
  <2> QED  BY <1>1, <2>2, <2>3
<1> HIDE DEF r
<1>6. /\ versions' \in Seq(Version) /\ Len(versions') = current + 1
      /\ DOMAIN versions' = 1..(Len(versions) + 1) /\ versions'[Len(versions) + 1] = r
      /\ \A v \in 1..Len(versions) : versions'[v] = versions[v]
  BY <1>1, <1>4, <1>5
<1>7. current' = current + 1 /\ current' \in 0..MaxVersion
  BY <1>1, <1>3, <1>4
<1>8. HistoryIsWhole'
  <2>1. current' = Len(versions')
    BY <1>6, <1>7
  <2>2. ASSUME NEW v \in DOMAIN versions', versions'[v].source # 0
        PROVE  /\ versions'[v].source < v
               /\ versions'[v].document = versions'[versions'[v].source].document
    <3>1. CASE v = Len(versions) + 1
      <4>1. r.source \in 1..Len(versions) /\ r.document = versions[r.source].document
        BY <1>5, <1>6, <2>2, <3>1
      <4> QED  BY <1>4, <1>6, <3>1, <4>1
    <3>2. CASE v # Len(versions) + 1
      <4>1. v \in 1..Len(versions) /\ versions'[v] = versions[v]
        BY <1>4, <1>6, <3>2
      <4>2. versions[v].source < v
            /\ versions[v].document = versions[versions[v].source].document
        BY <1>4, <2>2, <4>1 DEF HistoryIsWhole
      <4>3. versions[v] \in Version
        BY <1>4, <4>1
      <4>4. versions[v].source \in 1..Len(versions)
        BY <1>4, <2>2, <4>1, <4>2, <4>3 DEF Version
      <4> QED  BY <1>6, <4>1, <4>2, <4>4
    <3> QED  BY <3>1, <3>2
  <2> QED  BY <2>1, <2>2 DEF HistoryIsWhole
<1>9. RowsOK'
  BY <1>1, <1>6, <1>7, <1>8 DEF AdmInv, RowsOK, OneLiveAttachment
<1>10. made' \in [Edit -> 0..MaxVersion] /\ \A x \in Edit \ {e} : made'[x] = made[x]
  <2>1. found[e] + 1 \in 0..MaxVersion
    BY <1>3, <1>4
  <2> QED  BY <1>1, <2>1 DEF AdmInv, RequestTypes
<1>11. ASSUME NEW x \in Edit \ {e}, Rests(x)
       PROVE  OfferOK(x)' /\ HistoryOK(x)' /\ AttachmentOK(x)'
  <2>1. RequestOK(x) /\ HistoryOK(x)
    BY DEF AdmInv, RequestOK
  <2>2. OfferOK(x)' /\ AttachmentOK(x)'
    BY <1>1, <1>11, <2>1, Frames
  <2>3. op[x] = "create" => CreateOK(x)'
    BY <1>3, <1>11, <2>1 DEF HistoryOK, CreateOK, Rests
  <2>4. op[x] \in {"version", "rollback"} => line[x] = "policy"
    BY <1>3, <2>1, HeldByOne DEF HistoryOK, NextVersionOK
  <2>5. op[x] \in {"version", "rollback"} => NextVersionOK(x)'
    BY <1>11, <2>4 DEF NextVersionOK, Rests
  <2>6. op[x] = "rollback" => RollbackOK(x)'
    BY <1>11, <2>1, <2>4 DEF HistoryOK, RollbackOK, Rests
  <2>7. op[x] = "history" /\ line[x] # "read policy" => found'[x] <= current'
    <3>1. found[x] \in 0..MaxVersion
      BY DEF AdmInv, RequestTypes
    <3>2. op[x] = "history" /\ line[x] # "read policy" => found[x] <= current
      BY <2>1 DEF HistoryOK
    <3>3. found'[x] = found[x]
      BY <1>11 DEF Rests
    <3>4. found[x] \in Nat /\ current \in Nat
      BY <1>4, <3>1
    <3>5. found[x] <= current => found[x] <= current'
      BY <1>7, <3>4
    <3> QED  BY <3>2, <3>3, <3>5
  <2>8. HistoryOK(x)'
    BY <1>11, <2>3, <2>5, <2>6, <2>7 DEF HistoryOK, Rests
  <2> QED  BY <2>2, <2>8
<1>12. shown'[e][1] <= shown'[e][2]
  BY <1>1, <1>2 DEF PlaceOK
<1> QED  BY <1>1, <1>9, <1>10, <1>11, <1>12, FinishKeeps DEF AdmInv, RequestTypes

\* attachIamPolicy: nobody else is past the index of live attachments.
LEMMA CommitAttachKeeps ==
    ASSUME AdmInv, NEW e \in Edit, CommitAttach(e) PROVE AdmInv'
<1> DEFINE a == input[e].attachment
<1>1. /\ Finish(e) /\ op[e] = "attach" /\ line[e] = "commit"
      /\ attachment' = [attachment EXCEPT ![a] = "live"]
      /\ UNCHANGED <<versions, current, policyStatus, detachedBy, groups, service, entry, since,
                     made, shown>>
  BY DEF CommitAttach, Committing, catalogue, results
<1>2. /\ a \in Attachment /\ attachment[a] = "none" /\ Live \in holds[e]
      /\ \A b \in Attachment : attachment[b] # "live"
  BY <1>1 DEF AdmInv, RequestOK, AttachmentOK, AttachOK
<1>3. /\ attachment \in [Attachment -> {"none", "live", "detached"}]
      /\ attachment' \in [Attachment -> {"none", "live", "detached"}]
      /\ attachment'[a] = "live" /\ \A b \in Attachment \ {a} : attachment'[b] = attachment[b]
  BY <1>1, <1>2 DEF AdmInv, RowsOK
<1>4. RowsOK'
  <2>1. OneLiveAttachment'
    BY <1>2, <1>3 DEF OneLiveAttachment
  <2>2. \A b \in Attachment : detachedBy'[b] # Nobody => attachment'[b] = "detached"
    BY <1>1, <1>2, <1>3 DEF AdmInv, RowsOK
  <2> QED  BY <1>1, <1>3, <2>1, <2>2 DEF AdmInv, RowsOK, HistoryIsWhole
<1>5. ASSUME NEW x \in Edit \ {e}, Rests(x)
      PROVE  OfferOK(x)' /\ HistoryOK(x)' /\ AttachmentOK(x)'
  <2>1. RequestOK(x) /\ AttachmentOK(x)
    BY DEF AdmInv, RequestOK
  <2>2. OfferOK(x)' /\ HistoryOK(x)'
    BY <1>1, <1>5, <2>1, Frames
  <2>3. ASSUME op[x] = "attach" PROVE AttachOK(x)'
    <3>1. AttachOK(x) /\ Live \notin holds[x] /\ input[x].attachment # a
      BY <1>1, <1>2, <2>1, <2>3, HeldByOne DEF AttachmentOK, AdmInv, Apart
    <3> QED  BY <1>3, <1>5, <3>1 DEF AttachOK, Rests
  <2>4. ASSUME op[x] = "detach" PROVE DetachOK(x)'
    <3>1. DetachOK(x)
      BY <2>1, <2>4 DEF AttachmentOK
    <3>2. input[x].attachment \in Attachment \ {a}
      BY <1>2, <3>1 DEF DetachOK
    <3> QED  BY <1>3, <1>5, <3>1, <3>2 DEF DetachOK, Rests
  <2>5. AttachmentOK(x)'
    BY <1>5, <2>3, <2>4 DEF AttachmentOK, Rests
  <2> QED  BY <2>2, <2>5
<1>6. shown'[e][1] <= shown'[e][2]
  BY <1>1 DEF AdmInv, RequestOK, PlaceOK
<1> QED  BY <1>1, <1>4, <1>5, <1>6, FinishKeeps DEF AdmInv, RequestTypes

\* What a detachment that changes its row writes.
LEMMA DetachWrites ==
    ASSUME AdmInv, NEW e \in Edit, CommitDetach(e), found[e] # 0
    PROVE  LET a == input[e].attachment IN
           /\ a \in Attachment /\ attachment[a] = "live" /\ detachedBy[a] = Nobody
           /\ <<"attachment", a>> \in holds[e]
           /\ attachment' \in [Attachment -> {"none", "live", "detached"}]
           /\ detachedBy' \in [Attachment -> Edit \cup {Nobody}]
           /\ attachment'[a] = "detached"
           /\ \A b \in Attachment \ {a} :
                attachment'[b] = attachment[b] /\ detachedBy'[b] = detachedBy[b]
<1> DEFINE a == input[e].attachment
<1>1. /\ op[e] = "detach" /\ line[e] = "commit"
      /\ attachment' = [attachment EXCEPT ![a] = "detached"]
      /\ detachedBy' = [detachedBy EXCEPT ![a] = e]
  BY DEF CommitDetach, Committing
<1>2. DetachOK(e)
  BY <1>1 DEF AdmInv, RequestOK, AttachmentOK
<1>3. /\ attachment \in [Attachment -> {"none", "live", "detached"}]
      /\ detachedBy \in [Attachment -> Edit \cup {Nobody}]
      /\ \A b \in Attachment : detachedBy[b] # Nobody => attachment[b] = "detached"
  BY DEF AdmInv, RowsOK
<1>4. a \in Attachment /\ attachment[a] \in {"live", "detached"} /\ <<"attachment", a>> \in holds[e]
  BY <1>1, <1>2, <1>3 DEF DetachOK
<1>5. attachment[a] = "live"
  BY <1>1, <1>2 DEF DetachOK, CommitDetach
<1> QED  BY <1>1, <1>3, <1>4, <1>5

\* detachIamPolicy: nobody else has read its row as live.
LEMMA CommitDetachKeeps ==
    ASSUME AdmInv, NEW e \in Edit, CommitDetach(e) PROVE AdmInv'
<1> DEFINE a == input[e].attachment
<1>1. /\ Finish(e)
      /\ UNCHANGED <<versions, current, policyStatus, groups, service, entry, since, made, shown>>
  BY DEF CommitDetach, catalogue, results
<1>2. CASE found[e] = 0
  <2>1. UNCHANGED <<attachment, detachedBy>>
    BY <1>2 DEF CommitDetach
  <2>2. RowsOK'
    BY <1>1, <2>1 DEF AdmInv, RowsOK, HistoryIsWhole, OneLiveAttachment
  <2> QED  BY <1>1, <2>1, <2>2, AsideKeeps
<1>3. CASE found[e] # 0
  <2>1. /\ a \in Attachment /\ attachment[a] = "live" /\ detachedBy[a] = Nobody
        /\ <<"attachment", a>> \in holds[e]
        /\ attachment' \in [Attachment -> {"none", "live", "detached"}]
        /\ detachedBy' \in [Attachment -> Edit \cup {Nobody}]
        /\ attachment'[a] = "detached"
        /\ \A b \in Attachment \ {a} :
             attachment'[b] = attachment[b] /\ detachedBy'[b] = detachedBy[b]
    BY <1>3, DetachWrites
  <2>2. RowsOK'
    <3>1. OneLiveAttachment'
      BY <2>1 DEF AdmInv, RowsOK, OneLiveAttachment
    <3>2. \A b \in Attachment : detachedBy'[b] # Nobody => attachment'[b] = "detached"
      BY <2>1 DEF AdmInv, RowsOK
    <3> QED  BY <1>1, <2>1, <3>1, <3>2 DEF AdmInv, RowsOK, HistoryIsWhole
  <2>3. ASSUME NEW x \in Edit \ {e}, Rests(x)
        PROVE  OfferOK(x)' /\ HistoryOK(x)' /\ AttachmentOK(x)'
    <3>1. RequestOK(x) /\ AttachmentOK(x)
      BY DEF AdmInv, RequestOK
    <3>2. OfferOK(x)' /\ HistoryOK(x)'
      BY <1>1, <2>3, <3>1, Frames
    <3>3. ASSUME op[x] = "attach" PROVE AttachOK(x)'
      BY <2>1, <2>3, <3>1, <3>3 DEF AttachmentOK, AttachOK, Rests
    <3>4. ASSUME op[x] = "detach" PROVE DetachOK(x)'
      <4>1. DetachOK(x)
        BY <3>1, <3>4 DEF AttachmentOK
      <4>2. CASE input[x].attachment = a
        <5>1. line[x] = "attachment"
          BY <2>1, <4>1, <4>2, HeldByOne DEF DetachOK
        <5> QED  BY <2>1, <2>3, <4>2, <5>1 DEF DetachOK, Rests
      <4>3. CASE input[x].attachment # a
        BY <2>1, <2>3, <4>1, <4>3 DEF DetachOK, Rests
      <4> QED  BY <4>2, <4>3
    <3>5. AttachmentOK(x)'
      BY <2>3, <3>3, <3>4 DEF AttachmentOK, Rests
    <3> QED  BY <3>2, <3>5
  <2>4. shown'[e][1] <= shown'[e][2]
    BY <1>1 DEF AdmInv, RequestOK, PlaceOK
  <2> QED  BY <1>1, <2>2, <2>3, <2>4, FinishKeeps DEF AdmInv, RequestTypes
<1> QED  BY <1>2, <1>3

-----------------------------------------------------------------------------
(* Every reachable state *)

\* Nothing is asked for yet.
LEMMA AdmInvInitially ==
    InitAdministration => AdmInv
<1> SUFFICES ASSUME InitAdministration PROVE AdmInv
  OBVIOUS
<1>1. 0 \in 0..MaxVersion /\ 1 \in 0..MaxVersion
  BY MaxVersionAssumption
<1>2. versions \in Seq(Version) /\ current \in 0..MaxVersion /\ HistoryIsWhole
  <2>1. CASE versions = <<>>
    BY <1>1, <2>1 DEF InitAdministration, HistoryIsWhole
  <2>2. ASSUME NEW d \in Document, versions = <<[document |-> d, source |-> 0]>>
        PROVE  versions \in Seq(Version) /\ current \in 0..MaxVersion /\ HistoryIsWhole
    <3>1. [document |-> d, source |-> 0] \in Version
      BY <1>1 DEF Version
    <3>2. versions \in Seq(Version) /\ Len(versions) = 1 /\ versions[1].source = 0
      BY <2>2, <3>1
    <3> QED  BY <1>1, <3>2 DEF InitAdministration, HistoryIsWhole
  <2> QED  BY <2>1, <2>2 DEF InitAdministration
<1>3. service \in Services \cup {NoService}
  <2>1. (CHOOSE u \in Owner \ Platform : TRUE) \in Owner
    BY OwnersAssumption
  <2> QED  BY <2>1 DEF InitAdministration, Services, Standings
<1>4. RowsOK
  BY <1>2, <1>3 DEF InitAdministration, RowsOK, OneLiveAttachment, Standings
<1>5. RequestTypes
  BY <1>1, BlankType DEF InitAdministration, RequestTypes, Lines
<1>6. ASSUME NEW e \in Edit PROVE RequestOK(e)
  <2>1. op[e] = "none" /\ line[e] = "idle" /\ made[e] = 0 /\ shown[e] = <<0, 0>>
    BY DEF InitAdministration
  <2> QED  BY <2>1 DEF RequestOK, PlaceOK, Placed, OfferOK, HistoryOK, AttachmentOK
<1>7. ASSUME NEW e \in Edit, NEW x \in Edit, e # x PROVE Apart(e, x)
  BY DEF InitAdministration, Apart
<1> QED  BY <1>4, <1>5, <1>6, <1>7 DEF AdmInv

\* Each statement of each request.
LEMMA NextKeeps ==
    AdmInv /\ [NextAdministration]_varsAdministration => AdmInv'
<1> SUFFICES ASSUME AdmInv, [NextAdministration]_varsAdministration PROVE AdmInv'
  OBVIOUS
<1>1. CASE UNCHANGED varsAdministration
  <2>1. /\ UNCHANGED <<versions, current, policyStatus, attachment, detachedBy, groups, service,
                       entry>>
        /\ UNCHANGED <<mix, op, by, input, basis, found, image, line, holds, since, made, shown>>
    BY <1>1 DEF varsAdministration, rows, catalogue, asked, results
  <2>2. RowsOK'
    BY <2>1 DEF AdmInv, RowsOK, HistoryIsWhole, OneLiveAttachment
  <2>3. RequestTypes'
    BY <2>1 DEF AdmInv, RequestTypes
  <2>4. ASSUME NEW x \in Edit PROVE RequestOK(x)'
    <3>1. RequestOK(x) /\ Rests(x)
      BY <2>1 DEF AdmInv, Rests
    <3> QED  BY <2>1, <3>1, Frames DEF RequestOK
  <2>5. ASSUME NEW x \in Edit, NEW y \in Edit, x # y PROVE Apart(x, y)'
    BY <2>1, <2>5 DEF AdmInv, Apart
  <2> QED  BY <2>2, <2>3, <2>4, <2>5 DEF AdmInv
<1>2. ASSUME NEW e \in Edit, Statement(e) PROVE AdmInv'
  <2>1. CASE CallEdit(e)
    BY <2>1, CallEditKeeps
  <2>2. CASE LoseEdit(e)
    BY <2>2, ThrowKeeps DEF LoseEdit
  <2>3. CASE LockPolicy(e)
    BY <2>3, LockPolicyKeeps
  <2>4. CASE LockAttachment(e)
    BY <2>4, LockAttachmentKeeps
  <2>5. CASE LockJoinedPolicy(e)
    BY <2>5, LockJoinedPolicyKeeps
  <2>6. CASE ReadPolicy(e)
    BY <2>6, ReadPolicyKeeps
  <2>7. CASE LoadScope(e)
    BY <2>7, LoadScopeKeeps
  <2>8. CASE AuthorizeEdit(e)
    BY <2>8, AuthorizeEditKeeps
  <2>9. CASE ReadActiveService(e)
    BY <2>9, ReadActiveServiceKeeps
  <2>10. CASE ReadEntries(e)
    BY <2>10, ReadEntriesKeeps
  <2>11. CASE ReadTarget(e)
    BY <2>11, ReadTargetKeeps
  <2>12. CASE AppendVersion(e)
    BY <2>12, AppendVersionKeeps
  <2>13. CASE InsertRow(e)
    BY <2>13, InsertRowKeeps
  <2>14. CASE ShareForeignKey(e)
    BY <2>14, ShareForeignKeyKeeps
  <2>15. CASE UpdateAttachment(e)
    BY <2>15, UpdateAttachmentKeeps
  <2>16. CASE ReadService(e)
    BY <2>16, ReadServiceKeeps
  <2>17. CASE ReadNewOwner(e)
    BY <2>17, ReadNewOwnerKeeps
  <2>18. CASE ReadEntry(e) \/ ReadGroup(e)
    BY <2>18, ReadRowKeeps
  <2>19. CASE WriteRow(e)
    BY <2>19, WriteRowKeeps
  <2>20. CASE CommitPolicy(e)
    BY <2>20, CommitPolicyKeeps
  <2>21. CASE CommitVersion(e)
    BY <2>21, CommitVersionKeeps
  <2>22. CASE CommitStatusOfPolicy(e)
    BY <2>22, CommitStatusOfPolicyKeeps
  <2>23. CASE CommitAttach(e)
    BY <2>23, CommitAttachKeeps
  <2>24. CASE CommitDetach(e)
    BY <2>24, CommitDetachKeeps
  <2>25. CASE CommitGroup(e)
    BY <2>25, CommitGroupKeeps
  <2>26. CASE CommitService(e)
    BY <2>26, CommitServiceKeeps
  <2>27. CASE CommitEntry(e)
    BY <2>27, CommitEntryKeeps
  <2>28. CASE AnswerHistory(e)
    BY <2>28, AnswerHistoryKeeps
  <2> QED  BY <1>2, <2>1, <2>2, <2>3, <2>4, <2>5, <2>6, <2>7, <2>8, <2>9, <2>10, <2>11, <2>12,
             <2>13, <2>14, <2>15, <2>16, <2>17, <2>18, <2>19, <2>20, <2>21, <2>22, <2>23,
             <2>24, <2>25, <2>26, <2>27, <2>28 DEF Statement
<1> QED  BY <1>1, <1>2 DEF NextAdministration

\* In every reachable state of the administration: the rows agree, and what a
\* request has read under a lock is true.
THEOREM AdministrationInvariant == SpecAdministration => []AdmInv
<1> QED  BY AdmInvInitially, NextKeeps, PTL DEF SpecAdministration

\* For any edits, documents, entries and attachments: the current version is the
\* last, a rollback repeats an earlier document, an answer with the history holds
\* the version it calls current, and at most one attachment is live.
THEOREM AdministrationStaysSound == SpecAdministration => []AdministrationIsSound
<1>1. AdmInv => AdministrationIsSound
  <2> SUFFICES ASSUME AdmInv PROVE AdministrationIsSound
    OBVIOUS
  <2>1. TypeOKAdministration
    BY DEF AdmInv, RowsOK, RequestTypes, TypeOKAdministration, Version, InputType, Standings,
       Services
  <2>2. HistoryIsWhole /\ OneLiveAttachment
    BY DEF AdmInv, RowsOK
  <2>3. HistoryCoversCurrent
    BY DEF AdmInv, RequestOK, PlaceOK, HistoryCoversCurrent
  <2> QED  BY <2>1, <2>2, <2>3 DEF AdministrationIsSound
<1> QED  BY <1>1, AdministrationInvariant, PTL

-----------------------------------------------------------------------------
(* What a step may write *)

\* Only some statements write versions, what was made of them, and attachments.
LEMMA WhoWrites ==
    ASSUME NEW e \in Edit, Statement(e)
    PROVE  /\ \/ CallEdit(e) \/ CommitPolicy(e) \/ CommitVersion(e)
              \/ UNCHANGED <<versions, made, basis>>
           /\ CommitAttach(e) \/ CommitDetach(e) \/ UNCHANGED <<attachment, detachedBy>>
<1> DEFINE Still == UNCHANGED <<versions, made, basis, attachment, detachedBy>>
<1>1. Throw(e) => Still
  BY DEF Throw, Finish, rows, results
<1>2. \A next : Reach(e, next) => Still
  BY DEF Reach, rows, asked, results
<1>3. \A next : To(e, next) => Still
  BY <1>2 DEF To
<1>4. \A row, value, next : Lock(e, row, value, next) => Still
  BY <1>2 DEF Lock
<1>5. CASE LoseEdit(e) \/ LockPolicy(e) \/ LockAttachment(e) \/ LockJoinedPolicy(e)
  BY <1>1, <1>4, <1>5 DEF LoseEdit, LockPolicy, LockAttachment, LockJoinedPolicy
<1>6. CASE ReadPolicy(e) \/ LoadScope(e) \/ AuthorizeEdit(e) \/ ReadActiveService(e)
           \/ ReadEntries(e)
  BY <1>1, <1>2, <1>3, <1>6 DEF ReadPolicy, LoadScope, AuthorizeEdit, ReadActiveService,
     ReadEntries
<1>7. CASE ReadTarget(e) \/ ReadService(e)
  BY <1>1, <1>7 DEF ReadTarget, ReadService, rows, asked, results
<1>8. CASE AppendVersion(e) \/ InsertRow(e) \/ ShareForeignKey(e) \/ UpdateAttachment(e)
  BY <1>1, <1>2, <1>3, <1>4, <1>8 DEF AppendVersion, InsertRow, ShareForeignKey, UpdateAttachment
<1>9. CASE ReadNewOwner(e) \/ ReadEntry(e) \/ ReadGroup(e) \/ WriteRow(e)
  BY <1>1, <1>3, <1>4, <1>9 DEF ReadNewOwner, ReadEntry, ReadGroup, WriteRow
<1>10. CASE CommitStatusOfPolicy(e) \/ CommitGroup(e) \/ CommitService(e) \/ CommitEntry(e)
            \/ AnswerHistory(e)
  BY <1>10 DEF CommitStatusOfPolicy, CommitGroup, CommitService, CommitEntry, AnswerHistory,
     Finish, rows, results
<1>11. CASE CallEdit(e) \/ CommitPolicy(e) \/ CommitVersion(e)
  BY <1>11 DEF CallEdit, CommitPolicy, CommitVersion, rows
<1>12. CASE CommitAttach(e) \/ CommitDetach(e)
  BY <1>12 DEF CommitAttach, CommitDetach, Finish, results
<1> QED  BY <1>5, <1>6, <1>7, <1>8, <1>9, <1>10, <1>11, <1>12 DEF Statement

\* detachIamPolicy: whatever edits overlap, a detached attachment stays detached
\* and the one who detached it first stays recorded.
THEOREM DetachedForGood == SpecAdministration => DetachmentIsFinal
<1> DEFINE Final == \A a \in Attachment : detachedBy[a] # Nobody =>
                        detachedBy'[a] = detachedBy[a] /\ attachment'[a] = "detached"
<1>1. AdmInv /\ [NextAdministration]_varsAdministration => [Final]_varsAdministration
  <2> SUFFICES ASSUME AdmInv, NEW e \in Edit, Statement(e),
                      NEW a \in Attachment, detachedBy[a] # Nobody
               PROVE  detachedBy'[a] = detachedBy[a] /\ attachment'[a] = "detached"
    BY DEF NextAdministration
  <2>1. attachment[a] = "detached"
    BY DEF AdmInv, RowsOK
  <2>2. CASE UNCHANGED <<attachment, detachedBy>>
    BY <2>1, <2>2
  <2>3. CASE CommitAttach(e)
    <3>1. /\ attachment' = [attachment EXCEPT ![input[e].attachment] = "live"]
          /\ detachedBy' = detachedBy /\ attachment[input[e].attachment] = "none"
      BY <2>3 DEF CommitAttach, Committing, AdmInv, RequestOK, AttachmentOK, AttachOK
    <3> QED  BY <2>1, <3>1 DEF AdmInv, RowsOK
  <2>4. CASE CommitDetach(e)
    <3>1. CASE found[e] = 0
      BY <2>1, <2>4, <3>1 DEF CommitDetach
    <3>2. CASE found[e] # 0
      BY <2>1, <2>4, <3>2, DetachWrites
    <3> QED  BY <3>1, <3>2
  <2> QED  BY <2>2, <2>3, <2>4, WhoWrites
<1> QED  BY <1>1, AdministrationInvariant, PTL DEF SpecAdministration, DetachmentIsFinal

\* validatedDocument: whatever happens to the catalogue meanwhile, a document that
\* is published, other than by a rollback, names only what was active at some
\* time during its request.
THEOREM PublishedIsOffered == SpecAdministration => PublishedWasOffered
<1> DEFINE Offered == \A e \in Edit :
                made'[e] # made[e] /\ versions'[made'[e]].source = 0 =>
                    Names[versions'[made'[e]].document] \subseteq since[e]
<1>1. AdmInv /\ [NextAdministration]_varsAdministration => [Offered]_varsAdministration
  <2> SUFFICES ASSUME AdmInv, NEW x \in Edit, Statement(x), NEW e \in Edit,
                      made'[e] # made[e], versions'[made'[e]].source = 0
               PROVE  Names[versions'[made'[e]].document] \subseteq since[e]
    BY DEF NextAdministration
  <2>1. made \in [Edit -> 0..MaxVersion] /\ RequestOK(x) /\ OfferOK(x) /\ HistoryOK(x)
    BY DEF AdmInv, RequestTypes, RequestOK
  <2>2. CASE CallEdit(x)
    BY <2>2 DEF CallEdit, results
  <2>3. CASE CommitPolicy(x)
    <3>1. /\ made' = [made EXCEPT ![x] = 1] /\ op[x] = "create" /\ line[x] = "commit"
          /\ versions' = <<[document |-> input[x].document, source |-> 0]>>
      BY <2>3 DEF CommitPolicy, Committing
    <3>2. e = x /\ versions'[made'[e]].document = input[x].document
      BY <2>1, <3>1
    <3> QED  BY <2>1, <3>1, <3>2 DEF OfferOK, DocumentOK
  <2>4. CASE CommitVersion(x)
    <3> DEFINE r == [document |-> input[x].document, source |-> input[x].target]
    <3>1. /\ made' = [made EXCEPT ![x] = found[x] + 1] /\ op[x] \in {"version", "rollback"}
          /\ line[x] = "commit" /\ versions' = Append(versions, r)
      BY <2>4 DEF CommitVersion, Committing
    <3>2. found[x] = Len(versions) /\ versions \in Seq(Version)
      BY <2>1, <3>1 DEF HistoryOK, NextVersionOK, AdmInv, RowsOK, HistoryIsWhole
    <3>3. e = x /\ made'[e] = Len(versions) + 1
      BY <2>1, <3>1, <3>2
    <3> HIDE DEF r
    <3>4. versions'[made'[e]] = r
      BY <3>1, <3>2, <3>3
    <3>5. op[x] = "version"
      <4>1. r.source = 0 /\ r.source = input[x].target
        BY <3>4 DEF r
      <4> QED  BY <2>1, <3>1, <4>1 DEF HistoryOK, RollbackOK
    <3> QED  BY <2>1, <3>1, <3>3, <3>4, <3>5 DEF r, OfferOK, DocumentOK
  <2> QED  BY <2>2, <2>3, <2>4, WhoWrites
<1> QED  BY <1>1, AdministrationInvariant, PTL DEF SpecAdministration, PublishedWasOffered

-----------------------------------------------------------------------------
(* The refinement *)

LogOf(s) == [v \in DOMAIN s |-> s[v].document]

\* A version more is a text more.
LEMMA LogGrows ==
    ASSUME NEW s \in Seq(Version), NEW r \in Version
    PROVE  /\ LogOf(s) \in Seq(Document) /\ Len(LogOf(s)) = Len(s)
           /\ LogOf(Append(s, r)) = Append(LogOf(s), r.document)
<1> DEFINE t == Append(s, r)
<1>1. t \in Seq(Version) /\ Len(t) = Len(s) + 1 /\ t[Len(s) + 1] = r
      /\ \A v \in 1..Len(s) : t[v] = s[v]
  OBVIOUS
<1>2. ASSUME NEW q \in Seq(Version)
      PROVE  LogOf(q) \in Seq(Document) /\ Len(LogOf(q)) = Len(q)
             /\ \A v \in 1..Len(q) : LogOf(q)[v] = q[v].document
  <2>1. ASSUME NEW v \in 1..Len(q) PROVE q[v].document \in Document
    <3>1. q[v] \in Version
      OBVIOUS
    <3> QED  BY <3>1 DEF Version
  <2>2. DOMAIN q = 1..Len(q)
    OBVIOUS
  <2>3. LogOf(q) = [v \in 1..Len(q) |-> q[v].document]
    BY <2>2 DEF LogOf
  <2> QED  BY <2>1, <2>3
<1>3. r.document \in Document
  BY DEF Version
<1>4. LogOf(t) = Append(LogOf(s), r.document)
  <2> DEFINE a == LogOf(t)
             b == Append(LogOf(s), r.document)
  <2>1. a \in Seq(Document) /\ Len(a) = Len(s) + 1
        /\ \A v \in 1..(Len(s) + 1) : a[v] = t[v].document
    BY <1>1, <1>2
  <2>2. LogOf(s) \in Seq(Document) /\ Len(LogOf(s)) = Len(s)
        /\ \A v \in 1..Len(s) : LogOf(s)[v] = s[v].document
    BY <1>2
  <2>3. b \in Seq(Document) /\ Len(b) = Len(s) + 1 /\ b[Len(s) + 1] = r.document
        /\ \A v \in 1..Len(s) : b[v] = LogOf(s)[v]
    BY <1>3, <2>2
  <2>4. ASSUME NEW v \in 1..Len(a) PROVE a[v] = b[v]
    <3>1. CASE v = Len(s) + 1
      BY <1>1, <2>1, <2>3, <3>1
    <3>2. CASE v # Len(s) + 1
      <4>1. v \in 1..Len(s)
        BY <2>1, <3>2
      <4> QED  BY <1>1, <2>1, <2>2, <2>3, <4>1
    <3> QED  BY <3>1, <3>2
  <2> HIDE DEF a, b
  <2>5. a = b
    BY <2>1, <2>3, <2>4, SeqEqual
  <2> QED  BY <2>5 DEF a, b
<1> QED  BY <1>2, <1>4

\* The first version of a policy, and each one after it, is a write of its author.
LEMMA CommitWrites ==
    ASSUME AdmInv, NEW e \in Edit, CommitPolicy(e) \/ CommitVersion(e)
    PROVE  Register!Write(e)
<1> DEFINE r == [document |-> input[e].document, source |-> input[e].target]
<1>1. versions \in Seq(Version) /\ versions' \in Seq(Version) /\ current = Len(versions)
  BY CommitPolicyKeeps, CommitVersionKeeps DEF AdmInv, RowsOK, HistoryIsWhole
<1>2. RequestOK(e) /\ PlaceOK(e) /\ OfferOK(e) /\ HistoryOK(e)
  BY DEF AdmInv, RequestOK
<1>3. line[e] = "commit" /\ op[e] \in {"create", "version", "rollback"} /\ made[e] = 0
      /\ basis' = basis
  BY <1>2 DEF CommitPolicy, CommitVersion, Committing, PlaceOK, Finish
<1>4. /\ versions' = Append(versions, r) /\ made' = [made EXCEPT ![e] = Len(versions) + 1]
      /\ basis[e] = Len(versions)
  <2>1. CASE CommitPolicy(e)
    <3>1. op[e] = "create"
      BY <2>1 DEF CommitPolicy, Committing
    <3>2. current = 0 /\ basis[e] = 0 /\ input[e].target = 0
      BY <1>2, <1>3, <3>1 DEF HistoryOK, CreateOK, OfferOK, DocumentOK
    <3>3. versions = <<>>
      BY <1>1, <3>2, EmptySeq
    <3> QED  BY <2>1, <3>2, <3>3 DEF CommitPolicy
  <2>2. CASE CommitVersion(e)
    <3>1. op[e] \in {"version", "rollback"}
      BY <2>2 DEF CommitVersion, Committing
    <3>2. found[e] = current /\ basis[e] = found[e]
      BY <1>2, <1>3, <3>1 DEF HistoryOK, NextVersionOK
    <3> QED  BY <1>1, <2>2, <3>2 DEF CommitVersion
  <2> QED  BY <2>1, <2>2
<1>5. r \in Version
  <2>1. versions'[Len(versions) + 1] = r /\ versions'[Len(versions) + 1] \in Version
    <3> HIDE DEF r
    <3>1. Len(versions') = Len(versions) + 1 /\ versions'[Len(versions) + 1] = r
      BY <1>1, <1>4
    <3>2. Len(versions) + 1 \in 1..Len(versions')
      BY <1>1, <3>1
    <3> QED  BY <1>1, <3>1, <3>2
  <2> QED  BY <2>1
<1>6. /\ Len(LogOf(versions)) = Len(versions) /\ Len(LogOf(versions')) = Len(versions')
      /\ LogOf(versions') = Append(LogOf(versions), r.document)
  <2> HIDE DEF r
  <2> QED  BY <1>1, <1>4, <1>5, LogGrows
<1>7. Len(versions') = Len(versions) + 1
  <2> HIDE DEF r
  <2> QED  BY <1>1, <1>4
<1>8. r.document \in Document
  BY <1>5 DEF Version
<1> HIDE DEF r
<1> QED  BY <1>3, <1>4, <1>6, <1>7, <1>8 DEF Register!Write, LogOf

\* createIamPolicy, createIamPolicyVersion, rollbackIamPolicy: for any edits and
\* documents, every step is a write of a register on the version its author named,
\* or the author's choice of one, or changes nothing of it.
THEOREM HistoryIsRegister == SpecAdministration => ImplementsRegister
<1>1. InitAdministration => Register!Init
  <2> SUFFICES ASSUME InitAdministration PROVE Register!Init
    OBVIOUS
  <2>1. LogOf(versions) \in {<<>>} \cup {<<t>> : t \in Document}
    <3>1. CASE versions = <<>>
      <4>1. LogOf(versions) = <<>>
        BY <3>1 DEF LogOf
      <4> QED  BY <4>1
    <3>2. ASSUME NEW d \in Document, versions = <<[document |-> d, source |-> 0]>>
          PROVE  LogOf(versions) = <<d>>
      <4>1. DOMAIN versions = {1} /\ versions[1].document = d
        BY <3>2
      <4>2. LogOf(versions) = [v \in {1} |-> d]
        BY <4>1 DEF LogOf
      <4> QED  BY <4>2
    <3> QED  BY <3>1, <3>2 DEF InitAdministration
  <2> QED  BY <2>1 DEF InitAdministration, Register!Init, LogOf
<1>2. AdmInv /\ [NextAdministration]_varsAdministration => [Register!Next]_(Register!vars)
  <2> SUFFICES ASSUME AdmInv, [NextAdministration]_varsAdministration
               PROVE  Register!Next \/ UNCHANGED <<versions, made, basis>>
    BY DEF Register!vars
  <2>1. CASE UNCHANGED varsAdministration
    BY <2>1 DEF varsAdministration, rows, asked, results
  <2>2. ASSUME NEW e \in Edit, Statement(e)
        PROVE  Register!Next \/ UNCHANGED <<versions, made, basis>>
    <3>1. CASE CallEdit(e)
      <4>1. made[e] = 0 /\ made' = made /\ versions' = versions
        BY <3>1 DEF CallEdit, AdmInv, RequestOK, PlaceOK, rows, results
      <4>2. PICK k \in mix : \E v \in IF k \in {"version", "rollback"} THEN 1..MaxVersion ELSE {0} :
                basis' = [basis EXCEPT ![e] = v]
        BY <3>1 DEF CallEdit
      <4>3. PICK v \in IF k \in {"version", "rollback"} THEN 1..MaxVersion ELSE {0} :
                basis' = [basis EXCEPT ![e] = v]
        BY <4>2
      <4>4. v \in Nat
        BY <4>3
      <4>5. basis'[e] = v
        BY <4>3 DEF AdmInv, RequestTypes
      <4> QED  BY <4>1, <4>3, <4>4, <4>5 DEF Register!Next, Register!Read
    <3>2. CASE CommitPolicy(e) \/ CommitVersion(e)
      BY <3>2, CommitWrites DEF Register!Next
    <3> QED  BY <2>2, <3>1, <3>2, WhoWrites
  <2> QED  BY <2>1, <2>2 DEF NextAdministration
<1> QED  BY <1>1, <1>2, AdministrationInvariant, PTL
         DEF SpecAdministration, ImplementsRegister, Register!Spec

-----------------------------------------------------------------------------
(* Policies: who waits for whom *)

AttachmentRow(a) == <<"attachment", a>>

\* Two statements: detachIamPolicy locks the policy of its join, and an attach
\* that is in the index shares it.
Joining == "joined policy"
Entered == "foreign key"

\* The rows the next statement of e locks.
WantedRows(e) ==
    CASE line[e] \in {"policy", Joining, Entered} -> {Policy}
      [] line[e] = "attachment" -> {AttachmentRow(input[e].attachment)}
      [] line[e] = "insert" -> {Key(e)}
      [] line[e] = "update" -> {Live}
      [] line[e] = "write" -> {IF op[e] = "transfer" THEN <<"service">>
                               ELSE <<"entry", input[e].entry>>}
      [] OTHER -> {}

\* A key share waits for no other key share.
WaitsFor(e, x) ==
    /\ x # e
    /\ \/ WantedRows(e) \cap holds[x] # {}
       \/ line[e] # Entered /\ WantedRows(e) \cap shares[x] # {}

\* The rows that statements of several kinds lock.
Shared(row) == row \in {Policy, Live} \cup {AttachmentRow(a) : a \in Attachment}

\* Which edits hold a row, and how far they have come.
HoldsOK(e) ==
    /\ Policy \in holds[e] =>
           \/ op[e] \in {"version", "rollback", "status"} /\ line[e] # "policy"
           \/ op[e] = "detach" /\ line[e] \in {"authorize", "update", "commit"}
    /\ Live \in holds[e] =>
           \/ op[e] = "attach" /\ line[e] \in {Entered, "commit"}
           \/ op[e] = "detach" /\ line[e] = "commit" /\ found[e] = 1
    /\ \A a \in Attachment : AttachmentRow(a) \in holds[e] =>
           op[e] = "detach" /\ line[e] # "attachment" /\ input[e].attachment = a
    /\ \A row \in holds[e] : ~Shared(row) => line[e] = "commit"
    /\ shares[e] # {} => op[e] = "attach" /\ line[e] = "commit"

HoldInv ==
    /\ shares \in [Edit -> SUBSET {Policy}]
    /\ \A e \in Edit : HoldsOK(e)

\* What HoldsOK speaks of.
Untouched(x) ==
    /\ op'[x] = op[x] /\ line'[x] = line[x] /\ input'[x] = input[x] /\ found'[x] = found[x]
    /\ holds'[x] = holds[x] /\ shares'[x] = shares[x]

\* The names of the rows differ.
LEMMA RowsDiffer ==
    /\ Policy # Live
    /\ \A a \in Attachment : AttachmentRow(a) # Policy /\ AttachmentRow(a) # Live
    /\ \A a, b \in Attachment : AttachmentRow(a) = AttachmentRow(b) => a = b
    /\ \A k \in Operations : <<k>> # Policy /\ <<k>> # Live
    /\ \A k, a : <<k>> # AttachmentRow(a)
    /\ \A x : <<"entry", x>> # Policy /\ <<"entry", x>> # Live
    /\ \A x, a : <<"entry", x>> # AttachmentRow(a)
    /\ \A k \in Operations : ~Shared(<<k>>)
    /\ \A x : ~Shared(<<"entry", x>>)
    /\ Shared(Policy) /\ Shared(Live) /\ \A a \in Attachment : Shared(AttachmentRow(a))
BY DEF Policy, Live, AttachmentRow, Operations, Shared

\* Which operations are at the statements that lock, and which are not.
LEMMA WhoLocks ==
    ASSUME AdmInv, NEW e \in Edit
    PROVE  /\ line[e] = "idle" => op[e] = "none"
           /\ line[e] = "policy" => op[e] \in {"version", "rollback", "status"}
           /\ line[e] \in {"attachment", "update"} => op[e] = "detach"
           /\ line[e] = Joining => op[e] = "detach"
           /\ line[e] = Entered => op[e] = "attach"
           /\ line[e] \in {"insert", "write"} =>
                  op[e] \notin {"version", "rollback", "status", "detach"}
           /\ line[e] = "write" => op[e] # "attach"
           /\ op[e] \in {"version", "rollback", "status"} /\ line[e] # "policy" =>
                  line[e] \in {"authorize", "service", "entries", "target", "append", "commit"}
           /\ op[e] = "detach" =>
                  \/ line[e] \in {"attachment", "authorize", "update", "commit"}
                  \/ line[e] = Joining
<1>1. RequestTypes /\ PlaceOK(e)
  BY DEF AdmInv, RequestOK
<1> QED  BY <1>1, Stops, Zenon DEF Joining, Entered, PlaceOK, Placed

\* No two of those statements are one.
LEMMA LinesDiffer ==
    /\ Joining # Entered
    /\ \A l \in {"idle", "ended", "policy", "attachment", "authorize", "update", "commit", "insert",
                  "write", "service", "entries", "target", "append", "scope", "read", "versions"} :
           l # Joining /\ l # Entered
BY Zenon DEF Joining, Entered

\* Only the edit that acts is to be looked at.
LEMMA HoldFrame ==
    ASSUME HoldInv, NEW e \in Edit, shares' \in [Edit -> SUBSET {Policy}],
           \A x \in Edit \ {e} : Untouched(x), HoldsOK(e)'
    PROVE  HoldInv'
<1>1. ASSUME NEW x \in Edit \ {e} PROVE HoldsOK(x)'
  BY DEF HoldInv, HoldsOK, Untouched
<1> QED  BY <1>1 DEF HoldInv

\* An edit that has not begun holds no row.
LEMMA IdleHolds ==
    ASSUME AdmInv, HoldInv, NEW e \in Edit, line[e] = "idle"
    PROVE  holds[e] = {} /\ shares[e] = {}
<1>1. op[e] = "none" /\ line[e] # Joining /\ line[e] # Entered
  BY WhoLocks, LinesDiffer
<1>2. HoldsOK(e)
  BY DEF HoldInv
<1>3. \A row \in holds[e] : Shared(row)
  BY <1>1, <1>2 DEF HoldsOK
<1> QED  BY <1>1, <1>2, <1>3 DEF HoldsOK, Shared

\* An end gives every row back.
LEMMA FinishHolds ==
    ASSUME AdmInv, HoldInv, NEW e \in Edit, Finish(e) PROVE HoldInv'
<1>1. shares' = [shares EXCEPT ![e] = {}] /\ shares \in [Edit -> SUBSET {Policy}]
  BY DEF Finish, HoldInv
<1>2. \A x \in Edit \ {e} : Untouched(x)
  BY <1>1, FinishTypes DEF Untouched
<1>3. HoldsOK(e)'
  BY <1>1, FinishTypes DEF HoldsOK
<1> QED  BY <1>1, <1>2, <1>3, HoldFrame

\* A statement that takes no row does not lead back to where its rows are locked.
LEMMA ReachHolds ==
    ASSUME AdmInv, HoldInv, NEW e \in Edit, NEW next, Reach(e, next), UNCHANGED <<holds, shares>>,
           \A x \in Edit \ {e} : found'[x] = found[x], HoldsOK(e)'
    PROVE  HoldInv'
<1>1. op' = op /\ input' = input /\ line' = [line EXCEPT ![e] = next]
      /\ line \in [Edit -> Lines]
  BY DEF Reach, asked, AdmInv, RequestTypes
<1>2. \A x \in Edit \ {e} : Untouched(x)
  BY <1>1 DEF Untouched
<1> QED  BY <1>2, HoldFrame DEF HoldInv

\* A statement that takes a row.
LEMMA LockHolds ==
    ASSUME AdmInv, HoldInv, NEW e \in Edit, NEW next, NEW v, NEW row, Lock(e, row, v, next),
           HoldsOK(e)'
    PROVE  HoldInv'
<1>1. /\ op' = op /\ input' = input /\ line' = [line EXCEPT ![e] = next]
      /\ holds' = [holds EXCEPT ![e] = @ \cup {row}] /\ found' = [found EXCEPT ![e] = v]
      /\ shares' = shares
      /\ line \in [Edit -> Lines] /\ holds \in [Edit -> SUBSET Lockable]
      /\ found \in [Edit -> 0..MaxVersion]
  BY DEF Lock, Reach, asked, AdmInv, RequestTypes
<1>2. \A x \in Edit \ {e} : Untouched(x)
  BY <1>1 DEF Untouched
<1> QED  BY <1>1, <1>2, HoldFrame DEF HoldInv

\* What Lock does to the edit that locks.
LEMMA Locked ==
    ASSUME AdmInv, NEW e \in Edit, NEW next, NEW v, NEW row, Lock(e, row, v, next)
    PROVE  /\ op'[e] = op[e] /\ input'[e] = input[e] /\ line'[e] = next /\ found'[e] = v
           /\ holds'[e] = holds[e] \cup {row} /\ shares'[e] = shares[e]
BY DEF Lock, Reach, asked, AdmInv, RequestTypes

\* A new request holds nothing yet.
LEMMA CallHolds ==
    ASSUME AdmInv, HoldInv, NEW e \in Edit, CallEdit(e) PROVE HoldInv'
<1>1. line[e] = "idle" /\ holds' = holds /\ shares' = shares /\ found' = found
  BY DEF CallEdit
<1>2. \A x \in Edit \ {e} : op'[x] = op[x] /\ input'[x] = input[x] /\ line'[x] = line[x]
  BY DEF CallEdit, AdmInv, RequestTypes
<1>3. HoldsOK(e)'
  BY <1>1, IdleHolds DEF HoldsOK
<1> QED  BY <1>1, <1>2, <1>3, HoldFrame DEF Untouched, HoldInv

\* Who takes the policy: an edit of it at its first statement, a detach later.
LEMMA PolicyHolds ==
    ASSUME AdmInv, HoldInv, NEW e \in Edit, LockPolicy(e) \/ LockJoinedPolicy(e)
    PROVE  HoldInv'
<1>1. HoldsOK(e)
  BY DEF HoldInv
<1>2. \/ Throw(e)
      \/ /\ line[e] = "policy" /\ Lock(e, Policy, current, "authorize")
      \/ /\ line[e] = Joining /\ Lock(e, Policy, found[e], "authorize")
  BY Zenon DEF LockPolicy, LockJoinedPolicy, Joining
<1>3. ASSUME NEW v, Lock(e, Policy, v, "authorize"), line[e] = "policy" \/ line[e] = Joining
      PROVE  HoldInv'
  <2>1. op[e] \in {"version", "rollback", "status", "detach"} /\ line[e] # "commit"
    BY <1>3, WhoLocks, LinesDiffer
  <2>2. HoldsOK(e)'
    BY <1>1, <1>3, <2>1, Locked, RowsDiffer, LinesDiffer DEF HoldsOK
  <2> QED  BY <1>3, <2>2, LockHolds
<1>4. ASSUME Throw(e) PROVE HoldInv'
  BY <1>4, FinishHolds DEF Throw
<1> QED  BY <1>2, <1>3, <1>4

\* detachIamPolicy takes its attachment, then, if it is live, the entry of the
\* index.
LEMMA DetachHolds ==
    ASSUME AdmInv, HoldInv, NEW e \in Edit, LockAttachment(e) \/ UpdateAttachment(e)
    PROVE  HoldInv'
<1>1. HoldsOK(e)
  BY DEF HoldInv
<1>2. CASE LockAttachment(e)
  <2>1. line[e] = "attachment" /\ op[e] = "detach"
    BY <1>2, WhoLocks DEF LockAttachment
  <2>2. PICK a \in Attachment : a = input[e].attachment
    BY <2>1 DEF AdmInv, RequestOK, AttachmentOK, DetachOK
  <2>3. PICK v \in {0, 1} : Lock(e, AttachmentRow(a), v, Joining)
    BY <1>2, <2>2, Zenon DEF LockAttachment, AttachmentRow, Joining
  <2>4. HoldsOK(e)'
    BY <1>1, <2>1, <2>2, <2>3, Locked, RowsDiffer, LinesDiffer DEF HoldsOK
  <2> QED  BY <2>3, <2>4, LockHolds
<1>3. CASE UpdateAttachment(e)
  <2>1. line[e] = "update" /\ op[e] = "detach" /\ Lock(e, Live, 1, "commit")
    BY <1>3, WhoLocks DEF UpdateAttachment
  <2>2. HoldsOK(e)'
    BY <1>1, <2>1, Locked, RowsDiffer DEF HoldsOK
  <2> QED  BY <2>1, <2>2, LockHolds
<1> QED  BY <1>2, <1>3

\* An insert takes the entry of its index, and only an attach goes on from there.
LEMMA InsertHolds ==
    ASSUME AdmInv, HoldInv, NEW e \in Edit, InsertRow(e) PROVE HoldInv'
<1>1. HoldsOK(e) /\ line[e] = "insert" /\ op[e] \in Operations \cup {"none"}
  BY DEF HoldInv, InsertRow, AdmInv, RequestTypes
<1>2. op[e] \notin {"version", "rollback", "status", "detach"}
  BY <1>1, WhoLocks
<1>3. /\ op[e] # "none"
      /\ op[e] = "attach" => Key(e) = Live
      /\ op[e] # "attach" => Key(e) = <<op[e]>> \/ Key(e) = <<"entry", input[e].entry>>
  <2>1. op[e] # "none"
    BY <1>1, Stops, Zenon DEF AdmInv, RequestOK
  <2> QED  BY <2>1 DEF Key
<1>4. \/ Throw(e)
      \/ op[e] = "attach" /\ Lock(e, Live, found[e], Entered)
      \/ op[e] # "attach" /\ Lock(e, Key(e), found[e], "commit")
  <2>1. CASE op[e] = "attach"
    BY <1>3, <2>1, Zenon DEF InsertRow, Entered
  <2>2. CASE op[e] # "attach"
    BY <2>2, Zenon DEF InsertRow
  <2> QED  BY <2>1, <2>2
<1>5. ASSUME op[e] = "attach", Lock(e, Live, found[e], Entered) PROVE HoldInv'
  <2>1. HoldsOK(e)'
    BY <1>1, <1>5, Locked, RowsDiffer, LinesDiffer DEF HoldsOK
  <2> QED  BY <1>5, <2>1, LockHolds
<1>6. ASSUME op[e] # "attach", Lock(e, Key(e), found[e], "commit") PROVE HoldInv'
  <2>1. Key(e) # Policy /\ Key(e) # Live /\ \A a \in Attachment : Key(e) # AttachmentRow(a)
    BY <1>1, <1>3, <1>6, RowsDiffer
  <2>2. HoldsOK(e)'
    BY <1>1, <1>2, <1>6, <2>1, Locked DEF HoldsOK
  <2> QED  BY <1>6, <2>2, LockHolds
<1>7. ASSUME Throw(e) PROVE HoldInv'
  BY <1>7, FinishHolds DEF Throw
<1> QED  BY <1>4, <1>5, <1>6, <1>7

\* updateService and setIamCatalogEntryStatus take the one row they change.
LEMMA WriteHolds ==
    ASSUME AdmInv, HoldInv, NEW e \in Edit, WriteRow(e) PROVE HoldInv'
<1>1. HoldsOK(e) /\ line[e] = "write"
  BY DEF HoldInv, WriteRow
<1>2. op[e] \notin {"version", "rollback", "status", "detach", "attach"}
  BY <1>1, WhoLocks
<1>3. PICK row \in {<<"service">>, <<"entry", input[e].entry>>} : Lock(e, row, found[e], "commit")
  BY Zenon DEF WriteRow
<1>4. row # Policy /\ row # Live /\ \A a \in Attachment : row # AttachmentRow(a)
  <2>1. "service" \in Operations
    BY Zenon DEF Operations
  <2> QED  BY <1>3, <2>1, RowsDiffer
<1>5. HoldsOK(e)'
  BY <1>1, <1>2, <1>3, <1>4, Locked DEF HoldsOK
<1> QED  BY <1>3, <1>5, LockHolds

\* The foreign key of an attach shares the policy.
LEMMA ShareHolds ==
    ASSUME AdmInv, HoldInv, NEW e \in Edit, ShareForeignKey(e) PROVE HoldInv'
<1>1. /\ line[e] = Entered /\ shares' = [shares EXCEPT ![e] = @ \cup {Policy}]
      /\ holds' = holds /\ found' = found /\ op' = op /\ input' = input
      /\ line' = [line EXCEPT ![e] = "commit"]
  BY Zenon DEF ShareForeignKey, Reach, asked, Entered
<1>2. line \in [Edit -> Lines] /\ shares \in [Edit -> SUBSET {Policy}] /\ HoldsOK(e)
  BY DEF AdmInv, RequestTypes, HoldInv
<1>3. op[e] = "attach"
  BY <1>1, WhoLocks
<1>4. \A x \in Edit \ {e} : Untouched(x)
  BY <1>1, <1>2 DEF Untouched
<1>5. HoldsOK(e)'
  BY <1>1, <1>2, <1>3 DEF HoldsOK
<1>6. shares' \in [Edit -> SUBSET {Policy}]
  BY <1>1, <1>2
<1> QED  BY <1>4, <1>5, <1>6, HoldFrame

\* Who reads, and what the statement leaves alone.
LEMMA Readers ==
    ASSUME AdmInv, NEW e \in Edit,
           \/ LoadScope(e) \/ ReadActiveService(e) \/ ReadEntries(e) \/ AppendVersion(e)
           \/ ReadNewOwner(e) \/ ReadEntry(e) \/ ReadGroup(e) \/ ReadPolicy(e) \/ ReadTarget(e)
           \/ ReadService(e)
    PROVE  \/ Throw(e)
           \/ /\ line[e] \notin {"idle", "policy", "attachment", "commit", "update", "ended"}
              /\ line[e] # Joining /\ line[e] # Entered
              /\ op[e] # "detach"
              /\ op' = op /\ holds' = holds /\ shares' = shares
              /\ \E next : next # "policy" /\ line' = [line EXCEPT ![e] = next]
              /\ \A x \in Edit \ {e} : input'[x] = input[x] /\ found'[x] = found[x]
<1>1. RequestTypes /\ PlaceOK(e)
  BY DEF AdmInv, RequestOK
<1>2. CASE Throw(e)
  BY <1>2
<1>3. CASE ~Throw(e)
  <2>1. line[e] \in {"scope", "service", "entries", "append", "new owner", "read", "read policy",
                     "target", "read service"}
    BY Zenon DEF LoadScope, ReadActiveService, ReadEntries, AppendVersion, ReadNewOwner,
       ReadEntry, ReadGroup, ReadPolicy, ReadTarget, ReadService
  <2>2. op[e] # "detach"
    BY <1>1, <2>1, Zenon DEF PlaceOK, Placed
  <2>3. /\ line[e] \notin {"idle", "policy", "attachment", "commit", "update", "ended"}
        /\ line[e] # Joining /\ line[e] # Entered
    BY <2>1, Zenon DEF Joining, Entered
  <2>4. CASE \/ LoadScope(e) \/ ReadActiveService(e) \/ ReadEntries(e) \/ AppendVersion(e)
             \/ ReadNewOwner(e) \/ ReadEntry(e) \/ ReadGroup(e)
    <3>1. \E next : next # "policy" /\ To(e, next)
      BY <1>3, <2>4, Zenon DEF LoadScope, ReadActiveService, ReadEntries, AppendVersion,
         ReadNewOwner, ReadEntry, ReadGroup
    <3> QED  BY <2>2, <2>3, <3>1 DEF To, Reach, asked
  <2>5. CASE ReadPolicy(e)
    <3>1. /\ found' = [found EXCEPT ![e] = current] /\ Reach(e, "authorize")
          /\ holds' = holds /\ shares' = shares
      BY <1>3, <2>5, Zenon DEF ReadPolicy
    <3>2. \A x \in Edit \ {e} : found'[x] = found[x]
      BY <1>1, <3>1 DEF RequestTypes
    <3> QED  BY <2>2, <2>3, <3>1, <3>2 DEF Reach, asked
  <2>6. CASE ReadTarget(e)
    <3>1. /\ input' = [input EXCEPT ![e].document = versions[input[e].target].document]
          /\ op' = op /\ holds' = holds /\ shares' = shares /\ found' = found
          /\ line' = [line EXCEPT ![e] = "append"]
      BY <1>3, <2>6 DEF ReadTarget
    <3>2. \A x \in Edit \ {e} : input'[x] = input[x]
      BY <1>1, <3>1 DEF RequestTypes
    <3> QED  BY <2>2, <2>3, <3>1, <3>2
  <2>7. CASE ReadService(e)
    <3>1. /\ op' = op /\ holds' = holds /\ shares' = shares /\ found' = found /\ input' = input
          /\ line' = [line EXCEPT ![e] = "new owner"]
      BY <1>3, <2>7, Zenon DEF ReadService, asked
    <3>2. "new owner" # "policy"
      BY Zenon
    <3> QED  BY <2>2, <2>3, <3>1, <3>2, Zenon
  <2> QED  BY <2>4, <2>5, <2>6, <2>7
<1> QED  BY <1>2, <1>3

\* A statement that reads leaves its edit with the rows it has.
LEMMA ReadHolds ==
    ASSUME AdmInv, HoldInv, NEW e \in Edit,
           \/ LoadScope(e) \/ ReadActiveService(e) \/ ReadEntries(e) \/ AppendVersion(e)
           \/ ReadNewOwner(e) \/ ReadEntry(e) \/ ReadGroup(e) \/ ReadPolicy(e) \/ ReadTarget(e)
           \/ ReadService(e)
    PROVE  HoldInv'
<1>1. CASE Throw(e)
  BY <1>1, FinishHolds DEF Throw
<1>2. CASE ~Throw(e)
  <2>1. /\ line[e] \notin {"idle", "policy", "attachment", "commit", "update", "ended"}
        /\ line[e] # Joining /\ line[e] # Entered /\ op[e] # "detach"
        /\ op' = op /\ holds' = holds /\ shares' = shares
        /\ \A x \in Edit \ {e} : input'[x] = input[x] /\ found'[x] = found[x]
        /\ \E next : next # "policy" /\ line' = [line EXCEPT ![e] = next]
    BY <1>2, Readers
  <2>2. PICK next : next # "policy" /\ line' = [line EXCEPT ![e] = next]
    BY <2>1
  <2>3. line \in [Edit -> Lines] /\ HoldsOK(e)
    BY DEF AdmInv, RequestTypes, HoldInv
  <2>4. \A x \in Edit \ {e} : Untouched(x)
    BY <2>1, <2>2, <2>3 DEF Untouched
  <2>5. line'[e] = next
    BY <2>2, <2>3
  <2>6. HoldsOK(e)'
    BY <2>1, <2>2, <2>3, <2>5 DEF HoldsOK
  <2> QED  BY <2>1, <2>4, <2>6, HoldFrame DEF HoldInv
<1> QED  BY <1>1, <1>2

\* canManage: a detach of an attachment that is not live goes to its commit.
LEMMA AuthorizeHolds ==
    ASSUME AdmInv, HoldInv, NEW e \in Edit, AuthorizeEdit(e) PROVE HoldInv'
<1>1. ASSUME Throw(e) PROVE HoldInv'
  BY <1>1, FinishHolds DEF Throw
<1>2. ASSUME To(e, Allowed(e)), line[e] = "authorize" PROVE HoldInv'
  <2>1. /\ Reach(e, Allowed(e)) /\ found' = found /\ holds' = holds /\ shares' = shares
        /\ op' = op /\ input' = input /\ line'[e] = Allowed(e)
    BY <1>2 DEF To, Reach, asked, AdmInv, RequestTypes
  <2>2. Allowed(e) # "policy"
    BY Zenon DEF Allowed
  <2>3. op[e] = "detach" => Allowed(e) = "update" \/ Allowed(e) = "commit"
    BY Zenon DEF Allowed
  <2>4. HoldsOK(e)
    BY DEF HoldInv
  <2>5. HoldsOK(e)'
    BY <1>2, <2>1, <2>2, <2>3, <2>4, LinesDiffer DEF HoldsOK
  <2> QED  BY <2>1, <2>5, ReachHolds
<1> QED  BY <1>1, <1>2 DEF AuthorizeEdit

\* A commit, an answer and a lost connection end the edit.
LEMMA EndHolds ==
    ASSUME AdmInv, HoldInv, NEW e \in Edit,
           \/ CommitPolicy(e) \/ CommitVersion(e) \/ CommitStatusOfPolicy(e)
           \/ CommitAttach(e) \/ CommitDetach(e) \/ CommitGroup(e)
           \/ CommitService(e) \/ CommitEntry(e) \/ AnswerHistory(e) \/ LoseEdit(e)
    PROVE  HoldInv'
<1>1. Finish(e)
  BY Zenon DEF CommitPolicy, CommitVersion, CommitStatusOfPolicy, CommitAttach, CommitDetach,
     CommitGroup, CommitService, CommitEntry, AnswerHistory, LoseEdit, Throw
<1> QED  BY <1>1, FinishHolds

\* Every statement keeps the rows to the edits that have come past their locks.
LEMMA HoldNextKeeps ==
    AdmInv /\ HoldInv /\ [NextAdministration]_varsAdministration => HoldInv'
<1> SUFFICES ASSUME AdmInv, HoldInv, [NextAdministration]_varsAdministration PROVE HoldInv'
  OBVIOUS
<1>1. CASE UNCHANGED varsAdministration
  BY <1>1 DEF varsAdministration, asked, HoldInv, HoldsOK
<1> QED  BY <1>1, CallHolds, PolicyHolds, DetachHolds, InsertHolds, WriteHolds, ShareHolds,
            ReadHolds, AuthorizeHolds, EndHolds DEF NextAdministration, Statement

\* Who holds the policy waits for nothing: a detach of a live attachment is the
\* only one to go on to another row, the index of live attachments, and no attach
\* is in that index while an attachment is live.
LEMMA PolicyFirst ==
    ASSUME AdmInv, HoldInv, NEW x \in Edit, Policy \in holds[x] \cup shares[x],
           NEW y \in Edit
    PROVE  ~WaitsFor(x, y)
<1>0. /\ HoldsOK(x) /\ RequestOK(x) /\ HoldsOK(y) /\ RequestOK(y)
      /\ shares \in [Edit -> SUBSET {Policy}]
  BY DEF HoldInv, AdmInv
<1>1. CASE line[x] = "update"
  <2>1. WantedRows(x) = {Live}
    BY <1>1, LinesDiffer DEF WantedRows
  <2>2. op[x] = "detach"
    BY <1>1, WhoLocks
  <2>3. LET a == input[x].attachment IN
          a \in Attachment /\ attachment[a] = "live" /\ AttachmentRow(a) \in holds[x]
    BY <1>0, <1>1, <2>2 DEF RequestOK, AttachmentOK, DetachOK, AttachmentRow
  <2>4. ASSUME y # x PROVE Live \notin holds[y]
    <3>1. CASE op[y] = "attach" /\ line[y] \in {Entered, "commit"}
      BY <1>0, <2>3, <3>1, Zenon DEF RequestOK, AttachmentOK, AttachOK, Entered
    <3>2. CASE op[y] = "detach" /\ line[y] = "commit" /\ found[y] = 1
      <4>1. LET a == input[y].attachment IN
              a \in Attachment /\ attachment[a] = "live" /\ AttachmentRow(a) \in holds[y]
        BY <1>0, <3>2 DEF RequestOK, AttachmentOK, DetachOK, AttachmentRow
      <4>2. input[y].attachment = input[x].attachment
        BY <2>3, <4>1 DEF AdmInv, RowsOK, OneLiveAttachment
      <4>3. holds[x] \cap holds[y] = {}
        BY <2>4 DEF AdmInv, Apart
      <4> QED  BY <2>3, <4>1, <4>2, <4>3
    <3> QED  BY <1>0, <3>1, <3>2 DEF HoldsOK
  <2>5. Live \notin shares[y]
    BY <1>0 DEF Policy, Live
  <2> QED  BY <2>1, <2>4, <2>5 DEF WaitsFor
<1>2. CASE line[x] # "update"
  <2>1. \/ op[x] \in {"version", "rollback", "status"} /\ line[x] # "policy"
        \/ op[x] = "detach" /\ line[x] \in {"authorize", "commit"}
        \/ op[x] = "attach" /\ line[x] = "commit"
    BY <1>0, <1>2 DEF HoldsOK
  <2>2. line[x] \in {"authorize", "service", "entries", "target", "append", "commit"}
    BY <2>1, WhoLocks
  <2>3. WantedRows(x) = {}
    BY <2>2, LinesDiffer DEF WantedRows
  <2> QED  BY <2>3 DEF WaitsFor
<1> QED  BY <1>1, <1>2

\* Waits go one way: to the policy last, to the index of live attachments before
\* it, and to the row of an attachment before both.
LEMMA WaitsEnd ==
    ASSUME AdmInv, HoldInv, NEW S \in SUBSET Edit, S # {}
    PROVE  \E e \in S : \A x \in S : ~WaitsFor(e, x)
<1> SUFFICES ASSUME \A e \in S : \E x \in S : WaitsFor(e, x) PROVE FALSE
  OBVIOUS
<1>1. ASSUME NEW x \in S PROVE Policy \notin holds[x] \cup shares[x]
  BY PolicyFirst
<1>2. ASSUME NEW e \in S PROVE Policy \notin WantedRows(e)
  <2>1. SUFFICES ASSUME Policy \in WantedRows(e) PROVE FALSE
    OBVIOUS
  <2>2. line[e] \in {"policy", Joining, Entered}
    <3>1. ASSUME line[e] = "insert" PROVE Key(e) # Policy
      <4>1. op[e] # "attach" => Key(e) = <<op[e]>> \/ Key(e) = <<"entry", input[e].entry>>
        BY DEF Key
      <4>2. op[e] \in Operations
        BY <3>1, Stops, Zenon DEF AdmInv, RequestOK, RequestTypes
      <4>3. op[e] = "attach" => Key(e) = Live
        BY DEF Key
      <4> QED  BY <4>1, <4>2, <4>3, RowsDiffer
    <3>2. ASSUME line[e] = "attachment" PROVE AttachmentRow(input[e].attachment) # Policy
      <4>1. input[e].attachment \in Attachment
        BY <3>2, WhoLocks DEF AdmInv, RequestOK, AttachmentOK, DetachOK
      <4> QED  BY <4>1, RowsDiffer
    <3>3. <<"service">> # Policy /\ <<"entry", input[e].entry>> # Policy /\ Live # Policy
      <4>1. "service" \in Operations
        BY Zenon DEF Operations
      <4> QED  BY <4>1, RowsDiffer
    <3> QED  BY <2>1, <3>1, <3>2, <3>3 DEF WantedRows
  <2>3. WantedRows(e) = {Policy}
    BY <2>2, LinesDiffer DEF WantedRows
  <2> QED  BY <1>1, <2>3 DEF WaitsFor
<1>3. ASSUME NEW e \in S
      PROVE  /\ line[e] \notin {"policy", Joining, Entered}
             /\ WantedRows(e) # {}
             /\ \E x \in S : WantedRows(e) \cap holds[x] # {}
  <2>1. line[e] \notin {"policy", Joining, Entered}
    <3>1. ASSUME line[e] \in {"policy", Joining, Entered} PROVE WantedRows(e) = {Policy}
      BY <3>1, LinesDiffer DEF WantedRows
    <3> QED  BY <1>2, <3>1
  <2>2. PICK x \in S : WaitsFor(e, x)
    OBVIOUS
  <2>3. shares[x] = {}
    BY <1>1 DEF HoldInv
  <2> QED  BY <2>1, <2>2, <2>3 DEF WaitsFor
<1>4. ASSUME NEW x \in S PROVE line[x] # "commit" /\ Live \notin holds[x]
  <2>1. line[x] # "commit"
    BY <1>3, LinesDiffer DEF WantedRows
  <2> QED  BY <1>3, <2>1 DEF HoldInv, HoldsOK
<1>5. PICK e \in S : TRUE
  OBVIOUS
<1>6. PICK x \in S : WantedRows(e) \cap holds[x] # {}
  BY <1>3
<1>7. PICK row \in WantedRows(e) : row \in holds[x]
  BY <1>6
<1>8. PICK a \in Attachment : row = AttachmentRow(a)
  <2>1. Shared(row)
    BY <1>4, <1>7 DEF HoldInv, HoldsOK
  <2>2. row # Policy /\ row # Live
    BY <1>1, <1>4, <1>7
  <2> QED  BY <2>1, <2>2 DEF Shared
<1>9. op[x] = "detach" /\ line[x] # "attachment"
  BY <1>7, <1>8 DEF HoldInv, HoldsOK
<1>10. line[x] = "update"
  <2>1. line[x] \in {"attachment", "authorize", "update", "commit"} \/ line[x] = Joining
    BY <1>9, WhoLocks
  <2>2. line[x] = "authorize" => WantedRows(x) = {}
    BY LinesDiffer DEF WantedRows
  <2> QED  BY <1>3, <1>4, <1>9, <2>1, <2>2
<1>11. WantedRows(x) = {Live}
  BY <1>10, LinesDiffer DEF WantedRows
<1> QED  BY <1>3, <1>4, <1>11

\* The edits of a policy, its attachments, the groups and the catalogue never
\* wait for one another in a circle, however many meet: of those that are under
\* way, in any set of them, one has every row that its next statement locks.
\* attachIamPolicy enters the index of live attachments before it shares the
\* policy, and detachIamPolicy locks the policy before it changes that entry; the
\* two never meet, for an attach enters the index only while nothing is live.
THEOREM EditsNeverDeadlock ==
    SpecAdministration =>
        [](\A S \in SUBSET Edit : S # {} => \E e \in S : \A x \in S : ~WaitsFor(e, x))
<1>1. InitAdministration => HoldInv
  BY DEF InitAdministration, HoldInv, HoldsOK
<1>2. AdmInv /\ HoldInv =>
          \A S \in SUBSET Edit : S # {} => \E e \in S : \A x \in S : ~WaitsFor(e, x)
  BY WaitsEnd
<1> QED  BY <1>1, <1>2, HoldNextKeeps, AdmInvInitially, NextKeeps, PTL DEF SpecAdministration

-----------------------------------------------------------------------------
(* Grants *)

Writes(t) == place[t] = "commit"
WritesCurrent(t) == Writes(t) /\ kind[t] # "revoke"

\* Only a transaction about to commit has written, and what it was called for.
WritingIsRequested ==
    \A t \in Tx : writing[t] = IF Writes(t) THEN grant[t] ELSE NoGrant

\* A request under way has its grant and its actor, and only creations insert.
RequestsAreWhole ==
    \A t \in Tx :
        /\ place[t] \notin {"idle", "ended"} =>
              kind[t] \in Kinds /\ grant[t] \in Grant /\ actor[t] \in Actor
        /\ place[t] \in {"existing", "insert"} => kind[t] = "create"

\* Nobody else can name the grant of a creation before it is committed.
NewIsUnknown ==
    \A t \in Tx : kind[t] = "create" /\ place[t] # "ended" =>
        /\ grant[t] \in Grant => status[grant[t]] = "none"
        /\ \A x \in Tx \ {t} : grant[x] # grant[t]

OneWriterPerGrant ==
    \A t, x \in Tx : Writes(t) /\ Writes(x) /\ grant[t] = grant[x] => t = x

WriterIsAlone ==
    \A t \in Tx : WritesCurrent(t) =>
        /\ status[grant[t]] # "revoked"
        /\ Current \subseteq {grant[t]}
        /\ \A x \in Tx : WritesCurrent(x) => x = t

GrantInv ==
    /\ GrantTypes
    /\ RevokedIsSigned
    /\ WritingIsRequested
    /\ RequestsAreWhole
    /\ NewIsUnknown
    /\ OneWriterPerGrant
    /\ WriterIsAlone
    /\ OneCurrentGrant

\* Nothing is granted at first.
LEMMA InitEstablishes == Init => GrantInv
<1> SUFFICES ASSUME Init PROVE GrantInv
  OBVIOUS
<1> USE DEF Init
<1>1. GrantTypes
  BY DEF GrantTypes, Statuses, Kinds, Places, Outcomes
<1>2. RevokedIsSigned
  BY DEF RevokedIsSigned
<1>3. WritingIsRequested /\ RequestsAreWhole /\ NewIsUnknown /\ OneWriterPerGrant
  BY DEF WritingIsRequested, RequestsAreWhole, NewIsUnknown, OneWriterPerGrant, Writes
<1>4. WriterIsAlone /\ OneCurrentGrant
  BY DEF WriterIsAlone, WritesCurrent, Writes, OneCurrentGrant, Current
<1> QED  BY <1>1, <1>2, <1>3, <1>4 DEF GrantInv

\* A step of t that moves on or gives up and leaves the table alone.
LEMMA GrantQuietKeeps ==
    ASSUME GrantInv, NEW t \in Tx, UNCHANGED <<table, request>>,
           loaded' \in [Tx -> Statuses],
           managers' \subseteq Actor, eligible' \in BOOLEAN, available' \in BOOLEAN,
           place[t] \notin {"idle", "ended"},
           NEW next \in Places \ {"commit", "idle"},
           next \in {"existing", "insert"} => kind[t] = "create",
           NEW how \in Outcomes,
           place' = [place EXCEPT ![t] = next],
           writing' = [writing EXCEPT ![t] = NoGrant] \/ (writing' = writing /\ ~Writes(t)),
           outcome' = [outcome EXCEPT ![t] = how] \/ outcome' = outcome
    PROVE  GrantInv'
<1> USE DEF GrantInv, table, request
<1>1. GrantTypes'
  BY DEF GrantTypes
<1>2. RevokedIsSigned' /\ OneCurrentGrant'
  BY DEF RevokedIsSigned, OneCurrentGrant, Current
<1>3. Current' = Current
  BY DEF Current
<1>4. \A x \in Tx : Writes(x)' => Writes(x)
  BY DEF Writes, GrantTypes
<1>5. ~Writes(t)' /\ \A x \in Tx \ {t} : Writes(x)' = Writes(x)
  BY DEF Writes, GrantTypes
<1>6. WritingIsRequested'
  BY <1>5 DEF WritingIsRequested, GrantTypes
<1>7. RequestsAreWhole'
  BY DEF RequestsAreWhole, GrantTypes
<1>8. NewIsUnknown'
  BY DEF NewIsUnknown, GrantTypes
<1>9. OneWriterPerGrant'
  BY <1>4 DEF OneWriterPerGrant
<1>10. WriterIsAlone'
  BY <1>3, <1>4 DEF WriterIsAlone, WritesCurrent
<1> QED  BY <1>1, <1>2, <1>6, <1>7, <1>8, <1>9, <1>10

\* A request is turned down or rolled back.
LEMMA AbortKeeps ==
    ASSUME GrantInv, NEW t \in Tx, place[t] \notin {"idle", "ended"},
           NEW how \in Outcomes, Abort(t, how), UNCHANGED <<world, request, loaded>>
    PROVE  GrantInv'
<1>1. /\ loaded' \in [Tx -> Statuses] /\ managers' \subseteq Actor
      /\ eligible' \in BOOLEAN /\ available' \in BOOLEAN
  BY DEF world, GrantInv, GrantTypes
<1> QED  BY <1>1, GrantQuietKeeps DEF Abort, End, Places, table, request

\* A statement that reads and goes on.
LEMMA GrantReadKeeps ==
    ASSUME GrantInv, NEW t \in Tx, place[t] \notin {"idle", "ended", "commit"},
           NEW next \in Places \ {"commit", "idle"},
           next \in {"existing", "insert"} => kind[t] = "create",
           Goto(t, next), UNCHANGED <<world, request>>, loaded' \in [Tx -> Statuses]
    PROVE  GrantInv'
<1>1. managers' \subseteq Actor /\ eligible' \in BOOLEAN /\ available' \in BOOLEAN
  BY DEF world, GrantInv, GrantTypes
<1>2. UNCHANGED <<table, request>> /\ ~Writes(t) /\ writing' = writing /\ outcome' = outcome
  BY DEF Goto, Writes
<1>3. \E how \in Outcomes : TRUE
  BY DEF Outcomes
<1> QED  BY <1>1, <1>2, <1>3, GrantQuietKeeps DEF Goto

\* A statement that writes the grant of t, once nobody else is writing it and
\* nobody writes or has another current grant, if t does not revoke.
LEMMA WriteKeeps ==
    ASSUME GrantInv, NEW t \in Tx, UNCHANGED <<world, request, loaded>>,
           place[t] \in {"insert", "write"},
           Settled(t, {grant[t]}), Write(t),
           kind[t] # "revoke" =>
              /\ status[grant[t]] # "revoked"
              /\ IndexSettled(t, grant[t])
              /\ IndexAllows(grant[t])
    PROVE  GrantInv'
<1> USE DEF GrantInv, table, world, request, Write
<1>1. GrantTypes'
  BY DEF GrantTypes, Places
<1>2. RevokedIsSigned' /\ OneCurrentGrant'
  BY DEF RevokedIsSigned, OneCurrentGrant, Current
<1>3. Current' = Current /\ grant[t] \in Grant
  BY DEF Current, RequestsAreWhole
<1>4. \A x \in Tx : Writes(x)' <=> Writes(x) \/ x = t
  BY DEF Writes, GrantTypes
<1>5. WritingIsRequested'
  BY <1>4 DEF WritingIsRequested, GrantTypes
<1>6. RequestsAreWhole' /\ NewIsUnknown'
  BY DEF RequestsAreWhole, NewIsUnknown, GrantTypes
<1>7. OneWriterPerGrant'
  BY <1>4 DEF OneWriterPerGrant, Settled, WritingIsRequested
<1>8. ASSUME NEW x \in Tx \ {t}, WritesCurrent(x), kind[t] # "revoke"
      PROVE  FALSE
  <2>1. grant[x] \in Grant /\ writing[x] = grant[x] /\ status[grant[x]] # "revoked"
    BY <1>8 DEF WritesCurrent, Writes, RequestsAreWhole, WritingIsRequested, WriterIsAlone
  <2>2. grant[x] # grant[t]
    BY <2>1, <1>8 DEF Settled
  <2> QED  BY <2>1, <2>2, <1>8 DEF IndexSettled, Settled
<1>9. WriterIsAlone'
  <2>1. \A x \in Tx : WritesCurrent(x)' <=> WritesCurrent(x) \/ (x = t /\ kind[t] # "revoke")
    BY <1>4 DEF WritesCurrent
  <2>2. kind[t] # "revoke" => Current \subseteq {grant[t]}
    BY DEF IndexAllows
  <2> QED  BY <1>3, <1>8, <2>1, <2>2 DEF WriterIsAlone
<1> QED  BY <1>1, <1>2, <1>5, <1>6, <1>7, <1>9

\* A handler is called.
LEMMA CallKeeps ==
    ASSUME GrantInv, NEW t \in Tx, Call(t)
    PROVE  GrantInv'
<1> USE DEF GrantInv, table, world
<1>1. PICK k \in Kinds, a \in Actor, g \in Grant :
         /\ place[t] = "idle"
         /\ IF k = "create" THEN status[g] = "none" /\ \A x \in Tx : grant[x] # g
            ELSE status[g] # "none"
         /\ kind' = [kind EXCEPT ![t] = k]
         /\ actor' = [actor EXCEPT ![t] = a]
         /\ grant' = [grant EXCEPT ![t] = g]
         /\ Goto(t, IF k = "create" THEN "authorize" ELSE "load")
         /\ UNCHANGED <<world, loaded>>
  BY DEF Call
<1> USE <1>1 DEF Goto
<1>2. GrantTypes'
  BY DEF GrantTypes, Places
<1>3. RevokedIsSigned' /\ OneCurrentGrant'
  BY DEF RevokedIsSigned, OneCurrentGrant, Current
<1>4. Current' = Current
  BY DEF Current
<1>5. /\ ~Writes(t) /\ \A x \in Tx : Writes(x)' = Writes(x)
      /\ \A x \in Tx \ {t} : grant'[x] = grant[x] /\ kind'[x] = kind[x]
  BY DEF Writes, GrantTypes
<1>6. WritingIsRequested' /\ OneWriterPerGrant'
  BY <1>5 DEF WritingIsRequested, OneWriterPerGrant, GrantTypes
<1>7. RequestsAreWhole'
  BY DEF RequestsAreWhole, GrantTypes
<1>8. NewIsUnknown'
  BY DEF NewIsUnknown, GrantTypes
<1>9. WriterIsAlone'
  BY <1>4, <1>5 DEF WriterIsAlone, WritesCurrent
<1> QED  BY <1>2, <1>3, <1>6, <1>7, <1>8, <1>9

\* A commit of a creation or a change of status.
LEMMA CommitCurrentKeeps ==
    ASSUME GrantInv, NEW t \in Tx, WritesCurrent(t),
           NEW s \in {"active", "inactive"},
           status' = [status EXCEPT ![grant[t]] = s],
           UNCHANGED revokedBy, End(t, "success"),
           UNCHANGED <<world, request, loaded>>
    PROVE  GrantInv'
<1> USE DEF GrantInv, world, request, End
<1>1. GrantTypes'
  BY DEF GrantTypes, Places, Outcomes, Statuses
<1>2. grant[t] \in Grant /\ status[grant[t]] # "revoked"
  BY DEF WritesCurrent, Writes, RequestsAreWhole, WriterIsAlone
<1>3. RevokedIsSigned'
  BY <1>2 DEF RevokedIsSigned, GrantTypes
<1>4. Current' \subseteq {grant[t]}
  BY <1>2 DEF Current, WriterIsAlone, GrantTypes
<1>5. ~Writes(t)' /\ \A x \in Tx \ {t} : Writes(x)' = Writes(x)
  BY DEF Writes, GrantTypes
<1>6. WritingIsRequested' /\ OneWriterPerGrant'
  BY <1>5 DEF WritingIsRequested, OneWriterPerGrant, GrantTypes
<1>7. RequestsAreWhole'
  BY DEF RequestsAreWhole, GrantTypes
<1>8. NewIsUnknown'
  BY <1>2 DEF NewIsUnknown, GrantTypes
<1>9. WriterIsAlone'
  BY <1>5 DEF WriterIsAlone, WritesCurrent
<1> QED  BY <1>1, <1>3, <1>4, <1>6, <1>7, <1>8, <1>9 DEF OneCurrentGrant

\* A commit of a revocation.
LEMMA CommitRevokedKeeps ==
    ASSUME GrantInv, NEW t \in Tx, CommitRevoked(t)
    PROVE  GrantInv'
<1> USE DEF GrantInv, world, request, End, CommitRevoked
<1>1. GrantTypes'
  BY DEF GrantTypes, Places, Outcomes, Statuses, RequestsAreWhole
<1>2. grant[t] \in Grant /\ actor[t] \in Actor
  BY DEF RequestsAreWhole
<1>3. RevokedIsSigned'
  BY <1>2, NoActorAssumption DEF RevokedIsSigned, GrantTypes
<1>4. Current' = Current \ {grant[t]}
  BY <1>2 DEF Current, GrantTypes
<1>5. ~Writes(t)' /\ \A x \in Tx \ {t} : Writes(x)' = Writes(x)
  BY DEF Writes, GrantTypes
<1>6. WritingIsRequested' /\ OneWriterPerGrant'
  BY <1>5 DEF WritingIsRequested, OneWriterPerGrant, GrantTypes
<1>7. RequestsAreWhole'
  BY DEF RequestsAreWhole, GrantTypes
<1>8. NewIsUnknown'
  BY <1>2 DEF NewIsUnknown, GrantTypes
<1>9. WriterIsAlone'
  <2>1. ASSUME NEW x \in Tx, WritesCurrent(x)' PROVE status'[grant[x]] # "revoked"
    <3>1. x # t /\ WritesCurrent(x) /\ grant[x] # grant[t]
      BY <2>1, <1>5 DEF WritesCurrent, OneWriterPerGrant, Writes
    <3> QED  BY <3>1 DEF WriterIsAlone, GrantTypes
  <2> QED  BY <1>4, <1>5, <2>1 DEF WriterIsAlone, WritesCurrent
<1>10. OneCurrentGrant'
  BY <1>4 DEF OneCurrentGrant
<1> QED  BY <1>1, <1>3, <1>6, <1>7, <1>8, <1>9, <1>10

-----------------------------------------------------------------------------
(* Grants: every reachable state *)

\* One step per statement and per end of a request.
LEMMA GrantNextKeeps == GrantInv /\ [Next]_vars => GrantInv'
<1> SUFFICES ASSUME GrantInv, [Next]_vars
             PROVE  GrantInv'
  OBVIOUS
<1>1. CASE UNCHANGED vars
  BY <1>1 DEF vars, table, world, request, GrantInv, GrantTypes, RevokedIsSigned,
     WritingIsRequested, RequestsAreWhole, NewIsUnknown, OneWriterPerGrant,
     WriterIsAlone, WritesCurrent, Writes, OneCurrentGrant, Current
<1>2. CASE WorldChanges
  BY <1>2 DEF WorldChanges, table, request, GrantInv, GrantTypes, RevokedIsSigned,
     WritingIsRequested, RequestsAreWhole, NewIsUnknown, OneWriterPerGrant,
     WriterIsAlone, WritesCurrent, Writes, OneCurrentGrant, Current
<1>3. ASSUME NEW t \in Tx, Step(t)
      PROVE  GrantInv'
  <2> USE DEF GrantInv
  <2>1. CASE Call(t)
    BY <2>1, CallKeeps
  <2>2. CASE LoadGrant(t)
    <3>1. loaded' \in [Tx -> Statuses]
      BY <2>2 DEF LoadGrant, GrantTypes, RequestsAreWhole
    <3> QED  BY <2>2, <3>1, GrantReadKeeps DEF LoadGrant, Places
  <2>3. CASE Authorize(t)
    <3>1. /\ place[t] = "authorize" /\ UNCHANGED <<world, request, loaded>>
          /\ loaded' \in [Tx -> Statuses]
      BY <2>3 DEF Authorize, GrantTypes
    <3>2. CASE kind[t] = "create" /\ Goto(t, "existing")
      BY <3>1, <3>2, GrantReadKeeps DEF Places
    <3>3. CASE Goto(t, "write")
      BY <3>1, <3>3, GrantReadKeeps DEF Places
    <3>4. CASE \E how \in {"denied", "success", "missing"} : Abort(t, how)
      BY <3>1, <3>4, AbortKeeps DEF Outcomes
    <3> QED  BY <2>3, <3>2, <3>3, <3>4 DEF Authorize
  <2>4. CASE FindExisting(t)
    <3>1. /\ place[t] = "existing" /\ kind[t] = "create"
          /\ UNCHANGED <<world, request, loaded>> /\ loaded' \in [Tx -> Statuses]
      BY <2>4 DEF FindExisting, RequestsAreWhole, GrantTypes
    <3>2. CASE Goto(t, "insert")
      BY <3>1, <3>2, GrantReadKeeps DEF Places
    <3>3. CASE Abort(t, "conflict")
      BY <3>1, <3>3, AbortKeeps DEF Outcomes
    <3> QED  BY <2>4, <3>2, <3>3 DEF FindExisting
  <2>5. CASE Insert(t)
    <3>1. CASE Abort(t, "conflict")
      BY <2>5, <3>1, AbortKeeps DEF Insert, Outcomes
    <3>2. CASE IndexAllows(grant[t]) /\ Write(t)
      <4>1. kind[t] = "create" /\ grant[t] \in Grant
        BY <2>5 DEF Insert, RequestsAreWhole
      <4>2. status[grant[t]] = "none"
        BY <2>5, <4>1 DEF Insert, NewIsUnknown
      <4>3. Settled(t, {grant[t]})
        BY <2>5, <4>1, NoGrantAssumption
           DEF Insert, NewIsUnknown, Settled, WritingIsRequested
      <4> QED
        BY <2>5, <3>2, <4>2, <4>3, WriteKeeps DEF Insert
    <3> QED  BY <2>5, <3>1, <3>2 DEF Insert
  <2>6. CASE UpdateStatus(t)
    <3>1. CASE Abort(t, "error")
      BY <2>6, <3>1, AbortKeeps DEF UpdateStatus, Outcomes
    <3>2. CASE Write(t) /\ IndexAllows(grant[t]) /\ revokedBy[grant[t]] = NoActor
      <4>1. status[grant[t]] # "revoked"
        BY <2>6, <3>2 DEF UpdateStatus, RequestsAreWhole, RevokedIsSigned
      <4> QED
        BY <2>6, <3>2, <4>1, WriteKeeps DEF UpdateStatus
    <3> QED  BY <2>6, <3>1, <3>2 DEF UpdateStatus, CheckAllows
  <2>7. CASE UpdateRevoked(t)
    BY <2>7, WriteKeeps DEF UpdateRevoked
  <2>8. CASE CommitCreate(t)
    BY <2>8, CommitCurrentKeeps DEF CommitCreate, WritesCurrent, Writes
  <2>9. CASE CommitStatus(t)
    BY <2>9, CommitCurrentKeeps DEF CommitStatus, WritesCurrent, Writes
  <2>10. CASE CommitRevoked(t)
    BY <2>10, CommitRevokedKeeps
  <2>11. CASE Rollback(t)
    BY <2>11, AbortKeeps DEF Rollback, Outcomes
  <2> QED
    BY <1>3, <2>1, <2>2, <2>3, <2>4, <2>5, <2>6, <2>7, <2>8, <2>9, <2>10, <2>11 DEF Step
<1> QED  BY <1>1, <1>2, <1>3 DEF Next

\* The inductive invariant holds in every reachable state.
THEOREM GrantInvariant == Spec => []GrantInv
<1> QED  BY InitEstablishes, GrantNextKeeps, PTL DEF Spec

\* The table and the requests keep their types, and a grant is signed by who
\* revoked it exactly when it is revoked.
THEOREM TypeCorrect == Spec => []TypeOK
<1>1. GrantInv => TypeOK
  BY DEF GrantInv, TypeOK
<1> QED  BY <1>1, GrantInvariant, PTL

\* At most one grant of an organization, service and user is current.
THEOREM CurrentIsUnique == Spec => []OneCurrentGrant
<1>1. GrantInv => OneCurrentGrant
  BY DEF GrantInv
<1> QED  BY <1>1, GrantInvariant, PTL

\* No step brings a revoked grant back.
THEOREM RevocationHolds == Spec => RevocationIsTerminal
<1>1. GrantInv /\ [Next]_vars =>
         [\A g \in Grant : status[g] = "revoked" => status'[g] = "revoked"]_vars
  <2> SUFFICES ASSUME GrantInv, Next, NEW g \in Grant, status[g] = "revoked"
               PROVE  status'[g] = "revoked"
    OBVIOUS
  <2>1. CASE UNCHANGED status
    BY <2>1
  <2>2. CASE \E t \in Tx : CommitCreate(t) \/ CommitStatus(t)
    BY <2>2 DEF CommitCreate, CommitStatus, GrantInv, GrantTypes, WriterIsAlone,
       WritesCurrent, Writes
  <2>3. CASE \E t \in Tx : CommitRevoked(t)
    BY <2>3 DEF CommitRevoked, GrantInv, GrantTypes
  <2> QED
    BY <2>1, <2>2, <2>3 DEF Next, Step, WorldChanges, Call, LoadGrant, Authorize,
       FindExisting, Insert, UpdateStatus, UpdateRevoked, Rollback, Write, Abort,
       Goto, table
<1> QED  BY <1>1, GrantInvariant, PTL DEF Spec, RevocationIsTerminal
=============================================================================
