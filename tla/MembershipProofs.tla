-------------------------- MODULE MembershipProofs --------------------------
(***************************************************************************)
(* Proofs about Membership, for any identities, invitations and requests.  *)
(*                                                                         *)
(* The argument: what a request has seen of a row stays true until it      *)
(* commits, because it holds that row, or the organization, and no two     *)
(* requests hold the same (RequestOK); only a deletion does not take the   *)
(* organization, and after one there is an identity that is gone.          *)
(* And nobody waits in a circle: whoever waits for a row holds only rows   *)
(* of lower levels than it (HeldFits), so one who holds the highest row    *)
(* that is waited for finds the next one free.                             *)
(***************************************************************************)
EXTENDS Membership, FiniteSetTheorems, TLAPS

Lockable == User \cup Mail \cup Invitation \cup {Organization} \cup {Row(u) : u \in User}
Inputs == Memberships \cup Letters \cup {Outsider}

TableTypes ==
    /\ mail \in [User -> Mail \cup {Unborn, Gone}]
    /\ member \in [User -> Memberships \cup {Outsider}]
    /\ platform \subseteq User
    /\ invitation \in [Invitation -> Letters]

RequestTypes ==
    /\ kind \in [Tx -> {"none", "update", "create", "cancel", "accept", "delete"}]
    /\ actor \in [Tx -> User \cup {NoUser}]
    /\ subject \in [Tx -> User \cup {NoUser}]
    /\ letter \in [Tx -> Invitation]
    /\ input \in [Tx -> Inputs]
    /\ place \in [Tx -> Places]
    /\ locks \in [Tx -> SUBSET Lockable]

\* What each request holds and has seen, statement by statement.
UpdateOK(t) ==
    /\ place[t] \in {"organization", "authorize", "member", "count", "commit"}
    /\ actor[t] \in User /\ subject[t] \in User /\ input[t] \in Memberships
    /\ place[t] # "organization" => Organization \in locks[t]
    /\ place[t] \in {"member", "count", "commit"} =>
            Manages(actor[t]) \/ mail[actor[t]] = Gone
    /\ place[t] \in {"count", "commit"} =>
            Row(subject[t]) \in locks[t] /\ member[subject[t]] # Outsider

CreateOK(t) ==
    /\ place[t] \in {"authorize", "insert", "commit"}
    /\ input[t] \in Letters
    /\ invitation[letter[t]].status = "none"

CancelOK(t) ==
    /\ place[t] \in {"pending", "authorize", "commit"}
    /\ place[t] # "pending" =>
            letter[t] \in locks[t] /\ invitation[letter[t]].status = "pending"

AcceptOK(t) ==
    /\ place[t] \in {"token", "identity", "new", "join", "commit"}
    /\ place[t] # "token" =>
            letter[t] \in locks[t] /\ invitation[letter[t]].status = "pending"
    /\ place[t] \in {"join", "commit"} =>
            /\ subject[t] \in User /\ subject[t] \in locks[t]
            /\ mail[subject[t]] \in {Unborn, invitation[letter[t]].mail}
    /\ place[t] = "commit" => member[subject[t]] = Outsider

DeleteOK(t) ==
    /\ place[t] \in {"user", "memberships", "commit"}
    /\ subject[t] \in User
    /\ place[t] # "user" => subject[t] \in locks[t]
    /\ place[t] = "commit" => Row(subject[t]) \in locks[t]

RequestOK(t) ==
    /\ kind[t] = "none" => place[t] \in {"idle", "ended"}
    /\ kind[t] = "update" => UpdateOK(t)
    /\ kind[t] = "create" => CreateOK(t)
    /\ kind[t] = "cancel" => CancelOK(t)
    /\ kind[t] = "accept" => AcceptOK(t)
    /\ kind[t] = "delete" => DeleteOK(t)

\* No two requests hold the same row or create the same invitation.
Apart(t, x) ==
    /\ locks[t] \cap locks[x] = {}
    /\ kind[t] = "create" /\ kind[x] = "create" => letter[t] # letter[x]

MemInv ==
    /\ TableTypes
    /\ RequestTypes
    /\ DeletedIsNobodysMember
    /\ \A t \in Tx : RequestOK(t)
    /\ \A t, x \in Tx : t # x => Apart(t, x)

\* A request other than t is where it was.
Rests(x) ==
    /\ kind'[x] = kind[x] /\ actor'[x] = actor[x] /\ subject'[x] = subject[x]
    /\ letter'[x] = letter[x] /\ input'[x] = input[x] /\ place'[x] = place[x]
    /\ locks'[x] = locks[x]

-----------------------------------------------------------------------------
\* At the start nobody has asked for anything.
LEMMA InitMembers == Init => MemInv
<1> SUFFICES ASSUME Init PROVE MemInv
  OBVIOUS
<1>1. TableTypes
  BY FirstAssumption DEF Init, TableTypes
<1>2. RequestTypes
  <2>1. Nothing \in Invitation
    BY NamesAssumption DEF Nothing
  <2> QED  BY <2>1 DEF Init, RequestTypes, Inputs, Places
<1>3. DeletedIsNobodysMember
  BY FirstAssumption DEF Init, DeletedIsNobodysMember, Live
<1>4. \A t \in Tx : RequestOK(t)
  BY DEF Init, RequestOK
<1>5. \A t, x \in Tx : t # x => Apart(t, x)
  BY DEF Init, Apart
<1> QED  BY <1>1, <1>2, <1>3, <1>4, <1>5 DEF MemInv

\* A statement that changes no table: only its own request is to be looked at.
LEMMA StatementKeeps ==
    ASSUME MemInv, NEW t \in Tx, UNCHANGED tables, RequestTypes',
           \A x \in Tx \ {t} : Rests(x),
           \A x \in Tx \ {t} : locks'[t] \cap locks[x] = {},
           RequestOK(t)',
           kind'[t] = "create" =>
                \A x \in Tx \ {t} : kind[x] = "create" => letter[x] # letter'[t]
    PROVE  MemInv'
<1>1. TableTypes' /\ DeletedIsNobodysMember'
  BY DEF MemInv, TableTypes, DeletedIsNobodysMember, Live, tables
<1>2. ASSUME NEW x \in Tx \ {t} PROVE RequestOK(x)'
  <2>1. RequestOK(x) /\ Rests(x)
    BY DEF MemInv
  <2> QED  BY <2>1 DEF RequestOK, UpdateOK, CreateOK, CancelOK, AcceptOK, DeleteOK, Rests,
              tables, Manages, Administers
<1>3. ASSUME NEW x \in Tx, NEW y \in Tx, x # y PROVE Apart(x, y)'
  BY <1>3 DEF MemInv, Apart, Rests
<1> QED  BY <1>1, <1>2, <1>3 DEF MemInv

\* A request that ends forgets its row locks and disturbs no other.
LEMMA EndTypes ==
    ASSUME MemInv, NEW t \in Tx, NEW how, End(t, how)
    PROVE  /\ RequestTypes'
           /\ \A x \in Tx \ {t} : Rests(x)
           /\ kind'[t] = "none" /\ place'[t] = "ended" /\ locks'[t] = {}
BY DEF MemInv, RequestTypes, End, Ask, Rests, Nothing, Inputs, Places

\* A request that is refused, fails or is rolled back has written nothing.
LEMMA AbortKeeps ==
    ASSUME MemInv, NEW t \in Tx, NEW how, Abort(t, how)
    PROVE  MemInv'
<1>1. RequestOK(t)'
  BY EndTypes DEF Abort, RequestOK
<1> QED  BY <1>1, EndTypes, StatementKeeps DEF Abort

\* A handler is called.
LEMMA CallKeeps ==
    ASSUME MemInv, NEW t \in Tx, NEW k, NEW a \in User \cup {NoUser},
           NEW u \in User \cup {NoUser}, NEW i \in Invitation, NEW value \in Inputs, NEW first,
           Call(t, k, a, u, i, value, first),
           \/ /\ k = "update" /\ first = "organization"
              /\ a \in User /\ u \in User /\ value \in Memberships
           \/ /\ k = "create" /\ first = "authorize" /\ value \in Letters
              /\ invitation[i].status = "none"
              /\ \A x \in Tx : kind[x] = "create" => letter[x] # i
           \/ k = "cancel" /\ first = "pending"
           \/ k = "accept" /\ first = "token"
           \/ k = "delete" /\ first = "user" /\ u \in User
    PROVE  MemInv'
<1>1. /\ kind'[t] = k /\ actor'[t] = a /\ subject'[t] = u /\ letter'[t] = i
      /\ input'[t] = value /\ place'[t] = first /\ locks' = locks /\ UNCHANGED tables
  BY DEF MemInv, RequestTypes, Call, Ask
<1>2. \A x \in Tx \ {t} : Rests(x)
  BY DEF MemInv, RequestTypes, Call, Ask, Rests
<1>3. RequestTypes'
  BY DEF MemInv, RequestTypes, Call, Ask, Places
<1>4. \A x \in Tx \ {t} : locks'[t] \cap locks[x] = {}
  BY <1>1 DEF MemInv, Apart
<1>5. RequestOK(t)'
  BY <1>1 DEF RequestOK, UpdateOK, CreateOK, CancelOK, AcceptOK, DeleteOK, tables
<1> QED  BY <1>1, <1>2, <1>3, <1>4, <1>5, StatementKeeps

\* The five handlers are called with what CallKeeps allows.
LEMMA StartKeeps ==
    ASSUME MemInv, NEW t \in Tx, Start(t)
    PROVE  MemInv'
<1>1. CASE Update(t)
  <2>1. PICK a \in User, u \in User, value \in Asked :
            Call(t, "update", a, u, Nothing, value, "organization")
    BY <1>1 DEF Update
  <2>2. value \in Memberships /\ Nothing \in Invitation /\ value \in Inputs
    BY NamesAssumption DEF Nothing, Inputs
  <2> QED  BY <2>1, <2>2, CallKeeps
<1>2. CASE Create(t)
  <2>1. PICK a \in User, i \in Invitation, offer \in Offered :
            /\ invitation[i].status = "none"
            /\ \A x \in Tx : kind[x] = "create" => letter[x] # i
            /\ Call(t, "create", a, NoUser, i, offer, "authorize")
    BY <1>2 DEF Create
  <2>2. offer \in Letters /\ offer \in Inputs
    BY NamesAssumption DEF Inputs
  <2> QED  BY <2>1, <2>2, CallKeeps
<1>3. CASE Cancel(t)
  BY <1>3, CallKeeps DEF Cancel, Inputs
<1>4. CASE Accept(t)
  BY <1>4, CallKeeps DEF Accept, Inputs
<1>5. CASE Delete(t)
  <2>1. PICK a \in User, u \in User : Call(t, "delete", a, u, Nothing, Outsider, "user")
    BY <1>5 DEF Delete
  <2>2. Nothing \in Invitation /\ Outsider \in Inputs
    BY NamesAssumption DEF Nothing, Inputs
  <2> QED  BY <2>1, <2>2, CallKeeps
<1> QED  BY <1>1, <1>2, <1>3, <1>4, <1>5 DEF Start

\* Each place but authorize and commit is one kind's.
LEMMA PlaceOfKind ==
    ASSUME MemInv, NEW t \in Tx
    PROVE  /\ place[t] \in {"organization", "member", "count"} => kind[t] = "update"
           /\ place[t] = "insert" => kind[t] = "create"
           /\ place[t] = "pending" => kind[t] = "cancel"
           /\ place[t] \in {"token", "identity", "new", "join"} => kind[t] = "accept"
           /\ place[t] \in {"user", "memberships"} => kind[t] = "delete"
<1>1. RequestOK(t) /\ kind[t] \in {"none", "update", "create", "cancel", "accept", "delete"}
  BY DEF MemInv, RequestTypes
<1> QED  BY <1>1 DEF RequestOK, UpdateOK, CreateOK, CancelOK, AcceptOK, DeleteOK

\* A statement that locks the rows it has waited for, if any.
LEMMA HoldKeeps ==
    ASSUME MemInv, NEW t \in Tx, kind[t] # "none", NEW rows \in SUBSET Lockable, NEW next \in Places,
           Hold(t, rows, next), UNCHANGED <<kind, actor, letter, input>>,
           NEW u \in User \cup {NoUser}, subject' = [subject EXCEPT ![t] = u],
           RequestOK(t)'
    PROVE  MemInv'
<1>1. /\ locks' = [locks EXCEPT ![t] = locks[t] \cup rows]
      /\ place' = [place EXCEPT ![t] = next] /\ UNCHANGED tables
  BY DEF Hold
<1>2. RequestTypes' /\ \A x \in Tx \ {t} : Rests(x)
  BY <1>1 DEF MemInv, RequestTypes, Rests
<1>3. \A x \in Tx \ {t} : locks'[t] \cap locks[x] = {}
  <2>1. locks'[t] = locks[t] \cup rows
    BY <1>1 DEF MemInv, RequestTypes
  <2> QED  BY <2>1 DEF MemInv, Apart, Hold, Free
<1>4. kind'[t] = "create" => \A x \in Tx \ {t} : kind[x] = "create" => letter[x] # letter'[t]
  BY DEF MemInv, Apart
<1> QED  BY <1>1, <1>2, <1>3, <1>4, StatementKeeps

\* HoldKeeps, for the statements that leave the request as it is.
LEMMA TakeKeeps ==
    ASSUME MemInv, NEW t \in Tx, kind[t] # "none", NEW rows \in SUBSET Lockable, NEW next \in Places,
           Take(t, rows, next), RequestOK(t)'
    PROVE  MemInv'
<1>1. subject[t] \in User \cup {NoUser} /\ subject' = [subject EXCEPT ![t] = subject[t]]
  BY DEF Take, request, MemInv, RequestTypes
<1> QED  BY <1>1, HoldKeeps DEF Take, request

\* A statement that locks nothing, or only shares a row.
LEMMA GotoKeeps ==
    ASSUME MemInv, NEW t \in Tx, NEW next \in Places,
           UNCHANGED <<tables, request, locks>>, place' = [place EXCEPT ![t] = next],
           RequestOK(t)'
    PROVE  MemInv'
<1>1. RequestTypes' /\ \A x \in Tx \ {t} : Rests(x)
  BY DEF MemInv, RequestTypes, Rests, request
<1>2. \A x \in Tx \ {t} : locks'[t] \cap locks[x] = {}
  BY DEF MemInv, Apart
<1>3. kind'[t] = "create" => \A x \in Tx \ {t} : kind[x] = "create" => letter[x] # letter'[t]
  BY DEF MemInv, Apart, request
<1> QED  BY <1>1, <1>2, <1>3, StatementKeeps

-----------------------------------------------------------------------------
(* The statements *)

\* The actor manages the organization when it is checked: UpdateOK keeps it.
LEMMA AuthorizeKeeps ==
    ASSUME MemInv, NEW t \in Tx, Authorize(t) PROVE MemInv'
<1>1. place[t] = "authorize" /\ RequestOK(t) /\ place \in [Tx -> Places]
  BY DEF Authorize, MemInv, RequestTypes
<1>2. ASSUME Manages(actor[t]), NEW next \in {"member", "insert", "commit"}, Goto(t, next),
             \/ kind[t] = "update" /\ next = "member"
             \/ kind[t] = "create" /\ next = "insert"
             \/ kind[t] = "cancel" /\ next = "commit"
      PROVE  MemInv'
  <2>1. /\ UNCHANGED <<tables, request, locks>> /\ place' = [place EXCEPT ![t] = next]
        /\ next \in Places /\ place'[t] = next
    BY <1>1, <1>2 DEF Goto, Places
  <2>2. RequestOK(t)'
    BY <1>1, <1>2, <2>1 DEF RequestOK, UpdateOK, CreateOK, CancelOK, AcceptOK, DeleteOK,
       Manages, Administers, tables, request
  <2> QED  BY <2>1, <2>2, GotoKeeps
<1>3. CASE ~Manages(actor[t])
  BY <1>3, AbortKeeps DEF Authorize
<1>4. CASE Manages(actor[t])
  <2>1. \/ kind[t] = "update" /\ Goto(t, "member")
        \/ kind[t] = "create" /\ Goto(t, "insert")
        \/ kind[t] = "cancel" /\ Goto(t, "commit")
    BY <1>4 DEF Authorize
  <2> QED  BY <1>2, <1>4, <2>1
<1> QED  BY <1>3, <1>4

\* updateOrganizationMember before its commit: the organization, then the row.
LEMMA UpdateStatementsKeep ==
    ASSUME MemInv, NEW t \in Tx,
           LockOrganization(t) \/ LockMember(t) \/ CountAdministrators(t)
    PROVE  MemInv'
<1>1. /\ kind[t] = "update" /\ UpdateOK(t) /\ place \in [Tx -> Places] /\ locks \in [Tx -> SUBSET Lockable]
  BY PlaceOfKind DEF LockOrganization, LockMember, CountAdministrators, MemInv, RequestTypes, RequestOK
<1>2. Organization \in Lockable /\ Row(subject[t]) \in Lockable
  BY <1>1 DEF Lockable, UpdateOK
<1>3. CASE LockOrganization(t)
  <2>1. /\ UNCHANGED <<tables, request>> /\ place'[t] = "authorize"
        /\ locks'[t] = locks[t] \cup {Organization}
    BY <1>1, <1>3 DEF LockOrganization, Take, Hold
  <2>2. RequestOK(t)'
    BY <1>1, <2>1 DEF RequestOK, UpdateOK, request, tables
  <2> QED  BY <1>1, <1>2, <1>3, <2>2, TakeKeeps DEF LockOrganization, Places
<1>4. CASE LockMember(t)
  <2>1. CASE member[subject[t]] = Outsider
    BY <1>4, <2>1, AbortKeeps DEF LockMember
  <2>2. ASSUME member[subject[t]] # Outsider, NEW next \in {"count", "commit"},
               Take(t, {Row(subject[t])}, next)
        PROVE  MemInv'
    <3>1. /\ UNCHANGED <<tables, request>> /\ place'[t] = next /\ place[t] = "member"
          /\ locks'[t] = locks[t] \cup {Row(subject[t])}
      BY <1>1, <1>4, <2>2 DEF LockMember, Take, Hold
    <3>2. RequestOK(t)'
      BY <1>1, <2>2, <3>1 DEF RequestOK, UpdateOK, request, tables, Manages, Administers
    <3> QED  BY <1>1, <1>2, <2>2, <3>2, TakeKeeps DEF Places
  <2> QED  BY <1>4, <2>1, <2>2 DEF LockMember
<1>5. CASE CountAdministrators(t)
  <2>1. CASE Goto(t, "commit")
    <3>1. /\ UNCHANGED <<tables, request, locks>> /\ place' = [place EXCEPT ![t] = "commit"]
          /\ place'[t] = "commit" /\ place[t] = "count"
      BY <1>1, <1>5, <2>1 DEF Goto, CountAdministrators
    <3>2. RequestOK(t)'
      BY <1>1, <3>1 DEF RequestOK, UpdateOK, request, tables, Manages, Administers
    <3> QED  BY <3>1, <3>2, GotoKeeps DEF Places
  <2> QED  BY <1>5, <2>1, AbortKeeps DEF CountAdministrators
<1> QED  BY <1>3, <1>4, <1>5

\* createInvitation and cancelInvitation before their commits.
LEMMA InvitationStatementsKeep ==
    ASSUME MemInv, NEW t \in Tx, InsertInvitation(t) \/ LockPending(t)
    PROVE  MemInv'
<1>1. RequestOK(t) /\ place \in [Tx -> Places] /\ locks \in [Tx -> SUBSET Lockable]
  BY DEF MemInv, RequestTypes
<1>2. CASE InsertInvitation(t)
  <2>1. /\ UNCHANGED <<tables, request, locks>> /\ place' = [place EXCEPT ![t] = "commit"]
        /\ place'[t] = "commit" /\ kind[t] = "create"
    BY <1>1, <1>2, PlaceOfKind DEF InsertInvitation, Share
  <2>2. RequestOK(t)'
    BY <1>1, <2>1 DEF RequestOK, CreateOK, request, tables
  <2> QED  BY <2>1, <2>2, GotoKeeps DEF Places
<1>3. CASE LockPending(t)
  <2>1. CASE Take(t, {letter[t]}, "authorize") /\ invitation[letter[t]].status = "pending"
    <3>1. /\ UNCHANGED <<tables, request>> /\ place'[t] = "authorize" /\ kind[t] = "cancel"
          /\ locks'[t] = locks[t] \cup {letter[t]}
      BY <1>1, <1>3, <2>1, PlaceOfKind DEF LockPending, Take, Hold
    <3>2. RequestOK(t)'
      BY <2>1, <3>1 DEF RequestOK, CancelOK, request, tables
    <3>3. {letter[t]} \in SUBSET Lockable
      BY DEF MemInv, RequestTypes, Lockable
    <3> QED  BY <2>1, <3>1, <3>2, <3>3, TakeKeeps DEF Places
  <2> QED  BY <1>3, <2>1, AbortKeeps DEF LockPending
<1> QED  BY <1>2, <1>3

\* acceptInvitation before its commit: the invitation, the identity, the index.
LEMMA AcceptStatementsKeep ==
    ASSUME MemInv, NEW t \in Tx,
           LockToken(t) \/ FindIdentity(t) \/ InsertIdentity(t) \/ InsertMember(t)
    PROVE  MemInv'
<1> DEFINE i == letter[t]
<1>1. /\ kind[t] = "accept" /\ AcceptOK(t) /\ place \in [Tx -> Places] /\ locks \in [Tx -> SUBSET Lockable]
      /\ subject \in [Tx -> User \cup {NoUser}] /\ i \in Invitation
      /\ invitation[i].mail \in Mail
  BY PlaceOfKind DEF LockToken, FindIdentity, InsertIdentity, InsertMember, MemInv, RequestTypes,
     RequestOK, TableTypes, Letters
<1>2. CASE LockToken(t)
  <2>1. CASE Take(t, {i}, "identity") /\ invitation[i].status = "pending"
    <3>1. /\ UNCHANGED <<tables, request>> /\ place'[t] = "identity"
          /\ locks'[t] = locks[t] \cup {i}
      BY <1>1, <2>1 DEF Take, Hold
    <3>2. RequestOK(t)'
      BY <1>1, <2>1, <3>1 DEF RequestOK, AcceptOK, request, tables
    <3> QED  BY <1>1, <2>1, <3>2, TakeKeeps DEF Places, Lockable
  <2>2. \/ \E how : Abort(t, how)
        \/ Take(t, {i}, "identity") /\ invitation[i].status = "pending"
    BY <1>2 DEF LockToken
  <2> QED  BY <2>1, <2>2, AbortKeeps
<1>3. CASE FindIdentity(t)
  <2> DEFINE found == Holder(invitation[i].mail)
  <2> DEFINE u == IF found = {} THEN NoUser ELSE CHOOSE x \in found : TRUE
  <2> DEFINE next == IF found = {} THEN "new" ELSE "join"
  <2>1. /\ subject' = [subject EXCEPT ![t] = u] /\ Hold(t, found, next) /\ place[t] = "identity"
        /\ UNCHANGED <<kind, actor, letter, input>>
    BY <1>3 DEF FindIdentity
  <2>2. found \in SUBSET Lockable /\ found \subseteq User /\ (found # {} => u \in found)
    BY DEF Holder, Lockable
  <2>3. u \in User \cup {NoUser} /\ next \in Places
    BY <2>2 DEF Places
  <2>4. /\ subject'[t] = u /\ place'[t] = next /\ locks'[t] = locks[t] \cup found /\ UNCHANGED tables
    BY <1>1, <2>1 DEF Hold
  <2>5. found # {} => mail[u] = invitation[i].mail
    BY <2>2 DEF Holder
  <2>6. RequestOK(t)'
    BY <1>1, <2>1, <2>2, <2>4, <2>5 DEF RequestOK, AcceptOK, tables
  <2> HIDE DEF found, u, next
  <2> QED  BY <1>1, <2>1, <2>2, <2>3, <2>6, HoldKeeps
<1>4. CASE InsertIdentity(t)
  <2>1. CASE Abort(t, "rejected")
    BY <2>1, AbortKeeps
  <2>2. ASSUME NEW u \in Fresh, subject' = [subject EXCEPT ![t] = u],
               Hold(t, {invitation[i].mail, u}, "join"), UNCHANGED <<kind, actor, letter, input>>
        PROVE  MemInv'
    <3>1. /\ subject'[t] = u /\ place'[t] = "join" /\ place[t] = "new" /\ UNCHANGED tables
          /\ locks'[t] = locks[t] \cup {invitation[i].mail, u}
      BY <1>1, <1>4, <2>2 DEF Hold, InsertIdentity
    <3>2. u \in User /\ mail[u] = Unborn /\ {invitation[i].mail, u} \in SUBSET Lockable
      BY <1>1, <2>2 DEF Fresh, Lockable
    <3>3. RequestOK(t)'
      BY <1>1, <2>2, <3>1, <3>2 DEF RequestOK, AcceptOK, tables
    <3> QED  BY <1>1, <2>2, <3>2, <3>3, HoldKeeps DEF Places
  <2> QED  BY <1>4, <2>1, <2>2 DEF InsertIdentity
<1>5. CASE InsertMember(t)
  <2>1. CASE Share(t, {Organization}, "commit") /\ member[subject[t]] = Outsider
    <3>1. /\ UNCHANGED <<tables, request, locks>> /\ place' = [place EXCEPT ![t] = "commit"]
          /\ place'[t] = "commit" /\ place[t] = "join"
      BY <1>1, <1>5, <2>1 DEF InsertMember, Share
    <3>2. RequestOK(t)'
      BY <1>1, <2>1, <3>1 DEF RequestOK, AcceptOK, request, tables
    <3> QED  BY <3>1, <3>2, GotoKeeps DEF Places
  <2> QED  BY <1>5, <2>1, AbortKeeps DEF InsertMember
<1> QED  BY <1>2, <1>3, <1>4, <1>5

\* deleteUser before its commit: the identity, then its memberships.
LEMMA DeleteStatementsKeep ==
    ASSUME MemInv, NEW t \in Tx, LockUser(t) \/ DeleteMemberships(t)
    PROVE  MemInv'
<1>1. /\ kind[t] = "delete" /\ DeleteOK(t) /\ place \in [Tx -> Places] /\ locks \in [Tx -> SUBSET Lockable]
      /\ subject[t] \in User
  BY PlaceOfKind DEF LockUser, DeleteMemberships, MemInv, RequestTypes, RequestOK, DeleteOK
<1>2. ASSUME NEW rows \in SUBSET Lockable, NEW next \in {"memberships", "commit"},
             Take(t, rows, next),
             \/ next = "memberships" /\ rows = {subject[t]}
             \/ next = "commit" /\ place[t] = "memberships" /\ rows = {Row(subject[t])}
      PROVE  MemInv'
  <2>1. UNCHANGED <<tables, request>> /\ place'[t] = next /\ locks'[t] = locks[t] \cup rows
    BY <1>1, <1>2 DEF Take, Hold
  <2>2. RequestOK(t)'
    BY <1>1, <1>2, <2>1 DEF RequestOK, DeleteOK, request, tables
  <2> QED  BY <1>1, <1>2, <2>2, TakeKeeps DEF Places
<1>3. {subject[t]} \in SUBSET Lockable /\ {Row(subject[t])} \in SUBSET Lockable
  BY <1>1 DEF Lockable
<1> QED  BY <1>2, <1>3, AbortKeeps DEF LockUser, DeleteMemberships

-----------------------------------------------------------------------------
(* The commits: what they change, nobody else has seen *)

\* A commit ends its request; the others must find what they have seen.
LEMMA CommitKeeps ==
    ASSUME MemInv, NEW t \in Tx, End(t, "committed"), TableTypes', DeletedIsNobodysMember',
           \A x \in Tx \ {t} : RequestOK(x)'
    PROVE  MemInv'
<1>1. RequestOK(t)' /\ RequestTypes' /\ \A x \in Tx \ {t} : Rests(x)
  BY EndTypes DEF RequestOK
<1>2. ASSUME NEW x \in Tx, NEW y \in Tx, x # y PROVE Apart(x, y)'
  BY <1>2, EndTypes DEF MemInv, Apart, Rests
<1> QED  BY <1>1, <1>2 DEF MemInv

\* No other update is past the lock of the organization, nor any acceptance at the row.
LEMMA CommitUpdateKeeps ==
    ASSUME MemInv, NEW t \in Tx, CommitUpdate(t) PROVE MemInv'
<1>1. /\ UpdateOK(t) /\ place[t] = "commit" /\ End(t, "committed")
      /\ member' = [member EXCEPT ![subject[t]] = input[t]]
      /\ UNCHANGED <<mail, platform, invitation>>
  BY DEF CommitUpdate, Committing, MemInv, RequestOK
<1>2. TableTypes' /\ DeletedIsNobodysMember'
  BY <1>1 DEF MemInv, TableTypes, DeletedIsNobodysMember, Live, UpdateOK
<1>3. ASSUME NEW x \in Tx \ {t} PROVE RequestOK(x)'
  <2>1. RequestOK(x) /\ Rests(x) /\ locks[x] \cap locks[t] = {}
    BY <1>1, EndTypes DEF MemInv, Apart
  <2>2. kind[x] = "update" => place[x] \in {"organization", "authorize"}
    BY <1>1, <2>1 DEF RequestOK, UpdateOK
  <2>3. kind[x] = "accept" /\ place[x] = "commit" => member'[subject[x]] = Outsider
    BY <1>1, <2>1 DEF RequestOK, UpdateOK, AcceptOK, MemInv, TableTypes
  <2> QED  BY <1>1, <2>1, <2>2, <2>3 DEF RequestOK, UpdateOK, CreateOK, CancelOK, AcceptOK,
              DeleteOK, Rests
<1> QED  BY <1>1, <1>2, <1>3, CommitKeeps

\* The letters of the others are not the one that is written.
LEMMA LettersDiffer ==
    ASSUME MemInv, NEW t \in Tx, NEW x \in Tx \ {t},
           \/ kind[t] = "create"
           \/ kind[t] = "cancel" /\ place[t] # "pending"
           \/ kind[t] = "accept" /\ place[t] # "token"
    PROVE  /\ kind[x] = "create" => letter[x] # letter[t]
           /\ kind[x] = "cancel" /\ place[x] # "pending" => letter[x] # letter[t]
           /\ kind[x] = "accept" /\ place[x] # "token" => letter[x] # letter[t]
<1>1. RequestOK(t) /\ RequestOK(x) /\ Apart(t, x)
  BY DEF MemInv
<1> QED  BY <1>1 DEF RequestOK, CreateOK, CancelOK, AcceptOK, Apart

\* The commits of an invitation write a row that no other request relies on.
LEMMA CommitLetterKeeps ==
    ASSUME MemInv, NEW t \in Tx, CommitCreate(t) \/ CommitCancel(t) PROVE MemInv'
<1> DEFINE i == letter[t]
<1>1. /\ End(t, "committed") /\ UNCHANGED <<mail, member, platform>>
      /\ kind[t] = "create" \/ (kind[t] = "cancel" /\ place[t] # "pending")
      /\ RequestOK(t) /\ i \in Invitation
  BY DEF CommitCreate, CommitCancel, Committing, MemInv, RequestTypes
<1>2. /\ invitation' \in [Invitation -> Letters]
      /\ \A j \in Invitation \ {i} : invitation'[j] = invitation[j]
  <2>1. CASE CommitCreate(t)
    <3>1. input[t] \in Letters
      BY <1>1, <2>1 DEF CommitCreate, Committing, RequestOK, CreateOK
    <3> QED  BY <1>1, <2>1, <3>1 DEF CommitCreate, MemInv, TableTypes
  <2>2. CASE CommitCancel(t)
    <3>1. invitation' = [invitation EXCEPT ![i].status = "cancelled"] /\ invitation[i] \in Letters
      BY <1>1, <2>2 DEF CommitCancel, MemInv, TableTypes
    <3>2. [invitation[i] EXCEPT !.status = "cancelled"] \in Letters
      BY <3>1 DEF Letters
    <3> QED  BY <1>1, <3>1, <3>2 DEF MemInv, TableTypes
  <2> QED  BY <2>1, <2>2
<1>3. TableTypes' /\ DeletedIsNobodysMember'
  BY <1>1, <1>2 DEF MemInv, TableTypes, DeletedIsNobodysMember, Live
<1>4. ASSUME NEW x \in Tx \ {t} PROVE RequestOK(x)'
  <2>1. RequestOK(x) /\ Rests(x) /\ letter[x] \in Invitation
    BY <1>1, EndTypes DEF MemInv, RequestTypes
  <2>2. /\ kind[x] = "create" => letter[x] # i
        /\ kind[x] = "cancel" /\ place[x] # "pending" => letter[x] # i
        /\ kind[x] = "accept" /\ place[x] # "token" => letter[x] # i
    BY <1>1, LettersDiffer
  <2> QED  BY <1>1, <1>2, <2>1, <2>2 DEF RequestOK, UpdateOK, CreateOK, CancelOK, AcceptOK,
              DeleteOK, Rests, Manages, Administers
<1> QED  BY <1>1, <1>3, <1>4, CommitKeeps

\* The commit of an acceptance: its invitation is pending and its identity lives.
LEMMA CommitAcceptKeeps ==
    ASSUME MemInv, NEW t \in Tx, CommitAccept(t) PROVE MemInv'
<1> DEFINE i == letter[t]
<1> DEFINE u == subject[t]
<1>1. /\ End(t, "committed") /\ UNCHANGED platform /\ kind[t] = "accept" /\ place[t] = "commit"
      /\ AcceptOK(t) /\ i \in Invitation /\ u \in User /\ invitation[i] \in Letters
  BY DEF CommitAccept, Committing, MemInv, RequestTypes, TableTypes, RequestOK, AcceptOK
<1>2. /\ mail' = [mail EXCEPT ![u] = IF mail[u] = Unborn THEN invitation[i].mail ELSE mail[u]]
      /\ member' = [member EXCEPT ![u] = [role |-> invitation[i].role, status |-> "active"]]
      /\ invitation' = [invitation EXCEPT ![i].status = "accepted"]
  BY DEF CommitAccept
<1>3. mail'[u] \in Mail /\ (mail[u] # Unborn => mail'[u] = mail[u])
  BY <1>1, <1>2 DEF AcceptOK, MemInv, TableTypes, Letters
<1>4. /\ \A v \in User \ {u} : mail'[v] = mail[v] /\ member'[v] = member[v]
      /\ \A j \in Invitation \ {i} : invitation'[j] = invitation[j]
  BY <1>1, <1>2 DEF MemInv, TableTypes
<1>5. TableTypes' /\ DeletedIsNobodysMember'
  <2>1. [role |-> invitation[i].role, status |-> "active"] \in Memberships
    BY <1>1 DEF Letters, Memberships
  <2>2. [invitation[i] EXCEPT !.status = "accepted"] \in Letters
    BY <1>1 DEF Letters
  <2>3. TableTypes'
    BY <1>1, <1>2, <2>1, <2>2 DEF MemInv, TableTypes, Letters
  <2> QED  BY <1>3, <1>4, <2>3 DEF MemInv, DeletedIsNobodysMember, Live
<1>6. ASSUME NEW x \in Tx \ {t} PROVE RequestOK(x)'
  <2>1. RequestOK(x) /\ Rests(x) /\ letter[x] \in Invitation /\ locks[x] \cap locks[t] = {}
    BY <1>1, EndTypes DEF MemInv, RequestTypes, Apart
  <2>2. /\ kind[x] = "create" => letter[x] # i
        /\ kind[x] = "cancel" /\ place[x] # "pending" => letter[x] # i
        /\ kind[x] = "accept" /\ place[x] # "token" => letter[x] # i
    BY <1>1, LettersDiffer
  <2>3. member[u] = Outsider /\ u \in locks[t] /\ Outsider \notin Memberships
    BY <1>1, NamesAssumption DEF AcceptOK
  <2>4. kind[x] = "update" => UpdateOK(x)'
    <3>1. \A a \in User : Manages(a) => Manages(a)'
      BY <1>1, <1>4, <2>3 DEF Manages, Administers, Memberships
    <3>2. \A a \in User : mail[a] = Gone => mail'[a] = Gone
      BY <1>1, <1>3, <1>4, NamesAssumption DEF AcceptOK
    <3>3. \A a \in User : member[a] # Outsider => member'[a] # Outsider
      BY <1>4, <2>3
    <3> QED  BY <2>1, <3>1, <3>2, <3>3 DEF RequestOK, UpdateOK, Rests
  <2>5. kind[x] = "accept" => AcceptOK(x)'
    <3>1. place[x] \in {"join", "commit"} /\ kind[x] = "accept" => subject[x] \in User \ {u}
      BY <2>1, <2>3 DEF RequestOK, AcceptOK
    <3> QED  BY <1>4, <2>1, <2>2, <3>1 DEF RequestOK, AcceptOK, Rests
  <2> QED  BY <1>4, <2>1, <2>2, <2>4, <2>5 DEF RequestOK, CreateOK, CancelOK, DeleteOK, Rests
<1> QED  BY <1>1, <1>5, <1>6, CommitKeeps

\* The commit of a deletion: nobody else holds the identity or its membership.
LEMMA CommitDeleteKeeps ==
    ASSUME MemInv, NEW t \in Tx, CommitDelete(t) PROVE MemInv'
<1> DEFINE u == subject[t]
<1>1. /\ End(t, "committed") /\ UNCHANGED invitation /\ kind[t] = "delete" /\ place[t] = "commit"
      /\ u \in User /\ u \in locks[t] /\ Row(u) \in locks[t]
  BY DEF CommitDelete, Committing, MemInv, RequestOK, DeleteOK
<1>2. /\ mail' = [mail EXCEPT ![u] = Gone] /\ member' = [member EXCEPT ![u] = Outsider]
      /\ platform' = platform \ {u}
  BY DEF CommitDelete
<1>3. TableTypes' /\ DeletedIsNobodysMember'
  BY <1>1, <1>2 DEF MemInv, TableTypes, DeletedIsNobodysMember, Live
<1>4. ASSUME NEW x \in Tx \ {t} PROVE RequestOK(x)'
  <2>1. RequestOK(x) /\ Rests(x) /\ locks[x] \cap locks[t] = {}
    BY <1>1, EndTypes DEF MemInv, Apart
  <2>2. \A v \in User \ {u} : mail'[v] = mail[v] /\ member'[v] = member[v] /\ (v \in platform => v \in platform')
    BY <1>1, <1>2 DEF MemInv, TableTypes
  <2>3. mail'[u] = Gone
    BY <1>1, <1>2 DEF MemInv, TableTypes
  <2>4. kind[x] = "update" => UpdateOK(x)'
    <3>1. \A a \in User : Manages(a) \/ mail[a] = Gone => Manages(a)' \/ mail'[a] = Gone
      BY <2>2, <2>3 DEF Manages, Administers
    <3>2. place[x] \in {"count", "commit"} /\ kind[x] = "update" => subject[x] \in User \ {u}
      BY <1>1, <2>1 DEF RequestOK, UpdateOK
    <3> QED  BY <2>1, <2>2, <3>1, <3>2 DEF RequestOK, UpdateOK, Rests
  <2>5. kind[x] = "accept" => AcceptOK(x)'
    <3>1. place[x] \in {"join", "commit"} /\ kind[x] = "accept" => subject[x] \in User \ {u}
      BY <1>1, <2>1 DEF RequestOK, AcceptOK
    <3> QED  BY <1>1, <2>1, <2>2, <3>1 DEF RequestOK, AcceptOK, Rests
  <2> QED  BY <1>1, <2>1, <2>4, <2>5 DEF RequestOK, CreateOK, CancelOK, DeleteOK, Rests
<1> QED  BY <1>1, <1>3, <1>4, CommitKeeps

\* Every step keeps the invariant.
LEMMA NextMembers == MemInv /\ [Next]_vars => MemInv'
<1> SUFFICES ASSUME MemInv, [Next]_vars PROVE MemInv'
  OBVIOUS
<1>1. ASSUME NEW t \in Tx, Continue(t) PROVE MemInv'
  BY <1>1, AuthorizeKeeps, UpdateStatementsKeep, InvitationStatementsKeep, AcceptStatementsKeep,
     DeleteStatementsKeep, CommitUpdateKeeps, CommitLetterKeeps, CommitAcceptKeeps,
     CommitDeleteKeeps DEF Continue
<1>2. ASSUME UNCHANGED <<tables, request, place, locks>> PROVE MemInv'
  BY <1>2 DEF MemInv, TableTypes, RequestTypes, DeletedIsNobodysMember, Live, RequestOK, UpdateOK,
     CreateOK, CancelOK, AcceptOK, DeleteOK, Manages, Administers, Apart, tables, request
<1> QED  BY <1>1, <1>2, StartKeeps, AbortKeeps DEF Next, Rollback, Expire, vars

\* What every request has seen stays true until its commit.
THEOREM MembersInvariant == Spec => []MemInv
<1> QED  BY InitMembers, NextMembers, PTL DEF Spec

\* acceptInvitation, deleteUser: no membership outlives or follows the
\* deletion of its identity.
THEOREM MembersAreLive == Spec => []DeletedIsNobodysMember
<1>1. MemInv => DeletedIsNobodysMember
  BY DEF MemInv
<1> QED  BY <1>1, MembersInvariant, PTL

\* updateOrganizationMember: who changes a membership still manages the
\* organization at the commit, or is deleted.
THEOREM ActorsManage == Spec => ActorManagesAtCommit
<1>1. MemInv => [\A t \in Tx : CommitUpdate(t) => Manages(actor[t]) \/ mail[actor[t]] = Gone]_vars
  BY DEF MemInv, RequestOK, UpdateOK, CommitUpdate, Committing
<1> QED  BY <1>1, MembersInvariant, PTL DEF ActorManagesAtCommit

\* How a request can end, and which invitations can be out of time.
Outcomes == {"none", "rejected", "repeated", "committed"}
EndTypesOK == outcome \in [Tx -> Outcomes] /\ expired \subseteq Invitation

\* A request has an outcome once it ends, and one of the four.
LEMMA EndingsKeep ==
    ASSUME EndTypesOK, [Next]_vars
    PROVE  EndTypesOK'
<1>1. ASSUME NEW t \in Tx, NEW how \in Outcomes, End(t, how) PROVE EndTypesOK'
  BY <1>1 DEF EndTypesOK, End
<1>2. ASSUME UNCHANGED <<expired, outcome>> PROVE EndTypesOK'
  BY <1>2 DEF EndTypesOK
<1>3. ASSUME NEW t \in Tx, Start(t) PROVE EndTypesOK'
  BY <1>2, <1>3 DEF Start, Update, Create, Cancel, Accept, Delete, Call
<1>4. ASSUME NEW t \in Tx, Continue(t) PROVE EndTypesOK'
  <2>1. CASE \/ Authorize(t) \/ LockOrganization(t) \/ LockMember(t) \/ CountAdministrators(t)
             \/ InsertInvitation(t) \/ LockPending(t) \/ FindIdentity(t) \/ InsertIdentity(t)
             \/ InsertMember(t) \/ LockUser(t) \/ DeleteMemberships(t)
    <3>1. UNCHANGED <<expired, outcome>> \/ End(t, "rejected")
      BY <2>1 DEF Authorize, LockOrganization, LockMember, CountAdministrators, InsertInvitation,
         LockPending, FindIdentity, InsertIdentity, InsertMember, LockUser, DeleteMemberships,
         Take, Hold, Share, Goto, Abort
    <3>2. QED
      BY <1>1, <1>2, <3>1 DEF Outcomes
  <2>2. CASE LockToken(t)
    <3>1. \/ \E how \in {"repeated", "rejected"} : Abort(t, how)
          \/ Take(t, {letter[t]}, "identity")
      BY <2>2 DEF LockToken
    <3>2. QED
      BY <1>1, <1>2, <3>1 DEF Outcomes, Abort, Take, Hold
  <2>3. CASE \/ CommitUpdate(t) \/ CommitCreate(t) \/ CommitCancel(t) \/ CommitAccept(t)
             \/ CommitDelete(t)
    <3>1. End(t, "committed")
      BY <2>3 DEF CommitUpdate, CommitCreate, CommitCancel, CommitAccept, CommitDelete
    <3>2. QED
      BY <1>1, <3>1 DEF Outcomes
  <2>4. QED
    BY <1>4, <2>1, <2>2, <2>3 DEF Continue
<1>5. ASSUME NEW t \in Tx, Rollback(t) PROVE EndTypesOK'
  BY <1>1, <1>5 DEF Rollback, Abort, Outcomes
<1>6. ASSUME NEW i \in Invitation, Expire(i) PROVE EndTypesOK'
  BY <1>6 DEF EndTypesOK, Expire
<1>7. QED
  BY <1>2, <1>3, <1>4, <1>5, <1>6 DEF Next, vars

\* Tables, requests and their outcomes keep their types: a commit writes no
\* status, role or address that its table does not know.
THEOREM TypeCorrect == Spec => []TypeOK
<1>1. Init => EndTypesOK
  BY DEF Init, EndTypesOK, Outcomes
<1>2. Spec => []EndTypesOK
  BY <1>1, EndingsKeep, PTL DEF Spec
<1>3. MemInv /\ EndTypesOK => TypeOK
  BY DEF MemInv, TableTypes, RequestTypes, EndTypesOK, Outcomes, TypeOK
<1>4. QED
  BY <1>2, <1>3, MembersInvariant, PTL

-----------------------------------------------------------------------------
(* Invitations *)

\* The steps other than the commits change no table.
LEMMA OnlyCommitsWrite ==
    ASSUME MemInv, [Next]_vars, ~UNCHANGED tables
    PROVE  \E t \in Tx : CommitUpdate(t) \/ CommitCreate(t) \/ CommitCancel(t)
                         \/ CommitAccept(t) \/ CommitDelete(t)
<1>1. ASSUME NEW t \in Tx, Start(t) PROVE UNCHANGED tables
  BY <1>1 DEF Start, Update, Create, Cancel, Accept, Delete, Call
<1>2. ASSUME NEW t \in Tx, Continue(t)
      PROVE  \/ UNCHANGED tables
             \/ CommitUpdate(t) \/ CommitCreate(t) \/ CommitCancel(t)
             \/ CommitAccept(t) \/ CommitDelete(t)
  BY <1>2 DEF Continue, Authorize, LockOrganization, LockMember, CountAdministrators,
     InsertInvitation, LockPending, LockToken, FindIdentity, InsertIdentity, InsertMember,
     LockUser, DeleteMemberships, Take, Hold, Share, Goto, Abort
<1> QED  BY <1>1, <1>2 DEF Next, Rollback, Abort, Expire, vars

Admits == \A u \in User : member[u] = Outsider /\ member'[u] # Outsider =>
    \E i \in Invitation :
        /\ invitation[i].status = "pending"
        /\ invitation'[i].status = "accepted"
        /\ mail'[u] = invitation[i].mail
Settles == \A i \in Invitation : invitation[i].status \in {"accepted", "cancelled"} =>
    invitation'[i] = invitation[i]

\* Only an acceptance admits, and only a pending invitation is settled.
LEMMA AdmitsAndSettles == MemInv /\ [Next]_vars => Admits /\ Settles
<1> SUFFICES ASSUME MemInv, [Next]_vars PROVE Admits /\ Settles
  OBVIOUS
<1> USE DEF Admits, Settles
<1>1. CASE UNCHANGED tables
  BY <1>1 DEF tables
<1>2. ASSUME NEW t \in Tx, CommitUpdate(t) PROVE Admits /\ Settles
  BY <1>2 DEF CommitUpdate, Committing, MemInv, TableTypes, RequestOK, UpdateOK
<1>3. ASSUME NEW t \in Tx, CommitCreate(t) \/ CommitCancel(t) PROVE Admits /\ Settles
  <2>1. /\ invitation[letter[t]].status \in {"none", "pending"}
        /\ \A i \in Invitation \ {letter[t]} : invitation'[i] = invitation[i]
    BY <1>3 DEF CommitCreate, CommitCancel, Committing, MemInv, TableTypes, RequestOK, CreateOK,
       CancelOK
  <2>2. UNCHANGED member
    BY <1>3 DEF CommitCreate, CommitCancel
  <2> QED  BY <2>1, <2>2
<1>4. ASSUME NEW t \in Tx, CommitAccept(t) PROVE Admits /\ Settles
  <2> DEFINE i == letter[t]
  <2> DEFINE u == subject[t]
  <2>1. /\ AcceptOK(t) /\ place[t] = "commit" /\ i \in Invitation /\ u \in User
    BY <1>4 DEF CommitAccept, Committing, MemInv, RequestTypes, RequestOK, AcceptOK
  <2>2. /\ mail'[u] = IF mail[u] = Unborn THEN invitation[i].mail ELSE mail[u]
        /\ \A v \in User \ {u} : member'[v] = member[v]
        /\ \A j \in Invitation \ {i} : invitation'[j] = invitation[j]
        /\ invitation[i].status = "pending"
    BY <1>4, <2>1 DEF CommitAccept, MemInv, TableTypes, AcceptOK
  <2>3. invitation'[i].status = "accepted"
    BY <1>4, <2>1 DEF CommitAccept, MemInv, TableTypes, Letters
  <2>4. mail'[u] = invitation[i].mail
    BY <2>1, <2>2 DEF AcceptOK
  <2> QED  BY <2>1, <2>2, <2>3, <2>4
<1>5. ASSUME NEW t \in Tx, CommitDelete(t) PROVE Admits /\ Settles
  BY <1>5 DEF CommitDelete, MemInv, TableTypes
<1> QED  BY <1>1, <1>2, <1>3, <1>4, <1>5, OnlyCommitsWrite

\* acceptInvitation, cancelInvitation: whoever becomes a member uses up an
\* invitation that was pending until then, and one that is settled stays so.
THEOREM InvitationsStaySpent == Spec => InvitationsAreSpent
<1>1. MemInv /\ [Next]_vars => [Admits]_vars /\ [Settles]_vars
  BY AdmitsAndSettles
<1> QED  BY <1>1, MembersInvariant, PTL
         DEF Spec, InvitationsAreSpent, AdmissionUsesUpInvitation, InvitationsSettleOnce, Admits, Settles

-----------------------------------------------------------------------------
(* Administrators *)

\* An update that takes an administrator away leaves another.
AnotherStays(t) ==
    kind[t] = "update" /\ place[t] = "commit" /\ Removes(t) =>
        \E v \in User \ {subject[t]} : Administers(v)

Departed == \E u \in User : mail[u] = Gone

AdminInv ==
    \/ Departed
    \/ /\ \E u \in User : Administers(u)
       /\ \A t \in Tx : AnotherStays(t)

\* A deleted identity stays deleted.
LEMMA DepartedStays == MemInv /\ Departed /\ [Next]_vars => Departed'
<1> SUFFICES ASSUME MemInv, NEW u \in User, mail[u] = Gone, [Next]_vars PROVE mail'[u] = Gone
  BY DEF Departed
<1>1. CASE UNCHANGED tables
  BY <1>1 DEF tables
<1>2. ASSUME NEW t \in Tx, CommitAccept(t) PROVE mail'[u] = Gone
  BY <1>2, NamesAssumption DEF CommitAccept, MemInv, TableTypes
<1>3. ASSUME NEW t \in Tx, CommitDelete(t) PROVE mail'[u] = Gone
  BY <1>3 DEF CommitDelete, MemInv, TableTypes
<1> QED  BY <1>1, <1>2, <1>3, OnlyCommitsWrite DEF CommitUpdate, CommitCreate, CommitCancel

\* With two administrators, there is one beside any identity.
LEMMA TwoAdministrators ==
    ASSUME IsFiniteSet(User), ~(Cardinality(Administrators) <= 1), NEW u
    PROVE  \E v \in User \ {u} : Administers(v)
<1> SUFFICES ASSUME Administrators \subseteq {u} PROVE FALSE
  BY DEF Administrators
<1>1. IsFiniteSet({u}) /\ Cardinality({u}) = 1
  BY FS_Singleton
<1>2. Cardinality(Administrators) <= 1
  BY <1>1, FS_Subset
<1> QED  BY <1>2

\* How an update comes before its commit.
LEMMA BeforeCommit ==
    ASSUME MemInv, [Next]_vars, UNCHANGED tables,
           NEW t \in Tx, kind'[t] = "update", place'[t] = "commit"
    PROVE  /\ subject'[t] = subject[t] /\ input'[t] = input[t]
           /\ \/ kind[t] = "update" /\ place[t] = "commit"
              \/ ~Removes(t)
              \/ ~(Cardinality(Administrators) <= 1)
<1> DEFINE Goal == /\ subject'[t] = subject[t] /\ input'[t] = input[t]
                   /\ \/ kind[t] = "update" /\ place[t] = "commit"
                      \/ ~Removes(t)
                      \/ ~(Cardinality(Administrators) <= 1)
<1> USE DEF MemInv, RequestTypes
<1>1. ASSUME UNCHANGED <<request, place>> PROVE Goal
  BY <1>1 DEF request
<1>2. ASSUME NEW x \in Tx, NEW how, End(x, how) PROVE Goal
  BY <1>2 DEF End, Ask
<1>3. ASSUME NEW x \in Tx, NEW k, NEW a, NEW u, NEW i, NEW value,
             NEW first \in Places \ {"commit"}, Call(x, k, a, u, i, value, first)
      PROVE  Goal
  BY <1>3 DEF Call, Ask
<1>4. ASSUME NEW x \in Tx, NEW next, next # "commit" \/ kind[x] # "update",
             place' = [place EXCEPT ![x] = next],
             UNCHANGED <<kind, input>>, x # t => subject'[t] = subject[t]
      PROVE  Goal
  BY <1>4
<1>5. ASSUME NEW x \in Tx, Continue(x) PROVE Goal
  <2>1. CASE CountAdministrators(x)
    BY <1>2, <2>1 DEF CountAdministrators, Goto, Abort, request
  <2>2. CASE LockMember(x)
    <3>1. CASE member[subject[x]] = Outsider
      BY <1>2, <2>2, <3>1 DEF LockMember, Abort
    <3>2. CASE member[subject[x]] # Outsider
      <4>1. /\ UNCHANGED request
            /\ place' = [place EXCEPT ![x] = IF Removes(x) THEN "count" ELSE "commit"]
        BY <2>2, <3>2 DEF LockMember, Take, Hold
      <4> QED  BY <4>1 DEF request
    <3> QED  BY <3>1, <3>2
  <2>3. CASE Authorize(x)
    BY <1>2, <1>4, <2>3 DEF Authorize, Goto, Abort, request
  <2>4. CASE LockOrganization(x)
    BY <1>4, <2>4 DEF LockOrganization, Take, Hold, request
  <2>5. CASE InsertInvitation(x) \/ LockPending(x)
    BY <1>2, <1>4, <2>5, PlaceOfKind DEF InsertInvitation, LockPending, Take, Hold, Share, Abort, request
  <2>6. CASE LockToken(x) \/ InsertMember(x)
    BY <1>2, <1>4, <2>6, PlaceOfKind DEF LockToken, InsertMember, Take, Hold, Share, Abort, request
  <2>7. CASE FindIdentity(x) \/ InsertIdentity(x)
    BY <1>2, <1>4, <2>7, PlaceOfKind DEF FindIdentity, InsertIdentity, Hold, Abort
  <2>8. CASE LockUser(x) \/ DeleteMemberships(x)
    BY <1>2, <1>4, <2>8, PlaceOfKind DEF LockUser, DeleteMemberships, Take, Hold, Abort, request
  <2>9. CASE CommitUpdate(x) \/ CommitCreate(x) \/ CommitCancel(x) \/ CommitAccept(x) \/ CommitDelete(x)
    BY <1>2, <2>9 DEF CommitUpdate, CommitCreate, CommitCancel, CommitAccept, CommitDelete
  <2> QED  BY <1>5, <2>1, <2>2, <2>3, <2>4, <2>5, <2>6, <2>7, <2>8, <2>9 DEF Continue
<1>6. ASSUME NEW x \in Tx, Start(x) PROVE Goal
  BY <1>3, <1>6 DEF Start, Update, Create, Cancel, Accept, Delete, Places
<1>7. ASSUME NEW x \in Tx, Rollback(x) PROVE Goal
  BY <1>2, <1>7 DEF Rollback, Abort
<1> QED  BY <1>1, <1>5, <1>6, <1>7 DEF Next, Expire, vars

\* Of two updates only one is past the lock of the organization, so that the count
\* of the one that commits still holds; a deletion ends what is promised.
LEMMA AdministratorsKeep ==
    ASSUME IsFiniteSet(User), MemInv, AdminInv, [Next]_vars PROVE AdminInv'
<1>1. CASE Departed
  BY <1>1, DepartedStays DEF AdminInv
<1>2. CASE ~Departed /\ UNCHANGED tables
  <2>1. \E u \in User : Administers(u)'
    BY <1>2 DEF AdminInv, Administers, tables
  <2>2. ASSUME NEW t \in Tx, kind'[t] = "update", place'[t] = "commit", Removes(t)'
        PROVE  \E v \in User \ {subject'[t]} : Administers(v)'
    <3>1. Removes(t) /\ subject'[t] = subject[t]
      BY <1>2, <2>2, BeforeCommit DEF Removes, Administers, tables
    <3>2. \E v \in User \ {subject[t]} : Administers(v)
      BY <1>2, <2>2, <3>1, BeforeCommit, TwoAdministrators DEF AdminInv, AnotherStays
    <3> QED  BY <1>2, <3>1, <3>2 DEF Administers, tables
  <2> QED  BY <2>1, <2>2 DEF AdminInv, AnotherStays
<1>3. ASSUME ~Departed, NEW t \in Tx, CommitUpdate(t) PROVE AdminInv'
  <2>1. /\ UpdateOK(t) /\ kind[t] = "update" /\ place[t] = "commit" /\ End(t, "committed")
        /\ member' = [member EXCEPT ![subject[t]] = input[t]]
        /\ member \in [User -> Memberships \cup {Outsider}]
    BY <1>3 DEF CommitUpdate, Committing, MemInv, RequestOK, TableTypes
  <2>2. \E u \in User : Administers(u)'
    <3>1. CASE Removes(t)
      BY <1>3, <2>1, <3>1 DEF AdminInv, AnotherStays, Administers
    <3>2. CASE ~Removes(t)
      BY <1>3, <2>1, <3>2 DEF AdminInv, Removes, Administers, UpdateOK
    <3> QED  BY <3>1, <3>2
  <2>3. ASSUME NEW x \in Tx, kind'[x] = "update", place'[x] = "commit" PROVE FALSE
    <3>1. x # t /\ kind[x] = "update" /\ place[x] = "commit" /\ locks[x] \cap locks[t] = {}
      BY <2>1, <2>3, EndTypes DEF Rests, MemInv, Apart
    <3>2. Organization \in locks[x] /\ Organization \in locks[t]
      BY <2>1, <3>1 DEF MemInv, RequestOK, UpdateOK
    <3> QED  BY <3>1, <3>2
  <2> QED  BY <2>2, <2>3 DEF AdminInv, AnotherStays
<1>4. ASSUME ~Departed, NEW t \in Tx, CommitCreate(t) \/ CommitCancel(t) PROVE AdminInv'
  <2>1. End(t, "committed") /\ UNCHANGED member
    BY <1>4 DEF CommitCreate, CommitCancel
  <2>2. \A x \in Tx \ {t} : Rests(x)
    BY <2>1, EndTypes
  <2>3. kind'[t] = "none"
    BY <2>1, EndTypes
  <2> QED  BY <1>4, <2>1, <2>2, <2>3 DEF AdminInv, AnotherStays, Removes, Administers, Rests
<1>5. ASSUME ~Departed, NEW t \in Tx, CommitAccept(t) PROVE AdminInv'
  <2>1. /\ AcceptOK(t) /\ place[t] = "commit" /\ End(t, "committed")
        /\ member[subject[t]] = Outsider /\ Outsider \notin Memberships
    BY <1>5, NamesAssumption DEF CommitAccept, Committing, MemInv, RequestOK, AcceptOK
  <2>2. \A u \in User : member[u] # Outsider => member'[u] = member[u]
    BY <1>5, <2>1 DEF CommitAccept, MemInv, TableTypes
  <2>3. \A u \in User : Administers(u) => Administers(u)'
    BY <2>1, <2>2 DEF Administers, Memberships
  <2>4. ASSUME NEW x \in Tx, kind'[x] = "update", place'[x] = "commit", Removes(x)'
        PROVE  \E v \in User \ {subject'[x]} : Administers(v)'
    <3>1. x # t /\ Rests(x) /\ UpdateOK(x)
      BY <2>1, <2>4, EndTypes DEF MemInv, RequestOK, Rests
    <3>2. Removes(x)
      BY <2>2, <2>4, <3>1 DEF Removes, Administers, UpdateOK, Rests
    <3> QED  BY <1>5, <2>3, <2>4, <3>1, <3>2 DEF AdminInv, AnotherStays, Rests
  <2> QED  BY <1>5, <2>3, <2>4 DEF AdminInv, AnotherStays
<1>6. ASSUME ~Departed, NEW t \in Tx, CommitDelete(t) PROVE AdminInv'
  <2>1. subject[t] \in User /\ mail' = [mail EXCEPT ![subject[t]] = Gone]
    BY <1>6 DEF CommitDelete, Committing, MemInv, RequestOK, DeleteOK
  <2> QED  BY <2>1 DEF AdminInv, Departed, MemInv, TableTypes
<1> QED  BY <1>1, <1>2, <1>3, <1>4, <1>5, <1>6, OnlyCommitsWrite

\* updateOrganizationMember: an organization that starts with an administrator
\* has one, until an identity is deleted.
THEOREM AdministratorStays ==
    ASSUME \E u \in User : FirstMember[u] = [role |-> "admin", status |-> "active"]
    PROVE  Spec => []AdministratorRemains
<1>1. Init => AdminInv
  BY DEF Init, AdminInv, Administers, AnotherStays
<1>2. MemInv /\ AdminInv /\ [Next]_vars => AdminInv'
  BY AdministratorsKeep, NamesAssumption
<1>3. AdminInv => AdministratorRemains
  BY DEF AdminInv, AdministratorRemains, Administrators, Departed
<1> QED  BY <1>1, <1>2, <1>3, MembersInvariant, PTL DEF Spec

-----------------------------------------------------------------------------
(* Waiting *)

Underway(t) == place[t] \notin {"idle", "ended"}

\* The rows that the next statement of a request waits for.
Needs(t) ==
    {w \in Lockable :
        \/ place[t] = "organization" /\ w = Organization
        \/ place[t] = "member" /\ w = Row(subject[t])
        \/ place[t] = "insert" /\ w \in {Organization, actor[t]}
        \/ place[t] \in {"pending", "token"} /\ w = letter[t]
        \/ place[t] = "identity" /\ w \in Holder(invitation[letter[t]].mail)
        \/ place[t] = "new" /\ w = invitation[letter[t]].mail
        \/ place[t] = "join" /\ w \in {Organization, Row(subject[t])}
        \/ place[t] = "user" /\ w = subject[t]
        \/ place[t] = "memberships" /\ w = Row(subject[t])}

\* The order in which every request takes them.
Level(w) ==
    IF w \in Invitation THEN 1
    ELSE IF w \in User \cup Mail THEN 2
    ELSE IF w = Organization THEN 3
    ELSE 4

\* What a request can hold when it comes to the statement at its place.
HeldFits(t) ==
    /\ place[t] # "commit" => shares[t] = {}
    /\ place[t] \in {"idle", "ended", "organization", "insert", "pending", "token", "user"} =>
            locks[t] = {}
    /\ place[t] = "authorize" /\ kind[t] = "update" => locks[t] \subseteq {Organization}
    /\ place[t] = "authorize" /\ kind[t] = "create" => locks[t] = {}
    /\ place[t] = "member" => locks[t] \subseteq {Organization}
    /\ place[t] \in {"identity", "new"} => locks[t] \subseteq Invitation
    /\ place[t] = "join" => locks[t] \subseteq Invitation \cup User \cup Mail
    /\ place[t] = "memberships" => locks[t] \subseteq User

WaitInv ==
    /\ shares \in [Tx -> SUBSET (Lockable \cup {NoUser})]
    /\ \A t \in Tx : HeldFits(t)

\* A step of one request leaves the rows of the others to them.
LEMMA OneWaits ==
    ASSUME MemInv, WaitInv, NEW t \in Tx,
           \A x \in Tx \ {t} : /\ place'[x] = place[x] /\ kind'[x] = kind[x]
                               /\ locks'[x] = locks[x] /\ shares'[x] = shares[x],
           shares' \in [Tx -> SUBSET (Lockable \cup {NoUser})],
           HeldFits(t)'
    PROVE  WaitInv'
BY DEF WaitInv, HeldFits

\* A request that ends holds nothing.
LEMMA EndWaits ==
    ASSUME MemInv, WaitInv, NEW t \in Tx, NEW how, End(t, how)
    PROVE  WaitInv'
<1>1. /\ place'[t] = "ended" /\ locks'[t] = {} /\ shares'[t] = {}
      /\ \A x \in Tx \ {t} : /\ place'[x] = place[x] /\ kind'[x] = kind[x]
                              /\ locks'[x] = locks[x] /\ shares'[x] = shares[x]
      /\ shares' \in [Tx -> SUBSET (Lockable \cup {NoUser})]
  BY DEF End, Ask, MemInv, RequestTypes, WaitInv
<1>2. HeldFits(t)'
  BY <1>1 DEF HeldFits
<1>3. QED
  BY <1>1, <1>2, OneWaits

\* A request begins with nothing.
LEMMA StartWaits ==
    ASSUME MemInv, WaitInv, NEW t \in Tx, Start(t)
    PROVE  WaitInv'
<1>1. /\ place \in [Tx -> Places] /\ kind \in [Tx -> {"none", "update", "create", "cancel",
                                                        "accept", "delete"}]
      /\ HeldFits(t)
  BY DEF MemInv, RequestTypes, WaitInv
<1>2. ASSUME NEW k, NEW a, NEW u, NEW i, NEW value, NEW first, Call(t, k, a, u, i, value, first),
             k = "create" \/ first \in {"organization", "pending", "token", "user"},
             first \in {"organization", "pending", "token", "user", "authorize"}
      PROVE  WaitInv'
  <2>1. /\ place'[t] = first /\ kind'[t] = k /\ locks' = locks /\ shares' = shares
        /\ place[t] = "idle"
        /\ \A x \in Tx \ {t} : place'[x] = place[x] /\ kind'[x] = kind[x]
    BY <1>1, <1>2 DEF Call, Ask
  <2>2. HeldFits(t)'
    BY <1>1, <1>2, <2>1 DEF HeldFits
  <2>3. QED
    BY <2>1, <2>2, OneWaits DEF WaitInv
<1>3. QED
  BY <1>2 DEF Start, Update, Create, Cancel, Accept, Delete

\* A statement of a request that goes on: it holds what it held, and the rows
\* that it has waited for.
LEMMA GoesOnWaits ==
    ASSUME MemInv, WaitInv, NEW t \in Tx, NEW rows, NEW next,
           locks' = [locks EXCEPT ![t] = @ \cup rows], place' = [place EXCEPT ![t] = next],
           UNCHANGED <<kind, shares>>, place[t] # "commit",
           next \notin {"idle", "ended", "organization", "pending", "token", "user"},
           next = "authorize" /\ kind[t] = "update" => locks[t] \cup rows \subseteq {Organization},
           next \in {"authorize", "insert"} /\ kind[t] = "create" => locks[t] \cup rows = {},
           next = "insert" => kind[t] = "create",
           next = "member" => locks[t] \cup rows \subseteq {Organization},
           next \in {"identity", "new"} => locks[t] \cup rows \subseteq Invitation,
           next = "join" => locks[t] \cup rows \subseteq Invitation \cup User \cup Mail,
           next = "memberships" => locks[t] \cup rows \subseteq User
    PROVE  WaitInv'
<1>1. /\ locks'[t] = locks[t] \cup rows /\ place'[t] = next /\ shares'[t] = {}
      /\ kind'[t] = kind[t]
      /\ \A x \in Tx \ {t} : /\ place'[x] = place[x] /\ kind'[x] = kind[x]
                              /\ locks'[x] = locks[x] /\ shares'[x] = shares[x]
  BY DEF MemInv, RequestTypes, WaitInv, HeldFits
<1>2. HeldFits(t)'
  BY <1>1 DEF HeldFits
<1>3. QED
  BY <1>1, <1>2, OneWaits DEF WaitInv

\* The rows are taken in their order.
LEMMA ContinueWaits ==
    ASSUME MemInv, WaitInv, NEW t \in Tx, Continue(t)
    PROVE  WaitInv'
<1>1. /\ place \in [Tx -> Places] /\ locks \in [Tx -> SUBSET Lockable]
      /\ letter[t] \in Invitation /\ HeldFits(t) /\ RequestOK(t)
      /\ actor[t] \in User \cup {NoUser}
      /\ shares \in [Tx -> SUBSET (Lockable \cup {NoUser})]
  BY DEF MemInv, RequestTypes, WaitInv
<1>2. ASSUME NEW how, Abort(t, how) PROVE WaitInv'
  BY <1>2, EndWaits DEF Abort
<1>3. ASSUME NEW next, Goto(t, next)
      PROVE  /\ locks' = [locks EXCEPT ![t] = @ \cup {}]
             /\ place' = [place EXCEPT ![t] = next] /\ UNCHANGED <<kind, shares>>
  BY <1>1, <1>3 DEF Goto, request
<1>4. CASE Authorize(t)
  <2>1. CASE Abort(t, "rejected")
    BY <1>2, <2>1
  <2>2. CASE kind[t] = "update" /\ Goto(t, "member")
    BY <1>1, <1>3, <1>4, <2>2, GoesOnWaits DEF HeldFits, Authorize
  <2>3. CASE kind[t] = "create" /\ Goto(t, "insert")
    BY <1>1, <1>3, <1>4, <2>3, GoesOnWaits DEF HeldFits, Authorize
  <2>4. CASE kind[t] = "cancel" /\ Goto(t, "commit")
    BY <1>1, <1>3, <1>4, <2>4, GoesOnWaits DEF HeldFits, Authorize
  <2>5. QED
    BY <1>4, <2>1, <2>2, <2>3, <2>4 DEF Authorize
<1>5. CASE LockOrganization(t)
  <2>1. kind[t] = "update"
    BY <1>5, PlaceOfKind DEF LockOrganization
  <2>2. QED
    BY <1>1, <1>5, <2>1, GoesOnWaits DEF HeldFits, LockOrganization, Take, Hold, request
<1>6. CASE LockMember(t) \/ CountAdministrators(t)
  <2>1. ASSUME NEW rows, NEW next \in {"count", "commit"}, Take(t, rows, next),
               place[t] # "commit"
        PROVE  WaitInv'
    BY <2>1, GoesOnWaits DEF Take, Hold, request
  <2>2. ASSUME Goto(t, "commit"), place[t] # "commit" PROVE WaitInv'
    BY <1>3, <2>2, GoesOnWaits
  <2>3. QED
    BY <1>2, <1>6, <2>1, <2>2 DEF LockMember, CountAdministrators
<1>7. CASE InsertInvitation(t) \/ InsertMember(t)
  <2>1. ASSUME NEW rows \in SUBSET (Lockable \cup {NoUser}), Share(t, rows, "commit")
        PROVE  WaitInv'
    <3>1. /\ place'[t] = "commit"
          /\ \A x \in Tx \ {t} : /\ place'[x] = place[x] /\ kind'[x] = kind[x]
                                  /\ locks'[x] = locks[x] /\ shares'[x] = shares[x]
          /\ shares' \in [Tx -> SUBSET (Lockable \cup {NoUser})]
      BY <1>1, <2>1 DEF Share, request
    <3>2. HeldFits(t)'
      BY <3>1 DEF HeldFits
    <3>3. QED
      BY <3>1, <3>2, OneWaits
  <2>2. {Organization, actor[t]} \subseteq Lockable \cup {NoUser}
    BY <1>1 DEF Lockable
  <2>3. QED
    BY <1>2, <1>7, <2>1, <2>2 DEF InsertInvitation, InsertMember
<1>8. CASE LockPending(t)
  <2>1. kind[t] = "cancel"
    BY <1>8, PlaceOfKind DEF LockPending
  <2>2. ASSUME Take(t, {letter[t]}, "authorize"), place[t] = "pending" PROVE WaitInv'
    BY <2>1, <2>2, GoesOnWaits DEF Take, Hold, request
  <2>3. QED
    BY <1>2, <1>8, <2>2 DEF LockPending
<1>9. CASE LockToken(t)
  <2>1. ASSUME Take(t, {letter[t]}, "identity"), place[t] = "token" PROVE WaitInv'
    BY <1>1, <2>1, GoesOnWaits DEF Take, Hold, request, HeldFits
  <2>2. (\E how \in {"repeated", "rejected"} : Abort(t, how)) \/ Take(t, {letter[t]}, "identity")
    BY <1>9 DEF LockToken
  <2>3. QED
    BY <1>2, <1>9, <2>1, <2>2 DEF LockToken
<1>10. CASE FindIdentity(t)
  <2> DEFINE found == Holder(invitation[letter[t]].mail)
  <2>1. found \subseteq User /\ place[t] = "identity"
    BY <1>10 DEF FindIdentity, Holder
  <2>2. Hold(t, found, IF found = {} THEN "new" ELSE "join") /\ UNCHANGED kind
    BY <1>10 DEF FindIdentity
  <2>3. locks[t] \subseteq Invitation
    BY <1>1, <2>1 DEF HeldFits
  <2> HIDE DEF found
  <2>4. CASE found = {}
    <3>1. Hold(t, {}, "new")
      BY <2>2, <2>4
    <3>2. QED
      BY <2>1, <2>2, <2>3, <3>1, GoesOnWaits DEF Hold
  <2>5. CASE found # {}
    <3>1. Hold(t, found, "join")
      BY <2>2, <2>5
    <3>2. locks[t] \cup found \subseteq Invitation \cup User \cup Mail
      BY <2>1, <2>3
    <3>3. QED
      BY <2>1, <2>2, <3>1, <3>2, GoesOnWaits DEF Hold
  <2>6. QED
    BY <2>4, <2>5
<1>11. CASE InsertIdentity(t)
  <2> DEFINE m == invitation[letter[t]].mail
  <2>1. m \in Mail /\ place[t] = "new"
    BY <1>1, <1>11 DEF InsertIdentity, MemInv, TableTypes, Letters
  <2>2. ASSUME NEW u \in Fresh, Hold(t, {m, u}, "join"), UNCHANGED kind PROVE WaitInv'
    <3>1. u \in User
      BY DEF Fresh
    <3> HIDE DEF m
    <3>2. QED
      BY <1>1, <2>1, <2>2, <3>1, GoesOnWaits DEF Hold, HeldFits
  <2>3. QED
    BY <1>2, <1>11, <2>2 DEF InsertIdentity
<1>12. CASE LockUser(t)
  <2>1. kind[t] = "delete" /\ place[t] = "user"
    BY <1>12, PlaceOfKind DEF LockUser
  <2>2. subject[t] \in User
    BY <1>1, <2>1 DEF RequestOK, DeleteOK
  <2>3. ASSUME Take(t, {subject[t]}, "memberships") PROVE WaitInv'
    BY <1>1, <2>1, <2>2, <2>3, GoesOnWaits DEF Take, Hold, request, HeldFits
  <2>4. QED
    BY <1>2, <1>12, <2>3 DEF LockUser
<1>13. CASE DeleteMemberships(t)
  BY <1>13, GoesOnWaits DEF DeleteMemberships, Take, Hold, request
<1>14. CASE \/ CommitUpdate(t) \/ CommitCreate(t) \/ CommitCancel(t) \/ CommitAccept(t)
            \/ CommitDelete(t)
  BY <1>14, EndWaits DEF CommitUpdate, CommitCreate, CommitCancel, CommitAccept, CommitDelete
<1>15. QED
  BY <1>4, <1>5, <1>6, <1>7, <1>8, <1>9, <1>10, <1>11, <1>12, <1>13, <1>14 DEF Continue

\* What a request holds comes before what it waits for.
LEMMA HeldComesFirst ==
    ASSUME MemInv, WaitInv, NEW t \in Tx, NEW h \in locks[t] \cup shares[t],
           NEW w \in Needs(t)
    PROVE  Underway(t) /\ Level(h) < Level(w)
<1>1. HeldFits(t) /\ RequestOK(t) /\ letter[t] \in Invitation
  BY DEF WaitInv, MemInv, RequestTypes
<1>2. place[t] # "commit"
  BY DEF Needs
<1>3. h \in locks[t] /\ place[t] \in {"member", "identity", "new", "join", "memberships"}
  BY <1>1, <1>2 DEF HeldFits, Needs
<1>4. CASE place[t] = "member"
  <2>1. subject[t] \in User
    BY <1>1, <1>4, PlaceOfKind DEF RequestOK, UpdateOK
  <2>2. h = Organization /\ w = Row(subject[t])
    BY <1>1, <1>3, <1>4 DEF HeldFits, Needs
  <2>3. QED
    BY <1>4, <2>1, <2>2, RowsAssumption DEF Level, Underway
<1>5. CASE place[t] \in {"identity", "new"}
  <2>1. h \in Invitation /\ w \in User \cup Mail
    BY <1>1, <1>3, <1>5 DEF HeldFits, Needs, Holder, MemInv, TableTypes, Letters
  <2>2. QED
    BY <1>5, <2>1, RowsAssumption DEF Level, Underway
<1>6. CASE place[t] = "join"
  <2>1. subject[t] \in User
    BY <1>1, <1>6, PlaceOfKind DEF RequestOK, AcceptOK
  <2>2. h \in Invitation \cup User \cup Mail /\ w \in {Organization, Row(subject[t])}
    BY <1>1, <1>3, <1>6 DEF HeldFits, Needs
  <2>3. QED
    BY <1>6, <2>1, <2>2, RowsAssumption DEF Level, Underway
<1>7. CASE place[t] = "memberships"
  <2>1. subject[t] \in User
    BY <1>1, <1>7, PlaceOfKind DEF RequestOK, DeleteOK
  <2>2. h \in User /\ w = Row(subject[t])
    BY <1>1, <1>3, <1>7 DEF HeldFits, Needs
  <2>3. QED
    BY <1>7, <2>1, <2>2, RowsAssumption DEF Level, Underway
<1>8. QED
  BY <1>3, <1>4, <1>5, <1>6, <1>7

\* If every request under way waited for another, the rows that they wait for
\* would climb without end.
LEMMA SomeoneIsFree ==
    ASSUME MemInv, WaitInv, \E t \in Tx : Underway(t)
    PROVE  \E t \in Tx : Underway(t) /\ Free(t, Needs(t))
<1>1. SUFFICES ASSUME \A t \in Tx : Underway(t) => ~Free(t, Needs(t)) PROVE FALSE
  OBVIOUS
<1>2. ASSUME NEW t \in Tx, Underway(t)
      PROVE  \E x \in Tx, w \in Needs(t) : w \in locks[x] \cup shares[x]
  BY <1>1, <1>2 DEF Free
<1>3. ASSUME NEW x \in Tx, NEW h \in locks[x] \cup shares[x] PROVE Underway(x)
  BY DEF WaitInv, HeldFits, Underway
<1>4. \A x \in Tx : \A h \in locks[x] \cup shares[x] :
          \E y \in Tx : \E w \in locks[y] \cup shares[y] : Level(h) < Level(w)
  BY <1>2, <1>3, HeldComesFirst
<1>5. \A w : Level(w) \in 1..4
  BY DEF Level
<1> DEFINE HeldRows == UNION {locks[x] \cup shares[x] : x \in Tx}
<1>6. \A h \in HeldRows : \E w \in HeldRows : Level(h) < Level(w)
  BY <1>4
<1>7. HeldRows # {}
  BY <1>2
<1> HIDE DEF HeldRows
<1>8. PICK h \in HeldRows : TRUE
  BY <1>7
<1>9. PICK h1 \in HeldRows : Level(h) < Level(h1)
  BY <1>6
<1>10. PICK h2 \in HeldRows : Level(h1) < Level(h2)
  BY <1>6
<1>11. PICK h3 \in HeldRows : Level(h2) < Level(h3)
  BY <1>6
<1>12. PICK h4 \in HeldRows : Level(h3) < Level(h4)
  BY <1>6
<1>13. QED
  <2>1. /\ Level(h) \in 1..4 /\ Level(h1) \in 1..4 /\ Level(h2) \in 1..4
        /\ Level(h3) \in 1..4 /\ Level(h4) \in 1..4
    BY <1>5
  <2>2. QED
    BY <1>9, <1>10, <1>11, <1>12, <2>1

\* The requests of an organization and the deletions of identities never wait
\* for each other in a circle: while one is under way, one finds the rows of its
\* next statement free.
THEOREM NobodyIsStuck ==
    Spec => []((\E t \in Tx : Underway(t)) => \E t \in Tx : Underway(t) /\ Free(t, Needs(t)))
<1>1. Init => WaitInv
  BY DEF Init, WaitInv, HeldFits
<1>2. MemInv /\ WaitInv /\ [Next]_vars => WaitInv'
  <2> SUFFICES ASSUME MemInv, WaitInv, [Next]_vars PROVE WaitInv'
    OBVIOUS
  <2>1. ASSUME NEW t \in Tx, Rollback(t) PROVE WaitInv'
    BY <2>1, EndWaits DEF Rollback, Abort
  <2>2. ASSUME UNCHANGED <<kind, place, locks, shares>> PROVE WaitInv'
    BY <2>2 DEF WaitInv, HeldFits
  <2>3. QED
    BY <2>1, <2>2, StartWaits, ContinueWaits DEF Next, Expire, vars, request
<1>3. QED
  BY <1>1, <1>2, SomeoneIsFree, MembersInvariant, InitMembers, NextMembers, PTL DEF Spec
=============================================================================
