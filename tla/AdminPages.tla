----------------------------- MODULE AdminPages -----------------------------
(***************************************************************************)
(* The pages of apps/web/app/pages/admin that change a row of a register:  *)
(* users, organizations, service grants, OAuth clients and policies.  Each *)
(* keeps what is chosen in the register and what was loaded of it; a       *)
(* button starts a request and what follows its await runs when the answer *)
(* arrives, whatever was clicked in between.  A page is one behaviour: it  *)
(* forgets everything when another one is opened.                          *)
(***************************************************************************)
EXTENDS Integers, FiniteSets

CONSTANTS
    MaxAwaited,     \* bound: requests of a page under way at once, no two equal
    Row,            \* rows of its register
    LastPart,       \* bound: members, invitations or grants of a row
    NoChoice,
    LastRevision    \* bound: the versions of a policy

ASSUME RevisionsAssumption == LastRevision \in Nat \ {0}

VARIABLES
    view,           \* the page
    screen,         \* its register, the row chosen, what was loaded, the forms
    editor,         \* policies.vue instead: the policy open, its draft
    revision,       \* the server: current version of each policy, 0 for none
    awaited,        \* the requests: what each names to the user, what it is sent to
    disturbed,      \* history: another row was chosen while one was under way
    astray,         \* history: an answer was shown of another row than it is of
    unseen          \* history: a version was replaced by a draft of another

varsAdminPages == <<view, screen, editor, revision, awaited, disturbed, astray, unseen>>

Views == {"users", "organizations", "service grants", "clients", "policies"}

\* A target is a row, or one of the members, invitations or grants of a row.
Whole(r) == <<r, 0>>
Parts == 1..LastPart
Targets == (Row \X (0..LastPart)) \cup {NoChoice}
Revisions == (Row \X (1..LastRevision)) \cup {NoChoice}

Request(kind, named, sent) ==
    [kind |-> kind, named |-> named, sent |-> sent, state |-> "sent",
     answer |-> [p \in Row |-> 0]]

InitAdminPages ==
    /\ view \in Views
    /\ screen = [registry |-> TRUE, chosen |-> NoChoice, detail |-> NoChoice, panel |-> "locked",
                 editing |-> NoChoice, cancelling |-> NoChoice, prepared |-> NoChoice,
                 confirming |-> FALSE]
    /\ editor = [open |-> NoChoice, base |-> NoChoice, panel |-> "locked", workspace |-> "locked",
                 catalogue |-> FALSE, listed |-> [p \in Row |-> 0]]
    /\ revision \in [Row -> 0..1]
    /\ awaited = {}
    /\ disturbed = FALSE /\ astray = FALSE /\ unseen = FALSE

Waiting(kinds) == \E c \in awaited : c.kind \in kinds

\* A click that starts nothing, or that starts a request.
Turn(next) ==
    /\ screen' = next
    /\ disturbed' = (disturbed \/ awaited # {})
    /\ UNCHANGED <<awaited, astray>>
Send(kind, named, sent) ==
    LET c == Request(kind, named, sent) IN
    /\ c \notin awaited /\ Cardinality(awaited) < MaxAwaited
    /\ awaited' = awaited \cup {c}
Submit(kind, named, sent, next) ==
    /\ Send(kind, named, sent)
    /\ screen' = next
    /\ UNCHANGED <<disturbed, astray>>

\* Its answer, shown as one about the targets marked.
Arrives(c, kinds) == c.kind \in kinds /\ awaited' = awaited \ {c}
Answered(c, kinds, marked, next) ==
    /\ Arrives(c, kinds)
    /\ astray' = (astray \/ c.named # c.sent \/ marked # {c.sent})
    /\ screen' = next
    /\ UNCHANGED disturbed
Loaded(c) ==
    /\ Arrives(c, {"load"})
    /\ screen' = [screen EXCEPT !.detail = c.sent[1], !.panel = "ready"]
    /\ UNCHANGED <<disturbed, astray>>

There(rows) == {Whole(r) : r \in rows \ {NoChoice}}

\* The catch blocks: a request that is refused, or whose answer is lost.
RequestFails(c) ==
    /\ Arrives(c, {c.kind})
    /\ screen' = [screen EXCEPT !.panel = IF c.kind = "load" THEN "error" ELSE @]
    /\ editor' = [editor EXCEPT
            !.panel = IF c.kind = "history" THEN "error" ELSE @,
            !.workspace = IF c.kind = "workspace" THEN "error" ELSE @]
    /\ UNCHANGED <<revision, disturbed, astray, unseen>>

\* "Fermer", and "Réessayer" after a detail that could not be loaded.
CloseRow ==
    /\ view # "policies" /\ screen.registry /\ screen.chosen # NoChoice
    /\ Turn([screen EXCEPT !.chosen = NoChoice])
RetryDetail ==
    /\ view \in {"users", "service grants"} /\ screen.registry
    /\ screen.chosen # NoChoice /\ screen.panel = "error"
    /\ screen' = [screen EXCEPT !.panel = "locked"]
    /\ UNCHANGED <<awaited, disturbed, astray>>

-----------------------------------------------------------------------------
(* users.vue *)

\* loadRegistry, whose page may not have the identity that was chosen.
LoadRegistry ==
    /\ view = "users"
    /\ Submit("list", NoChoice, NoChoice, [screen EXCEPT !.registry = FALSE])
RegistryLoaded(c) ==
    /\ view = "users" /\ Arrives(c, {"list"})
    /\ \/ /\ screen' = [screen EXCEPT !.registry = TRUE]
          /\ UNCHANGED disturbed
       \/ /\ screen.chosen # NoChoice
          /\ screen' = [screen EXCEPT !.registry = TRUE, !.chosen = NoChoice, !.detail = NoChoice,
                                      !.panel = "locked"]
          /\ disturbed' = (disturbed \/ awaited \ {c} # {})
    /\ UNCHANGED astray

\* Mutant: the detail stays.
SelectUserOnly(r) ==
    /\ view = "users" /\ screen.registry
    /\ Turn([screen EXCEPT !.chosen = r])
SelectUser(r) ==
    /\ view = "users" /\ screen.registry
    /\ Turn([screen EXCEPT !.chosen = r, !.detail = NoChoice, !.panel = "locked"])

LoadUser ==
    /\ view = "users" /\ screen.registry
    /\ screen.chosen # NoChoice /\ screen.panel = "locked"
    /\ Submit("load", Whole(screen.chosen), Whole(screen.chosen),
              [screen EXCEPT !.panel = "loading"])
UserLoaded(c) == view = "users" /\ Loaded(c)

\* The forms of the detail, which name the identity that was loaded.
UserForms ==
    /\ view = "users" /\ screen.registry
    /\ screen.chosen # NoChoice /\ screen.panel = "ready" /\ screen.detail # NoChoice

ChangeStatus ==
    /\ UserForms /\ ~Waiting({"status"})
    /\ Submit("status", Whole(screen.detail), Whole(screen.chosen), screen)

\* It writes the row chosen now, then the detail there is now.
StatusChanged(c) ==
    Answered(c, {"status"},
             IF screen.chosen = NoChoice THEN {} ELSE There({screen.chosen, screen.detail}), screen)

RevokeSessions ==
    /\ UserForms /\ ~Waiting({"sessions"})
    /\ Submit("sessions", Whole(screen.detail), Whole(screen.chosen), screen)
SessionsRevoked(c) ==
    Answered(c, {"sessions"},
             IF screen.detail = NoChoice THEN {} ELSE There({screen.chosen, screen.detail}), screen)

UsersPage ==
    \/ \E r \in Row : SelectUser(r)
    \/ LoadRegistry \/ LoadUser \/ ChangeStatus \/ RevokeSessions
    \/ \E c \in awaited : \/ RegistryLoaded(c) \/ UserLoaded(c)
                          \/ StatusChanged(c) \/ SessionsRevoked(c)

-----------------------------------------------------------------------------
(* organizations.vue *)

Tenant(r) == [screen EXCEPT !.chosen = r, !.detail = NoChoice, !.panel = "locked",
                            !.editing = NoChoice, !.cancelling = NoChoice]

SelectOrganization(r) == view = "organizations" /\ Turn(Tenant(r))

\* The form stays while the panel is not ready, after an error too.
LoadOrganization ==
    /\ view = "organizations"
    /\ screen.chosen # NoChoice /\ screen.panel \notin {"loading", "ready"}
    /\ Submit("load", Whole(screen.chosen), Whole(screen.chosen),
              [screen EXCEPT !.panel = "loading"])
OrganizationLoaded(c) == view = "organizations" /\ Loaded(c)

\* createOrganizationEntry, whose answer chooses the new row.
CreateOrganization ==
    /\ view = "organizations" /\ ~Waiting({"organization"})
    /\ Submit("organization", NoChoice, NoChoice, screen)
OrganizationCreated(c) ==
    /\ Arrives(c, {"organization"})
    /\ \E r \in Row : screen' = Tenant(r)
    /\ disturbed' = (disturbed \/ awaited \ {c} # {})
    /\ UNCHANGED astray

\* Under the title of the row chosen, the forms are those of the detail.
OrganizationForms ==
    /\ view = "organizations"
    /\ screen.chosen # NoChoice /\ screen.panel = "ready" /\ screen.detail # NoChoice

SaveOrganization ==
    /\ OrganizationForms /\ ~Waiting({"save organization"})
    /\ Submit("save organization", Whole(screen.chosen), Whole(screen.detail), screen)

\* Object.assign gives the row chosen now the id of the answer, too.
OrganizationSaved(c) ==
    LET row == c.sent[1] IN
    Answered(c, {"save organization"},
             IF screen.detail = NoChoice THEN {} ELSE There({screen.chosen, screen.detail}),
             IF screen.detail = NoChoice THEN screen
             ELSE [screen EXCEPT !.detail = row, !.chosen = IF @ = NoChoice THEN NoChoice ELSE row])

EditMember(k) ==
    /\ OrganizationForms
    /\ Turn([screen EXCEPT !.editing = <<screen.detail, k>>])
SaveMember ==
    /\ OrganizationForms /\ screen.editing # NoChoice /\ ~Waiting({"member"})
    /\ Submit("member", <<screen.chosen, screen.editing[2]>>,
              <<screen.detail, screen.editing[2]>>, screen)
MemberSaved(c) == Answered(c, {"member"}, {screen.editing} \ {NoChoice}, screen)

InviteMember ==
    /\ OrganizationForms /\ ~Waiting({"invitation"})
    /\ Submit("invitation", Whole(screen.chosen), Whole(screen.detail), screen)
MemberInvited(c) == Answered(c, {"invitation"}, There({screen.detail}), screen)

PrepareCancellation(k) ==
    /\ OrganizationForms
    /\ Turn([screen EXCEPT !.cancelling = <<screen.detail, k>>])
CancelInvitation ==
    /\ OrganizationForms /\ screen.cancelling # NoChoice /\ ~Waiting({"cancellation"})
    /\ Submit("cancellation", <<screen.chosen, screen.cancelling[2]>>, screen.cancelling,
              screen)
InvitationCancelled(c) ==
    Answered(c, {"cancellation"},
             {screen.cancelling} \cap ({screen.detail} \X Parts),
             [screen EXCEPT !.cancelling = IF screen.detail = NoChoice THEN @ ELSE NoChoice])

OrganizationsPage ==
    \/ \E r \in Row : SelectOrganization(r)
    \/ \E k \in Parts : EditMember(k) \/ PrepareCancellation(k)
    \/ LoadOrganization \/ CreateOrganization \/ SaveOrganization \/ SaveMember
    \/ InviteMember \/ CancelInvitation
    \/ \E c \in awaited : \/ OrganizationLoaded(c) \/ OrganizationCreated(c)
                          \/ OrganizationSaved(c) \/ MemberSaved(c)
                          \/ MemberInvited(c) \/ InvitationCancelled(c)

-----------------------------------------------------------------------------
(* service-grants.vue *)

SelectScope(r) ==
    /\ view = "service grants"
    /\ Turn([screen EXCEPT !.chosen = r, !.detail = NoChoice, !.panel = "locked",
                           !.prepared = NoChoice, !.confirming = FALSE])

\* loadWorkspace: the members and the grants of the organization.
LoadGrants ==
    /\ view = "service grants"
    /\ screen.chosen # NoChoice /\ screen.panel = "locked"
    /\ Submit("load", Whole(screen.chosen), Whole(screen.chosen),
              [screen EXCEPT !.panel = "loading"])
GrantsLoaded(c) == view = "service grants" /\ Loaded(c)

GrantForms ==
    /\ view = "service grants"
    /\ screen.chosen # NoChoice /\ screen.panel = "ready"

\* The new grant is shown first in the list there is when the answer comes.
CreateGrant ==
    /\ GrantForms /\ ~Waiting({"grant"})
    /\ Submit("grant", Whole(screen.chosen), Whole(screen.chosen), screen)
GrantCreated(c) == Answered(c, {"grant"}, There({screen.detail}), screen)

PrepareAction(k) ==
    /\ GrantForms /\ screen.detail # NoChoice
    /\ Turn([screen EXCEPT !.prepared = <<screen.detail, k>>, !.confirming = TRUE])

\* "Annuler": preparedAction goes, selectedGrant stays for the answer on its way.
CancelAction ==
    /\ GrantForms /\ screen.confirming
    /\ screen' = [screen EXCEPT !.confirming = FALSE]
    /\ UNCHANGED <<awaited, disturbed, astray>>

\* "Portée exacte", then the request for the grant prepared.
ExecuteAction ==
    /\ GrantForms /\ screen.prepared # NoChoice /\ screen.confirming
    /\ ~Waiting({"revoke", "update"})
    /\ \E kind \in {"revoke", "update"} :
        Submit(kind, <<screen.chosen, screen.prepared[2]>>, screen.prepared, screen)

\* Object.assign makes what is prepared now the grant of the answer.
ActionExecuted(c) ==
    Answered(c, {"revoke", "update"}, {screen.prepared} \ {NoChoice},
             [screen EXCEPT !.prepared =
                IF @ = NoChoice \/ c.kind = "revoke" THEN @ ELSE c.sent])

GrantsPage ==
    \/ \E r \in Row : SelectScope(r)
    \/ \E k \in Parts : PrepareAction(k)
    \/ LoadGrants \/ CreateGrant \/ CancelAction \/ ExecuteAction
    \/ \E c \in awaited : GrantsLoaded(c) \/ GrantCreated(c) \/ ActionExecuted(c)

-----------------------------------------------------------------------------
(* oauth-clients.vue *)

SelectClient(r) == view = "clients" /\ Turn([screen EXCEPT !.chosen = r])

\* updateClient, rotateSecret and deleteClient, one at a time: canAct.
ClientActions == {"uris", "rotation", "deletion"}

ActOnClient ==
    /\ view = "clients" /\ screen.chosen # NoChoice /\ ~Waiting(ClientActions)
    /\ \E kind \in ClientActions :
        Submit(kind, Whole(screen.chosen), Whole(screen.chosen), screen)

\* The URIs and the secret go to the client selected now, or it is dropped.
ClientActedOn(c) ==
    Answered(c, ClientActions, There({screen.chosen}),
             [screen EXCEPT !.chosen = IF c.kind = "deletion" THEN NoChoice ELSE @])

\* createClient, whose form is beside the register and leaves the selection.
CreateClient ==
    /\ view = "clients" /\ ~Waiting({"client"})
    /\ Submit("client", NoChoice, NoChoice, screen)
ClientCreated(c) ==
    /\ Arrives(c, {"client"})
    /\ UNCHANGED <<screen, disturbed, astray>>

ClientsPage ==
    \/ \E r \in Row : SelectClient(r)
    \/ ActOnClient \/ CreateClient
    \/ \E c \in awaited : ClientActedOn(c) \/ ClientCreated(c)

-----------------------------------------------------------------------------
(* policies.vue *)

Opened(revised, next) ==
    editor' = [next EXCEPT !.open = revised, !.base = revised, !.panel = "ready"]

\* The register and the editor are on the screen.
Workspace == view = "policies" /\ editor.workspace \in {"ready", "empty"}

ChangeOrganization ==
    /\ view = "policies"
    /\ editor' = [editor EXCEPT !.open = NoChoice, !.panel = "locked", !.workspace = "locked",
                                !.catalogue = FALSE, !.listed = [p \in Row |-> 0]]
    /\ UNCHANGED <<revision, awaited, unseen>>

\* The key of the service is typed in, or "Réessayer": what is open stays.
LockWorkspace ==
    /\ view = "policies"
    /\ editor' = [editor EXCEPT !.workspace = "locked"]
    /\ UNCHANGED <<revision, awaited, unseen>>

LoadWorkspace ==
    /\ view = "policies"
    /\ Send("workspace", NoChoice, NoChoice)
    /\ editor' = [editor EXCEPT !.open = NoChoice, !.panel = "locked", !.workspace = "loading"]
    /\ UNCHANGED <<revision, unseen>>
WorkspaceLoaded(c) ==
    /\ c.state = "answered" /\ Arrives(c, {"workspace"})
    /\ LET found == c.answer IN
       editor' = [editor EXCEPT !.catalogue = TRUE, !.listed = found,
                    !.workspace = IF \E p \in Row : found[p] > 0 THEN "ready" ELSE "empty"]
    /\ UNCHANGED <<revision, unseen>>

CreateDraft ==
    /\ Workspace
    /\ Opened(NoChoice, editor)
    /\ UNCHANGED <<revision, awaited, unseen>>

\* Mutant: the editor of the policy before stays.
SelectPolicyOnly(p) ==
    /\ Workspace /\ editor.workspace = "ready" /\ editor.listed[p] > 0
    /\ editor' = [editor EXCEPT !.open = <<p, editor.listed[p]>>]
    /\ UNCHANGED <<revision, awaited, unseen>>

\* With the version of the register, until its history is loaded.
SelectPolicy(p) ==
    /\ Workspace /\ editor.workspace = "ready" /\ editor.listed[p] > 0
    /\ editor' = [editor EXCEPT !.open = <<p, editor.listed[p]>>, !.panel = "locked"]
    /\ UNCHANGED <<revision, awaited, unseen>>

RetryHistory ==
    /\ Workspace /\ editor.panel = "error"
    /\ editor' = [editor EXCEPT !.panel = "locked"]
    /\ UNCHANGED <<revision, awaited, unseen>>

LoadHistory ==
    /\ Workspace /\ editor.open # NoChoice /\ editor.panel = "locked"
    /\ Send("history", NoChoice, editor.open)
    /\ editor' = [editor EXCEPT !.panel = "loading"]
    /\ UNCHANGED <<revision, unseen>>

\* The policy of the answer and the document of its current version.
HistoryLoaded(c) ==
    LET p == c.sent[1] IN
    /\ c.kind = "history" /\ c.state = "answered"
    /\ Arrives(c, {"history"})
    /\ Opened(<<p, c.answer[p]>>, editor)
    /\ UNCHANGED <<revision, unseen>>

\* A PUT that expects the version open, or a POST.
SavePolicy ==
    /\ Workspace /\ editor.panel = "ready" /\ editor.catalogue /\ ~Waiting({"save"})
    /\ Send("save", editor.base, editor.open)
    /\ UNCHANGED <<editor, revision, unseen>>

\* Its answer is the policy open, whatever was selected since.
PolicySaved(c) ==
    LET p == c.sent[1]
        saved == c.answer[p]
    IN
    /\ c.kind = "save" /\ c.state = "answered"
    /\ Arrives(c, {"save"})
    /\ Opened(<<p, saved>>, [editor EXCEPT !.workspace = "ready", !.listed[p] = saved])
    /\ UNCHANGED <<revision, unseen>>

\* The server reads, or appends a version to the one that is expected.
AnswersWith(c, sent, about) ==
    awaited' = (awaited \ {c}) \cup
        {[c EXCEPT !.state = "answered", !.sent = sent,
                   !.answer = [p \in Row |-> IF p \in about THEN revision'[p] ELSE 0]]}

ServeRead(c) ==
    /\ c.kind \in {"workspace", "history"} /\ c.state = "sent"
    /\ UNCHANGED <<editor, revision, unseen>>
    /\ AnswersWith(c, c.sent, IF c.kind = "workspace" THEN Row ELSE {c.sent[1]})
ServeSave(c) ==
    /\ c.kind = "save" /\ c.state = "sent"
    /\ \E p \in Row :
        /\ IF c.sent = NoChoice THEN revision[p] = 0 ELSE c.sent = <<p, revision[p]>>
        /\ revision[p] < LastRevision
        /\ revision' = [revision EXCEPT ![p] = @ + 1]
        /\ AnswersWith(c, <<p, revision[p] + 1>>, {p})
    /\ unseen' = (unseen \/ c.named # c.sent)
    /\ UNCHANGED editor

\* Another administrator saves a version.
ReviseElsewhere(p) ==
    /\ view = "policies" /\ revision[p] \in 1..LastRevision - 1
    /\ revision' = [revision EXCEPT ![p] = @ + 1]
    /\ UNCHANGED <<editor, awaited, unseen>>

PoliciesPage ==
    \/ ChangeOrganization \/ LockWorkspace \/ CreateDraft \/ RetryHistory
    \/ \E p \in Row : SelectPolicy(p) \/ ReviseElsewhere(p)
    \/ LoadWorkspace \/ LoadHistory \/ SavePolicy
    \/ \E c \in awaited : \/ WorkspaceLoaded(c) \/ HistoryLoaded(c) \/ PolicySaved(c)
                          \/ ServeRead(c) \/ ServeSave(c)

-----------------------------------------------------------------------------
NextAdminPages ==
    /\ \/ /\ CloseRow \/ RetryDetail \/ UsersPage \/ OrganizationsPage \/ GrantsPage \/ ClientsPage
          /\ UNCHANGED <<editor, revision, unseen>>
       \/ PoliciesPage /\ UNCHANGED <<screen, disturbed, astray>>
       \/ \E c \in awaited : RequestFails(c)
    /\ UNCHANGED view

SpecAdminPages == InitAdminPages /\ [][NextAdminPages]_varsAdminPages

-----------------------------------------------------------------------------
(* Properties *)

\* The screen, the editor and the requests have their types.
TypeOKAdminPages ==
    /\ view \in Views
    /\ screen \in [registry : BOOLEAN, chosen : Row \cup {NoChoice}, detail : Row \cup {NoChoice},
                   panel : {"locked", "loading", "ready", "error"},
                   editing : Targets, cancelling : Targets, prepared : Targets,
                   confirming : BOOLEAN]
    /\ editor.open \in Revisions /\ editor.base \in Revisions
    /\ revision \in [Row -> 0..LastRevision]
    /\ {disturbed, astray, unseen} \subseteq BOOLEAN

\* "Chaque version part de la révision actuellement ouverte" (policies.vue:333):
\* a version that the editor publishes replaces the one its draft was opened
\* from, and a new policy no draft of another, in whatever order answers
\* arrive, rows are clicked and others publish.
PublishesOverWhatItOpened == ~unseen

\* "Portée exacte", "cette seule identité": until another row is chosen under a
\* pending request, what a form names is what its request goes to and what its
\* answer is shown of, and the detail is the one of the row chosen.
SteadyPageActsAsShown ==
    ~disturbed =>
        /\ ~astray
        /\ screen.chosen # NoChoice /\ screen.panel = "ready" => screen.detail = screen.chosen

\* What the pages do is what they say.
PagesActAsShown == PublishesOverWhatItOpened /\ SteadyPageActsAsShown
=============================================================================
