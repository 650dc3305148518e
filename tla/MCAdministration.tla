-------------------------- MODULE MCAdministration --------------------------
(***************************************************************************)
(* Instances of IamAdministration and of ServiceGrants for TLC.  They share*)
(* no row and no lock, so a behaviour of the instance is one of either,    *)
(* with the other at rest where it starts.                                 *)
(***************************************************************************)
EXTENDS IamAdministration, ServiceGrants, TLC

CONSTANTS d1, d2, x1, x2

VARIABLE part

Calls == [d \in Document |-> IF d = d1 THEN {x1} ELSE {x1, x2}]

\* The operations that meet on the same rows.
Meetings == {{"create", "version", "rollback", "history"},
             {"version", "rollback", "history"},
             {"version", "status", "entry status"},
             {"attach", "detach", "status"},
             {"service", "transfer", "entry", "entry status"},
             {"group", "member"}}

\* A part at rest: the mix of no operation, grants without a request.
AtRest ==
    \/ part = "administration"
    \/ part = "grants" /\ mix = {"group", "member"} /\ versions[1].document = d1
       /\ attachment = [a \in Attachment |-> "none"]

InitParts ==
    /\ part \in {"administration", "grants"}
    /\ InitAdministration /\ Init /\ AtRest

NextParts ==
    /\ \/ part = "administration" /\ NextAdministration /\ UNCHANGED vars
       \/ part = "grants" /\ Next /\ UNCHANGED varsAdministration
    /\ UNCHANGED part

SpecParts == InitParts /\ [][NextParts]_<<part, vars, varsAdministration>>

\* The requests of both parts are named alike, and so are their rows.
Symmetry == Permutations(Edit) \cup Permutations(Attachment)
=============================================================================
