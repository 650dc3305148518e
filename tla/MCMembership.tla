---------------------------- MODULE MCMembership ----------------------------
(***************************************************************************)
(* Instances of Membership for TLC.  u3 is the platform's administrator    *)
(* and no member; u4 is an identity still to be created.                   *)
(***************************************************************************)
EXTENDS Membership, TLC

CONSTANTS u1, u2, u3, u4, a1, a2, a3, a4, i1, i2

Administrator == [role |-> "admin", status |-> "active"]

Demotion == {[role |-> "member", status |-> "active"]}

Administrators12 ==
    [u \in User |-> IF u \in {u1, u2} THEN Administrator ELSE Outsider]

Addresses ==
    [u \in User |-> CASE u = u1 -> a1 [] u = u2 -> a2 [] u = u3 -> a3 [] OTHER -> Unborn]

PlatformAdministrator == {u3}

Invite(m) == [status |-> "pending", mail |-> m, role |-> "admin"]

\* An e-mail without identity is invited; the second invitation can still be
\* created, for that e-mail or for the platform's administrator.
Invited == [i \in Invitation |->
    IF i = i1 THEN Invite(a4) ELSE [Invite(a4) EXCEPT !.status = "none"]]

Offers == {Invite(a3), Invite(a4)}

TxSymmetry == Permutations(Tx)
=============================================================================
