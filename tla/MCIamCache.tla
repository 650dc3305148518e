----------------------------- MODULE MCIamCache -----------------------------
(***************************************************************************)
(* Instances of IamCache for TLC.                                          *)
(***************************************************************************)
EXTENDS IamCache, TLC

CONSTANTS s1, s2, m1, m2, m3, r1, r2, q1, Cases

\* Every request has an id of its own, or one id is used for all of them.
OwnIds == [m \in Mutation |-> m]
SameId == [m \in Mutation |-> q1]

MCSymmetry ==
    Permutations(Mutation) \cup Permutations(Reader)

-----------------------------------------------------------------------------
(* Two instances in one: both readers in one scope with the mutations of    *)
(* its policies, or one reader and both scopes with those of the group; or  *)
(* an instance of its own, whole.                                           *)

VARIABLE case

OneScope ==
    /\ attached = {}
    /\ \A s \in Scope \ {AnyScope} : policy[s] = 0
    /\ \A r \in Reader : scope[r] = AnyScope
    /\ \A m \in Mutation : kindOf[m] \in {"none", "policy"}

\* Its mutations are of different kinds, and no invalidation fails.
TwoScopes ==
    /\ Cardinality({r \in Reader : at[r] # "idle"}) <= 1
    /\ clean = Mutation
    /\ \A m, n \in Mutation : kindOf[m] = kindOf[n] => m = n \/ kindOf[m] = "none"
    /\ \A m \in Mutation : kindOf[m] # "policy"

Confined ==
    /\ case = "one scope" => OneScope
    /\ case = "two scopes" => TwoScopes

InitCases == Init /\ case \in Cases /\ Confined
NextCases == Next /\ UNCHANGED case /\ Confined'
SpecCases == InitCases /\ [][NextCases]_<<vars, case>>

LiveSpecCases ==
    SpecCases /\ \A e \in Entries : WF_<<vars, case>>(Expire(e) /\ UNCHANGED case)
=============================================================================
