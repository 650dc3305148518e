------------------------- MODULE VersionedRegister -------------------------
(***************************************************************************)
(* What the authors of a policy rely on: its texts form a sequence that    *)
(* only grows, an author names the version its change is built on, and the *)
(* change is made, at once, if that is the last version still.  The first  *)
(* version is built on none.                                               *)
(***************************************************************************)
EXTENDS Naturals, Sequences

CONSTANTS Author, Text

VARIABLES
    log,            \* the texts
    basis,          \* the version each author builds on
    made            \* the version it has made, 0 before

vars == <<log, basis, made>>

Init ==
    /\ log \in {<<>>} \cup {<<t>> : t \in Text}
    /\ basis = [a \in Author |-> 0]
    /\ made = [a \in Author |-> 0]

Read(a) ==
    /\ made[a] = 0
    /\ basis'[a] \in Nat
    /\ basis' = [basis EXCEPT ![a] = basis'[a]]
    /\ UNCHANGED <<log, made>>

Write(a) ==
    /\ made[a] = 0
    /\ basis[a] = Len(log)
    /\ \E t \in Text : log' = Append(log, t)
    /\ made' = [made EXCEPT ![a] = Len(log')]
    /\ UNCHANGED basis

Next == \E a \in Author : Read(a) \/ Write(a)

Spec == Init /\ [][Next]_vars
=============================================================================
