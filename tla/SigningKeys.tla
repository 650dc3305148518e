---------------------------- MODULE SigningKeys ----------------------------
(***************************************************************************)
(* The keys of the JWTs and their emergency rotation                       *)
(* (apps/api/src/signing-keys.ts), its statements interleaved with those   *)
(* of other rotations and with the signatures of Better Auth's plugin,     *)
(* which takes the newest key and creates one when that has expired.       *)
(***************************************************************************)
EXTENDS Naturals, FiniteSets

CONSTANTS
    Signer,         \* bound: rotations and signatures
    LastKey         \* bound: keys are numbered as they are created

ASSUME LastKeyAssumption == LastKey \in Nat \ {0}

VARIABLES
    newest,         \* jwks: the keys are 1..newest
    expiredKeys,    \* those whose expires_at has passed
    signer,         \* a request: what it does, where it is
    picked,         \* the key it read, and whether that had expired
    existing,       \* the keys a rotation read
    replaced,       \* history: the previous key of the rotations that succeeded
    misused         \* history: keys picked for a signature after they were replaced

varsSigningKeys == <<newest, expiredKeys, signer, picked, existing, replaced, misused>>

Unsigned == [call |-> "none", at |-> "idle"]
NoKey == [key |-> 0, expired |-> FALSE]

InitSigningKeys ==
    /\ newest = 1
    /\ expiredKeys \in SUBSET {1}
    /\ signer = [s \in Signer |-> Unsigned]
    /\ picked = [s \in Signer |-> NoKey]
    /\ existing = [s \in Signer |-> 0]
    /\ replaced = {} /\ misused = {}

Step(s, a) == signer[s].at = a
Then(s, a) == signer' = [signer EXCEPT ![s].at = a]

Stop(s) ==
    /\ signer' = [signer EXCEPT ![s] = [Unsigned EXCEPT !.at = "ended"]]
    /\ picked' = [picked EXCEPT ![s] = NoKey]
    /\ existing' = [existing EXCEPT ![s] = 0]

\* A token is issued, or an administrator posts /rotate with a fresh code.
BeginSigner(s) ==
    /\ Step(s, "idle")
    /\ \E c \in {"sign", "rotate"} :
        signer' = [signer EXCEPT ![s] =
            [call |-> c, at |-> IF c = "sign" THEN "latest" ELSE "read"]]
    /\ UNCHANGED <<newest, expiredKeys, picked, existing, replaced, misused>>

\* The existing keys, newest first: the previous one is the newest.
ReadKeys(s) ==
    /\ Step(s, "read")
    /\ existing' = [existing EXCEPT ![s] = newest]
    /\ Then(s, "expire")
    /\ picked' = [picked EXCEPT ![s] = [key |-> newest, expired |-> newest \in expiredKeys]]
    /\ UNCHANGED <<newest, expiredKeys, replaced, misused>>

\* expiresAt = now
ExpirePrevious(s) ==
    /\ Step(s, "expire")
    /\ expiredKeys' = expiredKeys \cup {picked[s].key}
    /\ Then(s, "latest")
    /\ UNCHANGED <<newest, picked, existing, replaced, misused>>

\* signJWT: the newest key, and its expiry ...
LatestKey(s) ==
    /\ Step(s, "latest")
    /\ Then(s, IF newest \in expiredKeys THEN "create" ELSE "signed")
    /\ misused' = IF newest \in replaced \ expiredKeys THEN misused \cup {newest} ELSE misused
    /\ UNCHANGED <<newest, expiredKeys, picked, existing, replaced>>

\* ... and a new one in the place of one that has expired.
CreateKey(s) ==
    /\ Step(s, "create") /\ newest < LastKey
    /\ newest' = newest + 1
    /\ Then(s, "signed")
    /\ UNCHANGED <<expiredKeys, picked, existing, replaced, misused>>

EndSignature(s) ==
    /\ Step(s, "signed") /\ signer[s].call = "sign"
    /\ Stop(s)
    /\ UNCHANGED <<newest, expiredKeys, replaced, misused>>

\* Mutant: no next key is a success, too.
EndRotationAnyway(s) ==
    /\ Step(s, "signed") /\ signer[s].call = "rotate"
    /\ replaced' = replaced \cup {picked[s].key}
    /\ Stop(s)
    /\ UNCHANGED <<newest, expiredKeys, misused>>

\* The newest key that was not there before, and the audit event.
EndRotation(s) ==
    /\ Step(s, "signed") /\ signer[s].call = "rotate"
    /\ IF newest > existing[s]
       THEN /\ replaced' = replaced \cup {picked[s].key}
            /\ Stop(s)
       ELSE /\ Then(s, "restore")
            /\ UNCHANGED <<picked, existing, replaced>>
    /\ UNCHANGED <<newest, expiredKeys, misused>>

\* A statement throws: the catch of a rotation, or a 500.
SignerFails(s) ==
    /\ signer[s].at \in {"read", "expire", "latest", "create", "signed"}
    /\ IF signer[s].call = "rotate" /\ signer[s].at \in {"latest", "create", "signed"}
       THEN Then(s, "restore") /\ UNCHANGED <<picked, existing>>
       ELSE Stop(s)
    /\ UNCHANGED <<newest, expiredKeys, replaced, misused>>

\* expiresAt = previous.expiresAt, as it was read.
RestorePrevious(s) ==
    /\ Step(s, "restore")
    /\ expiredKeys' = IF picked[s].expired THEN expiredKeys ELSE expiredKeys \ {picked[s].key}
    /\ Stop(s)
    /\ UNCHANGED <<newest, replaced, misused>>

\* The process dies, or the restoring update fails too.
RestoreFails(s) ==
    /\ signer[s].at \notin {"idle", "ended"}
    /\ Stop(s)
    /\ UNCHANGED <<newest, expiredKeys, replaced, misused>>

\* SIGNING_KEY_ROTATION_SECONDS
LapseKey ==
    /\ newest \notin expiredKeys
    /\ expiredKeys' = expiredKeys \cup {newest}
    /\ UNCHANGED <<newest, signer, picked, existing, replaced, misused>>

NextSigningKeys ==
    \/ \E s \in Signer :
        \/ BeginSigner(s) \/ ReadKeys(s) \/ ExpirePrevious(s) \/ LatestKey(s) \/ CreateKey(s)
        \/ EndSignature(s) \/ EndRotation(s) \/ SignerFails(s) \/ RestorePrevious(s) \/ RestoreFails(s)
    \/ LapseKey

SpecSigningKeys == InitSigningKeys /\ [][NextSigningKeys]_varsSigningKeys

-----------------------------------------------------------------------------
(* Properties *)

\* The keys and the requests have their types; a rotation works on a key that
\* was there.
TypeOKSigningKeys ==
    /\ newest \in 1..LastKey /\ expiredKeys \subseteq 1..newest
    /\ \A s \in Signer :
        /\ signer[s].at \in {"idle", "read", "expire", "latest", "create", "signed", "restore", "ended"}
        /\ existing[s] \in 0..newest /\ picked[s].key = existing[s]
    /\ replaced \subseteq 1..newest

\* rotate: an administrator "can force an immediate replacement"
\* (README.md:68): a key that a rotation reported as replaced is never taken for
\* a signature again, even when another rotation fails and restores its expiry.
ReplacedKeySignsNothing == misused = {}
=============================================================================
