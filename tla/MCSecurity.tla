----------------------------- MODULE MCSecurity -----------------------------
(***************************************************************************)
(* Instances for TLC of the parts that guard credentials, tokens, keys,    *)
(* decisions and their journal, on the server and in its clients.  They    *)
(* share no row, key or lock with each other: a behaviour of the instance  *)
(* is one of one part, with the others at rest where they start.           *)
(***************************************************************************)
EXTENDS Mfa, RateLimit, EmailVerification, SigningKeys, OAuthLifecycle,
        ResourceClient, SessionClient, AdminPages, AuditLog, MCPolicyEvaluator

VARIABLE part

varsParts == <<varsMfa, varsRateLimit, varsEmailVerification, varsSigningKeys, varsOAuth,
               varsResourceClient, varsSessionClient, varsAdminPages, varsAuditLog,
               varsPolicyEvaluator>>

\* A part with several initial states is at rest in one of them.
EvaluatorAtRest ==
    /\ attachedTo = <<<<CHOOSE s \in Statement : ValidPolicyDocument(<<s>>)>>>>
    /\ asked = CHOOSE q \in Question : TRUE

\* Rows are alike: of one of them there is a policy if there is of any.
AnyRow == CHOOSE r \in Row : TRUE

InitParts ==
    /\ part \in {"mfa", "rate limit", "email verification", "signing keys", "oauth",
                 "resource client", "session client", "admin pages", "audit log", "evaluator"}
    /\ InitMfa /\ (part # "mfa" => secret = NoSecret)
    /\ InitSigningKeys /\ (part # "signing keys" => expiredKeys = {})
    /\ InitResourceClient
    /\ part # "resource client" => \A k \in PolicyScope : held[k] = CHOOSE p \in Policies : TRUE
    /\ InitAdminPages
    /\ IF part = "admin pages" THEN \A r \in Row : revision[r] <= revision[AnyRow]
       ELSE view = "users" /\ revision = [p \in Row |-> 0]
    /\ InitRateLimit /\ InitEmailVerification /\ InitOAuth /\ InitSessionClient /\ InitAuditLog
    /\ IF part = "evaluator" THEN TRUE ELSE EvaluatorAtRest
    /\ InitPolicyEvaluator

NextParts ==
    /\ \/ /\ part = "mfa" /\ NextMfa
          /\ UNCHANGED <<varsRateLimit, varsEmailVerification, varsSigningKeys, varsOAuth,
                         varsResourceClient, varsSessionClient, varsAdminPages, varsAuditLog,
                         varsPolicyEvaluator>>
       \/ /\ part = "rate limit" /\ NextRateLimit
          /\ UNCHANGED <<varsMfa, varsEmailVerification, varsSigningKeys, varsOAuth,
                         varsResourceClient, varsSessionClient, varsAdminPages, varsAuditLog,
                         varsPolicyEvaluator>>
       \/ /\ part = "email verification" /\ NextEmailVerification
          /\ UNCHANGED <<varsMfa, varsRateLimit, varsSigningKeys, varsOAuth,
                         varsResourceClient, varsSessionClient, varsAdminPages, varsAuditLog,
                         varsPolicyEvaluator>>
       \/ /\ part = "signing keys" /\ NextSigningKeys
          /\ UNCHANGED <<varsMfa, varsRateLimit, varsEmailVerification, varsOAuth,
                         varsResourceClient, varsSessionClient, varsAdminPages, varsAuditLog,
                         varsPolicyEvaluator>>
       \/ /\ part = "oauth" /\ NextOAuth
          /\ UNCHANGED <<varsMfa, varsRateLimit, varsEmailVerification, varsSigningKeys,
                         varsResourceClient, varsSessionClient, varsAdminPages, varsAuditLog,
                         varsPolicyEvaluator>>
       \/ /\ part = "resource client" /\ NextResourceClient
          /\ UNCHANGED <<varsMfa, varsRateLimit, varsEmailVerification, varsSigningKeys,
                         varsOAuth, varsSessionClient, varsAdminPages, varsAuditLog,
                         varsPolicyEvaluator>>
       \/ /\ part = "session client" /\ NextSessionClient
          /\ UNCHANGED <<varsMfa, varsRateLimit, varsEmailVerification, varsSigningKeys,
                         varsOAuth, varsResourceClient, varsAdminPages, varsAuditLog,
                         varsPolicyEvaluator>>
       \/ /\ part = "admin pages" /\ NextAdminPages
          /\ UNCHANGED <<varsMfa, varsRateLimit, varsEmailVerification, varsSigningKeys,
                         varsOAuth, varsResourceClient, varsSessionClient, varsAuditLog,
                         varsPolicyEvaluator>>
       \/ /\ part = "audit log" /\ NextAuditLog
          /\ UNCHANGED <<varsMfa, varsRateLimit, varsEmailVerification, varsSigningKeys,
                         varsOAuth, varsResourceClient, varsSessionClient, varsAdminPages,
                         varsPolicyEvaluator>>
       \/ /\ part = "evaluator" /\ NextPolicyEvaluator
          /\ UNCHANGED <<varsMfa, varsRateLimit, varsEmailVerification, varsSigningKeys,
                         varsOAuth, varsResourceClient, varsSessionClient, varsAdminPages,
                         varsAuditLog>>
    /\ UNCHANGED part

SpecParts == InitParts /\ [][NextParts]_<<part, varsParts>>

\* Every part keeps its types, and no lock outlives the request that took it.
TypesOK ==
    /\ TypeOKMfa /\ TypeOKRateLimit /\ TypeOKEmailVerification /\ TypeOKSigningKeys
    /\ TypeOKOAuth /\ TypeOKResourceClient /\ TypeOKSessionClient
    /\ TypeOKAdminPages /\ TypeOKAuditLog
=============================================================================
