----------------------------- MODULE PartsProofs -----------------------------
(***************************************************************************)
(* The instance of MCSecurity, for every value of its constants: what is   *)
(* proved of each part holds of the behaviours in which the others rest.   *)
(*                                                                         *)
(* The argument: a step of the instance is a step of one part and leaves   *)
(* the variables of the others alone, so that it is, for each part, a step *)
(* of its specification or none.                                           *)
(***************************************************************************)
EXTENDS MCSecurity, SecurityProofs, ClientProofs

\* The parts start as their own specifications say.
LEMMA PartsInitially ==
    InitParts =>
        /\ InitMfa /\ InitRateLimit /\ InitEmailVerification /\ InitSigningKeys /\ InitOAuth
        /\ InitResourceClient /\ InitSessionClient /\ InitAdminPages /\ InitAuditLog
        /\ InitPolicyEvaluator
BY DEF InitParts

\* A step of the instance is one of each part's own, or none of it.
LEMMA PartsStep ==
    [NextParts]_<<part, varsParts>> =>
        /\ [NextMfa]_varsMfa
        /\ [NextRateLimit]_varsRateLimit
        /\ [NextEmailVerification]_varsEmailVerification
        /\ [NextSigningKeys]_varsSigningKeys
        /\ [NextOAuth]_varsOAuth
        /\ [NextResourceClient]_varsResourceClient
        /\ [NextSessionClient]_varsSessionClient
        /\ [NextAdminPages]_varsAdminPages
        /\ [NextAuditLog]_varsAuditLog
        /\ [NextPolicyEvaluator]_varsPolicyEvaluator
BY DEF NextParts, varsParts

\* Every behaviour of the instance is one of each part: what TLC explores in the
\* run security are behaviours of the ten specifications.
THEOREM PartsAreThemselves ==
    SpecParts =>
        /\ SpecMfa /\ SpecRateLimit /\ SpecEmailVerification /\ SpecSigningKeys /\ SpecOAuth
        /\ InitResourceClient /\ [][NextResourceClient]_varsResourceClient
        /\ SpecSessionClient /\ SpecAdminPages /\ SpecAuditLog /\ SpecPolicyEvaluator
<1> QED
  BY PartsInitially, PartsStep, PTL
     DEF SpecParts, SpecMfa, SpecRateLimit, SpecEmailVerification, SpecSigningKeys, SpecOAuth,
         SpecSessionClient, SpecAdminPages, SpecAuditLog, SpecPolicyEvaluator

\* TypesOK is the type invariants of the parts together.
THEOREM PartsTypesKept == SpecParts => []TypesOK
<1>1. /\ ResourceInv => TypeOKResourceClient
      /\ SessionInv => TypeOKSessionClient
  BY DEF ResourceInv, SessionInv
<1>2. InitParts => ResourceInv /\ SessionInv
  BY PartsInitially, InitCarries, SessionInitially
<1>3. SpecParts => [](TypeOKResourceClient /\ TypeOKSessionClient)
  BY <1>1, <1>2, PartsStep, ResourceNextKeeps, SessionNextKeeps, PTL DEF SpecParts
<1>4. TypesOK <=>
        /\ TypeOKMfa /\ TypeOKRateLimit /\ TypeOKEmailVerification /\ TypeOKSigningKeys
        /\ TypeOKOAuth /\ TypeOKAdminPages /\ TypeOKAuditLog
        /\ TypeOKResourceClient /\ TypeOKSessionClient
  BY DEF TypesOK
<1> QED
  BY <1>3, <1>4, PartsAreThemselves, MfaTypesKept, LimiterTypesKept, MailTypesKept, KeyTypesKept,
     OAuthTypesKept, PageTypesKept, JournalTypesKept, PTL
==============================================================================
