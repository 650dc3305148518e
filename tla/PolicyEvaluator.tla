--------------------------- MODULE PolicyEvaluator ---------------------------
(***************************************************************************)
(* The documents of packages/permissions from the API to a decision: each  *)
(* is validated when its policy is written, those that apply to a subject  *)
(* are merged (mergeEffectivePolicies), the client of the resource server  *)
(* parses the merged statements and evaluates them (packages/elysia-auth). *)
(*                                                                         *)
(* An identifier is the sequence of its segments, the service first; the   *)
(* characters of a segment are abstracted to whether its pattern takes it. *)
(***************************************************************************)
EXTENDS Naturals, Sequences, FiniteSets

Seqs == INSTANCE SequencesExt

CONSTANTS
    Service,        \* the service of the request
    AnyService,     \* names that servicePattern takes
    Segment,        \* segments that the patterns take
    Variables,      \* the declared condition variables: name -> type
    MaxStatements,  \* POLICY_LIMITS.statements
    Statement,      \* bound: the statements that are tried
    Question,       \* bound: the requests: [action, resource, context]
    NoSid,          \* a statement without a sid
    Documents       \* bound: how many statements each document has at most

\* What the schemas of the requests and of the statements leave: arrays of
\* strings, and identifiers are split at ":".  The limit is a number.
ASSUME EvaluatorAssumption ==
    /\ MaxStatements \in Nat
    /\ \A s \in Statement : {s.actions, s.resources} \subseteq Seq(Seq(STRING))
    /\ \A q \in Question : {q.action, q.resource} \subseteq Seq(STRING)
    /\ Documents \in Seq(Nat)

VARIABLES
    attachedTo,     \* the documents of the policies that apply, by name
    asked,          \* the request
    statements,     \* the merged statements
    position,       \* how many of them have been looked at
    allow, deny,    \* the positions that matched
    verdict         \* none, a reason, or "policy_unavailable"

varsPolicyEvaluator == <<attachedTo, asked, statements, position, allow, deny, verdict>>

-----------------------------------------------------------------------------
(* Documents *)

\* isPolicyIdentifier: a wildcard is the last segment or not there at all.
IsPolicyIdentifier(v) ==
    /\ Len(v) > 1 /\ v[1] \in AnyService
    /\ \A i \in 2..Len(v) : v[i] \in Segment \/ (v[i] = "*" /\ i = Len(v))

Concrete(v) == IsPolicyIdentifier(v) /\ v[Len(v)] # "*"

\* validateStringArray, validateIdentifier
ValidIdentifiers(ids) ==
    /\ ids # <<>> /\ Seqs!IsInjective(ids)
    /\ \A v \in Seqs!ToSet(ids) : IsPolicyIdentifier(v) /\ v[1] = Service

\* validateConditions: a condition is an operator, a variable and its values;
\* the values of Bool and the patterns of the others are strings here.
TypeOfOperator(op) == IF op = "Bool" THEN "boolean" ELSE "string"
Operators == {"StringEquals", "StringLike", "StringNotEquals", "Bool"}
ValidConditions(conditions) ==
    \A c \in conditions :
        /\ c.operator \in Operators /\ c.variable \in DOMAIN Variables
        /\ Variables[c.variable] = TypeOfOperator(c.operator)
        /\ c.values # {}

\* validatePolicyDocument, with the service it must be of.  The other limits of
\* POLICY_LIMITS (bytes, lengths, numbers of identifiers and values) are sizes
\* and left out: a merge that exceeds documentBytes, which the client would
\* refuse as well, is none of the model.
ValidPolicyDocument(doc) ==
    /\ doc # <<>> /\ Len(doc) <= MaxStatements
    /\ \A i, j \in DOMAIN doc : doc[i].sid = doc[j].sid => i = j \/ doc[i].sid = NoSid
    /\ \A i \in DOMAIN doc :
        /\ ValidIdentifiers(doc[i].actions) /\ ValidIdentifiers(doc[i].resources)
        /\ ValidConditions(doc[i].conditions)

-----------------------------------------------------------------------------
(* Evaluation *)

\* matchesPolicyIdentifier: the prefix up to the last ":", and more.
MatchesPolicyIdentifier(p, v) ==
    \/ p = v
    \/ p[Len(p)] = "*" /\ Seqs!IsStrictPrefix(Seqs!Front(p), v)

\* evaluatePolicyConditions: an absent variable fails every operator, that of
\* StringNotEquals too.
Like(pattern, actual) == pattern \in {"*", actual}
ConditionHolds(c, context) ==
    /\ c.variable \in DOMAIN context
    /\ LET actual == context[c.variable] IN
       CASE c.operator \in {"Bool", "StringEquals"} -> actual \in c.values
         [] c.operator = "StringNotEquals" -> actual \notin c.values
         [] c.operator = "StringLike" -> \E pattern \in c.values : Like(pattern, actual)
EvaluatePolicyConditions(conditions, context) ==
    \A c \in conditions : ConditionHolds(c, context)

StatementMatches(s) ==
    /\ \E p \in Seqs!ToSet(s.actions) : MatchesPolicyIdentifier(p, asked.action)
    /\ \E p \in Seqs!ToSet(s.resources) : MatchesPolicyIdentifier(p, asked.resource)
    /\ EvaluatePolicyConditions(s.conditions, asked.context)

-----------------------------------------------------------------------------
(* Steps *)

Sequence(S, n) == UNION {[1..k -> S] : k \in 1..n}

\* One policy or two, each with a document that was accepted.
InitPolicyEvaluator ==
    /\ \E n \in 1..Len(Documents) :
        attachedTo \in {docs \in [1..n -> Sequence(Statement, 2)] :
            \A i \in 1..n : Len(docs[i]) <= Documents[i] /\ ValidPolicyDocument(docs[i])}
    /\ asked \in Question
    /\ statements = <<>> /\ position = 0
    /\ allow = {} /\ deny = {} /\ verdict = "none"

\* mergeEffectivePolicies: once each, sorted by name, their statements in order.
MergeEffectivePolicies ==
    /\ statements = <<>> /\ verdict = "none"
    /\ statements' = Seqs!FlattenSeq(attachedTo)
    /\ UNCHANGED <<attachedTo, asked, position, allow, deny, verdict>>

\* parsePolicies: the merged statements as one document, or 503.
ParsePolicies ==
    /\ statements # <<>> /\ verdict = "none"
    /\ verdict' = IF ValidPolicyDocument(statements) THEN "parsed" ELSE "policy_unavailable"
    /\ UNCHANGED <<attachedTo, asked, statements, position, allow, deny>>

\* evaluatePolicy: a request that is not concrete is not looked at ...
RefuseRequest ==
    /\ verdict = "parsed" /\ position = 0
    /\ ~Concrete(asked.action) \/ ~Concrete(asked.resource)
    /\ verdict' = "implicit_deny"
    /\ UNCHANGED <<attachedTo, asked, statements, position, allow, deny>>

\* ... else each statement in turn ...
EvaluateStatement ==
    LET s == statements[position + 1] IN
    /\ verdict = "parsed" /\ position < Len(statements)
    /\ Concrete(asked.action) /\ Concrete(asked.resource)
    /\ position' = position + 1
    /\ deny' = IF StatementMatches(s) /\ s.effect = "Deny" THEN deny \cup {position'} ELSE deny
    /\ allow' = IF StatementMatches(s) /\ s.effect = "Allow" THEN allow \cup {position'} ELSE allow
    /\ UNCHANGED <<attachedTo, asked, statements, verdict>>

\* Mutant: what matched last decides.
ConcludeLast ==
    /\ verdict = "parsed" /\ position = Len(statements)
    /\ verdict' = IF allow # {} /\ (\A d \in deny : \E a \in allow : a > d) THEN "explicit_allow"
                  ELSE IF deny # {} THEN "explicit_deny" ELSE "implicit_deny"
    /\ UNCHANGED <<attachedTo, asked, statements, position, allow, deny>>

\* ... and a Deny wins.
Conclude ==
    /\ verdict = "parsed" /\ position = Len(statements)
    /\ verdict' = IF deny # {} THEN "explicit_deny"
                  ELSE IF allow # {} THEN "explicit_allow" ELSE "implicit_deny"
    /\ UNCHANGED <<attachedTo, asked, statements, position, allow, deny>>

NextPolicyEvaluator ==
    MergeEffectivePolicies \/ ParsePolicies \/ RefuseRequest \/ EvaluateStatement \/ Conclude

SpecPolicyEvaluator == InitPolicyEvaluator /\ [][NextPolicyEvaluator]_varsPolicyEvaluator

-----------------------------------------------------------------------------
(* Properties *)

\* The reference, without an order and without positions: what a pattern
\* stands for, the statements of all documents that speak of the request, and
\* the three rules of docs/iam/policy-documents.md:45-60.
StandsFor(p) ==
    IF p[Len(p)] = "*"
    THEN {v \in {asked.action, asked.resource} :
            \E n \in 1..(Len(v) - 1) : SubSeq(v, 1, n) = SubSeq(p, 1, Len(p) - 1)}
    ELSE {p}
Speaking(effect) ==
    {s \in UNION {Seqs!ToSet(attachedTo[i]) : i \in DOMAIN attachedTo} :
        /\ s.effect = effect
        /\ \E p \in Seqs!ToSet(s.actions) : asked.action \in StandsFor(p)
        /\ \E p \in Seqs!ToSet(s.resources) : asked.resource \in StandsFor(p)
        /\ \A c \in s.conditions :
            /\ c.variable \in DOMAIN asked.context
            /\ \/ asked.context[c.variable] \in c.values
               \/ c.operator = "StringLike" /\ "*" \in c.values
               <=> c.operator # "StringNotEquals"}

Decided == verdict \in {"explicit_allow", "explicit_deny", "implicit_deny"}

\* evaluatePolicy after mergeEffectivePolicies and parsePolicies: the decision
\* is the one the documents that apply call for, whatever the order of the
\* policies and of their statements: a Deny wins, nothing is allowed without
\* an Allow, and nothing outside the service the documents were validated for.
DecisionIsTheReference ==
    Decided =>
        /\ verdict = "explicit_allow" <=> Speaking("Allow") # {} /\ Speaking("Deny") = {}
                                          /\ Concrete(asked.action) /\ Concrete(asked.resource)
        /\ verdict = "explicit_deny" => Speaking("Deny") # {}
        /\ verdict = "explicit_allow" => asked.action[1] = Service /\ asked.resource[1] = Service

\* "Le tableau `statements` peut être transmis à l'évaluateur IAM"
\* (docs/iam/effective-policies.md): what the API serves for documents it has
\* accepted is accepted by the client, which evaluates it.
MergedIsEvaluated == verdict # "policy_unavailable"
=============================================================================
