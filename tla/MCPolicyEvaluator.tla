-------------------------- MODULE MCPolicyEvaluator --------------------------
(***************************************************************************)
(* Statements and requests to try PolicyEvaluator with: wildcards of every *)
(* depth, conditions whose variable is missing, sids that meet, documents  *)
(* of another service or with a wildcard out of place.                     *)
(***************************************************************************)
EXTENDS PolicyEvaluator, TLC

Named(effect, actions, resources, conditions, sid) ==
    [effect |-> effect, actions |-> actions, resources |-> resources,
     conditions |-> conditions, sid |-> sid]
Cond(operator, variable, values) ==
    [operator |-> operator, variable |-> variable, values |-> values]

TheDoc == <<"s", "doc">>
ReadDoc == <<"s", "doc", "read">>
AllOfDoc == <<"s", "doc", "*">>
Everything == <<"s", "*">>

Mail == "user.email"
MailVerified == "user.email_verified"

Statements == {
    Named("Allow", <<AllOfDoc>>, <<TheDoc>>, {}, "one"),
    Named("Allow", <<ReadDoc, <<"s", "list">>>>, <<Everything>>, {}, NoSid),
    Named("Allow", <<ReadDoc>>, <<TheDoc>>,
          {Cond("StringLike", Mail, {"*"}), Cond("Bool", MailVerified, {"true"})}, "one"),
    Named("Deny", <<ReadDoc>>, <<Everything>>, {Cond("StringNotEquals", Mail, {"x"})}, NoSid),
    Named("Deny", <<AllOfDoc>>, <<TheDoc>>, {Cond("StringEquals", Mail, {"x", "y"})}, "two"),
    Named("Deny", <<Everything>>, <<TheDoc>>, {}, NoSid),
    Named("Allow", <<<<"o", "*">>>>, <<TheDoc>>, {}, NoSid),
    Named("Allow", <<<<"s", "*", "read">>>>, <<TheDoc>>, {}, NoSid),
    Named("Allow", <<ReadDoc, ReadDoc>>, <<TheDoc>>, {}, NoSid),
    Named("Deny", <<ReadDoc>>, <<TheDoc>>, {Cond("Bool", Mail, {"true"})}, NoSid)}

Questions ==
    [action : {ReadDoc, TheDoc, <<"s", "list">>, <<"o", "doc">>, AllOfDoc},
     resource : {TheDoc, <<"s", "doc", "x">>},
     context : {<<>>, Mail :> "x", Mail :> "z", Mail :> "y" @@ MailVerified :> "true"}]

VariableTypes == Mail :> "string" @@ MailVerified :> "boolean"

\* Two policies: a document of two statements at most, and one of one.
TwoPolicies == <<2, 1>>
=============================================================================
