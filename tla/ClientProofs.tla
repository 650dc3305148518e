---------------------------- MODULE ClientProofs ----------------------------
(***************************************************************************)
(* Proofs about the clients of the API, for any number of calls under way  *)
(* at once: the client of a resource server, the session of the browser,   *)
(* and the pages of the administration; and, for any documents, about the  *)
(* evaluator with which the client decides.                                *)
(*                                                                         *)
(* A client knows the server only from answers that arrive in any order.   *)
(* The arguments say what an answer on its way can still be used for: a    *)
(* reply was true at some moment since it was asked, one refresh at a time *)
(* writes the session, and what a page acts on is what it shows, because   *)
(* every answer that would change the one is dropped or changes the other  *)
(* too.  The evaluator looks at one statement after the other; what it has *)
(* found is what matches among those it has looked at.                     *)
(***************************************************************************)
EXTENDS ResourceClient, SessionClient, AdminPages, PolicyEvaluator, FiniteSetTheorems,
        SequenceTheorems, WellFoundedInduction, TLAPS

-----------------------------------------------------------------------------
(* The client of a resource server *)

\* What a request carries was the server's at some moment since it asked: what
\* the server holds now while it waits, then the reply, the entry that a 304
\* confirms, and the policies it is answered with.
CarriesItsTime(v) ==
    /\ visit[v].at \in {"asked", "replied"} => held[visit[v].scope] \in window[v]
    /\ visit[v].at = "replied" /\ visit[v].reply = "not modified" => visit[v].cached \in window[v]
    /\ visit[v].at = "replied" /\ visit[v].reply \in Policies => visit[v].reply \in window[v]
    /\ visit[v].at = "answered" => visit[v].policies \in window[v]

ResourceInv ==
    /\ TypeOKResourceClient
    /\ \A v \in Visit : CarriesItsTime(v)

\* At the start the cache is empty and nothing is asked.
LEMMA InitCarries ==
    ASSUME InitResourceClient PROVE ResourceInv
<1>1. (CHOOSE k \in PolicyScope : TRUE) \in PolicyScope
  BY PoliciesAssumption
<1>2. TypeOKResourceClient
  BY <1>1 DEF InitResourceClient, TypeOKResourceClient, Visits, NoVisit, Answers, Refusal
<1>3. ASSUME NEW v \in Visit PROVE CarriesItsTime(v)
  BY DEF InitResourceClient, CarriesItsTime, NoVisit
<1> QED  BY <1>2, <1>3 DEF ResourceInv, InitResourceClient

-----------------------------------------------------------------------------
\* A request moves on with what it has read, or is forgotten.
LEMMA MovesOn ==
    ASSUME NEW r \in Visits
    PROVE  /\ [r EXCEPT !.at = "replied", !.reply = "unusable"] \in Visits
           /\ \A x \in Answers \cup {"not modified"} :
                  [r EXCEPT !.at = "replied", !.reply = x] \in Visits
           /\ \A p \in Policies \cup {NoPolicies} :
                  [r EXCEPT !.at = "answered", !.policies = p] \in Visits
           /\ NoVisit \in Visits /\ NoVisit.at = "idle"
<1>1. r.scope \in PolicyScope
  BY DEF Visits
<1>2. (CHOOSE k \in PolicyScope : TRUE) \in PolicyScope
  BY <1>1
<1> QED  BY <1>2 DEF Visits, NoVisit

\* A step that changes one request to one of the same kind keeps the others.
LEMMA OneRequest ==
    ASSUME ResourceInv, NEW v \in Visit, NEW r \in Visits,
           NEW seen \in SUBSET Answers,
           visit' = [visit EXCEPT ![v] = r], window' = [window EXCEPT ![v] = seen],
           held' = held, entries' \in [PolicyScope -> Policies \cup {NoPolicies}],
           r.at \in {"asked", "replied"} => held[r.scope] \in seen,
           r.at = "replied" /\ r.reply = "not modified" => r.cached \in seen,
           r.at = "replied" /\ r.reply \in Policies => r.reply \in seen,
           r.at = "answered" => r.policies \in seen
    PROVE  ResourceInv'
<1> USE DEF ResourceInv
<1>1. TypeOKResourceClient'
  BY DEF TypeOKResourceClient
<1>2. visit'[v] = r /\ window'[v] = seen
  BY DEF TypeOKResourceClient
<1>3. CarriesItsTime(v)'
  BY <1>2 DEF CarriesItsTime
<1>4. ASSUME NEW w \in Visit \ {v} PROVE CarriesItsTime(w)'
  <2>1. visit'[w] = visit[w] /\ window'[w] = window[w] /\ CarriesItsTime(w)
    BY DEF TypeOKResourceClient
  <2> QED  BY <2>1 DEF CarriesItsTime
<1> QED  BY <1>1, <1>3, <1>4

\* Each statement of a request hands on an answer of its window.
LEMMA RequestKeeps ==
    ASSUME ResourceInv, NEW v \in Visit,
           \/ LoadPolicies(v) \/ Respond(v) \/ RespondUnusable(v) \/ NotModified(v)
           \/ Modified(v) \/ Refused(v) \/ Unavailable(v) \/ Finish(v)
    PROVE  ResourceInv'
<1>0. /\ visit[v] \in Visits /\ CarriesItsTime(v) /\ window[v] \in SUBSET Answers
      /\ window = [window EXCEPT ![v] = window[v]]
      /\ entries \in [PolicyScope -> Policies \cup {NoPolicies}]
      /\ visit[v].scope \in PolicyScope /\ held[visit[v].scope] \in Answers
  BY DEF ResourceInv, TypeOKResourceClient, Visits
<1>1. CASE LoadPolicies(v)
  <2>1. PICK k \in PolicyScope :
            /\ visit' = [visit EXCEPT ![v] =
                  [at |-> "asked", scope |-> k, cached |-> entries[k],
                   reply |-> "none", policies |-> NoPolicies]]
            /\ window' = [window EXCEPT ![v] = {held[k]}]
    BY <1>1 DEF LoadPolicies
  <2> DEFINE r == [at |-> "asked", scope |-> k, cached |-> entries[k],
                   reply |-> "none", policies |-> NoPolicies]
             seen == {held[k]}
  <2>2. r \in Visits /\ r.at = "asked" /\ r.scope = k
    BY <1>0 DEF Visits
  <2>3. seen \in SUBSET Answers /\ held[k] \in seen /\ window' = [window EXCEPT ![v] = seen]
    BY <2>1 DEF ResourceInv, TypeOKResourceClient
  <2>4. visit' = [visit EXCEPT ![v] = r] /\ UNCHANGED <<held, entries>>
    BY <1>1, <2>1 DEF LoadPolicies
  <2> HIDE DEF r, seen
  <2> QED  BY <1>0, <2>2, <2>3, <2>4, OneRequest
<1>2. CASE Respond(v)
  <2> DEFINE x == IF held[visit[v].scope] = visit[v].cached THEN "not modified"
                  ELSE held[visit[v].scope]
             r == [visit[v] EXCEPT !.at = "replied", !.reply = x]
  <2>1. r \in Visits
    <3>1. x \in Answers \cup {"not modified"}
      BY <1>0
    <3> QED  BY <1>0, <3>1, MovesOn
  <2>2. r.at = "replied" /\ r.reply = x /\ r.scope = visit[v].scope /\ r.cached = visit[v].cached
    BY <1>0 DEF Visits
  <2>3. visit' = [visit EXCEPT ![v] = r]
    BY <1>0, <1>2 DEF Respond, Visits, ResourceInv, TypeOKResourceClient
  <2>4. held[visit[v].scope] \in window[v]
    BY <1>0, <1>2 DEF Respond, CarriesItsTime
  <2>5. x = "not modified" => visit[v].cached \in window[v]
    BY <1>0, <2>4, PoliciesAssumption DEF Answers, Refusal
  <2>6. x \in Policies => x \in window[v]
    BY <2>4, PoliciesAssumption
  <2>7. UNCHANGED <<held, entries, window>>
    BY <1>2 DEF Respond
  <2> HIDE DEF r, x
  <2> QED  BY <1>0, <2>1, <2>2, <2>3, <2>4, <2>5, <2>6, <2>7, OneRequest
<1>3. CASE RespondUnusable(v)
  <2> DEFINE r == [visit[v] EXCEPT !.at = "replied", !.reply = "unusable"]
  <2>1. r \in Visits
    BY <1>0, MovesOn
  <2>2. r.at = "replied" /\ r.reply = "unusable" /\ r.scope = visit[v].scope
    BY <1>0 DEF Visits
  <2>3. visit' = [visit EXCEPT ![v] = r]
    BY <1>0, <1>3 DEF RespondUnusable, Visits, ResourceInv, TypeOKResourceClient
  <2>4. held[visit[v].scope] \in window[v]
    BY <1>0, <1>3 DEF RespondUnusable, CarriesItsTime
  <2>5. UNCHANGED <<held, entries, window>> /\ "unusable" \notin Policies
    BY <1>3, PoliciesAssumption DEF RespondUnusable
  <2> HIDE DEF r
  <2> QED  BY <1>0, <2>1, <2>2, <2>3, <2>4, <2>5, OneRequest
<1>4. ASSUME NEW p \in Policies \cup {NoPolicies}, p \in window[v], AnswerWith(v, p),
             UNCHANGED <<held, window>>, entries' \in [PolicyScope -> Policies \cup {NoPolicies}]
      PROVE  ResourceInv'
  <2> DEFINE r == [visit[v] EXCEPT !.at = "answered", !.policies = p]
  <2>1. r \in Visits
    BY <1>0, MovesOn
  <2>2. r.at = "answered" /\ r.policies = p
    BY <1>0 DEF Visits
  <2>3. visit' = [visit EXCEPT ![v] = r]
    BY <1>0, <1>4 DEF AnswerWith, Visits, ResourceInv, TypeOKResourceClient
  <2> HIDE DEF r
  <2> QED  BY <1>0, <1>4, <2>1, <2>2, <2>3, OneRequest
<1>5. CASE NotModified(v)
  <2>1. visit[v].cached \in window[v] /\ visit[v].cached \in Policies \cup {NoPolicies}
    BY <1>0, <1>5 DEF NotModified, CarriesItsTime, Visits
  <2> QED  BY <1>0, <1>4, <1>5, <2>1 DEF NotModified
<1>6. CASE Modified(v)
  <2>1. visit[v].reply \in window[v]
    BY <1>0, <1>6 DEF Modified, CarriesItsTime
  <2>2. entries' \in [PolicyScope -> Policies \cup {NoPolicies}]
    BY <1>0, <1>6 DEF Modified
  <2> QED  BY <1>4, <1>6, <2>1, <2>2 DEF Modified
<1>7. ASSUME Leave(v), UNCHANGED held, entries' \in [PolicyScope -> Policies \cup {NoPolicies}]
      PROVE  ResourceInv'
  <2>1. NoVisit \in Visits /\ NoVisit.at = "idle"
    BY <1>0, MovesOn
  <2> QED  BY <1>7, <2>1, OneRequest DEF Leave
<1>8. CASE Refused(v)
  <2>1. entries' \in [PolicyScope -> Policies \cup {NoPolicies}]
    BY <1>0, <1>8 DEF Refused
  <2> QED  BY <1>7, <1>8, <2>1 DEF Refused
<1>9. CASE Unavailable(v) \/ Finish(v)
  BY <1>0, <1>7, <1>9 DEF Unavailable, Finish
<1> QED  BY <1>1, <1>2, <1>3, <1>5, <1>6, <1>8, <1>9

\* What the server does, and an invalidation, only lengthen the windows.
LEMMA OtherVisitsKeep ==
    ASSUME ResourceInv, Invalidate \/ \E k \in PolicyScope : ServerChanges(k)
    PROVE  ResourceInv'
<1> USE DEF ResourceInv, TypeOKResourceClient, CarriesItsTime
<1>1. CASE Invalidate
  BY <1>1 DEF Invalidate
<1>2. ASSUME NEW k \in PolicyScope, ServerChanges(k) PROVE ResourceInv'
  <2>1. PICK p \in Answers :
            /\ held' = [held EXCEPT ![k] = p]
            /\ window' = [w \in Visit |->
                  IF visit[w].at \in {"asked", "replied"} /\ visit[w].scope = k
                  THEN window[w] \cup {p} ELSE window[w]]
            /\ UNCHANGED <<entries, visit>>
    BY <1>2 DEF ServerChanges
  <2>2. TypeOKResourceClient'
    BY <2>1
  <2>3. ASSUME NEW w \in Visit PROVE CarriesItsTime(w)'
    <3>1. /\ CarriesItsTime(w) /\ visit'[w] = visit[w] /\ visit[w].scope \in PolicyScope
          /\ window[w] \subseteq window'[w]
      BY <2>1 DEF Visits
    <3>2. visit[w].at \in {"asked", "replied"} => held'[visit[w].scope] \in window'[w]
      BY <2>1, <3>1
    <3> QED  BY <3>1, <3>2
  <2> QED  BY <2>1, <2>2, <2>3
<1> QED  BY <1>1, <1>2

\* Every step of the client or of the server.
LEMMA ResourceNextKeeps ==
    ResourceInv /\ [NextResourceClient]_varsResourceClient => ResourceInv'
<1> SUFFICES ASSUME ResourceInv, [NextResourceClient]_varsResourceClient PROVE ResourceInv'
  OBVIOUS
<1>1. CASE UNCHANGED varsResourceClient
  BY <1>1 DEF varsResourceClient, ResourceInv, TypeOKResourceClient, CarriesItsTime
<1> QED  BY <1>1, RequestKeeps, OtherVisitsKeep DEF NextResourceClient

\* However many requests overlap, whichever of them wrote the cache last and
\* whatever the server changed, a request is decided with policies the server
\* had for its scope between the question and the answer.
THEOREM DecidedOnTime ==
    InitResourceClient /\ [][NextResourceClient]_varsResourceClient
        => []DecidedWithPoliciesOfItsTime
<1>1. ResourceInv => DecidedWithPoliciesOfItsTime
  BY DEF ResourceInv, CarriesItsTime, DecidedWithPoliciesOfItsTime
<1> QED  BY <1>1, InitCarries, ResourceNextKeeps, PTL

-----------------------------------------------------------------------------
(* The session of the browser *)

Call == [of : {"none", "hydrate", "login", "callback", "refresh", "logout"},
         at : {"idle", "asked", "settled"}]

\* A promise is kept exactly while a refresh is under way, and there is one.
OneRefresh ==
    /\ refreshInFlight <=> \E o \in Operation : operation[o].of = "refresh"
    /\ \A o, q \in Operation :
        operation[o].of = "refresh" /\ operation[q].of = "refresh" => o = q

\* The status loads only for a call whose answer is still to come.
LoadsForAnAnswer ==
    status = "loading" /\ begun =>
        \E o \in Operation : operation[o].of \in Loading /\ operation[o].at = "asked"

\* What is shown agrees with the snapshot and with the error.
ShownAgrees ==
    /\ status = "authenticated" => snapshot
    /\ status = "error" => failed
    /\ failed => status \in {"error", "loading"}

SessionInv ==
    /\ TypeOKSessionClient
    /\ OneRefresh
    /\ LoadsForAnAnswer
    /\ ShownAgrees

\* At the start nothing is asked.
LEMMA SessionInitially == ASSUME InitSessionClient PROVE SessionInv
BY DEF InitSessionClient, SessionInv, TypeOKSessionClient, OneRefresh, LoadsForAnAnswer,
       ShownAgrees, NoOperation

\* A call that is launched keeps the others, and is one that waits.
LEMMA LaunchFits ==
    ASSUME SessionInv, NEW o \in Operation, NEW f \in {"hydrate", "login", "callback", "refresh", "logout"},
           Launch(o, f)
    PROVE  /\ operation' \in [Operation -> Call] /\ begun' \in BOOLEAN
           /\ operation[o] = NoOperation
           /\ operation'[o] = [of |-> f, at |-> "asked"]
           /\ \A q \in Operation \ {o} : operation'[q] = operation[q]
<1>1. operation \in [Operation -> Call] /\ begun \in BOOLEAN
  BY DEF SessionInv, TypeOKSessionClient, Call
<1>2. [of |-> f, at |-> "asked"] \in Call
  BY DEF Call
<1>3. QED
  BY <1>1, <1>2 DEF Launch, Loading

\* A call that is answered keeps the others.
LEMMA SettleFits ==
    ASSUME SessionInv, NEW o \in Operation, NEW s \in {"idle", "settled"}, Settle(o, s)
    PROVE  /\ operation' \in [Operation -> Call] /\ begun' = begun
           /\ s = "idle" => operation'[o] = NoOperation
           /\ s = "settled" => /\ operation'[o].of = operation[o].of
                               /\ operation'[o].at = "settled"
           /\ \A q \in Operation \ {o} : operation'[q] = operation[q]
<1>1. operation \in [Operation -> Call] /\ operation[o] \in Call
  BY DEF SessionInv, TypeOKSessionClient, Call
<1>2. /\ NoOperation \in Call
      /\ [operation[o] EXCEPT !.at = s] \in Call
      /\ [operation[o] EXCEPT !.at = s].of = operation[o].of
      /\ [operation[o] EXCEPT !.at = s].at = s
  BY <1>1 DEF Call, NoOperation
<1>3. QED
  BY <1>1, <1>2 DEF Settle

\* A call that is no refresh leaves the promise as it is.
LEMMA OthersKeepTheRefresh ==
    ASSUME OneRefresh, NEW o \in Operation, UNCHANGED refreshInFlight,
           operation[o].of # "refresh", operation'[o].of # "refresh",
           \A q \in Operation \ {o} : operation'[q] = operation[q]
    PROVE  OneRefresh'
BY DEF OneRefresh

\* A function that starts: it makes the session load, or changes nothing shown.
LEMMA LaunchKeeps ==
    ASSUME SessionInv, NEW o \in Operation,
           Hydrate(o) \/ Login(o) \/ HandleCallback(o) \/ Refresh(o) \/ Logout(o)
    PROVE  SessionInv'
<1> USE DEF SessionInv
<1>1. ASSUME NEW f \in Loading \ {"refresh"}, Launch(o, f), status' = "loading",
             UNCHANGED <<snapshot, failed, refreshInFlight>>
      PROVE  SessionInv'
  <2>1. OneRefresh'
    BY <1>1, LaunchFits, OthersKeepTheRefresh DEF Loading, NoOperation
  <2>2. TypeOKSessionClient'
    BY <1>1, LaunchFits DEF Loading, TypeOKSessionClient, Call
  <2>3. LoadsForAnAnswer' /\ ShownAgrees'
    BY <1>1, LaunchFits DEF Loading, LoadsForAnAnswer, ShownAgrees
  <2>4. QED
    BY <2>1, <2>2, <2>3
<1>2. ASSUME NEW f \in {"login", "logout"}, Launch(o, f),
             UNCHANGED <<snapshot, status, failed, refreshInFlight>>
      PROVE  SessionInv'
  <2>1. OneRefresh'
    BY <1>2, LaunchFits, OthersKeepTheRefresh DEF NoOperation
  <2>2. TypeOKSessionClient'
    BY <1>2, LaunchFits DEF TypeOKSessionClient, Call
  <2>3. begun' = begun
    BY <1>2 DEF Launch, Loading, TypeOKSessionClient
  <2>4. LoadsForAnAnswer' /\ ShownAgrees'
    BY <1>2, <2>3, LaunchFits DEF LoadsForAnAnswer, ShownAgrees, NoOperation
  <2>5. QED
    BY <2>1, <2>2, <2>4
<1>3. CASE Refresh(o)
  <2>1. Launch(o, "refresh")
    BY <1>3 DEF Refresh
  <2>2. OneRefresh'
    BY <1>3, <2>1, LaunchFits DEF Refresh, OneRefresh
  <2>3. TypeOKSessionClient'
    BY <1>3, <2>1, LaunchFits DEF Refresh, TypeOKSessionClient, Call
  <2>4. LoadsForAnAnswer' /\ ShownAgrees'
    BY <1>3, <2>1, LaunchFits DEF Refresh, Loading, LoadsForAnAnswer, ShownAgrees
  <2>5. QED
    BY <2>2, <2>3, <2>4
<1>4. CASE Fail /\ begun' = TRUE /\ UNCHANGED <<operation, refreshInFlight>>
  BY <1>4 DEF Fail, TypeOKSessionClient, OneRefresh, LoadsForAnAnswer, ShownAgrees
<1>5. QED
  BY <1>1, <1>2, <1>3, <1>4 DEF Hydrate, Login, HandleCallback, Refresh, Logout, Loading

\* What an answer shows is never that the session loads.
LEMMA ShownIsAnAnswer ==
    ASSUME SessionInv, (\E there \in BOOLEAN : Apply(there)) \/ Fail
    PROVE  /\ ShownAgrees'
           /\ status' \in {"authenticated", "anonymous", "error"}
           /\ {snapshot', failed'} \subseteq BOOLEAN
<1>1. snapshot \in BOOLEAN
  BY DEF SessionInv, TypeOKSessionClient
<1>2. ASSUME NEW there \in BOOLEAN, Apply(there)
      PROVE  /\ ShownAgrees'
             /\ status' \in {"authenticated", "anonymous", "error"}
             /\ {snapshot', failed'} \subseteq BOOLEAN
  BY <1>2 DEF Apply, ShownAgrees
<1>3. CASE Fail
  BY <1>1, <1>3 DEF Fail, ShownAgrees
<1>4. QED
  BY <1>2, <1>3

\* The answer of a call that is no refresh.
LEMMA AnswerKeeps ==
    ASSUME SessionInv, NEW o \in Operation,
           SessionAnswered(o) \/ LoginAnswered(o) \/ LogoutAnswered(o)
    PROVE  SessionInv'
<1> USE DEF SessionInv
<1>1. /\ Settle(o, "idle") /\ UNCHANGED refreshInFlight
      /\ operation[o].of \in {"hydrate", "callback", "login", "logout"}
  <2>1. ASSUME NEW f, Asked(o, f) PROVE operation[o].of = f
    BY <2>1 DEF Asked
  <2>2. QED
    BY <2>1 DEF SessionAnswered, LoginAnswered, LogoutAnswered
<1>2. OneRefresh'
  BY <1>1, SettleFits, OthersKeepTheRefresh DEF NoOperation
<1>3. CASE (\E there \in BOOLEAN : Apply(there)) \/ Fail
  <2>1. LoadsForAnAnswer' /\ ShownAgrees'
    BY <1>3, ShownIsAnAnswer DEF LoadsForAnAnswer
  <2>2. TypeOKSessionClient'
    BY <1>1, <1>3, SettleFits, ShownIsAnAnswer DEF TypeOKSessionClient, Call
  <2>3. QED
    BY <1>2, <2>1, <2>2
<1>4. CASE operation[o].of = "login" /\ UNCHANGED <<snapshot, status, failed>>
  <2>1. LoadsForAnAnswer' /\ ShownAgrees'
    BY <1>1, <1>4, SettleFits DEF LoadsForAnAnswer, ShownAgrees, Loading
  <2>2. TypeOKSessionClient'
    BY <1>1, <1>4, SettleFits DEF TypeOKSessionClient, Call
  <2>3. QED
    BY <1>2, <2>1, <2>2
<1>5. CASE LogoutAnswered(o)
  <2>1. LoadsForAnAnswer' /\ ShownAgrees'
    BY <1>5 DEF LogoutAnswered, LoadsForAnAnswer, ShownAgrees
  <2>2. TypeOKSessionClient'
    BY <1>1, <1>5, SettleFits DEF LogoutAnswered, TypeOKSessionClient, Call
  <2>3. QED
    BY <1>2, <2>1, <2>2
<1>6. CASE SessionAnswered(o)
  BY <1>3, <1>6 DEF SessionAnswered
<1>7. CASE LoginAnswered(o)
  <2>1. operation[o].of = "login"
    BY <1>7 DEF LoginAnswered, Asked
  <2>2. QED
    BY <1>3, <1>4, <1>7, <2>1 DEF LoginAnswered
<1>8. QED
  BY <1>5, <1>6, <1>7

\* The answer of the refresh keeps the promise until finally drops it.
LEMMA RefreshKeeps ==
    ASSUME SessionInv, NEW o \in Operation, RefreshAnswered(o) \/ RefreshSettled(o)
    PROVE  SessionInv'
<1> USE DEF SessionInv
<1>1. CASE RefreshAnswered(o)
  <2>1. /\ operation[o].of = "refresh" /\ Settle(o, "settled") /\ UNCHANGED refreshInFlight
        /\ (\E there \in BOOLEAN : Apply(there)) \/ Fail
    BY <1>1 DEF RefreshAnswered, Asked
  <2>2. OneRefresh'
    BY <2>1, SettleFits DEF OneRefresh
  <2>3. LoadsForAnAnswer' /\ ShownAgrees'
    BY <2>1, ShownIsAnAnswer DEF LoadsForAnAnswer
  <2>4. TypeOKSessionClient'
    BY <2>1, SettleFits, ShownIsAnAnswer DEF TypeOKSessionClient, Call
  <2>5. QED
    BY <2>2, <2>3, <2>4
<1>2. CASE RefreshSettled(o)
  <2>1. /\ operation[o].of = "refresh" /\ operation[o].at = "settled" /\ Settle(o, "idle")
        /\ refreshInFlight' = FALSE /\ UNCHANGED <<snapshot, status, failed>>
    BY <1>2 DEF RefreshSettled
  <2>2. OneRefresh'
    BY <2>1, SettleFits DEF OneRefresh, NoOperation
  <2>3. LoadsForAnAnswer' /\ ShownAgrees'
    BY <2>1, SettleFits DEF LoadsForAnAnswer, ShownAgrees
  <2>4. TypeOKSessionClient'
    BY <2>1, SettleFits DEF TypeOKSessionClient, Call
  <2>5. QED
    BY <2>2, <2>3, <2>4
<1>3. QED
  BY <1>1, <1>2

\* Every step of the session keeps the invariant.
LEMMA SessionNextKeeps ==
    SessionInv /\ [NextSessionClient]_varsSessionClient => SessionInv'
<1> SUFFICES ASSUME SessionInv, [NextSessionClient]_varsSessionClient PROVE SessionInv'
  OBVIOUS
<1>1. CASE UNCHANGED varsSessionClient
  BY <1>1 DEF varsSessionClient, SessionInv, TypeOKSessionClient, OneRefresh, LoadsForAnAnswer,
              ShownAgrees
<1>2. CASE NextSessionClient
  BY <1>2, LaunchKeeps, AnswerKeeps, RefreshKeeps DEF NextSessionClient
<1>3. QED
  BY <1>1, <1>2

\* refresh is serialized and the status is honest, for any number of
\* overlapping calls, in whatever order they are answered or fail.
THEOREM SessionHolds == SpecSessionClient => []SessionIsCoherent
<1>1. ASSUME SessionInv PROVE SessionIsCoherent
  <2> DEFINE refreshing == {o \in Operation : operation[o].of = "refresh"}
  <2>1. RefreshIsSerialized
    <3>1. CASE refreshInFlight
      <4>1. PICK o \in Operation : operation[o].of = "refresh"
        BY <1>1, <3>1 DEF SessionInv, OneRefresh
      <4>2. refreshing = {o}
        BY <1>1, <4>1 DEF SessionInv, OneRefresh
      <4>3. QED
        BY <3>1, <4>2, FS_Singleton DEF RefreshIsSerialized
    <3>2. CASE ~refreshInFlight
      <4>1. refreshing = {}
        BY <1>1, <3>2 DEF SessionInv, OneRefresh
      <4>2. QED
        BY <3>2, <4>1, FS_EmptySet DEF RefreshIsSerialized
    <3>3. QED
      BY <3>1, <3>2
  <2>2. StatusIsHonest
    BY <1>1 DEF SessionInv, LoadsForAnAnswer, ShownAgrees, StatusIsHonest
  <2>3. QED
    BY <2>1, <2>2 DEF SessionIsCoherent
<1>2. QED
  BY <1>1, SessionInitially, SessionNextKeeps, PTL DEF SpecSessionClient

-----------------------------------------------------------------------------
(* The pages of the administration *)

Panels == {"locked", "loading", "ready", "error"}
Screens ==
    [registry : BOOLEAN, chosen : Row \cup {NoChoice}, detail : Row \cup {NoChoice},
     panel : Panels,
     editing : Targets, cancelling : Targets, prepared : Targets, confirming : BOOLEAN]

\* A version that an editor may hold.
Versions == (Row \X Nat) \cup {NoChoice}
Editors ==
    [open : Versions, base : Versions, panel : Panels,
     workspace : {"locked", "loading", "ready", "error", "empty"},
     catalogue : BOOLEAN, listed : [Row -> Nat]]

OfARow == {"status", "sessions", "save organization", "invitation", "grant"}
OfAGrant == {"revoke", "update"}
OfTheEditor == {"workspace", "history", "save"}
Kinds == {"load", "list", "organization", "member", "cancellation", "client"}
            \cup OfARow \cup OfAGrant \cup OfTheEditor \cup ClientActions

\* What a request names, and what it is sent to.
NamedRequest == Targets \cup Versions
AwaitedRequest == [kind : Kinds, named : NamedRequest, sent : NamedRequest,
            state : {"sent", "answered"}, answer : [Row -> Nat]]

PageTypes ==
    /\ view \in Views
    /\ screen \in Screens /\ editor \in Editors
    /\ revision \in [Row -> Nat]
    /\ awaited \in SUBSET AwaitedRequest
    /\ disturbed \in BOOLEAN /\ astray \in BOOLEAN /\ unseen \in BOOLEAN

\* A page has the forms of its own view only.
ScreenFits(s) ==
    /\ view = "clients" => s.panel # "ready"
    /\ view # "organizations" => s.editing = NoChoice /\ s.cancelling = NoChoice
    /\ view # "service grants" => s.prepared = NoChoice

\* What a request was sent to, and the requests of which there is one at a time.
SentFits(c) ==
    /\ c.kind \in {"load", "save organization"} => c.sent[1] \in Row
    /\ c.kind \in OfAGrant => c.sent \in Targets /\ view = "service grants"
    /\ c.kind = "organization" => view = "organizations"
    /\ c.kind = "history" => c.sent[1] \in Row
    /\ c.kind = "save" /\ c.state = "answered" => c.sent[1] \in Row
    /\ c.kind \in ClientActions => view = "clients"
    /\ view = "clients" => c.kind \in ClientActions \cup {"client"}
OneAtATime ==
    /\ \A c, d \in awaited :
        c.kind \in ClientActions /\ d.kind \in ClientActions => c = d
    /\ \A c, d \in awaited :
        c.kind = "cancellation" /\ d.kind = "cancellation" => c = d

\* The forms of the screen are those of the row chosen.
ScreenSteady(s) ==
    s.chosen # NoChoice =>
        /\ s.panel = "ready" => s.detail = s.chosen
        /\ s.editing # NoChoice => s.editing \in {s.chosen} \X Parts
        /\ s.cancelling # NoChoice => s.cancelling \in {s.chosen} \X Parts
        /\ s.prepared # NoChoice => s.prepared \in {s.chosen} \X Parts

\* A request under way names what it was sent to, and the screen still shows it.
ActsOn(s, c) ==
    /\ c.kind \in {"load"} \cup OfARow \cup ClientActions =>
            /\ s.chosen \in Row /\ s.chosen # NoChoice
            /\ c.sent = Whole(s.chosen) /\ c.named = c.sent
    /\ c.kind \in OfARow => s.detail = s.chosen
    /\ c.kind = "member" => c.sent # NoChoice /\ c.sent = s.editing /\ c.named = c.sent
    /\ c.kind = "cancellation" =>
            /\ s.chosen # NoChoice /\ s.detail = s.chosen
            /\ c.sent \in {s.chosen} \X Parts
            /\ c.sent = s.cancelling /\ c.named = c.sent
    /\ c.kind \in OfAGrant => c.sent # NoChoice /\ c.sent = s.prepared /\ c.named = c.sent

\* Until another row is chosen under a request.
Steady ==
    ~disturbed =>
        /\ ~astray
        /\ ScreenSteady(screen)
        /\ \A c \in awaited : ActsOn(screen, c)

\* The draft on the screen was opened from the version that it would replace.
EditorFits ==
    /\ editor.panel = "ready" => editor.open = editor.base
    /\ \A c \in awaited : c.kind = "save" /\ c.state = "sent" => c.named = c.sent
    /\ ~unseen

PagesInv ==
    /\ PageTypes
    /\ ScreenFits(screen)
    /\ \A c \in awaited : SentFits(c)
    /\ OneAtATime
    /\ Steady
    /\ EditorFits

\* A page is opened with nothing on it.
LEMMA PagesInitially == ASSUME InitAdminPages PROVE PagesInv
<1>1. NoChoice \in Targets /\ NoChoice \in Versions /\ [p \in Row |-> 0] \in [Row -> Nat]
  BY DEF Targets, Versions
<1>2. screen \in Screens
  BY <1>1 DEF InitAdminPages, Screens, Panels
<1>3. editor \in Editors
  BY <1>1 DEF InitAdminPages, Editors, Panels
<1>4. revision \in [Row -> Nat]
  BY DEF InitAdminPages
<1>5. PageTypes
  BY <1>2, <1>3, <1>4 DEF InitAdminPages, PageTypes
<1>6. QED
  BY <1>5 DEF InitAdminPages, PagesInv, ScreenFits, OneAtATime, Steady, ScreenSteady, EditorFits

-----------------------------------------------------------------------------
\* A request as it is when it is sent.
LEMMA RequestFits ==
    ASSUME NEW kind \in Kinds, NEW named \in NamedRequest,
           NEW sent \in NamedRequest
    PROVE  /\ Request(kind, named, sent) \in AwaitedRequest
           /\ Request(kind, named, sent).kind = kind
           /\ Request(kind, named, sent).named = named
           /\ Request(kind, named, sent).sent = sent
           /\ Request(kind, named, sent).state = "sent"
BY DEF Request, AwaitedRequest

\* What the screen leaves to the editor.
RestOfThePage == UNCHANGED <<view, editor, revision, unseen>>

\* A click that chooses or prepares: with a request under way, the row is
\* disturbed, and with none there is nothing that could go astray.
LEMMA TurnKeeps ==
    ASSUME PagesInv, RestOfThePage, NEW next \in Screens, Turn(next),
           ScreenFits(next), ~disturbed => ScreenSteady(next)
    PROVE  PagesInv'
<1> USE DEF RestOfThePage, Turn, PagesInv
<1>1. PageTypes'
  BY DEF PageTypes
<1>2. ScreenFits(screen)' /\ OneAtATime' /\ \A c \in awaited' : SentFits(c)'
  BY DEF ScreenFits, OneAtATime, SentFits
<1>3. EditorFits'
  BY DEF EditorFits
<1>4. Steady'
  BY DEF Steady, ScreenSteady
<1>5. QED
  BY <1>1, <1>2, <1>3, <1>4

\* Two screens that show the same row and the same forms.
SameForms(s, t) ==
    /\ t.chosen = s.chosen /\ t.detail = s.detail /\ t.editing = s.editing
    /\ t.cancelling = s.cancelling /\ t.prepared = s.prepared

\* A button that starts a request about what the screen shows.
LEMMA SubmitKeeps ==
    ASSUME PagesInv, RestOfThePage, NEW kind \in Kinds \ OfTheEditor,
           NEW named \in NamedRequest, NEW sent \in NamedRequest,
           NEW next \in Screens, Submit(kind, named, sent, next),
           SameForms(screen, next), next.panel = "ready" => screen.panel = "ready",
           SentFits(Request(kind, named, sent)),
           kind \in ClientActions => ~Waiting(ClientActions),
           kind = "cancellation" => ~Waiting({"cancellation"}),
           ~disturbed => ActsOn(screen, Request(kind, named, sent))
    PROVE  PagesInv'
<1> DEFINE c == Request(kind, named, sent)
<1>1. c \in AwaitedRequest /\ c.kind = kind
  BY RequestFits
<1> HIDE DEF c
<1>2. awaited' = awaited \cup {c} /\ screen' = next /\ UNCHANGED <<disturbed, astray>>
  BY DEF Submit, Send, c
<1>3. PageTypes'
  BY <1>1, <1>2 DEF PagesInv, PageTypes, RestOfThePage
<1>4. ScreenFits(screen)'
  BY <1>2 DEF PagesInv, ScreenFits, SameForms, RestOfThePage
<1>5. \A d \in awaited' : SentFits(d)'
  <2>1. ASSUME NEW d \in awaited' PROVE SentFits(d)
    BY <1>2, <2>1 DEF PagesInv, c
  <2>2. QED
    BY <2>1 DEF SentFits, RestOfThePage
<1>6. OneAtATime'
  BY <1>1, <1>2 DEF PagesInv, OneAtATime, Waiting, ClientActions
<1>7. Steady'
  <2>1. ASSUME ~disturbed PROVE ScreenSteady(next)
    BY <2>1 DEF PagesInv, Steady, ScreenSteady, SameForms
  <2>2. ASSUME ~disturbed, NEW d \in awaited' PROVE ActsOn(next, d)
    <3>1. ActsOn(screen, d)
      BY <1>2, <2>2 DEF PagesInv, Steady, c
    <3>2. QED
      BY <3>1 DEF ActsOn, SameForms
  <2>3. QED
    BY <1>2, <2>1, <2>2 DEF PagesInv, Steady
<1>8. EditorFits'
  BY <1>1, <1>2 DEF PagesInv, EditorFits, RestOfThePage, OfTheEditor
<1>9. QED
  BY <1>3, <1>4, <1>5, <1>6, <1>7, <1>8 DEF PagesInv

\* An answer: the other requests stay, and act on what is shown afterwards.
LEMMA ArrivalKeeps ==
    ASSUME PagesInv, RestOfThePage, NEW c \in awaited, awaited' = awaited \ {c},
           NEW next \in Screens, screen' = next, ScreenFits(next),
           disturbed' \in BOOLEAN, astray' \in BOOLEAN, ~disturbed' => ~disturbed,
           ~disturbed' => /\ ~astray' /\ ScreenSteady(next)
                          /\ \A d \in awaited' : ActsOn(next, d)
    PROVE  PagesInv'
<1>1. PageTypes'
  BY DEF PagesInv, PageTypes, RestOfThePage
<1>2. ScreenFits(screen)' /\ OneAtATime' /\ EditorFits'
  BY DEF PagesInv, ScreenFits, OneAtATime, EditorFits, RestOfThePage
<1>3. \A d \in awaited' : SentFits(d)'
  BY DEF PagesInv, SentFits, RestOfThePage
<1>4. Steady'
  BY DEF Steady
<1>5. QED
  BY <1>1, <1>2, <1>3, <1>4 DEF PagesInv

-----------------------------------------------------------------------------
\* What a screen becomes keeps its type.
LEMMA ScreenKeepsType ==
    ASSUME NEW s \in Screens
    PROVE  /\ \A y \in BOOLEAN : [s EXCEPT !.registry = y] \in Screens
           /\ \A r \in Row \cup {NoChoice} : [s EXCEPT !.chosen = r] \in Screens
           /\ \A x \in Panels : [s EXCEPT !.panel = x] \in Screens
           /\ \A t \in Targets : /\ [s EXCEPT !.editing = t] \in Screens
                                 /\ [s EXCEPT !.cancelling = t] \in Screens
                                 /\ \A y \in BOOLEAN :
                                        [s EXCEPT !.prepared = t, !.confirming = y] \in Screens
           /\ \A r \in Row \cup {NoChoice}, x \in Panels :
                    [s EXCEPT !.detail = r, !.panel = x] \in Screens
           /\ \A r, q \in Row \cup {NoChoice} : [s EXCEPT !.detail = r, !.chosen = q] \in Screens
BY DEF Screens, Panels

\* A click that leaves the forms, and starts nothing.
LEMMA SameFormsKeep ==
    ASSUME PagesInv, RestOfThePage, UNCHANGED <<awaited, disturbed, astray>>,
           screen' \in Screens, SameForms(screen, screen'),
           screen'.panel = "ready" => screen.panel = "ready"
    PROVE  PagesInv'
<1>1. PageTypes' /\ ScreenFits(screen)'
  BY DEF PagesInv, PageTypes, RestOfThePage, ScreenFits, SameForms
<1>2. Steady'
  <2>1. ASSUME ~disturbed, NEW c \in awaited PROVE ActsOn(screen', c)
    BY <2>1 DEF PagesInv, Steady, ActsOn, SameForms
  <2>2. ASSUME ~disturbed PROVE ScreenSteady(screen')
    BY <2>2 DEF PagesInv, Steady, ScreenSteady, SameForms
  <2>3. QED
    BY <2>1, <2>2 DEF PagesInv, Steady
<1>3. OneAtATime' /\ EditorFits' /\ \A c \in awaited' : SentFits(c)'
  BY DEF PagesInv, OneAtATime, EditorFits, SentFits, RestOfThePage
<1>4. QED
  BY <1>1, <1>2, <1>3 DEF PagesInv

\* "Fermer" and "Réessayer".
LEMMA RowIsClosed ==
    ASSUME PagesInv, RestOfThePage, CloseRow \/ RetryDetail PROVE PagesInv'
<1>1. screen \in Screens
  BY DEF PagesInv, PageTypes
<1>2. CASE CloseRow
  <2> DEFINE next == [screen EXCEPT !.chosen = NoChoice]
  <2>1. next \in Screens /\ Turn(next)
    BY <1>1, <1>2, ScreenKeepsType DEF CloseRow
  <2>2. ScreenFits(next) /\ (~disturbed => ScreenSteady(next))
    BY <1>1 DEF PagesInv, ScreenFits, ScreenSteady, Screens
  <2> HIDE DEF next
  <2>3. QED
    BY <2>1, <2>2, TurnKeeps
<1>3. CASE RetryDetail
  <2>1. screen' = [screen EXCEPT !.panel = "locked"] /\ UNCHANGED <<awaited, disturbed, astray>>
    BY <1>3 DEF RetryDetail
  <2>2. screen' \in Screens /\ SameForms(screen, screen') /\ screen'.panel = "locked"
    <3>1. screen' \in Screens
      BY <1>1, <2>1, ScreenKeepsType DEF Panels
    <3>2. QED
      BY <1>1, <2>1, <3>1 DEF Screens, SameForms
  <2>3. QED
    BY <2>1, <2>2, SameFormsKeep
<1>4. QED
  BY <1>2, <1>3

\* A detail that is loaded is the one of the row that is chosen.
LEMMA LoadedKeeps ==
    ASSUME PagesInv, RestOfThePage, NEW c \in awaited, Loaded(c), view # "clients"
    PROVE  PagesInv'
<1> DEFINE next == [screen EXCEPT !.detail = c.sent[1], !.panel = "ready"]
<1>1. screen \in Screens /\ c.kind = "load" /\ c.sent[1] \in Row
  BY DEF PagesInv, PageTypes, Loaded, Arrives, SentFits
<1>2. /\ next \in Screens /\ next.panel = "ready" /\ next.detail = c.sent[1]
      /\ next.chosen = screen.chosen /\ next.editing = screen.editing
      /\ next.cancelling = screen.cancelling /\ next.prepared = screen.prepared
  <2>1. next \in Screens
    BY <1>1, ScreenKeepsType DEF Panels
  <2>2. QED
    BY <1>1, <2>1 DEF Screens
<1>3. screen' = next /\ awaited' = awaited \ {c} /\ UNCHANGED <<disturbed, astray>>
  BY DEF Loaded, Arrives
<1> HIDE DEF next
<1>4. ScreenFits(next)
  BY <1>2 DEF PagesInv, ScreenFits
<1>5. ASSUME ~disturbed
      PROVE  ~astray /\ ScreenSteady(next) /\ \A d \in awaited \ {c} : ActsOn(next, d)
  <2>1. ~astray /\ ScreenSteady(screen) /\ \A d \in awaited : ActsOn(screen, d)
    BY <1>5 DEF PagesInv, Steady
  <2>2. next.detail = screen.chosen
    BY <1>1, <1>2, <2>1 DEF ActsOn, Whole
  <2>3. ScreenSteady(next)
    BY <1>2, <2>1, <2>2 DEF ScreenSteady
  <2>4. ASSUME NEW d \in awaited PROVE ActsOn(next, d)
    BY <1>2, <2>1, <2>2 DEF ActsOn
  <2>5. QED
    BY <2>1, <2>3, <2>4
<1>6. disturbed \in BOOLEAN /\ astray \in BOOLEAN
  BY DEF PagesInv, PageTypes
<1>7. QED
  BY <1>2, <1>3, <1>4, <1>5, <1>6, ArrivalKeeps

\* An answer that is shown of the row it is of, while nothing is disturbed.
LEMMA AnsweredKeeps ==
    ASSUME PagesInv, RestOfThePage, NEW c \in awaited, NEW kinds, NEW marked, NEW next \in Screens,
           Answered(c, kinds, marked, next), ScreenFits(next),
           ~disturbed => /\ c.named = c.sent /\ marked = {c.sent} /\ ScreenSteady(next)
                         /\ \A d \in awaited \ {c} : ActsOn(next, d)
    PROVE  PagesInv'
<1>1. /\ awaited' = awaited \ {c} /\ screen' = next /\ disturbed' = disturbed
      /\ astray' = (astray \/ c.named # c.sent \/ marked # {c.sent})
  BY DEF Answered, Arrives
<1>2. disturbed \in BOOLEAN /\ astray \in BOOLEAN
  BY DEF PagesInv, PageTypes
<1>3. astray' \in BOOLEAN
  BY <1>1
<1>4. ASSUME ~disturbed PROVE ~astray'
  BY <1>1, <1>4 DEF PagesInv, Steady
<1>5. QED
  BY <1>1, <1>2, <1>3, <1>4, ArrivalKeeps

-----------------------------------------------------------------------------
\* A row just chosen has no forms yet.
FreshRow(s) ==
    s.panel # "ready" /\ s.editing = NoChoice /\ s.cancelling = NoChoice /\ s.prepared = NoChoice

\* A click that chooses a row.
LEMMA ChoosingKeeps ==
    ASSUME PagesInv, RestOfThePage, NEW next \in Screens, Turn(next), FreshRow(next)
    PROVE  PagesInv'
<1>1. ScreenFits(next) /\ ScreenSteady(next)
  BY DEF FreshRow, ScreenFits, ScreenSteady
<1>2. QED
  BY <1>1, TurnKeeps

\* An answer that chooses a row, or drops it.
LEMMA ArrivalChooses ==
    ASSUME PagesInv, RestOfThePage, NEW c \in awaited, awaited' = awaited \ {c},
           NEW next \in Screens, screen' = next, FreshRow(next),
           disturbed' = (disturbed \/ awaited \ {c} # {}), UNCHANGED astray
    PROVE  PagesInv'
<1>1. ScreenFits(next) /\ ScreenSteady(next)
  BY DEF FreshRow, ScreenFits, ScreenSteady
<1>2. disturbed' \in BOOLEAN /\ astray' \in BOOLEAN
  BY DEF PagesInv, PageTypes
<1>3. ASSUME ~disturbed' PROVE ~disturbed /\ ~astray' /\ awaited' = {}
  BY <1>3 DEF PagesInv, Steady
<1>4. QED
  BY <1>1, <1>2, <1>3, ArrivalKeeps

\* A request about the row that is chosen.
LEMMA SubmitRow ==
    ASSUME PagesInv, RestOfThePage, NEW kind \in {"load"} \cup OfARow \cup ClientActions,
           NEW r \in Row, NEW q \in Row, NEW next \in Screens,
           Submit(kind, Whole(r), Whole(q), next),
           SameForms(screen, next), next.panel = "ready" => screen.panel = "ready",
           screen.chosen # NoChoice, kind \in OfARow => screen.panel = "ready",
           ~disturbed => r = screen.chosen /\ q = screen.chosen,
           kind \in ClientActions <=> view = "clients",
           kind \in ClientActions => ~Waiting(ClientActions)
    PROVE  PagesInv'
<1>1. kind \in Kinds \ OfTheEditor /\ kind # "cancellation"
  BY DEF Kinds, OfTheEditor, OfARow, ClientActions
<1>2. Whole(r) \in NamedRequest /\ Whole(q) \in NamedRequest /\ Whole(q)[1] = q
  BY DEF Whole, Versions, NamedRequest
<1> DEFINE c == Request(kind, Whole(r), Whole(q))
<1>3. c.kind = kind /\ c.named = Whole(r) /\ c.sent = Whole(q) /\ c.state = "sent"
  <2>1. kind \in Kinds /\ Whole(r) \in NamedRequest /\ Whole(q) \in NamedRequest
    BY <1>1, <1>2
  <2>2. QED
    BY ONLY <2>1, RequestFits
<1> HIDE DEF c
<1>4. SentFits(c)
  BY <1>2, <1>3 DEF SentFits, OfAGrant, OfARow, ClientActions
<1>5. ASSUME ~disturbed PROVE ActsOn(screen, c)
  <2>1. screen.chosen \in Row /\ (kind \in OfARow => screen.detail = screen.chosen)
    BY <1>5 DEF PagesInv, Steady, ScreenSteady
  <2>2. QED
    BY <1>3, <1>5, <2>1 DEF ActsOn, OfAGrant, OfARow, ClientActions
<1>6. QED
  BY <1>1, <1>2, <1>4, <1>5, SubmitKeeps DEF c

\* An answer about the row that is chosen, which leaves its forms.
LEMMA RowAnswered ==
    ASSUME PagesInv, RestOfThePage, NEW c \in awaited, NEW kinds, NEW marked,
           Answered(c, kinds, marked, screen), kinds \subseteq OfARow \cup {"member"} \cup OfAGrant,
           ~disturbed => marked = {c.sent}
    PROVE  PagesInv'
<1>1. screen \in Screens /\ ScreenFits(screen) /\ c.kind \in kinds
  BY DEF PagesInv, PageTypes, Answered, Arrives
<1>2. ASSUME ~disturbed
      PROVE  c.named = c.sent /\ ScreenSteady(screen) /\ \A d \in awaited \ {c} : ActsOn(screen, d)
  <2>1. ScreenSteady(screen) /\ \A d \in awaited : ActsOn(screen, d)
    BY <1>2 DEF PagesInv, Steady
  <2>2. QED
    BY <1>1, <2>1 DEF ActsOn
<1>3. QED
  BY <1>1, <1>2, AnsweredKeeps

\* What the screen shows of a request about a row.
LEMMA ShownOfTheRow ==
    ASSUME PagesInv, NEW c \in awaited, c.kind \in OfARow, ~disturbed
    PROVE  /\ screen.detail # NoChoice /\ screen.chosen # NoChoice
           /\ There({screen.detail}) = {c.sent} /\ There({screen.chosen, screen.detail}) = {c.sent}
<1>1. ActsOn(screen, c)
  BY DEF PagesInv, Steady
<1>2. QED
  BY <1>1 DEF ActsOn, There

-----------------------------------------------------------------------------
(* users.vue *)

\* A register that is asked for or that arrives, and a row chosen in it.
LEMMA RegistryKeeps ==
    ASSUME PagesInv, RestOfThePage,
           \/ LoadRegistry
           \/ \E c \in awaited : RegistryLoaded(c)
           \/ \E r \in Row : SelectUser(r)
    PROVE  PagesInv'
<1>1. screen \in Screens
  BY DEF PagesInv, PageTypes
<1>2. CASE LoadRegistry
  <2> DEFINE next == [screen EXCEPT !.registry = FALSE]
  <2>1. next \in Screens
    BY <1>1, ScreenKeepsType
  <2>2. SameForms(screen, next) /\ next.panel = screen.panel
    BY <1>1 DEF Screens, SameForms
  <2>3. view = "users" /\ Submit("list", NoChoice, NoChoice, next)
    BY <1>2 DEF LoadRegistry
  <2> HIDE DEF next
  <2>4. /\ "list" \in Kinds \ OfTheEditor /\ "list" \notin ClientActions
        /\ NoChoice \in NamedRequest
    BY DEF Kinds, OfTheEditor, ClientActions, Targets, NamedRequest
  <2> DEFINE d == Request("list", NoChoice, NoChoice)
  <2>5. d.kind = "list"
    BY <2>4, RequestFits
  <2> HIDE DEF d
  <2>6. SentFits(d) /\ ActsOn(screen, d)
    BY <2>3, <2>5 DEF SentFits, ActsOn, OfARow, OfAGrant, ClientActions
  <2>7. QED
    BY <2>1, <2>2, <2>3, <2>4, <2>6, SubmitKeeps DEF d
<1>3. ASSUME NEW c \in awaited, RegistryLoaded(c) PROVE PagesInv'
  <2>1. view = "users" /\ awaited' = awaited \ {c} /\ UNCHANGED astray
    BY <1>3 DEF RegistryLoaded, Arrives
  <2>2. disturbed \in BOOLEAN /\ astray \in BOOLEAN
    BY DEF PagesInv, PageTypes
  <2>3. CASE screen' = [screen EXCEPT !.registry = TRUE] /\ UNCHANGED disturbed
    <3> DEFINE next == [screen EXCEPT !.registry = TRUE]
    <3>1. next \in Screens
      BY <1>1, ScreenKeepsType
    <3>2. SameForms(screen, next) /\ next.panel = screen.panel
      BY <1>1 DEF Screens, SameForms
    <3> HIDE DEF next
    <3>3. ScreenFits(next) /\ (~disturbed => ScreenSteady(next))
      BY <3>2 DEF PagesInv, ScreenFits, Steady, ScreenSteady, SameForms
    <3>4. ASSUME ~disturbed, NEW d \in awaited PROVE ~astray /\ ActsOn(next, d)
      BY <3>2, <3>4 DEF PagesInv, Steady, ActsOn, SameForms
    <3>5. QED
      BY <2>1, <2>2, <2>3, <3>1, <3>3, <3>4, ArrivalKeeps DEF next
  <2>4. CASE /\ screen' = [screen EXCEPT !.registry = TRUE, !.chosen = NoChoice,
                                         !.detail = NoChoice, !.panel = "locked"]
             /\ disturbed' = (disturbed \/ awaited \ {c} # {})
    <3>1. screen' \in Screens
      BY <1>1, <2>4 DEF Screens, Panels
    <3>2. FreshRow(screen')
      BY <1>1, <2>1, <2>4 DEF PagesInv, ScreenFits, FreshRow, Screens
    <3>3. QED
      BY <2>1, <2>4, <3>1, <3>2, ArrivalChooses
  <2>5. QED
    BY <1>3, <2>3, <2>4 DEF RegistryLoaded
<1>4. ASSUME NEW r \in Row, SelectUser(r) PROVE PagesInv'
  <2> DEFINE next == [screen EXCEPT !.chosen = r, !.detail = NoChoice, !.panel = "locked"]
  <2>1. Turn(next) /\ view = "users"
    BY <1>4 DEF SelectUser
  <2>2. next \in Screens
    BY <1>1 DEF Screens, Panels
  <2>3. FreshRow(next)
    BY <1>1, <2>1 DEF PagesInv, ScreenFits, FreshRow, Screens
  <2>4. QED
    BY <2>1, <2>2, <2>3, ChoosingKeeps
<1>5. QED
  BY <1>2, <1>3, <1>4

\* A detail that is loaded begins with a panel that loads.
LEMMA LoadKeeps ==
    ASSUME PagesInv, RestOfThePage, view # "clients", screen.chosen # NoChoice,
           Submit("load", Whole(screen.chosen), Whole(screen.chosen),
                  [screen EXCEPT !.panel = "loading"])
    PROVE  PagesInv'
<1> DEFINE next == [screen EXCEPT !.panel = "loading"]
<1>1. screen \in Screens /\ screen.chosen \in Row
  BY DEF PagesInv, PageTypes, Screens
<1>2. next \in Screens
  BY <1>1, ScreenKeepsType DEF Panels
<1>3. SameForms(screen, next) /\ next.panel = "loading"
  BY <1>1 DEF Screens, SameForms
<1> HIDE DEF next
<1>4. Submit("load", Whole(screen.chosen), Whole(screen.chosen), next)
  BY DEF next
<1>5. "load" \notin ClientActions /\ "load" \notin OfARow
  BY DEF ClientActions, OfARow
<1>6. QED
  BY <1>1, <1>2, <1>3, <1>4, <1>5, SubmitRow

\* A request of a form goes to the row of its title, while nothing is disturbed.
LEMMA FormKeeps ==
    ASSUME PagesInv, RestOfThePage, NEW kind \in OfARow, NEW r \in Row, NEW q \in Row,
           Submit(kind, Whole(r), Whole(q), screen),
           {r, q} \subseteq {screen.chosen, screen.detail},
           view # "clients", screen.chosen # NoChoice, screen.panel = "ready"
    PROVE  PagesInv'
<1>1. screen \in Screens /\ SameForms(screen, screen) /\ kind \notin ClientActions
  BY DEF PagesInv, PageTypes, SameForms, OfARow, ClientActions
<1>2. ~disturbed => r = screen.chosen /\ q = screen.chosen
  BY DEF PagesInv, Steady, ScreenSteady
<1>3. QED
  BY <1>1, <1>2, SubmitRow

\* users.vue: what a step of its page keeps.
LEMMA UsersKeep ==
    ASSUME PagesInv, RestOfThePage, UsersPage PROVE PagesInv'
<1>1. screen \in Screens
  BY DEF PagesInv, PageTypes
<1>2. CASE LoadUser
  BY <1>2, LoadKeeps DEF LoadUser
<1>3. ASSUME NEW c \in awaited, UserLoaded(c) PROVE PagesInv'
  BY <1>3, LoadedKeeps DEF UserLoaded
<1>4. CASE ChangeStatus \/ RevokeSessions
  <2>1. /\ screen.chosen \in Row /\ screen.chosen # NoChoice /\ screen.detail \in Row
        /\ screen.panel = "ready" /\ view # "clients"
        /\ \E kind \in {"status", "sessions"} :
                Submit(kind, Whole(screen.detail), Whole(screen.chosen), screen)
    BY <1>1, <1>4 DEF ChangeStatus, RevokeSessions, UserForms, Screens
  <2>2. QED
    BY <2>1, FormKeeps DEF OfARow
<1>5. ASSUME NEW c \in awaited, StatusChanged(c) \/ SessionsRevoked(c) PROVE PagesInv'
  <2>1. c.kind \in OfARow
    BY <1>5 DEF StatusChanged, SessionsRevoked, Answered, Arrives, OfARow
  <2>2. CASE StatusChanged(c)
    BY <2>1, <2>2, ShownOfTheRow, RowAnswered DEF StatusChanged, OfARow
  <2>3. CASE SessionsRevoked(c)
    BY <2>1, <2>3, ShownOfTheRow, RowAnswered DEF SessionsRevoked, OfARow
  <2>4. QED
    BY <1>5, <2>2, <2>3
<1>6. QED
  BY <1>2, <1>3, <1>4, <1>5, RegistryKeeps DEF UsersPage

-----------------------------------------------------------------------------
(* organizations.vue *)

\* The row chosen and its forms are those of another organization.
LEMMA TenantIsFresh ==
    ASSUME PagesInv, NEW r \in Row, view # "service grants"
    PROVE  Tenant(r) \in Screens /\ FreshRow(Tenant(r))
<1>1. screen \in Screens /\ NoChoice \in Targets
  BY DEF PagesInv, PageTypes, Targets
<1>2. Tenant(r) \in Screens
  BY <1>1 DEF Tenant, Screens, Panels
<1>3. QED
  BY <1>1, <1>2 DEF Tenant, PagesInv, ScreenFits, FreshRow, Screens

\* Choosing an organization, or creating one, which chooses it.
LEMMA TenantKeeps ==
    ASSUME PagesInv, RestOfThePage,
           \/ \E r \in Row : SelectOrganization(r)
           \/ CreateOrganization
           \/ \E c \in awaited : OrganizationCreated(c)
    PROVE  PagesInv'
<1>1. ASSUME NEW r \in Row, SelectOrganization(r) PROVE PagesInv'
  BY <1>1, TenantIsFresh, ChoosingKeeps DEF SelectOrganization
<1>2. CASE CreateOrganization
  <2>1. /\ view = "organizations" /\ Submit("organization", NoChoice, NoChoice, screen)
        /\ screen \in Screens /\ SameForms(screen, screen)
    BY <1>2 DEF CreateOrganization, PagesInv, PageTypes, SameForms
  <2>2. /\ "organization" \in Kinds \ OfTheEditor /\ "organization" \notin ClientActions
        /\ NoChoice \in NamedRequest
    BY DEF Kinds, OfTheEditor, ClientActions, Targets, NamedRequest
  <2> DEFINE d == Request("organization", NoChoice, NoChoice)
  <2>3. d.kind = "organization"
    BY <2>2, RequestFits
  <2> HIDE DEF d
  <2>4. SentFits(d) /\ ActsOn(screen, d)
    BY <2>1, <2>3 DEF SentFits, ActsOn, OfARow, OfAGrant, ClientActions
  <2>5. QED
    BY <2>1, <2>2, <2>4, SubmitKeeps DEF d
<1>3. ASSUME NEW c \in awaited, OrganizationCreated(c) PROVE PagesInv'
  <2> view = "organizations"
    BY <1>3 DEF OrganizationCreated, Arrives, PagesInv, SentFits
  <2>1. PICK r \in Row : screen' = Tenant(r)
    BY <1>3 DEF OrganizationCreated
  <2>2. QED
    BY <1>3, <2>1, TenantIsFresh, ArrivalChooses DEF OrganizationCreated, Arrives
<1>4. QED
  BY <1>1, <1>2, <1>3

\* The detail that is saved is the one that is chosen.
LEMMA SavedKeeps ==
    ASSUME PagesInv, RestOfThePage, NEW c \in awaited, OrganizationSaved(c)
    PROVE  PagesInv'
<1> DEFINE row == c.sent[1]
           next == IF screen.detail = NoChoice THEN screen
                   ELSE [screen EXCEPT !.detail = row,
                                       !.chosen = IF @ = NoChoice THEN NoChoice ELSE row]
           marked == IF screen.detail = NoChoice THEN {}
                     ELSE There({screen.chosen, screen.detail})
<1>1. Answered(c, {"save organization"}, marked, next)
  BY DEF OrganizationSaved
<1>2. screen \in Screens /\ c.kind = "save organization" /\ row \in Row
  BY <1>1 DEF PagesInv, PageTypes, SentFits, Answered, Arrives
<1>3. next \in Screens
  BY <1>2 DEF Screens
<1>4. /\ next.panel = screen.panel /\ next.editing = screen.editing
      /\ next.cancelling = screen.cancelling /\ next.prepared = screen.prepared
  BY <1>2 DEF Screens
<1>5. ScreenFits(next)
  BY <1>4 DEF PagesInv, ScreenFits
<1>6. ASSUME ~disturbed
      PROVE  /\ c.named = c.sent /\ marked = {c.sent} /\ ScreenSteady(next)
             /\ \A d \in awaited \ {c} : ActsOn(next, d)
  <2>1. ScreenSteady(screen) /\ \A d \in awaited : ActsOn(screen, d)
    BY <1>6 DEF PagesInv, Steady
  <2>2. c.named = c.sent /\ c.sent = Whole(screen.chosen) /\ screen.detail = screen.chosen
    BY <1>2, <2>1 DEF ActsOn, OfARow
  <2>3. row = screen.chosen
    BY <2>2 DEF Whole
  <2>4. next.chosen = screen.chosen /\ next.detail = screen.detail
    BY <1>2, <2>2, <2>3 DEF Screens
  <2>5. marked = {c.sent}
    BY <1>2, <1>6, ShownOfTheRow DEF OfARow
  <2> HIDE DEF next, marked, row
  <2>6. ScreenSteady(next) /\ \A d \in awaited : ActsOn(next, d)
    BY <1>4, <2>1, <2>4 DEF ScreenSteady, ActsOn
  <2>7. QED
    BY <2>2, <2>5, <2>6
<1> HIDE DEF next, marked
<1>7. QED
  BY <1>1, <1>3, <1>5, <1>6, AnsweredKeeps

\* A form of a member, an invitation or a grant names the row chosen.
LEMMA PreparingKeeps ==
    ASSUME PagesInv, RestOfThePage, NEW k \in Parts,
           EditMember(k) \/ PrepareCancellation(k) \/ PrepareAction(k)
    PROVE  PagesInv'
<1>1. screen \in Screens
  BY DEF PagesInv, PageTypes
<1>2. /\ screen.detail \in Row /\ screen.chosen # NoChoice /\ screen.panel = "ready"
      /\ ~disturbed => screen.detail = screen.chosen
  BY <1>1 DEF EditMember, PrepareCancellation, PrepareAction, OrganizationForms, GrantForms,
              PagesInv, Steady, ScreenSteady, Screens
<1>3. <<screen.detail, k>> \in Targets
  BY <1>2 DEF Targets, Parts
<1>4. CASE EditMember(k)
  <2> DEFINE next == [screen EXCEPT !.editing = <<screen.detail, k>>]
  <2>1. next \in Screens
    BY <1>1, <1>3, ScreenKeepsType
  <2>2. ScreenFits(next)
    BY <1>1, <1>4 DEF EditMember, OrganizationForms, PagesInv, ScreenFits, Screens
  <2>3. ASSUME ~disturbed PROVE ScreenSteady(next)
    BY <1>1, <1>2, <2>3 DEF PagesInv, Steady, ScreenSteady, Screens
  <2>4. Turn(next)
    BY <1>4 DEF EditMember
  <2> HIDE DEF next
  <2>5. QED
    BY <2>1, <2>2, <2>3, <2>4, TurnKeeps
<1>5. CASE PrepareCancellation(k)
  <2> DEFINE next == [screen EXCEPT !.cancelling = <<screen.detail, k>>]
  <2>1. next \in Screens
    BY <1>1, <1>3, ScreenKeepsType
  <2>2. ScreenFits(next)
    BY <1>1, <1>5 DEF PrepareCancellation, OrganizationForms, PagesInv, ScreenFits, Screens
  <2>3. ASSUME ~disturbed PROVE ScreenSteady(next)
    BY <1>1, <1>2, <2>3 DEF PagesInv, Steady, ScreenSteady, Screens
  <2>4. Turn(next)
    BY <1>5 DEF PrepareCancellation
  <2> HIDE DEF next
  <2>5. QED
    BY <2>1, <2>2, <2>3, <2>4, TurnKeeps
<1>6. CASE PrepareAction(k)
  <2> DEFINE next == [screen EXCEPT !.prepared = <<screen.detail, k>>, !.confirming = TRUE]
  <2>1. next \in Screens
    BY <1>1, <1>3, ScreenKeepsType
  <2>2. ScreenFits(next)
    BY <1>1, <1>6 DEF PrepareAction, GrantForms, PagesInv, ScreenFits, Screens
  <2>3. ASSUME ~disturbed PROVE ScreenSteady(next)
    BY <1>1, <1>2, <2>3 DEF PagesInv, Steady, ScreenSteady, Screens
  <2>4. Turn(next)
    BY <1>6 DEF PrepareAction
  <2> HIDE DEF next
  <2>5. QED
    BY <2>1, <2>2, <2>3, <2>4, TurnKeeps
<1>7. QED
  BY <1>4, <1>5, <1>6

\* A request of such a form.
LEMMA PreparedKeeps ==
    ASSUME PagesInv, RestOfThePage, NEW kind \in {"member", "cancellation"} \cup OfAGrant,
           NEW named \in NamedRequest, NEW sent \in NamedRequest,
           Submit(kind, named, sent, screen),
           kind = "cancellation" => ~Waiting({"cancellation"}),
           kind \in OfAGrant => sent \in Targets /\ view = "service grants",
           view # "clients",
           ~disturbed =>
              /\ named = sent /\ sent # NoChoice
              /\ kind = "member" => sent = screen.editing
              /\ kind \in OfAGrant => sent = screen.prepared
              /\ kind = "cancellation" =>
                   /\ screen.chosen # NoChoice /\ screen.detail = screen.chosen
                   /\ sent \in {screen.chosen} \X Parts /\ sent = screen.cancelling
    PROVE  PagesInv'
<1>1. /\ kind \in Kinds \ OfTheEditor
      /\ kind \notin ClientActions \cup OfARow
      /\ kind \notin {"load", "save organization", "history", "save", "organization"}
      /\ kind \in {"member", "cancellation"} => kind \notin OfAGrant
  BY DEF Kinds, OfTheEditor, ClientActions, OfARow, OfAGrant
<1> DEFINE c == Request(kind, named, sent)
<1>2. c.kind = kind /\ c.named = named /\ c.sent = sent /\ c.state = "sent"
  <2>1. kind \in Kinds
    BY <1>1
  <2>2. named \in NamedRequest /\ sent \in NamedRequest
    OBVIOUS
  <2>3. QED
    BY ONLY <2>1, <2>2, RequestFits
<1> HIDE DEF c
<1>3. SentFits(c)
  BY <1>1, <1>2 DEF SentFits
<1>4. ~disturbed => ActsOn(screen, c)
  BY <1>1, <1>2 DEF ActsOn
<1>5. screen \in Screens /\ SameForms(screen, screen)
  BY DEF PagesInv, PageTypes, SameForms
<1>6. QED
  BY <1>1, <1>3, <1>4, <1>5, SubmitKeeps DEF c

\* An invitation that is cancelled is the one that was prepared, and is dropped.
LEMMA CancelledKeeps ==
    ASSUME PagesInv, RestOfThePage, NEW c \in awaited, InvitationCancelled(c)
    PROVE  PagesInv'
<1> DEFINE marked == {screen.cancelling} \cap ({screen.detail} \X Parts)
           next == [screen EXCEPT !.cancelling = IF screen.detail = NoChoice THEN @ ELSE NoChoice]
<1>1. Answered(c, {"cancellation"}, marked, next) /\ c.kind = "cancellation"
  BY DEF InvitationCancelled, Answered, Arrives
<1>2. screen \in Screens /\ NoChoice \in Targets
  BY DEF PagesInv, PageTypes, Targets
<1>3. next \in Screens
  BY <1>2 DEF Screens
<1>4. /\ next.panel = screen.panel /\ next.editing = screen.editing
      /\ next.prepared = screen.prepared /\ next.chosen = screen.chosen
      /\ next.detail = screen.detail /\ next.cancelling \in {screen.cancelling, NoChoice}
  BY <1>2 DEF Screens
<1> HIDE DEF next
<1>5. ScreenFits(next)
  BY <1>4 DEF PagesInv, ScreenFits
<1>6. ASSUME ~disturbed
      PROVE  /\ c.named = c.sent /\ marked = {c.sent} /\ ScreenSteady(next)
             /\ \A d \in awaited \ {c} : ActsOn(next, d)
  <2>1. ScreenSteady(screen) /\ \A d \in awaited : ActsOn(screen, d)
    BY <1>6 DEF PagesInv, Steady
  <2>2. c.named = c.sent /\ marked = {c.sent}
    BY <1>1, <2>1 DEF ActsOn
  <2>3. ScreenSteady(next)
    BY <1>4, <2>1 DEF ScreenSteady
  <2>4. ASSUME NEW d \in awaited \ {c} PROVE ActsOn(next, d)
    <3>1. d.kind # "cancellation"
      BY <1>1 DEF PagesInv, OneAtATime
    <3>2. QED
      BY <1>4, <2>1, <3>1 DEF ActsOn
  <2>5. QED
    BY <2>2, <2>3, <2>4
<1> HIDE DEF marked
<1>7. QED
  BY <1>1, <1>3, <1>5, <1>6, AnsweredKeeps

\* organizations.vue: what a step of its page keeps.
LEMMA OrganizationsKeep ==
    ASSUME PagesInv, RestOfThePage, OrganizationsPage PROVE PagesInv'
<1>1. screen \in Screens
  BY DEF PagesInv, PageTypes
<1>2. CASE LoadOrganization
  BY <1>2, LoadKeeps DEF LoadOrganization
<1>3. ASSUME NEW c \in awaited, OrganizationLoaded(c) PROVE PagesInv'
  BY <1>3, LoadedKeeps DEF OrganizationLoaded
<1>4. CASE SaveOrganization \/ InviteMember
  <2>1. /\ screen.chosen \in Row /\ screen.chosen # NoChoice /\ screen.detail \in Row
        /\ screen.panel = "ready" /\ view # "clients"
        /\ \E kind \in {"save organization", "invitation"} :
                Submit(kind, Whole(screen.chosen), Whole(screen.detail), screen)
    BY <1>1, <1>4 DEF SaveOrganization, InviteMember, OrganizationForms, Screens
  <2>2. QED
    BY <2>1, FormKeeps DEF OfARow
<1>5. ASSUME NEW c \in awaited, MemberInvited(c) PROVE PagesInv'
  <2>1. c.kind \in OfARow
    BY <1>5 DEF MemberInvited, Answered, Arrives, OfARow
  <2>2. QED
    BY <1>5, <2>1, ShownOfTheRow, RowAnswered DEF MemberInvited, OfARow
<1>6. CASE SaveMember
  <2> DEFINE e == screen.editing
  <2>1. /\ view # "clients" /\ screen.chosen \in Row /\ screen.chosen # NoChoice
        /\ screen.detail \in Row /\ screen.panel = "ready" /\ e # NoChoice
        /\ Submit("member", <<screen.chosen, e[2]>>, <<screen.detail, e[2]>>, screen)
    BY <1>1, <1>6 DEF SaveMember, OrganizationForms, Screens
  <2>2. e \in Targets
    BY <1>1 DEF Screens
  <2>3. <<screen.chosen, e[2]>> \in Targets /\ <<screen.detail, e[2]>> \in Targets
    BY <2>1, <2>2 DEF Targets
  <2>4. ~disturbed => screen.detail = screen.chosen /\ e \in {screen.chosen} \X Parts
    BY <2>1 DEF PagesInv, Steady, ScreenSteady
  <2>5. ~disturbed => <<screen.chosen, e[2]>> = e /\ <<screen.detail, e[2]>> = e
    BY <2>4
  <2>6. QED
    BY <2>1, <2>3, <2>4, <2>5, PreparedKeeps DEF OfAGrant, NamedRequest
<1>7. ASSUME NEW c \in awaited, MemberSaved(c) PROVE PagesInv'
  <2>1. Answered(c, {"member"}, {screen.editing} \ {NoChoice}, screen) /\ c.kind = "member"
    BY <1>7 DEF MemberSaved, Answered, Arrives
  <2>2. ~disturbed => {screen.editing} \ {NoChoice} = {c.sent}
    BY <2>1 DEF PagesInv, Steady, ActsOn
  <2>3. QED
    BY <2>1, <2>2, RowAnswered
<1>8. CASE CancelInvitation
  <2> DEFINE q == screen.cancelling
  <2>1. /\ view # "clients" /\ screen.chosen \in Row /\ screen.chosen # NoChoice
        /\ screen.panel = "ready" /\ q # NoChoice /\ ~Waiting({"cancellation"})
        /\ Submit("cancellation", <<screen.chosen, q[2]>>, q, screen)
    BY <1>1, <1>8 DEF CancelInvitation, OrganizationForms, Screens
  <2>2. q \in Targets
    BY <1>1 DEF Screens
  <2>3. <<screen.chosen, q[2]>> \in Targets
    BY <2>1, <2>2 DEF Targets
  <2>4. ~disturbed => /\ screen.detail = screen.chosen /\ q \in {screen.chosen} \X Parts
                      /\ <<screen.chosen, q[2]>> = q
    BY <2>1 DEF PagesInv, Steady, ScreenSteady
  <2>5. QED
    BY <2>1, <2>2, <2>3, <2>4, PreparedKeeps DEF OfAGrant, NamedRequest
<1>9. QED
  BY <1>2, <1>3, <1>4, <1>5, <1>6, <1>7, <1>8, TenantKeeps, SavedKeeps, CancelledKeeps,
     PreparingKeeps DEF OrganizationsPage

-----------------------------------------------------------------------------
(* service-grants.vue *)

\* Choosing a scope drops the grant that was prepared.
LEMMA ScopeKeeps ==
    ASSUME PagesInv, RestOfThePage, NEW r \in Row, SelectScope(r) PROVE PagesInv'
<1> DEFINE next == [screen EXCEPT !.chosen = r, !.detail = NoChoice, !.panel = "locked",
                                  !.prepared = NoChoice, !.confirming = FALSE]
<1>1. screen \in Screens /\ NoChoice \in Targets
  BY DEF PagesInv, PageTypes, Targets
<1>2. view = "service grants" /\ Turn(next)
  BY DEF SelectScope
<1>3. next \in Screens
  BY <1>1 DEF Screens, Panels
<1>4. FreshRow(next)
  BY <1>1, <1>2 DEF PagesInv, ScreenFits, FreshRow, Screens
<1>5. QED
  BY <1>2, <1>3, <1>4, ChoosingKeeps

\* What is prepared now becomes the grant of the answer, which it was.
LEMMA ExecutedKeeps ==
    ASSUME PagesInv, RestOfThePage, NEW c \in awaited, ActionExecuted(c) PROVE PagesInv'
<1> DEFINE marked == {screen.prepared} \ {NoChoice}
           next == [screen EXCEPT !.prepared =
                        IF @ = NoChoice \/ c.kind = "revoke" THEN @ ELSE c.sent]
<1>1. Answered(c, {"revoke", "update"}, marked, next) /\ c.kind \in OfAGrant
  BY DEF ActionExecuted, Answered, Arrives, OfAGrant
<1>2. screen \in Screens /\ c.sent \in Targets /\ view = "service grants"
  BY <1>1 DEF PagesInv, PageTypes, SentFits
<1>3. next \in Screens
  BY <1>2 DEF Screens
<1>4. /\ next.panel = screen.panel /\ next.editing = screen.editing
      /\ next.cancelling = screen.cancelling /\ next.chosen = screen.chosen
      /\ next.detail = screen.detail /\ next.prepared \in {screen.prepared, c.sent}
  BY <1>2 DEF Screens
<1> HIDE DEF next
<1>5. ScreenFits(next)
  BY <1>2, <1>4 DEF PagesInv, ScreenFits
<1>6. ASSUME ~disturbed
      PROVE  /\ c.named = c.sent /\ marked = {c.sent} /\ ScreenSteady(next)
             /\ \A d \in awaited \ {c} : ActsOn(next, d)
  <2>1. ScreenSteady(screen) /\ \A d \in awaited : ActsOn(screen, d)
    BY <1>6 DEF PagesInv, Steady
  <2>2. c.named = c.sent /\ marked = {c.sent} /\ screen.prepared = c.sent
    BY <1>1, <2>1 DEF ActsOn
  <2>3. ScreenSteady(next) /\ \A d \in awaited : ActsOn(next, d)
    BY <1>4, <2>1, <2>2 DEF ScreenSteady, ActsOn
  <2>4. QED
    BY <2>2, <2>3
<1> HIDE DEF marked
<1>7. QED
  BY <1>1, <1>3, <1>5, <1>6, AnsweredKeeps

\* service-grants.vue: what a step of its page keeps.
LEMMA GrantsKeep ==
    ASSUME PagesInv, RestOfThePage, GrantsPage PROVE PagesInv'
<1>1. screen \in Screens
  BY DEF PagesInv, PageTypes
<1>2. CASE LoadGrants
  BY <1>2, LoadKeeps DEF LoadGrants
<1>3. ASSUME NEW c \in awaited, GrantsLoaded(c) PROVE PagesInv'
  BY <1>3, LoadedKeeps DEF GrantsLoaded
<1>4. CASE CreateGrant
  <2>1. /\ screen.chosen \in Row /\ screen.chosen # NoChoice
        /\ screen.panel = "ready" /\ view # "clients"
        /\ Submit("grant", Whole(screen.chosen), Whole(screen.chosen), screen)
    BY <1>1, <1>4 DEF CreateGrant, GrantForms, Screens
  <2>2. QED
    BY <2>1, FormKeeps DEF OfARow
<1>5. ASSUME NEW c \in awaited, GrantCreated(c) PROVE PagesInv'
  <2>1. c.kind \in OfARow
    BY <1>5 DEF GrantCreated, Answered, Arrives, OfARow
  <2>2. QED
    BY <1>5, <2>1, ShownOfTheRow, RowAnswered DEF GrantCreated, OfARow
<1>6. CASE ExecuteAction
  <2> DEFINE q == screen.prepared
  <2>1. /\ view = "service grants" /\ screen.chosen \in Row /\ screen.chosen # NoChoice
        /\ q # NoChoice
        /\ \E kind \in OfAGrant : Submit(kind, <<screen.chosen, q[2]>>, q, screen)
    BY <1>1, <1>6 DEF ExecuteAction, GrantForms, Screens, OfAGrant
  <2>2. q \in Targets
    BY <1>1 DEF Screens
  <2>3. <<screen.chosen, q[2]>> \in Targets
    BY <2>1, <2>2 DEF Targets
  <2>4. ~disturbed => <<screen.chosen, q[2]>> = q
    <3>1. ~disturbed => q \in {screen.chosen} \X Parts
      BY <2>1 DEF PagesInv, Steady, ScreenSteady
    <3>2. QED
      BY <3>1
  <2>5. QED
    BY <2>1, <2>2, <2>3, <2>4, PreparedKeeps DEF OfAGrant, NamedRequest
<1>7. CASE CancelAction
  <2>1. screen' = [screen EXCEPT !.confirming = FALSE] /\ UNCHANGED <<awaited, disturbed, astray>>
    BY <1>7 DEF CancelAction
  <2>2. /\ screen' \in Screens /\ SameForms(screen, screen')
        /\ screen'.panel = screen.panel
    BY <1>1, <2>1 DEF Screens, SameForms
  <2>3. QED
    BY <2>1, <2>2, SameFormsKeep
<1>8. QED
  BY <1>2, <1>3, <1>4, <1>5, <1>6, <1>7, ScopeKeeps, ExecutedKeeps, PreparingKeeps DEF GrantsPage

-----------------------------------------------------------------------------
(* oauth-clients.vue *)

\* The client that an answer is shown of is the one selected, and the only one.
LEMMA ActedOnKeeps ==
    ASSUME PagesInv, RestOfThePage, NEW c \in awaited, ClientActedOn(c) PROVE PagesInv'
<1> DEFINE marked == There({screen.chosen})
           next == [screen EXCEPT !.chosen = IF c.kind = "deletion" THEN NoChoice ELSE @]
<1>1. Answered(c, ClientActions, marked, next) /\ c.kind \in ClientActions
  BY DEF ClientActedOn, Answered, Arrives
<1>2. screen \in Screens /\ view = "clients"
  BY <1>1 DEF PagesInv, PageTypes, SentFits
<1>3. next \in Screens
  BY <1>2 DEF Screens
<1>4. FreshRow(next)
  BY <1>2 DEF PagesInv, ScreenFits, FreshRow, Screens
<1>5. ScreenFits(next) /\ ScreenSteady(next)
  BY <1>4 DEF FreshRow, ScreenFits, ScreenSteady
<1>6. ASSUME ~disturbed PROVE c.named = c.sent /\ marked = {c.sent}
  <2>1. ActsOn(screen, c)
    BY <1>6 DEF PagesInv, Steady
  <2>2. QED
    BY <1>1, <2>1 DEF ActsOn, There
<1>7. ASSUME NEW d \in awaited \ {c} PROVE ActsOn(next, d)
  <2>1. d.kind = "client"
    BY <1>1, <1>2 DEF PagesInv, SentFits, OneAtATime
  <2>2. QED
    BY <2>1 DEF ActsOn, OfARow, OfAGrant, ClientActions
<1> HIDE DEF next, marked
<1>8. QED
  BY <1>1, <1>3, <1>5, <1>6, <1>7, AnsweredKeeps

\* oauth-clients.vue: what a step of its page keeps.
LEMMA ClientsKeep ==
    ASSUME PagesInv, RestOfThePage, ClientsPage PROVE PagesInv'
<1>1. screen \in Screens
  BY DEF PagesInv, PageTypes
<1>2. ASSUME NEW r \in Row, SelectClient(r) PROVE PagesInv'
  <2> DEFINE next == [screen EXCEPT !.chosen = r]
  <2>1. view = "clients" /\ Turn(next)
    BY <1>2 DEF SelectClient
  <2>2. next \in Screens
    BY <1>1, ScreenKeepsType
  <2>3. FreshRow(next)
    BY <1>1, <2>1 DEF PagesInv, ScreenFits, FreshRow, Screens
  <2>4. QED
    BY <2>1, <2>2, <2>3, ChoosingKeeps
<1>3. CASE ActOnClient
  <2>1. /\ view = "clients" /\ screen.chosen \in Row /\ screen.chosen # NoChoice
        /\ ~Waiting(ClientActions) /\ screen.panel # "ready"
        /\ SameForms(screen, screen)
    BY <1>1, <1>3 DEF ActOnClient, Screens, PagesInv, ScreenFits, SameForms
  <2>2. PICK kind \in ClientActions :
            Submit(kind, Whole(screen.chosen), Whole(screen.chosen), screen)
    BY <1>3 DEF ActOnClient
  <2>3. kind \notin OfARow
    BY DEF ClientActions, OfARow
  <2>4. QED
    BY <1>1, <2>1, <2>2, <2>3, SubmitRow
<1>4. CASE CreateClient
  <2>1. view = "clients" /\ Submit("client", NoChoice, NoChoice, screen)
    BY <1>4 DEF CreateClient
  <2>2. /\ "client" \in Kinds \ OfTheEditor /\ "client" \notin ClientActions
        /\ NoChoice \in NamedRequest /\ SameForms(screen, screen)
    BY DEF Kinds, OfTheEditor, ClientActions, NamedRequest, Targets, SameForms
  <2>3. /\ Request("client", NoChoice, NoChoice).kind = "client"
        /\ Request("client", NoChoice, NoChoice).state = "sent"
    BY <2>2, RequestFits
  <2>4. /\ SentFits(Request("client", NoChoice, NoChoice))
        /\ ActsOn(screen, Request("client", NoChoice, NoChoice))
    BY <2>1, <2>2, <2>3 DEF SentFits, ActsOn, OfARow, OfAGrant
  <2>5. QED
    BY <1>1, <2>1, <2>2, <2>4, SubmitKeeps
<1>5. ASSUME NEW c \in awaited, ClientCreated(c) PROVE PagesInv'
  <2>1. awaited' = awaited \ {c} /\ UNCHANGED <<screen, disturbed, astray>>
    BY <1>5 DEF ClientCreated, Arrives
  <2>2. disturbed \in BOOLEAN /\ astray \in BOOLEAN /\ ScreenFits(screen)
    BY DEF PagesInv, PageTypes
  <2>3. QED
    BY <1>1, <2>1, <2>2, ArrivalKeeps DEF PagesInv, Steady
<1>6. QED
  BY <1>2, <1>3, <1>4, <1>5, ActedOnKeeps DEF ClientsPage

-----------------------------------------------------------------------------
(* policies.vue *)

\* What the editor leaves to the other pages.
RestOfTheEditor == UNCHANGED <<view, screen, disturbed, astray>>

\* A step of the editor or of its server.
LEMMA EditorKeeps ==
    ASSUME PagesInv, RestOfTheEditor, editor' \in Editors, revision' \in [Row -> Nat],
           unseen' \in BOOLEAN, awaited' \in SUBSET AwaitedRequest, EditorFits',
           \A c \in awaited' \ awaited : c.kind \in OfTheEditor /\ SentFits(c)
    PROVE  PagesInv'
<1>1. \A k \in OfTheEditor : /\ k \notin {"load", "member", "cancellation"}
                             /\ k \notin OfARow /\ k \notin OfAGrant /\ k \notin ClientActions
  BY DEF OfTheEditor, OfARow, OfAGrant, ClientActions
<1>2. PageTypes' /\ ScreenFits(screen)'
  BY DEF PagesInv, PageTypes, ScreenFits, RestOfTheEditor
<1>3. \A c \in awaited' : SentFits(c)'
  <2>1. \A c \in awaited' : SentFits(c)
    BY DEF PagesInv
  <2>2. QED
    BY <2>1 DEF SentFits, RestOfTheEditor
<1>4. OneAtATime'
  BY <1>1 DEF PagesInv, OneAtATime
<1>5. Steady'
  <2>1. ASSUME ~disturbed, NEW c \in awaited' PROVE ActsOn(screen, c)
    <3>1. CASE c \in awaited
      BY <2>1, <3>1 DEF PagesInv, Steady
    <3>2. CASE c.kind \in OfTheEditor
      BY <1>1, <3>2 DEF ActsOn
    <3>3. QED
      BY <2>1, <3>1, <3>2
  <2>2. QED
    BY <2>1 DEF PagesInv, Steady, RestOfTheEditor
<1>6. QED
  BY <1>2, <1>3, <1>4, <1>5 DEF PagesInv

\* A click in the editor, which sends nothing.
LEMMA EditorTurns ==
    ASSUME PagesInv, RestOfTheEditor, UNCHANGED <<awaited, unseen>>,
           editor' \in Editors, editor'.panel = "ready" => editor'.open = editor'.base,
           revision' \in [Row -> Nat]
    PROVE  PagesInv'
<1>1. unseen' \in BOOLEAN /\ awaited' \in SUBSET AwaitedRequest
  BY DEF PagesInv, PageTypes
<1>2. EditorFits'
  BY DEF PagesInv, EditorFits
<1>3. QED
  BY <1>1, <1>2, EditorKeeps

\* A request of the editor: a save replaces the version its draft was opened from.
LEMMA EditorSends ==
    ASSUME PagesInv, RestOfTheEditor, UNCHANGED <<revision, unseen>>, view = "policies",
           NEW kind \in OfTheEditor, NEW named \in Versions, NEW sent \in Versions,
           Send(kind, named, sent), kind = "save" => named = sent,
           kind = "history" => sent[1] \in Row,
           editor' \in Editors, editor'.panel = "ready" => editor'.open = editor'.base
    PROVE  PagesInv'
<1> DEFINE c == Request(kind, named, sent)
<1>1. kind \in Kinds /\ named \in NamedRequest /\ sent \in NamedRequest
  BY DEF Kinds, NamedRequest
<1>2. /\ c \in AwaitedRequest /\ c.kind = kind /\ c.named = named /\ c.sent = sent /\ c.state = "sent"
  BY ONLY <1>1, RequestFits
<1>3. awaited' = awaited \cup {c}
  BY DEF Send
<1> HIDE DEF c
<1>4. SentFits(c)
  BY <1>2 DEF SentFits, OfTheEditor, OfAGrant, ClientActions
<1>5. EditorFits'
  BY <1>2, <1>3 DEF PagesInv, EditorFits
<1>6. /\ unseen' \in BOOLEAN /\ awaited' \in SUBSET AwaitedRequest /\ revision' \in [Row -> Nat]
  BY <1>2, <1>3 DEF PagesInv, PageTypes
<1>7. QED
  BY <1>2, <1>3, <1>4, <1>5, <1>6, EditorKeeps

\* An answer that the editor receives.
LEMMA EditorReceives ==
    ASSUME PagesInv, RestOfTheEditor, UNCHANGED <<revision, unseen>>,
           NEW c \in awaited, awaited' = awaited \ {c},
           editor' \in Editors, editor'.panel = "ready" => editor'.open = editor'.base
    PROVE  PagesInv'
<1>1. /\ unseen' \in BOOLEAN /\ awaited' \in SUBSET AwaitedRequest /\ revision' \in [Row -> Nat]
  BY DEF PagesInv, PageTypes
<1>2. EditorFits'
  BY DEF PagesInv, EditorFits
<1>3. QED
  BY <1>1, <1>2, EditorKeeps

\* The server answers a request, and saves over the version it names.
LEMMA ServerKeeps ==
    ASSUME PagesInv, RestOfTheEditor, NEW c \in awaited, ServeRead(c) \/ ServeSave(c)
    PROVE  PagesInv'
<1>1. c \in AwaitedRequest /\ revision \in [Row -> Nat] /\ unseen \in BOOLEAN /\ editor \in Editors
  BY DEF PagesInv, PageTypes
<1>2. ASSUME NEW sent \in NamedRequest, NEW about, revision' \in [Row -> Nat],
             unseen' = FALSE, UNCHANGED editor, AnswersWith(c, sent, about),
             c.kind \in OfTheEditor,
             c.kind = "history" => sent = c.sent, c.kind = "save" => sent[1] \in Row
      PROVE  PagesInv'
  <2> DEFINE told == [p \in Row |-> IF p \in about THEN revision'[p] ELSE 0]
             d == [c EXCEPT !.state = "answered", !.sent = sent, !.answer = told]
  <2>1. awaited' = (awaited \ {c}) \cup {d}
    BY <1>2 DEF AnswersWith
  <2>2. told \in [Row -> Nat]
    BY <1>2
  <2> HIDE DEF told
  <2>3. d \in AwaitedRequest /\ d.kind = c.kind /\ d.sent = sent /\ d.state = "answered"
    BY <1>1, <2>2 DEF AwaitedRequest
  <2> HIDE DEF d
  <2>4. SentFits(d)
    BY <1>2, <2>3 DEF PagesInv, SentFits, OfTheEditor, OfAGrant, ClientActions
  <2>5. EditorFits'
    BY <1>2, <2>1, <2>3 DEF PagesInv, EditorFits
  <2>6. awaited' \in SUBSET AwaitedRequest
    BY <2>1, <2>3 DEF PagesInv, PageTypes
  <2>7. QED
    BY <1>1, <1>2, <2>1, <2>3, <2>4, <2>5, <2>6, EditorKeeps
<1>3. CASE ServeRead(c)
  <2>1. /\ c.kind \in {"workspace", "history"} /\ UNCHANGED <<editor, revision, unseen>>
        /\ \E about : AnswersWith(c, c.sent, about)
    BY <1>3 DEF ServeRead
  <2>2. c.sent \in NamedRequest /\ unseen' = FALSE
    BY <1>1, <2>1 DEF AwaitedRequest, PagesInv, EditorFits
  <2>3. QED
    BY <1>1, <1>2, <2>1, <2>2 DEF OfTheEditor
<1>4. CASE ServeSave(c)
  <2>1. PICK p \in Row : /\ revision' = [revision EXCEPT ![p] = @ + 1]
                         /\ AnswersWith(c, <<p, revision[p] + 1>>, {p})
    BY <1>4 DEF ServeSave
  <2>2. /\ c.kind = "save" /\ c.state = "sent" /\ UNCHANGED editor
        /\ unseen' = (unseen \/ c.named # c.sent)
    BY <1>4 DEF ServeSave
  <2>3. unseen' = FALSE
    BY <1>1, <2>2 DEF PagesInv, EditorFits
  <2>4. revision[p] + 1 \in Nat /\ revision' \in [Row -> Nat]
    BY <1>1, <2>1
  <2>5. <<p, revision[p] + 1>> \in NamedRequest /\ <<p, revision[p] + 1>>[1] \in Row
    BY <2>4 DEF NamedRequest, Versions
  <2>6. QED
    BY <1>2, <2>1, <2>2, <2>3, <2>4, <2>5 DEF OfTheEditor
<1>5. QED
  BY <1>3, <1>4

\* What an editor becomes keeps its type.
LEMMA EditorKeepsType ==
    ASSUME NEW e \in Editors
    PROVE  /\ \A x \in Panels : [e EXCEPT !.panel = x] \in Editors
           /\ \A v \in Versions, x \in Panels : [e EXCEPT !.open = v, !.panel = x] \in Editors
           /\ \A v \in Versions :
                [e EXCEPT !.open = v, !.base = v, !.panel = "ready"] \in Editors
           /\ \A n \in Nat, p \in Row :
                [e EXCEPT !.workspace = "ready", !.listed[p] = n] \in Editors
BY DEF Editors, Panels

\* What is opened was opened from itself.
LEMMA OpenedFits ==
    ASSUME NEW v \in Versions, NEW next \in Editors, Opened(v, next)
    PROVE  editor' \in Editors /\ editor'.open = editor'.base
<1>1. editor' \in Editors
  BY EditorKeepsType DEF Opened
<1>2. QED
  BY <1>1 DEF Opened, Editors

\* policies.vue: the register and the choice of a policy in it.
LEMMA WorkspaceKeeps ==
    ASSUME PagesInv, RestOfTheEditor,
           \/ ChangeOrganization \/ LockWorkspace \/ CreateDraft \/ RetryHistory
           \/ \E p \in Row : SelectPolicy(p) \/ ReviseElsewhere(p)
    PROVE  PagesInv'
<1>1. editor \in Editors /\ revision \in [Row -> Nat] /\ NoChoice \in Versions
  BY DEF PagesInv, PageTypes, Versions
<1>2. CASE ChangeOrganization
  <2>1. /\ editor' = [editor EXCEPT !.open = NoChoice, !.panel = "locked", !.workspace = "locked",
                                    !.catalogue = FALSE, !.listed = [p \in Row |-> 0]]
        /\ UNCHANGED <<revision, awaited, unseen>>
    BY <1>2 DEF ChangeOrganization
  <2>2. [p \in Row |-> 0] \in [Row -> Nat]
    OBVIOUS
  <2>3. editor' \in Editors /\ editor'.panel = "locked"
    BY <1>1, <2>1, <2>2 DEF Editors, Panels
  <2>4. QED
    BY <1>1, <2>1, <2>3, EditorTurns
<1>3. CASE CreateDraft
  <2>1. Opened(NoChoice, editor) /\ UNCHANGED <<revision, awaited, unseen>>
    BY <1>3 DEF CreateDraft
  <2>2. QED
    BY <1>1, <2>1, OpenedFits, EditorTurns
<1>4. CASE RetryHistory
  <2>1. editor' = [editor EXCEPT !.panel = "locked"] /\ UNCHANGED <<revision, awaited, unseen>>
    BY <1>4 DEF RetryHistory
  <2>2. editor' \in Editors
    BY <1>1, <2>1, EditorKeepsType DEF Panels
  <2>3. editor'.panel = "locked"
    BY <1>1, <2>1 DEF Editors
  <2>4. QED
    BY <1>1, <2>1, <2>2, <2>3, EditorTurns
<1>5. ASSUME NEW p \in Row, SelectPolicy(p) PROVE PagesInv'
  <2>1. /\ editor' = [editor EXCEPT !.open = <<p, editor.listed[p]>>, !.panel = "locked"]
        /\ UNCHANGED <<revision, awaited, unseen>>
    BY <1>5 DEF SelectPolicy
  <2>2. <<p, editor.listed[p]>> \in Versions
    BY <1>1 DEF Editors, Versions
  <2>3. editor' \in Editors
    BY <1>1, <2>1, <2>2, EditorKeepsType DEF Panels
  <2>4. editor'.panel = "locked"
    BY <1>1, <2>1 DEF Editors
  <2>5. QED
    BY <1>1, <2>1, <2>3, <2>4, EditorTurns
<1>6. ASSUME NEW p \in Row, ReviseElsewhere(p) PROVE PagesInv'
  <2>1. revision' = [revision EXCEPT ![p] = @ + 1] /\ UNCHANGED <<editor, awaited, unseen>>
    BY <1>6 DEF ReviseElsewhere
  <2>2. revision' \in [Row -> Nat]
    BY <1>1, <2>1
  <2>3. QED
    BY <1>1, <2>1, <2>2, EditorTurns DEF PagesInv, EditorFits
<1>7. CASE LockWorkspace
  <2>1. editor' = [editor EXCEPT !.workspace = "locked"] /\ UNCHANGED <<revision, awaited, unseen>>
    BY <1>7 DEF LockWorkspace
  <2>2. /\ editor' \in Editors /\ editor'.panel = editor.panel /\ editor'.open = editor.open
        /\ editor'.base = editor.base
    BY <1>1, <2>1 DEF Editors
  <2>3. QED
    BY <1>1, <2>1, <2>2, EditorTurns DEF PagesInv, EditorFits
<1>8. QED
  BY <1>2, <1>3, <1>4, <1>5, <1>6, <1>7

\* policies.vue: what a step of its page keeps.
LEMMA PoliciesKeep ==
    ASSUME PagesInv, RestOfTheEditor, PoliciesPage PROVE PagesInv'
<1>1. editor \in Editors /\ revision \in [Row -> Nat] /\ NoChoice \in Versions
  BY DEF PagesInv, PageTypes, Versions
<1>2. CASE LoadWorkspace
  <2>1. /\ view = "policies" /\ Send("workspace", NoChoice, NoChoice)
        /\ editor' = [editor EXCEPT !.open = NoChoice, !.panel = "locked", !.workspace = "loading"]
        /\ UNCHANGED <<revision, unseen>>
    BY <1>2 DEF LoadWorkspace
  <2>2. editor' \in Editors /\ editor'.panel = "locked"
    BY <1>1, <2>1 DEF Editors, Panels
  <2>3. QED
    BY <1>1, <2>1, <2>2, EditorSends DEF OfTheEditor
<1>3. CASE LoadHistory
  <2>1. /\ view = "policies" /\ Send("history", NoChoice, editor.open)
        /\ editor.open # NoChoice /\ editor' = [editor EXCEPT !.panel = "loading"]
        /\ UNCHANGED <<revision, unseen>>
    BY <1>3 DEF LoadHistory, Workspace
  <2>2. editor' \in Editors
    BY <1>1, <2>1, EditorKeepsType DEF Panels
  <2>3. editor'.panel = "loading"
    BY <1>1, <2>1 DEF Editors
  <2>4. editor.open \in Versions /\ editor.open[1] \in Row
    BY <1>1, <2>1 DEF Editors, Versions
  <2>5. QED
    BY <1>1, <2>1, <2>2, <2>3, <2>4, EditorSends DEF OfTheEditor
<1>4. CASE SavePolicy
  <2>1. /\ view = "policies" /\ Send("save", editor.base, editor.open)
        /\ editor.panel = "ready" /\ UNCHANGED <<editor, revision, unseen>>
    BY <1>4 DEF SavePolicy, Workspace
  <2>2. /\ editor.base \in Versions /\ editor.open \in Versions /\ editor.base = editor.open
    BY <1>1, <2>1 DEF Editors, PagesInv, EditorFits
  <2>3. QED
    BY <1>1, <2>1, <2>2, EditorSends DEF OfTheEditor
<1>5. ASSUME NEW c \in awaited, WorkspaceLoaded(c) PROVE PagesInv'
  <2>1. PICK w \in {"ready", "empty"} :
            editor' = [editor EXCEPT !.catalogue = TRUE, !.listed = c.answer, !.workspace = w]
    BY <1>5 DEF WorkspaceLoaded
  <2>2. c.answer \in [Row -> Nat]
    BY DEF PagesInv, PageTypes, AwaitedRequest
  <2>3. /\ editor' \in Editors /\ editor'.panel = editor.panel /\ editor'.open = editor.open
        /\ editor'.base = editor.base
    BY <1>1, <2>1, <2>2 DEF Editors
  <2>4. awaited' = awaited \ {c} /\ UNCHANGED <<revision, unseen>>
    BY <1>5 DEF WorkspaceLoaded, Arrives
  <2>5. QED
    BY <2>3, <2>4, EditorReceives DEF PagesInv, EditorFits
<1>6. ASSUME NEW c \in awaited, HistoryLoaded(c) PROVE PagesInv'
  <2>1. c.sent[1] \in Row /\ c.answer \in [Row -> Nat]
    BY <1>6 DEF HistoryLoaded, PagesInv, PageTypes, AwaitedRequest, SentFits
  <2>2. <<c.sent[1], c.answer[c.sent[1]]>> \in Versions
    BY <2>1 DEF Versions
  <2>3. /\ Opened(<<c.sent[1], c.answer[c.sent[1]]>>, editor)
        /\ awaited' = awaited \ {c} /\ UNCHANGED <<revision, unseen>>
    BY <1>6 DEF HistoryLoaded, Arrives
  <2>4. QED
    BY <1>1, <2>2, <2>3, OpenedFits, EditorReceives
<1>7. ASSUME NEW c \in awaited, PolicySaved(c) PROVE PagesInv'
  <2> DEFINE p == c.sent[1]
             next == [editor EXCEPT !.workspace = "ready", !.listed[p] = c.answer[p]]
  <2>1. p \in Row /\ c.answer \in [Row -> Nat]
    BY <1>7 DEF PolicySaved, PagesInv, PageTypes, AwaitedRequest, SentFits
  <2>2. <<p, c.answer[p]>> \in Versions
    BY <2>1 DEF Versions
  <2>3. next \in Editors
    BY <1>1, <2>1, EditorKeepsType
  <2>4. /\ Opened(<<p, c.answer[p]>>, next)
        /\ awaited' = awaited \ {c} /\ UNCHANGED <<revision, unseen>>
    BY <1>7 DEF PolicySaved, Arrives
  <2> HIDE DEF next, p
  <2>5. QED
    BY <2>2, <2>3, <2>4, OpenedFits, EditorReceives
<1>8. QED
  BY <1>2, <1>3, <1>4, <1>5, <1>6, <1>7, WorkspaceKeeps, ServerKeeps DEF PoliciesPage

-----------------------------------------------------------------------------
\* A request that fails changes a panel to its error.
LEMMA FailureKeeps ==
    ASSUME PagesInv, UNCHANGED view, NEW c \in awaited, RequestFails(c) PROVE PagesInv'
<1>1. /\ screen \in Screens /\ editor \in Editors
  BY DEF PagesInv, PageTypes
<1>2. /\ awaited' = awaited \ {c} /\ UNCHANGED <<revision, disturbed, astray, unseen>>
      /\ screen' = [screen EXCEPT !.panel = IF c.kind = "load" THEN "error" ELSE @]
      /\ editor' = [editor EXCEPT
            !.panel = IF c.kind = "history" THEN "error" ELSE @,
            !.workspace = IF c.kind = "workspace" THEN "error" ELSE @]
  BY DEF RequestFails, Arrives
<1>3. /\ screen' \in Screens /\ SameForms(screen, screen')
      /\ screen'.panel = "ready" => screen.panel = "ready"
  BY <1>1, <1>2 DEF Screens, Panels, SameForms
<1>4. /\ editor' \in Editors /\ editor'.open = editor.open /\ editor'.base = editor.base
      /\ editor'.panel = "ready" => editor.panel = "ready"
  BY <1>1, <1>2 DEF Editors, Panels
<1>5. PageTypes'
  BY <1>2, <1>3, <1>4 DEF PagesInv, PageTypes
<1>6. ScreenFits(screen)'
  BY <1>3 DEF PagesInv, ScreenFits, SameForms
<1>7. EditorFits'
  BY <1>2, <1>4 DEF PagesInv, EditorFits
<1>8. OneAtATime' /\ \A d \in awaited' : SentFits(d)'
  BY <1>2 DEF PagesInv, OneAtATime, SentFits
<1>9. Steady'
  <2>1. ASSUME ~disturbed PROVE ScreenSteady(screen')
    BY <1>3, <2>1 DEF PagesInv, Steady, ScreenSteady, SameForms
  <2>2. ASSUME ~disturbed, NEW d \in awaited PROVE ActsOn(screen', d)
    BY <1>3, <2>2 DEF PagesInv, Steady, ActsOn, SameForms
  <2>3. QED
    BY <1>2, <2>1, <2>2 DEF PagesInv, Steady
<1>10. QED
  BY <1>5, <1>6, <1>7, <1>8, <1>9 DEF PagesInv

\* Every step of a page keeps the invariant.
LEMMA PagesNextKeeps ==
    PagesInv /\ [NextAdminPages]_varsAdminPages => PagesInv'
<1> SUFFICES ASSUME PagesInv, [NextAdminPages]_varsAdminPages PROVE PagesInv'
  OBVIOUS
<1>1. CASE UNCHANGED varsAdminPages
  BY <1>1 DEF varsAdminPages, PagesInv, PageTypes, ScreenFits, SentFits, OneAtATime, Steady,
              ScreenSteady, ActsOn, EditorFits
<1>2. ASSUME CloseRow \/ RetryDetail \/ UsersPage \/ OrganizationsPage \/ GrantsPage \/ ClientsPage,
             RestOfThePage
      PROVE  PagesInv'
  BY <1>2, RowIsClosed, UsersKeep, OrganizationsKeep, GrantsKeep, ClientsKeep
<1>3. ASSUME PoliciesPage, RestOfTheEditor PROVE PagesInv'
  BY <1>3, PoliciesKeep
<1>4. QED
  BY <1>1, <1>2, <1>3, FailureKeeps DEF NextAdminPages, RestOfThePage, RestOfTheEditor

\* An editor publishes over the version its draft was opened from, and until
\* another row is chosen under a request, what a form names is what its request
\* goes to and is shown of: for any rows, and any requests in any order.
THEOREM PagesHold == SpecAdminPages => []PagesActAsShown
<1>1. PagesInv => PagesActAsShown
  BY DEF PagesInv, EditorFits, Steady, ScreenSteady, PagesActAsShown, PublishesOverWhatItOpened,
         SteadyPageActsAsShown
<1>2. QED
  BY <1>1, PagesInitially, PagesNextKeeps, PTL DEF SpecAdminPages


\* A version of a policy that the register has saved, or none.
Saved(p, rev) == p \in Row /\ rev[p] > 0
VersionFits(v, rev) == v = NoChoice \/ (v \in Row \X (1..LastRevision) /\ Saved(v[1], rev))
\* What the register lists of it.
ListFits(found, rev) ==
    found \in [Row -> 0..LastRevision] /\ \A p \in Row : found[p] > 0 => Saved(p, rev)

\* What a request of the editor names, and what the server has answered it.
AnswerFits(c, rev) ==
    c.kind \in OfTheEditor =>
        /\ ListFits(c.answer, rev)
        /\ c.kind = "history" => c.sent # NoChoice /\ VersionFits(c.sent, rev)
        /\ c.kind \in {"history", "save"} /\ c.state = "answered" =>
                c.sent[1] \in Row /\ c.answer[c.sent[1]] > 0

\* The editor holds versions that the server has saved.
VersionsFit ==
    /\ revision \in [Row -> 0..LastRevision]
    /\ VersionFits(editor.open, revision) /\ VersionFits(editor.base, revision)
    /\ ListFits(editor.listed, revision)
    /\ \A c \in awaited : AnswerFits(c, revision)

\* The versions of a policy are only ever added to.
LEMMA SavedStays ==
    ASSUME NEW rev \in [Row -> 0..LastRevision], NEW next \in [Row -> 0..LastRevision],
           \A p \in Row : rev[p] <= next[p]
    PROVE  /\ \A p : Saved(p, rev) => Saved(p, next)
           /\ \A v : VersionFits(v, rev) => VersionFits(v, next)
           /\ \A found : ListFits(found, rev) => ListFits(found, next)
           /\ \A c : AnswerFits(c, rev) => AnswerFits(c, next)
<1>1. ASSUME NEW p, Saved(p, rev) PROVE Saved(p, next)
  BY <1>1 DEF Saved
<1>2. /\ \A v : VersionFits(v, rev) => VersionFits(v, next)
      /\ \A found : ListFits(found, rev) => ListFits(found, next)
  BY <1>1 DEF VersionFits, ListFits
<1> QED  BY <1>1, <1>2 DEF AnswerFits

\* A step of the editor that saves nothing.
LEMMA EditorVersionsFit ==
    ASSUME PagesInv, VersionsFit, revision' = revision,
           VersionFits(editor'.open, revision), VersionFits(editor'.base, revision),
           ListFits(editor'.listed, revision),
           \A c \in awaited' \ awaited : AnswerFits(c, revision)
    PROVE  VersionsFit'
<1>1. \A c \in awaited' : AnswerFits(c, revision)
  BY DEF VersionsFit
<1> QED  BY <1>1 DEF VersionsFit

\* The buttons of a page start requests that are not the editor's.
LEMMA OthersSend ==
    ASSUME CloseRow \/ RetryDetail \/ UsersPage \/ OrganizationsPage \/ GrantsPage \/ ClientsPage
    PROVE  \A c \in awaited' \ awaited : c.kind \notin OfTheEditor
<1> USE DEF OfTheEditor
<1>1. ASSUME NEW kind, NEW named, NEW sent, NEW next, Submit(kind, named, sent, next),
             kind \notin OfTheEditor
      PROVE  \A c \in awaited' \ awaited : c.kind \notin OfTheEditor
  BY <1>1 DEF Submit, Send, Request
<1>2. ASSUME awaited' \subseteq awaited PROVE \A c \in awaited' \ awaited : c.kind \notin OfTheEditor
  BY <1>2
<1>3. CASE CloseRow \/ RetryDetail
  BY <1>2, <1>3 DEF CloseRow, RetryDetail, Turn
<1>4. CASE UsersPage
  <2>1. CASE LoadRegistry \/ LoadUser \/ ChangeStatus \/ RevokeSessions
    BY <1>1, <2>1 DEF LoadRegistry, LoadUser, ChangeStatus, RevokeSessions
  <2>2. CASE \E r \in Row : SelectUser(r)
    BY <1>2, <2>2 DEF SelectUser, Turn
  <2>3. CASE \E c \in awaited : \/ RegistryLoaded(c) \/ UserLoaded(c)
                                \/ StatusChanged(c) \/ SessionsRevoked(c)
    BY <1>2, <2>3 DEF RegistryLoaded, UserLoaded, Loaded, StatusChanged, SessionsRevoked, Answered, Arrives
  <2> QED  BY <1>4, <2>1, <2>2, <2>3 DEF UsersPage
<1>5. CASE OrganizationsPage
  <2>1. CASE LoadOrganization \/ SaveMember \/ InviteMember
    BY <1>1, <2>1 DEF LoadOrganization, SaveMember, InviteMember
  <2>4. CASE CreateOrganization
    BY <1>1, <2>4 DEF CreateOrganization
  <2>5. CASE SaveOrganization
    BY <1>1, <2>5 DEF SaveOrganization
  <2>6. CASE CancelInvitation
    BY <1>1, <2>6 DEF CancelInvitation
  <2>2. CASE \/ \E r \in Row : SelectOrganization(r)
             \/ \E k \in Parts : EditMember(k) \/ PrepareCancellation(k)
    BY <1>2, <2>2 DEF SelectOrganization, EditMember, PrepareCancellation, Turn
  <2>3. CASE \E c \in awaited : \/ OrganizationLoaded(c) \/ OrganizationCreated(c)
                                \/ OrganizationSaved(c) \/ MemberSaved(c)
                                \/ MemberInvited(c) \/ InvitationCancelled(c)
    BY <1>2, <2>3 DEF OrganizationLoaded, OrganizationCreated, OrganizationSaved, MemberSaved,
                      MemberInvited, InvitationCancelled, Loaded, Answered, Arrives
  <2> QED  BY <1>5, <2>1, <2>2, <2>3, <2>4, <2>5, <2>6 DEF OrganizationsPage
<1>6. CASE GrantsPage
  <2>1. CASE LoadGrants
    <3> DEFINE scope == Whole(screen.chosen)
               next == [screen EXCEPT !.panel = "loading"]
    <3>1. Submit("load", scope, scope, next)
      BY <2>1 DEF LoadGrants
    <3> HIDE DEF scope, next
    <3> QED  BY <1>1, <3>1
  <2>4. CASE CreateGrant
    BY <1>1, <2>4 DEF CreateGrant
  <2>5. CASE ExecuteAction
    BY <1>1, <2>5 DEF ExecuteAction
  <2>6. CASE CancelAction
    BY <1>2, <2>6 DEF CancelAction
  <2>2. CASE (\E r \in Row : SelectScope(r)) \/ \E k \in Parts : PrepareAction(k)
    BY <1>2, <2>2 DEF SelectScope, PrepareAction, Turn
  <2>3. CASE \E c \in awaited : GrantsLoaded(c) \/ GrantCreated(c) \/ ActionExecuted(c)
    BY <1>2, <2>3 DEF GrantsLoaded, GrantCreated, ActionExecuted, Loaded, Answered, Arrives
  <2> QED  BY <1>6, <2>1, <2>2, <2>3, <2>4, <2>5, <2>6 DEF GrantsPage
<1>7. CASE ClientsPage
  <2>1. CASE ActOnClient \/ CreateClient
    BY <1>1, <2>1 DEF ActOnClient, ClientActions, CreateClient
  <2>2. CASE \E r \in Row : SelectClient(r)
    BY <1>2, <2>2 DEF SelectClient, Turn
  <2>3. CASE \E c \in awaited : ClientActedOn(c) \/ ClientCreated(c)
    BY <1>2, <2>3 DEF ClientActedOn, ClientCreated, Answered, Arrives
  <2> QED  BY <1>7, <2>1, <2>2, <2>3 DEF ClientsPage
<1> QED  BY <1>3, <1>4, <1>5, <1>6, <1>7

\* The answers of the server: a version that is saved is the next one.
LEMMA ServerVersionsFit ==
    ASSUME PagesInv, VersionsFit, LastRevision \in Nat, NEW c \in awaited,
           ServeRead(c) \/ ServeSave(c)
    PROVE  VersionsFit'
<1>1. /\ c \in AwaitedRequest /\ AnswerFits(c, revision) /\ editor \in Editors
      /\ revision \in [Row -> 0..LastRevision]
  BY DEF PagesInv, PageTypes, VersionsFit
<1>2. ASSUME NEW sent, NEW about, revision' \in [Row -> 0..LastRevision],
             \A p \in Row : revision[p] <= revision'[p],
             AnswersWith(c, sent, about), UNCHANGED editor, c.kind \in OfTheEditor,
             c.kind = "history" => sent # NoChoice /\ VersionFits(sent, revision) /\ sent[1] \in about,
             c.kind = "save" => sent[1] \in Row /\ sent[1] \in about /\ revision'[sent[1]] > 0
      PROVE  VersionsFit'
  <2> DEFINE told == [p \in Row |-> IF p \in about THEN revision'[p] ELSE 0]
             d == [c EXCEPT !.state = "answered", !.sent = sent, !.answer = told]
  <2>1. awaited' = (awaited \ {c}) \cup {d}
    BY <1>2 DEF AnswersWith
  <2>2. told \in [Row -> 0..LastRevision] /\ \A p \in Row : told[p] > 0 => revision'[p] > 0
    BY <1>2
  <2>3. \A p \in about \cap Row : told[p] = revision'[p]
    OBVIOUS
  <2>4. ListFits(told, revision')
    BY <2>2 DEF ListFits, Saved
  <2> HIDE DEF told
  <2>5. d.kind = c.kind /\ d.sent = sent /\ d.state = "answered" /\ d.answer = told
    BY <1>1 DEF AwaitedRequest
  <2> HIDE DEF d
  <2>6. AnswerFits(d, revision')
    <3>1. ASSUME c.kind = "history"
          PROVE  sent # NoChoice /\ VersionFits(sent, revision') /\ sent[1] \in Row /\ told[sent[1]] > 0
      <4>1. VersionFits(sent, revision') /\ Saved(sent[1], revision) /\ Saved(sent[1], revision')
        BY <1>1, <1>2, <3>1, SavedStays DEF VersionFits
      <4>2. sent[1] \in Row /\ revision'[sent[1]] > 0
        BY <4>1 DEF Saved
      <4> QED  BY <1>2, <2>3, <3>1, <4>1, <4>2
    <3>2. ASSUME c.kind = "save" PROVE sent[1] \in Row /\ told[sent[1]] > 0
      BY <1>2, <2>3, <3>2
    <3> QED  BY <2>4, <2>5, <3>1, <3>2 DEF AnswerFits
  <2>7. \A a \in awaited : AnswerFits(a, revision')
    BY <1>1, <1>2, SavedStays DEF VersionsFit
  <2>8. VersionFits(editor'.open, revision') /\ VersionFits(editor'.base, revision') /\ ListFits(editor'.listed, revision')
    BY <1>2, SavedStays DEF VersionsFit
  <2> QED  BY <1>2, <2>1, <2>6, <2>7, <2>8 DEF VersionsFit
<1>4. CASE ServeRead(c)
  <2>1. /\ UNCHANGED <<editor, revision>> /\ c.kind \in {"workspace", "history"}
        /\ AnswersWith(c, c.sent, IF c.kind = "workspace" THEN Row ELSE {c.sent[1]})
    BY <1>4 DEF ServeRead
  <2>2. \A p \in Row : revision[p] <= revision'[p]
    BY <1>1, <2>1
  <2> QED  BY <1>1, <1>2, <2>1, <2>2 DEF AnswerFits, OfTheEditor
<1>5. CASE ServeSave(c)
  <2>1. PICK p \in Row : /\ revision[p] < LastRevision /\ revision' = [revision EXCEPT ![p] = @ + 1]
                         /\ AnswersWith(c, <<p, revision[p] + 1>>, {p})
    BY <1>5 DEF ServeSave
  <2>2. c.kind = "save" /\ UNCHANGED editor
    BY <1>5 DEF ServeSave
  <2>3. /\ revision' \in [Row -> 0..LastRevision] /\ revision'[p] > 0
        /\ \A q \in Row : revision[q] <= revision'[q]
    BY <1>1, <2>1
  <2>4. <<p, revision[p] + 1>>[1] = p
    OBVIOUS
  <2> QED  BY <1>2, <2>1, <2>2, <2>3, <2>4 DEF OfTheEditor
<1> QED  BY <1>4, <1>5

\* What the page of the policies does to the versions it holds.
LEMMA PoliciesVersionsFit ==
    ASSUME PagesInv, VersionsFit, LastRevision \in Nat, PoliciesPage
    PROVE  VersionsFit'
<1>1. /\ editor \in Editors /\ VersionFits(NoChoice, revision)
      /\ VersionFits(editor.open, revision) /\ VersionFits(editor.base, revision) /\ ListFits(editor.listed, revision)
      /\ revision \in [Row -> 0..LastRevision]
  BY DEF PagesInv, PageTypes, VersionFits, VersionsFit
<1>2. ListFits([p \in Row |-> 0], revision)
  BY DEF ListFits
<1>3. ASSUME NEW p \in Row, NEW found, ListFits(found, revision), found[p] > 0
      PROVE  VersionFits(<<p, found[p]>>, revision)
  BY <1>3 DEF ListFits, VersionFits
<1>4. ASSUME NEW e \in Editors, NEW v, Opened(v, e)
      PROVE  editor'.open = v /\ editor'.base = v /\ editor'.listed = e.listed
  BY <1>4 DEF Opened, Editors
<1>5. CASE ChangeOrganization
  <2>1. /\ editor'.open = NoChoice /\ editor'.base = editor.base
        /\ editor'.listed = [p \in Row |-> 0] /\ UNCHANGED <<revision, awaited>>
    BY <1>1, <1>5 DEF ChangeOrganization, Editors
  <2> QED  BY <1>1, <1>2, <2>1, EditorVersionsFit
<1>6. CASE CreateDraft
  <2>1. Opened(NoChoice, editor) /\ UNCHANGED <<revision, awaited>>
    BY <1>6 DEF CreateDraft
  <2>2. editor'.open = NoChoice /\ editor'.base = NoChoice /\ editor'.listed = editor.listed
    BY <1>1, <1>4, <2>1
  <2> QED  BY <1>1, <2>1, <2>2, EditorVersionsFit
<1>7. CASE RetryHistory
  <2>1. /\ editor'.open = editor.open /\ editor'.base = editor.base
        /\ editor'.listed = editor.listed /\ UNCHANGED <<revision, awaited>>
    BY <1>1, <1>7 DEF RetryHistory, Editors
  <2> QED  BY <1>1, <2>1, EditorVersionsFit
<1>17. CASE LockWorkspace
  <2>1. /\ editor'.open = editor.open /\ editor'.base = editor.base
        /\ editor'.listed = editor.listed /\ UNCHANGED <<revision, awaited>>
    BY <1>1, <1>17 DEF LockWorkspace, Editors
  <2> QED  BY <1>1, <2>1, EditorVersionsFit
<1>8. ASSUME NEW p \in Row, SelectPolicy(p) PROVE VersionsFit'
  <2>1. /\ editor'.open = <<p, editor.listed[p]>> /\ editor'.base = editor.base
        /\ editor'.listed = editor.listed /\ editor.listed[p] > 0 /\ UNCHANGED <<revision, awaited>>
    BY <1>1, <1>8 DEF SelectPolicy, Editors
  <2> QED  BY <1>1, <1>3, <2>1, EditorVersionsFit
<1>9. ASSUME NEW p \in Row, ReviseElsewhere(p) PROVE VersionsFit'
  <2>1. /\ revision[p] \in 1..LastRevision - 1 /\ revision' = [revision EXCEPT ![p] = @ + 1]
        /\ UNCHANGED <<editor, awaited>>
    BY <1>9 DEF ReviseElsewhere
  <2>2. revision' \in [Row -> 0..LastRevision] /\ \A q \in Row : revision[q] <= revision'[q]
    BY <1>1, <2>1
  <2> QED  BY <1>1, <2>1, <2>2, SavedStays DEF VersionsFit
<1>10. ASSUME NEW kind \in OfTheEditor, NEW named, NEW sent, Send(kind, named, sent),
              kind = "history" => sent # NoChoice /\ VersionFits(sent, revision)
       PROVE  \A c \in awaited' \ awaited : AnswerFits(c, revision)
  BY <1>2, <1>10 DEF Send, Request, AnswerFits
<1>11. CASE LoadWorkspace
  <2>1. /\ editor'.open = NoChoice /\ editor'.base = editor.base
        /\ editor'.listed = editor.listed /\ revision' = revision
        /\ Send("workspace", NoChoice, NoChoice)
    BY <1>1, <1>11 DEF LoadWorkspace, Editors
  <2> QED  BY <1>1, <1>10, <2>1, EditorVersionsFit DEF OfTheEditor
<1>12. CASE LoadHistory
  <2>1. /\ editor'.open = editor.open /\ editor'.base = editor.base
        /\ editor'.listed = editor.listed /\ revision' = revision
        /\ Send("history", NoChoice, editor.open) /\ editor.open # NoChoice
    BY <1>1, <1>12 DEF LoadHistory, Editors
  <2> QED  BY <1>1, <1>10, <2>1, EditorVersionsFit DEF OfTheEditor
<1>13. CASE SavePolicy
  <2>1. Send("save", editor.base, editor.open) /\ UNCHANGED <<editor, revision>>
    BY <1>13 DEF SavePolicy
  <2> QED  BY <1>1, <1>10, <2>1, EditorVersionsFit DEF OfTheEditor
<1>14. ASSUME NEW c \in awaited, WorkspaceLoaded(c) PROVE VersionsFit'
  <2>1. /\ editor'.open = editor.open /\ editor'.base = editor.base /\ editor'.listed = c.answer
        /\ revision' = revision /\ awaited' \subseteq awaited /\ c.kind = "workspace"
    BY <1>1, <1>14 DEF WorkspaceLoaded, Arrives, Editors
  <2>2. ListFits(c.answer, revision)
    BY <2>1 DEF VersionsFit, AnswerFits, OfTheEditor
  <2> QED  BY <1>1, <2>1, <2>2, EditorVersionsFit
<1>15. ASSUME NEW c \in awaited, HistoryLoaded(c) PROVE VersionsFit'
  <2>1. /\ Opened(<<c.sent[1], c.answer[c.sent[1]]>>, editor) /\ c.kind = "history"
        /\ c.state = "answered" /\ revision' = revision /\ awaited' \subseteq awaited
    BY <1>15 DEF HistoryLoaded, Arrives
  <2>2. c.sent[1] \in Row /\ ListFits(c.answer, revision) /\ c.answer[c.sent[1]] > 0
    BY <2>1 DEF VersionsFit, AnswerFits, OfTheEditor
  <2>3. VersionFits(<<c.sent[1], c.answer[c.sent[1]]>>, revision)
    BY <1>3, <2>2
  <2>4. /\ editor'.open = <<c.sent[1], c.answer[c.sent[1]]>> /\ editor'.base = editor'.open
        /\ editor'.listed = editor.listed
    BY <1>1, <1>4, <2>1
  <2> QED  BY <1>1, <2>1, <2>3, <2>4, EditorVersionsFit
<1>16. ASSUME NEW c \in awaited, PolicySaved(c) PROVE VersionsFit'
  <2> DEFINE p == c.sent[1]
             next == [editor EXCEPT !.workspace = "ready", !.listed[p] = c.answer[p]]
  <2>1. /\ Opened(<<p, c.answer[p]>>, next) /\ c.kind = "save" /\ c.state = "answered"
        /\ revision' = revision /\ awaited' \subseteq awaited
    BY <1>16 DEF PolicySaved, Arrives
  <2>2. p \in Row /\ ListFits(c.answer, revision) /\ c.answer[p] > 0
    BY <2>1 DEF VersionsFit, AnswerFits, OfTheEditor
  <2>3. VersionFits(<<p, c.answer[p]>>, revision)
    BY <1>3, <2>2
  <2>8. c.answer[p] \in Nat
    BY <2>2 DEF ListFits
  <2>4. next \in Editors
    BY <1>1, <2>2, <2>8, EditorKeepsType
  <2>5. next.listed = [editor.listed EXCEPT ![p] = c.answer[p]]
    BY <1>1 DEF Editors
  <2>6. ListFits(next.listed, revision)
    BY <1>1, <2>2, <2>5 DEF ListFits
  <2> HIDE DEF next, p
  <2>7. /\ editor'.open = <<p, c.answer[p]>> /\ editor'.base = editor'.open
        /\ editor'.listed = next.listed
    BY <1>4, <2>1, <2>4
  <2> QED  BY <2>1, <2>3, <2>6, <2>7, EditorVersionsFit
<1> QED  BY <1>5, <1>6, <1>7, <1>8, <1>9, <1>11, <1>12, <1>13, <1>14, <1>15, <1>16, <1>17,
            ServerVersionsFit DEF PoliciesPage

\* The pages of apps/web/app/pages/admin: what a page shows, chooses and edits
\* is a row or a part of one, and what the editor of policies.vue holds is a
\* version that the server has saved, for any rows and any number of versions.
THEOREM PageTypesKept == SpecAdminPages => []TypeOKAdminPages
<1>1. InitAdminPages => VersionsFit
  <2> SUFFICES ASSUME InitAdminPages PROVE VersionsFit
    OBVIOUS
  <2>1. revision \in [Row -> 0..LastRevision]
    BY RevisionsAssumption DEF InitAdminPages
  <2>2. ListFits(editor.listed, revision) /\ editor.open = NoChoice /\ editor.base = NoChoice
    BY RevisionsAssumption DEF InitAdminPages, ListFits
  <2>3. awaited = {}
    BY DEF InitAdminPages
  <2> QED  BY <2>1, <2>2, <2>3 DEF VersionsFit, VersionFits
<1>2. PagesInv /\ VersionsFit /\ [NextAdminPages]_varsAdminPages => VersionsFit'
  <2> SUFFICES ASSUME PagesInv, VersionsFit, [NextAdminPages]_varsAdminPages PROVE VersionsFit'
    OBVIOUS
  <2>1. /\ VersionFits(editor.open, revision) /\ VersionFits(editor.base, revision)
        /\ ListFits(editor.listed, revision) /\ editor \in Editors
    BY DEF VersionsFit, PagesInv, PageTypes
  <2>2. CASE UNCHANGED varsAdminPages
    BY <2>1, <2>2, EditorVersionsFit DEF varsAdminPages
  <2>3. ASSUME CloseRow \/ RetryDetail \/ UsersPage \/ OrganizationsPage \/ GrantsPage \/ ClientsPage,
               UNCHANGED <<editor, revision>>
        PROVE  VersionsFit'
    <3>1. \A c \in awaited' \ awaited : AnswerFits(c, revision)
      BY <2>3, OthersSend DEF AnswerFits
    <3> QED  BY <2>1, <2>3, <3>1, EditorVersionsFit
  <2>4. ASSUME NEW c \in awaited, RequestFails(c) PROVE VersionsFit'
    <3>1. /\ editor'.open = editor.open /\ editor'.base = editor.base
          /\ editor'.listed = editor.listed /\ revision' = revision /\ awaited' \subseteq awaited
      BY <2>1, <2>4 DEF RequestFails, Arrives, Editors
    <3> QED  BY <2>1, <3>1, EditorVersionsFit
  <2> QED  BY <2>2, <2>3, <2>4, PoliciesVersionsFit, RevisionsAssumption DEF NextAdminPages
<1>3. PagesInv /\ VersionsFit => TypeOKAdminPages
  BY DEF PagesInv, PageTypes, Screens, Panels, VersionsFit, VersionFits, Revisions, TypeOKAdminPages
<1> QED  BY PagesInitially, PagesNextKeeps, <1>1, <1>2, <1>3, PTL DEF SpecAdminPages

-----------------------------------------------------------------------------
(* The evaluator *)

\* The order of the numbers, as a relation.
Before == {s \in Nat \X Nat : s[1] < s[2]}

\* Every set of numbers has a least one ...
LEMMA LeastNumber ==
    ASSUME NEW T, T \subseteq Nat, T # {}
    PROVE  \E n \in T : \A m \in T : n <= m
<1>1. IsWellFoundedOn(Before, Nat)
    <2>1. OpToRel(<, Nat) = Before BY DEF OpToRel, Before
    <2> QED BY <2>1, NatLessThanWellFounded
<1>2. PICK x \in T : \A y \in T : ~(<<y, x>> \in Before) BY <1>1, WFMin
<1>3. \A y \in T : y < x => <<y, x>> \in Before BY DEF Before
<1>4. \A y \in T : ~(y < x) BY <1>2, <1>3
<1> QED BY <1>4

\* ... so that a set with 0 and every successor holds them all.
LEMMA HoldsOfEach ==
    ASSUME NEW S, 0 \in S, \A n \in Nat : n \in S => n + 1 \in S
    PROVE  \A n \in Nat : n \in S
<1> DEFINE T == Nat \ S
<1>1. SUFFICES ASSUME T # {} PROVE FALSE OBVIOUS
<1>2. PICK x \in T : \A m \in T : x <= m BY <1>1, LeastNumber
<1>3. x # 0 /\ x - 1 \in Nat /\ x - 1 \notin T BY <1>2
<1>4. x - 1 \in S /\ (x - 1) + 1 = x BY <1>3
<1> QED BY <1>3, <1>4

\* What FlattenSeq of the community modules chooses: the first sequences put
\* one after the other.
Flattens(f, seqs, n) == f = [i \in 1..n |-> IF i = 1 THEN seqs[i] ELSE f[i - 1] \o seqs[i]]

\* There is such a function, for any number of sequences ...
LEMMA FlattenExists ==
    ASSUME NEW seqs
    PROVE  \A n \in Nat : \E f : Flattens(f, seqs, n)
<1> DEFINE S == {n \in Nat : \E f : Flattens(f, seqs, n)}
<1>1. 0 \in S
    <2> DEFINE f == [i \in 1..0 |-> i]
    <2>1. Flattens(f, seqs, 0) BY DEF Flattens
    <2> QED BY <2>1
<1>2. ASSUME NEW n \in Nat, n \in S PROVE n + 1 \in S
    <2>1. PICK f : Flattens(f, seqs, n) BY <1>2
    <2> DEFINE g == [i \in 1..(n + 1) |->
            IF i <= n THEN f[i] ELSE IF i = 1 THEN seqs[i] ELSE f[i - 1] \o seqs[i]]
    <2>2. ASSUME NEW i \in 1..(n + 1)
          PROVE  g[i] = IF i = 1 THEN seqs[i] ELSE g[i - 1] \o seqs[i]
        <3>1. CASE i <= n
            <4>1. i \in 1..n /\ g[i] = f[i] /\ (i # 1 => i - 1 \in 1..n /\ i - 1 \in 1..(n+1)) BY <3>1
            <4>2. f[i] = IF i = 1 THEN seqs[i] ELSE f[i - 1] \o seqs[i] BY <2>1, <4>1 DEF Flattens
            <4>3. i # 1 => g[i - 1] = f[i - 1] BY <4>1
            <4> QED BY <4>1, <4>2, <4>3
        <3>2. CASE ~(i <= n)
            <4>1. i # 1 => i - 1 \in 1..n /\ g[i - 1] = f[i - 1] BY <3>2
            <4> QED BY <3>2, <4>1
        <3> QED BY <3>1, <3>2
    <2>3. Flattens(g, seqs, n + 1)
        <3> HIDE DEF g
        <3> QED BY <2>2 DEF Flattens, g
    <2> QED BY <2>3
<1>3. \A n \in Nat : n \in S
    <2> HIDE DEF S
    <2> QED BY <1>1, <1>2, HoldsOfEach
<1> QED BY <1>3

\* ... and the last of its values is the flattened sequence ...
LEMMA FlattenIs ==
    ASSUME NEW seqs, Len(seqs) \in Nat \ {0}
    PROVE  \E f : Flattens(f, seqs, Len(seqs)) /\ Seqs!FlattenSeq(seqs) = f[Len(seqs)]
<1> DEFINE F == CHOOSE f : f = [i \in 1..Len(seqs) |-> IF i = 1 THEN seqs[i] ELSE f[i - 1] \o seqs[i]]
<1>1. \E f : f = [i \in 1..Len(seqs) |-> IF i = 1 THEN seqs[i] ELSE f[i - 1] \o seqs[i]]
    BY FlattenExists DEF Flattens
<1>2. F = [i \in 1..Len(seqs) |-> IF i = 1 THEN seqs[i] ELSE F[i - 1] \o seqs[i]]
    <2> HIDE <1>1
    <2> QED BY <1>1
<1>3. Seqs!FlattenSeq(seqs) = F[Len(seqs)] BY Zenon DEF Seqs!FlattenSeq
<1> HIDE DEF F
<1> QED BY <1>2, <1>3 DEF Flattens

\* ... which holds what the sequences hold, and no more.
LEMMA FlattenHolds ==
    ASSUME NEW T, NEW seqs \in Seq(Seq(T)), seqs # <<>>
    PROVE  /\ Seqs!FlattenSeq(seqs) \in Seq(T)
           /\ Seqs!ToSet(Seqs!FlattenSeq(seqs)) = UNION {Seqs!ToSet(seqs[i]) : i \in DOMAIN seqs}
<1> DEFINE n == Len(seqs)
<1>1. n \in Nat \ {0} /\ DOMAIN seqs = 1..n /\ \A i \in 1..n : seqs[i] \in Seq(T)
    BY LenProperties, EmptySeq
<1>2. PICK f : Flattens(f, seqs, n) /\ Seqs!FlattenSeq(seqs) = f[n] BY <1>1, FlattenIs
<1> DEFINE Upto(k) == UNION {Seqs!ToSet(seqs[i]) : i \in 1..k}
           S == {k \in Nat : k + 1 \in 1..n => f[k + 1] \in Seq(T) /\ Seqs!ToSet(f[k + 1]) = Upto(k + 1)}
<1> HIDE DEF n
<1>3. 0 \in S
    <2>1. f[1] = seqs[1] /\ Upto(1) = Seqs!ToSet(seqs[1]) BY <1>1, <1>2 DEF Flattens
    <2> QED BY <1>1, <2>1
<1>4. ASSUME NEW k \in Nat, k \in S PROVE k + 1 \in S
    <2>1. SUFFICES ASSUME k + 2 \in 1..n
                   PROVE  f[k + 2] \in Seq(T) /\ Seqs!ToSet(f[k + 2]) = Upto(k + 2)
        BY k + 1 + 1 = k + 2
    <2>2. k + 1 \in 1..n /\ k + 2 # 1 /\ (k + 2) - 1 = k + 1 BY <1>1, <2>1
    <2>3. f[k + 2] = f[k + 1] \o seqs[k + 2] BY <1>2, <2>1, <2>2 DEF Flattens
    <2>4. f[k + 1] \in Seq(T) /\ Seqs!ToSet(f[k + 1]) = Upto(k + 1) /\ seqs[k + 2] \in Seq(T)
        BY <1>1, <1>4, <2>1, <2>2
    <2>5. f[k + 2] \in Seq(T) BY <2>3, <2>4, ConcatProperties
    <2>6. Seqs!ToSet(f[k + 2]) = Seqs!ToSet(f[k + 1]) \cup Seqs!ToSet(seqs[k + 2])
        <3>1. \A q : Seqs!ToSet(q) = Range(q) BY DEF Range, Seqs!ToSet
        <3>2. Range(f[k + 1] \o seqs[k + 2]) = Range(f[k + 1]) \cup Range(seqs[k + 2])
            BY <2>4, RangeConcatenation
        <3> QED BY <2>3, <3>1, <3>2
    <2>7. 1..(k + 2) = 1..(k + 1) \cup {k + 2} OBVIOUS
    <2>8. Upto(k + 2) = Upto(k + 1) \cup Seqs!ToSet(seqs[k + 2]) BY <2>7
    <2> QED BY <2>4, <2>5, <2>6, <2>8
<1>5. \A k \in Nat : k \in S
    <2> HIDE DEF S
    <2> QED BY <1>3, <1>4, HoldsOfEach
<1>6. n - 1 \in S /\ (n - 1) + 1 = n /\ n \in 1..n BY <1>1, <1>5
<1> QED BY <1>1, <1>2, <1>6

(* Merged and evaluated *)

\* A policy has at least one statement.
Documented == {d \in Seq(Statement) : d # <<>>}

\* mergeEffectivePolicies: the statements are those of the policies attached.
MergedInv ==
    /\ attachedTo \in Seq(Documented) /\ attachedTo # <<>> /\ asked \in Question
    /\ statements = <<>> \/ statements = Seqs!FlattenSeq(attachedTo)

\* The action and the resource that are asked for hold no wildcard.
AskedConcrete == Concrete(asked.action) /\ Concrete(asked.resource)
\* The statements looked at so far that match, and have this effect.
Matched(effect) ==
    {i \in 1..position : StatementMatches(statements[i]) /\ statements[i].effect = effect}

\* evaluatePolicy: allow and deny hold what matched among the statements looked
\* at, and a verdict falls when all were looked at or the question is refused.
EvaluationInv ==
    /\ position \in 0..Len(statements)
    /\ verdict \in {"none", "policy_unavailable"} => position = 0
    /\ verdict \notin {"none", "policy_unavailable"} =>
            statements # <<>> /\ ValidPolicyDocument(statements)
    /\ position # 0 => AskedConcrete
    /\ allow = Matched("Allow") /\ deny = Matched("Deny")
    /\ verdict \in {"none", "parsed", "policy_unavailable", "implicit_deny",
                    "explicit_allow", "explicit_deny"}
    /\ verdict = "explicit_deny" => deny # {} /\ position = Len(statements)
    /\ verdict = "explicit_allow" =>
            deny = {} /\ allow # {} /\ position = Len(statements) /\ AskedConcrete
    /\ verdict = "implicit_deny" =>
            ~AskedConcrete \/ (deny = {} /\ allow = {} /\ position = Len(statements))

\* The inductive invariant of the evaluator.
EvaluatorInv == MergedInv /\ EvaluationInv

\* Nothing is merged and no statement looked at.
LEMMA EvaluatorInitially == InitPolicyEvaluator => EvaluatorInv
<1> SUFFICES ASSUME InitPolicyEvaluator PROVE EvaluatorInv OBVIOUS
<1>1. PICK n \in 1..Len(Documents) :
        attachedTo \in {docs \in [1..n -> Sequence(Statement, 2)] :
            \A i \in 1..n : Len(docs[i]) <= Documents[i] /\ ValidPolicyDocument(docs[i])}
    BY DEF InitPolicyEvaluator
<1>2. n \in Nat \ {0} BY EvaluatorAssumption DEF EvaluatorAssumption
<1>3. ASSUME NEW d \in Sequence(Statement, 2) PROVE d \in Seq(Statement)
    <2>1. PICK k \in 1..2 : d \in [1..k -> Statement] BY DEF Sequence
    <2> QED BY <2>1
<1>4. \A i \in 1..n : attachedTo[i] \in Documented
    BY <1>1, <1>3 DEF ValidPolicyDocument, Documented
<1>5. attachedTo \in [1..n -> Documented] BY <1>1, <1>4
<1>6. attachedTo \in Seq(Documented) /\ attachedTo # <<>> BY <1>2, <1>5
<1>7. MergedInv BY <1>6 DEF InitPolicyEvaluator, MergedInv
<1>8. Matched("Allow") = {} /\ Matched("Deny") = {} BY DEF Matched, InitPolicyEvaluator
<1>9. EvaluationInv BY <1>8 DEF InitPolicyEvaluator, EvaluationInv
<1> QED BY <1>7, <1>9 DEF EvaluatorInv

\* What is merged is made of the statements of each policy.
LEMMA MergedOf ==
    ASSUME NEW docs \in Seq(Documented), docs # <<>>
    PROVE  /\ Seqs!FlattenSeq(docs) \in Seq(Statement)
           /\ Seqs!ToSet(Seqs!FlattenSeq(docs)) = UNION {Seqs!ToSet(docs[i]) : i \in DOMAIN docs}
<1>1. Documented \subseteq Seq(Statement) BY DEF Documented
<1>2. docs \in Seq(Seq(Statement)) BY <1>1, SeqMonotonic
<1> QED BY <1>2, FlattenHolds

\* The statements are statements.
LEMMA StatementsTyped == MergedInv => statements \in Seq(Statement)
BY MergedOf, EmptySeq DEF MergedInv

\* Every step of the evaluator keeps the invariant.
LEMMA EvaluatorNextKeeps == EvaluatorInv /\ [NextPolicyEvaluator]_varsPolicyEvaluator => EvaluatorInv'
<1> SUFFICES ASSUME EvaluatorInv, [NextPolicyEvaluator]_varsPolicyEvaluator PROVE EvaluatorInv' OBVIOUS
<1> USE DEF EvaluatorInv
<1>0. statements \in Seq(Statement) /\ Len(statements) \in Nat BY StatementsTyped
<1>1. CASE MergeEffectivePolicies
    <2>1. MergedInv' BY <1>1 DEF MergeEffectivePolicies, MergedInv
    <2>2. position = 0 /\ position' = 0 BY <1>1 DEF MergeEffectivePolicies, EvaluationInv
    <2>3. statements' \in Seq(Statement) /\ Len(statements') \in Nat
        BY <1>1, MergedOf, LenProperties DEF MergeEffectivePolicies, MergedInv
    <2>4. \A e : Matched(e) = {} /\ Matched(e)' = {} BY <2>2 DEF Matched
    <2>5. verdict = "none" /\ UNCHANGED <<verdict, allow, deny, asked>> /\ allow = {} /\ deny = {}
        BY <1>1, <2>4 DEF MergeEffectivePolicies, EvaluationInv
    <2>6. Matched("Allow")' = {} /\ Matched("Deny")' = {} BY <2>4
    <2>7. position' \in 0..Len(statements') BY <2>2, <2>3
    <2>8. EvaluationInv' BY <2>2, <2>5, <2>6, <2>7 DEF EvaluationInv
    <2> QED BY <2>1, <2>8
<1>2. CASE ParsePolicies
    <2>1. MergedInv' BY <1>2 DEF ParsePolicies, MergedInv
    <2>2. \A e : Matched(e)' = Matched(e) BY <1>2 DEF ParsePolicies, Matched, StatementMatches
    <2>3. EvaluationInv'
        BY <1>2, <2>2 DEF ParsePolicies, EvaluationInv, AskedConcrete
    <2> QED BY <2>1, <2>3
<1>3. CASE RefuseRequest
    <2>1. MergedInv' BY <1>3 DEF RefuseRequest, MergedInv
    <2>2. \A e : Matched(e)' = Matched(e) BY <1>3 DEF RefuseRequest, Matched, StatementMatches
    <2>3. EvaluationInv' BY <1>3, <2>2 DEF RefuseRequest, EvaluationInv, AskedConcrete
    <2> QED BY <2>1, <2>3
<1>4. CASE EvaluateStatement
    <2>1. MergedInv' BY <1>4 DEF EvaluateStatement, MergedInv
    <2>2. position' = position + 1 /\ position' \in 1..Len(statements) /\ position \in Nat
        BY <1>0, <1>4 DEF EvaluateStatement, EvaluationInv
    <2>3. 1..position' = 1..position \cup {position'} BY <2>2
    <2>4. \A i : StatementMatches(statements[i])' = StatementMatches(statements[i])
        BY <1>4 DEF EvaluateStatement, StatementMatches
    <2>5. \A e : Matched(e)' = Matched(e) \cup
            (IF StatementMatches(statements[position']) /\ statements[position'].effect = e
             THEN {position'} ELSE {})
        BY <1>4, <2>3, <2>4 DEF EvaluateStatement, Matched
    <2>6. allow' = Matched("Allow")' /\ deny' = Matched("Deny")'
        BY <1>4, <2>2, <2>5 DEF EvaluateStatement, EvaluationInv
    <2>7. verdict = "parsed" /\ UNCHANGED <<attachedTo, asked, statements, verdict>> /\ AskedConcrete
        BY <1>4 DEF EvaluateStatement, AskedConcrete
    <2>8. EvaluationInv' BY <2>2, <2>6, <2>7 DEF EvaluationInv, AskedConcrete
    <2> QED BY <2>1, <2>8
<1>5. CASE Conclude
    <2>1. MergedInv' BY <1>5 DEF Conclude, MergedInv
    <2>2. \A e : Matched(e)' = Matched(e) BY <1>5 DEF Conclude, Matched, StatementMatches
    <2>3. position # 0
        BY <1>0, <1>5, EmptySeq DEF Conclude, EvaluationInv
    <2>4. EvaluationInv' BY <1>5, <2>2, <2>3 DEF Conclude, EvaluationInv, AskedConcrete
    <2> QED BY <2>1, <2>4
<1>6. CASE UNCHANGED varsPolicyEvaluator
    BY <1>6 DEF varsPolicyEvaluator, MergedInv, EvaluationInv, AskedConcrete, Matched, StatementMatches
<1> QED BY <1>1, <1>2, <1>3, <1>4, <1>5, <1>6 DEF NextPolicyEvaluator

\* A pattern of a valid document stands for what it matches.
LEMMA PatternStandsFor ==
    ASSUME NEW p \in Seq(STRING), IsPolicyIdentifier(p),
           NEW v \in {asked.action, asked.resource}, v \in Seq(STRING), Concrete(v)
    PROVE  /\ MatchesPolicyIdentifier(p, v) <=> v \in StandsFor(p)
           /\ MatchesPolicyIdentifier(p, v) => v[1] = p[1]
<1>1. Len(p) \in Nat /\ Len(p) > 1 /\ Len(v) \in Nat /\ Len(v) > 1 /\ v[Len(v)] # "*"
    BY LenProperties DEF Concrete, IsPolicyIdentifier
<1>2. CASE p[Len(p)] # "*"
    BY <1>2 DEF MatchesPolicyIdentifier, StandsFor
<1>3. CASE p[Len(p)] = "*"
    <2> DEFINE m == Len(p) - 1   q == SubSeq(p, 1, m)
    <2>1. m \in Nat /\ m >= 1 /\ q \in Seq(STRING) /\ Len(q) = m /\ q[1] = p[1]
        BY <1>1, SubSeqProperties
    <2>2. p # v BY <1>1, <1>3
    <2>3. Seqs!Front(p) = q BY DEF Seqs!Front
    <2>4. SubSeq(q, 1, Len(q)) = q BY <2>1, SubSeqFull
    <2>5. MatchesPolicyIdentifier(p, v) <=> m <= Len(v) /\ q = SubSeq(v, 1, m) /\ q # v
        BY <1>3, <2>1, <2>2, <2>3, <2>4 DEF MatchesPolicyIdentifier, Seqs!IsStrictPrefix, Seqs!IsPrefix
    <2>6. SubSeq(v, 1, Len(v)) = v BY SubSeqFull
    <2>7. \A n \in 1..Len(v) : Len(SubSeq(v, 1, n)) = n /\ SubSeq(v, 1, n)[1] = v[1]
        BY <1>1, SubSeqProperties
    <2>8. MatchesPolicyIdentifier(p, v) <=> m \in 1..(Len(v) - 1) /\ SubSeq(v, 1, m) = q
        <3>1. m \in 1..(Len(v) - 1) => q # v BY <1>1, <2>1
        <3>2. m <= Len(v) /\ q = SubSeq(v, 1, m) /\ q # v => m # Len(v) BY <2>6
        <3> HIDE DEF q, m
        <3>3. (m <= Len(v) /\ m # Len(v)) <=> m \in 1..(Len(v) - 1)
            <4>1. m \in Nat /\ m >= 1 /\ Len(v) \in Nat BY <1>1, <2>1
            <4> QED BY <4>1
        <3> QED BY <2>5, <3>1, <3>2, <3>3
    <2>9. v \in StandsFor(p) <=> \E n \in 1..(Len(v) - 1) : SubSeq(v, 1, n) = q
        BY <1>3 DEF StandsFor
    <2>10. \A n \in 1..(Len(v) - 1) : SubSeq(v, 1, n) = q => n = m
        <3> HIDE DEF q, m
        <3>1. \A n \in 1..(Len(v) - 1) : n \in 1..Len(v) BY <1>1
        <3> QED BY <2>1, <2>7, <3>1
    <2>11. MatchesPolicyIdentifier(p, v) => v[1] = p[1]
        <3>1. m \in 1..(Len(v) - 1) => m \in 1..Len(v) BY <1>1
        <3> HIDE DEF q, m
        <3> QED BY <2>1, <2>7, <2>8, <3>1
    <2> QED BY <2>8, <2>9, <2>10, <2>11
<1> QED BY <1>2, <1>3

\* A condition holds when the context has its variable, and a value of it or "*"
\* answers, but for StringNotEquals, where none may.
LEMMA ConditionIs ==
    ASSUME NEW c, c.operator \in Operators, NEW context
    PROVE  ConditionHolds(c, context) <=>
            /\ c.variable \in DOMAIN context
            /\ \/ context[c.variable] \in c.values
               \/ c.operator = "StringLike" /\ "*" \in c.values
               <=> c.operator # "StringNotEquals"
<1>1. CASE c.operator \in {"Bool", "StringEquals"}
    BY <1>1 DEF ConditionHolds
<1>2. CASE c.operator = "StringNotEquals"
    BY <1>2 DEF ConditionHolds
<1>3. CASE c.operator = "StringLike"
    BY <1>3 DEF ConditionHolds, Like
<1> QED BY <1>1, <1>2, <1>3 DEF Operators

\* Of documents that are valid, what matches is what speaks.
LEMMA StatementIs ==
    ASSUME NEW s \in Statement, asked \in Question, AskedConcrete,
           ValidIdentifiers(s.actions), ValidIdentifiers(s.resources), ValidConditions(s.conditions)
    PROVE  /\ StatementMatches(s) <=>
                /\ \E p \in Seqs!ToSet(s.actions) : asked.action \in StandsFor(p)
                /\ \E p \in Seqs!ToSet(s.resources) : asked.resource \in StandsFor(p)
                /\ \A c \in s.conditions :
                    /\ c.variable \in DOMAIN asked.context
                    /\ \/ asked.context[c.variable] \in c.values
                       \/ c.operator = "StringLike" /\ "*" \in c.values
                       <=> c.operator # "StringNotEquals"
           /\ StatementMatches(s) => asked.action[1] = Service /\ asked.resource[1] = Service
<1>1. asked.action \in Seq(STRING) /\ asked.resource \in Seq(STRING)
    BY EvaluatorAssumption DEF EvaluatorAssumption
<1>2. s.actions \in Seq(Seq(STRING)) /\ s.resources \in Seq(Seq(STRING))
    BY EvaluatorAssumption DEF EvaluatorAssumption
<1>3. \A p \in Seqs!ToSet(s.actions) : p \in Seq(STRING) /\ IsPolicyIdentifier(p) /\ p[1] = Service
    BY <1>2, ElementOfSeq, LenProperties DEF ValidIdentifiers, Seqs!ToSet
<1>4. \A p \in Seqs!ToSet(s.resources) : p \in Seq(STRING) /\ IsPolicyIdentifier(p) /\ p[1] = Service
    BY <1>2, ElementOfSeq, LenProperties DEF ValidIdentifiers, Seqs!ToSet
<1>5. \A p \in Seqs!ToSet(s.actions) :
        /\ MatchesPolicyIdentifier(p, asked.action) <=> asked.action \in StandsFor(p)
        /\ MatchesPolicyIdentifier(p, asked.action) => asked.action[1] = Service
    BY <1>1, <1>3, PatternStandsFor DEF AskedConcrete
<1>6. \A p \in Seqs!ToSet(s.resources) :
        /\ MatchesPolicyIdentifier(p, asked.resource) <=> asked.resource \in StandsFor(p)
        /\ MatchesPolicyIdentifier(p, asked.resource) => asked.resource[1] = Service
    BY <1>1, <1>4, PatternStandsFor DEF AskedConcrete
<1>7. EvaluatePolicyConditions(s.conditions, asked.context) <=>
        \A c \in s.conditions :
            /\ c.variable \in DOMAIN asked.context
            /\ \/ asked.context[c.variable] \in c.values
               \/ c.operator = "StringLike" /\ "*" \in c.values
               <=> c.operator # "StringNotEquals"
    BY ConditionIs DEF ValidConditions, EvaluatePolicyConditions
<1> QED BY <1>5, <1>6, <1>7 DEF StatementMatches

\* Once every statement has been looked at, what matched is what speaks.
LEMMA MatchedIs ==
    ASSUME EvaluatorInv, AskedConcrete, position = Len(statements), statements # <<>>,
           ValidPolicyDocument(statements), NEW e
    PROVE  /\ Matched(e) # {} <=> Speaking(e) # {}
           /\ Matched(e) # {} => asked.action[1] = Service /\ asked.resource[1] = Service
<1>1. statements \in Seq(Statement) /\ DOMAIN statements = 1..Len(statements)
    BY StatementsTyped, LenProperties DEF EvaluatorInv
<1>2. Seqs!ToSet(statements) = UNION {Seqs!ToSet(attachedTo[i]) : i \in DOMAIN attachedTo}
    BY MergedOf DEF EvaluatorInv, MergedInv
<1>3. \A i \in DOMAIN statements :
        /\ statements[i] \in Statement
        /\ ValidIdentifiers(statements[i].actions) /\ ValidIdentifiers(statements[i].resources)
        /\ ValidConditions(statements[i].conditions)
    BY <1>1, ElementOfSeq DEF ValidPolicyDocument
<1>4. asked \in Question BY DEF EvaluatorInv, MergedInv
<1>5. Matched(e) # {} <=>
        \E s \in Seqs!ToSet(statements) : StatementMatches(s) /\ s.effect = e
    BY <1>1 DEF Matched, Seqs!ToSet
<1>6. \A s \in Seqs!ToSet(statements) :
        /\ s \in Statement
        /\ ValidIdentifiers(s.actions) /\ ValidIdentifiers(s.resources)
        /\ ValidConditions(s.conditions)
    BY <1>3 DEF Seqs!ToSet
<1>7. \A s \in Seqs!ToSet(statements) :
        /\ StatementMatches(s) /\ s.effect = e <=> s \in Speaking(e)
        /\ StatementMatches(s) => asked.action[1] = Service /\ asked.resource[1] = Service
    <2> SUFFICES ASSUME NEW s \in Seqs!ToSet(statements)
                 PROVE  /\ StatementMatches(s) /\ s.effect = e <=> s \in Speaking(e)
                        /\ StatementMatches(s) => asked.action[1] = Service /\ asked.resource[1] = Service
        OBVIOUS
    <2>1. StatementMatches(s) /\ s.effect = e <=> s \in Speaking(e)
        BY <1>2, <1>4, <1>6, StatementIs DEF Speaking
    <2> QED BY <1>4, <1>6, <2>1, StatementIs
<1>8. Speaking(e) \subseteq Seqs!ToSet(statements) BY <1>2 DEF Speaking
<1> QED BY <1>5, <1>7, <1>8

\* A verdict is the reference's: all that could speak was looked at.
LEMMA DecisionFollows == EvaluatorInv => DecisionIsTheReference
<1> SUFFICES ASSUME EvaluatorInv, Decided PROVE DecisionIsTheReference
    BY DEF DecisionIsTheReference
<1>1. /\ statements # <<>> /\ ValidPolicyDocument(statements)
      /\ allow = Matched("Allow") /\ deny = Matched("Deny")
      /\ position # 0 => AskedConcrete
    BY DEF Decided, EvaluatorInv, EvaluationInv
<1>2. CASE ~AskedConcrete
    <2>1. verdict = "implicit_deny"
        <3>1. position = 0 BY <1>1, <1>2
        <3>2. deny = {} BY <1>1, <3>1 DEF Matched
        <3> QED BY <1>2, <3>2 DEF Decided, EvaluatorInv, EvaluationInv
    <2> QED BY <1>2, <2>1 DEF DecisionIsTheReference, AskedConcrete
<1>3. CASE AskedConcrete /\ position = Len(statements)
    <2>1. \A e : /\ Matched(e) # {} <=> Speaking(e) # {}
                 /\ Matched(e) # {} => asked.action[1] = Service /\ asked.resource[1] = Service
        BY <1>1, <1>3, MatchedIs
    <2> QED BY <1>1, <1>3, <2>1 DEF DecisionIsTheReference, Decided, EvaluatorInv, EvaluationInv, AskedConcrete
<1>4. AskedConcrete => position = Len(statements)
    BY DEF Decided, EvaluatorInv, EvaluationInv
<1> QED BY <1>2, <1>3, <1>4

\* evaluatePolicy, after mergeEffectivePolicies and parsePolicies: whatever the
\* documents attached and the request, the decision is the one the documents
\* state: what one of them denies is denied, what none allows is not allowed, and
\* the order and the grouping of the statements do not matter.
THEOREM DecidedByTheDocuments == SpecPolicyEvaluator => []DecisionIsTheReference
<1>1. InitPolicyEvaluator => EvaluatorInv BY EvaluatorInitially
<1>2. EvaluatorInv /\ [NextPolicyEvaluator]_varsPolicyEvaluator => EvaluatorInv'
    BY EvaluatorNextKeeps
<1>3. EvaluatorInv => DecisionIsTheReference BY DecisionFollows
<1> QED BY <1>1, <1>2, <1>3, PTL DEF SpecPolicyEvaluator

(* Merged and refused *)

\* flat[p] is the statement w[p] of the document d[p], and each is there once.
Places(flat, seqs, n, d, w) ==
    /\ \A p \in 1..Len(flat) :
        /\ d[p] \in 1..n /\ w[p] \in 1..Len(seqs[d[p]])
        /\ flat[p] = seqs[d[p]][w[p]]
    /\ \A p, q \in 1..Len(flat) : d[p] = d[q] /\ w[p] = w[q] => p = q
    /\ \A i \in 1..n : \A j \in 1..Len(seqs[i]) :
        \E p \in 1..Len(flat) : d[p] = i /\ w[p] = j

\* One more sequence behind what is flattened.
LEMMA PlacesGrow ==
    ASSUME NEW T, NEW flat \in Seq(T), NEW seqs, NEW n \in Nat, NEW next \in Seq(T),
           seqs[n + 1] = next, NEW d, NEW w, Places(flat, seqs, n, d, w)
    PROVE  \E e, v : Places(flat \o next, seqs, n + 1, e, v)
<1> DEFINE L == Len(flat)   M == Len(next)
           e == [p \in 1..(L + M) |-> IF p <= L THEN d[p] ELSE n + 1]
           v == [p \in 1..(L + M) |-> IF p <= L THEN w[p] ELSE p - L]
<1>1. /\ L \in Nat /\ M \in Nat /\ Len(flat \o next) = L + M
      /\ \A p \in 1..L : (flat \o next)[p] = flat[p]
      /\ \A p \in (L + 1)..(L + M) : (flat \o next)[p] = next[p - L]
  BY ConcatProperties, LenProperties
<1>2. \A p \in 1..L : p \in 1..(L + M) /\ e[p] = d[p] /\ v[p] = w[p] /\ d[p] \in 1..n
  BY <1>1 DEF Places
<1>3. \A p \in (L + 1)..(L + M) : p \in 1..(L + M) /\ e[p] = n + 1 /\ v[p] = p - L
  BY <1>1
<1>4. \A p \in 1..(L + M) : p \in 1..L \/ p \in (L + 1)..(L + M)
  BY <1>1
<1>5. ASSUME NEW p \in 1..(L + M)
      PROVE  /\ e[p] \in 1..(n + 1) /\ v[p] \in 1..Len(seqs[e[p]])
             /\ (flat \o next)[p] = seqs[e[p]][v[p]]
  <2> HIDE DEF L, M, e, v
  <2>1. CASE p \in 1..L
    <3>1. w[p] \in 1..Len(seqs[d[p]]) /\ flat[p] = seqs[d[p]][w[p]]
      BY <2>1 DEF Places, L
    <3>2. e[p] = d[p] /\ v[p] = w[p] /\ d[p] \in 1..n /\ (flat \o next)[p] = flat[p]
      BY <1>1, <1>2, <2>1
    <3>3. d[p] \in 1..(n + 1)
      BY <3>2
    <3> QED  BY <3>1, <3>2, <3>3
  <2>2. CASE p \in (L + 1)..(L + M)
    <3>1. v[p] \in 1..M
      BY <1>1, <1>3, <2>2
    <3> QED  BY <1>1, <1>3, <2>2, <3>1 DEF M
  <2> QED  BY <1>4, <2>1, <2>2
<1>6. ASSUME NEW p \in 1..(L + M), NEW q \in 1..(L + M), e[p] = e[q], v[p] = v[q] PROVE p = q
  <2> HIDE DEF L, M, e, v
  <2>1. CASE p \in 1..L /\ q \in 1..L
    BY <1>2, <1>6, <2>1 DEF Places, L
  <2>2. CASE p \in (L + 1)..(L + M) /\ q \in (L + 1)..(L + M)
    BY <1>1, <1>3, <1>6, <2>2
  <2>3. CASE p \in 1..L /\ q \in (L + 1)..(L + M)
    BY <1>2, <1>3, <1>6, <2>3
  <2>4. CASE q \in 1..L /\ p \in (L + 1)..(L + M)
    BY <1>2, <1>3, <1>6, <2>4
  <2> QED  BY <1>4, <2>1, <2>2, <2>3, <2>4
<1>7. ASSUME NEW i \in 1..(n + 1), NEW j \in 1..Len(seqs[i])
      PROVE  \E p \in 1..(L + M) : e[p] = i /\ v[p] = j
  <2> HIDE DEF L, e, v
  <2>1. CASE i \in 1..n
    <3>1. PICK p \in 1..L : d[p] = i /\ w[p] = j
      BY <2>1 DEF Places, L
    <3> QED  BY <1>2, <3>1
  <2>2. CASE i = n + 1
    <3>1. j \in 1..M
      BY <1>7, <2>2
    <3>2. L + j \in (L + 1)..(L + M) /\ (L + j) - L = j
      BY <1>1, <3>1
    <3> QED  BY <1>3, <2>2, <3>2
  <2> QED  BY <2>1, <2>2
<1> HIDE DEF L, M, e, v
<1>8. Places(flat \o next, seqs, n + 1, e, v)
  BY <1>1, <1>5, <1>6, <1>7 DEF Places
<1> QED  BY <1>8

\* Each statement of each document has one place among the merged ones.
LEMMA FlattenPlaces ==
    ASSUME NEW T, NEW seqs \in Seq(Seq(T)), seqs # <<>>
    PROVE  \E d, w : Places(Seqs!FlattenSeq(seqs), seqs, Len(seqs), d, w)
<1> DEFINE n == Len(seqs)
<1>1. n \in Nat \ {0} /\ \A i \in 1..n : seqs[i] \in Seq(T)
  BY LenProperties, EmptySeq
<1>2. PICK f : Flattens(f, seqs, n) /\ Seqs!FlattenSeq(seqs) = f[n]
  BY <1>1, FlattenIs
<1> DEFINE S == {k \in Nat : k + 1 \in 1..n =>
                    f[k + 1] \in Seq(T) /\ \E d, w : Places(f[k + 1], seqs, k + 1, d, w)}
<1> HIDE DEF n
<1>3. 0 \in S
  <2>1. f[1] = seqs[1] /\ seqs[1] \in Seq(T) /\ Len(seqs[1]) \in Nat
    BY <1>1, <1>2, LenProperties DEF Flattens
  <2> DEFINE d == [p \in 1..Len(seqs[1]) |-> 1]   w == [p \in 1..Len(seqs[1]) |-> p]
  <2>2. Places(seqs[1], seqs, 1, d, w)
    BY <2>1 DEF Places
  <2> QED  BY <2>1, <2>2
<1>4. ASSUME NEW k \in Nat, k \in S PROVE k + 1 \in S
  <2>1. SUFFICES ASSUME k + 2 \in 1..n
                 PROVE  f[k + 2] \in Seq(T) /\ \E d, w : Places(f[k + 2], seqs, k + 2, d, w)
    BY k + 1 + 1 = k + 2
  <2>2. k + 1 \in 1..n /\ k + 2 # 1 /\ (k + 2) - 1 = k + 1
    BY <1>1, <2>1
  <2>3. f[k + 2] = f[k + 1] \o seqs[k + 2]
    BY <1>2, <2>1, <2>2 DEF Flattens
  <2>4. f[k + 1] \in Seq(T) /\ seqs[k + 2] \in Seq(T)
    BY <1>1, <1>4, <2>1, <2>2
  <2>5. PICK d, w : Places(f[k + 1], seqs, k + 1, d, w)
    BY <1>4, <2>2
  <2>6. k + 1 \in Nat /\ (k + 1) + 1 = k + 2
    OBVIOUS
  <2>7. \E e, v : Places(f[k + 1] \o seqs[k + 2], seqs, k + 2, e, v)
    BY <2>4, <2>5, <2>6, PlacesGrow
  <2> QED  BY <2>3, <2>4, <2>7, ConcatProperties
<1>5. \A k \in Nat : k \in S
  <2> HIDE DEF S
  <2> QED  BY <1>3, <1>4, HoldsOfEach
<1>6. n - 1 \in S /\ (n - 1) + 1 = n /\ n \in 1..n
  <2>1. n - 1 \in Nat
    BY <1>1
  <2>2. n - 1 \in S
    <3> HIDE DEF S
    <3> QED  BY <1>5, <2>1
  <2> QED  BY <1>1, <2>2
<1>7. \E d, w : Places(f[n], seqs, n, d, w)
  BY <1>6
<1> QED  BY <1>2, <1>7 DEF n

\* Two documents that apply name a statement alike, or all have too many.
Clash ==
    \/ Len(Seqs!FlattenSeq(attachedTo)) > MaxStatements
    \/ \E i, j \in DOMAIN attachedTo :
        /\ i # j
        /\ \E s \in Seqs!ToSet(attachedTo[i]), t \in Seqs!ToSet(attachedTo[j]) :
            s.sid = t.sid /\ s.sid # NoSid

\* Each document was accepted when its policy was written.
Accepted == \A i \in DOMAIN attachedTo : ValidPolicyDocument(attachedTo[i])

\* The merge of accepted documents is accepted unless they clash.
LEMMA MergeIsValid ==
    ASSUME MergedInv, Accepted
    PROVE  ValidPolicyDocument(Seqs!FlattenSeq(attachedTo)) <=> ~Clash
<1> DEFINE flat == Seqs!FlattenSeq(attachedTo)
<1>1. /\ attachedTo \in Seq(Seq(Statement)) /\ attachedTo # <<>>
      /\ \A i \in DOMAIN attachedTo : attachedTo[i] \in Seq(Statement) /\ attachedTo[i] # <<>>
      /\ DOMAIN attachedTo = 1..Len(attachedTo) /\ Len(attachedTo) \in Nat
  <2>1. Documented \subseteq Seq(Statement)
    BY DEF Documented
  <2>2. attachedTo \in Seq(Seq(Statement))
    BY <2>1, SeqMonotonic DEF MergedInv
  <2>3. \A i \in DOMAIN attachedTo : attachedTo[i] \in Documented
    BY ElementOfSeq, LenProperties DEF MergedInv
  <2> QED  BY <2>2, <2>3, LenProperties DEF MergedInv, Documented
<1>2. flat \in Seq(Statement) /\ Len(flat) \in Nat /\ DOMAIN flat = 1..Len(flat)
  BY MergedOf, LenProperties DEF MergedInv
<1>3. PICK d, w : Places(flat, attachedTo, Len(attachedTo), d, w)
  BY <1>1, FlattenPlaces
<1> HIDE DEF flat
<1>4. /\ \A i \in DOMAIN attachedTo : DOMAIN attachedTo[i] = 1..Len(attachedTo[i])
      /\ \A i \in DOMAIN attachedTo : \A k \in DOMAIN attachedTo[i] :
          \E p \in DOMAIN flat : d[p] = i /\ w[p] = k
  <2>1. \A i \in DOMAIN attachedTo : DOMAIN attachedTo[i] = 1..Len(attachedTo[i])
    BY <1>1, LenProperties
  <2>2. \A i \in 1..Len(attachedTo) : \A k \in 1..Len(attachedTo[i]) :
            \E p \in 1..Len(flat) : d[p] = i /\ w[p] = k
    BY <1>3 DEF Places
  <2>3. ASSUME NEW i \in DOMAIN attachedTo, NEW k \in DOMAIN attachedTo[i]
        PROVE  \E p \in DOMAIN flat : d[p] = i /\ w[p] = k
    <3>1. i \in 1..Len(attachedTo)
      BY <1>1
    <3>2. k \in 1..Len(attachedTo[i])
      BY <2>1
    <3>3. PICK p \in 1..Len(flat) : d[p] = i /\ w[p] = k
      BY <2>2, <3>1, <3>2
    <3>4. p \in DOMAIN flat
      BY <1>2
    <3> QED  BY <3>3, <3>4
  <2> QED  BY <2>1, <2>3
<1>5. \A p \in DOMAIN flat :
        /\ d[p] \in DOMAIN attachedTo /\ w[p] \in DOMAIN attachedTo[d[p]]
        /\ flat[p] = attachedTo[d[p]][w[p]]
  BY <1>1, <1>2, <1>3, <1>4 DEF Places
<1>6. \A p \in DOMAIN flat :
        /\ ValidIdentifiers(flat[p].actions) /\ ValidIdentifiers(flat[p].resources)
        /\ ValidConditions(flat[p].conditions)
  BY <1>5 DEF Accepted, ValidPolicyDocument
<1>7. flat # <<>>
  <2>1. 1 \in DOMAIN attachedTo /\ attachedTo[1] # <<>>
    <3>1. Len(attachedTo) # 0
      BY <1>1, EmptySeq
    <3>2. 1 \in DOMAIN attachedTo
      BY <1>1, <3>1
    <3> QED  BY <1>1, <3>2
  <2>2. 1 \in 1..Len(attachedTo[1])
    <3>1. attachedTo[1] \in Seq(Statement)
      BY <1>1, <2>1
    <3>2. Len(attachedTo[1]) # 0 /\ Len(attachedTo[1]) \in Nat
      BY <2>1, <3>1, EmptySeq, LenProperties
    <3> QED  BY <3>2
  <2>3. PICK p \in 1..Len(flat) : d[p] = 1 /\ w[p] = 1
    BY <1>1, <1>3, <2>1, <2>2 DEF Places
  <2> QED  BY <1>2, <2>3
<1> DEFINE Twice == \E p, q \in DOMAIN flat : p # q /\ flat[p].sid = flat[q].sid /\ flat[p].sid # NoSid
           Alike == \E i, j \in DOMAIN attachedTo :
                        /\ i # j
                        /\ \E s \in Seqs!ToSet(attachedTo[i]), t \in Seqs!ToSet(attachedTo[j]) :
                            s.sid = t.sid /\ s.sid # NoSid
<1>8. Twice => Alike
  <2> SUFFICES ASSUME NEW p \in DOMAIN flat, NEW q \in DOMAIN flat, p # q,
                      flat[p].sid = flat[q].sid, flat[p].sid # NoSid
               PROVE  Alike
    OBVIOUS
  <2>1. d[p] # d[q]
    <3>1. SUFFICES ASSUME d[p] = d[q] PROVE FALSE
      OBVIOUS
    <3>2. w[p] # w[q]
      BY <1>2, <1>3, <3>1 DEF Places
    <3> QED  BY <1>5, <3>1, <3>2 DEF Accepted, ValidPolicyDocument
  <2>2. flat[p] \in Seqs!ToSet(attachedTo[d[p]]) /\ flat[q] \in Seqs!ToSet(attachedTo[d[q]])
    BY <1>5 DEF Seqs!ToSet
  <2> QED  BY <1>5, <2>1, <2>2
<1>9. Alike => Twice
  <2> SUFFICES ASSUME NEW i \in DOMAIN attachedTo, NEW j \in DOMAIN attachedTo, i # j,
                      NEW s \in Seqs!ToSet(attachedTo[i]), NEW t \in Seqs!ToSet(attachedTo[j]),
                      s.sid = t.sid, s.sid # NoSid
               PROVE  Twice
    OBVIOUS
  <2>1. PICK k \in DOMAIN attachedTo[i] : s = attachedTo[i][k]
    BY DEF Seqs!ToSet
  <2>2. PICK l \in DOMAIN attachedTo[j] : t = attachedTo[j][l]
    BY DEF Seqs!ToSet
  <2>3. PICK p \in DOMAIN flat : d[p] = i /\ w[p] = k
    BY <1>4
  <2>4. PICK q \in DOMAIN flat : d[q] = j /\ w[q] = l
    BY <1>4
  <2>5. p # q /\ flat[p] = s /\ flat[q] = t
    BY <1>5, <2>1, <2>2, <2>3, <2>4
  <2> QED  BY <1>2, <2>3, <2>4, <2>5
<1>10. ValidPolicyDocument(flat) <=> Len(flat) <= MaxStatements /\ ~Twice
  BY <1>6, <1>7 DEF ValidPolicyDocument
<1>11. Clash <=> Len(flat) > MaxStatements \/ Alike
  BY DEF Clash, flat
<1>12. Len(flat) > MaxStatements <=> ~(Len(flat) <= MaxStatements)
  BY <1>2, EvaluatorAssumption DEF EvaluatorAssumption
<1> HIDE DEF Twice, Alike
<1> QED  BY <1>8, <1>9, <1>10, <1>11, <1>12 DEF flat

\* What finding 5 depends on, for any documents: the client refuses the merge of
\* documents that the API has accepted exactly when they have too many statements
\* together or two of them use one sid; otherwise it evaluates it.  (Sizes apart:
\* a merge of more bytes than one document may have is refused, too.)
THEOREM RefusedOnlyForAClash ==
    SpecPolicyEvaluator =>
        []/\ verdict = "policy_unavailable" => Clash
          /\ verdict = "parsed" \/ Decided => ~Clash
<1> DEFINE Served ==
        /\ verdict = "policy_unavailable" => Clash
        /\ verdict = "parsed" \/ Decided => ~Clash
<1>1. InitPolicyEvaluator => Accepted /\ Served
  BY DEF InitPolicyEvaluator, Accepted, Decided
<1>2. EvaluatorInv /\ Accepted /\ Served /\ [NextPolicyEvaluator]_varsPolicyEvaluator
          => Accepted' /\ Served'
  <2> SUFFICES ASSUME EvaluatorInv, Accepted, Served, [NextPolicyEvaluator]_varsPolicyEvaluator
               PROVE  Accepted' /\ Served'
    OBVIOUS
  <2>1. attachedTo' = attachedTo
    BY DEF NextPolicyEvaluator, MergeEffectivePolicies, ParsePolicies, RefuseRequest,
           EvaluateStatement, Conclude, varsPolicyEvaluator
  <2>2. Accepted' /\ (Clash' <=> Clash)
    BY <2>1 DEF Accepted, Clash
  <2>3. CASE ParsePolicies
    <3>1. ValidPolicyDocument(statements) <=> ~Clash
      BY <2>3, MergeIsValid DEF EvaluatorInv, MergedInv, ParsePolicies
    <3> QED  BY <2>2, <2>3, <3>1 DEF ParsePolicies, Decided
  <2>4. CASE verdict' = verdict
    BY <2>2, <2>4 DEF Decided
  <2>5. CASE RefuseRequest \/ Conclude
    BY <2>2, <2>5 DEF RefuseRequest, Conclude, Decided
  <2> QED
    BY <2>2, <2>3, <2>4, <2>5
       DEF NextPolicyEvaluator, MergeEffectivePolicies, EvaluateStatement, varsPolicyEvaluator
<1> QED
  BY EvaluatorInitially, EvaluatorNextKeeps, <1>1, <1>2, PTL DEF SpecPolicyEvaluator
=============================================================================
