--------------------------- MODULE OutboxPromise ---------------------------
(***************************************************************************)
(* What the PostgreSQL job queue promises to the code that enqueues a job, *)
(* with no mention of workers, locks or clocks.                            *)
(*                                                                         *)
(* A job is tried at most MaxAttempts times, each try performs its effect  *)
(* (an e-mail accepted by the SMTP server) at most once, a completed job   *)
(* has had its effect, a job is given up only once every try is used, and  *)
(* an outcome is final.  An effect may come late: the try of an            *)
(* interrupted worker can still end after the job was settled.             *)
(***************************************************************************)
EXTENDS Naturals

CONSTANTS
    Job,            \* rows of the table jobs
    MaxAttempts     \* MaxAttempts[j]: the column max_attempts

VARIABLES
    outcome,        \* outcome[j]: what the enqueuer can rely on
    tries,          \* tries[j]: tries started so far
    effects         \* effects[j]: the tries that had their effect

vars == <<outcome, tries, effects>>

Init ==
    /\ outcome = [j \in Job |-> "absent"]
    /\ tries = [j \in Job |-> 0]
    /\ effects = [j \in Job |-> {}]

Accept(j) ==
    /\ outcome[j] = "absent"
    /\ outcome'[j] = "pending"
    /\ UNCHANGED <<tries[j], effects[j]>>

Try(j) ==
    /\ outcome[j] = "pending"
    /\ tries[j] < MaxAttempts[j]
    /\ tries'[j] = tries[j] + 1
    /\ UNCHANGED <<outcome[j], effects[j]>>

\* The effect of try a, at most once; it may come after the outcome.
TakeEffect(j) ==
    \E a \in 1 .. tries[j] :
        /\ a \notin effects[j]
        /\ effects'[j] = effects[j] \cup {a}
        /\ UNCHANGED <<outcome[j], tries[j]>>

Complete(j) ==
    /\ outcome[j] = "pending"
    /\ effects[j] # {}
    /\ outcome'[j] = "completed"
    /\ UNCHANGED <<tries[j], effects[j]>>

GiveUp(j) ==
    /\ outcome[j] = "pending"
    /\ tries[j] = MaxAttempts[j]
    /\ outcome'[j] = "failed"
    /\ UNCHANGED <<tries[j], effects[j]>>

Rest(j) == UNCHANGED <<outcome[j], tries[j], effects[j]>>

JobStep(j) ==
    \/ Accept(j)
    \/ Try(j)
    \/ TakeEffect(j)
    \/ Complete(j)
    \/ GiveUp(j)

\* Jobs are independent: one statement of the queue may settle several.
Next ==
    /\ \A j \in Job : JobStep(j) \/ Rest(j)
    /\ outcome' \in [Job -> {"absent", "pending", "completed", "failed"}]
    /\ tries' \in [Job -> Nat]
    /\ effects' \in [Job -> SUBSET Nat]

Spec == Init /\ [][Next]_vars
=============================================================================
