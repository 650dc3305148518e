------------------------------ MODULE JobQueue ------------------------------
(***************************************************************************)
(* The PostgreSQL job queue of apps/worker: JobQueue.claim, complete and   *)
(* retry (queue.ts), the loop that calls them, WorkerProcessor.runOnce and *)
(* run (worker.ts), the e-mail handler (email.ts) and the producer,        *)
(* transactWithEmail (packages/db/src/outbox.ts).                          *)
(*                                                                         *)
(* Several worker processes share the table.  Each SQL statement is one    *)
(* step; between two of them anything may happen: another worker's claim,  *)
(* the expiry of a lock, a crash, an error after the statement committed.  *)
(*                                                                         *)
(* Time is relative: availableIn is available_at - now(), lockAge is       *)
(* now() - locked_at, both saturated where no comparison of the code can   *)
(* tell the values apart (Horizon bounds how long ago is distinguished).   *)
(***************************************************************************)
EXTENDS Integers, FiniteSets

CONSTANTS
    Job,            \* rows of the table jobs, named by their deduplication_key
    Email,          \* the jobs with type = 'email'
    Worker,         \* worker processes; a restarted process has a new random id
    NoJob, NoWorker,
    MaxAttempts,    \* MaxAttempts[j]: the column max_attempts
    LockTimeout,    \* JOB_LOCK_TIMEOUT_MS in ticks
    BaseDelay,      \* first backoff of retryBackoffMs, in ticks
    MaxDelay,       \* its cap, in ticks
    Horizon         \* bound: how far past an available_at is told apart

ASSUME JobAssumption == Email \subseteq Job /\ NoJob \notin Job
ASSUME WorkerAssumption == NoWorker \notin Worker
ASSUME AttemptsAssumption == MaxAttempts \in [Job -> Nat \ {0}]
ASSUME TimeAssumption ==
    /\ LockTimeout \in Nat \ {0}
    /\ BaseDelay \in Nat
    /\ MaxDelay \in Nat
    /\ Horizon \in Nat

VARIABLES
    status, attempts, availableIn, lockAge, lockedBy,  \* table jobs
    scrubbed,       \* the jobs whose payload is {"delivered":true}
    pc,             \* pc[w]: where runOnce of worker w is
    held,           \* held[w]: the row claim returned to w, as it was then
    delivered       \* delivered[j]: attempts whose e-mail the SMTP server took

table == <<status, attempts, availableIn, lockAge, lockedBy, scrubbed>>
vars == <<table, pc, held, delivered>>

Statuses == {"absent", "available", "running", "completed", "failed"}
Claims == [job : Job \cup {NoJob}, attempt : Nat]
NoClaim == [job |-> NoJob, attempt |-> 0]

Init ==
    /\ status = [j \in Job |-> "absent"]
    /\ attempts = [j \in Job |-> 0]
    /\ availableIn = [j \in Job |-> 0]
    /\ lockAge = [j \in Job |-> 0]
    /\ lockedBy = [j \in Job |-> NoWorker]
    /\ scrubbed = {}
    /\ pc = [w \in Worker |-> "idle"]
    /\ held = [w \in Worker |-> NoClaim]
    /\ delivered = [j \in Job |-> {}]

-----------------------------------------------------------------------------
(* The table *)

\* Mutant: a status the queries do not know.
EnqueuePending(j) ==
    /\ status[j] = "absent"
    /\ status' = [status EXCEPT ![j] = "pending"]
    /\ UNCHANGED <<attempts, availableIn, lockAge, lockedBy, scrubbed>>
    /\ UNCHANGED <<pc, held, delivered>>

\* The insert of transactWithEmail and enqueue.  On a known deduplication_key
\* it returns the existing row and changes nothing.
Enqueue(j) ==
    /\ status[j] = "absent"
    /\ status' = [status EXCEPT ![j] = "available"]
    /\ UNCHANGED <<attempts, availableIn, lockAge, lockedBy, scrubbed>>
    /\ UNCHANGED <<pc, held, delivered>>

\* now() advances for every row.
Tick ==
    /\ availableIn' = [j \in Job |->
          IF status[j] \in {"available", "running"} /\ availableIn[j] > -Horizon
          THEN availableIn[j] - 1 ELSE availableIn[j]]
    /\ lockAge' = [j \in Job |->
          IF status[j] = "running" /\ lockAge[j] < LockTimeout
          THEN lockAge[j] + 1 ELSE lockAge[j]]
    /\ UNCHANGED <<status, attempts, lockedBy, scrubbed, pc, held, delivered>>

LockExpired(j) == status[j] = "running" /\ lockAge[j] >= LockTimeout

\* Mutant: no CTE expired.
NoneExhausted == {}

\* The CTE expired: the last attempt was interrupted.
Exhausted == {j \in Job : LockExpired(j) /\ attempts[j] >= MaxAttempts[j]}

\* Mutant: an expired lock is taken over however many attempts were made.
CandidatesUncounted == {j \in Job :
    \/ attempts[j] < MaxAttempts[j] /\ status[j] = "available" /\ availableIn[j] <= 0
    \/ LockExpired(j)}

Candidates == {j \in Job :
    /\ attempts[j] < MaxAttempts[j]
    /\ (status[j] = "available" /\ availableIn[j] <= 0) \/ LockExpired(j)}

\* order by available_at ... limit 1; rows of equal age in either order.
\* No candidate is locked by another claim: a claim is one statement, and
\* skip locked re-reads a row another claim has just taken.  (A row that an
\* enqueue of the same key holds would be skipped for that long: left out.)
Oldest == {j \in Candidates : \A k \in Candidates : availableIn[j] <= availableIn[k]}

\* The statement of claim by w: fail the exhausted rows, lock those of taken.
ClaimStatement(w, taken) ==
    /\ status' = [j \in Job |-> IF j \in Exhausted THEN "failed"
                                ELSE IF j \in taken THEN "running" ELSE status[j]]
    /\ attempts' = [j \in Job |-> IF j \in taken THEN attempts[j] + 1 ELSE attempts[j]]
    /\ lockedBy' = [j \in Job |-> IF j \in Exhausted THEN NoWorker
                                  ELSE IF j \in taken THEN w ELSE lockedBy[j]]
    /\ lockAge' = [j \in Job |-> IF j \in Exhausted \cup taken THEN 0 ELSE lockAge[j]]
    /\ UNCHANGED <<availableIn, scrubbed>>

\* Mutant: the where clause forgets locked_by.
OwnsAnyLock(w) == status[held[w].job] = "running"

\* The where clause of complete and of retry.
OwnsLock(w) ==
    LET j == held[w].job IN status[j] = "running" /\ lockedBy[j] = w

CompleteStatement(w) ==
    LET j == held[w].job IN
    IF OwnsLock(w)
    THEN /\ status' = [status EXCEPT ![j] = "completed"]
         /\ scrubbed' = scrubbed \cup ({j} \cap Email)
         /\ lockedBy' = [lockedBy EXCEPT ![j] = NoWorker]
         /\ lockAge' = [lockAge EXCEPT ![j] = 0]
         /\ UNCHANGED <<attempts, availableIn>>
    ELSE UNCHANGED table

\* retryBackoffMs
Backoff(attempt) ==
    LET delay == BaseDelay * 2 ^ (IF attempt >= 1 THEN attempt - 1 ELSE 0)
    IN  IF delay <= MaxDelay THEN delay ELSE MaxDelay

\* terminal is decided on the row as it was claimed, not as it is now.
RetryStatement(w) ==
    LET j == held[w].job
        terminal == held[w].attempt >= MaxAttempts[j] IN
    IF OwnsLock(w)
    THEN /\ status' = [status EXCEPT ![j] = IF terminal THEN "failed" ELSE "available"]
         /\ availableIn' = [availableIn EXCEPT ![j] = Backoff(held[w].attempt)]
         /\ lockedBy' = [lockedBy EXCEPT ![j] = NoWorker]
         /\ lockAge' = [lockAge EXCEPT ![j] = 0]
         /\ UNCHANGED <<attempts, scrubbed>>
    ELSE UNCHANGED table

-----------------------------------------------------------------------------
(* runOnce, repeated by run *)

Goto(w, place) == pc' = [pc EXCEPT ![w] = place]
Release(w) == held' = [held EXCEPT ![w] = NoClaim]

\* Environment: the container runtime restarts a worker that exits, so some
\* process other than w still polls.
Replaced(w) == \E v \in Worker \ {w} : pc[v] # "down"

ClaimJob(w) ==
    /\ pc[w] = "idle"
    /\ \E j \in Oldest :
          /\ ClaimStatement(w, {j})
          /\ held' = [held EXCEPT ![w] = [job |-> j, attempt |-> attempts[j] + 1]]
    /\ Goto(w, "handling")
    /\ UNCHANGED delivered

\* No candidate: runOnce returns false and run sleeps until the next poll.
ClaimNothing(w) ==
    /\ pc[w] = "idle"
    /\ Candidates = {}
    /\ ClaimStatement(w, {})
    /\ UNCHANGED <<pc, held, delivered>>

\* claim throws, before or after its statement committed: run rejects and
\* nothing calls it again.
ClaimThrows(w) ==
    /\ pc[w] = "idle"
    /\ Replaced(w)
    /\ \/ UNCHANGED table
       \/ \E j \in Oldest : ClaimStatement(w, {j})
       \/ Candidates = {} /\ ClaimStatement(w, {})
    /\ Goto(w, "down")
    /\ UNCHANGED <<held, delivered>>

Deliver(w) ==
    LET j == held[w].job IN
    delivered' = [delivered EXCEPT ![j] =
        IF j \in Email THEN @ \cup {held[w].attempt} ELSE @]

HandlerReturns(w) ==
    /\ pc[w] = "handling"
    /\ Deliver(w)
    /\ Goto(w, "returned")
    /\ UNCHANGED <<table, held>>

\* An unsupported type, an invalid payload or an SMTP error; the server may
\* have accepted the message before the connection failed.
HandlerThrows(w) ==
    /\ pc[w] = "handling"
    /\ Deliver(w) \/ UNCHANGED delivered
    /\ Goto(w, "thrown")
    /\ UNCHANGED <<table, held>>

Complete(w) ==
    /\ pc[w] = "returned"
    /\ CompleteStatement(w)
    /\ Goto(w, "idle")
    /\ Release(w)
    /\ UNCHANGED delivered

\* complete throws, before or after its statement committed, inside the try.
CompleteThrows(w) ==
    /\ pc[w] = "returned"
    /\ CompleteStatement(w) \/ UNCHANGED table
    /\ Goto(w, "thrown")
    /\ UNCHANGED <<held, delivered>>

Retry(w) ==
    /\ pc[w] = "thrown"
    /\ RetryStatement(w)
    /\ Goto(w, "idle")
    /\ Release(w)
    /\ UNCHANGED delivered

RetryThrows(w) ==
    /\ pc[w] = "thrown"
    /\ Replaced(w)
    /\ RetryStatement(w) \/ UNCHANGED table
    /\ Goto(w, "down")
    /\ Release(w)
    /\ UNCHANGED delivered

\* The process is killed, or stops at a SIGTERM between two jobs.  The row it
\* holds keeps its lock.
Crash(w) ==
    /\ pc[w] # "down"
    /\ Replaced(w)
    /\ Goto(w, "down")
    /\ Release(w)
    /\ UNCHANGED <<table, delivered>>

WorkerStep(w) ==
    \/ ClaimJob(w)
    \/ ClaimNothing(w)
    \/ ClaimThrows(w)
    \/ HandlerReturns(w)
    \/ HandlerThrows(w)
    \/ Complete(w)
    \/ CompleteThrows(w)
    \/ Retry(w)
    \/ RetryThrows(w)
    \/ Crash(w)

Next ==
    \/ \E j \in Job : Enqueue(j)
    \/ Tick
    \/ \E w \in Worker : WorkerStep(w)

Spec == Init /\ [][Next]_vars

\* The clock moves, a live worker polls, its handler ends (the SMTP client
\* has timeouts) and the statement that follows is issued.
Fairness ==
    /\ WF_vars(Tick)
    /\ \A w \in Worker :
          /\ WF_vars(ClaimJob(w) \/ ClaimNothing(w))
          /\ WF_vars(HandlerReturns(w) \/ HandlerThrows(w))
          /\ WF_vars(Complete(w) \/ CompleteThrows(w))
          /\ WF_vars(Retry(w))

LiveSpec == Spec /\ Fairness
-----------------------------------------------------------------------------
(* Properties *)

Busy(w) == pc[w] \in {"handling", "returned", "thrown"}

\* Every variable keeps its type.
TypeOK ==
    /\ status \in [Job -> Statuses]
    /\ attempts \in [Job -> Nat]
    /\ availableIn \in [Job -> Int]
    /\ lockAge \in [Job -> Nat]
    /\ lockedBy \in [Job -> Worker \cup {NoWorker}]
    /\ scrubbed \subseteq Job
    /\ pc \in [Worker -> {"idle", "handling", "returned", "thrown", "down"}]
    /\ held \in [Worker -> Claims]
    /\ delivered \in [Job -> SUBSET Nat]

\* No two workers ever act for the same attempt of a job, even after a lock
\* expired under a slow handler and the job was claimed again: the pair
\* (job id, attempts) that claim returns identifies one execution.
AttemptHasOneWorker ==
    \A w, v \in Worker :
        Busy(w) /\ Busy(v) /\ held[w] = held[v] => w = v

\* A worker that still passes the where clause of complete and retry holds
\* the newest attempt of its job: a late answer of an older attempt cannot
\* settle or reschedule a job that someone else has since claimed.
OwnerHoldsNewestAttempt ==
    \A w \in Worker : Busy(w) /\ OwnsLock(w) =>
        held[w].attempt = attempts[held[w].job]

\* A row is never locked by a live worker that is not working on it; only the
\* lock of a worker that is down has to expire.
LockedRowIsWorkedOn ==
    \A j \in Job, w \in Worker :
        status[j] = "running" /\ lockedBy[j] = w /\ pc[w] # "down" =>
            Busy(w) /\ held[w].job = j

\* An e-mail job is completed only if the SMTP server accepted its message,
\* and its payload is scrubbed exactly then: no row that can still be claimed
\* has lost its recipient and body.
CompletedMeansDelivered ==
    \A j \in Email :
        /\ status[j] = "completed" => delivered[j] # {}
        /\ j \in scrubbed <=> status[j] = "completed"

\* A job is reported failed only when all of its attempts were spent, however
\* they were spent: a throw, a crash or an expired lock.
FailedMeansExhausted ==
    \A j \in Job : status[j] = "failed" => attempts[j] = MaxAttempts[j]

\* No attempt delivers twice: a message is delivered at most once per attempt
\* and so at most MaxAttempts times.
NotYetDelivered ==
    \A w \in Worker : pc[w] = "handling" =>
        held[w].attempt \notin delivered[held[w].job]

\* What the parts above say together: whatever expires, throws, crashes or comes
\* late, an attempt is one worker's, one delivery's at most, none is lost, and what
\* the attempts of a job come to, completed or failed, is true of them.
AttemptsAreSound ==
    /\ AttemptHasOneWorker
    /\ OwnerHoldsNewestAttempt
    /\ LockedRowIsWorkedOn
    /\ CompletedMeansDelivered
    /\ FailedMeansExhausted
    /\ NotYetDelivered

\* Every enqueued job is eventually completed or failed, whatever workers
\* crash and whatever statements throw, as long as one worker polls.
EveryJobSettles ==
    \A j \in Job : status[j] # "absent" ~> status[j] \in {"completed", "failed"}

-----------------------------------------------------------------------------
(* The queue implements the promise for its e-mail jobs: a claim is a try,  *)
(* a delivery its effect.                                                   *)

outcomeOf == [j \in Email |->
    IF status[j] \in {"available", "running"} THEN "pending" ELSE status[j]]

Promise == INSTANCE OutboxPromise WITH
    Job <- Email,
    outcome <- outcomeOf,
    tries <- [j \in Email |-> attempts[j]],
    effects <- [j \in Email |-> delivered[j]]

\* Every behaviour of the queue is one the promise allows.
ImplementsPromise == Promise!Spec
=============================================================================
