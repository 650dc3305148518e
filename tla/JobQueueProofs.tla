--------------------------- MODULE JobQueueProofs ---------------------------
(***************************************************************************)
(* Proofs about JobQueue, for any sets of jobs and workers, any attempt    *)
(* limits and any delays.                                                  *)
(*                                                                         *)
(* The properties of JobQueue are not inductive one by one.  That the      *)
(* owner of a lock holds the newest attempt needs that attempts claimed    *)
(* earlier are older, that a failed job is exhausted needs that the owner  *)
(* decides on the newest attempt, and that an attempt delivers once needs  *)
(* that it has one worker.  IndInv adds the facts that tie them together.  *)
(***************************************************************************)
EXTENDS JobQueue, TLAPS

\* A busy worker holds an attempt that was really claimed.
HeldWasClaimed ==
    \A w \in Worker : Busy(w) =>
        /\ held[w].job \in Job
        /\ held[w].attempt \in 1 .. attempts[held[w].job]

AttemptsBounded == \A j \in Job : attempts[j] <= MaxAttempts[j]

LockedIffRunning ==
    \A j \in Job : lockedBy[j] # NoWorker <=> status[j] = "running"

\* The handler of an e-mail job returns only after the server's answer.
ReturnedMeansDelivered ==
    \A w \in Worker : pc[w] = "returned" /\ held[w].job \in Email =>
        held[w].attempt \in delivered[held[w].job]

DeliveredWasClaimed == \A j \in Job : delivered[j] \subseteq 1 .. attempts[j]

IndInv ==
    /\ TypeOK
    /\ HeldWasClaimed
    /\ AttemptsBounded
    /\ LockedIffRunning
    /\ ReturnedMeansDelivered
    /\ DeliveredWasClaimed
    /\ AttemptHasOneWorker
    /\ OwnerHoldsNewestAttempt
    /\ LockedRowIsWorkedOn
    /\ CompletedMeansDelivered
    /\ FailedMeansExhausted
    /\ NotYetDelivered

USE JobAssumption, WorkerAssumption, AttemptsAssumption, TimeAssumption

-----------------------------------------------------------------------------
(* Lemmas about the operators *)

\* A retry waits a whole number of ticks.
LEMMA BackoffType == \A a \in Nat : Backoff(a) \in Int
BY DEF Backoff

\* Two claims that agree on the job and on the attempt are the same claim.
LEMMA ClaimExtensionality ==
    \A c, d \in Claims : c.job = d.job /\ c.attempt = d.attempt => c = d
BY DEF Claims

\* The rows a claim gives up on have spent their attempts; it never takes one.
LEMMA ExhaustedIsSpent ==
    ASSUME TypeOK, AttemptsBounded, NEW j \in Exhausted
    PROVE  j \in Job /\ attempts[j] = MaxAttempts[j] /\ j \notin Candidates
BY DEF TypeOK, AttemptsBounded, Exhausted, Candidates

\* The type of the columns alone.
TableTypeOK ==
    /\ status \in [Job -> Statuses]
    /\ attempts \in [Job -> Nat]
    /\ availableIn \in [Job -> Int]
    /\ lockAge \in [Job -> Nat]
    /\ lockedBy \in [Job -> Worker \cup {NoWorker}]
    /\ scrubbed \subseteq Job

\* A completion that commits or changes nothing leaves the types of the columns.
LEMMA CompleteStatementType ==
    ASSUME TableTypeOK, NEW w \in Worker, held[w].job \in Job,
           CompleteStatement(w) \/ UNCHANGED table
    PROVE  TableTypeOK'
<1>1. CASE UNCHANGED table
  BY <1>1 DEF TableTypeOK, table
<1>2. CASE OwnsLock(w) /\ CompleteStatement(w)
  BY <1>2 DEF TableTypeOK, CompleteStatement, Statuses
<1> QED  BY <1>1, <1>2 DEF CompleteStatement

\* So does a retry, whether it reschedules the job or gives it up.
LEMMA RetryStatementType ==
    ASSUME TableTypeOK, NEW w \in Worker,
           held[w].job \in Job, held[w].attempt \in Nat,
           RetryStatement(w) \/ UNCHANGED table
    PROVE  TableTypeOK'
<1>1. CASE UNCHANGED table
  BY <1>1 DEF TableTypeOK, table
<1>2. CASE OwnsLock(w) /\ RetryStatement(w)
  BY <1>2, BackoffType DEF TableTypeOK, RetryStatement, Statuses
<1> QED  BY <1>1, <1>2 DEF RetryStatement

-----------------------------------------------------------------------------
(* Every action preserves IndInv *)

\* A new job has no owner, no attempt and no effect.
LEMMA EnqueueKeeps ==
    ASSUME IndInv, NEW j \in Job, Enqueue(j)
    PROVE  IndInv'
<1>1. TypeOK'
  BY DEF IndInv, TypeOK, Statuses, Enqueue
<1>2. LockedIffRunning'
  BY DEF IndInv, LockedIffRunning, Enqueue
<1>3. OwnerHoldsNewestAttempt'
  BY DEF IndInv, OwnerHoldsNewestAttempt, Busy, OwnsLock, Enqueue
<1>4. LockedRowIsWorkedOn'
  BY DEF IndInv, LockedRowIsWorkedOn, Busy, Enqueue
<1>5. CompletedMeansDelivered'
  BY DEF IndInv, CompletedMeansDelivered, Enqueue
<1>6. FailedMeansExhausted'
  BY DEF IndInv, FailedMeansExhausted, Enqueue
<1>7. /\ HeldWasClaimed'
      /\ AttemptsBounded'
      /\ ReturnedMeansDelivered'
      /\ DeliveredWasClaimed'
      /\ AttemptHasOneWorker'
      /\ NotYetDelivered'
  BY DEF IndInv, HeldWasClaimed, AttemptsBounded, ReturnedMeansDelivered,
     DeliveredWasClaimed, AttemptHasOneWorker, NotYetDelivered, Busy, Enqueue
<1> QED  BY <1>1, <1>2, <1>3, <1>4, <1>5, <1>6, <1>7 DEF IndInv

\* The clock moves no claim.
LEMMA TickKeeps ==
    ASSUME IndInv, Tick
    PROVE  IndInv'
<1>1. TypeOK'
  BY DEF IndInv, TypeOK, Tick
<1>2. /\ HeldWasClaimed'
      /\ AttemptsBounded'
      /\ LockedIffRunning'
      /\ ReturnedMeansDelivered'
      /\ DeliveredWasClaimed'
      /\ AttemptHasOneWorker'
      /\ OwnerHoldsNewestAttempt'
      /\ LockedRowIsWorkedOn'
      /\ CompletedMeansDelivered'
      /\ FailedMeansExhausted'
      /\ NotYetDelivered'
  BY DEF IndInv, HeldWasClaimed, AttemptsBounded, LockedIffRunning,
     ReturnedMeansDelivered, DeliveredWasClaimed, AttemptHasOneWorker,
     OwnerHoldsNewestAttempt, LockedRowIsWorkedOn, CompletedMeansDelivered,
     FailedMeansExhausted, NotYetDelivered, Busy, OwnsLock, Tick
<1> QED  BY <1>1, <1>2 DEF IndInv

\* A claim counts an attempt, so that what it returns is held by nobody else.
LEMMA ClaimJobKeeps ==
    ASSUME IndInv, NEW w \in Worker, ClaimJob(w)
    PROVE  IndInv'
<1>1. TypeOK'
  BY DEF IndInv, TypeOK, Statuses, Claims, ClaimJob, ClaimStatement, Oldest,
     Candidates, Goto
<1>2. HeldWasClaimed'
  BY DEF IndInv, TypeOK, HeldWasClaimed, Busy, ClaimJob, ClaimStatement, Oldest,
     Candidates, Goto
<1>3. AttemptsBounded'
  BY DEF IndInv, TypeOK, AttemptsBounded, ClaimJob, ClaimStatement, Oldest,
     Candidates
<1>4. LockedIffRunning'
  BY DEF IndInv, LockedIffRunning, ClaimJob, ClaimStatement
<1>5. ReturnedMeansDelivered'
  BY DEF IndInv, ReturnedMeansDelivered, ClaimJob, Goto
<1>6. DeliveredWasClaimed'
  BY DEF IndInv, TypeOK, DeliveredWasClaimed, ClaimJob, ClaimStatement
<1>7. AttemptHasOneWorker'
  BY DEF IndInv, TypeOK, HeldWasClaimed, AttemptHasOneWorker, Busy, ClaimJob,
     Goto
<1>8. OwnerHoldsNewestAttempt'
  BY DEF IndInv, TypeOK, HeldWasClaimed, OwnerHoldsNewestAttempt, Busy,
     OwnsLock, ClaimJob, ClaimStatement, Oldest, Candidates, Goto
<1>9. LockedRowIsWorkedOn'
  BY DEF IndInv, TypeOK, LockedRowIsWorkedOn, Busy, ClaimJob, ClaimStatement,
     Goto
<1>10. CompletedMeansDelivered'
  BY DEF IndInv, CompletedMeansDelivered, ClaimJob, ClaimStatement, Oldest,
     Candidates, Exhausted, LockExpired
<1>11. FailedMeansExhausted'
  <2> SUFFICES ASSUME NEW j \in Job, status'[j] = "failed"
               PROVE  attempts'[j] = MaxAttempts[j]
    BY DEF FailedMeansExhausted
  <2>1. CASE j \in Exhausted
    BY <2>1, ExhaustedIsSpent DEF IndInv, ClaimJob, ClaimStatement, Oldest
  <2>2. CASE j \notin Exhausted
    BY <2>2 DEF IndInv, FailedMeansExhausted, ClaimJob, ClaimStatement
  <2> QED  BY <2>1, <2>2
<1>12. NotYetDelivered'
  BY DEF IndInv, TypeOK, DeliveredWasClaimed, NotYetDelivered, ClaimJob, Oldest,
     Candidates, Goto
<1> QED  BY <1>1, <1>2, <1>3, <1>4, <1>5, <1>6, <1>7, <1>8, <1>9, <1>10, <1>11,
            <1>12 DEF IndInv

\* A poll without a candidate may still give up exhausted jobs.
LEMMA ClaimNothingKeeps ==
    ASSUME IndInv, NEW w \in Worker, ClaimNothing(w)
    PROVE  IndInv'
<1>1. TypeOK'
  BY DEF IndInv, TypeOK, Statuses, ClaimNothing, ClaimStatement
<1>2. LockedIffRunning'
  BY DEF IndInv, LockedIffRunning, ClaimNothing, ClaimStatement
<1>3. OwnerHoldsNewestAttempt'
  BY DEF IndInv, HeldWasClaimed, OwnerHoldsNewestAttempt, Busy, OwnsLock,
     ClaimNothing, ClaimStatement
<1>4. LockedRowIsWorkedOn'
  BY DEF IndInv, LockedRowIsWorkedOn, Busy, ClaimNothing, ClaimStatement
<1>5. CompletedMeansDelivered'
  BY DEF IndInv, CompletedMeansDelivered, ClaimNothing, ClaimStatement,
     Exhausted, LockExpired
<1>6. FailedMeansExhausted'
  <2> SUFFICES ASSUME NEW j \in Job, status'[j] = "failed"
               PROVE  attempts'[j] = MaxAttempts[j]
    BY DEF FailedMeansExhausted
  <2>1. CASE j \in Exhausted
    BY <2>1, ExhaustedIsSpent DEF IndInv, ClaimNothing, ClaimStatement
  <2>2. CASE j \notin Exhausted
    BY <2>2 DEF IndInv, FailedMeansExhausted, ClaimNothing, ClaimStatement
  <2> QED  BY <2>1, <2>2
<1>7. /\ HeldWasClaimed'
      /\ AttemptsBounded'
      /\ ReturnedMeansDelivered'
      /\ DeliveredWasClaimed'
      /\ AttemptHasOneWorker'
      /\ NotYetDelivered'
  BY DEF IndInv, HeldWasClaimed, AttemptsBounded, ReturnedMeansDelivered,
     DeliveredWasClaimed, AttemptHasOneWorker, NotYetDelivered, Busy,
     ClaimNothing, ClaimStatement
<1> QED  BY <1>1, <1>2, <1>3, <1>4, <1>5, <1>6, <1>7 DEF IndInv

\* A claim that committed for a worker that never learns of it: nobody holds it.
LEMMA ClaimThrowsKeeps ==
    ASSUME IndInv, NEW w \in Worker, ClaimThrows(w)
    PROVE  IndInv'
<1>1. TypeOK'
  <2>1. CASE UNCHANGED table
    BY <2>1 DEF IndInv, TypeOK, ClaimThrows, Goto, table
  <2>2. ASSUME NEW taken \in SUBSET Candidates, ClaimStatement(w, taken)
        PROVE  TypeOK'
    BY <2>2 DEF IndInv, TypeOK, Statuses, ClaimThrows, ClaimStatement, Goto
  <2> QED  BY <2>1, <2>2 DEF ClaimThrows, Oldest
<1>2. HeldWasClaimed'
  BY DEF IndInv, TypeOK, HeldWasClaimed, Busy, ClaimThrows, ClaimStatement,
     Goto, table
<1>3. AttemptsBounded'
  BY DEF IndInv, TypeOK, AttemptsBounded, ClaimThrows, ClaimStatement, Oldest,
     Candidates, table
<1>4. LockedIffRunning'
  BY DEF IndInv, LockedIffRunning, ClaimThrows, ClaimStatement, table
<1>5. ReturnedMeansDelivered'
  BY DEF IndInv, ReturnedMeansDelivered, ClaimThrows, Goto
<1>6. DeliveredWasClaimed'
  BY DEF IndInv, TypeOK, DeliveredWasClaimed, ClaimThrows, ClaimStatement, table
<1>7. AttemptHasOneWorker'
  BY DEF IndInv, AttemptHasOneWorker, Busy, ClaimThrows, Goto
<1>8. OwnerHoldsNewestAttempt'
  BY DEF IndInv, HeldWasClaimed, OwnerHoldsNewestAttempt, Busy, OwnsLock,
     ClaimThrows, ClaimStatement, Goto, table
<1>9. LockedRowIsWorkedOn'
  BY DEF IndInv, TypeOK, LockedRowIsWorkedOn, Busy, ClaimThrows, ClaimStatement,
     Goto, table
<1>10. CompletedMeansDelivered'
  BY DEF IndInv, CompletedMeansDelivered, ClaimThrows, ClaimStatement, Oldest,
     Candidates, Exhausted, LockExpired, table
<1>11. FailedMeansExhausted'
  <2>1. CASE UNCHANGED table
    BY <2>1 DEF IndInv, FailedMeansExhausted, table
  <2>2. ASSUME NEW taken \in SUBSET Candidates, ClaimStatement(w, taken),
               NEW j \in Job, status'[j] = "failed"
        PROVE  attempts'[j] = MaxAttempts[j]
    BY <2>2, ExhaustedIsSpent DEF IndInv, FailedMeansExhausted, ClaimStatement
  <2> QED  BY <2>1, <2>2 DEF ClaimThrows, Oldest, FailedMeansExhausted
<1>12. NotYetDelivered'
  BY DEF IndInv, NotYetDelivered, ClaimThrows, Goto
<1> QED  BY <1>1, <1>2, <1>3, <1>4, <1>5, <1>6, <1>7, <1>8, <1>9, <1>10, <1>11,
            <1>12 DEF IndInv

\* A delivery of the attempt in hand, which no one delivered before.
LEMMA HandlerReturnsKeeps ==
    ASSUME IndInv, NEW w \in Worker, HandlerReturns(w)
    PROVE  IndInv'
<1>1. TypeOK'
  BY DEF IndInv, TypeOK, HeldWasClaimed, Busy, HandlerReturns, Deliver, Goto,
     table
<1>2. ReturnedMeansDelivered'
  BY DEF IndInv, TypeOK, ReturnedMeansDelivered, HandlerReturns, Deliver, Goto
<1>3. DeliveredWasClaimed'
  BY DEF IndInv, HeldWasClaimed, DeliveredWasClaimed, Busy, HandlerReturns,
     Deliver, table
<1>4. CompletedMeansDelivered'
  BY DEF IndInv, CompletedMeansDelivered, HandlerReturns, Deliver, table
<1>5. NotYetDelivered'
  <2> SUFFICES ASSUME NEW v \in Worker, pc'[v] = "handling"
               PROVE  held[v].attempt \notin delivered'[held[v].job]
    BY DEF NotYetDelivered, HandlerReturns
  <2>1. v # w /\ pc[v] = "handling"
    BY DEF HandlerReturns, Goto, IndInv, TypeOK
  <2>2. held[v].job # held[w].job \/ held[v].attempt # held[w].attempt
    BY <2>1, ClaimExtensionality DEF IndInv, TypeOK, AttemptHasOneWorker, Busy,
       HandlerReturns
  <2>3. held[w].job \in Job
    BY DEF IndInv, HeldWasClaimed, Busy, HandlerReturns
  <2> QED  BY <2>1, <2>2 DEF IndInv, NotYetDelivered, Deliver, HandlerReturns
<1>6. /\ HeldWasClaimed'
      /\ AttemptsBounded'
      /\ LockedIffRunning'
      /\ AttemptHasOneWorker'
      /\ OwnerHoldsNewestAttempt'
      /\ LockedRowIsWorkedOn'
      /\ FailedMeansExhausted'
  BY DEF IndInv, HeldWasClaimed, AttemptsBounded, LockedIffRunning,
     AttemptHasOneWorker, OwnerHoldsNewestAttempt, LockedRowIsWorkedOn,
     FailedMeansExhausted, Busy, OwnsLock, HandlerReturns, Goto, table
<1> QED  BY <1>1, <1>2, <1>3, <1>4, <1>5, <1>6 DEF IndInv

\* A handler that fails before or after its effect.
LEMMA HandlerThrowsKeeps ==
    ASSUME IndInv, NEW w \in Worker, HandlerThrows(w)
    PROVE  IndInv'
<1>1. TypeOK'
  <2>1. CASE Deliver(w)
    BY DEF IndInv, TypeOK, HeldWasClaimed, Busy, HandlerThrows, Deliver, Goto,
       table
  <2>2. CASE UNCHANGED delivered
    BY <2>2 DEF IndInv, TypeOK, HandlerThrows, Goto, table
  <2> QED  BY <2>1, <2>2 DEF HandlerThrows
<1>2. ReturnedMeansDelivered'
  BY DEF IndInv, TypeOK, ReturnedMeansDelivered, HandlerThrows, Deliver, Goto
<1>3. DeliveredWasClaimed'
  <2>1. CASE Deliver(w)
    BY <2>1 DEF IndInv, HeldWasClaimed, DeliveredWasClaimed, Busy,
       HandlerThrows, Deliver, table
  <2>2. CASE UNCHANGED delivered
    BY <2>2 DEF IndInv, DeliveredWasClaimed, HandlerThrows, table
  <2> QED  BY <2>1, <2>2 DEF HandlerThrows
<1>4. CompletedMeansDelivered'
  <2>1. CASE Deliver(w)
    BY <2>1 DEF IndInv, CompletedMeansDelivered, HandlerThrows, Deliver, table
  <2>2. CASE UNCHANGED delivered
    BY <2>2 DEF IndInv, CompletedMeansDelivered, HandlerThrows, table
  <2> QED  BY <2>1, <2>2 DEF HandlerThrows
<1>5. NotYetDelivered'
  <2> SUFFICES ASSUME NEW v \in Worker, pc'[v] = "handling"
               PROVE  held[v].attempt \notin delivered'[held[v].job]
    BY DEF NotYetDelivered, HandlerThrows
  <2>1. v # w /\ pc[v] = "handling"
    BY DEF HandlerThrows, Goto, IndInv, TypeOK
  <2>2. held[v].job # held[w].job \/ held[v].attempt # held[w].attempt
    BY <2>1, ClaimExtensionality DEF IndInv, TypeOK, AttemptHasOneWorker, Busy,
       HandlerThrows
  <2>3. held[w].job \in Job
    BY DEF IndInv, HeldWasClaimed, Busy, HandlerThrows
  <2>4. held[v].attempt \notin delivered[held[v].job]
    BY <2>1 DEF IndInv, NotYetDelivered
  <2>5. CASE Deliver(w)
    BY <2>2, <2>4, <2>5 DEF Deliver
  <2> QED  BY <2>4, <2>5 DEF HandlerThrows
<1>6. /\ HeldWasClaimed'
      /\ AttemptsBounded'
      /\ LockedIffRunning'
      /\ AttemptHasOneWorker'
      /\ OwnerHoldsNewestAttempt'
      /\ LockedRowIsWorkedOn'
      /\ FailedMeansExhausted'
  BY DEF IndInv, HeldWasClaimed, AttemptsBounded, LockedIffRunning,
     AttemptHasOneWorker, OwnerHoldsNewestAttempt, LockedRowIsWorkedOn,
     FailedMeansExhausted, Busy, OwnsLock, HandlerThrows, Goto, table
<1> QED  BY <1>1, <1>2, <1>3, <1>4, <1>5, <1>6 DEF IndInv

\* Only the owner completes, and it has delivered.
LEMMA CompleteKeeps ==
    ASSUME IndInv, NEW w \in Worker, Complete(w)
    PROVE  IndInv'
<1>1. TypeOK'
  <2>1. held[w].job \in Job /\ held[w].attempt \in Nat
    BY DEF IndInv, HeldWasClaimed, Busy, Complete
  <2>2. TableTypeOK'
    BY <2>1, CompleteStatementType DEF IndInv, TypeOK, TableTypeOK, Complete
  <2> QED  BY <2>2 DEF IndInv, TypeOK, TableTypeOK, Claims, NoClaim, Goto,
              Release, Complete
<1>2. HeldWasClaimed'
  BY DEF IndInv, TypeOK, HeldWasClaimed, Busy, Complete, CompleteStatement,
     Goto, Release, table
<1>3. LockedIffRunning'
  BY DEF IndInv, TypeOK, LockedIffRunning, Complete, CompleteStatement, table
<1>4. ReturnedMeansDelivered'
  BY DEF IndInv, TypeOK, ReturnedMeansDelivered, Complete, Goto, Release
<1>5. AttemptHasOneWorker'
  BY DEF IndInv, TypeOK, AttemptHasOneWorker, Busy, Complete, Goto, Release
<1>6. OwnerHoldsNewestAttempt'
  <2>1. CASE OwnsLock(w)
    BY <2>1 DEF IndInv, TypeOK, HeldWasClaimed, OwnerHoldsNewestAttempt, Busy,
       OwnsLock, Goto, Release, Complete, CompleteStatement
  <2>2. CASE ~OwnsLock(w)
    BY <2>2 DEF IndInv, TypeOK, OwnerHoldsNewestAttempt, Busy, OwnsLock, Goto,
       Release, table, Complete, CompleteStatement
  <2> QED  BY <2>1, <2>2
<1>7. LockedRowIsWorkedOn'
  <2>1. CASE OwnsLock(w)
    BY <2>1 DEF IndInv, TypeOK, LockedRowIsWorkedOn, Busy, Goto, Release,
       Complete, CompleteStatement
  <2>2. CASE ~OwnsLock(w)
    BY <2>2 DEF IndInv, LockedRowIsWorkedOn, Busy, OwnsLock, Goto, Release,
       table, Complete, CompleteStatement
  <2> QED  BY <2>1, <2>2
<1>8. CompletedMeansDelivered'
  <2>1. CASE OwnsLock(w)
    BY <2>1 DEF IndInv, TypeOK, ReturnedMeansDelivered, CompletedMeansDelivered,
       Complete, CompleteStatement
  <2>2. CASE ~OwnsLock(w)
    BY <2>2 DEF IndInv, CompletedMeansDelivered, table, Complete,
       CompleteStatement
  <2> QED  BY <2>1, <2>2
<1>9. FailedMeansExhausted'
  <2>1. CASE OwnsLock(w)
    BY <2>1 DEF IndInv, TypeOK, FailedMeansExhausted, Complete,
       CompleteStatement
  <2>2. CASE ~OwnsLock(w)
    BY <2>2 DEF IndInv, FailedMeansExhausted, table, Complete, CompleteStatement
  <2> QED  BY <2>1, <2>2
<1>10. NotYetDelivered'
  BY DEF IndInv, NotYetDelivered, Complete, Goto, Release
<1>11. /\ AttemptsBounded'
      /\ DeliveredWasClaimed'
  BY DEF IndInv, AttemptsBounded, DeliveredWasClaimed, Complete,
     CompleteStatement, table
<1> QED  BY <1>1, <1>2, <1>3, <1>4, <1>5, <1>6, <1>7, <1>8, <1>9, <1>10, <1>11
            DEF IndInv

\* The same statement, its outcome unknown to the worker, which will retry.
LEMMA CompleteThrowsKeeps ==
    ASSUME IndInv, NEW w \in Worker, CompleteThrows(w)
    PROVE  IndInv'
<1>1. TypeOK'
  <2>1. held[w].job \in Job /\ held[w].attempt \in Nat
    BY DEF IndInv, HeldWasClaimed, Busy, CompleteThrows
  <2>2. TableTypeOK'
    BY <2>1, CompleteStatementType DEF IndInv, TypeOK, TableTypeOK,
       CompleteThrows
  <2> QED  BY <2>2 DEF IndInv, TypeOK, TableTypeOK, Goto, CompleteThrows
<1>2. HeldWasClaimed'
  BY DEF IndInv, HeldWasClaimed, Busy, CompleteThrows, CompleteStatement, Goto,
     table
<1>3. LockedIffRunning'
  BY DEF IndInv, TypeOK, LockedIffRunning, CompleteThrows, CompleteStatement,
     table
<1>4. ReturnedMeansDelivered'
  BY DEF IndInv, ReturnedMeansDelivered, CompleteThrows, Goto
<1>5. AttemptHasOneWorker'
  BY DEF IndInv, AttemptHasOneWorker, Busy, CompleteThrows, Goto
<1>6. OwnerHoldsNewestAttempt'
  <2>1. CASE OwnsLock(w) /\ CompleteStatement(w)
    BY <2>1 DEF IndInv, TypeOK, HeldWasClaimed, OwnerHoldsNewestAttempt, Busy,
       OwnsLock, Goto, CompleteThrows, CompleteStatement
  <2>2. CASE UNCHANGED table
    BY <2>2 DEF IndInv, OwnerHoldsNewestAttempt, Busy, OwnsLock, Goto, table,
       CompleteThrows
  <2> QED  BY <2>1, <2>2 DEF CompleteThrows, CompleteStatement
<1>7. LockedRowIsWorkedOn'
  <2>1. CASE OwnsLock(w) /\ CompleteStatement(w)
    BY <2>1 DEF IndInv, TypeOK, LockedRowIsWorkedOn, Busy, Goto, CompleteThrows,
       CompleteStatement
  <2>2. CASE UNCHANGED table
    BY <2>2 DEF IndInv, LockedRowIsWorkedOn, Busy, Goto, table, CompleteThrows
  <2> QED  BY <2>1, <2>2 DEF CompleteThrows, CompleteStatement
<1>8. CompletedMeansDelivered'
  <2>1. CASE OwnsLock(w) /\ CompleteStatement(w)
    BY <2>1 DEF IndInv, TypeOK, ReturnedMeansDelivered, CompletedMeansDelivered,
       CompleteThrows, CompleteStatement
  <2>2. CASE UNCHANGED table
    BY <2>2 DEF IndInv, CompletedMeansDelivered, table, CompleteThrows
  <2> QED  BY <2>1, <2>2 DEF CompleteThrows, CompleteStatement
<1>9. FailedMeansExhausted'
  <2>1. CASE OwnsLock(w) /\ CompleteStatement(w)
    BY <2>1 DEF IndInv, TypeOK, FailedMeansExhausted, CompleteStatement
  <2>2. CASE UNCHANGED table
    BY <2>2 DEF IndInv, FailedMeansExhausted, table
  <2> QED  BY <2>1, <2>2 DEF CompleteThrows, CompleteStatement
<1>10. NotYetDelivered'
  BY DEF IndInv, NotYetDelivered, CompleteThrows, Goto
<1>11. /\ AttemptsBounded'
      /\ DeliveredWasClaimed'
  BY DEF IndInv, AttemptsBounded, DeliveredWasClaimed, CompleteThrows,
     CompleteStatement, table
<1> QED  BY <1>1, <1>2, <1>3, <1>4, <1>5, <1>6, <1>7, <1>8, <1>9, <1>10, <1>11
            DEF IndInv

\* Only the owner retries; the job fails when its attempts are spent.
LEMMA RetryKeeps ==
    ASSUME IndInv, NEW w \in Worker, Retry(w)
    PROVE  IndInv'
<1>1. TypeOK'
  <2>1. held[w].job \in Job /\ held[w].attempt \in Nat
    BY DEF IndInv, HeldWasClaimed, Busy, Retry
  <2>2. TableTypeOK'
    BY <2>1, RetryStatementType DEF IndInv, TypeOK, TableTypeOK, Retry
  <2> QED  BY <2>2 DEF IndInv, TypeOK, TableTypeOK, Claims, NoClaim, Goto,
              Release, Retry
<1>2. HeldWasClaimed'
  BY DEF IndInv, TypeOK, HeldWasClaimed, Busy, Retry, RetryStatement, Goto,
     Release, table
<1>3. LockedIffRunning'
  BY DEF IndInv, TypeOK, LockedIffRunning, Retry, RetryStatement, table
<1>4. ReturnedMeansDelivered'
  BY DEF IndInv, ReturnedMeansDelivered, Retry, Goto, Release
<1>5. AttemptHasOneWorker'
  BY DEF IndInv, TypeOK, AttemptHasOneWorker, Busy, Retry, Goto, Release
<1>6. OwnerHoldsNewestAttempt'
  <2>1. CASE OwnsLock(w)
    BY <2>1 DEF IndInv, TypeOK, HeldWasClaimed, OwnerHoldsNewestAttempt, Busy,
       OwnsLock, Goto, Release, Retry, RetryStatement
  <2>2. CASE ~OwnsLock(w)
    BY <2>2 DEF IndInv, TypeOK, OwnerHoldsNewestAttempt, Busy, OwnsLock, Goto,
       Release, table, Retry, RetryStatement
  <2> QED  BY <2>1, <2>2
<1>7. LockedRowIsWorkedOn'
  <2>1. CASE OwnsLock(w)
    BY <2>1 DEF IndInv, TypeOK, LockedRowIsWorkedOn, Busy, Goto, Release, Retry,
       RetryStatement
  <2>2. CASE ~OwnsLock(w)
    BY <2>2 DEF IndInv, LockedRowIsWorkedOn, Busy, OwnsLock, Goto, Release,
       table, Retry, RetryStatement
  <2> QED  BY <2>1, <2>2
<1>8. CompletedMeansDelivered'
  <2>1. CASE OwnsLock(w)
    BY <2>1 DEF IndInv, TypeOK, CompletedMeansDelivered, OwnsLock, Retry,
       RetryStatement
  <2>2. CASE ~OwnsLock(w)
    BY <2>2 DEF IndInv, CompletedMeansDelivered, table, Retry, RetryStatement
  <2> QED  BY <2>1, <2>2
<1>9. FailedMeansExhausted'
  <2>1. CASE OwnsLock(w)
    BY <2>1 DEF IndInv, TypeOK, AttemptsBounded, OwnerHoldsNewestAttempt,
       FailedMeansExhausted, Busy, Retry, RetryStatement
  <2>2. CASE ~OwnsLock(w)
    BY <2>2 DEF IndInv, FailedMeansExhausted, table, Retry, RetryStatement
  <2> QED  BY <2>1, <2>2
<1>10. NotYetDelivered'
  BY DEF IndInv, NotYetDelivered, Retry, Goto, Release
<1>11. /\ AttemptsBounded'
      /\ DeliveredWasClaimed'
  BY DEF IndInv, AttemptsBounded, DeliveredWasClaimed, Retry, RetryStatement,
     table
<1> QED  BY <1>1, <1>2, <1>3, <1>4, <1>5, <1>6, <1>7, <1>8, <1>9, <1>10, <1>11
            DEF IndInv

\* The same statement, its outcome unknown to the worker, which stops.
LEMMA RetryThrowsKeeps ==
    ASSUME IndInv, NEW w \in Worker, RetryThrows(w)
    PROVE  IndInv'
<1>1. TypeOK'
  <2>1. held[w].job \in Job /\ held[w].attempt \in Nat
    BY DEF IndInv, HeldWasClaimed, Busy, RetryThrows
  <2>2. TableTypeOK'
    BY <2>1, RetryStatementType DEF IndInv, TypeOK, TableTypeOK, RetryThrows
  <2> QED  BY <2>2 DEF IndInv, TypeOK, TableTypeOK, Claims, NoClaim, Goto,
              Release, RetryThrows
<1>2. HeldWasClaimed'
  BY DEF IndInv, TypeOK, HeldWasClaimed, Busy, RetryThrows, RetryStatement,
     Goto, Release, table
<1>3. LockedIffRunning'
  BY DEF IndInv, TypeOK, LockedIffRunning, RetryThrows, RetryStatement, table
<1>4. ReturnedMeansDelivered'
  BY DEF IndInv, ReturnedMeansDelivered, RetryThrows, Goto, Release
<1>5. AttemptHasOneWorker'
  BY DEF IndInv, TypeOK, AttemptHasOneWorker, Busy, RetryThrows, Goto, Release
<1>6. OwnerHoldsNewestAttempt'
  <2>1. CASE OwnsLock(w) /\ RetryStatement(w)
    BY <2>1 DEF IndInv, TypeOK, HeldWasClaimed, OwnerHoldsNewestAttempt, Busy,
       OwnsLock, Goto, Release, RetryThrows, RetryStatement
  <2>2. CASE UNCHANGED table
    BY <2>2 DEF IndInv, TypeOK, OwnerHoldsNewestAttempt, Busy, OwnsLock, Goto,
       Release, table, RetryThrows
  <2> QED  BY <2>1, <2>2 DEF RetryThrows, RetryStatement
<1>7. LockedRowIsWorkedOn'
  <2>1. CASE OwnsLock(w) /\ RetryStatement(w)
    BY <2>1 DEF IndInv, TypeOK, LockedRowIsWorkedOn, Busy, Goto, Release,
       RetryThrows, RetryStatement
  <2>2. CASE UNCHANGED table
    BY <2>2 DEF IndInv, TypeOK, LockedRowIsWorkedOn, Busy, Goto, Release, table,
       RetryThrows
  <2> QED  BY <2>1, <2>2 DEF RetryThrows, RetryStatement
<1>8. CompletedMeansDelivered'
  <2>1. CASE OwnsLock(w) /\ RetryStatement(w)
    BY <2>1 DEF IndInv, TypeOK, CompletedMeansDelivered, OwnsLock, RetryThrows,
       RetryStatement
  <2>2. CASE UNCHANGED table
    BY <2>2 DEF IndInv, CompletedMeansDelivered, table, RetryThrows
  <2> QED  BY <2>1, <2>2 DEF RetryThrows, RetryStatement
<1>9. FailedMeansExhausted'
  <2>1. CASE OwnsLock(w) /\ RetryStatement(w)
    BY <2>1 DEF IndInv, TypeOK, AttemptsBounded, OwnerHoldsNewestAttempt,
       LockedRowIsWorkedOn, CompletedMeansDelivered, FailedMeansExhausted,
       OwnsLock, RetryThrows, RetryStatement
  <2>2. CASE UNCHANGED table
    BY <2>2 DEF IndInv, FailedMeansExhausted, table
  <2> QED  BY <2>1, <2>2 DEF RetryThrows, RetryStatement
<1>10. NotYetDelivered'
  BY DEF IndInv, NotYetDelivered, RetryThrows, Goto, Release
<1>11. /\ AttemptsBounded'
      /\ DeliveredWasClaimed'
  BY DEF IndInv, AttemptsBounded, DeliveredWasClaimed, RetryThrows,
     RetryStatement, table
<1> QED  BY <1>1, <1>2, <1>3, <1>4, <1>5, <1>6, <1>7, <1>8, <1>9, <1>10, <1>11
            DEF IndInv

\* A worker that stops leaves its row locked.
LEMMA CrashKeeps ==
    ASSUME IndInv, NEW w \in Worker, Crash(w)
    PROVE  IndInv'
<1>1. TypeOK'
  BY DEF IndInv, TypeOK, Claims, NoClaim, Crash, Goto, Release, table
<1>2. HeldWasClaimed'
  BY DEF IndInv, TypeOK, HeldWasClaimed, Busy, Crash, Goto, Release, table
<1>3. LockedRowIsWorkedOn'
  BY DEF IndInv, TypeOK, LockedRowIsWorkedOn, Busy, Crash, Goto, Release, table
<1>4. /\ AttemptsBounded'
      /\ LockedIffRunning'
      /\ ReturnedMeansDelivered'
      /\ DeliveredWasClaimed'
      /\ AttemptHasOneWorker'
      /\ OwnerHoldsNewestAttempt'
      /\ CompletedMeansDelivered'
      /\ FailedMeansExhausted'
      /\ NotYetDelivered'
  BY DEF IndInv, TypeOK, AttemptsBounded, LockedIffRunning,
     ReturnedMeansDelivered, DeliveredWasClaimed, AttemptHasOneWorker,
     OwnerHoldsNewestAttempt, CompletedMeansDelivered, FailedMeansExhausted,
     NotYetDelivered, Busy, OwnsLock, Crash, Goto, Release, table
<1> QED  BY <1>1, <1>2, <1>3, <1>4 DEF IndInv

-----------------------------------------------------------------------------
(* Theorems *)

\* No job has been enqueued and every worker polls.
LEMMA InitEstablishes == Init => IndInv
BY DEF Init, IndInv, TypeOK, Statuses, Claims, NoClaim, Busy, HeldWasClaimed,
   AttemptsBounded, LockedIffRunning, ReturnedMeansDelivered,
   DeliveredWasClaimed, AttemptHasOneWorker, OwnerHoldsNewestAttempt,
   LockedRowIsWorkedOn, CompletedMeansDelivered, FailedMeansExhausted,
   NotYetDelivered

\* One lemma above for each action of Next.
LEMMA NextKeeps == IndInv /\ [Next]_vars => IndInv'
<1> SUFFICES ASSUME IndInv, [Next]_vars PROVE IndInv'
  OBVIOUS
<1>1. CASE UNCHANGED vars
  BY <1>1 DEF vars, table, IndInv, TypeOK, Busy, OwnsLock, HeldWasClaimed,
     AttemptsBounded, LockedIffRunning, ReturnedMeansDelivered,
     DeliveredWasClaimed, AttemptHasOneWorker, OwnerHoldsNewestAttempt,
     LockedRowIsWorkedOn, CompletedMeansDelivered, FailedMeansExhausted,
     NotYetDelivered
<1>2. ASSUME NEW w \in Worker, WorkerStep(w) PROVE IndInv'
  BY <1>2, ClaimJobKeeps, ClaimNothingKeeps, ClaimThrowsKeeps,
     HandlerReturnsKeeps, HandlerThrowsKeeps, CompleteKeeps,
     CompleteThrowsKeeps, RetryKeeps, RetryThrowsKeeps, CrashKeeps DEF
     WorkerStep
<1> QED  BY <1>1, <1>2, EnqueueKeeps, TickKeeps DEF Next

\* The invariant of the queue, for every number of jobs and workers.
THEOREM QueueInvariant == Spec => []IndInv
<1> QED  BY InitEstablishes, NextKeeps, PTL DEF Spec

\* Every variable keeps its type.
THEOREM TypeCorrect == Spec => []TypeOK
<1>1. IndInv => TypeOK
  BY DEF IndInv
<1> QED  BY <1>1, QueueInvariant, PTL

\* An attempt has one worker, which alone can settle or reschedule its job and
\* works on it; it delivers once at most; a job is completed only after its
\* delivery and fails with no attempt left.
THEOREM AttemptsStaySound == Spec => []AttemptsAreSound
<1>1. IndInv => AttemptsAreSound
  BY DEF IndInv, AttemptsAreSound
<1> QED  BY <1>1, QueueInvariant, PTL

-----------------------------------------------------------------------------
(* The queue implements OutboxPromise *)

\* What a step of the queue may do to one e-mail job, in the columns.
Settling(j) ==
    \/ /\ status[j] = "absent" /\ status'[j] = "available"
       /\ attempts'[j] = attempts[j] /\ delivered'[j] = delivered[j]
    \/ /\ status[j] \in {"available", "running"} /\ status'[j] \in {"available", "running"}
       /\ attempts[j] < MaxAttempts[j] /\ attempts'[j] = attempts[j] + 1
       /\ delivered'[j] = delivered[j]
    \/ /\ status'[j] = status[j] /\ attempts'[j] = attempts[j]
       /\ \E a \in 1..attempts[j] : a \notin delivered[j] /\ delivered'[j] = delivered[j] \cup {a}
    \/ /\ status[j] = "running" /\ status'[j] = "completed" /\ delivered[j] # {}
       /\ attempts'[j] = attempts[j] /\ delivered'[j] = delivered[j]
    \/ /\ status[j] = "running" /\ status'[j] = "failed" /\ attempts[j] = MaxAttempts[j]
       /\ attempts'[j] = attempts[j] /\ delivered'[j] = delivered[j]
    \/ /\ status[j] = "running" /\ status'[j] = "available"
       /\ attempts'[j] = attempts[j] /\ delivered'[j] = delivered[j]
    \/ status'[j] = status[j] /\ attempts'[j] = attempts[j] /\ delivered'[j] = delivered[j]

\* A claim gives up jobs whose attempts are spent and tries the one it takes.
LEMMA ClaimSettles ==
    ASSUME IndInv, NEW w \in Worker, NEW taken \in SUBSET Candidates,
           ClaimStatement(w, taken), UNCHANGED delivered, NEW j \in Email
    PROVE  Settling(j)
<1>1. j \in Job
  OBVIOUS
<1>2. CASE j \in Exhausted
  <2>1. status[j] = "running" /\ attempts[j] = MaxAttempts[j] /\ j \notin taken
    BY <1>2, ExhaustedIsSpent DEF IndInv, Exhausted, LockExpired
  <2> QED  BY <1>1, <1>2, <2>1 DEF ClaimStatement, Settling
<1>3. CASE j \notin Exhausted /\ j \in taken
  BY <1>1, <1>3 DEF ClaimStatement, Settling, Candidates, LockExpired
<1>4. CASE j \notin Exhausted /\ j \notin taken
  BY <1>1, <1>4 DEF ClaimStatement, Settling
<1> QED  BY <1>2, <1>3, <1>4

\* An owner completes what it has delivered.
LEMMA CompleteSettles ==
    ASSUME IndInv, NEW w \in Worker, pc[w] = "returned",
           CompleteStatement(w) \/ UNCHANGED table, UNCHANGED delivered, NEW j \in Email
    PROVE  Settling(j)
<1>1. CASE UNCHANGED table
  BY <1>1 DEF table, Settling
<1>2. CASE OwnsLock(w) /\ CompleteStatement(w)
  <2>1. held[w].job = j => delivered[j] # {}
    BY DEF IndInv, ReturnedMeansDelivered
  <2> QED  BY <1>2, <2>1 DEF OwnsLock, CompleteStatement, Settling, IndInv, TypeOK
<1> QED  BY <1>1, <1>2 DEF CompleteStatement

\* An owner gives up with no attempt left, since it holds the newest one.
LEMMA RetrySettles ==
    ASSUME IndInv, NEW w \in Worker, pc[w] = "thrown",
           RetryStatement(w) \/ UNCHANGED table, UNCHANGED delivered, NEW j \in Email
    PROVE  Settling(j)
<1>1. CASE UNCHANGED table
  BY <1>1 DEF table, Settling
<1>2. CASE OwnsLock(w) /\ RetryStatement(w)
  <2>1. CASE held[w].job # j
    BY <1>2, <2>1 DEF RetryStatement, Settling, IndInv, TypeOK
  <2>2. CASE held[w].job = j
    <3>1. held[w].attempt = attempts[j] /\ attempts[j] <= MaxAttempts[j] /\ status[j] = "running"
      BY <1>2, <2>2 DEF IndInv, OwnerHoldsNewestAttempt, AttemptsBounded, Busy, OwnsLock
    <3>2. attempts'[j] = attempts[j] /\ attempts[j] \in Nat /\ MaxAttempts[j] \in Nat
      BY <1>2 DEF RetryStatement, IndInv, TypeOK
    <3>3. status'[j] = IF attempts[j] >= MaxAttempts[j] THEN "failed" ELSE "available"
      BY <1>2, <2>2, <3>1 DEF RetryStatement, IndInv, TypeOK
    <3> QED  BY <3>1, <3>2, <3>3 DEF Settling
  <2> QED  BY <2>1, <2>2
<1> QED  BY <1>1, <1>2 DEF RetryStatement

\* A handler delivers an attempt nobody has delivered.
LEMMA DeliverSettles ==
    ASSUME IndInv, NEW w \in Worker, pc[w] = "handling",
           Deliver(w) \/ UNCHANGED delivered, UNCHANGED table, NEW j \in Email
    PROVE  Settling(j)
<1>1. CASE UNCHANGED delivered \/ held[w].job # j
  BY <1>1 DEF Deliver, table, Settling, IndInv, TypeOK
<1>2. CASE Deliver(w) /\ held[w].job = j
  <2>1. held[w].attempt \in 1..attempts[j] /\ held[w].attempt \notin delivered[j]
    BY <1>2 DEF IndInv, HeldWasClaimed, NotYetDelivered, Busy
  <2>2. delivered'[j] = delivered[j] \cup {held[w].attempt}
    BY <1>2 DEF Deliver, IndInv, TypeOK
  <2> QED  BY <2>1, <2>2 DEF table, Settling
<1> QED  BY <1>1, <1>2

\* The statements above are all that touches a job.
LEMMA EveryStepSettles ==
    ASSUME IndInv, [Next]_vars, NEW j \in Email PROVE Settling(j)
<1>1. CASE UNCHANGED vars
  BY <1>1 DEF vars, table, Settling
<1>2. ASSUME NEW k \in Job, Enqueue(k) PROVE Settling(j)
  BY <1>2 DEF Enqueue, Settling, IndInv, TypeOK
<1>3. CASE Tick
  BY <1>3 DEF Tick, Settling
<1>4. ASSUME NEW w \in Worker, WorkerStep(w) PROVE Settling(j)
  <2>1. CASE ClaimJob(w) \/ ClaimNothing(w)
    BY <2>1, ClaimSettles DEF ClaimJob, ClaimNothing, Oldest
  <2>2. CASE ClaimThrows(w)
    <3>1. CASE UNCHANGED table
      BY <2>2, <3>1 DEF ClaimThrows, table, Settling
    <3> QED  BY <2>2, <3>1, ClaimSettles DEF ClaimThrows, Oldest
  <2>3. CASE HandlerReturns(w) \/ HandlerThrows(w)
    BY <2>3, DeliverSettles DEF HandlerReturns, HandlerThrows
  <2>4. CASE Complete(w) \/ CompleteThrows(w)
    BY <2>4, CompleteSettles DEF Complete, CompleteThrows
  <2>5. CASE Retry(w) \/ RetryThrows(w)
    BY <2>5, RetrySettles DEF Retry, RetryThrows
  <2>6. CASE Crash(w)
    BY <2>6 DEF Crash, table, Settling
  <2> QED  BY <1>4, <2>1, <2>2, <2>3, <2>4, <2>5, <2>6 DEF WorkerStep
<1> QED  BY <1>1, <1>2, <1>3, <1>4 DEF Next

\* Read through the mapping, that is a step of the promise or none.
LEMMA SettlingIsPromised ==
    ASSUME IndInv, IndInv', NEW j \in Email, Settling(j)
    PROVE  Promise!JobStep(j) \/ Promise!Rest(j)
<1> DEFINE seen(s) == IF s \in {"available", "running"} THEN "pending" ELSE s
<1>1. outcomeOf[j] = seen(status[j]) /\ outcomeOf'[j] = seen(status'[j])
  BY DEF outcomeOf
<1>2. [k \in Email |-> attempts[k]][j] = attempts[j]
      /\ [k \in Email |-> attempts[k]]'[j] = attempts'[j]
  OBVIOUS
<1>3. [k \in Email |-> delivered[k]][j] = delivered[j]
      /\ [k \in Email |-> delivered[k]]'[j] = delivered'[j]
  OBVIOUS
<1> QED  BY <1>1, <1>2, <1>3 DEF Settling, Promise!JobStep, Promise!Rest, Promise!Accept,
            Promise!Try, Promise!TakeEffect, Promise!Complete, Promise!GiveUp

\* Every behaviour of the queue keeps the promise made to who enqueues.
THEOREM QueueKeepsPromise == Spec => ImplementsPromise
<1>1. Init => Promise!Init
  BY DEF Init, Promise!Init, outcomeOf
<1>2. IndInv /\ IndInv' /\ [Next]_vars => [Promise!Next]_(Promise!vars)
  <2> SUFFICES ASSUME IndInv, IndInv', [Next]_vars PROVE Promise!Next
    OBVIOUS
  <2>1. \A j \in Email : Promise!JobStep(j) \/ Promise!Rest(j)
    BY EveryStepSettles, SettlingIsPromised
  <2>2. outcomeOf' \in [Email -> {"absent", "pending", "completed", "failed"}]
    BY DEF outcomeOf, IndInv, TypeOK, Statuses
  <2>3. [j \in Email |-> attempts[j]]' \in [Email -> Nat]
    BY DEF IndInv, TypeOK
  <2>4. [j \in Email |-> delivered[j]]' \in [Email -> SUBSET Nat]
    BY DEF IndInv, TypeOK
  <2> QED  BY <2>1, <2>2, <2>3, <2>4 DEF Promise!Next
<1> QED  BY <1>1, <1>2, QueueInvariant, PTL DEF Spec, ImplementsPromise, Promise!Spec

-----------------------------------------------------------------------------
(* No job is stranded *)

\* A row that waits has attempts left and is due soon, and one not yet there
\* has never been tried: claim looks at attempts, and fails running rows only.
Claimable(j) ==
    /\ status[j] = "absent" => attempts[j] = 0 /\ availableIn[j] = 0
    /\ status[j] = "available" => attempts[j] < MaxAttempts[j] /\ availableIn[j] <= MaxDelay

StrandInv == \A j \in Job : Claimable(j)

\* A job that is not settled: it waits with attempts left and is due within
\* MaxDelay ticks; or the live worker that owns its lock is working on its newest
\* attempt; or its lock, within LockTimeout ticks, makes it a candidate of the
\* next claim, or a row that the claim fails.
Reachable(j) ==
    \/ /\ status[j] = "available"
       /\ attempts[j] < MaxAttempts[j]
       /\ availableIn[j] <= MaxDelay
       /\ availableIn[j] <= 0 => j \in Candidates
    \/ /\ status[j] = "running"
       /\ \E w \in Worker : /\ Busy(w)
                            /\ OwnsLock(w)
                            /\ held[w] = [job |-> j, attempt |-> attempts[j]]
    \/ /\ status[j] = "running"
       /\ lockedBy[j] \in Worker
       /\ pc[lockedBy[j]] = "down"
       /\ lockAge[j] >= LockTimeout => j \in Candidates \cup Exhausted

\* No job waits longer than MaxDelay for its next attempt.
LEMMA BackoffBound == \A a \in Nat : Backoff(a) <= MaxDelay
BY DEF Backoff

\* A claim makes no row wait.
LEMMA ClaimStrands ==
    ASSUME IndInv, StrandInv, NEW w \in Worker, NEW taken \in SUBSET Candidates,
           ClaimStatement(w, taken)
    PROVE  StrandInv'
<1>1. ASSUME NEW j \in Job, j \in taken PROVE Claimable(j)'
  BY <1>1 DEF ClaimStatement, Claimable
<1>2. ASSUME NEW j \in Job, j \notin taken PROVE Claimable(j)'
  BY <1>2 DEF ClaimStatement, Claimable, StrandInv
<1> QED  BY <1>1, <1>2 DEF StrandInv

\* An owner that reschedules its job holds the newest attempt, so it knows
\* whether any is left.
LEMMA RetryStrands ==
    ASSUME IndInv, StrandInv, NEW w \in Worker, pc[w] = "thrown",
           RetryStatement(w) \/ UNCHANGED table
    PROVE  StrandInv'
<1>1. CASE UNCHANGED table
  BY <1>1 DEF table, StrandInv, Claimable
<1>2. CASE OwnsLock(w) /\ RetryStatement(w)
  <2>1. PICK k \in Job : k = held[w].job
    BY DEF IndInv, HeldWasClaimed, Busy
  <2>2. /\ held[w].attempt = attempts[k]
        /\ Backoff(attempts[k]) \in Int /\ Backoff(attempts[k]) <= MaxDelay
    BY <1>2, <2>1, BackoffType, BackoffBound DEF IndInv, OwnerHoldsNewestAttempt, Busy, TypeOK
  <2>3. ASSUME NEW j \in Job, j # k PROVE Claimable(j)'
    BY <1>2, <2>1, <2>3 DEF RetryStatement, IndInv, TypeOK, StrandInv, Claimable
  <2>4. Claimable(k)'
    <3>1. status'[k] = IF attempts[k] >= MaxAttempts[k] THEN "failed" ELSE "available"
      BY <1>2, <2>1, <2>2 DEF RetryStatement, IndInv, TypeOK
    <3>2. availableIn'[k] = Backoff(attempts[k]) /\ attempts'[k] = attempts[k]
      BY <1>2, <2>1, <2>2 DEF RetryStatement, IndInv, TypeOK
    <3>3. attempts[k] \in Nat /\ MaxAttempts[k] \in Nat
      BY DEF IndInv, TypeOK
    <3> QED  BY <2>2, <3>1, <3>2, <3>3 DEF Claimable
  <2> QED  BY <2>3, <2>4 DEF StrandInv
<1> QED  BY <1>1, <1>2 DEF RetryStatement

\* Only a retry makes a tried row wait again.
LEMMA StrandNextKeeps == IndInv /\ StrandInv /\ [Next]_vars => StrandInv'
<1> SUFFICES ASSUME IndInv, StrandInv, [Next]_vars PROVE StrandInv'
  OBVIOUS
<1>1. ASSUME UNCHANGED table PROVE StrandInv'
  BY <1>1 DEF table, StrandInv, Claimable
<1>2. ASSUME NEW k \in Job, Enqueue(k) PROVE StrandInv'
  <2>1. ASSUME NEW j \in Job PROVE Claimable(j)'
    BY <1>2, <2>1 DEF Enqueue, IndInv, TypeOK, StrandInv, Claimable
  <2> QED  BY <2>1 DEF StrandInv
<1>3. CASE Tick
  <2>1. ASSUME NEW j \in Job PROVE Claimable(j)'
    <3>1. /\ status'[j] = status[j] /\ attempts'[j] = attempts[j]
          /\ availableIn'[j] = IF status[j] \in {"available", "running"} /\ availableIn[j] > -Horizon
                               THEN availableIn[j] - 1 ELSE availableIn[j]
      BY <1>3 DEF Tick
    <3>2. availableIn[j] \in Int /\ Claimable(j)
      BY DEF IndInv, TypeOK, StrandInv
    <3> QED  BY <3>1, <3>2 DEF Claimable
  <2> QED  BY <2>1 DEF StrandInv
<1>4. ASSUME NEW w \in Worker, CompleteStatement(w) PROVE StrandInv'
  <2>1. CASE OwnsLock(w)
    <3>1. ASSUME NEW j \in Job PROVE Claimable(j)'
      BY <1>4, <2>1, <3>1 DEF CompleteStatement, OwnsLock, IndInv, TypeOK, StrandInv, Claimable
    <3> QED  BY <3>1 DEF StrandInv
  <2> QED  BY <1>1, <1>4, <2>1 DEF CompleteStatement
<1>5. ASSUME NEW w \in Worker, WorkerStep(w) PROVE StrandInv'
  <2>1. CASE ClaimJob(w) \/ ClaimNothing(w)
    BY <2>1, ClaimStrands DEF ClaimJob, ClaimNothing, Oldest
  <2>2. CASE ClaimThrows(w)
    BY <1>1, <2>2, ClaimStrands DEF ClaimThrows, Oldest
  <2>3. CASE HandlerReturns(w) \/ HandlerThrows(w) \/ Crash(w)
    BY <1>1, <2>3 DEF HandlerReturns, HandlerThrows, Crash
  <2>4. CASE Complete(w) \/ CompleteThrows(w)
    BY <1>1, <1>4, <2>4 DEF Complete, CompleteThrows
  <2>5. CASE Retry(w) \/ RetryThrows(w)
    BY <2>5, RetryStrands DEF Retry, RetryThrows
  <2> QED  BY <1>5, <2>1, <2>2, <2>3, <2>4, <2>5 DEF WorkerStep
<1> QED  BY <1>1, <1>2, <1>3, <1>5 DEF Next, vars

\* Every job that is not settled can still be reached by a claim or is worked on
\* by the owner of its lock: a retry leaves no row that claim skips for ever and
\* no statement fails.  This is the part of EveryJobSettles that is not about
\* fairness.
THEOREM NoJobIsStranded ==
    Spec => [](\A j \in Job : status[j] \in {"available", "running"} => Reachable(j))
<1>1. Init => StrandInv
  BY DEF Init, StrandInv, Claimable
<1>2. ASSUME IndInv, StrandInv, NEW j \in Job, status[j] = "available" PROVE Reachable(j)
  BY <1>2 DEF StrandInv, Claimable, Reachable, Candidates
<1>3. ASSUME IndInv, NEW j \in Job, status[j] = "running" PROVE Reachable(j)
  <2>1. lockedBy[j] \in Worker
    BY <1>3 DEF IndInv, LockedIffRunning, TypeOK
  <2>2. CASE pc[lockedBy[j]] = "down"
    <3>1. lockAge[j] >= LockTimeout => j \in Candidates \cup Exhausted
      BY <1>3 DEF IndInv, TypeOK, Candidates, Exhausted, LockExpired
    <3> QED  BY <1>3, <2>1, <2>2, <3>1 DEF Reachable
  <2>3. CASE pc[lockedBy[j]] # "down"
    <3> DEFINE w == lockedBy[j]
    <3>1. Busy(w) /\ held[w].job = j
      BY <1>3, <2>1, <2>3 DEF IndInv, LockedRowIsWorkedOn
    <3>2. OwnsLock(w)
      BY <1>3, <3>1 DEF OwnsLock
    <3>3. held[w].attempt = attempts[j] /\ held[w] \in Claims
      BY <1>3, <2>1, <3>1, <3>2 DEF IndInv, OwnerHoldsNewestAttempt, TypeOK
    <3>4. held[w] = [job |-> j, attempt |-> attempts[j]]
      BY <3>1, <3>3 DEF Claims
    <3> QED  BY <1>3, <2>1, <3>1, <3>2, <3>4 DEF Reachable
  <2> QED  BY <2>2, <2>3
<1>4. IndInv /\ StrandInv =>
          \A j \in Job : status[j] \in {"available", "running"} => Reachable(j)
  BY <1>2, <1>3
<1> QED  BY <1>1, <1>4, InitEstablishes, NextKeeps, StrandNextKeeps, PTL DEF Spec
=============================================================================
