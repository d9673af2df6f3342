---------------------------- MODULE ScheduledJobs ----------------------------
(***************************************************************************)
(* Scheduled outbound calls: the job table of scheduling/store.py, the     *)
(* poll loop of scheduling/service.py that executes due jobs, and          *)
(* cancellation over the API.                                              *)
(*                                                                         *)
(* Every access to the store is awaited in an executor, so an action is    *)
(* the code between two awaits.  update_status reads the row and writes it *)
(* back in one executor call and is one action; the threads of the         *)
(* executor can interleave in it, which leaves the status that one of the  *)
(* orders gives, and at most a retry count that is too small in a          *)
(* cancelled row, which nothing reads.  Abstracted: what a job says but    *)
(* its status and retry count, and the clock: a job's time has come or     *)
(* not.  The time in the scheduled_at column, which list_due compares, and *)
(* the time in the job's data are kept apart.                              *)
(*                                                                         *)
(* A job is placed by a request in Kafka or by a worker that is spawned.   *)
(* The answer to a send that arrived can be lost: the job is then placed   *)
(* again, by the fallback or by the next attempt.                          *)
(***************************************************************************)
EXTENDS Naturals, FiniteSets

CONSTANTS
  Jobs,
  MaxRetries,   \* max_retries of each job
  Width,        \* jobs executed at once: the semaphore
  SipRetries,   \* SIP_RETRY_MAX: rounds of the fallback
  MaxRestarts,  \* bound on restarts of the process
  Faults        \* which may raise: a "send" that arrived, a "spawn", a
                \* write to the "store"

ASSUME JobsAssumption ==
  /\ IsFiniteSet(Jobs)
  /\ MaxRetries \in [Jobs -> Nat]
  /\ Width \in Nat \ {0} /\ SipRetries \in Nat \ {0} /\ MaxRestarts \in Nat
  /\ Faults \subseteq {"send", "spawn", "store"}

VARIABLES
  status,      \* the status of each row; "none" before it exists
  retries,     \* retry_count of each row
  due,         \* rows whose scheduled_at column has passed
  waiting,     \* rows whose data has a scheduled_at that has not passed
  batch,       \* jobs list_due returned that are not finished; none: asleep
  step,        \* where _execute_job is for each job of the batch
  held,        \* retry_count of the job object _execute_job works on
  rounds,      \* rounds of the fallback that raised
  cancelling,  \* jobs cancel() found pending and will update
  attempts,    \* history: dispatches tried
  placed,      \* history: requests that reached Kafka and workers spawned
  lost,        \* history: placements whose confirmation was lost, on the way
               \* back from Kafka or to the store
  cancelled,   \* history: jobs for which cancel() returned True
  unstored,    \* history: jobs for which a write of _execute_job failed
  restarts     \* history: restarts so far

table   == <<status, retries, due, waiting>>
loop    == <<batch, step, held, rounds>>
history == <<attempts, placed, lost, cancelled, unstored, restarts>>
vars == <<table, loop, cancelling, history>>

Statuses == {"none", "pending", "running", "completed", "failed", "cancelled"}
Steps ==
  {"none", "dispatching", "submitting", "spawning", "completing", "failing"}

Init ==
  /\ status = [j \in Jobs |-> "none"]
  /\ retries = [j \in Jobs |-> 0]
  /\ due = {} /\ waiting = {}
  /\ batch = {}
  /\ step = [j \in Jobs |-> "none"]
  /\ held = [j \in Jobs |-> 0]
  /\ rounds = [j \in Jobs |-> 0]
  /\ cancelling = {}
  /\ attempts = [j \in Jobs |-> 0]
  /\ placed = [j \in Jobs |-> 0]
  /\ lost = [j \in Jobs |-> 0]
  /\ cancelled = {} /\ unstored = {} /\ restarts = 0

-----------------------------------------------------------------------------
(* API *)

\* A job in the future is stored.
Schedule(j) ==
  /\ status[j] = "none"
  /\ status' = [status EXCEPT ![j] = "pending"]
  /\ waiting' = waiting \cup {j}
  /\ UNCHANGED <<retries, due, loop, cancelling, history>>

\* cancel() reads the job, and in another executor call sets its status.
CancelRead(j) ==
  /\ status[j] = "pending"
  /\ cancelling' = cancelling \cup {j}
  /\ UNCHANGED <<table, loop, history>>

CancelWrite(j) ==
  /\ j \in cancelling
  /\ cancelling' = cancelling \ {j}
  /\ status' = [status EXCEPT ![j] = "cancelled"]
  /\ cancelled' = cancelled \cup {j}
  /\ UNCHANGED <<retries, due, waiting, loop, attempts, placed, lost, unstored,
                 restarts>>

-----------------------------------------------------------------------------
(* Poll loop *)

\* The first time both clocks of a job pass together.
TimeComes(j) ==
  /\ j \in waiting
  /\ waiting' = waiting \ {j}
  /\ due' = due \cup {j}
  /\ UNCHANGED <<status, retries, loop, cancelling, history>>

\* Mutant: jobs in every status.
DueInAnyStatus == {j \in Jobs : status[j] # "none" /\ j \in due}

\* list_due compares the column, not the time in the data.
Due == {j \in Jobs : status[j] = "pending" /\ j \in due}

\* _check_due_jobs, often with nothing due; the next poll waits until the
\* batch is done.
Poll ==
  /\ batch = {}
  /\ batch' = Due
  /\ held' = [j \in Jobs |-> IF j \in Due THEN retries[j] ELSE held[j]]
  /\ UNCHANGED <<table, step, rounds, cancelling, history>>

Executing == {j \in batch : step[j] # "none"}

Goto(j, s) == step' = [step EXCEPT ![j] = s]

\* The job object is gone.
Leave(j) ==
  /\ batch' = batch \ {j} /\ Goto(j, "none")
  /\ held' = [held EXCEPT ![j] = 0] /\ rounds' = [rounds EXCEPT ![j] = 0]

\* The status is not looked at again.
MarkRunning(j) ==
  /\ j \in batch /\ step[j] = "none" /\ Cardinality(Executing) < Width
  /\ status' = [status EXCEPT ![j] = "running"]
  /\ Goto(j, "dispatching")
  /\ UNCHANGED <<retries, due, waiting, batch, held, rounds, cancelling, history>>

\* Raised outside the try: gather swallows it, and the job stays pending.
MarkRunningFails(j) ==
  /\ "store" \in Faults
  /\ j \in batch /\ step[j] = "none" /\ Cardinality(Executing) < Width
  /\ Leave(j)
  /\ unstored' = unstored \cup {j}
  /\ UNCHANGED <<table, cancelling, attempts, placed, lost,
                 cancelled, restarts>>

\* submit_call_request returns 0, or a worker is spawned.
Confirmed(j) == placed' = [placed EXCEPT ![j] = @ + 1] /\ UNCHANGED lost

\* It returns None: there is no Kafka, the send failed, or it raised although
\* the request arrived.
Unconfirmed(j) ==
  \/ UNCHANGED <<placed, lost>>
  \/ /\ "send" \in Faults
     /\ placed' = [placed EXCEPT ![j] = @ + 1]
     /\ lost' = [lost EXCEPT ![j] = @ + 1]

\* _dispatch_call.
Dispatch(j) ==
  /\ step[j] = "dispatching"
  /\ attempts' = [attempts EXCEPT ![j] = @ + 1]
  /\ \/ Confirmed(j) /\ Goto(j, "completing")
     \/ Unconfirmed(j) /\ Goto(j, "submitting")
  /\ UNCHANGED <<table, batch, held, rounds, cancelling, cancelled, unstored,
                 restarts>>

\* _publish_sip_call_request, the fallback, submits the job once more.
SubmitAgain(j) ==
  /\ step[j] = "submitting"
  /\ \/ Confirmed(j) /\ Goto(j, "completing")
     \/ Unconfirmed(j) /\ Goto(j, "spawning")
  /\ UNCHANGED <<table, batch, held, rounds, cancelling, attempts, cancelled,
                 unstored, restarts>>

Spawn(j) ==
  /\ step[j] = "spawning"
  /\ Confirmed(j)
  /\ Goto(j, "completing")
  /\ UNCHANGED <<table, batch, held, rounds, cancelling, attempts, cancelled,
                 unstored, restarts>>

\* ai_worker cannot be imported: another round, at last a spawn alone, and
\* then the RuntimeError of _sip_outbound_fallback.
SpawnFails(j) ==
  /\ "spawn" \in Faults
  /\ step[j] = "spawning"
  /\ \/ /\ rounds[j] < SipRetries
        /\ rounds' = [rounds EXCEPT ![j] = @ + 1]
        /\ Goto(j, IF rounds[j] + 1 < SipRetries THEN "submitting" ELSE "spawning")
     \/ rounds[j] = SipRetries /\ Goto(j, "failing") /\ UNCHANGED rounds
  /\ UNCHANGED <<table, batch, held, cancelling, history>>

MarkCompleted(j) ==
  /\ step[j] = "completing"
  /\ status' = [status EXCEPT ![j] = "completed"]
  /\ Leave(j)
  /\ UNCHANGED <<retries, due, waiting, cancelling, history>>

\* Raised inside the try: the except clause takes it for a failed dispatch.
MarkCompletedFails(j) ==
  /\ "store" \in Faults
  /\ step[j] = "completing"
  /\ Goto(j, "failing")
  /\ unstored' = unstored \cup {j}
  /\ lost' = [lost EXCEPT ![j] = @ + 1]
  /\ UNCHANGED <<table, batch, held, rounds, cancelling, attempts, placed,
                 cancelled, restarts>>

\* Mutant: off by one.
ExhaustedEarly(j) == held[j] + 2 >= MaxRetries[j]

Exhausted(j) == held[j] + 1 >= MaxRetries[j]

\* Mutant: gives up without a word.
GiveUpSilently(j) ==
  /\ step[j] = "failing" /\ Exhausted(j)
  /\ Leave(j)
  /\ UNCHANGED <<table, cancelling, history>>

MarkFailed(j) ==
  /\ step[j] = "failing" /\ Exhausted(j)
  /\ status' = [status EXCEPT ![j] = "failed"]
  /\ Leave(j)
  /\ UNCHANGED <<retries, due, waiting, cancelling, history>>

\* The upsert leaves the scheduled_at column of the row as it is.
Reschedule(j) ==
  /\ step[j] = "failing" /\ ~Exhausted(j)
  /\ status' = [status EXCEPT ![j] = "pending"]
  /\ retries' = [retries EXCEPT ![j] = held[j] + 1]
  /\ waiting' = waiting \cup {j}
  /\ Leave(j)
  /\ UNCHANGED <<due, cancelling, history>>

\* Raised in the except clause: gather swallows it, the job stays running.
SettleFails(j) ==
  /\ "store" \in Faults
  /\ step[j] = "failing"
  /\ Leave(j)
  /\ unstored' = unstored \cup {j}
  /\ UNCHANGED <<table, cancelling, attempts, placed, lost,
                 cancelled, restarts>>

\* Mutant: jobs found running at the start are pending again.
RestartRequeues ==
  /\ restarts < MaxRestarts
  /\ restarts' = restarts + 1
  /\ batch' = {} /\ cancelling' = {}
  /\ step' = [j \in Jobs |-> "none"]
  /\ held' = [j \in Jobs |-> 0] /\ rounds' = [j \in Jobs |-> 0]
  /\ status' = [j \in Jobs |-> IF status[j] = "running" THEN "pending" ELSE status[j]]
  /\ UNCHANGED <<retries, due, waiting, attempts, placed, lost,
                 cancelled, unstored>>

\* The process stops or dies at any await, and starts again: the rows stay as
\* they are.
Restart ==
  /\ restarts < MaxRestarts
  /\ restarts' = restarts + 1
  /\ batch' = {} /\ cancelling' = {}
  /\ step' = [j \in Jobs |-> "none"]
  /\ held' = [j \in Jobs |-> 0] /\ rounds' = [j \in Jobs |-> 0]
  /\ UNCHANGED <<table, attempts, placed, lost, cancelled,
                 unstored>>

Execute(j) ==
  \/ MarkRunning(j) \/ MarkRunningFails(j)
  \/ Dispatch(j) \/ SubmitAgain(j) \/ Spawn(j) \/ SpawnFails(j)
  \/ MarkCompleted(j) \/ MarkCompletedFails(j)
  \/ MarkFailed(j) \/ Reschedule(j) \/ SettleFails(j)

Next ==
  \/ \E j \in Jobs :
       \/ Schedule(j) \/ CancelRead(j) \/ CancelWrite(j)
       \/ TimeComes(j)
       \/ Execute(j)
  \/ Poll
  \/ Restart

Spec == Init /\ [][Next]_vars

\* Time passes, the loop goes on, a request is served.
FairSpec ==
  /\ Spec
  /\ WF_vars(Poll)
  /\ \A j \in Jobs :
       WF_vars(TimeComes(j)) /\ WF_vars(CancelWrite(j)) /\ WF_vars(Execute(j))

-----------------------------------------------------------------------------
(* Properties *)

\* Every variable holds values of its kind.
TypeOK ==
  /\ status \in [Jobs -> Statuses]
  /\ retries \in [Jobs -> Nat]
  /\ due \subseteq Jobs /\ waiting \subseteq Jobs
  /\ batch \subseteq Jobs
  /\ step \in [Jobs -> Steps]
  /\ held \in [Jobs -> Nat]
  /\ cancelling \subseteq Jobs
  /\ rounds \in [Jobs -> 0..SipRetries]
  /\ attempts \in [Jobs -> Nat]
  /\ placed \in [Jobs -> Nat] /\ lost \in [Jobs -> Nat]
  /\ cancelled \subseteq Jobs /\ unstored \subseteq Jobs
  /\ restarts \in Nat

\* There is always a first attempt.
Limit(j) == IF MaxRetries[j] = 0 THEN 1 ELSE MaxRetries[j]

\* max_retries bounds the attempts at a job, whatever is cancelled, restarted
\* or fails to be stored in between, and a failed job had all of them.
RetriesExact ==
  \A j \in Jobs :
    /\ attempts[j] <= Limit(j)
    /\ status[j] = "failed" => attempts[j] = Limit(j)

\* A job that is completed or failed is neither queued nor dialled again,
\* whatever the batch holds; only a cancellation that is late overwrites it.
SettledIsNotDialled ==
  [][\A j \in Jobs :
       status[j] \in {"completed", "failed"} =>
         /\ attempts'[j] = attempts[j]
         /\ status'[j] \in {status[j], "cancelled"}]_vars

\* A job is placed once more only for a placement whose confirmation was lost:
\* a completed job was placed once besides those, a failed one never, over
\* retries, fallbacks, late cancellations and restarts.
PlacementsAccounted ==
  \A j \in Jobs :
    /\ placed[j] <= lost[j] + 1
    /\ status[j] = "completed" => placed[j] = lost[j] + 1
    /\ status[j] = "failed" => placed[j] = lost[j]

\* A job that waits is settled, however often its dispatch fails and whatever
\* happens to the jobs due with it, unless its own row could not be written or
\* the process was restarted.
DueIsSettled ==
  \A j \in Jobs :
    status[j] = "pending" ~>
      \/ status[j] \in {"completed", "failed", "cancelled"}
      \/ j \in unstored \/ restarts > 0

-----------------------------------------------------------------------------
(* What the docs and comments of the repository say; the code does not do  *)
(* it, and the README gives an instance on which TLC shows each violated.  *)

\* service.py, "Cancel a pending job": a job for which cancel() returned True
\* is not dialled.
CancelledIsNotDialled ==
  [][\A j \in cancelled : attempts'[j] = attempts[j]]_vars

\* service.py, "Reschedule with backoff": no attempt before the job's time.
BackoffIsKept ==
  [][\A j \in Jobs :
       status[j] = "pending" /\ status'[j] = "running" => j \notin waiting]_vars

\* producer.py, "Returns None when Kafka is unavailable": a request that was
\* not submitted is not in Kafka, so a job whose rows were all written is
\* placed once.
PlacedOnce == \A j \in Jobs : j \notin unstored => placed[j] <= 1

\* models.py, "Stored in SQLite and loaded on startup to survive process
\* restarts": a job a restart interrupted goes on.
InterruptedGoesOn ==
  \A j \in Jobs :
    status[j] = "running" ~> status[j] \in {"completed", "failed", "cancelled"}
=============================================================================
