------------------------ MODULE ScheduledJobsProofs ------------------------
(***************************************************************************)
(* Proofs about ScheduledJobs for any set of jobs, any max_retries, any    *)
(* width and any faults.  The state of a job decides how many attempts it  *)
(* has behind it: as many as its row says while it is pending, as many as  *)
(* the job object says while it is worked on, one more once dispatched;    *)
(* and how its placements and the lost confirmations compare.              *)
(***************************************************************************)
EXTENDS ScheduledJobs, TLAPS

\* A job nobody has begun, in the table or in the batch: its attempts are
\* counted, one more is allowed, and no placement is confirmed.
Fresh(j) ==
  /\ attempts[j] = retries[j]
  /\ attempts[j] + 1 <= Limit(j)
  /\ placed[j] = lost[j]

\* A job in the table only.
Resting(j) ==
  /\ status[j] = "none" => attempts[j] = 0 /\ retries[j] = 0
  /\ status[j] \in {"none", "pending"} => Fresh(j)
  /\ attempts[j] <= Limit(j)
  /\ placed[j] <= lost[j] + 1
  /\ status[j] = "completed" => placed[j] = lost[j] + 1
  /\ status[j] = "failed" => attempts[j] = Limit(j) /\ placed[j] = lost[j]

\* A job of the batch the semaphore has not let in.
Queued(j) ==
  /\ status[j] \in {"pending", "cancelled"}
  /\ Fresh(j) /\ held[j] = retries[j]

\* A job _execute_job works on.
Worked(j) ==
  /\ status[j] \in {"running", "cancelled"}
  /\ step[j] = "dispatching" =>
       Fresh(j) /\ held[j] = retries[j]
  /\ step[j] # "dispatching" =>
       attempts[j] = held[j] + 1 /\ attempts[j] <= Limit(j)
  /\ placed[j] = IF step[j] = "completing" THEN lost[j] + 1 ELSE lost[j]

JobInv(j) ==
  /\ j \notin batch => step[j] = "none" /\ Resting(j)
  /\ j \in batch /\ step[j] = "none" => Queued(j)
  /\ step[j] # "none" => Worked(j)

IInv == TypeOK /\ \A j \in Jobs : JobInv(j)

-----------------------------------------------------------------------------

\* The invariant of a job is about that job's part of the state.
LEMMA Frame ==
  ASSUME NEW k \in Jobs, JobInv(k),
         status'[k] = status[k], retries'[k] = retries[k],
         step'[k] = step[k], held'[k] = held[k],
         attempts'[k] = attempts[k], placed'[k] = placed[k], lost'[k] = lost[k],
         k \in batch' <=> k \in batch
  PROVE  JobInv(k)'
  BY DEF JobInv, Resting, Queued, Worked, Fresh, Limit

\* No job has been tried yet.
LEMMA InitInv == Init => IInv
  BY JobsAssumption
  DEF Init, IInv, TypeOK, Statuses, Steps, JobInv, Resting, Queued, Worked, Fresh, Limit

\* Every action keeps the books of every job.
LEMMA StepInv == IInv /\ [Next]_vars => IInv'
<1> SUFFICES ASSUME IInv, [Next]_vars PROVE IInv'
  OBVIOUS
<1> USE DEF IInv
<1>1. ASSUME NEW j \in Jobs, \/ Schedule(j) \/ CancelRead(j) \/ CancelWrite(j)
                             \/ TimeComes(j) \/ Execute(j)
      PROVE  IInv'
  <2>0. JobInv(j) /\ TypeOK
    OBVIOUS

  <2>1. CASE Schedule(j)
    <3>1. TypeOK'
      BY <2>1, JobsAssumption DEF TypeOK, Schedule, table, loop, history, Statuses, Steps
    <3>2. JobInv(j)'
      BY <2>1, JobsAssumption, <2>0
         DEF TypeOK, Schedule, table, loop, history, Statuses, Steps,
             JobInv, Resting, Queued, Worked, Fresh, Limit
    <3>3. ASSUME NEW k \in Jobs, k # j PROVE JobInv(k)'
      BY <2>1, <3>3, Frame DEF TypeOK, Schedule, table, loop, history
    <3> QED
      BY <3>1, <3>2, <3>3 DEF IInv

  <2>2. CASE CancelRead(j)
    <3>1. TypeOK'
      BY <2>2, JobsAssumption DEF TypeOK, CancelRead, table, loop, history, Statuses, Steps
    <3>2. JobInv(j)'
      BY <2>2, JobsAssumption, <2>0
         DEF TypeOK, CancelRead, table, loop, history, Statuses, Steps,
             JobInv, Resting, Queued, Worked, Fresh, Limit
    <3>3. ASSUME NEW k \in Jobs, k # j PROVE JobInv(k)'
      BY <2>2, <3>3, Frame DEF TypeOK, CancelRead, table, loop, history
    <3> QED
      BY <3>1, <3>2, <3>3 DEF IInv

  <2>3. CASE CancelWrite(j)
    <3>1. TypeOK'
      BY <2>3, JobsAssumption DEF TypeOK, CancelWrite, table, loop, history, Statuses, Steps
    <3>2. JobInv(j)'
      BY <2>3, JobsAssumption, <2>0
         DEF TypeOK, CancelWrite, table, loop, history, Statuses, Steps,
             JobInv, Resting, Queued, Worked, Fresh, Limit
    <3>3. ASSUME NEW k \in Jobs, k # j PROVE JobInv(k)'
      BY <2>3, <3>3, Frame DEF TypeOK, CancelWrite, table, loop, history
    <3> QED
      BY <3>1, <3>2, <3>3 DEF IInv

  <2>4. CASE TimeComes(j)
    <3>1. TypeOK'
      BY <2>4, JobsAssumption DEF TypeOK, TimeComes, table, loop, history, Statuses, Steps
    <3>2. JobInv(j)'
      BY <2>4, JobsAssumption, <2>0
         DEF TypeOK, TimeComes, table, loop, history, Statuses, Steps,
             JobInv, Resting, Queued, Worked, Fresh, Limit
    <3>3. ASSUME NEW k \in Jobs, k # j PROVE JobInv(k)'
      BY <2>4, <3>3, Frame DEF TypeOK, TimeComes, table, loop, history
    <3> QED
      BY <3>1, <3>2, <3>3 DEF IInv

  <2>5. CASE MarkRunning(j)
    <3>1. TypeOK'
      BY <2>5, JobsAssumption DEF TypeOK, MarkRunning, table, loop, history, Statuses, Steps, Goto
    <3>2. JobInv(j)'
      BY <2>5, JobsAssumption, <2>0
         DEF TypeOK, MarkRunning, table, loop, history, Statuses, Steps, Goto,
             JobInv, Resting, Queued, Worked, Fresh, Limit
    <3>3. ASSUME NEW k \in Jobs, k # j PROVE JobInv(k)'
      BY <2>5, <3>3, Frame DEF TypeOK, MarkRunning, table, loop, history, Goto
    <3> QED
      BY <3>1, <3>2, <3>3 DEF IInv

  <2>6. CASE MarkRunningFails(j)
    <3>1. TypeOK'
      BY <2>6, JobsAssumption DEF TypeOK, MarkRunningFails, table, loop, history, Statuses, Steps, Leave, Goto
    <3>2. JobInv(j)'
      BY <2>6, JobsAssumption, <2>0
         DEF TypeOK, MarkRunningFails, table, loop, history, Statuses, Steps, Leave, Goto,
             JobInv, Resting, Queued, Worked, Fresh, Limit
    <3>3. ASSUME NEW k \in Jobs, k # j PROVE JobInv(k)'
      BY <2>6, <3>3, Frame DEF TypeOK, MarkRunningFails, table, loop, history, Leave, Goto
    <3> QED
      BY <3>1, <3>2, <3>3 DEF IInv

  <2>7. CASE Dispatch(j)
    <3>1. TypeOK'
      BY <2>7, JobsAssumption DEF TypeOK, Dispatch, table, loop, history, Statuses, Steps, Goto,
             Confirmed, Unconfirmed
    <3>2. JobInv(j)'
      BY <2>7, JobsAssumption, <2>0
         DEF TypeOK, Dispatch, table, loop, history, Statuses, Steps, Goto,
             Confirmed, Unconfirmed,
             JobInv, Resting, Queued, Worked, Fresh, Limit
    <3>3. ASSUME NEW k \in Jobs, k # j PROVE JobInv(k)'
      BY <2>7, <3>3, Frame DEF TypeOK, Dispatch, table, loop, history, Statuses, Steps, Goto,
             Confirmed, Unconfirmed
    <3> QED
      BY <3>1, <3>2, <3>3 DEF IInv

  <2>13. CASE SubmitAgain(j)
    <3>1. TypeOK'
      BY <2>13, JobsAssumption DEF TypeOK, SubmitAgain, table, loop, history, Statuses, Steps, Goto,
             Confirmed, Unconfirmed
    <3>2. JobInv(j)'
      BY <2>13, JobsAssumption, <2>0
         DEF TypeOK, SubmitAgain, table, loop, history, Statuses, Steps, Goto,
             Confirmed, Unconfirmed,
             JobInv, Resting, Queued, Worked, Fresh, Limit
    <3>3. ASSUME NEW k \in Jobs, k # j PROVE JobInv(k)'
      BY <2>13, <3>3, Frame DEF TypeOK, SubmitAgain, table, loop, history, Statuses, Steps, Goto,
             Confirmed, Unconfirmed
    <3> QED
      BY <3>1, <3>2, <3>3 DEF IInv

  <2>14. CASE Spawn(j)
    <3>1. TypeOK'
      BY <2>14, JobsAssumption DEF TypeOK, Spawn, table, loop, history, Statuses, Steps, Goto, Confirmed
    <3>2. JobInv(j)'
      BY <2>14, JobsAssumption, <2>0
         DEF TypeOK, Spawn, table, loop, history, Statuses, Steps, Goto, Confirmed,
             JobInv, Resting, Queued, Worked, Fresh, Limit
    <3>3. ASSUME NEW k \in Jobs, k # j PROVE JobInv(k)'
      BY <2>14, <3>3, Frame DEF TypeOK, Spawn, table, loop, history, Statuses, Steps, Goto, Confirmed
    <3> QED
      BY <3>1, <3>2, <3>3 DEF IInv

  <2>15. CASE SpawnFails(j)
    <3>1. TypeOK'
      BY <2>15, JobsAssumption DEF TypeOK, SpawnFails, table, loop, history, Statuses, Steps, Goto
    <3>2. JobInv(j)'
      BY <2>15, JobsAssumption, <2>0
         DEF TypeOK, SpawnFails, table, loop, history, Statuses, Steps, Goto,
             JobInv, Resting, Queued, Worked, Fresh, Limit
    <3>3. ASSUME NEW k \in Jobs, k # j PROVE JobInv(k)'
      BY <2>15, <3>3, Frame DEF TypeOK, SpawnFails, table, loop, history, Statuses, Steps, Goto
    <3> QED
      BY <3>1, <3>2, <3>3 DEF IInv

  <2>8. CASE MarkCompleted(j)
    <3>1. TypeOK'
      BY <2>8, JobsAssumption DEF TypeOK, MarkCompleted, table, loop, history, Statuses, Steps, Leave, Goto
    <3>2. JobInv(j)'
      BY <2>8, JobsAssumption, <2>0
         DEF TypeOK, MarkCompleted, table, loop, history, Statuses, Steps, Leave, Goto,
             JobInv, Resting, Queued, Worked, Fresh, Limit
    <3>3. ASSUME NEW k \in Jobs, k # j PROVE JobInv(k)'
      BY <2>8, <3>3, Frame DEF TypeOK, MarkCompleted, table, loop, history, Leave, Goto
    <3> QED
      BY <3>1, <3>2, <3>3 DEF IInv

  <2>9. CASE MarkCompletedFails(j)
    <3>1. TypeOK'
      BY <2>9, JobsAssumption DEF TypeOK, MarkCompletedFails, table, loop, history, Statuses, Steps, Goto
    <3>2. JobInv(j)'
      BY <2>9, JobsAssumption, <2>0
         DEF TypeOK, MarkCompletedFails, table, loop, history, Statuses, Steps, Goto,
             JobInv, Resting, Queued, Worked, Fresh, Limit
    <3>3. ASSUME NEW k \in Jobs, k # j PROVE JobInv(k)'
      BY <2>9, <3>3, Frame DEF TypeOK, MarkCompletedFails, table, loop, history, Goto
    <3> QED
      BY <3>1, <3>2, <3>3 DEF IInv

  <2>10. CASE MarkFailed(j)
    <3>1. TypeOK'
      BY <2>10, JobsAssumption DEF TypeOK, MarkFailed, table, loop, history, Statuses, Steps, Leave, Goto, Exhausted
    <3>2. JobInv(j)'
      BY <2>10, JobsAssumption, <2>0
         DEF TypeOK, MarkFailed, table, loop, history, Statuses, Steps, Leave, Goto, Exhausted,
             JobInv, Resting, Queued, Worked, Fresh, Limit
    <3>3. ASSUME NEW k \in Jobs, k # j PROVE JobInv(k)'
      BY <2>10, <3>3, Frame DEF TypeOK, MarkFailed, table, loop, history, Leave, Goto, Exhausted
    <3> QED
      BY <3>1, <3>2, <3>3 DEF IInv

  <2>11. CASE Reschedule(j)
    <3>1. TypeOK'
      BY <2>11, JobsAssumption DEF TypeOK, Reschedule, table, loop, history, Statuses, Steps, Leave, Goto, Exhausted
    <3>2. JobInv(j)'
      BY <2>11, JobsAssumption, <2>0
         DEF TypeOK, Reschedule, table, loop, history, Statuses, Steps, Leave, Goto, Exhausted,
             JobInv, Resting, Queued, Worked, Fresh, Limit
    <3>3. ASSUME NEW k \in Jobs, k # j PROVE JobInv(k)'
      BY <2>11, <3>3, Frame DEF TypeOK, Reschedule, table, loop, history, Leave, Goto, Exhausted
    <3> QED
      BY <3>1, <3>2, <3>3 DEF IInv

  <2>12. CASE SettleFails(j)
    <3>1. TypeOK'
      BY <2>12, JobsAssumption DEF TypeOK, SettleFails, table, loop, history, Statuses, Steps, Leave, Goto
    <3>2. JobInv(j)'
      BY <2>12, JobsAssumption, <2>0
         DEF TypeOK, SettleFails, table, loop, history, Statuses, Steps, Leave, Goto,
             JobInv, Resting, Queued, Worked, Fresh, Limit
    <3>3. ASSUME NEW k \in Jobs, k # j PROVE JobInv(k)'
      BY <2>12, <3>3, Frame DEF TypeOK, SettleFails, table, loop, history, Leave, Goto
    <3> QED
      BY <3>1, <3>2, <3>3 DEF IInv

  <2> QED
    BY <1>1, <2>1, <2>2, <2>3, <2>4, <2>5, <2>6, <2>7, <2>8, <2>9, <2>10, <2>11, <2>12, <2>13, <2>14, <2>15
       DEF Execute

<1>2. CASE Poll
  <2>1. TypeOK'
    BY <1>2 DEF TypeOK, Poll, table, history, Due
  <2>2. ASSUME NEW k \in Jobs PROVE JobInv(k)'
    <3>1. CASE k \in Due
      BY <1>2, <3>1 DEF TypeOK, Poll, table, history, Due, JobInv, Resting, Queued, Worked, Fresh, Limit
    <3>2. CASE k \notin Due
      BY <1>2, <3>2, Frame DEF TypeOK, Poll, table, history
    <3> QED
      BY <3>1, <3>2
  <2> QED
    BY <2>1, <2>2

<1>3. CASE Restart
  <2>1. TypeOK'
    BY <1>3, JobsAssumption DEF TypeOK, Restart, table, Steps
  <2>2. ASSUME NEW k \in Jobs PROVE JobInv(k)'
    BY <1>3, JobsAssumption
       DEF TypeOK, Restart, table, Statuses, Steps, JobInv, Resting, Queued, Worked, Fresh, Limit
  <2> QED
    BY <2>1, <2>2

<1>4. CASE UNCHANGED vars
  <2>1. TypeOK'
    BY <1>4 DEF TypeOK, vars, table, loop, history
  <2>2. ASSUME NEW k \in Jobs PROVE JobInv(k)'
    BY <1>4, Frame DEF vars, table, loop, history
  <2> QED
    BY <2>1, <2>2

<1> QED
  BY <1>1, <1>2, <1>3, <1>4 DEF Next

-----------------------------------------------------------------------------

\* The state of every job decides how many attempts it has had.
THEOREM Invariant == Spec => []IInv
  BY InitInv, StepInv, PTL DEF Spec

\* Every variable keeps its type.
THEOREM TypeCorrect == Spec => []TypeOK
  BY Invariant, PTL DEF IInv

\* A job gets at most max_retries attempts, and a failed one has had them all.
THEOREM AttemptsBounded == Spec => []RetriesExact
<1>1. IInv => RetriesExact
  BY JobsAssumption
     DEF IInv, TypeOK, RetriesExact, JobInv, Resting, Queued, Worked, Fresh, Limit, Steps
<1> QED
  BY <1>1, Invariant, PTL

\* A job is placed once more only for a placement whose confirmation was lost.
THEOREM PlacementsAreAccounted == Spec => []PlacementsAccounted
<1>1. ASSUME IInv, NEW j \in Jobs
      PROVE  /\ placed[j] <= lost[j] + 1
             /\ status[j] = "completed" => placed[j] = lost[j] + 1
             /\ status[j] = "failed" => placed[j] = lost[j]
  BY <1>1 DEF IInv, TypeOK, JobInv, Resting, Queued, Worked, Fresh
<1>2. IInv => PlacementsAccounted
  BY <1>1 DEF PlacementsAccounted
<1> QED
  BY <1>2, Invariant, PTL

\* Of a job that is completed or failed only a cancellation in progress is left.
LEMMA SettledStep ==
  ASSUME IInv, [Next]_vars, NEW j \in Jobs, status[j] \in {"completed", "failed"}
  PROVE  attempts'[j] = attempts[j] /\ status'[j] \in {status[j], "cancelled"}
<1>1. j \notin batch /\ step[j] = "none"
  BY DEF IInv, JobInv, Queued, Worked
<1>2. ASSUME NEW k \in Jobs, k # j, Execute(k)
      PROVE  attempts'[j] = attempts[j] /\ status'[j] = status[j]
  BY <1>2 DEF IInv, TypeOK, Execute, MarkRunning, MarkRunningFails, Dispatch,
              SubmitAgain, Spawn, SpawnFails, MarkCompleted, MarkCompletedFails,
              MarkFailed, Reschedule, SettleFails,
              table, history
<1>3. ~Execute(j)
  BY <1>1 DEF Execute, MarkRunning, MarkRunningFails, Dispatch, SubmitAgain,
              Spawn, SpawnFails, MarkCompleted,
              MarkCompletedFails, MarkFailed, Reschedule, SettleFails
<1>4. ASSUME NEW k \in Jobs, Schedule(k) \/ CancelRead(k) \/ CancelWrite(k) \/ TimeComes(k)
      PROVE  attempts'[j] = attempts[j] /\ status'[j] \in {status[j], "cancelled"}
  BY <1>4 DEF IInv, TypeOK, Schedule, CancelRead, CancelWrite, TimeComes, table, history
<1>5. CASE Poll \/ Restart \/ UNCHANGED vars
  BY <1>5 DEF Poll, Restart, vars, table, history
<1> QED
  BY <1>2, <1>3, <1>4, <1>5 DEF Next

\* A job that is completed or failed is not queued or dialled again.
THEOREM SettledStaysQuiet == Spec => SettledIsNotDialled
<1>1. IInv /\ [Next]_vars =>
        [\A j \in Jobs :
           status[j] \in {"completed", "failed"} =>
             /\ attempts'[j] = attempts[j]
             /\ status'[j] \in {status[j], "cancelled"}]_vars
  BY SettledStep
<1> QED
  BY <1>1, Invariant, PTL DEF Spec, SettledIsNotDialled

-----------------------------------------------------------------------------
(* What the documented promises are true of                                *)

\* A step leaves a cancelled job alone that the poll loop does not hold.
LEMMA CancelledStep ==
  ASSUME IInv, [Next]_vars, NEW j \in Jobs, status[j] = "cancelled", j \notin batch
  PROVE  status'[j] = "cancelled" /\ j \notin batch' /\ attempts'[j] = attempts[j]
<1>1. step[j] = "none"
  BY DEF IInv, JobInv
<1>2. ASSUME NEW k \in Jobs, k # j, Execute(k)
      PROVE  status'[j] = status[j] /\ j \notin batch' /\ attempts'[j] = attempts[j]
  BY <1>2 DEF IInv, TypeOK, Execute, MarkRunning, MarkRunningFails, Dispatch,
              SubmitAgain, Spawn, SpawnFails, MarkCompleted, MarkCompletedFails,
              MarkFailed, Reschedule, SettleFails,
              Leave, table, history
<1>3. ~Execute(j)
  BY <1>1 DEF Execute, MarkRunning, MarkRunningFails, Dispatch, SubmitAgain,
              Spawn, SpawnFails, MarkCompleted,
              MarkCompletedFails, MarkFailed, Reschedule, SettleFails
<1>4. ASSUME NEW k \in Jobs, Schedule(k) \/ CancelRead(k) \/ CancelWrite(k) \/ TimeComes(k)
      PROVE  status'[j] = "cancelled" /\ j \notin batch' /\ attempts'[j] = attempts[j]
  BY <1>4 DEF IInv, TypeOK, Schedule, CancelRead, CancelWrite, TimeComes, table, loop,
              history
<1>5. CASE Poll
  BY <1>5 DEF Poll, Due, table, history
<1>6. CASE Restart
  BY <1>6 DEF Restart, table
<1>7. CASE UNCHANGED vars
  BY <1>7 DEF vars, table, loop, history
<1> QED
  BY <1>2, <1>3, <1>4, <1>5, <1>6, <1>7 DEF Next

\* service.py, "Cancel a pending job", as far as it is true: a job that is
\* cancelled while the poll loop does not hold it is never dialled again.
THEOREM CancelledInTimeIsFinal ==
  Spec => [][\A j \in Jobs :
               status[j] = "cancelled" /\ j \notin batch =>
                 status'[j] = "cancelled" /\ j \notin batch'
                   /\ attempts'[j] = attempts[j]]_vars
<1>1. IInv /\ [Next]_vars =>
        [\A j \in Jobs :
           status[j] = "cancelled" /\ j \notin batch =>
             status'[j] = "cancelled" /\ j \notin batch'
               /\ attempts'[j] = attempts[j]]_vars
  BY CancelledStep
<1> QED
  BY <1>1, Invariant, PTL DEF Spec

\* The column and the data agree on the time of a job that was never
\* rescheduled, and the loop holds it only once that time has come.
OnTime(j) ==
  /\ status[j] = "none" => j \notin due \cup waiting \cup batch
  /\ retries[j] = 0 => j \notin due \cap waiting /\ (j \in batch => j \in due)

\* A step that reschedules no job keeps every job to its first time.
LEMMA OnTimeStep ==
  ASSUME IInv, [Next]_vars, NEW j \in Jobs, OnTime(j)
  PROVE  OnTime(j)'
<1>0. TypeOK
  BY DEF IInv
<1>1. ASSUME NEW k \in Jobs, Schedule(k) PROVE OnTime(j)'
  BY <1>0, <1>1 DEF Schedule, loop, history, TypeOK, OnTime
<1>2. ASSUME NEW k \in Jobs, CancelRead(k) \/ CancelWrite(k) PROVE OnTime(j)'
  BY <1>0, <1>2 DEF CancelRead, CancelWrite, table, loop, TypeOK, OnTime
<1>3. ASSUME NEW k \in Jobs, TimeComes(k) PROVE OnTime(j)'
  BY <1>0, <1>3 DEF TimeComes, loop, TypeOK, OnTime
<1>4. ASSUME NEW k \in Jobs,
             \/ MarkRunning(k) \/ MarkRunningFails(k) \/ Dispatch(k)
             \/ SubmitAgain(k) \/ Spawn(k) \/ SpawnFails(k)
             \/ MarkCompleted(k) \/ MarkCompletedFails(k) \/ MarkFailed(k)
             \/ SettleFails(k)
      PROVE  OnTime(j)'
  BY <1>0, <1>4
     DEF MarkRunning, MarkRunningFails, Dispatch, SubmitAgain,
         Spawn, SpawnFails, MarkCompleted, MarkCompletedFails,
         MarkFailed, SettleFails, Leave, table, TypeOK, OnTime
<1>5. ASSUME NEW k \in Jobs, Reschedule(k) PROVE OnTime(j)'
  <2>1. k = j => retries'[j] # 0
    BY <1>0, <1>5 DEF Reschedule, TypeOK
  <2> QED
    BY <1>0, <1>5, <2>1 DEF Reschedule, Leave, TypeOK, OnTime
<1>6. CASE Poll
  BY <1>0, <1>6 DEF Poll, Due, table, TypeOK, OnTime
<1>7. CASE Restart
  BY <1>0, <1>7 DEF Restart, table, TypeOK, OnTime
<1>8. CASE UNCHANGED vars
  BY <1>8 DEF vars, table, loop, OnTime
<1> QED
  BY <1>1, <1>2, <1>3, <1>4, <1>5, <1>6, <1>7, <1>8 DEF Next, Execute

\* service.py, "Reschedule with backoff", as far as it is true: only a job that
\* failed before can be begun while it still waits for its time; the time it
\* was scheduled for is kept, whatever is restarted or not stored.
THEOREM FirstTimeIsKept ==
  Spec => [][\A j \in Jobs :
               retries[j] = 0 /\ status[j] = "pending" /\ status'[j] = "running" =>
                 j \notin waiting]_vars
<1>. DEFINE AllOnTime == \A j \in Jobs : OnTime(j)
<1>1. Init => AllOnTime
  BY DEF Init, OnTime
<1>2. IInv /\ AllOnTime /\ [Next]_vars => AllOnTime'
  BY OnTimeStep
<1>3. ASSUME IInv, AllOnTime, [Next]_vars, NEW j \in Jobs,
             retries[j] = 0, status[j] = "pending", status'[j] = "running"
      PROVE  j \notin waiting
  <2>0. TypeOK
    BY <1>3 DEF IInv
  <2>1. \A k \in Jobs : Execute(k) => k = j
    BY <1>3, <2>0
       DEF Execute, MarkRunning, MarkRunningFails, Dispatch, SubmitAgain,
              Spawn, SpawnFails, MarkCompleted,
           MarkCompletedFails, MarkFailed, Reschedule, SettleFails, table, TypeOK
  <2>2. ASSUME NEW k \in Jobs,
               Schedule(k) \/ CancelRead(k) \/ CancelWrite(k) \/ TimeComes(k)
        PROVE  FALSE
    BY <1>3, <2>0, <2>2
       DEF Schedule, CancelRead, CancelWrite, TimeComes, table, TypeOK
  <2>3. ~Poll /\ ~Restart /\ ~UNCHANGED vars
    BY <1>3 DEF Poll, Restart, vars, table
  <2>4. Execute(j)
    BY <1>3, <2>1, <2>2, <2>3 DEF Next
  <2>5. MarkRunning(j)
    BY <1>3, <2>0, <2>4
       DEF Execute, MarkRunningFails, Dispatch, SubmitAgain,
         Spawn, SpawnFails, MarkCompleted, MarkCompletedFails,
           MarkFailed, Reschedule, SettleFails, table, TypeOK
  <2> QED
    BY <1>3, <2>5 DEF MarkRunning, OnTime
<1>4. IInv /\ AllOnTime /\ [Next]_vars =>
        [\A j \in Jobs :
           retries[j] = 0 /\ status[j] = "pending" /\ status'[j] = "running" =>
             j \notin waiting]_vars
  BY <1>3
<1> HIDE DEF AllOnTime
<1> QED
  BY <1>1, <1>2, <1>4, Invariant, PTL DEF Spec
=============================================================================
