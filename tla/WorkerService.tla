---------------------------- MODULE WorkerService ----------------------------
(***************************************************************************)
(* The GPU worker of livekit/kafka/worker_service.py, one per node, with   *)
(* its GpuMonitor (gpu_monitor.py).  It consumes the assignments of its    *)
(* partition, runs each call as an asyncio task with retries, publishes    *)
(* the end of the call, its capacity and its heartbeats, and drains on     *)
(* SIGTERM.                                                                *)
(*                                                                         *)
(* An action is the code between two awaits.  Abstracted: what a call      *)
(* says, durations, metrics and call_started (nobody consumes it); VRAM    *)
(* and utilisation appear as the max_calls computed from them.  A publish  *)
(* that raises is swallowed by the code: fault "produce".                  *)
(***************************************************************************)
EXTENDS CallTopics

CONSTANTS
  Others,       \* nodes beside Nodes whose assignments share the partitions
  Limits,       \* the values compute_max_calls returns as VRAM and load vary
  MaxRetry,     \* WORKER_MAX_RETRY
  AsgBound,     \* bound on assignments per partition, alone
  MaxStops      \* bound on SIGTERMs and crashes

ASSUME WorkerAssumption ==
  /\ Others \cap Nodes = {}
  /\ Limits \subseteq 0..MaxCalls
  /\ MaxRetry \in Nat \ {0}
  /\ AsgBound \in Nat /\ MaxStops \in Nat

VARIABLES
  mode,           \* where the process of each node is in its life
  asgPosition,    \* messages consumed by each node
  asgCommitted,   \* offset committed by each node's consumer group
  consuming,      \* where _consume_calls is
  limit,          \* latest.max_calls of the GPU monitor
  task,           \* where _run_worker_with_lifecycle is for each call
  attempts,       \* times ai_worker_task was entered in that run
  stops           \* history: SIGTERMs and crashes so far

process     == <<mode, stops>>
offsets     == <<asgPosition, asgCommitted, consuming>>
calls       == <<task, attempts>>

workerVars == <<process, offsets, limit, calls>>
serviceVars == <<assignments, eventTopics, workerVars>>

-----------------------------------------------------------------------------
(* Types and state functions *)

\* terminating: SIGTERM set the flags; stopping: in stop(), monitor alive;
\* draining: waiting for the tasks.
Modes  == {"down", "up", "terminating", "stopping", "draining"}
Phases == {"none", "starting", "running", "backoff", "completing", "failing"}

AnyAssignment == [session : Sessions, node : Nodes \cup Others]

Log(n) == assignments[NodePartition[n]]
Unread(n) == asgPosition[n] < Len(Log(n))
Message(n) == Log(n)[asgPosition[n] + 1]

\* _active_tasks: an ended task leaves it before it publishes the end.
Active(n) == {s \in Sessions : task[n][s] \in {"starting", "running", "backoff"}}

\* Mutant: max(0, ...) is dropped.
SlotsBelowZero(k, n) == k - Cardinality(Active(n))

FreeSlots(k, n) ==
  IF Cardinality(Active(n)) >= k THEN 0 ELSE k - Cardinality(Active(n))

NoTasks == [s \in Sessions |-> "none"]
NoAttempts == [s \in Sessions |-> 0]

WorkerInit ==
  /\ assignments = [a \in AsgPartitions |-> <<>>]
  /\ capacity = [n \in Nodes |-> <<>>]
  /\ finished = [n \in Nodes |-> NoAttempts]
  /\ reported = [n \in Nodes |-> NoAttempts]
  /\ beats = {}
  /\ mode = [n \in Nodes |-> "down"] /\ stops = 0
  /\ asgPosition = [n \in Nodes |-> 0]
  /\ asgCommitted = [n \in Nodes |-> 0]
  /\ consuming = [n \in Nodes |-> "idle"]
  /\ limit = [n \in Nodes |-> 0]
  /\ task = [n \in Nodes |-> NoTasks]
  /\ attempts = [n \in Nodes |-> NoAttempts]

-----------------------------------------------------------------------------
(* Publishing *)

\* A report of k free slots; a publish that raises is swallowed.
PublishCapacity(n, k) ==
  \/ /\ Len(capacity[n]) < TopicBound
     /\ capacity' = [capacity EXCEPT ![n] = Append(@, k)]
  \/ "produce" \in Faults /\ UNCHANGED capacity

\* One of call_completed and call_failed.
PublishFinished(n, s) ==
  /\ finished' = [finished EXCEPT ![n][s] = @ + 1]
  /\ reported' = [reported EXCEPT ![n][s] = @ + 1]

FinishedLost == "produce" \in Faults /\ UNCHANGED <<finished, reported>>

-----------------------------------------------------------------------------
(* Process and GPU monitor *)

\* start() and run(): consumption restarts at the committed offset; the
\* monitor's first poll runs before the first message is read.
Start(n) ==
  /\ mode[n] = "down"
  /\ mode' = [mode EXCEPT ![n] = "up"]
  /\ asgPosition' = [asgPosition EXCEPT ![n] = asgCommitted[n]]
  /\ \E k \in Limits :
       /\ limit' = [limit EXCEPT ![n] = k]
       /\ PublishCapacity(n, k)
  /\ UNCHANGED <<assignments, finished, beats, reported, stops, asgCommitted,
                 consuming, calls>>

\* _publish_once: the limit follows free VRAM and GPU utilisation.
Poll(n) ==
  /\ mode[n] \in {"up", "terminating", "stopping"}
  /\ \E k \in Limits :
       /\ limit' = [limit EXCEPT ![n] = k]
       /\ PublishCapacity(n, FreeSlots(k, n))
  /\ UNCHANGED <<assignments, finished, beats, reported, process, offsets,
                 calls>>

Heartbeat(n) ==
  /\ mode[n] = "up"
  /\ beats' = beats \cup {n}
  /\ UNCHANGED <<assignments, capacity, finished, reported, workerVars>>

\* _handle_sigterm only sets two flags.
Sigterm(n) ==
  /\ mode[n] = "up" /\ stops < MaxStops
  /\ mode' = [mode EXCEPT ![n] = "terminating"]
  /\ stops' = stops + 1
  /\ UNCHANGED <<assignments, eventTopics, offsets, limit, calls>>

\* The consumer looks at the flags when the next message wakes it: it leaves
\* the loop with that message unread and uncommitted, and stop() announces
\* zero capacity.
ConsumerExits(n) ==
  /\ mode[n] = "terminating" /\ consuming[n] = "idle" /\ Unread(n)
  /\ mode' = [mode EXCEPT ![n] = "stopping"]
  /\ asgPosition' = [asgPosition EXCEPT ![n] = @ + 1]
  /\ PublishCapacity(n, 0)
  /\ UNCHANGED <<assignments, finished, beats, reported, stops, asgCommitted,
                 consuming, limit, calls>>

StopMonitor(n) ==
  /\ mode[n] = "stopping"
  /\ mode' = [mode EXCEPT ![n] = "draining"]
  /\ UNCHANGED <<assignments, eventTopics, stops, offsets, limit, calls>>

\* The process of n is gone, and its tasks with it.
Gone(n) ==
  /\ mode' = [mode EXCEPT ![n] = "down"]
  /\ task' = [task EXCEPT ![n] = NoTasks]
  /\ attempts' = [attempts EXCEPT ![n] = NoAttempts]
  /\ consuming' = [consuming EXCEPT ![n] = "idle"]

\* The tasks ended in time, or WORKER_SHUTDOWN_DRAIN_SEC passed and those
\* left are cancelled; a task that left _active_tasks before is not awaited.
FinishDrain(n) ==
  /\ mode[n] = "draining"
  /\ Gone(n)
  /\ UNCHANGED <<assignments, eventTopics, stops, asgPosition, asgCommitted,
                 limit>>

Crash(n) ==
  /\ mode[n] # "down" /\ stops < MaxStops
  /\ stops' = stops + 1
  /\ Gone(n)
  /\ UNCHANGED <<assignments, eventTopics, asgPosition, asgCommitted, limit>>

-----------------------------------------------------------------------------
(* Consumer loop: _consume_calls *)

Receive(n) ==
  /\ mode[n] = "up" /\ consuming[n] = "idle" /\ Unread(n)
  /\ asgPosition' = [asgPosition EXCEPT ![n] = @ + 1]
  /\ consuming' = [consuming EXCEPT ![n] = "committing"]
  /\ UNCHANGED <<assignments, asgCommitted, process, limit>>

SkipForeign(n) ==
  /\ Receive(n)
  /\ Message(n).node # n
  /\ UNCHANGED <<eventTopics, calls>>

\* Mutant: off by one.
OverFull(n) == Cardinality(Active(n)) > limit[n]

Full(n) == Cardinality(Active(n)) >= limit[n]

\* The capacity guard comes before the duplicate check.
RejectOverload(n) ==
  /\ Receive(n)
  /\ Message(n).node = n /\ Full(n)
  /\ \/ PublishFinished(n, Message(n).session)
     \/ FinishedLost
  /\ UNCHANGED <<capacity, beats, calls>>

SkipDuplicate(n) ==
  /\ Receive(n)
  /\ Message(n).node = n /\ ~Full(n)
  /\ Message(n).session \in Active(n)
  /\ UNCHANGED <<eventTopics, calls>>

\* Mutant: does not look at assigned_node.
LaunchAny(n) ==
  LET s == Message(n).session IN
  /\ Receive(n)
  /\ ~Full(n) /\ s \notin Active(n)
  /\ task' = [task EXCEPT ![n][s] = "starting"]
  /\ attempts' = [attempts EXCEPT ![n][s] = 0]
  /\ UNCHANGED eventTopics

\* If an earlier run of the call is just being reported ended, that report
\* is taken to be out before this run begins.
Launch(n) ==
  LET s == Message(n).session IN
  /\ Receive(n)
  /\ Message(n).node = n /\ ~Full(n)
  /\ s \notin Active(n)
  /\ task' = [task EXCEPT ![n][s] = "starting"]
  /\ attempts' = [attempts EXCEPT ![n][s] = 0]
  /\ \/ task[n][s] = "none" /\ UNCHANGED <<finished, reported>>
     \/ task[n][s] # "none" /\ (PublishFinished(n, s) \/ FinishedLost)
  /\ UNCHANGED <<capacity, beats>>

\* Mutant: a failed commit seeks back to the committed offset.
CommitOrSeek(n) ==
  /\ consuming[n] = "committing"
  /\ consuming' = [consuming EXCEPT ![n] = "idle"]
  /\ \/ /\ asgCommitted' = [asgCommitted EXCEPT ![n] = asgPosition[n]]
        /\ UNCHANGED asgPosition
     \/ /\ "commit" \in Faults
        /\ asgPosition' = [asgPosition EXCEPT ![n] = asgCommitted[n]]
        /\ UNCHANGED asgCommitted
  /\ UNCHANGED <<assignments, eventTopics, process, limit, calls>>

CommitAssignment(n) ==
  /\ consuming[n] = "committing"
  /\ consuming' = [consuming EXCEPT ![n] = "idle"]
  /\ \/ asgCommitted' = [asgCommitted EXCEPT ![n] = asgPosition[n]]
     \/ "commit" \in Faults /\ UNCHANGED asgCommitted
  /\ UNCHANGED <<assignments, eventTopics, process, asgPosition, limit, calls>>

-----------------------------------------------------------------------------
(* Call tasks: _run_worker_with_lifecycle *)

Move(n, s, from, to) ==
  /\ task[n][s] = from
  /\ task' = [task EXCEPT ![n][s] = to]

Attempt(n, s) == attempts' = [attempts EXCEPT ![n][s] = @ + 1]

\* call_started is out; the loop is entered unless the worker shuts down, in
\* which case it is left at once with last_exc still None.
BeginRun(n, s) ==
  /\ \/ mode[n] = "up" /\ Move(n, s, "starting", "running") /\ Attempt(n, s)
     \/ mode[n] # "up" /\ Move(n, s, "starting", "completing")
                       /\ UNCHANGED attempts
  /\ UNCHANGED <<assignments, eventTopics, process, offsets, limit>>

AttemptSucceeds(n, s) ==
  /\ Move(n, s, "running", "completing")
  /\ UNCHANGED <<assignments, eventTopics, process, offsets, limit, attempts>>

AttemptFails(n, s) ==
  /\ \/ attempts[n][s] < MaxRetry /\ Move(n, s, "running", "backoff")
     \/ attempts[n][s] >= MaxRetry /\ Move(n, s, "running", "failing")
  /\ UNCHANGED <<assignments, eventTopics, process, offsets, limit, attempts>>

\* Mutant: retries although the worker shuts down.
RetryAlways(n, s) ==
  /\ Move(n, s, "backoff", "running") /\ Attempt(n, s)
  /\ UNCHANGED <<assignments, eventTopics, process, offsets, limit>>

\* Mutant: the attempt is not counted.
RetryUncounted(n, s) ==
  /\ Move(n, s, "backoff", "running")
  /\ UNCHANGED <<assignments, eventTopics, process, offsets, limit, attempts>>

EndBackoff(n, s) ==
  /\ \/ mode[n] = "up" /\ Move(n, s, "backoff", "running") /\ Attempt(n, s)
     \/ mode[n] # "up" /\ Move(n, s, "backoff", "failing")
                       /\ UNCHANGED attempts
  /\ UNCHANGED <<assignments, eventTopics, process, offsets, limit>>

\* Mutant: publishes no end.
EndSilently(n, s) ==
  /\ Move(n, s, "completing", "none") \/ Move(n, s, "failing", "none")
  /\ attempts' = [attempts EXCEPT ![n][s] = 0]
  /\ UNCHANGED <<assignments, eventTopics, process, offsets, limit>>

\* call_completed, or call_failed and the dead-letter record.
PublishEnd(n, s) ==
  /\ Move(n, s, "completing", "none") \/ Move(n, s, "failing", "none")
  /\ PublishFinished(n, s) \/ FinishedLost
  /\ attempts' = [attempts EXCEPT ![n][s] = 0]
  /\ UNCHANGED <<assignments, capacity, beats, process, offsets, limit>>

TaskStep(n, s) ==
  \/ BeginRun(n, s) \/ AttemptSucceeds(n, s) \/ AttemptFails(n, s)
  \/ EndBackoff(n, s) \/ PublishEnd(n, s)

ConsumerStep(n) ==
  \/ SkipForeign(n) \/ RejectOverload(n) \/ SkipDuplicate(n) \/ Launch(n)
  \/ CommitAssignment(n)

WorkerStep ==
  \E n \in Nodes :
    \/ Start(n) \/ Poll(n) \/ Heartbeat(n)
    \/ Sigterm(n) \/ ConsumerExits(n) \/ StopMonitor(n) \/ FinishDrain(n)
    \/ Crash(n)
    \/ ConsumerStep(n)
    \/ \E s \in Sessions : TaskStep(n, s)

-----------------------------------------------------------------------------
(* Environment: what the scheduler does to the topics.  CallPipeline        *)
(* replaces it with CallScheduler.                                         *)

Assign(a, n, s) ==
  /\ n \in Nodes => a = NodePartition[n]
  /\ Len(assignments[a]) < AsgBound
  /\ assignments' = [assignments EXCEPT ![a] =
                       Append(@, [session |-> s, node |-> n])]
  /\ UNCHANGED <<eventTopics, workerVars>>

ReadEvents(n) ==
  /\ capacity' = [capacity EXCEPT ![n] = <<>>]
  /\ finished' = [finished EXCEPT ![n] = NoAttempts]
  /\ beats' = beats \ {n}
  /\ UNCHANGED <<assignments, reported, workerVars>>

TopicStep ==
  \/ \E n \in Nodes : ReadEvents(n)
  \/ \E a \in AsgPartitions, n \in Nodes \cup Others, s \in Sessions :
       Assign(a, n, s)

WorkerNext == WorkerStep \/ TopicStep

WorkerSpec == WorkerInit /\ [][WorkerNext]_serviceVars

\* The event loop runs every task that can run, and an AI session ends.
WorkerFairness ==
  \A n \in Nodes :
    /\ WF_serviceVars(ConsumerStep(n))
    /\ WF_serviceVars(ConsumerExits(n))
    /\ WF_serviceVars(StopMonitor(n))
    /\ WF_serviceVars(FinishDrain(n))
    /\ \A s \in Sessions : WF_serviceVars(TaskStep(n, s))

WorkerFairSpec ==
  /\ WorkerSpec /\ WorkerFairness
  /\ \A n \in Nodes : WF_serviceVars(ReadEvents(n))

-----------------------------------------------------------------------------
(* Properties *)

\* Every variable holds values of its kind.
WorkerTypeOK ==
  /\ assignments \in [AsgPartitions -> Seq(AnyAssignment)]
  /\ capacity \in [Nodes -> Seq(Nat)]
  /\ finished \in [Nodes -> [Sessions -> Nat]]
  /\ reported \in [Nodes -> [Sessions -> Nat]]
  /\ beats \subseteq Nodes
  /\ mode \in [Nodes -> Modes] /\ stops \in Nat
  /\ asgPosition \in [Nodes -> Nat]
  /\ asgCommitted \in [Nodes -> Nat]
  /\ consuming \in [Nodes -> {"idle", "committing"}]
  /\ limit \in [Nodes -> 0..MaxCalls]
  /\ task \in [Nodes -> [Sessions -> Phases]]
  /\ attempts \in [Nodes -> [Sessions -> Nat]]

\* After SIGTERM no attempt at a call begins.
NoAttemptAfterSigterm ==
  [][\A n \in Nodes, s \in Sessions :
       mode[n] # "up" => attempts'[n][s] <= attempts[n][s]]_serviceVars

\* Every call a worker takes on ends: failures are retried at most
\* WORKER_MAX_RETRY times and then reported.
LaunchedEnds ==
  \A n \in Nodes, s \in Sessions :
    task[n][s] = "starting" ~> task[n][s] = "none"

-----------------------------------------------------------------------------
(* What the docs and comments of the repository say; the code does not do  *)
(* it, and the README gives an instance on which TLC shows each violated.  *)

\* worker_service.py, "Completed successfully": a call reported as completed
\* was entered by ai_worker_task.
CompletedMeansRan ==
  \A n \in Nodes, s \in Sessions :
    task[n][s] = "completing" => attempts[n][s] > 0

\* worker_service.py, "Publish to DLQ after exhausting all retries".
DlqAfterAllRetries ==
  \A n \in Nodes, s \in Sessions :
    task[n][s] = "failing" => attempts[n][s] = MaxRetry

\* worker_service.py, "SIGTERM received - graceful shutdown": the worker
\* drains and stops.
SigtermStops ==
  \A n \in Nodes : mode[n] = "terminating" ~> mode[n] = "down"

-----------------------------------------------------------------------------
(* The inductive invariant behind the safety properties *)

\* The entries of n's log that give n the call s, and those of them that n
\* has not read in this life.
Asked(n, s) ==
  {i \in DOMAIN Log(n) : Log(n)[i] = [session |-> s, node |-> n]}

Unheard(n, s) == {i \in Asked(n, s) : asgPosition[n] < i}

\* What n may still report of s in this life: an entry it has not read or a
\* task that has not ended.
OpenEnds(n, s) ==
  IF mode[n] = "down" THEN 0
  ELSE Cardinality(Unheard(n, s)) + (IF task[n][s] = "none" THEN 0 ELSE 1)

\* A life ends with a SIGTERM or a crash: n was up at most so many times.
Lives(n) == IF mode[n] = "up" THEN 1 + stops ELSE stops

LivesCounted ==
  \A n \in Nodes :
    mode[n] \in {"terminating", "stopping", "draining"} => stops > 0

DownIsEmpty ==
  \A n \in Nodes : mode[n] = "down" => task[n] = NoTasks

\* No offset is committed before it is read, nor read before it is written.
AsgOffsetsOrdered ==
  \A n \in Nodes :
    asgCommitted[n] <= asgPosition[n] /\ asgPosition[n] <= Len(Log(n))

SlotsRespected ==
  \A n \in Nodes :
    IsFiniteSet(Active(n)) /\ Cardinality(Active(n)) <= MaxCalls

\* A call has its first attempt behind it when it runs, and one left when it
\* waits for the next.
RetriesBounded ==
  \A n \in Nodes, s \in Sessions :
    /\ attempts[n][s] <= MaxRetry
    /\ task[n][s] \in {"none", "starting"} => attempts[n][s] = 0
    /\ task[n][s] = "backoff" => attempts[n][s] < MaxRetry

TasksWereAsked ==
  \A n \in Nodes, s \in Sessions : task[n][s] # "none" => Asked(n, s) # {}

\* In each life n reports at most one end for each time it was given the call.
EndsCounted ==
  \A n \in Nodes, s \in Sessions :
    /\ IsFiniteSet(Asked(n, s))
    /\ reported[n][s] + OpenEnds(n, s) <= Cardinality(Asked(n, s)) * Lives(n)
    /\ finished[n][s] <= reported[n][s]

WorkerInv ==
  /\ WorkerTypeOK
  /\ LivesCounted /\ DownIsEmpty
  /\ AsgOffsetsOrdered /\ SlotsRespected /\ RetriesBounded
  /\ TasksWereAsked /\ EndsCounted
=============================================================================
