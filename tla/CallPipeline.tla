---------------------------- MODULE CallPipeline -----------------------------
(***************************************************************************)
(* The call path of the README's architecture: the API submits a request,  *)
(* CallScheduler assigns it over call_assignments to a node, the node's    *)
(* WorkerService runs it and answers over gpu_capacity, call_completed,    *)
(* call_failed and worker_heartbeat.  The two modules share the topics.    *)
(***************************************************************************)
EXTENDS CallScheduler, WorkerService

pipelineVars == <<vars, workerVars>>

PipelineInit == Init /\ WorkerInit

SubmitOne == \E p \in ReqPartitions, s \in Sessions : Submit(p, s)

\* A node sends a heartbeat every 10 s against a timeout of 30 s until it
\* drains, which it does in silence for up to 60 s: before that it is judged
\* dead only if its messages are held up.
FallSilent ==
  \E n \in Nodes :
    (mode[n] \in {"draining", "down"} \/ "silence" \in Faults) /\ Expire(n)

Scheduler ==
  (SubmitOne \/ SchedStep \/ FallSilent \/ Restart) /\ UNCHANGED workerVars

Worker == WorkerStep /\ UNCHANGED <<requests, schedVars>>

PipelineNext == Scheduler \/ Worker

PipelineSpec == PipelineInit /\ [][PipelineNext]_pipelineVars

\* Every loop of every process that is up goes on, and a process that is
\* down is started again.
PipelineFairSpec ==
  /\ PipelineSpec
  /\ \A p \in ReqPartitions :
       WF_pipelineVars(((\E n \in Nodes : Book(p, n)) \/ Park(p)
                          \/ RejectMalformed(p)) /\ UNCHANGED workerVars)
  /\ WF_pipelineVars((SendAssignment \/ SendFails) /\ UNCHANGED workerVars)
  /\ WF_pipelineVars((Commit \/ CommitFails) /\ UNCHANGED workerVars)
  /\ WF_pipelineVars(EvictDead /\ UNCHANGED workerVars)
  /\ \A n \in Nodes :
       /\ WF_pipelineVars(HandleCapacity(n) /\ UNCHANGED workerVars)
       /\ WF_pipelineVars(HandleHeartbeat(n) /\ UNCHANGED workerVars)
       /\ \A s \in Sessions :
            WF_pipelineVars(HandleFinished(n, s) /\ UNCHANGED workerVars)
       /\ WF_pipelineVars(Start(n) /\ UNCHANGED <<requests, schedVars>>)
       /\ WF_pipelineVars(ConsumerStep(n) /\ UNCHANGED <<requests, schedVars>>)
       /\ \A s \in Sessions :
            WF_pipelineVars(TaskStep(n, s) /\ UNCHANGED <<requests, schedVars>>)

-----------------------------------------------------------------------------
(* Properties *)

Running(n, s) == task[n][s] \in {"running", "backoff"}

\* A caller talks to one AI agent: nodes running the same call are never more
\* than the lives of the scheduler, not even after a live node was judged
\* dead or a worker crashed and read its assignment again.
OneAgentPerCall ==
  \A s \in Sessions :
    Cardinality({n \in Nodes : Running(n, s)}) <= 1 + restarts

\* A worker reports a call ended at most once for each pair of a scheduler
\* life and a worker life: failed commits alone never repeat a call.
EndsPerLife ==
  \A n \in Nodes, s \in Sessions :
    reported[n][s] <= (1 + restarts) * (1 + stops)

\* An assignment to n that n has not read yet.
Travelling(n, s) ==
  \E i \in (asgPosition[n] + 1)..Len(Log(n)) :
    Log(n)[i] = [session |-> s, node |-> n]

\* Nothing has failed, fallen silent or been stopped so far.
Calm == restarts = 0 /\ stops = 0 /\ Faults = {}

\* As long as nothing fails or is silent, the scheduler's books are true:
\* a call is in flight at a node exactly from its booking until the scheduler
\* read its end.
BooksMatchCalls ==
  Calm =>
    \A n \in Nodes, s \in Sessions :
      s \in inflight[n] <=>
        \/ consumer.at = "sending" /\ consumer.session = s /\ consumer.node = n
        \/ Travelling(n, s)
        \/ task[n][s] # "none"
        \/ finished[n][s] > 0

\* A node never runs more calls than its GPU allows, although the scheduler
\* books on reports that are out of date and forgets its bookings.
WithinCapacity ==
  \A n \in Nodes : Cardinality(Active(n)) <= MaxCalls

\* Every request that is read is either parked or comes to its end at a
\* worker, and the scheduler learns of it.
BookedEnds ==
  \A n \in Nodes, s \in Sessions : s \in inflight[n] ~> s \notin inflight[n]

\* A partition paused while calls are in flight is resumed.
PausedWithCallsResumes ==
  \A p \in ReqPartitions :
    (p \in paused /\ \E n \in Nodes : inflight[n] # {}) ~> p \notin paused

-----------------------------------------------------------------------------
(* What the docs and comments of the repository say; the code does not do  *)
(* it, and the README gives an instance on which TLC shows each violated.  *)

\* worker_service.py, "Capacity guard (scheduler should prevent this, but
\* failsafe)": no assignment reaches a worker that is full.
NeverOverloaded ==
  \A n \in Nodes :
    (mode[n] = "up" /\ consuming[n] = "idle" /\ Unread(n)
      /\ Message(n).node = n) => ~Full(n)

\* schemas.py, "incremented on re-schedule after failure": a call whose node
\* was lost is assigned again.
LostCallsRescheduled ==
  \A n \in Nodes, s \in Sessions :
    (s \in inflight[n] /\ n \notin fresh) ~>
      \E m \in Nodes : reported[m][s] > 0 \/ task[m][s] # "none"

-----------------------------------------------------------------------------
(* The inductive invariant behind the safety properties *)

\* Where call s stands in the assignment logs, of whichever node.
Entries(s) ==
  {e \in UNION {{a} \X DOMAIN assignments[a] : a \in AsgPartitions} :
     assignments[e[1]][e[2]].session = s}

SentNow(s) == \E a \in DOMAIN sent : sent[a] = s

\* Every life of the scheduler adds at most one entry for a call.
EntriesCounted ==
  \A s \in Sessions :
    /\ IsFiniteSet(Entries(s))
    /\ Cardinality(Entries(s)) <= IF SentNow(s) THEN 1 + restarts ELSE restarts

\* So far no node was evicted, and one that is down was never up.
NobodyEvicted ==
  Calm => \A n \in Nodes :
    /\ mode[n] = "down" =>
         n \notin registered /\ capacity[n] = <<>> /\ asgPosition[n] = 0
    /\ n \in registered => n \in fresh
    /\ inflight[n] # {} => n \in registered

PipelineInv ==
  /\ IInv /\ WorkerInv
  /\ EntriesCounted /\ NobodyEvicted /\ BooksMatchCalls
=============================================================================
