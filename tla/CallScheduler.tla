---------------------------- MODULE CallScheduler ----------------------------
(***************************************************************************)
(* The CallScheduler of livekit/kafka/scheduler.py.  It reads call         *)
(* requests from Kafka, books each one on the GPU node with most free      *)
(* slots, and forwards it to that node's assignment partition; with no     *)
(* capacity it parks the request and pauses the partition it came from.    *)
(* Its node registry is fed by the events that workers publish.            *)
(*                                                                         *)
(* The asyncio tasks of the scheduler (request consumer, event consumer,   *)
(* watchdog) interleave only at awaits, so an action is the code between   *)
(* two awaits.  An event is handled and committed in one action: a crash   *)
(* between the two loses the effect with the memory and re-delivers the    *)
(* event, which is the crash before the handler.                           *)
(*                                                                         *)
(* Abstracted: the payload of a request, the metrics, the max_calls and    *)
(* active_calls of a NodeState (nothing decides on them), the order of     *)
(* _pending_sessions (it only numbers the positions told to browsers), and *)
(* the clock (a node is fresh until 30 s pass without word from it).       *)
(***************************************************************************)
EXTENDS CallTopics

CONSTANTS
  Malformed,      \* the sessions whose message fails validation
  ReqPartitions,  \* partitions of call_requests
  MaxRestarts     \* bound on restarts of the scheduler process

ASSUME SchedulerAssumption == Malformed \subseteq Sessions /\ MaxRestarts \in Nat

VARIABLES
  requests,     \* call_requests: the log of each partition
  position,     \* next-but-one read: how many messages were consumed
  committed,    \* offsets committed by the scheduler's consumer group
  registered,   \* keys of _node_registry
  free,         \* NodeState.free_slots
  inflight,     \* NodeState.active_sessions
  fresh,        \* nodes whose last_heartbeat is younger than the timeout
  pending,      \* _pending_sessions
  paused,       \* _paused_partitions
  consumer,     \* where _consume_call_requests is
  sent,         \* history: the sessions sent to workers in this life
  decided,      \* history: the sessions sent, parked, dropped or rejected
  restarts      \* history: restarts so far

requestTopic == <<requests, position, committed>>
registry     == <<registered, free, inflight, fresh>>
queue        == <<pending, paused>>
history      == <<sent, decided, restarts>>

schedVars == <<position, committed, registry, queue, consumer, history>>
vars == <<requestTopic, eventTopics, assignments, registry, queue, consumer,
          history>>

-----------------------------------------------------------------------------
(* Types *)

Assignment == [session : Sessions, node : Nodes]

Idle == [at |-> "idle"]
Sending(p, s, n) == [at |-> "sending", part |-> p, session |-> s, node |-> n]
Committing == [at |-> "committing"]

ConsumerStates ==
  {Idle, Committing}
    \cup [at : {"sending"}, part : ReqPartitions, session : Sessions,
          node : Nodes]

-----------------------------------------------------------------------------
(* Choosing a node *)

Candidates == {n \in registered : free[n] > 0 /\ n \in fresh}

\* max() takes one with most free slots; which of equals depends on the
\* order in which nodes registered, here any of them.
BestNodes == {n \in Candidates : \A m \in Candidates : free[m] <= free[n]}

\* Mutant: resumes before the freed slot is booked back.
ResumeBeforeRelease ==
  IF Candidates # {} THEN paused' = {} ELSE paused' = paused

\* _resume_paused_partitions, evaluated on the registry the caller leaves.
Resume ==
  IF \E n \in registered' : free'[n] > 0 /\ n \in fresh'
  THEN paused' = {}
  ELSE paused' = paused

-----------------------------------------------------------------------------
(* Initial state: topics empty, no node known *)

Init ==
  /\ requests = [p \in ReqPartitions |-> <<>>]
  /\ position = [p \in ReqPartitions |-> 0]
  /\ committed = [p \in ReqPartitions |-> 0]
  /\ capacity = [n \in Nodes |-> <<>>]
  /\ finished = [n \in Nodes |-> [s \in Sessions |-> 0]]
  /\ reported = [n \in Nodes |-> [s \in Sessions |-> 0]]
  /\ beats = {}
  /\ assignments = [a \in AsgPartitions |-> <<>>]
  /\ registered = {} /\ fresh = {}
  /\ free = [n \in Nodes |-> 0]
  /\ inflight = [n \in Nodes |-> {}]
  /\ pending = {} /\ paused = {}
  /\ consumer = Idle
  /\ sent = <<>> /\ decided = {} /\ restarts = 0

-----------------------------------------------------------------------------
(* Request consumer: _consume_call_requests *)

\* Mutant: reads on from a partition that is paused.
CanReadPaused(p) ==
  /\ consumer = Idle
  /\ position[p] < Len(requests[p])

\* The message the consumer of an unpaused partition reads next.
CanRead(p) ==
  /\ consumer = Idle
  /\ p \notin paused
  /\ position[p] < Len(requests[p])

\* Mutant: the newest request first.
NewestRequest(p) == requests[p][Len(requests[p]) - position[p]]

NextRequest(p) == requests[p][position[p] + 1]

Consume(p) == position' = [position EXCEPT ![p] = @ + 1]

\* _assign_call up to its first await: the slot is booked before the send.
Book(p, n) ==
  LET s == NextRequest(p) IN
  /\ CanRead(p) /\ s \notin Malformed
  /\ n \in BestNodes
  /\ Consume(p)
  /\ pending' = pending \ {s}
  /\ free' = [free EXCEPT ![n] = @ - 1]
  /\ inflight' = [inflight EXCEPT ![n] = @ \cup {s}]
  /\ consumer' = Sending(p, s, n)
  /\ UNCHANGED <<requests, committed, eventTopics, assignments, registered,
                 fresh, paused, history>>

\* No capacity: remember the request, pause its partition, do not commit.
Park(p) ==
  LET s == NextRequest(p) IN
  /\ CanRead(p) /\ s \notin Malformed
  /\ BestNodes = {}
  /\ Consume(p)
  /\ pending' = pending \cup {s}
  /\ paused' = paused \cup {p}
  /\ decided' = decided \cup {s}
  /\ UNCHANGED <<requests, committed, eventTopics, assignments, registry,
                 consumer, sent, restarts>>

\* Validation fails: the except clause commits past the message.
RejectMalformed(p) ==
  /\ CanRead(p) /\ NextRequest(p) \in Malformed
  /\ Consume(p)
  /\ decided' = decided \cup {NextRequest(p)}
  /\ consumer' = Committing
  /\ UNCHANGED <<requests, committed, eventTopics, assignments, registry,
                 queue, sent, restarts>>

\* The assignment reaches the topic.  notify_call_starting may still fail:
\* both outcomes go on to a commit.
SendAssignment ==
  /\ consumer.at = "sending"
  /\ assignments' =
       [assignments EXCEPT ![NodePartition[consumer.node]] =
          Append(@, [session |-> consumer.session, node |-> consumer.node])]
  /\ sent' = Append(sent, consumer.session)
  /\ decided' = decided \cup {consumer.session}
  /\ consumer' = Committing
  /\ UNCHANGED <<requestTopic, eventTopics, registry, queue, restarts>>

\* The produce raises: the except clause commits; the slot stays booked.
SendFails ==
  /\ "produce" \in Faults
  /\ consumer.at = "sending"
  /\ decided' = decided \cup {consumer.session}
  /\ consumer' = Committing
  /\ UNCHANGED <<requestTopic, eventTopics, assignments, registry, queue, sent,
                 restarts>>

\* Mutant: commits without awaiting the send.
CommitUnawaited ==
  /\ consumer # Idle
  /\ committed' = position
  /\ consumer' = IF consumer = Committing THEN Idle ELSE consumer
  /\ UNCHANGED <<requests, position, eventTopics, assignments, registry, queue,
                 history>>

\* commit() without arguments commits the position of every partition.
Commit ==
  /\ consumer = Committing
  /\ committed' = position
  /\ consumer' = Idle
  /\ UNCHANGED <<requests, position, eventTopics, assignments, registry, queue,
                 history>>

\* Mutant: seeks back to the committed offsets.
CommitFailsSeeks ==
  /\ "commit" \in Faults
  /\ consumer = Committing
  /\ consumer' = Idle
  /\ position' = committed
  /\ UNCHANGED <<requests, committed, eventTopics, assignments, registry, queue,
                 history>>

\* Mutant: the second failure escapes, and the task ends.
CommitFailsRaises ==
  /\ "commit" \in Faults
  /\ consumer = Committing
  /\ consumer' = [at |-> "dead"]
  /\ UNCHANGED <<requestTopic, eventTopics, assignments, registry, queue,
                 history>>

\* A commit that fails twice is dropped.
CommitFails ==
  /\ "commit" \in Faults
  /\ consumer = Committing
  /\ consumer' = Idle
  /\ UNCHANGED <<requestTopic, eventTopics, assignments, registry, queue,
                 history>>

-----------------------------------------------------------------------------
(* Event consumer: _consume_events and its handlers *)

\* _on_gpu_capacity: the report replaces what the scheduler has booked.
HandleCapacity(n) ==
  /\ capacity[n] # <<>>
  /\ capacity' = [capacity EXCEPT ![n] = Tail(@)]
  /\ registered' = registered \cup {n}
  /\ free' = [free EXCEPT ![n] = Head(capacity[n])]
  /\ fresh' = fresh \cup {n}
  /\ UNCHANGED <<requestTopic, finished, beats, reported, assignments, inflight,
                 queue, consumer, history>>

\* Mutant: the call is not taken off the node's books.
HandleFinishedKeepsCall(n, s) ==
  /\ finished[n][s] > 0
  /\ finished' = [finished EXCEPT ![n][s] = @ - 1]
  /\ free' = IF n \in registered THEN [free EXCEPT ![n] = @ + 1] ELSE free
  /\ UNCHANGED <<registered, fresh, inflight>>
  /\ Resume
  /\ UNCHANGED <<requestTopic, capacity, beats, reported, assignments, pending,
                 consumer, history>>

\* Mutant: paused partitions are not looked at.
HandleFinishedNoResume(n, s) ==
  /\ finished[n][s] > 0
  /\ finished' = [finished EXCEPT ![n][s] = @ - 1]
  /\ free' = IF n \in registered THEN [free EXCEPT ![n] = @ + 1] ELSE free
  /\ inflight' = [inflight EXCEPT ![n] = @ \ {s}]
  /\ UNCHANGED <<registered, fresh, paused>>
  /\ UNCHANGED <<requestTopic, capacity, beats, reported, assignments, pending,
                 consumer, history>>

\* _on_call_finished, then _resume_paused_partitions.
HandleFinished(n, s) ==
  /\ finished[n][s] > 0
  /\ finished' = [finished EXCEPT ![n][s] = @ - 1]
  /\ inflight' = IF n \in registered
                 THEN [inflight EXCEPT ![n] = @ \ {s}] ELSE inflight
  /\ free' = IF n \in registered THEN [free EXCEPT ![n] = @ + 1] ELSE free
  /\ UNCHANGED <<registered, fresh>>
  /\ Resume
  /\ UNCHANGED <<requestTopic, capacity, beats, reported, assignments, pending,
                 consumer, history>>

HandleHeartbeat(n) ==
  /\ n \in beats
  /\ beats' = beats \ {n}
  /\ fresh' = IF n \in registered THEN fresh \cup {n} ELSE fresh
  /\ UNCHANGED <<requestTopic, capacity, finished, reported, assignments,
                 registered, free, inflight, queue, consumer, history>>

-----------------------------------------------------------------------------
(* Time, watchdog, restart *)

\* SCHEDULER_NODE_DEAD_TIMEOUT_SEC pass without word from n.
Expire(n) ==
  /\ n \in registered \cap fresh
  /\ fresh' = fresh \ {n}
  /\ UNCHANGED <<requestTopic, eventTopics, assignments, registered, free,
                 inflight, queue, consumer, history>>

\* _dead_node_watchdog: evicts every silent node and what it was running.
EvictDead ==
  LET dead == registered \ fresh IN
  /\ dead # {}
  /\ registered' = registered \ dead
  /\ free' = [n \in Nodes |-> IF n \in dead THEN 0 ELSE free[n]]
  /\ inflight' = [n \in Nodes |-> IF n \in dead THEN {} ELSE inflight[n]]
  /\ UNCHANGED fresh
  /\ Resume
  /\ UNCHANGED <<requestTopic, eventTopics, assignments, pending, consumer,
                 history>>

\* The process dies and starts again: memory is lost, and consumption
\* restarts at the committed offsets.
Restart ==
  /\ restarts < MaxRestarts
  /\ restarts' = restarts + 1
  /\ position' = committed
  /\ registered' = {} /\ fresh' = {}
  /\ free' = [n \in Nodes |-> 0]
  /\ inflight' = [n \in Nodes |-> {}]
  /\ pending' = {} /\ paused' = {}
  /\ consumer' = Idle
  /\ sent' = <<>>
  /\ UNCHANGED <<requests, committed, eventTopics, assignments, decided>>

SchedStep ==
  \/ \E p \in ReqPartitions :
       \/ \E n \in Nodes : Book(p, n)
       \/ Park(p)
       \/ RejectMalformed(p)
  \/ SendAssignment \/ SendFails \/ Commit \/ CommitFails
  \/ \E n \in Nodes :
       \/ HandleCapacity(n)
       \/ \E s \in Sessions : HandleFinished(n, s)
       \/ HandleHeartbeat(n)
  \/ EvictDead

-----------------------------------------------------------------------------
(* Environment: the API submits requests, workers publish events.  Module  *)
(* WorkerService replaces the three worker actions in CallPipeline.        *)

\* submit_call_request succeeds; the key picks a partition.  Each session is
\* submitted once: left out is the request that the SIP bridge sends again,
\* when a send that arrived has raised and its fallback raised too.
Submit(p, s) ==
  /\ \A q \in ReqPartitions : \A i \in 1..Len(requests[q]) : requests[q][i] # s
  /\ requests' = [requests EXCEPT ![p] = Append(@, s)]
  /\ UNCHANGED <<position, committed, eventTopics, assignments, registry, queue,
                 consumer, history>>

ReportCapacity(n, k) ==
  /\ Len(capacity[n]) < TopicBound
  /\ capacity' = [capacity EXCEPT ![n] = Append(@, k)]
  /\ UNCHANGED <<requestTopic, finished, beats, reported, assignments, registry,
                 queue, consumer, history>>

\* A worker publishes one end of a call for each time it was given it.
ReportFinished(n, s) ==
  LET log == assignments[NodePartition[n]] IN
  /\ reported[n][s] <
       Cardinality({i \in DOMAIN log : log[i] = [session |-> s, node |-> n]})
  /\ finished' = [finished EXCEPT ![n][s] = @ + 1]
  /\ reported' = [reported EXCEPT ![n][s] = @ + 1]
  /\ UNCHANGED <<requestTopic, capacity, beats, assignments, registry, queue,
                 consumer, history>>

Beat(n) ==
  /\ beats' = beats \cup {n}
  /\ UNCHANGED <<requestTopic, capacity, finished, reported, assignments, registry,
                 queue, consumer, history>>

EnvStep ==
  \/ \E p \in ReqPartitions, s \in Sessions : Submit(p, s)
  \/ \E n \in Nodes :
       \/ \E k \in 0..MaxCalls : ReportCapacity(n, k)
       \/ \E s \in Sessions : ReportFinished(n, s)
       \/ Beat(n)

Next == SchedStep \/ (\E n \in Nodes : Expire(n)) \/ Restart \/ EnvStep

Spec == Init /\ [][Next]_vars

\* The event loop runs every task that has something to do.  Nothing obliges
\* a commit to succeed, a send to fail, a node to expire or a process to die.
SchedFairness ==
  /\ \A p \in ReqPartitions :
       WF_vars((\E n \in Nodes : Book(p, n)) \/ Park(p) \/ RejectMalformed(p))
  /\ WF_vars(SendAssignment \/ SendFails)
  /\ WF_vars(Commit \/ CommitFails)
  /\ \A n \in Nodes :
       /\ WF_vars(HandleCapacity(n))
       /\ WF_vars(HandleHeartbeat(n))
       /\ \A s \in Sessions : WF_vars(HandleFinished(n, s))
  /\ WF_vars(EvictDead)

FairSpec == Spec /\ SchedFairness

-----------------------------------------------------------------------------
(* Refinement: what the scheduler does to a request is a CallLedger *)

Logged(s) == \E p \in ReqPartitions : \E i \in DOMAIN requests[p] :
               requests[p][i] = s

Assigned(s) == \E a \in AsgPartitions : \E i \in DOMAIN assignments[a] :
                 assignments[a][i].session = s

StageOf(s) == IF Assigned(s) THEN "assigned"
              ELSE IF s \in decided THEN "aside"
              ELSE IF Logged(s) THEN "submitted" ELSE "new"

Ledger == INSTANCE CallLedger WITH
            stage <- [s \in Sessions |-> StageOf(s)],
            crashed <- restarts > 0

-----------------------------------------------------------------------------
(* Properties *)

\* Every variable holds values of its kind.
TypeOK ==
  /\ requests \in [ReqPartitions -> Seq(Sessions)]
  /\ position \in [ReqPartitions -> Nat]
  /\ committed \in [ReqPartitions -> Nat]
  /\ capacity \in [Nodes -> Seq(Nat)]
  /\ finished \in [Nodes -> [Sessions -> Nat]]
  /\ reported \in [Nodes -> [Sessions -> Nat]]
  /\ beats \subseteq Nodes
  /\ assignments \in [AsgPartitions -> Seq(Assignment)]
  /\ registered \subseteq Nodes /\ fresh \subseteq Nodes
  /\ free \in [Nodes -> Nat]
  /\ inflight \in [Nodes -> SUBSET Sessions]
  /\ pending \subseteq Sessions
  /\ paused \subseteq ReqPartitions
  /\ consumer \in ConsumerStates
  /\ sent \in Seq(Sessions)
  /\ decided \subseteq Sessions
  /\ restarts \in Nat

\* An offset is committed only after the scheduler decided what happens to
\* every request below it: no commit, whichever partition it is for, runs
\* ahead of a request still being assigned.
CommittedIsDecided ==
  \A p \in ReqPartitions : \A i \in 1..committed[p] : requests[p][i] \in decided

\* In one life of the scheduler no request is sent to workers twice, whatever
\* is paused, resumed, evicted or re-registered in between.
SentOncePerLife ==
  \A a, b \in DOMAIN sent : sent[a] = sent[b] => a = b

\* In one life the requests of a partition are sent in the order in which
\* they were submitted: a parked request is never overtaken and then sent.
SentInOrder ==
  \A p \in ReqPartitions : \A i, j \in DOMAIN requests[p] :
    \A a, b \in DOMAIN sent :
      (requests[p][i] = sent[a] /\ requests[p][j] = sent[b] /\ i < j) => a < b

\* A call is in the books of at most one node, also after false evictions
\* and re-registrations.
InFlightOnOneNode ==
  \A m, n \in Nodes : m # n => inflight[m] \cap inflight[n] = {}

\* A paused partition stopped right after the request that found no node,
\* and that request is still queued in memory.
PausedAtParked ==
  \A p \in paused :
    position[p] \in DOMAIN requests[p] /\ requests[p][position[p]] \in pending

\* When a live node reports the end of a call, no partition stays paused.
ReleaseResumes ==
  [][\A n \in registered \cap fresh : \A s \in Sessions :
       finished'[n][s] < finished[n][s] => paused' = {}]_vars

\* Every submitted request is read, or waits behind a paused partition.
SubmittedIsReached ==
  \A p \in ReqPartitions : \A s \in Sessions :
    (\E i \in DOMAIN requests[p] : requests[p][i] = s)
      ~> (s \in decided \/ p \in paused)

\* The scheduler implements CallLedger: in particular a request it parked is
\* never assigned in the same life.
ImplementsLedger == Ledger!Spec

-----------------------------------------------------------------------------
(* What the docs and comments of the repository say; the code does not do  *)
(* it, and the README gives an instance on which TLC shows each violated.  *)

\* README.md, "Durable task delegation": a queued request is sent to a worker
\* if there is capacity again and again.
QueuedIsSent ==
  []<>(Candidates # {}) =>
    \A s \in Sessions : s \in pending ~> \E a \in DOMAIN sent : sent[a] = s

\* scheduler.py, "resume when capacity freed": with lasting capacity a paused
\* partition is resumed.
CapacityResumes ==
  <>[](Candidates # {}) =>
    \A p \in ReqPartitions : p \in paused ~> p \notin paused

\* config.py, "manual commit for exactly-once": no request is assigned twice.
ExactlyOnce ==
  \A a, b \in AsgPartitions :
    \A i \in DOMAIN assignments[a], j \in DOMAIN assignments[b] :
      assignments[a][i].session = assignments[b][j].session
        => a = b /\ i = j

-----------------------------------------------------------------------------
(* The inductive invariant behind the safety properties *)

\* s was read from p at or before offset position[p].
ConsumedFrom(p, s) == \E i \in 1..position[p] : requests[p][i] = s

Consumed(s) == \E p \in ReqPartitions : ConsumedFrom(p, s)

\* The request the consumer holds across the await of its send.
Held(s) == consumer.at = "sending" /\ consumer.session = s

LogsDistinct ==
  \A p, q \in ReqPartitions :
    \A i \in DOMAIN requests[p], j \in DOMAIN requests[q] :
      requests[p][i] = requests[q][j] => p = q /\ i = j

OffsetsOrdered ==
  \A p \in ReqPartitions :
    committed[p] <= position[p] /\ position[p] <= Len(requests[p])

\* The held request is the last one read from its partition; its offset is
\* not committed, and its partition is not paused.
HeldIsLast ==
  consumer.at = "sending" =>
    /\ committed[consumer.part] < position[consumer.part]
    /\ requests[consumer.part][position[consumer.part]] = consumer.session
    /\ consumer.part \notin paused

ReadIsDecided ==
  \A p \in ReqPartitions : \A i \in 1..position[p] :
    requests[p][i] \in decided \/ Held(requests[p][i])

SentWasRead ==
  \A a \in DOMAIN sent : Consumed(sent[a]) /\ ~Held(sent[a])

InFlightWasRead ==
  \A n \in Nodes : \A s \in inflight[n] : Consumed(s)

IInv ==
  /\ TypeOK
  /\ LogsDistinct /\ OffsetsOrdered
  /\ HeldIsLast /\ ReadIsDecided
  /\ SentWasRead /\ SentOncePerLife /\ SentInOrder
  /\ InFlightWasRead /\ InFlightOnOneNode
  /\ PausedAtParked

\* What the refinement needs besides: in the first life a decided request was
\* read and is not held, and only submitted requests are assigned.
LedgerInv ==
  /\ \A s \in Sessions : Assigned(s) => s \in decided
  /\ \A s \in decided : Logged(s)
  /\ restarts = 0 => \A s \in decided : Consumed(s) /\ ~Held(s)
=============================================================================
