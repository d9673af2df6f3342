-------------------------- MODULE CallPipelineProofs --------------------------
(***************************************************************************)
(* Theorems about WorkerService, alone and in the pipeline, and about      *)
(* CallPipeline, for every number of sessions, nodes, partitions, slots,   *)
(* attempts, restarts and stops, and every choice of faults.  The          *)
(* scheduler's invariant and its lemmas come from CallSchedulerProofs.     *)
(***************************************************************************)
EXTENDS CallPipeline, CallSchedulerProofs, FiniteSetTheorems, FunctionTheorems

-----------------------------------------------------------------------------
(* Counting *)

\* Products of counts are counts and grow with either factor.
LEMMA Products ==
  ASSUME NEW a \in Nat, NEW b \in Nat, NEW c \in Nat, a <= b
  PROVE  /\ a * c \in Nat /\ c * a \in Nat
         /\ a * c <= b * c /\ c * a <= c * b
         /\ a * (c + 1) = a * c + a
         /\ (a + 1) * c = a * c + c
<1>1. PICK d \in Nat : b = a + d
  <2>. b - a \in Nat /\ b = a + (b - a)
    OBVIOUS
  <2>. QED OBVIOUS
<1>2. /\ a * c \in Nat /\ c * a \in Nat /\ d * c \in Nat /\ c * d \in Nat
  OBVIOUS
<1>3. (a + d) * c = a * c + d * c /\ c * (a + d) = c * a + c * d
  OBVIOUS
<1>4. a * (c + 1) = a * c + a /\ (a + 1) * c = a * c + c
  OBVIOUS
<1>. QED BY <1>1, <1>2, <1>3, <1>4

\* The successor of a count is a count, and grows with it.
LEMMA Successor ==
  \A j, k \in Nat : 1 + k \in Nat /\ (j <= k => 1 + j <= 1 + k)
  OBVIOUS

-----------------------------------------------------------------------------
(* Type correctness of the worker *)

\* The initial state is well typed.
LEMMA WorkerInitTyped == WorkerInit => WorkerTypeOK
<1>. SUFFICES ASSUME WorkerInit PROVE WorkerTypeOK
  OBVIOUS
<1>1. NoAttempts \in [Sessions -> Nat] /\ NoTasks \in [Sessions -> Phases]
  BY DEF NoAttempts, NoTasks, Phases
<1>2. MaxCalls \in Nat
  BY TopicsAssumption
<1>. QED BY <1>1, <1>2 DEF WorkerInit, WorkerTypeOK, Modes

\* A report of k slots, sent or lost.
LEMMA CapacityTyped ==
  ASSUME WorkerTypeOK, NEW n \in Nodes, NEW k \in Nat, PublishCapacity(n, k)
  PROVE  capacity' \in [Nodes -> Seq(Nat)]
<1>1. Append(capacity[n], k) \in Seq(Nat)
  BY DEF WorkerTypeOK
<1>. QED BY <1>1 DEF WorkerTypeOK, PublishCapacity

\* The end of a call, reported or lost.
LEMMA FinishedTyped ==
  ASSUME WorkerTypeOK, NEW n \in Nodes, NEW s \in Sessions,
         \/ PublishFinished(n, s) \/ FinishedLost
         \/ UNCHANGED <<finished, reported>>
  PROVE  /\ finished' \in [Nodes -> [Sessions -> Nat]]
         /\ reported' \in [Nodes -> [Sessions -> Nat]]
<1>1. CASE PublishFinished(n, s)
  <2>1. /\ [finished[n] EXCEPT ![s] = finished[n][s] + 1] \in [Sessions -> Nat]
        /\ [reported[n] EXCEPT ![s] = reported[n][s] + 1] \in [Sessions -> Nat]
    BY DEF WorkerTypeOK
  <2>. QED BY <1>1, <2>1 DEF PublishFinished, WorkerTypeOK
<1>2. CASE FinishedLost \/ UNCHANGED <<finished, reported>>
  BY <1>2 DEF FinishedLost, WorkerTypeOK
<1>. QED BY <1>1, <1>2

\* The message a worker reads next is an entry of the log.
LEMMA MessageTyped ==
  ASSUME WorkerTypeOK, NEW n \in Nodes, Unread(n)
  PROVE  /\ asgPosition[n] + 1 \in DOMAIN Log(n)
         /\ Message(n) \in AnyAssignment
         /\ Message(n).session \in Sessions
         /\ Message(n) = [session |-> Message(n).session,
                          node |-> Message(n).node]
<1>1. Log(n) \in Seq(AnyAssignment) /\ asgPosition[n] \in Nat
  BY TopicsAssumption DEF WorkerTypeOK, Log
<1>2. asgPosition[n] + 1 \in DOMAIN Log(n) /\ Message(n) \in AnyAssignment
  BY <1>1 DEF Unread, Message
<1>. QED BY <1>2 DEF AnyAssignment

\* Free slots are a number of calls.
LEMMA FreeSlotsTyped ==
  ASSUME SlotsRespected, NEW n \in Nodes, NEW k \in Nat
  PROVE  FreeSlots(k, n) \in Nat
<1>1. Cardinality(Active(n)) \in Nat
  BY FS_CardinalityType DEF SlotsRespected
<1>. QED BY <1>1 DEF FreeSlots

\* A call's place and its attempts, when one task moves.
LEMMA TaskTyped ==
  ASSUME WorkerTypeOK, NEW n \in Nodes, NEW s \in Sessions, NEW to \in Phases,
         task' = [task EXCEPT ![n][s] = to],
         \/ UNCHANGED attempts
         \/ attempts' = [attempts EXCEPT ![n][s] = 0]
         \/ attempts' = [attempts EXCEPT ![n][s] = @ + 1]
  PROVE  /\ task' \in [Nodes -> [Sessions -> Phases]]
         /\ attempts' \in [Nodes -> [Sessions -> Nat]]
<1>1. task' \in [Nodes -> [Sessions -> Phases]]
  <2>1. [task[n] EXCEPT ![s] = to] \in [Sessions -> Phases]
    BY DEF WorkerTypeOK
  <2>. QED BY <2>1 DEF WorkerTypeOK
<1>2. attempts' \in [Nodes -> [Sessions -> Nat]]
  <2>1. /\ [attempts[n] EXCEPT ![s] = 0] \in [Sessions -> Nat]
        /\ [attempts[n] EXCEPT ![s] = attempts[n][s] + 1] \in [Sessions -> Nat]
    BY DEF WorkerTypeOK
  <2>. QED BY <2>1 DEF WorkerTypeOK
<1>. QED BY <1>1, <1>2

\* Every step of a worker keeps the types.
LEMMA WorkerStepTyped ==
  ASSUME WorkerTypeOK, SlotsRespected, WorkerStep
  PROVE  WorkerTypeOK'
<1>. USE DEF eventTopics, process, offsets, calls, workerVars
<1>0. /\ Limits \subseteq 0..MaxCalls /\ 0..MaxCalls \subseteq Nat
      /\ \A to \in {"starting", "running", "backoff", "completing", "failing",
                     "none"} : to \in Phases
  BY TopicsAssumption, WorkerAssumption DEF Phases
<1>1. ASSUME NEW n \in Nodes, Start(n) \/ Poll(n)
      PROVE  WorkerTypeOK'
  <2>1. PICK k \in Limits :
          /\ limit' = [limit EXCEPT ![n] = k]
          /\ PublishCapacity(n, k) \/ PublishCapacity(n, FreeSlots(k, n))
    BY <1>1 DEF Start, Poll
  <2>2. k \in 0..MaxCalls /\ k \in Nat /\ FreeSlots(k, n) \in Nat
    BY <1>0, FreeSlotsTyped
  <2>3. capacity' \in [Nodes -> Seq(Nat)]
    BY <2>1, <2>2, CapacityTyped
  <2>4. limit' \in [Nodes -> 0..MaxCalls]
    BY <2>1, <2>2 DEF WorkerTypeOK
  <2>5. mode' \in [Nodes -> Modes] /\ asgPosition' \in [Nodes -> Nat]
    <3>1. CASE Start(n)
      <4>1. asgCommitted[n] \in Nat /\ "up" \in Modes
        BY DEF WorkerTypeOK, Modes
      <4>. QED BY <3>1, <4>1 DEF Start, WorkerTypeOK
    <3>2. CASE Poll(n)
      BY <3>2 DEF Poll, WorkerTypeOK
    <3>. QED BY <1>1, <3>1, <3>2
  <2>6. UNCHANGED <<assignments, finished, reported, beats, stops, asgCommitted,
                    consuming, task, attempts>>
    BY <1>1 DEF Start, Poll
  <2>. QED BY <2>3, <2>4, <2>5, <2>6 DEF WorkerTypeOK
<1>2. ASSUME NEW n \in Nodes, Heartbeat(n) \/ CommitAssignment(n)
      PROVE  WorkerTypeOK'
  <2>1. CASE Heartbeat(n)
    BY <2>1 DEF Heartbeat, WorkerTypeOK
  <2>2. CASE CommitAssignment(n)
    <3>1. /\ consuming' \in [Nodes -> {"idle", "committing"}]
          /\ asgCommitted' \in [Nodes -> Nat]
      BY <2>2 DEF CommitAssignment, WorkerTypeOK
    <3>. QED BY <2>2, <3>1 DEF CommitAssignment, WorkerTypeOK
  <2>. QED BY <1>2, <2>1, <2>2
<1>3. ASSUME NEW n \in Nodes, Sigterm(n) \/ StopMonitor(n)
      PROVE  WorkerTypeOK'
  <2>1. mode' \in [Nodes -> Modes]
    BY <1>3 DEF Sigterm, StopMonitor, WorkerTypeOK, Modes
  <2>3. stops' \in Nat
    BY <1>3 DEF Sigterm, StopMonitor, WorkerTypeOK
  <2>2. UNCHANGED <<assignments, eventTopics, offsets, limit, calls>>
    BY <1>3 DEF Sigterm, StopMonitor
  <2>. QED BY <2>1, <2>2, <2>3 DEF WorkerTypeOK
<1>4. ASSUME NEW n \in Nodes, ConsumerExits(n)
      PROVE  WorkerTypeOK'
  <2>1. capacity' \in [Nodes -> Seq(Nat)]
    BY <1>4, CapacityTyped DEF ConsumerExits
  <2>2. mode' \in [Nodes -> Modes] /\ asgPosition' \in [Nodes -> Nat]
    BY <1>4 DEF ConsumerExits, WorkerTypeOK, Modes
  <2>3. UNCHANGED <<assignments, finished, beats, reported, stops, asgCommitted,
                    consuming, limit, calls>>
    BY <1>4 DEF ConsumerExits
  <2>. QED BY <2>1, <2>2, <2>3 DEF WorkerTypeOK
<1>5. ASSUME NEW n \in Nodes, FinishDrain(n) \/ Crash(n)
      PROVE  WorkerTypeOK'
  <2>1. /\ Gone(n)
        /\ UNCHANGED <<assignments, eventTopics, asgPosition, asgCommitted,
                       limit>>
        /\ stops' \in Nat
    BY <1>5 DEF FinishDrain, Crash, WorkerTypeOK
  <2>2. mode' \in [Nodes -> Modes]
    BY <2>1 DEF Gone, WorkerTypeOK, Modes
  <2>3. consuming' \in [Nodes -> {"idle", "committing"}]
    BY <2>1 DEF Gone, WorkerTypeOK
  <2>4. task' \in [Nodes -> [Sessions -> Phases]]
    BY <1>0, <2>1 DEF Gone, NoTasks, WorkerTypeOK
  <2>5. attempts' \in [Nodes -> [Sessions -> Nat]]
    BY <2>1 DEF Gone, NoAttempts, WorkerTypeOK
  <2>. QED BY <2>1, <2>2, <2>3, <2>4, <2>5 DEF WorkerTypeOK
<1>6. ASSUME NEW n \in Nodes,
             SkipForeign(n) \/ RejectOverload(n) \/ SkipDuplicate(n) \/ Launch(n)
      PROVE  WorkerTypeOK'
  <2>1. Receive(n)
    BY <1>6 DEF SkipForeign, RejectOverload, SkipDuplicate, Launch
  <2>2. Message(n).session \in Sessions
    BY <2>1, MessageTyped DEF Receive
  <2>3. /\ asgPosition' \in [Nodes -> Nat]
        /\ consuming' \in [Nodes -> {"idle", "committing"}]
        /\ UNCHANGED <<assignments, asgCommitted, process, limit>>
    BY <2>1 DEF Receive, WorkerTypeOK
  <2>4. UNCHANGED <<capacity, beats>>
    BY <1>6 DEF SkipForeign, RejectOverload, SkipDuplicate, Launch
  <2>5. /\ finished' \in [Nodes -> [Sessions -> Nat]]
        /\ reported' \in [Nodes -> [Sessions -> Nat]]
    <3>1. \/ PublishFinished(n, Message(n).session) \/ FinishedLost
          \/ UNCHANGED <<finished, reported>>
      BY <1>6 DEF SkipForeign, RejectOverload, SkipDuplicate, Launch
    <3>. QED BY <2>2, <3>1, FinishedTyped
  <2>6. /\ task' \in [Nodes -> [Sessions -> Phases]]
        /\ attempts' \in [Nodes -> [Sessions -> Nat]]
    <3>1. CASE Launch(n)
      BY <1>0, <2>2, <3>1, TaskTyped DEF Launch
    <3>2. CASE SkipForeign(n) \/ RejectOverload(n) \/ SkipDuplicate(n)
      BY <3>2 DEF SkipForeign, RejectOverload, SkipDuplicate, WorkerTypeOK
    <3>. QED BY <1>6, <3>1, <3>2
  <2>. QED BY <2>3, <2>4, <2>5, <2>6 DEF WorkerTypeOK
<1>7. ASSUME NEW n \in Nodes, NEW s \in Sessions,
             BeginRun(n, s) \/ AttemptSucceeds(n, s) \/ AttemptFails(n, s)
               \/ EndBackoff(n, s)
      PROVE  WorkerTypeOK'
  <2>1. /\ \E to \in Phases : task' = [task EXCEPT ![n][s] = to]
        /\ \/ UNCHANGED attempts
           \/ attempts' = [attempts EXCEPT ![n][s] = @ + 1]
    BY <1>0, <1>7
       DEF BeginRun, AttemptSucceeds, AttemptFails, EndBackoff, Move, Attempt
  <2>2. UNCHANGED <<assignments, eventTopics, process, offsets, limit>>
    BY <1>7 DEF BeginRun, AttemptSucceeds, AttemptFails, EndBackoff
  <2>3. /\ task' \in [Nodes -> [Sessions -> Phases]]
        /\ attempts' \in [Nodes -> [Sessions -> Nat]]
    BY <2>1, TaskTyped
  <2>. QED BY <2>2, <2>3 DEF WorkerTypeOK
<1>8. ASSUME NEW n \in Nodes, NEW s \in Sessions, PublishEnd(n, s)
      PROVE  WorkerTypeOK'
  <2>1. /\ task' = [task EXCEPT ![n][s] = "none"]
        /\ attempts' = [attempts EXCEPT ![n][s] = 0]
        /\ PublishFinished(n, s) \/ FinishedLost
        /\ UNCHANGED <<assignments, capacity, beats, process, offsets, limit>>
    BY <1>8 DEF PublishEnd, Move
  <2>2. /\ task' \in [Nodes -> [Sessions -> Phases]]
        /\ attempts' \in [Nodes -> [Sessions -> Nat]]
    BY <1>0, <2>1, TaskTyped
  <2>3. /\ finished' \in [Nodes -> [Sessions -> Nat]]
        /\ reported' \in [Nodes -> [Sessions -> Nat]]
    BY <2>1, FinishedTyped
  <2>. QED BY <2>1, <2>2, <2>3 DEF WorkerTypeOK
<1>. QED BY <1>1, <1>2, <1>3, <1>4, <1>5, <1>6, <1>7, <1>8
         DEF WorkerStep, ConsumerStep, TaskStep

-----------------------------------------------------------------------------
(* What a worker was asked and what it may still report *)

\* The counts that EndsCounted compares are numbers.
LEMMA CountsTyped ==
  ASSUME WorkerInv, NEW n \in Nodes, NEW s \in Sessions
  PROVE  /\ IsFiniteSet(Unheard(n, s))
         /\ Cardinality(Asked(n, s)) \in Nat
         /\ Cardinality(Unheard(n, s)) \in Nat
         /\ Cardinality(Unheard(n, s)) <= Cardinality(Asked(n, s))
         /\ reported[n][s] \in Nat /\ finished[n][s] \in Nat
         /\ stops \in Nat /\ Lives(n) \in Nat
         /\ OpenEnds(n, s) \in Nat
<1>1. IsFiniteSet(Asked(n, s)) /\ Unheard(n, s) \in SUBSET Asked(n, s)
  BY DEF WorkerInv, EndsCounted, Unheard
<1>2. /\ IsFiniteSet(Unheard(n, s))
      /\ Cardinality(Unheard(n, s)) <= Cardinality(Asked(n, s))
  BY <1>1, FS_Subset
<1>3. Cardinality(Asked(n, s)) \in Nat /\ Cardinality(Unheard(n, s)) \in Nat
  BY <1>1, <1>2, FS_CardinalityType
<1>4. reported[n][s] \in Nat /\ finished[n][s] \in Nat /\ stops \in Nat
  BY DEF WorkerInv, WorkerTypeOK
<1>. QED BY <1>2, <1>3, <1>4 DEF Lives, OpenEnds

\* While the logs stay, what was asked stays.
LEMMA AskedStays ==
  ASSUME UNCHANGED assignments
  PROVE  /\ \A n \in Nodes : Log(n)' = Log(n)
         /\ \A n \in Nodes, s \in Sessions : Asked(n, s)' = Asked(n, s)
  BY DEF Log, Asked

\* Lives are numbers after a step, too.
LEMMA LivesTyped ==
  ASSUME WorkerTypeOK', NEW n \in Nodes
  PROVE  Lives(n)' \in Nat
<1>1. stops' \in Nat
  BY DEF WorkerTypeOK
<1>2. 1 + stops' \in Nat
  BY <1>1, Successor
<1>3. CASE mode'[n] = "up"
  BY <1>2, <1>3 DEF Lives
<1>4. CASE mode'[n] # "up"
  BY <1>1, <1>4 DEF Lives
<1>. QED BY <1>3, <1>4

\* What was asked stays, no life is lost, and what is reported and still open
\* does not grow.
LEMMA EndsKept ==
  ASSUME WorkerInv, WorkerTypeOK', UNCHANGED assignments,
         \A n \in Nodes : Lives(n) <= Lives(n)',
         \A n \in Nodes, s \in Sessions :
           /\ reported'[n][s] + OpenEnds(n, s)' <= reported[n][s] + OpenEnds(n, s)
           /\ finished'[n][s] <= reported'[n][s]
  PROVE  EndsCounted'
<1>1. SUFFICES ASSUME NEW n \in Nodes, NEW s \in Sessions
               PROVE  /\ IsFiniteSet(Asked(n, s)')
                      /\ reported'[n][s] + OpenEnds(n, s)'
                           <= Cardinality(Asked(n, s)') * Lives(n)'
                      /\ finished'[n][s] <= reported'[n][s]
  BY DEF EndsCounted
<1>2. Asked(n, s)' = Asked(n, s) /\ IsFiniteSet(Asked(n, s))
  BY AskedStays DEF WorkerInv, EndsCounted
<1>3. /\ Cardinality(Asked(n, s)) \in Nat /\ Lives(n) \in Nat
      /\ reported[n][s] \in Nat /\ OpenEnds(n, s) \in Nat
  BY CountsTyped
<1>4. Lives(n)' \in Nat /\ reported'[n][s] \in Nat
  BY LivesTyped DEF WorkerTypeOK
<1>5. OpenEnds(n, s)' \in Nat
  <2>1. Unheard(n, s)' \in SUBSET Asked(n, s)
    BY <1>2 DEF Unheard
  <2>2. Cardinality(Unheard(n, s)') \in Nat
    BY <1>2, <2>1, FS_Subset, FS_CardinalityType
  <2>. QED BY <2>2 DEF OpenEnds
<1>6. /\ Cardinality(Asked(n, s)) * Lives(n)
            <= Cardinality(Asked(n, s)) * Lives(n)'
      /\ Cardinality(Asked(n, s)) * Lives(n) \in Nat
      /\ Cardinality(Asked(n, s)) * Lives(n)' \in Nat
  BY <1>3, <1>4, Products
<1>7. reported[n][s] + OpenEnds(n, s) <= Cardinality(Asked(n, s)) * Lives(n)
  BY DEF WorkerInv, EndsCounted
<1>8. reported'[n][s] + OpenEnds(n, s)' <= Cardinality(Asked(n, s)) * Lives(n)'
  BY <1>3, <1>4, <1>5, <1>6, <1>7
<1>. QED BY <1>2, <1>8

\* Reading a message takes it out of what is unheard, and nothing else.
LEMMA ReadOne ==
  ASSUME WorkerInv, NEW n \in Nodes, Unread(n), UNCHANGED assignments,
         asgPosition' = [asgPosition EXCEPT ![n] = @ + 1],
         NEW m \in Nodes, NEW s \in Sessions
  PROVE  /\ Cardinality(Unheard(m, s)') =
              IF m = n /\ Message(n) = [session |-> s, node |-> n]
              THEN Cardinality(Unheard(m, s)) - 1 ELSE Cardinality(Unheard(m, s))
         /\ IF m = n /\ Message(n) = [session |-> s, node |-> n]
            THEN Unheard(m, s) # {} ELSE Unheard(m, s)' = Unheard(m, s)
<1>. DEFINE i == asgPosition[n] + 1
<1>1. asgPosition[m] \in Nat /\ asgPosition[n] \in Nat
  BY DEF WorkerInv, WorkerTypeOK
<1>2. asgPosition'[m] = IF m = n THEN i ELSE asgPosition[m]
  BY DEF WorkerInv, WorkerTypeOK
<1>3. Asked(m, s)' = Asked(m, s)
  BY AskedStays
<1>4. CASE m # n
  BY <1>2, <1>3, <1>4 DEF Unheard
<1>5. CASE m = n
  <2>1. \A j \in Asked(n, s) : j \in Nat
    <3>1. Log(n) \in Seq(AnyAssignment)
      BY TopicsAssumption DEF WorkerInv, WorkerTypeOK, Log
    <3>. QED BY <3>1 DEF Asked
  <2>2. Unheard(n, s)' = Unheard(n, s) \ {i}
    BY <1>1, <1>2, <1>3, <1>5, <2>1 DEF Unheard
  <2>3. i \in Unheard(n, s) <=> Message(n) = [session |-> s, node |-> n]
    BY <1>1, MessageTyped DEF WorkerInv, Unheard, Asked, Message
  <2>4. IsFiniteSet(Unheard(n, s))
    BY CountsTyped
  <2>5. CASE Message(n) = [session |-> s, node |-> n]
    BY <1>5, <2>2, <2>3, <2>4, <2>5, FS_RemoveElement
  <2>6. CASE Message(n) # [session |-> s, node |-> n]
    <3>1. Unheard(n, s)' = Unheard(n, s)
      BY <2>2, <2>3, <2>6
    <3>. QED BY <1>5, <2>6, <3>1
  <2>. QED BY <2>5, <2>6
<1>. QED BY <1>4, <1>5

\* Slots stay respected when calls only leave them.
LEMMA SlotsKept ==
  ASSUME SlotsRespected, \A n \in Nodes : Active(n)' \subseteq Active(n)
  PROVE  SlotsRespected'
<1>1. SUFFICES ASSUME NEW n \in Nodes
               PROVE  /\ IsFiniteSet(Active(n)')
                      /\ Cardinality(Active(n)') <= MaxCalls
  BY DEF SlotsRespected
<1>2. IsFiniteSet(Active(n)) /\ Cardinality(Active(n)) <= MaxCalls
  BY DEF SlotsRespected
<1>3. /\ IsFiniteSet(Active(n)')
      /\ Cardinality(Active(n)') <= Cardinality(Active(n))
  BY <1>2, FS_Subset
<1>4. Cardinality(Active(n)) \in Nat /\ Cardinality(Active(n)') \in Nat
  BY <1>2, <1>3, FS_CardinalityType
<1>. QED BY <1>2, <1>3, <1>4, TopicsAssumption

-----------------------------------------------------------------------------
(* The invariant of the worker, shape of step by shape of step *)

\* Polls, heartbeats, commits and whatever reads the events: nothing that a
\* worker is asked, runs or reports changes.
LEMMA QuietKeeps ==
  ASSUME WorkerInv, WorkerTypeOK',
         UNCHANGED <<assignments, mode, stops, asgPosition, task, attempts,
                     reported>>,
         \A n \in Nodes : asgCommitted'[n] \in {asgCommitted[n], asgPosition[n]},
         \A n \in Nodes, s \in Sessions : finished'[n][s] <= finished[n][s]
  PROVE  WorkerInv'
<1>1. LivesCounted' /\ DownIsEmpty' /\ RetriesBounded' /\ SlotsRespected'
  BY DEF WorkerInv, LivesCounted, DownIsEmpty, RetriesBounded, SlotsRespected,
         Active
<1>2. AsgOffsetsOrdered'
  <2>1. SUFFICES ASSUME NEW n \in Nodes
                 PROVE  /\ asgCommitted'[n] <= asgPosition[n]
                        /\ asgPosition[n] <= Len(Log(n))
    BY AskedStays DEF AsgOffsetsOrdered
  <2>2. /\ asgCommitted[n] <= asgPosition[n] /\ asgPosition[n] <= Len(Log(n))
        /\ asgPosition[n] \in Nat
    BY DEF WorkerInv, WorkerTypeOK, AsgOffsetsOrdered
  <2>. QED BY <2>2
<1>3. \A n \in Nodes, s \in Sessions :
        Asked(n, s)' = Asked(n, s) /\ Unheard(n, s)' = Unheard(n, s)
  BY AskedStays DEF Unheard
<1>4. TasksWereAsked'
  BY <1>3 DEF WorkerInv, TasksWereAsked
<1>5. EndsCounted'
  <2>1. \A n \in Nodes : Lives(n)' = Lives(n)
    BY DEF Lives
  <2>2. \A n \in Nodes, s \in Sessions : OpenEnds(n, s)' = OpenEnds(n, s)
    BY <1>3 DEF OpenEnds
  <2>3. SUFFICES ASSUME NEW n \in Nodes, NEW s \in Sessions
                 PROVE  /\ IsFiniteSet(Asked(n, s))
                        /\ reported[n][s] + OpenEnds(n, s)
                              <= Cardinality(Asked(n, s)) * Lives(n)
                        /\ finished'[n][s] <= reported[n][s]
    BY <1>3, <2>1, <2>2 DEF EndsCounted
  <2>4. /\ finished[n][s] \in Nat /\ finished'[n][s] \in Nat
        /\ reported[n][s] \in Nat /\ finished[n][s] <= reported[n][s]
    BY DEF WorkerInv, WorkerTypeOK, EndsCounted
  <2>5. finished'[n][s] <= finished[n][s]
    OBVIOUS
  <2>. QED BY <2>4, <2>5 DEF WorkerInv, EndsCounted
<1>. QED BY <1>1, <1>2, <1>4, <1>5 DEF WorkerInv

\* The life of a process: SIGTERM, the way to the drain, and its end.
LEMMA ProcessKeeps ==
  ASSUME WorkerInv, WorkerTypeOK', NEW n \in Nodes,
         \/ Sigterm(n) \/ ConsumerExits(n) \/ StopMonitor(n)
         \/ FinishDrain(n) \/ Crash(n)
  PROVE  WorkerInv'
<1>. USE DEF eventTopics, offsets, calls
<1>0. /\ mode \in [Nodes -> Modes] /\ stops \in Nat
      /\ task \in [Nodes -> [Sessions -> Phases]]
      /\ attempts \in [Nodes -> [Sessions -> Nat]]
      /\ asgPosition \in [Nodes -> Nat]
  BY DEF WorkerInv, WorkerTypeOK
<1>1. UNCHANGED <<assignments, reported, finished, asgCommitted>>
  BY DEF Sigterm, ConsumerExits, StopMonitor, FinishDrain, Crash
<1>2. /\ \A m \in Nodes : m # n => mode'[m] = mode[m]
      /\ mode[n] # "down" /\ mode'[n] # "up"
      /\ stops' \in {stops, stops + 1}
      /\ mode[n] = "up" => stops' = stops + 1
  BY <1>0 DEF Sigterm, ConsumerExits, StopMonitor, FinishDrain, Crash, Gone
<1>3. LivesCounted'
  <2>1. \A m \in Nodes : mode[m] \in Modes
    BY <1>0
  <2>. QED BY <1>0, <1>2, <2>1 DEF WorkerInv, LivesCounted, Modes
<1>4. \/ UNCHANGED <<task, attempts>> /\ mode'[n] # "down"
      \/ /\ mode'[n] = "down"
         /\ task' = [task EXCEPT ![n] = NoTasks]
         /\ attempts' = [attempts EXCEPT ![n] = NoAttempts]
  BY <1>0 DEF Sigterm, ConsumerExits, StopMonitor, FinishDrain, Crash, Gone
<1>5. \A m \in Nodes, s \in Sessions :
        \/ task'[m][s] = task[m][s] /\ attempts'[m][s] = attempts[m][s]
        \/ m = n /\ task'[m][s] = "none" /\ attempts'[m][s] = 0
  BY <1>0, <1>4 DEF NoTasks, NoAttempts
<1>6. DownIsEmpty'
  BY <1>0, <1>2, <1>4 DEF WorkerInv, DownIsEmpty
<1>7. asgPosition' = asgPosition \/ ConsumerExits(n)
  BY DEF Sigterm, StopMonitor, FinishDrain, Crash
<1>8. AsgOffsetsOrdered'
  <2>1. CASE asgPosition' = asgPosition
    BY <1>1, <2>1, AskedStays DEF WorkerInv, AsgOffsetsOrdered
  <2>2. CASE ConsumerExits(n)
    <3>1. /\ asgPosition' = [asgPosition EXCEPT ![n] = @ + 1]
          /\ asgPosition[n] < Len(Log(n))
      BY <2>2 DEF ConsumerExits, Unread
    <3>2. \A m \in Nodes :
            /\ asgCommitted[m] \in Nat
            /\ asgCommitted[m] <= asgPosition[m] /\ asgPosition[m] <= Len(Log(m))
      BY DEF WorkerInv, WorkerTypeOK, AsgOffsetsOrdered
    <3>3. \A m \in Nodes : Len(Log(m)) \in Nat
      BY TopicsAssumption DEF WorkerInv, WorkerTypeOK, Log
    <3>. QED BY <1>0, <1>1, <3>1, <3>2, <3>3, AskedStays DEF AsgOffsetsOrdered
  <2>. QED BY <1>7, <2>1, <2>2
<1>9. SlotsRespected'
  <2>1. \A m \in Nodes : Active(m)' \subseteq Active(m)
    BY <1>5 DEF Active
  <2>. QED BY <2>1, SlotsKept DEF WorkerInv
<1>10. RetriesBounded'
  <2>1. MaxRetry \in Nat
    BY WorkerAssumption
  <2>. QED BY <1>5, <2>1 DEF WorkerInv, RetriesBounded
<1>11. TasksWereAsked'
  BY <1>1, <1>5, AskedStays DEF WorkerInv, TasksWereAsked
<1>12. EndsCounted'
  <2>1. ASSUME NEW m \in Nodes PROVE Lives(m) <= Lives(m)'
    <3>1. CASE m = n
      BY <1>0, <1>2, <3>1 DEF Lives
    <3>2. CASE m # n
      <4>1. mode'[m] = mode[m] /\ stops <= stops' /\ stops' \in Nat
        BY <1>0, <1>2, <3>2
      <4>2. Lives(m)' = IF mode[m] = "up" THEN 1 + stops' ELSE stops'
        BY <4>1 DEF Lives
      <4>3. 1 + stops <= 1 + stops'
        BY <1>0, <4>1, Successor
      <4>. QED BY <4>1, <4>2, <4>3 DEF Lives
    <3>. QED BY <3>1, <3>2
  <2>2. ASSUME NEW m \in Nodes, NEW s \in Sessions
        PROVE  OpenEnds(m, s)' <= OpenEnds(m, s) /\ OpenEnds(m, s)' \in Nat
    <3>1. /\ Cardinality(Unheard(m, s)) \in Nat
          /\ OpenEnds(m, s) \in Nat
      BY CountsTyped
    <3>2. /\ Cardinality(Unheard(m, s)') \in Nat
          /\ Cardinality(Unheard(m, s)') <= Cardinality(Unheard(m, s))
      <4>1. CASE asgPosition' = asgPosition
        <5>1. Unheard(m, s)' = Unheard(m, s)
          BY <1>1, <4>1, AskedStays DEF Unheard
        <5>. QED BY <3>1, <5>1
      <4>2. CASE ConsumerExits(n)
        <5>1. Unheard(m, s)' \in SUBSET Unheard(m, s)
          <6>1. Asked(m, s)' = Asked(m, s)
            BY <1>1, AskedStays
          <6>2. \A i \in Asked(m, s) : i \in Nat
            <7>1. Log(m) \in Seq(AnyAssignment)
              BY TopicsAssumption DEF WorkerInv, WorkerTypeOK, Log
            <7>. QED BY <7>1 DEF Asked
          <6>3. asgPosition[m] <= asgPosition'[m] /\ asgPosition'[m] \in Nat
            BY <1>0, <4>2 DEF ConsumerExits
          <6>. QED BY <1>0, <6>1, <6>2, <6>3 DEF Unheard
        <5>2. IsFiniteSet(Unheard(m, s))
          BY CountsTyped
        <5>. QED BY <5>1, <5>2, FS_Subset, FS_CardinalityType
      <4>. QED BY <1>7, <4>1, <4>2
    <3>3. mode[m] = "down" => m # n
      BY <1>2
    <3>. QED BY <1>2, <1>4, <1>5, <3>1, <3>2, <3>3 DEF OpenEnds
  <2>3. \A m \in Nodes, s \in Sessions :
          /\ reported'[m][s] + OpenEnds(m, s)' <= reported[m][s] + OpenEnds(m, s)
          /\ finished'[m][s] <= reported'[m][s]
    <3>1. ASSUME NEW m \in Nodes, NEW s \in Sessions
          PROVE  /\ reported[m][s] \in Nat /\ OpenEnds(m, s) \in Nat
                 /\ finished[m][s] <= reported[m][s]
      BY CountsTyped DEF WorkerInv, EndsCounted
    <3>. QED BY <1>1, <2>2, <3>1
  <2>. QED BY <1>1, <2>1, <2>3, EndsKept
<1>. QED BY <1>3, <1>6, <1>8, <1>9, <1>10, <1>11, <1>12 DEF WorkerInv

\* A process comes up: all it was asked and has not committed is open again,
\* which one more life pays for.
LEMMA StartKeeps ==
  ASSUME WorkerInv, WorkerTypeOK', NEW n \in Nodes, Start(n)
  PROVE  WorkerInv'
<1>0. /\ mode \in [Nodes -> Modes] /\ stops \in Nat
      /\ asgPosition \in [Nodes -> Nat] /\ asgCommitted \in [Nodes -> Nat]
      /\ task \in [Nodes -> [Sessions -> Phases]]
  BY DEF WorkerInv, WorkerTypeOK
<1>1. UNCHANGED <<assignments, finished, reported, stops, asgCommitted, task,
                  attempts>>
  BY DEF Start, calls
<1>2. mode[n] = "down" /\ \A m \in Nodes :
        /\ mode'[m] = IF m = n THEN "up" ELSE mode[m]
        /\ asgPosition'[m] = IF m = n THEN asgCommitted[n] ELSE asgPosition[m]
  BY <1>0 DEF Start
<1>3. /\ LivesCounted' /\ DownIsEmpty' /\ RetriesBounded' /\ SlotsRespected'
      /\ TasksWereAsked'
  BY <1>1, <1>2, AskedStays
     DEF WorkerInv, LivesCounted, DownIsEmpty, RetriesBounded, SlotsRespected,
         Active, TasksWereAsked
<1>4. AsgOffsetsOrdered'
  <2>1. SUFFICES ASSUME NEW m \in Nodes
                 PROVE  /\ asgCommitted[m] <= asgPosition'[m]
                        /\ asgPosition'[m] <= Len(Log(m))
    BY <1>1, AskedStays DEF AsgOffsetsOrdered
  <2>2. /\ asgCommitted[m] <= asgPosition[m] /\ asgPosition[m] <= Len(Log(m))
        /\ asgCommitted[m] \in Nat /\ asgPosition[m] \in Nat
        /\ Len(Log(m)) \in Nat
    BY <1>0, TopicsAssumption DEF WorkerInv, WorkerTypeOK, AsgOffsetsOrdered, Log
  <2>. QED BY <1>2, <2>2
<1>5. EndsCounted'
  <2>1. SUFFICES ASSUME NEW m \in Nodes, NEW s \in Sessions
                 PROVE  /\ IsFiniteSet(Asked(m, s)')
                        /\ reported[m][s] + OpenEnds(m, s)'
                             <= Cardinality(Asked(m, s)') * Lives(m)'
                        /\ finished[m][s] <= reported[m][s]
    BY <1>1 DEF EndsCounted
  <2>2. /\ Asked(m, s)' = Asked(m, s) /\ IsFiniteSet(Asked(m, s))
        /\ reported[m][s] + OpenEnds(m, s)
             <= Cardinality(Asked(m, s)) * Lives(m)
        /\ finished[m][s] <= reported[m][s]
    BY <1>1, AskedStays DEF WorkerInv, EndsCounted
  <2>3. Cardinality(Asked(m, s)) \in Nat /\ reported[m][s] \in Nat
    BY CountsTyped
  <2>4. CASE m = n
    <3>1. Unheard(n, s)' \in SUBSET Asked(n, s)
      BY <1>1, AskedStays DEF Unheard
    <3>2. /\ Cardinality(Unheard(n, s)') <= Cardinality(Asked(n, s))
          /\ Cardinality(Unheard(n, s)') \in Nat
      BY <2>2, <2>4, <3>1, FS_Subset, FS_CardinalityType
    <3>3. task[n][s] = "none"
      BY <1>2 DEF WorkerInv, DownIsEmpty, NoTasks
    <3>4. /\ OpenEnds(n, s) = 0 /\ Lives(n) = stops
          /\ OpenEnds(n, s)' = Cardinality(Unheard(n, s)') /\ Lives(n)' = stops + 1
      <4>1. mode[n] = "down" /\ mode'[n] = "up" /\ task'[n][s] = "none"
        BY <1>1, <1>2, <3>3
      <4>2. OpenEnds(n, s) = 0 /\ Lives(n) = stops
        BY <4>1 DEF OpenEnds, Lives
      <4>3. OpenEnds(n, s)' = Cardinality(Unheard(n, s)') + 0
        BY <4>1 DEF OpenEnds
      <4>4. Lives(n)' = 1 + stops
        BY <1>1, <4>1 DEF Lives
      <4>. QED BY <1>0, <3>2, <4>2, <4>3, <4>4
    <3>5. /\ Cardinality(Asked(n, s)) * (stops + 1)
               = Cardinality(Asked(n, s)) * stops + Cardinality(Asked(n, s))
          /\ Cardinality(Asked(n, s)) * stops \in Nat
      BY <1>0, <2>3, <2>4, Products
    <3>6. reported[n][s] <= Cardinality(Asked(n, s)) * stops
      BY <2>2, <2>3, <2>4, <3>4
    <3>7. reported[n][s] + Cardinality(Unheard(n, s)')
            <= Cardinality(Asked(n, s)) * stops + Cardinality(Asked(n, s))
      BY <2>3, <2>4, <3>2, <3>5, <3>6
    <3>. QED BY <2>2, <2>4, <3>4, <3>5, <3>7
  <2>5. CASE m # n
    <3>1. mode'[m] = mode[m] /\ asgPosition'[m] = asgPosition[m]
      BY <1>2, <2>5
    <3>2. Unheard(m, s)' = Unheard(m, s)
      BY <2>2, <3>1 DEF Unheard
    <3>3. OpenEnds(m, s)' = OpenEnds(m, s) /\ Lives(m)' = Lives(m)
      BY <1>1, <3>1, <3>2 DEF OpenEnds, Lives
    <3>. QED BY <2>2, <3>3
  <2>. QED BY <2>4, <2>5
<1>. QED BY <1>3, <1>4, <1>5 DEF WorkerInv

\* One call is reported ended, or the report is lost: no other count moves.
LEMMA ReportedOnce ==
  ASSUME WorkerInv, NEW n \in Nodes, NEW s \in Sessions,
         \/ PublishFinished(n, s) \/ FinishedLost
         \/ UNCHANGED <<finished, reported>>
  PROVE  \A m \in Nodes, t \in Sessions :
           /\ reported'[m][t] \in {reported[m][t], reported[m][t] + 1}
           /\ reported'[m][t] # reported[m][t] => m = n /\ t = s
           /\ finished'[m][t] <= reported'[m][t]
<1>1. SUFFICES ASSUME NEW m \in Nodes, NEW t \in Sessions
               PROVE  /\ reported'[m][t] \in {reported[m][t], reported[m][t] + 1}
                      /\ reported'[m][t] # reported[m][t] => m = n /\ t = s
                      /\ finished'[m][t] <= reported'[m][t]
  OBVIOUS
<1>2. /\ finished[m][t] \in Nat /\ reported[m][t] \in Nat
      /\ finished[m][t] <= reported[m][t]
  BY CountsTyped DEF WorkerInv, EndsCounted
<1>3. CASE PublishFinished(n, s)
  <2>1. /\ reported'[m][t] = IF m = n /\ t = s THEN reported[m][t] + 1
                                               ELSE reported[m][t]
        /\ finished'[m][t] = IF m = n /\ t = s THEN finished[m][t] + 1
                                               ELSE finished[m][t]
    BY <1>3 DEF PublishFinished, WorkerInv, WorkerTypeOK
  <2>. QED BY <1>2, <2>1
<1>4. CASE FinishedLost \/ UNCHANGED <<finished, reported>>
  BY <1>2, <1>4 DEF FinishedLost
<1>. QED BY <1>3, <1>4

\* A message is read: what it asks for is refused or begun, and one entry less
\* is unheard.
LEMMA ReadKeeps ==
  ASSUME WorkerInv, WorkerTypeOK', SlotsRespected', NEW n \in Nodes, Receive(n),
         \A m \in Nodes, s \in Sessions :
           /\ finished'[m][s] <= reported'[m][s]
           /\ \/ /\ task'[m][s] = task[m][s] /\ attempts'[m][s] = attempts[m][s]
                 /\ reported'[m][s] = reported[m][s]
              \/ /\ m = n /\ Message(n) = [session |-> s, node |-> n]
                 /\ \/ /\ task'[m][s] = task[m][s]
                       /\ attempts'[m][s] = attempts[m][s]
                       /\ reported'[m][s] = reported[m][s] + 1
                    \/ /\ task'[m][s] = "starting" /\ attempts'[m][s] = 0
                       /\ \/ reported'[m][s] = reported[m][s]
                          \/ /\ task[m][s] # "none"
                             /\ reported'[m][s] = reported[m][s] + 1
  PROVE  WorkerInv'
<1>. USE DEF process, offsets
<1>0. /\ asgPosition \in [Nodes -> Nat] /\ stops \in Nat /\ MaxRetry \in Nat
      /\ task \in [Nodes -> [Sessions -> Phases]]
      /\ attempts \in [Nodes -> [Sessions -> Nat]]
  BY WorkerAssumption DEF WorkerInv, WorkerTypeOK
<1>1. /\ mode[n] = "up" /\ Unread(n)
      /\ asgPosition' = [asgPosition EXCEPT ![n] = @ + 1]
      /\ UNCHANGED <<assignments, asgCommitted, mode, stops>>
  BY DEF Receive
<1>2. LivesCounted'
  BY <1>1 DEF WorkerInv, LivesCounted
<1>3. DownIsEmpty'
  <2>1. ASSUME NEW m \in Nodes, mode'[m] = "down" PROVE task'[m] = NoTasks
    <3>1. m # n /\ task[m] = NoTasks
      BY <1>1, <2>1 DEF WorkerInv, DownIsEmpty
    <3>2. \A s \in Sessions : task'[m][s] = task[m][s]
      BY <3>1
    <3>3. task'[m] \in [Sessions -> Phases]
      BY DEF WorkerTypeOK
    <3>. QED BY <3>1, <3>2, <3>3 DEF NoTasks
  <2>. QED BY <2>1 DEF DownIsEmpty
<1>4. AsgOffsetsOrdered'
  <2>1. SUFFICES ASSUME NEW m \in Nodes
                 PROVE  /\ asgCommitted[m] <= asgPosition'[m]
                        /\ asgPosition'[m] <= Len(Log(m))
    BY <1>1, AskedStays DEF AsgOffsetsOrdered
  <2>2. /\ asgCommitted[m] <= asgPosition[m] /\ asgPosition[m] <= Len(Log(m))
        /\ asgCommitted[m] \in Nat /\ asgPosition[m] \in Nat
        /\ Len(Log(m)) \in Nat
    BY TopicsAssumption DEF WorkerInv, WorkerTypeOK, AsgOffsetsOrdered, Log
  <2>3. /\ m = n => asgPosition[m] < Len(Log(m))
        /\ asgPosition'[m] = IF m = n THEN asgPosition[m] + 1 ELSE asgPosition[m]
    BY <1>0, <1>1 DEF Unread
  <2>. QED BY <2>2, <2>3
<1>5. RetriesBounded'
  BY <1>0 DEF WorkerInv, RetriesBounded
<1>6. TasksWereAsked'
  <2>1. ASSUME NEW m \in Nodes, NEW s \in Sessions, task'[m][s] # "none"
        PROVE  Asked(m, s) # {}
    <3>1. CASE task[m][s] # "none"
      BY <3>1 DEF WorkerInv, TasksWereAsked
    <3>2. CASE task[m][s] = "none"
      <4>1. m = n /\ Message(n) = [session |-> s, node |-> n]
        BY <2>1, <3>2
      <4>2. asgPosition[n] + 1 \in Asked(n, s)
        BY <1>1, <4>1, MessageTyped DEF WorkerInv, Asked, Message
      <4>. QED BY <4>1, <4>2
    <3>. QED BY <3>1, <3>2
  <2>. QED BY <1>1, <2>1, AskedStays DEF TasksWereAsked
<1>7. EndsCounted'
  <2>1. \A m \in Nodes : Lives(m)' = Lives(m) /\ Lives(m) \in Nat
    BY <1>0, <1>1 DEF Lives
  <2>2. ASSUME NEW m \in Nodes, NEW s \in Sessions
        PROVE  reported'[m][s] + OpenEnds(m, s)' <= reported[m][s] + OpenEnds(m, s)
    <3>. DEFINE old == IF task[m][s] = "none" THEN 0 ELSE 1
                new == IF task'[m][s] = "none" THEN 0 ELSE 1
    <3>1. /\ Cardinality(Unheard(m, s)') =
               IF m = n /\ Message(n) = [session |-> s, node |-> n]
               THEN Cardinality(Unheard(m, s)) - 1 ELSE Cardinality(Unheard(m, s))
          /\ Cardinality(Unheard(m, s)) \in Nat /\ reported[m][s] \in Nat
      BY <1>1, ReadOne, CountsTyped
    <3>2. CASE mode[m] = "down"
      <4>1. OpenEnds(m, s) = 0 /\ OpenEnds(m, s)' = 0
        BY <1>1, <3>2 DEF OpenEnds
      <4>2. reported'[m][s] = reported[m][s]
        BY <1>1, <3>2
      <4>. QED BY <3>1, <4>1, <4>2
    <3>3. CASE mode[m] # "down"
      <4>1. /\ OpenEnds(m, s) = Cardinality(Unheard(m, s)) + old
            /\ OpenEnds(m, s)' = Cardinality(Unheard(m, s)') + new
        BY <1>1, <3>3 DEF OpenEnds
      <4>2. reported'[m][s] + new - (IF m = n /\ Message(n) =
                                          [session |-> s, node |-> n]
                                     THEN 1 ELSE 0) <= reported[m][s] + old
        BY <3>1
      <4>. QED BY <3>1, <4>1, <4>2
    <3>. QED BY <3>2, <3>3
  <2>3. \A m \in Nodes : Lives(m) <= Lives(m)'
    BY <2>1
  <2>. QED BY <1>1, <2>2, <2>3, EndsKept
<1>. QED BY <1>2, <1>3, <1>4, <1>5, <1>6, <1>7 DEF WorkerInv

\* Every step of the consumer loop keeps the invariant.
LEMMA ConsumerKeeps ==
  ASSUME WorkerInv, WorkerTypeOK', NEW n \in Nodes, ConsumerStep(n)
  PROVE  WorkerInv'
<1>. USE DEF eventTopics, process, offsets, calls
<1>. DEFINE s == Message(n).session
<1>1. CASE CommitAssignment(n)
  <2>1. /\ UNCHANGED <<assignments, mode, stops, asgPosition, task, attempts,
                       reported, finished>>
        /\ asgCommitted' = [asgCommitted EXCEPT ![n] = asgPosition[n]]
             \/ UNCHANGED asgCommitted
    BY <1>1 DEF CommitAssignment
  <2>2. \A m \in Nodes : asgCommitted'[m] \in {asgCommitted[m], asgPosition[m]}
    BY <2>1 DEF WorkerInv, WorkerTypeOK
  <2>3. \A m \in Nodes, t \in Sessions : finished'[m][t] <= finished[m][t]
    BY <2>1 DEF WorkerInv, WorkerTypeOK
  <2>. QED BY <2>1, <2>2, <2>3, QuietKeeps
<1>2. ASSUME Receive(n)
      PROVE  /\ s \in Sessions
             /\ \A t \in Sessions : s = t /\ Message(n).node = n =>
                  Message(n) = [session |-> t, node |-> n]
  BY <1>2, MessageTyped DEF Receive, WorkerInv
<1>3. CASE SkipForeign(n) \/ SkipDuplicate(n) \/ RejectOverload(n)
  <2>1. Receive(n) /\ UNCHANGED <<task, attempts>>
    BY <1>3 DEF SkipForeign, SkipDuplicate, RejectOverload
  <2>2. \/ UNCHANGED <<finished, reported>>
        \/ Message(n).node = n /\ (PublishFinished(n, s) \/ FinishedLost)
    BY <1>3 DEF SkipForeign, SkipDuplicate, RejectOverload
  <2>3. \A m \in Nodes, t \in Sessions :
          /\ reported'[m][t] \in {reported[m][t], reported[m][t] + 1}
          /\ reported'[m][t] # reported[m][t] => m = n /\ t = s
          /\ finished'[m][t] <= reported'[m][t]
    BY <1>2, <2>1, <2>2, ReportedOnce
  <2>4. \A m \in Nodes, t \in Sessions : UNCHANGED <<finished, reported>> =>
          reported'[m][t] = reported[m][t]
    OBVIOUS
  <2>5. \A m \in Nodes, t \in Sessions :
          reported'[m][t] # reported[m][t] =>
            m = n /\ Message(n) = [session |-> t, node |-> n]
    BY <1>2, <2>1, <2>2, <2>3, <2>4 DEF FinishedLost
  <2>6. SlotsRespected'
    BY <2>1 DEF WorkerInv, SlotsRespected, Active
  <2>. QED BY <2>1, <2>3, <2>5, <2>6, ReadKeeps
<1>4. CASE Launch(n)
  <2>1. /\ Receive(n) /\ ~Full(n) /\ s \notin Active(n)
        /\ Message(n).node = n
        /\ task' = [task EXCEPT ![n][s] = "starting"]
        /\ attempts' = [attempts EXCEPT ![n][s] = 0]
        /\ \/ UNCHANGED <<finished, reported>>
           \/ task[n][s] # "none" /\ (PublishFinished(n, s) \/ FinishedLost)
    BY <1>4 DEF Launch
  <2>2. s \in Sessions /\ Message(n) = [session |-> s, node |-> n]
    BY <1>2, <2>1
  <2>3. \A m \in Nodes, t \in Sessions :
          /\ reported'[m][t] \in {reported[m][t], reported[m][t] + 1}
          /\ reported'[m][t] # reported[m][t] => m = n /\ t = s
          /\ finished'[m][t] <= reported'[m][t]
    BY <2>1, <2>2, ReportedOnce
  <2>4. reported'[n][s] # reported[n][s] => task[n][s] # "none"
    BY <2>1
  <2>5. \A m \in Nodes, t \in Sessions :
          /\ task'[m][t] = IF m = n /\ t = s THEN "starting" ELSE task[m][t]
          /\ attempts'[m][t] = IF m = n /\ t = s THEN 0 ELSE attempts[m][t]
    BY <2>1, <2>2 DEF WorkerInv, WorkerTypeOK
  <2>6. SlotsRespected'
    <3>1. ASSUME NEW m \in Nodes
          PROVE  IsFiniteSet(Active(m)') /\ Cardinality(Active(m)') <= MaxCalls
      <4>1. IsFiniteSet(Active(m)) /\ Cardinality(Active(m)) <= MaxCalls
        BY DEF WorkerInv, SlotsRespected
      <4>2. CASE m # n
        <5>1. Active(m)' = Active(m)
          BY <2>5, <4>2 DEF Active
        <5>. QED BY <4>1, <5>1
      <4>3. CASE m = n
        <5>1. Active(n)' = Active(n) \cup {s}
          BY <2>2, <2>5 DEF Active
        <5>2. /\ IsFiniteSet(Active(n) \cup {s})
              /\ Cardinality(Active(n) \cup {s}) = Cardinality(Active(n)) + 1
          BY <2>1, <4>1, <4>3, FS_AddElement
        <5>3. Cardinality(Active(n)) \in Nat
          BY <4>1, <4>3, FS_CardinalityType
        <5>4. limit[n] \in 0..MaxCalls /\ ~(Cardinality(Active(n)) >= limit[n])
          BY <2>1 DEF Full, WorkerInv, WorkerTypeOK
        <5>. QED BY <4>3, <5>1, <5>2, <5>3, <5>4, TopicsAssumption
      <4>. QED BY <4>2, <4>3
    <3>. QED BY <3>1 DEF SlotsRespected
  <2>. HIDE DEF s
  <2>. QED BY <2>1, <2>2, <2>3, <2>4, <2>5, <2>6, ReadKeeps
<1>. QED BY <1>1, <1>3, <1>4 DEF ConsumerStep

\* Every step of a call's task keeps the invariant.
LEMMA TaskKeeps ==
  ASSUME WorkerInv, WorkerTypeOK', NEW n \in Nodes, NEW s \in Sessions,
         TaskStep(n, s)
  PROVE  WorkerInv'
<1>. USE DEF eventTopics, process, offsets
<1>0. /\ task \in [Nodes -> [Sessions -> Phases]]
      /\ attempts \in [Nodes -> [Sessions -> Nat]]
      /\ MaxRetry \in Nat \ {0}
  BY WorkerAssumption DEF WorkerInv, WorkerTypeOK
<1>1. UNCHANGED <<assignments, mode, stops, asgPosition, asgCommitted>>
  BY DEF TaskStep, BeginRun, AttemptSucceeds, AttemptFails, EndBackoff,
         PublishEnd
<1>2. PICK to \in Phases, k \in Nat :
        /\ task' = [task EXCEPT ![n][s] = to]
        /\ attempts' = [attempts EXCEPT ![n][s] = k]
        /\ task[n][s] # "none"
        /\ to \in {"running", "backoff"} =>
             task[n][s] \in {"starting", "running", "backoff"}
        /\ to # "starting"
        /\ k <= MaxRetry /\ (to = "none" => k = 0)
        /\ to = "backoff" => k < MaxRetry
  <2>1. /\ attempts[n][s] \in Nat /\ attempts[n][s] + 1 \in Nat
        /\ attempts[n][s] <= MaxRetry
        /\ task[n][s] = "starting" => attempts[n][s] = 0
        /\ task[n][s] = "backoff" => attempts[n][s] < MaxRetry
    BY <1>0 DEF WorkerInv, RetriesBounded
  <2>2. UNCHANGED attempts => attempts' = [attempts EXCEPT ![n][s] = attempts[n][s]]
    BY <1>0
  <2>3. /\ "running" \in Phases /\ "backoff" \in Phases /\ "none" \in Phases
        /\ "completing" \in Phases /\ "failing" \in Phases
    BY DEF Phases
  <2>4. CASE BeginRun(n, s)
    <3>1. CASE mode[n] = "up"
      <4>1. /\ task[n][s] = "starting"
            /\ task' = [task EXCEPT ![n][s] = "running"]
            /\ attempts' = [attempts EXCEPT ![n][s] = attempts[n][s] + 1]
        BY <2>4, <3>1 DEF BeginRun, Move, Attempt
      <4>2. attempts[n][s] + 1 \in Nat /\ attempts[n][s] + 1 <= MaxRetry
        BY <1>0, <2>1, <4>1
      <4>. QED BY <2>3, <4>1, <4>2
    <3>2. CASE mode[n] # "up"
      <4>1. /\ task[n][s] = "starting"
            /\ task' = [task EXCEPT ![n][s] = "completing"]
            /\ attempts' = [attempts EXCEPT ![n][s] = attempts[n][s]]
        BY <2>2, <2>4, <3>2 DEF BeginRun, Move, Attempt
      <4>. QED BY <1>0, <2>1, <2>3, <4>1
    <3>. QED BY <3>1, <3>2
  <2>5. CASE AttemptSucceeds(n, s)
    <3>1. /\ task[n][s] = "running"
          /\ task' = [task EXCEPT ![n][s] = "completing"]
          /\ attempts' = [attempts EXCEPT ![n][s] = attempts[n][s]]
      BY <2>2, <2>5 DEF AttemptSucceeds, Move
    <3>. QED BY <2>1, <2>3, <3>1
  <2>6. CASE AttemptFails(n, s)
    <3>1. /\ task[n][s] = "running"
          /\ attempts' = [attempts EXCEPT ![n][s] = attempts[n][s]]
          /\ \/ /\ attempts[n][s] < MaxRetry
                /\ task' = [task EXCEPT ![n][s] = "backoff"]
             \/ task' = [task EXCEPT ![n][s] = "failing"]
      BY <2>2, <2>6 DEF AttemptFails, Move
    <3>. QED BY <2>1, <2>3, <3>1
  <2>7. CASE EndBackoff(n, s)
    <3>1. CASE mode[n] = "up"
      <4>1. /\ task[n][s] = "backoff"
            /\ task' = [task EXCEPT ![n][s] = "running"]
            /\ attempts' = [attempts EXCEPT ![n][s] = attempts[n][s] + 1]
        BY <2>7, <3>1 DEF EndBackoff, Move, Attempt
      <4>2. attempts[n][s] + 1 \in Nat /\ attempts[n][s] + 1 <= MaxRetry
        BY <1>0, <2>1, <4>1
      <4>. QED BY <2>3, <4>1, <4>2
    <3>2. CASE mode[n] # "up"
      <4>1. /\ task[n][s] = "backoff"
            /\ task' = [task EXCEPT ![n][s] = "failing"]
            /\ attempts' = [attempts EXCEPT ![n][s] = attempts[n][s]]
        BY <2>2, <2>7, <3>2 DEF EndBackoff, Move, Attempt
      <4>. QED BY <1>0, <2>1, <2>3, <4>1
    <3>. QED BY <3>1, <3>2
  <2>8. CASE PublishEnd(n, s)
    <3>1. /\ task[n][s] \in {"completing", "failing"}
          /\ task' = [task EXCEPT ![n][s] = "none"]
          /\ attempts' = [attempts EXCEPT ![n][s] = 0]
      BY <2>8 DEF PublishEnd, Move
    <3>2. 0 \in Nat /\ 0 <= MaxRetry
      BY <1>0
    <3>. QED BY <2>3, <3>1, <3>2
  <2>. QED BY <2>4, <2>5, <2>6, <2>7, <2>8 DEF TaskStep
<1>3. \A m \in Nodes, t \in Sessions :
        /\ task'[m][t] = IF m = n /\ t = s THEN to ELSE task[m][t]
        /\ attempts'[m][t] = IF m = n /\ t = s THEN k ELSE attempts[m][t]
  BY <1>0, <1>2
<1>4. LivesCounted'
  BY <1>1 DEF WorkerInv, LivesCounted
<1>5. DownIsEmpty'
  <2>1. ASSUME NEW m \in Nodes, mode[m] = "down" PROVE task'[m] = NoTasks
    <3>1. task[m] = NoTasks
      BY <2>1 DEF WorkerInv, DownIsEmpty
    <3>2. m # n
      BY <1>2, <3>1 DEF NoTasks
    <3>. QED BY <1>0, <1>2, <3>1, <3>2
  <2>. QED BY <1>1, <2>1 DEF DownIsEmpty
<1>6. AsgOffsetsOrdered'
  BY <1>1, AskedStays DEF WorkerInv, AsgOffsetsOrdered
<1>7. SlotsRespected'
  <2>1. \A m \in Nodes : Active(m)' \subseteq Active(m)
    BY <1>2, <1>3 DEF Active, Phases
  <2>. QED BY <2>1, SlotsKept DEF WorkerInv
<1>8. RetriesBounded'
  BY <1>0, <1>2, <1>3 DEF WorkerInv, RetriesBounded
<1>9. TasksWereAsked'
  BY <1>1, <1>2, <1>3, AskedStays DEF WorkerInv, TasksWereAsked
<1>10. EndsCounted'
  <2>1. /\ \/ PublishFinished(n, s) \/ FinishedLost
           \/ UNCHANGED <<finished, reported>>
        /\ UNCHANGED <<finished, reported>> \/ to = "none"
    <3>1. CASE PublishEnd(n, s)
      <4>1. task' = [task EXCEPT ![n][s] = "none"]
        BY <3>1 DEF PublishEnd, Move
      <4>2. to = "none"
        BY <1>0, <1>2, <4>1, <1>3
      <4>. QED BY <3>1, <4>2 DEF PublishEnd
    <3>2. CASE BeginRun(n, s) \/ AttemptSucceeds(n, s) \/ AttemptFails(n, s)
                 \/ EndBackoff(n, s)
      BY <3>2 DEF BeginRun, AttemptSucceeds, AttemptFails, EndBackoff
    <3>. QED BY <3>1, <3>2 DEF TaskStep
  <2>2. \A m \in Nodes, t \in Sessions :
          /\ reported'[m][t] \in {reported[m][t], reported[m][t] + 1}
          /\ reported'[m][t] # reported[m][t] => m = n /\ t = s
          /\ finished'[m][t] <= reported'[m][t]
    BY <2>1, ReportedOnce
  <2>3. reported'[n][s] # reported[n][s] => to = "none"
    BY <2>1
  <2>4. \A m \in Nodes : Lives(m)' = Lives(m) /\ Lives(m) \in Nat
    BY <1>1 DEF Lives, WorkerInv, WorkerTypeOK
  <2>5. ASSUME NEW m \in Nodes, NEW t \in Sessions
        PROVE  reported'[m][t] + OpenEnds(m, t)' <= reported[m][t] + OpenEnds(m, t)
    <3>1. Unheard(m, t)' = Unheard(m, t)
      BY <1>1, AskedStays DEF Unheard
    <3>2. /\ Cardinality(Unheard(m, t)) \in Nat /\ reported[m][t] \in Nat
          /\ OpenEnds(m, t) \in Nat
      BY CountsTyped
    <3>3. CASE m = n /\ t = s
      <4>1. mode[n] # "down"
        BY <1>2 DEF WorkerInv, DownIsEmpty, NoTasks
      <4>2. /\ OpenEnds(n, s) = Cardinality(Unheard(n, s)) + 1
            /\ OpenEnds(n, s)' = Cardinality(Unheard(n, s))
                                   + (IF to = "none" THEN 0 ELSE 1)
        BY <1>1, <1>2, <1>3, <3>1, <3>3, <4>1 DEF OpenEnds
      <4>. QED BY <2>2, <2>3, <3>2, <3>3, <4>2
    <3>4. CASE ~(m = n /\ t = s)
      <4>1. OpenEnds(m, t)' = OpenEnds(m, t)
        BY <1>1, <1>3, <3>1, <3>4 DEF OpenEnds
      <4>. QED BY <2>2, <3>2, <3>4, <4>1
    <3>. QED BY <3>3, <3>4
  <2>6. \A m \in Nodes : Lives(m) <= Lives(m)'
    BY <2>4
  <2>. QED BY <1>1, <2>2, <2>5, <2>6, EndsKept
<1>. QED BY <1>4, <1>5, <1>6, <1>7, <1>8, <1>9, <1>10 DEF WorkerInv

\* One more entry: what it asks of a node is asked once more, and unheard.
LEMMA AskedGrows ==
  ASSUME WorkerInv, NEW a \in AsgPartitions, NEW e \in AnyAssignment,
         assignments' = [assignments EXCEPT ![a] = Append(@, e)],
         UNCHANGED asgPosition, NEW n \in Nodes, NEW s \in Sessions
  PROVE  /\ Len(Log(n)) \in Nat /\ Len(Log(n)') \in Nat
         /\ Len(Log(n)) <= Len(Log(n)')
         /\ \/ /\ ~(NodePartition[n] = a /\ e.session = s /\ e.node = n)
               /\ Asked(n, s)' = Asked(n, s) /\ Unheard(n, s)' = Unheard(n, s)
            \/ /\ NodePartition[n] = a /\ e.session = s /\ e.node = n
               /\ Asked(n, s)' = Asked(n, s) \cup {Len(Log(n)) + 1}
               /\ Unheard(n, s)' = Unheard(n, s) \cup {Len(Log(n)) + 1}
               /\ Len(Log(n)) + 1 \notin Asked(n, s)
               /\ Len(Log(n)) + 1 \notin Unheard(n, s)
<1>1. /\ Log(n) \in Seq(AnyAssignment) /\ Len(Log(n)) \in Nat
      /\ asgPosition[n] \in Nat /\ asgPosition[n] <= Len(Log(n))
      /\ NodePartition[n] \in AsgPartitions
  BY TopicsAssumption DEF WorkerInv, WorkerTypeOK, AsgOffsetsOrdered, Log
<1>2. CASE NodePartition[n] # a
  <2>1. Log(n)' = Log(n)
    BY <1>1, <1>2 DEF Log, WorkerInv, WorkerTypeOK
  <2>. QED BY <1>1, <1>2, <2>1 DEF Asked, Unheard
<1>3. e = [session |-> s, node |-> n] <=> e.session = s /\ e.node = n
  BY DEF AnyAssignment
<1>4. CASE NodePartition[n] = a
  <2>1. Log(n)' = Append(Log(n), e)
    BY <1>1, <1>4 DEF Log, WorkerInv, WorkerTypeOK
  <2>2. /\ Len(Log(n)') = Len(Log(n)) + 1
        /\ DOMAIN Log(n)' = DOMAIN Log(n) \cup {Len(Log(n)) + 1}
        /\ \A i \in DOMAIN Log(n) : Log(n)'[i] = Log(n)[i]
        /\ Log(n)'[Len(Log(n)) + 1] = e
        /\ Len(Log(n)) + 1 \notin DOMAIN Log(n)
    BY <1>1, <2>1
  <2>3. CASE e = [session |-> s, node |-> n]
    <3>1. Asked(n, s)' = Asked(n, s) \cup {Len(Log(n)) + 1}
      BY <2>2, <2>3 DEF Asked
    <3>2. Unheard(n, s)' = Unheard(n, s) \cup {Len(Log(n)) + 1}
      BY <1>1, <3>1 DEF Unheard
    <3>3. Len(Log(n)) + 1 \notin Asked(n, s)
      BY <2>2 DEF Asked
    <3>. QED BY <1>1, <1>3, <1>4, <2>2, <2>3, <3>1, <3>2, <3>3 DEF Unheard
  <2>4. CASE e # [session |-> s, node |-> n]
    <3>1. Asked(n, s)' = Asked(n, s)
      <4>1. \A i \in DOMAIN Log(n)' :
              Log(n)'[i] = [session |-> s, node |-> n]
                <=> i \in DOMAIN Log(n) /\ Log(n)[i] = [session |-> s, node |-> n]
        BY <2>2, <2>4
      <4>. QED BY <2>2, <4>1 DEF Asked
    <3>2. Unheard(n, s)' = Unheard(n, s)
      BY <3>1 DEF Unheard
    <3>. QED BY <1>1, <1>3, <2>2, <2>4, <3>1, <3>2
  <2>. QED BY <2>3, <2>4
<1>. QED BY <1>2, <1>4

\* The call that the new entry asks for is unheard, and nothing else is touched
\* by it.
LEMMA UnheardGrows ==
  ASSUME WorkerInv, NEW a \in AsgPartitions, NEW e \in AnyAssignment,
         assignments' = [assignments EXCEPT ![a] = Append(@, e)],
         UNCHANGED asgPosition, NEW n \in Nodes, NEW s \in Sessions
  PROVE  IF NodePartition[n] = a /\ e.session = s /\ e.node = n
         THEN Unheard(n, s)' # {} ELSE Unheard(n, s)' = Unheard(n, s)
<1>1. \/ /\ ~(NodePartition[n] = a /\ e.session = s /\ e.node = n)
         /\ Asked(n, s)' = Asked(n, s) /\ Unheard(n, s)' = Unheard(n, s)
      \/ /\ NodePartition[n] = a /\ e.session = s /\ e.node = n
         /\ Asked(n, s)' = Asked(n, s) \cup {Len(Log(n)) + 1}
         /\ Unheard(n, s)' = Unheard(n, s) \cup {Len(Log(n)) + 1}
         /\ Len(Log(n)) + 1 \notin Asked(n, s)
         /\ Len(Log(n)) + 1 \notin Unheard(n, s)
  BY AskedGrows
<1>. QED BY <1>1

\* Whoever appends an assignment asks a node for a call it may report once in
\* each of its lives, this one included.
LEMMA AppendKeeps ==
  ASSUME WorkerInv, WorkerTypeOK', NEW a \in AsgPartitions,
         NEW e \in AnyAssignment,
         assignments' = [assignments EXCEPT ![a] = Append(@, e)],
         UNCHANGED <<finished, reported, workerVars>>
  PROVE  WorkerInv'
<1>. USE DEF workerVars, process, offsets, calls
<1>1. /\ LivesCounted' /\ DownIsEmpty' /\ RetriesBounded' /\ SlotsRespected'
  BY DEF WorkerInv, LivesCounted, DownIsEmpty, RetriesBounded, SlotsRespected,
         Active
<1>2. AsgOffsetsOrdered'
  <2>1. SUFFICES ASSUME NEW n \in Nodes
                 PROVE  /\ asgCommitted[n] <= asgPosition[n]
                        /\ asgPosition[n] <= Len(Log(n)')
    BY DEF AsgOffsetsOrdered
  <2>2. /\ asgCommitted[n] <= asgPosition[n] /\ asgPosition[n] <= Len(Log(n))
        /\ asgPosition[n] \in Nat
    BY DEF WorkerInv, WorkerTypeOK, AsgOffsetsOrdered
  <2>3. CASE Sessions # {}
    <3>1. /\ Len(Log(n)) \in Nat /\ Len(Log(n)') \in Nat
          /\ Len(Log(n)) <= Len(Log(n)')
      BY <2>3, AskedGrows
    <3>. QED BY <2>2, <3>1
  <2>4. CASE Sessions = {}
    BY <2>4 DEF AnyAssignment
  <2>. QED BY <2>3, <2>4
<1>3. TasksWereAsked'
  <2>1. ASSUME NEW n \in Nodes, NEW s \in Sessions
        PROVE  Asked(n, s) \subseteq Asked(n, s)'
    <3>1. \/ Asked(n, s)' = Asked(n, s)
          \/ Asked(n, s)' = Asked(n, s) \cup {Len(Log(n)) + 1}
      BY AskedGrows
    <3>. QED BY <3>1
  <2>. QED BY <2>1 DEF WorkerInv, TasksWereAsked
<1>4. EndsCounted'
  <2>1. SUFFICES ASSUME NEW n \in Nodes, NEW s \in Sessions
                 PROVE  /\ IsFiniteSet(Asked(n, s)')
                        /\ reported[n][s] + OpenEnds(n, s)'
                             <= Cardinality(Asked(n, s)') * Lives(n)
                        /\ finished[n][s] <= reported[n][s]
    <3>1. \A n \in Nodes : Lives(n)' = Lives(n)
      BY DEF Lives
    <3>. QED BY <3>1 DEF EndsCounted
  <2>2. /\ IsFiniteSet(Asked(n, s)) /\ finished[n][s] <= reported[n][s]
        /\ reported[n][s] + OpenEnds(n, s) <= Cardinality(Asked(n, s)) * Lives(n)
    BY DEF WorkerInv, EndsCounted
  <2>3. /\ Cardinality(Asked(n, s)) \in Nat /\ Cardinality(Unheard(n, s)) \in Nat
        /\ IsFiniteSet(Unheard(n, s))
        /\ reported[n][s] \in Nat /\ OpenEnds(n, s) \in Nat /\ Lives(n) \in Nat
    BY CountsTyped
  <2>4. CASE Asked(n, s)' = Asked(n, s) /\ Unheard(n, s)' = Unheard(n, s)
    <3>1. OpenEnds(n, s)' = OpenEnds(n, s)
      BY <2>4 DEF OpenEnds
    <3>. QED BY <2>2, <2>4, <3>1
  <2>5. CASE /\ Asked(n, s)' = Asked(n, s) \cup {Len(Log(n)) + 1}
             /\ Unheard(n, s)' = Unheard(n, s) \cup {Len(Log(n)) + 1}
             /\ Len(Log(n)) + 1 \notin Asked(n, s)
             /\ Len(Log(n)) + 1 \notin Unheard(n, s)
    <3>1. /\ IsFiniteSet(Asked(n, s)')
          /\ Cardinality(Asked(n, s)') = Cardinality(Asked(n, s)) + 1
          /\ Cardinality(Unheard(n, s)') = Cardinality(Unheard(n, s)) + 1
      <4>. DEFINE i == Len(Log(n)) + 1
      <4>1. /\ IsFiniteSet(Asked(n, s) \cup {i})
            /\ Cardinality(Asked(n, s) \cup {i}) = Cardinality(Asked(n, s)) + 1
        BY <2>2, <2>5, FS_AddElement
      <4>2. Cardinality(Unheard(n, s) \cup {i}) = Cardinality(Unheard(n, s)) + 1
        BY <2>3, <2>5, FS_AddElement
      <4>. QED BY <2>5, <4>1, <4>2
    <3>2. /\ (Cardinality(Asked(n, s)) + 1) * Lives(n)
               = Cardinality(Asked(n, s)) * Lives(n) + Lives(n)
          /\ Cardinality(Asked(n, s)) * Lives(n) \in Nat
      BY <2>3, Products
    <3>3. OpenEnds(n, s)' <= OpenEnds(n, s) + Lives(n) /\ OpenEnds(n, s)' \in Nat
      <4>1. CASE mode[n] = "down"
        <5>1. OpenEnds(n, s)' = 0
          BY <4>1 DEF OpenEnds
        <5>. QED BY <2>3, <5>1
      <4>2. CASE mode[n] # "down"
        <5>1. Lives(n) >= 1
          <6>1. mode[n] \in Modes /\ stops \in Nat
            BY DEF WorkerInv, WorkerTypeOK
          <6>2. mode[n] # "up" => stops > 0
            BY <4>2, <6>1 DEF WorkerInv, LivesCounted, Modes
          <6>. QED BY <6>1, <6>2 DEF Lives
        <5>2. OpenEnds(n, s)' = OpenEnds(n, s) + 1
          BY <2>3, <3>1, <4>2 DEF OpenEnds
        <5>. QED BY <2>3, <5>1, <5>2
      <4>. QED BY <4>1, <4>2
    <3>. QED BY <2>2, <2>3, <3>1, <3>2, <3>3
  <2>. QED BY <2>4, <2>5, AskedGrows
<1>. QED BY <1>1, <1>2, <1>3, <1>4 DEF WorkerInv

-----------------------------------------------------------------------------
(* The worker alone *)

\* Every step of a worker keeps the invariant, whoever works on the topics.
LEMMA WorkerStepKeeps ==
  ASSUME WorkerInv, WorkerStep
  PROVE  WorkerInv'
<1>. USE DEF eventTopics, process, offsets, calls, workerVars
<1>1. WorkerTypeOK'
  BY WorkerStepTyped DEF WorkerInv
<1>2. ASSUME NEW n \in Nodes, Poll(n) \/ Heartbeat(n)
      PROVE  WorkerInv'
  <2>1. UNCHANGED <<assignments, mode, stops, asgPosition, asgCommitted, task,
                    attempts, reported, finished>>
    BY <1>2 DEF Poll, Heartbeat
  <2>2. \A m \in Nodes, s \in Sessions : finished'[m][s] <= finished[m][s]
    BY <2>1 DEF WorkerInv, WorkerTypeOK
  <2>. QED BY <1>1, <2>1, <2>2, QuietKeeps
<1>. QED BY <1>1, <1>2, StartKeeps, ProcessKeeps, ConsumerKeeps, TaskKeeps
         DEF WorkerStep

\* Nothing is asked, running or reported at first.
LEMMA WorkerInitInv == WorkerInit => WorkerInv
<1>. SUFFICES ASSUME WorkerInit PROVE WorkerInv
  OBVIOUS
<1>1. WorkerTypeOK
  BY WorkerInitTyped
<1>2. /\ \A n \in Nodes : /\ mode[n] = "down" /\ task[n] = NoTasks
                          /\ asgPosition[n] = 0 /\ asgCommitted[n] = 0
                          /\ Log(n) = <<>>
      /\ \A n \in Nodes, s \in Sessions :
           /\ task[n][s] = "none" /\ attempts[n][s] = 0
           /\ reported[n][s] = 0 /\ finished[n][s] = 0
      /\ stops = 0
  BY TopicsAssumption DEF WorkerInit, NoTasks, NoAttempts, Log
<1>3. \A n \in Nodes, s \in Sessions : Asked(n, s) = {}
  BY <1>2 DEF Asked
<1>4. LivesCounted /\ DownIsEmpty /\ TasksWereAsked
  BY <1>2 DEF LivesCounted, DownIsEmpty, TasksWereAsked
<1>5. AsgOffsetsOrdered
  BY <1>2 DEF AsgOffsetsOrdered
<1>6. RetriesBounded
  BY <1>2, WorkerAssumption DEF RetriesBounded
<1>7. SlotsRespected
  <2>1. \A n \in Nodes : Active(n) = {}
    BY <1>2 DEF Active
  <2>. QED BY <2>1, FS_EmptySet, TopicsAssumption DEF SlotsRespected
<1>8. EndsCounted
  <2>1. \A n \in Nodes, s \in Sessions : OpenEnds(n, s) = 0
    BY <1>2 DEF OpenEnds
  <2>2. \A n \in Nodes : Lives(n) = 0
    BY <1>2 DEF Lives
  <2>3. IsFiniteSet({}) /\ Cardinality({}) = 0
    BY FS_EmptySet
  <2>4. \A n \in Nodes, s \in Sessions :
          /\ IsFiniteSet(Asked(n, s))
          /\ reported[n][s] + OpenEnds(n, s) <= Cardinality(Asked(n, s)) * Lives(n)
          /\ finished[n][s] <= reported[n][s]
    <3>1. ASSUME NEW n \in Nodes, NEW s \in Sessions
          PROVE  /\ IsFiniteSet(Asked(n, s)) /\ Cardinality(Asked(n, s)) = 0
                 /\ reported[n][s] = 0 /\ OpenEnds(n, s) = 0
                 /\ finished[n][s] = 0 /\ Lives(n) = 0
      BY <1>2, <1>3, <2>1, <2>2, <2>3
    <3>. QED BY <3>1
  <2>. QED BY <2>4 DEF EndsCounted
<1>. QED BY <1>1, <1>4, <1>5, <1>6, <1>7, <1>8 DEF WorkerInv

\* What a scheduler does to the topics of one worker keeps the invariant.
LEMMA TopicStepKeeps ==
  ASSUME WorkerInv, TopicStep
  PROVE  WorkerInv'
<1>. USE DEF eventTopics
<1>1. ASSUME NEW n \in Nodes, ReadEvents(n)
      PROVE  WorkerInv'
  <2>. USE DEF workerVars, process, offsets, calls
  <2>1. UNCHANGED <<assignments, mode, stops, asgPosition, asgCommitted, task,
                    attempts, reported, consuming, limit>>
    BY <1>1 DEF ReadEvents
  <2>2. /\ capacity' \in [Nodes -> Seq(Nat)] /\ beats' \subseteq Nodes
        /\ finished' \in [Nodes -> [Sessions -> Nat]]
    BY <1>1 DEF ReadEvents, NoAttempts, WorkerInv, WorkerTypeOK
  <2>3. WorkerTypeOK'
    BY <2>1, <2>2 DEF WorkerInv, WorkerTypeOK
  <2>4. \A m \in Nodes, s \in Sessions : finished'[m][s] <= finished[m][s]
    BY <1>1 DEF ReadEvents, NoAttempts, WorkerInv, WorkerTypeOK
  <2>. QED BY <2>1, <2>3, <2>4, QuietKeeps
<1>2. ASSUME NEW a \in AsgPartitions, NEW n \in Nodes \cup Others,
             NEW s \in Sessions, Assign(a, n, s)
      PROVE  WorkerInv'
  <2>. DEFINE e == [session |-> s, node |-> n]
  <2>1. e \in AnyAssignment
    BY DEF AnyAssignment
  <2>2. /\ assignments' = [assignments EXCEPT ![a] = Append(@, e)]
        /\ UNCHANGED <<eventTopics, workerVars>>
    BY <1>2 DEF Assign
  <2>3. assignments' \in [AsgPartitions -> Seq(AnyAssignment)]
    <3>1. Append(assignments[a], e) \in Seq(AnyAssignment)
      BY <2>1 DEF WorkerInv, WorkerTypeOK
    <3>. QED BY <2>2, <3>1 DEF WorkerInv, WorkerTypeOK
  <2>4. WorkerTypeOK'
    BY <2>2, <2>3 DEF WorkerInv, WorkerTypeOK, workerVars, process, offsets,
                      calls
  <2>. HIDE DEF e
  <2>. QED BY <2>1, <2>2, <2>4, AppendKeeps
<1>. QED BY <1>1, <1>2 DEF TopicStep

\* A stutter of a worker keeps the invariant.
LEMMA WorkerStutterKeeps ==
  ASSUME WorkerInv, UNCHANGED serviceVars
  PROVE  WorkerInv'
<1>. USE DEF serviceVars, eventTopics, workerVars, process, offsets, calls
<1>1. WorkerTypeOK'
  BY DEF WorkerInv, WorkerTypeOK
<1>2. \A m \in Nodes, s \in Sessions : finished'[m][s] <= finished[m][s]
  BY DEF WorkerInv, WorkerTypeOK
<1>. QED BY <1>1, <1>2, QuietKeeps

\* The inductive invariant of the worker: slots, retries and offsets stay in
\* their bounds, only assigned calls run, and no call is reported ended more
\* often than it was assigned in the lives of the worker.
THEOREM WorkerInvariant == WorkerSpec => []WorkerInv
<1>1. WorkerInv /\ [WorkerNext]_serviceVars => WorkerInv'
  BY WorkerStepKeeps, TopicStepKeeps, WorkerStutterKeeps DEF WorkerNext
<1>. QED BY <1>1, WorkerInitInv, PTL DEF WorkerSpec

\* Every variable of the worker always holds a value of its kind.
THEOREM WorkerTypeCorrect == WorkerSpec => []WorkerTypeOK
<1>1. WorkerInv => WorkerTypeOK
  BY DEF WorkerInv
<1>. QED BY <1>1, WorkerInvariant, PTL

\* Attempts are counted where they begin, in a process that is up.
LEMMA NoLateAttempt ==
  ASSUME WorkerInv, WorkerStep, NEW n \in Nodes, NEW s \in Sessions,
         mode[n] # "up"
  PROVE  attempts'[n][s] <= attempts[n][s]
<1>0. /\ attempts \in [Nodes -> [Sessions -> Nat]]
      /\ attempts[n][s] \in Nat
  BY DEF WorkerInv, WorkerTypeOK
<1>1. \/ UNCHANGED attempts
      \/ \E m \in Nodes : attempts' = [attempts EXCEPT ![m] = NoAttempts]
      \/ \E m \in Nodes, t \in Sessions :
           attempts' = [attempts EXCEPT ![m][t] = 0]
      \/ \E m \in Nodes, t \in Sessions :
           mode[m] = "up" /\ attempts' = [attempts EXCEPT ![m][t] = @ + 1]
  <2>. USE DEF process, offsets, calls, workerVars
  <2>1. ASSUME NEW m \in Nodes,
               \/ Start(m) \/ Poll(m) \/ Heartbeat(m) \/ Sigterm(m)
               \/ ConsumerExits(m) \/ StopMonitor(m) \/ FinishDrain(m)
               \/ Crash(m)
        PROVE  UNCHANGED attempts
                 \/ attempts' = [attempts EXCEPT ![m] = NoAttempts]
    BY <2>1 DEF Start, Poll, Heartbeat, Sigterm, ConsumerExits, StopMonitor,
                FinishDrain, Crash, Gone
  <2>2. ASSUME NEW m \in Nodes, ConsumerStep(m)
        PROVE  \/ UNCHANGED attempts
               \/ \E t \in Sessions : attempts' = [attempts EXCEPT ![m][t] = 0]
    <3>1. Receive(m) => Message(m).session \in Sessions
      BY MessageTyped DEF Receive, WorkerInv
    <3>. QED BY <2>2, <3>1 DEF ConsumerStep, SkipForeign, RejectOverload,
                               SkipDuplicate, Launch, CommitAssignment
  <2>3. ASSUME NEW m \in Nodes, NEW t \in Sessions, TaskStep(m, t)
        PROVE  \/ UNCHANGED attempts
               \/ attempts' = [attempts EXCEPT ![m][t] = 0]
               \/ /\ mode[m] = "up"
                  /\ attempts' = [attempts EXCEPT ![m][t] = @ + 1]
    BY <2>3 DEF TaskStep, BeginRun, AttemptSucceeds, AttemptFails, EndBackoff,
                PublishEnd, Attempt
  <2>. QED BY <2>1, <2>2, <2>3 DEF WorkerStep
<1>2. CASE UNCHANGED attempts
  BY <1>0, <1>2
<1>3. CASE \E m \in Nodes : attempts' = [attempts EXCEPT ![m] = NoAttempts]
  <2>1. attempts'[n][s] = attempts[n][s] \/ attempts'[n][s] = 0
    BY <1>0, <1>3 DEF NoAttempts
  <2>. QED BY <1>0, <2>1
<1>4. CASE \E m \in Nodes, t \in Sessions :
             attempts' = [attempts EXCEPT ![m][t] = 0]
  <2>1. attempts'[n][s] = attempts[n][s] \/ attempts'[n][s] = 0
    BY <1>0, <1>4
  <2>. QED BY <1>0, <2>1
<1>5. CASE \E m \in Nodes, t \in Sessions :
             mode[m] = "up" /\ attempts' = [attempts EXCEPT ![m][t] = @ + 1]
  <2>1. attempts'[n][s] = attempts[n][s]
    BY <1>0, <1>5
  <2>. QED BY <1>0, <2>1
<1>. QED BY <1>1, <1>2, <1>3, <1>4, <1>5

\* _run_worker_with_lifecycle: once SIGTERM set the flags, no attempt at a
\* call begins, whatever the consumer and the tasks still do.
THEOREM SigtermEndsAttempts == WorkerSpec => NoAttemptAfterSigterm
<1>1. WorkerInv /\ [WorkerNext]_serviceVars =>
        [\A n \in Nodes, s \in Sessions :
           mode[n] # "up" => attempts'[n][s] <= attempts[n][s]]_serviceVars
  <2>. SUFFICES ASSUME WorkerInv, WorkerNext, NEW n \in Nodes,
                       NEW s \in Sessions, mode[n] # "up"
                PROVE  attempts'[n][s] <= attempts[n][s]
    OBVIOUS
  <2>1. CASE TopicStep
    <3>1. UNCHANGED attempts /\ attempts[n][s] \in Nat
      BY <2>1 DEF TopicStep, ReadEvents, Assign, workerVars, calls, WorkerInv,
                  WorkerTypeOK
    <3>. QED BY <3>1
  <2>. QED BY <2>1, NoLateAttempt DEF WorkerNext
<1>. QED BY <1>1, WorkerInvariant, PTL DEF WorkerSpec, NoAttemptAfterSigterm

-----------------------------------------------------------------------------
(* Composition: each side keeps the other's invariant *)

\* The scheduler's types of the topics are the worker's.
LEMMA TopicsTyped ==
  ASSUME TypeOK', WorkerTypeOK, UNCHANGED workerVars
  PROVE  WorkerTypeOK'
<1>1. assignments' \in [AsgPartitions -> Seq(AnyAssignment)]
  <2>1. Assignment \subseteq AnyAssignment
    BY DEF Assignment, AnyAssignment
  <2>2. assignments' \in [AsgPartitions -> Seq(Assignment)]
    BY DEF TypeOK
  <2>. QED BY <2>1, <2>2
<1>2. /\ capacity' \in [Nodes -> Seq(Nat)] /\ beats' \subseteq Nodes
      /\ finished' \in [Nodes -> [Sessions -> Nat]]
      /\ reported' \in [Nodes -> [Sessions -> Nat]]
  BY DEF TypeOK
<1>. QED BY <1>1, <1>2
         DEF WorkerTypeOK, workerVars, process, offsets, calls

\* What the scheduler does to the topics: an assignment for a node, or events
\* read.
LEMMA SchedulerOnTopics ==
  ASSUME TypeOK, Scheduler
  PROVE  /\ UNCHANGED <<reported, workerVars>>
         /\ \A n \in Nodes, s \in Sessions : finished'[n][s] <= finished[n][s]
         /\ \/ UNCHANGED assignments
            \/ SendAssignment
<1>. USE DEF eventTopics, requestTopic
<1>1. UNCHANGED workerVars
  BY DEF Scheduler
<1>2. ASSUME UNCHANGED finished
      PROVE  \A n \in Nodes, s \in Sessions : finished'[n][s] <= finished[n][s]
  BY <1>2 DEF TypeOK
<1>3. CASE SubmitOne \/ FallSilent \/ Restart
  <2>1. UNCHANGED <<reported, finished, assignments>>
    BY <1>3 DEF SubmitOne, Submit, FallSilent, Expire, Restart
  <2>. QED BY <1>1, <1>2, <2>1
<1>4. CASE \/ \E p \in ReqPartitions :
                \/ \E n \in Nodes : Book(p, n)
                \/ Park(p) \/ RejectMalformed(p)
           \/ SendFails \/ Commit \/ CommitFails \/ EvictDead
  <2>1. UNCHANGED <<reported, finished, assignments>>
    BY <1>4 DEF Book, Park, RejectMalformed, SendFails, Commit, CommitFails,
                EvictDead
  <2>. QED BY <1>1, <1>2, <2>1
<1>5. CASE SendAssignment
  BY <1>1, <1>2, <1>5 DEF SendAssignment
<1>6. CASE \E n \in Nodes : HandleCapacity(n) \/ HandleHeartbeat(n)
  <2>1. UNCHANGED <<reported, finished, assignments>>
    BY <1>6 DEF HandleCapacity, HandleHeartbeat
  <2>. QED BY <1>1, <1>2, <2>1
<1>7. CASE \E n \in Nodes, s \in Sessions : HandleFinished(n, s)
  <2>1. PICK m \in Nodes, r \in Sessions : HandleFinished(m, r)
    BY <1>7
  <2>2. /\ UNCHANGED <<reported, assignments>> /\ finished[m][r] > 0
        /\ finished' = [finished EXCEPT ![m][r] = @ - 1]
    BY <2>1 DEF HandleFinished
  <2>3. ASSUME NEW n \in Nodes, NEW s \in Sessions
        PROVE  finished'[n][s] <= finished[n][s]
    <3>1. finished[n][s] \in Nat
      BY DEF TypeOK
    <3>2. finished'[n][s] = IF n = m /\ s = r THEN finished[n][s] - 1
                                              ELSE finished[n][s]
      BY <2>2 DEF TypeOK
    <3>. QED BY <3>1, <3>2
  <2>. QED BY <1>1, <2>2, <2>3
<1>. QED BY <1>3, <1>4, <1>5, <1>6, <1>7 DEF Scheduler, SchedStep

\* The assignment that is sent: one for a node, in that node's partition.
LEMMA SentEntry ==
  ASSUME TypeOK, SendAssignment
  PROVE  /\ consumer.session \in Sessions /\ consumer.node \in Nodes
         /\ NodePartition[consumer.node] \in AsgPartitions
         /\ [session |-> consumer.session, node |-> consumer.node]
               \in AnyAssignment
<1>1. consumer.session \in Sessions /\ consumer.node \in Nodes
  BY DEF SendAssignment, TypeOK, ConsumerStates, Idle, Committing
<1>. QED BY <1>1, TopicsAssumption DEF AnyAssignment

\* No step of the scheduler breaks the workers' invariant.
LEMMA SchedulerKeepsWorkers ==
  ASSUME TypeOK, TypeOK', WorkerInv, Scheduler
  PROVE  WorkerInv'
<1>1. WorkerTypeOK'
  BY SchedulerOnTopics, TopicsTyped DEF WorkerInv
<1>2. CASE UNCHANGED assignments
  <2>1. \A n \in Nodes : asgCommitted'[n] \in {asgCommitted[n], asgPosition[n]}
    BY SchedulerOnTopics DEF workerVars, offsets
  <2>. QED BY <1>1, <1>2, <2>1, SchedulerOnTopics, QuietKeeps
           DEF workerVars, process, offsets, calls
<1>3. CASE SendAssignment
  <2>. DEFINE a == NodePartition[consumer.node]
              e == [session |-> consumer.session, node |-> consumer.node]
  <2>1. a \in AsgPartitions /\ e \in AnyAssignment
    BY <1>3, SentEntry
  <2>2. /\ assignments' = [assignments EXCEPT ![a] = Append(@, e)]
        /\ UNCHANGED <<finished, reported, workerVars>>
    BY <1>3, SchedulerOnTopics DEF SendAssignment, eventTopics
  <2>. HIDE DEF a, e
  <2>. QED BY <1>1, <2>1, <2>2, AppendKeeps
<1>. QED BY <1>2, <1>3, SchedulerOnTopics

\* Every step of the scheduler in the pipeline is one of its own.
LEMMA SchedulerIsScheduler == Scheduler => [Next]_vars
  BY DEF Scheduler, SubmitOne, FallSilent, Next, EnvStep

\* No worker writes an assignment.
LEMMA WorkersOnTopics ==
  ASSUME WorkerStep
  PROVE  UNCHANGED assignments
  BY DEF WorkerStep, ConsumerStep, TaskStep, Start, Poll, Heartbeat, Sigterm,
         ConsumerExits, StopMonitor, FinishDrain, Crash, Receive, SkipForeign,
         RejectOverload, SkipDuplicate, Launch, CommitAssignment, BeginRun,
         AttemptSucceeds, AttemptFails, EndBackoff, PublishEnd

\* No step of a worker breaks the scheduler's invariant.
LEMMA WorkersKeepScheduler ==
  ASSUME IInv, WorkerTypeOK', Worker
  PROVE  IInv'
<1>. USE DEF schedVars, registry, queue, history
<1>1. UNCHANGED <<requests, schedVars, assignments>>
  BY WorkersOnTopics DEF Worker
<1>2. TypeOK'
  <2>1. /\ capacity' \in [Nodes -> Seq(Nat)] /\ beats' \subseteq Nodes
        /\ finished' \in [Nodes -> [Sessions -> Nat]]
        /\ reported' \in [Nodes -> [Sessions -> Nat]]
    BY DEF WorkerTypeOK
  <2>. QED BY <1>1, <2>1 DEF IInv, TypeOK
<1>. QED BY <1>1, <1>2, QuietInv

-----------------------------------------------------------------------------
(* Entries of a call in the logs *)

\* The entries of a call, by partition and offset.
LEMMA EntryIs ==
  ASSUME NEW s
  PROVE  \A x : x \in Entries(s) <=>
           \E a \in AsgPartitions : \E i \in DOMAIN assignments[a] :
             x = <<a, i>> /\ assignments[a][i].session = s
<1>1. ASSUME NEW x, x \in Entries(s)
      PROVE  \E a \in AsgPartitions : \E i \in DOMAIN assignments[a] :
               x = <<a, i>> /\ assignments[a][i].session = s
  <2>1. PICK a \in AsgPartitions : x \in {a} \X DOMAIN assignments[a]
    BY <1>1 DEF Entries
  <2>2. PICK i \in DOMAIN assignments[a] : x = <<a, i>>
    BY <2>1
  <2>3. assignments[x[1]][x[2]].session = s /\ x[1] = a /\ x[2] = i
    BY <1>1, <2>2 DEF Entries
  <2>. QED BY <2>2, <2>3
<1>2. ASSUME NEW a \in AsgPartitions, NEW i \in DOMAIN assignments[a],
             assignments[a][i].session = s
      PROVE  <<a, i>> \in Entries(s)
  <2>1. <<a, i>> \in {a} \X DOMAIN assignments[a]
    OBVIOUS
  <2>. QED BY <1>2, <2>1 DEF Entries
<1>. QED BY <1>1, <1>2

\* A node is asked for a call by entries for that call.
LEMMA AskedByEntries ==
  ASSUME WorkerInv, EntriesCounted, NEW n \in Nodes, NEW s \in Sessions
  PROVE  /\ Cardinality(Entries(s)) \in Nat
         /\ Cardinality(Asked(n, s)) <= Cardinality(Entries(s))
<1>1. IsFiniteSet(Entries(s)) /\ NodePartition[n] \in AsgPartitions
  BY TopicsAssumption DEF EntriesCounted
<1>. DEFINE f == [i \in Asked(n, s) |-> <<NodePartition[n], i>>]
<1>2. \A i \in Asked(n, s) : <<NodePartition[n], i>> \in Entries(s)
  BY <1>1, EntryIs DEF Asked, Log
<1>3. /\ f \in [Asked(n, s) -> Entries(s)]
      /\ \A i, j \in Asked(n, s) : f[i] = f[j] => i = j
  BY <1>2
<1>4. f \in Injection(Asked(n, s), Entries(s))
  BY <1>3, Fun_IsInj
<1>. QED BY <1>1, <1>4, FS_Injection, FS_CardinalityType

\* Sending an assignment adds one entry, for the call that is sent.
LEMMA OneEntryMore ==
  ASSUME TypeOK, SendAssignment, NEW s \in Sessions
  PROVE  IF s = consumer.session
         THEN \E x : Entries(s)' = Entries(s) \cup {x}
         ELSE Entries(s)' = Entries(s)
<1>. DEFINE b == NodePartition[consumer.node]
            e == [session |-> consumer.session, node |-> consumer.node]
            k == Len(assignments[b]) + 1
<1>1. b \in AsgPartitions /\ e.session = consumer.session
  BY SentEntry
<1>2. assignments' = [assignments EXCEPT ![b] = Append(@, e)]
  BY DEF SendAssignment
<1>3. assignments \in [AsgPartitions -> Seq(Assignment)]
  BY DEF TypeOK
<1>. HIDE DEF b, e
<1>4. /\ assignments'[b] = Append(assignments[b], e)
      /\ \A a \in AsgPartitions : a # b => assignments'[a] = assignments[a]
  BY <1>1, <1>2, <1>3
<1>5. /\ DOMAIN assignments'[b] = DOMAIN assignments[b] \cup {k}
      /\ \A i \in DOMAIN assignments[b] : assignments'[b][i] = assignments[b][i]
      /\ assignments'[b][k] = e /\ k \notin DOMAIN assignments[b]
  BY <1>1, <1>3, <1>4
<1>. HIDE DEF k
<1>6. \A x : x \in Entries(s)' <=>
               x \in Entries(s) \/ (s = consumer.session /\ x = <<b, k>>)
  <2>1. \A x : x \in Entries(s)' <=>
           \E a \in AsgPartitions : \E i \in DOMAIN assignments'[a] :
             x = <<a, i>> /\ assignments'[a][i].session = s
    <3>1. ASSUME NEW x, x \in Entries(s)'
          PROVE  \E a \in AsgPartitions : \E i \in DOMAIN assignments'[a] :
                   x = <<a, i>> /\ assignments'[a][i].session = s
      <4>1. PICK a \in AsgPartitions : x \in {a} \X DOMAIN assignments'[a]
        BY <3>1 DEF Entries
      <4>2. PICK i \in DOMAIN assignments'[a] : x = <<a, i>>
        BY <4>1
      <4>3. assignments'[x[1]][x[2]].session = s /\ x[1] = a /\ x[2] = i
        BY <3>1, <4>2 DEF Entries
      <4>. QED BY <4>2, <4>3
    <3>2. ASSUME NEW a \in AsgPartitions, NEW i \in DOMAIN assignments'[a],
                 assignments'[a][i].session = s
          PROVE  <<a, i>> \in Entries(s)'
      <4>1. <<a, i>> \in {a} \X DOMAIN assignments'[a]
        OBVIOUS
      <4>. QED BY <3>2, <4>1 DEF Entries
    <3>. QED BY <3>1, <3>2
  <2>2. ASSUME NEW x, x \in Entries(s)'
        PROVE  x \in Entries(s) \/ (s = consumer.session /\ x = <<b, k>>)
    <3>0. PICK a \in AsgPartitions : \E i \in DOMAIN assignments'[a] :
            x = <<a, i>> /\ assignments'[a][i].session = s
      BY <2>1, <2>2
    <3>1. PICK i \in DOMAIN assignments'[a] :
            x = <<a, i>> /\ assignments'[a][i].session = s
      BY <3>0
    <3>2. \/ /\ i \in DOMAIN assignments[a]
             /\ assignments'[a][i] = assignments[a][i]
          \/ a = b /\ i = k
      BY <1>4, <1>5
    <3>. QED BY <1>1, <1>5, <3>1, <3>2, EntryIs
  <2>3. ASSUME NEW x, x \in Entries(s) \/ (s = consumer.session /\ x = <<b, k>>)
        PROVE  x \in Entries(s)'
    <3>1. CASE x \in Entries(s)
      <4>0. PICK a \in AsgPartitions : \E i \in DOMAIN assignments[a] :
              x = <<a, i>> /\ assignments[a][i].session = s
        BY <3>1, EntryIs
      <4>1. PICK i \in DOMAIN assignments[a] :
              x = <<a, i>> /\ assignments[a][i].session = s
        BY <4>0
      <4>2. /\ i \in DOMAIN assignments'[a]
            /\ assignments'[a][i] = assignments[a][i]
        BY <1>4, <1>5
      <4>. QED BY <2>1, <4>1, <4>2
    <3>2. CASE s = consumer.session /\ x = <<b, k>>
      BY <1>1, <1>5, <2>1, <3>2
    <3>. QED BY <2>3, <3>1, <3>2
  <2>. QED BY <2>2, <2>3
<1>7. CASE s = consumer.session
  <2>1. Entries(s)' = Entries(s) \cup {<<b, k>>}
    BY <1>6, <1>7
  <2>. QED BY <1>7, <2>1
<1>8. CASE s # consumer.session
  <2>1. Entries(s)' = Entries(s)
    BY <1>6, <1>8
  <2>. QED BY <1>8, <2>1
<1>. QED BY <1>7, <1>8

\* Each life of the scheduler adds at most one entry for a call: what it holds
\* it has not sent, and only a restart lets it send a call again.
LEMMA EntriesKept ==
  ASSUME IInv, EntriesCounted, PipelineNext
  PROVE  EntriesCounted'
<1>. SUFFICES ASSUME NEW s \in Sessions
              PROVE  /\ IsFiniteSet(Entries(s)')
                     /\ Cardinality(Entries(s)') <=
                          IF SentNow(s)' THEN 1 + restarts' ELSE restarts'
  BY DEF EntriesCounted
<1>1. /\ IsFiniteSet(Entries(s)) /\ Cardinality(Entries(s)) \in Nat
      /\ Cardinality(Entries(s)) <=
           IF SentNow(s) THEN 1 + restarts ELSE restarts
      /\ restarts \in Nat
  BY FS_CardinalityType DEF EntriesCounted, IInv, TypeOK
<1>2. CASE UNCHANGED <<assignments, sent, restarts>>
  BY <1>1, <1>2 DEF Entries, SentNow
<1>3. CASE Restart
  <2>1. /\ restarts' = restarts + 1 /\ sent' = <<>>
        /\ UNCHANGED assignments
    BY <1>3 DEF Restart
  <2>2. ~SentNow(s)' /\ Entries(s)' = Entries(s)
    BY <2>1 DEF SentNow, Entries
  <2>. QED BY <1>1, <2>1, <2>2
<1>4. CASE SendAssignment
  <2>1. UNCHANGED restarts /\ sent' = Append(sent, consumer.session)
    BY <1>4 DEF SendAssignment
  <2>2. TypeOK /\ sent \in Seq(Sessions)
    BY DEF IInv, TypeOK
  <2>3. CASE s = consumer.session
    <3>1. ~SentNow(s)
      BY <1>4, <2>3 DEF SendAssignment, SentNow, IInv, SentWasRead, Held
    <3>2. SentNow(s)'
      BY <2>1, <2>2, <2>3 DEF SentNow
    <3>3. PICK x : Entries(s)' = Entries(s) \cup {x}
      BY <1>4, <2>2, <2>3, OneEntryMore
    <3>4. /\ IsFiniteSet(Entries(s) \cup {x})
          /\ Cardinality(Entries(s) \cup {x}) <= Cardinality(Entries(s)) + 1
          /\ Cardinality(Entries(s) \cup {x}) \in Nat
      <4>1. /\ IsFiniteSet(Entries(s) \cup {x})
            /\ Cardinality(Entries(s) \cup {x}) =
                 IF x \in Entries(s) THEN Cardinality(Entries(s))
                                    ELSE Cardinality(Entries(s)) + 1
        BY <1>1, FS_AddElement
      <4>. QED BY <1>1, <4>1
    <3>. QED BY <1>1, <2>1, <3>1, <3>2, <3>3, <3>4
  <2>4. CASE s # consumer.session
    <3>1. Entries(s)' = Entries(s)
      BY <1>4, <2>2, <2>4, OneEntryMore
    <3>2. SentNow(s)' = SentNow(s)
      BY <2>1, <2>2, <2>4 DEF SentNow
    <3>. QED BY <1>1, <2>1, <3>1, <3>2
  <2>. QED BY <2>3, <2>4
<1>5. UNCHANGED <<assignments, sent, restarts>> \/ Restart \/ SendAssignment
  <2>. USE DEF history
  <2>1. CASE Worker
    BY <2>1, WorkersOnTopics DEF Worker, schedVars
  <2>2. CASE Scheduler
    <3>1. UNCHANGED assignments \/ SendAssignment
      BY <2>2, SchedulerOnTopics DEF IInv
    <3>2. CASE SubmitOne \/ FallSilent
      BY <3>2 DEF SubmitOne, Submit, FallSilent, Expire
    <3>3. CASE SchedStep
      BY <3>1, <3>3
         DEF SchedStep, Book, Park, RejectMalformed, SendFails, Commit,
             CommitFails, EvictDead, HandleCapacity, HandleHeartbeat,
             HandleFinished
    <3>. QED BY <2>2, <3>2, <3>3 DEF Scheduler
  <2>. QED BY <2>1, <2>2 DEF PipelineNext
<1>. QED BY <1>2, <1>3, <1>4, <1>5

-----------------------------------------------------------------------------
(* As long as nothing fails *)

\* In a log, the entries of a kind behind an offset.
LEMMA BehindOffset ==
  ASSUME NEW S, NEW log \in Seq(S), NEW pos \in Nat, NEW e
  PROVE  (\E i \in (pos + 1)..Len(log) : log[i] = e)
           <=> {i \in {j \in DOMAIN log : log[j] = e} : pos < i} # {}
  OBVIOUS

\* The call is somewhere between its entry in n's log and the last unread
\* event about its end.
AtWorker(n, s) ==
  Unheard(n, s) # {} \/ task[n][s] # "none" \/ finished[n][s] > 0

HeldFor(n, s) == Held(s) /\ consumer.node = n

\* The books are true: stated with the sets the invariant counts.
LEMMA BooksBefore ==
  ASSUME WorkerTypeOK, BooksMatchCalls, Calm
  PROVE  \A n \in Nodes, s \in Sessions :
           s \in inflight[n] <=> HeldFor(n, s) \/ AtWorker(n, s)
<1>1. ASSUME NEW n \in Nodes, NEW s \in Sessions
      PROVE  Travelling(n, s) <=> Unheard(n, s) # {}
  <2>1. Log(n) \in Seq(AnyAssignment) /\ asgPosition[n] \in Nat
    BY TopicsAssumption DEF WorkerTypeOK, Log
  <2>. QED BY <2>1, BehindOffset DEF Travelling, Unheard, Asked
<1>. QED BY <1>1 DEF BooksMatchCalls, AtWorker, HeldFor, Held

\* The same after a step.
LEMMA BooksAfter ==
  ASSUME WorkerTypeOK',
         Calm' => \A n \in Nodes, s \in Sessions :
                    s \in inflight'[n] <=> HeldFor(n, s)' \/ AtWorker(n, s)'
  PROVE  BooksMatchCalls'
<1>1. ASSUME NEW n \in Nodes, NEW s \in Sessions
      PROVE  Travelling(n, s)' <=> Unheard(n, s)' # {}
  <2>1. Log(n)' \in Seq(AnyAssignment) /\ asgPosition'[n] \in Nat
    BY TopicsAssumption DEF WorkerTypeOK, Log
  <2>. QED BY <2>1, BehindOffset DEF Travelling, Unheard, Asked
<1>. QED BY <1>1 DEF BooksMatchCalls, AtWorker, HeldFor, Held

\* As long as nothing fails a node is asked for a call at most once, and once
\* its end is reported nothing of the call is left at the node.
LEMMA CalmCounts ==
  ASSUME IInv, WorkerInv, EntriesCounted, Calm, NEW n \in Nodes,
         NEW s \in Sessions
  PROVE  /\ Held(s) => Asked(n, s) = {}
         /\ finished[n][s] > 0 =>
              /\ Asked(n, s) # {} /\ Unheard(n, s) = {}
              /\ task[n][s] = "none" /\ finished[n][s] = 1
<1>1. restarts = 0 /\ stops = 0
  BY DEF Calm
<1>2. /\ Cardinality(Entries(s)) <= 1
      /\ Held(s) => Cardinality(Entries(s)) <= 0
  <2>1. Held(s) => ~SentNow(s)
    BY DEF IInv, SentWasRead, SentNow
  <2>2. Cardinality(Entries(s)) <= IF SentNow(s) THEN 1 ELSE 0
    BY <1>1 DEF EntriesCounted
  <2>. QED BY <2>1, <2>2, AskedByEntries
<1>3. /\ Cardinality(Asked(n, s)) <= Cardinality(Entries(s))
      /\ Cardinality(Entries(s)) \in Nat
      /\ Cardinality(Asked(n, s)) \in Nat /\ IsFiniteSet(Asked(n, s))
  BY AskedByEntries, CountsTyped DEF WorkerInv, EndsCounted
<1>4. Held(s) => Asked(n, s) = {}
  BY <1>2, <1>3, FS_EmptySet
<1>5. ASSUME finished[n][s] > 0
      PROVE  /\ Asked(n, s) # {} /\ Unheard(n, s) = {}
             /\ task[n][s] = "none" /\ finished[n][s] = 1
  <2>1. /\ finished[n][s] \in Nat /\ reported[n][s] \in Nat
        /\ OpenEnds(n, s) \in Nat /\ finished[n][s] <= reported[n][s]
        /\ reported[n][s] + OpenEnds(n, s) <= Cardinality(Asked(n, s)) * Lives(n)
    BY CountsTyped DEF WorkerInv, EndsCounted
  <2>2. Cardinality(Asked(n, s)) \in {0, 1}
    BY <1>2, <1>3
  <2>3. Lives(n) = (IF mode[n] = "up" THEN 1 ELSE 0)
    BY <1>1 DEF Lives
  <2>4. Cardinality(Asked(n, s)) = 1 /\ mode[n] = "up"
    BY <1>5, <2>1, <2>2, <2>3
  <2>5. reported[n][s] = 1 /\ OpenEnds(n, s) = 0 /\ finished[n][s] = 1
    BY <1>5, <2>1, <2>3, <2>4
  <2>6. /\ Cardinality(Unheard(n, s)) \in Nat /\ IsFiniteSet(Unheard(n, s))
    BY CountsTyped
  <2>7. Cardinality(Unheard(n, s)) = 0 /\ task[n][s] = "none"
    BY <2>4, <2>5, <2>6 DEF OpenEnds
  <2>8. Asked(n, s) # {}
    BY <2>4, FS_EmptySet
  <2>. QED BY <2>5, <2>6, <2>7, <2>8, FS_EmptySet
<1>. QED BY <1>4, <1>5

\* A step of a worker that leaves everything calm is no SIGTERM and no crash,
\* and belongs to no shutdown.
LEMMA CalmWorker ==
  ASSUME WorkerInv, Worker, Calm'
  PROVE  /\ Calm
         /\ \E n \in Nodes :
              \/ Start(n) \/ Poll(n) \/ Heartbeat(n) \/ ConsumerStep(n)
              \/ \E s \in Sessions : TaskStep(n, s)
<1>. USE DEF schedVars, history
<1>0. stops \in Nat /\ \A n \in Nodes : mode[n] \in Modes
  BY DEF WorkerInv, WorkerTypeOK
<1>1. stops' = 0 /\ restarts' = 0 /\ Faults = {} /\ restarts = 0
  BY DEF Calm, Worker
<1>2. ASSUME NEW n \in Nodes, Sigterm(n) \/ Crash(n)
      PROVE  FALSE
  <2>1. stops' = stops + 1
    BY <1>2 DEF Sigterm, Crash
  <2>. QED BY <1>0, <1>1, <2>1
<1>3. ASSUME NEW n \in Nodes,
             \/ Start(n) \/ Poll(n) \/ Heartbeat(n) \/ ConsumerExits(n)
             \/ StopMonitor(n) \/ FinishDrain(n) \/ ConsumerStep(n)
             \/ \E s \in Sessions : TaskStep(n, s)
      PROVE  stops = 0
  <2>1. stops' = stops
    BY <1>3 DEF Start, Poll, Heartbeat, ConsumerExits, StopMonitor, FinishDrain,
                ConsumerStep, SkipForeign, RejectOverload, SkipDuplicate, Launch,
                CommitAssignment, Receive, TaskStep, BeginRun, AttemptSucceeds,
                AttemptFails, EndBackoff, PublishEnd, process, workerVars
  <2>. QED BY <1>1, <2>1
<1>4. stops = 0
  BY <1>2, <1>3 DEF Worker, WorkerStep
<1>5. ASSUME NEW n \in Nodes,
             ConsumerExits(n) \/ StopMonitor(n) \/ FinishDrain(n)
      PROVE  FALSE
  <2>1. mode[n] \in {"terminating", "stopping", "draining"}
    BY <1>5 DEF ConsumerExits, StopMonitor, FinishDrain
  <2>. QED BY <1>4, <2>1 DEF WorkerInv, LivesCounted
<1>. QED BY <1>1, <1>2, <1>4, <1>5 DEF Worker, WorkerStep, Calm

\* A step of the scheduler that leaves everything calm is no restart, and then
\* no node is judged dead and no send fails.
LEMMA CalmScheduler ==
  ASSUME IInv, WorkerInv, NobodyEvicted, Scheduler, Calm'
  PROVE  /\ Calm
         /\ \/ SubmitOne
            \/ \E p \in ReqPartitions :
                 \/ \E n \in Nodes : Book(p, n)
                 \/ Park(p) \/ RejectMalformed(p)
            \/ SendAssignment \/ Commit
            \/ \E n \in Nodes :
                 \/ HandleCapacity(n) \/ HandleHeartbeat(n)
                 \/ \E s \in Sessions : HandleFinished(n, s)
<1>0. restarts \in Nat /\ registered \subseteq Nodes
  BY DEF IInv, TypeOK
<1>1. stops = 0 /\ restarts' = 0 /\ Faults = {}
  BY DEF Calm, Scheduler, workerVars, process
<1>2. ~Restart
  BY <1>0, <1>1 DEF Restart
<1>3. restarts = 0
  BY <1>0, <1>1, <1>2
     DEF Scheduler, SubmitOne, Submit, FallSilent, Expire, SchedStep, Book, Park,
         RejectMalformed, SendAssignment, SendFails, Commit, CommitFails,
         EvictDead, HandleCapacity, HandleHeartbeat, HandleFinished, history
<1>4. Calm
  BY <1>1, <1>3 DEF Calm
<1>5. ~FallSilent
  <2>1. \A n \in Nodes : mode[n] # "draining"
    BY <1>4 DEF Calm, WorkerInv, LivesCounted
  <2> QED
    BY <1>1, <1>4, <2>1 DEF FallSilent, Expire, NobodyEvicted
<1>6. ~EvictDead
  BY <1>0, <1>4 DEF EvictDead, NobodyEvicted
<1>7. ~SendFails /\ ~CommitFails
  BY <1>1 DEF SendFails, CommitFails
<1>. QED BY <1>2, <1>4, <1>5, <1>6, <1>7 DEF Scheduler, SchedStep

\* As long as nothing fails no node is evicted, and none that was up goes down.
LEMMA NobodyEvictedKept ==
  ASSUME IInv, WorkerInv, NobodyEvicted, PipelineNext
  PROVE  NobodyEvicted'
<1>. SUFFICES ASSUME Calm', NEW n \in Nodes
              PROVE  /\ mode'[n] = "down" =>
                          /\ n \notin registered' /\ capacity'[n] = <<>>
                          /\ asgPosition'[n] = 0
                     /\ n \in registered' => n \in fresh'
                     /\ inflight'[n] # {} => n \in registered'
  BY DEF NobodyEvicted
<1>. USE DEF process, offsets, workerVars, eventTopics
<1>1. CASE Worker
  <2>1. Calm /\ UNCHANGED <<registered, fresh, inflight>>
    BY <1>1, CalmWorker DEF Worker, schedVars, registry
  <2>2. PICK m \in Nodes :
          \/ Start(m) \/ Poll(m) \/ Heartbeat(m) \/ ConsumerStep(m)
          \/ \E s \in Sessions : TaskStep(m, s)
    BY <1>1, CalmWorker
  <2>3. /\ mode \in [Nodes -> Modes] /\ asgPosition \in [Nodes -> Nat]
        /\ capacity \in [Nodes -> Seq(Nat)]
    BY DEF WorkerInv, WorkerTypeOK
  <2>4. ASSUME mode'[n] = "down"
        PROVE  /\ mode[n] = "down" /\ capacity'[n] = capacity[n]
               /\ asgPosition'[n] = asgPosition[n]
    <3>1. CASE Start(m)
      <4>1. mode'[m] = "up"
        BY <2>3, <3>1 DEF Start
      <4>. QED BY <2>3, <2>4, <3>1, <4>1 DEF Start, PublishCapacity
    <3>2. CASE Poll(m)
      <4>1. UNCHANGED <<mode, asgPosition>> /\ mode[m] # "down"
        BY <3>2 DEF Poll
      <4>. QED BY <2>3, <2>4, <3>2, <4>1 DEF Poll, PublishCapacity
    <3>3. CASE Heartbeat(m)
      BY <2>4, <3>3 DEF Heartbeat
    <3>4. CASE CommitAssignment(m)
      BY <2>4, <3>4 DEF CommitAssignment
    <3>5. CASE SkipForeign(m) \/ RejectOverload(m) \/ SkipDuplicate(m) \/ Launch(m)
      <4>1. Receive(m) /\ UNCHANGED capacity
        BY <3>5 DEF SkipForeign, RejectOverload, SkipDuplicate, Launch
      <4>. QED BY <2>3, <2>4, <4>1 DEF Receive
    <3>6. CASE \E s \in Sessions : TaskStep(m, s)
      BY <2>4, <3>6
         DEF TaskStep, BeginRun, AttemptSucceeds, AttemptFails, EndBackoff,
             PublishEnd
    <3>. QED BY <2>2, <3>1, <3>2, <3>3, <3>4, <3>5, <3>6 DEF ConsumerStep
  <2>. QED BY <2>1, <2>4 DEF NobodyEvicted
<1>2. CASE Scheduler
  <2>1. Calm /\ UNCHANGED <<mode, asgPosition>>
    BY <1>2, CalmScheduler DEF Scheduler
  <2>2. /\ mode[n] = "down" =>
             n \notin registered /\ capacity[n] = <<>> /\ asgPosition[n] = 0
        /\ n \in registered => n \in fresh
        /\ inflight[n] # {} => n \in registered
    BY <2>1 DEF NobodyEvicted
  <2>3. CASE \/ SubmitOne \/ SendAssignment \/ Commit
             \/ \E p \in ReqPartitions : Park(p) \/ RejectMalformed(p)
             \/ \E m \in Nodes : HandleHeartbeat(m)
    <3>1. UNCHANGED <<registered, inflight, capacity>> /\ fresh \subseteq fresh'
      BY <2>3 DEF SubmitOne, Submit, SendAssignment, Commit, Park,
                  RejectMalformed, HandleHeartbeat, registry
    <3>. QED BY <2>1, <2>2, <3>1
  <2>4. ASSUME NEW p \in ReqPartitions, NEW m \in Nodes, Book(p, m)
        PROVE  /\ UNCHANGED <<registered, fresh, capacity>>
               /\ inflight'[n] # {} => n \in registered
    <3>1. m \in registered
      BY <2>4 DEF Book, BestNodes, Candidates
    <3>. QED BY <2>2, <2>4, <3>1 DEF Book, IInv, TypeOK
  <2>5. ASSUME NEW m \in Nodes, HandleCapacity(m)
        PROVE  /\ registered' = registered \cup {m} /\ fresh' = fresh \cup {m}
               /\ UNCHANGED inflight
               /\ mode[n] = "down" => n # m /\ capacity'[n] = capacity[n]
    <3>1. mode[m] # "down"
      BY <2>1, <2>5 DEF HandleCapacity, NobodyEvicted
    <3>. QED BY <2>5, <3>1 DEF HandleCapacity, IInv, TypeOK
  <2>6. ASSUME NEW m \in Nodes, NEW s \in Sessions, HandleFinished(m, s)
        PROVE  /\ UNCHANGED <<registered, fresh, capacity>>
               /\ inflight'[n] \subseteq inflight[n]
    BY <2>6 DEF HandleFinished, IInv, TypeOK
  <2>7. \/ SubmitOne \/ SendAssignment \/ Commit
        \/ \E p \in ReqPartitions :
             \/ \E m \in Nodes : Book(p, m)
             \/ Park(p) \/ RejectMalformed(p)
        \/ \E m \in Nodes :
             \/ HandleCapacity(m) \/ HandleHeartbeat(m)
             \/ \E s \in Sessions : HandleFinished(m, s)
    BY <1>2, CalmScheduler
  <2>8. CASE \E p \in ReqPartitions, m \in Nodes : Book(p, m)
    BY <2>1, <2>2, <2>4, <2>8
  <2>9. CASE \E m \in Nodes : HandleCapacity(m)
    BY <2>1, <2>2, <2>5, <2>9
  <2>10. CASE \E m \in Nodes, s \in Sessions : HandleFinished(m, s)
    BY <2>1, <2>2, <2>6, <2>10
  <2>. QED BY <2>3, <2>7, <2>8, <2>9, <2>10
<1>. QED BY <1>1, <1>2 DEF PipelineNext

\* As long as nothing fails a worker loses no call and makes none up: a call
\* it was asked for stays with it until its end is published.
LEMMA WorkersKeepCalls ==
  ASSUME WorkerInv, NobodyEvicted, Worker, Calm', NEW n \in Nodes,
         NEW s \in Sessions
  PROVE  AtWorker(n, s)' <=> AtWorker(n, s)
<1>. USE DEF process, offsets, calls, workerVars, eventTopics
<1>1. Calm /\ Faults = {} /\ ~FinishedLost
  BY CalmWorker DEF Calm, FinishedLost
<1>2. PICK m \in Nodes :
        \/ Start(m) \/ Poll(m) \/ Heartbeat(m) \/ ConsumerStep(m)
        \/ \E t \in Sessions : TaskStep(m, t)
  BY CalmWorker
<1>3. /\ asgPosition \in [Nodes -> Nat] /\ asgCommitted \in [Nodes -> Nat]
      /\ task \in [Nodes -> [Sessions -> Phases]]
      /\ finished \in [Nodes -> [Sessions -> Nat]]
      /\ finished[n][s] \in Nat
  BY DEF WorkerInv, WorkerTypeOK
<1>4. UNCHANGED assignments /\ Asked(n, s)' = Asked(n, s)
  BY WorkersOnTopics, AskedStays DEF Worker
<1>5. ASSUME UNCHANGED <<asgPosition, task, finished>>
      PROVE  AtWorker(n, s)' <=> AtWorker(n, s)
  BY <1>4, <1>5 DEF AtWorker, Unheard
<1>6. CASE Start(m)
  <2>1. asgPosition[m] = 0 /\ asgCommitted[m] <= asgPosition[m]
    BY <1>1, <1>6 DEF Start, NobodyEvicted, WorkerInv, AsgOffsetsOrdered
  <2>2. asgCommitted[m] = asgPosition[m]
    BY <1>3, <2>1
  <2>3. asgPosition' = asgPosition
    BY <1>3, <1>6, <2>2 DEF Start
  <2>. QED BY <1>5, <1>6, <2>3 DEF Start
<1>7. CASE Poll(m) \/ Heartbeat(m) \/ CommitAssignment(m)
  BY <1>5, <1>7 DEF Poll, Heartbeat, CommitAssignment
<1>8. CASE SkipForeign(m) \/ RejectOverload(m) \/ SkipDuplicate(m) \/ Launch(m)
  <2>. DEFINE r == Message(m).session
  <2>1. /\ Receive(m) /\ Unread(m)
        /\ asgPosition' = [asgPosition EXCEPT ![m] = @ + 1]
    BY <1>8 DEF SkipForeign, RejectOverload, SkipDuplicate, Launch, Receive
  <2>2. /\ r \in Sessions
        /\ Message(m) = [session |-> r, node |-> Message(m).node]
    BY <2>1, MessageTyped DEF WorkerInv
  <2>3. \/ UNCHANGED <<task, finished>>
             /\ (Message(m).node # m \/ task[m][r] # "none")
        \/ /\ Message(m).node = m /\ UNCHANGED task
           /\ finished' = [finished EXCEPT ![m][r] = @ + 1]
        \/ /\ Message(m).node = m
           /\ task' = [task EXCEPT ![m][r] = "starting"]
           /\ \/ UNCHANGED finished
              \/ finished' = [finished EXCEPT ![m][r] = @ + 1]
    BY <1>1, <1>8 DEF SkipForeign, RejectOverload, SkipDuplicate, Launch,
                      PublishFinished, Active
  <2>4. IF n = m /\ Message(m) = [session |-> s, node |-> m]
        THEN Unheard(n, s) # {} ELSE Unheard(n, s)' = Unheard(n, s)
    BY <1>4, <2>1, ReadOne
  <2>5. CASE n = m /\ Message(m) = [session |-> s, node |-> m]
    <3>1. s = r /\ Message(m).node = m
      BY <2>5
    <3>2. task'[n][s] # "none" \/ finished'[n][s] > 0
      BY <1>3, <2>2, <2>3, <2>5, <3>1
    <3>. QED BY <2>4, <2>5, <3>2 DEF AtWorker
  <2>6. CASE ~(n = m /\ Message(m) = [session |-> s, node |-> m])
    <3>1. Message(m).node = m => ~(n = m /\ s = r)
      BY <2>2, <2>6
    <3>2. task'[n][s] = task[n][s] /\ finished'[n][s] = finished[n][s]
      BY <1>3, <2>2, <2>3, <3>1
    <3>. QED BY <2>4, <2>6, <3>2 DEF AtWorker
  <2>. QED BY <2>5, <2>6
<1>9. CASE \E t \in Sessions : TaskStep(m, t)
  <2>1. PICK t \in Sessions : TaskStep(m, t)
    BY <1>9
  <2>2. UNCHANGED asgPosition /\ Unheard(n, s)' = Unheard(n, s)
    BY <1>4, <2>1 DEF TaskStep, BeginRun, AttemptSucceeds, AttemptFails,
                      EndBackoff, PublishEnd, Unheard
  <2>3. /\ task[m][t] # "none"
        /\ \/ /\ UNCHANGED finished
              /\ \E to \in Phases :
                   to # "none" /\ task' = [task EXCEPT ![m][t] = to]
           \/ /\ finished' = [finished EXCEPT ![m][t] = @ + 1]
              /\ task' = [task EXCEPT ![m][t] = "none"]
    BY <1>1, <2>1 DEF TaskStep, BeginRun, AttemptSucceeds, AttemptFails,
                      EndBackoff, PublishEnd, Move, PublishFinished, Phases
  <2>4. CASE m = n /\ t = s
    BY <1>3, <2>3, <2>4 DEF AtWorker
  <2>5. CASE ~(m = n /\ t = s)
    <3>1. task'[n][s] = task[n][s] /\ finished'[n][s] = finished[n][s]
      BY <1>3, <2>3, <2>5
    <3>. QED BY <2>2, <3>1 DEF AtWorker
  <2>. QED BY <2>4, <2>5
<1>. QED BY <1>2, <1>6, <1>7, <1>8, <1>9 DEF ConsumerStep

\* As long as nothing fails the scheduler's books stay true.
LEMMA BooksKept ==
  ASSUME PipelineInv, PipelineNext, WorkerTypeOK'
  PROVE  BooksMatchCalls'
<1>. SUFFICES ASSUME Calm', NEW n \in Nodes, NEW s \in Sessions
              PROVE  s \in inflight'[n] <=> HeldFor(n, s)' \/ AtWorker(n, s)'
  BY BooksAfter
<1>. USE DEF workerVars, process, offsets, calls, eventTopics
<1>0. IInv /\ WorkerInv /\ EntriesCounted /\ NobodyEvicted /\ BooksMatchCalls
  BY DEF PipelineInv
<1>1. CASE Worker
  <2>1. Calm /\ UNCHANGED <<inflight, consumer>>
    BY <1>0, <1>1, CalmWorker DEF Worker, schedVars, registry
  <2>2. s \in inflight[n] <=> HeldFor(n, s) \/ AtWorker(n, s)
    BY <1>0, <2>1, BooksBefore DEF WorkerInv
  <2>3. AtWorker(n, s)' <=> AtWorker(n, s)
    BY <1>0, <1>1, WorkersKeepCalls
  <2>4. HeldFor(n, s)' <=> HeldFor(n, s)
    BY <2>1 DEF HeldFor, Held
  <2>. QED BY <2>1, <2>2, <2>3, <2>4
<1>2. CASE Scheduler
  <2>1. Calm /\ UNCHANGED <<asgPosition, task>> /\ Faults = {}
    BY <1>0, <1>2, CalmScheduler DEF Scheduler, Calm
  <2>2. s \in inflight[n] <=> HeldFor(n, s) \/ AtWorker(n, s)
    BY <1>0, <2>1, BooksBefore DEF WorkerInv
  <2>3. /\ inflight \in [Nodes -> SUBSET Sessions]
        /\ finished \in [Nodes -> [Sessions -> Nat]]
        /\ finished[n][s] \in Nat
    BY <1>0 DEF IInv, TypeOK
  <2>4. ASSUME UNCHANGED <<assignments, finished>>
        PROVE  AtWorker(n, s)' <=> AtWorker(n, s)
    <3>1. Unheard(n, s)' = Unheard(n, s)
      BY <2>1, <2>4, AskedStays DEF Unheard
    <3>. QED BY <2>1, <2>4, <3>1 DEF AtWorker
  <2>5. CASE \/ SubmitOne \/ Commit
             \/ \E p \in ReqPartitions : Park(p) \/ RejectMalformed(p)
             \/ \E m \in Nodes : HandleCapacity(m) \/ HandleHeartbeat(m)
    <3>1. UNCHANGED <<inflight, assignments, finished>>
      BY <2>5 DEF SubmitOne, Submit, Commit, Park, RejectMalformed,
                  HandleCapacity, HandleHeartbeat, registry
    <3>2. consumer' = consumer
            \/ (consumer.at # "sending" /\ consumer'.at # "sending")
      BY <2>5 DEF SubmitOne, Submit, Commit, Park, RejectMalformed, CanRead,
                  HandleCapacity, HandleHeartbeat, Idle, Committing
    <3>3. HeldFor(n, s)' <=> HeldFor(n, s)
      BY <3>2 DEF HeldFor, Held
    <3>. QED BY <2>2, <2>4, <3>1, <3>3
  <2>6. ASSUME NEW p \in ReqPartitions, NEW m \in Nodes, Book(p, m)
        PROVE  s \in inflight'[n] <=> HeldFor(n, s)' \/ AtWorker(n, s)'
    <3>. DEFINE r == NextRequest(p)
    <3>1. /\ UNCHANGED <<assignments, finished>> /\ consumer = Idle
          /\ inflight' = [inflight EXCEPT ![m] = @ \cup {r}]
          /\ consumer' = Sending(p, r, m)
      BY <2>6 DEF Book, CanRead
    <3>2. s \in inflight'[n] <=> s \in inflight[n] \/ (n = m /\ s = r)
      BY <2>3, <3>1
    <3>3. ~HeldFor(n, s) /\ (HeldFor(n, s)' <=> n = m /\ s = r)
      BY <3>1 DEF HeldFor, Held, Idle, Sending
    <3>. HIDE DEF r
    <3>. QED BY <2>2, <2>4, <3>1, <3>2, <3>3
  <2>7. CASE SendAssignment
    <3>1. PICK b \in AsgPartitions, e \in AnyAssignment :
            /\ b = NodePartition[consumer.node]
            /\ e = [session |-> consumer.session, node |-> consumer.node]
      BY <1>0, <2>7, SentEntry DEF IInv
    <3>2. /\ assignments' = [assignments EXCEPT ![b] = Append(@, e)]
          /\ UNCHANGED <<inflight, finished>>
          /\ consumer.at = "sending" /\ consumer'.at # "sending"
      BY <2>7, <3>1 DEF SendAssignment, registry, Committing
    <3>3. ~HeldFor(n, s)'
      BY <3>2 DEF HeldFor, Held
    <3>4. HeldFor(n, s) <=> NodePartition[n] = b /\ e.session = s /\ e.node = n
      BY <3>1, <3>2 DEF HeldFor, Held
    <3>5. \/ ~HeldFor(n, s) /\ Unheard(n, s)' = Unheard(n, s)
          \/ HeldFor(n, s) /\ Unheard(n, s)' # {}
      <4>1. /\ WorkerInv /\ UNCHANGED asgPosition
            /\ assignments' = [assignments EXCEPT ![b] = Append(@, e)]
        BY <1>0, <2>1, <3>2
      <4>2. IF NodePartition[n] = b /\ e.session = s /\ e.node = n
            THEN Unheard(n, s)' # {} ELSE Unheard(n, s)' = Unheard(n, s)
        BY <4>1, UnheardGrows
      <4>. QED BY <3>4, <4>2
    <3>. QED BY <2>1, <2>2, <3>2, <3>3, <3>5 DEF AtWorker
  <2>8. ASSUME NEW m \in Nodes, NEW r \in Sessions, HandleFinished(m, r)
        PROVE  s \in inflight'[n] <=> HeldFor(n, s)' \/ AtWorker(n, s)'
    <3>1. /\ UNCHANGED <<assignments, consumer>> /\ finished[m][r] > 0
          /\ finished' = [finished EXCEPT ![m][r] = @ - 1]
          /\ inflight' = IF m \in registered
                         THEN [inflight EXCEPT ![m] = @ \ {r}] ELSE inflight
      BY <2>8 DEF HandleFinished
    <3>2. /\ UNCHANGED Unheard(n, s) /\ (HeldFor(n, s)' <=> HeldFor(n, s))
      BY <2>1, <3>1, AskedStays DEF Unheard, HeldFor, Held
    <3>3. CASE m = n /\ r = s
      <4>1. /\ Unheard(n, s) = {} /\ task[n][s] = "none" /\ finished[n][s] = 1
            /\ ~Held(s)
        BY <1>0, <2>1, <3>1, <3>3, CalmCounts
      <4>2. s \in inflight[n]
        BY <2>2, <4>1 DEF AtWorker
      <4>3. n \in registered
        BY <1>0, <2>1, <4>2 DEF NobodyEvicted
      <4>4. s \notin inflight'[n] /\ finished'[n][s] = 0
        BY <2>3, <3>1, <3>3, <4>1, <4>3
      <4>. QED BY <2>1, <3>2, <4>1, <4>4 DEF AtWorker, HeldFor
    <3>4. CASE ~(m = n /\ r = s)
      <4>1. /\ s \in inflight'[n] <=> s \in inflight[n]
            /\ finished'[n][s] = finished[n][s]
        BY <2>3, <3>1, <3>4
      <4>. QED BY <2>1, <2>2, <3>2, <4>1 DEF AtWorker
    <3>. QED BY <3>3, <3>4
  <2>. QED BY <1>0, <1>2, <2>5, <2>6, <2>7, <2>8, CalmScheduler
<1>. QED BY <1>1, <1>2 DEF PipelineNext

-----------------------------------------------------------------------------
(* The pipeline *)

\* Nothing is submitted, booked or running at first.
LEMMA PipelineInitInv == PipelineInit => PipelineInv
<1>. SUFFICES ASSUME PipelineInit PROVE PipelineInv
  OBVIOUS
<1>1. IInv /\ WorkerInv
  BY InitInv, WorkerInitInv DEF PipelineInit
<1>2. EntriesCounted
  <2>1. \A a \in AsgPartitions : DOMAIN assignments[a] = {}
    BY DEF PipelineInit, Init
  <2>2. \A s \in Sessions : Entries(s) = {}
    BY <2>1 DEF Entries
  <2>3. restarts = 0
    BY DEF PipelineInit, Init
  <2>. QED BY <2>2, <2>3, FS_EmptySet DEF EntriesCounted
<1>3. NobodyEvicted
  BY DEF PipelineInit, Init, WorkerInit, NobodyEvicted
<1>4. BooksMatchCalls
  <2>1. ASSUME NEW n \in Nodes, NEW s \in Sessions
        PROVE  /\ s \notin inflight[n] /\ consumer.at # "sending"
               /\ ~Travelling(n, s) /\ task[n][s] = "none"
               /\ ~(finished[n][s] > 0)
    BY TopicsAssumption
       DEF PipelineInit, Init, WorkerInit, Idle, Travelling, Log, NoTasks
  <2>. QED BY <2>1 DEF BooksMatchCalls
<1>. QED BY <1>1, <1>2, <1>3, <1>4 DEF PipelineInv

\* Every step of the pipeline keeps its invariant.
LEMMA PipelineNextInv ==
  PipelineInv /\ [PipelineNext]_pipelineVars => PipelineInv'
<1>. SUFFICES ASSUME PipelineInv, [PipelineNext]_pipelineVars
              PROVE  PipelineInv'
  OBVIOUS
<1>0. /\ IInv /\ WorkerInv /\ EntriesCounted /\ NobodyEvicted
      /\ BooksMatchCalls /\ TypeOK
  BY DEF PipelineInv, IInv
<1>1. CASE PipelineNext
  <2>1. IInv' /\ WorkerInv'
    <3>1. CASE Scheduler
      <4>1. IInv' /\ TypeOK'
        BY <1>0, <3>1, SchedulerIsScheduler, NextInv DEF IInv
      <4>. QED BY <1>0, <3>1, <4>1, SchedulerKeepsWorkers
    <3>2. CASE Worker
      <4>1. WorkerInv' /\ WorkerTypeOK'
        BY <1>0, <3>2, WorkerStepKeeps DEF Worker, WorkerInv
      <4>. QED BY <1>0, <3>2, <4>1, WorkersKeepScheduler
    <3>. QED BY <1>1, <3>1, <3>2 DEF PipelineNext
  <2>2. EntriesCounted' /\ NobodyEvicted'
    BY <1>0, <1>1, EntriesKept, NobodyEvictedKept
  <2>3. BooksMatchCalls'
    BY <1>1, <2>1, BooksKept DEF WorkerInv
  <2>. QED BY <2>1, <2>2, <2>3 DEF PipelineInv
<1>2. CASE UNCHANGED pipelineVars
  <2>. USE DEF pipelineVars, vars, requestTopic, registry, queue, history,
               workerVars, process, offsets, calls, eventTopics
  <2>1. IInv'
    BY <1>0, <1>2, NextInv
  <2>2. WorkerInv'
    BY <1>0, <1>2, WorkerStutterKeeps DEF serviceVars
  <2>3. EntriesCounted'
    BY <1>0, <1>2 DEF EntriesCounted, Entries, SentNow
  <2>4. NobodyEvicted'
    BY <1>0, <1>2 DEF NobodyEvicted, Calm
  <2>5. BooksMatchCalls'
    <3>1. \A n \in Nodes, s \in Sessions : Travelling(n, s)' <=> Travelling(n, s)
      BY <1>2 DEF Travelling, Log
    <3>. QED BY <1>0, <1>2, <3>1 DEF BooksMatchCalls, Calm
  <2>. QED BY <2>1, <2>2, <2>3, <2>4, <2>5 DEF PipelineInv
<1>. QED BY <1>1, <1>2

\* The inductive invariant of the call path: the scheduler's and the workers'
\* own, what each life of the scheduler adds to the logs, and its books.
THEOREM PipelineInvariant == PipelineSpec => []PipelineInv
<1>. QED BY PipelineInitInv, PipelineNextInv, PTL DEF PipelineSpec

\* As long as nothing fails, a call is on the books of a node exactly from its
\* booking until the scheduler read its end.
THEOREM BooksAreTrue == PipelineSpec => []BooksMatchCalls
<1>1. PipelineInv => BooksMatchCalls
  BY DEF PipelineInv
<1>. QED BY <1>1, PipelineInvariant, PTL

\* _consume_calls checks the limit before it launches: a node never runs more
\* calls than its GPU allows, whatever the scheduler booked on it.
THEOREM NodesWithinCapacity == PipelineSpec => []WithinCapacity
<1>1. PipelineInv => WithinCapacity
  BY DEF PipelineInv, WorkerInv, SlotsRespected, WithinCapacity
<1>. QED BY <1>1, PipelineInvariant, PTL

\* A worker reports a call ended at most once for each pair of a life of the
\* scheduler and a life of the worker.
THEOREM EndsCountedByLives == PipelineSpec => []EndsPerLife
<1>1. PipelineInv => EndsPerLife
  <2>. SUFFICES ASSUME PipelineInv, NEW n \in Nodes, NEW s \in Sessions
                PROVE  reported[n][s] <= (1 + restarts) * (1 + stops)
    BY DEF EndsPerLife
  <2>1. WorkerInv /\ EntriesCounted /\ restarts \in Nat
    BY DEF PipelineInv, IInv, TypeOK
  <2>2. /\ reported[n][s] + OpenEnds(n, s) <= Cardinality(Asked(n, s)) * Lives(n)
        /\ reported[n][s] \in Nat /\ OpenEnds(n, s) \in Nat
        /\ Cardinality(Asked(n, s)) \in Nat /\ Lives(n) \in Nat /\ stops \in Nat
    BY <2>1, CountsTyped DEF WorkerInv, EndsCounted
  <2>3. Cardinality(Asked(n, s)) <= 1 + restarts
    <3>1. /\ Cardinality(Asked(n, s)) <= Cardinality(Entries(s))
          /\ Cardinality(Entries(s)) \in Nat
      BY <2>1, AskedByEntries
    <3>2. Cardinality(Entries(s)) <= IF SentNow(s) THEN 1 + restarts ELSE restarts
      BY <2>1 DEF EntriesCounted
    <3>. QED BY <2>1, <2>2, <3>1, <3>2
  <2>4. Lives(n) <= 1 + stops
    BY <2>2 DEF Lives
  <2>5. /\ Cardinality(Asked(n, s)) * Lives(n) <= (1 + restarts) * Lives(n)
        /\ (1 + restarts) * Lives(n) <= (1 + restarts) * (1 + stops)
        /\ Cardinality(Asked(n, s)) * Lives(n) \in Nat
        /\ (1 + restarts) * Lives(n) \in Nat
        /\ (1 + restarts) * (1 + stops) \in Nat
    <3>1. 1 + restarts \in Nat /\ 1 + stops \in Nat
      BY <2>1, <2>2
    <3>. QED BY <2>2, <2>3, <2>4, <3>1, Products
  <2>. QED BY <2>2, <2>5
<1>. QED BY <1>1, PipelineInvariant, PTL

\* A call runs only where an entry of its own asked for it, so the nodes that
\* run it are at most as many as the lives of the scheduler.
THEOREM AgentsCountedByLives == PipelineSpec => []OneAgentPerCall
<1>1. PipelineInv => OneAgentPerCall
  <2>. SUFFICES ASSUME PipelineInv, NEW s \in Sessions
                PROVE  Cardinality({n \in Nodes : Running(n, s)}) <= 1 + restarts
    BY DEF OneAgentPerCall
  <2>. DEFINE R == {n \in Nodes : Running(n, s)}
              e == [n \in R |-> CHOOSE i \in Asked(n, s) : TRUE]
              f == [n \in R |-> <<NodePartition[n], e[n]>>]
  <2>1. WorkerInv /\ EntriesCounted /\ restarts \in Nat
    BY DEF PipelineInv, IInv, TypeOK
  <2>2. ASSUME NEW n \in R PROVE n \in Nodes /\ e[n] \in Asked(n, s)
    <3>1. Asked(n, s) # {}
      BY <2>1 DEF WorkerInv, TasksWereAsked, Running
    <3>. QED BY <3>1
  <2>. HIDE DEF e, R
  <2>3. \A n \in R : /\ NodePartition[n] \in AsgPartitions
                     /\ e[n] \in DOMAIN assignments[NodePartition[n]]
                     /\ assignments[NodePartition[n]][e[n]]
                           = [session |-> s, node |-> n]
    BY <2>2, TopicsAssumption DEF Asked, Log
  <2>4. ASSUME NEW n \in R PROVE <<NodePartition[n], e[n]>> \in Entries(s)
    <3>1. assignments[NodePartition[n]][e[n]] = [session |-> s, node |-> n]
      BY <2>3
    <3>2. assignments[NodePartition[n]][e[n]].session = s
      BY <3>1
    <3>. QED BY <2>3, <3>2, EntryIs
  <2>5. ASSUME NEW m \in R, NEW n \in R, f[m] = f[n] PROVE m = n
    <3>1. NodePartition[m] = NodePartition[n] /\ e[m] = e[n]
      BY <2>5
    <3>2. [session |-> s, node |-> m] = [session |-> s, node |-> n]
      BY <2>3, <3>1
    <3>. QED BY <3>2
  <2>6. f \in Injection(R, Entries(s))
    <3>1. f \in [R -> Entries(s)]
      BY <2>4
    <3>. QED BY <2>5, <3>1, Fun_IsInj
  <2>. HIDE DEF f
  <2>7. IsFiniteSet(Entries(s))
    BY <2>1 DEF EntriesCounted
  <2>8. Cardinality(R) <= Cardinality(Entries(s)) /\ IsFiniteSet(R)
    BY <2>6, <2>7, FS_Injection
  <2>9. Cardinality(R) \in Nat /\ Cardinality(Entries(s)) \in Nat
    BY <2>7, <2>8, FS_CardinalityType
  <2>10. Cardinality(Entries(s)) <= IF SentNow(s) THEN 1 + restarts ELSE restarts
    BY <2>1 DEF EntriesCounted
  <2>11. Cardinality(R) <= 1 + restarts
    BY <2>1, <2>8, <2>9, <2>10
  <2>. QED BY <2>11 DEF R
<1>. QED BY <1>1, PipelineInvariant, PTL

-----------------------------------------------------------------------------
(* The scheduler's promises against the real workers                       *)

\* What the scheduler promises with any workers it keeps with these: commits
\* follow decisions, requests are sent once and in order, books are disjoint,
\* and a paused partition waits behind a request that is queued.
THEOREM SchedulerPromisesKept ==
  PipelineSpec => [](/\ CommittedIsDecided /\ SentOncePerLife /\ SentInOrder
                     /\ InFlightOnOneNode /\ PausedAtParked)
<1>1. PipelineInv => /\ CommittedIsDecided /\ SentOncePerLife /\ SentInOrder
                     /\ InFlightOnOneNode /\ PausedAtParked
  <2>1. PipelineInv => IInv
    BY DEF PipelineInv
  <2>2. IInv => /\ SentOncePerLife /\ SentInOrder
                /\ InFlightOnOneNode /\ PausedAtParked
    BY DEF IInv
  <2>. QED BY <2>1, <2>2, DecidedBelowCommits
<1>. QED BY <1>1, PipelineInvariant, PTL

\* Workers take no event back.
LEMMA WorkersOnlyReport ==
  ASSUME WorkerTypeOK, WorkerStep
  PROVE  \A n \in Nodes, s \in Sessions : finished[n][s] <= finished'[n][s]
<1>0. finished \in [Nodes -> [Sessions -> Nat]]
  BY DEF WorkerTypeOK
<1>. USE DEF eventTopics, process, offsets, calls, workerVars
<1>1. \/ UNCHANGED finished
      \/ \E m \in Nodes, t \in Sessions :
           finished' = [finished EXCEPT ![m][t] = @ + 1]
  <2>1. ASSUME NEW m \in Nodes,
               \/ Start(m) \/ Poll(m) \/ Heartbeat(m) \/ Sigterm(m)
               \/ ConsumerExits(m) \/ StopMonitor(m) \/ FinishDrain(m)
               \/ Crash(m)
        PROVE  UNCHANGED finished
    BY <2>1 DEF Start, Poll, Heartbeat, Sigterm, ConsumerExits, StopMonitor,
                FinishDrain, Crash
  <2>2. ASSUME NEW m \in Nodes, ConsumerStep(m)
        PROVE  \/ UNCHANGED finished
               \/ \E t \in Sessions : finished' = [finished EXCEPT ![m][t] = @ + 1]
    <3>1. Receive(m) => Message(m).session \in Sessions
      BY MessageTyped DEF Receive
    <3>. QED BY <2>2, <3>1
             DEF ConsumerStep, SkipForeign, RejectOverload, SkipDuplicate,
                 Launch, CommitAssignment, PublishFinished, FinishedLost
  <2>3. ASSUME NEW m \in Nodes, NEW t \in Sessions, TaskStep(m, t)
        PROVE  \/ UNCHANGED finished
               \/ finished' = [finished EXCEPT ![m][t] = @ + 1]
    BY <2>3 DEF TaskStep, BeginRun, AttemptSucceeds, AttemptFails, EndBackoff,
                PublishEnd, PublishFinished, FinishedLost
  <2>. QED BY <2>1, <2>2, <2>3 DEF WorkerStep
<1>2. CASE UNCHANGED finished
  BY <1>0, <1>2
<1>3. CASE \E m \in Nodes, t \in Sessions :
             finished' = [finished EXCEPT ![m][t] = @ + 1]
  <2>1. PICK m \in Nodes, t \in Sessions :
          finished' = [finished EXCEPT ![m][t] = @ + 1]
    BY <1>3
  <2>2. ASSUME NEW n \in Nodes, NEW s \in Sessions
        PROVE  finished[n][s] <= finished'[n][s]
    <3>1. finished[n][s] \in Nat
      BY <1>0
    <3>2. finished'[n][s] = IF n = m /\ s = t THEN finished[n][s] + 1
                                              ELSE finished[n][s]
      BY <1>0, <2>1
    <3>. QED BY <3>1, <3>2
  <2>. QED BY <2>2
<1>. QED BY <1>1, <1>2, <1>3

\* _on_call_finished with the workers of worker_service.py: no partition stays
\* paused when a live node's report of an end is read.
THEOREM EndsResumeInPipeline == PipelineSpec => ReleaseResumes
<1>1. PipelineInv /\ [PipelineNext]_pipelineVars =>
        [\A n \in registered \cap fresh : \A s \in Sessions :
           finished'[n][s] < finished[n][s] => paused' = {}]_vars
  <2>. SUFFICES ASSUME PipelineInv, [PipelineNext]_pipelineVars,
                       NEW n \in registered \cap fresh, NEW s \in Sessions,
                       finished'[n][s] < finished[n][s]
                PROVE  paused' = {}
    OBVIOUS
  <2>0. TypeOK /\ WorkerTypeOK /\ n \in Nodes /\ finished[n][s] \in Nat
    BY DEF PipelineInv, IInv, TypeOK, WorkerInv
  <2>1. CASE Scheduler
    <3>1. [Next]_vars
      BY <2>1, SchedulerIsScheduler
    <3>. QED BY <2>0, <3>1, EndResumes
  <2>2. CASE Worker
    <3>1. finished[n][s] <= finished'[n][s] /\ finished'[n][s] \in Nat
      <4>1. WorkerTypeOK' /\ WorkerStep
        BY <2>2, WorkerStepTyped DEF Worker, PipelineInv, WorkerInv
      <4>2. finished[n][s] <= finished'[n][s]
        BY <2>0, <4>1, WorkersOnlyReport
      <4>. QED BY <2>0, <4>1, <4>2 DEF WorkerTypeOK
    <3>. QED BY <2>0, <3>1
  <2>3. CASE UNCHANGED pipelineVars
    <3>1. finished' = finished
      BY <2>3 DEF pipelineVars, vars, eventTopics
    <3>. QED BY <2>0, <3>1
  <2>. QED BY <2>1, <2>2, <2>3 DEF PipelineNext
<1>. QED BY <1>1, PipelineInvariant, PTL DEF PipelineSpec, ReleaseResumes

\* A worker's step leaves every request where it is in the ledger.
LEMMA WorkersKeepLedger ==
  ASSUME UNCHANGED <<requests, position, assignments, decided, restarts,
                     consumer>>
  PROVE  /\ LedgerInv => LedgerInv'
         /\ UNCHANGED <<StageMap, restarts > 0>>
<1>1. LedgerInv => LedgerInv'
  <2>1. \A s : Held(s)' => Held(s)
    BY DEF Held
  <2>. QED BY <2>1, SameConsumed, SameLedgerInv
<1>2. UNCHANGED <<StageMap, restarts > 0>>
  BY DEF StageMap, StageOf, Assigned, Logged
<1>. QED BY <1>1, <1>2

\* Every step of the pipeline keeps LedgerInv and is a step of the ledger.
LEMMA PipelineNextLedger ==
  PipelineInv /\ LedgerInv /\ [PipelineNext]_pipelineVars =>
    LedgerInv' /\ [Ledger!Next]_<<StageMap, restarts > 0>>
<1>. SUFFICES ASSUME PipelineInv, LedgerInv, [PipelineNext]_pipelineVars
              PROVE  LedgerInv' /\ [Ledger!Next]_<<StageMap, restarts > 0>>
  OBVIOUS
<1>0. IInv
  BY DEF PipelineInv
<1>1. CASE Scheduler
  <2>1. [Next]_vars
    BY <1>1, SchedulerIsScheduler
  <2>. QED BY <1>0, <2>1, NextLedgerInv, NextLedger
<1>2. CASE Worker \/ UNCHANGED pipelineVars
  <2>1. UNCHANGED <<requests, position, assignments, decided, restarts, consumer>>
    BY <1>2, WorkersOnTopics
       DEF Worker, schedVars, history, pipelineVars, vars, requestTopic
  <2>. QED BY <2>1, WorkersKeepLedger
<1>. QED BY <1>1, <1>2 DEF PipelineNext

\* The call path as a whole implements the ledger: whatever the workers do, a
\* request is decided once and an assignment is final.
THEOREM PipelineImplementsLedger == PipelineSpec => ImplementsLedger
<1>1. PipelineSpec => [](PipelineInv /\ LedgerInv)
  BY PipelineInitInv, PipelineNextInv, InitLedgerInv, PipelineNextLedger, PTL
     DEF PipelineSpec, PipelineInit
<1>2. [](PipelineInv /\ LedgerInv) /\ [][PipelineNext]_pipelineVars
        => [][Ledger!Next]_<<StageMap, restarts > 0>>
  BY PipelineNextLedger, PTL
<1>. QED BY <1>1, <1>2, InitLedger, PTL
         DEF PipelineSpec, PipelineInit, ImplementsLedger, Ledger!Spec, StageMap

\* SIGTERM ends the attempts of the workers in the pipeline as well.
THEOREM SigtermEndsAttemptsInPipeline == PipelineSpec => NoAttemptAfterSigterm
<1>1. PipelineInv /\ [PipelineNext]_pipelineVars =>
        [\A n \in Nodes, s \in Sessions :
           mode[n] # "up" => attempts'[n][s] <= attempts[n][s]]_serviceVars
  <2>. SUFFICES ASSUME PipelineInv, [PipelineNext]_pipelineVars,
                       NEW n \in Nodes, NEW s \in Sessions, mode[n] # "up"
                PROVE  attempts'[n][s] <= attempts[n][s]
    OBVIOUS
  <2>1. CASE Worker
    BY <2>1, NoLateAttempt DEF Worker, PipelineInv
  <2>2. CASE Scheduler \/ UNCHANGED pipelineVars
    <3>1. UNCHANGED attempts /\ attempts[n][s] \in Nat
      BY <2>2 DEF Scheduler, pipelineVars, workerVars, calls, PipelineInv,
                  WorkerInv, WorkerTypeOK
    <3>. QED BY <3>1
  <2>. QED BY <2>1, <2>2 DEF PipelineNext
<1>. QED BY <1>1, PipelineInvariant, PTL DEF PipelineSpec, NoAttemptAfterSigterm

-----------------------------------------------------------------------------
(* What the documented promises are true of                                *)

\* Two members of a set with at most one are the same.
LEMMA AtMostOne ==
  ASSUME NEW S, IsFiniteSet(S), Cardinality(S) <= 1, NEW x \in S, NEW y \in S
  PROVE  x = y
<1>. SUFFICES ASSUME x # y PROVE FALSE
  OBVIOUS
<1>. DEFINE T == {x}
<1>1. /\ IsFiniteSet(T) /\ Cardinality(T) = 1
      /\ y \notin T /\ T \cup {y} \subseteq S
  BY FS_Singleton
<1>. HIDE DEF T
<1>2. Cardinality(T \cup {y}) = Cardinality(T) + 1
  BY <1>1, FS_AddElement
<1>3. Cardinality(T \cup {y}) <= Cardinality(S)
  BY <1>1, FS_Subset
<1>4. Cardinality(S) \in Nat
  BY FS_CardinalityType
<1>. QED BY <1>1, <1>2, <1>3, <1>4

\* config.py, "manual commit for exactly-once": it is true of a scheduler that
\* was never restarted, whatever fails, falls silent or crashes at the workers.
THEOREM ExactlyOnceInOneLife == PipelineSpec => [](restarts = 0 => ExactlyOnce)
<1>1. PipelineInv => (restarts = 0 => ExactlyOnce)
  <2>. SUFFICES ASSUME PipelineInv, restarts = 0,
                       NEW a \in AsgPartitions, NEW b \in AsgPartitions,
                       NEW i \in DOMAIN assignments[a],
                       NEW j \in DOMAIN assignments[b],
                       assignments[a][i].session = assignments[b][j].session
                PROVE  a = b /\ i = j
    BY DEF ExactlyOnce
  <2>. DEFINE s == assignments[a][i].session
  <2>1. s \in Sessions
    <3>1. assignments[a] \in Seq(AnyAssignment)
      BY DEF PipelineInv, WorkerInv, WorkerTypeOK
    <3>2. assignments[a][i] \in AnyAssignment
      BY <3>1
    <3>. QED BY <3>2 DEF AnyAssignment
  <2>2. <<a, i>> \in Entries(s) /\ <<b, j>> \in Entries(s)
    BY EntryIs
  <2>3. IsFiniteSet(Entries(s)) /\ Cardinality(Entries(s)) <= 1
    <3>1. /\ IsFiniteSet(Entries(s))
          /\ Cardinality(Entries(s)) <= IF SentNow(s) THEN 1 + restarts
                                        ELSE restarts
      BY <2>1 DEF PipelineInv, EntriesCounted
    <3>. QED BY <3>1, FS_CardinalityType
  <2>. HIDE DEF s
  <2>4. <<a, i>> = <<b, j>>
    BY <2>2, <2>3, AtMostOne
  <2>. QED BY <2>4
<1>. QED BY <1>1, PipelineInvariant, PTL

\* A call that runs was entered; one that failed used up its attempts.
RunsAreCounted ==
  \A n \in Nodes, s \in Sessions :
    /\ task[n][s] \in {"running", "backoff", "completing"} => attempts[n][s] > 0
    /\ task[n][s] = "failing" => attempts[n][s] = MaxRetry

\* One step of one task keeps RunsAreCounted in a process that is up.
LEMMA TaskCountsRuns ==
  ASSUME WorkerInv, RunsAreCounted, NEW m \in Nodes, NEW t \in Sessions,
         mode[m] = "up", TaskStep(m, t)
  PROVE  RunsAreCounted'
<1>0. /\ task \in [Nodes -> [Sessions -> Phases]]
      /\ attempts \in [Nodes -> [Sessions -> Nat]]
      /\ attempts[m][t] \in Nat /\ attempts[m][t] <= MaxRetry
      /\ MaxRetry \in Nat \ {0}
  BY WorkerAssumption DEF WorkerInv, WorkerTypeOK, RetriesBounded
<1>1. ASSUME NEW n \in Nodes, NEW s \in Sessions, n # m \/ s # t
      PROVE  task'[n][s] = task[n][s] /\ attempts'[n][s] = attempts[n][s]
  BY <1>0, <1>1 DEF TaskStep, BeginRun, AttemptSucceeds, AttemptFails,
                    EndBackoff, PublishEnd, Move, Attempt
<1>2. \/ task'[m][t] = "running" /\ attempts'[m][t] = attempts[m][t] + 1
      \/ /\ task[m][t] = "running" /\ attempts'[m][t] = attempts[m][t]
         /\ \/ task'[m][t] \in {"backoff", "completing"}
            \/ task'[m][t] = "failing" /\ attempts[m][t] >= MaxRetry
      \/ task'[m][t] = "none"
  BY <1>0 DEF TaskStep, BeginRun, AttemptSucceeds, AttemptFails, EndBackoff,
              PublishEnd, Move, Attempt
<1>3. /\ task'[m][t] \in {"running", "backoff", "completing"}
           => attempts'[m][t] > 0
      /\ task'[m][t] = "failing" => attempts'[m][t] = MaxRetry
  <2>1. CASE task'[m][t] = "running" /\ attempts'[m][t] = attempts[m][t] + 1
    <3>1. attempts'[m][t] > 0
      BY <1>0, <2>1
    <3>. QED BY <2>1, <3>1
  <2>2. CASE /\ task[m][t] = "running" /\ attempts'[m][t] = attempts[m][t]
             /\ task'[m][t] \in {"backoff", "completing"}
    BY <2>2 DEF RunsAreCounted
  <2>3. CASE /\ attempts'[m][t] = attempts[m][t] /\ task'[m][t] = "failing"
             /\ attempts[m][t] >= MaxRetry
    <3>1. attempts[m][t] = MaxRetry
      <4>1. /\ attempts[m][t] \in Nat /\ MaxRetry \in Nat
            /\ attempts[m][t] <= MaxRetry /\ attempts[m][t] >= MaxRetry
        BY <1>0, <2>3
      <4>. QED BY <4>1
    <3>. QED BY <2>3, <3>1
  <2>4. CASE task'[m][t] = "none"
    BY <2>4
  <2>. QED BY <1>2, <2>1, <2>2, <2>3, <2>4
<1>. QED BY <1>1, <1>3 DEF RunsAreCounted

\* Without SIGTERM and crash every other step of a worker keeps it as well.
LEMMA WorkerCountsRuns ==
  ASSUME WorkerInv, RunsAreCounted, WorkerStep, stops = 0, stops' = 0
  PROVE  RunsAreCounted'
<1>. USE DEF process, offsets, calls, workerVars
<1>1. PICK m \in Nodes :
        \/ Start(m) \/ Poll(m) \/ Heartbeat(m)
        \/ Sigterm(m) \/ ConsumerExits(m) \/ StopMonitor(m) \/ FinishDrain(m)
        \/ Crash(m)
        \/ ConsumerStep(m)
        \/ \E s \in Sessions : TaskStep(m, s)
  BY DEF WorkerStep
<1>2. /\ task \in [Nodes -> [Sessions -> Phases]]
      /\ mode[m] \in {"down", "up"}
  BY DEF WorkerInv, WorkerTypeOK, LivesCounted, Modes
<1>3. CASE UNCHANGED <<task, attempts>>
  BY <1>3 DEF RunsAreCounted
<1>4. CASE \E t \in Sessions : /\ task' = [task EXCEPT ![m][t] = "starting"]
                               /\ attempts' = [attempts EXCEPT ![m][t] = 0]
  <2>1. PICK t \in Sessions : /\ task' = [task EXCEPT ![m][t] = "starting"]
                              /\ attempts' = [attempts EXCEPT ![m][t] = 0]
    BY <1>4
  <2>2. ASSUME NEW n \in Nodes, NEW s \in Sessions
        PROVE  \/ task'[n][s] = task[n][s] /\ attempts'[n][s] = attempts[n][s]
               \/ task'[n][s] = "starting"
    BY <1>2, <2>1 DEF WorkerInv, WorkerTypeOK
  <2>. QED BY <2>2 DEF RunsAreCounted
<1>5. ASSUME NEW t \in Sessions, TaskStep(m, t)
      PROVE  RunsAreCounted'
  <2>1. task[m][t] # "none"
    BY <1>5 DEF TaskStep, BeginRun, AttemptSucceeds, AttemptFails, EndBackoff,
                PublishEnd, Move
  <2>2. mode[m] = "up"
    BY <1>2, <2>1 DEF WorkerInv, DownIsEmpty, NoTasks
  <2>. QED BY <1>5, <2>2, TaskCountsRuns
<1>6. Receive(m) => Message(m).session \in Sessions
  BY MessageTyped DEF Receive, WorkerInv
<1>7. ConsumerStep(m) =>
        \/ UNCHANGED <<task, attempts>>
        \/ \E t \in Sessions : /\ task' = [task EXCEPT ![m][t] = "starting"]
                               /\ attempts' = [attempts EXCEPT ![m][t] = 0]
  BY <1>6 DEF ConsumerStep, SkipForeign, RejectOverload, SkipDuplicate, Launch,
              CommitAssignment
<1>8. Start(m) \/ Poll(m) \/ Heartbeat(m) => UNCHANGED <<task, attempts>>
  BY DEF Start, Poll, Heartbeat
<1>9. ~(\/ Sigterm(m) \/ ConsumerExits(m) \/ StopMonitor(m) \/ FinishDrain(m)
        \/ Crash(m))
  BY <1>2 DEF Sigterm, ConsumerExits, StopMonitor, FinishDrain, Crash
<1>. QED BY <1>1, <1>3, <1>4, <1>5, <1>7, <1>8, <1>9

\* SIGTERMs and crashes are only counted up.
LEMMA StopsGrow ==
  ASSUME WorkerTypeOK, [WorkerNext]_serviceVars, stops' = 0
  PROVE  stops = 0
<1>0. stops \in Nat
  BY DEF WorkerTypeOK
<1>. USE DEF process, offsets, calls, workerVars
<1>1. stops' = stops \/ stops' = stops + 1
  <2>1. CASE WorkerStep
    BY <2>1 DEF WorkerStep, ConsumerStep, TaskStep, Start, Poll, Heartbeat,
         Sigterm, ConsumerExits, StopMonitor, FinishDrain, Crash, Receive,
         SkipForeign, RejectOverload, SkipDuplicate, Launch, CommitAssignment,
         BeginRun, AttemptSucceeds, AttemptFails, EndBackoff, PublishEnd
  <2>2. CASE TopicStep \/ UNCHANGED serviceVars
    BY <2>2 DEF TopicStep, ReadEvents, Assign, serviceVars
  <2>. QED BY <2>1, <2>2 DEF WorkerNext
<1>. QED BY <1>0, <1>1

\* _run_worker_with_lifecycle: as long as no worker was told to stop and none
\* crashed, a call reported as completed was entered, and a call dead-lettered
\* had all its retries.
THEOREM PromisesOfUnstoppedWorkers ==
  WorkerSpec => [](stops = 0 => CompletedMeansRan /\ DlqAfterAllRetries)
<1>. DEFINE Counted == stops = 0 => RunsAreCounted
<1>1. WorkerInit => Counted
  <2>1. WorkerInit => \A n \in Nodes, s \in Sessions : task[n][s] = "none"
    BY DEF WorkerInit, NoTasks
  <2>. QED BY <2>1 DEF RunsAreCounted
<1>2. WorkerInv /\ Counted /\ [WorkerNext]_serviceVars => Counted'
  <2>. SUFFICES ASSUME WorkerInv, Counted, [WorkerNext]_serviceVars, stops' = 0
                PROVE  RunsAreCounted'
    OBVIOUS
  <2>1. stops = 0 /\ RunsAreCounted
    BY StopsGrow DEF WorkerInv
  <2>2. CASE WorkerStep
    BY <2>1, <2>2, WorkerCountsRuns
  <2>3. CASE TopicStep \/ UNCHANGED serviceVars
    <3>1. UNCHANGED <<task, attempts>>
      BY <2>3 DEF TopicStep, ReadEvents, Assign, serviceVars, workerVars, calls
    <3>. QED BY <2>1, <3>1 DEF RunsAreCounted
  <2>. QED BY <2>2, <2>3 DEF WorkerNext
<1>3. Counted => (stops = 0 => CompletedMeansRan /\ DlqAfterAllRetries)
  BY DEF RunsAreCounted, CompletedMeansRan, DlqAfterAllRetries
<1>. HIDE DEF Counted
<1>. QED BY <1>1, <1>2, <1>3, WorkerInvariant, PTL DEF WorkerSpec
=============================================================================
