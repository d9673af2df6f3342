------------------------- MODULE CallSchedulerProofs -------------------------
(***************************************************************************)
(* Theorems about CallScheduler for every number of sessions, nodes,       *)
(* partitions, restarts and faults.                                        *)
(***************************************************************************)
EXTENDS CallScheduler, TLAPS

-----------------------------------------------------------------------------
(* Type correctness *)

\* The initial state is well typed.
LEMMA InitTyped == Init => TypeOK
  BY DEF Init, TypeOK, ConsumerStates, Idle

\* Every step of the scheduler, of the API and of a worker keeps the types.
LEMMA NextTyped == TypeOK /\ [Next]_vars => TypeOK'
<1>. SUFFICES ASSUME TypeOK, [Next]_vars PROVE TypeOK'
  OBVIOUS
<1>. USE DEF TypeOK
<1>1. ASSUME NEW p \in ReqPartitions, NEW n \in Nodes, Book(p, n)
      PROVE  TypeOK'
  <2>1. NextRequest(p) \in Sessions
    BY <1>1 DEF Book, CanRead, NextRequest
  <2>2. free[n] > 0
    BY <1>1 DEF Book, BestNodes, Candidates
  <2>3. consumer' \in ConsumerStates
    BY <1>1, <2>1 DEF Book, Sending, ConsumerStates
  <2>4. position' \in [ReqPartitions -> Nat]
    BY <1>1 DEF Book, Consume
  <2>5. free' \in [Nodes -> Nat]
    BY <1>1, <2>2 DEF Book
  <2>6. inflight' \in [Nodes -> SUBSET Sessions] /\ pending' \subseteq Sessions
    BY <1>1, <2>1 DEF Book
  <2>. QED BY <1>1, <2>3, <2>4, <2>5, <2>6 DEF Book, eventTopics, history
<1>2. ASSUME NEW p \in ReqPartitions, Park(p)
      PROVE  TypeOK'
  <2>1. NextRequest(p) \in Sessions
    BY <1>2 DEF Park, CanRead, NextRequest
  <2>2. position' \in [ReqPartitions -> Nat]
    BY <1>2 DEF Park, Consume
  <2>. QED BY <1>2, <2>1, <2>2 DEF Park, eventTopics, registry
<1>3. ASSUME NEW p \in ReqPartitions, RejectMalformed(p)
      PROVE  TypeOK'
  <2>1. NextRequest(p) \in Sessions
    BY <1>3 DEF RejectMalformed, CanRead, NextRequest
  <2>2. position' \in [ReqPartitions -> Nat]
    BY <1>3 DEF RejectMalformed, Consume
  <2>3. consumer' \in ConsumerStates
    BY <1>3 DEF RejectMalformed, ConsumerStates
  <2>. QED BY <1>3, <2>1, <2>2, <2>3
     DEF RejectMalformed, eventTopics, registry, queue
<1>4. CASE SendAssignment
  <2>1. consumer.session \in Sessions /\ consumer.node \in Nodes
    BY <1>4 DEF SendAssignment, ConsumerStates, Idle, Committing
  <2>2. [session |-> consumer.session, node |-> consumer.node] \in Assignment
    BY <2>1 DEF Assignment
  <2>3. assignments' \in [AsgPartitions -> Seq(Assignment)]
    BY <1>4, <2>1, <2>2, TopicsAssumption DEF SendAssignment
  <2>4. consumer' \in ConsumerStates
    BY <1>4 DEF SendAssignment, ConsumerStates
  <2>5. sent' \in Seq(Sessions) /\ decided' \subseteq Sessions
    BY <1>4, <2>1 DEF SendAssignment
  <2>. QED BY <1>4, <2>3, <2>4, <2>5
     DEF SendAssignment, requestTopic, eventTopics, registry, queue
<1>5. CASE SendFails
  <2>1. consumer.session \in Sessions
    BY <1>5 DEF SendFails, ConsumerStates, Idle, Committing
  <2>. QED BY <1>5, <2>1
     DEF SendFails, ConsumerStates, requestTopic, eventTopics, registry, queue
<1>6. CASE Commit \/ CommitFails
  BY <1>6 DEF Commit, CommitFails, ConsumerStates, requestTopic, eventTopics,
              registry, queue, history
<1>7. ASSUME NEW n \in Nodes, HandleCapacity(n)
      PROVE  TypeOK'
  <2>1. Head(capacity[n]) \in Nat /\ Tail(capacity[n]) \in Seq(Nat)
    BY <1>7 DEF HandleCapacity
  <2>. QED BY <1>7, <2>1 DEF HandleCapacity, requestTopic, queue, history
<1>8. ASSUME NEW n \in Nodes, NEW s \in Sessions, HandleFinished(n, s)
      PROVE  TypeOK'
  <2>1. finished' \in [Nodes -> [Sessions -> Nat]]
    <3>1. finished[n][s] - 1 \in Nat
      BY <1>8 DEF HandleFinished
    <3>2. [finished[n] EXCEPT ![s] = finished[n][s] - 1] \in [Sessions -> Nat]
      BY <3>1
    <3>. QED BY <1>8, <3>2 DEF HandleFinished
  <2>2. free' \in [Nodes -> Nat]
    BY <1>8 DEF HandleFinished
  <2>4. inflight' \in [Nodes -> SUBSET Sessions]
    BY <1>8 DEF HandleFinished
  <2>3. paused' \subseteq ReqPartitions
    BY <1>8 DEF HandleFinished, Resume
  <2>. QED BY <1>8, <2>1, <2>2, <2>3, <2>4 DEF HandleFinished, requestTopic, history
<1>9. ASSUME NEW n \in Nodes, HandleHeartbeat(n)
      PROVE  TypeOK'
  BY <1>9 DEF HandleHeartbeat, requestTopic, queue, history
<1>10. ASSUME NEW n \in Nodes, Expire(n)
       PROVE  TypeOK'
  BY <1>10 DEF Expire, requestTopic, eventTopics, queue, history
<1>11. CASE EvictDead
  <2>1. paused' \subseteq ReqPartitions
    BY <1>11 DEF EvictDead, Resume
  <2>. QED BY <1>11, <2>1
     DEF EvictDead, requestTopic, eventTopics, history
<1>12. CASE Restart
  <2>1. consumer' \in ConsumerStates /\ sent' \in Seq(Sessions)
    BY <1>12 DEF Restart, ConsumerStates
  <2>2. free' \in [Nodes -> Nat] /\ inflight' \in [Nodes -> SUBSET Sessions]
    BY <1>12 DEF Restart
  <2>. QED BY <1>12, <2>1, <2>2 DEF Restart, eventTopics
<1>13. ASSUME NEW p \in ReqPartitions, NEW s \in Sessions, Submit(p, s)
       PROVE  TypeOK'
  BY <1>13 DEF Submit, eventTopics, registry, queue, history
<1>14. ASSUME NEW n \in Nodes, NEW k \in 0..MaxCalls, ReportCapacity(n, k)
       PROVE  TypeOK'
  BY <1>14, TopicsAssumption
     DEF ReportCapacity, requestTopic, registry, queue, history
<1>15. ASSUME NEW n \in Nodes, NEW s \in Sessions, ReportFinished(n, s)
       PROVE  TypeOK'
  <2>1. /\ [finished[n] EXCEPT ![s] = finished[n][s] + 1] \in [Sessions -> Nat]
        /\ [reported[n] EXCEPT ![s] = reported[n][s] + 1] \in [Sessions -> Nat]
    OBVIOUS
  <2>2. /\ finished' \in [Nodes -> [Sessions -> Nat]]
        /\ reported' \in [Nodes -> [Sessions -> Nat]]
    BY <1>15, <2>1 DEF ReportFinished
  <2>. QED BY <1>15, <2>2
     DEF ReportFinished, requestTopic, registry, queue, history
<1>16. ASSUME NEW n \in Nodes, Beat(n)
       PROVE  TypeOK'
  BY <1>16 DEF Beat, requestTopic, registry, queue, history
<1>17. CASE UNCHANGED vars
  BY <1>17 DEF vars, requestTopic, eventTopics, registry, queue, history
<1>. QED BY <1>1, <1>2, <1>3, <1>4, <1>5, <1>6, <1>7, <1>8, <1>9, <1>10, <1>11,
            <1>12, <1>13, <1>14, <1>15, <1>16, <1>17
         DEF Next, SchedStep, EnvStep

\* Every reachable state of the scheduler and its topics is well typed.
THEOREM TypeCorrect == Spec => []TypeOK
<1>. QED BY InitTyped, NextTyped, PTL DEF Spec

-----------------------------------------------------------------------------
(* The inductive invariant *)

\* The request a partition reads next is a submitted one and was not read in
\* this life of the scheduler: no other offset holds the same session.
LEMMA NextIsNew ==
  ASSUME IInv, NEW p \in ReqPartitions, CanRead(p)
  PROVE  /\ consumer = Idle
         /\ p \notin paused
         /\ position[p] \in Nat
         /\ position[p] + 1 \in DOMAIN requests[p]
         /\ NextRequest(p) \in Sessions
         /\ ~Consumed(NextRequest(p))
<1>1. position[p] \in Nat /\ requests[p] \in Seq(Sessions)
  BY DEF IInv, TypeOK
<1>2. position[p] + 1 \in DOMAIN requests[p] /\ NextRequest(p) \in Sessions
  BY <1>1 DEF CanRead, NextRequest
<1>3. ASSUME NEW q \in ReqPartitions, NEW i \in 1..position[q],
             requests[q][i] = NextRequest(p)
      PROVE  FALSE
  <2>1. position[q] \in Nat /\ requests[q] \in Seq(Sessions)
    BY DEF IInv, TypeOK
  <2>2. i \in DOMAIN requests[q]
    BY <2>1 DEF IInv, OffsetsOrdered
  <2>3. q = p /\ i = position[p] + 1
    BY <1>2, <1>3, <2>2 DEF IInv, LogsDistinct, NextRequest
  <2>. QED BY <2>1, <2>3
<1>. QED BY <1>1, <1>2, <1>3 DEF CanRead, Consumed, ConsumedFrom

\* The initial state satisfies the invariant.
LEMMA InitInv == Init => IInv
<1>. SUFFICES ASSUME Init PROVE IInv
  OBVIOUS
<1>1. TypeOK
  BY InitTyped
<1>2. LogsDistinct /\ OffsetsOrdered /\ HeldIsLast /\ ReadIsDecided
  BY DEF Init, LogsDistinct, OffsetsOrdered, HeldIsLast, ReadIsDecided, Idle
<1>3. SentWasRead /\ SentOncePerLife /\ SentInOrder
  BY DEF Init, SentWasRead, SentOncePerLife, SentInOrder
<1>4. InFlightWasRead /\ InFlightOnOneNode /\ PausedAtParked
  BY DEF Init, InFlightWasRead, InFlightOnOneNode, PausedAtParked
<1>. QED BY <1>1, <1>2, <1>3, <1>4 DEF IInv

\* What the event consumer, the clock, the watchdog and the workers do: they
\* forget calls in flight and resume partitions, and touch nothing else of
\* what the invariant speaks about.
LEMMA QuietInv ==
  ASSUME IInv, TypeOK',
         UNCHANGED <<requests, position, committed, pending, consumer, sent,
                     decided>>,
         \A n \in Nodes : inflight'[n] \subseteq inflight[n],
         paused' \subseteq paused
  PROVE  IInv'
<1>1. LogsDistinct' /\ OffsetsOrdered' /\ ReadIsDecided'
  BY DEF IInv, LogsDistinct, OffsetsOrdered, ReadIsDecided, Held
<1>2. HeldIsLast'
  BY DEF IInv, HeldIsLast
<1>3. SentWasRead' /\ SentOncePerLife' /\ SentInOrder'
  BY DEF IInv, SentWasRead, SentOncePerLife, SentInOrder, Consumed,
         ConsumedFrom, Held
<1>4. InFlightWasRead' /\ InFlightOnOneNode'
  BY DEF IInv, InFlightWasRead, InFlightOnOneNode, Consumed, ConsumedFrom
<1>5. PausedAtParked'
  BY DEF IInv, PausedAtParked
<1>. QED BY <1>1, <1>2, <1>3, <1>4, <1>5 DEF IInv

\* Reading one message of p keeps what was read read, and adds that message.
LEMMA ConsumeKeeps ==
  ASSUME TypeOK, NEW p \in ReqPartitions, Consume(p), UNCHANGED requests
  PROVE  /\ \A s : Consumed(s) => Consumed(s)'
         /\ \A s : s = NextRequest(p) => Consumed(s)'
         /\ \A q \in ReqPartitions : q # p => position'[q] = position[q]
         /\ position'[p] = position[p] + 1
<1>1. /\ \A q \in ReqPartitions : q # p => position'[q] = position[q]
      /\ position'[p] = position[p] + 1
  BY DEF TypeOK, Consume
<1>2. \A q \in ReqPartitions : position[q] \in Nat
  BY DEF TypeOK
<1>3. \A q \in ReqPartitions : 1..position[q] \subseteq 1..position'[q]
  BY <1>1, <1>2
<1>4. ASSUME NEW s, Consumed(s) PROVE Consumed(s)'
  <2>1. PICK q \in ReqPartitions : \E i \in 1..position[q] : requests[q][i] = s
    BY <1>4 DEF Consumed, ConsumedFrom
  <2>2. \E i \in 1..position'[q] : requests'[q][i] = s
    BY <1>3, <2>1
  <2>. QED BY <2>2 DEF Consumed, ConsumedFrom
<1>5. position'[p] \in 1..position'[p]
  BY <1>1, <1>2
<1>6. ASSUME NEW s, s = NextRequest(p) PROVE Consumed(s)'
  BY <1>1, <1>5, <1>6 DEF Consumed, ConsumedFrom, NextRequest
<1>. QED BY <1>1, <1>4, <1>6

\* Booking a request on a node.
LEMMA BookInv ==
  ASSUME IInv, TypeOK', NEW p \in ReqPartitions, NEW n \in Nodes, Book(p, n)
  PROVE  IInv'
<1>. DEFINE s == NextRequest(p)
<1>1. /\ consumer = Idle /\ p \notin paused /\ position[p] \in Nat
      /\ position[p] + 1 \in DOMAIN requests[p]
      /\ ~Consumed(s)
  BY NextIsNew DEF Book
<1>2. /\ \A x : Consumed(x) => Consumed(x)'
      /\ \A x : x = s => Consumed(x)'
      /\ \A q \in ReqPartitions : q # p => position'[q] = position[q]
      /\ position'[p] = position[p] + 1
  BY ConsumeKeeps DEF Book, IInv
<1>3. /\ UNCHANGED <<requests, committed, paused, sent, decided>>
      /\ pending' = pending \ {s}
      /\ consumer' = [at |-> "sending", part |-> p, session |-> s, node |-> n]
      /\ inflight' = [inflight EXCEPT ![n] = @ \cup {s}]
  BY DEF Book, history, Sending
<1>4. \A x : ~Held(x)
  BY <1>1 DEF Held, Idle
<1>5. \A x : Held(x)' <=> x = s
  BY <1>3 DEF Held
<1>6. \A q \in ReqPartitions :
        committed[q] \in Nat /\ position[q] \in Nat /\ requests[q] \in Seq(Sessions)
  BY DEF IInv, TypeOK
<1>7. LogsDistinct'
  BY <1>3 DEF IInv, LogsDistinct
<1>8. OffsetsOrdered'
  BY <1>1, <1>2, <1>3, <1>6 DEF IInv, OffsetsOrdered
<1>9. HeldIsLast'
  BY <1>1, <1>2, <1>3, <1>6 DEF IInv, HeldIsLast, OffsetsOrdered, NextRequest
<1>10. ReadIsDecided'
  <2>1. SUFFICES ASSUME NEW q \in ReqPartitions, NEW i \in 1..position'[q]
                 PROVE  requests[q][i] \in decided \/ requests[q][i] = s
    BY <1>3, <1>5 DEF ReadIsDecided
  <2>2. CASE i \in 1..position[q]
    BY <1>4, <2>2 DEF IInv, ReadIsDecided
  <2>3. CASE i \notin 1..position[q]
    BY <1>2, <1>6, <2>3 DEF NextRequest
  <2>. QED BY <2>2, <2>3
<1>11. SentWasRead'
  BY <1>1, <1>2, <1>3, <1>5 DEF IInv, SentWasRead
<1>12. SentOncePerLife' /\ SentInOrder'
  BY <1>3 DEF IInv, SentOncePerLife, SentInOrder
<1>13. InFlightWasRead'
  <2>1. SUFFICES ASSUME NEW m \in Nodes, NEW x \in inflight'[m]
                 PROVE  Consumed(x)'
    BY DEF InFlightWasRead
  <2>2. x \in inflight[m] \/ x = s
    BY <1>3 DEF IInv, TypeOK
  <2>. QED BY <1>2, <2>2 DEF IInv, InFlightWasRead
<1>14. InFlightOnOneNode'
  <2>1. \A m \in Nodes : s \notin inflight[m]
    BY <1>1 DEF IInv, InFlightWasRead
  <2>2. \A m \in Nodes : inflight'[m] = IF m = n THEN inflight[m] \cup {s}
                                                ELSE inflight[m]
    BY <1>3 DEF IInv, TypeOK
  <2>3. \A m, k \in Nodes : m # k => inflight[m] \cap inflight[k] = {}
    BY DEF IInv, InFlightOnOneNode
  <2>. HIDE DEF s
  <2>4. ASSUME NEW m \in Nodes, NEW k \in Nodes, m # k, NEW x \in inflight'[m],
               x \in inflight'[k]
        PROVE  FALSE
    <3>1. x # s
      BY <2>1, <2>2, <2>4
    <3>2. x \in inflight[m] /\ x \in inflight[k]
      <4>1. inflight'[m] \subseteq inflight[m] \cup {s}
        BY <2>2
      <4>2. inflight'[k] \subseteq inflight[k] \cup {s}
        BY <2>2
      <4>. QED BY <2>4, <3>1, <4>1, <4>2
    <3>. QED BY <2>3, <2>4, <3>2
  <2>. QED BY <2>4 DEF InFlightOnOneNode
<1>15. PausedAtParked'
  <2>1. SUFFICES ASSUME NEW q \in paused
                 PROVE  /\ position[q] \in DOMAIN requests[q]
                        /\ requests[q][position[q]] \in pending \ {s}
    <3>1. \A q \in paused : q \in ReqPartitions /\ q # p
      BY <1>1 DEF IInv, TypeOK
    <3>. QED BY <1>2, <1>3, <2>1, <3>1 DEF PausedAtParked
  <2>2. q \in ReqPartitions /\ q # p
    BY <1>1 DEF IInv, TypeOK
  <2>3. position[q] \in DOMAIN requests[q] /\ requests[q][position[q]] \in pending
    BY DEF IInv, PausedAtParked
  <2>4. requests[q][position[q]] # s
    BY <1>1, <2>2, <2>3 DEF IInv, LogsDistinct, NextRequest
  <2>. QED BY <2>3, <2>4
<1>. QED BY <1>7, <1>8, <1>9, <1>10, <1>11, <1>12, <1>13, <1>14, <1>15 DEF IInv

\* Setting a request aside before any send, as Park and RejectMalformed do.
LEMMA SkipInv ==
  ASSUME IInv, TypeOK', NEW p \in ReqPartitions,
         Park(p) \/ RejectMalformed(p)
  PROVE  IInv'
<1>. DEFINE s == NextRequest(p)
<1>1. /\ consumer = Idle /\ p \notin paused /\ position[p] \in Nat
      /\ position[p] + 1 \in DOMAIN requests[p]
      /\ ~Consumed(s)
  BY NextIsNew DEF Park, RejectMalformed
<1>2. UNCHANGED <<requests, committed, sent, inflight>>
  BY DEF Park, RejectMalformed, registry
<1>3. /\ \A x : Consumed(x) => Consumed(x)'
      /\ \A q \in ReqPartitions : q # p => position'[q] = position[q]
      /\ position'[p] = position[p] + 1
  BY <1>2, ConsumeKeeps DEF Park, RejectMalformed, IInv
<1>4. decided' = decided \cup {s} /\ consumer' \in {Idle, Committing}
  BY <1>1 DEF Park, RejectMalformed
<1>5. \A x : ~Held(x) /\ ~Held(x)'
  BY <1>1, <1>4 DEF Held, Idle, Committing
<1>6. \A q \in ReqPartitions :
        committed[q] \in Nat /\ position[q] \in Nat /\ requests[q] \in Seq(Sessions)
  BY DEF IInv, TypeOK
<1>7. LogsDistinct'
  BY <1>2 DEF IInv, LogsDistinct
<1>8. OffsetsOrdered'
  BY <1>1, <1>2, <1>3, <1>6 DEF IInv, OffsetsOrdered
<1>9. HeldIsLast'
  BY <1>4 DEF HeldIsLast, Idle, Committing
<1>10. ReadIsDecided'
  <2>1. SUFFICES ASSUME NEW q \in ReqPartitions, NEW i \in 1..position'[q]
                 PROVE  requests[q][i] \in decided \/ requests[q][i] = s
    BY <1>2, <1>4 DEF ReadIsDecided
  <2>2. CASE i \in 1..position[q]
    BY <1>5, <2>2 DEF IInv, ReadIsDecided
  <2>3. CASE i \notin 1..position[q]
    BY <1>3, <1>6, <2>3 DEF NextRequest
  <2>. QED BY <2>2, <2>3
<1>11. SentWasRead' /\ SentOncePerLife' /\ SentInOrder'
  BY <1>2, <1>3, <1>5 DEF IInv, SentWasRead, SentOncePerLife, SentInOrder
<1>12. InFlightWasRead' /\ InFlightOnOneNode'
  BY <1>2, <1>3 DEF IInv, InFlightWasRead, InFlightOnOneNode
<1>13. PausedAtParked'
  <2>1. CASE Park(p)
    <3>1. pending' = pending \cup {s} /\ paused' = paused \cup {p}
      BY <2>1 DEF Park
    <3>2. \A q \in paused : q \in ReqPartitions /\ q # p
      BY <1>1 DEF IInv, TypeOK
    <3>3. requests[p][position'[p]] = s
      BY <1>3 DEF NextRequest
    <3>. QED BY <1>1, <1>2, <1>3, <3>1, <3>2, <3>3 DEF IInv, PausedAtParked
  <2>2. CASE RejectMalformed(p)
    <3>1. UNCHANGED <<pending, paused>>
      BY <2>2 DEF RejectMalformed, queue
    <3>2. \A q \in paused : q \in ReqPartitions /\ q # p
      BY <1>1 DEF IInv, TypeOK
    <3>. QED BY <1>2, <1>3, <3>1, <3>2 DEF IInv, PausedAtParked
  <2>. QED BY <2>1, <2>2
<1>. QED BY <1>7, <1>8, <1>9, <1>10, <1>11, <1>12, <1>13 DEF IInv

\* The held request leaves the consumer: it is the last one read from its
\* partition, and no other offset holds its session.
LEMMA HeldIsRead ==
  ASSUME IInv, consumer.at = "sending"
  PROVE  /\ consumer.part \in ReqPartitions /\ consumer.session \in Sessions
         /\ consumer.part \notin paused
         /\ position[consumer.part] \in DOMAIN requests[consumer.part]
         /\ position[consumer.part] > committed[consumer.part]
         /\ Consumed(consumer.session)
         /\ \A q \in ReqPartitions : \A i \in DOMAIN requests[q] :
              requests[q][i] = consumer.session
                => q = consumer.part /\ i = position[q]
<1>1. consumer.part \in ReqPartitions /\ consumer.session \in Sessions
  BY DEF IInv, TypeOK, ConsumerStates, Idle, Committing
<1>2. \A q \in ReqPartitions :
        committed[q] \in Nat /\ position[q] \in Nat /\ requests[q] \in Seq(Sessions)
  BY DEF IInv, TypeOK
<1>3. /\ position[consumer.part] > committed[consumer.part]
      /\ requests[consumer.part][position[consumer.part]] = consumer.session
      /\ consumer.part \notin paused
  BY <1>1, <1>2 DEF IInv, HeldIsLast
<1>4. position[consumer.part] \in DOMAIN requests[consumer.part]
  BY <1>1, <1>2, <1>3 DEF IInv, OffsetsOrdered
<1>5. Consumed(consumer.session)
  <2>1. position[consumer.part] \in 1..position[consumer.part]
    BY <1>1, <1>2, <1>3
  <2>. QED BY <1>1, <1>3, <2>1 DEF Consumed, ConsumedFrom
<1>6. \A q \in ReqPartitions : \A i \in DOMAIN requests[q] :
        requests[q][i] = consumer.session
          => q = consumer.part /\ i = position[q]
  BY <1>1, <1>3, <1>4 DEF IInv, LogsDistinct
<1>. QED BY <1>1, <1>3, <1>4, <1>5, <1>6

\* The send succeeds or fails.
LEMMA SendInv ==
  ASSUME IInv, TypeOK', SendAssignment \/ SendFails
  PROVE  IInv'
<1>. DEFINE s == consumer.session
<1>1. consumer.at = "sending"
  BY DEF SendAssignment, SendFails
<1>2. /\ UNCHANGED <<requests, position, committed, pending, paused, inflight>>
      /\ decided' = decided \cup {s}
      /\ consumer' = Committing
  BY DEF SendAssignment, SendFails, requestTopic, registry, queue
<1>3. \A x : ~Held(x)' /\ (Held(x) <=> x = s)
  BY <1>1, <1>2 DEF Held, Committing
<1>4. \A x : Consumed(x) <=> Consumed(x)'
  BY <1>2 DEF Consumed, ConsumedFrom
<1>5. LogsDistinct' /\ OffsetsOrdered' /\ HeldIsLast' /\ ReadIsDecided'
  BY <1>2, <1>3
     DEF IInv, LogsDistinct, OffsetsOrdered, HeldIsLast, ReadIsDecided, Committing
<1>6. InFlightWasRead' /\ InFlightOnOneNode' /\ PausedAtParked'
  BY <1>2, <1>4 DEF IInv, InFlightWasRead, InFlightOnOneNode, PausedAtParked
<1>7. SentWasRead' /\ SentOncePerLife' /\ SentInOrder'
  <2>1. CASE SendFails
    BY <1>2, <1>3, <1>4, <2>1
       DEF SendFails, IInv, SentWasRead, SentOncePerLife, SentInOrder
  <2>2. CASE SendAssignment
    <3>1. sent \in Seq(Sessions) /\ s \in Sessions /\ sent' = Append(sent, s)
      BY <1>1, <2>2, HeldIsRead DEF SendAssignment, IInv, TypeOK
    <3>2. /\ Len(sent) \in Nat
          /\ DOMAIN sent = 1..Len(sent) /\ DOMAIN sent' = 1..(Len(sent) + 1)
          /\ \A a \in 1..Len(sent) : sent'[a] = sent[a]
          /\ sent'[Len(sent) + 1] = s
      BY <3>1
    <3>3. \A a \in 1..Len(sent) : Consumed(sent[a]) /\ sent[a] # s
      BY <1>3, <3>2 DEF IInv, SentWasRead
    <3>. HIDE DEF s
    <3>4. SentWasRead'
      <4>1. Consumed(s)
        BY <1>1, HeldIsRead DEF s
      <4>. QED BY <1>3, <1>4, <3>2, <3>3, <4>1 DEF SentWasRead
    <3>5. SentOncePerLife'
      BY <3>2, <3>3 DEF IInv, SentOncePerLife
    <3>6. SentInOrder'
      <4>1. SUFFICES ASSUME NEW q \in ReqPartitions,
                            NEW i \in DOMAIN requests[q],
                            NEW j \in DOMAIN requests[q],
                            NEW a \in DOMAIN sent', NEW b \in DOMAIN sent',
                            requests[q][i] = sent'[a],
                            requests[q][j] = sent'[b], i < j
                     PROVE  a < b
        BY <1>2 DEF SentInOrder
      <4>2. CASE a \in 1..Len(sent) /\ b \in 1..Len(sent)
        BY <3>2, <4>1, <4>2 DEF IInv, SentInOrder
      <4>3. CASE a \in 1..Len(sent) /\ b = Len(sent) + 1
        BY <3>2, <4>3
      <4>4. CASE a = Len(sent) + 1 /\ b = Len(sent) + 1
        <5>1. i = position[q] /\ j = position[q]
          BY <1>1, <3>2, <4>1, <4>4, HeldIsRead DEF s
        <5>. QED BY <4>1, <5>1 DEF IInv, TypeOK
      <4>5. CASE a = Len(sent) + 1 /\ b \in 1..Len(sent)
        <5>1. i = position[q]
          BY <1>1, <3>2, <4>1, <4>5, HeldIsRead DEF s
        <5>2. Consumed(requests[q][j])
          BY <3>2, <3>3, <4>1, <4>5
        <5>3. PICK r \in ReqPartitions :
                \E k \in 1..position[r] : requests[r][k] = requests[q][j]
          BY <5>2 DEF Consumed, ConsumedFrom
        <5>4. PICK k \in 1..position[r] : requests[r][k] = requests[q][j]
          BY <5>3
        <5>5. /\ position[r] \in Nat /\ requests[r] \in Seq(Sessions)
              /\ position[r] <= Len(requests[r])
          BY DEF IInv, TypeOK, OffsetsOrdered
        <5>6. r = q /\ k = j
          BY <5>4, <5>5 DEF IInv, LogsDistinct
        <5>. QED BY <4>1, <5>1, <5>5, <5>6
      <4>. QED BY <3>2, <4>2, <4>3, <4>4, <4>5
    <3>. QED BY <3>4, <3>5, <3>6
  <2>. QED BY <2>1, <2>2
<1>. QED BY <1>5, <1>6, <1>7 DEF IInv

\* The commit succeeds or is dropped.
LEMMA CommitInv ==
  ASSUME IInv, TypeOK', Commit \/ CommitFails
  PROVE  IInv'
<1>1. /\ UNCHANGED <<requests, position, pending, paused, inflight, sent, decided>>
      /\ consumer = Committing /\ consumer' = Idle
      /\ committed' = position \/ committed' = committed
  BY DEF Commit, CommitFails, requestTopic, registry, queue, history
<1>2. \A x : ~Held(x)' /\ ~Held(x)
  BY <1>1 DEF Held, Committing, Idle
<1>3. OffsetsOrdered'
  BY <1>1 DEF IInv, TypeOK, OffsetsOrdered
<1>4. LogsDistinct' /\ HeldIsLast' /\ ReadIsDecided'
  BY <1>1, <1>2 DEF IInv, LogsDistinct, HeldIsLast, ReadIsDecided, Idle
<1>5. \A x : Consumed(x) <=> Consumed(x)'
  BY <1>1 DEF Consumed, ConsumedFrom
<1>6. SentWasRead' /\ SentOncePerLife' /\ SentInOrder'
  BY <1>1, <1>2, <1>5 DEF IInv, SentWasRead, SentOncePerLife, SentInOrder
<1>7. InFlightWasRead' /\ InFlightOnOneNode' /\ PausedAtParked'
  BY <1>1, <1>5 DEF IInv, InFlightWasRead, InFlightOnOneNode, PausedAtParked
<1>. QED BY <1>3, <1>4, <1>6, <1>7 DEF IInv

\* A restart forgets everything but the committed offsets, and everything
\* below them is decided.
LEMMA RestartInv ==
  ASSUME IInv, TypeOK', Restart
  PROVE  IInv'
<1>1. /\ UNCHANGED <<requests, committed, decided>>
      /\ position' = committed /\ sent' = <<>> /\ paused' = {}
      /\ consumer' = Idle
      /\ inflight' = [n \in Nodes |-> {}]
  BY DEF Restart
<1>2. \A q \in ReqPartitions :
        committed[q] \in Nat /\ position[q] \in Nat /\ requests[q] \in Seq(Sessions)
  BY DEF IInv, TypeOK
<1>3. LogsDistinct' /\ OffsetsOrdered'
  BY <1>1, <1>2 DEF IInv, LogsDistinct, OffsetsOrdered
<1>4. HeldIsLast'
  BY <1>1 DEF HeldIsLast, Idle
<1>5. ReadIsDecided'
  <2>1. SUFFICES ASSUME NEW q \in ReqPartitions, NEW i \in 1..committed[q]
                 PROVE  requests[q][i] \in decided
    BY <1>1 DEF ReadIsDecided
  <2>2. i \in 1..position[q] /\ i \in DOMAIN requests[q]
    BY <1>2 DEF IInv, OffsetsOrdered
  <2>3. ~Held(requests[q][i])
    BY <1>2, <2>2, HeldIsRead DEF Held
  <2>. QED BY <2>2, <2>3 DEF IInv, ReadIsDecided
<1>6. SentWasRead' /\ SentOncePerLife' /\ SentInOrder'
  BY <1>1 DEF SentWasRead, SentOncePerLife, SentInOrder
<1>7. InFlightWasRead' /\ InFlightOnOneNode' /\ PausedAtParked'
  BY <1>1 DEF InFlightWasRead, InFlightOnOneNode, PausedAtParked
<1>. QED BY <1>3, <1>4, <1>5, <1>6, <1>7 DEF IInv

\* A new request is appended: every offset keeps its request, and no other
\* offset holds the new session.
LEMMA SubmitInv ==
  ASSUME IInv, TypeOK', NEW p \in ReqPartitions, NEW s \in Sessions, Submit(p, s)
  PROVE  IInv'
<1>1. /\ UNCHANGED <<position, committed, pending, paused, inflight, sent,
                     decided, consumer>>
      /\ requests' = [requests EXCEPT ![p] = Append(@, s)]
  BY DEF Submit, registry, queue, history
<1>2. \A q \in ReqPartitions :
        /\ committed[q] \in Nat /\ position[q] \in Nat
        /\ requests[q] \in Seq(Sessions) /\ Len(requests[q]) \in Nat
        /\ DOMAIN requests[q] = 1..Len(requests[q])
        /\ committed[q] <= position[q] /\ position[q] <= Len(requests[q])
  BY DEF IInv, TypeOK, OffsetsOrdered
<1>3. /\ \A q \in ReqPartitions : q # p => requests'[q] = requests[q]
      /\ Len(requests'[p]) = Len(requests[p]) + 1
      /\ DOMAIN requests'[p] = 1..(Len(requests[p]) + 1)
      /\ \A i \in 1..Len(requests[p]) : requests'[p][i] = requests[p][i]
      /\ requests'[p][Len(requests[p]) + 1] = s
  BY <1>1, <1>2 DEF IInv, TypeOK
<1>4. \A q \in ReqPartitions :
        /\ DOMAIN requests[q] \subseteq DOMAIN requests'[q]
        /\ \A i \in DOMAIN requests[q] : requests'[q][i] = requests[q][i]
  <2>1. ASSUME NEW q \in ReqPartitions, NEW i \in DOMAIN requests[q]
        PROVE  i \in DOMAIN requests'[q] /\ requests'[q][i] = requests[q][i]
    <3>1. CASE q = p
      BY <1>2, <1>3, <3>1
    <3>2. CASE q # p
      BY <1>3, <3>2
    <3>. QED BY <3>1, <3>2
  <2>. QED BY <2>1
<1>5. \A q \in ReqPartitions : \A i \in 1..position[q] :
        i \in DOMAIN requests[q] /\ requests'[q][i] = requests[q][i]
  BY <1>2, <1>4
<1>6. \A x : Consumed(x) <=> Consumed(x)'
  BY <1>1, <1>5 DEF Consumed, ConsumedFrom
<1>7. \A x : Held(x) <=> Held(x)'
  BY <1>1 DEF Held
<1>8. \A q \in ReqPartitions : \A i \in DOMAIN requests[q] : requests[q][i] # s
  BY <1>2 DEF Submit
<1>9. LogsDistinct'
  <2>1. SUFFICES ASSUME NEW q \in ReqPartitions, NEW r \in ReqPartitions,
                        NEW i \in DOMAIN requests'[q],
                        NEW j \in DOMAIN requests'[r],
                        requests'[q][i] = requests'[r][j]
                 PROVE  q = r /\ i = j
    BY DEF LogsDistinct
  <2>2. i \in DOMAIN requests[q] \/ (q = p /\ i = Len(requests[p]) + 1)
    BY <1>2, <1>3
  <2>3. j \in DOMAIN requests[r] \/ (r = p /\ j = Len(requests[p]) + 1)
    BY <1>2, <1>3
  <2>. QED BY <1>3, <1>4, <1>8, <2>1, <2>2, <2>3 DEF IInv, LogsDistinct
<1>10. OffsetsOrdered'
  BY <1>1, <1>2, <1>3 DEF OffsetsOrdered
<1>11. HeldIsLast'
  <2>1. CASE consumer.at = "sending"
    BY <1>1, <1>4, <2>1, HeldIsRead DEF IInv, HeldIsLast
  <2>2. CASE consumer.at # "sending"
    BY <1>1, <2>2 DEF HeldIsLast
  <2>. QED BY <2>1, <2>2
<1>12. ReadIsDecided'
  BY <1>1, <1>5, <1>7 DEF IInv, ReadIsDecided
<1>13. SentWasRead' /\ SentOncePerLife'
  BY <1>1, <1>6, <1>7 DEF IInv, SentWasRead, SentOncePerLife
<1>14. SentInOrder'
  <2>1. SUFFICES ASSUME NEW q \in ReqPartitions,
                        NEW i \in DOMAIN requests'[q],
                        NEW j \in DOMAIN requests'[q],
                        NEW a \in DOMAIN sent, NEW b \in DOMAIN sent,
                        requests'[q][i] = sent[a],
                        requests'[q][j] = sent[b], i < j
                 PROVE  a < b
    BY <1>1 DEF SentInOrder
  <2>2. Consumed(sent[a]) /\ Consumed(sent[b])
    BY DEF IInv, SentWasRead
  <2>3. sent[a] # s /\ sent[b] # s
    BY <1>5, <1>8, <2>2 DEF Consumed, ConsumedFrom
  <2>4. i \in DOMAIN requests[q] /\ j \in DOMAIN requests[q]
    BY <1>2, <1>3, <2>1, <2>3
  <2>. QED BY <1>4, <2>1, <2>4 DEF IInv, SentInOrder
<1>15. InFlightWasRead' /\ InFlightOnOneNode'
  BY <1>1, <1>6 DEF IInv, InFlightWasRead, InFlightOnOneNode
<1>16. PausedAtParked'
  BY <1>1, <1>4 DEF IInv, TypeOK, PausedAtParked
<1>. QED BY <1>9, <1>10, <1>11, <1>12, <1>13, <1>14, <1>15, <1>16 DEF IInv

\* Every step keeps the invariant.
LEMMA NextInv == IInv /\ [Next]_vars => IInv'
<1>. SUFFICES ASSUME IInv, [Next]_vars PROVE IInv'
  OBVIOUS
<1>0. TypeOK'
  BY NextTyped DEF IInv
<1>1. ASSUME NEW p \in ReqPartitions, NEW n \in Nodes, Book(p, n) PROVE IInv'
  BY <1>0, <1>1, BookInv
<1>2. ASSUME NEW p \in ReqPartitions, Park(p) \/ RejectMalformed(p) PROVE IInv'
  BY <1>0, <1>2, SkipInv
<1>3. CASE SendAssignment \/ SendFails
  BY <1>0, <1>3, SendInv
<1>4. CASE Commit \/ CommitFails
  BY <1>0, <1>4, CommitInv
<1>5. ASSUME NEW n \in Nodes,
             \/ HandleCapacity(n) \/ HandleHeartbeat(n) \/ Expire(n) \/ Beat(n)
             \/ \E k \in 0..MaxCalls : ReportCapacity(n, k)
             \/ \E s \in Sessions : ReportFinished(n, s)
      PROVE  IInv'
  BY <1>0, <1>5, QuietInv
     DEF HandleCapacity, HandleHeartbeat, Expire, Beat, ReportCapacity,
         ReportFinished, requestTopic, registry, queue, history
<1>6. ASSUME NEW n \in Nodes, NEW s \in Sessions, HandleFinished(n, s)
      PROVE  IInv'
  <2>1. \A m \in Nodes : inflight'[m] \subseteq inflight[m]
    BY <1>6 DEF HandleFinished, IInv, TypeOK
  <2>2. paused' \subseteq paused
    BY <1>6 DEF HandleFinished, Resume
  <2>. QED BY <1>0, <1>6, <2>1, <2>2, QuietInv
           DEF HandleFinished, requestTopic, history
<1>7. CASE EvictDead
  <2>1. \A m \in Nodes : inflight'[m] \subseteq inflight[m]
    BY <1>7 DEF EvictDead
  <2>2. paused' \subseteq paused
    BY <1>7 DEF EvictDead, Resume
  <2>. QED BY <1>0, <1>7, <2>1, <2>2, QuietInv
           DEF EvictDead, requestTopic, history
<1>8. CASE Restart
  BY <1>0, <1>8, RestartInv
<1>9. ASSUME NEW p \in ReqPartitions, NEW s \in Sessions, Submit(p, s) PROVE IInv'
  BY <1>0, <1>9, SubmitInv
<1>10. CASE UNCHANGED vars
  BY <1>0, <1>10, QuietInv
     DEF vars, requestTopic, registry, queue, history
<1>. QED BY <1>1, <1>2, <1>3, <1>4, <1>5, <1>6, <1>7, <1>8, <1>9, <1>10
         DEF Next, SchedStep, EnvStep

\* The invariant holds in every reachable state.
THEOREM Invariant == Spec => []IInv
<1>. QED BY InitInv, NextInv, PTL DEF Spec

-----------------------------------------------------------------------------
(* The safety properties *)

\* Of the requests below a committed offset none is in the consumer's hands:
\* that one is the last one read, and its offset is not committed yet.
LEMMA DecidedBelowCommits == IInv => CommittedIsDecided
<1>1. SUFFICES ASSUME IInv, NEW p \in ReqPartitions, NEW i \in 1..committed[p]
               PROVE  requests[p][i] \in decided
  BY DEF CommittedIsDecided
<1>2. /\ committed[p] \in Nat /\ position[p] \in Nat
      /\ requests[p] \in Seq(Sessions)
  BY <1>1 DEF IInv, TypeOK
<1>3. i \in 1..position[p] /\ i \in DOMAIN requests[p]
  BY <1>1, <1>2 DEF IInv, OffsetsOrdered
<1>4. ~Held(requests[p][i])
  BY <1>1, <1>2, <1>3, HeldIsRead DEF Held
<1>. QED BY <1>1, <1>3, <1>4 DEF IInv, ReadIsDecided

\* No commit, whichever partition it is for, runs ahead of a request that is
\* still being assigned.
THEOREM CommitsAreDecided == Spec => []CommittedIsDecided
<1>. QED BY DecidedBelowCommits, Invariant, PTL

\* In one life of the scheduler every request goes to a worker at most once,
\* and the requests of a partition go in the order of submission.
THEOREM SentOnceInOrder == Spec => [](SentOncePerLife /\ SentInOrder)
<1>1. IInv => SentOncePerLife /\ SentInOrder
  BY DEF IInv
<1>. QED BY <1>1, Invariant, PTL

\* No call is booked on two nodes.
THEOREM OneNodePerCall == Spec => []InFlightOnOneNode
<1>1. IInv => InFlightOnOneNode
  BY DEF IInv
<1>. QED BY <1>1, Invariant, PTL

\* A paused partition stands right behind a request that is still queued.
THEOREM PausedPartitionsWait == Spec => []PausedAtParked
<1>1. IInv => PausedAtParked
  BY DEF IInv
<1>. QED BY <1>1, Invariant, PTL

-----------------------------------------------------------------------------
(* The action property *)

\* When a node that is alive reports an end, the slot is booked back before
\* the paused partitions are looked at: that node is a candidate then.
LEMMA EndResumes ==
  ASSUME TypeOK, [Next]_vars, NEW n \in registered \cap fresh,
         NEW s \in Sessions, finished'[n][s] < finished[n][s]
  PROVE  paused' = {}
<1>. n \in Nodes /\ finished[n][s] \in Nat /\ free[n] \in Nat
  BY DEF TypeOK
<1>1. ASSUME NEW m \in Nodes, NEW r \in Sessions, HandleFinished(m, r)
      PROVE  paused' = {}
  <2>1. m = n
    BY <1>1 DEF HandleFinished, TypeOK
  <2>2. free'[n] = free[n] + 1
    BY <1>1, <2>1 DEF HandleFinished, TypeOK
  <2>. QED BY <1>1, <2>2 DEF HandleFinished, Resume
<1>2. ASSUME NEW m \in Nodes, NEW r \in Sessions, ReportFinished(m, r)
      PROVE  FALSE
  <2>1. \A k \in Nodes, q \in Sessions :
          finished'[k][q] = IF k = m /\ q = r THEN finished[k][q] + 1
                            ELSE finished[k][q]
    BY <1>2 DEF ReportFinished, TypeOK
  <2>. QED BY <2>1
<1>3. ASSUME finished' = finished PROVE FALSE
  BY <1>3
<1>4. CASE UNCHANGED vars
  BY <1>3, <1>4 DEF vars, eventTopics
<1>5. CASE \E m \in Nodes : Expire(m)
  BY <1>3, <1>5 DEF Expire, eventTopics
<1>6. CASE Restart
  BY <1>3, <1>6 DEF Restart, eventTopics
<1>7. CASE EnvStep
  BY <1>2, <1>3, <1>7 DEF EnvStep, Submit, ReportCapacity, Beat, eventTopics
<1>8. CASE SchedStep
  BY <1>1, <1>3, <1>8
     DEF SchedStep, Book, Park, RejectMalformed, SendAssignment, SendFails,
         Commit, CommitFails, HandleCapacity, HandleHeartbeat, EvictDead,
         eventTopics
<1>. QED BY <1>4, <1>5, <1>6, <1>7, <1>8 DEF Next

\* No partition stays paused once a live node has reported the end of a call.
THEOREM EndsResume == Spec => ReleaseResumes
<1>1. TypeOK /\ [Next]_vars =>
        [\A n \in registered \cap fresh : \A s \in Sessions :
           finished'[n][s] < finished[n][s] => paused' = {}]_vars
  BY EndResumes
<1>. QED BY <1>1, TypeCorrect, PTL DEF Spec, ReleaseResumes

-----------------------------------------------------------------------------
(* The refinement: CallScheduler implements CallLedger.  The initial       *)
(* states map to the initial state of the ledger, and every step of the    *)
(* scheduler, its topics and its environment maps to one step of the       *)
(* ledger for one session, or to none.                                     *)

StageMap == [s \in Sessions |-> StageOf(s)]

-----------------------------------------------------------------------------
(* The strengthening LedgerInv *)

\* Nothing is assigned, decided or submitted at the start.
LEMMA InitLedgerInv == Init => LedgerInv
  BY DEF Init, LedgerInv, Assigned

\* A step that keeps the logs and the decisions, and forgets nothing that was
\* read unless it counts a restart, keeps LedgerInv.
LEMMA SameLedgerInv ==
  ASSUME LedgerInv, UNCHANGED <<requests, assignments, decided>>,
         restarts' = 0 => /\ restarts = 0
                          /\ \A s \in decided : Consumed(s) => Consumed(s)'
                          /\ \A s \in decided : Held(s)' => Held(s)
  PROVE  LedgerInv'
<1>1. \A s : (Assigned(s) <=> Assigned(s)') /\ (Logged(s) <=> Logged(s)')
  BY DEF Assigned, Logged
<1>. QED BY <1>1 DEF LedgerInv

\* What is read stays read while positions and requests stay.
LEMMA SameConsumed ==
  ASSUME UNCHANGED <<requests, position>>
  PROVE  \A s : Consumed(s) => Consumed(s)'
  BY DEF Consumed, ConsumedFrom

\* Every read request was submitted.
LEMMA ConsumedIsLogged ==
  ASSUME IInv, NEW s, Consumed(s)
  PROVE  Logged(s)
<1>1. PICK p \in ReqPartitions : \E i \in 1..position[p] : requests[p][i] = s
  BY DEF Consumed, ConsumedFrom
<1>2. PICK i \in 1..position[p] : requests[p][i] = s
  BY <1>1
<1>3. i \in DOMAIN requests[p]
  BY DEF IInv, TypeOK, OffsetsOrdered
<1>. QED BY <1>2, <1>3 DEF Logged

\* The request a decision is about was submitted; in the first life it was
\* not decided before.
LEMMA ReadFacts ==
  ASSUME IInv, LedgerInv, NEW p \in ReqPartitions,
         Park(p) \/ RejectMalformed(p)
  PROVE  /\ Logged(NextRequest(p)) /\ NextRequest(p) \in Sessions
         /\ restarts = 0 => NextRequest(p) \notin decided
<1>1. /\ position[p] + 1 \in DOMAIN requests[p] /\ NextRequest(p) \in Sessions
      /\ ~Consumed(NextRequest(p))
  BY NextIsNew DEF Park, RejectMalformed
<1>. QED BY <1>1 DEF LedgerInv, Logged, NextRequest

\* Deciding one request whose log entry exists.
LEMMA DecideLedgerInv ==
  ASSUME LedgerInv, NEW s, Logged(s), decided' = decided \cup {s},
         UNCHANGED <<requests, restarts>>,
         \A x : Assigned(x)' => Assigned(x) \/ x = s,
         \A x : Consumed(x) => Consumed(x)',
         \A x : ~Held(x)', \A y : y = s => Consumed(y)'
  PROVE  LedgerInv'
<1>1. \A x : Logged(x) <=> Logged(x)'
  BY DEF Logged
<1>. QED BY <1>1 DEF LedgerInv

\* What is known of the request in the consumer's hands.
LEMMA HeldFacts ==
  ASSUME IInv, LedgerInv, consumer.at = "sending"
  PROVE  /\ consumer.session \in Sessions
         /\ Consumed(consumer.session) /\ Logged(consumer.session)
         /\ restarts = 0 => consumer.session \notin decided
<1>1. consumer.session \in Sessions /\ Consumed(consumer.session)
  BY HeldIsRead
<1>2. Logged(consumer.session)
  BY <1>1, ConsumedIsLogged
<1>. QED BY <1>1, <1>2 DEF LedgerInv, Held

\* Sending assigns the held request and no other.
LEMMA AssignFacts ==
  ASSUME IInv, SendAssignment
  PROVE  /\ \A x : x = consumer.session => Assigned(x)'
         /\ \A x : x # consumer.session => (Assigned(x)' <=> Assigned(x))
<1>. DEFINE a == NodePartition[consumer.node]
            m == [session |-> consumer.session, node |-> consumer.node]
<1>1. consumer.node \in Nodes /\ consumer.session \in Sessions
  BY DEF SendAssignment, IInv, TypeOK, ConsumerStates, Idle, Committing
<1>2. a \in AsgPartitions /\ m \in Assignment
  BY <1>1, TopicsAssumption DEF Assignment
<1>3. assignments \in [AsgPartitions -> Seq(Assignment)]
  BY DEF IInv, TypeOK
<1>4. /\ \A b \in AsgPartitions : b # a => assignments'[b] = assignments[b]
      /\ assignments'[a] = Append(assignments[a], m)
  BY <1>2, <1>3 DEF SendAssignment
<1>5. m.session = consumer.session
  OBVIOUS
<1>. HIDE DEF a, m
<1>6. /\ Len(assignments[a]) \in Nat
      /\ DOMAIN assignments[a] = 1..Len(assignments[a])
      /\ DOMAIN assignments'[a] = 1..(Len(assignments[a]) + 1)
      /\ \A i \in 1..Len(assignments[a]) : assignments'[a][i] = assignments[a][i]
      /\ assignments'[a][Len(assignments[a]) + 1] = m
  BY <1>2, <1>3, <1>4
<1>7. ASSUME NEW x, x = consumer.session PROVE Assigned(x)'
  <2>1. Len(assignments[a]) + 1 \in DOMAIN assignments'[a]
    BY <1>6
  <2>. QED BY <1>2, <1>5, <1>6, <1>7, <2>1 DEF Assigned
<1>8. ASSUME NEW x, Assigned(x) PROVE Assigned(x)'
  <2>1. PICK b \in AsgPartitions :
          \E i \in DOMAIN assignments[b] : assignments[b][i].session = x
    BY <1>8 DEF Assigned
  <2>2. \E i \in DOMAIN assignments'[b] : assignments'[b][i].session = x
    <3>1. CASE b = a
      BY <1>6, <2>1, <3>1
    <3>2. CASE b # a
      BY <1>4, <2>1, <3>2
    <3>. QED BY <3>1, <3>2
  <2>. QED BY <2>2 DEF Assigned
<1>9. ASSUME NEW x, x # consumer.session, Assigned(x)' PROVE Assigned(x)
  <2>1. PICK b \in AsgPartitions :
          \E i \in DOMAIN assignments'[b] : assignments'[b][i].session = x
    BY <1>9 DEF Assigned
  <2>2. \E i \in DOMAIN assignments[b] : assignments[b][i].session = x
    <3>1. CASE b = a
      <4>1. PICK i \in 1..(Len(assignments[a]) + 1) :
              assignments'[a][i].session = x
        BY <1>6, <2>1, <3>1
      <4>2. i # Len(assignments[a]) + 1
        BY <1>5, <1>6, <1>9, <4>1
      <4>3. i \in 1..Len(assignments[a])
        BY <1>6, <4>2
      <4>. QED BY <1>6, <3>1, <4>1, <4>3
    <3>2. CASE b # a
      BY <1>4, <2>1, <3>2
    <3>. QED BY <3>1, <3>2
  <2>. QED BY <2>2 DEF Assigned
<1>. QED BY <1>7, <1>8, <1>9

-----------------------------------------------------------------------------
(* LedgerInv is preserved *)

\* Every step keeps the strengthening.
LEMMA NextLedgerInv == IInv /\ LedgerInv /\ [Next]_vars => LedgerInv'
<1>. SUFFICES ASSUME IInv, LedgerInv, [Next]_vars PROVE LedgerInv'
  OBVIOUS
<1>1. ASSUME NEW p \in ReqPartitions, NEW n \in Nodes, Book(p, n)
      PROVE  LedgerInv'
  <2>1. ~Consumed(NextRequest(p))
    BY <1>1, NextIsNew DEF Book
  <2>2. /\ UNCHANGED <<requests, assignments, decided, restarts>>
        /\ consumer' = Sending(p, NextRequest(p), n)
    BY <1>1 DEF Book, history
  <2>3. \A s : Consumed(s) => Consumed(s)'
    BY <1>1, ConsumeKeeps DEF Book, IInv
  <2>4. \A s : Held(s)' => s = NextRequest(p)
    BY <2>2 DEF Held, Sending
  <2>5. restarts = 0 => \A s \in decided : ~Held(s)'
    BY <2>1, <2>4 DEF LedgerInv
  <2>. QED BY <2>2, <2>3, <2>5, SameLedgerInv
<1>2. ASSUME NEW p \in ReqPartitions, Park(p) \/ RejectMalformed(p)
      PROVE  LedgerInv'
  <2>1. Logged(NextRequest(p))
    BY <1>2, ReadFacts
  <2>2. /\ UNCHANGED <<requests, assignments, restarts>>
        /\ decided' = decided \cup {NextRequest(p)}
        /\ consumer' \in {Idle, Committing}
    BY <1>2, NextIsNew DEF Park, RejectMalformed
  <2>3. /\ \A s : Consumed(s) => Consumed(s)'
        /\ \A s : s = NextRequest(p) => Consumed(s)'
    BY <1>2, ConsumeKeeps DEF Park, RejectMalformed, IInv
  <2>4. \A s : ~Held(s)'
    BY <2>2 DEF Held, Idle, Committing
  <2>5. \A s : Assigned(s)' => Assigned(s)
    BY <2>2 DEF Assigned
  <2>. QED BY <2>1, <2>2, <2>3, <2>4, <2>5, DecideLedgerInv
<1>3. CASE SendAssignment \/ SendFails
  <2>1. Logged(consumer.session) /\ Consumed(consumer.session)
    BY <1>3, HeldFacts DEF SendAssignment, SendFails
  <2>2. /\ UNCHANGED <<requests, position, restarts>>
        /\ decided' = decided \cup {consumer.session}
        /\ consumer' = Committing
    BY <1>3 DEF SendAssignment, SendFails, requestTopic
  <2>3. \A s : Consumed(s) => Consumed(s)'
    BY <2>2, SameConsumed
  <2>4. \A s : ~Held(s)'
    BY <2>2 DEF Held, Committing
  <2>5. \A s : Assigned(s)' => Assigned(s) \/ s = consumer.session
    BY <1>3, AssignFacts DEF SendFails, Assigned
  <2>. QED BY <2>1, <2>2, <2>3, <2>4, <2>5, DecideLedgerInv
<1>4. CASE Commit \/ CommitFails
  <2>1. /\ UNCHANGED <<requests, position, assignments, decided, restarts>>
        /\ consumer' = Idle
    BY <1>4 DEF Commit, CommitFails, requestTopic, history
  <2>2. \A s : ~Held(s)'
    BY <2>1 DEF Held, Idle
  <2>. QED BY <2>1, <2>2, SameConsumed, SameLedgerInv
<1>5. CASE \/ \E n \in Nodes :
                \/ HandleCapacity(n) \/ HandleHeartbeat(n) \/ Expire(n)
                \/ Beat(n)
                \/ \E k \in 0..MaxCalls : ReportCapacity(n, k)
                \/ \E s \in Sessions : ReportFinished(n, s) \/ HandleFinished(n, s)
           \/ EvictDead
           \/ UNCHANGED vars
  <2>1. UNCHANGED <<requests, position, assignments, decided, restarts, consumer>>
    BY <1>5 DEF HandleCapacity, HandleHeartbeat, Expire, Beat, ReportCapacity,
                ReportFinished, HandleFinished, EvictDead, vars, requestTopic,
                registry, queue, history
  <2>2. \A s : Held(s)' => Held(s)
    BY <2>1 DEF Held
  <2>. QED BY <2>1, <2>2, SameConsumed, SameLedgerInv
<1>6. CASE Restart
  <2>1. UNCHANGED <<requests, assignments, decided>> /\ restarts' = restarts + 1
    BY <1>6 DEF Restart
  <2>2. restarts' # 0
    BY <2>1 DEF IInv, TypeOK
  <2>. QED BY <2>1, <2>2, SameLedgerInv
<1>7. ASSUME NEW p \in ReqPartitions, NEW s \in Sessions, Submit(p, s)
      PROVE  LedgerInv'
  <2>1. /\ UNCHANGED <<position, assignments, decided, restarts, consumer>>
        /\ requests' = [requests EXCEPT ![p] = Append(@, s)]
    BY <1>7 DEF Submit, registry, queue, history
  <2>2. ASSUME NEW q \in ReqPartitions, NEW i \in DOMAIN requests[q]
        PROVE  i \in DOMAIN requests'[q] /\ requests'[q][i] = requests[q][i]
    BY <2>1 DEF IInv, TypeOK
  <2>3. \A x : Logged(x) => Logged(x)'
    BY <2>2 DEF Logged
  <2>4. ASSUME NEW q \in ReqPartitions, NEW i \in 1..position[q]
        PROVE  requests'[q][i] = requests[q][i]
    <3>1. i \in DOMAIN requests[q]
      BY DEF IInv, TypeOK, OffsetsOrdered
    <3>. QED BY <2>2, <3>1
  <2>5. \A x : Consumed(x) => Consumed(x)'
    BY <2>1, <2>4 DEF Consumed, ConsumedFrom
  <2>6. \A x : (Held(x)' <=> Held(x)) /\ (Assigned(x)' <=> Assigned(x))
    BY <2>1 DEF Held, Assigned
  <2>. QED BY <2>1, <2>3, <2>5, <2>6 DEF LedgerInv
<1>. QED BY <1>1, <1>2, <1>3, <1>4, <1>5, <1>6, <1>7
         DEF Next, SchedStep, EnvStep

-----------------------------------------------------------------------------
(* Every step is a step of the ledger *)

\* The initial states map to the ledger's initial state.
LEMMA InitLedger == Init => Ledger!Init
  BY DEF Init, Ledger!Init, StageOf, Assigned, Logged

\* A step that moves at most one session maps to Advance or to a stutter.
LEMMA StageChange ==
  ASSUME NEW s \in Sessions,
         \A x \in Sessions : x # s => StageOf(x)' = StageOf(x)
  PROVE  /\ StageMap' = [StageMap EXCEPT ![s] = StageOf(s)']
         /\ StageMap[s] = StageOf(s)
         /\ StageOf(s)' = StageOf(s) => StageMap' = StageMap
  BY DEF StageMap

\* Setting one request aside moves it from submitted to aside, or leaves it.
LEMMA AsideStep ==
  ASSUME LedgerInv, NEW s \in Sessions, Logged(s), decided' = decided \cup {s},
         UNCHANGED <<requests, assignments, restarts>>
  PROVE  Ledger!Next \/ (StageMap' = StageMap /\ UNCHANGED restarts)
<1>1. \A x : (Assigned(x) <=> Assigned(x)') /\ (Logged(x) <=> Logged(x)')
  BY DEF Assigned, Logged
<1>2. \A x \in Sessions : x # s => StageOf(x)' = StageOf(x)
  BY <1>1 DEF StageOf
<1>3. CASE Assigned(s) \/ s \in decided
  <2>1. StageOf(s)' = StageOf(s)
    BY <1>1, <1>3 DEF StageOf
  <2>. QED BY <1>2, <2>1, StageChange
<1>4. CASE ~Assigned(s) /\ s \notin decided
  <2>1. StageOf(s) = "submitted" /\ StageOf(s)' = "aside"
    BY <1>1, <1>4 DEF StageOf
  <2>2. Ledger!SetAside(s)
    BY <1>2, <2>1, StageChange DEF Ledger!SetAside, Ledger!Advance, StageMap
  <2>. QED BY <2>2 DEF Ledger!Next
<1>. QED BY <1>3, <1>4

\* Every step of the scheduler is a step of the ledger or none.
LEMMA NextLedger ==
  IInv /\ LedgerInv /\ [Next]_vars =>
    [Ledger!Next]_<<StageMap, restarts > 0>>
<1>. SUFFICES ASSUME IInv, LedgerInv, [Next]_vars
              PROVE  Ledger!Next \/ UNCHANGED <<StageMap, restarts > 0>>
  OBVIOUS
<1>1. ASSUME UNCHANGED <<requests, assignments, decided, restarts>>
      PROVE  UNCHANGED <<StageMap, restarts > 0>>
  BY <1>1 DEF StageMap, StageOf, Assigned, Logged
<1>2. CASE \/ \E p \in ReqPartitions, n \in Nodes : Book(p, n)
           \/ Commit \/ CommitFails
           \/ \E n \in Nodes :
                \/ HandleCapacity(n) \/ HandleHeartbeat(n) \/ Expire(n)
                \/ Beat(n)
                \/ \E k \in 0..MaxCalls : ReportCapacity(n, k)
                \/ \E s \in Sessions : ReportFinished(n, s) \/ HandleFinished(n, s)
           \/ EvictDead
           \/ UNCHANGED vars
  <2>1. UNCHANGED <<requests, assignments, decided, restarts>>
    BY <1>2 DEF Book, Commit, CommitFails, HandleCapacity, HandleHeartbeat,
                Expire, Beat, ReportCapacity, ReportFinished, HandleFinished,
                EvictDead, vars, requestTopic, history
  <2>. QED BY <1>1, <2>1
<1>3. ASSUME NEW p \in ReqPartitions, Park(p) \/ RejectMalformed(p)
      PROVE  Ledger!Next \/ UNCHANGED <<StageMap, restarts > 0>>
  <2>1. Logged(NextRequest(p)) /\ NextRequest(p) \in Sessions
    BY <1>3, ReadFacts
  <2>2. /\ decided' = decided \cup {NextRequest(p)}
        /\ UNCHANGED <<requests, assignments, restarts>>
    BY <1>3 DEF Park, RejectMalformed
  <2>. QED BY <2>1, <2>2, AsideStep
<1>4. CASE SendFails
  <2>1. consumer.session \in Sessions /\ Logged(consumer.session)
    BY <1>4, HeldFacts DEF SendFails
  <2>2. /\ decided' = decided \cup {consumer.session}
        /\ UNCHANGED <<requests, assignments, restarts>>
    BY <1>4 DEF SendFails, requestTopic
  <2>. QED BY <2>1, <2>2, AsideStep
<1>5. CASE SendAssignment
  <2>. DEFINE s == consumer.session
  <2>1. s \in Sessions /\ Logged(s) /\ (restarts = 0 => s \notin decided)
    BY <1>5, HeldFacts DEF SendAssignment
  <2>2. decided' = decided \cup {s} /\ UNCHANGED <<requests, restarts>>
    BY <1>5 DEF SendAssignment, requestTopic
  <2>3. /\ \A x : x = s => Assigned(x)'
        /\ \A x : x # s => (Assigned(x)' <=> Assigned(x))
    BY <1>5, AssignFacts
  <2>. HIDE DEF s
  <2>4. PICK t \in Sessions : t = s
    BY <2>1
  <2>5. \A x : Logged(x)' <=> Logged(x)
    BY <2>2 DEF Logged
  <2>6. \A x \in Sessions : x # t => StageOf(x)' = StageOf(x)
    BY <2>2, <2>3, <2>4, <2>5 DEF StageOf
  <2>7. StageOf(t)' = "assigned"
    BY <2>3, <2>4 DEF StageOf
  <2>8. CASE Assigned(t)
    <3>1. StageOf(t)' = StageOf(t)
      BY <2>7, <2>8 DEF StageOf
    <3>. QED BY <2>2, <2>6, <3>1, StageChange
  <2>9. CASE ~Assigned(t) /\ t \in decided
    <3>1. StageOf(t) = "aside" /\ restarts > 0
      BY <2>1, <2>4, <2>9 DEF StageOf, IInv, TypeOK
    <3>2. Ledger!Reconsider(t)
      BY <2>2, <2>6, <2>7, <3>1, StageChange
         DEF Ledger!Reconsider, Ledger!Advance, StageMap
    <3>. QED BY <3>2 DEF Ledger!Next
  <2>10. CASE ~Assigned(t) /\ t \notin decided
    <3>1. StageOf(t) = "submitted"
      BY <2>1, <2>4, <2>10 DEF StageOf
    <3>2. Ledger!Assign(t)
      BY <2>2, <2>6, <2>7, <3>1, StageChange
         DEF Ledger!Assign, Ledger!Advance, StageMap
    <3>. QED BY <3>2 DEF Ledger!Next
  <2>. QED BY <2>8, <2>9, <2>10
<1>6. CASE Restart
  <2>1. /\ UNCHANGED <<requests, assignments, decided>>
        /\ restarts' = restarts + 1
    BY <1>6 DEF Restart
  <2>2. StageMap' = StageMap
    BY <2>1 DEF StageMap, StageOf, Assigned, Logged
  <2>3. (restarts > 0)' = TRUE
    BY <2>1 DEF IInv, TypeOK
  <2>4. Ledger!Crash
    BY <2>2, <2>3 DEF Ledger!Crash, StageMap
  <2>. QED BY <2>4 DEF Ledger!Next
<1>7. ASSUME NEW p \in ReqPartitions, NEW s \in Sessions, Submit(p, s)
      PROVE  Ledger!Next \/ UNCHANGED <<StageMap, restarts > 0>>
  <2>1. /\ UNCHANGED <<assignments, decided, restarts>>
        /\ requests' = [requests EXCEPT ![p] = Append(@, s)]
        /\ ~Logged(s)
    BY <1>7 DEF Submit, registry, queue, history, Logged, IInv, TypeOK
  <2>2. requests[p] \in Seq(Sessions) /\ requests \in [ReqPartitions -> Seq(Sessions)]
    BY DEF IInv, TypeOK
  <2>3. /\ \A q \in ReqPartitions : q # p => requests'[q] = requests[q]
        /\ DOMAIN requests'[p] = 1..(Len(requests[p]) + 1)
        /\ DOMAIN requests[p] = 1..Len(requests[p])
        /\ Len(requests[p]) \in Nat
        /\ \A i \in 1..Len(requests[p]) : requests'[p][i] = requests[p][i]
        /\ requests'[p][Len(requests[p]) + 1] = s
    BY <2>1, <2>2
  <2>4. Len(requests[p]) + 1 \in DOMAIN requests'[p]
    BY <2>3
  <2>5. Logged(s)'
    BY <2>3, <2>4 DEF Logged
  <2>6. ASSUME NEW x, x # s PROVE Logged(x)' <=> Logged(x)
    <3>1. ASSUME NEW q \in ReqPartitions
          PROVE  (\E i \in DOMAIN requests'[q] : requests'[q][i] = x)
                   <=> (\E i \in DOMAIN requests[q] : requests[q][i] = x)
      <4>1. CASE q = p
        <5>1. \A i \in DOMAIN requests'[p] :
                i \in DOMAIN requests[p] \/ requests'[p][i] = s
          BY <2>3
        <5>2. \A i \in DOMAIN requests[p] :
                i \in DOMAIN requests'[p] /\ requests'[p][i] = requests[p][i]
          BY <2>3
        <5>. QED BY <2>6, <4>1, <5>1, <5>2
      <4>2. CASE q # p
        BY <2>3, <4>2
      <4>. QED BY <4>1, <4>2
    <3>. QED BY <3>1 DEF Logged
  <2>7. \A x : Assigned(x)' <=> Assigned(x)
    BY <2>1 DEF Assigned
  <2>8. ~Assigned(s) /\ s \notin decided
    BY <2>1 DEF LedgerInv
  <2>9. \A x \in Sessions : x # s => StageOf(x)' = StageOf(x)
    BY <2>1, <2>6, <2>7 DEF StageOf
  <2>10. StageOf(s) = "new" /\ StageOf(s)' = "submitted"
    BY <2>1, <2>5, <2>7, <2>8 DEF StageOf
  <2>11. Ledger!Submit(s)
    BY <2>1, <2>9, <2>10, StageChange DEF Ledger!Submit, Ledger!Advance, StageMap
  <2>. QED BY <2>11 DEF Ledger!Next
<1>. QED BY <1>2, <1>3, <1>4, <1>5, <1>6, <1>7
         DEF Next, SchedStep, EnvStep

\* The scheduler implements the ledger: a request is decided once, an
\* assignment is final, and only a restart lets a request that was set aside
\* be assigned after all.
THEOREM SchedulerImplementsLedger == Spec => ImplementsLedger
<1>1. Spec => [](IInv /\ LedgerInv)
  BY InitInv, NextInv, InitLedgerInv, NextLedgerInv, PTL DEF Spec
<1>2. [](IInv /\ LedgerInv) /\ [][Next]_vars
        => [][Ledger!Next]_<<StageMap, restarts > 0>>
  BY NextLedger, PTL
<1>. QED BY <1>1, <1>2, InitLedger, PTL
         DEF Spec, ImplementsLedger, Ledger!Spec, StageMap
=============================================================================
