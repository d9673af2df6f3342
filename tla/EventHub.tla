------------------------------ MODULE EventHub ------------------------------
(***************************************************************************)
(* The event hub (livekit/websocket/hub.py) and the clients of its         *)
(* WebSocket and SSE streams (websocket/api.py).                           *)
(*                                                                         *)
(* Every event is put into the queue of each subscriber and into a short   *)
(* history that is replayed to WebSocket clients when they subscribe.  A   *)
(* queue that is full loses its oldest event.  The lock of the hub is      *)
(* never held across an await, so a publication, a subscription with its   *)
(* replay and an unsubscription are one action each.  Events are numbered  *)
(* in the order they are published; what they say is [type, session].      *)
(***************************************************************************)
EXTENDS Naturals, Sequences, FiniteSets

CONSTANTS
  Clients,      \* WebSocket and SSE connections
  Listener,     \* the subscription of the integration service
  Types,        \* types of events
  Sessions,
  QueueSize,    \* _MAX_QUEUE_SIZE
  HistorySize,  \* _HISTORY_SIZE
  MaxEvents     \* bound on events published

ASSUME HubAssumption ==
  /\ Listener \notin Clients
  /\ QueueSize \in Nat /\ HistorySize \in Nat
  /\ 0 < HistorySize /\ HistorySize <= QueueSize
  /\ MaxEvents \in Nat

VARIABLES
  log,      \* history: all events published
  history,  \* _history
  queue,    \* _subscribers: the queue of each subscription
  seen,     \* history: number of the last event each subscriber took
  dropped   \* _total_dropped

hub == <<log, history, queue, seen, dropped>>

Subscribers == Clients \cup {Listener}
Event       == [type : Types, session : Sessions, n : 1 .. MaxEvents]

\* The last n elements of a sequence, or all of them.
Last(seq, n) ==
  IF Len(seq) <= n THEN seq ELSE SubSeq(seq, Len(seq) - n + 1, Len(seq))

\* The integration service subscribes when the application starts.
HubInit ==
  /\ log = <<>> /\ history = <<>>
  /\ queue = [q \in {Listener} |-> <<>>]
  /\ seen = [q \in Subscribers |-> 0]
  /\ dropped = 0

\* Mutant: the newest event is lost.
PutUnlessFull(q, event) ==
  IF Len(queue[q]) < QueueSize THEN Append(queue[q], event) ELSE queue[q]

\* put_nowait, after get_nowait when the queue is full.
Put(q, event) ==
  IF Len(queue[q]) < QueueSize THEN Append(queue[q], event)
  ELSE Append(Tail(queue[q]), event)

\* publish; the type and the session come from whoever publishes.
Publish(type, session) ==
  LET event == [type |-> type, session |-> session, n |-> Len(log) + 1]
      full  == {q \in DOMAIN queue : Len(queue[q]) = QueueSize}
  IN  /\ Len(log) < MaxEvents
      /\ log' = Append(log, event)
      /\ history' = Last(Append(history, event), HistorySize)
      /\ queue' = [q \in DOMAIN queue |-> Put(q, event)]
      /\ dropped' = dropped + Cardinality(full)
      /\ UNCHANGED seen

\* Mutant: the client is registered first, and what is published before the
\* replay comes twice; here, the last event.
SubscribeFirst(q, replay) ==
  /\ q \in Clients \ DOMAIN queue
  /\ queue' = [p \in DOMAIN queue \cup {q} |->
                 IF p # q THEN queue[p]
                 ELSE IF replay /\ log # <<>>
                 THEN Append(history, log[Len(log)]) ELSE <<>>]
  /\ seen' = [seen EXCEPT ![q] = 0]
  /\ UNCHANGED <<log, history, dropped>>

\* subscribe: a WebSocket replays the history, which fits into the queue; the
\* SSE stream does not.
Subscribe(q, replay) ==
  /\ q \in Clients \ DOMAIN queue
  /\ queue' = [p \in DOMAIN queue \cup {q} |->
                 IF p # q THEN queue[p]
                 ELSE IF replay THEN history ELSE <<>>]
  /\ seen' = [seen EXCEPT ![q] = 0]
  /\ UNCHANGED <<log, history, dropped>>

\* unsubscribe: the connection is closed.
Unsubscribe(q) ==
  /\ q \in Clients \cap DOMAIN queue
  /\ queue' = [p \in DOMAIN queue \ {q} |-> queue[p]]
  /\ UNCHANGED <<log, history, seen, dropped>>

\* queue.get(): the event goes to the client, or is skipped by its filter.
Take(q) ==
  /\ q \in DOMAIN queue /\ queue[q] # <<>>
  /\ queue' = [queue EXCEPT ![q] = Tail(@)]
  /\ seen' = [seen EXCEPT ![q] = Head(queue[q]).n]
  /\ UNCHANGED <<log, history, dropped>>

-----------------------------------------------------------------------------

HubTypeOK ==
  /\ log \in Seq(Event) /\ history \in Seq(Event)
  /\ DOMAIN queue \subseteq Subscribers
  /\ \A q \in DOMAIN queue : queue[q] \in Seq(Event)
  /\ seen \in [Subscribers -> Nat]
  /\ dropped \in Nat

\* seq is the end of the log.
EndOfLog(seq) ==
  /\ Len(seq) <= Len(log)
  /\ \A i \in DOMAIN seq : seq[i] = log[Len(log) - Len(seq) + i]

\* Whatever is replayed, published and lost: a subscriber has before him, in
\* order, without gap and without repetition, the events up to the last one,
\* and none he already took.  Only a full queue may cost him events.
SubscribersInOrder ==
  /\ EndOfLog(history) /\ Len(history) <= HistorySize
  /\ \A q \in DOMAIN queue :
       /\ EndOfLog(queue[q]) /\ Len(queue[q]) <= QueueSize
       /\ seen[q] + Len(queue[q]) <= Len(log)
=============================================================================
