------------------------ MODULE IntegrationApiProofs ------------------------
(***************************************************************************)
(* Proofs about the event hub and the integration service for any clients, *)
(* partners, sizes of queues and numbers of events.  What a subscriber has *)
(* before him is the end of the sequence of all events; hence the event    *)
(* the listener takes is one that was published, at the number it bears,   *)
(* and every webhook can be traced back to it.                             *)
(***************************************************************************)
EXTENDS IntegrationApi, FiniteSetTheorems, TLAPS

-----------------------------------------------------------------------------
(* Ends of a sequence *)

\* EndOfLog for any log.
End(seq, all) ==
  /\ Len(seq) <= Len(all)
  /\ \A i \in DOMAIN seq : seq[i] = all[Len(all) - Len(seq) + i]

LEMMA EndOfAppended ==
  ASSUME NEW S, NEW seq \in Seq(S), NEW all \in Seq(S), NEW e \in S,
         End(seq, all)
  PROVE  End(Append(seq, e), Append(all, e))
<1> DEFINE new == Append(seq, e)
           longer == Append(all, e)
<1>1. /\ Len(seq) \in Nat /\ DOMAIN seq = 1 .. Len(seq)
      /\ Len(all) \in Nat
      /\ Len(new) = Len(seq) + 1 /\ DOMAIN new = 1 .. Len(seq) + 1
      /\ Len(longer) = Len(all) + 1
      /\ Len(seq) <= Len(all)
  BY DEF End
<1>2. ASSUME NEW i \in 1 .. Len(seq) + 1
      PROVE  new[i] = longer[(Len(all) + 1) - (Len(seq) + 1) + i]
  <2>1. CASE i = Len(seq) + 1
    <3>1. (Len(all) + 1) - (Len(seq) + 1) + i = Len(all) + 1
      BY <1>1, <2>1
    <3> QED
      BY <1>1, <2>1, <3>1
  <2>2. CASE i \in 1 .. Len(seq)
    <3>1. new[i] = all[Len(all) - Len(seq) + i]
      BY <1>1, <2>2 DEF End
    <3>2. /\ (Len(all) + 1) - (Len(seq) + 1) + i = Len(all) - Len(seq) + i
          /\ Len(all) - Len(seq) + i \in 1 .. Len(all)
      BY <1>1, <2>2
    <3>3. longer[Len(all) - Len(seq) + i] = all[Len(all) - Len(seq) + i]
      BY <3>2
    <3> QED
      BY <3>1, <3>2, <3>3
  <2> QED
    BY <1>1, <2>1, <2>2
<1> QED
  BY <1>1, <1>2 DEF End

LEMMA EndOfTail ==
  ASSUME NEW S, NEW seq \in Seq(S), NEW all \in Seq(S), End(seq, all),
         seq # <<>>
  PROVE  /\ Tail(seq) \in Seq(S) /\ Len(Tail(seq)) = Len(seq) - 1
         /\ Len(seq) \in Nat \ {0}
         /\ End(Tail(seq), all)
         /\ Head(seq) \in S
         /\ Len(all) - Len(seq) + 1 \in DOMAIN all
         /\ Head(seq) = all[Len(all) - Len(seq) + 1]
<1>1. /\ Len(seq) \in Nat \ {0} /\ DOMAIN seq = 1 .. Len(seq)
      /\ Len(all) \in Nat /\ DOMAIN all = 1 .. Len(all)
      /\ Len(seq) <= Len(all)
  BY DEF End
<1>2. /\ Tail(seq) \in Seq(S) /\ Len(Tail(seq)) = Len(seq) - 1
      /\ DOMAIN Tail(seq) = 1 .. Len(seq) - 1
      /\ \A i \in 1 .. Len(seq) - 1 : Tail(seq)[i] = seq[i + 1]
  BY <1>1
<1>3. ASSUME NEW i \in 1 .. Len(seq) - 1
      PROVE  Tail(seq)[i] = all[Len(all) - (Len(seq) - 1) + i]
  <2>1. i + 1 \in DOMAIN seq
    BY <1>1
  <2>2. seq[i + 1] = all[Len(all) - Len(seq) + (i + 1)]
    BY <2>1 DEF End
  <2>3. Len(all) - Len(seq) + (i + 1) = Len(all) - (Len(seq) - 1) + i
    BY <1>1
  <2> QED
    BY <1>2, <2>2, <2>3
<1>4. End(Tail(seq), all)
  BY <1>1, <1>2, <1>3 DEF End
<1>5. 1 \in DOMAIN seq /\ Head(seq) = seq[1] /\ seq[1] \in S
  BY <1>1
<1>6. seq[1] = all[Len(all) - Len(seq) + 1]
  BY <1>5 DEF End
<1> QED
  BY <1>1, <1>2, <1>4, <1>5, <1>6

LEMMA EndOfLast ==
  ASSUME NEW S, NEW seq \in Seq(S), NEW all \in Seq(S), End(seq, all),
         NEW n \in Nat
  PROVE  /\ Last(seq, n) \in Seq(S)
         /\ Len(Last(seq, n)) <= n
         /\ End(Last(seq, n), all)
<1>1. /\ Len(seq) \in Nat /\ DOMAIN seq = 1 .. Len(seq)
      /\ Len(all) \in Nat /\ Len(seq) <= Len(all)
  BY DEF End
<1>2. CASE Len(seq) <= n
  BY <1>2 DEF Last
<1>3. CASE ~(Len(seq) <= n)
  <2> DEFINE first == Len(seq) - n + 1
             part == SubSeq(seq, first, Len(seq))
  <2>1. first \in 1 .. Len(seq) + 1 /\ (Len(seq) - first) + 1 = n
    BY <1>1, <1>3
  <2>2. /\ part \in Seq(S) /\ Len(part) = n /\ DOMAIN part = 1 .. n
        /\ \A i \in 1 .. n : part[i] = seq[first + i - 1]
    BY <1>1, <2>1
  <2>3. ASSUME NEW i \in 1 .. n PROVE part[i] = all[Len(all) - n + i]
    <3>1. first + i - 1 \in DOMAIN seq
      BY <1>1, <1>3
    <3>2. seq[first + i - 1] = all[Len(all) - Len(seq) + (first + i - 1)]
      BY <3>1 DEF End
    <3>3. Len(all) - Len(seq) + (first + i - 1) = Len(all) - n + i
      BY <1>1
    <3> QED
      BY <2>2, <3>2, <3>3
  <2>4. n <= Len(all)
    BY <1>1, <1>3
  <2>5. Last(seq, n) = part
    BY <1>3 DEF Last
  <2> HIDE DEF part
  <2>6. End(part, all)
    BY <2>2, <2>3, <2>4 DEF End
  <2>7. Len(part) <= n
    BY <2>2
  <2> QED
    BY <2>2, <2>5, <2>6, <2>7
<1> QED
  BY <1>2, <1>3

-----------------------------------------------------------------------------
(* The hub *)

\* One subscription.
QueueOK(q) ==
  /\ queue[q] \in Seq(Event)
  /\ End(queue[q], log)
  /\ Len(queue[q]) <= QueueSize
  /\ seen[q] + Len(queue[q]) <= Len(log)

HubInv ==
  /\ log \in Seq(Event)
  /\ \A i \in DOMAIN log : log[i].n = i
  /\ history \in Seq(Event)
  /\ End(history, log) /\ Len(history) <= HistorySize
  /\ DOMAIN queue \subseteq Subscribers /\ IsFiniteSet(DOMAIN queue)
  /\ seen \in [Subscribers -> Nat]
  /\ \A q \in DOMAIN queue : QueueOK(q)
  /\ dropped \in Nat

LEMMA HubInvImplies == HubInv => SubscribersInOrder
<1> SUFFICES ASSUME HubInv PROVE SubscribersInOrder
  OBVIOUS
<1>1. EndOfLog(history) /\ Len(history) <= HistorySize
  BY DEF HubInv, End, EndOfLog
<1>2. ASSUME NEW q \in DOMAIN queue
      PROVE  /\ EndOfLog(queue[q]) /\ Len(queue[q]) <= QueueSize
             /\ seen[q] + Len(queue[q]) <= Len(log)
  BY DEF HubInv, QueueOK, End, EndOfLog
<1> QED
  BY <1>1, <1>2 DEF SubscribersInOrder

LEMMA PublishKeeps ==
  ASSUME HubInv, NEW type \in Types, NEW s \in Sessions, Publish(type, s)
  PROVE  /\ HubInv'
         /\ log \in Seq(Event) /\ log' \in Seq(Event)
         /\ \A i \in DOMAIN log : i \in DOMAIN log' /\ log'[i] = log[i]
<1> DEFINE e == [type |-> type, session |-> s, n |-> Len(log) + 1]
<1>1. /\ Len(log) \in Nat /\ Len(log) < MaxEvents
      /\ log \in Seq(Event) /\ history \in Seq(Event)
      /\ MaxEvents \in Nat /\ QueueSize \in Nat /\ HistorySize \in Nat
      /\ 0 < QueueSize
  BY HubAssumption DEF HubInv, Publish
<1>2. e \in Event /\ e.n = Len(log) + 1
  BY <1>1 DEF Event
<1>3. /\ log' = Append(log, e)
      /\ history' = Last(Append(history, e), HistorySize)
      /\ queue' = [q \in DOMAIN queue |-> Put(q, e)]
      /\ seen' = seen
  BY DEF Publish
<1> HIDE DEF e
<1>4. /\ log' \in Seq(Event) /\ Len(log') = Len(log) + 1
      /\ DOMAIN log' = 1 .. Len(log) + 1
      /\ \A i \in DOMAIN log : i \in DOMAIN log' /\ log'[i] = log[i]
      /\ log'[Len(log) + 1] = e
  BY <1>1, <1>2, <1>3
<1>5. \A i \in DOMAIN log' : log'[i].n = i
  <2> SUFFICES ASSUME NEW i \in DOMAIN log' PROVE log'[i].n = i
    OBVIOUS
  <2>1. CASE i \in DOMAIN log
    BY <1>4, <2>1 DEF HubInv
  <2>2. CASE i \notin DOMAIN log
    <3>1. i = Len(log) + 1
      BY <1>1, <1>4, <2>2
    <3> QED
      BY <1>2, <1>4, <3>1
  <2> QED
    BY <2>1, <2>2
<1>6. history' \in Seq(Event) /\ End(history', log')
      /\ Len(history') <= HistorySize
  <2>1. Append(history, e) \in Seq(Event) /\ End(Append(history, e), log')
    BY <1>1, <1>2, <1>3, EndOfAppended DEF HubInv
  <2> QED
    BY <1>1, <1>3, <1>4, <2>1, EndOfLast
<1>7. ASSUME NEW q \in DOMAIN queue' PROVE QueueOK(q)'
  <2>1. q \in DOMAIN queue /\ queue'[q] = Put(q, e) /\ seen'[q] = seen[q]
    BY <1>3
  <2>2. QueueOK(q) /\ Len(queue[q]) \in Nat /\ seen[q] \in Nat
        /\ queue[q] \in Seq(Event)
    BY <2>1 DEF HubInv, QueueOK
  <2>3. CASE Len(queue[q]) < QueueSize
    <3>1. queue'[q] = Append(queue[q], e)
      BY <2>1, <2>3 DEF Put
    <3>2. End(queue'[q], log')
      BY <1>1, <1>2, <1>3, <2>2, <3>1, EndOfAppended DEF QueueOK
    <3>3. queue'[q] \in Seq(Event) /\ Len(queue'[q]) = Len(queue[q]) + 1
      BY <1>2, <2>2, <3>1
    <3>4. Len(queue[q]) + 1 <= QueueSize
          /\ seen[q] + (Len(queue[q]) + 1) <= Len(log) + 1
      BY <1>1, <2>2, <2>3 DEF QueueOK
    <3> QED
      BY <1>4, <2>1, <3>2, <3>3, <3>4 DEF QueueOK
  <2>4. CASE ~(Len(queue[q]) < QueueSize)
    <3>0. Len(queue[q]) = QueueSize /\ queue[q] # <<>>
      BY <1>1, <2>2, <2>4 DEF QueueOK
    <3>1. queue'[q] = Append(Tail(queue[q]), e)
      BY <2>1, <2>4 DEF Put
    <3>2. /\ Tail(queue[q]) \in Seq(Event) /\ End(Tail(queue[q]), log)
          /\ Len(Tail(queue[q])) = Len(queue[q]) - 1
      BY <1>1, <2>2, <3>0, EndOfTail DEF QueueOK
    <3>3. End(queue'[q], log')
      BY <1>1, <1>2, <1>3, <3>1, <3>2, EndOfAppended
    <3>4. queue'[q] \in Seq(Event) /\ Len(queue'[q]) = Len(queue[q])
      BY <1>2, <2>2, <3>1, <3>2
    <3>5. Len(queue[q]) <= QueueSize
          /\ seen[q] + Len(queue[q]) <= Len(log) + 1
      BY <1>1, <2>2 DEF QueueOK
    <3> QED
      BY <1>4, <2>1, <3>3, <3>4, <3>5 DEF QueueOK
  <2> QED
    BY <2>3, <2>4
<1>8. /\ DOMAIN queue' \subseteq Subscribers /\ IsFiniteSet(DOMAIN queue')
      /\ seen' \in [Subscribers -> Nat]
  BY <1>3 DEF HubInv
<1>9. dropped' \in Nat
  <2> DEFINE full == {q \in DOMAIN queue : Len(queue[q]) = QueueSize}
  <2>1. IsFiniteSet(full)
    BY FS_Subset DEF HubInv
  <2>2. Cardinality(full) \in Nat
    BY <2>1, FS_CardinalityType
  <2>3. dropped' = dropped + Cardinality(full) /\ dropped \in Nat
    BY DEF Publish, HubInv
  <2> QED
    BY <2>2, <2>3
<1> QED
  BY <1>1, <1>4, <1>5, <1>6, <1>7, <1>8, <1>9 DEF HubInv

LEMMA SubscribeKeeps ==
  ASSUME HubInv, NEW q \in Clients, NEW replay \in BOOLEAN,
         Subscribe(q, replay)
  PROVE  HubInv' /\ log' = log
<1>1. /\ DOMAIN queue' = DOMAIN queue \cup {q}
      /\ q \notin DOMAIN queue
      /\ queue'[q] = IF replay THEN history ELSE <<>>
      /\ \A p \in DOMAIN queue : queue'[p] = queue[p] /\ p # q
      /\ seen' = [seen EXCEPT ![q] = 0]
      /\ UNCHANGED <<log, history, dropped>>
  BY DEF Subscribe
<1>2. /\ log \in Seq(Event) /\ history \in Seq(Event) /\ End(history, log)
      /\ Len(history) <= HistorySize
      /\ Len(log) \in Nat /\ Len(history) \in Nat
      /\ HistorySize \in Nat /\ QueueSize \in Nat /\ HistorySize <= QueueSize
      /\ seen \in [Subscribers -> Nat] /\ q \in Subscribers
  BY HubAssumption DEF HubInv, Subscribers
<1>3. QueueOK(q)'
  <2>1. seen'[q] = 0
    BY <1>1, <1>2
  <2>2. CASE replay
    <3>1. queue'[q] = history
      BY <1>1, <2>2
    <3>2. Len(history) <= QueueSize /\ 0 + Len(history) <= Len(log)
      BY <1>2 DEF End
    <3> QED
      BY <1>1, <1>2, <2>1, <3>1, <3>2 DEF QueueOK
  <2>3. CASE ~replay
    <3>1. queue'[q] = <<>>
      BY <1>1, <2>3
    <3>2. <<>> \in Seq(Event) /\ Len(<<>>) = 0 /\ End(<<>>, log)
      BY <1>2 DEF End
    <3>3. 0 <= QueueSize /\ 0 + 0 <= Len(log)
      BY <1>2
    <3> QED
      BY <1>1, <2>1, <3>1, <3>2, <3>3 DEF QueueOK
  <2> QED
    BY <2>2, <2>3
<1>4. ASSUME NEW p \in DOMAIN queue PROVE QueueOK(p)'
  <2>1. queue'[p] = queue[p] /\ seen'[p] = seen[p] /\ log' = log
    BY <1>1, <1>2
  <2>2. QueueOK(p)
    BY DEF HubInv
  <2> QED
    BY <2>1, <2>2 DEF QueueOK
<1>5. seen' \in [Subscribers -> Nat]
  BY <1>1, <1>2
<1>6. DOMAIN queue' \subseteq Subscribers /\ IsFiniteSet(DOMAIN queue')
  BY <1>1, <1>2, FS_AddElement DEF HubInv
<1> QED
  BY <1>1, <1>3, <1>4, <1>5, <1>6 DEF HubInv

LEMMA UnsubscribeKeeps ==
  ASSUME HubInv, NEW q, Unsubscribe(q)
  PROVE  HubInv' /\ log' = log
<1>1. /\ DOMAIN queue' = DOMAIN queue \ {q}
      /\ \A p \in DOMAIN queue' : queue'[p] = queue[p]
      /\ UNCHANGED <<log, history, seen, dropped>>
  BY DEF Unsubscribe
<1>2. ASSUME NEW p \in DOMAIN queue' PROVE QueueOK(p)'
  <2>1. QueueOK(p) /\ queue'[p] = queue[p]
    BY <1>1 DEF HubInv
  <2> QED
    BY <1>1, <2>1 DEF QueueOK
<1>3. IsFiniteSet(DOMAIN queue')
  BY <1>1, FS_RemoveElement DEF HubInv
<1> QED
  BY <1>1, <1>2, <1>3 DEF HubInv

LEMMA TakeKeeps ==
  ASSUME HubInv, NEW q, Take(q)
  PROVE  /\ HubInv' /\ log' = log
         /\ Head(queue[q]) \in Event
         /\ Head(queue[q]).n \in DOMAIN log
         /\ log[Head(queue[q]).n] = Head(queue[q])
<1>1. /\ q \in DOMAIN queue /\ queue[q] # <<>>
      /\ queue' = [queue EXCEPT ![q] = Tail(@)]
      /\ seen' = [seen EXCEPT ![q] = Head(queue[q]).n]
      /\ UNCHANGED <<log, history, dropped>>
  BY DEF Take
<1>2. /\ log \in Seq(Event) /\ queue[q] \in Seq(Event)
      /\ End(queue[q], log) /\ Len(queue[q]) <= QueueSize
      /\ Len(log) \in Nat /\ QueueSize \in Nat
      /\ seen \in [Subscribers -> Nat] /\ q \in Subscribers
  BY <1>1, HubAssumption DEF HubInv, QueueOK
<1>3. /\ Tail(queue[q]) \in Seq(Event)
      /\ Len(Tail(queue[q])) = Len(queue[q]) - 1
      /\ Len(queue[q]) \in Nat \ {0}
      /\ End(Tail(queue[q]), log)
      /\ Head(queue[q]) \in Event
      /\ Len(log) - Len(queue[q]) + 1 \in DOMAIN log
      /\ Head(queue[q]) = log[Len(log) - Len(queue[q]) + 1]
  BY <1>1, <1>2, EndOfTail
<1>4. Head(queue[q]).n = Len(log) - Len(queue[q]) + 1
  BY <1>3 DEF HubInv
<1>5. QueueOK(q)'
  <2>1. queue'[q] = Tail(queue[q])
        /\ seen'[q] = Len(log) - Len(queue[q]) + 1
    BY <1>1, <1>2, <1>4
  <2>2. Len(queue[q]) - 1 <= QueueSize
        /\ Len(log) - Len(queue[q]) + 1 + (Len(queue[q]) - 1) <= Len(log)
    BY <1>2, <1>3
  <2> QED
    BY <1>1, <1>3, <2>1, <2>2 DEF QueueOK
<1>6. ASSUME NEW p \in DOMAIN queue, p # q PROVE QueueOK(p)'
  <2>1. QueueOK(p) /\ p \in Subscribers
    BY DEF HubInv
  <2>2. queue'[p] = queue[p] /\ seen'[p] = seen[p]
    BY <1>1, <1>2, <1>6, <2>1
  <2> QED
    BY <1>1, <2>1, <2>2 DEF QueueOK
<1>7. seen' \in [Subscribers -> Nat]
  <2>1. Len(log) - Len(queue[q]) + 1 \in Nat
    <3>1. DOMAIN log \subseteq Nat
      BY <1>2
    <3> QED
      BY <1>3, <3>1
  <2>2. Head(queue[q]).n \in Nat
    BY <1>4, <2>1
  <2> QED
    BY <1>1, <1>2, <2>2
<1>8. DOMAIN queue' = DOMAIN queue
  BY <1>1
<1>9. HubInv'
  BY <1>1, <1>5, <1>6, <1>7, <1>8 DEF HubInv
<1> QED
  BY <1>1, <1>3, <1>4, <1>9

-----------------------------------------------------------------------------
(* The webhooks *)

\* A payload can be traced to its event.
Honest(payload) ==
  /\ payload.status = StatusOf(payload.type)
  /\ payload.n \in DOMAIN log
  /\ log[payload.n].type = payload.type
  /\ log[payload.n].session = payload.session

\* An attempt that waits is not the last.
DeliveryOK(d) ==
  /\ d \in Delivery
  /\ d.stage = "sleep" => d.attempt < MaxAttempts
  /\ Honest(d.payload)

Receipt == [payload : Payload, partner : Partners]

WebhookInv ==
  /\ \A payload \in triggers : payload \in Payload /\ Honest(payload)
  /\ \A d \in deliveries : DeliveryOK(d)
  /\ \A r \in received : r \in Receipt /\ Honest(r.payload)
  /\ registry \in [Partners -> SUBSET Followed]
  /\ changes \in 0 .. MaxChanges

\* The log only grows.
Grows == \A i \in DOMAIN log : i \in DOMAIN log' /\ log'[i] = log[i]

LEMMA HonestStays ==
  ASSUME Grows, NEW payload, Honest(payload)
  PROVE  Honest(payload)'
  BY DEF Grows, Honest

LEMMA DeliveryStays ==
  ASSUME Grows, NEW d, DeliveryOK(d)
  PROVE  DeliveryOK(d)'
  BY HonestStays DEF DeliveryOK

LEMMA WebhooksStay ==
  ASSUME Grows, WebhookInv, UNCHANGED webhooks
  PROVE  WebhookInv'
<1>1. UNCHANGED <<triggers, deliveries, registry, received, changes>>
  BY DEF webhooks
<1> QED
  BY <1>1, HonestStays, DeliveryStays DEF WebhookInv

LEMMA StatusesOfEvents ==
  ASSUME NEW type \in Followed
  PROVE  StatusOf(type) \in Statuses
  BY DEF Followed, StatusOf, Statuses

\* The listener copies what an event says.
LEMMA CopyIsHonest ==
  ASSUME NEW event \in Event, event.type \in Followed,
         event.n \in DOMAIN log, log[event.n] = event
  PROVE  Copy(event) \in Payload /\ Honest(Copy(event))
<1>1. /\ Copy(event).type = event.type
      /\ Copy(event).session = event.session
      /\ Copy(event).n = event.n
      /\ Copy(event).status = StatusOf(event.type)
  BY DEF Copy
<1>2. Copy(event) \in Payload
  BY StatusesOfEvents DEF Copy, Payload, Event
<1> QED
  BY <1>1, <1>2 DEF Honest

LEMMA TriggerKeeps ==
  ASSUME WebhookInv, Grows, NEW payload \in triggers, Trigger(payload)
  PROVE  WebhookInv'
<1>1. /\ triggers' = triggers \ {payload}
      /\ UNCHANGED <<registry, received, changes>>
  BY DEF Trigger
<1>2. payload \in Payload /\ Honest(payload)
  BY DEF WebhookInv
<1>3. ASSUME NEW d \in deliveries' PROVE DeliveryOK(d)'
  <2>1. CASE d \in deliveries
    BY <2>1, DeliveryStays DEF WebhookInv
  <2>2. CASE d \notin deliveries
    <3>1. PICK p \in Partners : d = New(payload, p)
      BY <2>2 DEF Trigger
    <3>2. 1 \in 1 .. MaxAttempts
      BY IntegrationAssumption
    <3>3. d \in Delivery /\ d.stage = "post" /\ d.payload = payload
      BY <1>2, <3>1, <3>2 DEF New, Delivery
    <3> QED
      BY <1>2, <3>3, HonestStays DEF DeliveryOK
  <2> QED
    BY <2>1, <2>2
<1> QED
  BY <1>1, <1>3, HonestStays DEF WebhookInv

LEMMA DeliveredKeeps ==
  ASSUME WebhookInv, Grows, NEW d \in deliveries,
         \/ Delivered(d) \/ UNCHANGED received
  PROVE  \A r \in received' : r \in Receipt /\ Honest(r.payload)'
<1>1. DeliveryOK(d)
  BY DEF WebhookInv
<1> DEFINE new == [payload |-> d.payload, partner |-> d.partner]
<1>2. new \in Receipt /\ Honest(new.payload)
  BY <1>1 DEF DeliveryOK, Delivery, Receipt
<1>3. received' \subseteq received \cup {new}
  BY DEF Delivered
<1> HIDE DEF new
<1>4. \A r \in received' : r \in Receipt /\ Honest(r.payload)
  BY <1>2, <1>3 DEF WebhookInv
<1> QED
  BY <1>4, HonestStays

LEMMA PostsKeep ==
  ASSUME WebhookInv, Grows, NEW d \in deliveries,
         PostSucceeds(d) \/ PostFails(d) \/ PostAgain(d)
  PROVE  WebhookInv'
<1>1. UNCHANGED <<triggers, registry, changes>>
      /\ (Delivered(d) \/ UNCHANGED received)
  BY DEF PostSucceeds, PostFails, PostAgain
<1>2. /\ DeliveryOK(d) /\ d \in Delivery /\ d.attempt \in 1 .. MaxAttempts
      /\ MaxAttempts \in Nat
  BY IntegrationAssumption DEF WebhookInv, DeliveryOK, Delivery
<1> DEFINE asleep == [d EXCEPT !.stage = "sleep"]
           again == [d EXCEPT !.stage = "post", !.attempt = @ + 1]
<1>3. d.attempt < MaxAttempts => DeliveryOK(asleep)
  <2>1. /\ asleep \in Delivery /\ asleep.payload = d.payload
        /\ asleep.attempt = d.attempt
    BY <1>2 DEF Delivery
  <2> QED
    BY <1>2, <2>1 DEF DeliveryOK
<1>4. d.stage = "sleep" => DeliveryOK(again)
  <2> SUFFICES ASSUME d.stage = "sleep" PROVE DeliveryOK(again)
    OBVIOUS
  <2>1. d.attempt + 1 \in 1 .. MaxAttempts
    BY <1>2 DEF DeliveryOK
  <2>2. /\ again \in Delivery /\ again.payload = d.payload
        /\ again.stage = "post"
    BY <1>2, <2>1 DEF Delivery
  <2> QED
    BY <1>2, <2>2 DEF DeliveryOK
<1>5. \A e \in deliveries' : \/ e \in deliveries
                             \/ d.attempt < MaxAttempts /\ e = asleep
                             \/ d.stage = "sleep" /\ e = again
  BY DEF PostSucceeds, PostFails, PostAgain, Retry
<1> HIDE DEF asleep, again
<1>6. \A e \in deliveries' : DeliveryOK(e)
  BY <1>3, <1>4, <1>5 DEF WebhookInv
<1>7. \A e \in deliveries' : DeliveryOK(e)'
  BY <1>6, DeliveryStays
<1>8. \A r \in received' : r \in Receipt /\ Honest(r.payload)'
  BY <1>1, DeliveredKeeps
<1> QED
  BY <1>1, <1>7, <1>8, HonestStays DEF WebhookInv

-----------------------------------------------------------------------------
(* The status of the calls *)

\* Before its door has stored the entry, no event of a call is applied.
StatusInv(s) ==
  /\ door[s] \in {"new", "browser"} =>
       entry[s] = "absent" /\ handled[s] = "none"
  /\ handled[s] # "none" =>
       \/ entry[s] \in {"absent", StatusOf(handled[s])}
       \/ entry[s] = "direct" /\ "produce" \in Faults

StoreOK ==
  /\ entry \in [Sessions -> Statuses]
  /\ aged \subseteq Sessions
  /\ door \in [Sessions -> {"new", "submit", "browser", "done"}]
  /\ known \subseteq Sessions
  /\ handled \in [Sessions -> Followed \cup {"none"}]
  /\ kafka \in BOOLEAN

StoreInv == StoreOK /\ \A s \in Sessions : StatusInv(s)

LEMMA OneEntryAtATime ==
  ASSUME StoreInv, NEW s \in Sessions, StoreOK',
         \A t \in Sessions : t # s => /\ entry'[t] = entry[t]
                                      /\ door'[t] = door[t]
                                      /\ handled'[t] = handled[t],
         StatusInv(s)'
  PROVE  StoreInv'
<1>1. ASSUME NEW t \in Sessions, t # s PROVE StatusInv(t)'
  <2>1. StatusInv(t) /\ entry'[t] = entry[t] /\ door'[t] = door[t]
        /\ handled'[t] = handled[t]
    BY <1>1 DEF StoreInv
  <2> QED
    BY <2>1 DEF StatusInv
<1> QED
  BY <1>1 DEF StoreInv

\* The doors.
LEMMA StartKeeps ==
  ASSUME StoreInv, NEW s \in Sessions,
         \/ StartCall(s) \/ StartBrowserCall(s)
         \/ RequestArrives(s) \/ CallSubmitted(s) \/ SubmitFailed(s)
         \/ \E status \in {"queued", "direct", "fallback"} :
              BrowserReturns(s, status)
         \/ BrowserFails(s)
  PROVE  StoreInv' /\ UNCHANGED <<hub, webhooks>>
<1>1. UNCHANGED <<handled, kafka, hub, webhooks>>
  BY DEF StartCall, StartBrowserCall, RequestArrives, CallSubmitted,
         SubmitFailed, BrowserReturns, BrowserFails, Returns
<1>2. known' = known \/ known' = known \cup {s}
  BY DEF StartCall, StartBrowserCall, RequestArrives, CallSubmitted,
         SubmitFailed, BrowserReturns, BrowserFails, Returns
<1>3. /\ entry \in [Sessions -> Statuses]
      /\ aged \subseteq Sessions /\ known \subseteq Sessions
      /\ door \in [Sessions -> {"new", "submit", "browser", "done"}]
      /\ handled \in [Sessions -> Followed \cup {"none"}]
      /\ kafka \in BOOLEAN /\ StatusInv(s)
  BY DEF StoreInv, StoreOK
<1>4. aged' = aged \/ aged' = aged \ {s}
  BY DEF StartCall, StartBrowserCall, RequestArrives, CallSubmitted,
         SubmitFailed, BrowserReturns, BrowserFails, SetEntry
<1>5. PICK where \in {"new", "submit", "browser", "done"},
           status \in Statuses :
        /\ door' = [door EXCEPT ![s] = where]
        /\ entry' = [entry EXCEPT ![s] = status]
        /\ where \in {"new", "browser"} =>
             door[s] \in {"new", "browser"} /\ status = entry[s]
        /\ \/ door[s] \in {"new", "browser"}
           \/ status = entry[s]
           \/ status = "direct" /\ "produce" \in Faults
  <2>1. CASE StartCall(s)
    BY <1>3, <2>1 DEF StartCall, Fresh, SetEntry, Statuses
  <2>2. CASE StartBrowserCall(s)
    <3>1. /\ door' = [door EXCEPT ![s] = "browser"]
          /\ entry' = [entry EXCEPT ![s] = entry[s]]
          /\ door[s] = "new" /\ entry[s] \in Statuses
      BY <1>3, <2>2 DEF StartBrowserCall, Fresh
    <3> QED
      BY <3>1
  <2>3. CASE RequestArrives(s)
    BY <1>3, <2>3 DEF RequestArrives
  <2>4. CASE CallSubmitted(s)
    BY <1>3, <2>4 DEF CallSubmitted, Returns
  <2>5. CASE SubmitFailed(s)
    BY <1>3, <2>5 DEF SubmitFailed, Returns, Statuses
  <2>6. ASSUME NEW status \in {"queued", "direct", "fallback"},
               BrowserReturns(s, status)
        PROVE  /\ door[s] = "browser" /\ status \in Statuses
               /\ door' = [door EXCEPT ![s] = "done"]
               /\ entry' = [entry EXCEPT ![s] = status]
    BY <2>6 DEF BrowserReturns, Returns, SetEntry, Statuses
  <2>7. CASE BrowserFails(s)
    BY <1>3, <2>7 DEF BrowserFails
  <2> QED
    BY <2>1, <2>2, <2>3, <2>4, <2>5, <2>6, <2>7
<1>6. StoreOK'
  BY <1>1, <1>2, <1>3, <1>4, <1>5 DEF StoreOK
<1>7. StatusInv(s)'
  <2>1. door'[s] = where /\ entry'[s] = status /\ handled'[s] = handled[s]
    BY <1>1, <1>3, <1>5
  <2> QED
    BY <1>3, <1>5, <2>1 DEF StatusInv
<1>8. \A t \in Sessions : t # s => /\ entry'[t] = entry[t]
                                   /\ door'[t] = door[t]
                                   /\ handled'[t] = handled[t]
  BY <1>1, <1>3, <1>5
<1> QED
  BY <1>1, <1>6, <1>7, <1>8, OneEntryAtATime

\* The listener.
LEMMA ListenKeeps ==
  ASSUME StoreInv, WebhookInv, HubInv, Listen
  PROVE  StoreInv' /\ WebhookInv' /\ HubInv'
<1> DEFINE event == Head(queue[Listener])
<1>1. /\ HubInv' /\ log' = log
      /\ event \in Event /\ event.n \in DOMAIN log /\ log[event.n] = event
  BY TakeKeeps DEF Listen
<1>2. PICK s \in Sessions : s = event.session
  BY <1>1 DEF Event
<1>3. \/ /\ event.type \in Followed /\ entry[s] # "absent"
         /\ SetEntry(s, StatusOf(event.type))
         /\ handled' = [handled EXCEPT ![s] = event.type]
         /\ triggers' = triggers \cup {Copy(event)}
      \/ UNCHANGED <<entry, aged, handled, triggers>>
  BY <1>2 DEF Listen
<1>4. UNCHANGED <<door, known, kafka, deliveries, registry, received,
                  changes>>
  BY DEF Listen
<1> HIDE DEF event
<1>5. Grows
  BY <1>1 DEF Grows
<1>6. CASE UNCHANGED <<entry, aged, handled, triggers>>
  <2>1. StoreInv'
    BY <1>4, <1>6 DEF StoreInv, StoreOK, StatusInv
  <2>2. WebhookInv'
    BY <1>4, <1>5, <1>6, WebhooksStay DEF webhooks
  <2> QED
    BY <1>1, <2>1, <2>2
<1>7. CASE /\ event.type \in Followed /\ entry[s] # "absent"
           /\ SetEntry(s, StatusOf(event.type))
           /\ handled' = [handled EXCEPT ![s] = event.type]
           /\ triggers' = triggers \cup {Copy(event)}
  <2>1. /\ entry \in [Sessions -> Statuses]
        /\ aged \subseteq Sessions /\ known \subseteq Sessions
        /\ door \in [Sessions -> {"new", "submit", "browser", "done"}]
        /\ handled \in [Sessions -> Followed \cup {"none"}]
        /\ kafka \in BOOLEAN /\ StatusInv(s)
    BY DEF StoreInv, StoreOK
  <2>2. /\ entry' = [entry EXCEPT ![s] = StatusOf(event.type)]
        /\ aged' = aged \ {s} /\ StatusOf(event.type) \in Statuses
    BY <1>7, StatusesOfEvents DEF SetEntry
  <2>3. StoreOK'
    BY <1>4, <1>7, <2>1, <2>2 DEF StoreOK
  <2>4. /\ entry'[s] = StatusOf(event.type) /\ handled'[s] = event.type
        /\ door'[s] = door[s] /\ door[s] \notin {"new", "browser"}
    BY <1>4, <1>7, <2>1, <2>2 DEF StatusInv
  <2>5. StatusInv(s)'
    BY <2>4 DEF StatusInv
  <2>6. \A t \in Sessions : t # s => /\ entry'[t] = entry[t]
                                     /\ door'[t] = door[t]
                                     /\ handled'[t] = handled[t]
    BY <1>4, <1>7, <2>1, <2>2
  <2>7. StoreInv'
    BY <2>3, <2>5, <2>6, OneEntryAtATime
  <2>8. Copy(event) \in Payload /\ Honest(Copy(event))
    BY <1>1, <1>7, CopyIsHonest
  <2>9. \A payload \in triggers' : payload \in Payload /\ Honest(payload)
    BY <1>7, <2>8 DEF WebhookInv
  <2>10. WebhookInv'
    BY <1>4, <1>5, <2>9, HonestStays, DeliveryStays DEF WebhookInv
  <2> QED
    BY <1>1, <2>7, <2>10
<1> QED
  BY <1>3, <1>6, <1>7

\* Time passes, and the clean-up.
LEMMA CleanupKeeps ==
  ASSUME StoreInv, Cleanup \/ \E s \in Sessions : EntryAges(s)
  PROVE  StoreInv' /\ UNCHANGED <<hub, webhooks>>
<1>1. UNCHANGED <<hub, webhooks, door, known, handled, kafka>>
  BY DEF Cleanup, EntryAges
<1>2. /\ entry \in [Sessions -> Statuses] /\ aged \subseteq Sessions
      /\ "absent" \in Statuses
  BY DEF StoreInv, StoreOK, Statuses
<1>3. /\ aged' \subseteq Sessions /\ entry' \in [Sessions -> Statuses]
      /\ \A s \in Sessions : entry'[s] \in {"absent", entry[s]}
  <2>1. CASE Cleanup
    BY <1>2, <2>1 DEF Cleanup
  <2>2. CASE \E s \in Sessions : EntryAges(s)
    BY <1>2, <2>2 DEF EntryAges
  <2> QED
    BY <2>1, <2>2
<1>4. ASSUME NEW s \in Sessions PROVE StatusInv(s)'
  BY <1>1, <1>3 DEF StoreInv, StatusInv
<1> QED
  BY <1>1, <1>3, <1>4 DEF StoreInv, StoreOK

-----------------------------------------------------------------------------
(* The specification *)

IInv == HubInv /\ WebhookInv /\ StoreInv

LEMMA UndisturbedHub == HubInv /\ UNCHANGED hub => HubInv' /\ Grows
  BY DEF hub, HubInv, QueueOK, Grows

LEMMA UndisturbedStore == StoreInv /\ UNCHANGED <<store, kafka>> => StoreInv'
  BY DEF store, StoreInv, StoreOK, StatusInv

LEMMA InitIInv == Init => IInv
<1> SUFFICES ASSUME Init PROVE IInv
  OBVIOUS
<1>1. HubInv
  <2>1. /\ log = <<>> /\ history = <<>>
        /\ queue = [q \in {Listener} |-> <<>>]
        /\ seen = [q \in Subscribers |-> 0] /\ dropped = 0
    BY DEF Init, HubInit
  <2>2. <<>> \in Seq(Event) /\ Len(<<>>) = 0 /\ End(<<>>, <<>>)
        /\ \A i \in DOMAIN <<>> : FALSE
    BY DEF End
  <2>3. Listener \in Subscribers /\ IsFiniteSet({Listener})
    BY FS_Singleton DEF Subscribers
  <2>4. QueueSize \in Nat /\ HistorySize \in Nat
    BY HubAssumption
  <2>5. QueueOK(Listener)
    <3>1. queue[Listener] = <<>> /\ seen[Listener] = 0
      BY <2>1, <2>3
    <3>2. Len(queue[Listener]) <= QueueSize
          /\ seen[Listener] + Len(queue[Listener]) <= Len(log)
      BY <2>1, <2>2, <2>4, <3>1
    <3> QED
      BY <2>1, <2>2, <3>1, <3>2 DEF QueueOK
  <2>6. \A q \in DOMAIN queue : QueueOK(q)
    BY <2>1, <2>5
  <2>7. Len(history) <= HistorySize /\ End(history, log)
        /\ log \in Seq(Event) /\ history \in Seq(Event)
        /\ \A i \in DOMAIN log : log[i].n = i
    BY <2>1, <2>2, <2>4
  <2>8. DOMAIN queue \subseteq Subscribers /\ IsFiniteSet(DOMAIN queue)
    BY <2>1, <2>3
  <2> QED
    BY <2>1, <2>6, <2>7, <2>8 DEF HubInv
<1>2. WebhookInv
  BY IntegrationAssumption DEF Init, WebhookInv
<1>3. StoreInv
  <2>1. StoreOK
    BY DEF Init, StoreOK, Statuses
  <2> QED
    BY <2>1 DEF Init, StoreInv, StatusInv
<1> QED
  BY <1>1, <1>2, <1>3 DEF IInv

LEMMA NextKeeps == IInv /\ [Next]_vars => IInv'
<1> SUFFICES ASSUME HubInv, WebhookInv, StoreInv, [Next]_vars
             PROVE  HubInv' /\ WebhookInv' /\ StoreInv'
  BY DEF IInv
<1>1. CASE Start \/ Cleanup \/ \E s \in Sessions : EntryAges(s)
  <2>1. StoreInv' /\ UNCHANGED <<hub, webhooks>>
    BY <1>1, StartKeeps, CleanupKeeps DEF Start
  <2> QED
    BY <2>1, UndisturbedHub, WebhooksStay
<1>2. ASSUME NEW type \in Types, NEW s \in Sessions, EventPublished(type, s)
      PROVE  HubInv' /\ WebhookInv' /\ StoreInv'
  <2>1. HubInv' /\ Grows
    BY <1>2, PublishKeeps DEF EventPublished, Grows
  <2>2. UNCHANGED webhooks /\ UNCHANGED <<store, kafka>>
    BY <1>2 DEF EventPublished
  <2> QED
    BY <2>1, <2>2, UndisturbedStore, WebhooksStay
<1>3. CASE Listen
  BY <1>3, ListenKeeps
<1>4. ASSUME NEW p \in Partners, NEW types \in SUBSET (Types \cap Followed),
             RegisterWebhook(p, types)
      PROVE  HubInv' /\ WebhookInv' /\ StoreInv'
  <2>1. HubInv' /\ Grows /\ StoreInv'
    BY <1>4, UndisturbedHub, UndisturbedStore DEF RegisterWebhook
  <2>2. /\ registry' \in [Partners -> SUBSET Followed]
        /\ changes' \in 0 .. MaxChanges
    BY <1>4, IntegrationAssumption DEF RegisterWebhook, WebhookInv
  <2>3. UNCHANGED <<triggers, deliveries, received>>
    BY <1>4 DEF RegisterWebhook
  <2> QED
    BY <2>1, <2>2, <2>3, HonestStays, DeliveryStays DEF WebhookInv
<1>5. CASE Deliver
  <2>1. UNCHANGED hub /\ UNCHANGED <<store, kafka>>
    BY <1>5 DEF Deliver, Trigger, PostSucceeds, PostFails, PostAgain
  <2>2. HubInv' /\ Grows /\ StoreInv'
    BY <2>1, UndisturbedHub, UndisturbedStore
  <2> QED
    BY <1>5, <2>2, TriggerKeeps, PostsKeep DEF Deliver
<1>6. CASE Connections
  <2>1. UNCHANGED webhooks /\ UNCHANGED <<store, kafka>>
    BY <1>6 DEF Connections
  <2>2. HubInv' /\ log' = log
    BY <1>6, SubscribeKeeps, UnsubscribeKeeps, TakeKeeps DEF Connections
  <2> QED
    BY <2>1, <2>2, UndisturbedStore, WebhooksStay DEF Grows
<1>7. CASE UNCHANGED vars
  BY <1>7, UndisturbedHub, UndisturbedStore, WebhooksStay DEF vars
<1> QED
  BY <1>1, <1>2, <1>3, <1>4, <1>5, <1>6, <1>7 DEF Next

\* The parts are invariants together.
THEOREM Invariance == Spec => []IInv
  BY InitIInv, NextKeeps, PTL DEF Spec

\* The variables of the hub and of the service keep their types.
THEOREM TypeCorrect == Spec => []TypeOK
<1>1. IInv => TypeOK
  BY DEF IInv, HubInv, QueueOK, WebhookInv, DeliveryOK, StoreInv, StoreOK,
         HubTypeOK, TypeOK, Receipt
<1> QED
  BY <1>1, Invariance, PTL

\* A subscriber has before him the latest events, in order and without a gap,
\* and none that he took already.
THEOREM HubInOrder == Spec => []SubscribersInOrder
<1>1. IInv => SubscribersInOrder
  BY HubInvImplies DEF IInv
<1> QED
  BY <1>1, Invariance, PTL

\* What a partner receives is an event that was published, with the status
\* that goes with it, whatever became of the entry meanwhile.
THEOREM WebhooksAreHonest == Spec => []WebhookTellsItsEvent
<1>1. IInv => WebhookTellsItsEvent
  BY DEF IInv, WebhookInv, Honest, WebhookTellsItsEvent
<1> QED
  BY <1>1, Invariance, PTL

\* The status of a call is the one of the event applied last, but for a start
\* whose submission failed after all.
THEOREM StatusIsTheLastEvents == Spec => []StatusFollowsEvents
<1>1. IInv => StatusFollowsEvents
  BY DEF IInv, StoreInv, StatusInv, StatusFollowsEvents
<1> QED
  BY <1>1, Invariance, PTL
=============================================================================
