--------------------------- MODULE IntegrationApi ---------------------------
(***************************************************************************)
(* The integration service (livekit/integration/service.py): the status it *)
(* keeps of every call its partners started, fed by the events of the hub, *)
(* and the webhooks by which it passes these events on.                    *)
(*                                                                         *)
(* Suspended coroutines: start_call in submit_call_request, the browser's  *)
(* start in browser_call_start (CallEntry has its inside), the tasks that  *)
(* trigger and deliver webhooks, and the loops that listen and clean up.   *)
(* Left out: keys and rate limits of the partners, secrets and addresses.  *)
(***************************************************************************)
EXTENDS EventHub

CONSTANTS
  Partners,     \* client ids that may register a webhook
  MaxAttempts,  \* max_retries of a delivery
  MaxChanges,   \* bound on registrations of webhooks
  Faults        \* which of "kafka" (at start-up), "produce", "post" (of a
                \* webhook), "browser" (its door fails) may go wrong

ASSUME IntegrationAssumption ==
  /\ MaxAttempts \in Nat \ {0} /\ MaxChanges \in Nat
  /\ Faults \subseteq {"kafka", "produce", "post", "browser"}

VARIABLES
  entry,        \* call_status_store: the status, "absent" without an entry
  aged,         \* entries whose updated_at is more than an hour ago
  door,         \* where the coroutine is that starts each call
  known,        \* history: sessions that Kafka or the partner has heard of
  handled,      \* history: the last event applied to each entry
  triggers,     \* tasks created for trigger_webhook
  deliveries,   \* tasks created for _deliver_webhook_with_retry
  registry,     \* webhook_registry: the types each partner asked for
  received,     \* history: what the partners received
  kafka,        \* producer.is_kafka_active
  changes       \* history: registrations

store    == <<entry, aged, door, known, handled>>
webhooks == <<triggers, deliveries, registry, received, changes>>
vars     == <<hub, store, webhooks, kafka>>

Followed == {"call_started", "call_completed", "call_failed"}

StatusOf(type) ==
  CASE type = "call_started"   -> "active"
    [] type = "call_completed" -> "completed"
    [] type = "call_failed"    -> "failed"

Statuses == {"absent", "queued", "direct", "fallback", "active", "completed",
             "failed"}

\* What a webhook says: the event that caused it and a copy of the entry.
Payload == [type : Followed, session : Sessions, n : 1 .. MaxEvents,
            status : Statuses]
Delivery == [payload : Payload, partner : Partners,
             attempt : 1 .. MaxAttempts, stage : {"post", "sleep"}]

Init ==
  /\ HubInit
  /\ entry = [s \in Sessions |-> "absent"]
  /\ aged = {}
  /\ door = [s \in Sessions |-> "new"]
  /\ known = {}
  /\ handled = [s \in Sessions |-> "none"]
  /\ triggers = {} /\ deliveries = {} /\ received = {}
  /\ registry = [p \in Partners |-> {}]
  /\ kafka \in IF "kafka" \in Faults THEN BOOLEAN ELSE {TRUE}
  /\ changes = 0

SetEntry(s, status) ==
  /\ entry' = [entry EXCEPT ![s] = status]
  /\ aged' = aged \ {s}

-----------------------------------------------------------------------------
(* Starting a call *)

\* uuid4 gives a session id that is not in use, no matter which.
Fresh(s) == door[s] = "new" /\ s = CHOOSE t \in Sessions : door[t] = "new"

\* start_call: the entry comes first; with Kafka inactive the submission
\* returns None at once.
StartCall(s) ==
  /\ Fresh(s)
  /\ IF kafka
     THEN /\ SetEntry(s, "queued")
          /\ door' = [door EXCEPT ![s] = "submit"] /\ UNCHANGED known
     ELSE /\ SetEntry(s, "direct")
          /\ door' = [door EXCEPT ![s] = "done"]
          /\ known' = known \cup {s}
  /\ UNCHANGED <<hub, handled, webhooks, kafka>>

\* start_browser_call: the entry comes last.
StartBrowserCall(s) ==
  /\ Fresh(s)
  /\ door' = [door EXCEPT ![s] = "browser"]
  /\ UNCHANGED <<hub, entry, aged, known, handled, webhooks, kafka>>

\* The request is in Kafka, and may be served before the door knows of it.
RequestArrives(s) ==
  /\ kafka /\ door[s] \in {"submit", "browser"}
  /\ s \notin known
  /\ known' = known \cup {s}
  /\ UNCHANGED <<hub, entry, aged, door, handled, webhooks, kafka>>

Returns(s) ==
  /\ door' = [door EXCEPT ![s] = "done"]
  /\ known' = known \cup {s}
  /\ UNCHANGED <<hub, handled, webhooks, kafka>>

\* submit_call_request returned 0, or None after a send that raised.
CallSubmitted(s) ==
  /\ door[s] = "submit" /\ s \in known
  /\ UNCHANGED <<entry, aged>>
  /\ Returns(s)

SubmitFailed(s) ==
  /\ "produce" \in Faults
  /\ door[s] = "submit"
  /\ entry' = [entry EXCEPT ![s] = "direct"] /\ UNCHANGED aged
  /\ Returns(s)

BrowserReturns(s, status) ==
  /\ door[s] = "browser"
  /\ status = "queued" => s \in known
  /\ SetEntry(s, status)
  /\ Returns(s)

\* browser_call_start raised: there is no entry, and the partner never learns
\* the session; the request may be in Kafka.
BrowserFails(s) ==
  /\ "browser" \in Faults
  /\ door[s] = "browser"
  /\ door' = [door EXCEPT ![s] = "done"]
  /\ UNCHANGED <<hub, entry, aged, known, handled, webhooks, kafka>>

-----------------------------------------------------------------------------
(* The loops *)

\* Whoever knows of a session may publish its events, in any order, again or
\* never; the hub looks at nothing.
EventPublished(type, s) ==
  /\ s \in known
  /\ Publish(type, s)
  /\ UNCHANGED <<store, webhooks, kafka>>

Copy(event) == [type |-> event.type, session |-> event.session, n |-> event.n,
                status |-> StatusOf(event.type)]

\* _listen_loop: an event of a call with an entry sets its status, and a task
\* gets a copy of the entry as it is now.
Listen ==
  LET event == Head(queue[Listener])
      s     == event.session
  IN  /\ Take(Listener)
      /\ IF event.type \in Followed /\ entry[s] # "absent"
         THEN /\ SetEntry(s, StatusOf(event.type))
              /\ handled' = [handled EXCEPT ![s] = event.type]
              /\ triggers' = triggers \cup {Copy(event)}
         ELSE UNCHANGED <<entry, aged, handled, triggers>>
      /\ UNCHANGED <<door, known, deliveries, registry, received, changes,
                     kafka>>

\* An hour passes without an update.
EntryAges(s) ==
  /\ entry[s] # "absent" /\ s \notin aged /\ door[s] = "done"
  /\ aged' = aged \cup {s}
  /\ UNCHANGED <<hub, entry, door, known, handled, webhooks, kafka>>

\* Mutant: the clean-up forgets what the entries were updated to.
CleanupAll ==
  /\ aged # {}
  /\ entry' = [s \in Sessions |-> IF entry[s] = "absent" THEN "absent" ELSE "queued"]
  /\ aged' = {}
  /\ UNCHANGED <<hub, door, known, handled, webhooks, kafka>>

\* _cleanup_loop deletes what is older than an hour.
Cleanup ==
  /\ aged # {}
  /\ entry' = [s \in Sessions |-> IF s \in aged THEN "absent" ELSE entry[s]]
  /\ aged' = {}
  /\ UNCHANGED <<hub, door, known, handled, webhooks, kafka>>

-----------------------------------------------------------------------------
(* Webhooks *)

RegisterWebhook(p, types) ==
  /\ changes < MaxChanges /\ changes' = changes + 1
  /\ registry' = [registry EXCEPT ![p] = types]
  /\ UNCHANGED <<hub, store, triggers, deliveries, received, kafka>>

New(payload, p) ==
  [payload |-> payload, partner |-> p, attempt |-> 1, stage |-> "post"]

\* Mutant: the task looks the entry up when it runs.
TriggerNow(payload) ==
  /\ payload \in triggers
  /\ triggers' = triggers \ {payload}
  /\ deliveries' = deliveries \cup
       {New([payload EXCEPT !.status = entry[payload.session]], p) :
          p \in {p \in Partners : payload.type \in registry[p]}}
  /\ UNCHANGED <<hub, store, registry, received, changes, kafka>>

\* trigger_webhook: a task for every partner who asked for the type by now.
Trigger(payload) ==
  /\ payload \in triggers
  /\ triggers' = triggers \ {payload}
  /\ deliveries' = deliveries \cup
       {New(payload, p) : p \in {p \in Partners : payload.type \in registry[p]}}
  /\ UNCHANGED <<hub, store, registry, received, changes, kafka>>

Delivered(d) ==
  received' = received \cup {[payload |-> d.payload, partner |-> d.partner]}

PostSucceeds(d) ==
  /\ d \in deliveries /\ d.stage = "post"
  /\ deliveries' = deliveries \ {d}
  /\ Delivered(d)
  /\ UNCHANGED <<hub, store, triggers, registry, changes, kafka>>

\* After the last attempt the webhook is given up.
Retry(d) ==
  deliveries' = (deliveries \ {d}) \cup
    (IF d.attempt < MaxAttempts THEN {[d EXCEPT !.stage = "sleep"]} ELSE {})

\* An HTTP or request error: the partner may have got the webhook.  Any other
\* error ends the delivery.
PostFails(d) ==
  /\ "post" \in Faults
  /\ d \in deliveries /\ d.stage = "post"
  /\ \/ Retry(d) /\ UNCHANGED received
     \/ Retry(d) /\ Delivered(d)
     \/ deliveries' = deliveries \ {d} /\ UNCHANGED received
  /\ UNCHANGED <<hub, store, triggers, registry, changes, kafka>>

PostAgain(d) ==
  /\ d \in deliveries /\ d.stage = "sleep"
  /\ deliveries' = (deliveries \ {d}) \cup
       {[d EXCEPT !.stage = "post", !.attempt = @ + 1]}
  /\ UNCHANGED <<hub, store, triggers, registry, received, changes, kafka>>

-----------------------------------------------------------------------------

Start ==
  \E s \in Sessions :
    \/ StartCall(s) \/ StartBrowserCall(s)
    \/ RequestArrives(s) \/ CallSubmitted(s) \/ SubmitFailed(s)
    \/ \E status \in {"queued", "direct", "fallback"} : BrowserReturns(s, status)
    \/ BrowserFails(s)

Deliver ==
  \/ \E payload \in triggers : Trigger(payload)
  \/ \E d \in deliveries : PostSucceeds(d) \/ PostFails(d) \/ PostAgain(d)

Connections ==
  /\ \E q \in Clients :
       Subscribe(q, TRUE) \/ Subscribe(q, FALSE) \/ Unsubscribe(q) \/ Take(q)
  /\ UNCHANGED <<store, webhooks, kafka>>

Next ==
  \/ Start
  \/ \E type \in Types, s \in Sessions : EventPublished(type, s)
  \/ Listen
  \/ \E s \in Sessions : EntryAges(s)
  \/ Cleanup
  \/ \E p \in Partners, types \in SUBSET (Types \cap Followed) :
       RegisterWebhook(p, types)
  \/ Deliver
  \/ Connections

Spec == Init /\ [][Next]_vars

\* The event loop runs the listener and the tasks it created; a partner who
\* does not answer costs an attempt its timeout.
FairSpec == Spec /\ WF_vars(Listen) /\ WF_vars(Deliver)

-----------------------------------------------------------------------------
(* Properties *)

TypeOK ==
  /\ HubTypeOK
  /\ entry \in [Sessions -> Statuses]
  /\ aged \subseteq Sessions
  /\ door \in [Sessions -> {"new", "submit", "browser", "done"}]
  /\ known \subseteq Sessions
  /\ handled \in [Sessions -> Followed \cup {"none"}]
  /\ triggers \subseteq Payload
  /\ deliveries \subseteq Delivery
  /\ registry \in [Partners -> SUBSET Followed]
  /\ received \subseteq [payload : Payload, partner : Partners]
  /\ kafka \in BOOLEAN
  /\ changes \in 0 .. MaxChanges

\* A partner is told what happened, however late and however often he is told
\* it: the status in a webhook is the one of its event, and that event was
\* published.
WebhookTellsItsEvent ==
  \A r \in received :
    /\ r.payload.status = StatusOf(r.payload.type)
    /\ r.payload.n \in DOMAIN log
    /\ log[r.payload.n].type = r.payload.type
    /\ log[r.payload.n].session = r.payload.session

\* The listener gets past every event that is published, and what it starts
\* ends, whether the partners answer or not.
EventsAreSettled ==
  \A n \in 1 .. MaxEvents :
    (Len(log) >= n) ~> (seen[Listener] >= n /\ triggers = {} /\ deliveries = {})

\* Once an event of a call was applied, the status is the one of the last event
\* applied, until the entry is deleted.  Only a start whose submission raised
\* although the call was known sets it back.
StatusFollowsEvents ==
  \A s \in Sessions :
    handled[s] # "none" =>
      \/ entry[s] \in {"absent", StatusOf(handled[s])}
      \/ entry[s] = "direct" /\ "produce" \in Faults
=============================================================================
