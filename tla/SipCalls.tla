------------------------------ MODULE SipCalls ------------------------------
(***************************************************************************)
(* Telephone calls: livekit/sip/sip_session_manager.py, the webhook and    *)
(* watchdog handlers of sip_event_handler.py and the endpoints of          *)
(* sip_ingress.py that change state.                                       *)
(*                                                                         *)
(* LiveKit puts a caller in a room of his own and tells this process by    *)
(* webhooks, which arrive in any order, twice, or not at all (the rate     *)
(* limiter refuses some).  A session is registered for the room, an AI     *)
(* worker is asked for, and a watchdog ends the session if no worker comes *)
(* or the call lasts too long.                                             *)
(*                                                                         *)
(* Coroutines interleave only at awaits.  The manager's lock is never held *)
(* across one, so its operations are part of the action that calls them,   *)
(* and _by_sip_call always has the call ids of the sessions in             *)
(* _by_session: it is not a variable.  A handler, watchdog or cleanup that *)
(* is suspended is a task of its session.  Left out: how long timers run, *)
(* and a send to Kafka that raises although it arrived.                    *)
(***************************************************************************)
EXTENDS Naturals, Sequences, FiniteSets

CONSTANTS
  Sessions,    \* session ids (uuid4)
  Rooms,       \* LiveKit rooms; the dispatch rule gives each call its own
  NoSession, NoRoom,
  RetryMax,    \* SIP_RETRY_MAX
  MaxRepeats,  \* bound on webhooks that LiveKit delivers again
  Faults       \* which of "kafka" (the broker at start-up), "produce",
               \* "import" (of ai_worker), "livekit" (dialling), "delete"
               \* (of a room) may go wrong

ASSUME SipAssumption ==
  /\ NoSession \notin Sessions /\ NoRoom \notin Rooms
  /\ RetryMax \in Nat \ {0} /\ MaxRepeats \in Nat
  /\ Faults \subseteq {"kafka", "produce", "import", "livekit", "delete"}

VARIABLES
  state,       \* SipSession.state; "unborn" before the session is registered
  room,        \* SipSession.room_id
  listed,      \* keys of _by_session
  byRoom,      \* _by_room
  task,        \* the suspended coroutines of each session
  current,     \* _timeout_tasks: the watchdog that _cancel_timeout would stop
  tries,       \* attempts of _publish_sip_call_request that failed
  reports,     \* history: call_completed and call_failed handed to Kafka
  worker,      \* the AI worker of each session, as LiveKit sees it
  kafka,       \* producer.is_kafka_active, settled when the process starts
  importable,  \* whether ai_worker can be imported
  caller,      \* LiveKit: the telephone side of each room
  hooks,       \* LiveKit: webhooks not yet delivered
  repeats      \* history: webhooks delivered again

manager  == <<state, room, listed, byRoom>>
tasks    == <<task, current, tries, reports>>
settings == <<kafka, importable>>
livekit  == <<worker, caller, hooks, repeats>>
vars     == <<manager, tasks, settings, livekit>>

Active == {"ringing", "connected"}
Final  == {"completed", "failed"}

\* "joined" and "outbound" dispatch a call, "left" ends one; all three, like
\* the watchdogs "ringing" and "call", may end in _delayed_room_cleanup.
Kinds  == {"joined", "outbound", "left", "ringing", "call"}
Places == {"none", "calling", "submit", "sleep", "report", "record", "wait",
           "delete"}

Hook == [event : {"sip_joined", "agent_joined", "sip_left", "room_finished"},
         room : Rooms]

Init ==
  /\ state = [s \in Sessions |-> "unborn"]
  /\ room = [s \in Sessions |-> NoRoom]
  /\ listed = {} /\ byRoom = [r \in Rooms |-> NoSession]
  /\ task = [s \in Sessions |-> [k \in Kinds |-> "none"]]
  /\ current = [s \in Sessions |-> "none"]
  /\ tries = [s \in Sessions |-> 0]
  /\ reports = [s \in Sessions |-> <<>>]
  /\ worker = [s \in Sessions |-> "none"]
  /\ kafka \in IF "kafka" \in Faults THEN BOOLEAN ELSE {TRUE}
  /\ importable \in IF "import" \in Faults THEN BOOLEAN ELSE {TRUE}
  /\ caller = [r \in Rooms |-> "none"]
  /\ hooks = {} /\ repeats = 0

-----------------------------------------------------------------------------
(* SipSessionManager and the watchdogs' table *)

Found(r) == byRoom[r] # NoSession

\* uuid4 gives an id that is not in use, no matter which.
Fresh(s) == state[s] = "unborn" /\ s = CHOOSE t \in Sessions : state[t] = "unborn"

Register(s, r) ==
  /\ Fresh(s)
  /\ state' = [state EXCEPT ![s] = "ringing"]
  /\ room' = [room EXCEPT ![s] = r]
  /\ listed' = listed \cup {s}
  /\ byRoom' = [byRoom EXCEPT ![r] = s]

\* update_state: no state is refused, a session that was removed is ignored.
Mark(s, new) == IF s \in listed THEN [state EXCEPT ![s] = new] ELSE state

Remove(s) ==
  /\ listed' = listed \ {s}
  /\ byRoom' = IF s \in listed
               THEN [byRoom EXCEPT ![room[s]] = NoSession] ELSE byRoom

\* _cancel_timeout: the watchdog stops where it is suspended; one that is
\* deleting the room still runs the finally clause of its cleanup.
Cancelled(s) ==
  IF current[s] # "none" /\ task[s][current[s]] # "delete"
  THEN [task[s] EXCEPT ![current[s]] = "none"]
  ELSE task[s]

\* Where a coroutine is suspended after it ended a call: with Kafka inactive
\* the publishers return without an await.
AfterEnd == IF kafka THEN "report" ELSE "wait"

Reported(s, event) ==
  IF kafka THEN [reports EXCEPT ![s] = Append(@, event)] ELSE reports

\* Mutant: the watchdog of the call is not started.
ConnectUnwatched(s) ==
  /\ state' = Mark(s, "connected")
  /\ task' = [task EXCEPT ![s] = Cancelled(s)]
  /\ current' = [current EXCEPT ![s] = "none"]
  /\ UNCHANGED <<room, listed, byRoom, tries, reports>>

\* mark_connected, _cancel_timeout, _start_call_timeout.
Connect(s) ==
  /\ state' = Mark(s, "connected")
  /\ task' = [task EXCEPT ![s] = [Cancelled(s) EXCEPT !["call"] = "sleep"]]
  /\ current' = [current EXCEPT ![s] = "call"]
  /\ UNCHANGED <<room, listed, byRoom, tries, reports>>

-----------------------------------------------------------------------------
(* Webhooks *)

\* A webhook is delivered.  LiveKit delivers it again when the answer takes
\* too long, as the handlers of the caller's events do: they await Kafka.
Take(event, r) ==
  LET h == [event |-> event, room |-> r] IN
  /\ h \in hooks
  /\ \/ hooks' = hooks \ {h} /\ UNCHANGED repeats
     \/ /\ event \in {"sip_joined", "sip_left"} /\ repeats < MaxRepeats
        /\ repeats' = repeats + 1 /\ UNCHANGED hooks
  /\ UNCHANGED <<worker, caller, settings>>

\* The rate limiter, a bad signature or body, or the caller allowlist.
HookRefused(h) ==
  /\ h \in hooks
  /\ hooks' = hooks \ {h}
  /\ UNCHANGED <<manager, tasks, settings, worker, caller, repeats>>

\* Mutant: the room's session is not looked up.
SipJoinedUnchecked(r, s) ==
  /\ Take("sip_joined", r)
  /\ Register(s, r)
  /\ task' = [task EXCEPT ![s]["joined"] = "submit"]
  /\ UNCHANGED <<current, tries, reports>>

\* The caller of a room without session: register, then dispatch.
SipJoinedNew(r, s) ==
  /\ ~Found(r)
  /\ Take("sip_joined", r)
  /\ Register(s, r)
  /\ task' = [task EXCEPT ![s]["joined"] = "submit"]
  /\ UNCHANGED <<current, tries, reports>>

\* Anyone who joins a room whose session rings connects the call: an AI
\* worker, the callee of an outbound call, a caller announced twice.
JoinedKnown(r, event) ==
  /\ Take(event, r)
  /\ Found(r) \/ event = "agent_joined"
  /\ IF Found(r) /\ state[byRoom[r]] = "ringing"
     THEN Connect(byRoom[r]) ELSE UNCHANGED <<manager, tasks>>

\* Mutant: a session that has ended is ended again.
LeftAnyway(r) == Found(r)

Leaves(r) == Found(r) /\ state[byRoom[r]] \in Active

\* on_participant_left up to its first await.
SipLeft(r) ==
  /\ Take("sip_left", r)
  /\ IF Leaves(r)
     THEN LET s == byRoom[r] IN
          /\ state' = Mark(s, "completed")
          /\ task' = [task EXCEPT ![s] =
                        [Cancelled(s) EXCEPT !["left"] = AfterEnd]]
          /\ current' = [current EXCEPT ![s] = "none"]
          /\ reports' = Reported(s, "completed")
          /\ UNCHANGED <<room, listed, byRoom, tries>>
     ELSE UNCHANGED <<manager, tasks>>

\* on_room_finished: no event is published for a session it ends.
RoomFinished(r) ==
  /\ Take("room_finished", r)
  /\ IF Found(r)
     THEN LET s == byRoom[r] IN
          /\ state' = IF state[s] \in Final THEN state ELSE Mark(s, "completed")
          /\ Remove(s)
          /\ task' = [task EXCEPT ![s] = Cancelled(s)]
          /\ current' = [current EXCEPT ![s] = "none"]
          /\ UNCHANGED <<room, tries, reports>>
     ELSE UNCHANGED <<manager, tasks>>

-----------------------------------------------------------------------------
(* POST /sip/outbound-call up to the dispatch *)

OutboundCall(r, s) ==
  /\ caller[r] = "none"
  /\ Register(s, r)
  /\ task' = [task EXCEPT ![s]["outbound"] = "calling"]
  /\ caller' = [caller EXCEPT ![r] = "dialled"]
  /\ UNCHANGED <<current, tries, reports, settings, worker, hooks, repeats>>

\* create_sip_participant returns.
Dialled(s) ==
  /\ task[s]["outbound"] = "calling"
  /\ task' = [task EXCEPT ![s]["outbound"] = "submit"]
  /\ UNCHANGED <<manager, current, tries, reports, settings, livekit>>

\* It raises; the telephone may ring all the same.
DialFails(s) ==
  /\ "livekit" \in Faults
  /\ task[s]["outbound"] = "calling"
  /\ state' = Mark(s, "failed")
  /\ Remove(s)
  /\ task' = [task EXCEPT ![s]["outbound"] = "none"]
  /\ UNCHANGED <<room, current, tries, reports, settings, livekit>>

-----------------------------------------------------------------------------
(* _publish_sip_call_request, and what its two callers do next *)

Submitting(s, k) == k \in {"joined", "outbound"} /\ task[s][k] = "submit"

\* True is returned: the ringing watchdog starts, whatever happened meanwhile.
Dispatched(s, k) ==
  /\ task' = [task EXCEPT ![s][k] = "none", ![s]["ringing"] = "sleep"]
  /\ current' = [current EXCEPT ![s] = "ringing"]
  /\ UNCHANGED <<manager, tries, reports>>

Ask(s) ==
  /\ worker' = [worker EXCEPT ![s] = "asked"]
  /\ UNCHANGED <<caller, hooks, repeats>>

SubmitSucceeds(s, k) ==
  /\ Submitting(s, k) /\ kafka /\ tries[s] < RetryMax
  /\ Ask(s)
  /\ Dispatched(s, k)
  /\ UNCHANGED settings

\* submit_call_request returns None, or Kafka is inactive, or all retries are
\* used up: what is left is to spawn the worker in this process.
MustSpawn(s, k) ==
  /\ Submitting(s, k)
  /\ kafka => "produce" \in Faults \/ tries[s] = RetryMax

SpawnDirect(s, k) ==
  /\ MustSpawn(s, k) /\ importable
  /\ Ask(s)
  /\ Dispatched(s, k)
  /\ UNCHANGED settings

\* ai_worker cannot be imported: back off and try again.
SpawnFails(s, k) ==
  /\ MustSpawn(s, k) /\ ~importable /\ tries[s] < RetryMax
  /\ tries' = [tries EXCEPT ![s] = @ + 1]
  /\ UNCHANGED <<manager, task, current, reports, settings, livekit>>

GivesUp(s, k) == MustSpawn(s, k) /\ ~importable /\ tries[s] = RetryMax

\* False for an inbound call: fail it and clean up.
JoinedFails(s) ==
  /\ GivesUp(s, "joined")
  /\ state' = Mark(s, "failed")
  /\ task' = [task EXCEPT ![s] = [Cancelled(s) EXCEPT !["joined"] = AfterEnd]]
  /\ current' = [current EXCEPT ![s] = "none"]
  /\ reports' = Reported(s, "failed")
  /\ UNCHANGED <<room, listed, byRoom, tries, settings, livekit>>

\* False for an outbound call: the session is removed, its room is not.
OutboundFails(s) ==
  /\ GivesUp(s, "outbound")
  /\ state' = Mark(s, "failed")
  /\ Remove(s)
  /\ task' = [task EXCEPT ![s]["outbound"] = "none"]
  /\ UNCHANGED <<room, current, tries, reports, settings, livekit>>

-----------------------------------------------------------------------------
(* Watchdogs and cleanup *)

\* Mutant: the watchdog does not look at the state again.
RingsOnAnyway(s) == s \in listed

StillRings(s) == s \in listed /\ state[s] = "ringing"

\* SIP_RINGING_TIMEOUT_SEC have passed.
RingingTimeout(s) ==
  /\ task[s]["ringing"] = "sleep"
  /\ IF StillRings(s)
     THEN /\ state' = Mark(s, "failed")
          /\ reports' = Reported(s, "failed")
          /\ task' = [task EXCEPT ![s]["ringing"] = AfterEnd]
     ELSE /\ task' = [task EXCEPT ![s]["ringing"] = "none"]
          /\ UNCHANGED <<state, reports>>
  /\ UNCHANGED <<room, listed, byRoom, current, tries, settings, livekit>>

\* SIP_CALL_TIMEOUT_SEC have passed.
CallTimeout(s) ==
  /\ task[s]["call"] = "sleep"
  /\ IF s \in listed /\ state[s] = "connected"
     THEN /\ state' = Mark(s, "completed")
          /\ reports' = Reported(s, "completed")
          /\ task' = [task EXCEPT ![s]["call"] = AfterEnd]
     ELSE /\ task' = [task EXCEPT ![s]["call"] = "none"]
          /\ UNCHANGED <<state, reports>>
  /\ UNCHANGED <<room, listed, byRoom, current, tries, settings, livekit>>

\* The publish of the end returns; its failure is swallowed.
ReportDone(s, k) ==
  /\ task[s][k] = "report"
  /\ task' = [task EXCEPT ![s][k] = IF k = "left" THEN "record" ELSE "wait"]
  /\ UNCHANGED <<manager, current, tries, reports, settings, livekit>>

\* _trigger_recording_save: the call detail record of a caller who left.
RecordDone(s) ==
  /\ task[s]["left"] = "record"
  /\ task' = [task EXCEPT ![s]["left"] = "wait"]
  /\ UNCHANGED <<manager, current, tries, reports, settings, livekit>>

Empties(r) == [event |-> "room_finished", room |-> r]

Served(r) == {s \in Sessions : room[s] = r /\ worker[s] = "in"}

\* LiveKit deletes a room and everyone in it.
Delete(r) ==
  /\ caller' = [caller EXCEPT ![r] = IF @ = "none" THEN @ ELSE "gone"]
  /\ worker' = [s \in Sessions |-> IF s \in Served(r) THEN "gone" ELSE worker[s]]
  /\ hooks' = hooks
       \cup (IF caller[r] = "in"
             THEN {[event |-> "sip_left", room |-> r]} ELSE {})
       \cup (IF caller[r] = "in" \/ Served(r) # {} THEN {Empties(r)} ELSE {})
  /\ UNCHANGED repeats

\* The delay of _delayed_room_cleanup is over: delete_room is called.
DeleteRoom(s, k) ==
  /\ task[s][k] = "wait"
  /\ task' = [task EXCEPT ![s][k] = "delete"]
  /\ Delete(room[s]) \/ ("delete" \in Faults /\ UNCHANGED livekit)
  /\ UNCHANGED <<manager, current, tries, reports, settings>>

\* Its finally clause; a watchdog that cancels itself here ends anyway.
CleanupEnds(s, k) ==
  /\ task[s][k] = "delete"
  /\ task' = [task EXCEPT ![s] = [Cancelled(s) EXCEPT ![k] = "none"]]
  /\ current' = [current EXCEPT ![s] = "none"]
  /\ Remove(s)
  /\ UNCHANGED <<state, room, tries, reports, settings, livekit>>

-----------------------------------------------------------------------------
(* LiveKit and the telephone network *)

\* A caller dials in, or a callee answers.
CallerJoins(r) ==
  /\ caller[r] \in {"none", "dialled"}
  /\ caller' = [caller EXCEPT ![r] = "in"]
  /\ hooks' = hooks \cup {[event |-> "sip_joined", room |-> r]}
  /\ UNCHANGED <<manager, tasks, settings, worker, repeats>>

CallerHangsUp(r) ==
  /\ caller[r] = "in"
  /\ caller' = [caller EXCEPT ![r] = "gone"]
  /\ hooks' = hooks \cup {[event |-> "sip_left", room |-> r]}
                    \cup (IF Served(r) = {} THEN {Empties(r)} ELSE {})
  /\ UNCHANGED <<manager, tasks, settings, worker, repeats>>

WorkerJoins(s) ==
  /\ worker[s] = "asked"
  /\ worker' = [worker EXCEPT ![s] = "in"]
  /\ hooks' = hooks \cup {[event |-> "agent_joined", room |-> room[s]]}
  /\ UNCHANGED <<manager, tasks, settings, caller, repeats>>

WorkerLeaves(s) ==
  /\ worker[s] = "in"
  /\ worker' = [worker EXCEPT ![s] = "gone"]
  /\ hooks' = IF Served(room[s]) = {s} /\ caller[room[s]] # "in"
              THEN hooks \cup {Empties(room[s])} ELSE hooks
  /\ UNCHANGED <<manager, tasks, settings, caller, repeats>>

-----------------------------------------------------------------------------

\* Coroutine k of session s runs on to its next await.
TaskRuns(s, k) ==
  /\ task[s][k] # "none"
  /\ \/ SubmitSucceeds(s, k) \/ SpawnDirect(s, k) \/ SpawnFails(s, k)
     \/ k = "joined" /\ JoinedFails(s)
     \/ k = "outbound" /\ (Dialled(s) \/ DialFails(s) \/ OutboundFails(s))
     \/ k = "ringing" /\ RingingTimeout(s)
     \/ k = "call" /\ CallTimeout(s)
     \/ k = "left" /\ RecordDone(s)
     \/ ReportDone(s, k) \/ DeleteRoom(s, k) \/ CleanupEnds(s, k)

Webhook ==
  \/ \E h \in Hook : HookRefused(h)
  \/ \E r \in Rooms :
       \/ \E s \in Sessions : SipJoinedNew(r, s)
       \/ \E e \in {"sip_joined", "agent_joined"} : JoinedKnown(r, e)
       \/ SipLeft(r) \/ RoomFinished(r)

Environment ==
  \/ \E r \in Rooms : CallerJoins(r) \/ CallerHangsUp(r)
  \/ \E s \in Sessions : WorkerJoins(s) \/ WorkerLeaves(s)

EventLoop == \E s \in Sessions, k \in Kinds : TaskRuns(s, k)

Next ==
  \/ EventLoop
  \/ Webhook
  \/ \E r \in Rooms, s \in Sessions : OutboundCall(r, s)
  \/ Environment

Spec == Init /\ [][Next]_vars

\* The event loop does not stop while a coroutine can run on: timers run out,
\* and a Kafka send and a LiveKit call end.  No webhook need ever arrive.
FairSpec == Spec /\ WF_vars(EventLoop)

-----------------------------------------------------------------------------
(* Properties *)

\* Every variable has its type, and no more tries are counted than are made.
TypeOK ==
  /\ state \in [Sessions -> {"unborn"} \cup Active \cup Final]
  /\ room \in [Sessions -> Rooms \cup {NoRoom}] /\ listed \subseteq Sessions
  /\ byRoom \in [Rooms -> Sessions \cup {NoSession}]
  /\ task \in [Sessions -> [Kinds -> Places]]
  /\ current \in [Sessions -> {"none", "ringing", "call"}]
  /\ tries \in [Sessions -> 0..RetryMax]
  /\ reports \in [Sessions -> Seq(Final)]
  /\ worker \in [Sessions -> {"none", "asked", "in", "gone"}]
  /\ kafka \in BOOLEAN /\ importable \in BOOLEAN
  /\ caller \in [Rooms -> {"none", "dialled", "in", "gone"}]
  /\ hooks \subseteq Hook /\ repeats \in 0..MaxRepeats

\* The indices of the manager agree: a room leads to the session that is
\* listed for it, and at most one is, however webhooks are repeated, removed
\* sessions are cleaned up late, and calls registered again.
RoomIndexExact ==
  \A r \in Rooms :
    {s \in listed : room[s] = r} = {byRoom[r]} \ {NoSession}

\* The state of a call only moves forward: watchdogs, webhooks and cleanups
\* that overtake each other never fail a call that was connected, nor change
\* how one ended.  Only a dispatch or a dial that fails does (it marks the
\* session whatever happened during the await).
StateMovesOn ==
  [][\A s \in Sessions :
       <<state[s], state'[s]>> \in
         {<<t, t>> : t \in {"unborn"} \cup Active \cup Final}
           \cup {<<"unborn", "ringing">>, <<"ringing", "connected">>,
                 <<"ringing", "failed">>, <<"ringing", "completed">>,
                 <<"connected", "completed">>}
       \/ /\ state'[s] = "failed"
          /\ JoinedFails(s) \/ OutboundFails(s) \/ DialFails(s)]_vars

\* The end of a call is reported once, except that a dispatch which fails
\* after the caller left adds a call_failed to the call_completed.
EndReportedOnce ==
  \A s \in Sessions :
    \/ Len(reports[s]) <= 1
    \/ /\ ~importable /\ tries[s] = RetryMax
       /\ reports[s] = <<"completed", "failed">>

\* Every session is removed in the end, also when no webhook arrives: a
\* watchdog that was cancelled, overtaken or replaced leaves none behind.
SessionEnds == \A s \in Sessions : (s \in listed) ~> (s \notin listed)
=============================================================================
