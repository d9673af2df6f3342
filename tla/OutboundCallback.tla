-------------------------- MODULE OutboundCallback --------------------------
(***************************************************************************)
(* The callback to a caller who left the queue: the tables outbound_queue  *)
(* and agent_states (callcenter/db.py), the monitor that offers callbacks  *)
(* to agents every 5 s (callcenter/outbound_engine.py), the handlers of    *)
(* callcenter/api.py, and the agent's dashboard (AgentDashboard.jsx) that  *)
(* calls them.                                                             *)
(*                                                                         *)
(* An action is the code between two awaits on the database.  Abstracted:  *)
(* the rooms' names and tokens; the clock (a row is fresh, 25 s old, 60    *)
(* min old); all departments but one; a dashboard has one request to the   *)
(* API in flight; each login is a new identity, as the dashboard makes it. *)
(***************************************************************************)
EXTENDS Naturals, FiniteSets

CONSTANTS
  Callbacks,   \* callers who leave the queue; each becomes at most one row
  Callers,     \* e-mail addresses
  CallerOf,    \* the address of each
  Agents,      \* agent identities
  NoAgent,     \* assigned_agent of a new row
  NoCallback,  \* no popup on a dashboard
  Finalises,   \* whether some client calls /outbound/complete and /no-answer
  MaxFaults    \* bound on failed passes of the monitor and restarts

ASSUME CallbackAssumption ==
  /\ CallerOf \in [Callbacks -> Callers] /\ IsFiniteSet(Agents)
  /\ NoAgent \notin Agents /\ NoCallback \notin Callbacks
  /\ Callbacks \cap {"login", "online", "inbound", "stuck", "gone"} = {}
  /\ Finalises \in BOOLEAN /\ MaxFaults \in Nat

VARIABLES
  status,     \* outbound_queue.status; "none" before the row exists
  assigned,   \* outbound_queue.assigned_agent
  attempts,   \* outbound_queue.attempts
  age,        \* how long ago last_attempt is
  inserting,  \* add_to_outbound_queue found no active row and will insert
  state,      \* agent_states.status
  seq,        \* agent_states.sequence_number
  snooze,     \* ignore_outbounds_until: none, in the future or in the past
  monitor,    \* where _monitor_loop is
  events,     \* outbound_callback events in the history of the EventHub
  screen,     \* what the dashboard of each agent shows
  popup,      \* its outbound popup
  request,    \* the API request of the dashboard that is being served
  rung,       \* history: callbacks whose caller was told to pick up
  talked,     \* history: callbacks in which the caller joined the agent
  mailed,     \* history: callbacks answered by the no-answer mail
  faults      \* history: failed passes and restarts so far

rows      == <<status, assigned, attempts, age, inserting>>
agentRows == <<state, seq, snooze>>
dashboard == <<screen, popup, request>>
history   == <<rung, talked, mailed, faults>>
vars == <<rows, agentRows, monitor, events, dashboard, history>>

-----------------------------------------------------------------------------

Final == {"completed", "no_answer", "declined"}
Statuses == {"none", "pending", "assigned", "in_progress"} \cup Final
AgentStates == {"none", "offline", "online", "busy", "ignoring_outbounds"}

\* A dashboard in a callback's room shows that callback.  "stuck" is the
\* in-call phase without a token; "gone" a closed tab.
Screens == {"login", "online", "inbound", "stuck", "gone"} \cup Callbacks

NoRequest == [at |-> "none"]
Requests ==
  {NoRequest} \cup
  [at : {"mark", "busy", "ignore", "complete", "no_answer", "free", "release",
         "mail"},
   callback : Callbacks]

Monitors ==
  {[at |-> "sleep"]}
    \cup [at : {"match", "stuck", "orphans"}, todo : SUBSET Callbacks]
    \cup [at : {"assign"}, todo : SUBSET Callbacks, callback : Callbacks,
          agent : Agents]
    \cup [at : {"timeout"}, todo : SUBSET Callbacks, callback : Callbacks]
    \cup [at : {"mail"}, todo : SUBSET Callbacks, callback : Callbacks,
          next : {"stuck", "orphans"}]

Init ==
  /\ status = [o \in Callbacks |-> "none"]
  /\ assigned = [o \in Callbacks |-> NoAgent]
  /\ attempts = [o \in Callbacks |-> 0]
  /\ age = [o \in Callbacks |-> "never"]
  /\ inserting = {}
  /\ state = [a \in Agents |-> "none"]
  /\ seq = [a \in Agents |-> 0]
  /\ snooze = [a \in Agents |-> "none"]
  /\ monitor = [at |-> "sleep"]
  /\ events = {}
  /\ screen = [a \in Agents |-> "login"]
  /\ popup = [a \in Agents |-> NoCallback]
  /\ request = [a \in Agents |-> NoRequest]
  /\ rung = {} /\ talked = {} /\ mailed = {} /\ faults = 0

-----------------------------------------------------------------------------
(* A caller leaves the queue: add_to_outbound_queue *)

\* Rows that keep the same caller from getting another one.
ActiveRow(c) ==
  \E o \in Callbacks :
    /\ CallerOf[o] = c
    /\ status[o] \in {"pending", "assigned", "in_progress"}
    /\ status[o] # "pending" \/ attempts[o] = 0

Abandon(o) ==
  /\ status[o] = "none" /\ o \notin inserting
  /\ ~ActiveRow(CallerOf[o])
  /\ inserting' = inserting \cup {o}
  /\ UNCHANGED <<status, assigned, attempts, age, agentRows, monitor, events,
                 dashboard, history>>

Insert(o) ==
  /\ o \in inserting
  /\ inserting' = inserting \ {o}
  /\ status' = [status EXCEPT ![o] = "pending"]
  /\ UNCHANGED <<assigned, attempts, age, agentRows, monitor, events, dashboard,
                 history>>

-----------------------------------------------------------------------------
(* The monitor *)

\* Mutant: assigned rows are offered again, as in a retry policy.
PendingOrAssigned ==
  {o \in Callbacks : status[o] \in {"pending", "assigned"}}

Pending == {o \in Callbacks : status[o] = "pending" /\ attempts[o] = 0}

Stuck == {o \in Callbacks : status[o] = "assigned" /\ age[o] \in {"25s", "60min"}}

\* Mutant: attempts > 0 is dropped; last_attempt IS NULL holds of a new row.
OrphanedNew ==
  {o \in Callbacks : /\ status[o] \in {"pending", "assigned", "in_progress"}
                     /\ age[o] \in {"never", "60min"}}

\* Mutant: accepted callbacks are not among them.
OrphanedUnaccepted ==
  {o \in Callbacks : /\ status[o] \in {"pending", "assigned"}
                     /\ attempts[o] > 0 /\ age[o] = "60min"}

Orphaned ==
  {o \in Callbacks : /\ status[o] \in {"pending", "assigned", "in_progress"}
                     /\ attempts[o] > 0 /\ age[o] = "60min"}

\* Online agents with the lowest sequence number; equals in any order.
NextAgents ==
  {a \in Agents : /\ state[a] = "online"
                  /\ \A b \in Agents : state[b] = "online" => seq[a] <= seq[b]}

StartPass ==
  /\ monitor.at = "sleep"
  /\ monitor' = [at |-> "match", todo |-> Pending]
  /\ UNCHANGED <<rows, agentRows, events, dashboard, history>>

FindAgent(o) ==
  /\ monitor.at = "match" /\ o \in monitor.todo
  /\ LET rest == monitor.todo \ {o} IN
       \/ \E a \in NextAgents :
            /\ snooze[a] # "future"
            /\ monitor' = [at |-> "assign", todo |-> rest, callback |-> o,
                           agent |-> a]
       \/ /\ NextAgents = {} \/ \E a \in NextAgents : snooze[a] = "future"
          /\ monitor' = [at |-> "match", todo |-> rest]
  /\ UNCHANGED <<rows, agentRows, events, dashboard, history>>

\* assign_outbound and the event to the dashboards.
AssignOutbound ==
  /\ monitor.at = "assign"
  /\ LET o == monitor.callback IN
       /\ status' = [status EXCEPT ![o] = "assigned"]
       /\ assigned' = [assigned EXCEPT ![o] = monitor.agent]
       /\ attempts' = [attempts EXCEPT ![o] = @ + 1]
       /\ age' = [age EXCEPT ![o] = "fresh"]
       /\ events' = events \cup {<<o, monitor.agent>>}
  /\ monitor' = [at |-> "match", todo |-> monitor.todo]
  /\ UNCHANGED <<inserting, agentRows, dashboard, history>>

FindStuck ==
  /\ monitor.at = "match" /\ monitor.todo = {}
  /\ monitor' = [at |-> "stuck", todo |-> Stuck]
  /\ UNCHANGED <<rows, agentRows, events, dashboard, history>>

\* The row is read again; a row that got final meanwhile is skipped.
RecheckStuck(o) ==
  /\ monitor.at = "stuck" /\ o \in monitor.todo
  /\ LET rest == monitor.todo \ {o} IN
       monitor' = IF status[o] \in Final
                  THEN [at |-> "stuck", todo |-> rest]
                  ELSE [at |-> "timeout", todo |-> rest, callback |-> o]
  /\ UNCHANGED <<rows, agentRows, events, dashboard, history>>

\* complete_outbound(o, "no_answer").
CloseUnanswered(o) ==
  /\ status' = [status EXCEPT ![o] = "no_answer"]
  /\ age' = [age EXCEPT ![o] = "fresh"]

\* The mail to the caller is the next await of whoever closed the row.
ThenMail(o, todo, next) ==
  monitor' = [at |-> "mail", todo |-> todo, callback |-> o, next |-> next]

TimeOut ==
  /\ monitor.at = "timeout"
  /\ CloseUnanswered(monitor.callback)
  /\ ThenMail(monitor.callback, monitor.todo, "stuck")
  /\ UNCHANGED <<assigned, attempts, inserting, agentRows, events, dashboard,
                 history>>

MailUnanswered ==
  /\ monitor.at = "mail"
  /\ mailed' = mailed \cup {monitor.callback}
  /\ monitor' = [at |-> monitor.next, todo |-> monitor.todo]
  /\ UNCHANGED <<rows, agentRows, events, dashboard, rung, talked, faults>>

FindOrphans ==
  /\ monitor.at = "stuck" /\ monitor.todo = {}
  /\ monitor' = [at |-> "orphans", todo |-> Orphaned]
  /\ UNCHANGED <<rows, agentRows, events, dashboard, history>>

\* The status tested here is the one of the query.
CloseOrphan(o) ==
  /\ monitor.at = "orphans" /\ o \in monitor.todo
  /\ CloseUnanswered(o)
  /\ ThenMail(o, monitor.todo \ {o}, "orphans")
  /\ UNCHANGED <<assigned, attempts, inserting, agentRows, events, dashboard,
                 history>>

EndPass ==
  /\ monitor.at = "orphans" /\ monitor.todo = {}
  /\ monitor' = [at |-> "sleep"]
  /\ UNCHANGED <<rows, agentRows, events, dashboard, history>>

\* An error of the database or the mail ends the pass.
PassFails ==
  /\ monitor.at # "sleep" /\ faults < MaxFaults
  /\ faults' = faults + 1
  /\ monitor' = [at |-> "sleep"]
  /\ UNCHANGED <<rows, agentRows, events, dashboard, rung, talked, mailed>>

\* The server restarts: the requests it served fail, a dashboard that was
\* accepting keeps its popup, and the history of events is empty.
Restart ==
  /\ faults < MaxFaults
  /\ faults' = faults + 1
  /\ monitor' = [at |-> "sleep"] /\ inserting' = {} /\ events' = {}
  /\ request' = [a \in Agents |-> NoRequest]
  /\ popup' = [a \in Agents |-> IF request[a].at = "ignore" THEN NoCallback
                                ELSE popup[a]]
  /\ UNCHANGED <<status, assigned, attempts, age, agentRows, screen, rung, talked,
                 mailed>>

MonitorStep ==
  \/ StartPass \/ AssignOutbound \/ FindStuck \/ TimeOut \/ FindOrphans
  \/ MailUnanswered \/ EndPass
  \/ \E o \in Callbacks : FindAgent(o) \/ RecheckStuck(o) \/ CloseOrphan(o)

\* Time passes for a row that waits for its agent.
Age(o) ==
  /\ status[o] \in {"assigned", "in_progress"}
  /\ \/ age[o] = "fresh" /\ age' = [age EXCEPT ![o] = "25s"]
     \/ age[o] = "25s" /\ age' = [age EXCEPT ![o] = "60min"]
  /\ UNCHANGED <<status, assigned, attempts, inserting, agentRows, monitor,
                 events, dashboard, history>>

-----------------------------------------------------------------------------
(* Agents come, go, and take calls from the queue *)

SetState(a, s) == state' = [state EXCEPT ![a] = s]
Show(a, s) == screen' = [screen EXCEPT ![a] = s]
InCall(a) == screen[a] \in Callbacks \cup {"inbound"}

GoOnline(a) ==
  /\ screen[a] = "login" /\ state[a] = "none"
  /\ Show(a, "online") /\ SetState(a, "online")
  /\ seq' = [seq EXCEPT ![a] =
               Cardinality({b \in Agents : state[b] \notin {"none", "offline"}})
                 + 1]
  /\ UNCHANGED <<rows, snooze, monitor, events, popup, request, history>>

GoOffline(a) ==
  /\ screen[a] \notin {"login", "gone"} /\ request[a] = NoRequest
  /\ Show(a, "login") /\ SetState(a, "offline")
  /\ popup' = [popup EXCEPT ![a] = NoCallback]
  /\ UNCHANGED <<rows, seq, snooze, monitor, events, request, history>>

\* The tab is closed: nobody tells the API.
CloseTab(a) ==
  /\ screen[a] \notin {"login", "gone"}
  /\ Show(a, "gone")
  /\ popup' = [popup EXCEPT ![a] = NoCallback]
  /\ UNCHANGED <<rows, agentRows, monitor, events, request, history>>

\* agent_accept_call.
TakeInbound(a) ==
  /\ screen[a] = "online" /\ request[a] = NoRequest
  /\ Show(a, "inbound") /\ SetState(a, "busy")
  /\ UNCHANGED <<rows, seq, snooze, monitor, events, popup, request, history>>

\* agent_end_call: the dashboard ends every call, callbacks too, with it.
EndCall(a) ==
  /\ InCall(a) /\ request[a] = NoRequest
  /\ Show(a, "online") /\ SetState(a, "online")
  /\ UNCHANGED <<rows, seq, snooze, monitor, events, popup, request, history>>

\* outbound_resume; the snooze widget offers it in and out of calls.
Resume(a) ==
  /\ snooze[a] # "none"
  /\ screen[a] \notin {"login", "gone"} /\ request[a] = NoRequest
  /\ SetState(a, "online")
  /\ snooze' = [snooze EXCEPT ![a] = "none"]
  /\ UNCHANGED <<rows, seq, monitor, events, dashboard, history>>

SnoozeEnds(a) ==
  /\ snooze[a] = "future"
  /\ snooze' = [snooze EXCEPT ![a] = "past"]
  /\ UNCHANGED <<rows, state, seq, monitor, events, dashboard, history>>

\* An event reaches the dashboard, when it is published or when the dashboard
\* reconnects and the hub replays its history.
ShowPopup(a, o) ==
  /\ <<o, a>> \in events /\ screen[a] = "online"
  /\ popup' = [popup EXCEPT ![a] = o]
  /\ UNCHANGED <<rows, agentRows, monitor, events, screen, request, history>>

-----------------------------------------------------------------------------
(* outbound_accept, outbound_decline *)

Popped(a, o) ==
  /\ screen[a] = "online" /\ request[a] = NoRequest
  /\ popup[a] = o /\ o # NoCallback

Serve(a, at, o) == request' = [request EXCEPT ![a] = [at |-> at, callback |-> o]]
Serving(a, at) == request[a].at = at
Served(a) == request' = [request EXCEPT ![a] = NoRequest]
ClosePopup(a) == popup' = [popup EXCEPT ![a] = NoCallback]

\* Final or in progress: the answer has no token, and the dashboard goes to
\* its in-call phase without a room.
AcceptHandled(a, o) ==
  /\ Popped(a, o)
  /\ status[o] \in Final \cup {"in_progress"}
  /\ Show(a, "stuck") /\ ClosePopup(a)
  /\ UNCHANGED <<rows, agentRows, monitor, events, request, history>>

\* A callback assigned to another agent is refused with 409: nothing changes.
Accept(a, o) ==
  /\ Popped(a, o)
  /\ status[o] \notin Final \cup {"in_progress"}
  /\ status[o] = "assigned" => assigned[o] = a
  /\ Serve(a, "mark", o)
  /\ UNCHANGED <<rows, agentRows, monitor, events, screen, popup, history>>

MarkInProgress(a) ==
  /\ Serving(a, "mark")
  /\ LET o == request[a].callback IN
       /\ status' = [status EXCEPT ![o] = "in_progress"]
       /\ assigned' = [assigned EXCEPT ![o] = a]
       /\ age' = [age EXCEPT ![o] = "fresh"]
       /\ Serve(a, "busy", o)
  /\ UNCHANGED <<attempts, inserting, agentRows, monitor, events, screen, popup,
                 history>>

\* set_agent_busy, caller_pickup to the caller, the token to the dashboard.
EnterRoom(a) ==
  /\ Serving(a, "busy")
  /\ SetState(a, "busy")
  /\ rung' = rung \cup {request[a].callback}
  /\ screen' = [screen EXCEPT ![a] = IF @ = "gone" THEN @
                                     ELSE request[a].callback]
  /\ ClosePopup(a) /\ Served(a)
  /\ UNCHANGED <<rows, seq, snooze, monitor, events, talked, mailed, faults>>

\* complete_outbound(o, "declined") looks at no status.
Decline(a, o) ==
  /\ Popped(a, o)
  /\ status' = [status EXCEPT ![o] = "declined"]
  /\ age' = [age EXCEPT ![o] = "fresh"]
  /\ Serve(a, "ignore", o)
  /\ UNCHANGED <<assigned, attempts, inserting, agentRows, monitor, events, screen,
                 popup, history>>

IgnoreOutbounds(a) ==
  /\ Serving(a, "ignore")
  /\ SetState(a, "ignoring_outbounds")
  /\ snooze' = [snooze EXCEPT ![a] = "future"]
  /\ ClosePopup(a) /\ Served(a)
  /\ UNCHANGED <<rows, seq, monitor, events, screen, history>>

\* The caller, told to pick up, joins the agent.
CallerJoins(a, o) ==
  /\ o \in rung /\ screen[a] = o
  /\ talked' = talked \cup {o}
  /\ UNCHANGED <<rows, agentRows, monitor, events, dashboard, rung, mailed,
                 faults>>

-----------------------------------------------------------------------------
(* outbound_complete, outbound_no_answer: no client in the repository *)

Leave(a) ==
  /\ screen' = [screen EXCEPT ![a] = IF @ = "gone" THEN @ ELSE "online"]
  /\ Served(a)

CompleteHandled(a, o) ==
  /\ Finalises /\ screen[a] = o /\ request[a] = NoRequest
  /\ status[o] \in Final
  /\ Serve(a, "free", o)
  /\ UNCHANGED <<rows, agentRows, monitor, events, screen, popup, history>>

Complete(a, o) ==
  /\ Finalises /\ screen[a] = o /\ request[a] = NoRequest
  /\ status[o] \notin Final
  /\ Serve(a, "complete", o)
  /\ UNCHANGED <<rows, agentRows, monitor, events, screen, popup, history>>

MarkCompleted(a) ==
  /\ Serving(a, "complete")
  /\ LET o == request[a].callback IN
       /\ status' = [status EXCEPT ![o] = "completed"]
       /\ age' = [age EXCEPT ![o] = "fresh"]
       /\ Serve(a, "free", o)
  /\ UNCHANGED <<assigned, attempts, inserting, agentRows, monitor, events, screen,
                 popup, history>>

\* Final already: the agent is not set free.
NoAnswerHandled(a, o) ==
  /\ Finalises /\ screen[a] = o /\ o \notin talked /\ request[a] = NoRequest
  /\ status[o] \in Final
  /\ Leave(a)
  /\ UNCHANGED <<rows, agentRows, monitor, events, popup, history>>

NoAnswer(a, o) ==
  /\ Finalises /\ screen[a] = o /\ o \notin talked /\ request[a] = NoRequest
  /\ status[o] \notin Final
  /\ Serve(a, "no_answer", o)
  /\ UNCHANGED <<rows, agentRows, monitor, events, screen, popup, history>>

MarkNoAnswer(a) ==
  /\ Serving(a, "no_answer")
  /\ CloseUnanswered(request[a].callback)
  /\ Serve(a, "release", request[a].callback)
  /\ UNCHANGED <<assigned, attempts, inserting, agentRows, monitor, events,
                 screen, popup, history>>

\* The agent is set free first, the caller is mailed then.
ReleaseAgent(a) ==
  /\ Serving(a, "release")
  /\ SetState(a, "online")
  /\ Serve(a, "mail", request[a].callback)
  /\ UNCHANGED <<rows, seq, snooze, monitor, events, screen, popup, history>>

MailCaller(a) ==
  /\ Serving(a, "mail")
  /\ mailed' = mailed \cup {request[a].callback}
  /\ Leave(a)
  /\ UNCHANGED <<rows, agentRows, monitor, events, popup, rung, talked, faults>>

SetFree(a) ==
  /\ Serving(a, "free")
  /\ SetState(a, "online")
  /\ Leave(a)
  /\ UNCHANGED <<rows, seq, snooze, monitor, events, popup, history>>

ServeStep(a) ==
  \/ MarkInProgress(a) \/ EnterRoom(a) \/ IgnoreOutbounds(a)
  \/ MarkCompleted(a) \/ MarkNoAnswer(a) \/ ReleaseAgent(a) \/ MailCaller(a)
  \/ SetFree(a)

AgentStep(a) ==
  \/ GoOnline(a) \/ GoOffline(a) \/ CloseTab(a)
  \/ TakeInbound(a) \/ EndCall(a)
  \/ Resume(a) \/ SnoozeEnds(a)
  \/ \E o \in Callbacks :
       \/ ShowPopup(a, o) \/ AcceptHandled(a, o) \/ Accept(a, o) \/ Decline(a, o)
       \/ CallerJoins(a, o)
       \/ CompleteHandled(a, o) \/ Complete(a, o)
       \/ NoAnswerHandled(a, o) \/ NoAnswer(a, o)

Next ==
  \/ \E o \in Callbacks : Abandon(o) \/ Insert(o) \/ Age(o)
  \/ MonitorStep \/ PassFails \/ Restart
  \/ \E a \in Agents : AgentStep(a) \/ ServeStep(a)

Spec == Init /\ [][Next]_vars

\* The monitor goes round, time passes, and a request to the API is served.
FairSpec ==
  /\ Spec
  /\ WF_vars(MonitorStep)
  /\ \A o \in Callbacks : WF_vars(Age(o)) /\ WF_vars(Insert(o))
  /\ \A a \in Agents : WF_vars(ServeStep(a))

-----------------------------------------------------------------------------
(* Refinement: what becomes of a row is a CallbackLedger *)

StageOf(o) == CASE status[o] = "none"    -> "absent"
                [] status[o] = "pending" -> "waiting"
                [] OTHER                 -> "offered"

Ledger == INSTANCE CallbackLedger WITH
            stage <- [o \in Callbacks |-> StageOf(o)],
            agent <- assigned

-----------------------------------------------------------------------------
(* Properties *)

\* Every variable holds values of its kind.
TypeOK ==
  /\ status \in [Callbacks -> Statuses]
  /\ assigned \in [Callbacks -> Agents \cup {NoAgent}]
  /\ attempts \in [Callbacks -> Nat]
  /\ age \in [Callbacks -> {"never", "fresh", "25s", "60min"}]
  /\ inserting \subseteq Callbacks
  /\ state \in [Agents -> AgentStates]
  /\ seq \in [Agents -> Nat]
  /\ snooze \in [Agents -> {"none", "future", "past"}]
  /\ monitor \in Monitors
  /\ events \subseteq Callbacks \X Agents
  /\ screen \in [Agents -> Screens]
  /\ popup \in [Agents -> Callbacks \cup {NoCallback}]
  /\ request \in [Agents -> Requests]
  /\ rung \subseteq Callbacks /\ talked \subseteq Callbacks
  /\ mailed \subseteq Callbacks /\ faults \in 0..MaxFaults

\* One-shot callbacks: a row is offered to an agent at most once, although
\* the monitor works from lists that are stale when it uses them.
OneAttempt == \A o \in Callbacks : attempts[o] <= 1

Engaged(a, o) ==
  \/ screen[a] = o
  \/ request[a].at \in {"mark", "busy"} /\ request[a].callback = o

\* Two agents never call back the same caller for the same row, in spite of
\* popups that are replayed and accepted late.
OneAgentCalls ==
  \A o \in Callbacks, a, b \in Agents : Engaged(a, o) /\ Engaged(b, o) => a = b

\* The table, the monitor and the dashboards together implement CallbackLedger:
\* whatever is closed, declined, replayed or restarted, a caller who waits for
\* an agent is not given up, told to pick up or mailed, and a row that was
\* offered neither waits again nor changes its agent.
ImplementsCallbackLedger == Ledger!Spec

\* Whatever agents do, an offered callback comes to a final status: closed
\* tabs, stuck dashboards and lost popups are cleaned up by the monitor.
OfferedEnds ==
  \A o \in Callbacks : status[o] = "assigned" ~> status[o] \in Final

-----------------------------------------------------------------------------
(* What the docs and comments of the repository say; the code does not do  *)
(* it, and the README gives an instance on which TLC shows each violated.  *)

\* db.py, "final end-state (single-attempt policy)": a final status stays.
FinalIsFinal ==
  [][\A o \in Callbacks : status[o] \in Final => status'[o] = status[o]]_vars

\* email_service.py, "System tried to call back but user didn't pick up": the
\* mail goes to callers who were told to pick up.
MailMeansRung == mailed \subseteq rung

\* api.py, "Finalize outbound callback as completed after a successful call":
\* a caller who talked to an agent is not closed as unanswered.
TalkedIsNotUnanswered ==
  \A o \in Callbacks : o \in talked => status[o] # "no_answer"

\* api.py:504, "End call and send email": who is closed as unanswered is mailed.
UnansweredIsMailed ==
  \A o \in Callbacks : status[o] = "no_answer" ~> o \in mailed

\* outbound_engine.py, "For each, check if a free agent exists in that
\* department; if yes, mark the outbound as 'assigned'".
FreeAgentIsUsed ==
  [][\A o \in Callbacks :
       FindAgent(o) /\ (\E a \in Agents : state[a] = "online" /\ snooze[a] # "future")
         => monitor'.at = "assign"]_vars

\* AgentDashboard.jsx, "Ignore outbound calls for" some minutes: an agent whose
\* snooze is over gets outbound calls again.
SnoozeIsTemporary ==
  \A a \in Agents :
    state[a] = "ignoring_outbounds" /\ snooze[a] = "past"
      ~> state[a] # "ignoring_outbounds"

\* db.py, "Prevent spam: check if user already has an active
\* pending/assigned callback".
OneActivePerCaller ==
  \A o, p \in Callbacks :
    (CallerOf[o] = CallerOf[p]
      /\ status[o] \in {"pending", "assigned"}
      /\ status[p] \in {"pending", "assigned"}) => o = p
=============================================================================
