----------------------------- MODULE CallEntry -----------------------------
(***************************************************************************)
(* The three doors through which a call that is not a telephone call gets  *)
(* in: POST /browser/call/start (browser/router.py), GET /livekit/token    *)
(* (ai_worker.py) and POST /integration/call/start (integration/service),  *)
(* with what they ask: the routing engines and their agents                *)
(* (routing/engine.py, api.py), the offline handler (offline/handler.py)   *)
(* and the producer of call requests.                                      *)
(*                                                                         *)
(* A door is a coroutine: it suspends where it sends to Kafka, stores a    *)
(* callback or sends to the browser, and not otherwise, since the locks of *)
(* the agent pool and the event hub are never held across an await.        *)
(*                                                                         *)
(* There are two routing engines: routing/__init__.py makes the one its    *)
(* API serves, routing/singleton.py the one the browser's door asks.  The  *)
(* rules are loaded into the latter at start-up, agents register with the  *)
(* former.  Left out: names of queues, LLM and voice settings, and what    *)
(* becomes of a request or a worker.                                       *)
(*                                                                         *)
(* CallRequest (kafka/schemas.py) has no queue_name, required_skills,      *)
(* routing_rule or fallback_action, and pydantic raises when one of them   *)
(* is assigned or read.  So RoutingDecision.apply raises at its first      *)
(* line and the browser's door goes on with the request as it was; and the *)
(* event it publishes after dispatching a call raises, which is answered   *)
(* with an error.                                                          *)
(***************************************************************************)
EXTENDS Routing, FiniteSets

CONSTANTS
  Calls, Agents,
  Callers,     \* what the conditions of the rules can tell apart
  Priorities,  \* that a request may ask for
  Fallbacks,   \* what OFFLINE_FALLBACK_ACTION may be
  Files,       \* what routing_rules.json may hold; no rules if it is missing
  Overload,    \* _OVERLOAD_PRIORITY
  MaxSlots,    \* bound on an agent's max_calls
  Offers,      \* [available, max, skilled] an agent may register with
  Doors,       \* of {"browser", "token", "external"}
  Faults       \* which of "kafka" (the broker at start-up), "produce",
               \* "import" (of ai_worker), "schedule" (of a callback),
               \* "token" (its generation) may go wrong

Actions == {"queue", "voicemail", "callback", "ai_bot"}

\* A rule as RuleLoader parses it.
Rule ==
  [enabled : BOOLEAN, order : Nat, callers : SUBSET Callers, atLeast : Int,
   window : [kind : {"always", "between", "outside"}, from : Nat, to : Nat],
   target : [overrides : BOOLEAN, override : Int, skill : BOOLEAN,
             action : Actions]]

ASSUME EntryAssumption ==
  /\ Overload \in Int /\ MaxSlots \in Nat
  /\ Priorities \subseteq Int
  /\ Fallbacks \subseteq Actions
  /\ Files \subseteq Seq(Rule) /\ <<>> \in Files
  /\ Offers \subseteq [available : BOOLEAN, max : 0 .. MaxSlots,
                       skilled : BOOLEAN]
  /\ Doors \subseteq {"browser", "token", "external"}
  /\ Faults \subseteq {"kafka", "produce", "import", "schedule", "token"}

VARIABLES
  call,        \* where each call is: its door, its suspended coroutine, the
               \* priority of its request, the answer of the door and the
               \* action of the FallbackResult it took
  requested,   \* calls whose request is in Kafka
  spawned,     \* calls for which this process started ai_worker_task
  jobs,        \* calls for which a callback is stored
  unsure,      \* history: a send to Kafka arrived and raised nevertheless
  rules,       \* RuleLoader._rules of each engine
  agents,      \* AgentPool._agents of each engine
  nodes,       \* what the node registry of the scheduler says
  status,      \* OfflineHandler._last_status
  stale,       \* whether the last check is 5 s old
  kafka,       \* producer.is_kafka_active, settled at start-up
  importable,  \* whether ai_worker can be imported
  fallback     \* _FALLBACK_ACTION

callVars == <<call, requested, spawned, jobs, unsure>>
engines  == <<rules, agents>>
offline  == <<nodes, status, stale>>
settings == <<kafka, importable, fallback>>
vars     == <<callVars, engines, offline, settings>>

Engines  == {"api", "shared"}
Views    == {"absent", "none_alive", "full", "free"}
Statuses == {"online", "overloaded", "offline"}
Stages   == {"new", "submit", "schedule", "notify", "done"}
Answers  == {"none", "queued", "direct", "fallback", "token", "error"}

\* AgentInfo, as the pool must keep it: never more calls than max_calls.
Info == {info \in [available : BOOLEAN, max : 0 .. MaxSlots,
                   active : 0 .. MaxSlots, skilled : BOOLEAN] :
           info.active <= info.max}

\* AgentPool._agents: those who are registered.
Pool == UNION {[registered -> Info] : registered \in SUBSET Agents}

Init ==
  /\ call = [c \in Calls |-> [door |-> "none", stage |-> "new",
                              priority |-> 0, answer |-> "none",
                              fallback |-> "none"]]
  /\ requested = {} /\ spawned = {} /\ jobs = {} /\ unsure = {}
  /\ \E file \in Files :
       rules = [e \in Engines |-> IF e = "shared" THEN file ELSE <<>>]
  /\ agents = [e \in Engines |-> <<>>]
  /\ nodes \in Views
  /\ status = "online" /\ stale = TRUE
  /\ kafka \in IF "kafka" \in Faults THEN BOOLEAN ELSE {TRUE}
  /\ importable \in IF "import" \in Faults THEN BOOLEAN ELSE {TRUE}
  /\ fallback \in Fallbacks

-----------------------------------------------------------------------------
(* AgentPool *)

Free(info) == IF info.active < info.max THEN info.max - info.active ELSE 0

Suited(e) ==
  {a \in DOMAIN agents[e] : agents[e][a].available /\ agents[e][a].skilled
                            /\ Free(agents[e][a]) > 0}

\* find_best; max takes the first of the best in the order they registered.
Best(e) ==
  {a \in Suited(e) :
     \A b \in Suited(e) : Free(agents[e][b]) <= Free(agents[e][a])}

\* find_best and book in route: nobody gets between them.
Book(e, skill) ==
  IF skill /\ Best(e) # {}
  THEN \E a \in Best(e) : agents' = [agents EXCEPT ![e][a].active = @ + 1]
  ELSE UNCHANGED agents

Fresh(offer) == [available |-> offer.available, max |-> offer.max,
                 active |-> 0, skilled |-> offer.skilled]

\* Mutant: an update keeps the booked slots.
RegisterKeeps(a, offer) ==
  /\ agents' = [agents EXCEPT !["api"] =
       [b \in DOMAIN agents["api"] \cup {a} |->
          IF b # a THEN agents["api"][b]
          ELSE IF a \in DOMAIN agents["api"]
          THEN [Fresh(offer) EXCEPT !.active = agents["api"][a].active]
          ELSE Fresh(offer)]]
  /\ UNCHANGED <<callVars, rules, offline, settings>>

\* POST /routing/agents: whatever was known of the agent is overwritten.
Register(a, offer) ==
  /\ agents' = [agents EXCEPT !["api"] =
       [b \in DOMAIN agents["api"] \cup {a} |->
          IF b = a THEN Fresh(offer) ELSE agents["api"][b]]]
  /\ UNCHANGED <<callVars, rules, offline, settings>>

\* DELETE /routing/agents/{agent_id}.
Deregister(a) ==
  /\ a \in DOMAIN agents["api"]
  /\ agents' = [agents EXCEPT !["api"] =
       [b \in DOMAIN agents["api"] \ {a} |-> agents["api"][b]]]
  /\ UNCHANGED <<callVars, rules, offline, settings>>

\* POST /routing/agents/{agent_id}/release: a slot that is not booked cannot
\* be released.
Release(a) ==
  /\ a \in DOMAIN agents["api"]
  /\ agents["api"][a].active > 0
  /\ agents' = [agents EXCEPT !["api"][a].active = @ - 1]
  /\ UNCHANGED <<callVars, rules, offline, settings>>

\* POST /routing/decision routes, and books, like a call.
Decision(caller, priority, now) ==
  LET decision == Decide(rules["api"],
                         [caller |-> caller, priority |-> priority], now)
  IN  /\ Book("api", decision.skill)
      /\ UNCHANGED <<callVars, rules, offline, settings>>

\* POST /routing/rules/reload: a file that cannot be parsed keeps the rules
\* (no change), one that is missing leaves none.
Reload(file) ==
  /\ rules' = [rules EXCEPT !["api"] = file]
  /\ UNCHANGED <<callVars, agents, offline, settings>>

-----------------------------------------------------------------------------
(* OfflineHandler.check_status *)

Evaluate ==
  CASE nodes = "none_alive" -> "offline"
    [] nodes = "full"       -> "overloaded"
    [] OTHER                -> "online"

Check ==
  /\ status' = IF stale THEN Evaluate ELSE status
  /\ stale' = FALSE
  /\ UNCHANGED nodes

StatusAges ==
  /\ ~stale /\ stale' = TRUE
  /\ UNCHANGED <<callVars, engines, nodes, status, settings>>

\* The scheduler's registry: nodes fill up, die and come back.
NodesChange(view) ==
  /\ nodes # "absent" /\ view \notin {"absent", nodes}
  /\ nodes' = view
  /\ UNCHANGED <<callVars, engines, status, stale, settings>>

-----------------------------------------------------------------------------
(* The doors *)

Suspend(c, stage) == call' = [call EXCEPT ![c].stage = stage]

Answer(c, answer) ==
  call' = [call EXCEPT ![c].stage = "done", ![c].answer = answer]

\* _issue_token for a call that was turned away: it may raise.
AnswerWithToken(c) ==
  \/ Answer(c, "fallback")
  \/ "token" \in Faults /\ Answer(c, "error")

\* Mutant: the placeholder 0 that submit_call_request returns is taken for None.
AfterSendFalsy(c) ==
  /\ spawned' = IF call[c].door = "browser" /\ importable
                THEN spawned \cup {c} ELSE spawned
  /\ Answer(c, CASE call[c].door = "browser"  -> "error"
                 [] call[c].door = "external" -> "queued"
                 [] call[c].door = "token"    -> "token")

\* submit_call_request returned 0.  The browser's door then reads
\* req.queue_name.
AfterSend(c) ==
  /\ UNCHANGED spawned
  /\ Answer(c, CASE call[c].door = "browser"  -> "error"
                 [] call[c].door = "external" -> "queued"
                 [] call[c].door = "token"    -> "token")

\* Mutant: nothing is started.
AfterNoneIdle(c) ==
  /\ UNCHANGED spawned
  /\ Answer(c, CASE call[c].door = "browser"  -> "error"
                 [] call[c].door = "external" -> "direct"
                 [] call[c].door = "token"    -> "token")

\* It returned None: only the browser's door starts the worker itself, and
\* reads req.queue_name; if there is no worker to import, it answers 503.
AfterNone(c) ==
  /\ spawned' = IF call[c].door = "browser" /\ importable
                THEN spawned \cup {c} ELSE spawned
  /\ Answer(c, CASE call[c].door = "browser"  -> "error"
                 [] call[c].door = "external" -> "direct"
                 [] call[c].door = "token"    -> "token")

Sent(c) ==
  /\ call[c].stage = "submit"
  /\ requested' = requested \cup {c}
  /\ AfterSend(c)
  /\ UNCHANGED <<jobs, unsure, engines, offline, settings>>

\* send_and_wait raised; the request may be in Kafka all the same.
SendRaises(c) ==
  /\ "produce" \in Faults
  /\ call[c].stage = "submit"
  /\ \/ UNCHANGED <<requested, unsure>>
     \/ requested' = requested \cup {c} /\ unsure' = unsure \cup {c}
  /\ AfterNone(c)
  /\ UNCHANGED <<jobs, engines, offline, settings>>

\* A door suspends for the first time.
Enter(c, door, stage, priority, action) ==
  call' = [call EXCEPT ![c] = [door |-> door, stage |-> stage,
                               priority |-> priority, answer |-> "none",
                               fallback |-> action]]

\* A door answers at once.
Direct(c, door, priority, answer, action) ==
  call' = [call EXCEPT ![c] = [door |-> door, stage |-> "done",
                               priority |-> priority, answer |-> answer,
                               fallback |-> action]]

\* With Kafka inactive it returns None at once, nothing is suspended.
BrowserSubmit(c, priority) ==
  IF kafka
  THEN Enter(c, "browser", "submit", priority, "none") /\ UNCHANGED spawned
  ELSE /\ spawned' = IF importable THEN spawned \cup {c} ELSE spawned
       /\ Direct(c, "browser", priority, "error", "none")

\* _apply_fallback, when no node is alive: without a worker to import, ai_bot
\* becomes queue; and queue does nothing.
TakeFallback(c, priority) ==
  \/ /\ fallback = "voicemail"
     /\ Enter(c, "browser", "notify", priority, fallback) /\ UNCHANGED spawned
  \/ /\ fallback = "callback"
     /\ Enter(c, "browser", "schedule", priority, fallback)
     /\ UNCHANGED spawned
  \/ \E answer \in {"fallback", "error"} :
       /\ answer = "error" => "token" \in Faults
       /\ \/ /\ fallback = "ai_bot" /\ importable
             /\ spawned' = spawned \cup {c}
             /\ Direct(c, "browser", priority, answer, "ai_bot")
          \/ /\ fallback = "ai_bot" => ~importable
             /\ fallback \in {"queue", "ai_bot"}
             /\ UNCHANGED spawned
             /\ Direct(c, "browser", priority, answer, "queue")

New(c, door) ==
  /\ door \in Doors
  /\ call[c].stage = "new"
  /\ c = CHOOSE d \in Calls : call[d].stage = "new"

Higher(a, b) == IF a < b THEN b ELSE a

\* browser_call_start up to the first await that suspends: what the routing
\* engine decided does not reach the request; it finds no agent to book as long
\* as nobody registers with this engine.
BrowserCall(c, caller, priority, now) ==
  /\ New(c, "browser")
  /\ Book("shared", Decide(rules["shared"],
                           [caller |-> caller, priority |-> priority],
                           now).skill)
  /\ Check
  /\ \/ status' = "offline" /\ TakeFallback(c, priority)
     \/ status' = "overloaded" /\ BrowserSubmit(c, Higher(priority, Overload))
     \/ status' = "online" /\ BrowserSubmit(c, priority)
  /\ UNCHANGED <<requested, jobs, unsure, rules, settings>>

\* get_livekit_token: the rate limiter may refuse; the token comes first.
TokenCall(c) ==
  /\ New(c, "token")
  /\ \/ Direct(c, "token", 0, "error", "none") /\ UNCHANGED spawned
     \/ kafka /\ Enter(c, "token", "submit", 0, "none") /\ UNCHANGED spawned
     \/ ~kafka /\ Direct(c, "token", 0, "token", "none") /\ spawned' = spawned \cup {c}
  /\ UNCHANGED <<requested, jobs, unsure, engines, offline, settings>>

\* IntegrationService.start_call: neither rules nor status are asked.
ExternalCall(c) ==
  /\ New(c, "external")
  /\ \/ kafka /\ Enter(c, "external", "submit", 0, "none")
     \/ ~kafka /\ Direct(c, "external", 0, "direct", "none")
  /\ UNCHANGED <<requested, spawned, jobs, unsure, engines, offline, settings>>

\* _handle_callback: a callback that cannot be stored is logged, and the
\* caller is told of it nevertheless.
StoreCallback(c) ==
  /\ call[c].stage = "schedule"
  /\ \/ jobs' = jobs \cup {c}
     \/ "schedule" \in Faults /\ UNCHANGED jobs
  /\ Suspend(c, "notify")
  /\ UNCHANGED <<requested, spawned, unsure, engines, offline, settings>>

\* Mutant: who could not be notified is not answered either.
NotifiedIfStored(c) ==
  /\ call[c].stage = "notify"
  /\ c \in jobs
  /\ AnswerWithToken(c)
  /\ UNCHANGED <<requested, spawned, jobs, unsure, engines, offline, settings>>

\* _notify_browser came back, sent or not.
Notified(c) ==
  /\ call[c].stage = "notify"
  /\ AnswerWithToken(c)
  /\ UNCHANGED <<requested, spawned, jobs, unsure, engines, offline, settings>>

-----------------------------------------------------------------------------

Arrive ==
  \E c \in Calls :
    \/ \E caller \in Callers, priority \in Priorities, now \in Minutes :
         BrowserCall(c, caller, priority, now)
    \/ TokenCall(c)
    \/ ExternalCall(c)

Resume ==
  \E c \in Calls : Sent(c) \/ SendRaises(c) \/ StoreCallback(c) \/ Notified(c)

Api ==
  \/ \E a \in Agents : Deregister(a) \/ Release(a)
                       \/ \E offer \in Offers : Register(a, offer)
  \/ \E caller \in Callers, priority \in Priorities, now \in Minutes :
       Decision(caller, priority, now)
  \/ \E file \in Files : Reload(file)

Surroundings == StatusAges \/ \E view \in Views : NodesChange(view)

Next == Arrive \/ Resume \/ Api \/ Surroundings

Spec == Init /\ [][Next]_vars

\* The event loop resumes a coroutine when what it awaits is there: the
\* producer and LiveKit's client give up on their own time.
FairSpec == Spec /\ WF_vars(Resume)

-----------------------------------------------------------------------------
(* Properties *)

\* Every variable has its type; in particular no agent of either engine is
\* ever booked beyond his max_calls, however registrations, dry runs, calls
\* and releases follow one another.
TypeOK ==
  /\ call \in [Calls -> [door : Doors \cup {"none"}, stage : Stages,
                        priority : Int, answer : Answers,
                        fallback : Actions \cup {"none"}]]
  /\ requested \subseteq Calls /\ spawned \subseteq Calls
  /\ jobs \subseteq Calls /\ unsure \subseteq Calls
  /\ rules \in [Engines -> Files]
  /\ agents \in [Engines -> Pool]
  /\ nodes \in Views /\ status \in Statuses
  /\ stale \in BOOLEAN /\ kafka \in BOOLEAN /\ importable \in BOOLEAN
  /\ fallback \in Fallbacks

\* A call is taken care of in one way at most: it is in Kafka, or a worker was
\* started for it, or a callback is stored.  Only a send to Kafka that raised
\* although it arrived may double it.
OneTreatment ==
  /\ requested \cap spawned \subseteq unsure
  /\ jobs \cap (requested \cup spawned) = {}

\* What a call at the browser's door gets, whatever the answer: one that is let
\* through is in Kafka or has a worker, unless there is none to import; one
\* that is turned away has the worker its fallback promises or nothing at all,
\* and nobody is called back who was not told so.
BrowserCallIsTaken ==
  \A c \in Calls : call[c].door = "browser" /\ call[c].stage = "done" =>
    /\ call[c].fallback = "none" /\ importable => c \in requested \cup spawned
    /\ call[c].fallback = "ai_bot" => c \in spawned
    /\ call[c].fallback \in {"queue", "voicemail", "callback"} =>
         c \notin requested \cup spawned
    /\ c \in jobs => call[c].fallback = "callback"

\* Whoever comes to a door gets an answer.
EveryoneIsAnswered ==
  \A c \in Calls : call[c].stage # "new" ~> call[c].stage = "done"

-----------------------------------------------------------------------------
(* What the docs and comments of the repository say; the code does not do  *)
(* it, and the README says where TLC shows each violated.                  *)

\* browser/router.py:229, "Failed to start browser call": a call whose door
\* answers with an error was not started.
FailedMeansNotTaken ==
  \A c \in Calls :
    call[c].door = "browser" /\ call[c].answer = "error" =>
      c \notin requested \cup spawned

\* offline/handler.py:197, "All nodes offline -- call queued in Kafka".
OfflineIsQueued ==
  \A c \in Calls :
    call[c].answer = "fallback" /\ call[c].fallback = "queue" => c \in requested

\* routing/engine.py:185, "Enrich a CallRequest with routing metadata": the
\* request of a call has the priority its rule gives it, or a higher one.
RuleReachesTheRequest ==
  [][\A c \in Calls, caller \in Callers, priority \in Priorities,
        now \in Minutes :
       BrowserCall(c, caller, priority, now) =>
         call'[c].priority >=
           Decide(rules["shared"], [caller |-> caller, priority |-> priority],
                  now).priority]_vars

\* producer.py:167: "Returns None when Kafka is unavailable.  The caller in
\* ai_worker.py detects this and spawns ai_worker_task directly."
NoneMeansSpawned ==
  \A c \in Calls :
    /\ call[c].door = "token" /\ call[c].answer = "token"
    /\ c \notin requested
    => c \in spawned

\* integration/service.py: "Kafka unavailable -- direct spawn handled by
\* caller (SIP bridge)".
DirectMeansSpawned ==
  \A c \in Calls : call[c].answer = "direct" => c \in spawned

\* routing/api.py:185: "Does NOT book any agent -- use for testing rule
\* logic."  Only a call books.
DryRunsBookNobody ==
  [][\A e \in Engines : \A a \in DOMAIN agents[e] :
       a \in DOMAIN agents'[e] /\ agents'[e][a].active > agents[e][a].active
         => call' # call]_vars

\* routing/singleton.py:21: browser, integration and the routing API use the
\* same engine.
OneSetOfRules == rules["api"] = rules["shared"]
=============================================================================
