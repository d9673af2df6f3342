----------------------- MODULE OutboundCallbackProofs -----------------------
(***************************************************************************)
(* Proofs about OutboundCallback for any callbacks, agents and number of   *)
(* faults.  The argument: attempts is 1 exactly when a row has left        *)
(* "pending"; only the monitor's matching takes it out, from a list that   *)
(* no other action makes stale; and whatever dashboards know of a callback *)
(* they know of one that has been offered, which stays with its agent.     *)
(***************************************************************************)
EXTENDS OutboundCallback, FiniteSetTheorems, TLAPS

Offered(o) == attempts[o] = 1

\* A row is offered once, when it stops being pending.
Counted(o) ==
  /\ attempts[o] \in {0, 1}
  /\ Offered(o) <=> status[o] \notin {"none", "pending"}
  /\ o \in inserting => status[o] = "none"

\* The rows the monitor will offer are still pending when it does.
Listed(o) ==
  /\ monitor.at \in {"match", "assign"} /\ o \in monitor.todo =>
       status[o] = "pending"
  /\ monitor.at = "assign" /\ o = monitor.callback =>
       status[o] = "pending" /\ o \notin monitor.todo
  /\ monitor.at \in {"stuck", "orphans", "timeout", "mail"}
       /\ o \in monitor.todo => Offered(o)
  /\ monitor.at \in {"timeout", "mail"} /\ o = monitor.callback => Offered(o)

\* Dashboards know of offered callbacks only, and accept their own.
Known(o) ==
  \A a \in Agents :
    /\ <<o, a>> \in events \/ popup[a] = o \/ screen[a] = o => Offered(o)
    /\ request[a] # NoRequest /\ request[a].callback = o => Offered(o)
    /\ Engaged(a, o) => assigned[o] = a

RowInv(o) == Counted(o) /\ Listed(o) /\ Known(o)
IInv == TypeOK /\ \A o \in Callbacks : RowInv(o)

-----------------------------------------------------------------------------

\* Nothing has been offered yet.
LEMMA InitInv == Init => IInv
<1> SUFFICES ASSUME Init PROVE IInv
  OBVIOUS
<1>1. TypeOK
  BY CallbackAssumption DEF Init, TypeOK, Statuses, AgentStates, Monitors,
                            Requests, Screens
<1>2. ASSUME NEW o \in Callbacks PROVE RowInv(o)
  BY <1>2, CallbackAssumption
     DEF Init, RowInv, Counted, Listed, Known, Offered, Engaged, NoRequest
<1> QED
  BY <1>1, <1>2 DEF IInv

\* A callback's books change with its row, what the monitor knows of it with
\* the monitor, and what dashboards know of it with the dashboards.
LEMMA CountedFrame ==
  ASSUME NEW p \in Callbacks, Counted(p),
         UNCHANGED <<status, attempts, inserting>>
  PROVE  Counted(p)'
  BY DEF Counted, Offered

LEMMA ListedFrame ==
  ASSUME NEW p \in Callbacks, Listed(p),
         UNCHANGED <<status, attempts, monitor>>
  PROVE  Listed(p)'
  BY DEF Listed, Offered

LEMMA KnownFrame ==
  ASSUME NEW p \in Callbacks, Known(p),
         UNCHANGED <<attempts, assigned, events, popup, screen, request>>
  PROVE  Known(p)'
  BY DEF Known, Offered, Engaged

\* A request that is served is about a callback.
LEMMA ServedIsReal ==
  ASSUME IInv, NEW a \in Agents, request[a].at # "none"
  PROVE  request[a].callback \in Callbacks /\ request[a] # NoRequest
<1>1. request[a] # NoRequest /\ request[a] \in Requests
  BY DEF NoRequest, IInv, TypeOK
<1> QED
  BY <1>1 DEF Requests

\* Every action keeps the books of every callback.
LEMMA StepInv == IInv /\ [Next]_vars => IInv'
<1> SUFFICES ASSUME IInv, [Next]_vars PROVE IInv'
  OBVIOUS
<1>0. TypeOK /\ \A o \in Callbacks : RowInv(o)
  BY DEF IInv

<1>1. ASSUME NEW o \in Callbacks,
             \/ Abandon(o) \/ Insert(o) \/ Age(o) \/ FindAgent(o)
             \/ RecheckStuck(o) \/ CloseOrphan(o)
      PROVE  IInv'

  <2>1. CASE Abandon(o)
    <3>1. TypeOK'
      BY <2>1, <1>0
         DEF TypeOK, Abandon, agentRows, dashboard, history
    <3>2. ASSUME NEW p \in Callbacks PROVE RowInv(p)'
      <4>1. Counted(p)'
        BY <2>1, <3>2, <1>0
           DEF TypeOK, Abandon, agentRows, dashboard, history, RowInv,
               Counted, Offered
      <4>2. Listed(p)'
        BY <2>1, <3>2, <1>0, ListedFrame
           DEF RowInv, Abandon, agentRows, dashboard, history
      <4>3. Known(p)'
        BY <2>1, <3>2, <1>0, KnownFrame
           DEF RowInv, Abandon, agentRows, dashboard, history
      <4> QED
        BY <4>1, <4>2, <4>3 DEF RowInv
    <3> QED
      BY <3>1, <3>2 DEF IInv

  <2>2. CASE Insert(o)
    <3>1. TypeOK'
      BY <2>2, <1>0
         DEF TypeOK, Insert, agentRows, dashboard, history, Statuses, Final
    <3>2. ASSUME NEW p \in Callbacks PROVE RowInv(p)'
      <4>1. Counted(p)'
        BY <2>2, <3>2, <1>0
           DEF TypeOK, Insert, agentRows, dashboard, history, RowInv, Counted,
               Offered
      <4>2. Listed(p)'
        BY <2>2, <3>2, <1>0
           DEF TypeOK, Insert, agentRows, dashboard, history, RowInv, Counted,
               Listed, Offered
      <4>3. Known(p)'
        BY <2>2, <3>2, <1>0, KnownFrame
           DEF RowInv, Insert, agentRows, dashboard, history
      <4> QED
        BY <4>1, <4>2, <4>3 DEF RowInv
    <3> QED
      BY <3>1, <3>2 DEF IInv

  <2>3. CASE Age(o)
    <3>1. TypeOK'
      BY <2>3, <1>0
         DEF TypeOK, Age, agentRows, dashboard, history
    <3>2. ASSUME NEW p \in Callbacks PROVE RowInv(p)'
      <4>1. Counted(p)' /\ Listed(p)'
        BY <2>3, <3>2, <1>0, CountedFrame, ListedFrame
           DEF RowInv, Age, agentRows, dashboard, history
      <4>2. Known(p)'
        BY <2>3, <3>2, <1>0, KnownFrame
           DEF RowInv, Age, agentRows, dashboard, history
      <4> QED
        BY <4>1, <4>2 DEF RowInv
    <3> QED
      BY <3>1, <3>2 DEF IInv

  <2>4. CASE FindAgent(o)
    <3>1. TypeOK'
      BY <2>4, <1>0, CallbackAssumption
         DEF TypeOK, FindAgent, rows, agentRows, dashboard, history,
             NextAgents, Monitors
    <3>2. ASSUME NEW p \in Callbacks PROVE RowInv(p)'
      <4>1. Counted(p)'
        BY <2>4, <3>2, <1>0, CountedFrame
           DEF RowInv, FindAgent, rows, agentRows, dashboard, history
      <4>2. Listed(p)'
        BY <2>4, <3>2, <1>0
           DEF TypeOK, FindAgent, rows, agentRows, dashboard, history,
               NextAgents, Monitors, RowInv, Counted, Listed, Offered
      <4>3. Known(p)'
        BY <2>4, <3>2, <1>0, KnownFrame
           DEF RowInv, FindAgent, rows, agentRows, dashboard, history
      <4> QED
        BY <4>1, <4>2, <4>3 DEF RowInv
    <3> QED
      BY <3>1, <3>2 DEF IInv

  <2>5. CASE RecheckStuck(o)
    <3>1. TypeOK'
      BY <2>5, <1>0
         DEF TypeOK, RecheckStuck, rows, agentRows, dashboard, history,
             Monitors
    <3>2. ASSUME NEW p \in Callbacks PROVE RowInv(p)'
      <4>1. Counted(p)'
        BY <2>5, <3>2, <1>0, CountedFrame
           DEF RowInv, RecheckStuck, rows, agentRows, dashboard, history
      <4>2. Listed(p)'
        BY <2>5, <3>2, <1>0
           DEF TypeOK, RecheckStuck, rows, agentRows, dashboard, history,
               Monitors, RowInv, Counted, Listed, Offered
      <4>3. Known(p)'
        BY <2>5, <3>2, <1>0, KnownFrame
           DEF RowInv, RecheckStuck, rows, agentRows, dashboard, history
      <4> QED
        BY <4>1, <4>2, <4>3 DEF RowInv
    <3> QED
      BY <3>1, <3>2 DEF IInv

  <2>6. CASE CloseOrphan(o)
    <3>1. TypeOK'
      BY <2>6, <1>0
         DEF TypeOK, CloseOrphan, agentRows, dashboard, history,
             CloseUnanswered, ThenMail,
             Statuses, Final, Monitors
    <3>2. ASSUME NEW p \in Callbacks PROVE RowInv(p)'
      <4>1. Counted(p)'
        BY <2>6, <3>2, <1>0
           DEF TypeOK, CloseOrphan, agentRows, dashboard, history,
               CloseUnanswered, ThenMail,
               RowInv, Counted, Offered, Listed
      <4>2. Listed(p)'
        BY <2>6, <3>2, <1>0
           DEF TypeOK, CloseOrphan, agentRows, dashboard, history,
               CloseUnanswered, ThenMail,
               Monitors, RowInv, Counted, Listed, Offered
      <4>3. Known(p)'
        BY <2>6, <3>2, <1>0, KnownFrame
           DEF RowInv, CloseOrphan, agentRows, dashboard, history,
               CloseUnanswered, ThenMail
      <4> QED
        BY <4>1, <4>2, <4>3 DEF RowInv
    <3> QED
      BY <3>1, <3>2 DEF IInv

  <2> QED
    BY <1>1, <2>1, <2>2, <2>3, <2>4, <2>5, <2>6

<1>2. ASSUME NEW a \in Agents,
             \/ GoOnline(a) \/ GoOffline(a) \/ CloseTab(a)
             \/ TakeInbound(a) \/ EndCall(a) \/ Resume(a)
             \/ SnoozeEnds(a) \/ MarkInProgress(a) \/ EnterRoom(a)
             \/ IgnoreOutbounds(a) \/ MarkCompleted(a) \/ MarkNoAnswer(a)
             \/ SetFree(a) \/ ReleaseAgent(a) \/ MailCaller(a)
      PROVE  IInv'

  <2>1. CASE GoOnline(a)
    <3>0. Cardinality({b \in Agents : state[b] \notin {"none", "offline"}}) \in Nat
      BY CallbackAssumption, FS_Subset, FS_CardinalityType
    <3>1. TypeOK'
      BY <2>1, <3>0, <1>0, CallbackAssumption
         DEF TypeOK, GoOnline, rows, history, SetState, Show, AgentStates,
             Screens
    <3>2. ASSUME NEW p \in Callbacks PROVE RowInv(p)'
      <4>1. Counted(p)' /\ Listed(p)'
        BY <2>1, <3>2, <1>0, CountedFrame, ListedFrame
           DEF RowInv, GoOnline, rows, history, SetState, Show
      <4>2. Known(p)'
        BY <2>1, <3>2, <1>0, CallbackAssumption
           DEF TypeOK, GoOnline, rows, history, SetState, Show, RowInv, Known,
               Offered, Engaged
      <4> QED
        BY <4>1, <4>2 DEF RowInv
    <3> QED
      BY <3>1, <3>2 DEF IInv

  <2>2. CASE GoOffline(a)
    <3>1. TypeOK'
      BY <2>2, <1>0, CallbackAssumption
         DEF TypeOK, GoOffline, rows, history, SetState, Show, AgentStates,
             Screens
    <3>2. ASSUME NEW p \in Callbacks PROVE RowInv(p)'
      <4>1. Counted(p)' /\ Listed(p)'
        BY <2>2, <3>2, <1>0, CountedFrame, ListedFrame
           DEF RowInv, GoOffline, rows, history, SetState, Show
      <4>2. Known(p)'
        BY <2>2, <3>2, <1>0, CallbackAssumption
           DEF TypeOK, GoOffline, rows, history, SetState, Show, RowInv,
               Known, Offered, Engaged, NoRequest
      <4> QED
        BY <4>1, <4>2 DEF RowInv
    <3> QED
      BY <3>1, <3>2 DEF IInv

  <2>3. CASE CloseTab(a)
    <3>1. TypeOK'
      BY <2>3, <1>0, CallbackAssumption
         DEF TypeOK, CloseTab, rows, agentRows, history, Show, Screens
    <3>2. ASSUME NEW p \in Callbacks PROVE RowInv(p)'
      <4>1. Counted(p)' /\ Listed(p)'
        BY <2>3, <3>2, <1>0, CountedFrame, ListedFrame
           DEF RowInv, CloseTab, rows, agentRows, history, Show
      <4>2. Known(p)'
        BY <2>3, <3>2, <1>0, CallbackAssumption
           DEF TypeOK, CloseTab, rows, agentRows, history, Show, RowInv,
               Known, Offered, Engaged, NoRequest
      <4> QED
        BY <4>1, <4>2 DEF RowInv
    <3> QED
      BY <3>1, <3>2 DEF IInv

  <2>4. CASE TakeInbound(a)
    <3>1. TypeOK'
      BY <2>4, <1>0, CallbackAssumption
         DEF TypeOK, TakeInbound, rows, history, SetState, Show, AgentStates,
             Screens
    <3>2. ASSUME NEW p \in Callbacks PROVE RowInv(p)'
      <4>1. Counted(p)' /\ Listed(p)'
        BY <2>4, <3>2, <1>0, CountedFrame, ListedFrame
           DEF RowInv, TakeInbound, rows, history, SetState, Show
      <4>2. Known(p)'
        BY <2>4, <3>2, <1>0, CallbackAssumption
           DEF TypeOK, TakeInbound, rows, history, SetState, Show, RowInv,
               Known, Offered, Engaged
      <4> QED
        BY <4>1, <4>2 DEF RowInv
    <3> QED
      BY <3>1, <3>2 DEF IInv

  <2>5. CASE EndCall(a)
    <3>1. TypeOK'
      BY <2>5, <1>0, CallbackAssumption
         DEF TypeOK, EndCall, rows, history, SetState, Show, AgentStates,
             Screens
    <3>2. ASSUME NEW p \in Callbacks PROVE RowInv(p)'
      <4>1. Counted(p)' /\ Listed(p)'
        BY <2>5, <3>2, <1>0, CountedFrame, ListedFrame
           DEF RowInv, EndCall, rows, history, SetState, Show
      <4>2. Known(p)'
        BY <2>5, <3>2, <1>0, CallbackAssumption
           DEF TypeOK, EndCall, rows, history, SetState, Show, RowInv, Known,
               Offered, Engaged
      <4> QED
        BY <4>1, <4>2 DEF RowInv
    <3> QED
      BY <3>1, <3>2 DEF IInv

  <2>6. CASE Resume(a)
    <3>1. TypeOK'
      BY <2>6, <1>0
         DEF TypeOK, Resume, rows, dashboard, history, SetState, AgentStates
    <3>2. ASSUME NEW p \in Callbacks PROVE RowInv(p)'
      <4>1. Counted(p)' /\ Listed(p)'
        BY <2>6, <3>2, <1>0, CountedFrame, ListedFrame
           DEF RowInv, Resume, rows, dashboard, history, SetState
      <4>2. Known(p)'
        BY <2>6, <3>2, <1>0, KnownFrame
           DEF RowInv, Resume, rows, dashboard, history, SetState
      <4> QED
        BY <4>1, <4>2 DEF RowInv
    <3> QED
      BY <3>1, <3>2 DEF IInv

  <2>7. CASE SnoozeEnds(a)
    <3>1. TypeOK'
      BY <2>7, <1>0
         DEF TypeOK, SnoozeEnds, rows, dashboard, history
    <3>2. ASSUME NEW p \in Callbacks PROVE RowInv(p)'
      <4>1. Counted(p)' /\ Listed(p)'
        BY <2>7, <3>2, <1>0, CountedFrame, ListedFrame
           DEF RowInv, SnoozeEnds, rows, dashboard, history
      <4>2. Known(p)'
        BY <2>7, <3>2, <1>0, KnownFrame
           DEF RowInv, SnoozeEnds, rows, dashboard, history
      <4> QED
        BY <4>1, <4>2 DEF RowInv
    <3> QED
      BY <3>1, <3>2 DEF IInv

  <2>8. CASE MarkInProgress(a)
    <3>0. /\ request[a].callback \in Callbacks
         /\ request[a] # NoRequest
         /\ assigned[request[a].callback] = a
      <4>1. request[a].callback \in Callbacks /\ request[a] # NoRequest
        BY <2>8, ServedIsReal DEF MarkInProgress, Serving
      <4> QED
        BY <2>8, <4>1, <1>0 DEF MarkInProgress, Serving, RowInv, Known, Engaged
    <3>1. TypeOK'
      BY <2>8, <3>0, <1>0
         DEF TypeOK, MarkInProgress, agentRows, history, Serve, Serving,
             Statuses, Final, Requests, NoRequest
    <3>2. ASSUME NEW p \in Callbacks PROVE RowInv(p)'
      <4>1. Counted(p)'
        BY <2>8, <3>2, <1>0, <3>0
           DEF TypeOK, MarkInProgress, agentRows, history, Serve, Serving,
               RowInv, Counted, Offered, Known
      <4>2. Listed(p)'
        BY <2>8, <3>2, <1>0, <3>0
           DEF TypeOK, MarkInProgress, agentRows, history, Serve, Serving,
               RowInv, Counted, Listed, Offered, Known
      <4>3. Known(p)'
        BY <2>8, <3>2, <1>0, <3>0
           DEF TypeOK, MarkInProgress, agentRows, history, Serve, Serving,
               RowInv, Known, Offered, Engaged, NoRequest
      <4> QED
        BY <4>1, <4>2, <4>3 DEF RowInv
    <3> QED
      BY <3>1, <3>2 DEF IInv

  <2>9. CASE EnterRoom(a)
    <3>0. /\ request[a].callback \in Callbacks
         /\ request[a] # NoRequest
      BY <2>9, ServedIsReal DEF EnterRoom, Serving
    <3>1. TypeOK'
      BY <2>9, <3>0, <1>0, CallbackAssumption
         DEF TypeOK, EnterRoom, rows, SetState, Serving, Served, ClosePopup,
             AgentStates, Requests, NoRequest, Screens
    <3>2. ASSUME NEW p \in Callbacks PROVE RowInv(p)'
      <4>1. Counted(p)' /\ Listed(p)'
        BY <2>9, <3>2, <1>0, CountedFrame, ListedFrame
           DEF RowInv, EnterRoom, rows, SetState, Served, ClosePopup
      <4>2. Known(p)'
        BY <2>9, <3>2, <1>0, <3>0, CallbackAssumption
           DEF TypeOK, EnterRoom, rows, SetState, Serving, Served, ClosePopup,
               RowInv, Known, Offered, Engaged, NoRequest
      <4> QED
        BY <4>1, <4>2 DEF RowInv
    <3> QED
      BY <3>1, <3>2 DEF IInv

  <2>10. CASE IgnoreOutbounds(a)
    <3>1. TypeOK'
      BY <2>10, <1>0, CallbackAssumption
         DEF TypeOK, IgnoreOutbounds, rows, history, SetState, Serving,
             Served, ClosePopup, AgentStates, Requests, NoRequest
    <3>2. ASSUME NEW p \in Callbacks PROVE RowInv(p)'
      <4>1. Counted(p)' /\ Listed(p)'
        BY <2>10, <3>2, <1>0, CountedFrame, ListedFrame
           DEF RowInv, IgnoreOutbounds, rows, history, SetState, Served,
               ClosePopup
      <4>2. Known(p)'
        BY <2>10, <3>2, <1>0, CallbackAssumption
           DEF TypeOK, IgnoreOutbounds, rows, history, SetState, Serving,
               Served, ClosePopup, RowInv, Known, Offered, Engaged, NoRequest
      <4> QED
        BY <4>1, <4>2 DEF RowInv
    <3> QED
      BY <3>1, <3>2 DEF IInv

  <2>11. CASE MarkCompleted(a)
    <3>0. /\ request[a].callback \in Callbacks
         /\ request[a] # NoRequest
      BY <2>11, ServedIsReal DEF MarkCompleted, Serving
    <3>1. TypeOK'
      BY <2>11, <3>0, <1>0
         DEF TypeOK, MarkCompleted, agentRows, history, Serve, Serving,
             Statuses, Final, Requests, NoRequest
    <3>2. ASSUME NEW p \in Callbacks PROVE RowInv(p)'
      <4>1. Counted(p)'
        BY <2>11, <3>2, <1>0, <3>0
           DEF TypeOK, MarkCompleted, agentRows, history, Serve, Serving,
               RowInv, Counted, Offered, Known
      <4>2. Listed(p)'
        BY <2>11, <3>2, <1>0, <3>0
           DEF TypeOK, MarkCompleted, agentRows, history, Serve, Serving,
               RowInv, Counted, Listed, Offered, Known
      <4>3. Known(p)'
        BY <2>11, <3>2, <1>0, <3>0
           DEF TypeOK, MarkCompleted, agentRows, history, Serve, Serving,
               RowInv, Known, Offered, Engaged, NoRequest
      <4> QED
        BY <4>1, <4>2, <4>3 DEF RowInv
    <3> QED
      BY <3>1, <3>2 DEF IInv

  <2>12. CASE MarkNoAnswer(a)
    <3>0. /\ request[a].callback \in Callbacks
         /\ request[a] # NoRequest
      BY <2>12, ServedIsReal DEF MarkNoAnswer, Serving
    <3>1. TypeOK'
      BY <2>12, <3>0, <1>0
         DEF TypeOK, MarkNoAnswer, agentRows, history, Serve, Serving,
             CloseUnanswered,
             Statuses, Final, Requests, NoRequest
    <3>2. ASSUME NEW p \in Callbacks PROVE RowInv(p)'
      <4>1. Counted(p)'
        BY <2>12, <3>2, <1>0, <3>0
           DEF TypeOK, MarkNoAnswer, agentRows, history, Serve, Serving,
               CloseUnanswered, RowInv, Counted, Offered, Known
      <4>2. Listed(p)'
        BY <2>12, <3>2, <1>0, <3>0
           DEF TypeOK, MarkNoAnswer, agentRows, history, Serve, Serving,
               CloseUnanswered, RowInv, Counted, Listed, Offered, Known
      <4>3. Known(p)'
        BY <2>12, <3>2, <1>0, <3>0
           DEF TypeOK, MarkNoAnswer, agentRows, history, Serve, Serving,
               CloseUnanswered, RowInv, Known, Offered, Engaged, NoRequest
      <4> QED
        BY <4>1, <4>2, <4>3 DEF RowInv
    <3> QED
      BY <3>1, <3>2 DEF IInv

  <2>13. CASE SetFree(a)
    <3>1. TypeOK'
      BY <2>13, <1>0, CallbackAssumption
         DEF TypeOK, SetFree, rows, history, SetState, Serving, Leave, Served,
             AgentStates, Requests, NoRequest, Screens
    <3>2. ASSUME NEW p \in Callbacks PROVE RowInv(p)'
      <4>1. Counted(p)' /\ Listed(p)'
        BY <2>13, <3>2, <1>0, CountedFrame, ListedFrame
           DEF RowInv, SetFree, rows, history, SetState, Leave, Served
      <4>2. Known(p)'
        BY <2>13, <3>2, <1>0, CallbackAssumption
           DEF TypeOK, SetFree, rows, history, SetState, Serving, Leave,
               Served, RowInv, Known, Offered, Engaged, NoRequest
      <4> QED
        BY <4>1, <4>2 DEF RowInv
    <3> QED
      BY <3>1, <3>2 DEF IInv

  <2>14. CASE ReleaseAgent(a)
    <3>0. /\ request[a].callback \in Callbacks
         /\ request[a] # NoRequest
      BY <2>14, ServedIsReal DEF ReleaseAgent, Serving
    <3>1. TypeOK'
      BY <2>14, <3>0, <1>0
         DEF TypeOK, ReleaseAgent, rows, history, SetState, Serve, Serving,
             AgentStates, Requests, NoRequest
    <3>2. ASSUME NEW p \in Callbacks PROVE RowInv(p)'
      <4>1. Counted(p)' /\ Listed(p)'
        BY <2>14, <3>2, <1>0, CountedFrame, ListedFrame
           DEF RowInv, ReleaseAgent, rows, history, SetState
      <4>2. Known(p)'
        BY <2>14, <3>2, <1>0, <3>0
           DEF TypeOK, ReleaseAgent, rows, history, SetState, Serve, Serving,
               RowInv, Known, Offered, Engaged, NoRequest
      <4> QED
        BY <4>1, <4>2 DEF RowInv
    <3> QED
      BY <3>1, <3>2 DEF IInv

  <2>15. CASE MailCaller(a)
    <3>0. request[a].callback \in Callbacks
      BY <2>15, ServedIsReal DEF MailCaller, Serving
    <3>1. TypeOK'
      BY <2>15, <3>0, <1>0, CallbackAssumption
         DEF TypeOK, MailCaller, rows, agentRows, Serving, Leave, Served,
             Requests, NoRequest, Screens
    <3>2. ASSUME NEW p \in Callbacks PROVE RowInv(p)'
      <4>1. Counted(p)' /\ Listed(p)'
        BY <2>15, <3>2, <1>0, CountedFrame, ListedFrame
           DEF RowInv, MailCaller, rows, agentRows, Leave, Served
      <4>2. Known(p)'
        BY <2>15, <3>2, <1>0, CallbackAssumption
           DEF TypeOK, MailCaller, rows, agentRows, Serving, Leave, Served,
               RowInv, Known, Offered, Engaged, NoRequest
      <4> QED
        BY <4>1, <4>2 DEF RowInv
    <3> QED
      BY <3>1, <3>2 DEF IInv

  <2> QED
    BY <1>2, <2>1, <2>2, <2>3, <2>4, <2>5, <2>6, <2>7, <2>8, <2>9, <2>10,
       <2>11, <2>12, <2>13, <2>14, <2>15

<1>3. ASSUME NEW a \in Agents, NEW o \in Callbacks,
             \/ ShowPopup(a, o) \/ AcceptHandled(a, o) \/ Accept(a, o)
             \/ Decline(a, o) \/ CallerJoins(a, o)
             \/ CompleteHandled(a, o) \/ Complete(a, o)
             \/ NoAnswerHandled(a, o) \/ NoAnswer(a, o)
      PROVE  IInv'

  <2>1. CASE ShowPopup(a, o)
    <3>1. TypeOK'
      BY <2>1, <1>0, CallbackAssumption
         DEF TypeOK, ShowPopup, rows, agentRows, history
    <3>2. ASSUME NEW p \in Callbacks PROVE RowInv(p)'
      <4>1. Counted(p)' /\ Listed(p)'
        BY <2>1, <3>2, <1>0, CountedFrame, ListedFrame
           DEF RowInv, ShowPopup, rows, agentRows, history
      <4>2. Known(p)'
        BY <2>1, <3>2, <1>0, CallbackAssumption
           DEF TypeOK, ShowPopup, rows, agentRows, history, RowInv, Known,
               Offered, Engaged, NoRequest
      <4> QED
        BY <4>1, <4>2 DEF RowInv
    <3> QED
      BY <3>1, <3>2 DEF IInv

  <2>2. CASE AcceptHandled(a, o)
    <3>1. TypeOK'
      BY <2>2, <1>0, CallbackAssumption
         DEF TypeOK, AcceptHandled, rows, agentRows, history, Show, Popped,
             ClosePopup, Screens
    <3>2. ASSUME NEW p \in Callbacks PROVE RowInv(p)'
      <4>1. Counted(p)' /\ Listed(p)'
        BY <2>2, <3>2, <1>0, CountedFrame, ListedFrame
           DEF RowInv, AcceptHandled, rows, agentRows, history, Show,
               ClosePopup
      <4>2. Known(p)'
        BY <2>2, <3>2, <1>0, CallbackAssumption
           DEF TypeOK, AcceptHandled, rows, agentRows, history, Show, Popped,
               ClosePopup, RowInv, Known, Offered, Engaged, NoRequest
      <4> QED
        BY <4>1, <4>2 DEF RowInv
    <3> QED
      BY <3>1, <3>2 DEF IInv

  <2>3. CASE Accept(a, o)
    <3>1. TypeOK'
      BY <2>3, <1>0
         DEF TypeOK, Accept, rows, agentRows, history, Popped, Serve,
             Requests, NoRequest
    <3>2. ASSUME NEW p \in Callbacks PROVE RowInv(p)'
      <4>1. Counted(p)' /\ Listed(p)'
        BY <2>3, <3>2, <1>0, CountedFrame, ListedFrame
           DEF RowInv, Accept, rows, agentRows, history, Serve
      <4>2. Known(p)'
        BY <2>3, <3>2, <1>0
           DEF TypeOK, Accept, rows, agentRows, history, Popped, Serve,
               RowInv, Known, Offered, Engaged, NoRequest, Counted, Final,
               Statuses
      <4> QED
        BY <4>1, <4>2 DEF RowInv
    <3> QED
      BY <3>1, <3>2 DEF IInv

  <2>4. CASE Decline(a, o)
    <3>1. TypeOK'
      BY <2>4, <1>0
         DEF TypeOK, Decline, agentRows, history, Popped, Serve, Statuses,
             Final, Requests, NoRequest
    <3>2. ASSUME NEW p \in Callbacks PROVE RowInv(p)'
      <4>1. Counted(p)'
        BY <2>4, <3>2, <1>0
           DEF TypeOK, Decline, agentRows, history, Popped, Serve, RowInv,
               Counted, Offered, Known
      <4>2. Listed(p)'
        BY <2>4, <3>2, <1>0
           DEF TypeOK, Decline, agentRows, history, Popped, Serve, RowInv,
               Counted, Listed, Offered, Known
      <4>3. Known(p)'
        BY <2>4, <3>2, <1>0
           DEF TypeOK, Decline, agentRows, history, Popped, Serve, RowInv,
               Known, Offered, Engaged, NoRequest
      <4> QED
        BY <4>1, <4>2, <4>3 DEF RowInv
    <3> QED
      BY <3>1, <3>2 DEF IInv

  <2>5. CASE CallerJoins(a, o)
    <3>1. TypeOK'
      BY <2>5, <1>0
         DEF TypeOK, CallerJoins, rows, agentRows, dashboard
    <3>2. ASSUME NEW p \in Callbacks PROVE RowInv(p)'
      <4>1. Counted(p)' /\ Listed(p)'
        BY <2>5, <3>2, <1>0, CountedFrame, ListedFrame
           DEF RowInv, CallerJoins, rows, agentRows, dashboard
      <4>2. Known(p)'
        BY <2>5, <3>2, <1>0, KnownFrame
           DEF RowInv, CallerJoins, rows, agentRows, dashboard
      <4> QED
        BY <4>1, <4>2 DEF RowInv
    <3> QED
      BY <3>1, <3>2 DEF IInv

  <2>6. CASE CompleteHandled(a, o)
    <3>1. TypeOK'
      BY <2>6, <1>0
         DEF TypeOK, CompleteHandled, rows, agentRows, history, Serve,
             Requests, NoRequest
    <3>2. ASSUME NEW p \in Callbacks PROVE RowInv(p)'
      <4>1. Counted(p)' /\ Listed(p)'
        BY <2>6, <3>2, <1>0, CountedFrame, ListedFrame
           DEF RowInv, CompleteHandled, rows, agentRows, history, Serve
      <4>2. Known(p)'
        BY <2>6, <3>2, <1>0
           DEF TypeOK, CompleteHandled, rows, agentRows, history, Serve,
               RowInv, Known, Offered, Engaged, NoRequest
      <4> QED
        BY <4>1, <4>2 DEF RowInv
    <3> QED
      BY <3>1, <3>2 DEF IInv

  <2>7. CASE Complete(a, o)
    <3>1. TypeOK'
      BY <2>7, <1>0
         DEF TypeOK, Complete, rows, agentRows, history, Serve, Requests,
             NoRequest
    <3>2. ASSUME NEW p \in Callbacks PROVE RowInv(p)'
      <4>1. Counted(p)' /\ Listed(p)'
        BY <2>7, <3>2, <1>0, CountedFrame, ListedFrame
           DEF RowInv, Complete, rows, agentRows, history, Serve
      <4>2. Known(p)'
        BY <2>7, <3>2, <1>0
           DEF TypeOK, Complete, rows, agentRows, history, Serve, RowInv,
               Known, Offered, Engaged, NoRequest
      <4> QED
        BY <4>1, <4>2 DEF RowInv
    <3> QED
      BY <3>1, <3>2 DEF IInv

  <2>8. CASE NoAnswerHandled(a, o)
    <3>1. TypeOK'
      BY <2>8, <1>0, CallbackAssumption
         DEF TypeOK, NoAnswerHandled, rows, agentRows, history, Leave, Served,
             Requests, NoRequest, Screens
    <3>2. ASSUME NEW p \in Callbacks PROVE RowInv(p)'
      <4>1. Counted(p)' /\ Listed(p)'
        BY <2>8, <3>2, <1>0, CountedFrame, ListedFrame
           DEF RowInv, NoAnswerHandled, rows, agentRows, history, Leave,
               Served
      <4>2. Known(p)'
        BY <2>8, <3>2, <1>0, CallbackAssumption
           DEF TypeOK, NoAnswerHandled, rows, agentRows, history, Leave,
               Served, RowInv, Known, Offered, Engaged, NoRequest
      <4> QED
        BY <4>1, <4>2 DEF RowInv
    <3> QED
      BY <3>1, <3>2 DEF IInv

  <2>9. CASE NoAnswer(a, o)
    <3>1. TypeOK'
      BY <2>9, <1>0
         DEF TypeOK, NoAnswer, rows, agentRows, history, Serve, Requests,
             NoRequest
    <3>2. ASSUME NEW p \in Callbacks PROVE RowInv(p)'
      <4>1. Counted(p)' /\ Listed(p)'
        BY <2>9, <3>2, <1>0, CountedFrame, ListedFrame
           DEF RowInv, NoAnswer, rows, agentRows, history, Serve
      <4>2. Known(p)'
        BY <2>9, <3>2, <1>0
           DEF TypeOK, NoAnswer, rows, agentRows, history, Serve, RowInv,
               Known, Offered, Engaged, NoRequest
      <4> QED
        BY <4>1, <4>2 DEF RowInv
    <3> QED
      BY <3>1, <3>2 DEF IInv

  <2> QED
    BY <1>3, <2>1, <2>2, <2>3, <2>4, <2>5, <2>6, <2>7, <2>8, <2>9

<1>4. CASE StartPass
  <2>1. TypeOK'
    BY <1>4, <1>0
       DEF TypeOK, StartPass, rows, agentRows, dashboard, history, Pending,
           Monitors
  <2>2. ASSUME NEW p \in Callbacks PROVE RowInv(p)'
    <3>1. Counted(p)'
      BY <1>4, <2>2, <1>0, CountedFrame
         DEF RowInv, StartPass, rows, agentRows, dashboard, history
    <3>2. Listed(p)'
      BY <1>4, <2>2, <1>0
         DEF TypeOK, StartPass, rows, agentRows, dashboard, history, Pending,
             Monitors, RowInv, Counted, Listed, Offered
    <3>3. Known(p)'
      BY <1>4, <2>2, <1>0, KnownFrame
         DEF RowInv, StartPass, rows, agentRows, dashboard, history
    <3> QED
      BY <3>1, <3>2, <3>3 DEF RowInv
  <2> QED
    BY <2>1, <2>2 DEF IInv

<1>5. CASE AssignOutbound
  <2>1. TypeOK'
    BY <1>5, <1>0, CallbackAssumption
       DEF TypeOK, AssignOutbound, agentRows, dashboard, history, Statuses,
           Final, Monitors
  <2>2. ASSUME NEW p \in Callbacks PROVE RowInv(p)'
    <3>1. Counted(p)'
      BY <1>5, <2>2, <1>0
         DEF TypeOK, AssignOutbound, agentRows, dashboard, history, RowInv,
             Counted, Offered, Listed, Monitors
    <3>2. Listed(p)'
      BY <1>5, <2>2, <1>0
         DEF TypeOK, AssignOutbound, agentRows, dashboard, history, Monitors,
             RowInv, Counted, Listed, Offered
    <3>3. Known(p)'
      <4>1. CASE p = monitor.callback
        <5>1. ~Offered(p)
          BY <1>5, <4>1, <2>2, <1>0 DEF AssignOutbound, RowInv, Listed, Counted
        <5>2. ASSUME NEW a \in Agents, Engaged(a, p) PROVE FALSE
          <6>1. request[a].at \in {"mark", "busy"} => request[a] # NoRequest
            BY DEF NoRequest
          <6> QED
            BY <5>1, <5>2, <6>1, <2>2, <1>0 DEF RowInv, Known, Engaged
        <5>3. Offered(p)'
          BY <1>5, <4>1, <5>1, <2>2, <1>0
             DEF AssignOutbound, TypeOK, RowInv, Counted, Offered
        <5> QED
          BY <1>5, <5>2, <5>3 DEF AssignOutbound, dashboard, Known, Engaged
      <4>2. CASE p # monitor.callback
        BY <1>5, <4>2, <2>2, <1>0
           DEF AssignOutbound, dashboard, TypeOK, RowInv, Known, Offered,
               Engaged
      <4> QED
        BY <4>1, <4>2
    <3> QED
      BY <3>1, <3>2, <3>3 DEF RowInv
  <2> QED
    BY <2>1, <2>2 DEF IInv

<1>6. CASE FindStuck
  <2>1. TypeOK'
    BY <1>6, <1>0
       DEF TypeOK, FindStuck, rows, agentRows, dashboard, history, Stuck,
           Monitors
  <2>2. ASSUME NEW p \in Callbacks PROVE RowInv(p)'
    <3>1. Counted(p)'
      BY <1>6, <2>2, <1>0, CountedFrame
         DEF RowInv, FindStuck, rows, agentRows, dashboard, history
    <3>2. Listed(p)'
      BY <1>6, <2>2, <1>0
         DEF TypeOK, FindStuck, rows, agentRows, dashboard, history, Stuck,
             Monitors, RowInv, Counted, Listed, Offered
    <3>3. Known(p)'
      BY <1>6, <2>2, <1>0, KnownFrame
         DEF RowInv, FindStuck, rows, agentRows, dashboard, history
    <3> QED
      BY <3>1, <3>2, <3>3 DEF RowInv
  <2> QED
    BY <2>1, <2>2 DEF IInv

<1>7. CASE TimeOut
  <2>1. TypeOK'
    BY <1>7, <1>0
       DEF TypeOK, TimeOut, agentRows, dashboard, history, CloseUnanswered,
           ThenMail, Statuses,
           Final, Monitors
  <2>2. ASSUME NEW p \in Callbacks PROVE RowInv(p)'
    <3>1. Counted(p)'
      BY <1>7, <2>2, <1>0
         DEF TypeOK, TimeOut, agentRows, dashboard, history, CloseUnanswered,
             ThenMail, RowInv,
             Counted, Offered, Listed
    <3>2. Listed(p)'
      BY <1>7, <2>2, <1>0
         DEF TypeOK, TimeOut, agentRows, dashboard, history, CloseUnanswered,
             ThenMail, Monitors,
             RowInv, Counted, Listed, Offered
    <3>3. Known(p)'
      BY <1>7, <2>2, <1>0, KnownFrame
         DEF RowInv, TimeOut, agentRows, dashboard, history, CloseUnanswered,
             ThenMail
    <3> QED
      BY <3>1, <3>2, <3>3 DEF RowInv
  <2> QED
    BY <2>1, <2>2 DEF IInv

<1>8. CASE FindOrphans
  <2>1. TypeOK'
    BY <1>8, <1>0
       DEF TypeOK, FindOrphans, rows, agentRows, dashboard, history, Orphaned,
           Monitors
  <2>2. ASSUME NEW p \in Callbacks PROVE RowInv(p)'
    <3>1. Counted(p)'
      BY <1>8, <2>2, <1>0, CountedFrame
         DEF RowInv, FindOrphans, rows, agentRows, dashboard, history
    <3>2. Listed(p)'
      BY <1>8, <2>2, <1>0
         DEF TypeOK, FindOrphans, rows, agentRows, dashboard, history,
             Orphaned, Monitors, RowInv, Counted, Listed, Offered
    <3>3. Known(p)'
      BY <1>8, <2>2, <1>0, KnownFrame
         DEF RowInv, FindOrphans, rows, agentRows, dashboard, history
    <3> QED
      BY <3>1, <3>2, <3>3 DEF RowInv
  <2> QED
    BY <2>1, <2>2 DEF IInv

<1>9. CASE EndPass
  <2>1. TypeOK'
    BY <1>9, <1>0
       DEF TypeOK, EndPass, rows, agentRows, dashboard, history, Monitors
  <2>2. ASSUME NEW p \in Callbacks PROVE RowInv(p)'
    <3>1. Counted(p)'
      BY <1>9, <2>2, <1>0, CountedFrame
         DEF RowInv, EndPass, rows, agentRows, dashboard, history
    <3>2. Listed(p)'
      BY <1>9, <2>2, <1>0
         DEF TypeOK, EndPass, rows, agentRows, dashboard, history, Monitors,
             RowInv, Counted, Listed, Offered
    <3>3. Known(p)'
      BY <1>9, <2>2, <1>0, KnownFrame
         DEF RowInv, EndPass, rows, agentRows, dashboard, history
    <3> QED
      BY <3>1, <3>2, <3>3 DEF RowInv
  <2> QED
    BY <2>1, <2>2 DEF IInv

<1>10. CASE PassFails
  <2>1. TypeOK'
    BY <1>10, <1>0, CallbackAssumption
       DEF TypeOK, PassFails, rows, agentRows, dashboard, Monitors
  <2>2. ASSUME NEW p \in Callbacks PROVE RowInv(p)'
    <3>1. Counted(p)'
      BY <1>10, <2>2, <1>0, CountedFrame
         DEF RowInv, PassFails, rows, agentRows, dashboard
    <3>2. Listed(p)'
      BY <1>10, <2>2, <1>0
         DEF TypeOK, PassFails, rows, agentRows, dashboard, Monitors, RowInv,
             Counted, Listed, Offered
    <3>3. Known(p)'
      BY <1>10, <2>2, <1>0, KnownFrame
         DEF RowInv, PassFails, rows, agentRows, dashboard
    <3> QED
      BY <3>1, <3>2, <3>3 DEF RowInv
  <2> QED
    BY <2>1, <2>2 DEF IInv

<1>11. CASE Restart
  <2>1. TypeOK'
    BY <1>11, <1>0, CallbackAssumption
       DEF TypeOK, Restart, agentRows, Monitors, Requests, NoRequest
  <2>2. ASSUME NEW p \in Callbacks PROVE RowInv(p)'
    <3>1. Counted(p)'
      BY <1>11, <2>2, <1>0
         DEF TypeOK, Restart, agentRows, RowInv, Counted, Offered
    <3>2. Listed(p)'
      BY <1>11, <2>2, <1>0
         DEF TypeOK, Restart, agentRows, Monitors, RowInv, Counted, Listed,
             Offered
    <3>3. Known(p)'
      BY <1>11, <2>2, <1>0, CallbackAssumption
         DEF TypeOK, Restart, agentRows, RowInv, Known, Offered, Engaged,
             NoRequest
    <3> QED
      BY <3>1, <3>2, <3>3 DEF RowInv
  <2> QED
    BY <2>1, <2>2 DEF IInv

<1>12. CASE UNCHANGED vars
  <2>1. TypeOK'
    BY <1>12, <1>0 DEF TypeOK, vars, rows, agentRows, dashboard, history
  <2>2. ASSUME NEW p \in Callbacks PROVE RowInv(p)'
    BY <1>12, <1>0, CountedFrame, ListedFrame, KnownFrame
       DEF RowInv, vars, rows, dashboard
  <2> QED
    BY <2>1, <2>2 DEF IInv

<1>13. CASE MailUnanswered
  <2>1. TypeOK'
    BY <1>13, <1>0
       DEF TypeOK, MailUnanswered, rows, agentRows, dashboard, Monitors
  <2>2. ASSUME NEW p \in Callbacks PROVE RowInv(p)'
    <3>1. Counted(p)'
      BY <1>13, <2>2, <1>0, CountedFrame
         DEF RowInv, MailUnanswered, rows, agentRows, dashboard
    <3>2. Listed(p)'
      BY <1>13, <2>2, <1>0
         DEF TypeOK, MailUnanswered, rows, agentRows, dashboard, Monitors,
             RowInv, Counted, Listed, Offered
    <3>3. Known(p)'
      BY <1>13, <2>2, <1>0, KnownFrame
         DEF RowInv, MailUnanswered, rows, agentRows, dashboard
    <3> QED
      BY <3>1, <3>2, <3>3 DEF RowInv
  <2> QED
    BY <2>1, <2>2 DEF IInv

<1> QED
  BY <1>1, <1>2, <1>3, <1>4, <1>5, <1>6, <1>7, <1>8, <1>9, <1>10, <1>11, <1>12,
     <1>13
     DEF Next, MonitorStep, AgentStep, ServeStep

-----------------------------------------------------------------------------

\* What has been offered has been offered once, to the agent who has it.
THEOREM Invariant == Spec => []IInv
  BY InitInv, StepInv, PTL DEF Spec

\* Every variable keeps its type.
THEOREM TypeCorrect == Spec => []TypeOK
  BY Invariant, PTL DEF IInv

\* No row is offered twice.
THEOREM OneShot == Spec => []OneAttempt
<1>1. IInv => OneAttempt
  BY DEF IInv, RowInv, Counted, OneAttempt
<1> QED
  BY <1>1, Invariant, PTL

\* No two agents call back a caller for the same row.
THEOREM OneAgentPerCallback == Spec => []OneAgentCalls
<1>1. IInv => OneAgentCalls
  BY DEF IInv, RowInv, Known, OneAgentCalls
<1> QED
  BY <1>1, Invariant, PTL

\* The steps that write a status.
LEMMA StatusSteps ==
  ASSUME [Next]_vars
  PROVE  \/ UNCHANGED status
         \/ AssignOutbound \/ TimeOut
         \/ \E p \in Callbacks : Insert(p) \/ CloseOrphan(p)
         \/ \E a \in Agents, p \in Callbacks : Decline(a, p)
         \/ \E a \in Agents : MarkInProgress(a) \/ MarkCompleted(a) \/ MarkNoAnswer(a)
<1>1. ASSUME NEW p \in Callbacks,
             Abandon(p) \/ Age(p) \/ FindAgent(p) \/ RecheckStuck(p)
      PROVE  UNCHANGED status
  BY <1>1 DEF Abandon, Age, FindAgent, RecheckStuck, rows
<1>2. StartPass \/ FindStuck \/ MailUnanswered \/ FindOrphans \/ EndPass
        \/ PassFails \/ Restart => UNCHANGED status
  BY DEF StartPass, FindStuck, MailUnanswered, FindOrphans, EndPass, PassFails,
         Restart, rows
<1>3. ASSUME NEW a \in Agents, AgentStep(a)
      PROVE  \/ UNCHANGED status
             \/ \E q \in Callbacks : Decline(a, q)
  BY <1>3
     DEF AgentStep, GoOnline, GoOffline, CloseTab, TakeInbound, EndCall,
         Resume,
         SnoozeEnds, ShowPopup, AcceptHandled, Accept, CallerJoins,
         CompleteHandled, Complete, NoAnswerHandled, NoAnswer, rows
<1>4. ASSUME NEW a \in Agents,
             \/ EnterRoom(a) \/ IgnoreOutbounds(a) \/ SetFree(a)
             \/ ReleaseAgent(a) \/ MailCaller(a)
      PROVE  UNCHANGED status
  BY <1>4 DEF EnterRoom, IgnoreOutbounds, SetFree, ReleaseAgent, MailCaller,
              rows
<1>5. UNCHANGED vars => UNCHANGED status
  BY DEF vars, rows
<1> QED
  BY <1>1, <1>2, <1>3, <1>4, <1>5 DEF Next, MonitorStep, ServeStep

-----------------------------------------------------------------------------
(* What the documented promises are true of                                *)

\* complete_outbound, "final end-state (single-attempt policy)": a row that is
\* closed may be closed again in another way, but it never waits for an agent
\* or is offered again.
THEOREM ClosedIsNotOffered ==
  Spec => [][\A o \in Callbacks :
               status[o] \in Final => status'[o] \in Final \cup {"in_progress"}]_vars
<1>1. ASSUME IInv, [Next]_vars, NEW o \in Callbacks, status[o] \in Final
      PROVE  status'[o] \in Final \cup {"in_progress"}
  <2>0. TypeOK /\ RowInv(o)
    BY <1>1 DEF IInv
  <2>1. ASSUME NEW p \in Callbacks, Insert(p) PROVE status'[o] = status[o]
    <3>1. RowInv(p)
      BY <1>1 DEF IInv
    <3>. QED BY <1>1, <2>0, <2>1, <3>1 DEF Insert, TypeOK, RowInv, Counted, Final
  <2>2. CASE AssignOutbound
    <3>1. monitor.callback # o
      BY <1>1, <2>0, <2>2 DEF AssignOutbound, RowInv, Listed, Final
    <3>. QED BY <1>1, <2>0, <2>2, <3>1 DEF AssignOutbound, TypeOK
  <2>3. CASE TimeOut
    BY <1>1, <2>0, <2>3 DEF TimeOut, CloseUnanswered, TypeOK, Final
  <2>4. ASSUME NEW p \in Callbacks, CloseOrphan(p)
        PROVE  status'[o] \in Final
    BY <1>1, <2>0, <2>4 DEF CloseOrphan, CloseUnanswered, TypeOK, Final
  <2>5. ASSUME NEW a \in Agents, NEW p \in Callbacks, Decline(a, p)
        PROVE  status'[o] \in Final
    BY <1>1, <2>0, <2>5 DEF Decline, TypeOK, Final
  <2>6. ASSUME NEW a \in Agents,
               MarkInProgress(a) \/ MarkCompleted(a) \/ MarkNoAnswer(a)
        PROVE  status'[o] \in Final \cup {"in_progress"}
    BY <1>1, <2>0, <2>6
       DEF MarkInProgress, MarkCompleted, MarkNoAnswer, CloseUnanswered,
           TypeOK,
           Final
  <2>. QED BY <1>1, <2>1, <2>2, <2>3, <2>4, <2>5, <2>6, StatusSteps
<1>2. IInv /\ [Next]_vars =>
        [\A o \in Callbacks :
           status[o] \in Final => status'[o] \in Final \cup {"in_progress"}]_vars
  BY <1>1
<1> QED
  BY <1>2, Invariant, PTL DEF Spec

-----------------------------------------------------------------------------
(* The refinement of CallbackLedger                                        *)

\* A step keeps the agent of every row that was offered, and gives none to a
\* row that was not.
LEMMA AssignedSteps ==
  ASSUME IInv, [Next]_vars
  PROVE  AssignOutbound \/ UNCHANGED assigned
<1>0. TypeOK
  BY DEF IInv
<1>1. ASSUME NEW a \in Agents, MarkInProgress(a)
      PROVE  UNCHANGED assigned
  <2> DEFINE o == request[a].callback
  <2>1. o \in Callbacks
    BY <1>1, ServedIsReal DEF MarkInProgress, Serving
  <2>2. Known(o)
    BY <2>1 DEF IInv, RowInv
  <2>3. assigned[o] = a
    BY <1>1, <2>2 DEF MarkInProgress, Serving, Known, Engaged
  <2>4. assigned' = [assigned EXCEPT ![o] = a]
    BY <1>1 DEF MarkInProgress
  <2> QED
    BY <1>0, <2>1, <2>3, <2>4 DEF TypeOK
<1>2. ASSUME NEW p \in Callbacks,
             \/ Abandon(p) \/ Insert(p) \/ Age(p) \/ FindAgent(p)
             \/ RecheckStuck(p) \/ CloseOrphan(p)
      PROVE  UNCHANGED assigned
  BY <1>2 DEF Abandon, Insert, Age, FindAgent, RecheckStuck, CloseOrphan, rows
<1>3. StartPass \/ FindStuck \/ TimeOut \/ MailUnanswered \/ FindOrphans
        \/ EndPass \/ PassFails \/ Restart => UNCHANGED assigned
  BY DEF StartPass, FindStuck, TimeOut, MailUnanswered, FindOrphans, EndPass,
         PassFails,
         Restart, rows
<1>4. ASSUME NEW a \in Agents, AgentStep(a)
      PROVE  UNCHANGED assigned
  BY <1>4
     DEF AgentStep, GoOnline, GoOffline, CloseTab, TakeInbound, EndCall,
         Resume,
         SnoozeEnds, ShowPopup, AcceptHandled, Accept, Decline, CallerJoins,
         CompleteHandled, Complete, NoAnswerHandled, NoAnswer, rows
<1>5. ASSUME NEW a \in Agents,
             \/ EnterRoom(a) \/ IgnoreOutbounds(a) \/ MarkCompleted(a)
             \/ MarkNoAnswer(a) \/ ReleaseAgent(a) \/ MailCaller(a) \/ SetFree(a)
      PROVE  UNCHANGED assigned
  BY <1>5 DEF EnterRoom, IgnoreOutbounds, MarkCompleted, MarkNoAnswer,
              ReleaseAgent, MailCaller, SetFree, rows
<1>6. UNCHANGED vars => UNCHANGED assigned
  BY DEF vars, rows
<1>7. MonitorStep => AssignOutbound \/ UNCHANGED assigned
  BY <1>2, <1>3 DEF MonitorStep
<1> QED
  BY <1>1, <1>2, <1>3, <1>4, <1>5, <1>6, <1>7 DEF Next, ServeStep

\* The stage of a row changes when it is inserted and when it is offered.
LEMMA StageSteps ==
  ASSUME IInv, [Next]_vars, ~AssignOutbound, NEW o \in Callbacks, ~Insert(o)
  PROVE  StageOf(o)' = StageOf(o)
<1>0. TypeOK /\ RowInv(o)
  BY DEF IInv
<1>1. ASSUME NEW p \in Callbacks, Insert(p) PROVE StageOf(o)' = StageOf(o)
  BY <1>0, <1>1 DEF Insert, TypeOK, StageOf
<1>2. ASSUME Offered(o), status'[o] \notin {"none", "pending"}
      PROVE  StageOf(o)' = StageOf(o)
  BY <1>0, <1>2 DEF StageOf, RowInv, Counted
<1>3. CASE TimeOut
  BY <1>0, <1>2, <1>3 DEF TimeOut, CloseUnanswered, TypeOK, RowInv, Listed,
                          StageOf
<1>4. ASSUME NEW p \in Callbacks, CloseOrphan(p) PROVE StageOf(o)' = StageOf(o)
  BY <1>0, <1>2, <1>4
     DEF CloseOrphan, CloseUnanswered, TypeOK, RowInv, Listed, StageOf
<1>5. ASSUME NEW a \in Agents, NEW p \in Callbacks, Decline(a, p)
      PROVE  StageOf(o)' = StageOf(o)
  BY <1>0, <1>2, <1>5 DEF Decline, Popped, TypeOK, RowInv, Known, StageOf
<1>6. ASSUME NEW a \in Agents, MarkInProgress(a) \/ MarkCompleted(a) \/ MarkNoAnswer(a)
      PROVE  StageOf(o)' = StageOf(o)
  <2> DEFINE p == request[a].callback
  <2>1. p = o => Offered(o)
    BY <1>0, <1>6, ServedIsReal
       DEF MarkInProgress, MarkCompleted, MarkNoAnswer, Serving, RowInv, Known
  <2>2. /\ p # o => status'[o] = status[o]
        /\ p = o => status'[o] \in {"in_progress", "completed", "no_answer"}
    BY <1>0, <1>6
       DEF MarkInProgress, MarkCompleted, MarkNoAnswer, CloseUnanswered, TypeOK
  <2> QED
    BY <1>2, <2>1, <2>2 DEF StageOf
<1>7. UNCHANGED status => StageOf(o)' = StageOf(o)
  BY DEF StageOf
<1> QED
  BY <1>1, <1>3, <1>4, <1>5, <1>6, <1>7, StatusSteps

\* The stages of all rows.
Stage == [o \in Callbacks |-> StageOf(o)]

\* They change when a row is inserted or offered, and not otherwise.
LEMMA StageKept ==
  ASSUME IInv, [Next]_vars, ~AssignOutbound, \A o \in Callbacks : ~Insert(o)
  PROVE  UNCHANGED <<Stage, assigned>>
<1>1. \A o \in Callbacks : StageOf(o)' = StageOf(o)
  BY StageSteps
<1> QED
  BY <1>1, AssignedSteps DEF Stage

\* A row that is inserted begins to wait.
LEMMA InsertAsks ==
  ASSUME IInv, NEW p \in Callbacks, Insert(p), [Next]_vars
  PROVE  Ledger!Ask(p)
<1>0. TypeOK /\ RowInv(p)
  BY DEF IInv
<1>1. StageOf(p) = "absent"
  BY <1>0 DEF Insert, RowInv, Counted, StageOf
<1>2. \A o \in Callbacks : StageOf(o)' = IF o = p THEN "waiting" ELSE StageOf(o)
  BY <1>0 DEF Insert, TypeOK, StageOf
<1>3. Stage' = [Stage EXCEPT ![p] = "waiting"]
  BY <1>2 DEF Stage
<1>4. UNCHANGED <<assigned, rung, talked, mailed>>
  BY DEF Insert, history
<1> QED
  BY <1>1, <1>3, <1>4 DEF Ledger!Ask, Stage

\* The monitor's assignment is the offer.
LEMMA AssignmentOffers ==
  ASSUME IInv, AssignOutbound
  PROVE  Ledger!Offer(monitor.callback, monitor.agent)
           /\ monitor.callback \in Callbacks /\ monitor.agent \in Agents
<1> DEFINE o == monitor.callback
           a == monitor.agent
<1>0. TypeOK /\ o \in Callbacks /\ a \in Agents
  BY DEF IInv, TypeOK, Monitors, AssignOutbound
<1>1. status[o] = "pending"
  BY <1>0 DEF IInv, RowInv, Listed, AssignOutbound
<1>2. StageOf(o) = "waiting"
  BY <1>1 DEF StageOf
<1>3. /\ status' = [status EXCEPT ![o] = "assigned"]
      /\ assigned' = [assigned EXCEPT ![o] = a]
      /\ UNCHANGED <<rung, talked, mailed>>
  BY DEF AssignOutbound, history
<1>4. \A p \in Callbacks : StageOf(p)' = IF p = o THEN "offered" ELSE StageOf(p)
  BY <1>0, <1>3 DEF TypeOK, StageOf
<1>5. Stage' = [Stage EXCEPT ![o] = "offered"]
  BY <1>4 DEF Stage
<1> QED
  BY <1>0, <1>2, <1>3, <1>5 DEF Ledger!Offer, Stage

\* The monitor's mail, two handlers and the caller make the contacts.
LEMMA ContactSteps ==
  ASSUME [Next]_vars
  PROVE  \/ UNCHANGED <<rung, talked, mailed>>
         \/ MailUnanswered
         \/ \E a \in Agents : EnterRoom(a) \/ MailCaller(a)
         \/ \E a \in Agents, p \in Callbacks : CallerJoins(a, p)
<1> USE DEF history
<1>1. ASSUME NEW p \in Callbacks,
             \/ Abandon(p) \/ Insert(p) \/ Age(p) \/ FindAgent(p)
             \/ RecheckStuck(p) \/ CloseOrphan(p)
      PROVE  UNCHANGED <<rung, talked, mailed>>
  BY <1>1 DEF Abandon, Insert, Age, FindAgent, RecheckStuck, CloseOrphan
<1>2. StartPass \/ AssignOutbound \/ FindStuck \/ TimeOut \/ FindOrphans
        \/ EndPass \/ PassFails \/ Restart => UNCHANGED <<rung, talked, mailed>>
  BY DEF StartPass, AssignOutbound, FindStuck, TimeOut, FindOrphans, EndPass,
         PassFails,
         Restart
<1>3. ASSUME NEW a \in Agents, AgentStep(a)
      PROVE  \/ UNCHANGED <<rung, talked, mailed>>
             \/ \E p \in Callbacks : CallerJoins(a, p)
  BY <1>3
     DEF AgentStep, GoOnline, GoOffline, CloseTab, TakeInbound, EndCall,
         Resume,
         SnoozeEnds, ShowPopup, AcceptHandled, Accept, Decline,
         CompleteHandled, Complete, NoAnswerHandled, NoAnswer
<1>4. ASSUME NEW a \in Agents, ServeStep(a), ~EnterRoom(a), ~MailCaller(a)
      PROVE  UNCHANGED <<rung, talked, mailed>>
  BY <1>4 DEF ServeStep, MarkInProgress, IgnoreOutbounds, MarkCompleted,
              MarkNoAnswer, ReleaseAgent, SetFree
<1>5. UNCHANGED vars => UNCHANGED <<rung, talked, mailed>>
  BY DEF vars
<1>6. MonitorStep => MailUnanswered \/ UNCHANGED <<rung, talked, mailed>>
  BY <1>1, <1>2 DEF MonitorStep
<1> QED
  BY <1>1, <1>2, <1>3, <1>4, <1>5, <1>6 DEF Next

\* Every contact is one of a row that was offered, and says nothing of others.
LEMMA ContactsMap ==
  ASSUME IInv, [Next]_vars
  PROVE  \/ UNCHANGED <<rung, talked, mailed>>
         \/ /\ ~AssignOutbound /\ \A o \in Callbacks : ~Insert(o)
            /\ \E o \in Callbacks :
                 \/ /\ Offered(o) /\ rung' = rung \cup {o}
                    /\ UNCHANGED <<talked, mailed>>
                 \/ o \in rung /\ talked' = talked \cup {o} /\ UNCHANGED <<rung, mailed>>
                 \/ /\ Offered(o) /\ mailed' = mailed \cup {o}
                    /\ UNCHANGED <<rung, talked>>
<1>0. TypeOK /\ \A o \in Callbacks : RowInv(o)
  BY DEF IInv
<1>1. ASSUME UNCHANGED inserting PROVE \A o \in Callbacks : ~Insert(o)
  BY <1>1 DEF Insert
<1>2. CASE MailUnanswered
  <2>1. ~AssignOutbound /\ \A o \in Callbacks : ~Insert(o)
    BY <1>1, <1>2 DEF MailUnanswered, AssignOutbound, rows
  <2>2. monitor.callback \in Callbacks /\ Offered(monitor.callback)
    BY <1>0, <1>2 DEF MailUnanswered, TypeOK, Monitors, RowInv, Listed
  <2> QED
    BY <1>2, <2>1, <2>2 DEF MailUnanswered
<1>3. ASSUME NEW a \in Agents, EnterRoom(a) \/ MailCaller(a)
      PROVE  /\ ~AssignOutbound /\ \A o \in Callbacks : ~Insert(o)
             /\ \E o \in Callbacks :
                  \/ /\ Offered(o) /\ rung' = rung \cup {o}
                     /\ UNCHANGED <<talked, mailed>>
                  \/ /\ Offered(o) /\ mailed' = mailed \cup {o}
                     /\ UNCHANGED <<rung, talked>>
  <2>1. request[a].callback \in Callbacks /\ request[a] # NoRequest
    BY <1>3, ServedIsReal DEF EnterRoom, MailCaller, Serving
  <2>2. Offered(request[a].callback)
    BY <1>0, <2>1 DEF RowInv, Known
  <2>3. UNCHANGED <<monitor, inserting>>
    BY <1>3 DEF EnterRoom, MailCaller, rows
  <2>4. ~AssignOutbound
    BY <2>3 DEF AssignOutbound
  <2> QED
    BY <1>1, <1>3, <2>1, <2>2, <2>3, <2>4
       DEF EnterRoom, MailCaller
<1>4. ASSUME NEW a \in Agents, NEW p \in Callbacks, CallerJoins(a, p)
      PROVE  /\ ~AssignOutbound /\ \A o \in Callbacks : ~Insert(o)
             /\ p \in rung /\ talked' = talked \cup {p} /\ UNCHANGED <<rung, mailed>>
  <2>1. UNCHANGED <<monitor, inserting>>
    BY <1>4 DEF CallerJoins, rows
  <2>2. ~AssignOutbound
    BY <2>1 DEF AssignOutbound
  <2> QED
    BY <1>1, <1>4, <2>1, <2>2 DEF CallerJoins
<1> QED
  BY <1>2, <1>3, <1>4, ContactSteps

\* The initial states map to the initial state.
LEMMA LedgerInit == Init => Ledger!Init
  BY DEF Init, Ledger!Init, StageOf

\* Every step maps to a step or a stutter.
LEMMA LedgerStep == IInv /\ [Next]_vars => [Ledger!Next]_(Ledger!vars)
<1> SUFFICES ASSUME IInv, [Next]_vars
             PROVE  Ledger!Next \/ UNCHANGED <<Stage, assigned, rung, talked, mailed>>
  BY DEF Ledger!vars, Stage
<1>1. ASSUME NEW p \in Callbacks, Insert(p) PROVE Ledger!Next
  BY <1>1, InsertAsks DEF Ledger!Next
<1>2. CASE AssignOutbound
  BY <1>2, AssignmentOffers DEF Ledger!Next
<1>3. CASE ~AssignOutbound /\ \A o \in Callbacks : ~Insert(o)
  <2>1. UNCHANGED <<Stage, assigned>>
    BY <1>3, StageKept
  <2>2. ASSUME NEW o \in Callbacks, Offered(o) PROVE Stage[o] = "offered"
    BY <2>2 DEF IInv, RowInv, Counted, Stage, StageOf
  <2>3. ASSUME NEW o \in Callbacks, Offered(o), rung' = rung \cup {o},
               UNCHANGED <<talked, mailed>>
        PROVE  Ledger!Ring(o)
    BY <2>1, <2>2, <2>3 DEF Ledger!Ring, Stage
  <2>4. ASSUME NEW o \in Callbacks, o \in rung, talked' = talked \cup {o},
               UNCHANGED <<rung, mailed>>
        PROVE  Ledger!Talk(o)
    BY <2>1, <2>4 DEF Ledger!Talk, Stage
  <2>5. ASSUME NEW o \in Callbacks, Offered(o), mailed' = mailed \cup {o},
               UNCHANGED <<rung, talked>>
        PROVE  Ledger!Mail(o)
    BY <2>1, <2>2, <2>5 DEF Ledger!Mail, Stage
  <2>6. CASE UNCHANGED <<rung, talked, mailed>>
    BY <2>1, <2>6
  <2> QED
    BY <2>3, <2>4, <2>5, <2>6, ContactsMap DEF Ledger!Next
<1> QED
  BY <1>1, <1>2, <1>3

\* The rows, the monitor, the handlers and the dashboards together implement
\* CallbackLedger, whatever is replayed, closed, declined or restarted.
THEOREM CallbackImplementsLedger == Spec => ImplementsCallbackLedger
<1>1. Init => Ledger!Init
  BY LedgerInit
<1>2. IInv /\ [Next]_vars => [Ledger!Next]_(Ledger!vars)
  BY LedgerStep
<1> QED
  BY <1>1, <1>2, Invariant, PTL DEF Spec, ImplementsCallbackLedger, Ledger!Spec
=============================================================================
