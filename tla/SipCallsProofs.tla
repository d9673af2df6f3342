--------------------------- MODULE SipCallsProofs ---------------------------
(***************************************************************************)
(* Proofs about SipCalls for any number of sessions, rooms and repeated    *)
(* webhooks: the manager's two indices agree, the state of a call moves    *)
(* forward only, and its end is reported once.                             *)
(*                                                                         *)
(* The indices and a session are invariant together: a session leaves the  *)
(* list only when it is final, and only a listed session changes state.    *)
(***************************************************************************)
EXTENDS SipCalls, TLAPS

\* Places after the first await of an ending: nothing is undone from there.
Ending == {"report", "record", "wait", "delete"}

\* The dispatch of a session is on its way.
Asking == {"calling", "submit"}

\* byRoom is the inverse of room on the listed sessions.
Indexed(s) ==
  s \in listed => /\ state[s] # "unborn"
                  /\ byRoom[room[s]] = s

Pointed(r) ==
  byRoom[r] # NoSession => /\ byRoom[r] \in listed
                           /\ room[byRoom[r]] = r
                           /\ caller[r] # "none"

\* LiveKit announces callers of rooms only that had one.
HooksKnown ==
  \A r \in Rooms :
    [event |-> "sip_joined", room |-> r] \in hooks => caller[r] # "none"

IndexInv ==
  /\ \A s \in Sessions : Indexed(s)
  /\ \A r \in Rooms : Pointed(r)
  /\ HooksKnown

\* What was reported fits the state and the dispatch that is still open.
ReportsFit(s) ==
  /\ state[s] \notin Final => reports[s] = <<>>
  /\ task[s]["joined"] \in Asking => reports[s] \in {<<>>, <<"completed">>}
  /\ reports[s] = <<"completed", "failed">>
       => ~importable /\ tries[s] = RetryMax
  /\ reports[s] \in {<<>>, <<"completed">>, <<"failed">>,
                     <<"completed", "failed">>}

\* The coroutines a session may have in its state.
TasksFit(s) ==
  /\ state[s] = "unborn" => \A k \in Kinds : task[s][k] = "none"
  /\ \A k \in Kinds : task[s][k] \in Ending => state[s] \in Final
  /\ \A k \in Kinds : task[s][k] \in Asking => k \in {"joined", "outbound"}
                                               /\ task[s]["ringing"] = "none"
  /\ ~(task[s]["joined"] \in Asking /\ task[s]["outbound"] \in Asking)

\* A session that was registered has a room and is listed until it is final.
Placed(s) ==
  /\ state[s] # "unborn" => room[s] \in Rooms
  /\ state[s] \in Active => s \in listed
  /\ worker[s] # "none" => state[s] # "unborn"

SessionInv(s) == ReportsFit(s) /\ TasksFit(s) /\ Placed(s)

IInv == TypeOK /\ IndexInv /\ \A s \in Sessions : SessionInv(s)

-----------------------------------------------------------------------------
(* Frames *)

\* A step of one session leaves the others as they were.
LEMMA OneSessionMoves ==
  ASSUME NEW s \in Sessions, \A t \in Sessions : SessionInv(t),
         importable' = importable,
         \A t \in Sessions \ {s} :
           /\ state'[t] = state[t] /\ room'[t] = room[t]
           /\ t \in listed => t \in listed'
           /\ task'[t] = task[t] /\ tries'[t] = tries[t]
           /\ reports'[t] = reports[t]
           /\ worker'[t] # "none" => worker[t] # "none",
         SessionInv(s)'
  PROVE  \A t \in Sessions : SessionInv(t)'
<1>1. SUFFICES ASSUME NEW t \in Sessions, t # s
               PROVE  SessionInv(t)'
  OBVIOUS
<1>2. ReportsFit(t)'
  BY <1>1 DEF SessionInv, ReportsFit
<1>3. TasksFit(t)'
  BY <1>1 DEF SessionInv, TasksFit
<1>4. Placed(t)'
  BY <1>1 DEF SessionInv, Placed
<1> QED
  BY <1>2, <1>3, <1>4 DEF SessionInv

\* The indices do not depend on more than this.
LEMMA IndexStays ==
  ASSUME IndexInv, UNCHANGED <<room, listed, byRoom>>,
         \A s \in Sessions : state[s] # "unborn" => state'[s] # "unborn",
         \A r \in Rooms : caller[r] # "none" => caller'[r] # "none",
         \A r \in Rooms :
           [event |-> "sip_joined", room |-> r] \in hooks' \ hooks
             => caller'[r] # "none"
  PROVE  IndexInv'
<1>1. \A s \in Sessions : Indexed(s)'
  BY DEF IndexInv, Indexed
<1>2. \A r \in Rooms : Pointed(r)'
  BY DEF IndexInv, Pointed
<1>3. HooksKnown'
  BY DEF IndexInv, HooksKnown
<1> QED
  BY <1>1, <1>2, <1>3 DEF IndexInv

\* A session is registered for a room that has none and a caller.
LEMMA IndexGrows ==
  ASSUME TypeOK, IndexInv, NEW s \in Sessions, NEW r \in Rooms,
         Register(s, r), ~Found(r), caller'[r] # "none",
         \A q \in Rooms : caller[q] # "none" => caller'[q] # "none",
         hooks' \subseteq hooks
  PROVE  IndexInv'
<1>1. /\ state[s] = "unborn" /\ s \notin listed
      /\ byRoom[r] = NoSession
  BY DEF Register, Fresh, IndexInv, Indexed, Found
<1>2. /\ listed' = listed \cup {s}
      /\ \A t \in Sessions \ {s} : state'[t] = state[t] /\ room'[t] = room[t]
      /\ state'[s] = "ringing" /\ room'[s] = r
      /\ \A q \in Rooms \ {r} : byRoom'[q] = byRoom[q]
      /\ byRoom'[r] = s
  BY DEF TypeOK, Register
<1>3. ASSUME NEW t \in Sessions PROVE Indexed(t)'
  <2>1. CASE t = s
    BY <1>2, <2>1 DEF Indexed
  <2>2. CASE t # s /\ t \in listed
    <3>1. state[t] # "unborn" /\ byRoom[room[t]] = t /\ room[t] # r
      BY <1>1, <2>2, SipAssumption DEF IndexInv, Indexed
    <3>2. byRoom'[room[t]] = byRoom[room[t]]
      BY <3>1 DEF Register, TypeOK
    <3> QED
      BY <1>2, <2>2, <3>1, <3>2 DEF Indexed
  <2>3. CASE t # s /\ t \notin listed
    BY <1>2, <2>3 DEF Indexed
  <2> QED
    BY <2>1, <2>2, <2>3
<1>4. ASSUME NEW q \in Rooms PROVE Pointed(q)'
  <2>1. CASE q = r
    BY <1>2, <2>1 DEF Pointed
  <2>2. CASE q # r
    <3>1. byRoom[q] # NoSession => byRoom[q] \in Sessions \ {s}
      BY <1>1 DEF TypeOK, IndexInv, Pointed
    <3> QED
      BY <1>2, <2>2, <3>1 DEF IndexInv, Pointed
  <2> QED
    BY <2>1, <2>2
<1>5. HooksKnown'
  BY DEF IndexInv, HooksKnown
<1> QED
  BY <1>3, <1>4, <1>5 DEF IndexInv

\* A session is removed, if it is still listed.
LEMMA IndexShrinks ==
  ASSUME TypeOK, IndexInv, NEW s \in Sessions, Remove(s), room' = room,
         \A t \in Sessions : state[t] # "unborn" => state'[t] # "unborn",
         UNCHANGED caller, hooks' \subseteq hooks
  PROVE  IndexInv'
<1>1. \A t \in listed : t \in Sessions
  BY DEF TypeOK
<1>2. HooksKnown'
  BY DEF IndexInv, HooksKnown
<1>3. CASE s \notin listed
  <2>1. listed' = listed /\ byRoom' = byRoom
    BY <1>3 DEF Remove
  <2> QED
    BY <2>1, IndexStays
<1>4. CASE s \in listed
  <2>1. /\ listed' = listed \ {s}
        /\ byRoom' = [byRoom EXCEPT ![room[s]] = NoSession]
        /\ byRoom[room[s]] = s
    BY <1>4 DEF Remove, IndexInv, Indexed
  <2>2. ASSUME NEW t \in Sessions, t \in listed'
        PROVE  state'[t] # "unborn" /\ byRoom'[room'[t]] = t
    <3>1. /\ t # s /\ state[t] # "unborn"
          /\ byRoom[room[t]] = t
      BY <2>1, <2>2 DEF IndexInv, Indexed
    <3>2. room[t] # room[s]
      BY <2>1, <3>1
    <3>3. byRoom'[room[t]] = byRoom[room[t]]
      BY <2>1, <3>2 DEF TypeOK
    <3> QED
      BY <3>1, <3>3
  <2>3. ASSUME NEW q \in Rooms, byRoom'[q] # NoSession
        PROVE  byRoom'[q] \in listed' /\ room'[byRoom'[q]] = q
               /\ caller'[q] # "none"
    <3>1. q # room[s] /\ byRoom'[q] = byRoom[q]
      BY <2>1, <2>3 DEF TypeOK
    <3>2. /\ byRoom[q] \in listed /\ room[byRoom[q]] = q
          /\ caller[q] # "none"
      BY <2>3, <3>1 DEF IndexInv, Pointed
    <3> QED
      BY <2>1, <3>1, <3>2
  <2> QED
    BY <1>2, <2>2, <2>3 DEF IndexInv, Indexed, Pointed
<1> QED
  BY <1>3, <1>4

\* Whom a room leads to.
LEMMA FoundIsListed ==
  ASSUME TypeOK, IndexInv, NEW r \in Rooms, Found(r)
  PROVE  /\ byRoom[r] \in Sessions /\ byRoom[r] \in listed
         /\ room[byRoom[r]] = r
         /\ state[byRoom[r]] \in Active \cup Final
BY DEF TypeOK, IndexInv, Pointed, Indexed, Found, Active, Final

-----------------------------------------------------------------------------
(* Helpers *)

LEMMA Marking ==
  ASSUME TypeOK, NEW s \in Sessions, NEW new \in Active \cup Final
  PROVE  /\ Mark(s, new) \in [Sessions -> {"unborn"} \cup Active \cup Final]
         /\ \A t \in Sessions \ {s} : Mark(s, new)[t] = state[t]
         /\ s \in listed => Mark(s, new)[s] = new
         /\ s \notin listed => Mark(s, new)[s] = state[s]
BY DEF TypeOK, Mark

LEMMA Cancelling ==
  ASSUME TypeOK, NEW s \in Sessions
  PROVE  /\ Cancelled(s) \in [Kinds -> Places]
         /\ \A k \in Kinds : Cancelled(s)[k] \in {task[s][k], "none"}
         /\ \A k \in {"joined", "outbound", "left"} :
              Cancelled(s)[k] = task[s][k]
<1>1. /\ task[s] \in [Kinds -> Places]
      /\ current[s] \in {"none", "ringing", "call"}
  BY DEF TypeOK
<1> DEFINE c == [task[s] EXCEPT ![current[s]] = "none"]
<1>2. /\ c \in [Kinds -> Places]
      /\ \A k \in Kinds : c[k] = IF k = current[s] THEN "none" ELSE task[s][k]
  BY <1>1 DEF Places
<1>3. Cancelled(s) \in {c, task[s]}
  BY DEF Cancelled
<1> HIDE DEF c
<1>4. CASE Cancelled(s) = c
  BY <1>1, <1>2, <1>4 DEF Kinds
<1>5. CASE Cancelled(s) = task[s]
  BY <1>1, <1>5 DEF Kinds
<1> QED
  BY <1>3, <1>4, <1>5

LEMMA Reporting ==
  ASSUME TypeOK, NEW s \in Sessions, NEW event \in Final
  PROVE  /\ Reported(s, event) \in [Sessions -> Seq(Final)]
         /\ \A t \in Sessions \ {s} : Reported(s, event)[t] = reports[t]
         /\ Reported(s, event)[s] \in {reports[s], Append(reports[s], event)}
         /\ reports[s] = <<>> => Reported(s, event)[s] \in {<<>>, <<event>>}
         /\ reports[s] = <<"completed">> =>
              Reported(s, event)[s] \in {<<"completed">>, <<"completed", event>>}
<1>1. /\ reports \in [Sessions -> Seq(Final)]
      /\ Append(reports[s], event) \in Seq(Final)
  BY DEF TypeOK
<1>2. Append(<<>>, event) = <<event>>
  <2>1. <<>> \in Seq(Final) /\ Len(<<>>) = 0
    OBVIOUS
  <2>2. /\ Append(<<>>, event) \in Seq(Final)
        /\ Len(Append(<<>>, event)) = 1
        /\ Append(<<>>, event)[1] = event
    BY <2>1
  <2> QED
    BY <2>2
<1>3. Append(<<"completed">>, event) = <<"completed", event>>
  <2>1. /\ <<"completed">> \in Seq(Final) /\ Len(<<"completed">>) = 1
        /\ <<"completed">>[1] = "completed"
    BY DEF Final
  <2>2. /\ Append(<<"completed">>, event) \in Seq(Final)
        /\ Len(Append(<<"completed">>, event)) = 2
        /\ Append(<<"completed">>, event)[1] = "completed"
        /\ Append(<<"completed">>, event)[2] = event
    BY <2>1
  <2>3. ASSUME NEW q \in Seq(Final), Len(q) = 2
        PROVE  q = <<q[1], q[2]>>
    BY <2>3
  <2> QED
    BY <2>2, <2>3
<1>4. CASE kafka
  <2>1. Reported(s, event) = [reports EXCEPT ![s] = Append(reports[s], event)]
    BY <1>4 DEF Reported
  <2>2. Reported(s, event)[s] = Append(reports[s], event)
    BY <1>1, <2>1
  <2>3. /\ Reported(s, event) \in [Sessions -> Seq(Final)]
        /\ \A t \in Sessions \ {s} : Reported(s, event)[t] = reports[t]
    BY <1>1, <2>1
  <2> QED
    BY <1>2, <1>3, <2>2, <2>3
<1>5. CASE ~kafka
  BY <1>1, <1>5 DEF Reported
<1> QED
  BY <1>4, <1>5

LEMMA AfterEndIsEnding == AfterEnd \in {"report", "wait"}
BY DEF AfterEnd

LEMMA Taking ==
  ASSUME TypeOK, NEW event, NEW r \in Rooms, Take(event, r)
  PROVE  /\ hooks' \subseteq hooks /\ repeats' \in 0 .. MaxRepeats
         /\ UNCHANGED <<worker, caller, kafka, importable>>
<1>1. repeats' \in 0 .. MaxRepeats
  BY SipAssumption DEF Take, TypeOK
<1> QED
  BY <1>1 DEF Take, settings

-----------------------------------------------------------------------------
(* Webhooks *)

LEMMA Registering ==
  ASSUME IInv, NEW s \in Sessions, NEW r \in Rooms, Register(s, r),
         NEW k \in {"joined", "outbound"}, NEW place \in Asking,
         task' = [task EXCEPT ![s][k] = place],
         UNCHANGED <<current, tries, reports, kafka, importable, worker>>,
         caller' \in [Rooms -> {"none", "dialled", "in", "gone"}],
         hooks' \subseteq hooks, repeats' \in 0 .. MaxRepeats
  PROVE  TypeOK' /\ \A t \in Sessions : SessionInv(t)'
<1>1. /\ state[s] = "unborn" /\ \A j \in Kinds : task[s][j] = "none"
      /\ s \notin listed
  BY DEF Register, Fresh, IInv, SessionInv, TasksFit, IndexInv, Indexed
<1>2. k \in Kinds /\ place \in Places
  BY DEF Kinds, Places, Asking
<1>3. TypeOK'
  <2>1. task' \in [Sessions -> [Kinds -> Places]]
    BY <1>2 DEF IInv, TypeOK
  <2>2. /\ state' \in [Sessions -> {"unborn"} \cup Active \cup Final]
        /\ room' \in [Sessions -> Rooms \cup {NoRoom}]
        /\ listed' \subseteq Sessions
        /\ byRoom' \in [Rooms -> Sessions \cup {NoSession}]
    BY DEF IInv, TypeOK, Register, Active
  <2> QED
    BY <2>1, <2>2 DEF IInv, TypeOK
<1>4. /\ state'[s] = "ringing" /\ room'[s] = r /\ s \in listed'
      /\ \A j \in Kinds \ {k} : task'[s][j] = "none"
      /\ task'[s][k] = place
  BY <1>1, <1>2 DEF IInv, TypeOK, Register
<1>5. ReportsFit(s)'
  <2>1. reports[s] = <<>>
    BY <1>1 DEF IInv, SessionInv, ReportsFit, Final
  <2> QED
    BY <2>1, <1>4 DEF ReportsFit, Final, IInv, SessionInv
<1>6. TasksFit(s)'
  BY <1>4 DEF TasksFit, Kinds, Asking, Ending
<1>7. Placed(s)'
  BY <1>4 DEF Placed
<1>8. SessionInv(s)'
  BY <1>5, <1>6, <1>7 DEF SessionInv
<1>9. \A t \in Sessions \ {s} :
        /\ state'[t] = state[t] /\ room'[t] = room[t]
        /\ t \in listed => t \in listed'
        /\ task'[t] = task[t]
  BY DEF IInv, TypeOK, Register
<1>10. \A t \in Sessions : SessionInv(t)'
  BY <1>8, <1>9, OneSessionMoves DEF IInv
<1> QED
  BY <1>3, <1>10

LEMMA SipJoinedNewStep ==
  ASSUME IInv, NEW s \in Sessions, NEW r \in Rooms, SipJoinedNew(r, s)
  PROVE  IInv'
<1>1. /\ hooks' \subseteq hooks /\ repeats' \in 0 .. MaxRepeats
      /\ UNCHANGED <<worker, caller, kafka, importable>>
  BY Taking DEF SipJoinedNew, IInv
<1>2. /\ Register(s, r) /\ ~Found(r)
      /\ task' = [task EXCEPT ![s]["joined"] = "submit"]
      /\ UNCHANGED <<current, tries, reports>>
  BY DEF SipJoinedNew
<1>3. caller[r] # "none"
  BY DEF SipJoinedNew, Take, IInv, IndexInv, HooksKnown
<1>4. IndexInv'
  BY <1>1, <1>2, <1>3, IndexGrows DEF IInv
<1>5. "joined" \in {"joined", "outbound"} /\ "submit" \in Asking
  BY DEF Asking
<1>6. caller' \in [Rooms -> {"none", "dialled", "in", "gone"}]
  BY <1>1 DEF IInv, TypeOK
<1>7. TypeOK' /\ \A t \in Sessions : SessionInv(t)'
  BY <1>1, <1>2, <1>5, <1>6, Registering
<1> QED
  BY <1>4, <1>7 DEF IInv

LEMMA OutboundCallStep ==
  ASSUME IInv, NEW s \in Sessions, NEW r \in Rooms, OutboundCall(r, s)
  PROVE  IInv'
<1>1. /\ hooks' = hooks /\ repeats' = repeats /\ worker' = worker
      /\ UNCHANGED <<kafka, importable, current, tries, reports>>
      /\ Register(s, r)
      /\ task' = [task EXCEPT ![s]["outbound"] = "calling"]
      /\ caller[r] = "none"
      /\ caller' = [caller EXCEPT ![r] = "dialled"]
  BY DEF OutboundCall, settings
<1>2. ~Found(r)
  BY <1>1 DEF IInv, IndexInv, Pointed, Found
<1>3. /\ caller' \in [Rooms -> {"none", "dialled", "in", "gone"}]
      /\ caller'[r] # "none"
      /\ \A q \in Rooms : caller[q] # "none" => caller'[q] # "none"
  BY <1>1 DEF IInv, TypeOK
<1>4. IndexInv'
  BY <1>1, <1>2, <1>3, IndexGrows DEF IInv
<1>5. "outbound" \in {"joined", "outbound"} /\ "calling" \in Asking
  BY DEF Asking
<1>6. repeats' \in 0 .. MaxRepeats
  BY <1>1 DEF IInv, TypeOK
<1>7. TypeOK' /\ \A t \in Sessions : SessionInv(t)'
  BY <1>1, <1>3, <1>5, <1>6, Registering
<1> QED
  BY <1>4, <1>7 DEF IInv

\* Whatever happens outside this process and the webhooks it ignores.
LEMMA OutsideStep ==
  ASSUME IInv, UNCHANGED <<manager, tasks, settings>>,
         worker' \in [Sessions -> {"none", "asked", "in", "gone"}],
         caller' \in [Rooms -> {"none", "dialled", "in", "gone"}],
         hooks' \subseteq Hook, repeats' \in 0 .. MaxRepeats,
         \A s \in Sessions : worker'[s] # "none" => worker[s] # "none",
         \A r \in Rooms : caller[r] # "none" => caller'[r] # "none",
         \A r \in Rooms :
           [event |-> "sip_joined", room |-> r] \in hooks' \ hooks
             => caller'[r] # "none"
  PROVE  IInv'
<1>1. UNCHANGED <<state, room, listed, byRoom, task, current, tries, reports,
                  kafka, importable>>
  BY DEF manager, tasks, settings
<1>2. TypeOK'
  BY <1>1 DEF IInv, TypeOK
<1>3. IndexInv'
  BY <1>1, IndexStays DEF IInv
<1>4. ASSUME NEW s \in Sessions PROVE SessionInv(s)'
  BY <1>1 DEF IInv, SessionInv, ReportsFit, TasksFit, Placed
<1> QED
  BY <1>2, <1>3, <1>4 DEF IInv

LEMMA HookRefusedStep ==
  ASSUME IInv, NEW h \in Hook, HookRefused(h)
  PROVE  IInv'
<1>1. /\ UNCHANGED <<manager, tasks, settings>>
      /\ worker' = worker /\ caller' = caller /\ repeats' = repeats
      /\ hooks' = hooks \ {h}
  BY DEF HookRefused
<1> QED
  BY <1>1, OutsideStep DEF IInv, TypeOK

LEMMA IgnoredStep ==
  ASSUME IInv, NEW r \in Rooms, NEW event, Take(event, r),
         UNCHANGED <<manager, tasks>>
  PROVE  IInv'
<1>1. /\ hooks' \subseteq hooks /\ repeats' \in 0 .. MaxRepeats
      /\ UNCHANGED <<worker, caller, kafka, importable>>
  BY Taking DEF IInv
<1> QED
  BY <1>1, OutsideStep DEF IInv, TypeOK, settings

\* Someone joins the room of a session that rings.
LEMMA ConnectStep ==
  ASSUME IInv, NEW s \in Sessions, s \in listed, state[s] = "ringing",
         Connect(s), hooks' \subseteq hooks, repeats' \in 0 .. MaxRepeats,
         UNCHANGED <<worker, caller, kafka, importable>>
  PROVE  IInv'
<1>1. /\ state' = Mark(s, "connected")
      /\ task' = [task EXCEPT ![s] = [Cancelled(s) EXCEPT !["call"] = "sleep"]]
      /\ current' = [current EXCEPT ![s] = "call"]
      /\ UNCHANGED <<room, listed, byRoom, tries, reports>>
  BY DEF Connect
<1>2. "connected" \in Active \cup Final
  BY DEF Active
<1>3. /\ state' \in [Sessions -> {"unborn"} \cup Active \cup Final]
      /\ state'[s] = "connected"
      /\ \A t \in Sessions \ {s} : state'[t] = state[t]
  BY <1>1, <1>2, Marking DEF IInv
<1>4. /\ Cancelled(s) \in [Kinds -> Places]
      /\ \A k \in Kinds : Cancelled(s)[k] \in {task[s][k], "none"}
  BY Cancelling DEF IInv
<1>5. /\ task' \in [Sessions -> [Kinds -> Places]]
      /\ \A t \in Sessions \ {s} : task'[t] = task[t]
      /\ \A k \in Kinds \ {"call"} : task'[s][k] \in {task[s][k], "none"}
      /\ task'[s]["call"] = "sleep"
  BY <1>1, <1>4 DEF IInv, TypeOK, Kinds, Places
<1>6. TypeOK'
  BY <1>1, <1>3, <1>5 DEF IInv, TypeOK
<1>7. IndexInv'
  <2>1. \A t \in Sessions : state[t] # "unborn" => state'[t] # "unborn"
    BY <1>3
  <2> QED
    BY <1>1, <2>1, IndexStays DEF IInv
<1>8. ReportsFit(s)'
  BY <1>1, <1>3, <1>5
     DEF IInv, SessionInv, ReportsFit, Final, Kinds, Asking
<1>9. TasksFit(s)'
  <2>1. ASSUME NEW k \in Kinds
        PROVE  /\ task[s][k] \notin Ending
               /\ task[s][k] \in Asking => k \in {"joined", "outbound"}
                                           /\ task[s]["ringing"] = "none"
    BY DEF IInv, SessionInv, TasksFit, Final
  <2>2. ~(task[s]["joined"] \in Asking /\ task[s]["outbound"] \in Asking)
    BY DEF IInv, SessionInv, TasksFit
  <2>3. ASSUME NEW k \in Kinds
        PROVE  /\ task'[s][k] \notin Ending
               /\ task'[s][k] \in Asking => /\ k \in {"joined", "outbound"}
                                            /\ task'[s]["ringing"] = "none"
    BY <1>5, <2>1 DEF Kinds, Asking, Ending
  <2>4. ~(task'[s]["joined"] \in Asking /\ task'[s]["outbound"] \in Asking)
    BY <1>5, <2>2 DEF Kinds, Asking
  <2> QED
    BY <1>3, <2>3, <2>4 DEF TasksFit
<1>10. Placed(s)'
  BY <1>1, <1>3 DEF IInv, SessionInv, Placed
<1>11. \A t \in Sessions : SessionInv(t)'
  BY <1>1, <1>3, <1>5, <1>8, <1>9, <1>10, OneSessionMoves DEF IInv, SessionInv
<1> QED
  BY <1>6, <1>7, <1>11 DEF IInv

LEMMA JoinedKnownStep ==
  ASSUME IInv, NEW r \in Rooms, NEW event, JoinedKnown(r, event)
  PROVE  IInv'
<1>1. Take(event, r)
  BY DEF JoinedKnown
<1>2. CASE Found(r) /\ state[byRoom[r]] = "ringing"
  <2>1. PICK s \in Sessions : s = byRoom[r] /\ s \in listed
    BY <1>2, FoundIsListed DEF IInv
  <2>2. Connect(s) /\ state[s] = "ringing"
    BY <1>2, <2>1 DEF JoinedKnown
  <2> QED
    BY <1>1, <2>1, <2>2, Taking, ConnectStep DEF IInv
<1>3. CASE ~(Found(r) /\ state[byRoom[r]] = "ringing")
  BY <1>1, <1>3, IgnoredStep DEF JoinedKnown
<1> QED
  BY <1>2, <1>3

\* The shape of every step that ends a listed session and reports it: the
\* coroutine that does so goes to its ending, others may be cancelled.
LEMMA EndingStep ==
  ASSUME IInv, NEW s \in Sessions, s \in listed, state[s] \in Active,
         NEW event \in Final, NEW k \in Kinds, task[s][k] \notin Asking,
         k = "ringing" => task[s][k] = "sleep",
         state' = Mark(s, event), reports' = Reported(s, event),
         event = "failed" => task[s]["joined"] \notin Asking,
         task' \in [Sessions -> [Kinds -> Places]],
         \A t \in Sessions \ {s} : task'[t] = task[t],
         task'[s][k] = AfterEnd,
         \A j \in Kinds \ {k} : task'[s][j] \in {task[s][j], "none"},
         current' \in [Sessions -> {"none", "ringing", "call"}],
         UNCHANGED <<room, listed, byRoom, tries, worker, caller, kafka,
                     importable>>,
         hooks' \subseteq hooks, repeats' \in 0 .. MaxRepeats
  PROVE  IInv'
<1>1. /\ state' \in [Sessions -> {"unborn"} \cup Active \cup Final]
      /\ state'[s] = event
      /\ \A t \in Sessions \ {s} : state'[t] = state[t]
  BY Marking DEF IInv
<1>2. reports[s] = <<>>
  BY DEF IInv, SessionInv, ReportsFit, Active, Final
<1>3. /\ reports' \in [Sessions -> Seq(Final)]
      /\ reports'[s] \in {<<>>, <<event>>}
      /\ \A t \in Sessions \ {s} : reports'[t] = reports[t]
  BY <1>2, Reporting DEF IInv
<1>4. TypeOK'
  BY <1>1, <1>3 DEF IInv, TypeOK
<1>5. IndexInv'
  <2>1. \A t \in Sessions : state[t] # "unborn" => state'[t] # "unborn"
    BY <1>1 DEF Final
  <2> QED
    BY <2>1, IndexStays DEF IInv
<1>6. task'[s][k] \in {"report", "wait"}
  BY AfterEndIsEnding
<1>7. ReportsFit(s)'
  <2>1. task'[s]["joined"] \in Asking => task[s]["joined"] \in Asking
    BY <1>6 DEF Kinds, Asking
  <2>2. event \in {"completed", "failed"}
    BY DEF Final
  <2>3. <<"completed">> # <<"failed">> /\ <<event>> # <<"completed", "failed">>
        /\ <<>> # <<"completed", "failed">>
    OBVIOUS
  <2> QED
    BY <1>1, <1>3, <2>1, <2>2, <2>3 DEF ReportsFit
<1>8. TasksFit(s)'
  <2>1. ASSUME NEW j \in Kinds, task'[s][j] \in Asking
        PROVE  j \in {"joined", "outbound"} /\ task'[s]["ringing"] = "none"
    <3>1. j # k /\ task[s][j] \in Asking
      BY <1>6, <2>1 DEF Asking
    <3>2. j \in {"joined", "outbound"} /\ task[s]["ringing"] = "none"
      BY <3>1 DEF IInv, SessionInv, TasksFit
    <3>3. k # "ringing"
      BY <3>2
    <3> QED
      BY <3>2, <3>3 DEF Kinds
  <2>2. ~(task'[s]["joined"] \in Asking /\ task'[s]["outbound"] \in Asking)
    BY <1>6 DEF IInv, SessionInv, TasksFit, Kinds, Asking
  <2> QED
    BY <1>1, <2>1, <2>2 DEF TasksFit, Final
<1>9. Placed(s)'
  BY <1>1 DEF IInv, SessionInv, Placed, Active, Final
<1>10. \A t \in Sessions : SessionInv(t)'
  BY <1>1, <1>3, <1>7, <1>8, <1>9, OneSessionMoves DEF IInv, SessionInv
<1> QED
  BY <1>4, <1>5, <1>10 DEF IInv

LEMMA SipLeftStep ==
  ASSUME IInv, NEW r \in Rooms, SipLeft(r)
  PROVE  IInv'
<1>1. Take("sip_left", r)
  BY DEF SipLeft
<1>2. CASE Leaves(r)
  <2>1. PICK s \in Sessions : s = byRoom[r] /\ s \in listed
    BY <1>2, FoundIsListed DEF IInv, Leaves
  <2>2. /\ state[s] \in Active
        /\ state' = Mark(s, "completed")
        /\ task' = [task EXCEPT ![s] = [Cancelled(s) EXCEPT !["left"] = AfterEnd]]
        /\ current' = [current EXCEPT ![s] = "none"]
        /\ reports' = Reported(s, "completed")
        /\ UNCHANGED <<room, listed, byRoom, tries>>
    BY <1>2, <2>1 DEF SipLeft, Leaves
  <2>3. /\ Cancelled(s) \in [Kinds -> Places]
        /\ \A k \in Kinds : Cancelled(s)[k] \in {task[s][k], "none"}
    BY Cancelling DEF IInv
  <2>4. /\ task' \in [Sessions -> [Kinds -> Places]]
        /\ \A t \in Sessions \ {s} : task'[t] = task[t]
        /\ \A k \in Kinds \ {"left"} : task'[s][k] \in {task[s][k], "none"}
        /\ task'[s]["left"] = AfterEnd
    BY <2>2, <2>3, AfterEndIsEnding DEF IInv, TypeOK, Kinds, Places
  <2>5. task[s]["left"] \notin Asking /\ "left" \in Kinds
    BY DEF IInv, SessionInv, TasksFit, Kinds
  <2>6. current' \in [Sessions -> {"none", "ringing", "call"}]
    BY <2>2 DEF IInv, TypeOK
  <2>7. "completed" \in Final /\ "completed" # "failed" /\ "left" # "ringing"
    BY DEF Final
  <2>8. /\ hooks' \subseteq hooks /\ repeats' \in 0 .. MaxRepeats
        /\ UNCHANGED <<worker, caller, kafka, importable>>
    BY <1>1, Taking DEF IInv
  <2> QED
    BY <2>1, <2>2, <2>4, <2>5, <2>6, <2>7, <2>8, EndingStep
<1>3. CASE ~Leaves(r)
  BY <1>1, <1>3, IgnoredStep DEF SipLeft
<1> QED
  BY <1>2, <1>3

\* The shape of every step that removes a session, which is final afterwards;
\* its coroutines are cancelled or end.
LEMMA RemovingStep ==
  ASSUME IInv, NEW s \in Sessions, Remove(s),
         state' \in [Sessions -> {"unborn"} \cup Active \cup Final],
         \A t \in Sessions \ {s} : state'[t] = state[t],
         state'[s] \in Final, state[s] # "unborn",
         task' \in [Sessions -> [Kinds -> Places]],
         \A t \in Sessions \ {s} : task'[t] = task[t],
         \A k \in Kinds : task'[s][k] \in {task[s][k], "none"},
         current' \in [Sessions -> {"none", "ringing", "call"}],
         UNCHANGED <<room, tries, reports, worker, caller, kafka, importable>>,
         hooks' \subseteq hooks, repeats' \in 0 .. MaxRepeats
  PROVE  IInv'
<1>1. \A t \in Sessions : state[t] # "unborn" => state'[t] # "unborn"
  BY DEF Final
<1>2. IndexInv'
  BY <1>1, IndexShrinks DEF IInv
<1>3. listed' = listed \ {s}
  BY DEF Remove
<1>4. byRoom' \in [Rooms -> Sessions \cup {NoSession}]
  BY DEF IInv, TypeOK, Remove
<1>5. TypeOK'
  BY <1>3, <1>4 DEF IInv, TypeOK
<1>6. ReportsFit(s)'
  <2>1. task'[s]["joined"] \in Asking => task[s]["joined"] \in Asking
    BY DEF Kinds, Asking
  <2> QED
    BY <2>1 DEF IInv, SessionInv, ReportsFit
<1>7. TasksFit(s)'
  <2>1. ASSUME NEW k \in Kinds, task'[s][k] \in Asking
        PROVE  k \in {"joined", "outbound"} /\ task'[s]["ringing"] = "none"
    <3>1. task[s][k] \in Asking
      BY <2>1 DEF Asking
    <3>2. k \in {"joined", "outbound"} /\ task[s]["ringing"] = "none"
      BY <3>1 DEF IInv, SessionInv, TasksFit
    <3> QED
      BY <3>2 DEF Kinds
  <2>2. ~(task'[s]["joined"] \in Asking /\ task'[s]["outbound"] \in Asking)
    BY DEF IInv, SessionInv, TasksFit, Kinds, Asking
  <2> QED
    BY <2>1, <2>2 DEF TasksFit, Final
<1>8. Placed(s)'
  BY DEF IInv, SessionInv, Placed, Active, Final
<1>9. \A t \in Sessions : SessionInv(t)'
  BY <1>3, <1>6, <1>7, <1>8, OneSessionMoves DEF IInv, SessionInv
<1> QED
  BY <1>2, <1>5, <1>9 DEF IInv

LEMMA RoomFinishedStep ==
  ASSUME IInv, NEW r \in Rooms, RoomFinished(r)
  PROVE  IInv'
<1>1. Take("room_finished", r)
  BY DEF RoomFinished
<1>2. CASE Found(r)
  <2>1. PICK s \in Sessions : /\ s = byRoom[r] /\ s \in listed
                              /\ state[s] \in Active \cup Final
    BY <1>2, FoundIsListed DEF IInv
  <2>2. /\ state' = IF state[s] \in Final THEN state ELSE Mark(s, "completed")
        /\ Remove(s)
        /\ task' = [task EXCEPT ![s] = Cancelled(s)]
        /\ current' = [current EXCEPT ![s] = "none"]
        /\ UNCHANGED <<room, tries, reports>>
    BY <1>2, <2>1 DEF RoomFinished
  <2>3. /\ Cancelled(s) \in [Kinds -> Places]
        /\ \A k \in Kinds : Cancelled(s)[k] \in {task[s][k], "none"}
    BY Cancelling DEF IInv
  <2>4. /\ task' \in [Sessions -> [Kinds -> Places]]
        /\ \A t \in Sessions \ {s} : task'[t] = task[t]
        /\ \A k \in Kinds : task'[s][k] \in {task[s][k], "none"}
    BY <2>2, <2>3 DEF IInv, TypeOK
  <2>5. "completed" \in Active \cup Final /\ "completed" \in Final
    BY DEF Final
  <2>6. /\ state' \in [Sessions -> {"unborn"} \cup Active \cup Final]
        /\ \A t \in Sessions \ {s} : state'[t] = state[t]
        /\ state'[s] \in Final /\ state[s] # "unborn"
    <3>1. state[s] # "unborn"
      BY <2>1 DEF Active, Final
    <3>2. CASE state[s] \in Final
      BY <2>2, <3>1, <3>2 DEF IInv, TypeOK
    <3>3. CASE state[s] \notin Final
      BY <2>1, <2>2, <2>5, <3>1, <3>3, Marking DEF IInv
    <3> QED
      BY <3>2, <3>3
  <2>7. current' \in [Sessions -> {"none", "ringing", "call"}]
    BY <2>2 DEF IInv, TypeOK
  <2>8. /\ hooks' \subseteq hooks /\ repeats' \in 0 .. MaxRepeats
        /\ UNCHANGED <<worker, caller, kafka, importable>>
    BY <1>1, Taking DEF IInv
  <2> QED
    BY <2>2, <2>4, <2>6, <2>7, <2>8, RemovingStep
<1>3. CASE ~Found(r)
  BY <1>1, <1>3, IgnoredStep DEF RoomFinished
<1> QED
  BY <1>2, <1>3

-----------------------------------------------------------------------------
(* Coroutines *)

\* A coroutine that is suspended belongs to a session that was registered.
LEMMA SuspendedIsBorn ==
  ASSUME IInv, NEW s \in Sessions, NEW k \in Kinds, task[s][k] # "none"
  PROVE  state[s] # "unborn"
BY DEF IInv, SessionInv, TasksFit

\* A coroutine of a session moves to another place and nothing else of the
\* session changes.
LEMMA TaskMoves ==
  ASSUME IInv, NEW s \in Sessions, NEW k \in Kinds, NEW place \in Places,
         task[s][k] # "none", task' = [task EXCEPT ![s][k] = place],
         UNCHANGED <<manager, current, tries, reports, settings>>,
         place \in Ending => state[s] \in Final,
         place \in Asking => task[s][k] \in Asking,
         worker' \in [Sessions -> {"none", "asked", "in", "gone"}],
         caller' \in [Rooms -> {"none", "dialled", "in", "gone"}],
         hooks' \subseteq Hook, repeats' \in 0 .. MaxRepeats,
         \A t \in Sessions : worker'[t] # "none" => worker[t] # "none",
         \A r \in Rooms : caller[r] # "none" => caller'[r] # "none",
         \A r \in Rooms : [event |-> "sip_joined", room |-> r] \in hooks'
                            => [event |-> "sip_joined", room |-> r] \in hooks
  PROVE  IInv'
<1>1. UNCHANGED <<state, room, listed, byRoom, current, tries, reports, kafka,
                  importable>>
  BY DEF manager, settings
<1>2. /\ task' \in [Sessions -> [Kinds -> Places]]
      /\ \A t \in Sessions \ {s} : task'[t] = task[t]
      /\ \A j \in Kinds \ {k} : task'[s][j] = task[s][j]
      /\ task'[s][k] = place
  BY DEF IInv, TypeOK
<1>3. TypeOK'
  BY <1>1, <1>2 DEF IInv, TypeOK
<1>4. IndexInv'
  BY <1>1, IndexStays DEF IInv
<1>5. ReportsFit(s)'
  <2>1. task'[s]["joined"] \in Asking => task[s]["joined"] \in Asking
    BY <1>2 DEF Kinds
  <2> QED
    BY <1>1, <2>1 DEF IInv, SessionInv, ReportsFit
<1>6. TasksFit(s)'
  <2>1. ASSUME NEW j \in Kinds, task'[s][j] \in Asking
        PROVE  j \in {"joined", "outbound"} /\ task'[s]["ringing"] = "none"
    <3>1. task[s][j] \in Asking
      BY <1>2, <2>1
    <3>2. j \in {"joined", "outbound"} /\ task[s]["ringing"] = "none"
      BY <3>1 DEF IInv, SessionInv, TasksFit
    <3>3. k # "ringing"
      BY <3>2
    <3> QED
      BY <1>2, <3>2, <3>3 DEF Kinds
  <2>2. ~(task'[s]["joined"] \in Asking /\ task'[s]["outbound"] \in Asking)
    BY <1>2 DEF IInv, SessionInv, TasksFit, Kinds
  <2>3. ASSUME NEW j \in Kinds, task'[s][j] \in Ending
        PROVE  state'[s] \in Final
    BY <1>1, <1>2, <2>3 DEF IInv, SessionInv, TasksFit
  <2>4. state'[s] # "unborn"
    BY <1>1, SuspendedIsBorn
  <2> QED
    BY <2>1, <2>2, <2>3, <2>4 DEF TasksFit
<1>7. Placed(s)'
  BY <1>1 DEF IInv, SessionInv, Placed
<1>8. \A t \in Sessions : SessionInv(t)'
  BY <1>1, <1>2, <1>5, <1>6, <1>7, OneSessionMoves DEF IInv, SessionInv
<1> QED
  BY <1>3, <1>4, <1>8 DEF IInv

\* The same when LiveKit is left alone.
LEMMA TaskMovesQuietly ==
  ASSUME IInv, NEW s \in Sessions, NEW k \in Kinds, NEW place \in Places,
         task[s][k] # "none", task' = [task EXCEPT ![s][k] = place],
         UNCHANGED <<manager, current, tries, reports, settings, livekit>>,
         place \in Ending => state[s] \in Final,
         place \in Asking => task[s][k] \in Asking
  PROVE  IInv'
<1>1. UNCHANGED <<worker, caller, hooks, repeats>>
  BY DEF livekit
<1> QED
  BY <1>1, TaskMoves DEF IInv, TypeOK

LEMMA DialledStep ==
  ASSUME IInv, NEW s \in Sessions, Dialled(s)
  PROVE  IInv'
<1>1. /\ "outbound" \in Kinds /\ "submit" \in Places \ Ending
      /\ "calling" \in Asking /\ "calling" # "none"
  BY DEF Kinds, Places, Ending, Asking
<1> QED
  BY <1>1, TaskMovesQuietly DEF Dialled

LEMMA ReportDoneStep ==
  ASSUME IInv, NEW s \in Sessions, NEW k \in Kinds, ReportDone(s, k)
  PROVE  IInv'
<1>1. PICK place \in {"record", "wait"} :
        task' = [task EXCEPT ![s][k] = place]
  BY DEF ReportDone
<1>2. /\ place \in Places /\ place \notin Asking
      /\ task[s][k] = "report"
      /\ UNCHANGED <<manager, current, tries, reports, settings, livekit>>
  BY DEF ReportDone, Places, Asking
<1>3. state[s] \in Final
  BY <1>2 DEF IInv, SessionInv, TasksFit, Ending
<1> QED
  BY <1>1, <1>2, <1>3, TaskMovesQuietly

LEMMA RecordDoneStep ==
  ASSUME IInv, NEW s \in Sessions, RecordDone(s)
  PROVE  IInv'
<1>1. /\ "left" \in Kinds /\ "wait" \in Places /\ "wait" \notin Asking
      /\ "record" \in Ending /\ "record" # "none"
  BY DEF Kinds, Places, Ending, Asking
<1>2. state[s] \in Final
  BY <1>1 DEF RecordDone, IInv, SessionInv, TasksFit
<1> QED
  BY <1>1, <1>2, TaskMovesQuietly DEF RecordDone

\* What the deletion of a room does to LiveKit.
LEMMA Deleting ==
  ASSUME TypeOK, NEW r \in Rooms, Delete(r)
  PROVE  /\ worker' \in [Sessions -> {"none", "asked", "in", "gone"}]
         /\ caller' \in [Rooms -> {"none", "dialled", "in", "gone"}]
         /\ hooks' \subseteq Hook /\ repeats' = repeats
         /\ \A t \in Sessions : worker'[t] # "none" => worker[t] # "none"
         /\ \A q \in Rooms : caller[q] # "none" => caller'[q] # "none"
         /\ \A q \in Rooms :
              [event |-> "sip_joined", room |-> q] \in hooks'
                => [event |-> "sip_joined", room |-> q] \in hooks
<1>1. /\ worker' = [s \in Sessions |-> IF s \in Served(r) THEN "gone"
                                                         ELSE worker[s]]
      /\ \A s \in Served(r) : worker[s] = "in"
  BY DEF Delete, Served
<1>2. /\ worker' \in [Sessions -> {"none", "asked", "in", "gone"}]
      /\ \A t \in Sessions : worker'[t] # "none" => worker[t] # "none"
  BY <1>1 DEF TypeOK
<1>3. /\ caller' \in [Rooms -> {"none", "dialled", "in", "gone"}]
      /\ \A q \in Rooms : caller[q] # "none" => caller'[q] # "none"
  BY DEF TypeOK, Delete
<1>4. \A h \in hooks' : h \in hooks
                        \/ h = [event |-> "sip_left", room |-> r]
                        \/ h = [event |-> "room_finished", room |-> r]
  BY DEF Delete, Empties
<1>5. hooks' \subseteq Hook
  BY <1>4 DEF TypeOK, Hook
<1>6. \A q \in Rooms : [event |-> "sip_joined", room |-> q] \in hooks'
                         => [event |-> "sip_joined", room |-> q] \in hooks
  BY <1>4
<1> QED
  BY <1>2, <1>3, <1>5, <1>6 DEF Delete

LEMMA DeleteRoomStep ==
  ASSUME IInv, NEW s \in Sessions, NEW k \in Kinds, DeleteRoom(s, k)
  PROVE  IInv'
<1>1. /\ task[s][k] = "wait" /\ task' = [task EXCEPT ![s][k] = "delete"]
      /\ UNCHANGED <<manager, current, tries, reports, settings>>
      /\ "delete" \in Places /\ "delete" \notin Asking
  BY DEF DeleteRoom, Places, Asking
<1>2. state[s] \in Final
  BY <1>1 DEF IInv, SessionInv, TasksFit, Ending
<1>3. room[s] \in Rooms
  BY <1>2 DEF IInv, SessionInv, Placed, Final
<1>4. CASE Delete(room[s])
  BY <1>1, <1>2, <1>3, <1>4, Deleting, TaskMoves DEF IInv, TypeOK
<1>5. CASE UNCHANGED livekit
  BY <1>1, <1>2, <1>5, TaskMovesQuietly
<1> QED
  BY <1>4, <1>5 DEF DeleteRoom

LEMMA CleanupEndsStep ==
  ASSUME IInv, NEW s \in Sessions, NEW k \in Kinds, CleanupEnds(s, k)
  PROVE  IInv'
<1>1. /\ task[s][k] = "delete" /\ Remove(s)
      /\ task' = [task EXCEPT ![s] = [Cancelled(s) EXCEPT ![k] = "none"]]
      /\ current' = [current EXCEPT ![s] = "none"]
      /\ UNCHANGED <<state, room, tries, reports, worker, caller, hooks,
                     repeats, kafka, importable>>
  BY DEF CleanupEnds, settings, livekit
<1>2. state[s] \in Final /\ state[s] # "unborn"
  BY <1>1 DEF IInv, SessionInv, TasksFit, Ending, Final
<1>3. /\ Cancelled(s) \in [Kinds -> Places]
      /\ \A j \in Kinds : Cancelled(s)[j] \in {task[s][j], "none"}
  BY Cancelling DEF IInv
<1>4. /\ task' \in [Sessions -> [Kinds -> Places]]
      /\ \A t \in Sessions \ {s} : task'[t] = task[t]
      /\ \A j \in Kinds : task'[s][j] \in {task[s][j], "none"}
  BY <1>1, <1>3 DEF IInv, TypeOK, Places
<1>5. current' \in [Sessions -> {"none", "ringing", "call"}]
  BY <1>1 DEF IInv, TypeOK
<1> QED
  BY <1>1, <1>2, <1>4, <1>5, RemovingStep DEF IInv, TypeOK

\* Both watchdogs: one finds its session as it left it and ends it, or it
\* stops.
LEMMA WatchdogStep ==
  ASSUME IInv, NEW s \in Sessions, NEW k \in {"ringing", "call"},
         NEW event \in Final, task[s][k] = "sleep",
         event = "failed" => k = "ringing",
         \/ /\ s \in listed /\ state[s] \in Active
            /\ state' = Mark(s, event) /\ reports' = Reported(s, event)
            /\ task' = [task EXCEPT ![s][k] = AfterEnd]
         \/ /\ task' = [task EXCEPT ![s][k] = "none"]
            /\ UNCHANGED <<state, reports>>,
         UNCHANGED <<room, listed, byRoom, current, tries, settings, livekit>>
  PROVE  IInv'
<1>1. k \in Kinds /\ task[s][k] \notin Asking
  BY DEF Kinds, Asking
<1>2. CASE /\ s \in listed /\ state[s] \in Active
           /\ state' = Mark(s, event) /\ reports' = Reported(s, event)
           /\ task' = [task EXCEPT ![s][k] = AfterEnd]
  <2>1. AfterEnd \in Places
    BY AfterEndIsEnding DEF Places
  <2>2. /\ task' \in [Sessions -> [Kinds -> Places]]
        /\ \A t \in Sessions \ {s} : task'[t] = task[t]
        /\ task'[s][k] = AfterEnd
        /\ \A j \in Kinds \ {k} : task'[s][j] \in {task[s][j], "none"}
    BY <1>1, <1>2, <2>1 DEF IInv, TypeOK
  <2>3. event = "failed" => task[s]["joined"] \notin Asking
    BY DEF IInv, SessionInv, TasksFit, Kinds
  <2>4. /\ current' \in [Sessions -> {"none", "ringing", "call"}]
        /\ UNCHANGED <<room, listed, byRoom, tries, worker, caller, kafka,
                       importable>>
        /\ hooks' \subseteq hooks /\ repeats' \in 0 .. MaxRepeats
    BY DEF settings, livekit, IInv, TypeOK
  <2> QED
    BY <1>1, <1>2, <2>2, <2>3, <2>4, EndingStep
<1>3. CASE /\ task' = [task EXCEPT ![s][k] = "none"]
           /\ UNCHANGED <<state, reports>>
  <2>1. "none" \in Places /\ "none" \notin Ending /\ "none" \notin Asking
    BY DEF Places, Ending, Asking
  <2> QED
    BY <1>1, <1>3, <2>1, TaskMovesQuietly DEF manager
<1> QED
  BY <1>2, <1>3

LEMMA RingingTimeoutStep ==
  ASSUME IInv, NEW s \in Sessions, RingingTimeout(s)
  PROVE  IInv'
<1>1. "failed" \in Final /\ "ringing" \in Active
  BY DEF Final, Active
<1> QED
  BY <1>1, WatchdogStep DEF RingingTimeout, StillRings

LEMMA CallTimeoutStep ==
  ASSUME IInv, NEW s \in Sessions, CallTimeout(s)
  PROVE  IInv'
<1>1. "completed" \in Final /\ "connected" \in Active /\ "completed" # "failed"
  BY DEF Final, Active
<1> QED
  BY <1>1, WatchdogStep DEF CallTimeout

\* A worker is asked for, and the watchdog of the ringing starts.
LEMMA DispatchedStep ==
  ASSUME IInv, NEW s \in Sessions, NEW k \in Kinds, Submitting(s, k),
         Ask(s), Dispatched(s, k), UNCHANGED settings
  PROVE  IInv'
<1>1. /\ task[s][k] = "submit" /\ k \in {"joined", "outbound"}
      /\ task' = [task EXCEPT ![s][k] = "none", ![s]["ringing"] = "sleep"]
      /\ current' = [current EXCEPT ![s] = "ringing"]
      /\ worker' = [worker EXCEPT ![s] = "asked"]
      /\ UNCHANGED <<state, room, listed, byRoom, tries, reports, kafka,
                     importable, caller, hooks, repeats>>
  BY DEF Submitting, Ask, Dispatched, settings, manager
<1>2. state[s] # "unborn"
  BY <1>1, SuspendedIsBorn
<1>3. /\ task' \in [Sessions -> [Kinds -> Places]]
      /\ \A t \in Sessions \ {s} : task'[t] = task[t]
      /\ \A j \in Kinds \ {k, "ringing"} : task'[s][j] = task[s][j]
      /\ task'[s][k] = "none" /\ task'[s]["ringing"] = "sleep"
  BY <1>1 DEF IInv, TypeOK, Kinds, Places
<1>4. /\ worker' \in [Sessions -> {"none", "asked", "in", "gone"}]
      /\ \A t \in Sessions \ {s} : worker'[t] = worker[t]
      /\ current' \in [Sessions -> {"none", "ringing", "call"}]
  BY <1>1 DEF IInv, TypeOK
<1>5. TypeOK'
  BY <1>1, <1>3, <1>4 DEF IInv, TypeOK
<1>6. IndexInv'
  BY <1>1, IndexStays DEF IInv
<1>7. \A j \in Kinds : task'[s][j] \notin Asking
  <2>1. ASSUME NEW j \in Kinds, task'[s][j] \in Asking
        PROVE  FALSE
    <3>1. j # k /\ j # "ringing" /\ task[s][j] \in Asking
      BY <1>3, <2>1 DEF Asking
    <3>2. j \in {"joined", "outbound"}
      BY <3>1 DEF IInv, SessionInv, TasksFit
    <3>3. task[s]["joined"] \in Asking /\ task[s]["outbound"] \in Asking
      BY <1>1, <3>1, <3>2 DEF Asking
    <3> QED
      BY <3>3 DEF IInv, SessionInv, TasksFit
  <2> QED
    BY <2>1
<1>8. ReportsFit(s)'
  BY <1>1, <1>7 DEF IInv, SessionInv, ReportsFit, Kinds
<1>9. TasksFit(s)'
  <2>1. ASSUME NEW j \in Kinds, task'[s][j] \in Ending
        PROVE  state'[s] \in Final
    <3>1. task[s][j] \in Ending
      BY <1>3, <2>1 DEF Ending
    <3> QED
      BY <1>1, <3>1 DEF IInv, SessionInv, TasksFit
  <2>2. state'[s] # "unborn"
    BY <1>1, <1>2
  <2>3. "joined" \in Kinds
    BY DEF Kinds
  <2> QED
    BY <1>7, <2>1, <2>2, <2>3 DEF TasksFit
<1>10. Placed(s)'
  BY <1>1, <1>2 DEF IInv, SessionInv, Placed
<1>11. \A t \in Sessions : SessionInv(t)'
  BY <1>1, <1>3, <1>4, <1>8, <1>9, <1>10, OneSessionMoves DEF IInv, SessionInv
<1> QED
  BY <1>5, <1>6, <1>11 DEF IInv

LEMMA SpawnFailsStep ==
  ASSUME IInv, NEW s \in Sessions, NEW k \in Kinds, SpawnFails(s, k)
  PROVE  IInv'
<1>1. /\ tries[s] < RetryMax /\ tries' = [tries EXCEPT ![s] = @ + 1]
      /\ UNCHANGED <<state, room, listed, byRoom, task, current, reports,
                     kafka, importable, worker, caller, hooks, repeats>>
  BY DEF SpawnFails, manager, settings, livekit
<1>2. /\ tries' \in [Sessions -> 0 .. RetryMax]
      /\ \A t \in Sessions \ {s} : tries'[t] = tries[t]
  <2>1. tries \in [Sessions -> 0 .. RetryMax] /\ RetryMax \in Nat
    BY SipAssumption DEF IInv, TypeOK
  <2> QED
    BY <1>1, <2>1
<1>3. TypeOK'
  BY <1>1, <1>2 DEF IInv, TypeOK
<1>4. IndexInv'
  BY <1>1, IndexStays DEF IInv
<1>5. ReportsFit(s)'
  <2> DEFINE both == <<"completed", "failed">>
             one == <<"completed">>
             other == <<"failed">>
  <2>1. ReportsFit(s)
    BY DEF IInv, SessionInv
  <2>2. tries[s] # RetryMax
    BY <1>1, SipAssumption DEF IInv, TypeOK
  <2>3. reports[s] # both
    BY <2>1, <2>2 DEF ReportsFit
  <2>4. /\ state'[s] \notin Final => reports'[s] = <<>>
        /\ task'[s]["joined"] \in Asking => reports'[s] \in {<<>>, one}
        /\ reports'[s] \in {<<>>, one, other, both}
    BY <1>1, <2>1 DEF ReportsFit
  <2>5. reports'[s] # both
    BY <1>1, <2>3
  <2> QED
    BY <2>4, <2>5 DEF ReportsFit
<1>6. TasksFit(s)' /\ Placed(s)'
  BY <1>1 DEF IInv, SessionInv, TasksFit, Placed
<1>7. \A t \in Sessions : SessionInv(t)'
  BY <1>1, <1>2, <1>5, <1>6, OneSessionMoves DEF IInv, SessionInv
<1> QED
  BY <1>3, <1>4, <1>7 DEF IInv

\* A session is marked as failed whatever happened to it meanwhile.
LEMMA MarkedFailed ==
  ASSUME IInv, NEW s \in Sessions, state[s] # "unborn"
  PROVE  /\ Mark(s, "failed") \in [Sessions -> {"unborn"} \cup Active \cup Final]
         /\ \A t \in Sessions \ {s} : Mark(s, "failed")[t] = state[t]
         /\ Mark(s, "failed")[s] \in Final
<1>1. "failed" \in Active \cup Final /\ "failed" \in Final
  BY DEF Final
<1>2. s \notin listed => state[s] \in Final
  BY DEF IInv, SessionInv, Placed, TypeOK
<1> QED
  BY <1>1, <1>2, Marking DEF IInv

\* No worker can be had: the call is failed, its caller may have left.
LEMMA JoinedFailsStep ==
  ASSUME IInv, NEW s \in Sessions, JoinedFails(s)
  PROVE  IInv'
<1>1. /\ task[s]["joined"] = "submit" /\ ~importable /\ tries[s] = RetryMax
      /\ state' = Mark(s, "failed")
      /\ task' = [task EXCEPT ![s] = [Cancelled(s) EXCEPT !["joined"] = AfterEnd]]
      /\ current' = [current EXCEPT ![s] = "none"]
      /\ reports' = Reported(s, "failed")
      /\ UNCHANGED <<room, listed, byRoom, tries, kafka, importable, worker,
                     caller, hooks, repeats>>
  BY DEF JoinedFails, GivesUp, MustSpawn, Submitting, settings, livekit
<1>2. "joined" \in Kinds /\ "submit" \in Asking /\ "submit" # "none"
  BY DEF Kinds, Asking
<1>3. state[s] # "unborn"
  BY <1>1, <1>2, SuspendedIsBorn
<1>4. /\ state' \in [Sessions -> {"unborn"} \cup Active \cup Final]
      /\ \A t \in Sessions \ {s} : state'[t] = state[t]
      /\ state'[s] \in Final
  BY <1>1, <1>3, MarkedFailed
<1>5. /\ Cancelled(s) \in [Kinds -> Places]
      /\ \A k \in Kinds : Cancelled(s)[k] \in {task[s][k], "none"}
  BY Cancelling DEF IInv
<1>6. /\ task' \in [Sessions -> [Kinds -> Places]]
      /\ \A t \in Sessions \ {s} : task'[t] = task[t]
      /\ \A k \in Kinds \ {"joined"} : task'[s][k] \in {task[s][k], "none"}
      /\ task'[s]["joined"] \in {"report", "wait"}
  BY <1>1, <1>2, <1>5, AfterEndIsEnding DEF IInv, TypeOK, Places
<1>7. reports[s] \in {<<>>, <<"completed">>}
  BY <1>1, <1>2 DEF IInv, SessionInv, ReportsFit
<1>8. /\ reports' \in [Sessions -> Seq(Final)]
      /\ \A t \in Sessions \ {s} : reports'[t] = reports[t]
      /\ reports'[s] \in {<<>>, <<"completed">>, <<"failed">>,
                          <<"completed", "failed">>}
  <2>1. "failed" \in Final
    BY DEF Final
  <2>2. /\ reports' \in [Sessions -> Seq(Final)]
        /\ \A t \in Sessions \ {s} : reports'[t] = reports[t]
        /\ reports[s] = <<>> => reports'[s] \in {<<>>, <<"failed">>}
        /\ reports[s] = <<"completed">> =>
             reports'[s] \in {<<"completed">>, <<"completed", "failed">>}
    BY <1>1, <2>1, Reporting DEF IInv
  <2> QED
    BY <1>7, <2>2
<1>9. current' \in [Sessions -> {"none", "ringing", "call"}]
  BY <1>1 DEF IInv, TypeOK
<1>10. TypeOK'
  BY <1>1, <1>4, <1>6, <1>8, <1>9 DEF IInv, TypeOK
<1>11. IndexInv'
  <2>1. \A t \in Sessions : state[t] # "unborn" => state'[t] # "unborn"
    BY <1>4 DEF Final
  <2> QED
    BY <1>1, <2>1, IndexStays DEF IInv
<1>12. task'[s]["joined"] \notin Asking
  BY <1>6 DEF Asking
<1>13. ReportsFit(s)'
  BY <1>1, <1>4, <1>8, <1>12 DEF ReportsFit
<1>14. TasksFit(s)'
  <2>1. ASSUME NEW k \in Kinds, task'[s][k] \in Asking
        PROVE  k \in {"joined", "outbound"} /\ task'[s]["ringing"] = "none"
    <3>1. k # "joined" /\ task[s][k] \in Asking
      BY <1>6, <1>12, <2>1 DEF Asking
    <3>2. k \in {"joined", "outbound"} /\ task[s]["ringing"] = "none"
      BY <3>1 DEF IInv, SessionInv, TasksFit
    <3> QED
      BY <1>6, <3>2 DEF Kinds
  <2>2. state'[s] # "unborn"
    BY <1>4 DEF Final
  <2> QED
    BY <1>4, <1>12, <2>1, <2>2 DEF TasksFit
<1>15. Placed(s)'
  BY <1>1, <1>3, <1>4 DEF IInv, SessionInv, Placed, Active, Final
<1>16. \A t \in Sessions : SessionInv(t)'
  BY <1>1, <1>4, <1>6, <1>8, <1>13, <1>14, <1>15, OneSessionMoves
     DEF IInv, SessionInv
<1> QED
  BY <1>10, <1>11, <1>16 DEF IInv

\* POST /sip/outbound-call answers with an error.
LEMMA OutboundEndsStep ==
  ASSUME IInv, NEW s \in Sessions, task[s]["outbound"] # "none",
         state' = Mark(s, "failed"), Remove(s),
         task' = [task EXCEPT ![s]["outbound"] = "none"],
         UNCHANGED <<room, current, tries, reports, settings, livekit>>
  PROVE  IInv'
<1>1. "outbound" \in Kinds
  BY DEF Kinds
<1>2. state[s] # "unborn"
  BY <1>1, SuspendedIsBorn
<1>3. /\ state' \in [Sessions -> {"unborn"} \cup Active \cup Final]
      /\ \A t \in Sessions \ {s} : state'[t] = state[t]
      /\ state'[s] \in Final
  BY <1>2, MarkedFailed
<1>4. /\ task' \in [Sessions -> [Kinds -> Places]]
      /\ \A t \in Sessions \ {s} : task'[t] = task[t]
      /\ \A k \in Kinds : task'[s][k] \in {task[s][k], "none"}
  BY <1>1 DEF IInv, TypeOK, Places
<1>5. /\ UNCHANGED <<room, tries, reports, worker, caller, kafka, importable>>
      /\ hooks' = hooks /\ repeats' = repeats /\ current' = current
  BY DEF settings, livekit
<1> QED
  BY <1>2, <1>3, <1>4, <1>5, RemovingStep DEF IInv, TypeOK

LEMMA DialFailsStep ==
  ASSUME IInv, NEW s \in Sessions, DialFails(s)
  PROVE  IInv'
BY OutboundEndsStep DEF DialFails

LEMMA OutboundFailsStep ==
  ASSUME IInv, NEW s \in Sessions, OutboundFails(s)
  PROVE  IInv'
BY OutboundEndsStep DEF OutboundFails, GivesUp, MustSpawn, Submitting

LEMMA TaskRunsStep ==
  ASSUME IInv, NEW s \in Sessions, NEW k \in Kinds, TaskRuns(s, k)
  PROVE  IInv'
<1>1. CASE SubmitSucceeds(s, k) \/ SpawnDirect(s, k)
  BY <1>1, DispatchedStep DEF SubmitSucceeds, SpawnDirect, MustSpawn
<1>2. CASE SpawnFails(s, k)
  BY <1>2, SpawnFailsStep
<1>3. CASE JoinedFails(s)
  BY <1>3, JoinedFailsStep
<1>4. CASE Dialled(s) \/ DialFails(s) \/ OutboundFails(s)
  BY <1>4, DialledStep, DialFailsStep, OutboundFailsStep
<1>5. CASE RingingTimeout(s) \/ CallTimeout(s)
  BY <1>5, RingingTimeoutStep, CallTimeoutStep
<1>6. CASE RecordDone(s) \/ ReportDone(s, k)
  BY <1>6, RecordDoneStep, ReportDoneStep
<1>7. CASE DeleteRoom(s, k) \/ CleanupEnds(s, k)
  BY <1>7, DeleteRoomStep, CleanupEndsStep
<1> QED
  BY <1>1, <1>2, <1>3, <1>4, <1>5, <1>6, <1>7 DEF TaskRuns

-----------------------------------------------------------------------------
(* LiveKit and the telephone network *)

LEMMA CallerStep ==
  ASSUME IInv, NEW r \in Rooms, CallerJoins(r) \/ CallerHangsUp(r)
  PROVE  IInv'
<1>1. UNCHANGED <<manager, tasks, settings, worker, repeats>>
  BY DEF CallerJoins, CallerHangsUp
<1>2. PICK where \in {"in", "gone"} : caller' = [caller EXCEPT ![r] = where]
  BY DEF CallerJoins, CallerHangsUp
<1>3. /\ caller' \in [Rooms -> {"none", "dialled", "in", "gone"}]
      /\ caller'[r] # "none"
      /\ \A q \in Rooms : caller[q] # "none" => caller'[q] # "none"
  BY <1>2 DEF IInv, TypeOK
<1>4. \A h \in hooks' : \/ h \in hooks
                        \/ h = [event |-> "sip_joined", room |-> r]
                        \/ h = [event |-> "sip_left", room |-> r]
                        \/ h = [event |-> "room_finished", room |-> r]
  BY DEF CallerJoins, CallerHangsUp, Empties
<1>5. hooks' \subseteq Hook
  BY <1>4 DEF IInv, TypeOK, Hook
<1>6. \A q \in Rooms : [event |-> "sip_joined", room |-> q] \in hooks' \ hooks
                         => caller'[q] # "none"
  BY <1>3, <1>4
<1> QED
  BY <1>1, <1>3, <1>5, <1>6, OutsideStep DEF IInv, TypeOK

LEMMA WorkerStep ==
  ASSUME IInv, NEW s \in Sessions, WorkerJoins(s) \/ WorkerLeaves(s)
  PROVE  IInv'
<1>1. UNCHANGED <<manager, tasks, settings, caller, repeats>>
  BY DEF WorkerJoins, WorkerLeaves
<1>2. worker[s] # "none"
  BY DEF WorkerJoins, WorkerLeaves
<1>3. room[s] \in Rooms
  BY <1>2 DEF IInv, SessionInv, Placed
<1>4. PICK where \in {"in", "gone"} : worker' = [worker EXCEPT ![s] = where]
  BY DEF WorkerJoins, WorkerLeaves
<1>5. /\ worker' \in [Sessions -> {"none", "asked", "in", "gone"}]
      /\ \A t \in Sessions : worker'[t] # "none" => worker[t] # "none"
  BY <1>2, <1>4 DEF IInv, TypeOK
<1>6. \A h \in hooks' : \/ h \in hooks
                        \/ h = [event |-> "agent_joined", room |-> room[s]]
                        \/ h = [event |-> "room_finished", room |-> room[s]]
  BY DEF WorkerJoins, WorkerLeaves, Empties
<1>7. hooks' \subseteq Hook
  BY <1>3, <1>6 DEF IInv, TypeOK, Hook
<1>8. \A q \in Rooms : [event |-> "sip_joined", room |-> q] \notin hooks' \ hooks
  BY <1>6
<1> QED
  BY <1>1, <1>5, <1>7, <1>8, OutsideStep DEF IInv, TypeOK

LEMMA WebhookStep ==
  ASSUME IInv, Webhook
  PROVE  IInv'
<1>1. CASE \E h \in Hook : HookRefused(h)
  BY <1>1, HookRefusedStep
<1>2. CASE \E r \in Rooms, s \in Sessions : SipJoinedNew(r, s)
  BY <1>2, SipJoinedNewStep
<1>3. CASE \E r \in Rooms, e \in {"sip_joined", "agent_joined"} :
             JoinedKnown(r, e)
  BY <1>3, JoinedKnownStep
<1>4. CASE \E r \in Rooms : SipLeft(r) \/ RoomFinished(r)
  BY <1>4, SipLeftStep, RoomFinishedStep
<1> QED
  BY <1>1, <1>2, <1>3, <1>4 DEF Webhook

-----------------------------------------------------------------------------
(* The invariant *)

LEMMA Initially == Init => IInv
<1>1. SUFFICES ASSUME Init PROVE IInv
  OBVIOUS
<1>2. TypeOK
  <2>1. <<>> \in Seq(Final) /\ 0 \in 0 .. RetryMax /\ 0 \in 0 .. MaxRepeats
    BY SipAssumption
  <2>2. kafka \in BOOLEAN /\ importable \in BOOLEAN
    BY <1>1 DEF Init
  <2> QED
    BY <1>1, <2>1, <2>2 DEF Init, TypeOK, Places
<1>3. IndexInv
  BY <1>1 DEF Init, IndexInv, Indexed, Pointed, HooksKnown
<1>4. ASSUME NEW s \in Sessions PROVE SessionInv(s)
  <2>1. /\ state[s] = "unborn" /\ reports[s] = <<>> /\ worker[s] = "none"
        /\ \A k \in Kinds : task[s][k] = "none"
    BY <1>1 DEF Init
  <2>2. <<>> # <<"completed", "failed">>
    OBVIOUS
  <2>3. ReportsFit(s)
    BY <2>1, <2>2 DEF ReportsFit
  <2>4. TasksFit(s)
    BY <2>1 DEF TasksFit, Kinds, Asking, Ending
  <2>5. Placed(s)
    BY <2>1 DEF Placed, Active
  <2> QED
    BY <2>3, <2>4, <2>5 DEF SessionInv
<1> QED
  BY <1>2, <1>3, <1>4 DEF IInv

LEMMA StepKeeps == IInv /\ [Next]_vars => IInv'
<1>1. SUFFICES ASSUME IInv, [Next]_vars PROVE IInv'
  OBVIOUS
<1>2. CASE EventLoop
  BY <1>1, <1>2, TaskRunsStep DEF EventLoop
<1>3. CASE Webhook
  BY <1>1, <1>3, WebhookStep
<1>4. CASE \E r \in Rooms, s \in Sessions : OutboundCall(r, s)
  BY <1>1, <1>4, OutboundCallStep
<1>5. CASE Environment
  BY <1>1, <1>5, CallerStep, WorkerStep DEF Environment
<1>6. CASE UNCHANGED vars
  <2>1. /\ UNCHANGED <<manager, tasks, settings>>
        /\ UNCHANGED <<worker, caller, hooks, repeats>>
    BY <1>6 DEF vars, livekit
  <2> QED
    BY <1>1, <2>1, OutsideStep DEF IInv, TypeOK
<1> QED
  BY <1>1, <1>2, <1>3, <1>4, <1>5, <1>6 DEF Next

\* The indices, the coroutines and the reports of the telephone calls fit each
\* other in every reachable state.
THEOREM Invariance == Spec => []IInv
<1> QED
  BY Initially, StepKeeps, PTL DEF Spec

\* Every variable keeps its type for any number of sessions and rooms.
THEOREM TypeCorrect == Spec => []TypeOK
<1>1. IInv => TypeOK
  BY DEF IInv
<1> QED
  BY <1>1, Invariance, PTL

\* The two indices of the session manager agree: a room leads to the one
\* session that is listed for it.
THEOREM IndicesAgree == Spec => []RoomIndexExact
<1>1. ASSUME IInv PROVE RoomIndexExact
  <2>1. SUFFICES ASSUME NEW r \in Rooms
                 PROVE  {s \in listed : room[s] = r} = {byRoom[r]} \ {NoSession}
    BY DEF RoomIndexExact
  <2>2. ASSUME NEW s \in listed, room[s] = r
        PROVE  s = byRoom[r] /\ s # NoSession
    BY <1>1, <2>2, SipAssumption DEF IInv, TypeOK, IndexInv, Indexed
  <2>3. ASSUME byRoom[r] # NoSession
        PROVE  byRoom[r] \in listed /\ room[byRoom[r]] = r
    BY <1>1, <2>3 DEF IInv, IndexInv, Pointed
  <2> QED
    BY <2>2, <2>3
<1> QED
  BY <1>1, Invariance, PTL

\* The end of a call is reported to Kafka once, but for the call_failed of a
\* dispatch that fails after its caller left.
THEOREM OneEndPerCall == Spec => []EndReportedOnce
<1>1. ASSUME IInv PROVE EndReportedOnce
  <2>1. SUFFICES ASSUME NEW s \in Sessions, ~(Len(reports[s]) <= 1)
                 PROVE  /\ ~importable /\ tries[s] = RetryMax
                        /\ reports[s] = <<"completed", "failed">>
    BY DEF EndReportedOnce
  <2>2. ReportsFit(s)
    BY <1>1 DEF IInv, SessionInv
  <2>3. Len(<<>>) <= 1 /\ Len(<<"completed">>) <= 1 /\ Len(<<"failed">>) <= 1
    OBVIOUS
  <2>4. reports[s] = <<"completed", "failed">>
    BY <2>1, <2>2, <2>3 DEF ReportsFit
  <2> QED
    BY <2>2, <2>4 DEF ReportsFit
<1> QED
  BY <1>1, Invariance, PTL

-----------------------------------------------------------------------------
(* The order of a session's states *)

\* What StateMovesOn says of one session.
Moves(s) ==
  \/ <<state[s], state'[s]>> \in
       {<<t, t>> : t \in {"unborn"} \cup Active \cup Final}
         \cup {<<"unborn", "ringing">>, <<"ringing", "connected">>,
               <<"ringing", "failed">>, <<"ringing", "completed">>,
               <<"connected", "completed">>}
  \/ /\ state'[s] = "failed"
     /\ JoinedFails(s) \/ OutboundFails(s) \/ DialFails(s)

LEMMA StaysPut ==
  ASSUME TypeOK, NEW s \in Sessions, state'[s] = state[s]
  PROVE  Moves(s)
<1>1. state[s] \in {"unborn"} \cup Active \cup Final
  BY DEF TypeOK
<1> QED
  BY <1>1 DEF Moves

\* One session is marked, if it is listed.
LEMMA MarkedMoves ==
  ASSUME TypeOK, NEW s \in Sessions, NEW new \in Active \cup Final,
         state' = Mark(s, new),
         s \in listed => \/ <<state[s], new>> \in
                              {<<"ringing", "connected">>, <<"ringing", "failed">>,
                               <<"ringing", "completed">>,
                               <<"connected", "completed">>}
                         \/ /\ new = "failed"
                            /\ JoinedFails(s) \/ OutboundFails(s) \/ DialFails(s)
  PROVE  \A t \in Sessions : Moves(t)
<1>1. \A t \in Sessions \ {s} : state'[t] = state[t]
  BY Marking
<1>2. CASE s \in listed
  <2>1. state'[s] = new
    BY <1>2, Marking
  <2>2. Moves(s)
    BY <1>2, <2>1 DEF Moves
  <2> QED
    BY <1>1, <2>2, StaysPut
<1>3. CASE s \notin listed
  BY <1>1, <1>3, Marking, StaysPut
<1> QED
  BY <1>2, <1>3

LEMMA WebhookMoves ==
  ASSUME IInv, Webhook
  PROVE  \A t \in Sessions : Moves(t)
<1>1. CASE \E h \in Hook : HookRefused(h)
  BY <1>1, StaysPut DEF HookRefused, manager, IInv
<1>2. CASE \E r \in Rooms, s \in Sessions : SipJoinedNew(r, s)
  <2>1. PICK r \in Rooms, s \in Sessions : Register(s, r)
    BY <1>2 DEF SipJoinedNew
  <2>2. /\ state[s] = "unborn" /\ state'[s] = "ringing"
        /\ \A t \in Sessions \ {s} : state'[t] = state[t]
    BY <2>1 DEF Register, Fresh, IInv, TypeOK
  <2>3. Moves(s)
    BY <2>2 DEF Moves
  <2> QED
    BY <2>2, <2>3, StaysPut DEF IInv
<1>3. CASE \E r \in Rooms, e \in {"sip_joined", "agent_joined"} :
             JoinedKnown(r, e)
  <2>1. PICK r \in Rooms, e \in {"sip_joined", "agent_joined"} :
          JoinedKnown(r, e)
    BY <1>3
  <2>2. CASE Found(r) /\ state[byRoom[r]] = "ringing"
    <3>1. PICK s \in Sessions : s = byRoom[r]
      BY <2>2, FoundIsListed DEF IInv
    <3>2. state[s] = "ringing" /\ state' = Mark(s, "connected")
      BY <2>1, <2>2, <3>1 DEF JoinedKnown, Connect
    <3>3. "connected" \in Active \cup Final
      BY DEF Active
    <3> QED
      BY <3>2, <3>3, MarkedMoves DEF IInv
  <2>3. CASE ~(Found(r) /\ state[byRoom[r]] = "ringing")
    BY <2>1, <2>3, StaysPut DEF JoinedKnown, manager, IInv
  <2> QED
    BY <2>2, <2>3
<1>4. CASE \E r \in Rooms : SipLeft(r) \/ RoomFinished(r)
  <2>1. PICK r \in Rooms : SipLeft(r) \/ RoomFinished(r)
    BY <1>4
  <2>2. CASE state' = state
    BY <2>2, StaysPut DEF IInv
  <2>3. CASE state' # state
    <3>1. /\ Found(r) /\ state[byRoom[r]] \notin Final
          /\ state' = Mark(byRoom[r], "completed")
      BY <2>1, <2>3
         DEF SipLeft, RoomFinished, Leaves, manager, Active, Final
    <3>2. PICK s \in Sessions : s = byRoom[r] /\ state[s] \in Active
      BY <3>1, FoundIsListed DEF IInv
    <3>3. "completed" \in Active \cup Final
      BY DEF Final
    <3> QED
      BY <3>1, <3>2, <3>3, MarkedMoves DEF IInv, Active
  <2> QED
    BY <2>2, <2>3
<1> QED
  BY <1>1, <1>2, <1>3, <1>4 DEF Webhook

LEMMA TaskRunsMoves ==
  ASSUME IInv, NEW s \in Sessions, NEW k \in Kinds, TaskRuns(s, k)
  PROVE  \A t \in Sessions : Moves(t)
<1>1. "failed" \in Active \cup Final /\ "completed" \in Active \cup Final
  BY DEF Final
<1>2. CASE JoinedFails(s) \/ DialFails(s) \/ OutboundFails(s)
  <2>1. state' = Mark(s, "failed")
    BY <1>2 DEF JoinedFails, DialFails, OutboundFails
  <2> QED
    BY <1>1, <1>2, <2>1, MarkedMoves DEF IInv
<1>3. CASE RingingTimeout(s)
  <2>1. CASE StillRings(s)
    BY <1>1, <1>3, <2>1, MarkedMoves DEF RingingTimeout, StillRings, IInv
  <2>2. CASE ~StillRings(s)
    BY <1>3, <2>2, StaysPut DEF RingingTimeout, IInv
  <2> QED
    BY <2>1, <2>2
<1>4. CASE CallTimeout(s)
  <2>1. CASE s \in listed /\ state[s] = "connected"
    BY <1>1, <1>4, <2>1, MarkedMoves DEF CallTimeout, IInv
  <2>2. CASE ~(s \in listed /\ state[s] = "connected")
    BY <1>4, <2>2, StaysPut DEF CallTimeout, IInv
  <2> QED
    BY <2>1, <2>2
<1>5. CASE \/ SubmitSucceeds(s, k) \/ SpawnDirect(s, k) \/ SpawnFails(s, k)
           \/ Dialled(s) \/ RecordDone(s)
           \/ ReportDone(s, k) \/ DeleteRoom(s, k) \/ CleanupEnds(s, k)
  <2>1. state' = state
    BY <1>5 DEF SubmitSucceeds, SpawnDirect, Dispatched, SpawnFails, Dialled,
                RecordDone, ReportDone, DeleteRoom, CleanupEnds, manager
  <2> QED
    BY <2>1, StaysPut DEF IInv
<1> QED
  BY <1>2, <1>3, <1>4, <1>5 DEF TaskRuns

\* The state of a call moves only forward; only a dispatch or a dial that
\* fails marks a session as failed whatever its state is.
THEOREM StatesMoveOn == Spec => StateMovesOn
<1>1. ASSUME IInv, Next
      PROVE  \A s \in Sessions : Moves(s)
  <2>1. CASE EventLoop
    BY <1>1, <2>1, TaskRunsMoves DEF EventLoop
  <2>2. CASE Webhook
    BY <1>1, <2>2, WebhookMoves
  <2>3. CASE \E r \in Rooms, s \in Sessions : OutboundCall(r, s)
    <3>1. PICK r \in Rooms, s \in Sessions : Register(s, r)
      BY <2>3 DEF OutboundCall
    <3>2. /\ state[s] = "unborn" /\ state'[s] = "ringing"
          /\ \A t \in Sessions \ {s} : state'[t] = state[t]
      BY <1>1, <3>1 DEF Register, Fresh, IInv, TypeOK
    <3>3. Moves(s)
      BY <3>2 DEF Moves
    <3> QED
      BY <1>1, <3>2, <3>3, StaysPut DEF IInv
  <2>4. CASE Environment
    <3>1. state' = state
      BY <2>4 DEF Environment, CallerJoins, CallerHangsUp, WorkerJoins,
                  WorkerLeaves, manager
    <3> QED
      BY <1>1, <3>1, StaysPut DEF IInv
  <2> QED
    BY <1>1, <2>1, <2>2, <2>3, <2>4 DEF Next
<1>2. IInv /\ [Next]_vars =>
        [\A s \in Sessions :
           <<state[s], state'[s]>> \in
             {<<t, t>> : t \in {"unborn"} \cup Active \cup Final}
               \cup {<<"unborn", "ringing">>, <<"ringing", "connected">>,
                     <<"ringing", "failed">>, <<"ringing", "completed">>,
                     <<"connected", "completed">>}
           \/ /\ state'[s] = "failed"
              /\ JoinedFails(s) \/ OutboundFails(s) \/ DialFails(s)]_vars
  BY <1>1, Zenon DEF Moves
<1> QED
  BY <1>2, Invariance, PTL DEF Spec, StateMovesOn
=============================================================================
