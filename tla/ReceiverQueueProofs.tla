------------------------ MODULE ReceiverQueueProofs ------------------------
(***************************************************************************)
(* Proofs about ReceiverQueue for any number of callers and receivers: the *)
(* coroutines of a caller are those his state asks for, the queue is the   *)
(* callers who wait in the order they came, and a caller's room is given   *)
(* to one receiver.  The three need each other: a cancel stops the right   *)
(* coroutine only if the caller's handle is exact, and a receiver finds a  *)
(* caller only once because the queue is exact.                            *)
(***************************************************************************)
EXTENDS ReceiverQueue, TLAPS

\* A receiver's accept is over before he is given the room.
AcceptIsOver == accepting \cap answered = {}

IInv ==
  /\ TypeOK
  /\ OneLoopPerCaller
  /\ InArrivalOrder
  /\ OneReceiver
  /\ AcceptIsOver

-----------------------------------------------------------------------------
(* The queue *)

LEMMA Removal ==
  ASSUME NEW S, NEW q \in Seq(S), NEW i \in DOMAIN q
  PROVE  /\ RemoveAt(q, i) \in Seq(S)
         /\ DOMAIN RemoveAt(q, i) = 1 .. Len(q) - 1
         /\ \A k \in 1 .. Len(q) - 1 :
              RemoveAt(q, i)[k] = IF k < i THEN q[k] ELSE q[k + 1]
<1>1. i \in 1 .. Len(q) /\ Len(q) \in Nat
  OBVIOUS
<1> DEFINE left == SubSeq(q, 1, i - 1)
           right == SubSeq(q, i + 1, Len(q))
<1>2. left \in Seq(S) /\ Len(left) = i - 1
      /\ \A k \in 1 .. i - 1 : left[k] = q[k]
  BY <1>1
<1>3. right \in Seq(S) /\ Len(right) = Len(q) - i
      /\ \A k \in 1 .. Len(q) - i : right[k] = q[k + i]
  BY <1>1
<1>4. RemoveAt(q, i) = left \o right
  BY DEF RemoveAt
<1> HIDE DEF left, right
<1>5. RemoveAt(q, i) \in Seq(S) /\ Len(RemoveAt(q, i)) = Len(q) - 1
  BY <1>1, <1>2, <1>3, <1>4
<1>6. ASSUME NEW k \in 1 .. Len(q) - 1
      PROVE  RemoveAt(q, i)[k] = IF k < i THEN q[k] ELSE q[k + 1]
  <2>1. CASE k < i
    BY <1>1, <1>2, <1>3, <1>4, <2>1
  <2>2. CASE ~(k < i)
    <3>1. (left \o right)[k] = right[k - (i - 1)]
      BY <1>1, <1>2, <1>3, <2>2
    <3>2. k - (i - 1) \in 1 .. Len(q) - i
      BY <1>1, <2>2
    <3>3. right[k - (i - 1)] = q[(k - (i - 1)) + i]
      BY <1>3, <3>2
    <3>4. (k - (i - 1)) + i = k + 1
      BY <1>1
    <3> QED
      BY <1>4, <2>2, <3>1, <3>3, <3>4
  <2> QED
    BY <2>1, <2>2
<1> QED
  BY <1>5, <1>6

\* Whoever leaves the queue leaves the others in their order.
LEMMA LeavingKeepsOrder ==
  ASSUME TypeOK, InArrivalOrder, NEW s \in Sessions, s \in ToSet(queue),
         queue' = Without(s), joined' = joined,
         NEW end \in Places \ Waiting, place' = [place EXCEPT ![s] = end]
  PROVE  queue' \in Seq(Sessions) /\ InArrivalOrder'
<1> DEFINE i == CHOOSE i \in DOMAIN queue : queue[i] = s
<1>1. i \in DOMAIN queue /\ queue[i] = s
  BY DEF ToSet
<1>2. queue' = RemoveAt(queue, i)
  BY DEF Without
<1> HIDE DEF i
<1>3. /\ queue \in Seq(Sessions) /\ DOMAIN queue = 1 .. Len(queue)
      /\ Len(queue) \in Nat /\ i \in 1 .. Len(queue)
  BY <1>1 DEF TypeOK
<1>4. /\ queue' \in Seq(Sessions) /\ DOMAIN queue' = 1 .. Len(queue) - 1
      /\ \A k \in 1 .. Len(queue) - 1 :
           queue'[k] = IF k < i THEN queue[k] ELSE queue[k + 1]
  BY <1>1, <1>2, <1>3, Removal
<1>5. \A j, k \in DOMAIN queue : j < k => joined[queue[j]] < joined[queue[k]]
  BY DEF InArrivalOrder
<1>6. \A j, k \in DOMAIN queue' :
        j < k => joined'[queue'[j]] < joined'[queue'[k]]
  <2> SUFFICES ASSUME NEW j \in DOMAIN queue', NEW k \in DOMAIN queue', j < k
               PROVE  joined[queue'[j]] < joined[queue'[k]]
    OBVIOUS
  <2> DEFINE Was(m) == IF m < i THEN m ELSE m + 1
  <2>1. ASSUME NEW m \in DOMAIN queue'
        PROVE  Was(m) \in DOMAIN queue /\ queue'[m] = queue[Was(m)]
    <3>1. m \in 1 .. Len(queue) - 1
      BY <1>4
    <3>2. m \in 1 .. Len(queue) /\ m + 1 \in 1 .. Len(queue)
      BY <1>3, <3>1
    <3> QED
      BY <1>3, <1>4, <3>1, <3>2
  <2>2. Was(j) < Was(k)
    <3>1. j \in Nat /\ k \in Nat /\ i \in Nat
      BY <1>3, <1>4
    <3> QED
      BY <3>1
  <2> HIDE DEF Was
  <2> QED
    BY <1>5, <2>1, <2>2
<1>7. \A k \in DOMAIN queue : k # i => queue[k] # s
  <2>1. \A t \in Sessions : joined[t] \in Nat
    BY DEF TypeOK
  <2>2. \A k \in DOMAIN queue : queue[k] \in Sessions
    BY <1>3
  <2> QED
    BY <1>1, <1>3, <1>5, <2>1, <2>2
<1>8. ToSet(queue') = ToSet(queue) \ {s}
  <2>1. ASSUME NEW k \in DOMAIN queue' PROVE queue'[k] \in ToSet(queue) \ {s}
    <3>0. k \in 1 .. Len(queue) - 1
      BY <1>4
    <3>1. CASE k < i
      <4>1. k \in DOMAIN queue /\ k # i /\ queue'[k] = queue[k]
        BY <1>3, <1>4, <3>0, <3>1
      <4> QED
        BY <1>7, <4>1 DEF ToSet
    <3>2. CASE ~(k < i)
      <4>1. k + 1 \in DOMAIN queue /\ k + 1 # i /\ queue'[k] = queue[k + 1]
        BY <1>3, <1>4, <3>0, <3>2
      <4> QED
        BY <1>7, <4>1 DEF ToSet
    <3> QED
      BY <3>1, <3>2
  <2>2. ASSUME NEW k \in DOMAIN queue, queue[k] # s
        PROVE  queue[k] \in ToSet(queue')
    <3>1. CASE k < i
      <4>1. k \in DOMAIN queue' /\ queue'[k] = queue[k]
        BY <1>3, <1>4, <3>1
      <4> QED
        BY <4>1 DEF ToSet
    <3>2. CASE k > i
      <4>1. k - 1 \in DOMAIN queue' /\ ~(k - 1 < i) /\ (k - 1) + 1 = k
        BY <1>3, <1>4, <3>2
      <4>2. queue'[k - 1] = queue[k]
        BY <1>4, <4>1
      <4> QED
        BY <4>1, <4>2 DEF ToSet
    <3> QED
      BY <1>1, <1>3, <2>2, <3>1, <3>2
  <2>3. \A t : t \in ToSet(queue') => t \in ToSet(queue) \ {s}
    BY <2>1 DEF ToSet
  <2>4. \A t : t \in ToSet(queue) \ {s} => t \in ToSet(queue')
    BY <2>2 DEF ToSet
  <2> QED
    BY <2>3, <2>4
<1>9. {t \in Sessions : place'[t] \in Waiting}
        = {t \in Sessions : place[t] \in Waiting} \ {s}
  BY DEF TypeOK
<1> QED
  BY <1>4, <1>6, <1>8, <1>9 DEF InArrivalOrder

LEMMA NobodyMoves ==
  ASSUME InArrivalOrder, UNCHANGED <<queue, joined>>,
         \A s \in Sessions : place'[s] \in Waiting <=> place[s] \in Waiting
  PROVE  InArrivalOrder'
<1>1. {s \in Sessions : place'[s] \in Waiting}
        = {s \in Sessions : place[s] \in Waiting}
  OBVIOUS
<1> QED
  BY <1>1 DEF InArrivalOrder

LEMMA InQueue ==
  ASSUME InArrivalOrder, NEW s
  PROVE  s \in ToSet(queue) <=> s \in Sessions /\ place[s] \in Waiting
  BY DEF InArrivalOrder

\* Whoever comes is the last.
LEMMA ComingKeepsOrder ==
  ASSUME TypeOK, InArrivalOrder, NEW s \in Sessions, place[s] = "new",
         queue' = Append(queue, s),
         joined' = [joined EXCEPT ![s] = callers + 1],
         NEW start \in Waiting, place' = [place EXCEPT ![s] = start]
  PROVE  InArrivalOrder'
<1>1. /\ queue \in Seq(Sessions) /\ DOMAIN queue = 1 .. Len(queue)
      /\ Len(queue) \in Nat
      /\ place \in [Sessions -> Places] /\ callers \in Nat
      /\ joined \in [Sessions -> 0 .. callers]
  BY DEF TypeOK
<1>2. /\ DOMAIN queue' = 1 .. Len(queue) + 1
      /\ queue'[Len(queue) + 1] = s
      /\ \A k \in 1 .. Len(queue) : queue'[k] = queue[k]
  BY <1>1
<1>3. s \notin ToSet(queue)
  BY InQueue DEF Waiting
<1>4. \A k \in DOMAIN queue : queue[k] \in Sessions /\ queue[k] # s
  BY <1>1, <1>3 DEF ToSet
<1>5. ASSUME NEW j \in DOMAIN queue', NEW k \in DOMAIN queue', j < k
      PROVE  joined'[queue'[j]] < joined'[queue'[k]]
  <2>1. j \in DOMAIN queue /\ queue'[j] = queue[j]
    BY <1>1, <1>2, <1>5
  <2>2. joined'[queue[j]] = joined[queue[j]] /\ joined[queue[j]] \in 0 .. callers
    BY <1>1, <1>4, <2>1
  <2>3. CASE k \in DOMAIN queue
    <3>1. queue'[k] = queue[k] /\ joined'[queue[k]] = joined[queue[k]]
      BY <1>1, <1>2, <1>4, <2>3
    <3> QED
      BY <1>5, <2>1, <2>2, <2>3, <3>1 DEF InArrivalOrder
  <2>4. CASE k \notin DOMAIN queue
    <3>1. queue'[k] = s /\ joined'[s] = callers + 1
      BY <1>1, <1>2, <2>4
    <3> QED
      BY <1>1, <2>1, <2>2, <3>1
  <2> QED
    BY <2>3, <2>4
<1>6. ToSet(queue') = ToSet(queue) \cup {s}
  <2>1. \A k \in DOMAIN queue' : queue'[k] \in ToSet(queue) \cup {s}
    BY <1>1, <1>2 DEF ToSet
  <2>2. s \in ToSet(queue')
    <3>1. Len(queue) + 1 \in DOMAIN queue'
      BY <1>1, <1>2
    <3> QED
      BY <1>2, <3>1 DEF ToSet
  <2>3. \A k \in DOMAIN queue : queue[k] \in ToSet(queue')
    BY <1>1, <1>2 DEF ToSet
  <2>4. \A t : t \in ToSet(queue') => t \in ToSet(queue) \cup {s}
    BY <2>1 DEF ToSet
  <2>5. \A t : t \in ToSet(queue) => t \in ToSet(queue')
    BY <2>3 DEF ToSet
  <2> QED
    BY <2>2, <2>4, <2>5
<1>7. {t \in Sessions : place'[t] \in Waiting}
        = {t \in Sessions : place[t] \in Waiting} \cup {s}
  BY <1>1
<1> QED
  BY <1>5, <1>6, <1>7 DEF InArrivalOrder

-----------------------------------------------------------------------------
(* The coroutines of a caller *)

Exact(s) ==
  /\ CASE place[s] = "ringing" -> tasks[s] = {"ring"} /\ handle[s] = "ring"
       [] place[s] = "queued" -> /\ \E stage \in Countdown : tasks[s] = {stage}
                                 /\ handle[s] = "count"
       [] OTHER -> tasks[s] = {}
  /\ s \in notes => place[s] \notin {"new", "ringing"}

LEMMA ExactParts ==
  ASSUME NEW s
  PROVE  Exact(s) <=>
           /\ place[s] = "ringing" =>
                tasks[s] = {"ring"} /\ handle[s] = "ring"
           /\ place[s] = "queued" =>
                /\ \E stage \in Countdown : tasks[s] = {stage}
                /\ handle[s] = "count"
           /\ place[s] \notin Waiting => tasks[s] = {}
           /\ s \in notes => place[s] \notin {"new", "ringing"}
<1>1. CASE place[s] = "ringing"
  BY <1>1 DEF Exact, Waiting
<1>2. CASE place[s] = "queued"
  BY <1>2 DEF Exact, Waiting
<1>3. CASE place[s] \notin Waiting
  BY <1>3 DEF Exact, Waiting
<1> QED
  BY <1>1, <1>2, <1>3 DEF Waiting

LEMMA ExactForAll == OneLoopPerCaller <=> \A s \in Sessions : Exact(s)
  BY DEF OneLoopPerCaller, Exact

\* A cancel stops what there is.
LEMMA CancelStopsAll ==
  ASSUME NEW s, Exact(s), place[s] \in Waiting
  PROVE  Cancelled(s) = {}
<1>1. CASE place[s] = "ringing"
  BY <1>1, ExactParts DEF Cancelled
<1>2. CASE place[s] = "queued"
  BY <1>2, ExactParts DEF Cancelled
<1> QED
  BY <1>1, <1>2 DEF Waiting

\* Which coroutine is there tells the state of the caller.
LEMMA CoroutineTells ==
  ASSUME NEW s, Exact(s), NEW stage \in tasks[s]
  PROVE  /\ tasks[s] = {stage}
         /\ stage = "ring" => place[s] = "ringing"
         /\ stage \in Countdown => place[s] = "queued" /\ handle[s] = "count"
  BY ExactParts DEF Waiting, Countdown

LEMMA OneCallerAtATime ==
  ASSUME OneLoopPerCaller, NEW s \in Sessions,
         \A t \in Sessions : t # s => /\ place'[t] = place[t]
                                      /\ tasks'[t] = tasks[t]
                                      /\ handle'[t] = handle[t],
         UNCHANGED notes, Exact(s)'
  PROVE  OneLoopPerCaller'
<1>1. ASSUME NEW t \in Sessions PROVE Exact(t)'
  <2>1. CASE t # s
    <3>1. Exact(t)
      BY ExactForAll
    <3>2. place'[t] = place[t] /\ tasks'[t] = tasks[t]
          /\ handle'[t] = handle[t] /\ notes' = notes
      BY <2>1
    <3> QED
      BY <3>1, <3>2 DEF Exact
  <2> QED
    BY <2>1
<1> QED
  BY <1>1 DEF OneLoopPerCaller, Exact

-----------------------------------------------------------------------------
(* The receivers *)

Who(s) == {h \in Receivers : <<h, s>> \in accepting \cup answered}

Given(s) ==
  /\ place[s] = "accepted" => \E h \in Receivers : Who(s) = {h}
  /\ place[s] # "accepted" => Who(s) = {}

LEMMA GivenForAll == OneReceiver <=> \A s \in Sessions : Given(s)
  BY DEF OneReceiver, Given, Who

\* Most steps give no room to anybody.
LEMMA NobodyAccepts ==
  ASSUME OneReceiver, AcceptIsOver, UNCHANGED <<accepting, answered>>,
         \A s \in Sessions : place'[s] = "accepted" <=> place[s] = "accepted"
  PROVE  OneReceiver' /\ AcceptIsOver'
<1>1. ASSUME NEW s \in Sessions PROVE Given(s)'
  BY GivenForAll DEF Given, Who
<1> QED
  BY <1>1 DEF OneReceiver, Given, Who, AcceptIsOver

-----------------------------------------------------------------------------
(* The steps *)

LEMMA CallerTokenKeeps ==
  ASSUME IInv, NEW s \in Sessions, CallerToken(s)
  PROVE  IInv'
<1> USE DEF IInv
<1>0. /\ place \in [Sessions -> Places]
      /\ tasks \in [Sessions -> SUBSET Stages]
      /\ handle \in [Sessions -> {"none", "ring", "count"}]
      /\ joined \in [Sessions -> 0 .. callers] /\ callers \in Nat
      /\ queue \in Seq(Sessions)
  BY DEF TypeOK
<1>1. /\ place[s] = "new"
      /\ callers' = callers + 1
      /\ joined' = [joined EXCEPT ![s] = callers + 1]
      /\ queue' = Append(queue, s)
      /\ UNCHANGED <<agent, notes, accepting, answered, announced>>
  BY DEF CallerToken, Fresh
<1>2. PICK start \in Waiting, stage \in {"ring", "settle"},
           kind \in {"ring", "count"} :
        /\ place' = [place EXCEPT ![s] = start]
        /\ tasks' = [tasks EXCEPT ![s] = {stage}]
        /\ handle' = [handle EXCEPT ![s] = kind]
        /\ start = "ringing" => stage = "ring" /\ kind = "ring"
        /\ start = "queued" => stage = "settle" /\ kind = "count"
  BY DEF CallerToken, StartCountdown, Waiting
<1>3. TypeOK'
  <2>1. joined' \in [Sessions -> 0 .. callers'] /\ callers' \in Nat
    BY <1>0, <1>1
  <2>2. queue' \in Seq(Sessions)
    BY <1>0, <1>1
  <2>3. place' \in [Sessions -> Places]
        /\ tasks' \in [Sessions -> SUBSET Stages]
        /\ handle' \in [Sessions -> {"none", "ring", "count"}]
    BY <1>0, <1>2 DEF Places, Stages, Countdown
  <2> QED
    BY <1>1, <2>1, <2>2, <2>3 DEF TypeOK
<1>4. OneLoopPerCaller'
  <2>1. /\ place'[s] = "ringing" =>
             tasks'[s] = {"ring"} /\ handle'[s] = "ring"
        /\ place'[s] = "queued" =>
             tasks'[s] = {"settle"} /\ handle'[s] = "count"
        /\ place'[s] \in Waiting
    BY <1>0, <1>2 DEF Waiting
  <2>2. s \notin notes'
    BY <1>1, ExactForAll DEF Exact
  <2>3. Exact(s)'
    BY <2>1, <2>2 DEF Exact, Waiting, Countdown
  <2> QED
    BY <1>0, <1>1, <1>2, <2>3, OneCallerAtATime
<1>5. InArrivalOrder'
  BY <1>1, <1>2, ComingKeepsOrder
<1>6. OneReceiver' /\ AcceptIsOver'
  <2>1. \A t \in Sessions : place'[t] = "accepted" <=> place[t] = "accepted"
    BY <1>0, <1>1, <1>2 DEF Waiting
  <2> QED
    BY <1>1, <2>1, NobodyAccepts
<1> QED
  BY <1>3, <1>4, <1>5, <1>6

\* A caller leaves the queue, by hanging up or by being accepted.
LEMMA LeavingKeepsCoroutines ==
  ASSUME IInv, NEW s \in Sessions, place[s] \in Waiting,
         NEW end \in Places \ Waiting, place' = [place EXCEPT ![s] = end],
         tasks' = [tasks EXCEPT ![s] = Cancelled(s)],
         UNCHANGED <<handle, notes>>, end # "new"
  PROVE  /\ OneLoopPerCaller'
         /\ place' \in [Sessions -> Places]
         /\ tasks' \in [Sessions -> SUBSET Stages]
<1>1. place \in [Sessions -> Places] /\ tasks \in [Sessions -> SUBSET Stages]
  BY DEF IInv, TypeOK
<1>2. Cancelled(s) = {}
  BY CancelStopsAll, ExactForAll DEF IInv
<1>3. /\ place'[s] \notin Waiting /\ tasks'[s] = {}
      /\ place'[s] \notin {"new", "ringing"}
  BY <1>1, <1>2 DEF Waiting
<1>4. Exact(s)'
  BY <1>3 DEF Exact, Waiting
<1>5. OneLoopPerCaller'
  BY <1>1, <1>4, OneCallerAtATime DEF IInv
<1> QED
  BY <1>1, <1>2, <1>5

LEMMA RemoveFromQueueKeeps ==
  ASSUME IInv, NEW s \in Sessions, RemoveFromQueue(s)
  PROVE  IInv'
<1> USE DEF IInv
<1>1. /\ s \in ToSet(queue) /\ queue' = Without(s)
      /\ place' = [place EXCEPT ![s] = "removed"]
      /\ tasks' = [tasks EXCEPT ![s] = Cancelled(s)]
      /\ UNCHANGED <<agent, handle, notes, accepting, answered, announced,
                     joined, callers>>
  BY DEF RemoveFromQueue
<1>2. place[s] \in Waiting /\ "removed" \in Places \ Waiting
  BY <1>1, InQueue DEF Waiting, Places
<1>3. queue' \in Seq(Sessions) /\ InArrivalOrder'
  BY <1>1, <1>2, LeavingKeepsOrder
<1>4. /\ OneLoopPerCaller'
      /\ place' \in [Sessions -> Places]
      /\ tasks' \in [Sessions -> SUBSET Stages]
  BY <1>1, <1>2, LeavingKeepsCoroutines
<1>5. TypeOK'
  BY <1>1, <1>3, <1>4 DEF TypeOK
<1>6. OneReceiver' /\ AcceptIsOver'
  <2>1. \A t \in Sessions : place'[t] = "accepted" <=> place[t] = "accepted"
    BY <1>1, <1>2 DEF TypeOK, Waiting
  <2> QED
    BY <1>1, <2>1, NobodyAccepts
<1> QED
  BY <1>3, <1>4, <1>5, <1>6

LEMMA AcceptCallKeeps ==
  ASSUME IInv, NEW s \in Sessions, NEW h \in Receivers, AcceptCall(h, s)
  PROVE  IInv'
<1> USE DEF IInv
<1>1. /\ s \in ToSet(queue) /\ queue' = Without(s)
      /\ place' = [place EXCEPT ![s] = "accepted"]
      /\ tasks' = [tasks EXCEPT ![s] = Cancelled(s)]
      /\ accepting' = accepting \cup {<<h, s>>}
      /\ UNCHANGED <<agent, handle, notes, answered, announced, joined,
                     callers>>
  BY DEF AcceptCall
<1>2. place[s] \in Waiting /\ "accepted" \in Places \ Waiting
  BY <1>1, InQueue DEF Waiting, Places
<1>3. queue' \in Seq(Sessions) /\ InArrivalOrder'
  BY <1>1, <1>2, LeavingKeepsOrder
<1>4. /\ OneLoopPerCaller'
      /\ place' \in [Sessions -> Places]
      /\ tasks' \in [Sessions -> SUBSET Stages]
  BY <1>1, <1>2, LeavingKeepsCoroutines
<1>5. TypeOK'
  BY <1>1, <1>3, <1>4 DEF TypeOK
<1>6. Who(s) = {}
  BY <1>2, GivenForAll DEF Given, Waiting
<1>7. ASSUME NEW t \in Sessions PROVE Given(t)'
  <2>1. CASE t = s
    <3>1. Who(s)' = {h} /\ place'[s] = "accepted"
      BY <1>1, <1>6 DEF Who, TypeOK
    <3> QED
      BY <2>1, <3>1 DEF Given
  <2>2. CASE t # s
    <3>1. Given(t)
      BY GivenForAll
    <3>2. Who(t)' = Who(t) /\ place'[t] = place[t]
      BY <1>1, <2>2 DEF Who, TypeOK
    <3> QED
      BY <3>1, <3>2 DEF Given
  <2> QED
    BY <2>1, <2>2
<1>8. OneReceiver'
  BY <1>7 DEF OneReceiver, Given, Who
<1>9. AcceptIsOver'
  BY <1>1, <1>6 DEF AcceptIsOver, Who
<1> QED
  BY <1>3, <1>4, <1>5, <1>8, <1>9

LEMMA AcceptedKeeps ==
  ASSUME IInv, NEW s \in Sessions, NEW h \in Receivers, Accepted(h, s)
  PROVE  IInv'
<1> USE DEF IInv
<1>1. /\ <<h, s>> \in accepting /\ accepting' = accepting \ {<<h, s>>}
      /\ \/ answered' = answered \cup {<<h, s>>} /\ UNCHANGED place
         \/ place' = [place EXCEPT ![s] = "lost"] /\ UNCHANGED answered
      /\ UNCHANGED <<agent, queue, tasks, handle, notes, announced, joined,
                     callers>>
  BY DEF Accepted
<1>2. place \in [Sessions -> Places]
  BY DEF TypeOK
<1>3. place[s] = "accepted" /\ Who(s) = {h}
  BY <1>1, GivenForAll DEF Given, Who
<1>4. \A t \in Sessions :
        /\ t # s => place'[t] = place[t]
        /\ place'[t] \in Waiting <=> place[t] \in Waiting
  BY <1>1, <1>2, <1>3 DEF Waiting
<1>5. TypeOK'
  BY <1>1 DEF TypeOK, Places
<1>6. OneLoopPerCaller'
  <2>1. Exact(s) /\ place'[s] \notin Waiting /\ place[s] \notin Waiting
    BY <1>3, <1>4, ExactForAll DEF Waiting
  <2>2. tasks'[s] = {} /\ place'[s] \notin {"new", "ringing"}
    BY <1>1, <1>2, <1>3, <2>1, ExactParts
  <2>3. Exact(s)'
    BY <2>1, <2>2 DEF Exact, Waiting
  <2> QED
    BY <1>1, <1>4, <2>3, OneCallerAtATime
<1>7. InArrivalOrder'
  BY <1>1, <1>4, NobodyMoves
<1>8. ASSUME NEW t \in Sessions PROVE Given(t)'
  <2>1. CASE t # s
    <3>1. Who(t)' = Who(t) /\ place'[t] = place[t]
      BY <1>1, <1>4, <2>1 DEF Who
    <3> QED
      BY <3>1, GivenForAll DEF Given
  <2>2. CASE t = s /\ UNCHANGED place
    <3>1. Who(s)' = {h}
      BY <1>1, <1>2, <1>3, <2>2 DEF Who
    <3> QED
      BY <1>3, <2>2, <3>1 DEF Given
  <2>3. CASE t = s /\ place' = [place EXCEPT ![s] = "lost"]
    <3>1. place'[s] = "lost" /\ UNCHANGED answered
      BY <1>1, <1>2, <1>3, <2>3
    <3>2. \A g \in Receivers : <<g, s>> \in accepting' \cup answered' => FALSE
      BY <1>1, <1>3, <3>1 DEF Who, AcceptIsOver
    <3> QED
      BY <2>3, <3>1, <3>2 DEF Given, Who
  <2> QED
    BY <1>1, <2>1, <2>2, <2>3
<1>9. OneReceiver'
  BY <1>8 DEF OneReceiver, Given, Who
<1>10. AcceptIsOver'
  BY <1>1 DEF AcceptIsOver
<1> QED
  BY <1>5, <1>6, <1>7, <1>9, <1>10

\* From ringing to queued: the page was declined, or rang for 30 s.
LEMMA StopsRinging ==
  ASSUME IInv, NEW s \in Sessions, place[s] = "ringing",
         place' = [place EXCEPT ![s] = "queued"],
         NEW others, others = {}, StartCountdown(s, others),
         UNCHANGED <<agent, queue, notes, accepting, answered, announced,
                     joined, callers>>
  PROVE  IInv'
<1> USE DEF IInv
<1>1. /\ place \in [Sessions -> Places]
      /\ tasks \in [Sessions -> SUBSET Stages]
      /\ handle \in [Sessions -> {"none", "ring", "count"}]
  BY DEF TypeOK
<1>2. /\ tasks' = [tasks EXCEPT ![s] = {"settle"}]
      /\ handle' = [handle EXCEPT ![s] = "count"]
  BY DEF StartCountdown
<1>3. TypeOK'
  <2>1. place' \in [Sessions -> Places]
        /\ tasks' \in [Sessions -> SUBSET Stages]
        /\ handle' \in [Sessions -> {"none", "ring", "count"}]
    BY <1>1, <1>2 DEF Places, Waiting, Stages, Countdown
  <2> QED
    BY <2>1 DEF TypeOK
<1>4. OneLoopPerCaller'
  <2>1. place'[s] = "queued" /\ tasks'[s] = {"settle"} /\ handle'[s] = "count"
    BY <1>1, <1>2
  <2>2. Exact(s)'
    BY <2>1 DEF Exact, Countdown
  <2> QED
    BY <1>1, <1>2, <2>2, OneCallerAtATime
<1>5. InArrivalOrder'
  <2>1. \A t \in Sessions : place'[t] \in Waiting <=> place[t] \in Waiting
    BY <1>1 DEF Waiting
  <2> QED
    BY <2>1, NobodyMoves
<1>6. OneReceiver' /\ AcceptIsOver'
  <2>1. \A t \in Sessions : place'[t] = "accepted" <=> place[t] = "accepted"
    BY <1>1
  <2> QED
    BY <2>1, NobodyAccepts
<1> QED
  BY <1>3, <1>4, <1>5, <1>6

LEMMA DeclineCallKeeps ==
  ASSUME IInv, NEW s \in Sessions, DeclineCall(s)
  PROVE  IInv'
<1>1. Cancelled(s) = {}
  BY CancelStopsAll, ExactForAll DEF IInv, DeclineCall, Waiting
<1> QED
  BY <1>1, StopsRinging DEF DeclineCall

LEMMA RingTimesOutKeeps ==
  ASSUME IInv, NEW s \in Sessions, RingTimesOut(s)
  PROVE  IInv'
<1>1. tasks[s] = {"ring"} /\ place[s] = "ringing"
  BY CoroutineTells, ExactForAll DEF IInv, RingTimesOut
<1>2. s \in ToSet(queue) /\ tasks[s] \ {"ring"} = {}
  BY <1>1, InQueue DEF IInv, Waiting
<1> QED
  BY <1>1, <1>2, StopsRinging DEF RingTimesOut

\* The announcements: the coroutine goes on to its next stage, and a caller
\* who is not queued has none.
LEMMA AnnouncementsKeep ==
  ASSUME IInv, NEW s \in Sessions,
         FirstAnnouncement(s) \/ NextAnnouncement(s) \/ Announced(s)
  PROVE  IInv'
<1> USE DEF IInv
<1>1. PICK from \in Countdown : from \in tasks[s]
  BY DEF FirstAnnouncement, NextAnnouncement, Announced, Countdown
<1>2. tasks[s] = {from} /\ place[s] = "queued" /\ handle[s] = "count"
  BY <1>1, CoroutineTells, ExactForAll
<1>3. s \in Queued
  BY <1>2, InQueue DEF Queued, Waiting
<1>4. PICK to \in Countdown : Goes(s, from, {to})
  <2>1. CASE FirstAnnouncement(s)
    BY <1>2, <2>1 DEF FirstAnnouncement, Countdown
  <2>2. CASE NextAnnouncement(s)
    BY <1>2, <1>3, <2>2 DEF NextAnnouncement, Countdown
  <2>3. CASE Announced(s)
    BY <1>2, <2>3 DEF Announced, Countdown
  <2> QED
    BY <2>1, <2>2, <2>3
<1>5. /\ tasks \in [Sessions -> SUBSET Stages]
      /\ tasks' = [tasks EXCEPT ![s] = {to}]
  BY <1>2, <1>4 DEF Goes, TypeOK
<1>6. UNCHANGED <<agent, queue, place, handle, notes, accepting, answered,
                  joined, callers>>
  BY DEF FirstAnnouncement, NextAnnouncement, Announced
<1>7. announced' = announced \/ announced' = announced \cup {s}
  BY DEF FirstAnnouncement, NextAnnouncement, Announced
<1>8. TypeOK'
  BY <1>4, <1>5, <1>6, <1>7 DEF TypeOK, Stages
<1>9. OneLoopPerCaller'
  <2>1. place'[s] = "queued" /\ tasks'[s] = {to} /\ handle'[s] = "count"
    BY <1>2, <1>5, <1>6
  <2>2. Exact(s)'
    BY <1>4, <2>1 DEF Exact
  <2> QED
    BY <1>5, <1>6, <2>2, OneCallerAtATime
<1>10. InArrivalOrder' /\ OneReceiver' /\ AcceptIsOver'
  BY <1>6, NobodyMoves, NobodyAccepts
<1> QED
  BY <1>8, <1>9, <1>10

\* The agent's status, the messages spoken at once, and no step at all.
LEMMA OthersKeep ==
  ASSUME IInv, notes' \subseteq notes \cup Queued, agent' \in Agent,
         UNCHANGED <<queue, place, tasks, handle, accepting, answered,
                     announced, joined, callers>>
  PROVE  IInv'
<1> USE DEF IInv
<1>0. \A s \in notes' : s \in Sessions /\ (s \in notes \/ place[s] = "queued")
  BY InQueue DEF Queued, TypeOK
<1>1. TypeOK'
  BY <1>0 DEF TypeOK
<1>2. OneLoopPerCaller'
  <2>1. ASSUME NEW s \in Sessions PROVE Exact(s)'
    <3>1. Exact(s)
      BY ExactForAll
    <3> QED
      BY <1>0, <3>1 DEF Exact
  <2> QED
    BY <2>1 DEF OneLoopPerCaller, Exact
<1>3. InArrivalOrder' /\ OneReceiver' /\ AcceptIsOver'
  BY NobodyMoves, NobodyAccepts
<1> QED
  BY <1>1, <1>2, <1>3

LEMMA InitIInv == Init => IInv
<1> SUFFICES ASSUME Init PROVE IInv
  OBVIOUS
<1>1. TypeOK
  BY DEF Init, TypeOK, Agent, Places
<1>2. OneLoopPerCaller
  BY DEF Init, OneLoopPerCaller
<1>3. InArrivalOrder
  BY DEF Init, InArrivalOrder, Waiting, ToSet
<1>4. OneReceiver /\ AcceptIsOver
  BY DEF Init, OneReceiver, AcceptIsOver
<1> QED
  BY <1>1, <1>2, <1>3, <1>4 DEF IInv

LEMMA NextKeeps == IInv /\ [Next]_vars => IInv'
<1> SUFFICES ASSUME IInv, [Next]_vars PROVE IInv'
  OBVIOUS
<1>1. ASSUME NEW s \in Sessions,
             \/ CallerToken(s) \/ RemoveFromQueue(s) \/ DeclineCall(s)
             \/ Resume(s)
      PROVE  IInv'
  BY <1>1, CallerTokenKeeps, RemoveFromQueueKeeps, DeclineCallKeeps,
     RingTimesOutKeeps, AnnouncementsKeep DEF Resume
<1>2. ASSUME NEW s \in Sessions, NEW h \in Receivers,
             AcceptCall(h, s) \/ Accepted(h, s)
      PROVE  IInv'
  BY <1>2, AcceptCallKeeps, AcceptedKeeps
<1>3. ASSUME NEW s \in Sessions, NoteSent(s) PROVE IInv'
  BY <1>3, OthersKeep DEF NoteSent, IInv, TypeOK
<1>4. ASSUME NEW status \in Agent, NEW message \in BOOLEAN,
             UpdateAgentStatus(status, message)
      PROVE  IInv'
  BY <1>4, OthersKeep DEF UpdateAgentStatus
<1>5. CASE UNCHANGED vars
  BY <1>5, OthersKeep DEF vars, IInv, TypeOK
<1> QED
  BY <1>1, <1>2, <1>3, <1>4, <1>5 DEF Next

\* The three are invariants together.
THEOREM Invariance == Spec => []IInv
  BY InitIInv, NextKeeps, PTL DEF Spec

\* The variables keep their types.
THEOREM TypeCorrect == Spec => []TypeOK
<1>1. IInv => TypeOK
  BY DEF IInv
<1> QED
  BY <1>1, Invariance, PTL

\* A caller rings or counts down in exactly one loop, which the entry of the
\* queue knows, and neither outlives his waiting; an immediate message, which
\* nothing cancels, may, but it was begun for one who was queued.
THEOREM LoopsExact == Spec => []OneLoopPerCaller
<1>1. IInv => OneLoopPerCaller
  BY DEF IInv
<1> QED
  BY <1>1, Invariance, PTL

\* The queue is the callers who wait, in the order they came.
THEOREM QueueExact == Spec => []InArrivalOrder
<1>1. IInv => InArrivalOrder
  BY DEF IInv
<1> QED
  BY <1>1, Invariance, PTL

\* An accepted caller belongs to one receiver, however many pressed accept.
THEOREM OneReceiverPerCaller == Spec => []OneReceiver
<1>1. IInv => OneReceiver
  BY DEF IInv
<1> QED
  BY <1>1, Invariance, PTL
=============================================================================
