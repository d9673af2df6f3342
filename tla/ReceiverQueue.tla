--------------------------- MODULE ReceiverQueue ---------------------------
(***************************************************************************)
(* The queue of callers who wait for the receiver (livekit/receiver.py):   *)
(* caller_token, decline_call, remove_from_queue, accept_call and the      *)
(* agent's status, with the coroutines that run for a waiting caller: one  *)
(* that lets the receiver's page ring for 30 s, one that tells him every   *)
(* minute how long it takes, and those that speak a message at once.       *)
(*                                                                         *)
(* Everything is in one process; coroutines interleave at awaits: sleeps,  *)
(* sends to LiveKit and the cleaning of the room in accept_call.  Left     *)
(* out: the wording and the position announced, urgency and department     *)
(* (queue_info only sorts its answer by them) and the synthesis of speech. *)
(***************************************************************************)
EXTENDS Naturals, Sequences, FiniteSets, SequencesExt

CONSTANTS
  Sessions,    \* callers: each asks for a token once
  Receivers,   \* pages of the receiver; any may accept any caller
  Faults       \* "token": a token cannot be generated

ASSUME ReceiverAssumption == Faults \subseteq {"token"}

VARIABLES
  agent,       \* _agent_status
  queue,       \* _caller_queue: the sessions of its entries, in order
  place,       \* the state of each caller's entry, or why it has none
  tasks,       \* the live coroutines of each caller
  handle,      \* entry["countdown_task"]: what a cancel would stop
  notes,       \* callers to whom an immediate message is being sent
  accepting,   \* <<receiver, session>>: suspended calls of accept_call
  answered,    \* <<receiver, session>>: tokens given for the caller's room
  announced,   \* history: callers who were sent an announcement
  joined,      \* entry["joined_at"], as the number of the caller
  callers      \* history: how many callers got a token

vars == <<agent, queue, place, tasks, handle, notes, accepting, answered,
          announced, joined, callers>>

Agent == {"offline", "available", "busy"}

\* "accepted" and "removed" entries are not in the queue any more; "lost":
\* accepted by a receiver who then got no token.
Waiting == {"ringing", "queued"}
Places  == Waiting \cup {"new", "accepted", "removed", "lost"}

\* Where a coroutine is suspended: "ring" is _ringing_loop; _countdown_loop
\* settles for 2.5 s, sends, and waits for a minute.
Countdown == {"settle", "send", "wait"}
Stages    == Countdown \cup {"ring"}

Init ==
  /\ agent = "offline"
  /\ queue = <<>>
  /\ place = [s \in Sessions |-> "new"]
  /\ tasks = [s \in Sessions |-> {}]
  /\ handle = [s \in Sessions |-> "none"]
  /\ notes = {}
  /\ accepting = {} /\ answered = {}
  /\ announced = {}
  /\ joined = [s \in Sessions |-> 0]
  /\ callers = 0

\* The queue without the entry of a session: there is only one.
Without(s) ==
  LET i == CHOOSE i \in DOMAIN queue : queue[i] = s IN RemoveAt(queue, i)

Queued == {s \in ToSet(queue) : place[s] = "queued"}

\* countdown_task.cancel(): the coroutine stops where it is suspended.
Cancelled(s) ==
  CASE handle[s] = "ring"  -> tasks[s] \ {"ring"}
    [] handle[s] = "count" -> tasks[s] \ Countdown
    [] handle[s] = "none"  -> tasks[s]

\* A new _countdown_loop replaces what the entry knows of.
StartCountdown(s, others) ==
  /\ tasks' = [tasks EXCEPT ![s] = others \cup {"settle"}]
  /\ handle' = [handle EXCEPT ![s] = "count"]

-----------------------------------------------------------------------------
(* The callers *)

\* uuid4 gives a session id that is not in use, no matter which.
Fresh(s) == place[s] = "new" /\ s = CHOOSE t \in Sessions : place[t] = "new"

\* Mutant: one the agent may take at once is put in front.
CallerJumps(s) ==
  /\ Fresh(s)
  /\ callers' = callers + 1
  /\ joined' = [joined EXCEPT ![s] = callers + 1]
  /\ IF agent = "available"
     THEN /\ queue' = <<s>> \o queue
          /\ place' = [place EXCEPT ![s] = "ringing"]
          /\ tasks' = [tasks EXCEPT ![s] = {"ring"}]
          /\ handle' = [handle EXCEPT ![s] = "ring"]
     ELSE /\ queue' = Append(queue, s)
          /\ place' = [place EXCEPT ![s] = "queued"]
          /\ StartCountdown(s, {})
  /\ UNCHANGED <<agent, notes, accepting, answered, announced>>

\* caller_token: with the agent available the call rings, else it is queued.
\* Without a token nothing happens.
CallerToken(s) ==
  /\ Fresh(s)
  /\ callers' = callers + 1
  /\ joined' = [joined EXCEPT ![s] = callers + 1]
  /\ queue' = Append(queue, s)
  /\ IF agent = "available"
     THEN /\ place' = [place EXCEPT ![s] = "ringing"]
          /\ tasks' = [tasks EXCEPT ![s] = {"ring"}]
          /\ handle' = [handle EXCEPT ![s] = "ring"]
     ELSE /\ place' = [place EXCEPT ![s] = "queued"]
          /\ StartCountdown(s, {})
  /\ UNCHANGED <<agent, notes, accepting, answered, announced>>

\* remove_from_queue: the caller disconnects.
RemoveFromQueue(s) ==
  /\ s \in ToSet(queue)
  /\ queue' = Without(s)
  /\ place' = [place EXCEPT ![s] = "removed"]
  /\ tasks' = [tasks EXCEPT ![s] = Cancelled(s)]
  /\ UNCHANGED <<agent, handle, notes, accepting, answered, announced, joined,
                 callers>>

-----------------------------------------------------------------------------
(* The receiver *)

\* update_agent_status: who rings goes on ringing; a message is spoken at once
\* to all who are queued.
UpdateAgentStatus(status, message) ==
  /\ agent' = status
  /\ notes' = IF message THEN notes \cup Queued ELSE notes
  /\ status # agent \/ notes' # notes
  /\ UNCHANGED <<queue, place, tasks, handle, accepting, answered, announced,
                 joined, callers>>

\* Mutant: the page stops ringing and the caller is not told how long it takes.
DeclineSilently(s) ==
  /\ s \in ToSet(queue) /\ place[s] = "ringing"
  /\ place' = [place EXCEPT ![s] = "queued"]
  /\ tasks' = [tasks EXCEPT ![s] = Cancelled(s)]
  /\ UNCHANGED <<agent, queue, handle, notes, accepting, answered, announced,
                 joined, callers>>

\* decline_call: back to the place he came to.
DeclineCall(s) ==
  /\ s \in ToSet(queue) /\ place[s] = "ringing"
  /\ place' = [place EXCEPT ![s] = "queued"]
  /\ StartCountdown(s, Cancelled(s))
  /\ UNCHANGED <<agent, queue, notes, accepting, answered, announced, joined,
                 callers>>

\* Mutant: the entry stays in the queue until the token is there.
AcceptKeepsEntry(h, s) ==
  /\ s \in ToSet(queue)
  /\ <<h, s>> \notin accepting
  /\ tasks' = [tasks EXCEPT ![s] = Cancelled(s)]
  /\ accepting' = accepting \cup {<<h, s>>}
  /\ UNCHANGED <<agent, queue, place, handle, notes, answered, announced,
                 joined, callers>>

\* accept_call up to its first await: whoever comes second finds no entry.
AcceptCall(h, s) ==
  /\ s \in ToSet(queue)
  /\ queue' = Without(s)
  /\ place' = [place EXCEPT ![s] = "accepted"]
  /\ tasks' = [tasks EXCEPT ![s] = Cancelled(s)]
  /\ accepting' = accepting \cup {<<h, s>>}
  /\ UNCHANGED <<agent, handle, notes, answered, announced, joined, callers>>

\* The room was cleaned of speech agents, or that failed; the receiver gets a
\* token, or an error that nobody takes back to the queue.
Accepted(h, s) ==
  /\ <<h, s>> \in accepting
  /\ accepting' = accepting \ {<<h, s>>}
  /\ \/ answered' = answered \cup {<<h, s>>} /\ UNCHANGED place
     \/ /\ "token" \in Faults
        /\ place' = [place EXCEPT ![s] = "lost"]
        /\ UNCHANGED answered
  /\ UNCHANGED <<agent, queue, tasks, handle, notes, announced, joined,
                 callers>>

-----------------------------------------------------------------------------
(* The coroutines of a waiting caller *)

Goes(s, from, to) == tasks' = [tasks EXCEPT ![s] = (@ \ {from}) \cup to]

\* Mutant: the entry still points to the coroutine that ends here.
RingTimesOutUnknown(s) ==
  /\ "ring" \in tasks[s]
  /\ IF s \in ToSet(queue) /\ place[s] = "ringing"
     THEN /\ place' = [place EXCEPT ![s] = "queued"]
          /\ Goes(s, "ring", {"settle"})
     ELSE Goes(s, "ring", {}) /\ UNCHANGED place
  /\ UNCHANGED <<agent, queue, handle, notes, accepting, answered, announced,
                 joined, callers>>

\* _ringing_loop ends: after 30 s the caller is queued, at the place he has;
\* one who does not ring any more is left alone.
RingTimesOut(s) ==
  /\ "ring" \in tasks[s]
  /\ IF s \in ToSet(queue) /\ place[s] = "ringing"
     THEN /\ place' = [place EXCEPT ![s] = "queued"]
          /\ StartCountdown(s, tasks[s] \ {"ring"})
     ELSE Goes(s, "ring", {}) /\ UNCHANGED <<place, handle>>
  /\ UNCHANGED <<agent, queue, notes, accepting, answered, announced, joined,
                 callers>>

\* _countdown_loop: the first announcement asks for nothing.
FirstAnnouncement(s) ==
  /\ "settle" \in tasks[s]
  /\ Goes(s, "settle", {"send"})
  /\ announced' = announced \cup {s}
  /\ UNCHANGED <<agent, queue, place, handle, notes, accepting, answered,
                 joined, callers>>

\* After a minute the next is sent to one who is still queued, else it ends.
NextAnnouncement(s) ==
  /\ "wait" \in tasks[s]
  /\ IF s \in Queued
     THEN Goes(s, "wait", {"send"}) /\ announced' = announced \cup {s}
     ELSE Goes(s, "wait", {}) /\ UNCHANGED announced
  /\ UNCHANGED <<agent, queue, place, handle, notes, accepting, answered,
                 joined, callers>>

\* The send is over, received or not.
Announced(s) ==
  /\ "send" \in tasks[s]
  /\ Goes(s, "send", {"wait"})
  /\ UNCHANGED <<agent, queue, place, handle, notes, accepting, answered,
                 announced, joined, callers>>

\* _play_immediate_custom_announcement: nothing cancels it.
NoteSent(s) ==
  /\ s \in notes
  /\ notes' = notes \ {s}
  /\ UNCHANGED <<agent, queue, place, tasks, handle, accepting, answered,
                 announced, joined, callers>>

-----------------------------------------------------------------------------

Resume(s) == \/ RingTimesOut(s) \/ FirstAnnouncement(s)
             \/ NextAnnouncement(s) \/ Announced(s)

Next ==
  \/ \E s \in Sessions :
       \/ CallerToken(s) \/ RemoveFromQueue(s) \/ DeclineCall(s)
       \/ Resume(s) \/ NoteSent(s)
       \/ \E h \in Receivers : AcceptCall(h, s) \/ Accepted(h, s)
  \/ \E status \in Agent, message \in BOOLEAN :
       UpdateAgentStatus(status, message)

Spec == Init /\ [][Next]_vars

\* The event loop wakes every coroutine whose sleep or send is over; nobody
\* has to accept, to decline or to hang up.
FairSpec ==
  /\ Spec
  /\ \A s \in Sessions : WF_vars(Resume(s))
  /\ \A s \in Sessions, h \in Receivers : WF_vars(Accepted(h, s))

-----------------------------------------------------------------------------
(* Properties *)

TypeOK ==
  /\ agent \in Agent
  /\ queue \in Seq(Sessions)
  /\ place \in [Sessions -> Places]
  /\ tasks \in [Sessions -> SUBSET Stages]
  /\ handle \in [Sessions -> {"none", "ring", "count"}]
  /\ notes \subseteq Sessions
  /\ accepting \subseteq Receivers \X Sessions
  /\ answered \subseteq Receivers \X Sessions
  /\ announced \subseteq Sessions
  /\ joined \in [Sessions -> 0 .. callers]
  /\ callers \in Nat

\* A caller has exactly the loop his state asks for: _ringing_loop while he
\* rings, _countdown_loop while he is queued, which the entry of the queue
\* knows; neither goes on once he was accepted or hung up.  The coroutines of
\* immediate messages are never cancelled: one may still speak to a caller who
\* was accepted since, but never to one who rings.
OneLoopPerCaller ==
  \A s \in Sessions :
    /\ CASE place[s] = "ringing" -> tasks[s] = {"ring"} /\ handle[s] = "ring"
         [] place[s] = "queued" -> /\ \E stage \in Countdown : tasks[s] = {stage}
                                   /\ handle[s] = "count"
         [] OTHER -> tasks[s] = {}
    /\ s \in notes => place[s] \notin {"new", "ringing"}

\* However callers ring, are declined, time out and leave, those in the queue
\* are in the order they came, and they are those who wait.
InArrivalOrder ==
  /\ ToSet(queue) = {s \in Sessions : place[s] \in Waiting}
  /\ \A i, j \in DOMAIN queue : i < j => joined[queue[i]] < joined[queue[j]]

\* Of all receivers who press accept one gets the caller's room; a caller who
\* left the queue by being accepted has one, unless the token failed.
OneReceiver ==
  \A s \in Sessions :
    LET who == {h \in Receivers : <<h, s>> \in accepting \cup answered}
    IN  /\ place[s] = "accepted" => \E h \in Receivers : who = {h}
        /\ place[s] # "accepted" => who = {}

\* Who waits is told how long it takes, is accepted, or leaves.
WaitingIsTold ==
  \A s \in Sessions :
    place[s] \in Waiting ~> s \in announced \/ place[s] \notin Waiting

-----------------------------------------------------------------------------
(* What a comment of the repository says and the code does not do.         *)

\* receiver.py:403, accept_call "Kicks TTS from room if playing": once the
\* receiver has his token, nothing is being spoken to the caller.
AcceptedHearsNothing ==
  \A h \in Receivers, s \in Sessions :
    <<h, s>> \in answered => s \notin notes /\ tasks[s] = {}
=============================================================================
