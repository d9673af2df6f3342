--------------------------- MODULE CallbackLedger ---------------------------
(***************************************************************************)
(* What the callback to a caller promises, without tables, monitor and     *)
(* dashboards.  A caller who asked for a callback is offered to one agent, *)
(* once and for good.  Only then is the caller told to pick up, or mailed  *)
(* that nobody did; and only who was told to pick up talks to the agent.   *)
(***************************************************************************)
CONSTANTS Callbacks, Agents, NoAgent

VARIABLES
  stage,   \* how far each callback is
  agent,   \* whom each callback is offered to
  rung,    \* callbacks whose caller was told to pick up
  talked,  \* callbacks in which the caller talked to the agent
  mailed   \* callbacks answered by the no-answer mail

vars == <<stage, agent, rung, talked, mailed>>

Stages == {"absent", "waiting", "offered"}

Init ==
  /\ stage = [o \in Callbacks |-> "absent"]
  /\ agent = [o \in Callbacks |-> NoAgent]
  /\ rung = {} /\ talked = {} /\ mailed = {}

Ask(o) ==
  /\ stage[o] = "absent"
  /\ stage' = [stage EXCEPT ![o] = "waiting"]
  /\ UNCHANGED <<agent, rung, talked, mailed>>

Offer(o, a) ==
  /\ stage[o] = "waiting"
  /\ stage' = [stage EXCEPT ![o] = "offered"]
  /\ agent' = [agent EXCEPT ![o] = a]
  /\ UNCHANGED <<rung, talked, mailed>>

Ring(o) ==
  /\ stage[o] = "offered"
  /\ rung' = rung \cup {o}
  /\ UNCHANGED <<stage, agent, talked, mailed>>

Talk(o) ==
  /\ o \in rung
  /\ talked' = talked \cup {o}
  /\ UNCHANGED <<stage, agent, rung, mailed>>

Mail(o) ==
  /\ stage[o] = "offered"
  /\ mailed' = mailed \cup {o}
  /\ UNCHANGED <<stage, agent, rung, talked>>

Next ==
  \E o \in Callbacks :
    \/ Ask(o) \/ Ring(o) \/ Talk(o) \/ Mail(o)
    \/ \E a \in Agents : Offer(o, a)

Spec == Init /\ [][Next]_vars
=============================================================================
