------------------------------ MODULE Routing ------------------------------
(***************************************************************************)
(* The rule evaluator of livekit/routing/engine.py and rules.py: which     *)
(* rule of a file takes a call, and what it decides.                       *)
(*                                                                         *)
(* A request is [caller, priority].  The conditions on language, source    *)
(* and prefixes of numbers and ids only tell callers apart: a rule has the *)
(* set of callers that meet all of them.  (Of a CallRequest only its       *)
(* language tells them apart: it has no source, number or id, so every one *)
(* is a browser's, and a condition on prefixes is met by nobody.)          *)
(* A file is a sequence of rules                                           *)
(*   [enabled, order, callers, atLeast, window, target],                   *)
(* where order is the rule's "priority" in the file.                       *)
(***************************************************************************)
EXTENDS Integers, Sequences

CONSTANT Day    \* minutes of a day: 1440

ASSUME DayAssumption == Day \in Nat \ {0}

Minutes == 0 .. Day - 1

\* _in_time_window: a window that ends before it starts goes over midnight.
InWindow(now, from, to) ==
  IF from <= to THEN from <= now /\ now < to ELSE from <= now \/ now < to

NoWindow == [kind |-> "always", from |-> 0, to |-> 0]

InTime(window, now) ==
  \/ window.kind = "always"
  \/ window.kind = "between" /\ InWindow(now, window.from, window.to)
  \/ window.kind = "outside" /\ ~InWindow(now, window.from, window.to)

Matches(rule, req, now) ==
  /\ rule.enabled
  /\ req.caller \in rule.callers
  /\ rule.atLeast = 0 \/ req.priority >= rule.atLeast
  /\ InTime(rule.window, now)

\* The stable sort of load and the first match of route.
Before(file, i, j) ==
  \/ file[i].order < file[j].order
  \/ file[i].order = file[j].order /\ i <= j

Winner(file, req, now) ==
  LET matching == {i \in DOMAIN file : Matches(file[i], req, now)}
  IN  CHOOSE i \in matching : \A j \in matching : Before(file, i, j)

Fallback(req) ==
  [priority |-> req.priority, skill |-> FALSE, action |-> "queue"]

\* The decision: the priority of the request unless the rule overrides it,
\* whether the rule wants a human agent with a skill, and what happens when no
\* node is alive.
Decide(file, req, now) ==
  IF \A i \in DOMAIN file : ~Matches(file[i], req, now)
  THEN Fallback(req)
  ELSE LET target == file[Winner(file, req, now)].target
       IN  [priority |-> IF target.overrides
                         THEN target.override ELSE req.priority,
            skill    |-> target.skill,
            action   |-> target.action]
=============================================================================
