---------------------------- MODULE MCCallEntry ----------------------------
(* Small instances of CallEntry. *)
EXTENDS CallEntry

CONSTANTS c1, c2, a1, a2

Target(skill, action) ==
  [overrides |-> FALSE, override |-> 0, skill |-> skill, action |-> action]

Priority(override, target) ==
  [target EXCEPT !.overrides = TRUE, !.override = override]

NewRule(order, callers, atLeast, window, target) ==
  [enabled |-> TRUE, order |-> order, callers |-> callers, atLeast |-> atLeast,
   window |-> window, target |-> target]

Night == [kind |-> "between", from |-> 1, to |-> 0]

\* The file lists its rules out of order, as routing_rules.json does.
RuleFile ==
  << NewRule(2, {"en", "es"}, 0, NoWindow, Target(FALSE, "callback")),
     NewRule(1, {"es"}, 0, Night, Priority(3, Target(TRUE, "ai_bot"))),
     NewRule(3, {"en", "es"}, 0, NoWindow, Target(FALSE, "voicemail")) >>

RuleFiles == {<<>>, RuleFile}

AgentOffers ==
  {[available |-> TRUE, max |-> m, skilled |-> TRUE] : m \in 0 .. MaxSlots}
=============================================================================
