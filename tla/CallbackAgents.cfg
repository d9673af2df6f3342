SPECIFICATION FairSpec
CONSTANTS
  c1 = c1  c2 = c2  a1 = a1  a2 = a2  u1 = u1  u2 = u2
  Callbacks = {c1}
  Callers = {u1, u2}
  CallerOf <- OneCaller
  Agents = {a1, a2}
  NoAgent = NoAgent
  NoCallback = NoCallback
  Finalises = TRUE
  MaxFaults = 1
INVARIANTS OneAttempt OneAgentCalls
PROPERTIES ImplementsCallbackLedger OfferedEnds
