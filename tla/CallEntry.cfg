SPECIFICATION FairSpec
CONSTANTS
  c1 = c1  c2 = c2  a1 = a1  a2 = a2
  Calls = {c1, c2}
  Agents = {a1}
  Callers = {"en", "es"}
  Priorities = {0}
  Fallbacks = {"queue", "voicemail", "callback", "ai_bot"}
  Day = 2
  Files <- RuleFiles
  Overload = 3
  MaxSlots = 1
  Offers <- AgentOffers
  Doors = {"browser", "token", "external"}
  Faults = {"kafka", "produce", "import", "schedule", "token"}
INVARIANTS TypeOK OneTreatment BrowserCallIsTaken
PROPERTY EveryoneIsAnswered
CHECK_DEADLOCK FALSE
