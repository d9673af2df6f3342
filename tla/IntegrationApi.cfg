SPECIFICATION FairSpec
CONSTANTS
  Clients = {ws}
  Listener = service
  Types = {"call_completed", "call_queued"}
  Sessions = {s1}
  QueueSize = 2
  HistorySize = 2
  MaxEvents = 3
  Partners = {p1}
  MaxAttempts = 2
  MaxChanges = 1
  Faults = {"kafka", "produce", "post", "browser"}
INVARIANTS SubscribersInOrder StatusFollowsEvents WebhookTellsItsEvent
PROPERTY EventsAreSettled
CHECK_DEADLOCK FALSE
