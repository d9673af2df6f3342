SPECIFICATION FairSpec
CONSTANTS
  j1 = j1  j2 = j2
  Jobs = {j1, j2}
  MaxRetries <- OneAndTwo
  Width = 1
  SipRetries = 1
  MaxRestarts = 1
  Faults = {"send", "spawn", "store"}
INVARIANTS RetriesExact PlacementsAccounted
PROPERTIES SettledIsNotDialled DueIsSettled
