SPECIFICATION FairSpec
CONSTANTS
  s1 = s1  s2 = s2  s3 = s3  n1 = n1  n2 = n2
  Sessions = {s1, s2}
  Malformed = {s2}
  Nodes = {n1, n2}
  ReqPartitions = {0}
  AsgPartitions = {0}
  NodePartition <- OnePartition
  MaxCalls = 1
  TopicBound = 1
  Faults = {"produce", "commit"}
  MaxRestarts = 0

PROPERTY SubmittedIsReached
