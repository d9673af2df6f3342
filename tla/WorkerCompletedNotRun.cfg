SPECIFICATION WorkerSpec
CONSTANTS
  s1 = s1  s2 = s2  n1 = n1  n2 = n2
  Sessions = {s1, s2}
  Nodes = {n1}
  Others = {n2}
  AsgPartitions = {0}
  NodePartition <- OnePartition
  MaxCalls = 1
  Limits = {0, 1}
  MaxRetry = 2
  TopicBound = 1
  AsgBound = 2
  MaxStops = 1
  Faults = {}
INVARIANT CompletedMeansRan
