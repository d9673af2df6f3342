SPECIFICATION PipelineSpec
CONSTANTS
  s1 = s1  s2 = s2  n1 = n1  n2 = n2
  Sessions = {s1}
  Malformed = {}
  Nodes = {n1, n2}
  ReqPartitions = {0}
  Others = {}
  AsgPartitions = {0}
  NodePartition <- OnePartition
  MaxCalls = 1
  Limits = {1}
  MaxRetry = 1
  TopicBound = 1
  AsgBound = 0
  MaxRestarts = 0
  MaxStops = 1
  Faults = {"silence", "commit"}
SYMMETRY NodeSymmetry
INVARIANTS OneAgentPerCall EndsPerLife
