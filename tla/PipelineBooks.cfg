SPECIFICATION PipelineFairSpec
CONSTANTS
  s1 = s1  s2 = s2  n1 = n1  n2 = n2
  Sessions = {s1, s2}
  Malformed = {}
  Nodes = {n1}
  ReqPartitions = {0}
  Others = {}
  AsgPartitions = {0}
  NodePartition <- OnePartition
  MaxCalls = 1
  Limits = {1}
  MaxRetry = 1
  TopicBound = 1
  AsgBound = 0
  MaxRestarts = 1
  MaxStops = 0
  Faults = {}
INVARIANTS BooksMatchCalls WithinCapacity
PROPERTIES BookedEnds PausedWithCallsResumes
