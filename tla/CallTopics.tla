------------------------------ MODULE CallTopics ------------------------------
(***************************************************************************)
(* The Kafka topics between the CallScheduler and the workers, as the two  *)
(* services see them: livekit/kafka/config.py names the topics and         *)
(* schemas.py their records.  CallScheduler and WorkerService extend this  *)
(* module, and CallPipeline lets both of them work on the topics.          *)
(***************************************************************************)
EXTENDS Naturals, Sequences, FiniteSets

CONSTANTS
  Sessions,       \* session ids; each is submitted once
  Nodes,          \* NODE_IDs of GPU workers
  AsgPartitions,  \* partitions of call_assignments
  NodePartition,  \* NODE_PARTITION of each node
  MaxCalls,       \* bound on max_calls, the free slots a node can announce
  TopicBound,     \* bound on unread capacity reports per node
  Faults          \* which of "produce" and "commit" may raise; "silence": a
                  \* node that is alive may be judged dead

ASSUME TopicsAssumption ==
  /\ NodePartition \in [Nodes -> AsgPartitions]
  /\ MaxCalls \in Nat /\ TopicBound \in Nat
  /\ Faults \subseteq {"produce", "commit", "silence"}

VARIABLES
  assignments,  \* call_assignments: the log of each partition
  capacity,     \* gpu_capacity: unread reports of each node, in order
  finished,     \* call_completed and call_failed: unread events per call
  beats,        \* nodes with an unread worker_heartbeat
  reported      \* history: finish events ever published per call

eventTopics == <<capacity, finished, beats, reported>>
=============================================================================
