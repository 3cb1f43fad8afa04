\* Two versions, two connections, a resync memory of one, so that it overflows.
\* An idle system at its bounds has nothing to do: no deadlock check.
CONSTANTS
  MaxVersion = 2
  MaxConn = 2
  ResyncMemory = 1
SPECIFICATION FairSpec
INVARIANTS ReplicaExact NothingTurnedAwayUnread OwnAckOnItsConnection
PROPERTIES ImplementsReplica Converges
CHECK_DEADLOCK FALSE
