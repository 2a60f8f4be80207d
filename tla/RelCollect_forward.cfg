SPECIFICATION FairSpec
CONSTANTS
  Me = me
  Null = null
  n1 = n1
  n2 = n2
  n3 = n3
  Neighbor = {n1, n2}
  Origin = {n1, n2, n3}
  Cost = {1, 9}
  RTMETRIC_MAX = 9
  Foreign <- SomePackets
  MaxRexmit = 1
  SeqMod = 1
  NumRecent = 2
  MaxQueue = 2
  Pool = 3
INVARIANTS TypeOK NoLeak RingIsRecent
PROPERTIES ImplementsQueue ForwardsWhatItReceives QueueMoves
