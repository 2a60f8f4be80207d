SPECIFICATION Spec
CONSTANTS
  Me = me
  Null = null
  n1 = n1
  n2 = n2
  n3 = n3
  Neighbor = {n1, n2}
  Origin = {n1, n2, n3}
  Cost = {1, 9}
  RTMETRIC_MAX = 9
  Foreign <- OnePacket
  MaxRexmit = 1
  SeqMod = 2
  NumRecent = 2
  MaxQueue = 3
  Pool = 3
INVARIANT ForwardingEnds
