SPECIFICATION Spec
CONSTANTS
  Null = null
  sink = sink
  a1 = a1
  a2 = a2
  Node = {sink, a1, a2}
  Sink = sink
  Link <- Line
  MAX_NEIGHBORS = 2
  RTMETRIC_MAX = 7
  NUM_ETXS = 1
  ByteMod = 8
  MaxRexmit = 1
  MaxChanges = 1
INVARIANT OnlySinkLooksLikeSink
