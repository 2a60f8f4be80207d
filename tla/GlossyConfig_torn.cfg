SPECIFICATION FairSpec
CONSTANTS
  Node = {n1}
  Sink = sink
  MaxConfig = 1
  SeqMod = 3
  Slots = 1
  MaxReboots = 0
INVARIANT Intact
