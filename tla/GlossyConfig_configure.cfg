SPECIFICATION FairSpec
CONSTANTS
  Node = {n1}
  Sink = sink
  MaxConfig = 2
  SeqMod = 2
  Slots = 1
  MaxReboots = 1
INVARIANTS TypeOK OnlyWrapHides FromOneFlood RunsItsGeneration
PROPERTIES ForwardOnly ImplementsRegister Converges
