SPECIFICATION Spec
CONSTANTS
  i = i
  a = a
  b = b
  c = c
  Host = {i, a, b, c}
  Initiator = i
  Link <- Diamond
  TxMax = 3
  Timeout = 3
  MaxSlots = 7
  RestartSlot = 8
  SlotMod = 16
  Unknown = unknown
INVARIANTS TypeOK CountedIsCopied SamePacketInSlot ReferenceIsStart TransmitsAtMost OneHopPerSlot
PROPERTIES ImplementsBroadcast
