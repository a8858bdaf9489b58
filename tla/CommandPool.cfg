SPECIFICATION FairSpec
CONSTANTS
  plain = plain
  garbled = garbled
  denied = denied
  unknown = unknown
  stubborn = stubborn
  Commands = {plain, garbled, denied, unknown, stubborn}
  MaxSlots = 2
  Garbled = {garbled}
  Level = "protect"
  ProtectActions = {plain, garbled, unknown, stubborn}
  Unknown = {unknown}
  Stubborn = {stubborn}
INVARIANTS
  
  JoinCoversOld
  OneAnswer
PROPERTIES
  PoolServes
