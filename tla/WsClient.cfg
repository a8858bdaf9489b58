SPECIFICATION FairSpec
CONSTANTS
  s1 = s1
  s2 = s2
  Senders = {s1, s2}
  SendCap = 2
  MaxEpoch = 2
  MaxSends = 2
  MaxCount = 2
INVARIANTS
  LiveFramesStay
  ShippedOnceInOrder
  IndInv
PROPERTIES
  ImplementsLink
  
