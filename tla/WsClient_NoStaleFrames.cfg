\* What a comment says and the client does not do: NoStaleFrames.
SPECIFICATION Spec
CONSTANTS
  s1 = s1
  Senders = {s1}
  SendCap = 1
  MaxEpoch = 2
  MaxSends = 1
  MaxCount = 2
INVARIANT NoStaleFrames
