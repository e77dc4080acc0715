SPECIFICATION LiveSpec
CONSTANTS
  r1 = r1
  r2 = r2
  r3 = r3
  r4 = r4
  None = None
  Requests = {r1, r3}
  Kind <- ReadWrite
  InitialPacket = None
  MaxRetries = 8
  MaxInput = 1
PROPERTY
  PendingIsRetried
