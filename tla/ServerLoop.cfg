SPECIFICATION Spec
CONSTANTS
  r1 = r1
  r2 = r2
  r3 = r3
  r4 = r4
  None = None
  Requests = {r1, r2, r3, r4}
  Kind <- ReadsAndClients
  InitialPacket = r3
  MaxRetries = 4
  MaxInput = 1
SYMMETRY SwapReads
INVARIANTS
  AnsweredOnce
  NoClientHungOnCleanExit
PROPERTY
  ImplementsLifecycle
