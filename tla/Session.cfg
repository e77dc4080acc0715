SPECIFICATION HostSpec
CONSTANTS
  MaxOutput = 2
  MaxKeys <- KeysOf
  MaxShown <- ShownOf
  PipeRoom = 1
  MaxInput = 2
  MaxFailures = 1
  Signals <- SomeSignals
  PayloadSize = 2
  MaxSignals = 2
  MaxBytes = 2
  ArgLists <- SomeArgLists
INVARIANTS
  
  OutputReachesUser
  
  DelegatedClientKept
  
  
  
  
PROPERTIES
  
  PublishedIsPainted
