SPECIFICATION Spec
CONSTANTS
  None = None
  Keys <- MCKeys
  Limit = 5
  Workloads <- AllWorkloads
INVARIANTS
  TypeOK
  ReceivedInOrder
  
  LinesDelivered
  
PROPERTIES
  
  PeeksKeepInput
