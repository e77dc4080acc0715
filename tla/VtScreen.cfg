\* Every control sequence, and writes that are cut in two.
SPECIFICATION Spec
CONSTANTS
  None = None
  Workloads <- VtWorkloads
INVARIANTS MarginsConfine PrintsFlow 
