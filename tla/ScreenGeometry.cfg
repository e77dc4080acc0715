\* Resizes, windows, margins and the two screens.
SPECIFICATION Spec
CONSTANTS
  None = None
  Workloads <- GeometryWorkloads
INVARIANT TypeOK
PROPERTY MainScreenIsolated
