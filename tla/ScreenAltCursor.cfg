\* The alternate screen is entered in the write that moved the cursor.
SPECIFICATION Spec
CONSTANTS
  None = None
  Workloads <- SwitchWorkloads
INVARIANT AlternateRestoresCursor
