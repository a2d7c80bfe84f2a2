CONSTANTS
  c1 = c1  c2 = c2  c3 = c3
  Controllers = {c1, c2, c3}
  MaxActivities = 2  MaxCrashes = 1
SPECIFICATION Spec
SYMMETRY Interchangeable
INVARIANTS
    SlotIsNewest SuccessIsBacked EvidenceDecides
PROPERTY ResultsAreFinal
CHECK_DEADLOCK FALSE
