SPECIFICATION Spec
SYMMETRY Symmetry
CONSTANTS
  Readers = {s1, s2}
  Never = Never
  Period = 2
  MaxDay = 6
  MaxEvents = 5
INVARIANTS TypeOK NeverBeyondPaid AgreesWithStore
CHECK_DEADLOCK FALSE
