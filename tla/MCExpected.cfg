SPECIFICATION Spec
CONSTANTS
  Objects = {v1, v2, v3}
  Unexpecteds = {u1}
  Data = {d1, d2}
  Default = d1
  Husk = Husk
CHECK_DEADLOCK FALSE
INVARIANTS TypeOK Wellformed
PROPERTY ExpectedImplementsOutcome
