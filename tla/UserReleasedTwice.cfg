SPECIFICATION Spec
CONSTANTS
  Users = {u1}
  Workers = {w1, w2}
INVARIANT NotReleasedTwice
CHECK_DEADLOCK FALSE
