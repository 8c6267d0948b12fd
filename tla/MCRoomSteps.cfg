SPECIFICATION Spec
CONSTANTS
  Users = {u1, u2, u3}
  Rooms = {r1, r2}
  Workers = {w1, w2}
  Lobby = lobby
  Outside = outside
INVARIANTS MembersExact FaultsExplained
PROPERTY StepsImplementTalk
SYMMETRY Symmetry
CHECK_DEADLOCK FALSE
