SPECIFICATION FairSpec
CONSTANTS
  Users = {u1}
  Workers = {w1, w2, w3}
INVARIANT ListedIsAllocated
PROPERTY LostUsersLeave
CHECK_DEADLOCK FALSE
