CONSTANTS
  Workers = {w1, w2, w3}
  MaxIo = 2
  MaxWork = 2
SPECIFICATION FairSpec
INVARIANT WakeupsSuffice
PROPERTY QuitStopsServer
