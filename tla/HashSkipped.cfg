\* What type.c says of a load that is told HASH_WRONG in the end.
CONSTANTS
  InitialCount = 2
  Capacity = 3
  MaxLoads = 2
SPECIFICATION HashSpec
PROPERTY AllTried
