\* By hand: both lists are loaded together and no request fails.
CONSTANTS
  InitialCount = 3
  Capacity = 4
  MaxLoads = 2
SPECIFICATION TogetherSpec
PROPERTY GivesUpLast
