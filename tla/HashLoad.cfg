\* Two algorithms of the library and room for two more, three loads.
CONSTANTS
  InitialCount = 2
  Capacity = 5
  MaxLoads = 3
SPECIFICATION HashSpec
PROPERTIES
  GivesUpLast
  LoadEnds
