SPECIFICATION ContainerSpec
CONSTANTS
  Capacities <- MCCapacities
  Counts = {9}
  MaxWrites = 2
  MaxAsked = 2
INVARIANTS
  ContainerTypeOK
  RecordsApart
  RecordsReadBack
  BitmapReadsBetween
  BitsAreTheSet
  HalfCreatedWorksInPart
CHECK_DEADLOCK FALSE
