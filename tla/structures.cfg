SPECIFICATION StructuresSpec
CONSTANTS
  NWorkers = 3
  MaxWeight = 2
  Ids = {1, 2, 3, 4}
  HashValues = {0, 2, 7}
  Cap0 = 4
INVARIANTS ExactShare NeverStarved LookupExact ProbesEnd
