SPECIFICATION Spec
CONSTANTS
  i1 = i1
  i2 = i2
  i3 = i3
  i4 = i4
  i5 = i5
  k1 = k1
  k2 = k2
  k3 = k3
  NULL = NULL
  Items <- FiveItems
  Keys <- ThreeKeys
  Hash <- HashValues
  InitialBuckets = 1
  Capacity = 2
  MaxBuckets = 8
SYMMETRY ItemSymmetry
INVARIANTS
  HashTypeOK
  ListInOrder
  ChainsHoldItems
  ChainsBounded
PROPERTIES
  ImplementsTable
