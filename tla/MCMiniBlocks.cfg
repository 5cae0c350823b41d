SPECIFICATION FairSpec
CONSTANTS
  Slots = {1, 2}
  Producers = {"p"}
  Collectors = {"x", "y"}
  TxLists <- Lists
  Capacity = 2
  MaxFollowed = 2
INVARIANTS
  TypeOK
  OneCopy
  RootIsTreeRoot
  RootIdentifiesTxs
PROPERTIES
  CollectionEnds
