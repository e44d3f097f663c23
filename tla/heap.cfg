SPECIFICATION HeapSpec
CONSTANTS
  RingCapacity = 1
  GcMinBytes = 2
  HeapLimit = 3
  MaxObjects = 3
  MaxFrames = 2
  MaxConts = 1
  MaxHandles = 1
  v1 = v1
  v2 = v2
  Values <- MCValues
  Id = "here"
  OtherIds = {"there"}
  MaxSlots = 3
  LastGeneration = 3
  MaxRefs = 2
  MaxMinted = 5
SYMMETRY MCSymmetry
CHECK_DEADLOCK FALSE
INVARIANTS NothingInUseIsFreed SlabSound BindingsUndone TableSound
PROPERTIES HeapFaultIsReal PauseIntact Implements
