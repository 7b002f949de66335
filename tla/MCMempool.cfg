SPECIFICATION Spec
CONSTANTS
  SlotCounts = {1, 2, 3}
  MaxSlots = 4
  NULL = NULL
INVARIANTS
  TypeOK
  FreeListOK
  SlotsPartitioned
  CountsExact
PROPERTY ImplementsSlotPool
