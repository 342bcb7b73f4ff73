SPECIFICATION Spec
CONSTANTS
  Items = {i1, i2, i3}
  NSlots = 1
  KvBudget = 3
  InputHeadroom = 1
  SlotCapacity = 3
  QueueCapacity = 2
  PromptLens = {1}
  Faults = {}
SYMMETRY ItemSymmetry
INVARIANT BlocksOnlyWithoutWork
