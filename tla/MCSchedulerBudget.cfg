SPECIFICATION Spec
CONSTANTS
  Items = {i1}
  NSlots = 1
  KvBudget = 3
  InputHeadroom = 1
  SlotCapacity = 6
  QueueCapacity = 2
  PromptLens = {2}
  Faults = {}
SYMMETRY ItemSymmetry
INVARIANT GenerationNeverFails
