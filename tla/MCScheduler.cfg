SPECIFICATION Spec
CONSTANTS
  Items = {i1, i2, i3, i4}
  NSlots = 2
  KvBudget = 3
  InputHeadroom = 1
  SlotCapacity = 3
  QueueCapacity = 2
  PromptLens = {1, 2, 3}
  Faults = {"context", "tokenizer", "decode", "panic"}
SYMMETRY ItemSymmetry
INVARIANTS
  PoolsAgree
  ResourcesSuffice
  CacheInStep
  AnsweredOnce
  NoSilentDrop
  BlocksOnlyWithoutWork
PROPERTIES
  NoOvertaking
  PoolSpec
