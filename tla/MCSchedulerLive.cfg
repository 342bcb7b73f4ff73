SPECIFICATION FairSpec
CONSTANTS
  Items = {i1, i2, i3}
  NSlots = 2
  KvBudget = 3
  InputHeadroom = 1
  SlotCapacity = 3
  QueueCapacity = 2
  PromptLens = {1, 3}
  Faults = {"tokenizer", "decode"}
PROPERTIES
  EveryItemAnswered
  ShutdownCompletes
