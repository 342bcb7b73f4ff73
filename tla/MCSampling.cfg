SPECIFICATION Spec
CONSTANTS
  VocabSize = 5
  Eos = 1
  Eog = {1, 3}
  Levels = {0, 1, 2}
  NgramSize = 2
  TailLen = 2
  TailNgram = 2
  SlotCapacity = 6
  TopK = 3
INVARIANTS
  NoRepeatedNgram
  AlwaysACandidate
  WithinCeiling
  TopKCorrect
