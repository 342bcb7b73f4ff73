SPECIFICATION Spec
CONSTANTS
  Calls = {c1, c2}
  Main = main
  MaxWork = 2
  QueueCapacity = 1
  MayFail = TRUE
  MayLose = FALSE
SYMMETRY CallSymmetry
PROPERTY UnavailableMeansFull
