\* Ten pixels: eight alone can follow two that overlap.
SPECIFICATION Spec
CONSTANTS
  Threads = {timer, button}
  Start <- MCStart
  Compared <- MCCompared
  Pixels <- MCPixels
  MaxPixels = 10
SYMMETRY Twins
INVARIANTS TypeOK Forgets MeanInv
\* No pixel is counted past the bound.
CHECK_DEADLOCK FALSE
