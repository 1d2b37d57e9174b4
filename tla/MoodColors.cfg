\* The constructor's refresh, then three of the timer and the button.
SPECIFICATION Spec
CONSTANTS
  Main = main
  Threads = {timer, button}
  Screens <- MCScreens
  MaxRefreshes = 4
SYMMETRY Twins
INVARIANTS TypeOK IndexInRange NoResidue ShowsPredominant IInv
\* No refresh is begun past the bound.
CHECK_DEADLOCK FALSE
