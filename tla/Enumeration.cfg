\* Every descriptor type of the code and one it has not, indices to past the strings.
SPECIFICATION FairSpec
CONSTANTS
  Types = {1, 2, 3, 6, 33, 34}
  Indices = {0, 4, 5}
  Lengths = {0, 8, 255}
  MaxResets = 1
INVARIANTS TypeOK NoOverread LampRecognised NamesAreAnswered EnumerationInv
PROPERTIES EnumerationEnds
