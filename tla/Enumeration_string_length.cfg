\* The kernel alone reads the strings; other programs add nothing to that.
SPECIFICATION Spec
CONSTANTS
  Types = {33}
  Indices = {0}
  Lengths = {9}
  MaxResets = 0
INVARIANTS StringsDeclareLength
