\* No other program is needed for a string, one for the HID descriptor.
SPECIFICATION Spec
CONSTANTS
  Types = {33}
  Indices = {0}
  Lengths = {9}
  MaxResets = 0
INVARIANTS ProperDescriptor
