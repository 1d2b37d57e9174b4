\* The ends of the percents, values past them, and one whose product wraps to little.
SPECIFICATION Spec
CONSTANTS
  Duty = {0, 1, 99, 100, 656}
  Junk = {0, 656}
INVARIANTS TypeOK ShowsRequest
