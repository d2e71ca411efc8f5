SPECIFICATION Spec
CONSTANTS
  Thread = {t1}
  NULL = null
  Data = {x, y}
  Place = {p1}
  Quirks = {"spurious"}
  MaxUps = 2
INVARIANT WriteAcknowledged
