SPECIFICATION FairSpec
CONSTANTS
  NULL = null
  Byte = {a, b}
  Reader = {r1, r2}
  Writer = {w1, w2}
  HandlerPuts = TRUE
  HandlerGets = TRUE
  BUFSIZE = 3
  Key = {k}
  Capacity = 2
  MaxBytes = 4
  Thread = {t1, t2}
  Data = {x, y}
  Place = {p1, p2}
  Quirks = {"fail", "spurious"}
  MaxUps = 1
INVARIANTS WaiterIsKnown SentInOrder ReadIsRight
PROPERTIES IsFifo AllTransmitted ReceivedIsRead IsAtomic ChannelIsReleased
CHECK_DEADLOCK FALSE
