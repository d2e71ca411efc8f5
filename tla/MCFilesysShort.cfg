SPECIFICATION Spec
CONSTANTS
  Name = {a, b}
  NoName = none
  File = {f1, f2}
  Data = {0, 1}
  Zero = 0
  SectorCnt = 7
  SlotCnt = 2
  MaxCnt = 2
  Failing = {"lookup"}
INVARIANT NamesAreUnique
