SPECIFICATION Spec
CONSTANTS
  Kinds = {"rb"}
  Scripts <- RbScripts
  ScriptLen = 12
  Keys = {1}
  AllKeys <- MCKeys
  Words = {1}
  Spell <- MCSpell
  MaxLevel = 1
  MAXP = 2
  Size = 1
  HashKeys = {1}
  PerfP = 2
  PerfKeys = {1}
  MaxKeys = 1
  Limit = 1
  TableKeys = {1}
  TableLen = 1
  Cells = {1}
  LineItems = {1}
  LineLen = 1
  FewItems = {1}
  LongLen = 1
  HeapLen = 1
  Places = {1}
  Inputs = 1
  SumPlaces = {1, 2, 3, 4, 5}
  UFItems = {1}
  UFPairs = {}
  LcaLen = 1
INVARIANT Balanced
CHECK_DEADLOCK FALSE
