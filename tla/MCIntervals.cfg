SPECIFICATION Spec
CONSTANTS
  Kinds = {"intv_tree"}
  Scripts <- MCScripts
  ScriptLen = 11
  Keys = {1, 4, 7, 8, 10, 11}
  AllKeys <- MCKeys
  Words = {1, 2, 3, 4}
  Spell <- MCSpell
  MaxLevel = 2
  MAXP = 5
  Size = 3
  HashKeys = {1, 2, 3, 4}
  PerfP = 11
  PerfKeys = {1, 5, 9}
  MaxKeys = 2
  Limit = 2
  TableKeys = {8, 16, 17}
  TableLen = 15
  Cells = {0, 1, 2, 10, 11, 12, 20, 21, 22}
  LineItems = {1, 2, 3}
  LineLen = 4
  FewItems = {1, 2}
  LongLen = 7
  HeapLen = 5
  Places = {1, 2, 3, 4}
  Inputs = 3
  SumPlaces = {1, 2, 3, 4, 5}
  UFItems = {1, 2, 3, 4, 5, 6, 7, 8, 9}
  UFPairs <- MCPairs
  LcaLen = 6
VIEW view
PROPERTY IntervalsContainKey
CHECK_DEADLOCK FALSE
