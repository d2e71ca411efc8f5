SPECIFICATION Spec
CONSTANTS
  Kinds = {"triv", "b_op", "t_op", "h_bl", "w_bl", "rb", "t_rb", "a_b", "spla", "skip", "ar_n", "li_n", "al_r", "un_i", "un_s", "perf", "ar_stack", "bl_stack", "li_stack", "shd_stack", "ar_queue", "li_queue", "c_l_queue", "dll_queue", "min_queue", "ar_heap", "bino_heap", "fibo_heap", "left_heap", "skew_heap", "tree_heap", "intv_tree", "segm_tree", "or_r_tree", "wsum_tree", "wsmx_tree", "am_u_find", "wc_u_find", "lca_find", "array_stack", "heap", "k_list", "list", "list_stack", "queue", "circ_list", "double_list", "k_hash", "sparse_matrix"}
  Scripts <- MCScripts
  ScriptLen = 11
  Keys = {1, 4, 7, 8, 10, 11}
  AllKeys <- MCKeys
  Words = {1, 2, 3, 4}
  Spell <- MCSpell
  MaxLevel = 2
  MAXP = 5
  Size = 3
  HashKeys = {1, 2, 3, 4}
  PerfP = 11
  PerfKeys = {1, 5, 9}
  MaxKeys = 2
  Limit = 2
  TableKeys = {8, 16, 17}
  TableLen = 15
  Cells = {0, 1, 2, 10, 11, 12, 20, 21, 22}
  LineItems = {1, 2, 3}
  LineLen = 4
  FewItems = {1, 2}
  LongLen = 7
  HeapLen = 5
  Places = {1, 2, 3, 4}
  Inputs = 3
  SumPlaces = {1, 2, 3, 4, 5}
  UFItems = {1, 2, 3, 4, 5, 6, 7, 8, 9}
  UFPairs <- MCPairs
  LcaLen = 6
VIEW view
INVARIANTS Balanced StructureIsSound NoNodeIsLost
PROPERTIES IsDictionary NodesAccounted IsLine IsPriorityQueue IsUnionFind AnswersAreRight
CHECK_DEADLOCK FALSE
