----------------------------- MODULE Structures -----------------------------
(***************************************************************************)
(* The programs of books/advanced_data_structures, the containers of       *)
(* libs/data_structs and the lists of Pintos, each shown to keep the       *)
(* promise of its kind: Dictionary for the search structures of chapters   *)
(* 2, 3, 8 and 9, Line for the stacks and queues of chapters 1 and 5 and   *)
(* for the lists, PriorityQueue for the heaps, UnionFind for the classes   *)
(* of chapter 6, and the meaning of each query for chapter 4 and the       *)
(* common ancestors of chapter 6.  Each has one structure and one user;    *)
(* `kind` says which program runs.  A user of a search structure may first *)
(* insert the keys of a script, so that a large tree is met, and then      *)
(* gives any commands with a few keys.                                     *)
(***************************************************************************)
EXTENDS Integers, SequencesExt

CONSTANTS Kinds,           \* the programs
          Scripts(_),      \* the scripts of a program
          Keys, AllKeys,   \* the keys of the free commands; with those of the scripts
          Words, Spell,    \* the strings of the tries, as numbers, and their characters
          MaxLevel,        \* of the skip list
          MAXP, Size, HashKeys,
          PerfP, PerfKeys, MaxKeys, Limit,
          TableKeys,           \* the keys of the free commands for the table of Pintos
          Cells,               \* of the matrix, 10 * row + column
          LineItems, LineLen,  \* of the stacks and queues
          FewItems, LongLen,   \* of the stack whose array is copied
          HeapLen,
          Places, Inputs,      \* end points of intervals; intervals or points entered
          SumPlaces,           \* end points of weighted intervals
          UFItems, UFPairs, LcaLen

VARIABLES kind, script,
          store,   \* the structure
          ans,     \* the last call, its argument and its result
          nodes    \* nodes taken and not returned, of the programs modelled without a pool

vars == <<kind, script, store, ans, nodes>>

Tree == INSTANCE SearchTrees WITH tree <- store
RB   == INSTANCE RedBlackTrees WITH tree <- store
AB   == INSTANCE ABTree WITH tree <- store
Spla == INSTANCE SplaTree WITH tree <- store
Skip == INSTANCE SkipList WITH tree <- store
Trie == INSTANCE Tries WITH tree <- store, Keys <- Words
UnI  == INSTANCE HashTables WITH tree <- store, Keys <- HashKeys
UnS  == INSTANCE HashTables WITH tree <- store, Keys <- Words
Perf == INSTANCE HashTables WITH tree <- store, Keys <- PerfKeys, MAXP <- PerfP
KHs  == INSTANCE HashTables WITH tree <- store, Keys <- TableKeys
Mat  == INSTANCE HashTables WITH tree <- store, Keys <- Cells
ArS  == INSTANCE ArrayLines WITH Items <- LineItems, MaxLen <- LineLen, Size <- LineLen
BlS  == INSTANCE ArrayLines WITH Items <- LineItems, MaxLen <- LineLen, Size <- 2
ShS  == INSTANCE ArrayLines WITH Items <- FewItems, MaxLen <- LongLen, Size <- LongLen
ArQ  == INSTANCE ArrayLines WITH Items <- LineItems, MaxLen <- LineLen, Size <- LineLen + 2
MiQ  == INSTANCE ArrayLines WITH Items <- LineItems, MaxLen <- LineLen, Size <- LineLen
Lin  == INSTANCE LinkedLines WITH Items <- LineItems, MaxLen <- LineLen
Ker  == INSTANCE Lists WITH Items <- Places, MaxLen <- LineLen
Lst  == INSTANCE Lists WITH Items <- FewItems, MaxLen <- LineLen
Heap == INSTANCE Heaps WITH Items <- LineItems, MaxLen <- HeapLen, Size <- HeapLen
TrH  == INSTANCE Heaps WITH Items <- Places, MaxLen <- HeapLen, Size <- HeapLen
LHp  == INSTANCE Heaps WITH Items <- LineItems, MaxLen <- HeapLen, Size <- 2
Itv  == INSTANCE IntervalTrees WITH Items <- Places, MaxLen <- Inputs, Weights <- {}
OrR  == INSTANCE IntervalTrees WITH Items <- LineItems, MaxLen <- Inputs, Weights <- {}
Wsu  == INSTANCE IntervalTrees WITH Items <- SumPlaces, MaxLen <- Inputs, Weights <- {1, 2}
Wsm  == INSTANCE IntervalTrees WITH Items <- SumPlaces, MaxLen <- Inputs, Weights <- {1, -2}
Cls  == INSTANCE ClassTrees WITH Items <- UFItems, Pairs <- UFPairs, MaxLen <- LcaLen
Lca  == INSTANCE ClassTrees WITH Items <- 0 .. LcaLen - 1, Pairs <- {}, MaxLen <- LcaLen

SearchKinds ==
  {"triv", "b_op", "t_op", "h_bl", "w_bl", "rb", "t_rb", "a_b", "spla", "skip",
   "ar_n", "li_n", "al_r", "un_i", "un_s", "perf", "k_hash", "sparse_matrix"}

\* The programs whose modules count the nodes.
Counting == SearchKinds \cup {"bl_stack", "min_queue", "bino_heap", "fibo_heap", "left_heap", "skew_heap", "tree_heap"}

Init ==
  /\ kind \in Kinds /\ script \in Scripts(kind) /\ (kind \notin Counting => nodes = 0)
  /\ \/ kind = "triv" /\ Tree!TrivInit
     \/ kind = "h_bl" /\ Tree!HBlInit
     \/ kind = "w_bl" /\ Tree!WBlInit
     \/ kind = "rb" /\ RB!RbInit
     \/ kind = "t_rb" /\ RB!TRbInit
     \/ kind \in {"b_op", "t_op"} /\ Tree!OpInit
     \/ kind = "a_b" /\ AB!Init
     \/ kind = "spla" /\ Spla!Init
     \/ kind = "skip" /\ Skip!Init
     \/ kind = "ar_n" /\ Trie!ArNInit
     \/ kind = "li_n" /\ Trie!LiNInit
     \/ kind = "al_r" /\ Trie!AlRInit
     \/ kind = "un_i" /\ UnI!UnIInit
     \/ kind = "un_s" /\ UnS!UnSInit
     \/ kind = "perf" /\ Perf!PerfInit
     \/ kind = "k_hash" /\ KHs!KHInit
     \/ kind = "sparse_matrix" /\ Mat!MatInit
     \/ kind = "ar_stack" /\ ArS!ArSInit
     \/ kind = "bl_stack" /\ BlS!BlSInit
     \/ kind = "li_stack" /\ Lin!LiSInit
     \/ kind = "shd_stack" /\ ShS!ShSInit
     \/ kind = "ar_queue" /\ ArQ!ArQInit
     \/ kind = "li_queue" /\ Lin!LiQInit
     \/ kind = "c_l_queue" /\ Lin!CLQInit
     \/ kind = "dll_queue" /\ Lin!DlQInit
     \/ kind = "min_queue" /\ MiQ!MiQInit
     \/ kind = "k_list" /\ Ker!KLInit
     \/ kind = "array_stack" /\ BlS!AStInit
     \/ kind = "heap" /\ LHp!LHpInit
     \/ kind = "list" /\ Lst!LstInit
     \/ kind = "list_stack" /\ Lst!LSkInit
     \/ kind = "queue" /\ Lst!QueInit
     \/ kind = "circ_list" /\ Lst!CirInit
     \/ kind = "double_list" /\ Lst!DblInit
     \/ kind = "ar_heap" /\ Heap!ArHInit
     \/ kind = "bino_heap" /\ Heap!BiHInit
     \/ kind = "fibo_heap" /\ Heap!FiHInit
     \/ kind = "left_heap" /\ Heap!LeHInit
     \/ kind = "skew_heap" /\ Heap!SkHInit
     \/ kind = "tree_heap" /\ TrH!TrHInit
     \/ kind = "intv_tree" /\ Itv!ItvInit
     \/ kind = "segm_tree" /\ Itv!SegInit
     \/ kind = "or_r_tree" /\ OrR!OrRInit
     \/ kind = "wsum_tree" /\ Wsu!WsuInit
     \/ kind = "wsmx_tree" /\ Wsm!WsmInit
     \/ kind = "am_u_find" /\ Cls!AmUInit
     \/ kind = "wc_u_find" /\ Cls!WcUInit
     \/ kind = "lca_find" /\ Lca!LcaInit

\* The next key of the script is inserted.
Load ==
  /\ script # <<>> /\ script' = Tail(script)
  /\ \/ kind = "h_bl" /\ Tree!HBlInsert(Head(script))
     \/ kind = "w_bl" /\ Tree!WBlInsert(Head(script))
     \/ kind = "rb" /\ RB!RbInsert(Head(script))
     \/ kind = "t_rb" /\ RB!TRbInsert(Head(script))
     \/ kind = "a_b" /\ AB!Insert(Head(script))
     \/ kind = "k_hash" /\ KHs!KHInsert(Head(script))

Free ==
  /\ script = <<>> /\ UNCHANGED script /\ (kind \notin Counting => UNCHANGED nodes)
  /\ \/ kind = "triv" /\ Tree!TrivNext
     \/ kind = "b_op" /\ Tree!BOpNext
     \/ kind = "t_op" /\ Tree!TOpNext
     \/ kind = "h_bl" /\ Tree!HBlNext
     \/ kind = "w_bl" /\ Tree!WBlNext
     \/ kind = "rb" /\ RB!RbNext
     \/ kind = "t_rb" /\ RB!TRbNext
     \/ kind = "a_b" /\ AB!Next
     \/ kind = "spla" /\ Spla!Next
     \/ kind = "skip" /\ Skip!Next
     \/ kind = "ar_n" /\ Trie!ArNNext
     \/ kind = "li_n" /\ Trie!LiNNext
     \/ kind = "al_r" /\ Trie!AlRNext
     \/ kind = "un_i" /\ UnI!UnINext
     \/ kind = "un_s" /\ UnS!UnSNext
     \/ kind = "perf" /\ Perf!PerfNext
     \/ kind = "k_hash" /\ KHs!KHNext
     \/ kind = "sparse_matrix" /\ Mat!MatNext
     \/ kind = "ar_stack" /\ ArS!ArSNext
     \/ kind = "bl_stack" /\ BlS!BlSNext
     \/ kind = "li_stack" /\ Lin!LiSNext
     \/ kind = "shd_stack" /\ ShS!ShSNext
     \/ kind = "ar_queue" /\ ArQ!ArQNext
     \/ kind = "li_queue" /\ Lin!LiQNext
     \/ kind = "c_l_queue" /\ Lin!CLQNext
     \/ kind = "dll_queue" /\ Lin!DlQNext
     \/ kind = "min_queue" /\ MiQ!MiQNext
     \/ kind = "k_list" /\ Ker!KLNext
     \/ kind = "array_stack" /\ BlS!AStNext
     \/ kind = "heap" /\ LHp!LHpNext
     \/ kind = "list" /\ Lst!LstNext
     \/ kind = "list_stack" /\ Lst!LSkNext
     \/ kind = "queue" /\ Lst!QueNext
     \/ kind = "circ_list" /\ Lst!CirNext
     \/ kind = "double_list" /\ Lst!DblNext
     \/ kind = "ar_heap" /\ Heap!ArHNext
     \/ kind = "bino_heap" /\ Heap!BiHNext
     \/ kind = "fibo_heap" /\ Heap!FiHNext
     \/ kind = "left_heap" /\ Heap!LeHNext
     \/ kind = "skew_heap" /\ Heap!SkHNext
     \/ kind = "tree_heap" /\ TrH!TrHNext
     \/ kind = "intv_tree" /\ Itv!ItvNext
     \/ kind = "segm_tree" /\ Itv!SegNext
     \/ kind = "or_r_tree" /\ OrR!OrRNext
     \/ kind = "wsum_tree" /\ Wsu!WsuNext
     \/ kind = "wsmx_tree" /\ Wsm!WsmNext
     \/ kind = "am_u_find" /\ Cls!AmUNext
     \/ kind = "wc_u_find" /\ Cls!WcUNext
     \/ kind = "lca_find" /\ Lca!LcaNext

Next == UNCHANGED kind /\ (Load \/ Free)

Spec == Init /\ [][Next]_vars

-----------------------------------------------------------------------------
(* Search structures.                                                      *)

\* What the structure holds: the refinement mapping.
dict ==
  CASE kind \in {"triv", "h_bl", "w_bl", "rb", "t_rb"} -> Tree!Contents(store)
    [] kind \in {"b_op", "t_op"} -> Tree!OpHolds(store)
    [] kind = "a_b" -> AB!Contents(store)
    [] kind = "spla" -> Spla!Contents(store)
    [] kind = "skip" -> Skip!Contents(store)
    [] kind = "ar_n" -> Trie!ArNContents(store)
    [] kind = "li_n" -> Trie!LiNContents(store)
    [] kind = "al_r" -> Trie!AlRContents(store)
    [] kind = "un_i" -> UnI!UnIContents(store)
    [] kind = "un_s" -> UnS!UnSContents(store)
    [] kind = "perf" -> Perf!PerfContents(store)
    [] kind = "k_hash" -> KHs!KHContents(store)
    [] kind = "sparse_matrix" -> Mat!MatContents(store)

D == INSTANCE Dictionary WITH Keys <- AllKeys \cup Cells, Object <- Tree!Object

\* interval_find() of ch2/triv_tree.c does not ask whether the tree is empty and find() of
\* ch3/a_b_tree.c does not ask whether the root has an entry: after the last object is
\* deleted both answer with what it left behind.
StaleAnswer ==
  /\ dict = <<>> /\ UNCHANGED store
  /\ \/ kind = "triv" /\ ans'[1] = "range"
     \/ kind = "a_b" /\ ans'[1] = "find"

\* delete() of ch3/t_rb_tree.c reads through a NULL pointer and the program ends; so it does
\* when libs/data_structs/sparse_matrix.c frees a node.
Killed == kind \in {"t_rb", "sparse_matrix"} /\ ans'[1] = "crash"

\* delete() of ch8/ar_n_trie.c has freed a node to which the root still points.
Dangles == kind = "ar_n" /\ ~Trie!NoDangling(store)

\* Every program answers each command as a dictionary does and holds what a dictionary
\* would: an insert makes the object of its key findable and touches no other key, a delete
\* takes exactly the object it returns, whatever rotations, splits, joins, splays or passes
\* happen below.  Excepted are the stale answers, the crash and the
\* dangling pointer named above.
IsDictionary ==
  [][(kind \in SearchKinds) => \/ D!Next \/ StaleAnswer \/ Killed \/ Dangles'
                            \/ UNCHANGED <<dict, ans>>]_<<store, ans>>

Low == -1000
High == 1000

\* The check_tree() functions of the programs have nothing to report: keys lie between the
\* bounds the nodes above them set, the lists of a skip list are sorted sublists of each
\* other, a trie has no branch without a string below it and its reference counts are
\* right.
CheckIsSilent ==
  CASE kind \in {"triv", "h_bl", "w_bl", "rb", "t_rb"} -> Tree!Ordered(store, Low, High)
    [] kind \in {"b_op", "t_op"} -> Tree!OpSorted(store)
    [] kind = "a_b" -> AB!Ordered(store, Low, High)
    [] kind = "spla" -> Spla!Ordered(store, Low, High)
    [] kind = "skip" -> Skip!Ordered(store)
    [] kind = "li_n" -> Trie!LiNSound(store)
    [] kind = "al_r" -> Trie!AlRSound(store)
    [] kind = "k_hash" -> KHs!KHSound(store)
    [] kind = "sparse_matrix" -> Mat!MatSound(store)
    [] OTHER -> TRUE

\* What makes the searches fast: the heights, weights, colours or degrees of chapter 3's
\* trees are right and within the bounds of their kind, and a tree that is made from a
\* list in chapter 2 has minimal height.
Balanced ==
  CASE kind = "h_bl" -> Tree!HBlBalanced(store)
    [] kind = "w_bl" -> Tree!WBlBalanced(store)
    [] kind \in {"rb", "t_rb"} -> RB!Balanced(store)
    [] kind = "a_b" -> AB!Balanced(store)
    [] kind \in {"b_op", "t_op"} -> Tree!OpBalanced(store)
    [] OTHER -> TRUE

\* The nodes the structure consists of.
TreeNodes ==
  CASE kind \in {"triv", "h_bl", "w_bl", "rb", "t_rb"} -> Tree!Count(store)
    [] kind \in {"b_op", "t_op"} -> Tree!OpInUse(store)
    [] kind = "a_b" -> AB!Count(store)
    [] kind = "spla" -> Spla!Count(store)
    [] kind = "skip" -> Skip!Count(store)
    [] kind = "ar_n" -> Trie!ArNCount(store)
    [] kind = "li_n" -> Trie!LiNCount(store)
    [] kind = "al_r" -> Trie!AlRCount(store)
    [] kind = "un_i" -> UnI!UnICount(store)
    [] kind = "un_s" -> UnS!UnSCount(store)
    [] kind = "perf" -> 0
    [] kind = "k_hash" -> store.bucket_cnt
    [] kind = "sparse_matrix" -> Cardinality(DOMAIN store.data)

\* find() of ch3/spla_tree.c leaves the nodes of its stack untouched when the key is absent.
StackLeft == kind = "spla" /\ ans'[1] = "find" /\ ans'[3] = -1

\* Every call takes from the pool exactly the nodes by which the structure grows and gives
\* back those by which it shrinks, nodes of the stacks and lists it needs meanwhile
\* included: no command leaks a node or returns one that is in use.
NodesAccounted ==
  [][(kind \in SearchKinds) => \/ nodes' - nodes = TreeNodes' - TreeNodes
                            \/ StackLeft \/ Dangles']_<<store, nodes>>

-----------------------------------------------------------------------------
(* The other structures.                                                   *)

Stacks == {"ar_stack", "bl_stack", "li_stack", "shd_stack", "array_stack"}
Queues == {"ar_queue", "li_queue", "c_l_queue", "dll_queue", "min_queue"}
ListKinds == {"k_list", "list", "list_stack", "queue", "circ_list", "double_list"}
Heaps == {"ar_heap", "bino_heap", "fibo_heap", "left_heap", "skew_heap", "tree_heap", "heap"}

\* The items of a stack or queue, in the order in which they were added, and of a list.
line ==
  CASE kind = "ar_stack" -> store
    [] kind = "bl_stack" -> BlS!BlSContents(store)
    [] kind = "li_stack" -> Lin!LiSContents(store)
    [] kind = "shd_stack" -> ShS!ShSContents(store)
    [] kind = "ar_queue" -> ArQ!ArQContents(store)
    [] kind = "li_queue" -> Lin!LiQContents(store)
    [] kind = "c_l_queue" -> Lin!CLQContents(store)
    [] kind = "dll_queue" -> Lin!DlQContents(store)
    [] kind = "min_queue" -> store.objects
    [] kind = "array_stack" -> store.storage
    [] kind = "k_list" -> Ker!Elems(store, 1)
    [] kind = "list" -> Lst!Data(store, Lst!LstUsed(store))
    [] kind = "list_stack" -> Reverse(Lst!Data(store, Lst!LstUsed(store)))
    [] kind = "queue" -> Lst!Data(store, Lst!QueNodes(store))
    [] kind = "circ_list" -> Lst!Data(store, Lst!CirUsed(store))
    [] kind = "double_list" -> Lst!Data(store, Lst!DblNodes(store, store.list))

\* The list beside it.
part ==
  CASE kind = "k_list" -> Ker!Elems(store, 2)
    [] kind = "double_list" -> Lst!Data(store, Lst!DblNodes(store, store.part))
    [] OTHER -> <<>>

L == INSTANCE Line WITH Items <- LineItems \cup FewItems \cup Places, Cap <- LineLen,
                        Value <- Ker!Value

\* push() of ch1/shd_stack.c writes through the base that the last pop() made NULL.
Crashed == kind = "shd_stack" /\ line = <<>> /\ ans' = <<"crash">>

\* CircList_delete() of libs/data_structs answers with the first item and takes the last.
TakesLast ==
  kind = "circ_list" /\ line # <<>> /\ ans' = <<"dequeue", 0, Head(line)>> /\ line' = Front(line)

\* A stack returns the item pushed last of those that are in it, a queue the first, and a
\* minimum queue also names the smallest: what an array that wraps around, a chain of
\* blocks, a half-made copy or a list with a placeholder must not disturb.  A list has its
\* items where the calls put them: splicing, cutting and pasting exchange exactly the items
\* meant, the merge sort of Pintos sorts and keeps equal elements in order, list_unique()
\* takes only neighbours that are equal.  Excepted are the crash of ch1/shd_stack.c after its
\* last item has been taken and the deletion from a circular list named above.
IsLine ==
  [][(kind \in Stacks \cup Queues \cup ListKinds) => L!Next \/ Crashed \/ TakesLast]_<<store, ans>>

\* The keys of a heap, in any order.
heap ==
  CASE kind = "ar_heap" -> store
    [] kind = "bino_heap" -> Heap!BiHKeys(store)
    [] kind = "fibo_heap" -> Heap!FiHKeys(store)
    [] kind = "left_heap" -> Heap!LeHKeys(store)
    [] kind = "skew_heap" -> Heap!SkHKeys(store)
    [] kind = "tree_heap" -> TrH!TrHKeys(store)
    [] kind = "heap" -> store.storage

bag == [k \in LineItems \cup Places |-> Cardinality({i \in DOMAIN heap : heap[i] = k})]

P == INSTANCE PriorityQueue WITH Items <- LineItems \cup Places, Cap <- HeapLen

\* delete_min() of ch5/left_heap.c answers from an empty heap, and insert_heap() of
\* ch5/tree_heap.c takes no key twice but says so to nobody.
HeapException ==
  /\ UNCHANGED bag
  /\ \/ kind = "left_heap" /\ heap = <<>>
     \/ kind = "tree_heap" /\ ans'[1] = "insert" /\ bag[ans'[2]] = 1

\* delete_min() does not ask whether the heap is empty and reads what was never written.
HeapCrashed ==
  kind \in {"left_heap", "skew_heap", "bino_heap"} /\ heap = <<>> /\ ans' = <<"crash">>

\* Every heap returns a smallest key with each delete_min() and keeps all others, however it
\* cuts, links, exchanges and merges its trees.  Excepted are the cases above, all but one
\* of them delete_min() on an empty heap.
IsPriorityQueue ==
  [][(kind \in Heaps) => P!Next \/ HeapCrashed \/ HeapException]_<<store, ans>>

U == INSTANCE UnionFind WITH Items <- UFItems, Pairs <- UFPairs,
                             classes <- Cls!ClassesOf(store.up)

\* join() is called for two items of one class, and main() does not come back.
JoinedAgain ==
  /\ ans'[1] = "hang" /\ UNCHANGED store
  /\ \E c \in Cls!ClassesOf(store.up) : ToSet(ans'[2]) \subseteq c

\* same_class() answers whether the joins so far connect the two items, and path
\* compression, the exchange of roots and the moves between levels change no class.
\* Excepted is a join that has been made before.
IsUnionFind ==
  [][(kind \in {"am_u_find", "wc_u_find"}) => U!Next \/ JoinedAgain]_<<store, ans>>

Occurrences(x, s) == Cardinality({i \in DOMAIN s : s[i] = x})

\* `answer` lists those of `given` that Test selects, each as often as it was given.
Exactly(given, answer, Test(_)) ==
  /\ ToSet(answer) \subseteq ToSet(given)
  /\ \A x \in ToSet(given) :
       Occurrences(x, answer) = IF Test(x) THEN Occurrences(x, given) ELSE 0

\* The queries of chapters 4 and 6 against their definitions: the intervals of a segment
\* tree that contain a key, the points of a range tree in a box, the sum of the weights at a
\* key, their maximum over an interval, the lowest common ancestor.
AnswersAreRight ==
  [][ans' # <<>> =>
     CASE kind = "segm_tree" ->
            Exactly(store.given, ans'[3], LAMBDA i : i[1] <= ans'[2] /\ ans'[2] < i[2])
       [] kind = "or_r_tree" ->
            Exactly(store.given, ans'[3], LAMBDA p :
              \A d \in {1, 2} : ans'[2][1][d] <= p[d] /\ p[d] < ans'[2][2][d])
       [] kind = "wsum_tree" /\ ans'[1] = "sum" ->
            ans'[3] = Itv!ValueAt(store.given, ans'[2])
       [] kind = "wsmx_tree" /\ ans'[1] = "max" ->
            ans'[3] = Max({Itv!ValueAt(store.given, k) : k \in ans'[2][1] .. ans'[2][2] - 1})
       [] kind = "lca_find" /\ ans'[1] = "lca" ->
            ans'[3] = Lca!LcaOf(store.up, ans'[2][1], ans'[2][2])
       [] OTHER -> TRUE]_<<store, ans>>

\* "the following intervals contain key" and "no interval found for key": find_intervals()
\* of ch4/intv_tree.c answers with those of the intervals, printed [low,up[, that contain
\* the key, each as often as it was given.
IntervalsContainKey ==
  [][kind = "intv_tree" /\ ans' # <<>> =>
       Exactly(store.given, ans'[3], LAMBDA i : i[1] <= ans'[2] /\ ans'[2] < i[2])]_<<store, ans>>

Quitted == ans = <<"quit">>

\* The structure below the answers: what check_tree() looks at, heap order, leftist ranks,
\* binomial blocks, the array and the copy of the stack, heights of balanced trees, ranks
\* and levels of class trees, forward pointers of 2^l steps.
StructureIsSound ==
  CASE kind \in SearchKinds -> CheckIsSilent
    [] kind = "shd_stack" -> Quitted \/ ShS!Sound(store)
    [] kind = "array_stack" -> Len(store.storage) <= store.size
    [] kind = "heap" -> LHp!LHpSound(store)
    [] kind = "k_list" -> Ker!KLSound(store)
    [] kind = "list_stack" -> store.count = Len(Lst!LstUsed(store))
    [] kind = "double_list" -> Quitted \/ Lst!DblSound(store)
    [] kind = "ar_heap" -> Heap!ArHHeapOrdered(store)
    [] kind = "bino_heap" -> Heap!BiHBinomial(store)
    [] kind = "fibo_heap" -> Heap!FiHSound(store)
    [] kind = "left_heap" -> Heap!HeapOrdered(store) /\ (~Heap!LeHHeapEmpty => Heap!Ranked(store))
    [] kind = "skew_heap" -> Heap!SkHHeapEmpty \/ Heap!HeapOrdered(store)
    [] kind = "tree_heap" -> TrH!TrHSound(store)
    [] kind = "wsum_tree" -> Wsu!WsuSound(store)
    [] kind = "wsmx_tree" -> Wsm!WsmSound(store)
    [] kind = "am_u_find" -> Cls!AmUSound(store)
    [] kind = "wc_u_find" -> Cls!WcUSound(store)
    [] kind = "lca_find" -> Lca!LcaSound(store)
    [] OTHER -> TRUE

InUse(used) == IF Quitted THEN <<>> ELSE used

\* Every node is in the structure or on the free list, once; a program without a modelled
\* pool has taken exactly the nodes its structure consists of, and none after it quits.
\* Excepted are what CircList_destroy() leaves, and the header of an empty queue that
\* Queue_destroy() leaves.
NoNodeIsLost ==
  CASE kind = "li_stack" -> Lin!Accounted(store, InUse(Lin!LiSUsed(store)))
    [] kind = "li_queue" -> Lin!Accounted(store, InUse(Lin!LiQUsed(store)))
    [] kind = "c_l_queue" -> Lin!Accounted(store, InUse(Lin!CLQUsed(store)))
    [] kind = "dll_queue" -> Lin!Accounted(store, InUse(Lin!DlQUsed(store)))
    [] kind \in {"list", "list_stack"} -> Lst!Accounted(store, InUse(Lst!LstUsed(store)))
    [] kind = "queue" ->
         \/ Lst!Accounted(store, InUse(Lst!QueUsed(store)))
         \/ Quitted /\ Lst!Accounted(store, <<Lst!qu>>)
    [] kind = "circ_list" -> Quitted \/ Lst!Accounted(store, Lst!CirUsed(store))
    [] kind = "double_list" -> Lst!Accounted(store, InUse(Lst!DblUsed(store)))
    [] kind = "bl_stack" -> nodes = IF Quitted THEN 0 ELSE 2 + 2 * Len(store.previous)
    [] kind = "min_queue" ->
         nodes = IF Quitted THEN 0 ELSE 3 + Len(store.objects) + Len(store.minkeys)
    [] kind \in {"bino_heap", "left_heap", "skew_heap"} ->
         nodes = IF Quitted THEN 0 ELSE Max({1, Len(heap)})
    [] kind = "fibo_heap" -> nodes = 1 + Len(heap)
    [] kind = "tree_heap" -> nodes = Max({1, 2 * Len(heap) - 1})
    [] OTHER -> TRUE

Ended == ans \in {<<"quit">>, <<"crash">>} \/ Cls!Hung

\* The answer of the last call matters only when it ended the program.  The nodes that
\* ch3/spla_tree.c never returns are not counted up.
view == <<kind, script, store, IF Ended THEN ans ELSE <<>>, IF kind = "spla" THEN 0 ELSE nodes>>
=============================================================================
