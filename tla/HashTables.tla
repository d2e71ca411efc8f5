----------------------------- MODULE HashTables -----------------------------
(***************************************************************************)
(* The hash tables of books/advanced_data_structures, chapter 9, and of    *)
(* OS/pintos/src/lib/kernel/hash.c; the sparse matrix of                   *)
(* libs/data_structs/sparse_matrix.c.                                      *)
(***************************************************************************)
EXTENDS Integers, SequencesExt

CONSTANTS Keys, MAXP,   \* the prime, 46337 in the program
          Size,   \* the size of the table, 20 in main()
          Spell,   \* the characters of a key
          MaxKeys,   \* what main()'s arrays have room for, 1000 there
          Limit   \* the sum of the squared bucket sizes is at most Limit * size, 5 there

VARIABLES tree, ans, nodes

-----------------------------------------------------------------------------
(***************************************************************************)
(* ch9/un_i_hash.c: the hash table with lists and a universal hash         *)
(* function of integers.                                                   *)
(*                                                                         *)
(* insert() does not look whether the key is there already; the input is   *)
(* taken to insert new keys only, from 0 to MAXP - 1.                      *)
(***************************************************************************)

Object(k) == 10 * k + 2

NULL == -1

\* get_node(), n times; return_node() for n < 0.
UnITake(n) == nodes' = nodes + n

\* create_hashtable() draws the parameters of the hash function.
UnIInit ==
  /\ \E a, b \in 0 .. MAXP - 1 : tree = [a |-> a, b |-> b, table |-> [i \in 0 .. Size - 1 |-> <<>>]]
  /\ ans = <<>> /\ nodes = 0

\* universalhashfunction()
UnIHash(k) == ((tree.a * k + tree.b) % MAXP) % Size

UnIPlace(k) == SelectInSeq(tree.table[UnIHash(k)], LAMBDA x : x.key = k)

Entry(k) == tree.table[UnIHash(k)][UnIPlace(k)]

\* find(), which leaves the list, and find_mtf(), which moves the entry to the front;
\* main() calls one after the other.
UnIFind(k) ==
  /\ ans' = <<"find", k, IF UnIPlace(k) = 0 THEN NULL ELSE Entry(k).obj>>
  /\ tree' = IF UnIPlace(k) = 0 THEN tree
             ELSE [tree EXCEPT !.table[UnIHash(k)] = <<Entry(k)>> \o RemoveAt(@, UnIPlace(k))]
  /\ UnITake(0)

UnIInsert(k) ==
  /\ tree' = [tree EXCEPT !.table[UnIHash(k)] = <<[key |-> k, obj |-> Object(k)]>> \o @]
  /\ ans' = <<"insert", k, 0>> /\ UnITake(1)

UnIDelete(k) ==
  \/ UnIPlace(k) = 0 /\ ans' = <<"delete", k, NULL>> /\ UNCHANGED <<tree, nodes>>
  \/ /\ UnIPlace(k) # 0
     /\ tree' = [tree EXCEPT !.table[UnIHash(k)] = RemoveAt(@, UnIPlace(k))]
     /\ ans' = <<"delete", k, Entry(k).obj>> /\ UnITake(-1)

Items(t) == UNION {ToSet(t.table[i]) : i \in DOMAIN t.table}

UnIContents(t) ==
  [k \in {x.key : x \in Items(t)} |-> (CHOOSE x \in Items(t) : x.key = k).obj]

UnINext == \E k \in Keys :
          \/ k \notin DOMAIN UnIContents(tree) /\ UnIInsert(k)
          \/ UnIFind(k)
          \/ UnIDelete(k)

UnICount(t) == FoldFunction(LAMBDA s, n : Len(s) + n, 0, t.table)

-----------------------------------------------------------------------------
(***************************************************************************)
(* ch9/un_s_hash.c: the hash table with lists and a universal hash         *)
(* function of strings, which draws a factor for a position when a string  *)
(* first reaches it.                                                       *)
(*                                                                         *)
(* insert() does not look whether the key is there already; the input is   *)
(* taken to insert new keys only.                                          *)
(***************************************************************************)

\* get_node(), n times; return_node() for n < 0.
UnSTake(n) == nodes' = nodes + n

\* create_hashtable(): the list of factors has a node that holds none yet.
UnSInit ==
  /\ \E b \in 0 .. MAXP - 1 : tree = [a |-> <<>>, b |-> b, table |-> [i \in 0 .. Size - 1 |-> <<>>]]
  /\ ans = <<>> /\ nodes = 1

\* The lists of factors that universalhashfunction() can leave behind.
Drawn(k) ==
  LET more == Max({0, Len(Spell[k]) - Len(tree.a)})
  IN  {tree.a \o s : s \in [1 .. more -> 0 .. MAXP - 1]}

\* universalhashfunction() with the factors a.
UnSHash(a, k) ==
  FoldLeft(LAMBDA sum, i : sum + ((a[i] * Spell[k][i]) % MAXP),
           tree.b, [i \in DOMAIN Spell[k] |-> i]) % Size

\* The list in which a call that leaves the factors a finds its key.
Chain(a, k) == tree.table[UnSHash(a, k)]

\* The effect of a call that puts `left` in the place of this list, gives the result r and
\* takes n nodes for it.
Call(op, k, a, left, r, n) ==
  /\ tree' = [tree EXCEPT !.a = a, !.table[UnSHash(a, k)] = left]
  /\ ans' = <<op, k, r>>
  /\ UnSTake(n + Len(a) - Len(tree.a))

UnSPlace(at, k) == SelectInSeq(at, LAMBDA x : x.key = k)

Result(at, k) == IF UnSPlace(at, k) = 0 THEN NULL ELSE at[UnSPlace(at, k)].obj

UnSFind(k) ==
  \E a \in Drawn(k) : Call("find", k, a, Chain(a, k), Result(Chain(a, k), k), 0)

UnSInsert(k) ==
  \E a \in Drawn(k) :
    Call("insert", k, a, <<[key |-> k, obj |-> Object(k)]>> \o Chain(a, k), 0, 1)

UnSDelete(k) ==
  \E a \in Drawn(k) :
    LET at == Chain(a, k)
        i == UnSPlace(at, k)
    IN  Call("delete", k, a, IF i = 0 THEN at ELSE RemoveAt(at, i), Result(at, k),
             IF i = 0 THEN 0 ELSE -1)

UnSContents(t) ==
  [k \in {x.key : x \in Items(t)} |-> (CHOOSE x \in Items(t) : x.key = k).obj]

UnSNext == \E k \in Keys :
          \/ k \notin DOMAIN UnSContents(tree) /\ UnSInsert(k)
          \/ UnSFind(k)
          \/ UnSDelete(k)

UnSCount(t) == 1 + Len(t.a) + FoldFunction(LAMBDA s, n : Len(s) + n, 0, t.table)

-----------------------------------------------------------------------------
(***************************************************************************)
(* ch9/perf_hash.c: the two-level hash table without collisions, made once *)
(* for the keys that were read.  Keys are from 0 to MAXP - 1, different,   *)
(* and there is at least one.                                              *)
(***************************************************************************)

PerfInit == tree = [phase |-> "input", keys |-> <<>>] /\ ans = <<>> /\ nodes = 0

\* main()'s first loop.
Read(k) ==
  /\ tree.phase = "input" /\ Len(tree.keys) < MaxKeys
  /\ tree' = [tree EXCEPT !.keys = Append(@, k)]
  /\ ans' = <<"insert", k, 0>> /\ UNCHANGED nodes

Indices(t) == 0 .. Len(t.keys) - 1

Bucket(t, a, k) == ((a * k) % MAXP) % Len(t.keys)

SizeOf(t, a, i) == Cardinality({k \in ToSet(t.keys) : Bucket(t, a, k) = i})

\* create_perf_hash() draws primary factors until the buckets are small, computes the
\* sizes and offsets of the secondary tables, clears them, and draws their factors.
Start ==
  \E a \in 0 .. MAXP - 1 :
    LET Sq(i) == SizeOf(tree, a, i) * SizeOf(tree, a, i)
        sq == FoldSet(LAMBDA i, n : n + Sq(i), 0, Indices(tree))
        offset[i \in Indices(tree)] == IF i = 0 THEN 0 ELSE offset[i - 1] + 2 * Sq(i - 1)
    IN  /\ tree.phase = "input" /\ tree.keys # <<>>
        /\ sq <= Limit * Len(tree.keys)
        /\ \E f \in [Indices(tree) -> 0 .. MAXP - 1] :
             tree' = [phase |-> "build", keys |-> tree.keys, a |-> a, factor |-> f,
                      size |-> [i \in Indices(tree) |-> 2 * Sq(i)], offset |-> offset,
                      slot |-> [i \in 0 .. 2 * sq - 1 |-> MAXP]]
        /\ UNCHANGED <<ans, nodes>>

\* The slot of key k in the secondary table of bucket j.
Slot(t, j, k) == (((k * t.factor[j]) % MAXP) % t.size[j]) + t.offset[j]

\* One turn of the for loop that places the keys: key i goes to its slot, or there is a
\* collision, and the factor with the number of the key becomes 0.
Placed(t, i) ==
  LET k == t.keys[i + 1]
      s == Slot(t, Bucket(t, t.a, k), k)
  IN  IF t.slot[s] \in {MAXP, k} THEN [t EXCEPT !.slot[s] = k]
      ELSE [t EXCEPT !.collision = TRUE, !.factor[i] = 0]

\* One turn of the while loop: all keys are placed, and the tables with the factor 0
\* are cleared and get a new one if there was a collision.
Pass ==
  LET t == FoldLeft(Placed, tree @@ [collision |-> FALSE], [i \in DOMAIN tree.keys |-> i - 1])
      defect == {i \in Indices(t) : t.factor[i] = 0}
      cleared == UNION {t.offset[i] .. t.offset[i] + t.size[i] - 1 : i \in defect}
  IN  /\ tree.phase = "build" /\ UNCHANGED <<ans, nodes>>
      /\ \/ /\ t.collision
            /\ \E f \in [defect -> 0 .. MAXP - 1] :
                 tree' = [tree EXCEPT !.factor = f @@ t.factor,
                                      !.slot = [s \in DOMAIN @ |-> IF s \in cleared THEN MAXP
                                                                   ELSE t.slot[s]]]
         \/ /\ ~t.collision
            /\ tree' = [tree EXCEPT !.phase = "done", !.slot = t.slot]

PerfFind(k) ==
  LET j == Bucket(tree, tree.a, k)
      hit == tree.size[j] # 0 /\ tree.slot[Slot(tree, j, k)] = k
  IN  /\ tree.phase = "done"
      /\ ans' = <<"find", k, IF hit THEN Object(k) ELSE NULL>> /\ UNCHANGED <<tree, nodes>>

PerfNext ==
  \/ \E k \in Keys : k \notin ToSet(tree.keys) /\ Read(k)
  \/ Start
  \/ Pass
  \/ \E k \in Keys : PerfFind(k)

PerfContents(t) == [k \in ToSet(t.keys) |-> Object(k)]

-----------------------------------------------------------------------------
(***************************************************************************)
(* OS/pintos/src/lib/kernel/hash.c: the table of the kernel, whose number  *)
(* of buckets follows the number of elements.  The elements and the hash   *)
(* function are the client's: `mult` is 1 for a function that spreads the  *)
(* keys over the buckets and 8 for one that does not.  A bucket is a list  *)
(* of list.c.  Here `nodes` counts the buckets allocated.                  *)
(***************************************************************************)

BEST_ELEMS_PER_BUCKET == 2

KHElem(k) == [key |-> k, obj |-> Object(k)]

\* The other element with key k.
KHTwin(k) == [key |-> k, obj |-> -Object(k)]

Buckets(n) == [i \in 0 .. n - 1 |-> <<>>]

KHInit ==
  /\ \E m \in {1, 8} : tree = [mult |-> m, buckets |-> Buckets(4), bucket_cnt |-> 4, elem_cnt |-> 0]
  /\ ans = <<>> /\ nodes = 4

FindBucket(h, k) == (h.mult * k) % h.bucket_cnt

\* The place of an equal element in its bucket, 0 without one.
FindElem(h, k) == SelectInSeq(h.buckets[FindBucket(h, k)], LAMBDA e : e.key = k)

InsertElem(h, e) ==
  [h EXCEPT !.elem_cnt = @ + 1, !.buckets[FindBucket(h, e.key)] = <<e>> \o @]

RemoveElem(h, k) ==
  [h EXCEPT !.elem_cnt = @ - 1, !.buckets[FindBucket(h, k)] = RemoveAt(@, FindElem(h, k))]

\* The power of 2 that remains of n when its low bits are turned off.
PowerOf2(n) == Max({p \in {2 ^ i : i \in 0 .. n} : p <= n})

NewBucketCnt(h) == PowerOf2(Max({4, h.elem_cnt \div BEST_ELEMS_PER_BUCKET}))

\* The elements, bucket by bucket.
KHAll(h) ==
  FoldLeft(LAMBDA all, i : all \o h.buckets[i - 1], <<>>, [i \in 1 .. h.bucket_cnt |-> i])

\* Every element goes to the front of its new bucket, bucket by bucket.
Moved(h, n) ==
  LET new == [h EXCEPT !.buckets = Buckets(n), !.bucket_cnt = n]
      Push(g, e) == [g EXCEPT !.buckets[FindBucket(g, e.key)] = <<e>> \o @]
  IN  FoldLeft(Push, new, KHAll(h))

\* The table after rehash() of h: malloc() may fail.
Rehash(h) ==
  LET n == NewBucketCnt(h)
  IN  \/ tree' = h /\ UnITake(0)
      \/ n # h.bucket_cnt /\ tree' = Moved(h, n) /\ UnITake(n - h.bucket_cnt)

KHInsert(k) ==
  LET old == FindElem(tree, k)
  IN  /\ Rehash(IF old = 0 THEN InsertElem(tree, KHElem(k)) ELSE tree)
      /\ ans' = <<"insert", k, IF old = 0 THEN 0 ELSE -1>>

KHOld(k) ==
  LET i == FindElem(tree, k)
  IN  IF i = 0 THEN NULL ELSE tree.buckets[FindBucket(tree, k)][i].obj

KHReplace(e) ==
  /\ Rehash(InsertElem(IF FindElem(tree, e.key) = 0 THEN tree ELSE RemoveElem(tree, e.key), e))
  /\ ans' = <<"replace", <<e.key, e.obj>>, KHOld(e.key)>>

KHFind(k) == ans' = <<"find", k, KHOld(k)>> /\ UNCHANGED <<tree, nodes>>

KHDelete(k) ==
  /\ IF FindElem(tree, k) = 0 THEN UNCHANGED <<tree, nodes>> ELSE Rehash(RemoveElem(tree, k))
  /\ ans' = <<"delete", k, KHOld(k)>>

\* hash_clear() keeps the buckets.
KHClear ==
  /\ tree' = [tree EXCEPT !.buckets = Buckets(tree.bucket_cnt), !.elem_cnt = 0]
  /\ ans' = <<"clear", 0, 0>> /\ UNCHANGED nodes

KHSize == ans' = <<"size", 0, tree.elem_cnt>> /\ UNCHANGED <<tree, nodes>>

\* hash_apply()
KHApply ==
  /\ ans' = <<"apply", 0, [i \in DOMAIN KHAll(tree) |-> KHAll(tree)[i].key]>>
  /\ UNCHANGED <<tree, nodes>>

\* hash_next() from the j-th element of bucket i: the next one, <<>> at the end.
RECURSIVE HashNext(_, _, _)
HashNext(h, i, j) ==
  IF j < Len(h.buckets[i]) THEN <<i, j + 1>>
  ELSE IF i + 1 >= h.bucket_cnt THEN <<>> ELSE HashNext(h, i + 1, 0)

\* hash_first() and hash_next() until the end.
RECURSIVE Iterate(_, _, _)
Iterate(h, i, j) ==
  LET cur == HashNext(h, i, j)
  IN  IF cur = <<>> THEN <<>>
      ELSE <<h.buckets[cur[1]][cur[2]].key>> \o Iterate(h, cur[1], cur[2])

KHIterate == ans' = <<"iterate", 0, Iterate(tree, 0, 0)>> /\ UNCHANGED <<tree, nodes>>

KHDestroy ==
  /\ tree' = [tree EXCEPT !.buckets = Buckets(0), !.bucket_cnt = 0, !.elem_cnt = 0]
  /\ ans' = <<"quit">> /\ UnITake(-tree.bucket_cnt)

KHNext ==
  /\ ans # <<"quit">>
  /\ \/ \E k \in Keys :
          KHInsert(k) \/ KHReplace(KHElem(k)) \/ KHReplace(KHTwin(k)) \/ KHFind(k) \/ KHDelete(k)
     \/ KHClear \/ KHSize \/ KHApply \/ KHIterate \/ KHDestroy

KHContents(h) ==
  LET elems == UNION {ToSet(h.buckets[i]) : i \in DOMAIN h.buckets}
  IN  [k \in {e.key : e \in elems} |-> (CHOOSE e \in elems : e.key = k).obj]

\* Every element is in its bucket and counted, once, and the mask of find_bucket() works.
KHSound(h) ==
  /\ \A i \in DOMAIN h.buckets : \A e \in ToSet(h.buckets[i]) : FindBucket(h, e.key) = i
  /\ h.elem_cnt = Len(KHAll(h)) /\ h.elem_cnt = Cardinality(DOMAIN KHContents(h))
  /\ h.bucket_cnt \in {0} \cup {2 ^ i : i \in 2 .. 6}

-----------------------------------------------------------------------------
(***************************************************************************)
(* libs/data_structs/sparse_matrix.c: every element is in the list of its  *)
(* row and in that of its column.  A node is named by its row and column;  *)
(* the headers of the columns are in row -1, those of the rows in column   *)
(* -1.  The fields nextcol and prevcol link a row, nextrow and prevrow a   *)
(* column.  A key is 10 * row + column.                                    *)
(***************************************************************************)

corner == <<-1, -1>>

None == <<>>

Cell(k) == <<k \div 10, k % 10>>

MatInit ==
  LET alone == (corner :> None)
  IN  /\ tree = [next |-> [col |-> alone, row |-> alone], prev |-> [col |-> alone, row |-> alone],
                 data |-> (corner :> NULL)]
      /\ ans = <<>> /\ nodes = 1

\* `way` is "col" for a walk along a row, "row" for one along a column.
Along(way, n) == IF way = "col" THEN n[2] ELSE n[1]

\* __get_previous_column() and __get_previous_row() from node n on.
RECURSIVE Previous(_, _, _, _)
Previous(m, way, n, x) ==
  IF Along(way, n) <= x /\ m.next[way][n] # None THEN Previous(m, way, m.next[way][n], x)
  ELSE IF Along(way, n) > x THEN m.prev[way][n] ELSE n

\* The node n, with its fields NULL.
Allocated(m, n, obj) ==
  LET cleared == [w \in {"col", "row"} |-> (n :> None)]
      Add(f) == [w \in {"col", "row"} |-> cleared[w] @@ f[w]]
  IN  [next |-> Add(m.next), prev |-> Add(m.prev), data |-> (n :> obj) @@ m.data]

\* n goes into the list behind node p.
Insert(m, way, p, n) ==
  LET after == m.next[way][p]
      a == [m EXCEPT !.next[way][n] = after]
      b == IF after = None THEN a ELSE [a EXCEPT !.prev[way][after] = n]
  IN  [b EXCEPT !.prev[way][n] = p, !.next[way][p] = n]

\* __find_col_head() and __find_row_head() with CREATE_HEADER for the header h.
WithHead(m, way, h) ==
  LET p == Previous(m, way, corner, Along(way, h))
  IN  IF p = h THEN m ELSE Insert(Allocated(m, h, NULL), way, p, h)

\* The element is not there yet.
MatPut(k) ==
  LET n == Cell(k)
      heads == WithHead(WithHead(tree, "col", <<-1, n[2]>>), "row", <<n[1], -1>>)
      colprev == Previous(heads, "col", <<n[1], -1>>, n[2])
      inRow == Insert(Allocated(heads, n, Object(k)), "col", colprev, n)
      rowprev == Previous(inRow, "row", <<-1, n[2]>>, n[1])
      new == Insert(inRow, "row", rowprev, n)
  IN  /\ colprev # n
      /\ tree' = new /\ UnITake(Cardinality(DOMAIN new.data) - Cardinality(DOMAIN tree.data))
      /\ ans' = <<"insert", k, 0>>

\* The node of the key, None without one.
MatFind(k) ==
  LET n == Cell(k)
      header == Previous(tree, "col", corner, n[2])
      rowprev == Previous(tree, "row", header, n[1])
  IN  IF header[2] # n[2] \/ rowprev[1] # n[1] THEN None ELSE rowprev

MatGet(k) ==
  /\ ans' = <<"find", k, IF MatFind(k) = None THEN NULL ELSE tree.data[MatFind(k)]>>
  /\ UNCHANGED <<tree, nodes>>

\* Matrix_clear() of an element that is not there.
MatClearNone(k) ==
  MatFind(k) = None /\ ans' = <<"delete", k, NULL>> /\ UNCHANGED <<tree, nodes>>

\* Matrix_put() of an element that is there, and Matrix_clear() of one that is, pass the
\* address of a variable to free(): the program ends.
MatFreeLocal(k) == MatFind(k) # None /\ ans' = <<"crash">> /\ UNCHANGED <<tree, nodes>>

MatNext ==
  /\ ans # <<"crash">>
  /\ \E k \in Keys : MatPut(k) \/ MatGet(k) \/ MatClearNone(k) \/ MatFreeLocal(k)

MatElems(m) == {n \in DOMAIN m.data : n[1] >= 0 /\ n[2] >= 0}

MatContents(m) ==
  [k \in {10 * n[1] + n[2] : n \in MatElems(m)} |-> m.data[Cell(k)]]

\* Every list is in order and linked both ways, and every node is in the lists it belongs to.
MatSound(m) ==
  \A way \in {"col", "row"}, n \in DOMAIN m.data :
    LET after == m.next[way][n]
        other == IF way = "col" THEN 1 ELSE 2
    IN  /\ after # None => /\ m.prev[way][after] = n /\ after[other] = n[other]
                           /\ Along(way, n) < Along(way, after)
        /\ Along(way, n) >= 0 /\ (n \in MatElems(m) \/ n[other] = -1) => m.prev[way][n] # None
=============================================================================
