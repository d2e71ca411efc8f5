------------------------------- MODULE Tries --------------------------------
(***************************************************************************)
(* The tries of books/advanced_data_structures, chapter 8.                 *)
(***************************************************************************)
EXTENDS Integers, SequencesExt

CONSTANTS Keys, Spell   \* the characters of a key, numbers from 1; 0 ends a string

VARIABLES tree, ans, nodes

-----------------------------------------------------------------------------
(***************************************************************************)
(* ch8/ar_n_trie.c: the trie whose nodes have a pointer for each character.*)
(* The nodes live in a pool, with a free list through next[0], because     *)
(* delete() can leave a pointer to a node that is back in the pool.  A     *)
(* pointer is a node's number, or an object in next['\0'].                 *)
(***************************************************************************)

Object(k) == 10 * k + 2

NULL == -1

Nil == 0

ArNEOS == 0

Root == 1

Chars == {ArNEOS} \cup UNION {ToSet(Spell[k]) : k \in Keys}

Blank == [c \in Chars |-> Nil]

ArNGone == [mem |-> <<>>, free |-> Nil]

\* get_node() and return_node()
GetNode(t) ==
  IF t.free # Nil THEN [id |-> t.free, t |-> [t EXCEPT !.free = t.mem[t.free][0]]]
  ELSE [id |-> Len(t.mem) + 1, t |-> [t EXCEPT !.mem = Append(@, Blank)]]

ReturnNode(t, n) == [t EXCEPT !.mem[n][0] = t.free, !.free = n]

ArNInit == tree = [mem |-> <<Blank>>, free |-> Nil] /\ ans = <<>> /\ nodes = 1

\* The nodes from n along the string w, as far as they exist.
RECURSIVE ArNFollow(_, _, _)
ArNFollow(t, n, w) ==
  IF w = <<>> \/ t.mem[n][Head(w)] = Nil THEN <<n>>
  ELSE <<n>> \o ArNFollow(t, t.mem[n][Head(w)], Tail(w))

ArNLookup(t, w) ==
  LET p == ArNFollow(t, Root, w)
  IN  IF Len(p) <= Len(w) THEN Nil ELSE t.mem[Last(p)][ArNEOS]

Answer(p) == IF p = Nil THEN NULL ELSE p

ArNFind(k) ==
  ans' = <<"find", k, Answer(ArNLookup(tree, Spell[k]))>> /\ UNCHANGED <<tree, nodes>>

\* insert()'s loop makes the missing nodes below n.
RECURSIVE Extended(_, _, _)
Extended(t, n, w) ==
  LET r == GetNode(t)
  IN  IF w = <<>> THEN [t |-> t, id |-> n, new |-> 0]
      ELSE IF t.mem[n][Head(w)] # Nil THEN Extended(t, t.mem[n][Head(w)], Tail(w))
      ELSE LET u == [r.t EXCEPT !.mem[r.id] = Blank, !.mem[n][Head(w)] = r.id]
               e == Extended(u, r.id, Tail(w))
           IN  [e EXCEPT !.new = @ + 1]

ArNInsert(k) ==
  LET e == Extended(tree, Root, Spell[k])
      taken == e.t.mem[e.id][ArNEOS] # Nil
  IN  /\ tree' = IF taken THEN e.t ELSE [e.t EXCEPT !.mem[e.id][ArNEOS] = Object(k)]
      /\ ans' = <<"insert", k, IF taken THEN -1 ELSE 0>>
      /\ nodes' = nodes + e.new

\* delete()'s second loop, from the end of the path p; the root, p[1], is not on its
\* stack.  It returns the nodes that have no pointers left.
RECURSIVE Pruned(_, _, _)
Pruned(t, p, w) ==
  LET n == Last(p)
      c == IF Len(p) > Len(w) THEN ArNEOS ELSE w[Len(p)]
      u == [t EXCEPT !.mem[n][c] = Nil]
      r == Pruned(ReturnNode(u, n), Front(p), w)
  IN  IF Len(p) = 1 THEN [t |-> t, gone |-> 0]
      ELSE IF u.mem[n] # Blank THEN [t |-> u, gone |-> 0]
      ELSE [r EXCEPT !.gone = @ + 1]

ArNDelete(k) ==
  LET w == Spell[k]
      p == ArNFollow(tree, Root, w)
      r == Pruned(tree, p, w)
  IN  \/ /\ Len(p) <= Len(w)
         /\ ans' = <<"delete", k, NULL>> /\ UNCHANGED <<tree, nodes>>
      \/ /\ Len(p) > Len(w)
         /\ tree' = r.t /\ nodes' = nodes - r.gone
         /\ ans' = <<"delete", k, Answer(ArNLookup(tree, w))>>

\* The nodes that pointers lead to from n.
RECURSIVE Reached(_, _)
Reached(t, n) ==
  {n} \cup UNION {Reached(t, t.mem[n][c]) : c \in {d \in Chars \ {ArNEOS} : t.mem[n][d] # Nil}}

\* remove_trie() returns every node it reaches.
ArNQuit ==
  /\ tree' = ArNGone /\ ans' = <<"quit">>
  /\ nodes' = nodes - Cardinality(Reached(tree, Root))

ArNContents(t) ==
  IF t = ArNGone THEN <<>>
  ELSE [k \in {j \in Keys : ArNLookup(t, Spell[j]) # Nil} |-> ArNLookup(t, Spell[k])]

ArNCount(t) == IF t = ArNGone THEN 0 ELSE Cardinality(Reached(t, Root))

RECURSIVE FreeList(_, _)
FreeList(t, n) == IF n = Nil THEN {} ELSE {n} \cup FreeList(t, t.mem[n][0])

\* No pointer of the trie leads to a node of the pool's free list.
NoDangling(t) == t = ArNGone \/ Reached(t, Root) \cap FreeList(t, t.free) = {}

\* The behaviours end where a pointer dangles: a later insert() follows it into nodes
\* that get_node() hands out again, and the trie can become cyclic.
ArNNext ==
  /\ tree # ArNGone /\ NoDangling(tree)
  /\ (\E k \in Keys : ArNInsert(k) \/ ArNFind(k) \/ ArNDelete(k)) \/ ArNQuit

-----------------------------------------------------------------------------
(***************************************************************************)
(* ch8/li_n_trie.c: the trie whose nodes are lists.  A list is a sequence  *)
(* of entries, each a character with what `next` leads to: a list, or the  *)
(* object beside the end of the string.  The node create_trie() makes      *)
(* stands before the first list and is never matched.                      *)
(***************************************************************************)

LiNEOS == 0

LiNGone == <<[ch |-> NULL, next |-> <<>>]>>

\* get_node(), n times; return_node() for n < 0.
LiNTake(n) == nodes' = nodes + n

LiNInit == tree = <<>> /\ ans = <<>> /\ nodes = 1

Char(w) == IF w = <<>> THEN LiNEOS ELSE Head(w)

\* The place of character c in a list, 0 if it is not there.
Place(l, c) == SelectInSeq(l, LAMBDA e : e.ch = c)

\* The places of w's characters, down to where the string leaves the trie (0) or ends.
RECURSIVE Path(_, _)
Path(l, w) ==
  LET i == Place(l, Char(w))
  IN  IF i = 0 \/ w = <<>> THEN <<i>> ELSE <<i>> \o Path(l[i].next, Tail(w))

RECURSIVE LiNLookup(_, _)
LiNLookup(l, w) ==
  LET i == Place(l, Char(w))
  IN  IF i = 0 THEN NULL ELSE IF w = <<>> THEN l[i].next ELSE LiNLookup(l[i].next, Tail(w))

LiNFind(k) == ans' = <<"find", k, LiNLookup(tree, Spell[k])>> /\ UNCHANGED <<tree, nodes>>

\* The nodes for the string w that insert() makes.
RECURSIVE Branch(_, _)
Branch(w, k) ==
  [ch |-> Char(w), next |-> IF w = <<>> THEN Object(k) ELSE <<Branch(Tail(w), k)>>]

RECURSIVE LiNAdded(_, _, _)
LiNAdded(l, w, k) ==
  LET i == Place(l, Char(w))
  IN  IF i = 0 THEN Append(l, Branch(w, k)) ELSE [l EXCEPT ![i].next = LiNAdded(@, Tail(w), k)]

LiNInsert(k) ==
  LET w == Spell[k]
      p == Path(tree, w)
  IN  \/ Last(p) # 0 /\ ans' = <<"insert", k, -1>> /\ UNCHANGED <<tree, nodes>>
      \/ /\ Last(p) = 0
         /\ tree' = LiNAdded(tree, w, k) /\ ans' = <<"insert", k, 0>>
         /\ LiNTake(Len(w) + 2 - Len(p))

\* delete() notes, on its way, the last node that has others in its list: there the
\* path is unlinked.
RECURSIVE LastBranch(_, _)
LastBranch(l, p) ==
  LET below == LastBranch(l[p[1]].next, Tail(p))
  IN  IF Len(p) = 1 THEN IF Len(l) > 1 THEN 1 ELSE 0
      ELSE IF below > 0 THEN 1 + below ELSE IF Len(l) > 1 THEN 1 ELSE 0

RECURSIVE Cut(_, _, _)
Cut(l, p, d) ==
  IF d = 1 THEN RemoveAt(l, p[1]) ELSE [l EXCEPT ![p[1]].next = Cut(@, Tail(p), d - 1)]

\* Mutant: only the unlinked node is returned, not the chain below it.
LiNDeleteLeaks(k) ==
  LET p == Path(tree, Spell[k])
      d == Max({1, LastBranch(tree, p)})
  IN  \/ /\ tree = <<>> \/ Last(p) = 0
         /\ ans' = <<"delete", k, NULL>> /\ UNCHANGED <<tree, nodes>>
      \/ /\ tree # <<>> /\ Last(p) # 0
         /\ tree' = Cut(tree, p, d) /\ LiNTake(-1)
         /\ ans' = <<"delete", k, LiNLookup(tree, Spell[k])>>

LiNDelete(k) ==
  LET p == Path(tree, Spell[k])
      d == Max({1, LastBranch(tree, p)})
  IN  \/ /\ tree = <<>> \/ Last(p) = 0
         /\ ans' = <<"delete", k, NULL>> /\ UNCHANGED <<tree, nodes>>
      \/ /\ tree # <<>> /\ Last(p) # 0
         /\ tree' = Cut(tree, p, d) /\ LiNTake(-(Len(p) + 1 - d))
         /\ ans' = <<"delete", k, LiNLookup(tree, Spell[k])>>

\* The nodes of a list and of what is below it.
RECURSIVE NodeCnt(_)
NodeCnt(l) ==
  FoldLeft(LAMBDA n, e : n + 1 + (IF e.ch = LiNEOS THEN 0 ELSE NodeCnt(e.next)), 0, l)

\* remove_trie()
LiNQuit == tree' = LiNGone /\ ans' = <<"quit">> /\ LiNTake(-(1 + NodeCnt(tree)))

LiNNext ==
  /\ tree # LiNGone
  /\ (\E k \in Keys : LiNInsert(k) \/ LiNFind(k) \/ LiNDelete(k)) \/ LiNQuit

LiNContents(t) == [k \in {j \in Keys : LiNLookup(t, Spell[j]) # NULL} |-> LiNLookup(t, Spell[k])]

LiNCount(t) == IF t = LiNGone THEN 0 ELSE 1 + NodeCnt(t)

\* A character is once in a list, and no list below the first is empty: there is no
\* node that leads to no object.
RECURSIVE LiNSound(_)
LiNSound(l) ==
  /\ \A i, j \in DOMAIN l : l[i].ch = l[j].ch => i = j
  /\ \A i \in DOMAIN l :
       l[i].ch \notin {LiNEOS, NULL} => l[i].next # <<>> /\ LiNSound(l[i].next)

-----------------------------------------------------------------------------
(***************************************************************************)
(* ch8/al_r_trie.c: the trie over half characters, with reference counts.  *)
(* A node has an object or NULL, its count, and the nodes below it as a    *)
(* function on the half characters that have one.                          *)
(***************************************************************************)

Node(ref) == [obj |-> NULL, ref |-> ref, next |-> <<>>]

AlRGone == [obj |-> NULL, ref |-> 0, next |-> <<>>]

\* get_node(), n times; return_node() for n < 0.
AlRTake(n) == nodes' = nodes + n

\* The root's count has one in excess, so that it is never deleted.
AlRInit == tree = Node(1) /\ ans = <<>> /\ nodes = 1

\* The upper and the lower four bits of every character.
Halves(k) == FoldLeft(LAMBDA s, c : s \o <<c \div 16, c % 16>>, <<>>, Spell[k])

\* The nodes from n along w, as far as they exist.
RECURSIVE AlRFollow(_, _)
AlRFollow(n, w) ==
  IF w = <<>> \/ Head(w) \notin DOMAIN n.next THEN <<n>>
  ELSE <<n>> \o AlRFollow(n.next[Head(w)], Tail(w))

AlRLookup(t, w) == LET p == AlRFollow(t, w) IN IF Len(p) <= Len(w) THEN NULL ELSE Last(p).obj

AlRFind(k) == ans' = <<"find", k, AlRLookup(tree, Halves(k))>> /\ UNCHANGED <<tree, nodes>>

\* n with the object o at the end of w.
RECURSIVE AlRAdded(_, _, _)
AlRAdded(n, w, o) ==
  IF w = <<>> THEN [n EXCEPT !.obj = o, !.ref = @ + 1]
  ELSE LET c == Head(w)
       IN  IF c \in DOMAIN n.next THEN [n EXCEPT !.next[c] = AlRAdded(@, Tail(w), o)]
           ELSE [n EXCEPT !.next = (c :> AlRAdded(Node(0), Tail(w), o)) @@ @, !.ref = @ + 1]

AlRInsert(k) ==
  LET w == Halves(k)
      missing == Len(w) + 1 - Len(AlRFollow(tree, w))
  IN  \/ /\ AlRLookup(tree, w) # NULL
         /\ ans' = <<"insert", k, -1>> /\ UNCHANGED <<tree, nodes>>
      \/ /\ AlRLookup(tree, w) = NULL
         /\ tree' = AlRAdded(tree, w, Object(k)) /\ ans' = <<"insert", k, 0>> /\ AlRTake(missing)

\* What `change` makes of the node d steps along w.
RECURSIVE Changed(_, _, _, _)
Changed(n, w, d, new) ==
  IF d = 0 THEN new ELSE [n EXCEPT !.next[Head(w)] = Changed(@, Tail(w), d - 1, new)]

\* delete(): p are the nodes of the path and p[s] is the last one with a count above
\* 1, where the path is cut when the last node is not needed any more.
AlRDelete(k) ==
  LET w == Halves(k)
      p == AlRFollow(tree, w)
      end == Last(p)
      s == Max({1} \cup {i \in 1 .. Len(p) - 1 : p[i].ref > 1})
      top == [p[s] EXCEPT !.ref = @ - 1, !.next = [c \in DOMAIN @ \ {w[s]} |-> @[c]]]
      less == [end EXCEPT !.ref = @ - 1, !.obj = NULL]
  IN  \/ /\ AlRLookup(tree, w) = NULL
         /\ ans' = <<"delete", k, NULL>> /\ UNCHANGED <<tree, nodes>>
      \/ /\ AlRLookup(tree, w) # NULL
         /\ ans' = <<"delete", k, end.obj>>
         /\ \/ less.ref # 0 /\ tree' = Changed(tree, w, Len(w), less) /\ AlRTake(0)
            \/ /\ less.ref = 0
               /\ tree' = Changed(tree, w, s - 1, top)
               /\ AlRTake(-(1 + Cardinality({i \in s .. Len(p) - 1 : p[i].ref = 1})))

RECURSIVE AlRCount(_)
AlRCount(t) ==
  IF t = AlRGone THEN 0 ELSE 1 + FoldFunction(LAMBDA n, m : AlRCount(n) + m, 0, t.next)

\* remove_trie()
AlRQuit == tree' = AlRGone /\ ans' = <<"quit">> /\ AlRTake(-AlRCount(tree))

AlRNext ==
  /\ tree # AlRGone
  /\ (\E k \in Keys : AlRInsert(k) \/ AlRFind(k) \/ AlRDelete(k)) \/ AlRQuit

AlRContents(t) == [k \in {j \in Keys : AlRLookup(t, Halves(j)) # NULL} |-> AlRLookup(t, Halves(k))]

\* A node's count is the number of its pointers and of its object, and no node below
\* the root has neither.
RECURSIVE Counted(_, _)
Counted(n, extra) ==
  /\ n.ref = extra + Cardinality(DOMAIN n.next) + (IF n.obj = NULL THEN 0 ELSE 1)
  /\ n.ref > 0
  /\ \A c \in DOMAIN n.next : Counted(n.next[c], 0)

AlRSound(t) == t = AlRGone \/ Counted(t, 1)
=============================================================================
