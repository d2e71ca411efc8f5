------------------------------- MODULE Malloc -------------------------------
(***************************************************************************)
(* threads/malloc.c: blocks of fixed sizes cut out of page-sized arenas,   *)
(* big blocks of whole pages, calloc() and realloc().                      *)
(*                                                                         *)
(* A descriptor's lock covers everything malloc() and free() do with its   *)
(* free list and its arenas, so each is one step; realloc() is a malloc()  *)
(* and a free(), with steps of others in between.  The page allocator is   *)
(* used for what module Palloc shows: it finds pages that are free, or     *)
(* fails (frees run beside a search, so it need not take the first place). *)
(***************************************************************************)
EXTENDS Integers, Sequences, FiniteSets, FiniteSetsExt, SequencesExt

CONSTANTS PageCnt,        \* pages in the kernel pool
          PGSIZE,         \* bytes of a page
          MinBlock,       \* the smallest block_size
          Header,         \* sizeof (struct arena)
          Width,          \* bits of a size_t
          Size,           \* the sizes malloc() and realloc() are asked for
          Factor,         \* the factors calloc() is asked to multiply
          MaxBlocks       \* bound: blocks callers have at a time

\* What the constants have to be.
SizeAssumption ==
  /\ PageCnt \in Nat \ {0} /\ MinBlock \in Nat \ {0} /\ Header \in Nat \ {0}
  /\ MinBlock < PGSIZE \div 2 /\ Header + MinBlock <= PGSIZE /\ PGSIZE < 2 ^ Width
  /\ Size \cup Factor \subseteq 1 .. 2 ^ Width - 1

Page == 0 .. PageCnt - 1

VARIABLES free_list,      \* of each descriptor: blocks [page, idx]
          arena,          \* arena header of a page: [desc, free_cnt], or None
          used,           \* the pages palloc has handed out
          blocks,         \* history: callers' blocks [page, idx, size]
          moving          \* realloc()s between malloc() and free(): [old, new]

vars == <<free_list, arena, used, blocks, moving>>

\* malloc_init(): the descriptors' block sizes are powers of 2 times the
\* smallest, below half a page.  A descriptor is named by its block_size.
Desc == {MinBlock * 2 ^ k : k \in 0 .. Width} \cap 1 .. (PGSIZE \div 2) - 1

\* Mutant: the room for the arena header is forgotten.
BlocksPerArenaNoHeader(d) == PGSIZE \div d

BlocksPerArena(d) == (PGSIZE - Header) \div d

BigDesc == 0
None == [desc |-> BigDesc, free_cnt |-> 0]

Init ==
  /\ free_list = [d \in Desc |-> << >>]
  /\ arena = [p \in Page |-> None]
  /\ used = {}
  /\ blocks = {}
  /\ moving = {}

-----------------------------------------------------------------------------

\* The smallest descriptor that satisfies the request, BigDesc if none does.
DescFor(size) ==
  IF \E d \in Desc : d >= size THEN Min({d \in Desc : d >= size}) ELSE BigDesc

\* DIV_ROUND_UP (size + sizeof *a, PGSIZE), in a size_t.
BigPages(size) == ((size + Header + PGSIZE - 1) % 2 ^ Width) \div PGSIZE

\* Where palloc_get_multiple() can find cnt pages; it refuses to look for none.
Fits(cnt) ==
  {p \in Page : cnt > 0 /\ p + cnt - 1 \in Page /\ p .. p + cnt - 1 \cap used = {}}

\* The blocks of an arena in the order malloc() adds them to the free list.
ArenaBlocks(p, d) == [i \in 1 .. BlocksPerArena(d) |-> [page |-> p, idx |-> i - 1]]

\* The caller asked for size bytes, and gets block b.
Return(b, size) == blocks' = blocks \cup {[page |-> b.page, idx |-> b.idx, size |-> size]}

\* malloc() of a big block.
MallocBig(size, wanted) ==
  LET cnt == BigPages(size)
  IN /\ DescFor(size) = BigDesc
     /\ \E p \in Fits(cnt) :
          /\ used' = used \cup p .. p + cnt - 1
          /\ arena' = [arena EXCEPT ![p] = [desc |-> BigDesc, free_cnt |-> cnt]]
          /\ Return([page |-> p, idx |-> 0], wanted)
     /\ UNCHANGED free_list

\* malloc() from a free list.
MallocListed(size, wanted) ==
  LET d == DescFor(size)
      b == Head(free_list[d])
  IN /\ d # BigDesc /\ free_list[d] # << >>
     /\ free_list' = [free_list EXCEPT ![d] = Tail(@)]
     /\ arena' = [arena EXCEPT ![b.page].free_cnt = @ - 1]
     /\ Return(b, wanted)
     /\ UNCHANGED used

\* malloc() that needs a new arena, and takes its first block.
MallocArena(size, wanted) ==
  LET d == DescFor(size)
  IN /\ d # BigDesc /\ free_list[d] = << >>
     /\ \E p \in Fits(1) :
          /\ used' = used \cup {p}
          /\ arena' = [arena EXCEPT ![p] = [desc |-> d, free_cnt |-> BlocksPerArena(d) - 1]]
          /\ free_list' = [free_list EXCEPT ![d] = Tail(ArenaBlocks(p, d))]
          /\ Return(ArenaBlocks(p, d)[1], wanted)

\* A malloc() of size bytes that succeeds, for a caller who wants so many; one
\* that fails changes nothing.
Allocate(size, wanted) ==
  /\ Cardinality(blocks) < MaxBlocks
  /\ MallocBig(size, wanted) \/ MallocListed(size, wanted) \/ MallocArena(size, wanted)

Malloc(size) == Allocate(size, size) /\ UNCHANGED moving

\* calloc(): the product is taken in a size_t, and refused if it is less than
\* a factor.
Calloc(a, b) ==
  LET size == (a * b) % 2 ^ Width
  IN /\ size >= a /\ size >= b
     /\ Allocate(size, a * b)
     /\ UNCHANGED moving

\* free() of a big block.
FreeBig(b) ==
  /\ arena[b.page].desc = BigDesc
  /\ used' = used \ (b.page .. b.page + arena[b.page].free_cnt - 1)
  /\ arena' = [arena EXCEPT ![b.page] = None]
  /\ UNCHANGED free_list

\* free() of a block while others of its arena are in use.
FreeBlock(b) ==
  LET a == arena[b.page]
  IN /\ a.desc # BigDesc /\ a.free_cnt + 1 < BlocksPerArena(a.desc)
     /\ free_list' = [free_list EXCEPT ![a.desc] = <<[page |-> b.page, idx |-> b.idx]>> \o @]
     /\ arena' = [arena EXCEPT ![b.page].free_cnt = @ + 1]
     /\ UNCHANGED used

\* Mutant: the blocks of a freed arena stay on the free list.
FreeArenaKeepsBlocks(b) ==
  LET a == arena[b.page]
  IN /\ a.desc # BigDesc /\ a.free_cnt + 1 >= BlocksPerArena(a.desc)
     /\ arena' = [arena EXCEPT ![b.page] = None]
     /\ used' = used \ {b.page}
     /\ UNCHANGED free_list

\* free() of an arena's last block in use: its blocks leave the free list and
\* its page is freed.
FreeArena(b) ==
  LET a == arena[b.page]
      InOther(c) == c.page # b.page
  IN /\ a.desc # BigDesc /\ a.free_cnt + 1 >= BlocksPerArena(a.desc)
     /\ free_list' = [free_list EXCEPT ![a.desc] = SelectSeq(@, InOther)]
     /\ arena' = [arena EXCEPT ![b.page] = None]
     /\ used' = used \ {b.page}

Release(b) == blocks' = blocks \ {b} /\ (FreeBig(b) \/ FreeBlock(b) \/ FreeArena(b))

\* A block is its caller's to free unless it is in a realloc().
IsCallers(b) == \A m \in moving : b # m.old /\ b # m.new

Free(b) == IsCallers(b) /\ Release(b) /\ UNCHANGED moving

\* realloc() of a caller's block: its malloc() ...
Realloc(b, size) ==
  /\ IsCallers(b)
  /\ Allocate(size, size)
  /\ \E new \in blocks' \ blocks : moving' = moving \cup {[old |-> b, new |-> new]}

\* ... and, after the copy, its free().
ReallocFrees(m) == Release(m.old) /\ moving' = moving \ {m}

Next ==
  \/ \E size \in Size : Malloc(size)
  \/ \E a, b \in Factor : Calloc(a, b)
  \/ \E b \in blocks : Free(b) \/ \E size \in Size : Realloc(b, size)
  \/ \E m \in moving : ReallocFrees(m)

Spec == Init /\ [][Next]_vars

-----------------------------------------------------------------------------
(* Properties. *)

Block == [page : Page, idx : 0 .. PGSIZE]

TypeOK ==
  /\ used \subseteq Page
  /\ arena \in [Page -> [desc : Desc \cup {BigDesc}, free_cnt : 0 .. PGSIZE]]
  /\ \A d \in Desc : \A i \in DOMAIN free_list[d] :
       /\ free_list[d][i] \in Block
       /\ free_list[d][i].idx < BlocksPerArena(d)
  /\ \A m \in moving : {m.old, m.new} \subseteq blocks

\* block_size(): the bytes allocated for a block.
BlockSize(b) ==
  LET a == arena[b.page]
  IN IF a.desc # BigDesc THEN a.desc ELSE PGSIZE * a.free_cnt - Header

\* The addresses of a block of a descriptor, and of a block a caller has.
Bytes(b, len, unit) ==
  LET from == b.page * PGSIZE + Header + b.idx * unit IN from .. from + len - 1
BytesOf(b) == Bytes(b, BlockSize(b), arena[b.page].desc)

\* Blocks in use overlap neither each other nor an arena header nor a block on
\* a free list, and lie in pages that are allocated: a caller that fills its
\* block harms nobody.
BlocksAreApart ==
  /\ \A b \in blocks : \A x \in BytesOf(b) :
       /\ x \div PGSIZE \in used
       /\ \A c \in blocks \ {b} : x \notin BytesOf(c)
       /\ \A c \in blocks : x \notin c.page * PGSIZE .. c.page * PGSIZE + Header - 1
       /\ \A d \in Desc : \A c \in Range(free_list[d]) : x \notin Bytes(c, d, d)
  /\ \A d \in Desc : IsInjective(free_list[d])

\* An arena counts the blocks of it that are on its descriptor's free list, and
\* every such block is of an arena with a block in use.  So free()'s ASSERT
\* holds, and list_remove() is only called for blocks that are in the list.
FreeCntIsRight ==
  TypeOK /\ \A d \in Desc, p \in Page :
    LET listed == Cardinality({c \in Range(free_list[d]) : c.page = p})
    IN IF arena[p].desc = d
       THEN /\ arena[p].free_cnt = listed
            /\ listed + Cardinality({b \in blocks : b.page = p}) = BlocksPerArena(d)
            /\ listed < BlocksPerArena(d)
       ELSE listed = 0

\* Only pages that hold a block in use are allocated: when callers have freed
\* what they got, every page is free again.
NothingLeaks ==
  used = UNION {{x \div PGSIZE : x \in BytesOf(b)} \cup {b.page} : b \in blocks}

\* malloc() returns "a new block of at least SIZE bytes", calloc() "A times B
\* bytes"; and what realloc() copies fits the new block and is all that the
\* old block and the new one have in common.
EnoughRoom ==
  /\ \A b \in blocks : BlockSize(b) >= b.size
  /\ \A m \in moving :
       LET copied == Min({m.new.size, BlockSize(m.old)})
       IN copied <= BlockSize(m.new) /\ copied >= Min({m.new.size, m.old.size})
=============================================================================
