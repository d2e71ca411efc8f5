------------------------------ MODULE MCPintos ------------------------------
(***************************************************************************)
(* Threads, Palloc, Malloc and Filesys for TLC.  They share no variable,   *)
(* so one of them runs at a time: `system` is chosen in the initial state  *)
(* and the variables of the others keep their initial values.  Threads is  *)
(* extended, the others are instantiated.                                  *)
(*                                                                         *)
(* The pages of Threads are numbered, and a new thread gets the first free *)
(* one, as from palloc_get_page(); five of them let two threads create one *)
(* at the same time: the initial thread, the idle thread, a second creator *)
(* and the two new ones.  Palloc has a pool of four pages and groups of up *)
(* to three, so that it gets fragmented; Malloc has pages of 10 bytes,     *)
(* with descriptors for blocks of 2 and 4 bytes; Filesys meets the         *)
(* failures the code reckons with, and its names and the callers' files    *)
(* are interchangeable.                                                    *)
(***************************************************************************)
EXTENDS Threads, TLC

CONSTANTS Caller, PoolCnt, MaxGroup,
          PageCnt, PGSIZE, MinBlock, Header, Width, Size, Factor, MaxBlocks,
          Name, File, Data, Zero, NoName, SectorCnt, SlotCnt, MaxCnt, Failing

VARIABLES system,
          used_map, holder, groups, at, group, bit,
          free_list, arena, used, blocks, moving,
          disk, dir, map_file, free_map, inode, file, call, lost

Pool == INSTANCE Palloc WITH Thread <- Caller, PageCnt <- PoolCnt, pc <- at
Heap == INSTANCE Malloc
FS == INSTANCE Filesys

ASSUME Pool!PoolAssumption /\ Heap!SizeAssumption /\ FS!DiskAssumption

poolVars == <<used_map, holder, groups, at, group, bit>>
heapVars == <<free_list, arena, used, blocks, moving>>
fsVars == <<disk, dir, map_file, free_map, inode, file, call, lost>>

PintosInit ==
  /\ system \in {"threads", "pool", "heap", "files"}
  /\ Init /\ Pool!Init /\ Heap!Init /\ FS!Init

FirstFit ==
  \A t, u \in Thread :
    status[t] = "FREE" /\ status[u] = "FREE" /\ status'[t] # "FREE" => t <= u

PintosNext ==
  /\ \/ system = "threads" /\ Next /\ FirstFit /\ UNCHANGED <<poolVars, heapVars, fsVars>>
     \/ system = "pool" /\ Pool!Next /\ UNCHANGED <<vars, heapVars, fsVars>>
     \/ system = "heap" /\ Heap!Next /\ UNCHANGED <<vars, poolVars, fsVars>>
     \/ system = "files" /\ FS!Next /\ UNCHANGED <<vars, poolVars, heapVars>>
  /\ UNCHANGED system

PintosSpec == PintosInit /\ [][PintosNext]_<<system, vars, poolVars, heapVars, fsVars>>

Symmetry == Permutations(Name) \cup Permutations(File)

\* Palloc: no page is handed out twice, and a page is marked exactly if somebody has it or
\* is about to have it.
PagesAreRight == system = "pool" => Pool!NoSharing /\ Pool!BitmapIsRight

\* Malloc: blocks in use overlap nothing and are as large as was asked for, realloc()'s copy
\* included.
BlocksAreApart == system = "heap" => Heap!BlocksAreApart /\ Heap!EnoughRoom

\* Malloc: an arena's count agrees with the free list, and pages without a block in use are
\* given back.
ArenasAreRight == system = "heap" => Heap!FreeCntIsRight /\ Heap!NothingLeaks

\* Filesys: whenever the machine goes down, the directory leads to files whose sectors are
\* theirs alone and marked, and no name is in it twice.
DiskIsSound == system = "files" => FS!DiskIsSound /\ FS!NamesAreUnique

\* Filesys: a sector is marked exactly if something has it, and an inode counts its openers
\* and those who deny writes.
MapIsRight == system = "files" => FS!MapIsRight /\ FS!OpenersAreCounted

\* Filesys implements FileStore.
ImplementsFileStore == FS!Store!Init /\ [][system = "files" => FS!Store!Next]_(FS!Store!vars)
=============================================================================
