------------------------------ MODULE Filesys ------------------------------
(***************************************************************************)
(* The Pintos file system: filesys.c, directory.c, inode.c, free-map.c and *)
(* file.c, one call at a time, with a step for every write to the disk.    *)
(*                                                                         *)
(* The machine may crash between two writes: memory is lost, and the file  *)
(* system starts again from the disk (filesys_init() without format).      *)
(* malloc() may fail in the places named in Failing.  A call that fails    *)
(* and changes nothing is no step.  The root directory and the free map    *)
(* have one data sector each, and files are written in whole sectors.      *)
(***************************************************************************)
EXTENDS Integers, Sequences, FiniteSets, FiniteSetsExt

CONSTANTS Name, File, Data, Zero,
          NoName,         \* of an entry never used
          SectorCnt,      \* sectors of the disk
          SlotCnt,        \* entries of the root directory
          MaxCnt,         \* bound: the data sectors of a file
          Failing         \* where malloc() may fail

Place == {"map", "create", "add", "lookup", "slot"}

\* What the constants have to be.
DiskAssumption ==
  /\ Zero \in Data /\ NoName \notin Name /\ Failing \subseteq Place
  /\ SectorCnt > 4 /\ SlotCnt \in Nat \ {0} /\ MaxCnt \in Nat

FREE_MAP_SECTOR == 0
ROOT_DIR_SECTOR == 1
Sector == 0 .. SectorCnt - 1
Slot == 1 .. SlotCnt

VARIABLES disk,           \* what a sector holds: [start, cnt] or [data]
          dir,            \* the root directory's entries, on disk
          map_file,       \* the sectors marked in the free map, on disk
          free_map,       \* ... and in memory
          inode,          \* open_inodes, by sector
          file,           \* callers' struct files
          call,           \* the call in progress
          lost            \* history: sectors marked that nobody can free

vars == <<disk, dir, map_file, free_map, inode, file, call, lost>>

OnDisk(start, cnt) == [start |-> start, cnt |-> cnt]
Block(v) == [data |-> v]
NoEntry == [in_use |-> FALSE, name |-> NoName, sector |-> 0]
Closed == [open_cnt |-> 0, removed |-> FALSE, deny_write_cnt |-> 0, start |-> 0, cnt |-> 0]
NoFile == [sector |-> FREE_MAP_SECTOR, deny_write |-> FALSE]
Idle == [pc |-> "idle", name |-> NoName, sector |-> 0, start |-> 0, cnt |-> 0,
         i |-> 0, root |-> FALSE]

\* What do_format() leaves: inodes in sectors 0 and 1, their data in 2 and 3.
SystemSectors == 0 .. 3
Formatted ==
  [s \in Sector |-> CASE s = FREE_MAP_SECTOR -> OnDisk(2, 1)
                      [] s = ROOT_DIR_SECTOR -> OnDisk(3, 1)
                      [] OTHER -> Block(Zero)]

\* inode_open() and inode_close(), but for what the latter frees.
OpenIn(inodes, s) ==
  IF inodes[s].open_cnt > 0 THEN [inodes EXCEPT ![s].open_cnt = @ + 1]
  ELSE [inodes EXCEPT ![s] = [open_cnt |-> 1, removed |-> FALSE, deny_write_cnt |-> 0,
                              start |-> disk[s].start, cnt |-> disk[s].cnt]]
CloseIn(inodes, s) ==
  IF inodes[s].open_cnt > 1 THEN [inodes EXCEPT ![s].open_cnt = @ - 1]
  ELSE [inodes EXCEPT ![s] = Closed]

\* filesys_init(): free_map_open() opens the free map's inode and reads it.
Booted == OpenIn([s \in Sector |-> Closed], FREE_MAP_SECTOR)

Init ==
  /\ disk = Formatted
  /\ dir = [k \in Slot |-> NoEntry]
  /\ map_file = SystemSectors
  /\ free_map = SystemSectors
  /\ inode = Booted
  /\ file = [f \in File |-> NoFile]
  /\ call = Idle
  /\ lost = {}

-----------------------------------------------------------------------------

IsIdle == call.pc = "idle"
At(pc) == call.pc = pc
Goto(pc) == call' = [call EXCEPT !.pc = pc]

Run(start, cnt) == start .. start + cnt - 1

\* bitmap_scan() for cnt sectors: the places they fit; a run of none fits at 0.
Fits(cnt) == {s \in Sector : s + cnt <= SectorCnt /\ Run(s, cnt) \cap free_map = {}}

\* Mutant: the free map's file is only written when sectors are released.
AllocateNotSaved(start, cnt) ==
  /\ Fits(cnt) # {} /\ start = Min(Fits(cnt))
  /\ free_map' = free_map \cup Run(start, cnt)
  /\ UNCHANGED map_file

\* free_map_allocate() that succeeds; one whose bitmap_write() fails takes
\* back what it has marked.
Allocate(start, cnt) ==
  /\ Fits(cnt) # {} /\ start = Min(Fits(cnt))
  /\ free_map' = free_map \cup Run(start, cnt)
  /\ map_file' = free_map'

\* free_map_release(); nobody looks whether the bitmap_write() has failed.
ReleaseSectors(start, cnt) ==
  /\ free_map' = free_map \ Run(start, cnt)
  /\ map_file' = free_map' \/ ("map" \in Failing /\ UNCHANGED map_file)

\* lookup()
Entries(n) == {k \in Slot : dir[k].in_use /\ dir[k].name = n}

-----------------------------------------------------------------------------
(* filesys_create() *)

Create(n, cnt) ==
  /\ IsIdle
  /\ \E s \in Sector :
       /\ Allocate(s, 1)
       /\ call' = [Idle EXCEPT !.pc = "data", !.name = n, !.cnt = cnt, !.sector = s,
                               !.root = TRUE]
  /\ inode' = OpenIn(inode, ROOT_DIR_SECTOR)
  /\ UNCHANGED <<disk, dir, file, lost>>

\* inode_create() allocates the data sectors, or fails.
CreateData ==
  /\ At("data")
  /\ \/ \E s \in Sector :
          Allocate(s, call.cnt) /\ call' = [call EXCEPT !.pc = "inode", !.start = s]
     \/ /\ Fits(call.cnt) = {} \/ {"create", "map"} \cap Failing # {}
        /\ Goto("undo")
        /\ UNCHANGED <<free_map, map_file>>
  /\ UNCHANGED <<disk, dir, inode, file, lost>>

\* It writes the inode ...
CreateInode ==
  /\ At("inode")
  /\ disk' = [disk EXCEPT ![call.sector] = OnDisk(call.start, call.cnt)]
  /\ Goto(IF call.cnt > 0 THEN "zero" ELSE "add")
  /\ UNCHANGED <<dir, map_file, free_map, inode, file, lost>>

\* Mutant: all but the last data sector are filled with zeros.
CreateZeroTooFew ==
  /\ At("zero")
  /\ disk' = IF call.i + 1 = call.cnt THEN disk
             ELSE [disk EXCEPT ![call.start + call.i] = Block(Zero)]
  /\ call' = [call EXCEPT !.i = @ + 1, !.pc = IF call.i + 1 = call.cnt THEN "add" ELSE @]
  /\ UNCHANGED <<dir, map_file, free_map, inode, file, lost>>

\* ... and fills the data sectors with zeros.
CreateZero ==
  /\ At("zero")
  /\ disk' = [disk EXCEPT ![call.start + call.i] = Block(Zero)]
  /\ call' = [call EXCEPT !.i = @ + 1, !.pc = IF call.i + 1 = call.cnt THEN "add" ELSE @]
  /\ UNCHANGED <<dir, map_file, free_map, inode, file, lost>>

\* dir_add() into a slot, and filesys_create() returns.
AddEntry(k) ==
  /\ dir' = [dir EXCEPT ![k] = [in_use |-> TRUE, name |-> call.name, sector |-> call.sector]]
  /\ inode' = CloseIn(inode, ROOT_DIR_SECTOR)
  /\ call' = Idle
  /\ UNCHANGED lost

\* The slots where dir_add()'s search may end: the first free one, or any
\* before it if a read is short.
SlotsFound ==
  {k \in Slot : /\ \A j \in 1 .. k - 1 : dir[j].in_use
                /\ dir[k].in_use => "slot" \in Failing}

\* dir_add(): the name must be new, and a slot free.  When it fails nobody
\* keeps the data sectors.
CreateAdd ==
  LET found == Entries(call.name) # {}
  IN /\ At("add")
     /\ \/ /\ found => "lookup" \in Failing
           /\ \E k \in SlotsFound : AddEntry(k)
        \/ /\ found \/ SlotsFound = {} \/ "add" \in Failing
           /\ Goto("undo")
           /\ lost' = lost \cup Run(call.start, call.cnt)
           /\ UNCHANGED <<dir, inode>>
     /\ UNCHANGED <<disk, map_file, free_map, file>>

\* A filesys_create() that fails frees the inode's sector.
CreateUndo ==
  /\ At("undo")
  /\ ReleaseSectors(call.sector, 1)
  /\ inode' = CloseIn(inode, ROOT_DIR_SECTOR)
  /\ call' = Idle
  /\ UNCHANGED <<disk, dir, file, lost>>

-----------------------------------------------------------------------------
(* filesys_remove(), and what inode_close() frees *)

\* inode_close() of a removed inode's last opener goes on to free its sectors.
StartFreeing(s, i, root) ==
  call' = [Idle EXCEPT !.pc = "free_inode", !.sector = s, !.start = i.start, !.cnt = i.cnt,
                       !.root = root]

\* Mutant: the sectors of a removed file are freed at once.
RemoveAtOnce(n) ==
  /\ IsIdle
  /\ \E k \in Entries(n) :
       LET s == dir[k].sector
           opened == OpenIn(OpenIn(inode, ROOT_DIR_SECTOR), s)
       IN /\ k = Min(Entries(n))
          /\ dir' = [dir EXCEPT ![k].in_use = FALSE]
          /\ inode' = CloseIn(opened, s)
          /\ StartFreeing(s, opened[s], TRUE)
  /\ UNCHANGED <<disk, map_file, free_map, file, lost>>

\* dir_remove(): the entry is erased, the inode marked and closed.
Remove(n) ==
  /\ IsIdle
  /\ \E k \in Entries(n) :
       LET s == dir[k].sector
           opened == OpenIn(OpenIn(inode, ROOT_DIR_SECTOR), s)
           marked == [opened EXCEPT ![s].removed = TRUE]
       IN /\ k = Min(Entries(n))
          /\ dir' = [dir EXCEPT ![k].in_use = FALSE]
          /\ IF marked[s].open_cnt = 1
             THEN /\ inode' = CloseIn(marked, s)
                  /\ StartFreeing(s, marked[s], TRUE)
             ELSE /\ inode' = CloseIn(CloseIn(marked, s), ROOT_DIR_SECTOR)
                  /\ UNCHANGED call
  /\ UNCHANGED <<disk, map_file, free_map, file, lost>>

FreeInode ==
  /\ At("free_inode")
  /\ ReleaseSectors(call.sector, 1)
  /\ Goto("free_data")
  /\ UNCHANGED <<disk, dir, inode, file, lost>>

FreeData ==
  /\ At("free_data")
  /\ ReleaseSectors(call.start, call.cnt)
  /\ inode' = IF call.root THEN CloseIn(inode, ROOT_DIR_SECTOR) ELSE inode
  /\ call' = Idle
  /\ UNCHANGED <<disk, dir, file, lost>>

-----------------------------------------------------------------------------
(* Open files *)

\* filesys_open(); a file_open() that fails closes the inode again.
Open(f, n) ==
  /\ IsIdle /\ file[f] = NoFile /\ Entries(n) # {}
  /\ LET s == dir[Min(Entries(n))].sector
     IN /\ inode' = OpenIn(inode, s)
        /\ file' = [file EXCEPT ![f] = [sector |-> s, deny_write |-> FALSE]]
  /\ UNCHANGED <<disk, dir, map_file, free_map, call, lost>>

\* file_reopen()
Reopen(f, g) ==
  /\ IsIdle /\ file[f] # NoFile /\ file[g] = NoFile
  /\ inode' = OpenIn(inode, file[f].sector)
  /\ file' = [file EXCEPT ![g] = [sector |-> file[f].sector, deny_write |-> FALSE]]
  /\ UNCHANGED <<disk, dir, map_file, free_map, call, lost>>

\* file_deny_write()
DenyWrite(f) ==
  /\ IsIdle /\ file[f] # NoFile /\ ~ file[f].deny_write
  /\ file' = [file EXCEPT ![f].deny_write = TRUE]
  /\ inode' = [inode EXCEPT ![file[f].sector].deny_write_cnt = @ + 1]
  /\ UNCHANGED <<disk, dir, map_file, free_map, call, lost>>

\* file_allow_write()
Allowed(inodes, f) ==
  IF file[f].deny_write THEN [inodes EXCEPT ![file[f].sector].deny_write_cnt = @ - 1] ELSE inodes

AllowWrite(f) ==
  /\ IsIdle /\ file[f].deny_write
  /\ file' = [file EXCEPT ![f].deny_write = FALSE]
  /\ inode' = Allowed(inode, f)
  /\ UNCHANGED <<disk, dir, map_file, free_map, call, lost>>

\* file_close()
Close(f) ==
  LET s == file[f].sector
      i == inode[s]
  IN /\ IsIdle /\ file[f] # NoFile
     /\ file' = [file EXCEPT ![f] = NoFile]
     /\ inode' = CloseIn(Allowed(inode, f), s)
     /\ IF i.open_cnt = 1 /\ i.removed THEN StartFreeing(s, i, FALSE) ELSE UNCHANGED call
     /\ UNCHANGED <<disk, dir, map_file, free_map, lost>>

\* inode_write_at() for a sector of a file.
Write(f, j, v) ==
  LET i == inode[file[f].sector]
  IN /\ IsIdle /\ file[f] # NoFile
     /\ i.deny_write_cnt = 0 /\ j < i.cnt
     /\ disk' = [disk EXCEPT ![i.start + j] = Block(v)]
     /\ UNCHANGED <<dir, map_file, free_map, inode, file, call, lost>>

-----------------------------------------------------------------------------

\* The sectors of a file, from its inode on disk.
FileSectors(s) == {s} \cup Run(disk[s].start, disk[s].cnt)
InUse == {k \in Slot : dir[k].in_use}
DirSectors == UNION {FileSectors(dir[k].sector) : k \in InUse}

\* The machine goes down, and comes up with what is on the disk.
Crash ==
  /\ free_map' = map_file
  /\ inode' = Booted
  /\ file' = [f \in File |-> NoFile]
  /\ call' = Idle
  /\ lost' = map_file \ (SystemSectors \cup DirSectors)
  /\ UNCHANGED <<disk, dir, map_file>>

Next ==
  \/ \E n \in Name : Remove(n) \/ \E cnt \in 0 .. MaxCnt : Create(n, cnt)
  \/ CreateData \/ CreateInode \/ CreateZero \/ CreateAdd \/ CreateUndo
  \/ FreeInode \/ FreeData
  \/ \E f \in File :
       \/ DenyWrite(f) \/ AllowWrite(f) \/ Close(f)
       \/ \E n \in Name : Open(f, n)
       \/ \E g \in File : Reopen(f, g)
       \/ \E j \in 0 .. MaxCnt - 1, v \in Data : Write(f, j, v)
  \/ Crash

Spec == Init /\ [][Next]_vars

-----------------------------------------------------------------------------
(* Properties. *)

TypeOK ==
  /\ DOMAIN disk = Sector /\ DOMAIN inode = Sector
  /\ dir \in [Slot -> [in_use : BOOLEAN, name : Name \cup {NoName}, sector : Sector]]
  /\ map_file \subseteq Sector /\ free_map \subseteq Sector /\ lost \subseteq Sector
  /\ file \in [File -> [sector : Sector, deny_write : BOOLEAN]]

\* "opening a single inode twice returns the same struct inode": an inode
\* counts its openers, the calls in progress included, and those who deny
\* writes, so that it is closed with the last and the ASSERTs of
\* inode_deny_write() and inode_allow_write() hold.
OpenersAreCounted ==
  TypeOK /\ \A s \in Sector :
    LET users == {f \in File : file[f].sector = s /\ file[f] # NoFile}
        own == IF s = FREE_MAP_SECTOR \/ (s = ROOT_DIR_SECTOR /\ call.root) THEN 1 ELSE 0
    IN /\ inode[s].open_cnt = Cardinality(users) + own
       /\ inode[s].deny_write_cnt = Cardinality({f \in users : file[f].deny_write})

\* Whenever the machine goes down, the disk is sound: an entry of the directory
\* leads to an inode, and the sectors of a file are marked in the free map on
\* disk and belong to no other file and not to the system.
DiskIsSound ==
  \A k \in InUse :
    LET s == dir[k].sector
    IN /\ disk[s] \in [start : Sector, cnt : 0 .. MaxCnt]
       /\ FileSectors(s) \subseteq map_file \ SystemSectors
       /\ \A j \in InUse \ {k} : FileSectors(s) \cap FileSectors(dir[j].sector) = {}

\* dir_add(): "Adds a file named NAME to DIR, which must not already contain a
\* file by that name."
NamesAreUnique ==
  \A j, k \in InUse : dir[j].name = dir[k].name => j = k

\* The sectors the call in progress has or still has to free.
CallSectors ==
  CASE call.pc \in {"data", "undo"} -> {call.sector}
    [] call.pc \in {"inode", "zero", "add", "free_inode"} -> {call.sector} \cup Run(call.start, call.cnt)
    [] call.pc = "free_data" -> Run(call.start, call.cnt)
    [] OTHER -> {}

\* In memory a sector is marked exactly if the system, a file in the directory,
\* an open file (also a removed one) or the call in progress has it; apart from
\* what a crash or a filesys_create() whose dir_add() fails has given up.  The
\* map on disk never shows as free what is in use.
MapIsRight ==
  /\ free_map = SystemSectors \cup DirSectors \cup CallSectors \cup lost
                \cup UNION {{s} \cup Run(inode[s].start, inode[s].cnt)
                            : s \in {t \in Sector : inode[t].open_cnt > 0}}
  /\ free_map \subseteq map_file

\* What a reader of a file sees; an inode is no data that was ever written.
Blocks(s) ==
  [j \in 1 .. disk[s].cnt |->
     LET block == disk[disk[s].start + j - 1]
     IN IF "data" \in DOMAIN block THEN block.data ELSE Cardinality(Data)]
NamedFile(n) == IF Entries(n) = {} THEN FREE_MAP_SECTOR ELSE dir[Min(Entries(n))].sector
IsFile(s) ==
  (\E k \in InUse : dir[k].sector = s) \/ (\E f \in File : file[f].sector = s)

Store ==
  INSTANCE FileStore
    WITH Id <- Sector \ {FREE_MAP_SECTOR}, None <- FREE_MAP_SECTOR,
         named <- [n \in Name |-> NamedFile(n)],
         content <- [s \in Sector \ {FREE_MAP_SECTOR} |-> IF IsFile(s) THEN Blocks(s) ELSE << >>],
         handle <- [f \in File |-> [id |-> file[f].sector, deny |-> file[f].deny_write]]

\* The file system implements FileStore: creating and removing are atomic, also
\* if the machine goes down in the middle; a new file is all zeros; a write
\* changes the file written and no other; a removed file can be used until it
\* is closed, and denied writes do not happen.
ImplementsFileStore == Store!Spec
=============================================================================
