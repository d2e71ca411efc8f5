----------------------------- MODULE FileStore -----------------------------
(***************************************************************************)
(* What the file system promises: files with fixed lengths under unique    *)
(* names.  Creating, removing and writing are atomic, also when the        *)
(* machine crashes; a removed file lives on until its last handle is       *)
(* closed; a file cannot be written while a handle denies it.              *)
(***************************************************************************)
EXTENDS Integers, Sequences

CONSTANTS Name, File, Id, None, Data, Zero, MaxCnt

VARIABLES named,        \* the file with a name, or None
          content,      \* the blocks of a file that is in use
          handle        \* [id, deny] of an open handle; id None if closed

vars == <<named, content, handle>>

ClosedHandle == [id |-> None, deny |-> FALSE]
InUse(names, handles) == {names[n] : n \in Name} \cup {handles[f].id : f \in File}
Kept(c) == [i \in Id |-> IF i \in InUse(named', handle') THEN c[i] ELSE << >>]

Init ==
  /\ named = [n \in Name |-> None]
  /\ content = [i \in Id |-> << >>]
  /\ handle = [f \in File |-> ClosedHandle]

Create(n, cnt) ==
  /\ named[n] = None
  /\ \E i \in Id \ InUse(named, handle) :
       /\ named' = [named EXCEPT ![n] = i]
       /\ content' = [content EXCEPT ![i] = [j \in 1 .. cnt |-> Zero]]
  /\ UNCHANGED handle

Remove(n) ==
  /\ named' = [named EXCEPT ![n] = None]
  /\ UNCHANGED handle
  /\ content' = Kept(content)

Open(f, n) ==
  /\ handle[f] = ClosedHandle /\ named[n] # None
  /\ handle' = [handle EXCEPT ![f].id = named[n]]
  /\ UNCHANGED <<named, content>>

Reopen(f, g) ==
  /\ handle[f] # ClosedHandle /\ handle[g] = ClosedHandle
  /\ handle' = [handle EXCEPT ![g].id = handle[f].id]
  /\ UNCHANGED <<named, content>>

Close(f) ==
  /\ handle' = [handle EXCEPT ![f] = ClosedHandle]
  /\ UNCHANGED named
  /\ content' = Kept(content)

SetDeny(f, deny) ==
  /\ handle[f].id # None
  /\ handle' = [handle EXCEPT ![f].deny = deny]
  /\ UNCHANGED <<named, content>>

Write(f, j, v) ==
  LET i == handle[f].id
  IN /\ i # None /\ j \in DOMAIN content[i]
     /\ \A g \in File : handle[g].id = i => ~ handle[g].deny
     /\ content' = [content EXCEPT ![i][j] = v]
     /\ UNCHANGED <<named, handle>>

Crash ==
  /\ handle' = [f \in File |-> ClosedHandle]
  /\ UNCHANGED named
  /\ content' = Kept(content)

Next ==
  \/ \E n \in Name : Remove(n) \/ \E cnt \in 0 .. MaxCnt : Create(n, cnt)
  \/ \E f \in File :
       \/ Close(f)
       \/ \E n \in Name : Open(f, n)
       \/ \E g \in File : Reopen(f, g)
       \/ \E deny \in BOOLEAN : SetDeny(f, deny)
       \/ \E j \in 1 .. MaxCnt, v \in Data : Write(f, j, v)
  \/ Crash

Spec == Init /\ [][Next]_vars
=============================================================================
