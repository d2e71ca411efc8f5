----------------------------- MODULE AtomicDisk -----------------------------
(***************************************************************************)
(* What disk_read() and disk_write() promise their callers, who may be     *)
(* several threads: each call takes effect at one moment between its start *)
(* and its return, a read then fetches the sector and a write replaces it. *)
(***************************************************************************)
CONSTANTS Thread, Place, Data, NULL

VARIABLES contents,
          call,         \* what a thread asks for: [place, data], NULL when idle
          answer        \* what it will be told, NULL until the call takes effect

vars == <<contents, call, answer>>

\* A read is a call with no data.
Calls == [place : Place, data : Data \cup {NULL}]

Invoke(t, c) ==
  /\ call[t] = NULL
  /\ call' = [call EXCEPT ![t] = c]
  /\ UNCHANGED <<contents, answer>>

Perform(t) ==
  /\ call[t] # NULL /\ answer[t] = NULL
  /\ contents' = IF call[t].data = NULL THEN contents
                 ELSE [contents EXCEPT ![call[t].place] = call[t].data]
  /\ answer' = [answer EXCEPT ![t] = contents'[call[t].place]]
  /\ UNCHANGED call

Return(t) ==
  /\ answer[t] # NULL
  /\ call' = [call EXCEPT ![t] = NULL]
  /\ answer' = [answer EXCEPT ![t] = NULL]
  /\ UNCHANGED contents

Init ==
  /\ contents \in [Place -> Data]
  /\ call = [t \in Thread |-> NULL]
  /\ answer = [t \in Thread |-> NULL]

Next == \E t \in Thread : Perform(t) \/ Return(t) \/ \E c \in Calls : Invoke(t, c)

Spec == Init /\ [][Next]_vars
=============================================================================
