----------------------------- MODULE FileStore -----------------------------
(***************************************************************************)
(* What the file system promises its callers: files by name, each created  *)
(* empty, growing while its creator writes to it, and keeping its size     *)
(* from then on until it is deleted or created anew.  Nothing else changes *)
(* them: not a read, a seek, a flush, or a call on another file.           *)
(***************************************************************************)
EXTENDS Integers

CONSTANTS Names, MaxSize

NoFile == -1

VARIABLES files, writing

Init == files = [n \in Names |-> NoFile] /\ writing = {}

\* Only n changes.
Only(n) == \A m \in Names \ {n} : files'[m] = files[m]

Create(n) ==
  /\ n \notin writing
  /\ files'[n] = 0 /\ Only(n)
  /\ writing' = writing \cup {n}

Grow(n) ==
  /\ n \in writing
  /\ files'[n] \in files[n] + 1 .. MaxSize /\ Only(n)
  /\ UNCHANGED writing

Close(n) ==
  /\ n \in writing
  /\ writing' = writing \ {n}
  /\ UNCHANGED files

Delete(n) ==
  /\ n \notin writing /\ files[n] # NoFile
  /\ files'[n] = NoFile /\ Only(n)
  /\ UNCHANGED writing

\* A call on the way, or one that does not change a file.
Other == UNCHANGED <<files, writing>>

Next == Other \/ \E n \in Names : Create(n) \/ Grow(n) \/ Close(n) \/ Delete(n)

Spec == Init /\ [][Next]_<<files, writing>>
=============================================================================
