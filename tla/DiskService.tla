---------------------------- MODULE DiskService ----------------------------
(***************************************************************************)
(* What the disk queue of the BIOS promises to the code that calls         *)
(* _SecReads and _SecWrites: a caller has at most one request, requests    *)
(* are answered one at a time in the order they were queued, and a call    *)
(* returns only after its request was answered, or was refused because the *)
(* drive would not start.  IdeQueue implements this.                       *)
(***************************************************************************)
EXTENDS Naturals, Sequences, SequencesExt

CONSTANT Callers

VARIABLES
  pending,     \* the callers whose requests are queued, first to be answered first
  answered     \* the callers whose requests were answered but have not returned

serviceVars == <<pending, answered>>

ServiceInit == pending = <<>> /\ answered = {}

Submit(c) ==
  /\ c \notin Range(pending) \cup answered
  /\ pending' = Append(pending, c)
  /\ UNCHANGED answered

\* The drive would not start on the first request: it is taken back and the
\* call returns an error.
Refuse(c) ==
  /\ pending = <<c>>
  /\ pending' = <<>>
  /\ UNCHANGED answered

Serve ==
  /\ pending # <<>>
  /\ pending' = Tail(pending)
  /\ answered' = answered \cup {Head(pending)}

Return(c) ==
  /\ c \in answered
  /\ answered' = answered \ {c}
  /\ UNCHANGED pending

\* The timeout gave up and the watchdog restarts the machine.
Restart == pending' = <<>> /\ answered' = {}

ServiceNext == Serve \/ Restart \/ \E c \in Callers : Submit(c) \/ Refuse(c) \/ Return(c)

ServiceSpec == ServiceInit /\ [][ServiceNext]_serviceVars
=============================================================================
