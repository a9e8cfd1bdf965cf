------------------------------ MODULE IdeQueue ------------------------------
(***************************************************************************)
(* The disk request queue of the BIOS (biosrom/bios/idedrv.c): que_trans   *)
(* and add_queue, which the running code executes, ide_intr, which answers *)
(* requests in the disk interrupt, queued_req, and the timeout.            *)
(*                                                                         *)
(* One caller executes que_trans at a time: a Goose process (processes     *)
(* only change at suspend), or code outside the process loop, here HOOK,   *)
(* for which *proc is null and which waits in a loop.  Between any two     *)
(* accesses of the caller to the queue an interrupt can come.  ide_intr    *)
(* and the timeout run with interrupts off and are one step each.          *)
(*                                                                         *)
(* general_exception (EXCEPT.S, HANDLERS.C) passes the unmasked cause      *)
(* register on, so that any interrupt, the vertical retrace for one, also  *)
(* services a pending disk interrupt that disable_ip has masked.           *)
(*                                                                         *)
(* A request is a number of transfers (of at most 256 sectors); addresses, *)
(* the DMA table and the drive's registers are left out.  No callback is   *)
(* installed.  The drive is external: it answers a command, with an error  *)
(* or without, or it goes silent with the DMA stopped.                     *)
(***************************************************************************)
EXTENDS Integers, FiniteSets

CONSTANTS
  Procs,          \* Goose processes
  HOOK,           \* the caller outside the process loop
  MAX_REQUESTS,   \* slots of the ring (128 in the code)
  RETRIES,        \* commands sent again for one request (4 in the code)
  MaxTransfers,   \* bound: transfers one request takes
  Events          \* what may go wrong around the queue in this instance

ASSUME HookIsNoProcess == HOOK \notin Procs
\* The tail wraps with "& (MAX_REQUESTS - 1)".
ASSUME RingAssumption == MAX_REQUESTS \in {2 ^ k : k \in 1 .. 7}
ASSUME RetriesAssumption == RETRIES \in Nat
ASSUME TransfersAssumption == MaxTransfers \in Nat \ {0}
ASSUME EventsAssumption ==
  Events \subseteq {"drive_error", "drive_silent", "drive_hung", "resume_all", "spin_timeout"}

Callers == Procs \cup {HOOK}
ASSUME NamesAssumption == Callers \cap {"done", "none"} = {}
Slots == 0 .. (MAX_REQUESTS - 1)
NoSlot == -1

VARIABLES
  head, tail,          \* queue.head, queue.tail
  slot,                \* qd
  drive,               \* what the drive does
  command,             \* the slot its command was issued for, while it works
  ide_timeout_enable,
  suspended,           \* the processes that suspend_self has suspended
  cur,                 \* the caller whose code runs, or NoCaller
  pc,                  \* where it stands in que_trans
  mine                 \* each caller's qdata, while it is in que_trans

NoCaller == "none"

queue == <<head, tail, slot>>
device == <<drive, command, ide_timeout_enable>>
mainline == <<cur, pc, mine>>
vars == <<head, tail, slot, drive, command, ide_timeout_enable, suspended, cur, pc, mine>>

\* proc = "done" stands for the -1 ide_intr stores.
EmptySlot == [proc |-> "done", num |-> 0, request |-> "read", retry_count |-> 0]

Init ==
  /\ head = 0 /\ tail = 0
  /\ slot = [i \in Slots |-> EmptySlot]
  /\ drive = "idle" /\ command = NoSlot
  /\ ide_timeout_enable = FALSE
  /\ suspended = {}
  /\ cur = NoCaller /\ pc = "out"
  /\ mine = [c \in Callers |-> NoSlot]

Succ(i) == (i + 1) % MAX_REQUESTS

Empty == head = tail

\* queued_req for slot i: the drive takes the command and the timeout starts, or
\* the drive stays busy for longer than ide_wait_bsy waits and nothing happens.
Starts == IF "drive_hung" \in Events THEN BOOLEAN ELSE {TRUE}
QueuedReq(i, ok, enabled) ==
  /\ drive' = IF ok THEN "busy" ELSE "idle"
  /\ command' = IF ok THEN i ELSE NoSlot
  /\ ide_timeout_enable' = (ok \/ enabled)

-----------------------------------------------------------------------------
(***************************************************************************)
(* que_trans and add_queue.                                                *)
(***************************************************************************)

\* Mutant of the next operator: a write does not wait for the queue to drain.
FirstStepNoDrain(type) == "look"

FirstStep(type) == IF type = "write" THEN "drain" ELSE "look"

\* que_trans fills the slot at the head; a write first waits for the queue.
QueTrans(c, type, n) ==
  /\ cur = NoCaller /\ mine[c] = NoSlot /\ c \notin suspended
  /\ slot' = [slot EXCEPT ![head] = [proc |-> c, num |-> n, request |-> type,
                                     retry_count |-> 0]]
  /\ mine' = [mine EXCEPT ![c] = head]
  /\ cur' = c
  /\ pc' = FirstStep(type)
  /\ UNCHANGED <<head, tail, device, suspended>>

Drained ==
  /\ pc = "drain" /\ Empty
  /\ pc' = "look"
  /\ UNCHANGED <<queue, device, suspended, cur, mine>>

\* disable_ip, and the look at the queue that decides who starts the drive.  The
\* mask keeps no interrupt out (see above) and is not part of the state.
LookAtQueue ==
  /\ pc = "look"
  /\ pc' = IF Empty THEN "add_first" ELSE "add_behind"
  /\ UNCHANGED <<queue, device, suspended, cur, mine>>

\* Mutant of the next operator: a ring that is filled to the last slot.
RoomForAll == TRUE

Room == Succ(head) # tail

\* With the ring full this waits, the disk interrupt masked.
AddQueue ==
  /\ pc \in {"add_first", "add_behind"} /\ Room
  /\ head' = Succ(head)
  /\ pc' = IF pc = "add_first" THEN "start" ELSE "check"
  /\ UNCHANGED <<tail, slot, device, suspended, cur, mine>>

\* The queue was empty: the caller starts the drive.  If that fails,
\* reset_disk_que empties the queue and the call returns an error.
StartDrive ==
  /\ pc = "start"
  /\ \E ok \in Starts :
       /\ QueuedReq(mine[cur], ok, FALSE)
       /\ IF ok
          THEN pc' = "check" /\ UNCHANGED <<head, tail, cur, mine>>
          ELSE /\ head' = 0 /\ tail' = 0
               /\ mine' = [mine EXCEPT ![cur] = NoSlot]
               /\ cur' = NoCaller /\ pc' = "out"
  /\ UNCHANGED <<slot, suspended>>

\* Mutant of the next operator: the caller's own request is not counted.
NothingBehind == Succ(tail) = head \/ Empty

NothingQueued == Empty

\* A process returns if the queue is empty by now, or goes on to suspend; the
\* hook spins until ide_intr marks its request.
CheckQueue ==
  /\ pc = "check"
  /\ IF cur = HOOK
     THEN pc' = "spin" /\ UNCHANGED <<cur, mine>>
     ELSE IF NothingQueued
     THEN pc' = "out" /\ cur' = NoCaller /\ mine' = [mine EXCEPT ![cur] = NoSlot]
     ELSE pc' = "suspend" /\ UNCHANGED <<cur, mine>>
  /\ UNCHANGED <<queue, device, suspended>>

SuspendSelf ==
  /\ pc = "suspend"
  /\ suspended' = suspended \cup {cur}
  /\ cur' = NoCaller /\ pc' = "out"
  /\ UNCHANGED <<queue, device, mine>>

\* A process that was resumed, is given its slice and returns from que_trans.
ReturnResumed(c) ==
  /\ cur = NoCaller /\ mine[c] # NoSlot /\ c \notin suspended
  /\ mine' = [mine EXCEPT ![c] = NoSlot]
  /\ UNCHANGED <<queue, device, suspended, cur, pc>>

SpinEnds ==
  /\ pc = "spin"
  /\ slot[mine[HOOK]].proc = "done"
  /\ mine' = [mine EXCEPT ![HOOK] = NoSlot]
  /\ cur' = NoCaller /\ pc' = "out"
  /\ UNCHANGED <<queue, device, suspended>>

\* The count of the waiting loop runs out: the caches are flushed and the call
\* returns, its request still queued.
SpinTimeout ==
  /\ "spin_timeout" \in Events
  /\ pc = "spin"
  /\ mine' = [mine EXCEPT ![HOOK] = NoSlot]
  /\ cur' = NoCaller /\ pc' = "out"
  /\ UNCHANGED <<queue, device, suspended>>

-----------------------------------------------------------------------------
(***************************************************************************)
(* The drive and the interrupts.                                           *)
(***************************************************************************)

DriveAnswers ==
  /\ drive = "busy"
  /\ drive' \in {"done"} \cup (IF "drive_error" \in Events THEN {"error"} ELSE {})
                        \cup (IF "drive_silent" \in Events THEN {"silent"} ELSE {})
  /\ UNCHANGED <<queue, command, ide_timeout_enable, suspended, mainline>>

\* resume_process for a process; ide_intr then stores -1 over qdata->proc.
Resumed(i) == suspended \ {slot[i].proc}

\* Mutants of Again and of the next operator: a retry limit that is never
\* reached, and a request that is answered after its first transfer.
AgainAlways(s) == drive = "error"
LastAlways(s) == drive = "done"

\* Another command is sent for the request that holds s: a retry after an
\* error, or the next transfer.
Again(s) == drive = "error" /\ s.retry_count < RETRIES
LastTransfer(s) == drive = "done" /\ s.num = 1

\* The record after the interrupt: a retry counted, a transfer counted off.
Counted(s) ==
  IF drive = "error"
  THEN [s EXCEPT !.retry_count = IF Again(s) THEN @ + 1 ELSE @]
  ELSE [s EXCEPT !.num = @ - 1]

\* The request at the tail is answered: the tail moves on, the next request is
\* started, the process resumed.
Answer ==
  /\ slot' = [slot EXCEPT ![tail] = [Counted(@) EXCEPT !.proc = "done"]]
  /\ tail' = Succ(tail)
  /\ suspended' = Resumed(tail)
  /\ IF Succ(tail) # head
     THEN \E ok \in Starts : QueuedReq(Succ(tail), ok, FALSE)
     ELSE drive' = "idle" /\ ide_timeout_enable' = FALSE /\ command' = NoSlot

Continue ==
  /\ slot' = [slot EXCEPT ![tail] = Counted(@)]
  /\ \E ok \in Starts : QueuedReq(tail, ok, FALSE)
  /\ UNCHANGED <<tail, suspended>>

IdeIntr ==
  /\ drive \in {"done", "error"}
  /\ LET s == slot[tail]
     IN  IF Again(s) \/ (drive = "done" /\ ~LastTransfer(s)) THEN Continue ELSE Answer
  /\ UNCHANGED <<head, mainline>>

\* Mutant of the next operator: the retries of a timeout are not counted.
TimeoutUncounted(s) == s

TimeoutCounted(s) == [s EXCEPT !.retry_count = @ + 1]

\* ide_disk_timeout, once the time has run out.  While retries are left and the DMA
\* has stopped with no interrupt pending, the command is sent again (with the DMA
\* active only the time starts again); after the last retry, whatever the drive
\* does, it stops feeding the watchdog and the machine restarts.
IdeDiskTimeout ==
  /\ ide_timeout_enable
  /\ LET s == TimeoutCounted(slot[tail])
     IN  \/ /\ s.retry_count <= RETRIES
            /\ drive \in {"silent", "idle"}
            /\ slot' = [slot EXCEPT ![tail] = s]
            /\ \E ok \in Starts : QueuedReq(tail, ok, TRUE)
            /\ UNCHANGED <<head, tail, suspended, mainline>>
         \/ /\ s.retry_count > RETRIES
            /\ head' = 0 /\ tail' = 0
            /\ slot' = [i \in Slots |-> EmptySlot]
            /\ drive' = "idle" /\ command' = NoSlot /\ ide_timeout_enable' = FALSE
            /\ suspended' = {}
            /\ cur' = NoCaller /\ pc' = "out"
            /\ mine' = [c \in Callers |-> NoSlot]

\* resume_all of the game, or another call that resumes by id, meets a process
\* that waits for the disk.
ResumeAll ==
  /\ "resume_all" \in Events
  /\ suspended # {} /\ suspended' = {}
  /\ UNCHANGED <<queue, device, mainline>>

Trans ==
  \/ \E c \in Callers, type \in {"read", "write"}, n \in 1 .. MaxTransfers :
       QueTrans(c, type, n)
  \/ Drained \/ LookAtQueue \/ AddQueue \/ StartDrive \/ CheckQueue \/ SuspendSelf
  \/ SpinEnds \/ SpinTimeout
  \/ \E c \in Procs : ReturnResumed(c)

Interrupts == IdeIntr \/ IdeDiskTimeout

Next == Trans \/ DriveAnswers \/ Interrupts \/ ResumeAll

Spec == Init /\ [][Next]_vars

\* The drive answers or goes silent, interrupts come (the vertical retrace does, every
\* frame), and so does the timer that counts the timeout.  Nothing
\* is assumed of the callers.
FairSpec ==
  Spec /\ WF_vars(DriveAnswers) /\ WF_vars(IdeIntr) /\ WF_vars(IdeDiskTimeout)

-----------------------------------------------------------------------------
(***************************************************************************)
(* Properties.                                                             *)
(***************************************************************************)

TypeOK ==
  /\ head \in Slots /\ tail \in Slots
  /\ slot \in [Slots -> [proc : Callers \cup {"done"}, num : 0 .. MaxTransfers,
                         request : {"read", "write"}, retry_count : 0 .. RETRIES]]
  /\ drive \in {"idle", "busy", "done", "error", "silent"}
  /\ command \in Slots \cup {NoSlot}
  /\ ide_timeout_enable \in BOOLEAN
  /\ suspended \subseteq Procs
  /\ cur \in Callers \cup {NoCaller}
  /\ pc \in {"out", "drain", "look", "add_first", "add_behind", "start", "check", "suspend", "spin"}
  /\ mine \in [Callers -> Slots \cup {NoSlot}]

\* The slots of the ring that hold a queued request.
Length == (head - tail) % MAX_REQUESTS
Queued == {(tail + k) % MAX_REQUESTS : k \in 0 .. (Length - 1)}

\* The drive works, if it works, for the request at the tail of a ring that is not
\* empty, and that request is not answered yet: ide_intr, which looks only at the
\* tail, and que_trans, which fills the record at the head, agree whose answer comes.
DriveServesTail ==
  drive # "idle" => ~Empty /\ command = tail /\ slot[tail].proc \in Callers

\* The caller whose buffer the drive transfers is still in its call: no buffer goes
\* back to its owner while the DMA uses it (ide_intr against the end of que_trans).
BufferHeld ==
  drive # "idle" => slot[tail].proc \in Callers /\ mine[slot[tail].proc] = tail

\* A queued write is the oldest request: "If the request is a write - block
\* until all previous transactions have finished" (add_queue).
WritesFirst == \A i \in Queued : slot[i].request = "write" => i = tail

\* An answered request has made all its transfers, or has used up its retries
\* (ide_intr's two counts and its three ways to move the tail).
AnsweredWhole ==
  \A i \in Slots : slot[i].proc = "done" => slot[i].num = 0 \/ slot[i].retry_count = RETRIES

\* A process that waits for the disk has its request in the queue, so that
\* ide_intr will resume it (the end of que_trans).
WaitersQueued == \A c \in suspended : mine[c] \in Queued


\* A request the drive has begun is answered (-1 in its record, which a restart leaves
\* too): retries and timeouts end (the one counter of ide_intr and ide_disk_timeout), and
\* a masked disk interrupt is still serviced.  This is for a drive that is not busy when
\* it is sent a command ("the drive should NEVER be busy here", queued_req): under
\* drive_hung it fails, ide_intr's retry or next transfer being refused with the timeout
\* off and the request left at the tail.
BegunIsAnswered ==
  \A i \in Slots : (drive # "idle" /\ tail = i) ~> slot[i].proc = "done"

\* The ring and its waiting callers, seen from outside, are DiskService.
Submitting(c) == c = cur /\ pc \in {"drain", "look", "add_first", "add_behind"}
InQueue == [k \in 1 .. Length |-> slot[(tail + k - 1) % MAX_REQUESTS].proc]
Service == INSTANCE DiskService WITH
  pending <- InQueue,
  answered <- {c \in Callers : mine[c] # NoSlot /\ ~Submitting(c)
                               /\ \A k \in 1 .. Length : InQueue[k] # c}

\* Requests are answered one at a time in the order they were queued, and a call
\* returns only when its request has been answered or refused.
ImplementsService == Service!ServiceSpec
=============================================================================
