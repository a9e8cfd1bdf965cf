--------------------------- MODULE IdeQueueProofs ---------------------------
(***************************************************************************)
(* Theorems about the disk request queue, for every number of processes,   *)
(* ring size, retry limit and request length: its inductive invariant, the *)
(* safety invariants that follow from it, and the refinement of            *)
(* DiskService.                                                            *)
(***************************************************************************)
EXTENDS IdeQueue, SequenceTheorems, TLAPS

-----------------------------------------------------------------------------
(***************************************************************************)
(* The ring.                                                               *)
(***************************************************************************)

\* How far slot i is behind slot t, going round.
Gap(t, i) == IF i >= t THEN i - t ELSE i - t + MAX_REQUESTS

\* The slots from t up to, but not including, h.
RingOf(t, h) == {i \in Slots : Gap(t, i) < Gap(t, h)}

\* The ring has a power of two of slots, at least two.
LEMMA RingSize == MAX_REQUESTS \in Nat /\ MAX_REQUESTS >= 2
BY RingAssumption

\* The next slot, with the wrap of "& (MAX_REQUESTS - 1)".
LEMMA SuccSlot ==
  ASSUME NEW i \in Slots
  PROVE  Succ(i) \in Slots /\ Succ(i) = IF i = MAX_REQUESTS - 1 THEN 0 ELSE i + 1
<1>1. CASE i = MAX_REQUESTS - 1
  BY <1>1, RingSize DEF Slots, Succ
<1>2. CASE i # MAX_REQUESTS - 1
  BY <1>2, RingSize DEF Slots, Succ
<1> QED
  BY <1>1, <1>2

\* The gap is the length the code would compute.
LEMMA GapOf ==
  ASSUME NEW t \in Slots, NEW i \in Slots
  PROVE  /\ Gap(t, i) \in 0 .. MAX_REQUESTS - 1
         /\ (Gap(t, i) = 0) <=> (i = t)
         /\ (i - t) % MAX_REQUESTS = Gap(t, i)
         /\ (t + Gap(t, i)) % MAX_REQUESTS = i
BY RingSize DEF Slots, Gap

\* Going on from the tail by less than a round.
LEMMA SlotAt ==
  ASSUME NEW t \in Slots, NEW k \in 0 .. MAX_REQUESTS - 1
  PROVE  (t + k) % MAX_REQUESTS \in Slots /\ Gap(t, (t + k) % MAX_REQUESTS) = k
BY RingSize DEF Slots, Gap

\* The slots Queued enumerates.
LEMMA RingOfIs ==
  ASSUME NEW t \in Slots, NEW h \in Slots
  PROVE  {(t + k) % MAX_REQUESTS : k \in 0 .. (((h - t) % MAX_REQUESTS) - 1)} = RingOf(t, h)
<1> DEFINE length == (h - t) % MAX_REQUESTS
           queued == {(t + k) % MAX_REQUESTS : k \in 0 .. (length - 1)}
<1>1. length = Gap(t, h) /\ length \in 0 .. MAX_REQUESTS - 1
  BY GapOf
<1> HIDE DEF length
<1>2. ASSUME NEW i \in queued
      PROVE  i \in RingOf(t, h)
  <2>1. PICK k \in 0 .. (length - 1) : i = (t + k) % MAX_REQUESTS
    OBVIOUS
  <2>2. k \in 0 .. MAX_REQUESTS - 1 /\ k < length
    BY <1>1, <2>1, RingSize
  <2> QED
    BY <1>1, <2>1, <2>2, SlotAt DEF RingOf
<1>3. ASSUME NEW i \in RingOf(t, h)
      PROVE  i \in queued
  <2>1. i \in Slots /\ Gap(t, i) \in 0 .. (length - 1)
    BY <1>1, GapOf, RingSize DEF RingOf
  <2>2. i = (t + Gap(t, i)) % MAX_REQUESTS
    BY <2>1, GapOf
  <2> QED
    BY <2>1, <2>2
<1> QED
  BY <1>2, <1>3 DEF length

\* A request joins the ring at the head, leaves it at the tail.
LEMMA RingMoves ==
  ASSUME NEW t \in Slots, NEW h \in Slots
  PROVE  /\ h \notin RingOf(t, h)
         /\ t = h => RingOf(t, h) = {}
         /\ t # h => t \in RingOf(t, h) /\ RingOf(Succ(t), h) = RingOf(t, h) \ {t}
         /\ Succ(h) # t => RingOf(t, Succ(h)) = RingOf(t, h) \cup {h}
         /\ h = Succ(t) => RingOf(t, h) = {t}
<1>1. h \notin RingOf(t, h)
  BY GapOf DEF RingOf
<1>2. t = h => RingOf(t, h) = {}
  BY GapOf, RingSize DEF RingOf
<1>3. ASSUME t # h
      PROVE  t \in RingOf(t, h) /\ RingOf(Succ(t), h) = RingOf(t, h) \ {t}
  BY <1>3, SuccSlot, RingSize DEF RingOf, Gap, Slots
<1>4. ASSUME Succ(h) # t
      PROVE  RingOf(t, Succ(h)) = RingOf(t, h) \cup {h}
  BY <1>4, SuccSlot, RingSize DEF RingOf, Gap, Slots
<1>5. ASSUME h = Succ(t)
      PROVE  RingOf(t, h) = {t}
  BY <1>5, SuccSlot, RingSize DEF RingOf, Gap, Slots
<1> QED
  BY <1>1, <1>2, <1>3, <1>4, <1>5

-----------------------------------------------------------------------------
(***************************************************************************)
(* The inductive invariant.                                                *)
(***************************************************************************)

\* A caller fills the slot at the head until AddQueue makes it part of the ring.
Filling == {"drain", "look", "add_first", "add_behind"}

\* A queued record names its caller and has transfers to make.
Recorded == \A i \in Queued : slot[i].proc \in Callers /\ slot[i].num # 0

\* The caller whose code runs holds a slot, and which one.
CallerPlaced ==
  /\ (pc = "out") <=> (cur = NoCaller)
  /\ pc # "out" => mine[cur] \in Slots
  /\ pc = "suspend" => cur # HOOK
  /\ pc = "spin" => cur = HOOK
  /\ pc \in Filling => mine[cur] = head /\ slot[head].proc = cur /\ slot[head].num # 0

\* Who saw an empty queue is alone in it until the drive has been started.
StartsAlone ==
  /\ pc = "add_first" => Empty
  /\ pc = "start" => /\ head = Succ(tail) /\ mine[cur] = tail /\ slot[tail].proc = cur
                     /\ drive = "idle" /\ ~ide_timeout_enable

\* The drive works with its timeout running, for the request at the tail.
DriveTimed ==
  /\ ide_timeout_enable => ~Empty
  /\ drive # "idle" => ide_timeout_enable /\ command = tail

\* A write that has waited for the queue to drain still finds it empty.
WriteWaited ==
  pc \in {"look", "add_first", "add_behind"} /\ slot[head].request = "write" => Empty

QueueInv ==
  /\ TypeOK /\ Recorded /\ CallerPlaced /\ StartsAlone /\ DriveTimed
  /\ WriteWaited /\ WritesFirst /\ AnsweredWhole

Records == [proc : Callers \cup {"done"}, num : 0 .. MaxTransfers,
            request : {"read", "write"}, retry_count : 0 .. RETRIES]

\* What the type invariant says of the ring.
LEMMA RingTypes ==
  ASSUME QueueInv
  PROVE  /\ head \in Slots /\ tail \in Slots /\ slot \in [Slots -> Records]
         /\ Queued = RingOf(tail, head)
         /\ \A i \in Slots : slot[i] \in Records
         /\ HOOK \in Callers /\ "done" \notin Callers /\ NoCaller \notin Callers
         /\ RETRIES \in Nat /\ MaxTransfers \in Nat
BY RingOfIs, NamesAssumption, RetriesAssumption, TransfersAssumption
   DEF QueueInv, TypeOK, Records, Queued, Length, Callers, NoCaller

\* The parts of a record.
LEMMA RecordParts ==
  ASSUME NEW s \in Records
  PROVE  /\ s.proc \in Callers \cup {"done"} /\ s.num \in 0 .. MaxTransfers
         /\ s.request \in {"read", "write"} /\ s.retry_count \in 0 .. RETRIES
BY DEF Records

\* The ring when neither of its ends moves.
LEMMA RingStays ==
  ASSUME UNCHANGED <<head, tail>>
  PROVE  Queued' = Queued /\ Empty' = Empty
BY DEF Queued, Length, Empty

\* que_trans fills a slot that is not queued.
LEMMA QueTransKeeps ==
  ASSUME QueueInv, NEW c \in Callers, NEW type \in {"read", "write"},
         NEW n \in 1 .. MaxTransfers, QueTrans(c, type, n)
  PROVE  QueueInv'
<1> USE DEF QueTrans, queue, device
<1> DEFINE s == [proc |-> c, num |-> n, request |-> type, retry_count |-> 0]
<1>1. Queued' = Queued /\ Empty' = Empty /\ head \notin Queued
  BY RingStays, RingTypes, RingMoves
<1>2. s \in Records /\ s.num # 0 /\ s.proc = c /\ slot' = [slot EXCEPT ![head] = s]
  BY RingTypes DEF Records
<1> HIDE DEF s
<1>3. slot' \in [Slots -> Records] /\ slot'[head] = s
      /\ \A i \in Slots \ {head} : slot'[i] = slot[i]
  BY <1>2, RingTypes
<1>4. pc' \in {"drain", "look"} /\ cur' = c /\ mine'[c] = head
  BY RingTypes DEF FirstStep, QueueInv, TypeOK
<1>5. TypeOK'
  BY <1>3, <1>4, RingTypes DEF QueueInv, TypeOK, Records
<1>6. Queued \subseteq Slots
  BY RingTypes DEF RingOf
<1>7. Recorded' /\ WritesFirst'
  BY <1>1, <1>3, <1>6 DEF QueueInv, Recorded, WritesFirst
<1>8. CallerPlaced' /\ StartsAlone' /\ DriveTimed'
  BY <1>1, <1>2, <1>3, <1>4, RingTypes
  DEF QueueInv, CallerPlaced, StartsAlone, DriveTimed, Empty
<1>9. WriteWaited'
  BY <1>2, <1>3, <1>4 DEF WriteWaited, FirstStep, s
<1>10. AnsweredWhole'
  BY <1>2, <1>3, RingTypes DEF QueueInv, AnsweredWhole
<1> QED
  BY <1>5, <1>7, <1>8, <1>9, <1>10 DEF QueueInv

\* The steps of the caller that move neither end of the ring nor the drive.
LEMMA CallerKeeps ==
  ASSUME QueueInv,
         \/ Drained \/ LookAtQueue \/ CheckQueue \/ SuspendSelf \/ SpinEnds \/ SpinTimeout
         \/ \E c \in Procs : ReturnResumed(c)
  PROVE  QueueInv'
<1> USE DEF queue, device
<1>1. UNCHANGED <<head, tail, slot, drive, command, ide_timeout_enable>>
  BY DEF Drained, LookAtQueue, CheckQueue, SuspendSelf, SpinEnds, SpinTimeout, ReturnResumed
<1>2. Queued' = Queued /\ Empty' = Empty
  BY <1>1, RingStays
<1>3. Recorded' /\ WritesFirst' /\ AnsweredWhole' /\ DriveTimed'
  BY <1>1, <1>2 DEF QueueInv, Recorded, WritesFirst, AnsweredWhole, DriveTimed
<1>4. TypeOK'
  BY <1>1, RingTypes DEF QueueInv, TypeOK, CallerPlaced, Callers, Drained, LookAtQueue,
     CheckQueue, SuspendSelf, SpinEnds, SpinTimeout, ReturnResumed
<1>5. /\ CallerPlaced' /\ StartsAlone' /\ WriteWaited'
  <2>1. CASE Drained
    BY <1>1, <1>2, <2>1
    DEF Drained, QueueInv, CallerPlaced, StartsAlone, WriteWaited, Filling, NothingQueued
  <2>2. CASE LookAtQueue
    BY <1>1, <1>2, <2>2
    DEF LookAtQueue, QueueInv, CallerPlaced, StartsAlone, WriteWaited, Filling
  <2>3. CASE CheckQueue
    BY <1>1, <1>2, <2>3, RingTypes
    DEF CheckQueue, QueueInv, CallerPlaced, StartsAlone, WriteWaited, Filling
  <2>4. CASE SuspendSelf \/ SpinEnds \/ SpinTimeout
    BY <1>1, <1>2, <2>4
    DEF SuspendSelf, SpinEnds, SpinTimeout, QueueInv, CallerPlaced, StartsAlone, WriteWaited,
        Filling
  <2>5. ASSUME NEW c \in Procs, ReturnResumed(c)
        PROVE  CallerPlaced' /\ StartsAlone' /\ WriteWaited'
    BY <1>1, <1>2, <2>5
    DEF ReturnResumed, QueueInv, CallerPlaced, StartsAlone, WriteWaited, Filling
  <2> QED
    BY <2>1, <2>2, <2>3, <2>4, <2>5
<1> QED
  BY <1>3, <1>4, <1>5 DEF QueueInv

\* The filled slot becomes part of the ring: a write as its only request.
LEMMA AddQueueKeeps ==
  ASSUME QueueInv, AddQueue
  PROVE  QueueInv'
<1> USE DEF AddQueue, device
<1>1. head' \in Slots /\ head' = Succ(head) /\ tail' = tail /\ head' # tail
  BY RingTypes, SuccSlot DEF Room
<1>2. Queued' = Queued \cup {head}
  <2>1. head \in Slots /\ tail \in Slots /\ Queued = RingOf(tail, head)
    BY RingTypes
  <2>2. Queued' = RingOf(tail', head')
    BY <1>1, <2>1, RingOfIs DEF Queued, Length
  <2>3. RingOf(tail, Succ(head)) = RingOf(tail, head) \cup {head}
    BY <1>1, <2>1, RingMoves
  <2> QED
    BY <1>1, <2>1, <2>2, <2>3
<1>3. mine[cur] = head /\ slot[head].proc = cur /\ slot[head].num # 0 /\ cur \in Callers
  BY RingTypes DEF QueueInv, CallerPlaced, Filling, TypeOK
<1>4. slot[head].request = "write" => Empty
  BY DEF QueueInv, WriteWaited
<1>5. TypeOK'
  BY <1>1 DEF QueueInv, TypeOK
<1>6. Recorded' /\ AnsweredWhole'
  BY <1>2, <1>3 DEF QueueInv, Recorded, AnsweredWhole
<1>7. WritesFirst'
  <2>1. Empty => head = tail
    BY DEF Empty
  <2> QED
    BY <1>1, <1>2, <1>4, <2>1 DEF QueueInv, WritesFirst
<1>8. CallerPlaced'
  BY <1>1, <1>3, RingTypes DEF QueueInv, CallerPlaced, Filling, NoCaller
<1>9. StartsAlone' /\ DriveTimed' /\ WriteWaited'
  BY <1>1, <1>3 DEF QueueInv, StartsAlone, DriveTimed, WriteWaited, Empty
<1> QED
  BY <1>5, <1>6, <1>7, <1>8, <1>9 DEF QueueInv

\* The caller that was alone starts the drive, or gives its request back.
LEMMA StartDriveKeeps ==
  ASSUME QueueInv, StartDrive
  PROVE  QueueInv'
<1> PICK ok \in Starts :
      /\ QueuedReq(mine[cur], ok, FALSE)
      /\ IF ok
         THEN pc' = "check" /\ UNCHANGED <<head, tail, cur, mine>>
         ELSE /\ head' = 0 /\ tail' = 0
              /\ mine' = [mine EXCEPT ![cur] = NoSlot]
              /\ cur' = NoCaller /\ pc' = "out"
  BY DEF StartDrive
<1>1. pc = "start" /\ UNCHANGED <<slot, suspended>> /\ ok \in BOOLEAN
  BY DEF StartDrive, Starts
<1>2. head = Succ(tail) /\ mine[cur] = tail /\ ~Empty /\ Queued = {tail}
  BY <1>1, RingTypes, RingMoves, SuccSlot, RingSize DEF QueueInv, StartsAlone, Empty, Slots
<1>3. 0 \in Slots /\ RingOf(0, 0) = {}
  BY RingSize, RingMoves DEF Slots
<1>4. /\ head' \in Slots /\ tail' \in Slots
      /\ ok => Queued' = Queued /\ Empty' = Empty
      /\ ~ok => Queued' = {} /\ Empty'
  <2>1. CASE ok
    BY <2>1, RingTypes, RingStays
  <2>2. CASE ~ok
    <3>1. head' = 0 /\ tail' = 0
      BY <2>2
    <3>2. Queued' = RingOf(0, 0)
      BY <3>1, <1>3, RingOfIs DEF Queued, Length
    <3> QED
      BY <2>2, <3>1, <3>2, <1>3 DEF Empty
  <2> QED
    BY <1>1, <2>1, <2>2
<1>5. TypeOK'
  BY <1>1, <1>2, <1>4, RingTypes DEF QueueInv, TypeOK, QueuedReq
<1>6. Recorded' /\ WritesFirst' /\ AnsweredWhole'
  BY <1>1, <1>4 DEF QueueInv, Recorded, WritesFirst, AnsweredWhole
<1>7. CallerPlaced' /\ StartsAlone' /\ WriteWaited'
  BY <1>1, <1>4 DEF QueueInv, CallerPlaced, StartsAlone, WriteWaited, Filling
<1>8. DriveTimed'
  BY <1>1, <1>2, <1>4 DEF DriveTimed, QueuedReq
<1> QED
  BY <1>5, <1>6, <1>7, <1>8 DEF QueueInv

\* The drive changes nothing but its own state.
LEMMA DriveAnswersKeeps ==
  ASSUME QueueInv, DriveAnswers
  PROVE  QueueInv'
<1> USE DEF DriveAnswers, queue, mainline
<1>1. Queued' = Queued /\ Empty' = Empty
  BY RingStays
<1>2. drive' \in {"done", "error", "silent"} /\ drive = "busy"
  OBVIOUS
<1>3. TypeOK'
  BY <1>2 DEF QueueInv, TypeOK
<1> QED
  BY <1>1, <1>2, <1>3 DEF QueueInv, Recorded, CallerPlaced, StartsAlone, DriveTimed, WriteWaited,
     WritesFirst, AnsweredWhole

\* A process resumed by somebody else leaves the ring as it was.
LEMMA ResumeAllKeeps ==
  ASSUME QueueInv, ResumeAll
  PROVE  QueueInv'
<1> USE DEF ResumeAll, queue, device, mainline
<1>1. Queued' = Queued /\ Empty' = Empty
  BY RingStays
<1>2. TypeOK'
  BY DEF QueueInv, TypeOK
<1> QED
  BY <1>1, <1>2 DEF QueueInv, Recorded, CallerPlaced, StartsAlone, DriveTimed, WriteWaited,
     WritesFirst, AnsweredWhole

\* What a begun request's record is after ide_intr: one transfer less or one retry more.
LEMMA CountedIs ==
  ASSUME QueueInv, drive \in {"done", "error"}
  PROVE  LET s == slot[tail]
             t == Counted(s)
             whole == \/ drive = "done" /\ s.num = 1
                      \/ drive = "error" /\ s.retry_count = RETRIES
         IN  /\ tail \in Queued /\ ~Empty /\ s.proc \in Callers
             /\ t \in Records /\ t.proc = s.proc /\ t.request = s.request
             /\ (Again(s) \/ (drive = "done" /\ ~LastTransfer(s))) <=> ~whole
             /\ ~whole => t.num # 0
             /\ whole => t.num = 0 \/ t.retry_count = RETRIES
<1> DEFINE s == slot[tail]
<1>1. tail \in Queued /\ ~Empty /\ s \in Records /\ s.proc \in Callers /\ s.num # 0
  BY RingTypes, RingMoves DEF QueueInv, DriveTimed, Empty, Recorded
<1>2. RETRIES \in Nat /\ MaxTransfers \in Nat
  BY RetriesAssumption, TransfersAssumption
<1> HIDE DEF s
<1>3. s.num \in 1 .. MaxTransfers /\ s.retry_count \in 0 .. RETRIES
  BY <1>1, <1>2, RecordParts
<1>4. CASE drive = "done"
  <2>1. Counted(s) = [s EXCEPT !.num = s.num - 1]
    BY <1>4 DEF Counted
  <2>2. s.num - 1 \in 0 .. MaxTransfers
    BY <1>2, <1>3
  <2>3. /\ Counted(s) \in Records /\ Counted(s).proc = s.proc
        /\ Counted(s).request = s.request /\ Counted(s).num = s.num - 1
    BY <1>1, <2>1, <2>2 DEF Records
  <2> QED
    BY <1>1, <1>3, <1>4, <2>3 DEF Again, LastTransfer, s
<1>5. CASE drive = "error" /\ s.retry_count < RETRIES
  <2>1. Counted(s) = [s EXCEPT !.retry_count = s.retry_count + 1]
    BY <1>5 DEF Counted, Again
  <2>2. s.retry_count + 1 \in 0 .. RETRIES
    BY <1>2, <1>3, <1>5
  <2>3. /\ Counted(s) \in Records /\ Counted(s).proc = s.proc
        /\ Counted(s).request = s.request /\ Counted(s).num = s.num
    BY <1>1, <2>1, <2>2 DEF Records
  <2> QED
    BY <1>1, <1>2, <1>3, <1>5, <2>3 DEF Again, s
<1>6. CASE drive = "error" /\ ~(s.retry_count < RETRIES)
  <2>1. Counted(s) = [s EXCEPT !.retry_count = s.retry_count]
    BY <1>6 DEF Counted, Again
  <2>2. /\ Counted(s) \in Records /\ Counted(s).proc = s.proc
        /\ Counted(s).request = s.request /\ Counted(s).retry_count = s.retry_count
    BY <1>1, <1>3, <2>1 DEF Records
  <2> QED
    BY <1>1, <1>2, <1>3, <1>6, <2>2 DEF Again, s
<1> QED
  BY <1>4, <1>5, <1>6

\* Another command for the same request.
LEMMA ContinueKeeps ==
  ASSUME QueueInv, drive \in {"done", "error"}, Continue, UNCHANGED <<head, mainline>>,
         Again(slot[tail]) \/ (drive = "done" /\ ~LastTransfer(slot[tail]))
  PROVE  QueueInv'
<1> USE DEF Continue, mainline
<1> DEFINE t == Counted(slot[tail])
<1>1. /\ tail \in Queued /\ ~Empty /\ slot[tail].proc \in Callers
      /\ t \in Records /\ t.proc = slot[tail].proc
      /\ t.request = slot[tail].request /\ t.num # 0
  BY CountedIs
<1>2. Queued' = Queued /\ Empty' = Empty
  BY RingStays
<1>3. slot' = [slot EXCEPT ![tail] = t]
  OBVIOUS
<1> HIDE DEF t
<1>4. /\ slot' \in [Slots -> Records] /\ slot'[tail] = t
      /\ \A i \in Slots \ {tail} : slot'[i] = slot[i]
  BY <1>1, <1>3, RingTypes
<1>5. PICK ok \in BOOLEAN : QueuedReq(tail, ok, FALSE)
  BY DEF Starts
<1>6. TypeOK'
  BY <1>4, <1>5, RingTypes DEF QueueInv, TypeOK, Records, QueuedReq
<1>7. \A i \in Slots : slot'[i].request = slot[i].request /\ slot'[i].proc = slot[i].proc
  BY <1>1, <1>4
<1>8. Queued \subseteq Slots
  BY RingTypes DEF RingOf
<1>9. Recorded' /\ WritesFirst' /\ AnsweredWhole'
  <2>1. \A i \in Slots : slot'[i].num = slot[i].num \/ (i = tail /\ slot'[i].num # 0)
    BY <1>1, <1>4
  <2>2. \A i \in Slots : slot'[i].proc = "done" => slot'[i] = slot[i]
    BY <1>1, <1>4, RingTypes
  <2>3. Recorded'
    BY <1>2, <1>7, <1>8, <2>1 DEF QueueInv, Recorded
  <2>4. WritesFirst'
    BY <1>2, <1>7, <1>8 DEF QueueInv, WritesFirst
  <2>5. AnsweredWhole'
    BY <2>2 DEF QueueInv, AnsweredWhole
  <2> QED
    BY <2>3, <2>4, <2>5
<1>10. CallerPlaced'
  <2>1. pc \in Filling => slot'[head].num # 0
    BY <1>1, <1>4, RingTypes DEF QueueInv, CallerPlaced
  <2> QED
    BY <1>7, <2>1, RingTypes DEF QueueInv, CallerPlaced
<1>11. StartsAlone' /\ DriveTimed' /\ WriteWaited'
  BY <1>1, <1>2, <1>5, <1>7, RingTypes
  DEF QueueInv, StartsAlone, DriveTimed, WriteWaited, QueuedReq
<1> QED
  BY <1>6, <1>9, <1>10, <1>11 DEF QueueInv

\* The request at the tail leaves the ring, its record whole.
LEMMA AnswerKeeps ==
  ASSUME QueueInv, drive \in {"done", "error"}, Answer, UNCHANGED <<head, mainline>>,
         ~(Again(slot[tail]) \/ (drive = "done" /\ ~LastTransfer(slot[tail])))
  PROVE  QueueInv'
<1> USE DEF Answer, mainline
<1> DEFINE counted == Counted(slot[tail])
           t == [counted EXCEPT !.proc = "done"]
<1>1. /\ tail \in Queued /\ ~Empty /\ counted \in Records
      /\ counted.num = 0 \/ counted.retry_count = RETRIES
      /\ counted.request = slot[tail].request
  BY CountedIs
<1>2. slot' = [slot EXCEPT ![tail] = t] /\ tail' = Succ(tail) /\ head' = head
  OBVIOUS
<1> HIDE DEF counted
<1>3. t \in Records /\ t.proc = "done" /\ (t.num = 0 \/ t.retry_count = RETRIES)
      /\ t.request = slot[tail].request
  BY <1>1 DEF Records
<1> HIDE DEF t
<1>4. /\ slot' \in [Slots -> Records] /\ slot'[tail] = t
      /\ \A i \in Slots \ {tail} : slot'[i] = slot[i]
  BY <1>2, <1>3, RingTypes
<1>5. tail' \in Slots
  BY <1>2, RingTypes, SuccSlot
<1>6. Queued' = Queued \ {tail} /\ Queued \subseteq Slots
  <2>1. tail # head /\ Queued = RingOf(tail, head)
    BY <1>1, RingTypes DEF Empty
  <2>2. Queued' = RingOf(Succ(tail), head)
    BY <1>2, <1>5, RingTypes, RingOfIs DEF Queued, Length
  <2> QED
    BY <2>1, <2>2, RingTypes, RingMoves DEF RingOf
<1>7. PICK ok \in BOOLEAN :
        IF Succ(tail) # head THEN QueuedReq(Succ(tail), ok, FALSE)
        ELSE drive' = "idle" /\ ide_timeout_enable' = FALSE /\ command' = NoSlot
  BY DEF Starts
<1>8. TypeOK'
  <2>1. /\ drive' \in {"idle", "busy"} /\ command' \in Slots \cup {NoSlot}
        /\ ide_timeout_enable' \in BOOLEAN
    BY <1>2, <1>5, <1>7 DEF QueuedReq
  <2>2. suspended' \subseteq suspended
    BY DEF Resumed
  <2> QED
    BY <1>2, <1>4, <1>5, <2>1, <2>2, RingTypes DEF QueueInv, TypeOK, Records
<1>9. Recorded' /\ WritesFirst'
  BY <1>4, <1>6 DEF QueueInv, Recorded, WritesFirst
<1>10. AnsweredWhole'
  BY <1>3, <1>4 DEF QueueInv, AnsweredWhole
<1>11. DriveTimed'
  BY <1>2, <1>7 DEF DriveTimed, QueuedReq, Empty
<1>12. CallerPlaced'
  BY <1>1, <1>2, <1>4, RingTypes DEF QueueInv, CallerPlaced, Filling, Empty
<1>13. StartsAlone' /\ WriteWaited'
  BY <1>1, <1>2, <1>3, <1>4, RingTypes
  DEF QueueInv, StartsAlone, DriveTimed, WriteWaited, Empty
<1> QED
  BY <1>8, <1>9, <1>10, <1>11, <1>12, <1>13 DEF QueueInv

\* The disk interrupt, whichever way it goes.
LEMMA IdeIntrKeeps ==
  ASSUME QueueInv, IdeIntr
  PROVE  QueueInv'
BY AnswerKeeps, ContinueKeeps DEF IdeIntr

\* The timeout sends the command again, or the machine restarts.
LEMMA TimeoutKeeps ==
  ASSUME QueueInv, IdeDiskTimeout
  PROVE  QueueInv'
<1> DEFINE t == TimeoutCounted(slot[tail])
<1>1. CASE /\ t.retry_count <= RETRIES
           /\ drive \in {"silent", "idle"}
           /\ slot' = [slot EXCEPT ![tail] = t]
           /\ \E ok \in Starts : QueuedReq(tail, ok, TRUE)
           /\ UNCHANGED <<head, tail, suspended, mainline>>
  <2>1. /\ tail \in Queued /\ ~Empty /\ slot[tail] \in Records
        /\ slot[tail].proc \in Callers /\ slot[tail].num # 0
    BY RingTypes, RingMoves DEF IdeDiskTimeout, QueueInv, DriveTimed, Empty, Recorded
  <2>2. slot[tail].retry_count \in Nat /\ RETRIES \in Nat
    BY <2>1, RecordParts, RingTypes
  <2>3. t = [slot[tail] EXCEPT !.retry_count = slot[tail].retry_count + 1]
    BY DEF TimeoutCounted
  <2>4. slot[tail].retry_count + 1 \in 0 .. RETRIES
    BY <1>1, <2>1, <2>2, <2>3 DEF Records
  <2>5. /\ t \in Records /\ t.proc = slot[tail].proc /\ t.num = slot[tail].num
        /\ t.request = slot[tail].request
    BY <2>1, <2>3, <2>4 DEF Records
  <2>6. slot' = [slot EXCEPT ![tail] = t]
    BY <1>1
  <2> HIDE DEF t
  <2>7. /\ slot' \in [Slots -> Records] /\ slot'[tail] = t
        /\ \A i \in Slots \ {tail} : slot'[i] = slot[i]
    BY <2>5, <2>6, RingTypes
  <2>8. \A i \in Slots : /\ slot'[i].request = slot[i].request
                         /\ slot'[i].proc = slot[i].proc /\ slot'[i].num = slot[i].num
                         /\ slot'[i].proc = "done" => slot'[i] = slot[i]
    BY <2>1, <2>5, <2>7, RingTypes
  <2>9. Queued' = Queued /\ Empty' = Empty /\ Queued \subseteq Slots
    BY <1>1, RingStays, RingTypes DEF RingOf
  <2>10. PICK ok \in BOOLEAN : QueuedReq(tail, ok, TRUE)
    BY <1>1 DEF Starts
  <2>11. UNCHANGED <<head, tail, suspended, cur, pc, mine>>
    BY <1>1 DEF mainline
  <2>12. TypeOK'
    BY <2>7, <2>10, <2>11, RingTypes DEF QueueInv, TypeOK, Records, QueuedReq
  <2>13. Recorded' /\ WritesFirst' /\ AnsweredWhole'
    BY <2>8, <2>9, <2>11 DEF QueueInv, Recorded, WritesFirst, AnsweredWhole
  <2>14. CallerPlaced' /\ WriteWaited'
    BY <2>8, <2>9, <2>11, RingTypes DEF QueueInv, CallerPlaced, WriteWaited
  <2>15. DriveTimed'
    BY <2>1, <2>9, <2>10, <2>11 DEF DriveTimed, QueuedReq
  <2>16. StartsAlone'
    BY <2>9, <2>11 DEF IdeDiskTimeout, QueueInv, StartsAlone
  <2> QED
    BY <2>12, <2>13, <2>14, <2>15, <2>16 DEF QueueInv
<1>2. CASE /\ head' = 0 /\ tail' = 0
           /\ slot' = [i \in Slots |-> EmptySlot]
           /\ drive' = "idle" /\ command' = NoSlot /\ ide_timeout_enable' = FALSE
           /\ suspended' = {}
           /\ cur' = NoCaller /\ pc' = "out"
           /\ mine' = [c \in Callers |-> NoSlot]
  <2>1. 0 \in Slots /\ RingOf(0, 0) = {}
    BY RingSize, RingMoves DEF Slots
  <2>2. Queued' = {} /\ Empty'
    BY <1>2, <2>1, RingOfIs DEF Queued, Length, Empty
  <2>3. EmptySlot \in Records /\ EmptySlot.num = 0
    BY RingTypes DEF EmptySlot, Records
  <2>4. TypeOK'
    BY <1>2, <2>1, <2>3 DEF TypeOK, Records
  <2>5. AnsweredWhole'
    BY <1>2, <2>3 DEF AnsweredWhole
  <2> QED
    BY <1>2, <2>2, <2>4, <2>5
    DEF QueueInv, Recorded, CallerPlaced, StartsAlone, DriveTimed, WriteWaited, WritesFirst,
        Filling
<1> QED
  BY <1>1, <1>2 DEF IdeDiskTimeout

\* After init_disk_que the ring is empty.
LEMMA InitQueueInv == Init => QueueInv
<1> SUFFICES ASSUME Init PROVE QueueInv
  OBVIOUS
<1> USE DEF Init
<1>1. 0 \in Slots /\ RingOf(0, 0) = {}
  BY RingSize, RingMoves DEF Slots
<1>2. Queued = {} /\ Empty
  BY <1>1, RingOfIs DEF Queued, Length, Empty
<1>3. EmptySlot \in Records /\ EmptySlot.num = 0
  BY RetriesAssumption, TransfersAssumption DEF EmptySlot, Records
<1>4. TypeOK
  BY <1>1, <1>3 DEF TypeOK, Records
<1>5. AnsweredWhole
  BY <1>3 DEF AnsweredWhole
<1> QED
  BY <1>2, <1>4, <1>5
  DEF QueueInv, Recorded, CallerPlaced, StartsAlone, DriveTimed, WriteWaited, WritesFirst,
      Filling

\* Every step keeps the invariant.
LEMMA NextKeeps ==
  ASSUME QueueInv, [Next]_vars
  PROVE  QueueInv'
<1>1. CASE Next
  BY <1>1, QueTransKeeps, CallerKeeps, AddQueueKeeps, StartDriveKeeps, DriveAnswersKeeps,
     IdeIntrKeeps, TimeoutKeeps, ResumeAllKeeps DEF Next, Trans, Interrupts
<1>2. CASE UNCHANGED vars
  <2>1. Queued' = Queued /\ Empty' = Empty
    BY <1>2, RingStays DEF vars
  <2>2. TypeOK'
    BY <1>2 DEF vars, QueueInv, TypeOK
  <2> QED
    BY <1>2, <2>1, <2>2 DEF vars, QueueInv, Recorded, CallerPlaced, StartsAlone, DriveTimed,
       WriteWaited, WritesFirst, AnsweredWhole
<1> QED
  BY <1>1, <1>2

\* The inductive invariant: in every state the ring, the caller that is filling or
\* starting a request, and the drive agree about who owns which slot.
THEOREM QueueInvariant == Spec => []QueueInv
BY InitQueueInv, NextKeeps, PTL DEF Spec

\* Head, tail and the records keep their ranges; in particular no request is ever sent
\* more than RETRIES times again, by ide_intr and ide_disk_timeout together.
THEOREM QueueTypes == Spec => []TypeOK
<1>1. QueueInv => TypeOK
  BY DEF QueueInv
<1> QED
  BY <1>1, QueueInvariant, PTL

\* Whatever interrupts between the steps of que_trans, a working drive works for the
\* request at the tail, which is the one ide_intr will answer.
THEOREM DriveAndTailAgree == Spec => []DriveServesTail
<1>1. QueueInv => DriveServesTail
  <2> SUFFICES ASSUME QueueInv, drive # "idle"
               PROVE  ~Empty /\ command = tail /\ slot[tail].proc \in Callers
    BY DEF DriveServesTail
  <2> QED
    BY RingTypes, RingMoves DEF QueueInv, DriveTimed, Recorded, Empty
<1> QED
  BY <1>1, QueueInvariant, PTL

\* A queued write is the oldest request, although add_queue waits for the drained queue
\* before it masks the disk interrupt and looks again.
THEOREM WritesWait == Spec => []WritesFirst
<1>1. QueueInv => WritesFirst
  BY DEF QueueInv
<1> QED
  BY <1>1, QueueInvariant, PTL

\* ide_intr and ide_disk_timeout answer no request before its last transfer, unless its
\* retries are used up.
THEOREM AnswersAreWhole == Spec => []AnsweredWhole
<1>1. QueueInv => AnsweredWhole
  BY DEF QueueInv
<1> QED
  BY <1>1, QueueInvariant, PTL

-----------------------------------------------------------------------------
(***************************************************************************)
(* While nobody gives up waiting.                                          *)
(***************************************************************************)

\* No resume_all meets a process that waits for the disk, and no loop that waits
\* runs out.
NobodyGivesUp == Events \cap {"resume_all", "spin_timeout"} = {}

\* A queued request is that of a caller that waits.
Waiting ==
  \A i \in Queued : /\ mine[slot[i].proc] = i
                    /\ \/ slot[i].proc \in suspended
                       \/ slot[i].proc = cur /\ pc \notin Filling

\* How the ring changes in a step: a request joins it, leaves it, or all do.
LEMMA QueuedMoves ==
  ASSUME QueueInv, [Next]_vars
  PROVE  /\ AddQueue => Queued' = Queued \cup {head} /\ head \notin Queued
         /\ IdeIntr => \/ Continue /\ Queued' = Queued
                       \/ Answer /\ Queued' = Queued \ {tail} /\ tail \in Queued
         /\ StartDrive => /\ Queued = {tail} /\ mine[cur] = tail
                          /\ \/ UNCHANGED <<head, tail, mine, cur>> /\ pc' = "check"
                             \/ /\ Queued' = {} /\ head' = 0 /\ tail' = 0
                                /\ mine' = [mine EXCEPT ![cur] = NoSlot] /\ cur' = NoCaller
         /\ UNCHANGED <<head, tail>> => Queued' = Queued
         /\ Empty => Queued = {}
<1> USE RingTypes
<1>1. head' \in Slots /\ tail' \in Slots
  BY NextKeeps DEF QueueInv, TypeOK
<1>2. Queued = RingOf(tail, head) /\ Queued' = RingOf(tail', head')
  BY <1>1, RingOfIs DEF Queued, Length
<1>3. AddQueue => Queued' = Queued \cup {head} /\ head \notin Queued
  BY <1>2, RingMoves DEF AddQueue, Room
<1>4. ASSUME IdeIntr
      PROVE  \/ Continue /\ Queued' = Queued
             \/ Answer /\ Queued' = Queued \ {tail} /\ tail \in Queued
  <2>1. tail # head
    BY <1>4 DEF IdeIntr, QueueInv, DriveTimed, Empty
  <2>2. CASE Continue
    BY <2>2, <1>2, <1>4 DEF IdeIntr, Continue
  <2>3. CASE Answer
    BY <2>1, <2>3, <1>2, <1>4, RingMoves DEF IdeIntr, Answer
  <2> QED
    BY <2>2, <2>3, <1>4 DEF IdeIntr
<1>5. ASSUME StartDrive
      PROVE  /\ Queued = {tail} /\ mine[cur] = tail
             /\ \/ UNCHANGED <<head, tail, mine, cur>> /\ pc' = "check"
                \/ /\ Queued' = {} /\ head' = 0 /\ tail' = 0
                   /\ mine' = [mine EXCEPT ![cur] = NoSlot] /\ cur' = NoCaller
  <2>1. head = Succ(tail) /\ mine[cur] = tail
    BY <1>5 DEF StartDrive, QueueInv, StartsAlone
  <2>2. Queued = {tail}
    BY <2>1, <1>2, RingMoves
  <2>3. 0 \in Slots /\ RingOf(0, 0) = {}
    BY RingSize, RingMoves DEF Slots
  <2> QED
    BY <1>2, <1>5, <2>1, <2>2, <2>3 DEF StartDrive
<1>6. Empty => Queued = {}
  BY <1>2, RingMoves DEF Empty
<1>7. UNCHANGED <<head, tail>> => Queued' = Queued
  BY <1>2
<1> QED
  BY <1>3, <1>4, <1>5, <1>6, <1>7

\* Every step keeps it, resume_all and the timeout of the spinning hook apart.
LEMMA WaitingKept ==
  ASSUME NobodyGivesUp, QueueInv, Waiting, [Next]_vars
  PROVE  Waiting'
<1> USE DEF queue, device, mainline
<1>1. Queued \subseteq Slots /\ HOOK \in Callers /\ tail \in Slots
  BY RingTypes DEF RingOf
<1>2. \A i \in Queued : slot[i].proc \in Callers
  BY DEF QueueInv, Recorded
<1>3. CASE UNCHANGED vars
  BY <1>3, QueuedMoves DEF vars, Waiting
<1>4. ASSUME NEW c \in Callers, NEW type \in {"read", "write"}, NEW n \in 1 .. MaxTransfers,
             QueTrans(c, type, n)
      PROVE  Waiting'
  <2>1. Queued' = Queued /\ head \notin Queued
    BY <1>4, QueuedMoves, RingTypes, RingMoves DEF QueTrans
  <2>2. \A i \in Queued : slot'[i] = slot[i] /\ slot[i].proc # c /\ cur = NoCaller
    BY <1>1, <1>4, <2>1, RingTypes DEF QueTrans, Waiting, Slots, NoSlot
  <2>3. mine' = [mine EXCEPT ![c] = head] /\ UNCHANGED suspended /\ NoCaller \notin Callers
    BY <1>4, RingTypes DEF QueTrans
  <2> QED
    BY <1>2, <2>1, <2>2, <2>3 DEF Waiting, QueueInv, TypeOK
<1>5. CASE Drained \/ LookAtQueue \/ SuspendSelf
  BY <1>5, QueuedMoves DEF Drained, LookAtQueue, SuspendSelf, Waiting, Filling
<1>6. CASE CheckQueue
  BY <1>6, QueuedMoves DEF CheckQueue, NothingQueued, Waiting, Filling
<1>7. CASE AddQueue
  BY <1>7, QueuedMoves DEF AddQueue, Waiting, QueueInv, CallerPlaced, Filling
<1>8. CASE StartDrive
  BY <1>8, QueuedMoves DEF StartDrive, Waiting, Filling
<1>9. CASE SpinEnds
  <2>1. \A i \in Queued : slot[i].proc # HOOK
    BY <1>2, <1>9, RingTypes DEF SpinEnds, Waiting
  <2>2. \A i \in Queued : slot[i].proc \in suspended
    BY <2>1, <1>9 DEF SpinEnds, Waiting, QueueInv, CallerPlaced
  <2> QED
    BY <1>2, <1>9, <2>1, <2>2, QueuedMoves DEF SpinEnds, Waiting, QueueInv, TypeOK
<1>10. ASSUME NEW c \in Procs, ReturnResumed(c)
       PROVE  Waiting'
  <2>1. \A i \in Queued : slot[i].proc \in suspended /\ slot[i].proc # c
    BY <1>2, <1>10, RingTypes DEF ReturnResumed, Waiting
  <2> QED
    BY <1>2, <1>10, <2>1, QueuedMoves DEF ReturnResumed, Waiting, QueueInv, TypeOK
<1>11. CASE DriveAnswers
  BY <1>11, QueuedMoves DEF DriveAnswers, Waiting
<1>12. CASE IdeIntr
  <2>1. UNCHANGED <<head, cur, pc, mine>> /\ drive \in {"done", "error"}
    BY <1>12 DEF IdeIntr
  <2>2. CASE Continue /\ Queued' = Queued
    <3>1. slot' = [slot EXCEPT ![tail] = Counted(slot[tail])] /\ UNCHANGED suspended
      BY <2>2 DEF Continue
    <3>2. \A i \in Queued : slot'[i].proc = slot[i].proc
      BY <1>1, <2>1, <3>1, CountedIs, RingTypes
    <3> QED
      BY <2>1, <2>2, <3>1, <3>2 DEF Waiting
  <2>3. CASE Answer /\ Queued' = Queued \ {tail} /\ tail \in Queued
    <3>1. \A i \in Queued \ {tail} : slot'[i] = slot[i] /\ slot[i].proc # slot[tail].proc
      BY <1>1, <2>3, RingTypes DEF Answer, Waiting
    <3>2. suspended' = suspended \ {slot[tail].proc}
      BY <2>3 DEF Answer, Resumed
    <3> QED
      BY <2>1, <2>3, <3>1, <3>2 DEF Waiting
  <2> QED
    BY <1>12, <2>2, <2>3, QueuedMoves
<1>13. CASE IdeDiskTimeout
  <2>1. CASE UNCHANGED <<head, tail, suspended, mainline>>
             /\ slot' = [slot EXCEPT ![tail] = TimeoutCounted(slot[tail])]
    <3>1. \A i \in Queued : slot'[i].proc = slot[i].proc
      BY <1>1, <2>1, RingTypes DEF TimeoutCounted, Records
    <3> QED
      BY <2>1, <3>1, QueuedMoves DEF Waiting
  <2>2. CASE head' = 0 /\ tail' = 0
    <3>1. 0 \in Slots /\ RingOf(0, 0) = {}
      BY RingSize, RingMoves DEF Slots
    <3>2. Queued' = {}
      BY <2>2, <3>1, RingOfIs DEF Queued, Length
    <3> QED
      BY <3>2 DEF Waiting
  <2> QED
    BY <1>13, <2>1, <2>2 DEF IdeDiskTimeout
<1>14. ~SpinTimeout /\ ~ResumeAll
  BY DEF NobodyGivesUp, SpinTimeout, ResumeAll
<1> QED
  BY <1>3, <1>4, <1>5, <1>6, <1>7, <1>8, <1>9, <1>10, <1>11, <1>12, <1>13, <1>14
  DEF Next, Trans, Interrupts

\* While nobody gives up, every queued request has a caller that waits for it.
THEOREM WaitingInvariant == NobodyGivesUp => (Spec => []Waiting)
<1> SUFFICES ASSUME NobodyGivesUp PROVE Spec => []Waiting
  OBVIOUS
<1>1. Init => Waiting
  <2>1. 0 \in Slots /\ RingOf(0, 0) = {}
    BY RingSize, RingMoves DEF Slots
  <2> QED
    BY <2>1, RingOfIs DEF Init, Waiting, Queued, Length
<1>2. QueueInv /\ Waiting /\ [Next]_vars => Waiting'
  BY WaitingKept
<1> QED
  BY <1>1, <1>2, QueueInvariant, PTL DEF Spec

\* While nobody gives up, the buffer the drive transfers belongs to a caller still inside
\* que_trans: none returns while the DMA uses its buffer.
THEOREM BuffersAreHeld == NobodyGivesUp => (Spec => []BufferHeld)
<1> SUFFICES ASSUME NobodyGivesUp PROVE Spec => []BufferHeld
  OBVIOUS
<1>1. QueueInv /\ Waiting => BufferHeld
  <2> SUFFICES ASSUME QueueInv, Waiting, drive # "idle"
               PROVE  slot[tail].proc \in Callers /\ mine[slot[tail].proc] = tail
    BY DEF BufferHeld
  <2>1. tail \in Queued
    BY RingTypes, RingMoves DEF QueueInv, DriveTimed, Empty
  <2> QED
    BY <2>1 DEF QueueInv, Recorded, Waiting
<1> QED
  BY <1>1, QueueInvariant, WaitingInvariant, PTL

-----------------------------------------------------------------------------
(***************************************************************************)
(* The ring and its callers are the service that DiskService describes.    *)
(***************************************************************************)

\* The callers in the ring, as a set, and those whose call may return.
Asking == {slot[i].proc : i \in Queued}
Answered == {c \in Callers : mine[c] # NoSlot /\ ~Submitting(c) /\ c \notin Asking}

\* The sequence of callers in a ring from slot t to slot h.
Line(t, h, f) == [k \in 1 .. ((h - t) % MAX_REQUESTS) |-> f[(t + k - 1) % MAX_REQUESTS].proc]

\* The line has one entry for each slot of the ring, that slot's caller.
LEMMA LineIs ==
  ASSUME NEW t \in Slots, NEW h \in Slots, NEW f,
         \A i \in RingOf(t, h) : f[i].proc \in Callers
  PROVE  /\ Line(t, h, f) \in Seq(Callers) /\ Len(Line(t, h, f)) = Gap(t, h)
         /\ \A k \in 1 .. Gap(t, h) : \E i \in RingOf(t, h) : Line(t, h, f)[k] = f[i].proc
         /\ \A i \in RingOf(t, h) : \E k \in 1 .. Gap(t, h) : Line(t, h, f)[k] = f[i].proc
<1>1. (h - t) % MAX_REQUESTS = Gap(t, h) /\ Gap(t, h) \in 0 .. MAX_REQUESTS - 1
  BY GapOf
<1>2. ASSUME NEW k \in 1 .. Gap(t, h)
      PROVE  /\ (t + k - 1) % MAX_REQUESTS \in RingOf(t, h)
             /\ Gap(t, (t + k - 1) % MAX_REQUESTS) = k - 1
  <2>1. k - 1 \in 0 .. MAX_REQUESTS - 1 /\ t + (k - 1) = t + k - 1 /\ k - 1 < Gap(t, h)
    BY <1>1, RingSize DEF Slots
  <2> QED
    BY <2>1, SlotAt DEF RingOf
<1>3. ASSUME NEW i \in RingOf(t, h)
      PROVE  \E k \in 1 .. Gap(t, h) : i = (t + k - 1) % MAX_REQUESTS
  <2>1. i \in Slots /\ Gap(t, i) < Gap(t, h) /\ Gap(t, i) \in 0 .. MAX_REQUESTS - 1
    BY <1>3, GapOf DEF RingOf
  <2>2. Gap(t, i) + 1 \in 1 .. Gap(t, h) /\ t + (Gap(t, i) + 1) - 1 = t + Gap(t, i)
    BY <1>1, <2>1, RingSize DEF Slots
  <2>3. i = (t + Gap(t, i)) % MAX_REQUESTS
    BY <2>1, GapOf
  <2> QED
    BY <2>2, <2>3
<1>4. Line(t, h, f) = [k \in 1 .. Gap(t, h) |-> f[(t + k - 1) % MAX_REQUESTS].proc]
  BY <1>1 DEF Line
<1>5. Line(t, h, f) \in Seq(Callers) /\ Len(Line(t, h, f)) = Gap(t, h)
  BY <1>1, <1>2, <1>4
<1>6. \A k \in 1 .. Gap(t, h) : Line(t, h, f)[k] = f[(t + k - 1) % MAX_REQUESTS].proc
  BY <1>4
<1> QED
  BY <1>2, <1>3, <1>5, <1>6

\* A request more at the head is one more at the end of the line.
LEMMA LineGrows ==
  ASSUME NEW t \in Slots, NEW h \in Slots, NEW f,
         \A i \in RingOf(t, Succ(h)) : f[i].proc \in Callers, Succ(h) # t
  PROVE  Line(t, Succ(h), f) = Append(Line(t, h, f), f[h].proc)
<1>1. Succ(h) \in Slots /\ Gap(t, Succ(h)) = Gap(t, h) + 1
  BY SuccSlot, RingSize DEF Gap, Slots
<1>2. RingOf(t, Succ(h)) = RingOf(t, h) \cup {h}
  BY RingMoves
<1>3. Gap(t, h) \in Nat /\ (t + Gap(t, h)) % MAX_REQUESTS = h
  BY GapOf, RingSize
<1>4. t + (Gap(t, h) + 1) - 1 = t + Gap(t, h)
  BY <1>3, RingSize DEF Slots
<1>5. Line(t, h, f) = [k \in 1 .. Gap(t, h) |-> f[(t + k - 1) % MAX_REQUESTS].proc]
  BY GapOf DEF Line
<1>6. Line(t, Succ(h), f) = [k \in 1 .. (Gap(t, h) + 1) |-> f[(t + k - 1) % MAX_REQUESTS].proc]
  BY <1>1, GapOf DEF Line
<1>7. Line(t, h, f) \in Seq(Callers) /\ Len(Line(t, h, f)) = Gap(t, h)
  BY <1>2, LineIs
<1>8. f[h].proc \in Callers
  BY <1>2
<1>9. Append(Line(t, h, f), f[h].proc)
        = [k \in 1 .. (Gap(t, h) + 1) |-> IF k = Gap(t, h) + 1 THEN f[h].proc
                                          ELSE Line(t, h, f)[k]]
  BY <1>3, <1>7, <1>8
<1>10. ASSUME NEW k \in 1 .. (Gap(t, h) + 1)
       PROVE  f[(t + k - 1) % MAX_REQUESTS].proc
                = IF k = Gap(t, h) + 1 THEN f[h].proc ELSE Line(t, h, f)[k]
  <2>1. CASE k = Gap(t, h) + 1
    BY <1>3, <1>4, <2>1
  <2>2. CASE k # Gap(t, h) + 1
    <3>1. k \in 1 .. Gap(t, h)
      BY <1>3, <2>2
    <3> QED
      BY <1>5, <2>2, <3>1
  <2> QED
    BY <2>1, <2>2
<1> QED
  BY <1>6, <1>9, <1>10

\* The request at the tail is the first in line.
LEMMA LineShrinks ==
  ASSUME NEW t \in Slots, NEW h \in Slots, NEW f, NEW g,
         \A i \in RingOf(t, h) : f[i].proc \in Callers, t # h,
         \A i \in RingOf(t, h) \ {t} : g[i].proc = f[i].proc
  PROVE  /\ Line(t, h, f) # <<>> /\ Head(Line(t, h, f)) = f[t].proc
         /\ Line(Succ(t), h, g) = Tail(Line(t, h, f))
<1>1. Succ(t) \in Slots /\ Gap(t, h) = Gap(Succ(t), h) + 1
  BY SuccSlot, RingSize DEF Gap, Slots
<1>2. RingOf(Succ(t), h) = RingOf(t, h) \ {t} /\ t \in RingOf(t, h)
  BY RingMoves
<1>3. Gap(Succ(t), h) \in Nat /\ Gap(t, h) \in Nat
  BY <1>1, GapOf, RingSize
<1>4. Line(t, h, f) = [k \in 1 .. Gap(t, h) |-> f[(t + k - 1) % MAX_REQUESTS].proc]
  BY GapOf DEF Line
<1>5. Line(Succ(t), h, g)
        = [k \in 1 .. Gap(Succ(t), h) |-> g[(Succ(t) + k - 1) % MAX_REQUESTS].proc]
  BY <1>1, GapOf DEF Line
<1>6. Line(t, h, f) \in Seq(Callers) /\ Len(Line(t, h, f)) = Gap(t, h)
  BY LineIs
<1>7. Line(t, h, f) # <<>> /\ Head(Line(t, h, f)) = f[t].proc
  <2>1. (t + 1 - 1) % MAX_REQUESTS = t /\ 1 \in 1 .. Gap(t, h)
    BY <1>1, <1>3, RingSize DEF Slots
  <2> QED
    BY <1>4, <1>6, <2>1
<1>8. Tail(Line(t, h, f)) = [k \in 1 .. Gap(Succ(t), h) |-> Line(t, h, f)[k + 1]]
  <2> DEFINE line == Line(t, h, f)
  <2>1. line \in Seq(Callers) /\ line # <<>> /\ Len(line) - 1 = Gap(Succ(t), h)
    BY <1>1, <1>3, <1>6, <1>7
  <2> HIDE DEF line
  <2>2. /\ Tail(line) \in Seq(Callers) /\ Len(Tail(line)) = Gap(Succ(t), h)
        /\ \A k \in 1 .. Gap(Succ(t), h) : Tail(line)[k] = line[k + 1]
    BY <2>1, HeadTailProperties
  <2>3. Tail(line) \in [1 .. Gap(Succ(t), h) -> Callers]
    BY <2>2, LenProperties
  <2> QED
    BY <2>2, <2>3 DEF line
<1>9. ASSUME NEW k \in 1 .. Gap(Succ(t), h)
      PROVE  g[(Succ(t) + k - 1) % MAX_REQUESTS].proc = Line(t, h, f)[k + 1]
  <2>1. k + 1 \in 1 .. Gap(t, h) /\ t + (k + 1) - 1 = t + k /\ Succ(t) + k - 1 = Succ(t) + (k - 1)
    BY <1>1, <1>3, RingSize DEF Slots
  <2>2. k - 1 \in 0 .. MAX_REQUESTS - 1 /\ k - 1 < Gap(Succ(t), h)
    BY <1>1, GapOf, RingSize
  <2>3. (Succ(t) + (k - 1)) % MAX_REQUESTS \in RingOf(Succ(t), h)
    BY <1>1, <2>2, SlotAt DEF RingOf
  <2>4. (Succ(t) + (k - 1)) % MAX_REQUESTS = (t + k) % MAX_REQUESTS
    <3>1. CASE t = MAX_REQUESTS - 1
      <4>1. Succ(t) = 0 /\ t + k = (k - 1) + MAX_REQUESTS
        BY <3>1, SuccSlot, RingSize
      <4> QED
        BY <2>2, <4>1, RingSize
    <3>2. CASE t # MAX_REQUESTS - 1
      BY <2>2, <3>2, SuccSlot, RingSize DEF Slots
    <3> QED
      BY <3>1, <3>2
  <2> QED
    BY <1>2, <1>4, <2>1, <2>3, <2>4
<1> QED
  BY <1>5, <1>7, <1>8, <1>9

\* The line depends on the callers of the ring's slots only.
LEMMA LineStays ==
  ASSUME NEW t \in Slots, NEW h \in Slots, NEW f, NEW g,
         \A i \in RingOf(t, h) : g[i].proc = f[i].proc
  PROVE  Line(t, h, g) = Line(t, h, f)
<1>1. (h - t) % MAX_REQUESTS = Gap(t, h) /\ Gap(t, h) \in 0 .. MAX_REQUESTS - 1
  BY GapOf
<1>2. ASSUME NEW k \in 1 .. Gap(t, h)
      PROVE  (t + k - 1) % MAX_REQUESTS \in RingOf(t, h)
  <2>1. k - 1 \in 0 .. MAX_REQUESTS - 1 /\ t + (k - 1) = t + k - 1 /\ k - 1 < Gap(t, h)
    BY <1>1, RingSize DEF Slots
  <2> QED
    BY <2>1, SlotAt DEF RingOf
<1> QED
  BY <1>1, <1>2 DEF Line

\* What InQueue and the refinement's set of answered callers are.
LEMMA InQueueIs ==
  ASSUME QueueInv
  PROVE  /\ InQueue = Line(tail, head, slot) /\ InQueue \in Seq(Callers)
         /\ {InQueue[k] : k \in 1 .. Length} = Asking
         /\ {InQueue[k] : k \in DOMAIN InQueue} = Asking
         /\ Answered = {c \in Callers : mine[c] # NoSlot /\ ~Submitting(c)
                                        /\ \A k \in 1 .. Length : InQueue[k] # c}
<1>1. \A i \in RingOf(tail, head) : slot[i].proc \in Callers
  BY RingTypes DEF QueueInv, Recorded
<1>2. InQueue = Line(tail, head, slot)
  BY DEF InQueue, Line, Length
<1>3. Length = Gap(tail, head)
  BY RingTypes, GapOf DEF Length
<1>4. InQueue \in Seq(Callers) /\ {InQueue[k] : k \in 1 .. Length} = Asking
  <2>1. Queued = RingOf(tail, head) /\ tail \in Slots /\ head \in Slots
    BY RingTypes
  <2>2. /\ Line(tail, head, slot) \in Seq(Callers)
        /\ \A k \in 1 .. Gap(tail, head) :
             \E i \in RingOf(tail, head) : Line(tail, head, slot)[k] = slot[i].proc
        /\ \A i \in RingOf(tail, head) :
             \E k \in 1 .. Gap(tail, head) : Line(tail, head, slot)[k] = slot[i].proc
    BY <1>1, <2>1, LineIs
  <2> QED
    BY <1>2, <1>3, <2>1, <2>2 DEF Asking
<1>5. DOMAIN InQueue = 1 .. Length
  BY <1>1, <1>2, <1>3, LineIs, LenProperties, RingTypes
<1>6. \A c \in Callers : (\A k \in 1 .. Length : InQueue[k] # c) <=> c \notin Asking
  BY <1>4
<1> QED
  BY <1>2, <1>4, <1>5, <1>6 DEF Answered

\* How the line of callers changes in a step.
LEMMA LineMoves ==
  ASSUME QueueInv, [Next]_vars
  PROVE  /\ AddQueue => InQueue' = Append(InQueue, cur) /\ Asking' = Asking \cup {cur}
         /\ IdeIntr => \/ Continue /\ InQueue' = InQueue /\ Asking' = Asking
                       \/ /\ Answer /\ InQueue # <<>> /\ InQueue' = Tail(InQueue)
                          /\ Head(InQueue) = slot[tail].proc
                          /\ Asking' = {slot[i].proc : i \in Queued \ {tail}}
         /\ StartDrive => \/ UNCHANGED <<InQueue, Asking, mine, cur>> /\ pc' = "check"
                          \/ /\ InQueue = <<cur>> /\ InQueue' = <<>>
                             /\ Asking = {cur} /\ Asking' = {}
                             /\ mine' = [mine EXCEPT ![cur] = NoSlot] /\ cur' = NoCaller
         /\ UNCHANGED <<head, tail>> /\ (\A i \in Queued : slot'[i].proc = slot[i].proc)
            => UNCHANGED <<InQueue, Asking>>
         /\ Empty => Asking = {}
<1> USE RingTypes
<1>1. QueueInv'
  BY NextKeeps
<1>2. head' \in Slots /\ tail' \in Slots /\ Queued' = RingOf(tail', head')
  BY <1>1, RingOfIs DEF QueueInv, TypeOK, Queued, Length
<1>3. /\ \A i \in RingOf(tail, head) : slot[i].proc \in Callers
      /\ \A i \in RingOf(tail', head') : slot'[i].proc \in Callers
  BY <1>1, <1>2 DEF QueueInv, Recorded
<1>4. InQueue = Line(tail, head, slot) /\ InQueue' = Line(tail', head', slot')
  BY DEF InQueue, Line, Length
<1>5. ASSUME AddQueue
      PROVE  InQueue' = Append(InQueue, cur) /\ Asking' = Asking \cup {cur}
  <2>1. slot[head].proc = cur /\ UNCHANGED <<tail, slot>> /\ head' = Succ(head) /\ head' # tail
    BY <1>5 DEF AddQueue, Room, QueueInv, CallerPlaced, Filling
  <2>2. Queued' = Queued \cup {head}
    BY <1>5, QueuedMoves
  <2> QED
    BY <1>3, <1>4, <2>1, <2>2, LineGrows DEF Asking
<1>6. ASSUME IdeIntr
      PROVE  \/ Continue /\ InQueue' = InQueue /\ Asking' = Asking
             \/ /\ Answer /\ InQueue # <<>> /\ InQueue' = Tail(InQueue)
                /\ Head(InQueue) = slot[tail].proc
                /\ Asking' = {slot[i].proc : i \in Queued \ {tail}}
  <2>1. head' = head /\ drive \in {"done", "error"} /\ tail # head
    BY <1>6 DEF IdeIntr, QueueInv, DriveTimed, Empty
  <2>2. CASE Continue /\ Queued' = Queued
    <3>1. slot' = [slot EXCEPT ![tail] = Counted(slot[tail])] /\ tail' = tail
      BY <2>2 DEF Continue
    <3>2. \A i \in Queued : slot'[i].proc = slot[i].proc
      BY <2>1, <3>1, CountedIs DEF RingOf
    <3>3. Line(tail, head, slot') = Line(tail, head, slot)
      BY <3>2, LineStays
    <3>4. Asking' = Asking
      BY <2>2, <3>2 DEF Asking
    <3> QED
      BY <1>4, <2>1, <2>2, <3>1, <3>3, <3>4
  <2>3. CASE Answer /\ Queued' = Queued \ {tail} /\ tail \in Queued
    <3>1. tail' = Succ(tail) /\ \A i \in Queued \ {tail} : slot'[i] = slot[i]
      BY <2>3 DEF Answer, RingOf
    <3>2. /\ Line(tail, head, slot) # <<>> /\ Head(Line(tail, head, slot)) = slot[tail].proc
          /\ Line(Succ(tail), head, slot') = Tail(Line(tail, head, slot))
      BY <1>3, <2>1, <3>1, LineShrinks
    <3>3. Asking' = {slot[i].proc : i \in Queued \ {tail}}
      BY <2>3, <3>1 DEF Asking
    <3>4. InQueue' = Line(Succ(tail), head, slot')
      BY <1>4, <2>1, <3>1
    <3> QED
      BY <1>4, <2>3, <3>2, <3>3, <3>4
  <2> QED
    BY <1>6, <2>2, <2>3, QueuedMoves
<1>7. ASSUME StartDrive
      PROVE  \/ UNCHANGED <<InQueue, Asking, mine, cur>> /\ pc' = "check"
             \/ /\ InQueue = <<cur>> /\ InQueue' = <<>>
                /\ Asking = {cur} /\ Asking' = {}
                /\ mine' = [mine EXCEPT ![cur] = NoSlot] /\ cur' = NoCaller
  <2>1. Queued = {tail} /\ head = Succ(tail) /\ UNCHANGED slot
    BY <1>7, QueuedMoves DEF StartDrive, QueueInv, StartsAlone
  <2>2. CASE UNCHANGED <<head, tail, mine, cur>> /\ pc' = "check"
    BY <1>4, <2>1, <2>2, QueuedMoves DEF Asking
  <2>3. CASE /\ Queued' = {} /\ head' = 0 /\ tail' = 0
             /\ mine' = [mine EXCEPT ![cur] = NoSlot] /\ cur' = NoCaller
    <3>1. slot[tail].proc = cur
      BY <1>7 DEF StartDrive, QueueInv, StartsAlone
    <3>2. Gap(tail, head) = 1 /\ tail # head /\ 0 \in Slots /\ Gap(0, 0) = 0
      BY <2>1, SuccSlot, RingSize DEF Gap, Slots
    <3>3. Line(0, 0, slot') = <<>>
      <4>1. RingOf(0, 0) = {}
        BY <3>2, RingMoves
      <4>2. Line(0, 0, slot') \in Seq(Callers) /\ Len(Line(0, 0, slot')) = 0
        BY <3>2, <4>1, LineIs
      <4> QED
        BY <4>2, EmptySeq
    <3>4. Line(tail, head, slot) = <<cur>>
      <4> DEFINE line == Line(tail, head, slot)
      <4>1. line \in Seq(Callers) /\ Len(line) = 1
        <5>1. line \in Seq(Callers) /\ Len(line) = Gap(tail, head)
          BY <1>3, LineIs
        <5> QED
          BY <3>2, <5>1
      <4>2. Head(line) = cur /\ cur \in Callers
        <5>1. \A i \in RingOf(tail, head) \ {tail} : slot[i].proc = slot[i].proc
          OBVIOUS
        <5>2. Head(line) = slot[tail].proc
          BY <1>3, <3>2, <5>1, LineShrinks
        <5> QED
          BY <1>3, <2>1, <3>1, <5>2
      <4> HIDE DEF line
      <4>3. line[1] = cur /\ <<cur>> \in Seq(Callers)
        BY <4>1, <4>2
      <4>4. line = <<cur>>
        BY <4>1, <4>3, SeqEqual
      <4> QED
        BY <4>4 DEF line
    <3>5. Asking = {cur} /\ Asking' = {}
      BY <2>1, <2>3, <3>1 DEF Asking
    <3> QED
      BY <1>4, <2>3, <3>3, <3>4, <3>5
  <2> QED
    BY <1>7, <2>2, <2>3, QueuedMoves
<1>8. ASSUME UNCHANGED <<head, tail>>, \A i \in Queued : slot'[i].proc = slot[i].proc
      PROVE  UNCHANGED <<InQueue, Asking>>
  <2>1. InQueue' = Line(tail, head, slot')
    BY <1>4, <1>8
  <2>2. Line(tail, head, slot') = Line(tail, head, slot)
    BY <1>8, LineStays
  <2> QED
    BY <1>4, <1>8, <2>1, <2>2, QueuedMoves DEF Asking
<1>9. Empty => Asking = {}
  BY QueuedMoves DEF Asking
<1> QED
  BY <1>5, <1>6, <1>7, <1>8, <1>9


\* InQueueIs after a step.
LEMMA InQueueNext ==
  QueueInv' => (Answered = {c \in Callers : mine[c] # NoSlot /\ ~Submitting(c)
                                            /\ \A k \in 1 .. Length : InQueue[k] # c})'
<1>1. QueueInv => (Answered = {c \in Callers : mine[c] # NoSlot /\ ~Submitting(c)
                                               /\ \A k \in 1 .. Length : InQueue[k] # c})
  BY InQueueIs
<1> QED
  BY <1>1, PTL

\* The steps of DiskService, in terms of the line and of the callers.
LEMMA ServiceSteps ==
  ASSUME QueueInv, QueueInv'
  PROVE  /\ UNCHANGED <<InQueue, Answered>> => UNCHANGED Service!serviceVars
         /\ \A c \in Callers :
              /\ /\ c \notin Asking \cup Answered
                 /\ InQueue' = Append(InQueue, c) /\ Answered' = Answered
                 => Service!Submit(c)
              /\ /\ InQueue = <<c>>
                 /\ InQueue' = <<>> /\ Answered' = Answered
                 => Service!Refuse(c)
              /\ /\ c \in Answered
                 /\ InQueue' = InQueue /\ Answered' = Answered \ {c}
                 => Service!Return(c)
         /\ /\ InQueue # <<>> /\ InQueue' = Tail(InQueue)
            /\ Answered' = Answered \cup {Head(InQueue)}
            => Service!Serve
         /\ InQueue' = <<>> /\ Answered' = {} => Service!Restart
<1> DEFINE A == {c \in Callers : mine[c] # NoSlot /\ ~Submitting(c)
                                 /\ \A k \in 1 .. Length : InQueue[k] # c}
<1>1. Answered = A /\ {InQueue[k] : k \in DOMAIN InQueue} = Asking
  BY InQueueIs
<1>2. Answered' = A'
  BY InQueueNext
<1>3. UNCHANGED <<InQueue, Answered>> => UNCHANGED Service!serviceVars
  BY <1>1, <1>2 DEF Service!serviceVars
<1>4. ASSUME NEW c \in Callers, c \notin Asking \cup Answered,
             InQueue' = Append(InQueue, c), Answered' = Answered
      PROVE  Service!Submit(c)
  BY <1>1, <1>2, <1>4 DEF Service!Submit, Service!Range
<1>5. ASSUME NEW c \in Callers, InQueue = <<c>>, InQueue' = <<>>, Answered' = Answered
      PROVE  Service!Refuse(c)
  BY <1>1, <1>2, <1>5 DEF Service!Refuse
<1>6. ASSUME NEW c \in Callers, c \in Answered, InQueue' = InQueue, Answered' = Answered \ {c}
      PROVE  Service!Return(c)
  BY <1>1, <1>2, <1>6 DEF Service!Return
<1>7. ASSUME InQueue # <<>>, InQueue' = Tail(InQueue), Answered' = Answered \cup {Head(InQueue)}
      PROVE  Service!Serve
  BY <1>1, <1>2, <1>7 DEF Service!Serve
<1>8. ASSUME InQueue' = <<>>, Answered' = {}
      PROVE  Service!Restart
  BY <1>1, <1>2, <1>8 DEF Service!Restart
<1> QED
  BY <1>3, <1>4, <1>5, <1>6, <1>7, <1>8

\* Every step of the queue is a step of the service, or none.
LEMMA StepServes ==
  ASSUME NobodyGivesUp, QueueInv, Waiting, [Next]_vars
  PROVE  [Service!ServiceNext]_(Service!serviceVars)
<1> USE DEF queue, device, mainline
<1> DEFINE Stutter == UNCHANGED <<InQueue, Answered>>
<1>1. QueueInv'
  BY NextKeeps
<1>2. /\ HOOK \in Callers /\ NoCaller \notin Callers /\ mine \in [Callers -> Slots \cup {NoSlot}]
      /\ cur \in Callers \cup {NoCaller} /\ NoSlot \notin Slots /\ Queued \subseteq Slots
  BY RingTypes, RingSize DEF QueueInv, TypeOK, Slots, NoSlot, RingOf
<1>3. \A c \in Asking : /\ c \in Callers /\ mine[c] # NoSlot
                        /\ c \in suspended \/ c = cur
                        /\ c = cur => pc \notin Filling
  <2>1. head \notin Queued
    BY RingTypes, RingMoves
  <2> QED
    BY <1>2, <2>1 DEF Asking, Waiting, QueueInv, Recorded, CallerPlaced
<1>4. /\ (pc = "out") <=> (cur = NoCaller)
      /\ pc # "out" => mine[cur] # NoSlot
  BY <1>2 DEF QueueInv, CallerPlaced
<1>5. UNCHANGED <<head, tail, slot>> => UNCHANGED <<InQueue, Asking>>
  BY LineMoves
<1>6. CASE UNCHANGED vars
  <2>1. Stutter
    BY <1>5, <1>6 DEF vars, Answered, Submitting
  <2> QED
    BY <1>1, <2>1, ServiceSteps
<1>7. ASSUME NEW c \in Callers, NEW type \in {"read", "write"}, NEW n \in 1 .. MaxTransfers,
             QueTrans(c, type, n)
      PROVE  Stutter
  <2>1. head \notin Queued
    BY RingTypes, RingMoves
  <2>2. UNCHANGED <<InQueue, Asking>>
    BY <1>2, <1>7, <2>1, LineMoves, RingTypes DEF QueTrans
  <2>3. /\ mine' = [mine EXCEPT ![c] = head] /\ mine[c] = NoSlot /\ cur = NoCaller
        /\ cur' = c /\ pc' \in Filling
    BY <1>7 DEF QueTrans, FirstStep, Filling
  <2>4. Answered' = Answered
    BY <1>2, <2>2, <2>3 DEF Answered, Submitting, Filling
  <2> QED
    BY <2>2, <2>4
<1>8. ASSUME Drained \/ LookAtQueue
      PROVE  Stutter
  BY <1>5, <1>8 DEF Drained, LookAtQueue, Answered, Submitting
<1>9. ASSUME SuspendSelf \/ DriveAnswers
      PROVE  Stutter
  <2>1. UNCHANGED <<InQueue, Asking, mine>>
    BY <1>5, <1>9 DEF SuspendSelf, DriveAnswers
  <2>2. \A c \in Callers : Submitting(c)' <=> Submitting(c)
    BY <1>2, <1>4, <1>9 DEF SuspendSelf, DriveAnswers, Submitting
  <2> QED
    BY <2>1, <2>2 DEF Answered
<1>10. CASE AddQueue
  <2>1. InQueue' = Append(InQueue, cur) /\ Asking' = Asking \cup {cur}
    BY <1>10, LineMoves
  <2>2. /\ pc \in {"add_first", "add_behind"} /\ pc' \in {"start", "check"}
        /\ UNCHANGED <<mine, cur>>
    BY <1>10 DEF AddQueue
  <2>3. cur \in Callers /\ cur \notin Asking \cup Answered
    BY <1>2, <1>3, <1>4, <2>2 DEF Answered, Submitting, Filling
  <2>4. Answered' = Answered
    BY <1>2, <2>1, <2>2 DEF Answered, Submitting
  <2>5. Service!Submit(cur)
    BY <1>1, <2>1, <2>3, <2>4, ServiceSteps
  <2> QED
    BY <2>3, <2>5 DEF Service!ServiceNext
<1>11. CASE StartDrive
  <2>1. pc = "start" /\ cur \in Callers
    BY <1>2, <1>4, <1>11 DEF StartDrive
  <2>2. CASE UNCHANGED <<InQueue, Asking, mine, cur>> /\ pc' = "check"
    <3>1. Stutter
      BY <2>1, <2>2 DEF Answered, Submitting
    <3> QED
      BY <1>1, <3>1, ServiceSteps
  <2>3. CASE /\ InQueue = <<cur>> /\ InQueue' = <<>>
             /\ Asking = {cur} /\ Asking' = {}
             /\ mine' = [mine EXCEPT ![cur] = NoSlot] /\ cur' = NoCaller
    <3>1. Answered' = Answered
      BY <1>2, <2>1, <2>3 DEF Answered, Submitting
    <3>2. Service!Refuse(cur)
      BY <1>1, <2>1, <2>3, <3>1, ServiceSteps
    <3> QED
      BY <2>1, <3>2 DEF Service!ServiceNext
  <2> QED
    BY <1>11, <2>2, <2>3, LineMoves
<1>12. ASSUME NEW c \in Callers, mine[c] # NoSlot, c \notin Asking, UNCHANGED queue,
              mine' = [mine EXCEPT ![c] = NoSlot],
              \A x \in Callers : ~Submitting(x) /\ ~Submitting(x)'
       PROVE  Service!ServiceNext
  <2>1. c \in Answered /\ InQueue' = InQueue /\ Answered' = Answered \ {c}
    BY <1>2, <1>5, <1>12 DEF Answered
  <2>2. Service!Return(c)
    BY <1>1, <2>1, ServiceSteps
  <2> QED
    BY <2>2 DEF Service!ServiceNext
<1>13. CASE CheckQueue
  <2>1. CASE pc' = "out"
    <3>1. Empty /\ cur' = NoCaller /\ mine' = [mine EXCEPT ![cur] = NoSlot] /\ UNCHANGED queue
      BY <1>13, <2>1 DEF CheckQueue, NothingQueued
    <3>2. cur \in Callers /\ mine[cur] # NoSlot /\ pc = "check"
      BY <1>2, <1>4, <1>13 DEF CheckQueue
    <3>3. cur \notin Asking
      BY <3>1, LineMoves
    <3>4. \A x \in Callers : ~Submitting(x) /\ ~Submitting(x)'
      BY <2>1, <3>2 DEF Submitting
    <3> QED
      BY <1>12, <3>1, <3>2, <3>3, <3>4
  <2>2. CASE pc' # "out"
    <3>1. Stutter
      BY <1>5, <1>13, <2>2 DEF CheckQueue, Answered, Submitting
    <3> QED
      BY <1>1, <3>1, ServiceSteps
  <2> QED
    BY <2>1, <2>2
<1>14. ASSUME NEW c \in Procs, ReturnResumed(c)
       PROVE  Service!ServiceNext
  <2>1. c \in Callers /\ c \notin Asking /\ mine[c] # NoSlot
    BY <1>2, <1>3, <1>14 DEF ReturnResumed, Callers
  <2>2. \A x \in Callers : ~Submitting(x) /\ ~Submitting(x)'
    BY <1>2, <1>14 DEF ReturnResumed, Submitting
  <2>3. UNCHANGED queue /\ mine' = [mine EXCEPT ![c] = NoSlot]
    BY <1>14 DEF ReturnResumed
  <2> QED
    BY <1>12, <2>1, <2>2, <2>3
<1>15. CASE SpinEnds
  <2>1. cur = HOOK /\ pc = "spin" /\ mine[HOOK] \in Slots
    BY <1>15 DEF SpinEnds, QueueInv, CallerPlaced
  <2>2. HOOK \notin Asking
    BY <1>2, <1>15, RingTypes DEF SpinEnds, Asking, Waiting, QueueInv, Recorded
  <2>3. \A x \in Callers : ~Submitting(x) /\ ~Submitting(x)'
    BY <1>15 DEF SpinEnds, Submitting
  <2>4. UNCHANGED queue /\ mine' = [mine EXCEPT ![HOOK] = NoSlot]
    BY <1>15 DEF SpinEnds
  <2> QED
    BY <1>2, <1>12, <2>1, <2>2, <2>3, <2>4
<1>16. CASE IdeIntr
  <2>1. UNCHANGED <<cur, pc, mine>>
    BY <1>16 DEF IdeIntr
  <2>2. CASE InQueue' = InQueue /\ Asking' = Asking
    <3>1. Stutter
      BY <2>1, <2>2 DEF Answered, Submitting
    <3> QED
      BY <1>1, <3>1, ServiceSteps
  <2>3. CASE /\ Answer /\ InQueue # <<>> /\ InQueue' = Tail(InQueue)
             /\ Head(InQueue) = slot[tail].proc
             /\ Asking' = {slot[i].proc : i \in Queued \ {tail}}
    <3>1. tail \in Queued
      BY RingTypes, RingMoves, <1>16 DEF IdeIntr, QueueInv, DriveTimed, Empty
    <3>2. \A i \in Queued : slot[i].proc = slot[tail].proc => i = tail
      BY <3>1 DEF Waiting
    <3>3. Asking' = Asking \ {slot[tail].proc} /\ slot[tail].proc \in Asking
      BY <2>3, <3>1, <3>2 DEF Asking
    <3>4. Answered' = Answered \cup {Head(InQueue)}
      BY <1>3, <2>1, <2>3, <3>3 DEF Answered, Submitting, Filling
    <3> QED
      BY <1>1, <2>3, <3>4, ServiceSteps DEF Service!ServiceNext
  <2> QED
    BY <1>16, <2>2, <2>3, LineMoves
<1>17. CASE IdeDiskTimeout
  <2>1. CASE UNCHANGED <<head, tail, suspended, mainline>>
             /\ slot' = [slot EXCEPT ![tail] = TimeoutCounted(slot[tail])]
    <3>1. \A i \in Queued : slot'[i].proc = slot[i].proc
      BY <1>2, <2>1, RingTypes DEF TimeoutCounted, Records
    <3>2. UNCHANGED <<InQueue, Asking>>
      BY <2>1, <3>1, LineMoves
    <3>3. Stutter
      BY <2>1, <3>2 DEF Answered, Submitting
    <3> QED
      BY <1>1, <3>3, ServiceSteps
  <2>2. CASE head' = 0 /\ tail' = 0 /\ mine' = [c \in Callers |-> NoSlot]
    <3>1. Answered' = {}
      BY <2>2 DEF Answered
    <3>2. InQueue' = <<>>
      BY <2>2, RingSize DEF InQueue, Length
    <3> QED
      BY <1>1, <3>1, <3>2, ServiceSteps DEF Service!ServiceNext
  <2> QED
    BY <1>17, <2>1, <2>2 DEF IdeDiskTimeout
<1>18. ~SpinTimeout /\ ~ResumeAll
  BY DEF NobodyGivesUp, SpinTimeout, ResumeAll
<1> QED
  BY <1>1, <1>6, <1>7, <1>8, <1>9, <1>10, <1>11, <1>13, <1>14, <1>15, <1>16, <1>17, <1>18,
     ServiceSteps DEF Next, Trans, Interrupts

\* While nobody gives up, que_trans, add_queue, ide_intr and ide_disk_timeout together
\* implement DiskService: requests are answered one at a time, in the order in which they
\* were queued, and a call returns only when its request was answered or refused.
THEOREM ServiceImplemented == NobodyGivesUp => (Spec => ImplementsService)
<1> SUFFICES ASSUME NobodyGivesUp PROVE Spec => ImplementsService
  OBVIOUS
<1>1. Init => Service!ServiceInit
  <2> SUFFICES ASSUME Init PROVE Service!ServiceInit
    OBVIOUS
  <2>1. Length = 0
    BY RingSize DEF Init, Length
  <2> QED
    BY <2>1 DEF Init, InQueue, Service!ServiceInit
<1>2. QueueInv /\ Waiting /\ [Next]_vars => [Service!ServiceNext]_(Service!serviceVars)
  BY StepServes
<1> QED
  BY <1>1, <1>2, QueueInvariant, WaitingInvariant, PTL DEF Spec, ImplementsService,
     Service!ServiceSpec
=============================================================================
