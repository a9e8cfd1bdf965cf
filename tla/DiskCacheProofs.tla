-------------------------- MODULE DiskCacheProofs --------------------------
(***************************************************************************)
(* Theorems about the disk cache, for every number of processes, of lines  *)
(* and of disk blocks: no block is cached twice, and as long as nothing    *)
(* runs beside a write the cache agrees with the disk but for transfers    *)
(* that failed.                                                            *)
(***************************************************************************)
EXTENDS DiskCache, SequenceTheorems, FiniteSetTheorems, WellFoundedInduction,
        TLAPS

-----------------------------------------------------------------------------
(***************************************************************************)
(* The calls in progress and the request queue.                            *)
(***************************************************************************)

Ops == [kind : {"none", "read", "write"}, at : {"out", "loop", "drain", "disk", "suspended", "lost"},
        blk : Blocks, num : 0 .. MaxNum, line : Lines \cup {NoLine}, val : Values, ok : BOOLEAN]

\* A call has blocks left, all on the disk; it is in que_trans while its request is
\* queued or its answer not yet taken; a read that waits has a line to load.
Sound(c) ==
  /\ c.kind = "none" => c = NoCall
  /\ c.kind # "none" => c.at # "out" /\ c.num > 0 /\ c.blk + c.num <= NumBlocks
  /\ c.kind = "read" => c.at # "drain" /\ (c.at \in AtDisk => c.line \in Lines)

Calls ==
  \A p \in Callers : /\ Sound(op[p])
                     /\ op[p].at \in AtDisk <=> p \in Range(pending) \cup answered

\* A process has at most one request.
OneEach ==
  /\ pending \in Seq(Callers)
  /\ \A j, k \in 1 .. Len(pending) : pending[j] = pending[k] => j = k
  /\ \A k \in 1 .. Len(pending) : pending[k] \notin answered

CallsInv == TypeOK /\ Calls /\ OneEach

\* What the assumptions and the type invariant say of the constants.
LEMMA Constants ==
  ASSUME CallsInv
  PROVE  /\ NumBlocks \in Nat /\ NumBlocks > 0 /\ MaxNum \in Nat /\ MaxNum > 0
         /\ NUM_DISK_CACHE_BLOCKS \in Nat /\ NUM_DISK_CACHE_BLOCKS > 0
         /\ 0 \in Blocks /\ MaxUsage \in Nat
         /\ Cardinality(Callers) \in Nat /\ 0 \notin Callers
         /\ NoLine \notin Lines /\ NoBlock \notin Blocks
         /\ NoCall \in Ops /\ NoCall.kind = "none" /\ NoCall.at = "out" /\ Junk \in Copies
<1>1. /\ NumBlocks \in Nat /\ NumBlocks > 0 /\ MaxNum \in Nat /\ MaxNum > 0
      /\ NUM_DISK_CACHE_BLOCKS \in Nat /\ NUM_DISK_CACHE_BLOCKS > 0
      /\ 0 \in Blocks /\ MaxUsage \in Nat
  BY BlocksAssumption, LinesAssumption, UsageAssumption DEF Blocks
<1>2. Cardinality(Callers) \in Nat /\ 0 \notin Callers
  BY CallersAssumption, FS_CardinalityType
<1>3. Values # {}
  BY <1>1 DEF CallsInv, TypeOK
<1>4. NoLine \notin Lines /\ NoBlock \notin Blocks
  BY <1>1 DEF Lines, Blocks, NoLine, NoBlock
<1>5. (CHOOSE v \in Values : TRUE) \in Values
  BY <1>3
<1>6. NoCall \in Ops /\ NoCall.kind = "none" /\ NoCall.at = "out"
  BY <1>1, <1>5 DEF NoCall, Ops
<1>7. Junk \in Copies
  BY <1>5 DEF Junk, Copy, Copies
<1> QED
  BY <1>1, <1>2, <1>4, <1>6, <1>7

\* What the invariant says of the variables.
LEMMA Types ==
  ASSUME CallsInv
  PROVE  /\ op \in [Callers -> Ops] /\ \A p \in Callers : op[p] \in Ops
         /\ pending \in Seq(Callers) /\ Len(pending) \in Nat
         /\ \A k \in 1 .. Len(pending) : pending[k] \in Callers
         /\ Range(pending) = {pending[k] : k \in 1 .. Len(pending)}
         /\ answered \subseteq Callers
         /\ pending # <<>> => Head(pending) = pending[1] /\ Len(pending) > 0
<1>1. op \in [Callers -> Ops] /\ answered \subseteq Callers
  BY DEF CallsInv, TypeOK, Ops
<1>2. pending \in Seq(Callers)
  BY DEF CallsInv, OneEach
<1>3. Len(pending) \in Nat /\ DOMAIN pending = 1 .. Len(pending)
      /\ \A k \in 1 .. Len(pending) : pending[k] \in Callers
  BY <1>2
<1>4. Range(pending) = {pending[k] : k \in 1 .. Len(pending)}
  BY <1>3 DEF Range
<1>5. pending # <<>> => Head(pending) = pending[1] /\ Len(pending) > 0
  BY <1>2, <1>3, EmptySeq
<1> QED
  BY <1>1, <1>2, <1>3, <1>4, <1>5

\* The fields of a call.
LEMMA OpParts ==
  ASSUME NEW c \in Ops
  PROVE  /\ c.kind \in {"none", "read", "write"} /\ c.blk \in Blocks /\ c.num \in 0 .. MaxNum
         /\ c.at \in {"out", "loop", "drain", "disk", "suspended", "lost"}
         /\ c.line \in Lines \cup {NoLine} /\ c.val \in Values /\ c.ok \in BOOLEAN
BY DEF Ops

\* The queue after a request has joined it, and after one has left it.
LEMMA Joined ==
  ASSUME CallsInv, NEW p \in Callers, Submit(p)
  PROVE  /\ pending' \in Seq(Callers) /\ Len(pending') = Len(pending) + 1
         /\ pending'[Len(pending) + 1] = p
         /\ \A k \in 1 .. Len(pending) : pending'[k] = pending[k]
         /\ Range(pending') = Range(pending) \cup {p}
         /\ p \notin Range(pending) \cup answered /\ answered' = answered
         /\ OneEach'
<1> USE Types
<1>1. /\ p \notin Range(pending) \cup answered /\ answered' = answered
      /\ pending' = Append(pending, p)
  BY DEF Submit
<1>2. /\ pending' \in Seq(Callers) /\ Len(pending') = Len(pending) + 1
      /\ pending'[Len(pending) + 1] = p
      /\ \A k \in 1 .. Len(pending) : pending'[k] = pending[k]
  BY <1>1
<1>3. Range(pending') = {pending'[k] : k \in 1 .. Len(pending) + 1}
  BY <1>2 DEF Range
<1>4. Range(pending') = Range(pending) \cup {p}
  BY <1>2, <1>3
<1>5. OneEach'
  BY <1>1, <1>2 DEF CallsInv, OneEach
<1> QED
  BY <1>1, <1>2, <1>4, <1>5

\* The first request is answered.
LEMMA Left ==
  ASSUME CallsInv, Serve
  PROVE  /\ pending' \in Seq(Callers) /\ Len(pending') = Len(pending) - 1 /\ Len(pending) > 0
         /\ \A k \in 1 .. Len(pending) - 1 : pending'[k] = pending[k + 1]
         /\ Range(pending') = Range(pending) \ {pending[1]}
         /\ pending[1] \in Range(pending) /\ Head(pending) = pending[1] /\ pending[1] \in Callers
         /\ answered' = answered \cup {pending[1]} /\ pending[1] \notin answered
         /\ OneEach'
<1> USE Types
<1>1. /\ pending # <<>> /\ Len(pending) > 0
      /\ pending' = Tail(pending) /\ answered' = answered \cup {pending[1]}
  BY DEF Serve
<1>2. /\ pending' \in Seq(Callers) /\ Len(pending') = Len(pending) - 1
      /\ \A k \in 1 .. Len(pending) - 1 : pending'[k] = pending[k + 1]
  BY <1>1, HeadTailProperties
<1>3. Range(pending') = {pending'[k] : k \in 1 .. Len(pending) - 1}
  BY <1>2 DEF Range
<1>4. 1 \in 1 .. Len(pending) /\ \A k \in 2 .. Len(pending) : pending[k] # pending[1]
  BY <1>1 DEF CallsInv, OneEach
<1>5. Range(pending') = {pending[k] : k \in 2 .. Len(pending)}
  <2>1. ASSUME NEW k \in 2 .. Len(pending)
        PROVE  pending[k] \in Range(pending')
    <3>1. k - 1 \in 1 .. Len(pending) - 1 /\ (k - 1) + 1 = k
      BY <1>1
    <3>2. pending'[k - 1] = pending[k]
      BY <1>2, <3>1
    <3> QED
      BY <1>3, <3>1, <3>2
  <2>2. ASSUME NEW k \in 1 .. Len(pending) - 1
        PROVE  pending'[k] \in {pending[j] : j \in 2 .. Len(pending)}
    <3>1. k + 1 \in 2 .. Len(pending)
      BY <1>1
    <3> QED
      BY <1>2, <3>1
  <2> QED
    BY <1>3, <2>1, <2>2
<1>6. Range(pending') = Range(pending) \ {pending[1]} /\ pending[1] \in Range(pending)
  BY <1>4, <1>5
<1>7. OneEach'
  <2>1. \A k \in 1 .. Len(pending) - 1 : k + 1 \in 2 .. Len(pending)
    BY <1>1
  <2> QED
    BY <1>1, <1>2, <1>4, <2>1 DEF CallsInv, OneEach
<1> QED
  BY <1>1, <1>2, <1>4, <1>6, <1>7 DEF CallsInv, OneEach

\* An answer taken, and a request refused.
LEMMA Taken ==
  ASSUME CallsInv, NEW p \in Callers, Return(p)
  PROVE  /\ pending' = pending /\ answered' = answered \ {p} /\ p \in answered
         /\ p \notin Range(pending) /\ OneEach'
BY Types DEF Return, CallsInv, OneEach

\* The only request is taken back.
LEMMA TakenBack ==
  ASSUME CallsInv, NEW p \in Callers, Refuse(p)
  PROVE  /\ Range(pending) = {p} /\ p \notin answered /\ Range(pending') = {}
         /\ pending' = <<>> /\ Len(pending') = 0 /\ answered' = answered /\ OneEach'
<1>1. pending = <<p>> /\ pending' = <<>> /\ answered' = answered
  BY DEF Refuse
<1>2. Len(pending) = 1 /\ pending[1] = p /\ Len(pending') = 0 /\ DOMAIN pending' = {}
  BY <1>1
<1>3. pending' \in Seq(Callers)
  BY <1>1
<1> QED
  BY <1>1, <1>2, <1>3, Types DEF CallsInv, OneEach, Range

-----------------------------------------------------------------------------
(***************************************************************************)
(* Every step keeps the types and the calls.                               *)
(***************************************************************************)

\* A step of one process, which changes its own call only.
LEMMA OneCall ==
  ASSUME CallsInv, NEW p \in Callers, NEW c \in Ops, op' = [op EXCEPT ![p] = c], Sound(c),
         c.at \in AtDisk <=> p \in Range(pending') \cup answered',
         \A q \in Callers \ {p} : q \in Range(pending') \cup answered'
                                    <=> q \in Range(pending) \cup answered
  PROVE  /\ op' \in [Callers -> Ops] /\ op'[p] = c /\ \A q \in Callers \ {p} : op'[q] = op[q]
         /\ Calls'
<1>1. op' \in [Callers -> Ops] /\ op'[p] = c /\ \A q \in Callers \ {p} : op'[q] = op[q]
  BY Types
<1>2. ASSUME NEW q \in Callers
      PROVE  Sound(op'[q]) /\ (op'[q].at \in AtDisk <=> q \in Range(pending') \cup answered')
  BY <1>1 DEF CallsInv, Calls
<1>3. Calls'
  BY <1>2 DEF Calls, Sound, AtDisk
<1> QED
  BY <1>1, <1>3

\* A call that goes on to its next block, or returns.
LEMMA AdvancedIs ==
  ASSUME CallsInv, NEW p \in Callers, op[p].kind # "none"
  PROVE  LET c == Advanced(op[p])
         IN  /\ c \in Ops /\ Sound(c) /\ c.at \notin AtDisk
             /\ c = NoCall \/ (c.kind = op[p].kind /\ c.at = "loop" /\ c.line = NoLine)
<1> DEFINE s == op[p]
<1>1. s \in Ops /\ Sound(s)
  BY Types DEF CallsInv, Calls
<1>2. s.num \in Nat /\ s.num > 0 /\ s.num <= MaxNum /\ s.blk \in Nat /\ s.blk + s.num <= NumBlocks
  BY <1>1, Constants, OpParts DEF Sound, Blocks
<1>3. CASE SectorsLeft(s) = 0
  BY <1>3, Constants DEF Advanced, AtDisk, Sound
<1>4. CASE SectorsLeft(s) # 0
  <2>1. Advanced(s) = [s EXCEPT !.num = s.num - 1, !.blk = s.blk + 1, !.at = "loop",
                                !.line = NoLine, !.ok = TRUE]
    BY <1>4 DEF Advanced, SectorsLeft
  <2>2. s.num - 1 \in 1 .. MaxNum /\ s.blk + 1 \in Blocks
        /\ (s.blk + 1) + (s.num - 1) <= NumBlocks
    BY <1>2, <1>4, Constants DEF SectorsLeft, Blocks
  <2> DEFINE c == Advanced(s)
  <2>3. c = [kind |-> s.kind, at |-> "loop", blk |-> s.blk + 1, num |-> s.num - 1,
             line |-> NoLine, val |-> s.val, ok |-> TRUE]
    BY <1>1, <2>1 DEF Ops
  <2>4. s.num - 1 \in 0 .. MaxNum /\ s.num - 1 > 0
    BY <2>2, Constants
  <2>5. c \in Ops
    BY <1>1, <2>2, <2>3, <2>4, OpParts DEF Ops
  <2>6. /\ c.kind = s.kind /\ c.at = "loop" /\ c.line = NoLine
        /\ c.num = s.num - 1 /\ c.blk = s.blk + 1
    BY <2>3
  <2> HIDE DEF c
  <2> QED
    BY <1>1, <2>2, <2>4, <2>5, <2>6 DEF Sound, AtDisk, c
<1> QED
  BY <1>3, <1>4

\* A call begins.
LEMMA BeginKeeps ==
  ASSUME CallsInv, NEW p \in Callers, NEW kind \in {"read", "write"}, NEW b \in Blocks,
         NEW n \in 1 .. MaxNum, NEW v \in Values, Begin(p, kind, b, n, v)
  PROVE  CallsInv'
<1> USE DEF Begin, service, cache
<1> DEFINE c == [kind |-> kind, at |-> "loop", blk |-> b, num |-> n,
                 line |-> NoLine, val |-> v, ok |-> TRUE]
<1>1. c \in Ops /\ Sound(c) /\ c.at \notin AtDisk /\ op' = [op EXCEPT ![p] = c]
  BY Constants DEF Ops, Sound, AtDisk
<1>2. op[p] = NoCall /\ p \notin Range(pending) \cup answered
  BY Constants DEF CallsInv, Calls, Sound, Busy, AtDisk
<1> HIDE DEF c
<1>3. /\ UNCHANGED <<pending, answered, usage_count, starting_block, disk_cache, disk, turn>>
      /\ doubtful' = doubtful /\ overlap' \in BOOLEAN /\ Range(pending') = Range(pending)
  OBVIOUS
<1>4. op' \in [Callers -> Ops] /\ Calls'
  BY <1>1, <1>2, <1>3, OneCall
<1>5. TypeOK'
  BY <1>3, <1>4 DEF CallsInv, TypeOK, Ops
<1>6. OneEach'
  BY <1>3 DEF CallsInv, OneEach
<1> QED
  BY <1>4, <1>5, <1>6 DEF CallsInv

\* A set of natural numbers has a least member.
LEMMA LeastNat ==
  ASSUME NEW T, T \subseteq Nat, T # {}
  PROVE  \E x \in T : \A y \in T : x <= y
<1> DEFINE R == OpToRel(<, Nat)
<1>1. IsWellFoundedOn(R, Nat)
  BY NatLessThanWellFounded
<1>2. ASSUME NEW x \in Nat, NEW y \in Nat, x < y
      PROVE  <<x, y>> \in R
  BY <1>2 DEF OpToRel
<1> HIDE DEF R
<1>3. PICK x \in T : \A y \in T : ~(<<y, x>> \in R)
  BY <1>1, WFMin
<1>4. ASSUME NEW y \in T
      PROVE  x <= y
  <2>1. x \in Nat /\ y \in Nat /\ ~(<<y, x>> \in R)
    BY <1>3
  <2>2. ~(y < x)
    BY <1>2, <2>1
  <2> QED
    BY <2>1, <2>2
<1> QED
  BY <1>4

\* get_block always finds a line to replace: of those with the least count, the first.
LEMMA VictimIsLine ==
  ASSUME CallsInv
  PROVE  Victim(Counted({})) \in Lines
<1> DEFINE count == Counted({})
<1>1. \A l \in Lines : count[l] \in Int /\ count[l] + MaxUsage + 1 \in Nat
  BY Constants DEF CallsInv, TypeOK, Counted
<1>2. Lines # {} /\ Lines \subseteq Nat
  BY Constants DEF Lines
<1> HIDE DEF count
<1>3. PICK m \in Lines : \A k \in Lines : count[m] <= count[k]
  <2> DEFINE T == {count[l] + MaxUsage + 1 : l \in Lines}
  <2>1. T \subseteq Nat /\ T # {}
    BY <1>1, <1>2
  <2>2. PICK x \in T : \A y \in T : x <= y
    BY <2>1, LeastNat
  <2>3. PICK m \in Lines : x = count[m] + MaxUsage + 1
    BY <2>2
  <2>4. \A k \in Lines : count[m] + MaxUsage + 1 <= count[k] + MaxUsage + 1
    BY <2>2, <2>3
  <2> QED
    BY <1>1, <2>4, Constants
<1>4. PICK l \in Lines : count[l] = count[m] /\ \A k \in Lines : count[k] = count[m] => l <= k
  <2> DEFINE T == {l \in Lines : count[l] = count[m]}
  <2>1. T \subseteq Nat /\ T # {}
    BY <1>2
  <2> QED
    BY <2>1, LeastNat
<1>5. \A k \in Lines : count[l] < count[k] \/ (count[l] = count[k] /\ l <= k)
  BY <1>1, <1>3, <1>4
<1> QED
  BY <1>5 DEF Victim, count

\* A hit advances the call.
LEMMA ReadHitKeeps ==
  ASSUME CallsInv, NEW p \in Callers, ReadHit(p)
  PROVE  CallsInv'
<1> USE DEF ReadHit, service
<1> DEFINE c == Advanced(op[p])
<1>1. c \in Ops /\ Sound(c) /\ c.at \notin AtDisk /\ op' = [op EXCEPT ![p] = c]
  BY AdvancedIs
<1>2. p \notin Range(pending) \cup answered
  BY DEF CallsInv, Calls, AtDisk
<1> HIDE DEF c
<1>3. UNCHANGED <<pending, answered, starting_block, disk_cache, disk, turn, overlap, doubtful>>
      /\ Range(pending') = Range(pending)
  OBVIOUS
<1>4. op' \in [Callers -> Ops] /\ Calls'
  BY <1>1, <1>2, <1>3, OneCall
<1>5. usage_count' \in [Lines -> -MaxUsage .. MaxUsage]
  BY Constants DEF Counted, InBound, CallsInv, TypeOK
<1> QED
  BY <1>3, <1>4, <1>5 DEF CallsInv, TypeOK, Ops, OneEach

\* A miss tags the line it replaces and waits for it to be loaded.
LEMMA ReadMissKeeps ==
  ASSUME CallsInv, NEW p \in Callers, ReadMiss(p)
  PROVE  /\ CallsInv'
         /\ \E l \in Lines : /\ starting_block' = [starting_block EXCEPT ![l] = op[p].blk]
                             /\ op' = [op EXCEPT ![p] = [op[p] EXCEPT !.line = l, !.at = "disk"]]
                             /\ op'[p] = [op[p] EXCEPT !.line = l, !.at = "disk"]
<1> USE DEF ReadMiss
<1> DEFINE l == Victim(Counted({}))
           c == [op[p] EXCEPT !.line = l, !.at = "disk"]
<1>1. l \in Lines /\ op[p] \in Ops /\ Sound(op[p]) /\ op[p].kind = "read" /\ op[p].blk \in Blocks
  BY VictimIsLine, Types, OpParts DEF CallsInv, Calls
<1>2. op' = [op EXCEPT ![p] = c] /\ starting_block' = [starting_block EXCEPT ![l] = op[p].blk]
  OBVIOUS
<1>3. usage_count' \in [Lines -> -MaxUsage .. MaxUsage]
  BY <1>1, Constants DEF Counted, InBound, CallsInv, TypeOK
<1> HIDE DEF l
<1>4. c \in Ops /\ Sound(c) /\ c.at \in AtDisk
  BY <1>1 DEF Ops, Sound, AtDisk
<1> HIDE DEF c
<1>5. /\ answered' = answered /\ OneEach' /\ pending' \in Seq(Callers)
      /\ Range(pending') = Range(pending) \cup {p} /\ Range(pending') \subseteq Callers
  <2>1. Submit(p) /\ Range(pending) \subseteq Callers
    BY Types
  <2> QED
    BY <2>1, Joined
<1>6. op' \in [Callers -> Ops] /\ Calls' /\ op'[p] = c
  BY <1>2, <1>4, <1>5, OneCall
<1>7. TypeOK'
  BY <1>1, <1>2, <1>3, <1>5, <1>6 DEF CallsInv, TypeOK, Ops
<1> QED
  BY <1>1, <1>2, <1>5, <1>6, <1>7 DEF CallsInv, c

\* A write looks its block up and waits for the queue to drain.
LEMMA WriteFindKeeps ==
  ASSUME CallsInv, NEW p \in Callers, WriteFind(p)
  PROVE  CallsInv'
<1> USE DEF WriteFind, service, cache
<1> DEFINE hits == Cached(op[p].blk)
           l == IF hits = {} THEN NoLine ELSE CHOOSE k \in hits : TRUE
           c == [op[p] EXCEPT !.line = l, !.at = "drain"]
<1>1. l \in Lines \cup {NoLine} /\ op[p] \in Ops /\ Sound(op[p]) /\ op[p].kind = "write"
  BY Types DEF CallsInv, Calls, Cached
<1>2. op' = [op EXCEPT ![p] = c]
  OBVIOUS
<1> HIDE DEF l
<1>3. c \in Ops /\ Sound(c) /\ c.at \notin AtDisk
  BY <1>1 DEF Ops, Sound, AtDisk
<1>4. p \notin Range(pending) \cup answered
  BY DEF CallsInv, Calls, AtDisk
<1> HIDE DEF c
<1>5. /\ UNCHANGED <<pending, answered, usage_count, starting_block, disk_cache, disk>>
      /\ UNCHANGED <<turn, overlap, doubtful>> /\ Range(pending') = Range(pending)
  OBVIOUS
<1>6. op' \in [Callers -> Ops] /\ Calls'
  BY <1>2, <1>3, <1>4, <1>5, OneCall
<1> QED
  BY <1>5, <1>6 DEF CallsInv, TypeOK, Ops, OneEach

\* A write joins the drained queue.
LEMMA WriteSubmitKeeps ==
  ASSUME CallsInv, NEW p \in Callers, WriteSubmit(p)
  PROVE  CallsInv'
<1> USE DEF WriteSubmit, cache
<1> DEFINE c == [op[p] EXCEPT !.at = "disk"]
<1>1. op[p] \in Ops /\ Sound(op[p]) /\ op[p].kind # "read" /\ op[p].at = "drain"
  BY Types DEF CallsInv, Calls, Sound
<1>2. op' = [op EXCEPT ![p] = c]
  OBVIOUS
<1>3. op[p].kind = "write"
  BY <1>1, OpParts, Constants DEF Sound
<1>4. c \in Ops /\ Sound(c) /\ c.at \in AtDisk
  BY <1>1, <1>3 DEF Ops, Sound, AtDisk
<1> HIDE DEF c
<1>5. /\ answered' = answered /\ OneEach' /\ pending' \in Seq(Callers)
      /\ Range(pending') = Range(pending) \cup {p} /\ Range(pending') \subseteq Callers
  <2>1. Submit(p) /\ Range(pending) \subseteq Callers
    BY Types
  <2> QED
    BY <2>1, Joined
<1>6. op' \in [Callers -> Ops] /\ Calls'
  BY <1>2, <1>4, <1>5, OneCall
<1> QED
  BY <1>5, <1>6 DEF CallsInv, TypeOK, Ops

\* The drive answers the first request; the call of its process learns how.
LEMMA ServeKeeps ==
  ASSUME CallsInv, ServeRead \/ ServeWrite
  PROVE  LET h == pending[1]
         IN  /\ CallsInv'
             /\ h \in Callers /\ op[h] \in Ops
             /\ \E ok \in BOOLEAN : /\ op' = [op EXCEPT ![h] = [op[h] EXCEPT !.ok = ok]]
                                    /\ op'[h] = [op[h] EXCEPT !.ok = ok]
             /\ \A q \in Callers \ {h} : op'[q] = op[q]
<1> DEFINE h == pending[1]
<1> USE DEF cache
<1>1. /\ Serve /\ h \in Callers /\ Head(pending) = h /\ h \in Range(pending) /\ OneEach'
      /\ Range(pending') = Range(pending) \ {h} /\ answered' = answered \cup {h}
  BY Left DEF ServeRead, ServeWrite
<1>2. op[h] \in Ops /\ Sound(op[h]) /\ op[h].at \in AtDisk
  BY <1>1, Types DEF CallsInv, Calls
<1>3. PICK ok \in BOOLEAN :
        /\ op' = [op EXCEPT ![h] = [op[h] EXCEPT !.ok = ok]]
        /\ \/ ServeRead /\ op[h].kind = "read"
              /\ disk_cache' = [disk_cache EXCEPT ![op[h].line] =
                                  IF ok THEN Copy(op[h].blk, disk[op[h].blk]) ELSE Junk]
           \/ ServeWrite /\ disk' \in {[disk EXCEPT ![op[h].blk] = op[h].val], disk}
  <2>1. CASE ServeRead
    BY <1>1, <2>1 DEF ServeRead
  <2>2. CASE ServeWrite
    BY <1>1, <2>2 DEF ServeWrite
  <2> QED
    BY <2>1, <2>2
<1> DEFINE c == [op[h] EXCEPT !.ok = ok]
<1>4. c \in Ops /\ Sound(c) /\ c.at \in AtDisk
  BY <1>2 DEF Ops, Sound, AtDisk, NoCall
<1>5. op' = [op EXCEPT ![h] = c]
  BY <1>3
<1> HIDE DEF c
<1>6. op' \in [Callers -> Ops] /\ Calls' /\ op'[h] = c /\ \A q \in Callers \ {h} : op'[q] = op[q]
  BY <1>1, <1>4, <1>5, OneCall
<1>7. disk' \in [Blocks -> Values] /\ disk_cache' \in [Lines -> Copies]
  <2>1. op[h].blk \in Blocks /\ op[h].val \in Values
    BY <1>2, OpParts
  <2>2. disk \in [Blocks -> Values] /\ disk_cache \in [Lines -> Copies]
    BY DEF CallsInv, TypeOK
  <2>3. Copy(op[h].blk, disk[op[h].blk]) \in Copies /\ Junk \in Copies
    BY <2>1, <2>2, Constants DEF Copy, Copies
  <2> QED
    BY <1>3, <2>1, <2>2, <2>3 DEF ServeRead, ServeWrite
<1>8. UNCHANGED <<usage_count, starting_block, turn, overlap>> /\ doubtful' \subseteq Blocks
  <2>1. op[h].blk \in Blocks /\ doubtful \subseteq Blocks
    BY <1>2, OpParts DEF CallsInv, TypeOK
  <2>2. CASE ServeRead
    BY <1>1, <2>1, <2>2 DEF ServeRead
  <2>3. CASE ServeWrite
    BY <1>1, <2>1, <2>3 DEF ServeWrite
  <2> QED
    BY <2>2, <2>3
<1>9. Range(pending') \subseteq Callers /\ answered' \subseteq Callers
  BY <1>1, Types
<1> QED
  BY <1>1, <1>2, <1>3, <1>6, <1>7, <1>8, <1>9 DEF CallsInv, TypeOK, Ops, c

\* A read that failed, or was refused, gives its line up.
LEMMA GivenUpKeeps ==
  ASSUME CallsInv, NEW c \in Ops, c.line \in Lines, GivenUp(c)
  PROVE  /\ starting_block' = [starting_block EXCEPT ![c.line] = NoBlock]
         /\ starting_block' \in [Lines -> Blocks \cup {NoBlock}]
         /\ usage_count' \in [Lines -> -MaxUsage .. MaxUsage]
BY Constants DEF GivenUp, TagDropped, InBound, CallsInv, TypeOK

\* The process takes its answer: the call goes on or, after an error, ends.
LEMMA DoneKeeps ==
  ASSUME CallsInv, NEW p \in Callers, ReadDone(p) \/ WriteDone(p)
  PROVE  /\ CallsInv'
         /\ op' = [op EXCEPT ![p] = IF Succeeds(op[p]) THEN Advanced(op[p]) ELSE NoCall]
         /\ op'[p] = IF Succeeds(op[p]) THEN Advanced(op[p]) ELSE NoCall
         /\ \A q \in Callers \ {p} : op'[q] = op[q]
<1> DEFINE c == IF Succeeds(op[p]) THEN Advanced(op[p]) ELSE NoCall
<1>1. /\ p \in answered /\ p \notin Range(pending) /\ pending' = pending
      /\ answered' = answered \ {p} /\ OneEach'
  BY Taken DEF ReadDone, WriteDone
<1>2. op[p] \in Ops /\ Sound(op[p]) /\ op[p].kind # "none" /\ op[p].at \in AtDisk
  BY Types DEF CallsInv, Calls, ReadDone, WriteDone, AtDisk
<1>3. op' = [op EXCEPT ![p] = c]
  BY DEF ReadDone, WriteDone
<1>4. c \in Ops /\ Sound(c) /\ c.at \notin AtDisk
  BY <1>2, AdvancedIs, Constants DEF Sound, AtDisk
<1> HIDE DEF c
<1>5. op' \in [Callers -> Ops] /\ Calls' /\ op'[p] = c /\ \A q \in Callers \ {p} : op'[q] = op[q]
  BY <1>1, <1>3, <1>4, OneCall
<1>6. /\ starting_block' \in [Lines -> Blocks \cup {NoBlock}]
      /\ usage_count' \in [Lines -> -MaxUsage .. MaxUsage]
  <2>1. CASE ReadDone(p)
    <3>1. op[p].line \in Lines
      BY <1>2, <2>1 DEF ReadDone, Sound
    <3>2. UNCHANGED <<starting_block, usage_count>> \/ GivenUp(op[p])
      BY <2>1 DEF ReadDone
    <3> QED
      BY <1>2, <3>1, <3>2, GivenUpKeeps DEF CallsInv, TypeOK
  <2>2. CASE WriteDone(p)
    BY <2>2 DEF WriteDone, CallsInv, TypeOK
  <2> QED
    BY <2>1, <2>2
<1>7. disk_cache' \in [Lines -> Copies]
  <2>1. Copy(op[p].blk, op[p].val) \in Copies
    BY <1>2, OpParts DEF Copy, Copies
  <2> QED
    BY <1>2, <2>1, OpParts DEF ReadDone, WriteDone, WrittenThrough, CallsInv, TypeOK
<1>8. UNCHANGED <<disk, turn, overlap, doubtful>> /\ Range(pending') = Range(pending)
  BY <1>1 DEF ReadDone, WriteDone
<1>9. TypeOK'
  BY <1>1, <1>5, <1>6, <1>7, <1>8 DEF CallsInv, TypeOK, Ops
<1> QED
  BY <1>1, <1>3, <1>5, <1>9 DEF CallsInv, c

\* The drive does not start.
LEMMA RefusedKeeps ==
  ASSUME CallsInv, NEW p \in Callers, Refused(p)
  PROVE  /\ CallsInv' /\ op' = [op EXCEPT ![p] = NoCall]
         /\ op'[p] = NoCall /\ \A q \in Callers \ {p} : op'[q] = op[q]
         /\ op[p].kind \in {"read", "write"} /\ (op[p].kind = "read" => op[p].line \in Lines)
<1>1. /\ Range(pending) = {p} /\ p \notin answered /\ Range(pending') = {}
      /\ answered' = answered /\ OneEach'
  BY TakenBack DEF Refused
<1>2. op[p] \in Ops /\ Sound(op[p]) /\ op[p].at = "disk"
  BY Types DEF CallsInv, Calls, Refused
<1>3. op[p].kind \in {"read", "write"} /\ (op[p].kind = "read" => op[p].line \in Lines)
  BY <1>2, OpParts, Constants DEF Sound, AtDisk
<1>4. op' = [op EXCEPT ![p] = NoCall]
  BY DEF Refused
<1>5. NoCall \in Ops /\ Sound(NoCall) /\ NoCall.at \notin AtDisk
  BY Constants DEF Sound, AtDisk
<1>6. op' \in [Callers -> Ops] /\ Calls' /\ op'[p] = NoCall
      /\ \A q \in Callers \ {p} : op'[q] = op[q]
  BY <1>1, <1>4, <1>5, OneCall
<1>7. /\ starting_block' \in [Lines -> Blocks \cup {NoBlock}]
      /\ usage_count' \in [Lines -> -MaxUsage .. MaxUsage]
  BY <1>2, <1>3, GivenUpKeeps DEF Refused, CallsInv, TypeOK
<1>8. UNCHANGED <<disk_cache, disk, turn, overlap, doubtful>>
  BY DEF Refused
<1>9. TypeOK'
  BY <1>1, <1>6, <1>7, <1>8 DEF CallsInv, TypeOK, Ops
<1> QED
  BY <1>1, <1>3, <1>4, <1>6, <1>9 DEF CallsInv

\* The dispatcher and the flush leave the calls as they are.
LEMMA NextTurnKeeps ==
  ASSUME CallsInv, NextTurn
  PROVE  /\ CallsInv'
         /\ \A q \in Callers : /\ op'[q].kind = op[q].kind /\ op'[q].blk = op[q].blk
                               /\ op'[q].line = op[q].line /\ op'[q].val = op[q].val
                               /\ op'[q].ok = op[q].ok
                               /\ op'[q].at = op[q].at \/ {op'[q].at, op[q].at} \subseteq AtDisk
                               /\ op'[q].at = "disk" => op[q].at = "disk"
<1> USE DEF NextTurn, service, cache
<1>1. ASSUME NEW q \in Callers
      PROVE  /\ op'[q] \in Ops /\ Sound(op'[q])
             /\ op'[q].kind = op[q].kind /\ op'[q].blk = op[q].blk
             /\ op'[q].line = op[q].line /\ op'[q].val = op[q].val
             /\ op'[q].ok = op[q].ok
             /\ op'[q].at = op[q].at \/ {op'[q].at, op[q].at} \subseteq AtDisk
             /\ op'[q].at = "disk" => op[q].at = "disk"
  <2>1. op[q] \in Ops /\ Sound(op[q])
    BY Types DEF CallsInv, Calls
  <2>2. CASE q = turn /\ q \in Busy
    <3>1. op'[q] = [op[q] EXCEPT !.at = Asleep(q)] /\ Asleep(q) \in {"suspended", "lost"}
      BY <2>2 DEF Asleep
    <3>2. op[q].at \in AtDisk /\ op[q].kind # "none"
      BY <2>2 DEF CallsInv, Calls, Busy, AtDisk
    <3> QED
      BY <2>1, <3>1, <3>2 DEF Ops, Sound, AtDisk
  <2>3. CASE ~(q = turn /\ q \in Busy)
    BY <2>1, <2>3
  <2> QED
    BY <2>2, <2>3
<1>2. op' \in [Callers -> Ops]
  BY <1>1
<1>3. /\ UNCHANGED <<pending, answered, usage_count, starting_block, disk_cache, disk, overlap>>
      /\ doubtful' = doubtful /\ Range(pending') = Range(pending)
  OBVIOUS
<1>4. Calls'
  BY <1>1, <1>3 DEF CallsInv, Calls, Sound, AtDisk
<1>5. turn' \in Callers \cup {0}
  <2> DEFINE n == Cardinality(Callers)
  <2>1. n \in Nat /\ Callers = 1 .. n
    BY Constants, CallersAssumption
  <2>2. turn \in 0 .. n /\ turn' = (turn + 1) % (n + 1)
    BY <2>1 DEF CallsInv, TypeOK
  <2> HIDE DEF n
  <2> QED
    BY <2>1, <2>2
<1>6. TypeOK'
  BY <1>2, <1>3, <1>5 DEF CallsInv, TypeOK, Ops
<1>7. OneEach'
  BY <1>3 DEF CallsInv, OneEach
<1> QED
  BY <1>1, <1>4, <1>6, <1>7 DEF CallsInv

\* A flush clears the counts and the tags.
LEMMA FlushKeeps ==
  ASSUME CallsInv, Flush
  PROVE  CallsInv'
<1> USE DEF Flush, service
<1>1. /\ UNCHANGED <<pending, answered, disk_cache, disk, op, turn, overlap, doubtful>>
      /\ Range(pending') = Range(pending)
  OBVIOUS
<1>2. /\ starting_block' \in [Lines -> Blocks \cup {NoBlock}]
      /\ usage_count' \in [Lines -> -MaxUsage .. MaxUsage]
  BY Constants
<1> QED
  BY <1>1, <1>2 DEF CallsInv, TypeOK, Calls, OneEach

\* Every step keeps the calls and the queue in order.
LEMMA NextKeepsCalls ==
  ASSUME CallsInv, [Next]_vars
  PROVE  CallsInv'
<1>1. ASSUME NEW p \in Callers, NEW b \in Blocks, NEW n \in 1 .. MaxNum, NEW v \in Values,
             Begin(p, "read", b, n, NoCall.val) \/ Begin(p, "write", b, n, v)
      PROVE  CallsInv'
  <2>1. NoCall.val \in Values
    BY Constants, OpParts
  <2> QED
    BY <1>1, <2>1, BeginKeeps
<1>2. CASE UNCHANGED vars
  BY <1>2 DEF vars, CallsInv, TypeOK, Calls, OneEach, Range
<1> QED
  BY <1>1, <1>2, ReadHitKeeps, ReadMissKeeps, WriteFindKeeps, WriteSubmitKeeps, ServeKeeps,
     DoneKeeps, RefusedKeeps, NextTurnKeeps, FlushKeeps DEF Next

\* After init_disk_cache no call is in progress.
LEMMA InitCalls == Init => CallsInv
<1> SUFFICES ASSUME Init PROVE CallsInv
  OBVIOUS
<1> USE DEF Init, ServiceInit
<1>1. 0 \in Blocks /\ MaxUsage \in Nat /\ NumBlocks \in Nat /\ MaxNum \in Nat
  BY BlocksAssumption, UsageAssumption DEF Blocks
<1>2. (CHOOSE v \in Values : TRUE) \in Values
  <2>1. Values # {}
    BY <1>1
  <2> QED
    BY <2>1
<1>3. NoCall \in Ops /\ NoCall.kind = "none" /\ NoCall.at = "out" /\ Junk \in Copies
  BY <1>1, <1>2 DEF NoCall, Ops, Junk, Copy, Copies
<1>4. Range(pending) = {} /\ Len(pending) = 0 /\ pending \in Seq(Callers) /\ DOMAIN pending = {}
  BY DEF Range
<1>5. TypeOK
  BY <1>1, <1>3, <1>4 DEF TypeOK, Ops
<1>6. Calls /\ OneEach
  BY <1>3, <1>4 DEF Calls, Sound, AtDisk, OneEach
<1> QED
  BY <1>5, <1>6 DEF CallsInv

\* In every state each process has at most one request, is inside que_trans exactly while
\* that is queued or its answer not taken, and its remaining blocks are all on the disk.
THEOREM CallsInvariant == Spec => []CallsInv
BY InitCalls, NextKeepsCalls, PTL DEF Spec

\* The control blocks, the data and the calls keep their ranges: no call of disk_cache_read
\* or disk_cache_write runs past the blocks it was asked for or past the disk's end.
THEOREM CacheTypes == Spec => []TypeOK
<1>1. CallsInv => TypeOK
  BY DEF CallsInv
<1> QED
  BY <1>1, CallsInvariant, PTL

-----------------------------------------------------------------------------
(***************************************************************************)
(* No block is cached twice.                                               *)
(***************************************************************************)

\* Only ReadMiss sets a tag, and only one no line has.
LEMMA TagsKeepUnique ==
  ASSUME CallsInv, TagsUnique, [Next]_vars
  PROVE  TagsUnique'
<1>1. starting_block \in [Lines -> Blocks \cup {NoBlock}]
  BY DEF CallsInv, TypeOK
<1>2. ASSUME NEW l \in Lines, starting_block' = [starting_block EXCEPT ![l] = NoBlock]
      PROVE  TagsUnique'
  BY <1>1, <1>2 DEF TagsUnique
<1>3. ASSUME NEW p \in Callers, ReadMiss(p)
      PROVE  TagsUnique'
  <2>1. PICK l \in Lines : starting_block' = [starting_block EXCEPT ![l] = op[p].blk]
    BY <1>3, ReadMissKeeps
  <2>2. \A k \in Lines : starting_block[k] # op[p].blk
    BY <1>3 DEF ReadMiss, Cached
  <2> QED
    BY <1>1, <2>1, <2>2 DEF TagsUnique
<1>4. ASSUME NEW p \in Callers, ReadDone(p) \/ WriteDone(p) \/ Refused(p)
      PROVE  TagsUnique'
  <2>1. CASE starting_block' = starting_block
    BY <2>1 DEF TagsUnique
  <2>2. CASE starting_block' # starting_block
    <3>1. GivenUp(op[p])
      BY <1>4, <2>2 DEF ReadDone, WriteDone, Refused
    <3>2. op[p].line \in Lines /\ op[p] \in Ops
      BY <1>4, <2>2, RefusedKeeps, Types
      DEF ReadDone, WriteDone, Refused, CallsInv, Calls, Sound, AtDisk
    <3> QED
      BY <1>2, <3>1, <3>2, GivenUpKeeps
  <2> QED
    BY <2>1, <2>2
<1>5. CASE Flush
  BY <1>5 DEF Flush, TagsUnique
<1>6. CASE UNCHANGED starting_block
  BY <1>6 DEF TagsUnique
<1>7. ASSUME Next
      PROVE  \/ UNCHANGED starting_block \/ Flush
             \/ \E p \in Callers : ReadMiss(p) \/ ReadDone(p) \/ WriteDone(p) \/ Refused(p)
  BY <1>7 DEF Next, Begin, ReadHit, WriteFind, WriteSubmit, ServeRead, ServeWrite, NextTurn,
     cache
<1> QED
  BY <1>3, <1>4, <1>5, <1>6, <1>7 DEF vars

\* get_block, its failures, other processes' misses and flushes never leave a disk block
\* in two control blocks, whatever runs beside whatever and whatever fails.
THEOREM BlocksCachedOnce == Spec => []TagsUnique
<1>1. Init => TagsUnique
  BY DEF Init, TagsUnique
<1>2. CallsInv /\ TagsUnique /\ [Next]_vars => TagsUnique'
  BY TagsKeepUnique
<1> QED
  BY <1>1, <1>2, CallsInvariant, PTL DEF Spec

-----------------------------------------------------------------------------
(***************************************************************************)
(* The cache and the disk while nothing runs beside a write.               *)
(***************************************************************************)

\* Reads run beside reads only.
OnlyReadsTogether == Beside \subseteq {{"read"}}

\* A write is the only call in progress; so is a call that found no other.
WriterAlone == \A p, q \in Busy : op[p].kind = "write" => p = q
AloneOnly == ~overlap => \A p, q \in Busy : p = q

\* A write that has looked its block up knows the only line that can hold it; once
\* answered, it has changed the disk or left its block in doubt.
Writing ==
  \A p \in Callers : op[p].kind = "write" /\ op[p].at \in {"drain"} \cup AtDisk =>
    /\ \A l \in Lines : starting_block[l] = op[p].blk => l = op[p].line
    /\ op[p].line # NoLine => starting_block[op[p].line] \in {op[p].blk, NoBlock}
    /\ p \in answered => disk[op[p].blk] = op[p].val \/ ~op[p].ok
    /\ p \in answered /\ ~op[p].ok => op[p].blk \in doubtful

\* The queued reads that will load line l, in the order of the queue.
Loads(l) == {k \in 1 .. Len(pending) : op[pending[k]].kind = "read" /\ op[pending[k]].line = l}

\* What a tagged line holds: the block of its tag, or what a read left whose error its
\* process has still to learn of, or what a write is about to replace.
Synced(l) == disk_cache[l] = Copy(starting_block[l], disk[starting_block[l]])
Failed(l) == \E p \in answered : op[p].kind = "read" /\ op[p].line = l /\ ~op[p].ok
                            /\ op[p].at # "disk"
Rewritten(l) == \E p \in answered : op[p].kind = "write" /\ op[p].blk = starting_block[l]

\* While reads are queued that will load the line, the last of them reads its block.
TagsHold ==
  \A l \in Lines : starting_block[l] # NoBlock =>
    /\ Loads(l) = {} => Synced(l) \/ Failed(l) \/ Rewritten(l) \/ starting_block[l] \in doubtful
    /\ \A k \in Loads(l) : (\A j \in Loads(l) : j <= k) => op[pending[k]].blk = starting_block[l]

\* A read that runs alone finds in its line what it asked for, or its block is in doubt,
\* or it will learn of its error.
AloneServed ==
  ~overlap => \A p \in answered : op[p].kind = "read" =>
    /\ op[p].ok => disk_cache[op[p].line] = Copy(op[p].blk, disk[op[p].blk])
    /\ ~op[p].ok /\ op[p].at = "disk" => op[p].blk \in doubtful

SyncInv == CallsInv /\ TagsUnique /\ WriterAlone /\ AloneOnly /\ Writing /\ TagsHold /\ AloneServed

\* Only Begin makes a process busy.
LEMMA BusyMoves ==
  ASSUME CallsInv, [Next]_vars
  PROVE  \/ /\ Busy' \subseteq Busy /\ overlap' = overlap
            /\ \A q \in Callers : op'[q].kind # "none" => op'[q].kind = op[q].kind
         \/ \E p \in Callers, kind \in {"read", "write"}, b \in Blocks, n \in 1 .. MaxNum,
               v \in Values : Begin(p, kind, b, n, v)
<1> DEFINE Stays == \A q \in Callers : op'[q].kind # "none" => op'[q].kind = op[q].kind
<1>1. Stays => Busy' \subseteq Busy
  BY DEF Busy
<1>2. CASE UNCHANGED vars
  BY <1>1, <1>2 DEF vars
<1>3. ASSUME NEW p \in Callers, ReadHit(p)
      PROVE  Stays
  <2>1. op[p].kind = "read" /\ op' = [op EXCEPT ![p] = Advanced(op[p])]
    BY <1>3 DEF ReadHit
  <2> QED
    BY <2>1, AdvancedIs, Types, Constants
<1>4. ASSUME NEW p \in Callers, ReadMiss(p) \/ WriteFind(p) \/ WriteSubmit(p)
      PROVE  Stays
  <2>1. op[p] \in Ops
    BY Types
  <2>2. op'[p].kind = op[p].kind /\ \A q \in Callers \ {p} : op'[q] = op[q]
    <3>1. CASE ReadMiss(p)
      BY <2>1, <3>1, ReadMissKeeps, Types DEF Ops
    <3>2. CASE WriteFind(p)
      <4> DEFINE l == IF Cached(op[p].blk) = {} THEN NoLine
                      ELSE CHOOSE k \in Cached(op[p].blk) : TRUE
      <4>1. op' = [op EXCEPT ![p] = [op[p] EXCEPT !.line = l, !.at = "drain"]]
        BY <3>2 DEF WriteFind
      <4> HIDE DEF l
      <4> QED
        BY <2>1, <4>1, Types DEF Ops
    <3>3. CASE WriteSubmit(p)
      <4>1. op' = [op EXCEPT ![p] = [op[p] EXCEPT !.at = "disk"]]
        BY <3>3 DEF WriteSubmit
      <4> QED
        BY <2>1, <4>1, Types DEF Ops
    <3> QED
      BY <1>4, <3>1, <3>2, <3>3
  <2> QED
    BY <2>2
<1>5. ASSUME NEW p \in Callers, ReadDone(p) \/ WriteDone(p)
      PROVE  Stays
  <2>1. op[p].kind # "none"
    BY <1>5 DEF ReadDone, WriteDone
  <2> QED
    BY <1>5, <2>1, DoneKeeps, AdvancedIs, Constants
<1>6. ASSUME NEW p \in Callers, Refused(p)
      PROVE  Stays
  BY <1>6, RefusedKeeps, Constants
<1>7. CASE ServeRead \/ ServeWrite
  <2>1. Stays
    BY <1>7, ServeKeeps DEF Ops
  <2> QED
    BY <1>1, <1>7, <2>1 DEF ServeRead, ServeWrite
<1>8. CASE NextTurn \/ Flush
  <2>1. Stays
    BY <1>8, NextTurnKeeps DEF Flush
  <2> QED
    BY <1>1, <1>8, <2>1 DEF NextTurn, Flush
<1>9. ASSUME NEW p \in Callers,
             \/ ReadHit(p) \/ ReadMiss(p) \/ WriteFind(p) \/ WriteSubmit(p)
             \/ ReadDone(p) \/ WriteDone(p) \/ Refused(p)
      PROVE  Busy' \subseteq Busy /\ overlap' = overlap /\ Stays
  <2>1. overlap' = overlap
    BY <1>9 DEF ReadHit, ReadMiss, WriteFind, WriteSubmit, ReadDone, WriteDone, Refused
  <2> QED
    BY <1>1, <1>3, <1>4, <1>5, <1>6, <1>9, <2>1
<1>10. NoCall.val \in Values
  BY Constants, OpParts
<1> QED
  BY <1>2, <1>7, <1>8, <1>9, <1>10 DEF Next

\* Beside a write nothing begins, and nothing else does beside a read but a read.
LEMMA AloneKept ==
  ASSUME OnlyReadsTogether, CallsInv, WriterAlone, AloneOnly, [Next]_vars
  PROVE  WriterAlone' /\ AloneOnly'
<1>1. CASE /\ Busy' \subseteq Busy /\ overlap' = overlap
           /\ \A q \in Callers : op'[q].kind # "none" => op'[q].kind = op[q].kind
  BY <1>1 DEF WriterAlone, AloneOnly, Busy
<1>2. ASSUME NEW p \in Callers, NEW kind \in {"read", "write"}, NEW b \in Blocks,
             NEW n \in 1 .. MaxNum, NEW v \in Values, Begin(p, kind, b, n, v)
      PROVE  WriterAlone' /\ AloneOnly'
  <2>1. /\ op'[p].kind = kind /\ \A q \in Callers \ {p} : op'[q] = op[q]
        /\ overlap' = (Busy # {})
        /\ \A q \in Busy : {kind, op[q].kind} \in Beside
    BY <1>2, Types DEF Begin
  <2>2. Busy' = Busy \cup {p}
    BY <1>2, <2>1 DEF Busy
  <2>3. \A q \in Busy : kind = "read" /\ op[q].kind = "read"
    <3>1. \A q \in Busy : {kind, op[q].kind} = {"read"}
      BY <2>1 DEF OnlyReadsTogether
    <3> QED
      BY <3>1
  <2> QED
    BY <2>1, <2>2, <2>3 DEF WriterAlone, AloneOnly, Busy
<1> QED
  BY <1>1, <1>2, BusyMoves

\* A process with a request is in a call.
LEMMA InCall ==
  ASSUME CallsInv, NEW p \in Range(pending) \cup answered
  PROVE  p \in Callers /\ op[p].kind # "none" /\ op[p].at \in AtDisk /\ p \in Busy
BY Types, Constants DEF CallsInv, Calls, Sound, AtDisk, Busy

\* Beside a write no other call is in progress.
LEMMA BesideWrite ==
  ASSUME SyncInv, NEW p \in Callers, op[p].kind = "write"
  PROVE  /\ \A q \in Callers \ {p} : op[q].kind = "none" /\ q \notin Range(pending) \cup answered
         /\ \A k \in 1 .. Len(pending) : pending[k] = p
         /\ \A l \in Lines : Loads(l) = {} /\ ~Failed(l)
<1>1. CallsInv /\ Busy = {p}
  BY DEF SyncInv, WriterAlone, Busy
<1>2. \A q \in Callers \ {p} : op[q].kind = "none"
  BY <1>1 DEF Busy
<1>3. \A q \in Range(pending) \cup answered : q = p
  BY <1>1, InCall
<1>4. \A k \in 1 .. Len(pending) : pending[k] = p
  BY <1>1, <1>3, Types
<1> QED
  BY <1>2, <1>3, <1>4 DEF Loads, Failed

\* Beside a read no write is in progress.
LEMMA BesideRead ==
  ASSUME SyncInv, NEW p \in Callers, op[p].kind = "read"
  PROVE  /\ CallsInv /\ \A q \in Callers : op[q].kind # "write"
         /\ \A l \in Lines : ~Rewritten(l)
<1>1. CallsInv /\ \A q \in Callers : op[q].kind # "write"
  BY DEF SyncInv, WriterAlone, Busy
<1> QED
  BY <1>1, Types DEF Rewritten

\* The part of the invariant that is about tags, lines and the disk.
Agreement == Writing /\ TagsHold /\ AloneServed

\* A step that leaves tags, lines, disk, queue and the calls in it alone.
LEMMA TagsStay ==
  ASSUME SyncInv,
         UNCHANGED <<pending, answered, starting_block, disk_cache, disk, doubtful>>,
         \A q \in Range(pending) \cup answered :
           /\ op'[q].kind = op[q].kind /\ op'[q].blk = op[q].blk
           /\ op'[q].line = op[q].line /\ op'[q].ok = op[q].ok
           /\ op'[q].at = "disk" => op[q].at = "disk"
  PROVE  TagsHold'
<1>1. CallsInv /\ TagsHold
  BY DEF SyncInv
<1>2. \A k \in 1 .. Len(pending) : pending[k] \in Range(pending)
  BY <1>1, Types
<1>3. ASSUME NEW l \in Lines
      PROVE  /\ Loads(l)' = Loads(l) /\ (Synced(l)' <=> Synced(l))
             /\ (Failed(l) => Failed(l)') /\ (Rewritten(l)' <=> Rewritten(l))
  BY <1>2 DEF Loads, Synced, Failed, Rewritten
<1>4. ASSUME NEW l \in Lines, starting_block[l] # NoBlock
      PROVE  /\ Loads(l)' = {} => Synced(l)' \/ Failed(l)' \/ Rewritten(l)'
                                 \/ starting_block'[l] \in doubtful'
             /\ \A k \in Loads(l)' : (\A j \in Loads(l)' : j <= k)
                                     => op'[pending'[k]].blk = starting_block'[l]
  <2>1. \A k \in Loads(l) : op'[pending[k]].blk = op[pending[k]].blk
    BY <1>2 DEF Loads
  <2> QED
    BY <1>1, <1>3, <1>4, <2>1 DEF TagsHold
<1> QED
  BY <1>4 DEF TagsHold

\* A call that begins changes nothing but the history of what runs beside what.
LEMMA BeginAgrees ==
  ASSUME SyncInv, NEW p \in Callers, NEW kind \in {"read", "write"}, NEW b \in Blocks,
         NEW n \in 1 .. MaxNum, NEW v \in Values, Begin(p, kind, b, n, v)
  PROVE  Agreement'
<1>1. CallsInv /\ Writing /\ AloneServed
  BY DEF SyncInv
<1>2. /\ UNCHANGED <<pending, answered, starting_block, disk_cache, disk, doubtful>>
      /\ op'[p].at = "loop" /\ \A q \in Callers \ {p} : op'[q] = op[q]
      /\ p \notin Busy /\ overlap' = (Busy # {})
  BY <1>1, Types DEF Begin, service, cache
<1>3. \A q \in Range(pending) \cup answered : q \in Callers \ {p} /\ q \in Busy
  BY <1>1, <1>2, InCall
<1>4. TagsHold'
  BY <1>2, <1>3, TagsStay
<1>5. Writing'
  BY <1>1, <1>2 DEF Writing, AtDisk
<1>6. AloneServed'
  BY <1>2, <1>3 DEF AloneServed
<1> QED
  BY <1>4, <1>5, <1>6 DEF Agreement

\* A hit changes the counts only.
LEMMA ReadHitAgrees ==
  ASSUME SyncInv, NEW p \in Callers, ReadHit(p)
  PROVE  Agreement'
<1>1. CallsInv /\ Writing /\ AloneServed
  BY DEF SyncInv
<1>2. /\ UNCHANGED <<pending, answered, starting_block, disk_cache, disk, overlap, doubtful>>
      /\ op'[p].kind # "write" /\ \A q \in Callers \ {p} : op'[q] = op[q]
      /\ p \notin Range(pending) \cup answered
  <2>1. op' = [op EXCEPT ![p] = Advanced(op[p])] /\ op[p].kind = "read" /\ op[p].at = "loop"
    BY DEF ReadHit
  <2>2. Advanced(op[p]).kind # "write"
    BY <1>1, <2>1, AdvancedIs, Constants
  <2> QED
    BY <1>1, <2>1, <2>2, Types DEF ReadHit, service, CallsInv, Calls, AtDisk
<1>3. TagsHold'
  BY <1>1, <1>2, InCall, TagsStay
<1>4. Writing'
  BY <1>1, <1>2 DEF Writing, AtDisk
<1>5. AloneServed'
  BY <1>1, <1>2, Types DEF AloneServed
<1> QED
  BY <1>3, <1>4, <1>5 DEF Agreement

\* The line a write finds is the only one that has its block.
LEMMA WriteFindAgrees ==
  ASSUME SyncInv, NEW p \in Callers, WriteFind(p)
  PROVE  Agreement'
<1> DEFINE hits == Cached(op[p].blk)
           l == IF hits = {} THEN NoLine ELSE CHOOSE k \in hits : TRUE
<1>1. CallsInv /\ Writing /\ AloneServed /\ TagsUnique
  BY DEF SyncInv
<1>2. op' = [op EXCEPT ![p] = [op[p] EXCEPT !.line = l, !.at = "drain"]]
  BY DEF WriteFind
<1>3. /\ hits # {} => l \in hits
      /\ hits = {} => l = NoLine
  OBVIOUS
<1> HIDE DEF l
<1>4. op[p] \in Ops /\ op[p].at = "loop" /\ op[p].blk \in Blocks
  BY <1>1, Types, OpParts DEF WriteFind
<1>5. /\ UNCHANGED <<pending, answered, starting_block, disk_cache, disk, overlap, doubtful>>
      /\ op'[p].blk = op[p].blk /\ op'[p].line = l /\ \A q \in Callers \ {p} : op'[q] = op[q]
      /\ p \notin Range(pending) \cup answered
  BY <1>1, <1>2, <1>4, Types DEF WriteFind, service, cache, CallsInv, Calls, AtDisk, Ops
<1>6. TagsHold'
  BY <1>1, <1>5, InCall, TagsStay
<1>7. /\ \A k \in Lines : starting_block[k] = op[p].blk => k = l
      /\ l # NoLine => starting_block[l] = op[p].blk
  BY <1>1, <1>3, <1>4, Constants DEF Cached, TagsUnique
<1>8. Writing'
  BY <1>1, <1>5, <1>7 DEF Writing, AtDisk
<1>9. AloneServed'
  BY <1>1, <1>5, Types DEF AloneServed
<1> QED
  BY <1>6, <1>8, <1>9 DEF Agreement

\* The dispatcher changes only where in que_trans a call stands.
LEMMA NextTurnAgrees ==
  ASSUME SyncInv, NextTurn
  PROVE  Agreement'
<1>1. CallsInv /\ Writing /\ AloneServed
  BY DEF SyncInv
<1>2. UNCHANGED <<pending, answered, starting_block, disk_cache, disk, overlap, doubtful>>
  BY DEF NextTurn, service, cache
<1>3. TagsHold'
  BY <1>1, <1>2, InCall, NextTurnKeeps, TagsStay
<1>4. Writing'
  BY <1>1, <1>2, NextTurnKeeps DEF Writing, AtDisk
<1>5. AloneServed'
  BY <1>1, <1>2, NextTurnKeeps, Types DEF AloneServed
<1> QED
  BY <1>3, <1>4, <1>5 DEF Agreement

\* After a flush no line claims a block.
LEMMA FlushAgrees ==
  ASSUME SyncInv, Flush
  PROVE  Agreement'
<1>1. CallsInv /\ Writing /\ AloneServed
  BY DEF SyncInv
<1>2. /\ UNCHANGED <<pending, answered, disk_cache, disk, op, overlap, doubtful>>
      /\ \A l \in Lines : starting_block'[l] = NoBlock
  BY DEF Flush, service
<1>3. \A p \in Callers : op[p].blk # NoBlock /\ op[p].line \in Lines \cup {NoLine}
  BY <1>1, Types, OpParts, Constants
<1>4. TagsHold'
  BY <1>2 DEF TagsHold
<1>5. Writing'
  BY <1>1, <1>2, <1>3 DEF Writing, AtDisk
<1>6. AloneServed'
  BY <1>1, <1>2 DEF AloneServed
<1> QED
  BY <1>4, <1>5, <1>6 DEF Agreement

\* A miss is the last in the queue to load its line.
LEMMA ReadMissAgrees ==
  ASSUME SyncInv, NEW p \in Callers, ReadMiss(p)
  PROVE  Agreement'
<1>1. CallsInv /\ TagsHold /\ AloneServed /\ op[p].kind = "read" /\ op[p].blk \in Blocks
  BY Types, OpParts DEF SyncInv, ReadMiss
<1>2. PICK l \in Lines :
        /\ starting_block' = [starting_block EXCEPT ![l] = op[p].blk]
        /\ op' = [op EXCEPT ![p] = [op[p] EXCEPT !.line = l, !.at = "disk"]]
        /\ op'[p] = [op[p] EXCEPT !.line = l, !.at = "disk"]
  BY <1>1, ReadMissKeeps
<1>3. /\ op'[p].kind = "read" /\ op'[p].line = l /\ op'[p].blk = op[p].blk
      /\ \A q \in Callers \ {p} : op'[q] = op[q]
  BY <1>1, <1>2, Types DEF Ops
<1>4. /\ Len(pending') = Len(pending) + 1 /\ pending'[Len(pending) + 1] = p
      /\ \A k \in 1 .. Len(pending) : pending'[k] = pending[k] /\ pending[k] \in Callers \ {p}
      /\ answered' = answered /\ p \notin answered /\ Len(pending) \in Nat
  <2>1. Submit(p)
    BY DEF ReadMiss
  <2> QED
    BY <1>1, <2>1, Joined, Types
<1>5. /\ UNCHANGED <<disk_cache, disk, overlap>> /\ starting_block'[l] = op[p].blk
      /\ doubtful' = doubtful \ {op[p].blk} /\ \A k \in Lines : starting_block[k] # op[p].blk
      /\ \A k \in Lines \ {l} : starting_block'[k] = starting_block[k]
  BY <1>1, <1>2 DEF ReadMiss, CallsInv, TypeOK, Cached
<1>6. \A q \in Callers : op[q].kind # "write"
  BY <1>1, BesideRead
<1>7. Writing'
  BY <1>3, <1>6 DEF Writing
<1>8. ASSUME NEW k \in Lines, starting_block'[k] # NoBlock
      PROVE  /\ Loads(k)' = {} => Synced(k)' \/ Failed(k)' \/ Rewritten(k)'
                                 \/ starting_block'[k] \in doubtful'
             /\ \A i \in Loads(k)' : (\A j \in Loads(k)' : j <= i)
                                     => op'[pending'[i]].blk = starting_block'[k]
  <2>1. CASE k = l
    <3>1. Len(pending) + 1 \in Loads(k)'
      BY <1>3, <1>4, <2>1 DEF Loads
    <3>2. \A i \in Loads(k)' : i \in 1 .. Len(pending) + 1
      BY <1>4 DEF Loads
    <3>3. \A i \in Loads(k)' : (\A j \in Loads(k)' : j <= i) => i = Len(pending) + 1
      BY <1>4, <3>1, <3>2
    <3> QED
      BY <1>3, <1>4, <1>5, <2>1, <3>1, <3>3
  <2>2. CASE k # l
    <3>1. Loads(k)' = Loads(k)
      BY <1>3, <1>4, <2>2 DEF Loads
    <3>2. /\ starting_block'[k] = starting_block[k]
          /\ Synced(k)' <=> Synced(k)
          /\ Failed(k) => Failed(k)'
          /\ starting_block[k] \in doubtful => starting_block'[k] \in doubtful'
      BY <1>1, <1>3, <1>4, <1>5, <2>2, Types DEF Synced, Failed
    <3>3. ~Rewritten(k)
      BY <1>1, BesideRead
    <3>4. \A i \in Loads(k) : op'[pending'[i]].blk = op[pending[i]].blk
      BY <1>3, <1>4 DEF Loads
    <3> QED
      BY <1>1, <1>8, <3>1, <3>2, <3>3, <3>4 DEF TagsHold
  <2> QED
    BY <2>1, <2>2
<1>9. AloneServed'
  <2>1. ~overlap => answered = {}
    <3>1. p \in Busy /\ AloneOnly
      BY <1>1 DEF Busy, SyncInv
    <3> QED
      BY <1>1, <1>4, <3>1, InCall DEF AloneOnly
  <2> QED
    BY <1>4, <1>5, <2>1 DEF AloneServed
<1> QED
  BY <1>7, <1>8, <1>9 DEF Agreement, TagsHold

\* A write that joins the queue is alone.
LEMMA WriteSubmitAgrees ==
  ASSUME SyncInv, NEW p \in Callers, WriteSubmit(p)
  PROVE  Agreement'
<1>1. CallsInv /\ TagsHold /\ AloneServed /\ Writing /\ op[p].at = "drain" /\ op[p] \in Ops
  BY Types DEF SyncInv, WriteSubmit
<1>2. op[p].kind = "write"
  BY <1>1, OpParts, Constants DEF CallsInv, Calls, Sound
<1>3. op' = [op EXCEPT ![p] = [op[p] EXCEPT !.at = "disk"]]
  BY DEF WriteSubmit
<1>4. /\ op'[p].kind = "write" /\ op'[p].line = op[p].line /\ op'[p].blk = op[p].blk
      /\ \A q \in Callers \ {p} : op'[q] = op[q]
  BY <1>1, <1>2, <1>3, Types DEF Ops
<1>5. UNCHANGED <<answered, starting_block, disk_cache, disk, overlap, doubtful>> /\ answered = {}
      /\ Range(pending') = Range(pending) \cup {p} /\ pending' \in Seq(Callers)
  <2>1. Submit(p) /\ UNCHANGED <<starting_block, disk_cache, disk, overlap, doubtful>>
    BY DEF WriteSubmit, cache
  <2> QED
    BY <1>1, <1>2, <2>1, Joined, BesideWrite, Types
<1>6. Writing'
  BY <1>1, <1>2, <1>4, <1>5 DEF Writing
<1>7. \A l \in Lines : starting_block[l] # NoBlock => Synced(l) \/ starting_block[l] \in doubtful
  BY <1>1, <1>2, <1>5, BesideWrite DEF TagsHold, Rewritten
<1>8. \A k \in 1 .. Len(pending') : pending'[k] = p
  <2>1. Range(pending') = {p}
    <3>1. \A q \in Range(pending) : q = p
      BY <1>1, <1>2, BesideWrite, InCall
    <3> QED
      BY <1>5, <3>1
  <2> QED
    BY <1>5, <2>1 DEF Range
<1>9. \A l \in Lines : Loads(l)' = {} /\ (Synced(l) => Synced(l)')
  BY <1>4, <1>5, <1>8 DEF Loads, Synced
<1>10. TagsHold'
  BY <1>5, <1>7, <1>9 DEF TagsHold
<1>11. AloneServed'
  BY <1>5 DEF AloneServed
<1> QED
  BY <1>6, <1>10, <1>11 DEF Agreement

\* The drive answers a read: its line holds the block, or junk.
LEMMA ServeReadAgrees ==
  ASSUME SyncInv, ServeRead
  PROVE  Agreement'
<1> DEFINE h == pending[1]
<1>1. CallsInv /\ TagsHold /\ AloneServed /\ AloneOnly
  BY DEF SyncInv
<1>2. /\ Serve /\ h \in Callers /\ h \in Range(pending) /\ h \notin answered
      /\ answered' = answered \cup {h} /\ Head(pending) = h
      /\ Len(pending') = Len(pending) - 1 /\ Len(pending) \in Nat /\ Len(pending) > 0
      /\ \A k \in 1 .. Len(pending) - 1 : pending'[k] = pending[k + 1]
  BY <1>1, Left, Types DEF ServeRead
<1>3. op[h].kind = "read" /\ op[h] \in Ops /\ op[h].line \in Lines /\ op[h].blk \in Blocks
  BY <1>1, <1>2, InCall, Types, OpParts DEF ServeRead, CallsInv, Calls, Sound
<1>4. PICK ok \in BOOLEAN :
        /\ op' = [op EXCEPT ![h] = [op[h] EXCEPT !.ok = ok]]
        /\ disk_cache' = [disk_cache EXCEPT ![op[h].line] =
                            IF ok THEN Copy(op[h].blk, disk[op[h].blk]) ELSE Junk]
        /\ doubtful' = doubtful \cup (IF ~ok /\ op[h].at = "disk" THEN {op[h].blk} ELSE {})
  BY <1>2 DEF ServeRead
<1>5. UNCHANGED <<starting_block, disk, overlap>>
  BY DEF ServeRead
<1>6. /\ op'[h].kind = "read" /\ op'[h].line = op[h].line /\ op'[h].blk = op[h].blk
      /\ op'[h].ok = ok /\ op'[h].at = op[h].at /\ \A q \in Callers \ {h} : op'[q] = op[q]
  BY <1>2, <1>3, <1>4, Types, <1>1 DEF Ops
<1>7. /\ disk_cache'[op[h].line] = IF ok THEN Copy(op[h].blk, disk[op[h].blk]) ELSE Junk
      /\ \A l \in Lines \ {op[h].line} : disk_cache'[l] = disk_cache[l]
  BY <1>1, <1>3, <1>4 DEF CallsInv, TypeOK
<1>8. \A q \in Callers : op[q].kind # "write"
  BY <1>2, <1>3, BesideRead
<1>9. Writing'
  BY <1>6, <1>8 DEF Writing
<1>10. \A k \in 1 .. Len(pending) - 1 :
         pending[k + 1] \in Callers \ {h} /\ op'[pending[k + 1]] = op[pending[k + 1]]
  <2>1. \A k \in 2 .. Len(pending) : pending[k] \in Callers /\ pending[k] # h
    BY <1>1, <1>2, Types DEF CallsInv, OneEach
  <2>2. \A k \in 1 .. Len(pending) - 1 : k + 1 \in 2 .. Len(pending)
    BY <1>2
  <2> QED
    BY <1>6, <2>1, <2>2
<1>11. ASSUME NEW l \in Lines
       PROVE  /\ \A k \in Loads(l)' : k \in Nat /\ k + 1 \in Loads(l)
              /\ \A k \in Loads(l) : k \in Nat /\ (k = 1 \/ k - 1 \in Loads(l)')
              /\ 1 \in Loads(l) <=> op[h].line = l
  BY <1>2, <1>3, <1>10 DEF Loads
<1>12. ASSUME NEW l \in Lines, starting_block'[l] # NoBlock
       PROVE  /\ Loads(l)' = {} => Synced(l)' \/ Failed(l)' \/ Rewritten(l)'
                                  \/ starting_block'[l] \in doubtful'
              /\ \A i \in Loads(l)' : (\A j \in Loads(l)' : j <= i)
                                      => op'[pending'[i]].blk = starting_block'[l]
  <2>1. ASSUME NEW i \in Loads(l)', \A j \in Loads(l)' : j <= i
        PROVE  op'[pending'[i]].blk = starting_block'[l]
    <3>1. i + 1 \in Loads(l) /\ i \in Nat
      BY <1>11, <2>1
    <3>2. \A j \in Loads(l) : j <= i + 1
      BY <1>11, <2>1, <3>1
    <3>3. op[pending[i + 1]].blk = starting_block[l]
      BY <1>1, <1>5, <1>12, <3>1, <3>2 DEF TagsHold
    <3>4. i \in 1 .. Len(pending) - 1
      BY <1>2, <2>1 DEF Loads
    <3> QED
      BY <1>2, <1>5, <1>10, <3>3, <3>4
  <2>2. ASSUME Loads(l)' = {}
        PROVE  Synced(l)' \/ Failed(l)' \/ Rewritten(l)' \/ starting_block'[l] \in doubtful'
    <3>1. CASE op[h].line = l
      <4>1. \A j \in Loads(l) : j = 1
        BY <1>11, <2>2
      <4>2. 1 \in Loads(l) /\ \A j \in Loads(l) : j <= 1
        BY <1>11, <3>1, <4>1
      <4>3. op[h].blk = starting_block[l]
        BY <1>1, <1>5, <1>12, <4>2 DEF TagsHold
      <4>4. CASE ok
        BY <1>5, <1>7, <3>1, <4>3, <4>4 DEF Synced
      <4>5. CASE ~ok /\ op[h].at # "disk"
        BY <1>2, <1>6, <3>1, <4>5 DEF Failed
      <4>6. CASE ~ok /\ op[h].at = "disk"
        BY <1>4, <1>5, <4>3, <4>6
      <4> QED
        BY <4>4, <4>5, <4>6
    <3>2. CASE op[h].line # l
      <4>1. Loads(l) = {}
        BY <1>11, <2>2, <3>2
      <4>2. Synced(l) \/ Failed(l) \/ starting_block[l] \in doubtful
        BY <1>1, <1>2, <1>3, <1>5, <1>12, <4>1, BesideRead DEF TagsHold
      <4>3. Failed(l) => Failed(l)'
        BY <1>1, <1>2, <1>6, Types DEF Failed
      <4>4. Synced(l) => Synced(l)'
        BY <1>5, <1>7, <3>2 DEF Synced
      <4> QED
        BY <1>4, <1>5, <4>2, <4>3, <4>4
    <3> QED
      BY <3>1, <3>2
  <2> QED
    BY <2>1, <2>2
<1>13. AloneServed'
  <2>1. ~overlap => \A q \in answered' : q = h
    BY <1>1, <1>2, InCall DEF AloneOnly
  <2> QED
    BY <1>4, <1>5, <1>6, <1>7, <2>1 DEF AloneServed
<1> QED
  BY <1>9, <1>12, <1>13 DEF Agreement, TagsHold

\* The drive answers a write: the disk is ahead of the line until WriteDone.
LEMMA ServeWriteAgrees ==
  ASSUME SyncInv, ServeWrite
  PROVE  Agreement'
<1> DEFINE h == pending[1]
<1>1. CallsInv /\ TagsHold /\ Writing
  BY DEF SyncInv
<1>2. /\ Serve /\ h \in Callers /\ h \in Range(pending) /\ h \notin answered
      /\ answered' = answered \cup {h} /\ Head(pending) = h
      /\ Len(pending') = Len(pending) - 1 /\ Len(pending) \in Nat
      /\ Range(pending') = Range(pending) \ {h} /\ pending' \in Seq(Callers)
  BY <1>1, Left, Types DEF ServeWrite
<1>3. op[h].kind = "write" /\ op[h] \in Ops /\ op[h].at \in AtDisk
  BY <1>1, <1>2, InCall, Types DEF ServeWrite
<1>4. PICK ok \in BOOLEAN :
        /\ op' = [op EXCEPT ![h] = [op[h] EXCEPT !.ok = ok]]
        /\ disk' = [disk EXCEPT ![op[h].blk] = op[h].val] \/ (~ok /\ disk' = disk)
        /\ doubtful' = IF ok THEN doubtful \ {op[h].blk} ELSE doubtful \cup {op[h].blk}
        /\ UNCHANGED <<starting_block, disk_cache, overlap>>
  BY <1>2 DEF ServeWrite, cache
<1>5. /\ op'[h].kind = "write" /\ op'[h].line = op[h].line /\ op'[h].blk = op[h].blk
      /\ op'[h].val = op[h].val /\ op'[h].ok = ok
      /\ \A q \in Callers \ {h} : op'[q] = op[q]
  BY <1>1, <1>2, <1>3, <1>4, Types DEF Ops
<1>6. /\ op[h].blk \in Blocks /\ (disk'[op[h].blk] = op[h].val \/ ~ok)
      /\ \A b \in Blocks \ {op[h].blk} : disk'[b] = disk[b]
  BY <1>1, <1>3, <1>4, OpParts DEF CallsInv, TypeOK
<1>7. \A q \in Callers \ {h} : op[q].kind = "none" /\ q \notin Range(pending) \cup answered
  BY <1>2, <1>3, BesideWrite
<1>8. answered' = {h} /\ Range(pending') = {}
  BY <1>1, <1>2, <1>7, Types
<1>9. \A l \in Lines : starting_block[l] # NoBlock => Synced(l) \/ starting_block[l] \in doubtful
  BY <1>1, <1>2, <1>3, <1>7, BesideWrite, Types DEF TagsHold, Rewritten
<1>10. \A l \in Lines : Loads(l)' = {}
  BY <1>2, <1>8 DEF Loads, Range
<1>11. ASSUME NEW l \in Lines, starting_block[l] # NoBlock
       PROVE  Synced(l)' \/ Rewritten(l)' \/ starting_block'[l] \in doubtful'
  <2>1. CASE starting_block[l] = op[h].blk
    BY <1>4, <1>5, <1>8, <2>1 DEF Rewritten
  <2>2. CASE starting_block[l] # op[h].blk
    <3>1. starting_block[l] \in Blocks
      BY <1>1, <1>11 DEF CallsInv, TypeOK
    <3> QED
      BY <1>4, <1>6, <1>9, <1>11, <2>2, <3>1 DEF Synced
  <2> QED
    BY <2>1, <2>2
<1>12. TagsHold'
  BY <1>4, <1>10, <1>11 DEF TagsHold
<1>13. Writing'
  BY <1>1, <1>3, <1>4, <1>5, <1>6, <1>7, <1>8 DEF Writing
<1>14. AloneServed'
  BY <1>5, <1>8 DEF AloneServed
<1> QED
  BY <1>12, <1>13, <1>14 DEF Agreement

\* A failed read gives its line up before anybody else can take it for loaded.
LEMMA ReadDoneAgrees ==
  ASSUME SyncInv, NEW p \in Callers, ReadDone(p)
  PROVE  Agreement'
<1>1. CallsInv /\ TagsHold /\ AloneServed /\ op[p].kind = "read" /\ op[p].at \in AtDisk
  BY DEF SyncInv, ReadDone, AtDisk
<1>2. /\ op'[p].kind # "write" /\ \A q \in Callers \ {p} : op'[q] = op[q]
      /\ pending' = pending /\ answered' = answered \ {p}
      /\ p \in answered /\ p \notin Range(pending)
  <2>1. Return(p)
    BY DEF ReadDone
  <2> QED
    BY <1>1, <2>1, DoneKeeps, Taken, AdvancedIs, Constants
<1>3. UNCHANGED <<disk_cache, disk, overlap, doubtful>> /\ op[p] \in Ops /\ op[p].line \in Lines
  BY <1>1, Types DEF ReadDone, CallsInv, Calls, Sound
<1>4. \A q \in Callers : op[q].kind # "write"
  BY <1>1, BesideRead
<1>5. \A k \in 1 .. Len(pending) : pending[k] \in Callers \ {p}
  BY <1>1, <1>2, Types
<1>6. Writing'
  BY <1>2, <1>4 DEF Writing
<1>7. AloneServed'
  BY <1>1, <1>2, <1>3, Types DEF AloneServed
<1>8. \/ Succeeds(op[p]) /\ starting_block' = starting_block
      \/ ~Succeeds(op[p]) /\ starting_block' = [starting_block EXCEPT ![op[p].line] = NoBlock]
  BY <1>1, <1>3, GivenUpKeeps DEF ReadDone
<1>9. ASSUME NEW l \in Lines, starting_block'[l] # NoBlock
      PROVE  /\ Loads(l)' = {} => Synced(l)' \/ Failed(l)' \/ Rewritten(l)'
                                 \/ starting_block'[l] \in doubtful'
             /\ \A i \in Loads(l)' : (\A j \in Loads(l)' : j <= i)
                                     => op'[pending'[i]].blk = starting_block'[l]
  <2>1. starting_block'[l] = starting_block[l] /\ (op[p].line = l => Succeeds(op[p]))
    BY <1>1, <1>3, <1>8, <1>9 DEF CallsInv, TypeOK
  <2>2. Loads(l)' = Loads(l) /\ \A i \in Loads(l) : op'[pending'[i]].blk = op[pending[i]].blk
    BY <1>2, <1>5 DEF Loads
  <2>3. Failed(l) => Failed(l)'
    BY <1>1, <1>2, <2>1, Types DEF Failed, Succeeds
  <2>4. Synced(l) => Synced(l)'
    BY <1>3, <2>1 DEF Synced
  <2>5. ~Rewritten(l)
    BY <1>1, BesideRead
  <2> QED
    BY <1>1, <1>3, <1>9, <2>1, <2>2, <2>3, <2>4, <2>5 DEF TagsHold
<1> QED
  BY <1>6, <1>7, <1>9 DEF Agreement, TagsHold

\* The line found before the write is still the block's line after it.
LEMMA WriteDoneAgrees ==
  ASSUME SyncInv, NEW p \in Callers, WriteDone(p)
  PROVE  Agreement'
<1>1. CallsInv /\ TagsHold /\ Writing /\ op[p].kind = "write" /\ op[p].at \in AtDisk
  BY DEF SyncInv, WriteDone, AtDisk
<1>2. Return(p)
  BY DEF WriteDone
<1>3. /\ pending' = pending /\ answered' = answered \ {p} /\ p \in answered
      /\ p \notin Range(pending)
      /\ \A q \in Callers \ {p} : op[q].kind = "none" /\ q \notin Range(pending) \cup answered
  BY <1>1, <1>2, Taken, BesideWrite
<1>4. answered' = {} /\ Range(pending') = {} /\ Len(pending') = 0
  <2>1. answered' = {} /\ Range(pending') = {}
    BY <1>1, <1>3, Types
  <2> QED
    BY <1>1, <1>3, <2>1, Types
<1>5. disk[op[p].blk] = op[p].val \/ (~op[p].ok /\ op[p].blk \in doubtful)
  BY <1>1, <1>3 DEF Writing
<1>6. /\ op'[p].at \notin {"drain"} \cup AtDisk /\ \A q \in Callers \ {p} : op'[q] = op[q]
      /\ disk_cache' = WrittenThrough(op[p]) \/ (~op[p].ok /\ disk_cache' = disk_cache)
      /\ UNCHANGED <<starting_block, disk, overlap, doubtful>>
  BY <1>1, DoneKeeps, AdvancedIs, Constants DEF WriteDone, AtDisk, Succeeds
<1>7. ASSUME NEW l \in Lines, starting_block[l] # NoBlock
      PROVE  Synced(l)' \/ starting_block[l] \in doubtful
  <2>1. starting_block[l] = op[p].blk => l = op[p].line
    BY <1>1 DEF Writing
  <2>2. op[p].line = l => starting_block[l] = op[p].blk
    BY <1>1, <1>7, Constants DEF Writing
  <2>3. CASE l = op[p].line
    <3>1. CASE op[p].ok
      <4>1. disk_cache'[l] = Copy(op[p].blk, op[p].val)
        BY <1>1, <1>6, <2>3, <3>1, Constants DEF WrittenThrough, CallsInv, TypeOK
      <4> QED
        BY <1>5, <1>6, <2>2, <2>3, <3>1, <4>1 DEF Synced
    <3>2. CASE ~op[p].ok
      BY <1>1, <1>3, <2>2, <2>3, <3>2 DEF Writing
    <3> QED
      BY <3>1, <3>2
  <2>4. CASE l # op[p].line
    <3>1. disk_cache'[l] = disk_cache[l]
      BY <1>1, <1>6, <2>4, Constants DEF WrittenThrough, CallsInv, TypeOK
    <3>2. ~Rewritten(l)
      BY <1>1, <1>3, <2>1, <2>4, Types DEF Rewritten
    <3>3. Synced(l) \/ starting_block[l] \in doubtful
      BY <1>1, <1>7, <3>2, BesideWrite DEF TagsHold
    <3> QED
      BY <1>6, <3>1, <3>3 DEF Synced
  <2> QED
    BY <2>3, <2>4
<1>8. \A l \in Lines : Loads(l)' = {}
  BY <1>4 DEF Loads
<1>9. TagsHold'
  BY <1>6, <1>7, <1>8 DEF TagsHold
<1>10. Writing'
  <2>1. \A q \in Callers \ {p} : op'[q].kind = "none"
    BY <1>3, <1>6
  <2> QED
    BY <1>6, <2>1 DEF Writing, AtDisk
<1>11. AloneServed'
  BY <1>4 DEF AloneServed
<1> QED
  BY <1>9, <1>10, <1>11 DEF Agreement

\* A refused read gives its line up; a refused write has changed nothing.
LEMMA RefusedAgrees ==
  ASSUME SyncInv, NEW p \in Callers, Refused(p)
  PROVE  Agreement'
<1>1. CallsInv /\ TagsHold /\ Writing /\ AloneServed
  BY DEF SyncInv
<1>2. Refuse(p) /\ UNCHANGED <<disk_cache, disk, overlap, doubtful>>
  BY DEF Refused
<1>3. /\ Range(pending) = {p} /\ p \notin answered /\ answered' = answered
      /\ Len(pending') = 0 /\ Range(pending') = {}
  BY <1>1, <1>2, TakenBack
<1>4. /\ op'[p] = NoCall /\ \A q \in Callers \ {p} : op'[q] = op[q]
      /\ op[p].kind \in {"read", "write"} /\ (op[p].kind = "read" => op[p].line \in Lines)
  BY <1>1, RefusedKeeps
<1>5. \A l \in Lines : Loads(l)' = {}
  BY <1>3 DEF Loads
<1>6. AloneServed'
  BY <1>1, <1>2, <1>3, <1>4, Types DEF AloneServed
<1>7. CASE op[p].kind = "read"
  <2>1. starting_block' = [starting_block EXCEPT ![op[p].line] = NoBlock]
    BY <1>1, <1>4, <1>7, GivenUpKeeps, Types DEF Refused
  <2>2. ASSUME NEW l \in Lines, starting_block'[l] # NoBlock
        PROVE  Synced(l)' \/ Failed(l)' \/ starting_block'[l] \in doubtful'
    <3>1. starting_block'[l] = starting_block[l] /\ l # op[p].line
      BY <1>1, <1>4, <1>7, <2>1, <2>2 DEF CallsInv, TypeOK
    <3>2. \A k \in 1 .. Len(pending) : pending[k] = p
      BY <1>1, <1>3, Types
    <3>3. Loads(l) = {}
      BY <3>1, <3>2 DEF Loads
    <3>4. Synced(l) \/ Failed(l) \/ starting_block[l] \in doubtful
      BY <1>1, <1>7, <2>2, <3>1, <3>3, BesideRead DEF TagsHold
    <3>5. Failed(l) => Failed(l)'
      BY <1>1, <1>3, <1>4, Types DEF Failed
    <3>6. Synced(l) => Synced(l)'
      BY <1>2, <3>1 DEF Synced
    <3> QED
      BY <1>2, <3>1, <3>4, <3>5, <3>6
  <2>3. TagsHold'
    BY <1>5, <2>2 DEF TagsHold
  <2>4. Writing'
    BY <1>1, <1>4, <1>7, BesideRead, Constants DEF Writing
  <2> QED
    BY <1>6, <2>3, <2>4 DEF Agreement
<1>8. CASE op[p].kind = "write"
  <2>1. starting_block' = starting_block
    BY <1>8 DEF Refused
  <2>2. \A q \in Callers \ {p} : op[q].kind = "none" /\ q \notin answered
    BY <1>8, BesideWrite
  <2>3. answered = {}
    BY <1>1, <1>3, <2>2, Types
  <2>4. \A l \in Lines : starting_block[l] # NoBlock => Synced(l) \/ starting_block[l] \in doubtful
    BY <1>1, <1>8, <2>3, BesideWrite DEF TagsHold, Rewritten
  <2>5. TagsHold'
    BY <1>2, <1>5, <2>1, <2>4 DEF TagsHold, Synced
  <2>6. Writing'
    BY <1>1, <1>4, <2>2, Constants DEF Writing
  <2> QED
    BY <1>6, <2>5, <2>6 DEF Agreement
<1> QED
  BY <1>4, <1>7, <1>8

\* Every step keeps the agreement.
LEMMA SyncKept ==
  ASSUME OnlyReadsTogether, SyncInv, [Next]_vars
  PROVE  SyncInv'
<1>1. CallsInv /\ TagsUnique /\ WriterAlone /\ AloneOnly
  BY DEF SyncInv
<1>2. CallsInv' /\ TagsUnique' /\ WriterAlone' /\ AloneOnly'
  BY <1>1, NextKeepsCalls, TagsKeepUnique, AloneKept
<1>3. ASSUME NEW p \in Callers, NEW b \in Blocks, NEW n \in 1 .. MaxNum, NEW v \in Values,
             Begin(p, "read", b, n, NoCall.val) \/ Begin(p, "write", b, n, v)
      PROVE  Agreement'
  <2>1. NoCall.val \in Values
    BY <1>1, Constants, OpParts
  <2> QED
    BY <1>3, <2>1, BeginAgrees
<1>4. CASE UNCHANGED vars
  <2>1. TagsHold'
    BY <1>4, TagsStay DEF vars
  <2>2. Writing' /\ AloneServed'
    BY <1>4 DEF vars, SyncInv, Writing, AloneServed
  <2> QED
    BY <1>2, <2>1, <2>2 DEF SyncInv
<1>5. CASE Next
  <2>1. Agreement'
    BY <1>3, <1>5, ReadHitAgrees, ReadMissAgrees, ReadDoneAgrees, WriteFindAgrees,
       WriteSubmitAgrees, WriteDoneAgrees, RefusedAgrees, ServeReadAgrees, ServeWriteAgrees,
       NextTurnAgrees, FlushAgrees DEF Next
  <2> QED
    BY <1>2, <2>1 DEF SyncInv, Agreement
<1> QED
  BY <1>4, <1>5

\* The inductive invariant behind the next two theorems.
THEOREM SyncInvariant == OnlyReadsTogether => (Spec => []SyncInv)
<1> SUFFICES ASSUME OnlyReadsTogether PROVE Spec => []SyncInv
  OBVIOUS
<1>1. Init => SyncInv
  <2> SUFFICES ASSUME Init PROVE SyncInv
    OBVIOUS
  <2>1. CallsInv
    BY InitCalls
  <2>2. Busy = {} /\ answered = {} /\ \A l \in Lines : starting_block[l] = NoBlock
    BY <2>1, Constants DEF Init, Busy, ServiceInit
  <2>3. \A p \in Callers : op[p].kind = "none"
    BY <2>1, Constants DEF Init
  <2> QED
    BY <2>1, <2>2, <2>3
    DEF SyncInv, TagsUnique, WriterAlone, AloneOnly, Writing, TagsHold, AloneServed
<1>2. SyncInv /\ [Next]_vars => SyncInv'
  BY SyncKept
<1> QED
  BY <1>1, <1>2, PTL DEF Spec

\* The comment of dskcache.c holds, as long as no read or write runs beside a write, but
\* for failures: when no call is in progress, a tagged line differs from the disk only if
\* the last write of its block failed, or the read that loaded it failed before its process
\* suspended.  get_block tags a line before it is loaded, disk_cache_write changes the disk
\* before the line, and neither learns of every error.
THEOREM OnlyFailuresOutOfSync == OnlyReadsTogether => (Spec => []OnlyFailuresDiffer)
<1> SUFFICES ASSUME OnlyReadsTogether PROVE Spec => []OnlyFailuresDiffer
  OBVIOUS
<1>1. SyncInv => OnlyFailuresDiffer
  <2> SUFFICES ASSUME SyncInv, Busy = {}, NEW l \in Lines, starting_block[l] # NoBlock
               PROVE  Synced(l) \/ starting_block[l] \in doubtful
    BY DEF OnlyFailuresDiffer, OutOfSync, Synced
  <2>1. CallsInv /\ TagsHold
    BY DEF SyncInv
  <2>2. Range(pending) = {} /\ answered = {}
    BY <2>1, InCall
  <2>3. Loads(l) = {} /\ ~Failed(l) /\ ~Rewritten(l)
    BY <2>1, <2>2, Types DEF Loads, Failed, Rewritten
  <2> QED
    BY <2>1, <2>3 DEF TagsHold
<1> QED
  BY <1>1, SyncInvariant, PTL

\* If moreover no transfer fails, the comment holds as it stands, whatever is refused and
\* flushed.
THEOREM CacheInSync ==
  OnlyReadsTogether /\ Faults \subseteq {"refused", "flush"} => (Spec => []InSync)
<1> SUFFICES ASSUME OnlyReadsTogether, Faults \subseteq {"refused", "flush"}
             PROVE  Spec => []InSync
  OBVIOUS
<1> DEFINE NoDoubt == doubtful = {}
<1>1. Init => NoDoubt
  BY DEF Init
<1>2. NoDoubt /\ [Next]_vars => NoDoubt'
  <2> SUFFICES ASSUME doubtful = {}, [Next]_vars PROVE doubtful' = {}
    OBVIOUS
  <2>1. CASE ServeRead
    BY <2>1 DEF ServeRead
  <2>2. CASE ServeWrite
    BY <2>2 DEF ServeWrite
  <2>3. CASE UNCHANGED vars
    BY <2>3 DEF vars
  <2> QED
    BY <2>1, <2>2, <2>3 DEF Next, Begin, ReadHit, ReadMiss, ReadDone, WriteFind, WriteSubmit,
       WriteDone, Refused, NextTurn, Flush
<1>3. OnlyFailuresDiffer /\ NoDoubt => InSync
  BY DEF OnlyFailuresDiffer, InSync
<1>4. Spec => []OnlyFailuresDiffer
  BY OnlyFailuresOutOfSync
<1> HIDE DEF NoDoubt
<1> QED
  BY <1>1, <1>2, <1>3, <1>4, PTL DEF Spec

\* While no read or write runs beside a write, disk_cache_read gives a caller that runs
\* alone what is on the disk, whatever reads, writes, failures and flushes came before,
\* unless a transfer of the very block failed so.
THEOREM ReadsAloneAreRight == OnlyReadsTogether => (Spec => []AloneReadsDisk)
<1> SUFFICES ASSUME OnlyReadsTogether PROVE Spec => []AloneReadsDisk
  OBVIOUS
<1>1. SyncInv => AloneReadsDisk
  <2> SUFFICES ASSUME SyncInv, ~overlap, NEW p \in Busy, op[p].kind = "read",
                      op[p].blk \notin doubtful, NEW l \in Gives(p)
               PROVE  disk_cache[l] = Copy(op[p].blk, disk[op[p].blk])
    BY DEF AloneReadsDisk
  <2>1. /\ CallsInv /\ TagsHold /\ AloneServed /\ AloneOnly
        /\ p \in Callers /\ op[p].blk \in Blocks
    BY Types, OpParts DEF SyncInv, Busy
  <2>2. CASE op[p].at = "loop"
    <3>1. l \in Lines /\ starting_block[l] = op[p].blk /\ starting_block[l] # NoBlock
      BY <2>1, <2>2, Constants DEF Gives, Cached
    <3>2. p \notin Range(pending) \cup answered
      BY <2>1, <2>2 DEF CallsInv, Calls, AtDisk
    <3>3. Range(pending) = {} /\ answered = {}
      BY <2>1, <3>2, InCall DEF AloneOnly
    <3>4. Loads(l) = {} /\ ~Failed(l) /\ ~Rewritten(l)
      BY <2>1, <3>3, Types DEF Loads, Failed, Rewritten
    <3> QED
      BY <2>1, <3>1, <3>4 DEF TagsHold, Synced
  <2>3. CASE op[p].at # "loop"
    BY <2>1, <2>3 DEF Gives, AloneServed, Succeeds
  <2> QED
    BY <2>2, <2>3
<1> QED
  BY <1>1, SyncInvariant, PTL
=============================================================================
