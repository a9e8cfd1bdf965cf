----------------------------- MODULE DiskCache -----------------------------
(***************************************************************************)
(* The write-through disk cache of the BIOS (biosrom/bios/dskcache.c)      *)
(* above the request queue, of which only the promise is used: DiskService *)
(* (IdeQueue implements it).                                               *)
(*                                                                         *)
(* The callers are Goose processes, numbered in the order of the process   *)
(* list: in every tick the dispatcher comes to each in turn, and nobody    *)
(* else runs until it suspends in _SecReads or _SecWrites.  Between ticks  *)
(* comes the code outside the process loop, which may flush the cache.     *)
(*                                                                         *)
(* A disk block of 256 sectors is one datum: what holds of a sector holds  *)
(* of each.  A caller asks for one or more blocks, and the loop of         *)
(* disk_cache_read or disk_cache_write takes one of them per iteration.    *)
(***************************************************************************)
EXTENDS Integers, FiniteSets, DiskService

CONSTANTS
  NUM_DISK_CACHE_BLOCKS,
  NumBlocks,      \* blocks on the disk
  Values,         \* what a block can hold
  MaxNum,         \* bound: blocks one call asks for
  MaxUsage,       \* bound: of the usage counts, up and down
  Faults,         \* what fails in this instance
  Beside          \* the pairs of kinds of calls the game lets run beside each other

ASSUME CallersAssumption == IsFiniteSet(Callers) /\ Callers = 1 .. Cardinality(Callers)
ASSUME LinesAssumption == NUM_DISK_CACHE_BLOCKS \in Nat \ {0}
ASSUME BlocksAssumption == NumBlocks \in Nat \ {0} /\ MaxNum \in 1 .. NumBlocks
ASSUME UsageAssumption == MaxUsage \in Nat
ASSUME FaultsAssumption == Faults \subseteq {"read_error", "write_error", "refused", "flush"}

ASSUME BesideAssumption == Beside \subseteq SUBSET {"read", "write"}

Lines == 0 .. (NUM_DISK_CACHE_BLOCKS - 1)
Blocks == 0 .. (NumBlocks - 1)
NoBlock == -1
NoLine == -1

VARIABLES
  usage_count, starting_block,   \* dcc
  disk_cache,                    \* the data of each control block
  disk,
  op,        \* the call each process is in
  turn,      \* whom the dispatcher runs; 0 between ticks
  overlap,   \* a call in progress began beside another one (history)
  doubtful   \* blocks of which a transfer failed and the cache kept what it had (history)

cache == <<usage_count, starting_block, disk_cache>>
service == <<pending, answered>>
vars == <<pending, answered, usage_count, starting_block, disk_cache, disk, op, turn, overlap,
          doubtful>>

NoCall == [kind |-> "none", at |-> "out", blk |-> 0, num |-> 0, line |-> NoLine,
           val |-> CHOOSE v \in Values : TRUE, ok |-> TRUE]

\* A copy of a disk block, or what a failed or missing transfer leaves.
Copy(b, v) == [block |-> b, value |-> v]
Junk == Copy(NoBlock, CHOOSE v \in Values : TRUE)

Init ==
  /\ ServiceInit
  /\ usage_count = [l \in Lines |-> 0]
  /\ starting_block = [l \in Lines |-> NoBlock]
  /\ disk_cache = [l \in Lines |-> Junk]
  /\ disk \in [Blocks -> Values]
  /\ op = [p \in Callers |-> NoCall]
  /\ turn = 0
  /\ overlap = FALSE
  /\ doubtful = {}

\* In que_trans, before or after suspend, or after a suspend that came too late.
AtDisk == {"disk", "suspended", "lost"}

Busy == {p \in Callers : op[p].kind # "none"}

\* The next iteration of the loop, or the return.  Mutant of the count: it stays.
SectorsKept(c) == c.num

SectorsLeft(c) == c.num - 1

Advanced(c) ==
  IF SectorsLeft(c) = 0 THEN NoCall
  ELSE [c EXCEPT !.num = SectorsLeft(c), !.blk = @ + 1, !.at = "loop", !.line = NoLine,
                    !.ok = TRUE]

Begin(p, kind, b, n, v) ==
  /\ turn = p /\ p \notin Busy
  /\ b + n <= NumBlocks
  /\ \A q \in Busy : {kind, op[q].kind} \in Beside
  /\ op' = [op EXCEPT ![p] = [kind |-> kind, at |-> "loop", blk |-> b, num |-> n,
                              line |-> NoLine, val |-> v, ok |-> TRUE]]
  /\ overlap' = (Busy # {})
  /\ UNCHANGED <<service, cache, disk, turn, doubtful>>

\* Mutant of the next operator: a search that stops before the last block.
CachedButLast(b) == {l \in Lines \ {NUM_DISK_CACHE_BLOCKS - 1} : starting_block[l] = b}

Cached(b) == {l \in Lines : starting_block[l] = b}

\* get_block: the hit counts up and every other block down; of the blocks then
\* used least the first is replaced.
Counted(hits) == [l \in Lines |-> usage_count[l] + (IF l \in hits THEN 1 ELSE -1)]

Victim(count) ==
  CHOOSE l \in Lines : \A k \in Lines : count[l] < count[k] \/ (count[l] = count[k] /\ l <= k)

InBound(count) == \A l \in Lines : count[l] \in -MaxUsage .. MaxUsage

ReadHit(p) ==
  /\ turn = p /\ op[p].kind = "read" /\ op[p].at = "loop"
  /\ LET hits == Cached(op[p].blk)
     IN  /\ hits # {}
         /\ usage_count' = Counted(hits)
         /\ InBound(usage_count')
  /\ op' = [op EXCEPT ![p] = Advanced(@)]
  /\ UNCHANGED <<service, starting_block, disk_cache, disk, turn, overlap, doubtful>>

\* The block is tagged first; the read that loads it is queued.
ReadMiss(p) ==
  /\ turn = p /\ op[p].kind = "read" /\ op[p].at = "loop"
  /\ Cached(op[p].blk) = {}
  /\ LET count == Counted({})
         l == Victim(count)
     IN  /\ usage_count' = [count EXCEPT ![l] = @ + 1]
         /\ InBound(usage_count')
         /\ starting_block' = [starting_block EXCEPT ![l] = op[p].blk]
         /\ op' = [op EXCEPT ![p].line = l, ![p].at = "disk"]
  /\ doubtful' = doubtful \ {op[p].blk}
  /\ Submit(p)
  /\ UNCHANGED <<disk_cache, disk, turn, overlap>>

\* disk_cache_write looks the block up, and _SecWrites waits for the queue to drain.
WriteFind(p) ==
  /\ turn = p /\ op[p].kind = "write" /\ op[p].at = "loop"
  /\ LET hits == Cached(op[p].blk)
     IN  op' = [op EXCEPT ![p].line = IF hits = {} THEN NoLine ELSE CHOOSE l \in hits : TRUE,
                          ![p].at = "drain"]
  /\ UNCHANGED <<service, cache, disk, turn, overlap, doubtful>>

WriteSubmit(p) ==
  /\ turn = p /\ op[p].at = "drain" /\ pending = <<>>
  /\ Submit(p)
  /\ op' = [op EXCEPT ![p].at = "disk"]
  /\ UNCHANGED <<cache, disk, turn, overlap, doubtful>>

\* The drive works off the first request; a failed write may have reached the disk.
\* A read that fails before its process has suspended will count as done.
ServeRead ==
  /\ Serve
  /\ LET c == op[Head(pending)]
     IN  /\ c.kind = "read"
         /\ \E ok \in IF "read_error" \in Faults THEN BOOLEAN ELSE {TRUE} :
              /\ disk_cache' = [disk_cache EXCEPT ![c.line] = IF ok THEN Copy(c.blk, disk[c.blk])
                                                              ELSE Junk]
              /\ op' = [op EXCEPT ![Head(pending)].ok = ok]
              /\ doubtful' = doubtful \cup (IF ~ok /\ c.at = "disk" THEN {c.blk} ELSE {})
  /\ UNCHANGED <<usage_count, starting_block, disk, turn, overlap>>

ServeWrite ==
  /\ Serve
  /\ LET c == op[Head(pending)]
     IN  /\ c.kind = "write"
         /\ \E ok \in IF "write_error" \in Faults THEN BOOLEAN ELSE {TRUE} :
              /\ disk' \in {[disk EXCEPT ![c.blk] = c.val]} \cup (IF ok THEN {} ELSE {disk})
              /\ op' = [op EXCEPT ![Head(pending)].ok = ok]
              /\ doubtful' = IF ok THEN doubtful \ {c.blk} ELSE doubtful \cup {c.blk}
  /\ UNCHANGED <<cache, turn, overlap>>

\* Mutant of the next operator: a block whose read failed keeps its tag.
TagKept(c) == starting_block

TagDropped(c) == [starting_block EXCEPT ![c.line] = NoBlock]

GivenUp(c) ==
  /\ starting_block' = TagDropped(c)
  /\ usage_count' = [usage_count EXCEPT ![c.line] = @ - 2]
  /\ InBound(usage_count')

\* que_trans returns what is left of the request only after suspend: a request that is
\* answered before, so that the queue is empty by then, counts as done, whatever the
\* answer was.
Succeeds(c) == c.at = "disk" \/ c.ok

\* get_block after _SecReads: the data is copied to the caller, or the block is given up.
ReadDone(p) ==
  /\ turn = p /\ op[p].kind = "read" /\ op[p].at \in {"disk", "suspended"}
  /\ Return(p)
  /\ IF Succeeds(op[p])
     THEN op' = [op EXCEPT ![p] = Advanced(@)] /\ UNCHANGED <<usage_count, starting_block>>
     ELSE op' = [op EXCEPT ![p] = NoCall] /\ GivenUp(op[p])
  /\ UNCHANGED <<disk_cache, disk, turn, overlap, doubtful>>

\* Mutant of the next operator: a write that leaves the cached block as it was.
WrittenAround(c) == disk_cache

WrittenThrough(c) ==
  IF c.line = NoLine THEN disk_cache
  ELSE [disk_cache EXCEPT ![c.line] = Copy(c.blk, c.val)]

\* disk_cache_write after _SecWrites: the control block found before the write is
\* used again.
WriteDone(p) ==
  /\ turn = p /\ op[p].kind = "write" /\ op[p].at \in {"disk", "suspended"}
  /\ Return(p)
  /\ IF Succeeds(op[p])
     THEN op' = [op EXCEPT ![p] = Advanced(@)] /\ disk_cache' = WrittenThrough(op[p])
     ELSE op' = [op EXCEPT ![p] = NoCall] /\ UNCHANGED disk_cache
  /\ UNCHANGED <<usage_count, starting_block, disk, turn, overlap, doubtful>>

\* The drive did not start: _SecReads and _SecWrites return an error at once, and
\* the process has not been suspended.
Refused(p) ==
  /\ "refused" \in Faults
  /\ turn = p /\ op[p].at = "disk"
  /\ Refuse(p)
  /\ op' = [op EXCEPT ![p] = NoCall]
  /\ IF op[p].kind = "write" THEN UNCHANGED <<usage_count, starting_block>>
     ELSE GivenUp(op[p])
  /\ UNCHANGED <<disk_cache, disk, turn, overlap, doubtful>>

\* The dispatcher goes on when the process sleeps or is suspended by que_trans.  If the
\* answer came after the look at the queue and before suspend, nobody wakes it.
Asleep(p) == IF p \in Range(pending) THEN "suspended" ELSE "lost"
NextTurn ==
  /\ turn \in Busy => turn \in Range(pending) \/ op[turn].at \in {"disk", "lost"}
  /\ op' = [p \in Callers |-> IF p = turn /\ p \in Busy THEN [op[p] EXCEPT !.at = Asleep(p)]
                              ELSE op[p]]
  /\ turn' = (turn + 1) % (Cardinality(Callers) + 1)
  /\ UNCHANGED <<service, cache, disk, overlap, doubtful>>

\* flush_disk_cache, from code outside the process loop whose own request took too
\* long.
Flush ==
  /\ "flush" \in Faults
  /\ turn = 0
  /\ usage_count' = [l \in Lines |-> 0]
  /\ starting_block' = [l \in Lines |-> NoBlock]
  /\ UNCHANGED <<service, disk_cache, disk, op, turn, overlap, doubtful>>

Next ==
  \/ \E p \in Callers, b \in Blocks, n \in 1 .. MaxNum, v \in Values :
       Begin(p, "read", b, n, NoCall.val) \/ Begin(p, "write", b, n, v)
  \/ \E p \in Callers :
       \/ ReadHit(p) \/ ReadMiss(p) \/ ReadDone(p)
       \/ WriteFind(p) \/ WriteSubmit(p) \/ WriteDone(p)
       \/ Refused(p)
  \/ ServeRead \/ ServeWrite
  \/ NextTurn \/ Flush

Spec == Init /\ [][Next]_vars

-----------------------------------------------------------------------------
(***************************************************************************)
(* Properties.                                                             *)
(***************************************************************************)

Copies == [block : Blocks \cup {NoBlock}, value : Values]

TypeOK ==
  /\ Range(pending) \subseteq Callers /\ answered \subseteq Callers
  /\ usage_count \in [Lines -> -MaxUsage .. MaxUsage]
  /\ starting_block \in [Lines -> Blocks \cup {NoBlock}]
  /\ disk_cache \in [Lines -> Copies]
  /\ disk \in [Blocks -> Values]
  /\ op \in [Callers -> [kind : {"none", "read", "write"},
                         at : {"out", "loop", "drain", "disk", "suspended", "lost"},
                         blk : Blocks, num : 0 .. MaxNum, line : Lines \cup {NoLine},
                         val : Values, ok : BOOLEAN]]
  /\ turn \in Callers \cup {0}
  /\ overlap \in BOOLEAN /\ doubtful \subseteq Blocks

\* No disk block is in the cache twice (get_block's search and its tags against
\* other processes' misses, failures and flushes).
TagsUnique ==
  \A k, l \in Lines : starting_block[k] = starting_block[l] /\ k # l => starting_block[k] = NoBlock

OutOfSync == {l \in Lines : starting_block[l] # NoBlock
                 /\ disk_cache[l] # Copy(starting_block[l], disk[starting_block[l]])}

\* "There is no possible way for data to be written to the disk and the disk cache
\* to be out of sync with the cached sectors": while no call is in progress, every
\* tagged block holds what the disk holds.
InSync == Busy = {} => OutOfSync = {}

\* What is true of that: while no call is in progress, only a block whose write failed,
\* or whose read failed before its process suspended, differs from the disk, and it no
\* longer does once it has been loaded anew or written in full (disk_cache_write's two
\* updates and get_block's tags against replacement, failures, retries and flushes).
OnlyFailuresDiffer == Busy = {} => \A l \in OutOfSync : starting_block[l] \in doubtful

\* A read that runs alone gives its caller what is on the disk, whatever calls came
\* before it, failed, or were flushed away, unless a transfer of this very block has
\* failed so.
Gives(p) ==
  IF op[p].at = "loop" THEN Cached(op[p].blk)
  ELSE IF op[p].at \in {"disk", "suspended"} /\ p \in answered /\ Succeeds(op[p]) THEN {op[p].line} ELSE {}
AloneReadsDisk ==
  ~overlap => \A p \in Busy : op[p].kind = "read" /\ op[p].blk \notin doubtful =>
    \A l \in Gives(p) : disk_cache[l] = Copy(op[p].blk, disk[op[p].blk])
=============================================================================
