---------------------------- MODULE GooseProcess ----------------------------
(***************************************************************************)
(* The cooperative process scheduler of the Goose game library:            *)
(* lib/goose/process.c (the process list and the calls on it), the         *)
(* dispatcher, sleep and die of lib/goose/mthread.c, and lib/goose/sema.c  *)
(* (whose operations are suspend_self and resume_process under another     *)
(* name).                                                                  *)
(*                                                                         *)
(* The list is modelled as the code has it, a doubly linked list of nodes  *)
(* with the heads plist and pfree, because what can go wrong here are the  *)
(* links, the dispatcher's cursor cur_proc and the cursors of the loops    *)
(* that delete while they walk.  A loop that deletes, and the allocation   *)
(* of nodes, take one step per iteration; a loop that only writes a field  *)
(* of every node is one step.  Names, arguments, stacks' contents and      *)
(* profiling are left out.                                                 *)
(***************************************************************************)
EXTENDS Integers, FiniteSets

CONSTANTS
  Nodes,          \* the struct process_node the heap can supply
  NULL,           \* the null pointer
  Pids,           \* values of process_id
  NODESTRUCT,     \* the process ids that carry the NODESTRUCT bit
  Ticks,          \* arguments of sleep, sleep_process, add_sleep_process_id
  Levels,         \* arguments of set_run_level and set_process_run_level
  ALLOC_NUM,      \* nodes add_process_block asks for (16 in the code)
  FreeMode,       \* resource_mode is not NO_FREE_MEMORY
  Calls,          \* the library calls the game makes in this instance
  MaxCalls        \* bound: library calls in one time slice or hook

ASSUME NullIsNoNode == NULL \notin Nodes
ASSUME FiniteNodes == IsFiniteSet(Nodes)
ASSUME PidsAssumption == Pids \subseteq Int /\ NODESTRUCT \subseteq Pids
ASSUME LevelsAssumption == Levels \subseteq Int
ASSUME AllocAssumption == ALLOC_NUM \in Nat \ {0}
ASSUME ModeAssumption == FreeMode \in BOOLEAN
ASSUME MaxCallsAssumption == MaxCalls \in Nat

-----------------------------------------------------------------------------
(***************************************************************************)
(* process_sleep_time is a signed short whose top bit (0x8000) means       *)
(* suspended.  The model keeps a word of three bits, 0 .. 2*SIGN - 1; a    *)
(* word of SIGN or more is negative.                                       *)
(***************************************************************************)
SIGN == 4
Word == 0 .. (2 * SIGN - 1)

ASSUME TicksAssumption == Ticks \subseteq 0 .. (SIGN - 1)

Ptr == Nodes \cup {NULL}

BitOf(a, b, w) == IF (a \div w) % 2 = 1 \/ (b \div w) % 2 = 1 THEN w ELSE 0
BitOr(a, b) == BitOf(a, b, 1) + BitOf(a, b, 2) + BitOf(a, b, 4)

Suspended(w) == w >= SIGN
Resumed(w) == w % SIGN
Suspend(w) == SIGN + (w % SIGN)

\* Mutants of the next two operators: a sum that is not narrowed to the word,
\* and a sleep that is assigned instead of or-ed.
PlusUnwrapped(w, t) == w + t
SleepForAssigns(w, t) == t

Plus(w, t) == (w + t) % (2 * SIGN)

\* The word sleep_process leaves for a process whose word was w.
SleepFor(w, t) ==
  LET r == BitOr(w, (t - (w % SIGN)) % (2 * SIGN))
  IN  IF r = 0 \/ Suspended(r) THEN BitOr(r, 1) ELSE r
Awake(w) == 1

-----------------------------------------------------------------------------
VARIABLES
  plist, pfree, cur_proc,   \* the globals of process.c
  sort_processes,
  next, prev,               \* the fields of each node
  process_sleep_time, process_id, process_data, process_exit, run_level,
  home,     \* which of heap, free list, active list holds each node
  phase,    \* where process_dispatch, or the process it runs, stands
  loop,     \* the library call in progress that takes several steps
  dying,    \* the process whose exit function has run, not yet deleted
  calls     \* library calls made in this slice (bounded by MaxCalls)

links == <<plist, pfree, next, prev, home, process_data>>
fields == <<process_id, process_exit, run_level>>
vars == <<plist, pfree, cur_proc, sort_processes, next, prev, process_sleep_time,
          process_id, process_data, process_exit, run_level, home, phase, loop,
          dying, calls>>

Active == {n \in Nodes : home[n] = "active"}
Free == {n \in Nodes : home[n] = "free"}

Creates == {"create_process", "create_process_immediate"}
Deletes == {"killall", "kill_everything", "delete_process_id", "delete_multiple_processs"}
Idle == [op |-> "none", ptr |-> NULL, ids |-> {}, count |-> 0]
Loops == [op : {"none"} \cup Creates \cup Deletes, ptr : Ptr, ids : SUBSET Pids,
          count : 0 .. ALLOC_NUM]

Phases == {"pre", "walk", "run", "die", "next", "post"}
Data == {"null", "block", "freed", "junk"}

Init ==
  /\ plist = NULL /\ pfree = NULL /\ cur_proc = NULL
  /\ sort_processes = FALSE
  /\ next = [n \in Nodes |-> NULL]
  /\ prev = [n \in Nodes |-> NULL]
  /\ process_sleep_time = [n \in Nodes |-> 0]
  /\ process_id = [n \in Nodes |-> 0]
  /\ process_data = [n \in Nodes |-> "junk"]
  /\ process_exit = [n \in Nodes |-> NULL]
  /\ run_level = [n \in Nodes |-> 0]
  /\ home = [n \in Nodes |-> "heap"]
  /\ phase = "pre"
  /\ loop = Idle
  /\ dying = NULL
  /\ calls = 0

\* A library call can be made by the process that runs, and by the hooks that
\* do_pre_proc and do_post_proc run with cur_proc null.
Calling(op) ==
  /\ op \in Calls
  /\ phase \in {"pre", "run", "post"}
  /\ loop = Idle /\ dying = NULL
  /\ calls < MaxCalls
  /\ calls' = calls + 1

InProcess == phase = "run"

-----------------------------------------------------------------------------
(***************************************************************************)
(* Deletion.                                                               *)
(***************************************************************************)

\* Mutants of the next two operators: delete_process that leaves cur_proc on the
\* node it deletes, and one that does not fix the successor's back link.
CursorStays(p) == cur_proc
BackLinksKept(p) == [prev EXCEPT ![p] = NULL]

CursorAfter(p) == IF p = cur_proc THEN prev[p] ELSE cur_proc
BackLinksAfter(p) ==
  [n \in Nodes |-> IF n = p THEN NULL
                   ELSE IF n = next[p] THEN (IF p = plist THEN NULL ELSE prev[p])
                   ELSE IF ~FreeMode /\ n = pfree THEN p
                   ELSE prev[n]]

\* delete_process(p) for a p on the active list: unlink it and give the node
\* to the free list, or to the heap with its stack (the links of a node on the
\* heap read as NULL: CursorLive and LoopCursorLive say nobody reads them).
Delete(p) ==
  /\ cur_proc' = CursorAfter(p)
  /\ plist' = IF p = plist THEN next[p] ELSE plist
  /\ pfree' = IF FreeMode THEN pfree ELSE p
  /\ next' = [n \in Nodes |->
                IF n = p THEN (IF FreeMode THEN NULL ELSE pfree)
                ELSE IF p # plist /\ n = prev[p] THEN next[p]
                ELSE next[n]]
  /\ prev' = BackLinksAfter(p)
  /\ home' = [home EXCEPT ![p] = IF FreeMode THEN "heap" ELSE "free"]
  /\ process_data' = IF FreeMode THEN [process_data EXCEPT ![p] = "null"] ELSE process_data

\* The exit functions of the instance kill at most one other process, which
\* has no exit function of its own, and never the process that runs.
ExitOk(p) == process_exit[p] = NULL \/ process_exit[p] # cur_proc

\* kill(p) for a p that is not the caller.  With no exit function the process
\* is deleted at once; otherwise the exit function runs first (here: kills its
\* partner, if that is still on the list) and FinishKill deletes p.
KillProc(p) ==
  IF home[p] # "active"
  THEN UNCHANGED <<links, cur_proc, dying>>
  ELSE IF process_exit[p] = NULL
  THEN Delete(p) /\ UNCHANGED dying
  ELSE /\ dying' = p
       /\ IF process_exit[p] \in Active
          THEN Delete(process_exit[p])
          ELSE UNCHANGED <<links, cur_proc>>

Kill(p) ==
  /\ Calling("kill")
  /\ p # cur_proc /\ ExitOk(p)
  /\ KillProc(p)
  /\ UNCHANGED <<sort_processes, process_sleep_time, fields, phase, loop>>

\* die: kill_current deletes the running process, and control returns to the
\* dispatcher at ___sys_wake.
Die ==
  /\ InProcess /\ loop = Idle /\ dying = NULL
  /\ IF process_exit[cur_proc] = NULL
     THEN Delete(cur_proc) /\ phase' = "next" /\ UNCHANGED dying
     ELSE /\ dying' = cur_proc /\ phase' = "die"
          /\ IF process_exit[cur_proc] \in Active
             THEN Delete(process_exit[cur_proc])
             ELSE UNCHANGED <<links, cur_proc>>
  /\ calls' = 0
  /\ UNCHANGED <<sort_processes, process_sleep_time, fields, loop>>

FinishKill ==
  /\ dying # NULL
  /\ Delete(dying)
  /\ dying' = NULL
  /\ phase' = IF phase = "die" THEN "next" ELSE phase
  /\ UNCHANGED <<sort_processes, process_sleep_time, fields, loop, calls>>

\* process_exit is a public field: the game stores its exit function there.
SetExit(p, q) ==
  /\ Calling("process_exit")
  /\ p # q /\ {p, q} \subseteq Active
  /\ process_exit[q] = NULL /\ \A k \in Nodes : process_exit[k] # p
  /\ process_exit' = [process_exit EXCEPT ![p] = q]
  /\ UNCHANGED <<links, cur_proc, sort_processes, process_sleep_time, process_id,
                 run_level, phase, loop, dying>>

\* killall's mask always covers the NODESTRUCT bit, so the ids it matches all
\* carry the bit or all lack it.
Matchable(op, ids) ==
  IF op = "killall" THEN ids \subseteq NODESTRUCT \/ ids \cap NODESTRUCT = {}
  ELSE IF op = "kill_everything" THEN ids = Pids
  ELSE IF op = "delete_process_id" THEN Cardinality(ids) = 1
  ELSE TRUE

SkipsCaller(op) == op \in {"killall", "kill_everything"}

\* The calls that walk the active list and delete: the walk begins at plist.
\* delete_process_id and delete_multiple_processs do not spare the caller, so
\* the caller must not match.
DeleteCall(op, ids) ==
  /\ Calling(op)
  /\ Matchable(op, ids)
  /\ IF SkipsCaller(op)
     THEN \A n \in Active : ExitOk(n)
     ELSE cur_proc # NULL => process_id[cur_proc] \notin ids
  /\ loop' = [op |-> op, ptr |-> plist, ids |-> ids, count |-> 0]
  /\ UNCHANGED <<links, cur_proc, sort_processes, process_sleep_time, fields, phase, dying>>

\* Mutants of the next two operators: the next pointer read after the deletion,
\* and a loop that returns at the first match.
NextReadLate(p) == next'[p]
AlwaysReturns(op) == TRUE

SavedNext(p) == next[p]
Returns(op) == op = "delete_process_id"

\* One iteration: the next pointer is saved before the node is deleted.
DeleteStep ==
  /\ loop.op \in Deletes /\ dying = NULL /\ loop.ptr # NULL
  /\ LET p == loop.ptr
         hit == process_id[p] \in loop.ids /\ ~(SkipsCaller(loop.op) /\ p = cur_proc)
     IN  /\ IF ~hit THEN UNCHANGED <<links, cur_proc, dying>>
            ELSE IF SkipsCaller(loop.op) THEN KillProc(p)
            ELSE Delete(p) /\ UNCHANGED dying
         /\ loop' = IF hit /\ Returns(loop.op)
                    THEN [loop EXCEPT !.ptr = NULL]
                    ELSE [loop EXCEPT !.ptr = SavedNext(p)]
  /\ UNCHANGED <<sort_processes, process_sleep_time, fields, phase, calls>>

DeleteDone ==
  /\ loop.op \in Deletes /\ dying = NULL /\ loop.ptr = NULL
  /\ loop' = Idle
  /\ UNCHANGED <<links, cur_proc, sort_processes, process_sleep_time, fields, phase,
                 dying, calls>>

\* Mutant of the next operator: the stack pointers are not reset.
StacksDangle == [n \in Nodes |-> IF n \in Active THEN "freed" ELSE process_data[n]]

StacksCleared == [n \in Nodes |-> IF n \in Active THEN "null" ELSE process_data[n]]

\* clear_process_list frees every stack and links the whole active list in
\* front of the free list.  It leaves cur_proc alone, so only code that is not
\* a process (a hook) can call it.
ClearProcessList ==
  /\ Calling("clear_process_list")
  /\ ~InProcess
  /\ IF plist = NULL
     THEN UNCHANGED links
     ELSE \E last \in Active :
            /\ next[last] = NULL
            /\ next' = [next EXCEPT ![last] = pfree]
            /\ prev' = IF pfree = NULL THEN prev ELSE [prev EXCEPT ![pfree] = last]
            /\ pfree' = plist
            /\ plist' = NULL
            /\ home' = [n \in Nodes |-> IF n \in Active THEN "free" ELSE home[n]]
            /\ process_data' = StacksCleared
  /\ UNCHANGED <<cur_proc, sort_processes, process_sleep_time, fields, phase, loop, dying>>

\* clear_free_process_list (from the texture loader, when memory runs out).
ClearFreeProcessList ==
  /\ Calling("clear_free_process_list")
  /\ pfree' = NULL
  /\ home' = [n \in Nodes |-> IF n \in Free THEN "heap" ELSE home[n]]
  /\ process_data' = [n \in Nodes |-> IF n \in Free THEN "freed" ELSE process_data[n]]
  /\ UNCHANGED <<plist, cur_proc, next, prev, sort_processes, process_sleep_time, fields,
                 phase, loop, dying>>

-----------------------------------------------------------------------------
(***************************************************************************)
(* Creation.                                                               *)
(***************************************************************************)

CreateCall(op, id) ==
  /\ Calling(op)
  /\ op = "create_process_immediate" => InProcess
  /\ loop' = [op |-> op, ptr |-> NULL, ids |-> {id}, count |-> 0]
  /\ UNCHANGED <<links, cur_proc, sort_processes, process_sleep_time, fields, phase, dying>>

\* add_process_block is called with an empty free list and asks the heap for
\* BlockSize nodes, until one request fails.
BlockSize == IF FreeMode THEN 1 ELSE ALLOC_NUM
Growing == /\ loop.op \in Creates
           /\ loop.count < BlockSize
           /\ pfree = NULL \/ loop.count > 0

AddBlockNode(n) ==
  /\ Growing
  /\ home[n] = "heap"
  /\ pfree' = IF loop.count = 0 THEN n ELSE pfree
  /\ next' = [m \in Nodes |-> IF m = n THEN NULL
                              ELSE IF m = loop.ptr THEN n ELSE next[m]]
  /\ prev' = [prev EXCEPT ![n] = loop.ptr]
  /\ home' = [home EXCEPT ![n] = "free"]
  /\ \E d \in IF FreeMode THEN {"null", "junk"} ELSE {"null"} :
       process_data' = [process_data EXCEPT ![n] = d]
  /\ process_id' = [process_id EXCEPT ![n] = 0]
  /\ loop' = [loop EXCEPT !.ptr = n, !.count = @ + 1]
  /\ UNCHANGED <<plist, cur_proc, sort_processes, process_sleep_time, process_exit,
                 run_level, phase, dying, calls>>

BlockMallocFails ==
  /\ Growing
  /\ loop' = [loop EXCEPT !.count = BlockSize]
  /\ UNCHANGED <<links, cur_proc, sort_processes, process_sleep_time, fields, phase,
                 dying, calls>>

\* The head of the free list becomes the head of the active list, or the node
\* after the caller's.
CreateNode ==
  /\ loop.op \in Creates /\ ~Growing /\ pfree # NULL
  /\ LET pn == pfree
         rest == next[pfree]
         front == loop.op = "create_process"
         after == IF front THEN plist ELSE next[cur_proc]
     IN  /\ pfree' = rest
         /\ plist' = IF front THEN pn ELSE plist
         /\ next' = [n \in Nodes |-> IF n = pn THEN after
                                     ELSE IF ~front /\ n = cur_proc THEN pn
                                     ELSE next[n]]
         /\ prev' = [n \in Nodes |-> IF n = pn THEN (IF front THEN NULL ELSE cur_proc)
                                     ELSE IF n = after THEN pn
                                     ELSE IF n = rest THEN NULL
                                     ELSE prev[n]]
         /\ home' = [home EXCEPT ![pn] = "active"]
         /\ process_data' = [process_data EXCEPT ![pn] = "block"]
         /\ process_sleep_time' = [process_sleep_time EXCEPT ![pn] = 1]
         /\ \E id \in loop.ids : process_id' = [process_id EXCEPT ![pn] = id]
         /\ process_exit' = [process_exit EXCEPT ![pn] = NULL]
         /\ run_level' = [run_level EXCEPT ![pn] = 0]
  /\ loop' = Idle
  /\ UNCHANGED <<cur_proc, sort_processes, phase, dying, calls>>

\* No node, or realloc returned 0: the node stays at the head of the free list
\* with process_data overwritten.
CreateFails ==
  /\ loop.op \in Creates /\ ~Growing
  /\ process_data' = IF pfree = NULL THEN process_data
                     ELSE [process_data EXCEPT ![pfree] = "null"]
  /\ loop' = Idle
  /\ UNCHANGED <<plist, pfree, next, prev, home, cur_proc, sort_processes,
                 process_sleep_time, fields, phase, dying, calls>>

-----------------------------------------------------------------------------
(***************************************************************************)
(* Sleeping, suspending and waking.                                        *)
(***************************************************************************)

\* The word of every process on the list that S names becomes f(word).
Retime(S, f(_)) ==
  process_sleep_time' = [n \in Nodes |-> IF n \in S \cap Active
                                         THEN f(process_sleep_time[n])
                                         ELSE process_sleep_time[n]]

WithId(id) == {n \in Active : process_id[n] = id}

Timing(op) == Calling(op) /\ UNCHANGED <<links, cur_proc, sort_processes, fields, phase, loop, dying>>

SleepProcess(p, t) ==
  LET slept(w) == SleepFor(w, t)
  IN  Timing("sleep_process") /\ Retime({p}, slept)
AddSleepProcessId(id, t) ==
  LET added(w) == Plus(w, t)
  IN  Timing("add_sleep_process_id") /\ Retime(WithId(id), added)
WakeupProcess(p) == Timing("wakeup_process") /\ Retime({p}, Awake)
WakeupProcessId(id) == Timing("wakeup_process_id") /\ Retime(WithId(id), Awake)
SuspendProcess(p) == Timing("suspend_process") /\ Retime({p}, Suspend)
SuspendAll == Timing("suspend_all") /\ Retime(Active \ {cur_proc}, Suspend)
SuspendMultiple(ids) ==
  /\ Timing("suspend_multiple_processes")
  /\ Retime({n \in Active \ {cur_proc} : process_id[n] \in ids}, Suspend)
ResumeAll == Timing("resume_all") /\ Retime(Active, Resumed)
ResumeMultiple(ids) ==
  /\ Timing("resume_multiple_processes")
  /\ Retime({n \in Active : process_id[n] \in ids}, Resumed)

\* resume_process is also the disk interrupt's way to wake a process (and
\* send_semaphore's), so it can come at any time.
ResumeProcess(p) ==
  /\ "resume_process" \in Calls
  /\ Suspended(process_sleep_time[p])
  /\ Retime({p}, Resumed)
  /\ UNCHANGED <<links, cur_proc, sort_processes, fields, phase, loop, dying, calls>>

\* sleep: the ticks are or-ed into the word, and the dispatcher goes on.
Sleep(t) ==
  /\ InProcess /\ loop = Idle /\ dying = NULL
  /\ process_sleep_time' = [process_sleep_time EXCEPT ![cur_proc] = BitOr(@, t)]
  /\ phase' = "next"
  /\ calls' = 0
  /\ UNCHANGED <<links, cur_proc, sort_processes, fields, loop, dying>>

SuspendSelf ==
  /\ "suspend_self" \in Calls
  /\ InProcess /\ loop = Idle /\ dying = NULL
  /\ process_sleep_time' = [process_sleep_time EXCEPT ![cur_proc] = BitOr(Suspend(@), 1)]
  /\ phase' = "next"
  /\ calls' = 0
  /\ UNCHANGED <<links, cur_proc, sort_processes, fields, loop, dying>>

-----------------------------------------------------------------------------
(***************************************************************************)
(* Ids and run levels.                                                     *)
(***************************************************************************)

SetPid(id) ==
  /\ Calling("set_pid")
  /\ cur_proc # NULL
  /\ process_id' = [process_id EXCEPT ![cur_proc] = id]
  /\ UNCHANGED <<links, cur_proc, sort_processes, process_sleep_time, process_exit,
                 run_level, phase, loop, dying>>

\* set_run_level is this call on the caller itself.
SetProcessRunLevel(p, l) ==
  /\ Calling("set_process_run_level")
  /\ p \in Active
  /\ run_level' = [run_level EXCEPT ![p] = l]
  /\ sort_processes' = TRUE
  /\ UNCHANGED <<links, cur_proc, process_sleep_time, process_id, process_exit, phase,
                 loop, dying>>

-----------------------------------------------------------------------------
(***************************************************************************)
(* process_dispatch.                                                       *)
(***************************************************************************)

InSystem == loop = Idle /\ dying = NULL

StartPass ==
  /\ phase = "pre" /\ InSystem
  /\ cur_proc' = plist
  /\ phase' = "walk"
  /\ calls' = 0
  /\ UNCHANGED <<links, sort_processes, process_sleep_time, fields, loop, dying>>

\* Mutant of the next operator: the sleep time is tested before it counts down.
DueLate(w) == w = 0

Due(w) == w = 1

\* Only a positive sleep time counts down; the process runs when it reaches 0.
Visit ==
  /\ phase = "walk" /\ cur_proc # NULL
  /\ LET w == process_sleep_time[cur_proc]
         awake == 0 < w /\ ~Suspended(w)
     IN  /\ process_sleep_time' = IF awake
                                  THEN [process_sleep_time EXCEPT ![cur_proc] = w - 1]
                                  ELSE process_sleep_time
         /\ phase' = IF awake /\ Due(w) THEN "run" ELSE "next"
  /\ UNCHANGED <<links, cur_proc, sort_processes, fields, loop, dying, calls>>

\* Mutant of Advance: the walk ends when the head of the list dies.
AdvanceDropsRest ==
  /\ phase = "next"
  /\ cur_proc' = IF cur_proc # NULL THEN next[cur_proc] ELSE NULL
  /\ phase' = "walk"
  /\ UNCHANGED <<links, sort_processes, process_sleep_time, fields, loop, dying, calls>>

\* A null cursor here means that the head of the list died in its slice.
Advance ==
  /\ phase = "next"
  /\ cur_proc' = IF cur_proc # NULL THEN next[cur_proc] ELSE plist
  /\ phase' = "walk"
  /\ UNCHANGED <<links, sort_processes, process_sleep_time, fields, loop, dying, calls>>

EndPass ==
  /\ phase = "walk" /\ cur_proc = NULL
  /\ phase' = "post"
  /\ calls' = 0
  /\ UNCHANGED <<links, cur_proc, sort_processes, process_sleep_time, fields, loop, dying>>

\* The orders qsort may leave: any bijection to positions that is ascending in
\* run_level (qsort is not stable).
Positions == 1 .. Cardinality(Active)
SortedOrders ==
  {pos \in [Active -> Positions] :
     /\ \A i \in Positions : \E n \in Active : pos[n] = i
     /\ \A m, n \in Active : (m # n => pos[m] # pos[n])
                             /\ (run_level[m] < run_level[n] => pos[m] < pos[n])}

At(pos, i) == IF i \in Positions THEN CHOOSE n \in Active : pos[n] = i ELSE NULL

\* Mutants of Relink: the last node keeps its old successor, and the back links
\* are not rewritten.
RelinkOpenEnd(pos) ==
  /\ plist' = At(pos, 1)
  /\ next' = [n \in Nodes |-> IF n \in Active /\ pos[n] + 1 \in Positions
                              THEN At(pos, pos[n] + 1) ELSE next[n]]
  /\ prev' = [n \in Nodes |-> IF n \in Active THEN At(pos, pos[n] - 1) ELSE prev[n]]
RelinkForward(pos) ==
  /\ plist' = At(pos, 1)
  /\ next' = [n \in Nodes |-> IF n \in Active THEN At(pos, pos[n] + 1) ELSE next[n]]
  /\ prev' = prev

Relink(pos) ==
  /\ plist' = At(pos, 1)
  /\ next' = [n \in Nodes |-> IF n \in Active THEN At(pos, pos[n] + 1) ELSE next[n]]
  /\ prev' = [n \in Nodes |-> IF n \in Active THEN At(pos, pos[n] - 1) ELSE prev[n]]

\* do_process_sort: the flag is reset first, so a failed malloc loses the
\* request.
DoProcessSort ==
  /\ phase = "post" /\ InSystem
  /\ sort_processes' = FALSE
  /\ \/ /\ sort_processes /\ Cardinality(Active) > 1
        /\ \E pos \in SortedOrders : Relink(pos)
     \/ UNCHANGED <<plist, next, prev>>
  /\ ~sort_processes => UNCHANGED <<plist, next, prev>>
  /\ phase' = "pre"
  /\ calls' = 0
  /\ UNCHANGED <<pfree, cur_proc, home, process_data, process_sleep_time, fields, loop, dying>>

Dispatch == StartPass \/ Visit \/ Advance \/ EndPass \/ DoProcessSort

\* The steps that end a call or a slice.
Finish == DeleteStep \/ DeleteDone \/ FinishKill \/ CreateNode \/ CreateFails
Grow == BlockMallocFails \/ \E n \in Nodes : AddBlockNode(n)
Yield == Die \/ SuspendSelf \/ \E t \in Ticks : Sleep(t)

ProcessCalls ==
  \/ \E p \in Nodes : Kill(p)
  \/ \E p, q \in Nodes : SetExit(p, q)
  \/ \E op \in Deletes, ids \in SUBSET Pids : DeleteCall(op, ids)
  \/ ClearProcessList
  \/ ClearFreeProcessList
  \/ \E op \in Creates, id \in Pids : CreateCall(op, id)
  \/ \E id \in Pids : SetPid(id)
  \/ \E p \in Nodes, l \in Levels : SetProcessRunLevel(p, l)

TimingCalls ==
  \/ \E p \in Nodes, t \in Ticks : SleepProcess(p, t)
  \/ \E id \in Pids, t \in Ticks : AddSleepProcessId(id, t)
  \/ \E p \in Nodes : WakeupProcess(p)
  \/ \E id \in Pids : WakeupProcessId(id)
  \/ \E p \in Nodes : SuspendProcess(p)
  \/ SuspendAll
  \/ \E ids \in SUBSET Pids : SuspendMultiple(ids)
  \/ ResumeAll
  \/ \E ids \in SUBSET Pids : ResumeMultiple(ids)
  \/ \E p \in Nodes : ResumeProcess(p)

Next == Dispatch \/ Finish \/ Grow \/ Yield \/ ProcessCalls \/ TimingCalls

Spec == Init /\ [][Next]_vars

\* The dispatcher never stops, a call finishes, and a process that runs gives
\* up its slice: the scheduling is cooperative, nothing else is promised.
Fairness == WF_vars(Dispatch) /\ WF_vars(Finish) /\ WF_vars(Grow) /\ WF_vars(Yield)
FairSpec == Spec /\ Fairness

-----------------------------------------------------------------------------
(***************************************************************************)
(* Properties.                                                             *)
(***************************************************************************)

\* Every variable has its type.
TypeOK ==
  /\ plist \in Ptr /\ pfree \in Ptr /\ cur_proc \in Ptr
  /\ sort_processes \in BOOLEAN
  /\ next \in [Nodes -> Ptr] /\ prev \in [Nodes -> Ptr]
  /\ process_sleep_time \in [Nodes -> Word]
  /\ process_id \in [Nodes -> Pids \cup {0}]
  /\ process_data \in [Nodes -> Data]
  /\ process_exit \in [Nodes -> Ptr]
  /\ run_level \in [Nodes -> Levels \cup {0}]
  /\ home \in [Nodes -> {"heap", "free", "active"}]
  /\ phase \in Phases
  /\ loop \in Loops
  /\ dying \in Ptr
  /\ calls \in 0 .. MaxCalls

\* The nodes met by following f from p: those in every set of nodes that holds
\* p and all that f leads to from it.
Leads(f, S) == \A n \in S : f[n] # NULL => f[n] \in S
Follow(f, p) ==
  IF p = NULL THEN {}
  ELSE {n \in Nodes : \A S \in SUBSET Nodes : p \in S /\ Leads(f, S) => n \in S}
Reach(p) == Follow(next, p)

\* The list that begins at p comes to an end.
Ends(p) == p # NULL => \E n \in Reach(p) : next[n] = NULL

\* After every step of every call the active list holds exactly the live
\* processes, the free list exactly the free nodes, both end, and the back
\* links of the active list match: no node is lost, linked twice, or on both
\* lists (process.c's unlinking in delete_process against its two pushes).
ListsExact ==
  /\ Ends(plist) /\ Reach(plist) = Active
  /\ Ends(pfree) /\ Reach(pfree) = Free
  /\ plist # NULL => prev[plist] = NULL
  /\ \A n \in Active : next[n] # NULL => prev[next[n]] = n

\* The dispatcher's cursor never points at a node that has left the list, so
\* cur_proc->next is never read from the free list (delete_process moves
\* cur_proc back when it deletes it).
CursorLive ==
  /\ cur_proc \in Active \cup {NULL}
  /\ phase \in {"run", "die"} => cur_proc # NULL
  /\ dying \in Active \cup {NULL}

\* The links, stated pointer by pointer: each neighbour of a node on the active
\* list is on the list and points back, only the head has no predecessor, and
\* the free list is a chain of free nodes that nothing enters at its head.
LinksLocal ==
  /\ plist \in Active \cup {NULL}
  /\ plist # NULL => prev[plist] = NULL
  /\ \A n \in Active : next[n] = NULL \/ (next[n] \in Active /\ prev[next[n]] = n)
  /\ \A n \in Active : \/ prev[n] = NULL /\ n = plist
                       \/ prev[n] \in Active /\ next[prev[n]] = n
  /\ pfree \in Free \cup {NULL}
  /\ \A n \in Free : next[n] = NULL \/ (next[n] \in Free /\ next[n] # pfree)
  /\ \A m, n \in Free : next[m] = next[n] /\ next[m] # NULL => m = n

\* What holds of the control state while a call is in progress, in particular
\* why a deletion that is in progress never hits the process that runs.
ControlInv ==
  /\ phase \in {"pre", "post"} => cur_proc = NULL
  /\ phase \in {"walk", "next"} => loop = Idle /\ dying = NULL
  /\ phase = "die" => dying = cur_proc /\ loop = Idle
  /\ phase # "die" /\ dying # NULL => dying # cur_proc
  /\ dying # NULL => loop = Idle \/ SkipsCaller(loop.op)
  /\ loop.op \in Creates => /\ loop.ptr \in Free \cup {NULL}
                            /\ loop.count = 0 => loop.ptr = NULL
                            /\ loop.ids \cap Pids # {}
                            /\ loop.op = "create_process_immediate" => phase = "run"
  /\ \A n \in Nodes : process_exit[n] # n
  /\ SkipsCaller(loop.op) => \A n \in Active : ExitOk(n)
  /\ loop.op \in Deletes /\ ~SkipsCaller(loop.op) =>
       /\ loop.ptr \in Active \cup {NULL}
       /\ cur_proc # NULL => process_id[cur_proc] \notin loop.ids

\* The inductive invariant behind CursorLive.
IInv == TypeOK /\ LinksLocal /\ CursorLive /\ ControlInv

\* The saved next pointer of a loop that deletes is still on the list when the
\* loop uses it (killall, kill_everything, delete_multiple_processs).
LoopCursorLive == loop.op \in Deletes => loop.ptr \in Active \cup {NULL}

\* A process on the list owns a stack, and no free node keeps a pointer to a
\* stack that was freed (create_process reallocs it).
StacksOwned ==
  /\ \A n \in Active : process_data[n] = "block"
  /\ ~FreeMode => \A n \in Free : process_data[n] \in {"null", "block"}

\* killall: "kill all processes except self that match 'process_id' and 'mask'":
\* when the walk is over no other process that matches is left.
KillallComplete ==
  (loop.op \in {"killall", "kill_everything"} /\ loop.ptr = NULL /\ dying = NULL)
    => \A n \in Active \ {cur_proc} : process_id[n] \notin loop.ids

\* Nothing but a resume, a wakeup or the arithmetic of add_sleep_process_id
\* ends a suspension: putting a suspended process to sleep, or the dispatcher's
\* countdown, does not.
SuspensionHolds ==
  [][\A n \in Active :
       (Suspended(process_sleep_time[n]) /\ ~Suspended(process_sleep_time'[n]))
       => \/ \E p \in Nodes : ResumeProcess(p) \/ WakeupProcess(p)
          \/ ResumeAll
          \/ \E ids \in SUBSET Pids : ResumeMultiple(ids)
          \/ \E id \in Pids : WakeupProcessId(id)
          \/ \E id \in Pids, t \in Ticks : AddSleepProcessId(id, t)]_vars

\* A Walk of the list meets each process once per tick: GooseProcess, seen as
\* sets, implements GooseTick.
Rest == IF phase \in {"run", "die"} THEN Reach(next[cur_proc])
        ELSE IF phase = "walk" THEN Reach(cur_proc)
        ELSE IF phase = "next" THEN (IF cur_proc = NULL THEN Reach(plist)
                                     ELSE Reach(next[cur_proc]))
        ELSE {}
Tick == INSTANCE GooseTick WITH
          Procs <- Nodes, NoProc <- NULL, TimeWords <- 1 .. (SIGN - 1),
          live <- Reach(plist), todo <- Rest,
          running <- IF phase \in {"run", "die"} THEN cur_proc ELSE NULL,
          open <- phase \notin {"pre", "post"},
          timer <- process_sleep_time

\* Each tick looks at each live process exactly once and counts its sleep time
\* down by one, whoever is created or dies meanwhile (in particular when the
\* head or the last process of the list dies, mthread.c's POSSIBLE BUG).
ImplementsTick == Tick!TickSpec

\* Other processes lengthen a sleep (sleep_process, add_sleep_process_id).
Lengthened ==
  \E n \in Active : /\ ~(phase = "run" /\ cur_proc = n)
                    /\ process_sleep_time[n] < process_sleep_time'[n]
                    /\ ~Suspended(process_sleep_time'[n])

\* A process that is asleep and not suspended runs, is suspended or is removed, however
\* many others are created, run and die around it in every tick: provided that others do
\* not lengthen sleeps for ever, and that every tick ends.  The second is not the code's
\* to promise: a process that creates the next with create_process_immediate and dies,
\* which creates the next in turn, keeps the dispatcher in one walk of the list, and
\* whoever is behind them, or was passed already, is not counted down again.
NoStarvation ==
  (<>[][~Lengthened]_vars /\ []<>(phase = "post")) =>
    \A n \in Nodes :
      (n \in Active /\ process_sleep_time[n] \in 1 .. (SIGN - 1))
        ~> (\/ phase = "run" /\ cur_proc = n
            \/ n \notin Active
            \/ Suspended(process_sleep_time[n]))
=============================================================================
