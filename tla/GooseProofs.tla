---------------------------- MODULE GooseProofs -----------------------------
(***************************************************************************)
(* Proofs about GooseProcess for every set of nodes, ids, ticks and calls: *)
(* its types, that the dispatcher's cursor never points at a node that has *)
(* left the active list, and, on top of that inductive invariant: both     *)
(* lists hold exactly the nodes they should, killall finds every process   *)
(* that matches, a suspension holds, and each tick looks at each process   *)
(* exactly once (GooseTick).                                               *)
(***************************************************************************)
EXTENDS GooseProcess, FiniteSetTheorems, WellFoundedInduction, TLAPS

\* What the parts of delete_process and of the loops around it compute is used
\* throughout.
USE DEF CursorAfter, BackLinksAfter, SavedNext, StacksCleared, Plus

\* The active list has no cycle: some ranking of the nodes rises along next.
Ordered ==
  \E rank \in [Nodes -> Int] :
    \A n \in Active : next[n] # NULL => rank[n] < rank[next[n]]

\* The inductive invariant: what TLC checks as IInv, and the absence of cycles
\* (a node of a cycle could be its own predecessor, and delete_process would
\* leave cur_proc on the node it deletes).
Inductive == IInv /\ Ordered

\* The arithmetic of the sleep words stays within the word.
LEMMA WordArith ==
  /\ \A a, b \in Word : BitOr(a, b) \in Word
  /\ \A w \in Word : Suspend(w) \in Word /\ Resumed(w) \in Word
  /\ \A w, t \in Word : (w + t) % (2 * SIGN) \in Word
  /\ \A w \in Word, t \in 0 .. (SIGN - 1) : SleepFor(w, t) \in Word
<1>1. \A a, b \in Word : BitOr(a, b) \in Word
  BY DEF Word, SIGN, BitOr, BitOf
<1>2. \A w \in Word : Suspend(w) \in Word /\ Resumed(w) \in Word
  BY DEF Word, SIGN, Suspend, Resumed
<1>3. \A w, t \in Word : (w + t) % (2 * SIGN) \in Word
  BY DEF Word, SIGN
<1>4. ASSUME NEW w \in Word, NEW t \in 0 .. (SIGN - 1)
      PROVE  SleepFor(w, t) \in Word
  <2>1. (t - (w % SIGN)) % (2 * SIGN) \in Word
    BY DEF Word, SIGN
  <2>2. 1 \in Word
    BY DEF Word, SIGN
  <2> QED BY <1>1, <2>1, <2>2 DEF SleepFor
<1> QED BY <1>1, <1>2, <1>3, <1>4

\* delete_process keeps every link on both lists local and consistent.
LEMMA DeleteLinks ==
  ASSUME TypeOK, LinksLocal, Ordered, NEW p \in Active, Delete(p)
  PROVE  /\ LinksLocal'
         /\ Ordered'
         /\ Active' = Active \ {p}
         /\ Free' = IF FreeMode THEN Free ELSE Free \cup {p}
         /\ plist' \in Ptr /\ pfree' \in Ptr /\ cur_proc' \in Ptr
         /\ next' \in [Nodes -> Ptr] /\ prev' \in [Nodes -> Ptr]
         /\ home' \in [Nodes -> {"heap", "free", "active"}]
         /\ process_data' \in [Nodes -> Data]
<1> USE NullIsNoNode, ModeAssumption
<1>0. p \in Nodes /\ home[p] = "active"
  BY DEF Active
<1>1. Active' = Active \ {p}
  BY <1>0 DEF Delete, Active, TypeOK
<1>2. Free' = IF FreeMode THEN Free ELSE Free \cup {p}
  BY <1>0 DEF Delete, Free, TypeOK
<1>3. /\ plist' \in Ptr /\ pfree' \in Ptr /\ cur_proc' \in Ptr
      /\ next' \in [Nodes -> Ptr] /\ prev' \in [Nodes -> Ptr]
      /\ home' \in [Nodes -> {"heap", "free", "active"}]
      /\ process_data' \in [Nodes -> Data]
  BY <1>0 DEF Delete, TypeOK, Ptr, Data
<1>4. Active \cap Free = {} /\ Active \subseteq Nodes /\ Free \subseteq Nodes
  BY DEF Active, Free
<1>5. LinksLocal'
  <2>1. /\ plist' \in Active' \cup {NULL}
        /\ plist' # NULL => prev'[plist'] = NULL
    BY <1>0, <1>1, <1>4 DEF Delete, LinksLocal, TypeOK, Ptr
  <2>2. ASSUME NEW n \in Active'
        PROVE  next'[n] = NULL \/ (next'[n] \in Active' /\ prev'[next'[n]] = n)
    BY <1>0, <1>1, <1>4 DEF Delete, LinksLocal, TypeOK, Ptr
  <2>3. ASSUME NEW n \in Active'
        PROVE  \/ prev'[n] = NULL /\ n = plist'
               \/ prev'[n] \in Active' /\ next'[prev'[n]] = n
    BY <1>0, <1>1, <1>4 DEF Delete, LinksLocal, TypeOK, Ptr
  <2>4. pfree' \in Free' \cup {NULL}
    BY <1>0, <1>2 DEF Delete, LinksLocal
  <2>5. ASSUME NEW n \in Free'
        PROVE  next'[n] = NULL \/ (next'[n] \in Free' /\ next'[n] # pfree')
    BY <1>0, <1>2, <1>4 DEF Delete, LinksLocal, TypeOK, Ptr
  <2>6. ASSUME NEW m \in Free', NEW n \in Free', next'[m] = next'[n], next'[m] # NULL
        PROVE  m = n
    BY <1>0, <1>2, <1>4, <2>6 DEF Delete, LinksLocal, TypeOK, Ptr
  <2> QED BY <2>1, <2>2, <2>3, <2>4, <2>5, <2>6 DEF LinksLocal
<1>6. Ordered'
  <2>1. PICK rank \in [Nodes -> Int] :
          \A n \in Active : next[n] # NULL => rank[n] < rank[next[n]]
    BY DEF Ordered
  <2>2. ASSUME NEW n \in Active', next'[n] # NULL
        PROVE  rank[n] < rank[next'[n]]
    <3>1. n \in Active /\ n # p /\ n \in Nodes
      BY <1>1, <1>4
    <3>2. CASE p # plist /\ n = prev[p]
      <4>1. next[n] = p /\ next'[n] = next[p] /\ next[p] # NULL
        BY <1>0, <2>2, <3>1, <3>2 DEF Delete, LinksLocal
      <4>2. rank[n] < rank[p] /\ rank[p] < rank[next[p]]
        BY <1>0, <2>1, <3>1, <4>1
      <4>3. next[p] \in Nodes
        BY <1>0, <4>1 DEF TypeOK, Ptr
      <4> QED BY <1>0, <3>1, <4>1, <4>2, <4>3
    <3>3. CASE ~(p # plist /\ n = prev[p])
      BY <2>1, <2>2, <3>1, <3>3 DEF Delete
    <3> QED BY <3>2, <3>3
  <2> QED BY <2>2 DEF Ordered
<1> QED BY <1>1, <1>2, <1>3, <1>5, <1>6

\* A step that leaves the links alone leaves the lists alone.
LEMMA SameLinks ==
  ASSUME LinksLocal, Ordered, UNCHANGED links
  PROVE  LinksLocal' /\ Ordered' /\ Active' = Active /\ Free' = Free
BY DEF LinksLocal, Ordered, links, Active, Free

\* No node of the active list is its own neighbour.
LEMMA NoSelfLink ==
  ASSUME TypeOK, LinksLocal, Ordered, NEW p \in Active
  PROVE  next[p] # p /\ prev[p] # p
<1>1. PICK rank \in [Nodes -> Int] :
        \A n \in Active : next[n] # NULL => rank[n] < rank[next[n]]
  BY DEF Ordered
<1>2. p \in Nodes /\ p # NULL
  BY NullIsNoNode DEF Active
<1>3. next[p] # p
  BY <1>1, <1>2
<1> QED BY <1>2, <1>3 DEF LinksLocal

\* kill(p), with the first half of its exit function, for a p that is not the
\* caller: the lists stay consistent and the caller stays on its list.
LEMMA KillKeeps ==
  ASSUME Inductive, NEW p \in Nodes, p # cur_proc, ExitOk(p), dying = NULL, KillProc(p)
  PROVE  /\ LinksLocal' /\ Ordered'
         /\ plist' \in Ptr /\ pfree' \in Ptr
         /\ next' \in [Nodes -> Ptr] /\ prev' \in [Nodes -> Ptr]
         /\ home' \in [Nodes -> {"heap", "free", "active"}]
         /\ process_data' \in [Nodes -> Data]
         /\ cur_proc' = cur_proc
         /\ cur_proc \in Active' \cup {NULL}
         /\ Active' \subseteq Active
         /\ dying' \in Active' \cup {NULL}
         /\ dying' # NULL => dying' # cur_proc
<1> USE NullIsNoNode
<1>1. CASE home[p] # "active"
  BY <1>1, SameLinks DEF KillProc, Inductive, IInv, TypeOK, CursorLive, links
<1>2. CASE home[p] = "active" /\ process_exit[p] = NULL
  <2>1. p \in Active /\ Delete(p) /\ dying' = dying
    BY <1>2 DEF KillProc, Active
  <2> QED BY <2>1, DeleteLinks DEF Inductive, IInv, Delete, CursorLive
<1>3. CASE home[p] = "active" /\ process_exit[p] # NULL /\ process_exit[p] \in Active
  <2> DEFINE q == process_exit[p]
  <2>1. q \in Active /\ q # cur_proc /\ q # p /\ p \in Active
    BY <1>3 DEF ExitOk, Inductive, IInv, ControlInv, Active
  <2>2. Delete(q) /\ dying' = p
    BY <1>3 DEF KillProc
  <2>3. cur_proc' = cur_proc
    BY <2>1, <2>2 DEF Delete
  <2> HIDE DEF q
  <2> QED BY <2>1, <2>2, <2>3, DeleteLinks DEF Inductive, IInv, CursorLive
<1>4. CASE home[p] = "active" /\ process_exit[p] # NULL /\ process_exit[p] \notin Active
  <2>1. dying' = p /\ p \in Active /\ UNCHANGED <<links, cur_proc>>
    BY <1>4 DEF KillProc, Active
  <2> QED BY <2>1, SameLinks DEF Inductive, IInv, TypeOK, CursorLive, links
<1> QED BY <1>1, <1>2, <1>3, <1>4

-----------------------------------------------------------------------------
(***************************************************************************)
(* Every action preserves the inductive invariant.                         *)
(***************************************************************************)

LEMMA InitInv == Init => Inductive
<1> SUFFICES ASSUME Init PROVE Inductive
  OBVIOUS
<1> USE NullIsNoNode
<1>1. Active = {} /\ Free = {}
  BY DEF Init, Active, Free
<1>2. TypeOK
  <2>1. Idle \in Loops
    BY AllocAssumption DEF Idle, Loops, Ptr
  <2>2. /\ 0 \in Word /\ 0 \in 0 .. MaxCalls
        /\ {"pre"} \subseteq Phases /\ {"junk"} \subseteq Data /\ NULL \in Ptr
    BY MaxCallsAssumption DEF Word, SIGN, Phases, Data, Ptr
  <2> QED BY <2>1, <2>2 DEF Init, TypeOK
<1>3. LinksLocal /\ CursorLive
  BY <1>1 DEF Init, LinksLocal, CursorLive
<1>4. ControlInv
  BY <1>1 DEF Init, ControlInv, Idle, Creates, Deletes, SkipsCaller
<1>5. Ordered
  <2>1. [n \in Nodes |-> 0] \in [Nodes -> Int]
    OBVIOUS
  <2> QED BY <1>1, <2>1 DEF Ordered
<1> QED BY <1>2, <1>3, <1>4, <1>5 DEF Inductive, IInv

LEMMA KillInv ==
  ASSUME Inductive, NEW p \in Nodes, Kill(p)
  PROVE  Inductive'
<1> USE NullIsNoNode
<1>1. /\ p # cur_proc /\ ExitOk(p) /\ KillProc(p)
      /\ dying = NULL /\ loop = Idle /\ phase \in {"pre", "run", "post"}
      /\ calls' \in 0 .. MaxCalls
      /\ UNCHANGED <<sort_processes, process_sleep_time, fields, phase, loop>>
  BY MaxCallsAssumption DEF Kill, Calling, Inductive, IInv, TypeOK
<1>2. TypeOK'
  BY <1>1, KillKeeps DEF Inductive, IInv, TypeOK, fields, Ptr, CursorLive, Active
<1>3. LinksLocal' /\ Ordered'
  BY <1>1, KillKeeps
<1>4. CursorLive'
  BY <1>1, KillKeeps DEF Inductive, IInv, CursorLive
<1>5. ControlInv'
  BY <1>1, KillKeeps
     DEF Inductive, IInv, ControlInv, fields, Idle, Creates, Deletes, SkipsCaller
<1> QED BY <1>2, <1>3, <1>4, <1>5 DEF Inductive, IInv

\* Deleting the process under the cursor moves the cursor to a live predecessor
\* or to NULL.
LEMMA CursorMovesBack ==
  ASSUME Inductive, cur_proc \in Active, Delete(cur_proc)
  PROVE  cur_proc' \in Active' \cup {NULL}
<1>1. cur_proc' = prev[cur_proc] /\ prev[cur_proc] # cur_proc
  BY NoSelfLink DEF Delete, Inductive, IInv
<1>2. prev[cur_proc] \in Active \cup {NULL}
  BY DEF Inductive, IInv, LinksLocal
<1>3. Active' = Active \ {cur_proc}
  BY DeleteLinks DEF Inductive, IInv
<1> QED BY <1>1, <1>2, <1>3

LEMMA DieInv == Inductive /\ Die => Inductive'
<1> SUFFICES ASSUME Inductive, Die PROVE Inductive'
  OBVIOUS
<1> USE NullIsNoNode
<1>1. /\ phase = "run" /\ loop = Idle /\ dying = NULL /\ cur_proc \in Active
      /\ calls' \in 0 .. MaxCalls
      /\ UNCHANGED <<sort_processes, process_sleep_time, fields, loop>>
  BY MaxCallsAssumption DEF Die, InProcess, Inductive, IInv, CursorLive
<1>2. TypeOK /\ LinksLocal /\ Ordered /\ CursorLive /\ ControlInv
  BY DEF Inductive, IInv
<1>3. CASE process_exit[cur_proc] = NULL
  <2>1. Delete(cur_proc) /\ phase' = "next" /\ dying' = NULL
    BY <1>1, <1>3 DEF Die
  <2>2. TypeOK'
    BY <1>1, <1>2, <2>1, DeleteLinks DEF TypeOK, fields, Phases, Ptr
  <2>3. LinksLocal' /\ Ordered' /\ Active' = Active \ {cur_proc}
    BY <1>1, <1>2, <2>1, DeleteLinks
  <2>4. CursorLive'
    BY <1>1, <2>1, CursorMovesBack DEF CursorLive
  <2>5. ControlInv'
    BY <1>1, <1>2, <2>1, <2>3 DEF ControlInv, fields, Idle, Creates, Deletes, SkipsCaller
  <2> QED BY <2>2, <2>3, <2>4, <2>5 DEF Inductive, IInv
<1>4. CASE process_exit[cur_proc] # NULL
  <2> DEFINE q == process_exit[cur_proc]
  <2>1. dying' = cur_proc /\ phase' = "die" /\ q # cur_proc
    BY <1>1, <1>2, <1>4 DEF Die, ControlInv, Active
  <2>2. CASE q \in Active
    <3>1. Delete(q) /\ cur_proc' = cur_proc
      BY <1>1, <1>4, <2>1, <2>2 DEF Die, Delete
    <3> HIDE DEF q
    <3>2. TypeOK'
      BY <1>1, <1>2, <2>1, <2>2, <3>1, DeleteLinks DEF TypeOK, fields, Phases, Ptr
    <3>3. LinksLocal' /\ Ordered' /\ Active' = Active \ {q}
      BY <1>2, <2>2, <3>1, DeleteLinks
    <3>4. CursorLive'
      BY <1>1, <2>1, <3>1, <3>3 DEF CursorLive, Active
    <3>5. ControlInv'
      BY <1>1, <1>2, <2>1, <3>1, <3>3
         DEF ControlInv, fields, Idle, Creates, Deletes, SkipsCaller
    <3> QED BY <3>2, <3>3, <3>4, <3>5 DEF Inductive, IInv
  <2>3. CASE q \notin Active
    <3>1. UNCHANGED <<links, cur_proc>>
      BY <1>1, <1>4, <2>3 DEF Die
    <3> HIDE DEF q
    <3>2. TypeOK'
      BY <1>1, <1>2, <2>1, <3>1 DEF TypeOK, fields, links, Phases, Ptr
    <3>3. LinksLocal' /\ Ordered' /\ Active' = Active
      BY <1>2, <3>1, SameLinks
    <3>4. CursorLive'
      BY <1>1, <2>1, <3>1, <3>3 DEF CursorLive, Active
    <3>5. ControlInv'
      BY <1>1, <1>2, <2>1, <3>1, <3>3
         DEF ControlInv, fields, Idle, Creates, Deletes, SkipsCaller
    <3> QED BY <3>2, <3>3, <3>4, <3>5 DEF Inductive, IInv
  <2> QED BY <2>2, <2>3
<1> QED BY <1>3, <1>4

LEMMA FinishKillInv == Inductive /\ FinishKill => Inductive'
<1> SUFFICES ASSUME Inductive, FinishKill PROVE Inductive'
  OBVIOUS
<1> USE NullIsNoNode
<1>1. TypeOK /\ LinksLocal /\ Ordered /\ CursorLive /\ ControlInv
  BY DEF Inductive, IInv
<1>2. /\ dying \in Active /\ dying # NULL /\ Delete(dying) /\ dying' = NULL
      /\ phase' = IF phase = "die" THEN "next" ELSE phase
      /\ UNCHANGED <<sort_processes, process_sleep_time, fields, loop, calls>>
  BY <1>1 DEF FinishKill, CursorLive
<1>3. TypeOK'
  BY <1>1, <1>2, DeleteLinks DEF TypeOK, fields, Phases, Ptr
<1>4. LinksLocal' /\ Ordered' /\ Active' = Active \ {dying}
  BY <1>1, <1>2, DeleteLinks
<1>5. CASE phase = "die"
  <2>1. dying = cur_proc /\ loop = Idle /\ phase' = "next"
    BY <1>1, <1>2, <1>5 DEF ControlInv
  <2>2. CursorLive'
    BY <1>2, <2>1, CursorMovesBack DEF CursorLive
  <2>3. ControlInv'
    BY <1>1, <1>2, <1>4, <2>1
       DEF ControlInv, fields, Idle, Creates, Deletes, SkipsCaller
  <2> QED BY <1>3, <1>4, <2>2, <2>3 DEF Inductive, IInv
<1>6. CASE phase # "die"
  <2>1. /\ cur_proc' = cur_proc /\ cur_proc # dying /\ phase' = phase
        /\ phase \notin {"walk", "next"} /\ loop.op \notin Creates
    BY <1>1, <1>2, <1>6 DEF Delete, ControlInv, Idle, Creates, SkipsCaller
  <2>2. CursorLive'
    BY <1>1, <1>2, <1>4, <2>1 DEF CursorLive
  <2>3. ControlInv'
    BY <1>1, <1>2, <1>4, <1>6, <2>1
       DEF ControlInv, fields, Idle, Creates, Deletes, SkipsCaller, ExitOk
  <2> QED BY <1>3, <1>4, <2>2, <2>3 DEF Inductive, IInv
<1> QED BY <1>5, <1>6

\* Calls that write fields only: the lists, the cursor and the call in
\* progress stay as they are.
LEMMA FieldCalls ==
  ASSUME Inductive, TypeOK', phase \in {"pre", "run", "post"}, loop = Idle, dying = NULL,
         UNCHANGED <<links, cur_proc, phase, loop, dying>>,
         \A n \in Nodes : process_exit'[n] # n
  PROVE  Inductive'
<1> USE NullIsNoNode
<1>1. LinksLocal /\ Ordered /\ CursorLive /\ ControlInv
  BY DEF Inductive, IInv
<1>2. LinksLocal' /\ Ordered' /\ Active' = Active
  BY <1>1, SameLinks
<1>3. CursorLive'
  BY <1>1, <1>2 DEF CursorLive
<1>4. ControlInv'
  BY <1>1, <1>2 DEF ControlInv, Idle, Creates, Deletes, SkipsCaller
<1> QED BY <1>2, <1>3, <1>4 DEF Inductive, IInv

LEMMA SetExitInv ==
  ASSUME Inductive, NEW p \in Nodes, NEW q \in Nodes, SetExit(p, q)
  PROVE  Inductive'
<1>1. TypeOK /\ \A n \in Nodes : process_exit[n] # n
  BY DEF Inductive, IInv, ControlInv
<1>2. TypeOK'
  BY <1>1, MaxCallsAssumption DEF SetExit, Calling, TypeOK, links, Ptr
<1>3. \A n \in Nodes : process_exit'[n] # n
  BY <1>1 DEF SetExit, TypeOK
<1> QED BY <1>2, <1>3, FieldCalls DEF SetExit, Calling

LEMMA SetPidInv ==
  ASSUME Inductive, NEW id \in Pids, SetPid(id)
  PROVE  Inductive'
<1>1. TypeOK /\ \A n \in Nodes : process_exit[n] # n
  BY DEF Inductive, IInv, ControlInv
<1>2. TypeOK'
  <2>1. process_id' \in [Nodes -> Pids \cup {0}]
    BY <1>1 DEF SetPid, TypeOK
  <2>2. calls' \in 0 .. MaxCalls
    BY <1>1, MaxCallsAssumption DEF SetPid, Calling, TypeOK
  <2> QED BY <1>1, <2>1, <2>2 DEF SetPid, TypeOK, links
<1> QED BY <1>1, <1>2, FieldCalls DEF SetPid, Calling

LEMMA SetProcessRunLevelInv ==
  ASSUME Inductive, NEW p \in Nodes, NEW l \in Levels, SetProcessRunLevel(p, l)
  PROVE  Inductive'
<1>1. TypeOK /\ \A n \in Nodes : process_exit[n] # n
  BY DEF Inductive, IInv, ControlInv
<1>2. TypeOK'
  BY <1>1, MaxCallsAssumption DEF SetProcessRunLevel, Calling, TypeOK, links
<1> QED BY <1>1, <1>2, FieldCalls DEF SetProcessRunLevel, Calling

\* A call that only writes sleep times, at any point of the dispatch.
LEMMA TimesOnly ==
  ASSUME Inductive, process_sleep_time' \in [Nodes -> Word], calls' \in 0 .. MaxCalls,
         UNCHANGED <<links, cur_proc, sort_processes, fields, phase, loop, dying>>
  PROVE  Inductive'
<1>1. TypeOK /\ LinksLocal /\ Ordered /\ CursorLive /\ ControlInv
  BY DEF Inductive, IInv
<1>2. LinksLocal' /\ Ordered' /\ Active' = Active /\ Free' = Free
  BY <1>1, SameLinks
<1>3. TypeOK'
  BY <1>1 DEF TypeOK, links, fields
<1>4. CursorLive'
  BY <1>1, <1>2 DEF CursorLive
<1>5. ControlInv'
  BY <1>1, <1>2 DEF ControlInv, fields, ExitOk
<1> QED BY <1>2, <1>3, <1>4, <1>5 DEF Inductive, IInv

LEMMA TimingCallsInv == Inductive /\ TimingCalls => Inductive'
<1> SUFFICES ASSUME Inductive, TimingCalls PROVE Inductive'
  OBVIOUS
<1>1. process_sleep_time \in [Nodes -> Word] /\ calls \in 0 .. MaxCalls /\ 1 \in Word
  BY DEF Inductive, IInv, TypeOK, Word, SIGN
<1>2. \A t \in Ticks : t \in 0 .. (SIGN - 1) /\ t \in Word
  BY TicksAssumption DEF Word, SIGN
<1>3. process_sleep_time' \in [Nodes -> Word]
  <2>1. \A p \in Nodes, t \in Ticks : SleepProcess(p, t) => process_sleep_time' \in [Nodes -> Word]
    BY <1>1, <1>2, WordArith DEF SleepProcess, Retime
  <2>2. \A id \in Pids, t \in Ticks :
          AddSleepProcessId(id, t) => process_sleep_time' \in [Nodes -> Word]
    BY <1>1, <1>2, WordArith DEF AddSleepProcessId, Retime
  <2>3. /\ \A p \in Nodes : WakeupProcess(p) => process_sleep_time' \in [Nodes -> Word]
        /\ \A id \in Pids : WakeupProcessId(id) => process_sleep_time' \in [Nodes -> Word]
    BY <1>1 DEF WakeupProcess, WakeupProcessId, Retime, Awake
  <2>4. /\ \A p \in Nodes : SuspendProcess(p) => process_sleep_time' \in [Nodes -> Word]
        /\ SuspendAll => process_sleep_time' \in [Nodes -> Word]
        /\ \A ids \in SUBSET Pids : SuspendMultiple(ids) => process_sleep_time' \in [Nodes -> Word]
    BY <1>1, WordArith DEF SuspendProcess, SuspendAll, SuspendMultiple, Retime
  <2>5. /\ \A p \in Nodes : ResumeProcess(p) => process_sleep_time' \in [Nodes -> Word]
        /\ ResumeAll => process_sleep_time' \in [Nodes -> Word]
        /\ \A ids \in SUBSET Pids : ResumeMultiple(ids) => process_sleep_time' \in [Nodes -> Word]
    BY <1>1, WordArith DEF ResumeProcess, ResumeAll, ResumeMultiple, Retime
  <2> QED BY <2>1, <2>2, <2>3, <2>4, <2>5 DEF TimingCalls
<1>4. /\ calls' \in 0 .. MaxCalls
      /\ UNCHANGED <<links, cur_proc, sort_processes, fields, phase, loop, dying>>
  <2>1. ASSUME NEW op, Timing(op)
        PROVE  /\ calls' \in 0 .. MaxCalls
               /\ UNCHANGED <<links, cur_proc, sort_processes, fields, phase, loop, dying>>
    BY <1>1, <2>1, MaxCallsAssumption DEF Timing, Calling
  <2>2. (\E op \in Calls : Timing(op)) \/ \E p \in Nodes : ResumeProcess(p)
    BY DEF TimingCalls, SleepProcess, AddSleepProcessId, WakeupProcess, WakeupProcessId,
           SuspendProcess, SuspendAll, SuspendMultiple, ResumeAll, ResumeMultiple,
           Timing, Calling
  <2> QED BY <1>1, <2>1, <2>2 DEF ResumeProcess
<1> QED BY <1>3, <1>4, TimesOnly

LEMMA DeleteCallInv ==
  ASSUME Inductive, NEW op \in Deletes, NEW ids \in SUBSET Pids, DeleteCall(op, ids)
  PROVE  Inductive'
<1> USE NullIsNoNode
<1>1. TypeOK /\ LinksLocal /\ Ordered /\ CursorLive /\ ControlInv
  BY DEF Inductive, IInv
<1>2. /\ calls' \in 0 .. MaxCalls /\ dying = NULL /\ phase \in {"pre", "run", "post"}
      /\ loop' = [op |-> op, ptr |-> plist, ids |-> ids, count |-> 0]
      /\ IF SkipsCaller(op) THEN \A n \in Active : ExitOk(n)
         ELSE cur_proc # NULL => process_id[cur_proc] \notin ids
      /\ UNCHANGED <<links, cur_proc, sort_processes, process_sleep_time, fields, phase, dying>>
  BY <1>1, MaxCallsAssumption DEF DeleteCall, Calling, TypeOK
<1>3. LinksLocal' /\ Ordered' /\ Active' = Active
  BY <1>1, <1>2, SameLinks
<1>4. loop' \in Loops
  BY <1>1, <1>2, AllocAssumption DEF Loops, TypeOK
<1>5. TypeOK'
  BY <1>1, <1>2, <1>4 DEF TypeOK, links, fields
<1>6. CursorLive'
  BY <1>1, <1>2, <1>3 DEF CursorLive
<1>7. ControlInv'
  <2>1. loop'.op = op /\ loop'.ids = ids /\ loop'.ptr = plist /\ op \notin Creates
    BY <1>2 DEF Deletes, Creates
  <2>2. plist \in Active \cup {NULL} /\ dying' = NULL
    BY <1>1, <1>2 DEF LinksLocal
  <2> QED BY <1>1, <1>2, <1>3, <2>1, <2>2 DEF ControlInv, fields, ExitOk
<1> QED BY <1>3, <1>5, <1>6, <1>7 DEF Inductive, IInv

LEMMA DeleteDoneInv == Inductive /\ DeleteDone => Inductive'
<1> SUFFICES ASSUME Inductive, DeleteDone PROVE Inductive'
  OBVIOUS
<1> USE NullIsNoNode
<1>1. TypeOK /\ LinksLocal /\ Ordered /\ CursorLive /\ ControlInv
  BY DEF Inductive, IInv
<1>2. LinksLocal' /\ Ordered' /\ Active' = Active
  BY <1>1, SameLinks DEF DeleteDone
<1>3. Idle \in Loops
  BY AllocAssumption DEF Idle, Loops, Ptr
<1>4. TypeOK'
  BY <1>1, <1>3 DEF DeleteDone, TypeOK, links, fields
<1>5. CursorLive'
  BY <1>1, <1>2 DEF CursorLive, DeleteDone
<1>6. ControlInv'
  BY <1>1, <1>2 DEF ControlInv, DeleteDone, fields, Idle, Creates, Deletes, SkipsCaller
<1> QED BY <1>2, <1>4, <1>5, <1>6 DEF Inductive, IInv

LEMMA DeleteStepInv == Inductive /\ DeleteStep => Inductive'
<1> SUFFICES ASSUME Inductive, DeleteStep PROVE Inductive'
  OBVIOUS
<1> USE NullIsNoNode
<1> DEFINE p == loop.ptr
           hit == process_id[p] \in loop.ids /\ ~(SkipsCaller(loop.op) /\ p = cur_proc)
<1>1. TypeOK /\ LinksLocal /\ Ordered /\ CursorLive /\ ControlInv
  BY DEF Inductive, IInv
<1>2. /\ loop.op \in Deletes /\ dying = NULL /\ p \in Nodes
      /\ loop' \in {[loop EXCEPT !.ptr = NULL], [loop EXCEPT !.ptr = next[p]]}
      /\ UNCHANGED <<sort_processes, process_sleep_time, fields, phase, calls>>
  BY <1>1 DEF DeleteStep, TypeOK, Loops, Ptr
<1>3. /\ loop' \in Loops /\ loop'.op = loop.op /\ loop'.ids = loop.ids
      /\ loop.op \notin Creates /\ loop # Idle
  BY <1>1, <1>2 DEF TypeOK, Loops, Ptr, Deletes, Creates, Idle
<1>4. phase \in {"pre", "run", "post"}
  BY <1>1, <1>3 DEF ControlInv, TypeOK, Phases
<1>5. /\ LinksLocal' /\ Ordered'
      /\ plist' \in Ptr /\ pfree' \in Ptr
      /\ next' \in [Nodes -> Ptr] /\ prev' \in [Nodes -> Ptr]
      /\ home' \in [Nodes -> {"heap", "free", "active"}]
      /\ process_data' \in [Nodes -> Data]
      /\ cur_proc' = cur_proc /\ cur_proc \in Active' \cup {NULL}
      /\ Active' \subseteq Active
      /\ dying' \in Active' \cup {NULL}
      /\ dying' # NULL => dying' # cur_proc
  <2>1. CASE ~hit
    <3>1. UNCHANGED <<links, cur_proc, dying>>
      BY <2>1 DEF DeleteStep
    <3> QED BY <1>1, <1>2, <3>1, SameLinks DEF TypeOK, CursorLive, links
  <2>2. CASE hit /\ SkipsCaller(loop.op)
    <3>1. KillProc(p) /\ p # cur_proc
      BY <2>2 DEF DeleteStep
    <3>2. home[p] = "active" => ExitOk(p)
      BY <1>1, <1>2, <2>2 DEF ControlInv, Active
    <3>3. CASE home[p] = "active"
      BY <1>2, <3>1, <3>2, <3>3, KillKeeps
    <3>4. CASE home[p] # "active"
      <4>1. UNCHANGED <<links, cur_proc, dying>>
        BY <3>1, <3>4 DEF KillProc
      <4> QED BY <1>1, <1>2, <4>1, SameLinks DEF TypeOK, CursorLive, links
    <3> QED BY <3>3, <3>4
  <2>3. CASE hit /\ ~SkipsCaller(loop.op)
    <3>1. Delete(p) /\ dying' = dying
      BY <2>3 DEF DeleteStep
    <3>2. p # cur_proc
      BY <1>1, <1>2, <2>3 DEF ControlInv
    <3>3. p \in Active
      BY <1>1, <1>2, <2>3 DEF ControlInv
    <3>4. cur_proc' = cur_proc
      BY <3>1, <3>2 DEF Delete
    <3> QED BY <1>1, <1>2, <3>1, <3>2, <3>3, <3>4, DeleteLinks DEF CursorLive
  <2> QED BY <2>1, <2>2, <2>3
<1> HIDE DEF p, hit
<1>6. TypeOK'
  BY <1>1, <1>2, <1>3, <1>5 DEF TypeOK, fields, Ptr, Active
<1>7. CursorLive'
  BY <1>1, <1>2, <1>5 DEF CursorLive
<1>8. ~SkipsCaller(loop.op) => loop'.ptr \in Active' \cup {NULL} /\ dying' = NULL
  <2>1. SUFFICES ASSUME ~SkipsCaller(loop.op)
                 PROVE  loop'.ptr \in Active' \cup {NULL} /\ dying' = NULL
    OBVIOUS
  <2>2. p \in Active /\ next[p] \in Active \cup {NULL} /\ next[p] # p
    BY <1>1, <1>2, <2>1, NoSelfLink DEF ControlInv, LinksLocal, p
  <2>3. dying' = NULL
    BY <1>2, <2>1 DEF DeleteStep
  <2>4. Active' = Active \/ Active' = Active \ {p}
    <3>1. UNCHANGED links \/ Delete(p)
      BY <2>1 DEF DeleteStep, p
    <3> QED BY <1>1, <2>2, <3>1, SameLinks, DeleteLinks
  <2>5. loop'.ptr \in {NULL, next[p]}
    BY <1>1, <1>2 DEF TypeOK, Loops
  <2> QED BY <2>2, <2>3, <2>4, <2>5
<1>9. ControlInv'
  BY <1>1, <1>2, <1>3, <1>4, <1>5, <1>8 DEF ControlInv, fields, ExitOk
<1> QED BY <1>5, <1>6, <1>7, <1>9 DEF Inductive, IInv

LEMMA ClearProcessListInv == Inductive /\ ClearProcessList => Inductive'
<1> SUFFICES ASSUME Inductive, ClearProcessList PROVE Inductive'
  OBVIOUS
<1> USE NullIsNoNode
<1>1. TypeOK /\ LinksLocal /\ Ordered /\ CursorLive /\ ControlInv
  BY DEF Inductive, IInv
<1>2. /\ phase \in {"pre", "post"} /\ loop = Idle /\ dying = NULL /\ cur_proc = NULL
      /\ calls' \in 0 .. MaxCalls
      /\ UNCHANGED <<cur_proc, sort_processes, process_sleep_time, fields, phase, loop, dying>>
  BY <1>1, MaxCallsAssumption DEF ClearProcessList, Calling, InProcess, ControlInv, TypeOK
<1>3. CASE plist = NULL
  <2>1. UNCHANGED links
    BY <1>3 DEF ClearProcessList
  <2>2. TypeOK'
    BY <1>1, <1>2, <2>1 DEF TypeOK, links, fields
  <2> QED BY <1>1, <1>2, <2>1, <2>2, FieldCalls DEF ControlInv, fields
<1>4. CASE plist # NULL
  <2>1. PICK last \in Active :
          /\ next[last] = NULL
          /\ next' = [next EXCEPT ![last] = pfree]
          /\ prev' = IF pfree = NULL THEN prev ELSE [prev EXCEPT ![pfree] = last]
          /\ pfree' = plist
          /\ plist' = NULL
          /\ home' = [n \in Nodes |-> IF n \in Active THEN "free" ELSE home[n]]
          /\ process_data' = [n \in Nodes |-> IF n \in Active THEN "null"
                                              ELSE process_data[n]]
    BY <1>4 DEF ClearProcessList
  <2>2. Active' = {} /\ Free' = Active \cup Free
    BY <1>1, <2>1 DEF Active, Free, TypeOK
  <2>3. TypeOK'
    BY <1>1, <1>2, <2>1 DEF TypeOK, fields, Ptr, Data, Active
  <2>4. /\ Active \cap Free = {} /\ Active \subseteq Nodes /\ Free \subseteq Nodes
        /\ plist \in Active /\ prev[plist] = NULL
        /\ \A n \in Active : next[n] # plist
    <3>1. Active \cap Free = {} /\ Active \subseteq Nodes /\ Free \subseteq Nodes
      BY DEF Active, Free
    <3>2. plist \in Active /\ prev[plist] = NULL
      BY <1>1, <1>4 DEF LinksLocal
    <3>3. \A n \in Active : next[n] # plist
      BY <1>1, <3>1, <3>2 DEF LinksLocal
    <3> QED BY <3>1, <3>2, <3>3
  <2>5. ASSUME NEW n \in Free'
        PROVE  next'[n] = NULL \/ (next'[n] \in Free' /\ next'[n] # pfree')
    BY <1>1, <2>1, <2>2, <2>4 DEF LinksLocal, TypeOK
  <2>6. ASSUME NEW m \in Free', NEW n \in Free', next'[m] = next'[n], next'[m] # NULL
        PROVE  m = n
    <3>1. m \in Nodes /\ n \in Nodes
      BY <2>2, <2>4
    <3>2. CASE m \in Active /\ n \in Active
      BY <1>1, <2>1, <2>4, <2>6, <3>1, <3>2 DEF LinksLocal, TypeOK
    <3>3. CASE m \in Free /\ n \in Free
      BY <1>1, <2>1, <2>4, <2>6, <3>1, <3>3 DEF LinksLocal, TypeOK
    <3>4. CASE (m \in Active /\ n \in Free) \/ (m \in Free /\ n \in Active)
      BY <1>1, <2>1, <2>4, <2>6, <3>1, <3>4 DEF LinksLocal, TypeOK
    <3> QED BY <2>2, <3>2, <3>3, <3>4
  <2>7. LinksLocal'
    BY <2>1, <2>2, <2>4, <2>5, <2>6 DEF LinksLocal
  <2>8. Ordered'
    BY <1>1, <2>2 DEF Ordered
  <2>9. CursorLive' /\ ControlInv'
    BY <1>1, <1>2, <2>2 DEF CursorLive, ControlInv, fields, Idle, Creates, Deletes, SkipsCaller
  <2> QED BY <2>3, <2>7, <2>8, <2>9 DEF Inductive, IInv
<1> QED BY <1>3, <1>4

LEMMA ClearFreeProcessListInv == Inductive /\ ClearFreeProcessList => Inductive'
<1> SUFFICES ASSUME Inductive, ClearFreeProcessList PROVE Inductive'
  OBVIOUS
<1> USE NullIsNoNode
<1>1. TypeOK /\ LinksLocal /\ Ordered /\ CursorLive /\ ControlInv
  BY DEF Inductive, IInv
<1>2. /\ loop = Idle /\ calls' \in 0 .. MaxCalls /\ pfree' = NULL
      /\ home' = [n \in Nodes |-> IF n \in Free THEN "heap" ELSE home[n]]
      /\ process_data' = [n \in Nodes |-> IF n \in Free THEN "freed" ELSE process_data[n]]
      /\ UNCHANGED <<plist, cur_proc, next, prev, sort_processes, process_sleep_time, fields,
                     phase, loop, dying>>
  BY <1>1, MaxCallsAssumption DEF ClearFreeProcessList, Calling, TypeOK
<1>3. Active' = Active /\ Free' = {}
  BY <1>1, <1>2 DEF Active, Free, TypeOK
<1>4. TypeOK'
  BY <1>1, <1>2 DEF TypeOK, fields, Ptr, Data
<1>5. LinksLocal' /\ Ordered' /\ CursorLive'
  BY <1>1, <1>2, <1>3 DEF LinksLocal, Ordered, CursorLive
<1>6. ControlInv'
  BY <1>1, <1>2, <1>3 DEF ControlInv, fields, Idle, Creates, Deletes, SkipsCaller
<1> QED BY <1>4, <1>5, <1>6 DEF Inductive, IInv

LEMMA CreateCallInv ==
  ASSUME Inductive, NEW op \in Creates, NEW id \in Pids, CreateCall(op, id)
  PROVE  Inductive'
<1> USE NullIsNoNode
<1>1. TypeOK /\ LinksLocal /\ Ordered /\ CursorLive /\ ControlInv
  BY DEF Inductive, IInv
<1>2. /\ calls' \in 0 .. MaxCalls /\ dying = NULL /\ phase \in {"pre", "run", "post"}
      /\ loop' = [op |-> op, ptr |-> NULL, ids |-> {id}, count |-> 0]
      /\ op = "create_process_immediate" => phase = "run"
      /\ UNCHANGED <<links, cur_proc, sort_processes, process_sleep_time, fields, phase, dying>>
  BY <1>1, MaxCallsAssumption DEF CreateCall, Calling, InProcess, TypeOK
<1>3. LinksLocal' /\ Ordered' /\ Active' = Active /\ Free' = Free
  BY <1>1, <1>2, SameLinks
<1>4. loop' \in Loops /\ loop'.op = op /\ loop'.ids = {id} /\ loop'.ptr = NULL
  BY <1>2, AllocAssumption DEF Loops, Ptr
<1>5. TypeOK'
  BY <1>1, <1>2, <1>4 DEF TypeOK, links, fields
<1>6. CursorLive'
  BY <1>1, <1>2, <1>3 DEF CursorLive
<1>7. ControlInv'
  BY <1>1, <1>2, <1>3, <1>4 DEF ControlInv, fields, Creates, Deletes, SkipsCaller
<1> QED BY <1>3, <1>5, <1>6, <1>7 DEF Inductive, IInv

LEMMA CreateFailsInv == Inductive /\ CreateFails => Inductive'
<1> SUFFICES ASSUME Inductive, CreateFails PROVE Inductive'
  OBVIOUS
<1> USE NullIsNoNode
<1>1. TypeOK /\ LinksLocal /\ Ordered /\ CursorLive /\ ControlInv
  BY DEF Inductive, IInv
<1>2. Active' = Active /\ Free' = Free
  BY DEF CreateFails, Active, Free
<1>3. LinksLocal' /\ Ordered' /\ CursorLive'
  BY <1>1, <1>2 DEF CreateFails, LinksLocal, Ordered, CursorLive
<1>4. Idle \in Loops
  BY AllocAssumption DEF Idle, Loops, Ptr
<1>5. TypeOK'
  BY <1>1, <1>4 DEF CreateFails, TypeOK, fields, Data
<1>6. ControlInv'
  BY <1>1, <1>2 DEF CreateFails, ControlInv, fields, Idle, Creates, Deletes, SkipsCaller
<1> QED BY <1>3, <1>5, <1>6 DEF Inductive, IInv

LEMMA BlockMallocFailsInv == Inductive /\ BlockMallocFails => Inductive'
<1> SUFFICES ASSUME Inductive, BlockMallocFails PROVE Inductive'
  OBVIOUS
<1> USE NullIsNoNode
<1>1. TypeOK /\ LinksLocal /\ Ordered /\ CursorLive /\ ControlInv
  BY DEF Inductive, IInv
<1>2. LinksLocal' /\ Ordered' /\ Active' = Active /\ Free' = Free
  BY <1>1, SameLinks DEF BlockMallocFails
<1>3. /\ BlockSize \in Nat \ {0} /\ BlockSize \in 0 .. ALLOC_NUM
      /\ loop.op \in Creates /\ loop \in Loops
  BY <1>1, AllocAssumption, ModeAssumption DEF BlockMallocFails, Growing, BlockSize, TypeOK
<1>4. /\ loop' \in Loops /\ loop'.op = loop.op /\ loop'.ids = loop.ids
      /\ loop'.ptr = loop.ptr /\ loop'.count # 0
  BY <1>3 DEF BlockMallocFails, Loops
<1>5. TypeOK'
  BY <1>1, <1>4 DEF BlockMallocFails, TypeOK, links, fields
<1>6. CursorLive'
  BY <1>1, <1>2 DEF BlockMallocFails, CursorLive
<1>7. loop'.op \notin Deletes /\ ~SkipsCaller(loop'.op) /\ loop # Idle
  BY <1>3, <1>4 DEF Creates, Deletes, SkipsCaller, Idle
<1>8. ControlInv'
  BY <1>1, <1>2, <1>3, <1>4, <1>7 DEF BlockMallocFails, ControlInv, fields, Creates, SkipsCaller
<1> QED BY <1>2, <1>5, <1>6, <1>8 DEF Inductive, IInv

LEMMA AddBlockNodeInv ==
  ASSUME Inductive, NEW n \in Nodes, AddBlockNode(n)
  PROVE  Inductive'
<1> USE NullIsNoNode
<1>1. TypeOK /\ LinksLocal /\ Ordered /\ CursorLive /\ ControlInv
  BY DEF Inductive, IInv
<1>2. /\ loop \in Loops /\ loop.op \in Creates /\ loop.count < BlockSize
      /\ loop.ptr \in Free \cup {NULL} /\ (loop.count = 0 => loop.ptr = NULL)
      /\ home[n] = "heap" /\ n \notin Free /\ n \notin Active
  BY <1>1 DEF AddBlockNode, Growing, ControlInv, TypeOK, Free, Active
<1>3. loop.count + 1 \in 1 .. ALLOC_NUM
  BY <1>2, AllocAssumption, ModeAssumption DEF BlockSize, Loops
<1>4. /\ loop' \in Loops /\ loop'.op = loop.op /\ loop'.ids = loop.ids
      /\ loop'.ptr = n /\ loop'.count # 0
  <2>1. loop' = [op |-> loop.op, ptr |-> n, ids |-> loop.ids, count |-> loop.count + 1]
    BY <1>2 DEF AddBlockNode, Loops
  <2>2. n \in Ptr /\ loop.count + 1 \in 0 .. ALLOC_NUM /\ loop.count + 1 # 0
    BY <1>2, <1>3 DEF Ptr, Loops
  <2> QED BY <1>2, <2>1, <2>2 DEF Loops
<1>5. Active' = Active /\ Free' = Free \cup {n} /\ Active \cap Free = {}
      /\ Active \subseteq Nodes /\ Free \subseteq Nodes
  BY <1>1, <1>2 DEF AddBlockNode, Active, Free, TypeOK
<1>6. TypeOK'
  <2>1. process_data' \in [Nodes -> Data]
    BY <1>1 DEF AddBlockNode, TypeOK, Data
  <2>2. next' \in [Nodes -> Ptr] /\ prev' \in [Nodes -> Ptr] /\ pfree' \in Ptr
    BY <1>1, <1>4 DEF AddBlockNode, TypeOK, Ptr, Loops
  <2>3. /\ home' \in [Nodes -> {"heap", "free", "active"}]
        /\ process_id' \in [Nodes -> Pids \cup {0}]
    BY <1>1 DEF AddBlockNode, TypeOK
  <2> QED BY <1>1, <1>4, <2>1, <2>2, <2>3 DEF AddBlockNode, TypeOK
<1>7. \A m \in Active : next'[m] = next[m] /\ prev'[m] = prev[m]
  BY <1>1, <1>2, <1>5 DEF AddBlockNode, TypeOK
<1>8. LinksLocal'
  <2>1. /\ plist' \in Active' \cup {NULL}
        /\ plist' # NULL => prev'[plist'] = NULL
        /\ \A m \in Active' : next'[m] = NULL \/ (next'[m] \in Active' /\ prev'[next'[m]] = m)
        /\ \A m \in Active' : \/ prev'[m] = NULL /\ m = plist'
                              \/ prev'[m] \in Active' /\ next'[prev'[m]] = m
    <3>1. plist' = plist /\ Active' = Active
      BY <1>5 DEF AddBlockNode
    <3>2. /\ plist \in Active \cup {NULL}
          /\ plist # NULL => prev[plist] = NULL
          /\ \A m \in Active : next[m] = NULL \/ (next[m] \in Active /\ prev[next[m]] = m)
          /\ \A m \in Active : \/ prev[m] = NULL /\ m = plist
                               \/ prev[m] \in Active /\ next[prev[m]] = m
      BY <1>1 DEF LinksLocal
    <3> QED BY <1>7, <3>1, <3>2
  <2>2. pfree' \in Free' \cup {NULL}
    BY <1>1, <1>5 DEF AddBlockNode, LinksLocal
  <2>3. ASSUME NEW m \in Free'
        PROVE  next'[m] = NULL \/ (next'[m] \in Free' /\ next'[m] # pfree')
    BY <1>1, <1>2, <1>5 DEF AddBlockNode, LinksLocal, TypeOK
  <2>4. ASSUME NEW m \in Free', NEW k \in Free', next'[m] = next'[k], next'[m] # NULL
        PROVE  m = k
    BY <1>1, <1>2, <1>5, <2>4 DEF AddBlockNode, LinksLocal, TypeOK
  <2> QED BY <2>1, <2>2, <2>3, <2>4 DEF LinksLocal
<1>9. Ordered'
  BY <1>1, <1>5, <1>7 DEF Ordered
<1>10. CursorLive'
  BY <1>1, <1>5 DEF AddBlockNode, CursorLive
<1>11. loop'.op \notin Deletes /\ ~SkipsCaller(loop'.op) /\ loop # Idle
  BY <1>2, <1>4 DEF Creates, Deletes, SkipsCaller, Idle
<1>12. ControlInv'
  BY <1>1, <1>2, <1>4, <1>5, <1>11 DEF AddBlockNode, ControlInv, Creates, SkipsCaller
<1> QED BY <1>6, <1>8, <1>9, <1>10, <1>12 DEF Inductive, IInv

\* The new process goes to the front of the active list or right behind the
\* caller; the rest of the free list is still a chain.
LEMMA CreateNodeInv == Inductive /\ CreateNode => Inductive'
<1> SUFFICES ASSUME Inductive, CreateNode PROVE Inductive'
  OBVIOUS
<1> USE NullIsNoNode
<1> DEFINE front == loop.op = "create_process"
           after == IF front THEN plist ELSE next[cur_proc]
           pn == pfree
           rest == next[pfree]
<1>1. TypeOK /\ LinksLocal /\ Ordered /\ CursorLive /\ ControlInv
  BY DEF Inductive, IInv
<1>2. /\ loop.op \in Creates /\ loop.ids \cap Pids # {} /\ loop.ids \subseteq Pids
      /\ pn \in Free /\ pn \in Nodes /\ pn \notin Active
      /\ ~front => phase = "run" /\ cur_proc \in Active
      /\ phase \notin {"walk", "next", "die"} /\ dying = NULL
  BY <1>1 DEF CreateNode, ControlInv, LinksLocal, CursorLive, TypeOK, Loops, Free, Active,
              Creates, Idle, SkipsCaller
<1>3. /\ pfree' = rest
      /\ plist' = IF front THEN pn ELSE plist
      /\ next' = [n \in Nodes |-> IF n = pn THEN after
                                  ELSE IF ~front /\ n = cur_proc THEN pn
                                  ELSE next[n]]
      /\ prev' = [n \in Nodes |-> IF n = pn THEN (IF front THEN NULL ELSE cur_proc)
                                  ELSE IF n = after THEN pn
                                  ELSE IF n = rest THEN NULL
                                  ELSE prev[n]]
      /\ home' = [home EXCEPT ![pn] = "active"]
      /\ UNCHANGED <<cur_proc, sort_processes, phase, dying, calls>>
      /\ loop' = Idle
  BY DEF CreateNode
<1>4. /\ Active' = Active \cup {pn} /\ Free' = Free \ {pn} /\ Active \cap Free = {}
      /\ Active \subseteq Nodes /\ Free \subseteq Nodes
  BY <1>1, <1>2, <1>3 DEF Active, Free, TypeOK
<1>5. after \in Active \cup {NULL} /\ (rest = NULL \/ (rest \in Free /\ rest # pn))
  BY <1>1, <1>2 DEF LinksLocal
<1>6. TypeOK'
  <2>1. Idle \in Loops
    BY AllocAssumption DEF Idle, Loops, Ptr
  <2>2. next' \in [Nodes -> Ptr] /\ prev' \in [Nodes -> Ptr]
    BY <1>1, <1>2, <1>3, <1>4, <1>5 DEF TypeOK, Ptr
  <2>3. plist' \in Ptr /\ pfree' \in Ptr /\ home' \in [Nodes -> {"heap", "free", "active"}]
    BY <1>1, <1>2, <1>3, <1>4, <1>5 DEF TypeOK, Ptr
  <2>4. /\ process_data' \in [Nodes -> Data] /\ process_exit' \in [Nodes -> Ptr]
        /\ process_sleep_time' \in [Nodes -> Word]
        /\ run_level' \in [Nodes -> Levels \cup {0}]
    BY <1>1 DEF CreateNode, TypeOK, Data, Ptr, Word, SIGN
  <2>5. process_id' \in [Nodes -> Pids \cup {0}]
    BY <1>1, <1>2 DEF CreateNode, TypeOK
  <2> QED BY <1>1, <1>3, <2>1, <2>2, <2>3, <2>4, <2>5 DEF TypeOK
<1> HIDE DEF pn, rest
<1>7. LinksLocal'
  <2>0. rest = next[pn] /\ pn = pfree
    BY DEF rest, pn
  <2>1. plist' \in Active' \cup {NULL} /\ (plist' # NULL => prev'[plist'] = NULL)
    BY <1>1, <1>2, <1>3, <1>4, <1>5 DEF LinksLocal, TypeOK
  <2>2. ASSUME NEW n \in Active'
        PROVE  next'[n] = NULL \/ (next'[n] \in Active' /\ prev'[next'[n]] = n)
    <3>1. CASE n = pn
      BY <1>1, <1>2, <1>3, <1>4, <1>5, <3>1 DEF LinksLocal
    <3>2. CASE n # pn
      BY <1>1, <1>2, <1>3, <1>4, <1>5, <2>2, <3>2 DEF LinksLocal
    <3> QED BY <3>1, <3>2
  <2>3. ASSUME NEW n \in Active'
        PROVE  \/ prev'[n] = NULL /\ n = plist'
               \/ prev'[n] \in Active' /\ next'[prev'[n]] = n
    <3>1. CASE n = pn
      BY <1>1, <1>2, <1>3, <1>4, <1>5, <3>1 DEF LinksLocal
    <3>2. CASE n # pn
      BY <1>1, <1>2, <1>3, <1>4, <1>5, <2>3, <3>2 DEF LinksLocal
    <3> QED BY <3>1, <3>2
  <2>4. pfree' \in Free' \cup {NULL}
    BY <1>3, <1>4, <1>5
  <2>5. ASSUME NEW n \in Free'
        PROVE  next'[n] = NULL \/ (next'[n] \in Free' /\ next'[n] # pfree')
    BY <1>1, <1>2, <1>3, <1>4, <1>5, <2>0 DEF LinksLocal
  <2>6. ASSUME NEW m \in Free', NEW n \in Free', next'[m] = next'[n], next'[m] # NULL
        PROVE  m = n
    BY <1>1, <1>2, <1>3, <1>4, <2>6 DEF LinksLocal
  <2> QED BY <2>1, <2>2, <2>3, <2>4, <2>5, <2>6 DEF LinksLocal
<1>8. Ordered'
  <2>1. PICK rank \in [Nodes -> Int] :
          \A n \in Active : next[n] # NULL => rank[n] < rank[next[n]]
    BY <1>1 DEF Ordered
  <2>2. CASE front
    <3> DEFINE r == [rank EXCEPT ![pn] = IF plist = NULL THEN 0 ELSE rank[plist] - 1]
    <3>1. r \in [Nodes -> Int]
      <4>1. (IF plist = NULL THEN 0 ELSE rank[plist] - 1) \in Int
        BY <1>1, <2>1 DEF TypeOK, Ptr
      <4> QED BY <2>1, <4>1
    <3>2. ASSUME NEW n \in Active', next'[n] # NULL
          PROVE  r[n] < r[next'[n]]
      <4>1. CASE n = pn
        <5>1. next'[n] = plist /\ plist \in Active /\ plist # pn
          BY <1>1, <1>2, <1>3, <2>2, <3>2, <4>1 DEF LinksLocal
        <5>2. r[n] = rank[plist] - 1 /\ r[plist] = rank[plist] /\ rank[plist] \in Int
          BY <1>2, <1>4, <2>1, <4>1, <5>1
        <5> QED BY <5>1, <5>2
      <4>2. CASE n # pn
        <5>1. n \in Active /\ next'[n] = next[n] /\ next[n] \in Active /\ next[n] # pn
          BY <1>1, <1>2, <1>3, <1>4, <2>2, <3>2, <4>2 DEF LinksLocal
        <5>2. r[n] = rank[n] /\ r[next[n]] = rank[next[n]]
          BY <1>4, <2>1, <4>2, <5>1
        <5> QED BY <2>1, <3>2, <5>1, <5>2
      <4> QED BY <4>1, <4>2
    <3> QED BY <3>1, <3>2 DEF Ordered
  <2>3. CASE ~front
    <3> DEFINE r == [n \in Nodes |-> IF n = pn THEN 2 * rank[cur_proc] + 1 ELSE 2 * rank[n]]
    <3>1. cur_proc \in Active /\ cur_proc \in Nodes /\ cur_proc # pn
      BY <1>2, <1>4, <2>3
    <3>2. r \in [Nodes -> Int]
      BY <2>1, <3>1
    <3>3. ASSUME NEW n \in Active', next'[n] # NULL
          PROVE  r[n] < r[next'[n]]
      <4>1. CASE n = pn
        <5>1. next'[n] = next[cur_proc] /\ next[cur_proc] \in Active /\ next[cur_proc] # pn
          BY <1>1, <1>2, <1>3, <2>3, <3>1, <3>3, <4>1 DEF LinksLocal
        <5>2. rank[cur_proc] < rank[next[cur_proc]] /\ next[cur_proc] \in Nodes
          BY <1>4, <2>1, <3>1, <3>3, <5>1
        <5>3. r[n] = 2 * rank[cur_proc] + 1 /\ r[next'[n]] = 2 * rank[next[cur_proc]]
          BY <1>2, <4>1, <5>1, <5>2
        <5>4. rank[cur_proc] \in Int /\ rank[next[cur_proc]] \in Int
          BY <2>1, <3>1, <5>2
        <5> HIDE DEF r
        <5> QED BY <5>2, <5>3, <5>4
      <4>2. CASE n = cur_proc
        <5>1. next'[n] = pn
          BY <1>3, <2>3, <3>1, <4>2
        <5>2. r[n] = 2 * rank[cur_proc] /\ r[pn] = 2 * rank[cur_proc] + 1
          BY <1>2, <3>1, <4>2
        <5>3. rank[cur_proc] \in Int
          BY <2>1, <3>1
        <5> HIDE DEF r
        <5> QED BY <5>1, <5>2, <5>3
      <4>3. CASE n # pn /\ n # cur_proc
        <5>1. /\ n \in Active /\ n \in Nodes /\ next'[n] = next[n]
              /\ next[n] \in Active /\ next[n] # pn /\ next[n] \in Nodes
          BY <1>1, <1>2, <1>3, <1>4, <3>3, <4>3 DEF LinksLocal
        <5>2. r[n] = 2 * rank[n] /\ r[next[n]] = 2 * rank[next[n]]
          BY <4>3, <5>1
        <5>3. rank[n] \in Int /\ rank[next[n]] \in Int /\ rank[n] < rank[next[n]]
          BY <2>1, <3>3, <5>1
        <5> HIDE DEF r
        <5> QED BY <5>1, <5>2, <5>3
      <4> QED BY <4>1, <4>2, <4>3
    <3> QED BY <3>2, <3>3 DEF Ordered
  <2> QED BY <2>2, <2>3
<1>9. CursorLive'
  BY <1>1, <1>2, <1>3, <1>4 DEF CursorLive
<1>10. ControlInv'
  <2>1. /\ Idle.op \notin Creates /\ Idle.op \notin Deletes /\ ~SkipsCaller(Idle.op)
    BY DEF Idle, Creates, Deletes, SkipsCaller
  <2>2. \A n \in Nodes : process_exit'[n] # n
    BY <1>1 DEF CreateNode, ControlInv, TypeOK
  <2>3. phase' \in {"pre", "post"} => cur_proc' = NULL
    BY <1>1, <1>3 DEF ControlInv
  <2> QED BY <1>2, <1>3, <2>1, <2>2, <2>3 DEF ControlInv
<1> QED BY <1>6, <1>7, <1>8, <1>9, <1>10 DEF Inductive, IInv

-----------------------------------------------------------------------------
(***************************************************************************)
(* The dispatcher's own steps.                                             *)
(***************************************************************************)

\* The process that runs gives up its slice: only its word is written.
LEMMA YieldInv ==
  ASSUME Inductive, SuspendSelf \/ \E t \in Ticks : Sleep(t)
  PROVE  Inductive'
<1> USE NullIsNoNode
<1>1. TypeOK /\ LinksLocal /\ Ordered /\ CursorLive /\ ControlInv
  BY DEF Inductive, IInv
<1>2. /\ phase = "run" /\ phase' = "next" /\ loop = Idle /\ dying = NULL /\ calls' = 0
      /\ UNCHANGED <<links, cur_proc, sort_processes, fields, loop, dying>>
      /\ cur_proc \in Active
  BY <1>1 DEF SuspendSelf, Sleep, InProcess, CursorLive
<1>3. process_sleep_time' \in [Nodes -> Word]
  <2>1. cur_proc \in Nodes /\ process_sleep_time[cur_proc] \in Word /\ 1 \in Word
    BY <1>1, <1>2 DEF Active, TypeOK, Word, SIGN
  <2>2. \A t \in Ticks : t \in Word
    BY TicksAssumption DEF Word, SIGN
  <2>3. CASE SuspendSelf
    BY <1>1, <2>1, <2>3, WordArith DEF SuspendSelf, TypeOK
  <2>4. CASE \E t \in Ticks : Sleep(t)
    BY <1>1, <2>1, <2>2, <2>4, WordArith DEF Sleep, TypeOK
  <2> QED BY <2>3, <2>4
<1>4. LinksLocal' /\ Ordered' /\ Active' = Active
  BY <1>1, <1>2, SameLinks
<1>5. TypeOK'
  BY <1>1, <1>2, <1>3, MaxCallsAssumption DEF TypeOK, links, fields, Phases
<1>6. CursorLive'
  BY <1>1, <1>2, <1>4 DEF CursorLive
<1>7. ControlInv'
  BY <1>1, <1>2, <1>4 DEF ControlInv, fields, Idle, Creates, Deletes, SkipsCaller
<1> QED BY <1>4, <1>5, <1>6, <1>7 DEF Inductive, IInv

\* A step of the walk leaves the lists alone and puts the cursor on a node of
\* the active list, or past its end.
LEMMA WalkInv ==
  ASSUME Inductive, StartPass \/ Visit \/ Advance \/ EndPass
  PROVE  Inductive'
<1> USE NullIsNoNode
<1>1. TypeOK /\ LinksLocal /\ Ordered /\ CursorLive /\ ControlInv
  BY DEF Inductive, IInv
<1>2. /\ phase \in {"pre", "walk", "next"} /\ loop = Idle /\ dying = NULL
      /\ calls' \in 0 .. MaxCalls
      /\ UNCHANGED <<links, sort_processes, fields, loop, dying>>
  BY <1>1, MaxCallsAssumption
     DEF StartPass, InSystem, Visit, Advance, EndPass, ControlInv, TypeOK
<1>3. process_sleep_time' \in [Nodes -> Word]
  BY <1>1 DEF StartPass, Visit, Advance, EndPass, TypeOK, CursorLive, Active, Word, SIGN,
              Suspended
<1>4. LinksLocal' /\ Ordered' /\ Active' = Active
  BY <1>1, <1>2, SameLinks
<1>5. /\ phase' \in {"walk", "run", "next", "post"}
      /\ cur_proc' \in Active \cup {NULL}
      /\ phase' = "run" => cur_proc' # NULL
      /\ phase' = "post" => cur_proc' = NULL
  BY <1>1 DEF StartPass, Visit, Advance, EndPass, CursorLive, LinksLocal
<1>6. TypeOK'
  BY <1>1, <1>2, <1>3, <1>5 DEF TypeOK, links, fields, Phases, Ptr, Active
<1>7. CursorLive'
  BY <1>2, <1>4, <1>5 DEF CursorLive
<1>8. ControlInv'
  BY <1>1, <1>2, <1>4, <1>5 DEF ControlInv, fields, Idle, Creates, Deletes, SkipsCaller
<1> QED BY <1>4, <1>6, <1>7, <1>8 DEF Inductive, IInv

\* do_process_sort: the processes are linked in the order qsort left them, and
\* their positions are a ranking.
LEMMA DoProcessSortInv == Inductive /\ DoProcessSort => Inductive'
<1> SUFFICES ASSUME Inductive, DoProcessSort PROVE Inductive'
  OBVIOUS
<1> USE NullIsNoNode
<1>1. TypeOK /\ LinksLocal /\ Ordered /\ CursorLive /\ ControlInv
  BY DEF Inductive, IInv
<1>2. /\ phase' = "pre" /\ calls' = 0 /\ sort_processes' = FALSE
      /\ loop = Idle /\ dying = NULL /\ cur_proc = NULL
      /\ UNCHANGED <<pfree, cur_proc, home, process_data, process_sleep_time, fields,
                     loop, dying>>
  BY <1>1 DEF DoProcessSort, InSystem, ControlInv
<1>3. Active' = Active /\ Free' = Free /\ Active \cap Free = {}
      /\ Active \subseteq Nodes /\ Free \subseteq Nodes
  BY <1>2 DEF Active, Free
<1>4. ASSUME plist' \in Ptr, next' \in [Nodes -> Ptr], prev' \in [Nodes -> Ptr],
             LinksLocal', Ordered'
      PROVE  Inductive'
  <2>1. TypeOK'
    <3>1. sort_processes' \in BOOLEAN
      BY <1>2, Zenon
    <3>2. phase' \in Phases /\ calls' \in 0 .. MaxCalls
      BY <1>2, MaxCallsAssumption DEF Phases
    <3>3. pfree' \in Ptr /\ cur_proc' \in Ptr /\ loop' \in Loops /\ dying' \in Ptr
      BY <1>1, <1>2 DEF TypeOK
    <3> QED BY <1>1, <1>2, <1>4, <3>1, <3>2, <3>3, SMT DEF TypeOK, fields
  <2>2. CursorLive'
    BY <1>1, <1>2, <1>3 DEF CursorLive
  <2>3. ControlInv'
    BY <1>1, <1>2, <1>3 DEF ControlInv, fields, Idle, Creates, Deletes, SkipsCaller
  <2> QED BY <1>4, <2>1, <2>2, <2>3 DEF Inductive, IInv
<1>5. CASE UNCHANGED <<plist, next, prev>>
  <2>1. UNCHANGED links
    BY <1>2, <1>5 DEF links
  <2> QED BY <1>1, <1>4, <1>5, <2>1, SameLinks DEF TypeOK
<1>6. CASE Cardinality(Active) > 1 /\ \E pos \in SortedOrders : Relink(pos)
  <2>1. PICK pos \in SortedOrders : Relink(pos)
    BY <1>6
  <2> DEFINE N == Cardinality(Active)
             at(i) == At(pos, i)
  <2>2. N \in Nat /\ N > 1 /\ Positions = 1 .. N
    BY <1>3, <1>6, FiniteNodes, FS_Subset, FS_CardinalityType DEF Positions
  <2>3. /\ plist' = at(1)
        /\ next' = [n \in Nodes |-> IF n \in Active THEN at(pos[n] + 1) ELSE next[n]]
        /\ prev' = [n \in Nodes |-> IF n \in Active THEN at(pos[n] - 1) ELSE prev[n]]
    BY <2>1 DEF Relink
  <2>4. /\ pos \in [Active -> Positions]
        /\ \A i \in Positions : \E n \in Active : pos[n] = i
        /\ \A m, n \in Active : m # n => pos[m] # pos[n]
    BY DEF SortedOrders
  <2>5. \A i \in Positions : at(i) \in Active /\ pos[at(i)] = i
    BY <2>4 DEF At
  <2>6. \A i : i \notin Positions => at(i) = NULL
    BY DEF At
  <2>7. \A n \in Active : pos[n] \in 1 .. N /\ at(pos[n]) = n
    BY <2>2, <2>4, <2>5
  <2> HIDE DEF at, N
  <2>8. \A i : at(i) \in Active \cup {NULL}
    BY <2>5, <2>6
  <2>9. plist' \in Ptr /\ next' \in [Nodes -> Ptr] /\ prev' \in [Nodes -> Ptr]
    BY <1>1, <1>3, <2>3, <2>8 DEF TypeOK, Ptr
  <2>10. plist' \in Active /\ pos[plist'] = 1 /\ prev'[plist'] = NULL
    <3>1. 1 \in Positions /\ 1 - 1 \notin Positions
      BY <2>2
    <3>2. plist' \in Active /\ pos[plist'] = 1
      BY <2>3, <2>5, <3>1
    <3> QED BY <1>3, <2>3, <2>6, <3>1, <3>2
  <2>11. ASSUME NEW n \in Active, next'[n] # NULL
         PROVE  next'[n] \in Active /\ pos[next'[n]] = pos[n] + 1 /\ prev'[next'[n]] = n
    <3>1. next'[n] = at(pos[n] + 1) /\ pos[n] + 1 \in Positions
      BY <1>3, <2>3, <2>6, <2>11
    <3>2. next'[n] \in Active /\ pos[next'[n]] = pos[n] + 1
      BY <2>5, <3>1
    <3>3. prev'[next'[n]] = at((pos[n] + 1) - 1)
      BY <1>3, <2>3, <3>2
    <3>4. (pos[n] + 1) - 1 = pos[n]
      BY <2>7
    <3> QED BY <2>7, <3>2, <3>3, <3>4
  <2>12. ASSUME NEW n \in Active
         PROVE  \/ prev'[n] = NULL /\ n = plist'
                \/ prev'[n] \in Active /\ next'[prev'[n]] = n
    <3>1. prev'[n] = at(pos[n] - 1) /\ pos[n] \in 1 .. N
      BY <1>3, <2>3, <2>7
    <3>2. CASE pos[n] = 1
      <4>1. prev'[n] = NULL
        BY <2>2, <2>6, <3>1, <3>2
      <4>2. n = plist'
        BY <2>4, <2>10, <3>2
      <4> QED BY <4>1, <4>2
    <3>3. CASE pos[n] # 1
      <4>1. pos[n] - 1 \in Positions
        BY <2>2, <3>1, <3>3
      <4>2. prev'[n] \in Active /\ pos[prev'[n]] = pos[n] - 1
        BY <2>5, <3>1, <4>1
      <4>3. next'[prev'[n]] = at((pos[n] - 1) + 1) /\ (pos[n] - 1) + 1 = pos[n]
        BY <1>3, <2>2, <2>3, <3>1, <4>2
      <4> QED BY <2>7, <4>2, <4>3
    <3> QED BY <3>2, <3>3
  <2>13. \A n \in Free : next'[n] = next[n]
    BY <1>3, <2>3
  <2>14. LinksLocal'
    BY <1>1, <1>2, <1>3, <2>10, <2>11, <2>12, <2>13 DEF LinksLocal
  <2>15. Ordered'
    <3> DEFINE rank == [n \in Nodes |-> IF n \in Active THEN pos[n] ELSE 0]
    <3>1. rank \in [Nodes -> Int]
      BY <2>7
    <3>2. ASSUME NEW n \in Active, next'[n] # NULL
          PROVE  rank[n] < rank[next'[n]]
      BY <1>3, <2>7, <2>11, <3>2
    <3> QED BY <1>3, <3>1, <3>2 DEF Ordered
  <2> QED BY <1>4, <2>9, <2>14, <2>15
<1> QED BY <1>5, <1>6 DEF DoProcessSort

-----------------------------------------------------------------------------
(***************************************************************************)
(* The theorems.                                                           *)
(***************************************************************************)

LEMMA NextInv == Inductive /\ [Next]_vars => Inductive'
<1> SUFFICES ASSUME Inductive, [Next]_vars PROVE Inductive'
  OBVIOUS
<1>1. CASE Dispatch
  BY <1>1, WalkInv, DoProcessSortInv DEF Dispatch
<1>2. CASE Finish
  BY <1>2, DeleteStepInv, DeleteDoneInv, FinishKillInv, CreateNodeInv, CreateFailsInv DEF Finish
<1>3. CASE Grow
  BY <1>3, BlockMallocFailsInv, AddBlockNodeInv DEF Grow
<1>4. CASE Yield
  BY <1>4, DieInv, YieldInv DEF Yield
<1>5. CASE ProcessCalls
  BY <1>5, KillInv, SetExitInv, DeleteCallInv, ClearProcessListInv, ClearFreeProcessListInv,
     CreateCallInv, SetPidInv, SetProcessRunLevelInv DEF ProcessCalls
<1>6. CASE TimingCalls
  BY <1>6, TimingCallsInv
<1>7. CASE UNCHANGED vars
  <2>1. UNCHANGED <<plist, pfree, cur_proc, sort_processes, next, prev, process_sleep_time,
                    process_id, process_data, process_exit, run_level, home, phase, loop,
                    dying, calls>>
    BY <1>7 DEF vars
  <2>2. process_sleep_time \in [Nodes -> Word] /\ calls \in 0 .. MaxCalls
    BY DEF Inductive, IInv, TypeOK
  <2> QED BY <2>1, <2>2, TimesOnly DEF links, fields
<1> QED BY <1>1, <1>2, <1>3, <1>4, <1>5, <1>6, <1>7 DEF Next

\* The strengthened invariant IInv (types, local links, live cursor, control
\* state) holds in every reachable state, together with the absence of cycles.
THEOREM InvariantHolds == Spec => [](IInv /\ Ordered)
<1>1. Init => Inductive
  BY InitInv
<1>2. Inductive /\ [Next]_vars => Inductive'
  BY NextInv
<1>3. Inductive => IInv /\ Ordered
  BY DEF Inductive
<1> QED BY <1>1, <1>2, <1>3, PTL DEF Spec

\* Every variable of the scheduler keeps its type, whatever calls the game makes.
THEOREM TypeCorrect == Spec => []TypeOK
<1>1. IInv /\ Ordered => TypeOK
  BY DEF IInv
<1> QED BY <1>1, InvariantHolds, PTL

\* The dispatcher's cursor never points at a node that has left the active list:
\* process_dispatch never follows the link of a freed node, however many
\* processes the running one kills, creates or outlives.
THEOREM CursorSafe == Spec => []CursorLive
<1>1. IInv /\ Ordered => CursorLive
  BY DEF IInv
<1> QED BY <1>1, InvariantHolds, PTL

-----------------------------------------------------------------------------
(***************************************************************************)
(* Stacks.                                                                 *)
(***************************************************************************)

\* delete_process leaves a stack with the free node, or frees both.
LEMMA DeleteStacks ==
  ASSUME TypeOK, StacksOwned, NEW p \in Active, Delete(p)
  PROVE  StacksOwned'
<1>1. p \in Nodes /\ Active' = Active \ {p}
  BY DEF Active, Delete, TypeOK
<1>2. Free' = IF FreeMode THEN Free ELSE Free \cup {p}
  BY <1>1 DEF Active, Free, Delete, TypeOK
<1>3. CASE FreeMode
  BY <1>1, <1>2, <1>3 DEF StacksOwned, Delete, Active, TypeOK
<1>4. CASE ~FreeMode
  BY <1>1, <1>2, <1>4 DEF StacksOwned, Delete
<1> QED BY <1>3, <1>4

\* A step that moves no node and no stack.
LEMMA SameStacks ==
  ASSUME StacksOwned, UNCHANGED <<home, process_data>>
  PROVE  StacksOwned'
BY DEF StacksOwned, Active, Free

LEMMA KillStacks ==
  ASSUME Inductive, StacksOwned, NEW p \in Nodes, KillProc(p)
  PROVE  StacksOwned'
<1>1. TypeOK
  BY DEF Inductive, IInv
<1>2. \/ UNCHANGED <<home, process_data>>
      \/ p \in Active /\ Delete(p)
      \/ process_exit[p] \in Active /\ Delete(process_exit[p])
  BY DEF KillProc, links, Active
<1>3. CASE process_exit[p] \in Active /\ Delete(process_exit[p])
  <2>1. PICK q \in Active : Delete(q)
    BY <1>3
  <2> QED BY <1>1, <2>1, DeleteStacks
<1> QED BY <1>1, <1>2, <1>3, DeleteStacks, SameStacks

LEMMA NextStacks == Inductive /\ StacksOwned /\ [Next]_vars => StacksOwned'
<1> SUFFICES ASSUME Inductive, StacksOwned, [Next]_vars PROVE StacksOwned'
  OBVIOUS
<1> USE NullIsNoNode
<1>1. TypeOK /\ LinksLocal /\ CursorLive /\ ControlInv
  BY DEF Inductive, IInv
<1>2. CASE DeleteStep
  <2>1. loop.ptr \in Nodes
    BY <1>1, <1>2 DEF DeleteStep, TypeOK, Loops, Ptr
  <2>2. \/ UNCHANGED links
        \/ KillProc(loop.ptr)
        \/ ~SkipsCaller(loop.op) /\ Delete(loop.ptr)
    BY <1>2 DEF DeleteStep
  <2>3. CASE ~SkipsCaller(loop.op) /\ Delete(loop.ptr)
    <3>1. loop.ptr \in Active
      BY <1>1, <1>2, <2>1, <2>3 DEF DeleteStep, ControlInv
    <3> QED BY <1>1, <2>3, <3>1, DeleteStacks
  <2> QED BY <2>1, <2>2, <2>3, KillStacks, SameStacks DEF links
<1>3. CASE Die
  <2>1. \/ UNCHANGED links
        \/ \E q \in Active : Delete(q)
    BY <1>1, <1>3 DEF Die, InProcess, CursorLive
  <2> QED BY <1>1, <2>1, DeleteStacks, SameStacks DEF links
<1>4. CASE FinishKill
  BY <1>1, <1>4, DeleteStacks DEF FinishKill, CursorLive
<1>5. CASE \E p \in Nodes : Kill(p)
  BY <1>5, KillStacks DEF Kill
<1>6. CASE CreateNode
  <2>1. pfree \in Free /\ pfree \in Nodes
    BY <1>1, <1>6 DEF CreateNode, LinksLocal, Free
  <2>2. Active' = Active \cup {pfree} /\ Free' = Free \ {pfree}
    BY <1>1, <1>6, <2>1 DEF CreateNode, Active, Free, TypeOK
  <2>3. process_data' = [process_data EXCEPT ![pfree] = "block"]
    BY <1>6 DEF CreateNode
  <2> QED BY <1>1, <2>1, <2>2, <2>3 DEF StacksOwned, TypeOK, Active, Free
<1>7. CASE CreateFails
  <2>1. pfree \notin Active
    BY <1>1 DEF LinksLocal, Active, Free
  <2> QED BY <1>1, <1>7, <2>1 DEF CreateFails, StacksOwned, TypeOK, Active, Free
<1>8. CASE \E n \in Nodes : AddBlockNode(n)
  <2>1. PICK n \in Nodes : AddBlockNode(n)
    BY <1>8
  <2>2. Active' = Active /\ Free' = Free \cup {n} /\ n \notin Active
    BY <1>1, <2>1 DEF AddBlockNode, Active, Free, TypeOK
  <2>3. PICK d \in IF FreeMode THEN {"null", "junk"} ELSE {"null"} :
          process_data' = [process_data EXCEPT ![n] = d]
    BY <2>1 DEF AddBlockNode
  <2> QED BY <1>1, <2>2, <2>3 DEF StacksOwned, TypeOK, Active, Free
<1>9. CASE ClearProcessList
  BY <1>1, <1>9, SameStacks DEF ClearProcessList, StacksOwned, Active, Free, TypeOK, links
<1>10. CASE ClearFreeProcessList
  BY <1>1, <1>10 DEF ClearFreeProcessList, StacksOwned, Active, Free, TypeOK
<1>11. CASE UNCHANGED <<home, process_data>>
  BY <1>11, SameStacks
<1>12. CASE Dispatch \/ DeleteDone \/ BlockMallocFails \/ SuspendSelf \/ (\E t \in Ticks : Sleep(t))
  <2>1. UNCHANGED <<home, process_data>>
    BY <1>12 DEF Dispatch, StartPass, Visit, Advance, EndPass, DoProcessSort, DeleteDone,
                 BlockMallocFails, SuspendSelf, Sleep, links
  <2> QED BY <2>1, SameStacks
<1>13. CASE TimingCalls
  <2>1. UNCHANGED <<home, process_data>>
    BY <1>13 DEF TimingCalls, SleepProcess, AddSleepProcessId, WakeupProcess, WakeupProcessId,
                 SuspendProcess, SuspendAll, SuspendMultiple, ResumeAll, ResumeMultiple,
                 ResumeProcess, Timing, links
  <2> QED BY <2>1, SameStacks
<1>14. CASE \/ \E p, q \in Nodes : SetExit(p, q)
            \/ \E op \in Deletes, ids \in SUBSET Pids : DeleteCall(op, ids)
            \/ \E op \in Creates, id \in Pids : CreateCall(op, id)
            \/ \E id \in Pids : SetPid(id)
            \/ \E p \in Nodes, l \in Levels : SetProcessRunLevel(p, l)
  <2>1. UNCHANGED <<home, process_data>>
    BY <1>14 DEF SetExit, DeleteCall, CreateCall, SetPid, SetProcessRunLevel, links
  <2> QED BY <2>1, SameStacks
<1>15. CASE UNCHANGED vars
  BY <1>15, SameStacks DEF vars
<1> QED BY <1>2, <1>3, <1>4, <1>5, <1>6, <1>7, <1>8, <1>9, <1>10, <1>12, <1>13, <1>14, <1>15
        DEF Next, Finish, Grow, Yield, ProcessCalls

\* A process on the active list always owns a stack, and no free node points at
\* a stack that was given back to the heap: create_process never reallocates a
\* freed block in the NO_FREE_MEMORY mode.
THEOREM StacksSafe == Spec => []StacksOwned
<1>1. Init => StacksOwned
  BY DEF Init, StacksOwned, Active, Free
<1>2. Inductive /\ StacksOwned /\ [Next]_vars => StacksOwned'
  BY NextStacks
<1>3. Spec => []Inductive
  BY InvariantHolds DEF Inductive
<1> QED BY <1>1, <1>2, <1>3, PTL DEF Spec

-----------------------------------------------------------------------------
(***************************************************************************)
(* The loops that delete while they walk.                                  *)
(***************************************************************************)

\* Without exit functions, nobody but the loop itself deletes during the loop.
NoExits == (\A n \in Nodes : process_exit[n] = NULL) /\ dying = NULL
LoopInv == NoExits /\ LoopCursorLive

LEMMA NextLoop ==
  ASSUME "process_exit" \notin Calls, Inductive, LoopInv, [Next]_vars
  PROVE  LoopInv'
<1> USE NullIsNoNode
<1>1. TypeOK /\ LinksLocal /\ Ordered /\ CursorLive /\ ControlInv
  BY DEF Inductive, IInv
<1>2. CASE DeleteStep
  <2>1. loop.ptr \in Active /\ loop.ptr \in Nodes /\ loop.op \in Deletes
    BY <1>2 DEF DeleteStep, LoopInv, LoopCursorLive, Active
  <2>2. /\ UNCHANGED process_exit /\ dying' = NULL
        /\ UNCHANGED links \/ Delete(loop.ptr)
    BY <1>2, <2>1 DEF DeleteStep, LoopInv, NoExits, KillProc, Active, fields
  <2>3. Active \ {loop.ptr} \subseteq Active'
    BY <1>1, <2>1, <2>2, SameLinks, DeleteLinks
  <2>4. loop' \in {[loop EXCEPT !.ptr = NULL], [loop EXCEPT !.ptr = next[loop.ptr]]}
    BY <1>2 DEF DeleteStep
  <2>5. loop'.ptr \in {NULL, next[loop.ptr]}
    BY <1>1, <2>4 DEF TypeOK, Loops
  <2>6. next[loop.ptr] \in (Active \ {loop.ptr}) \cup {NULL}
    BY <1>1, <2>1, NoSelfLink DEF LinksLocal
  <2> QED BY <2>2, <2>3, <2>5, <2>6 DEF LoopInv, NoExits, LoopCursorLive
<1>3. CASE \E op \in Deletes, ids \in SUBSET Pids : DeleteCall(op, ids)
  <2>1. loop'.ptr = plist /\ UNCHANGED <<links, process_exit, dying>>
    BY <1>3 DEF DeleteCall, fields
  <2> QED BY <1>1, <2>1, SameLinks DEF LoopInv, NoExits, LoopCursorLive, LinksLocal
<1>4. CASE loop'.op \notin Deletes /\ dying' = NULL /\ \A n \in Nodes : process_exit'[n] = NULL
  BY <1>4 DEF LoopInv, NoExits, LoopCursorLive
<1>5. CASE UNCHANGED <<home, loop, process_exit, dying>>
  BY <1>5 DEF LoopInv, NoExits, LoopCursorLive, Active
<1>6. Idle.op \notin Deletes
  BY DEF Idle, Deletes
<1>7. CASE Die \/ (\E p \in Nodes : Kill(p)) \/ DeleteDone \/ CreateFails
           \/ (\E op \in Creates, id \in Pids : CreateCall(op, id)) \/ ClearProcessList
           \/ ClearFreeProcessList
  <2>1. dying' = NULL /\ UNCHANGED process_exit
    BY <1>1, <1>7 DEF Die, Kill, KillProc, DeleteDone, CreateFails, CreateCall, fields, LoopInv,
                 NoExits, ClearProcessList, ClearFreeProcessList, InProcess, CursorLive, Active
  <2>2. loop' = Idle \/ loop'.op \in Creates
    BY <1>7 DEF Die, Kill, DeleteDone, CreateFails, CreateCall, Calling, ClearProcessList,
                ClearFreeProcessList
  <2>3. loop'.op \notin Deletes
    BY <1>6, <2>2 DEF Creates, Deletes
  <2> QED BY <1>4, <2>1, <2>3 DEF LoopInv, NoExits
<1>8. CASE CreateNode
  <2>1. loop' = Idle /\ dying' = NULL /\ pfree \in Nodes
    BY <1>1, <1>8 DEF CreateNode, LoopInv, NoExits, TypeOK, Ptr
  <2>2. process_exit' = [process_exit EXCEPT ![pfree] = NULL]
    BY <1>8 DEF CreateNode
  <2> QED BY <1>1, <1>4, <1>6, <2>1, <2>2 DEF LoopInv, NoExits, TypeOK
<1>9. CASE Grow
  <2>1. loop.op \in Creates /\ loop'.op = loop.op /\ dying' = dying /\ UNCHANGED process_exit
    BY <1>1, <1>9 DEF Grow, BlockMallocFails, AddBlockNode, Growing, fields, TypeOK, Loops
  <2>2. loop'.op \notin Deletes
    BY <2>1 DEF Creates, Deletes
  <2> QED BY <1>4, <2>1, <2>2 DEF LoopInv, NoExits
<1>10. CASE FinishKill
  BY <1>10 DEF FinishKill, LoopInv, NoExits
<1>11. CASE Dispatch \/ SuspendSelf \/ (\E t \in Ticks : Sleep(t))
            \/ (\E id \in Pids : SetPid(id))
            \/ (\E p \in Nodes, l \in Levels : SetProcessRunLevel(p, l))
            \/ (\E p, q \in Nodes : SetExit(p, q))
  <2>1. UNCHANGED <<home, loop, process_exit, dying>>
    BY <1>11 DEF Dispatch, StartPass, Visit, Advance, EndPass, DoProcessSort, SuspendSelf, Sleep,
                 SetPid, SetProcessRunLevel, SetExit, Calling, links, fields
  <2> QED BY <1>5, <2>1
<1>12. CASE TimingCalls
  <2>1. UNCHANGED <<home, loop, process_exit, dying>>
    BY <1>12 DEF TimingCalls, SleepProcess, AddSleepProcessId, WakeupProcess, WakeupProcessId,
                 SuspendProcess, SuspendAll, SuspendMultiple, ResumeAll, ResumeMultiple,
                 ResumeProcess, Timing, links, fields
  <2> QED BY <1>5, <2>1
<1>13. CASE UNCHANGED vars
  BY <1>5, <1>13 DEF vars
<1> QED BY <1>2, <1>3, <1>7, <1>8, <1>9, <1>10, <1>11, <1>12, <1>13
        DEF Next, Finish, Grow, Yield, ProcessCalls

\* In a game without exit functions the next pointer that killall,
\* kill_everything and delete_multiple_processs saved is still on the list when
\* they use it.  (With exit functions it need not be: one may kill the process
\* that killall has saved, process.c:728-740.)
THEOREM LoopCursorSafe ==
  ASSUME "process_exit" \notin Calls
  PROVE  Spec => []LoopCursorLive
<1>1. Init => LoopInv
  BY DEF Init, LoopInv, NoExits, LoopCursorLive, Idle, Deletes
<1>2. Inductive /\ LoopInv /\ [Next]_vars => LoopInv'
  BY NextLoop
<1>3. Spec => []Inductive
  BY InvariantHolds DEF Inductive
<1>4. LoopInv => LoopCursorLive
  BY DEF LoopInv
<1> QED BY <1>1, <1>2, <1>3, <1>4, PTL DEF Spec

USE DEF Due, Returns

-----------------------------------------------------------------------------
(***************************************************************************)
(* Chains of nodes.                                                        *)
(***************************************************************************)

\* The chain along f in S has no cycle.
Rising(f, S) ==
  \E rank \in [Nodes -> Int] : \A n \in S : f[n] # NULL => rank[n] < rank[f[n]]

\* A nonempty set of naturals has a least member: the one induction the proofs use.
LEMMA LeastNat ==
  ASSUME NEW T, T \subseteq Nat, T # {}
  PROVE  \E x \in T : \A y \in T : x <= y
<1> DEFINE R == OpToRel(<, Nat)
<1>1. IsWellFoundedOn(R, Nat)
  BY NatLessThanWellFounded
<1>2. ASSUME NEW x \in Nat, NEW y \in Nat, x < y
      PROVE  <<x, y>> \in R
  BY <1>2 DEF OpToRel
<1> HIDE DEF R
<1>3. PICK x \in T : \A y \in T : ~(<<y, x>> \in R)
  BY <1>1, WFMin
<1>4. ASSUME NEW y \in T
      PROVE  x <= y
  <2>1. x \in Nat /\ y \in Nat /\ ~(<<y, x>> \in R)
    BY <1>3
  <2>2. ~(y < x)
    BY <1>2, <2>1
  <2> QED BY <2>1, <2>2
<1> QED BY <1>4

\* Of finitely many nodes with ranks, one has the least rank.
LEMMA LeastRanked ==
  ASSUME NEW S, S \subseteq Nodes, S # {}, NEW rank \in [Nodes -> Int]
  PROVE  \E n \in S : \A m \in S : rank[n] <= rank[m]
<1> DEFINE below(n) == {m \in S : rank[m] < rank[n]}
           T == {Cardinality(below(n)) : n \in S}
<1>1. IsFiniteSet(S)
  BY FiniteNodes, FS_Subset
<1>2. ASSUME NEW n \in S
      PROVE  IsFiniteSet(below(n)) /\ Cardinality(below(n)) \in Nat
  <2>1. below(n) \subseteq S
    OBVIOUS
  <2> QED BY <1>1, <2>1, FS_Subset, FS_CardinalityType
<1>3. T \subseteq Nat /\ T # {}
  BY <1>2
<1>4. PICK x \in T : \A y \in T : x <= y
  <2> HIDE DEF T
  <2> QED BY <1>3, LeastNat
<1>5. PICK n \in S : x = Cardinality(below(n))
  BY <1>4
<1>6. ASSUME NEW m \in S, ~(rank[n] <= rank[m])
      PROVE  FALSE
  <2>1. rank[m] \in Int /\ rank[n] \in Int /\ rank[m] < rank[n]
    BY <1>6
  <2>2. \A k \in S : rank[k] \in Int
    OBVIOUS
  <2>3. below(m) \subseteq below(n) /\ m \in below(n) /\ m \notin below(m)
    BY <2>1, <2>2
  <2>4. Cardinality(below(m)) < Cardinality(below(n))
    <3> HIDE DEF below
    <3>1. below(m) \subseteq below(n) /\ below(m) # below(n)
      BY <2>3
    <3> QED BY <1>2, <3>1, FS_Subset, FS_CardinalityType
  <2>5. Cardinality(below(n)) <= Cardinality(below(m))
    BY <1>4, <1>5
  <2>6. Cardinality(below(m)) \in Nat /\ Cardinality(below(n)) \in Nat
    BY <1>2
  <2> HIDE DEF below
  <2> QED BY <2>4, <2>5, <2>6
<1> QED BY <1>6

\* Of finitely many nodes with ranks, one has the greatest rank.
LEMMA MostRanked ==
  ASSUME NEW S, S \subseteq Nodes, S # {}, NEW rank \in [Nodes -> Int]
  PROVE  \E n \in S : \A m \in S : rank[m] <= rank[n]
<1> DEFINE down == [n \in Nodes |-> -rank[n]]
<1>1. down \in [Nodes -> Int]
  OBVIOUS
<1>2. PICK n \in S : \A m \in S : down[n] <= down[m]
  <2> HIDE DEF down
  <2> QED BY <1>1, LeastRanked
<1>3. ASSUME NEW m \in S
      PROVE  rank[m] <= rank[n]
  <2>1. rank[m] \in Int /\ rank[n] \in Int /\ -rank[n] <= -rank[m]
    BY <1>2
  <2> QED BY <2>1
<1> QED BY <1>3

\* Follow is the least set of nodes that holds its first node and is closed under the links.
LEMMA FollowFacts ==
  ASSUME NEW f \in [Nodes -> Ptr], NEW p \in Nodes
  PROVE  /\ p \in Follow(f, p) /\ Follow(f, p) \subseteq Nodes
         /\ Leads(f, Follow(f, p))
         /\ \A S \in SUBSET Nodes : p \in S /\ Leads(f, S) => Follow(f, p) \subseteq S
<1> USE NullIsNoNode
<1>1. p # NULL
  OBVIOUS
<1>2. Follow(f, p) =
        {n \in Nodes : \A S \in SUBSET Nodes : p \in S /\ Leads(f, S) => n \in S}
  BY <1>1 DEF Follow
<1>3. p \in Follow(f, p) /\ Follow(f, p) \subseteq Nodes
  BY <1>2
<1>4. \A S \in SUBSET Nodes : p \in S /\ Leads(f, S) => Follow(f, p) \subseteq S
  BY <1>2
<1>5. ASSUME NEW n \in Follow(f, p), f[n] # NULL
      PROVE  f[n] \in Follow(f, p)
  <2>1. n \in Nodes /\ f[n] \in Nodes
    BY <1>3, <1>5 DEF Ptr
  <2>2. ASSUME NEW S \in SUBSET Nodes, p \in S, Leads(f, S)
        PROVE  f[n] \in S
    BY <1>4, <1>5, <2>2 DEF Leads
  <2> QED BY <1>2, <2>1, <2>2
<1> QED BY <1>3, <1>4, <1>5 DEF Leads

\* The null pointer leads to no node.
LEMMA FollowNull == Follow(next, NULL) = {}
BY DEF Follow

\* What a list holds is its first node and what follows it.
LEMMA FollowStep ==
  ASSUME NEW f \in [Nodes -> Ptr], NEW p \in Nodes
  PROVE  Follow(f, p) = {p} \cup Follow(f, f[p])
<1> USE NullIsNoNode
<1>1. CASE f[p] = NULL
  <2>1. Leads(f, {p}) /\ Follow(f, f[p]) = {}
    BY <1>1 DEF Leads, Follow
  <2> QED BY <2>1, FollowFacts
<1>2. CASE f[p] \in Nodes
  <2> DEFINE q == f[p]
             S == {p} \cup Follow(f, q)
  <2>1. /\ q \in Follow(f, q) /\ Follow(f, q) \subseteq Nodes
        /\ Leads(f, Follow(f, q))
        /\ \A T \in SUBSET Nodes : q \in T /\ Leads(f, T) => Follow(f, q) \subseteq T
    BY <1>2, FollowFacts
  <2>2. p \in Follow(f, p) /\ Follow(f, p) \subseteq Nodes /\ Leads(f, Follow(f, p))
    BY FollowFacts
  <2>3. q \in Follow(f, p)
    BY <1>2, <2>2 DEF Leads
  <2>4. Follow(f, q) \subseteq Follow(f, p)
    BY <2>1, <2>2, <2>3
  <2>5. Leads(f, S) /\ S \in SUBSET Nodes /\ p \in S
    BY <2>1 DEF Leads
  <2>6. Follow(f, p) \subseteq S
    BY <2>5, FollowFacts
  <2> QED BY <2>2, <2>4, <2>6
<1> QED BY <1>1, <1>2 DEF Ptr

\* A set closed along f without cycles, in which all but the head have a predecessor, is
\* what is met from the head.
LEMMA ChainExact ==
  ASSUME NEW f \in [Nodes -> Ptr], NEW S \in SUBSET Nodes, NEW head \in S \cup {NULL},
         Rising(f, S), Leads(f, S), \A n \in S : n = head \/ \E m \in S : f[m] = n
  PROVE  /\ Follow(f, head) = S
         /\ head # NULL => \E n \in S : f[n] = NULL
<1> USE NullIsNoNode
<1>1. PICK rank \in [Nodes -> Int] : \A n \in S : f[n] # NULL => rank[n] < rank[f[n]]
  BY DEF Rising
<1>2. S \subseteq Follow(f, head)
  <2> DEFINE T == S \ Follow(f, head)
  <2>1. SUFFICES ASSUME T # {} PROVE FALSE
    OBVIOUS
  <2>2. PICK n \in T : \A m \in T : rank[n] <= rank[m]
    <3>1. T \subseteq Nodes
      OBVIOUS
    <3> HIDE DEF T
    <3> QED BY <2>1, <3>1, LeastRanked
  <2>3. n \in S /\ n \in Nodes /\ n # NULL /\ n \notin Follow(f, head)
    OBVIOUS
  <2>4. n # head
    BY <2>3, FollowFacts
  <2>5. PICK m \in S : f[m] = n
    BY <2>3, <2>4
  <2>6. m \in Nodes /\ rank[m] \in Int /\ rank[n] \in Int /\ rank[m] < rank[n]
    BY <1>1, <2>3, <2>5
  <2>7. m \in Follow(f, head)
    BY <2>2, <2>6
  <2>8. head \in Nodes
    BY <2>7 DEF Follow
  <2>9. n \in Follow(f, head)
    BY <2>3, <2>5, <2>7, <2>8, FollowFacts DEF Leads
  <2> QED BY <2>3, <2>9
<1>3. Follow(f, head) \subseteq S
  <2>1. CASE head = NULL
    BY <2>1 DEF Follow
  <2>2. CASE head \in S
    BY <2>2, FollowFacts
  <2> QED BY <2>1, <2>2
<1>4. ASSUME head # NULL
      PROVE  \E n \in S : f[n] = NULL
  <2>1. S # {} /\ S \subseteq Nodes
    BY <1>4
  <2>2. PICK n \in S : \A m \in S : rank[m] <= rank[n]
    BY <2>1, MostRanked
  <2>3. CASE f[n] # NULL
    <3>1. f[n] \in S /\ rank[n] \in Int /\ rank[f[n]] \in Int /\ rank[n] < rank[f[n]]
      BY <1>1, <2>3 DEF Leads
    <3>2. rank[f[n]] <= rank[n]
      BY <2>2, <3>1
    <3> QED BY <3>1, <3>2
  <2> QED BY <2>3
<1> QED BY <1>2, <1>3, <1>4

-----------------------------------------------------------------------------
(***************************************************************************)
(* The free list, and the lists are exact.                                 *)
(***************************************************************************)

\* The free list is one chain: no cycle, and only its head has no predecessor.
FreeChain ==
  /\ Rising(next, Free)
  /\ \A n \in Free : n = pfree \/ \E m \in Free : next[m] = n

\* While add_process_block goes on, the node it got last is the end of the free list.
BlockOpen ==
  loop.op \in Creates /\ 0 < loop.count /\ loop.count < BlockSize =>
    loop.ptr \in Free /\ next[loop.ptr] = NULL

FreeInv == FreeChain /\ BlockOpen

\* What is met from plist is the active nodes, and the last has no successor.
LEMMA ActiveExact ==
  ASSUME Inductive
  PROVE  /\ Follow(next, plist) = Active
         /\ plist # NULL => \E n \in Active : next[n] = NULL
<1> USE NullIsNoNode
<1>1. next \in [Nodes -> Ptr] /\ Active \in SUBSET Nodes /\ plist \in Active \cup {NULL}
  BY DEF Inductive, IInv, TypeOK, LinksLocal, Active
<1>2. Rising(next, Active)
  BY DEF Inductive, Ordered, Rising
<1>3. Leads(next, Active)
  BY DEF Inductive, IInv, LinksLocal, Leads
<1>4. \A n \in Active : n = plist \/ \E m \in Active : next[m] = n
  BY DEF Inductive, IInv, LinksLocal
<1> QED BY <1>1, <1>2, <1>3, <1>4, ChainExact

\* What is met from pfree is the free nodes, and the last has no successor.
LEMMA FreeExact ==
  ASSUME Inductive, FreeChain
  PROVE  /\ Follow(next, pfree) = Free
         /\ pfree # NULL => \E n \in Free : next[n] = NULL
<1>1. next \in [Nodes -> Ptr] /\ Free \in SUBSET Nodes /\ pfree \in Free \cup {NULL}
  BY DEF Inductive, IInv, TypeOK, LinksLocal, Free
<1>2. Leads(next, Free)
  BY DEF Inductive, IInv, LinksLocal, Leads
<1>3. Rising(next, Free) /\ \A n \in Free : n = pfree \/ \E m \in Free : next[m] = n
  BY DEF FreeChain
<1> QED BY <1>1, <1>2, <1>3, ChainExact

\* The local invariants and the two rankings make both lists exact.
LEMMA ListsFromInv ==
  ASSUME Inductive, FreeChain
  PROVE  ListsExact
<1>1. Reach(plist) = Active /\ (plist # NULL => \E n \in Active : next[n] = NULL)
  BY ActiveExact DEF Reach
<1>2. Reach(pfree) = Free /\ (pfree # NULL => \E n \in Free : next[n] = NULL)
  BY FreeExact DEF Reach
<1>3. plist # NULL => prev[plist] = NULL
  BY DEF Inductive, IInv, LinksLocal
<1>4. \A n \in Active : next[n] # NULL => prev[next[n]] = n
  BY DEF Inductive, IInv, LinksLocal
<1> QED BY <1>1, <1>2, <1>3, <1>4 DEF ListsExact, Ends

\* A step that leaves the free nodes and their links alone.
LEMMA FreeSame ==
  ASSUME Inductive, FreeChain, Free' = Free, pfree' = pfree, \A n \in Free : next'[n] = next[n]
  PROVE  FreeChain'
BY DEF FreeChain, Rising

\* delete_process pushes the node in front of the free list, or gives it to the heap.
LEMMA DeleteFree ==
  ASSUME Inductive, FreeChain, NEW p \in Active, Delete(p)
  PROVE  FreeChain'
<1> USE NullIsNoNode, ModeAssumption
<1>1. /\ Free' = IF FreeMode THEN Free ELSE Free \cup {p}
      /\ TypeOK /\ LinksLocal /\ p \in Nodes /\ p \notin Free /\ Free \subseteq Nodes
  BY DeleteLinks DEF Inductive, IInv, Active, Free
<1>2. \A n \in Free : next'[n] = next[n]
  BY <1>1 DEF Delete, LinksLocal, Active, Free
<1>3. CASE FreeMode
  BY <1>1, <1>2, <1>3, FreeSame DEF Delete
<1>4. CASE ~FreeMode
  <2>1. /\ pfree' = p /\ next'[p] = pfree /\ Free' = Free \cup {p}
        /\ pfree \in Free \cup {NULL}
    BY <1>1, <1>4 DEF Delete, LinksLocal
  <2>2. PICK rank \in [Nodes -> Int] : \A n \in Free : next[n] # NULL => rank[n] < rank[next[n]]
    BY DEF FreeChain, Rising
  <2> DEFINE low == IF pfree = NULL THEN 0 ELSE rank[pfree] - 1
             rank2 == [rank EXCEPT ![p] = low]
  <2>3. low \in Int /\ (pfree # NULL => low < rank[pfree])
    BY <1>1, <2>1
  <2>4. rank2 \in [Nodes -> Int] /\ rank2[p] = low /\ \A n \in Free : rank2[n] = rank[n]
    BY <1>1, <2>3
  <2> HIDE DEF low, rank2
  <2>5. \A n \in Free' : next'[n] # NULL => rank2[n] < rank2[next'[n]]
    <3>1. ASSUME NEW n \in Free, next'[n] # NULL
          PROVE  rank2[n] < rank2[next'[n]]
      <4>1. next'[n] = next[n] /\ next[n] \in Free
        BY <1>1, <1>2, <3>1 DEF LinksLocal
      <4> QED BY <2>2, <2>4, <3>1, <4>1
    <3>2. next'[p] # NULL => rank2[p] < rank2[next'[p]]
      BY <2>1, <2>3, <2>4
    <3> QED BY <2>1, <3>1, <3>2
  <2>6. \A n \in Free' : n = pfree' \/ \E m \in Free' : next'[m] = n
    BY <1>2, <2>1 DEF FreeChain
  <2> QED BY <2>4, <2>5, <2>6 DEF FreeChain, Rising
<1> QED BY <1>3, <1>4

\* kill, with the first half of its exit function, keeps the free list one chain.
LEMMA KillFree ==
  ASSUME Inductive, FreeChain, NEW p \in Nodes, KillProc(p)
  PROVE  FreeChain'
<1>1. CASE UNCHANGED links
  BY <1>1, FreeSame DEF links, Free
<1>2. CASE \E q \in Active : Delete(q)
  BY <1>2, DeleteFree
<1> QED BY <1>1, <1>2 DEF KillProc, Active

\* clear_process_list ties the active list to the front of the free list.
LEMMA ClearProcessListFree ==
  ASSUME Inductive, FreeInv, ClearProcessList
  PROVE  FreeInv'
<1> USE NullIsNoNode
<1>1. TypeOK /\ LinksLocal /\ Ordered /\ loop = Idle /\ loop' = loop
  BY DEF Inductive, IInv, ClearProcessList, Calling
<1>2. BlockOpen'
  BY <1>1 DEF BlockOpen, Idle, Creates
<1>3. CASE plist = NULL
  BY <1>2, <1>3, FreeSame DEF FreeInv, ClearProcessList, links, Free
<1>4. CASE plist # NULL
  <2>1. PICK last \in Active :
          /\ next[last] = NULL
          /\ next' = [next EXCEPT ![last] = pfree]
          /\ pfree' = plist
          /\ home' = [n \in Nodes |-> IF n \in Active THEN "free" ELSE home[n]]
    BY <1>4 DEF ClearProcessList
  <2>2. /\ Free' = Active \cup Free /\ Active \subseteq Nodes /\ Free \subseteq Nodes
        /\ Active \cap Free = {} /\ pfree \in Free \cup {NULL}
    BY <1>1, <2>1 DEF Active, Free, TypeOK, LinksLocal
  <2>3. /\ \A n \in Active \ {last} : next'[n] = next[n]
        /\ \A n \in Free : next'[n] = next[n]
        /\ next'[last] = pfree
    BY <1>1, <2>1, <2>2 DEF TypeOK
  <2>4. PICK ra \in [Nodes -> Int] : \A n \in Active : next[n] # NULL => ra[n] < ra[next[n]]
    BY <1>1 DEF Ordered
  <2>5. PICK rf \in [Nodes -> Int] : \A n \in Free : next[n] # NULL => rf[n] < rf[next[n]]
    BY DEF FreeInv, FreeChain, Rising
  <2> DEFINE up == IF pfree = NULL THEN 0 ELSE ra[last] - rf[pfree] + 1
             rank == [n \in Nodes |-> IF n \in Active THEN ra[n] ELSE rf[n] + up]
  <2>6. up \in Int /\ (pfree # NULL => ra[last] < rf[pfree] + up)
    BY <2>2
  <2>7. /\ rank \in [Nodes -> Int]
        /\ \A n \in Active : rank[n] = ra[n] /\ ra[n] \in Int
        /\ \A n \in Free : rank[n] = rf[n] + up /\ rf[n] \in Int
    BY <2>2, <2>6
  <2> HIDE DEF up, rank
  <2>8. \A n \in Free' : next'[n] # NULL => rank[n] < rank[next'[n]]
    <3>1. ASSUME NEW n \in Active \ {last}, next'[n] # NULL
          PROVE  rank[n] < rank[next'[n]]
      BY <1>1, <2>3, <2>4, <2>7, <3>1 DEF LinksLocal
    <3>2. ASSUME NEW n \in Free, next'[n] # NULL
          PROVE  rank[n] < rank[next'[n]]
      <4>1. next'[n] = next[n] /\ next[n] \in Free
        BY <1>1, <2>3, <3>2 DEF LinksLocal
      <4>2. rf[n] < rf[next[n]] /\ rank[n] = rf[n] + up /\ rank[next[n]] = rf[next[n]] + up
            /\ rf[n] \in Int /\ rf[next[n]] \in Int
        BY <2>5, <2>7, <3>2, <4>1
      <4> QED BY <2>6, <4>1, <4>2
    <3>3. next'[last] # NULL => rank[last] < rank[next'[last]]
      BY <2>2, <2>3, <2>6, <2>7
    <3> QED BY <2>2, <3>1, <3>2, <3>3
  <2>9. ASSUME NEW n \in Free', n # pfree'
        PROVE  \E m \in Free' : next'[m] = n
    <3>1. CASE n \in Active
      <4>1. prev[n] \in Active /\ next[prev[n]] = n
        BY <1>1, <2>1, <2>9, <3>1 DEF LinksLocal
      <4> QED BY <2>1, <2>2, <2>3, <3>1, <4>1
    <3>2. CASE n = pfree
      BY <2>2, <2>3, <3>2
    <3>3. CASE n \in Free /\ n # pfree
      BY <2>2, <2>3, <3>3 DEF FreeInv, FreeChain
    <3> QED BY <2>2, <3>1, <3>2, <3>3
  <2>10. FreeChain'
    BY <2>7, <2>8, <2>9 DEF FreeChain, Rising
  <2> QED BY <1>2, <2>10 DEF FreeInv
<1> QED BY <1>3, <1>4

\* create_process takes the head of the free list.
LEMMA CreateNodeFree ==
  ASSUME Inductive, FreeInv, CreateNode
  PROVE  FreeInv'
<1> USE NullIsNoNode
<1>1. /\ TypeOK /\ LinksLocal /\ CursorLive /\ pfree \in Free
      /\ home' = [home EXCEPT ![pfree] = "active"] /\ pfree' = next[pfree] /\ loop' = Idle
  BY DEF Inductive, IInv, CreateNode, LinksLocal
<1>2. Free' = Free \ {pfree} /\ Free \subseteq Nodes /\ Active \cap Free = {}
  BY <1>1 DEF Free, Active, TypeOK
<1>3. \A n \in Free' : next'[n] = next[n]
  BY <1>1, <1>2 DEF CreateNode, CursorLive
<1>4. Rising(next', Free')
  BY <1>2, <1>3 DEF FreeInv, FreeChain, Rising
<1>5. \A n \in Free' : n = pfree' \/ \E m \in Free' : next'[m] = n
  BY <1>1, <1>2, <1>3 DEF FreeInv, FreeChain
<1>6. BlockOpen'
  BY <1>1 DEF BlockOpen, Idle, Creates
<1> QED BY <1>4, <1>5, <1>6 DEF FreeInv, FreeChain

\* add_process_block ties each node behind the one it got before.
LEMMA AddBlockNodeFree ==
  ASSUME Inductive, FreeInv, NEW n \in Nodes, AddBlockNode(n)
  PROVE  FreeInv'
<1> USE NullIsNoNode
<1>1. /\ TypeOK /\ LinksLocal /\ ControlInv
      /\ loop \in Loops /\ loop.op \in Creates /\ loop.count < BlockSize
      /\ pfree = NULL \/ loop.count > 0
      /\ loop.count = 0 => loop.ptr = NULL
      /\ home[n] = "heap" /\ n \notin Free
      /\ pfree' = IF loop.count = 0 THEN n ELSE pfree
      /\ next' = [m \in Nodes |-> IF m = n THEN NULL
                                  ELSE IF m = loop.ptr THEN n ELSE next[m]]
      /\ home' = [home EXCEPT ![n] = "free"]
      /\ loop' = [loop EXCEPT !.ptr = n, !.count = @ + 1]
  BY DEF Inductive, IInv, AddBlockNode, Growing, ControlInv, TypeOK, Free
<1>2. Free' = Free \cup {n} /\ Free \subseteq Nodes
  BY <1>1 DEF Free, TypeOK
<1>3. loop'.ptr = n
  BY <1>1 DEF Loops
<1>4. BlockOpen'
  BY <1>1, <1>2, <1>3 DEF BlockOpen
<1>5. CASE loop.count = 0
  <2>1. Free = {}
    BY <1>1, <1>5, FreeExact DEF FreeInv, Follow
  <2>2. Free' = {n} /\ pfree' = n /\ next'[n] = NULL
    BY <1>1, <1>2, <1>5, <2>1
  <2>3. [m \in Nodes |-> 0] \in [Nodes -> Int]
    OBVIOUS
  <2> QED BY <1>4, <2>2, <2>3 DEF FreeInv, FreeChain, Rising
<1>6. CASE loop.count > 0
  <2> DEFINE t == loop.ptr
  <2>1. t \in Free /\ next[t] = NULL /\ t # n
    BY <1>1, <1>6 DEF FreeInv, BlockOpen
  <2>2. next'[t] = n /\ next'[n] = NULL /\ \A m \in Free \ {t} : next'[m] = next[m]
    BY <1>1, <1>2, <2>1
  <2>3. pfree' = pfree
    BY <1>1, <1>6 DEF Loops
  <2> HIDE DEF t
  <2>4. PICK rank \in [Nodes -> Int] : \A m \in Free : next[m] # NULL => rank[m] < rank[next[m]]
    BY DEF FreeInv, FreeChain, Rising
  <2> DEFINE rank2 == [rank EXCEPT ![n] = rank[t] + 1]
  <2>5. rank2 \in [Nodes -> Int] /\ rank2[n] = rank[t] + 1 /\ \A m \in Free : rank2[m] = rank[m]
    BY <1>1, <1>2, <2>1
  <2>6. rank[t] \in Int
    BY <1>2, <2>1
  <2> HIDE DEF rank2
  <2>7. ASSUME NEW m \in Free', next'[m] # NULL
        PROVE  rank2[m] < rank2[next'[m]]
    <3>1. m \in Free
      BY <1>2, <2>2, <2>7
    <3>2. CASE m = t
      BY <2>1, <2>2, <2>5, <2>6, <3>2
    <3>3. CASE m # t
      <4>1. next'[m] = next[m] /\ next[m] \in Free
        BY <1>1, <2>2, <2>7, <3>1, <3>3 DEF LinksLocal
      <4> QED BY <2>4, <2>5, <2>7, <3>1, <4>1
    <3> QED BY <3>2, <3>3
  <2>8. ASSUME NEW m \in Free', m # pfree'
        PROVE  \E k \in Free' : next'[k] = m
    <3>1. CASE m = n
      BY <1>2, <2>1, <2>2, <3>1
    <3>2. CASE m \in Free
      <4>1. PICK k \in Free : next[k] = m
        BY <2>3, <2>8, <3>2 DEF FreeInv, FreeChain
      <4>2. m # NULL
        BY <1>2, <3>2
      <4>3. k # t
        BY <2>1, <4>1, <4>2
      <4> QED BY <1>2, <2>2, <4>1, <4>3
    <3> QED BY <1>2, <3>1, <3>2
  <2>9. Rising(next', Free')
    BY <2>5, <2>7 DEF Rising
  <2> QED BY <1>4, <2>8, <2>9 DEF FreeInv, FreeChain
<1> QED BY <1>1, <1>5, <1>6 DEF Loops

\* A step that leaves free nodes alone, when no block is being added afterwards.
LEMMA FreeUntouched ==
  ASSUME Inductive, FreeInv, Free' = Free, pfree' = pfree, \A n \in Free : next'[n] = next[n],
         loop' = loop \/ loop'.op \notin Creates \/ loop'.count = 0 \/ loop'.count = BlockSize
  PROVE  FreeInv'
<1>1. FreeChain'
  BY FreeSame DEF FreeInv
<1>2. CASE loop' = loop
  BY <1>1, <1>2 DEF FreeInv, BlockOpen, Creates, BlockSize
<1>3. CASE loop'.op \notin Creates
  BY <1>1, <1>3 DEF FreeInv, BlockOpen, Creates, BlockSize
<1>4. CASE loop'.count = 0
  BY <1>1, <1>4 DEF FreeInv, BlockOpen, Creates, BlockSize
<1>5. CASE loop'.count = BlockSize
  <2>1. BlockSize \in Nat /\ ~(loop'.count < BlockSize)
    BY <1>5, AllocAssumption DEF BlockSize
  <2> QED BY <1>1, <2>1 DEF FreeInv, BlockOpen, Creates, BlockSize
<1> QED BY <1>1, <1>2, <1>3, <1>4, <1>5 DEF FreeInv

\* Every step keeps the free list one chain.
LEMMA NextFree ==
  ASSUME Inductive, FreeInv, [Next]_vars
  PROVE  FreeInv'
<1> USE NullIsNoNode
<1>1. TypeOK /\ LinksLocal /\ CursorLive /\ ControlInv
  BY DEF Inductive, IInv
<1>2. Idle.op \notin Creates /\ Creates \cap Deletes = {}
  BY DEF Idle, Creates, Deletes
<1>3. CASE UNCHANGED <<links, loop>>
  BY <1>3, FreeUntouched DEF links, Free
<1>4. CASE Dispatch
  <2>1. CASE StartPass \/ Visit \/ Advance \/ EndPass
    BY <1>3, <2>1 DEF StartPass, Visit, Advance, EndPass
  <2>2. CASE DoProcessSort
    <3>1. UNCHANGED <<pfree, home, loop>>
      BY <2>2 DEF DoProcessSort
    <3>2. \A n \in Free : next'[n] = next[n]
      <4>1. \A n \in Free : n \in Nodes /\ n \notin Active
        BY DEF Free, Active
      <4>2. CASE \E pos \in SortedOrders : Relink(pos)
        BY <4>1, <4>2 DEF Relink
      <4>3. CASE UNCHANGED next
        BY <4>3
      <4> QED BY <2>2, <4>2, <4>3 DEF DoProcessSort
    <3> QED BY <3>1, <3>2, FreeUntouched DEF Free
  <2> QED BY <1>4, <2>1, <2>2 DEF Dispatch
<1>5. CASE Finish
  <2>1. CASE DeleteStep
    <3>1. loop.op \in Deletes /\ loop.ptr \in Nodes /\ dying = NULL
      BY <1>1, <2>1 DEF DeleteStep, TypeOK, Loops, Ptr
    <3>2. loop' \in {[loop EXCEPT !.ptr = NULL], [loop EXCEPT !.ptr = next[loop.ptr]]}
      BY <2>1 DEF DeleteStep
    <3>3. loop'.op \notin Creates
      BY <1>1, <1>2, <3>1, <3>2 DEF TypeOK, Loops
    <3>4. \/ UNCHANGED links
          \/ SkipsCaller(loop.op) /\ KillProc(loop.ptr)
          \/ ~SkipsCaller(loop.op) /\ Delete(loop.ptr)
      BY <2>1 DEF DeleteStep
    <3>5. ~SkipsCaller(loop.op) => loop.ptr \in Active
      BY <1>1, <3>1 DEF ControlInv
    <3>6. FreeChain'
      BY <3>1, <3>4, <3>5, FreeSame, KillFree, DeleteFree DEF FreeInv, links, Free
    <3> QED BY <3>3, <3>6 DEF FreeInv, BlockOpen
  <2>2. CASE DeleteDone
    <3>1. UNCHANGED links /\ loop' = Idle
      BY <2>2 DEF DeleteDone
    <3> QED BY <1>2, <3>1, FreeUntouched DEF links, Free
  <2>3. CASE FinishKill
    <3>1. dying \in Active /\ Delete(dying) /\ loop' = loop
      BY <1>1, <2>3 DEF FinishKill, CursorLive
    <3>2. loop.op \notin Creates
      BY <1>1, <1>2, <2>3 DEF FinishKill, ControlInv, SkipsCaller, Creates
    <3> QED BY <3>1, <3>2, DeleteFree DEF FreeInv, BlockOpen
  <2>4. CASE CreateNode
    BY <2>4, CreateNodeFree
  <2>5. CASE CreateFails
    <3>1. UNCHANGED <<pfree, next, home>> /\ loop' = Idle
      BY <2>5 DEF CreateFails
    <3> QED BY <1>2, <3>1, FreeUntouched DEF Free
  <2> QED BY <1>5, <2>1, <2>2, <2>3, <2>4, <2>5 DEF Finish
<1>6. CASE Grow
  <2>1. CASE BlockMallocFails
    <3>1. UNCHANGED links /\ loop'.count = BlockSize
      BY <1>1, <2>1 DEF BlockMallocFails, TypeOK, Loops
    <3> QED BY <3>1, FreeUntouched DEF links, Free
  <2> QED BY <1>6, <2>1, AddBlockNodeFree DEF Grow
<1>7. CASE Yield
  <2>1. CASE Die
    <3>1. cur_proc \in Active /\ loop = Idle /\ loop' = loop
      BY <1>1, <2>1 DEF Die, InProcess, CursorLive
    <3>2. \/ Delete(cur_proc) \/ UNCHANGED links
          \/ process_exit[cur_proc] \in Active /\ Delete(process_exit[cur_proc])
      BY <2>1 DEF Die
    <3>3. FreeChain'
      BY <3>1, <3>2, FreeSame, DeleteFree DEF FreeInv, links, Free
    <3> QED BY <1>2, <3>1, <3>3 DEF FreeInv, BlockOpen
  <2>2. CASE SuspendSelf \/ \E t \in Ticks : Sleep(t)
    BY <1>3, <2>2 DEF SuspendSelf, Sleep
  <2> QED BY <1>7, <2>1, <2>2 DEF Yield
<1>8. CASE ProcessCalls
  <2>1. CASE \E p \in Nodes : Kill(p)
    <3>1. PICK p \in Nodes : KillProc(p) /\ loop = Idle /\ loop' = loop
      BY <2>1 DEF Kill, Calling
    <3> QED BY <1>2, <3>1, KillFree DEF FreeInv, BlockOpen
  <2>2. CASE \/ \E p, q \in Nodes : SetExit(p, q)
             \/ \E id \in Pids : SetPid(id)
             \/ \E p \in Nodes, l \in Levels : SetProcessRunLevel(p, l)
    BY <1>3, <2>2 DEF SetExit, SetPid, SetProcessRunLevel
  <2>3. CASE \E op \in Deletes, ids \in SUBSET Pids : DeleteCall(op, ids)
    <3>1. UNCHANGED links /\ loop'.op \in Deletes
      BY <2>3 DEF DeleteCall
    <3> QED BY <1>2, <3>1, FreeUntouched DEF links, Free
  <2>4. CASE ClearFreeProcessList
    <3>1. Free' = {} /\ loop = Idle /\ loop' = loop
      BY <1>1, <2>4 DEF ClearFreeProcessList, Calling, Free, TypeOK
    <3>2. [m \in Nodes |-> 0] \in [Nodes -> Int]
      OBVIOUS
    <3> QED BY <1>2, <3>1, <3>2 DEF FreeInv, FreeChain, Rising, BlockOpen
  <2>5. CASE \E op \in Creates, id \in Pids : CreateCall(op, id)
    <3>1. UNCHANGED links /\ loop'.count = 0
      BY <2>5 DEF CreateCall
    <3> QED BY <3>1, FreeUntouched DEF links, Free
  <2> QED BY <1>8, <2>1, <2>2, <2>3, <2>4, <2>5, ClearProcessListFree DEF ProcessCalls
<1>9. CASE TimingCalls
  BY <1>3, <1>9 DEF TimingCalls, SleepProcess, AddSleepProcessId, WakeupProcess, WakeupProcessId,
                 SuspendProcess, SuspendAll, SuspendMultiple, ResumeAll, ResumeMultiple,
                 ResumeProcess, Timing
<1>10. CASE UNCHANGED vars
  BY <1>3, <1>10 DEF vars, links
<1> QED BY <1>4, <1>5, <1>6, <1>7, <1>8, <1>9, <1>10 DEF Next

\* At the start there is no free node.
LEMMA InitFree == Init => FreeInv
<1>1. [m \in Nodes |-> 0] \in [Nodes -> Int]
  OBVIOUS
<1> QED BY <1>1 DEF Init, FreeInv, FreeChain, Rising, BlockOpen, Free, Idle, Creates

\* After every step of every call the active list holds exactly the live processes and
\* the free list exactly the free nodes, both end, and the back links match.
THEOREM ListsAlwaysExact == Spec => []ListsExact
<1>1. Spec => []Inductive
  BY InvariantHolds DEF Inductive
<1>2. Inductive /\ FreeInv /\ [Next]_vars => FreeInv'
  BY NextFree
<1>3. Inductive /\ FreeInv => ListsExact
  BY ListsFromInv DEF FreeInv
<1> QED BY <1>1, <1>2, <1>3, InitFree, PTL DEF Spec

-----------------------------------------------------------------------------
(***************************************************************************)
(* What follows a process on the active list.                              *)
(***************************************************************************)

\* A process is followed by live processes only, and not by itself.
LEMMA Behind ==
  ASSUME Inductive, NEW c \in Active
  PROVE  /\ c \in Nodes /\ next[c] \in Active \cup {NULL} /\ next[c] # c
         /\ Follow(next, c) \subseteq Active
         /\ Follow(next, c) = {c} \cup Follow(next, next[c])
         /\ c \notin Follow(next, next[c])
<1> USE NullIsNoNode
<1>1. /\ next \in [Nodes -> Ptr] /\ Active \subseteq Nodes /\ c \in Nodes
      /\ next[c] \in Active \cup {NULL} /\ next[c] # c
      /\ Leads(next, Active)
  BY NoSelfLink DEF Inductive, IInv, TypeOK, LinksLocal, Active, Leads
<1>2. Follow(next, c) \subseteq Active
  BY <1>1, FollowFacts
<1>3. c \notin Follow(next, next[c])
  <2>1. CASE next[c] = NULL
    BY <2>1 DEF Follow
  <2>2. CASE next[c] \in Active
    <3>1. PICK rank \in [Nodes -> Int] : \A n \in Active : next[n] # NULL => rank[n] < rank[next[n]]
      BY DEF Inductive, Ordered
    <3> DEFINE S == {n \in Active : rank[c] < rank[n]}
    <3>2. next[c] \in S /\ S \in SUBSET Nodes /\ c \notin S
      BY <1>1, <2>2, <3>1
    <3>3. ASSUME NEW n \in S, next[n] # NULL
          PROVE  next[n] \in S
      <4>1. next[n] \in Active /\ rank[n] < rank[next[n]] /\ rank[c] < rank[n]
        BY <1>1, <3>1, <3>3 DEF Leads
      <4>2. rank[c] \in Int /\ rank[n] \in Int /\ rank[next[n]] \in Int
        BY <1>1, <4>1
      <4> QED BY <4>1, <4>2
    <3>4. Leads(next, S)
      BY <3>3 DEF Leads
    <3> HIDE DEF S
    <3> QED BY <1>1, <2>2, <3>2, <3>4, FollowFacts
  <2> QED BY <1>1, <2>1, <2>2
<1> QED BY <1>1, <1>2, <1>3, FollowStep

\* The link of a live process after the deletion of p passes over p.
LEMMA DeleteSkips ==
  ASSUME Inductive, NEW p \in Active, Delete(p), NEW n \in Active \ {p}
  PROVE  next'[n] = IF next[n] = p THEN next[p] ELSE next[n]
<1> USE NullIsNoNode
<1>1. n \in Nodes /\ p \in Nodes /\ LinksLocal
  BY DEF Active, Inductive, IInv
<1>2. next[n] = p <=> p # plist /\ n = prev[p]
  BY <1>1 DEF LinksLocal
<1> QED BY <1>1, <1>2 DEF Delete

\* Deleting p takes p, and nothing else, out of what follows any process.
LEMMA FollowDelete ==
  ASSUME Inductive, NEW p \in Active, Delete(p), NEW a \in Active \cup {NULL}
  PROVE  Follow(next', IF a = p THEN next[p] ELSE a) = Follow(next, a) \ {p}
<1> USE NullIsNoNode
<1> DEFINE b == IF a = p THEN next[p] ELSE a
           R == Follow(next, a)
           R2 == Follow(next', b)
<1>1. /\ Active \subseteq Nodes /\ next \in [Nodes -> Ptr] /\ next' \in [Nodes -> Ptr]
      /\ p \in Nodes /\ next[p] \in Active \cup {NULL} /\ next[p] # p
  BY DeleteLinks, Behind DEF Inductive, IInv, TypeOK, Active
<1>2. CASE a = NULL
  BY <1>1, <1>2 DEF Follow
<1>3. CASE a \in Active
  <2>1. a \in R /\ R \subseteq Active /\ Leads(next, R)
    BY <1>1, <1>3, Behind, FollowFacts
  <2>2. \A n \in R \ {p} : next'[n] = IF next[n] = p THEN next[p] ELSE next[n]
    BY <2>1, DeleteSkips
  <2>3. b \in (R \ {p}) \cup {NULL}
    BY <1>1, <2>1 DEF Leads
  <2>4. b # NULL => b \in R2 /\ Leads(next', R2)
    BY <1>1, <2>1, <2>3, FollowFacts
  <2>5. R2 \subseteq R \ {p}
    <3>1. CASE b = NULL
      BY <3>1 DEF Follow
    <3>2. CASE b # NULL
      <4>1. Leads(next', R \ {p})
        BY <1>1, <2>1, <2>2 DEF Leads
      <4>2. b \in Nodes /\ R \ {p} \in SUBSET Nodes /\ b \in R \ {p}
        BY <1>1, <2>1, <2>3, <3>2
      <4> HIDE DEF R, b
      <4> QED BY <1>1, <4>1, <4>2, FollowFacts
    <3> QED BY <3>1, <3>2
  <2>6. R \ {p} \subseteq R2
    <3> DEFINE S == {n \in R : IF n = p THEN next[p] = NULL \/ next[p] \in R2 ELSE n \in R2}
    <3>1. a \in S
      <4>1. a = p => b = next[p]
        OBVIOUS
      <4>2. a # p => b = a
        OBVIOUS
      <4> HIDE DEF R, R2, b
      <4> QED BY <1>1, <1>3, <2>1, <2>4, <4>1, <4>2
    <3>2. ASSUME NEW n \in S, next[n] # NULL
          PROVE  next[n] \in S
      <4>1. n \in R /\ next[n] \in R
        BY <2>1, <3>2 DEF Leads
      <4>2. CASE n = p
        <5> HIDE DEF R, R2, b
        <5> QED BY <1>1, <3>2, <4>1, <4>2
      <4>3. CASE n # p
        <5>1. n \in R2 /\ b # NULL
          BY <3>2, <4>3 DEF Follow
        <5>2. next'[n] # NULL => next'[n] \in R2
          BY <2>4, <5>1 DEF Leads
        <5>3. next'[n] = IF next[n] = p THEN next[p] ELSE next[n]
          BY <2>2, <4>1, <4>3
        <5> HIDE DEF R, R2, b
        <5> QED BY <3>2, <4>1, <5>2, <5>3
      <4> QED BY <4>2, <4>3
    <3>3. Leads(next, S)
      BY <3>2 DEF Leads
    <3>4. S \in SUBSET Nodes
      BY <1>1, <2>1
    <3>5. R \subseteq S
      <4> HIDE DEF S
      <4> QED BY <1>1, <1>3, <3>1, <3>3, <3>4, FollowFacts
    <3> QED BY <3>5
  <2> QED BY <2>5, <2>6
<1> QED BY <1>2, <1>3

-----------------------------------------------------------------------------
(***************************************************************************)
(* killall finds every process that matches.                               *)
(***************************************************************************)

\* Of the processes the walk has passed, only the caller may match.
Passed ==
  SkipsCaller(loop.op) =>
    \A n \in Active \ ({cur_proc} \cup Follow(next, loop.ptr)) : process_id[n] \notin loop.ids

\* Every step of killall, and of anything between its steps, leaves nothing that matches behind.
LEMMA NextPassed ==
  ASSUME "process_exit" \notin Calls, Inductive, LoopInv, Passed, [Next]_vars
  PROVE  Passed'
<1> USE NullIsNoNode
<1>1. TypeOK /\ LinksLocal /\ CursorLive /\ ControlInv
  BY DEF Inductive, IInv
<1>2. CASE UNCHANGED <<home, next, cur_proc, process_id, loop>>
  BY <1>2 DEF Passed, Active
<1>3. CASE loop' = Idle \/ loop'.op \in Creates
  BY <1>3 DEF Passed, SkipsCaller, Idle, Creates
<1>4. CASE DeleteStep
  <2> DEFINE p == loop.ptr
             hit == process_id[p] \in loop.ids /\ ~(SkipsCaller(loop.op) /\ p = cur_proc)
  <2>1. p \in Active /\ process_exit[p] = NULL /\ UNCHANGED process_id
    BY <1>1, <1>4 DEF DeleteStep, LoopInv, LoopCursorLive, NoExits, Active, fields
  <2>2. CASE ~SkipsCaller(loop.op)
    <3>1. loop' \in {[loop EXCEPT !.ptr = NULL], [loop EXCEPT !.ptr = next[p]]}
      BY <1>4 DEF DeleteStep
    <3>2. loop'.op = loop.op
      BY <1>1, <3>1 DEF TypeOK, Loops
    <3> QED BY <2>2, <3>2 DEF Passed, SkipsCaller
  <2>3. CASE SkipsCaller(loop.op)
    <3>1. loop' = [loop EXCEPT !.ptr = next[p]]
      BY <1>4, <2>3 DEF DeleteStep, SkipsCaller
    <3>2. loop'.ptr = next[p] /\ loop'.ids = loop.ids
      BY <1>1, <3>1 DEF TypeOK, Loops
    <3>3. /\ Follow(next, p) = {p} \cup Follow(next, next[p])
          /\ p \notin Follow(next, next[p])
      BY <2>1, Behind
    <3>4. CASE hit
      <4>1. Delete(p) /\ p # cur_proc
        BY <1>4, <2>1, <2>3, <3>4 DEF DeleteStep, KillProc, Active
      <4>2. cur_proc' = cur_proc /\ Active' = Active \ {p}
        BY <2>1, <4>1, DeleteLinks DEF Delete, Inductive, IInv
      <4>3. Follow(next', next[p]) = Follow(next, p) \ {p}
        BY <2>1, <4>1, FollowDelete
      <4>4. \A n \in Active \ ({cur_proc} \cup Follow(next, p)) : process_id[n] \notin loop.ids
        BY <2>3 DEF Passed
      <4> HIDE DEF p, hit
      <4> QED BY <2>1, <3>2, <3>3, <4>2, <4>3, <4>4 DEF Passed
    <3>5. CASE ~hit
      <4>1. UNCHANGED <<links, cur_proc>>
        BY <1>4, <3>5 DEF DeleteStep
      <4>2. p = cur_proc \/ process_id[p] \notin loop.ids
        BY <3>5
      <4>3. \A n \in Active \ ({cur_proc} \cup Follow(next, p)) : process_id[n] \notin loop.ids
        BY <2>3 DEF Passed
      <4>4. Active' = Active /\ next' = next /\ cur_proc' = cur_proc
        BY <4>1 DEF links, Active
      <4> HIDE DEF p, hit
      <4> QED BY <2>1, <3>2, <3>3, <4>2, <4>3, <4>4 DEF Passed
    <3> QED BY <3>4, <3>5
  <2> QED BY <2>2, <2>3
<1>5. CASE \E op \in Deletes, ids \in SUBSET Pids : DeleteCall(op, ids)
  <2>1. loop'.ptr = plist /\ UNCHANGED <<links, cur_proc, process_id>>
    BY <1>5 DEF DeleteCall, fields
  <2>2. Active' = Active /\ next' = next /\ Follow(next, plist) = Active
    BY <2>1, ActiveExact DEF links, Active
  <2> QED BY <2>1, <2>2 DEF Passed
<1>6. CASE FinishKill
  BY <1>6 DEF FinishKill, LoopInv, NoExits
<1>7. CASE DeleteDone \/ CreateNode \/ CreateFails \/ Grow \/ Yield \/ ClearProcessList
           \/ ClearFreeProcessList \/ (\E p \in Nodes : Kill(p))
           \/ (\E op \in Creates, id \in Pids : CreateCall(op, id))
  <2>1. CASE Grow
    <3>1. loop.op \in Creates /\ loop'.op = loop.op
      BY <1>1, <2>1 DEF Grow, BlockMallocFails, AddBlockNode, Growing, TypeOK, Loops
    <3> QED BY <1>3, <3>1
  <2>2. CASE ~Grow
    BY <1>3, <1>7, <2>2 DEF DeleteDone, CreateNode, CreateFails, Yield, Die, SuspendSelf, Sleep,
                 ClearProcessList, ClearFreeProcessList, Kill, CreateCall, Calling
  <2> QED BY <2>1, <2>2
<1>8. CASE Dispatch
  <2>1. loop' = Idle
    BY <1>1, <1>8 DEF Dispatch, StartPass, Visit, Advance, EndPass, DoProcessSort, InSystem,
                 ControlInv
  <2> QED BY <1>3, <2>1
<1>9. CASE \/ \E p, q \in Nodes : SetExit(p, q)
           \/ \E id \in Pids : SetPid(id)
           \/ \E p \in Nodes, l \in Levels : SetProcessRunLevel(p, l)
  BY <1>3, <1>9 DEF SetExit, SetPid, SetProcessRunLevel, Calling
<1>10. CASE TimingCalls
  <2>1. UNCHANGED <<home, next, cur_proc, process_id, loop>>
    BY <1>10 DEF TimingCalls, SleepProcess, AddSleepProcessId, WakeupProcess, WakeupProcessId,
                 SuspendProcess, SuspendAll, SuspendMultiple, ResumeAll, ResumeMultiple,
                 ResumeProcess, Timing, links, fields
  <2> QED BY <1>2, <2>1
<1>11. CASE UNCHANGED vars
  BY <1>2, <1>11 DEF vars
<1> QED BY <1>4, <1>5, <1>6, <1>7, <1>8, <1>9, <1>10, <1>11
        DEF Next, Finish, ProcessCalls

\* In a game without exit functions killall and kill_everything leave no process that
\* matches, but for the caller, when their walk is over.
THEOREM KillallFindsAll ==
  ASSUME "process_exit" \notin Calls
  PROVE  Spec => []KillallComplete
<1>1. Init => LoopInv /\ Passed
  BY DEF Init, LoopInv, NoExits, LoopCursorLive, Idle, Deletes, Passed, SkipsCaller
<1>2. Inductive /\ LoopInv /\ Passed /\ [Next]_vars => LoopInv' /\ Passed'
  BY NextLoop, NextPassed
<1>3. Spec => []Inductive
  BY InvariantHolds DEF Inductive
<1>4. Passed => KillallComplete
  BY DEF Passed, KillallComplete, SkipsCaller, Follow
<1> QED BY <1>1, <1>2, <1>3, <1>4, PTL DEF Spec

-----------------------------------------------------------------------------
(***************************************************************************)
(* Suspensions.                                                            *)
(***************************************************************************)

\* Putting a suspended process to sleep, or suspending it, leaves it suspended.
LEMMA StaysSuspended ==
  /\ \A w, t \in Word : Suspended(w) => Suspended(BitOr(w, t))
  /\ \A w \in Word : Suspended(Suspend(w))
  /\ \A w \in Word, t \in 0 .. (SIGN - 1) : Suspended(w) => Suspended(SleepFor(w, t))
<1>1. \A w, t \in Word : Suspended(w) => Suspended(BitOr(w, t))
  BY DEF Word, SIGN, BitOr, BitOf, Suspended
<1>2. \A w \in Word : Suspended(Suspend(w))
  BY DEF Word, SIGN, Suspend, Suspended
<1>3. ASSUME NEW w \in Word, NEW t \in 0 .. (SIGN - 1), Suspended(w)
      PROVE  Suspended(SleepFor(w, t))
  <2> DEFINE d == (t - (w % SIGN)) % (2 * SIGN)
             r == BitOr(w, d)
  <2>1. d \in Word
    BY DEF Word, SIGN
  <2>2. 1 \in Word
    BY DEF Word, SIGN
  <2>3. r \in Word /\ Suspended(r) /\ Suspended(BitOr(r, 1))
    <3> HIDE DEF d
    <3> QED BY <1>1, <1>3, <2>1, <2>2, WordArith
  <2>4. SleepFor(w, t) \in {r, BitOr(r, 1)}
    BY DEF SleepFor
  <2> HIDE DEF r
  <2> QED BY <2>3, <2>4
<1> QED BY <1>1, <1>2, <1>3

\* A suspension of a live process ends in this step.
LosesSuspension(n) == Suspended(process_sleep_time[n]) /\ ~Suspended(process_sleep_time'[n])

\* The steps that end a suspension.
LEMMA StepHolds ==
  ASSUME Inductive, [Next]_vars, NEW n \in Active, LosesSuspension(n)
  PROVE  \/ \E p \in Nodes : ResumeProcess(p) \/ WakeupProcess(p)
         \/ ResumeAll
         \/ \E ids \in SUBSET Pids : ResumeMultiple(ids)
         \/ \E id \in Pids : WakeupProcessId(id)
         \/ \E id \in Pids, t \in Ticks : AddSleepProcessId(id, t)
<1> USE NullIsNoNode
<1>1. /\ TypeOK /\ LinksLocal /\ CursorLive
      /\ n \in Nodes /\ process_sleep_time[n] \in Word /\ Suspended(process_sleep_time[n])
      /\ ~Suspended(process_sleep_time'[n])
  BY DEF Inductive, IInv, TypeOK, Active, LosesSuspension
<1>2. process_sleep_time' # process_sleep_time
  BY <1>1
<1>3. CASE Dispatch
  <2>1. Visit
    BY <1>2, <1>3 DEF Dispatch, StartPass, Advance, EndPass, DoProcessSort
  <2> QED BY <1>1, <2>1 DEF Visit, TypeOK, CursorLive, Active
<1>4. CASE Finish
  <2>1. CreateNode
    BY <1>2, <1>4 DEF Finish, DeleteStep, DeleteDone, FinishKill, CreateFails
  <2>2. pfree \in Free /\ process_sleep_time' = [process_sleep_time EXCEPT ![pfree] = 1]
    BY <1>1, <2>1 DEF CreateNode, LinksLocal
  <2>3. n # pfree
    BY <2>2 DEF Free, Active
  <2> QED BY <1>1, <2>2, <2>3 DEF TypeOK
<1>5. CASE Grow
  BY <1>2, <1>5 DEF Grow, BlockMallocFails, AddBlockNode
<1>6. CASE Yield
  <2>1. CASE Die
    BY <1>2, <2>1 DEF Die
  <2>2. CASE SuspendSelf
    <3>1. process_sleep_time' = [process_sleep_time EXCEPT ![cur_proc] =
                                   BitOr(Suspend(process_sleep_time[cur_proc]), 1)]
      BY <2>2 DEF SuspendSelf
    <3>2. cur_proc = n
      BY <1>1, <3>1 DEF TypeOK
    <3>3. Suspend(process_sleep_time[n]) \in Word /\ Suspended(Suspend(process_sleep_time[n]))
      BY <1>1, WordArith, StaysSuspended
    <3>4. 1 \in Word
      BY DEF Word, SIGN
    <3>5. Suspended(BitOr(Suspend(process_sleep_time[n]), 1))
      BY <3>3, <3>4, StaysSuspended
    <3> QED BY <1>1, <3>1, <3>2, <3>5 DEF TypeOK
  <2>3. CASE \E t \in Ticks : Sleep(t)
    <3>1. PICK t \in Ticks : process_sleep_time' = [process_sleep_time EXCEPT ![cur_proc] =
                                                      BitOr(process_sleep_time[cur_proc], t)]
      BY <2>3 DEF Sleep
    <3>2. t \in Word
      BY TicksAssumption DEF Word, SIGN
    <3>3. Suspended(BitOr(process_sleep_time[n], t))
      BY <1>1, <3>2, StaysSuspended
    <3> QED BY <1>1, <3>1, <3>3 DEF TypeOK
  <2> QED BY <1>6, <2>1, <2>2, <2>3 DEF Yield
<1>7. CASE ProcessCalls
  BY <1>2, <1>7 DEF ProcessCalls, Kill, SetExit, DeleteCall, ClearProcessList,
                    ClearFreeProcessList, CreateCall, SetPid, SetProcessRunLevel
<1>8. CASE TimingCalls
  <2>1. CASE \E p \in Nodes, t \in Ticks : SleepProcess(p, t)
    <3>1. PICK p \in Nodes, t \in Ticks : SleepProcess(p, t)
      BY <2>1
    <3>2. process_sleep_time'[n] \in {process_sleep_time[n], SleepFor(process_sleep_time[n], t)}
      BY <1>1, <3>1 DEF SleepProcess, Retime
    <3>3. t \in 0 .. (SIGN - 1)
      BY TicksAssumption
    <3> QED BY <1>1, <3>2, <3>3, StaysSuspended
  <2>2. CASE \/ \E p \in Nodes : SuspendProcess(p)
             \/ SuspendAll
             \/ \E ids \in SUBSET Pids : SuspendMultiple(ids)
    <3>1. process_sleep_time'[n] \in {process_sleep_time[n], Suspend(process_sleep_time[n])}
      BY <1>1, <2>2 DEF SuspendProcess, SuspendAll, SuspendMultiple, Retime
    <3> QED BY <1>1, <3>1, StaysSuspended
  <2> QED BY <1>8, <2>1, <2>2 DEF TimingCalls
<1>9. CASE UNCHANGED vars
  BY <1>2, <1>9 DEF vars
<1> QED BY <1>3, <1>4, <1>5, <1>6, <1>7, <1>8, <1>9 DEF Next

\* Nothing but a resume, a wakeup or the arithmetic of add_sleep_process_id ends a
\* suspension: sleep, sleep_process and the dispatcher's countdown never do.
THEOREM SuspensionsHold == Spec => SuspensionHolds
<1>1. Spec => []Inductive
  BY InvariantHolds DEF Inductive
<1>2. Inductive /\ [Next]_vars =>
        [\A n \in Active :
           (Suspended(process_sleep_time[n]) /\ ~Suspended(process_sleep_time'[n]))
           => \/ \E p \in Nodes : ResumeProcess(p) \/ WakeupProcess(p)
              \/ ResumeAll
              \/ \E ids \in SUBSET Pids : ResumeMultiple(ids)
              \/ \E id \in Pids : WakeupProcessId(id)
              \/ \E id \in Pids, t \in Ticks : AddSleepProcessId(id, t)]_vars
  BY StepHolds DEF LosesSuspension
<1> QED BY <1>1, <1>2, PTL DEF Spec, SuspensionHolds

-----------------------------------------------------------------------------
(***************************************************************************)
(* The list and its cursor implement GooseTick.                            *)
(***************************************************************************)

\* What GooseTick sees besides the sleep words and Rest.
Live == Reach(plist)
Running == IF phase \in {"run", "die"} THEN cur_proc ELSE NULL
InTick == phase \notin {"pre", "post"}

\* The steps of GooseTick, in terms of these.
LEMMA TickSteps ==
  /\ UNCHANGED <<Live, Rest, Running, InTick, process_sleep_time>> => UNCHANGED Tick!tickVars
  /\ /\ ~InTick /\ InTick' /\ Rest' = Live
     /\ UNCHANGED <<Live, Running, process_sleep_time>>
     => Tick!BeginTick
  /\ /\ InTick /\ ~InTick' /\ Running = NULL /\ Rest = {}
     /\ UNCHANGED <<Live, Rest, Running, process_sleep_time>>
     => Tick!EndTick
  /\ /\ Running # NULL /\ Running' = NULL
     /\ \A p \in Nodes \ {Running} : process_sleep_time'[p] = process_sleep_time[p]
     /\ UNCHANGED <<Live, Rest, InTick>>
     => Tick!GiveUp
  /\ /\ process_sleep_time' # process_sleep_time
     /\ \A p \in Nodes \ Live : process_sleep_time'[p] = process_sleep_time[p]
     /\ UNCHANGED <<Live, Rest, Running, InTick>>
     => Tick!Retimed
  /\ /\ Running # NULL /\ Running' = NULL /\ Live' = Live \ {Running}
     /\ UNCHANGED <<Rest, InTick, process_sleep_time>>
     => Tick!Leave
  /\ /\ ~InTick /\ Live' = {}
     /\ UNCHANGED <<Rest, Running, InTick, process_sleep_time>>
     => Tick!RemoveAll
BY DEF Live, Running, InTick, Tick!tickVars, Tick!BeginTick, Tick!EndTick, Tick!GiveUp,
       Tick!Retimed, Tick!Leave, Tick!RemoveAll

\* The steps of GooseTick on one process, in the same terms.
LEMMA TickNodeSteps ==
  ASSUME NEW p \in Nodes
  PROVE  /\ /\ InTick /\ Running = NULL /\ p \in Rest /\ Rest' = Rest \ {p}
            /\ IF process_sleep_time[p] \in 1 .. (SIGN - 1)
               THEN /\ process_sleep_time' =
                         [process_sleep_time EXCEPT ![p] = process_sleep_time[p] - 1]
                    /\ Running' = IF process_sleep_time[p] = 1 THEN p ELSE NULL
               ELSE UNCHANGED <<process_sleep_time, Running>>
            /\ UNCHANGED <<Live, InTick>>
            => Tick!Look(p)
         /\ /\ p \notin Live /\ Live' = Live \cup {p}
            /\ Rest' = Rest \/ (Running # NULL /\ Rest' = Rest \cup {p})
            /\ process_sleep_time' = [process_sleep_time EXCEPT ![p] = 1]
            /\ UNCHANGED <<Running, InTick>>
            => Tick!Spawn(p)
         /\ /\ p \in Live \ {Running} /\ Live' = Live \ {p} /\ Rest' = Rest \ {p}
            /\ UNCHANGED <<Running, InTick, process_sleep_time>>
            => Tick!Remove(p)
BY DEF Live, Running, InTick, Tick!Look, Tick!Spawn, Tick!Remove

\* What is met from a pointer depends on the links met alone.
LEMMA FollowSame ==
  ASSUME NEW f \in [Nodes -> Ptr], NEW g \in [Nodes -> Ptr], NEW a \in Ptr,
         \A n \in Follow(f, a) : g[n] = f[n]
  PROVE  Follow(g, a) = Follow(f, a)
<1>1. CASE a = NULL
  BY <1>1 DEF Follow
<1>2. CASE a \in Nodes
  <2>1. Follow(f, a) \in SUBSET Nodes /\ a \in Follow(f, a) /\ Leads(f, Follow(f, a))
    BY <1>2, FollowFacts
  <2>2. Leads(g, Follow(f, a))
    BY <2>1 DEF Leads
  <2>3. Follow(g, a) \subseteq Follow(f, a)
    BY <1>2, <2>1, <2>2, FollowFacts
  <2>4. Follow(g, a) \in SUBSET Nodes /\ a \in Follow(g, a) /\ Leads(g, Follow(g, a))
    BY <1>2, FollowFacts
  <2>5. Leads(f, Follow(g, a))
    BY <2>3, <2>4 DEF Leads
  <2>6. Follow(f, a) \subseteq Follow(g, a)
    BY <1>2, <2>4, <2>5, FollowFacts
  <2> QED BY <2>3, <2>6
<1> QED BY <1>1, <1>2 DEF Ptr

\* A step that leaves the links of the live processes alone changes what follows none.
LEMMA FollowKept ==
  ASSUME Inductive, next' \in [Nodes -> Ptr], \A n \in Active : next'[n] = next[n],
         NEW a \in Active \cup {NULL}
  PROVE  Follow(next', a) = Follow(next, a)
<1>1. a \in Ptr /\ next \in [Nodes -> Ptr]
  BY DEF Inductive, IInv, TypeOK, Ptr, Active
<1>2. Follow(next, a) \subseteq Active
  BY Behind DEF Follow
<1> QED BY <1>1, <1>2, FollowSame

\* The list of live processes, after a step.
LEMMA LiveIs ==
  ASSUME Inductive, Inductive'
  PROVE  Live = Active /\ Live' = Active'
<1>1. Live = Active
  BY ActiveExact DEF Live, Reach
<1>2. /\ next' \in [Nodes -> Ptr] /\ Active' \in SUBSET Nodes /\ plist' \in Active' \cup {NULL}
      /\ Rising(next', Active') /\ Leads(next', Active')
      /\ \A n \in Active' : n = plist' \/ \E m \in Active' : next'[m] = n
  BY DEF Inductive, IInv, TypeOK, LinksLocal, Active, Ordered, Rising, Leads
<1>3. Follow(next', plist') = Active'
  BY <1>2, ChainExact
<1> QED BY <1>1, <1>3 DEF Live, Reach

\* Rest, by the place of the dispatcher.
LEMMA RestIs ==
  /\ phase \in {"run", "die"} => Rest = Follow(next, next[cur_proc])
  /\ phase = "walk" => Rest = Follow(next, cur_proc)
  /\ phase = "next" => Rest = IF cur_proc = NULL THEN Follow(next, plist)
                              ELSE Follow(next, next[cur_proc])
  /\ phase \in {"pre", "post"} => Rest = {}
BY DEF Rest, Reach

\* RestIs after a step.
LEMMA RestWillBe ==
  /\ phase' \in {"run", "die"} => Rest' = Follow(next', next'[cur_proc'])
  /\ phase' = "walk" => Rest' = Follow(next', cur_proc')
  /\ phase' = "next" => Rest' = IF cur_proc' = NULL THEN Follow(next', plist')
                                ELSE Follow(next', next'[cur_proc'])
  /\ phase' \in {"pre", "post"} => Rest' = {}
BY DEF Rest, Reach

\* A step that leaves the live processes' links and the dispatcher alone is none.
LEMMA WalkKept ==
  ASSUME Inductive, Inductive', Active' = Active, \A n \in Active : next'[n] = next[n],
         UNCHANGED <<plist, cur_proc, phase>>
  PROVE  UNCHANGED <<Live, Rest, Running, InTick>>
<1> USE NullIsNoNode
<1>1. UNCHANGED <<Live, Running, InTick>>
  BY LiveIs DEF Running, InTick
<1>2. /\ cur_proc \in Active \cup {NULL} /\ phase \in Phases /\ plist \in Active \cup {NULL}
      /\ phase \in {"run", "die"} => cur_proc # NULL
      /\ next' \in [Nodes -> Ptr]
  BY DEF Inductive, IInv, TypeOK, CursorLive, LinksLocal
<1>3. \A a \in Active \cup {NULL} : Follow(next', a) = Follow(next, a)
  BY <1>2, FollowKept
<1>4. cur_proc # NULL => next'[cur_proc] = next[cur_proc] /\ next[cur_proc] \in Active \cup {NULL}
  BY <1>2, Behind
<1> QED BY <1>1, <1>2, <1>3, <1>4, RestIs, RestWillBe DEF Phases

\* Deleting a process that does not run removes it from the tick.
LEMMA RemoveStep ==
  ASSUME Inductive, Inductive', NEW p \in Active, Delete(p), p # cur_proc,
         phase \in {"pre", "run", "post", "die"},
         phase' = phase \/ (phase = "run" /\ phase' = "die"),
         UNCHANGED process_sleep_time
  PROVE  Tick!Remove(p)
<1> USE NullIsNoNode
<1>1. /\ p \in Nodes /\ Active' = Active \ {p} /\ cur_proc' = cur_proc
      /\ cur_proc \in Active \cup {NULL}
      /\ phase \in {"run", "die"} => cur_proc # NULL
  BY DeleteLinks DEF Inductive, IInv, Active, Delete, CursorLive
<1>2. Live = Active /\ Live' = Active \ {p}
  BY <1>1, LiveIs
<1>3. UNCHANGED <<Running, InTick>> /\ p # Running
  BY <1>1 DEF Running, InTick
<1>4. Rest' = Rest \ {p}
  <2>1. CASE phase \in {"run", "die"}
    <3>1. cur_proc \in Active \ {p} /\ next[cur_proc] \in Active \cup {NULL}
      BY <1>1, <2>1, Behind
    <3>2. next'[cur_proc] = IF next[cur_proc] = p THEN next[p] ELSE next[cur_proc]
      BY <3>1, DeleteSkips
    <3>3. Follow(next', next'[cur_proc]) = Follow(next, next[cur_proc]) \ {p}
      BY <3>1, <3>2, FollowDelete
    <3> QED BY <1>1, <2>1, <3>3, RestIs, RestWillBe
  <2>2. CASE phase \in {"pre", "post"}
    BY <2>2, RestIs, RestWillBe
  <2> QED BY <2>1, <2>2
<1> QED BY <1>1, <1>2, <1>3, <1>4, TickNodeSteps

\* When the process that runs is deleted, those behind it stay to be looked at, also when
\* it was the head of the list.
LEMMA LeaveStep ==
  ASSUME Inductive, Inductive', phase \in {"run", "die"}, Delete(cur_proc), phase' = "next",
         UNCHANGED process_sleep_time
  PROVE  Tick!Leave
<1> USE NullIsNoNode
<1> DEFINE p == cur_proc
<1>1. p \in Active /\ p \in Nodes /\ LinksLocal
  BY DEF Inductive, IInv, CursorLive, Active
<1>2. /\ Active' = Active \ {p} /\ cur_proc' = prev[p]
      /\ plist' = IF p = plist THEN next[p] ELSE plist
  BY <1>1, DeleteLinks DEF Delete, Inductive, IInv
<1>3. Live' = Live \ {Running} /\ Running # NULL /\ Running' = NULL /\ UNCHANGED InTick
  BY <1>1, <1>2, LiveIs DEF Running, InTick
<1>4. Follow(next', next[p]) = Follow(next, next[p])
  BY <1>1, FollowDelete, Behind
<1>5. CASE prev[p] = NULL
  <2>1. p = plist
    BY <1>1, <1>5 DEF LinksLocal, Active
  <2>2. Rest' = Rest
    BY <1>2, <1>4, <1>5, <2>1, RestIs, RestWillBe
  <2> QED BY <1>3, <2>2, TickSteps
<1>6. CASE prev[p] # NULL
  <2>1. prev[p] \in Active /\ next[prev[p]] = p
    BY <1>1, <1>6 DEF LinksLocal
  <2>2. prev[p] # p
    BY <1>1, NoSelfLink DEF Inductive, IInv
  <2>3. next'[prev[p]] = next[p]
    BY <1>1, <2>1, <2>2, DeleteSkips
  <2>4. Rest' = Rest
    BY <1>2, <1>4, <1>6, <2>3, RestIs, RestWillBe
  <2> QED BY <1>3, <2>4, TickSteps
<1> QED BY <1>5, <1>6

\* kill of a process that does not run, with the first half of its exit function.
LEMMA KillStep ==
  ASSUME Inductive, Inductive', NEW p \in Nodes, p # cur_proc, ExitOk(p), KillProc(p),
         phase \in {"pre", "run", "post"}, UNCHANGED <<phase, process_sleep_time>>
  PROVE  [Tick!TickNext]_(Tick!tickVars)
<1>1. CASE UNCHANGED <<links, cur_proc>>
  <2>1. UNCHANGED <<Live, Rest, Running, InTick>>
    BY <1>1, WalkKept DEF links, Active
  <2> QED BY <2>1, TickSteps
<1>2. CASE \E q \in Active \ {cur_proc} : Delete(q)
  <2>1. PICK q \in Active : q # cur_proc /\ Delete(q)
    BY <1>2
  <2>2. Tick!Remove(q) /\ q \in Nodes
    BY <2>1, RemoveStep DEF Active
  <2> QED BY <2>2 DEF Tick!TickNext
<1>3. process_exit[p] \in Active => process_exit[p] # cur_proc
  BY NullIsNoNode DEF ExitOk, Active
<1>4. home[p] = "active" => p \in Active \ {cur_proc}
  BY DEF Active
<1> QED BY <1>1, <1>2, <1>3, <1>4 DEF KillProc

\* A created process is looked at in this tick if and only if it was put behind its creator.
LEMMA SpawnStep ==
  ASSUME Inductive, Inductive', CreateNode
  PROVE  Tick!Spawn(pfree)
<1> USE NullIsNoNode
<1> DEFINE pn == pfree
           front == loop.op = "create_process"
           after == IF front THEN plist ELSE next[cur_proc]
<1>1. TypeOK /\ LinksLocal /\ CursorLive /\ ControlInv
  BY DEF Inductive, IInv
<1>2. /\ pn \in Free /\ pn \in Nodes /\ pn \notin Active /\ Active \subseteq Nodes
      /\ loop.op \in Creates /\ loop # Idle
      /\ front \/ phase = "run"
      /\ cur_proc \in Active \cup {NULL}
      /\ phase \in {"run", "die"} => cur_proc \in Active
      /\ UNCHANGED <<cur_proc, phase>>
  BY <1>1 DEF CreateNode, LinksLocal, Free, Active, CursorLive, ControlInv, Creates, Idle
<1>3. /\ next' = [n \in Nodes |-> IF n = pn THEN after
                                  ELSE IF ~front /\ n = cur_proc THEN pn ELSE next[n]]
      /\ home' = [home EXCEPT ![pn] = "active"]
      /\ process_sleep_time' = [process_sleep_time EXCEPT ![pn] = 1]
  BY DEF CreateNode
<1>4. Active' = Active \cup {pn}
  BY <1>1, <1>2, <1>3 DEF Active, TypeOK
<1>5. /\ phase \in {"pre", "run", "post"}
  BY <1>1, <1>2 DEF ControlInv, TypeOK, Phases
<1>6. UNCHANGED <<Running, InTick>> /\ Live = Active /\ Live' = Active \cup {pn}
  BY <1>2, <1>4, LiveIs DEF Running, InTick
<1>7. CASE phase \in {"pre", "post"}
  <2>1. Rest' = Rest
    BY <1>2, <1>7, RestIs, RestWillBe
  <2> QED BY <1>2, <1>3, <1>6, <2>1, TickNodeSteps
<1>8. CASE phase = "run"
  <2> DEFINE c == cur_proc
             R == Follow(next, next[c])
  <2>1. /\ c \in Active /\ c # pn /\ next[c] \in Active \cup {NULL} /\ R \subseteq Active
        /\ c \notin R /\ Rest = R
    BY <1>2, <1>8, Behind, RestIs
  <2>2. \A n \in R : next'[n] = next[n]
    <3>1. \A n \in R : n \in Nodes /\ n # pn /\ n # c
      BY <1>2, <2>1
    <3> HIDE DEF R, pn, front, after
    <3> QED BY <1>3, <3>1
  <2>3. /\ next \in [Nodes -> Ptr] /\ next' \in [Nodes -> Ptr] /\ next[c] \in Ptr
    BY <1>1, <1>2, <2>1 DEF Inductive, IInv, TypeOK, Ptr
  <2>4. Follow(next', next[c]) = R
    BY <2>2, <2>3, FollowSame
  <2>5. CASE front
    <3>1. next'[c] = next[c]
      BY <1>2, <1>3, <2>1, <2>5
    <3>2. Rest' = Rest
      BY <1>2, <1>8, <2>1, <2>4, <3>1, RestWillBe
    <3> QED BY <1>2, <1>3, <1>6, <3>2, TickNodeSteps
  <2>6. CASE ~front
    <3>1. next'[c] = pn /\ next'[pn] = next[c]
      BY <1>2, <1>3, <2>1, <2>6
    <3>2. Follow(next', pn) = {pn} \cup R
      BY <1>2, <2>3, <2>4, <3>1, FollowStep
    <3>3. Rest' = Rest \cup {pn} /\ Running # NULL
      BY <1>2, <1>8, <2>1, <3>1, <3>2, RestWillBe DEF Running, Active
    <3> QED BY <1>2, <1>3, <1>6, <3>3, TickNodeSteps
  <2> QED BY <2>5, <2>6
<1> QED BY <1>5, <1>7, <1>8

\* The steps of the dispatcher itself.
LEMMA DispatchTicks ==
  ASSUME Inductive, Inductive', Dispatch
  PROVE  [Tick!TickNext]_(Tick!tickVars)
<1> USE NullIsNoNode
<1>1. TypeOK /\ LinksLocal /\ CursorLive /\ ControlInv
  BY DEF Inductive, IInv
<1>2. CASE StartPass
  <2>1. /\ phase = "pre" /\ phase' = "walk" /\ cur_proc' = plist
        /\ UNCHANGED <<links, process_sleep_time>>
    BY <1>2 DEF StartPass
  <2>2. Live' = Live /\ Rest' = Live
    BY <2>1, RestWillBe DEF Live, Reach, links
  <2>3. Tick!BeginTick
    BY <2>1, <2>2, TickSteps DEF Running, InTick
  <2> QED BY <2>3 DEF Tick!TickNext
<1>3. CASE Visit
  <2> DEFINE p == cur_proc
             w == process_sleep_time[p]
             awake == 0 < w /\ ~Suspended(w)
  <2>1. /\ phase = "walk" /\ p \in Active /\ p \in Nodes /\ w \in Word
        /\ process_sleep_time' = IF awake THEN [process_sleep_time EXCEPT ![p] = w - 1]
                                 ELSE process_sleep_time
        /\ phase' = IF awake /\ w = 1 THEN "run" ELSE "next"
        /\ UNCHANGED <<links, cur_proc>>
    BY <1>1, <1>3 DEF Visit, CursorLive, Active, TypeOK
  <2>2. awake <=> w \in 1 .. (SIGN - 1)
    BY <2>1 DEF Word, SIGN, Suspended
  <2> HIDE DEF awake
  <2>3. Rest = {p} \cup Follow(next, next[p]) /\ Rest' = Follow(next, next[p])
        /\ p \notin Follow(next, next[p])
    BY <2>1, Behind, RestIs, RestWillBe DEF links, Active
  <2>4. UNCHANGED <<Live, InTick>> /\ Running = NULL /\ InTick
    BY <2>1 DEF Live, Reach, InTick, Running, links
  <2>5. Running' = IF awake /\ w = 1 THEN p ELSE NULL
    BY <2>1 DEF Running
  <2> HIDE DEF p, w
  <2>6. Tick!Look(p)
    BY <2>1, <2>2, <2>3, <2>4, <2>5, TickNodeSteps DEF w
  <2> QED BY <2>1, <2>6 DEF Tick!TickNext
<1>4. CASE Advance
  <2>1. /\ phase = "next" /\ phase' = "walk" /\ UNCHANGED <<links, process_sleep_time>>
        /\ cur_proc' = IF cur_proc # NULL THEN next[cur_proc] ELSE plist
    BY <1>4 DEF Advance
  <2>2. Rest' = Rest
    BY <2>1, RestIs, RestWillBe DEF links
  <2>3. UNCHANGED <<Live, Running, InTick>>
    BY <2>1 DEF Live, Reach, Running, InTick, links
  <2> QED BY <2>1, <2>2, <2>3, TickSteps
<1>5. CASE EndPass
  <2>1. /\ phase = "walk" /\ phase' = "post" /\ cur_proc = NULL
        /\ UNCHANGED <<links, process_sleep_time>>
    BY <1>5 DEF EndPass
  <2>2. Rest = {} /\ Rest' = {}
    BY <2>1, RestIs, RestWillBe DEF Follow
  <2>3. Tick!EndTick
    BY <2>1, <2>2, TickSteps DEF Live, Reach, Running, InTick, links
  <2> QED BY <2>3 DEF Tick!TickNext
<1>6. CASE DoProcessSort
  <2>1. phase = "post" /\ phase' = "pre" /\ UNCHANGED <<home, process_sleep_time>>
    BY <1>6 DEF DoProcessSort
  <2>2. Live' = Live
    BY <2>1, LiveIs DEF Active
  <2>3. Rest = {} /\ Rest' = {}
    BY <2>1, RestIs, RestWillBe
  <2> QED BY <2>1, <2>2, <2>3, TickSteps DEF Running, InTick
<1> QED BY <1>2, <1>3, <1>4, <1>5, <1>6 DEF Dispatch

\* Setting the sleep words of live processes is the game's retiming, or nothing.
LEMMA RetimeStep ==
  ASSUME Inductive, Inductive', UNCHANGED <<links, cur_proc, phase>>,
         \A n \in Nodes \ Active : process_sleep_time'[n] = process_sleep_time[n]
  PROVE  [Tick!TickNext]_(Tick!tickVars)
<1>1. UNCHANGED <<Live, Rest, Running, InTick>> /\ Live = Active
  BY WalkKept, LiveIs DEF links, Active
<1>2. CASE UNCHANGED process_sleep_time
  BY <1>1, <1>2, TickSteps
<1>3. CASE process_sleep_time' # process_sleep_time
  <2>1. Tick!Retimed
    BY <1>1, <1>3, TickSteps
  <2> QED BY <2>1 DEF Tick!TickNext
<1> QED BY <1>2, <1>3

\* The steps that end a call: they remove or spawn one process, or are invisible.
LEMMA FinishTicks ==
  ASSUME Inductive, Inductive', Finish
  PROVE  [Tick!TickNext]_(Tick!tickVars)
<1> USE NullIsNoNode
<1>1. TypeOK /\ LinksLocal /\ CursorLive /\ ControlInv
  BY DEF Inductive, IInv
<1>2. CASE DeleteStep
  <2>1. /\ loop.op \in Deletes /\ dying = NULL /\ loop.ptr \in Nodes
        /\ UNCHANGED <<phase, process_sleep_time>>
    BY <1>1, <1>2 DEF DeleteStep, TypeOK, Loops, Ptr
  <2>2. phase \in {"pre", "run", "post"}
    BY <1>1, <2>1 DEF ControlInv, TypeOK, Phases, Idle, Deletes
  <2> DEFINE p == loop.ptr
  <2>3. CASE UNCHANGED <<links, cur_proc>>
    <3>1. \A n \in Nodes \ Active : process_sleep_time'[n] = process_sleep_time[n]
      BY <2>1
    <3> QED BY <2>1, <2>3, <3>1, RetimeStep
  <2>4. CASE SkipsCaller(loop.op) /\ p \in Active \ {cur_proc} /\ KillProc(p)
    <3>1. ExitOk(p)
      BY <1>1, <2>4 DEF ControlInv
    <3> QED BY <2>1, <2>2, <2>4, <3>1, KillStep
  <2>5. CASE ~SkipsCaller(loop.op) /\ process_id[p] \in loop.ids /\ Delete(p)
    <3>1. p \in Active /\ p # cur_proc
      BY <1>1, <2>1, <2>5 DEF ControlInv
    <3>2. Tick!Remove(p)
      BY <2>1, <2>2, <2>5, <3>1, RemoveStep
    <3> QED BY <2>1, <3>2 DEF Tick!TickNext
  <2>6. CASE home[p] # "active" /\ SkipsCaller(loop.op) /\ KillProc(p)
    BY <2>3, <2>6 DEF KillProc
  <2> QED BY <1>2, <2>1, <2>3, <2>4, <2>5, <2>6 DEF DeleteStep, Active
<1>3. CASE FinishKill
  <2>1. dying \in Active /\ dying \in Nodes /\ Delete(dying) /\ UNCHANGED process_sleep_time
    BY <1>1, <1>3 DEF FinishKill, CursorLive, Active
  <2>2. CASE phase = "die"
    <3>1. dying = cur_proc /\ phase' = "next"
      BY <1>1, <1>3, <2>2 DEF FinishKill, ControlInv
    <3>2. Tick!Leave
      BY <2>1, <2>2, <3>1, LeaveStep
    <3> QED BY <3>2 DEF Tick!TickNext
  <2>3. CASE phase # "die"
    <3>1. dying # cur_proc /\ phase' = phase /\ phase \in {"pre", "run", "post"}
      BY <1>1, <1>3, <2>3 DEF FinishKill, ControlInv, TypeOK, Phases
    <3>2. Tick!Remove(dying)
      BY <2>1, <3>1, RemoveStep
    <3> QED BY <2>1, <3>2 DEF Tick!TickNext
  <2> QED BY <2>2, <2>3
<1>4. CASE CreateNode
  <2>1. pfree \in Nodes
    BY <1>1, <1>4 DEF CreateNode, LinksLocal, Free
  <2> QED BY <1>4, <2>1, SpawnStep DEF Tick!TickNext
<1>5. CASE DeleteDone
  BY <1>5, RetimeStep DEF DeleteDone
<1>6. CASE CreateFails
  <2>1. UNCHANGED <<plist, cur_proc, phase, next, home, process_sleep_time>>
    BY <1>6 DEF CreateFails
  <2>2. UNCHANGED <<Live, Rest, Running, InTick>>
    BY <2>1, WalkKept DEF Active
  <2> QED BY <2>1, <2>2, TickSteps
<1> QED BY <1>2, <1>3, <1>4, <1>5, <1>6 DEF Finish

\* The steps that end a slice: the process gives up, leaves, or its exit function removes another.
LEMMA YieldTicks ==
  ASSUME Inductive, Inductive', Yield
  PROVE  [Tick!TickNext]_(Tick!tickVars)
<1> USE NullIsNoNode
<1>1. TypeOK /\ LinksLocal /\ CursorLive /\ ControlInv /\ phase = "run"
      /\ cur_proc \in Active /\ cur_proc \in Nodes
  BY DEF Inductive, IInv, Yield, Die, SuspendSelf, Sleep, InProcess, CursorLive, Active
<1>2. CASE Die
  <2>1. UNCHANGED process_sleep_time
    BY <1>2 DEF Die
  <2>2. CASE process_exit[cur_proc] = NULL
    <3>1. Tick!Leave
      BY <1>1, <1>2, <2>1, <2>2, LeaveStep DEF Die
    <3> QED BY <3>1 DEF Tick!TickNext
  <2>3. CASE process_exit[cur_proc] \in Active
    <3>1. /\ process_exit[cur_proc] # cur_proc /\ process_exit[cur_proc] \in Nodes
          /\ Delete(process_exit[cur_proc]) /\ phase' = "die"
      BY <1>1, <1>2, <2>3 DEF Die, ControlInv, Active
    <3>2. Tick!Remove(process_exit[cur_proc])
      BY <1>1, <2>1, <2>3, <3>1, RemoveStep
    <3> QED BY <3>1, <3>2 DEF Tick!TickNext
  <2>4. CASE process_exit[cur_proc] # NULL /\ process_exit[cur_proc] \notin Active
    <3>1. UNCHANGED <<links, cur_proc>> /\ phase' = "die"
      BY <1>2, <2>4 DEF Die
    <3>2. Live' = Live
      BY <3>1 DEF Live, Reach, links
    <3>3. Rest' = Rest
      BY <1>1, <3>1, RestIs, RestWillBe DEF links
    <3> QED BY <1>1, <2>1, <3>1, <3>2, <3>3, TickSteps DEF Running, InTick
  <2> QED BY <2>2, <2>3, <2>4
<1>3. CASE SuspendSelf \/ \E t \in Ticks : Sleep(t)
  <2>1. /\ UNCHANGED <<links, cur_proc>> /\ phase' = "next"
        /\ \A p \in Nodes \ {cur_proc} : process_sleep_time'[p] = process_sleep_time[p]
    BY <1>1, <1>3 DEF SuspendSelf, Sleep, TypeOK
  <2>2. Live' = Live
    BY <2>1 DEF Live, Reach, links
  <2>3. Rest' = Rest
    BY <1>1, <2>1, RestIs, RestWillBe DEF links
  <2>4. Running = cur_proc /\ Running' = NULL /\ InTick' = InTick
    BY <1>1, <2>1 DEF Running, InTick
  <2>5. Tick!GiveUp
    BY <1>1, <2>1, <2>2, <2>3, <2>4, TickSteps
  <2> QED BY <2>5 DEF Tick!TickNext
<1> QED BY <1>2, <1>3 DEF Yield

\* Every step of the scheduler is a step of GooseTick, or none.
LEMMA StepTicks ==
  ASSUME Inductive, Inductive', [Next]_vars
  PROVE  [Tick!TickNext]_(Tick!tickVars)
<1> USE NullIsNoNode
<1>1. TypeOK /\ LinksLocal /\ CursorLive /\ ControlInv
  BY DEF Inductive, IInv
<1>2. CASE UNCHANGED <<links, cur_proc, phase, process_sleep_time>>
  BY <1>2, RetimeStep
<1>3. CASE Grow
  <2>1. CASE BlockMallocFails
    BY <1>2, <2>1 DEF BlockMallocFails
  <2>2. CASE \E n \in Nodes : AddBlockNode(n)
    <3>1. PICK n \in Nodes : AddBlockNode(n)
      BY <2>2
    <3>2. /\ n \notin Active /\ loop.ptr \notin Active /\ home[n] = "heap"
          /\ next' = [m \in Nodes |-> IF m = n THEN NULL
                                      ELSE IF m = loop.ptr THEN n ELSE next[m]]
          /\ home' = [home EXCEPT ![n] = "free"]
          /\ UNCHANGED <<plist, cur_proc, phase, process_sleep_time>>
      BY <1>1, <3>1 DEF AddBlockNode, Growing, ControlInv, Active, Free
    <3>3. Active' = Active /\ \A m \in Active : next'[m] = next[m]
      BY <1>1, <3>2 DEF Active, TypeOK
    <3>4. UNCHANGED <<Live, Rest, Running, InTick>>
      BY <3>2, <3>3, WalkKept
    <3> QED BY <3>2, <3>4, TickSteps
  <2> QED BY <1>3, <2>1, <2>2 DEF Grow
<1>4. CASE ProcessCalls
  <2>1. CASE \E p \in Nodes : Kill(p)
    BY <2>1, KillStep DEF Kill, Calling
  <2>2. CASE ClearProcessList
    <3>1. phase \in {"pre", "post"} /\ UNCHANGED <<cur_proc, phase, process_sleep_time>>
      BY <2>2 DEF ClearProcessList, Calling, InProcess
    <3>2. CASE UNCHANGED links
      BY <1>2, <3>1, <3>2
    <3>3. CASE plist' = NULL
      <4>1. Live' = {}
        BY <3>3 DEF Live, Reach, Follow
      <4>2. Rest = {} /\ Rest' = {}
        BY <3>1, RestIs, RestWillBe
      <4>3. Tick!RemoveAll
        BY <3>1, <4>1, <4>2, TickSteps DEF Running, InTick
      <4> QED BY <4>3 DEF Tick!TickNext
    <3> QED BY <2>2, <3>2, <3>3 DEF ClearProcessList
  <2>3. CASE ClearFreeProcessList
    <3>1. /\ UNCHANGED <<plist, cur_proc, phase, next, process_sleep_time>>
          /\ home' = [n \in Nodes |-> IF n \in Free THEN "heap" ELSE home[n]]
      BY <2>3 DEF ClearFreeProcessList
    <3>2. Active' = Active
      BY <3>1 DEF Active, Free
    <3>3. UNCHANGED <<Live, Rest, Running, InTick>>
      BY <3>1, <3>2, WalkKept
    <3> QED BY <3>1, <3>3, TickSteps
  <2>4. CASE \/ \E p, q \in Nodes : SetExit(p, q)
             \/ \E op \in Deletes, ids \in SUBSET Pids : DeleteCall(op, ids)
             \/ \E op \in Creates, id \in Pids : CreateCall(op, id)
             \/ \E id \in Pids : SetPid(id)
             \/ \E p \in Nodes, l \in Levels : SetProcessRunLevel(p, l)
    BY <1>2, <2>4 DEF SetExit, DeleteCall, CreateCall, SetPid, SetProcessRunLevel
  <2> QED BY <1>4, <2>1, <2>2, <2>3, <2>4 DEF ProcessCalls
<1>5. CASE TimingCalls
  <2>1. UNCHANGED <<links, cur_proc, phase>>
    BY <1>5 DEF TimingCalls, SleepProcess, AddSleepProcessId, WakeupProcess, WakeupProcessId,
                SuspendProcess, SuspendAll, SuspendMultiple, ResumeAll, ResumeMultiple,
                ResumeProcess, Timing
  <2>2. \A n \in Nodes \ Active : process_sleep_time'[n] = process_sleep_time[n]
    BY <1>5 DEF TimingCalls, SleepProcess, AddSleepProcessId, WakeupProcess, WakeupProcessId,
                SuspendProcess, SuspendAll, SuspendMultiple, ResumeAll, ResumeMultiple,
                ResumeProcess, Retime
  <2> QED BY <2>1, <2>2, RetimeStep
<1>6. CASE UNCHANGED vars
  BY <1>2, <1>6 DEF vars, links
<1> QED BY <1>3, <1>4, <1>5, <1>6, DispatchTicks, FinishTicks, YieldTicks DEF Next

\* The linked list and the one cursor of process_dispatch, with every call that creates,
\* deletes or sorts while the walk goes on, implement GooseTick: in every tick each live
\* process is looked at exactly once.
THEOREM TickImplemented == Spec => ImplementsTick
<1>1. Init => Tick!TickInit
  <2> SUFFICES ASSUME Init PROVE Tick!TickInit
    OBVIOUS
  <2>1. Reach(plist) = {} /\ Rest = {}
    BY DEF Init, Reach, Follow, Rest
  <2> QED BY <2>1 DEF Init, Tick!TickInit
<1>2. Inductive /\ Inductive' /\ [Next]_vars => [Tick!TickNext]_(Tick!tickVars)
  BY StepTicks
<1>3. Spec => []Inductive
  BY InvariantHolds DEF Inductive
<1> QED BY <1>1, <1>2, <1>3, PTL DEF Spec, ImplementsTick, Tick!TickSpec

=============================================================================
