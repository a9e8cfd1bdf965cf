------------------------------ MODULE GooseTick ------------------------------
(***************************************************************************)
(* What the Goose dispatcher promises, without lists: in every tick each   *)
(* live process is looked at exactly once, its sleep time counts down by   *)
(* one, and it runs when that reaches zero.  A process spawned during the  *)
(* tick takes part in it only if it was created "immediate"; a process     *)
(* that is removed does not.  GooseProcess implements this with a linked   *)
(* list and one cursor.                                                    *)
(***************************************************************************)
EXTENDS Integers

CONSTANTS Procs, NoProc, TimeWords

VARIABLES
  live,     \* the processes that exist
  todo,     \* those this tick has still to look at
  running,  \* the process that has the processor
  open,     \* a tick is in progress
  timer     \* the sleep time of each process

tickVars == <<live, todo, running, open, timer>>

TickInit ==
  /\ live = {} /\ todo = {} /\ running = NoProc /\ open = FALSE
  /\ timer = [p \in Procs |-> 0]

BeginTick ==
  /\ ~open
  /\ open' = TRUE /\ todo' = live
  /\ UNCHANGED <<live, running, timer>>

\* A sleep time counts down while it is positive; TimeWords are the positive ones.
Look(p) ==
  /\ open /\ running = NoProc /\ p \in todo
  /\ todo' = todo \ {p}
  /\ IF timer[p] \in TimeWords
     THEN /\ timer' = [timer EXCEPT ![p] = @ - 1]
          /\ running' = IF timer[p] = 1 THEN p ELSE NoProc
     ELSE UNCHANGED <<timer, running>>
  /\ UNCHANGED <<live, open>>

GiveUp ==
  /\ running # NoProc
  /\ running' = NoProc
  /\ \A p \in Procs \ {running} : timer'[p] = timer[p]
  /\ UNCHANGED <<live, todo, open>>

\* Anyone may set timers: the process that runs, a hook, an interrupt.
Retimed ==
  /\ timer' # timer
  /\ \A p \in Procs \ live : timer'[p] = timer[p]
  /\ UNCHANGED <<live, todo, running, open>>

Spawn(p) ==
  /\ p \notin live
  /\ live' = live \cup {p}
  /\ \/ todo' = todo
     \/ running # NoProc /\ todo' = todo \cup {p}
  /\ timer' = [timer EXCEPT ![p] = 1]
  /\ UNCHANGED <<running, open>>

Remove(p) ==
  /\ p \in live \ {running}
  /\ live' = live \ {p} /\ todo' = todo \ {p}
  /\ UNCHANGED <<running, open, timer>>

Leave ==
  /\ running # NoProc
  /\ live' = live \ {running}
  /\ running' = NoProc
  /\ UNCHANGED <<todo, open, timer>>

RemoveAll ==
  /\ ~open
  /\ live' = {}
  /\ UNCHANGED <<todo, running, open, timer>>

EndTick ==
  /\ open /\ running = NoProc /\ todo = {}
  /\ open' = FALSE
  /\ UNCHANGED <<live, todo, running, timer>>

TickNext ==
  \/ BeginTick \/ EndTick \/ GiveUp \/ Leave \/ RemoveAll \/ Retimed
  \/ \E p \in Procs : Look(p) \/ Spawn(p) \/ Remove(p)

TickSpec == TickInit /\ [][TickNext]_tickVars
=============================================================================
