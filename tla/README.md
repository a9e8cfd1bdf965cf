# TLA+ models of the Goose library and the BIOS under it

This directory holds TLA+ specifications of parts of the code in `src/`: the Goose game library
(`lib/goose`), which runs a video game as cooperative processes, and the BIOS
(`biosrom/bios`), which drives the hardware under it. The specifications are translated from
the C and assembler sources, checked on small instances with TLC, and, where section 4
says so, proved with TLAPS for every value of their constants.

## 1. The system and its parts

A game is one program on one processor. `main` calls `process_dispatch`, which loops for
ever: once per tick (a vertical retrace) it runs the hooks, then gives each process whose
sleep time has run out a slice. Nothing preempts a process except interrupts: the disk, the
timer, the millisecond interrupt that scans switches, pulses coin meters and copies the CMOS, the
retrace, and the serial lines. A process gives up its slice with `sleep`, `suspend_self` or `die`.

| Part | Source | State | Operations | What is hard |
|---|---|---|---|---|
| process scheduler | `lib/goose/process.c`, `mthread.c`, `sema.c`, `prochook.c` | `plist`, `pfree`, `cur_proc`, `sort_processes`; per node the links, sleep word, id, stack, exit function, run level | create, kill, die, the deleting loops, sleep, suspend, resume, sort, dispatch | processes are created and die while the dispatcher, and other loops, walk the list |
| IDE request queue | `biosrom/bios/idedrv.c` | the ring `queue`, its records `qd`, the timeout, the drive | `que_trans`, `add_queue`, `queued_req`, `ide_intr`, `ide_disk_timeout` | the main line and the interrupt share the ring; errors, retries, timeouts |
| disk cache | `dskcache.c` | 4 control blocks with tag and usage count, their data | `disk_cache_read`, `disk_cache_write`, flush | every miss and write suspends the process with pointers into the cache in hand |
| FAT file system | `FILESYS.C`, `FILEDRV.C` | cluster buffers, one window of the table, the directory, open files | create, open, close, delete, seek, read, write, flush | one write changes three places on the disk, late; transfers that pass the buffers; power cuts |
| exceptions | `EXCEPT.S`, `HANDLERS.C`, `VHAND.C` | routing table, user handlers | route, service, acknowledge | the raw cause register is serviced, also what is masked |
| switches, coins | `SWITCH.C`, `lib/goose/switch.c`, `COINDRV.C` | debounce counts, transitions; pulses owed | interrupt routines, `get_inputs`, `coinioctl` | counters shared with an interrupt |
| CMOS | `vcmosdrv.c`, `lib/goose/SETCMOS.C`, `adjust.c` | words behind a battery with check data, their copy in RAM | audits, adjustments, records; `update_cmos`; `setup_cmos2` | power cut in the copy, between a word and its check data, in the test, in a restore |
| serial terminals | `niletty.c`, `IO.C` | two circular buffers, the transmit interrupt's mask | `ttyopen`, `ttyread`, `ttywrite`, `ttyintr` | reader and writer share the buffers with an interrupt |
| objects | `lib/goose/object.c` | the active list by `draw_order`, the free list | create, delete, hide, order, clear, the frame | draw functions change the list the frame walks |
| textures | `lib/goose/texture.c`, `gext.c` | active and free lists, use counts, the memory of the texture units | create, delete, lock, clear | a load suspends the process with a free node in hand; memory in two halves per unit |
| sound, watchdog, timers, debugger stub, boot, self tests, drawing | see `PROJECT.json` | registers | | little state of their own |

How they interact: the file system calls `SecReads` and `SecWrites`, these the disk cache,
this `_SecReads` and `_SecWrites`, which are `que_trans`. `que_trans` suspends the calling
process (`suspend_self`), and the disk interrupt `ide_intr` resumes it (`resume_process`)
through function pointers the game installs with `install_disk_info`. The timer interrupt
counts the disk timeout. The millisecond interrupt reads the switches, whose transitions the main
loop collects with `get_inputs` and hands to the game as coin drops; the game answers with
`coinioctl`, whose pulses the same interrupt makes. It also copies the CMOS, whose records the
game reads and writes in RAM only. `create_texture` loads through the file system and so suspends.
`clear_free_process_list` is reached only from `clear_free_lists`, which nothing in the
repository calls.

What makes each part correct:
the scheduler never loses or duplicates a process, looks at every one once a tick, and never
follows a link of a deleted node; the disk queue answers every request once, whole, and in
order, and gives no buffer back while the DMA uses it; the cache agrees with the disk; the
file system's chains and entries agree, and a closed file survives a power cut; no coin is lost
or made up; what the game reads from the CMOS is something it stored; characters keep their
order; a frame draws every object once; a byte of texture memory has one owner.

`PROJECT.json` lists every part with its status, and under "hazards" the places where the
code is hard to test, each with the properties that watch it or the reason why none does.

## 2. The modules

| Module | Models | Role |
|---|---|---|
| `GooseProcess` | `process.c`, the dispatcher, `sleep` and `die` of `mthread.c`, `sema.c` | the scheduler, with its linked lists |
| `GooseTick` | | what the dispatcher promises, as sets without lists |
| `GooseProofs` | | theorems about `GooseProcess`: its inductive invariant, exact lists, `killall`, suspensions, the refinement of `GooseTick` |
| `MCGooseProcess` | | the values TLC gives to `Calls` |
| `IdeQueue` | `idedrv.c` from `add_queue` to `ide_disk_timeout`, the part of `HANDLERS.C` that delivers the interrupts | the disk queue |
| `DiskService` | | what the queue promises to its callers |
| `IdeQueueProofs` | | theorems about `IdeQueue`, the refinement of `DiskService` among them |
| `MCIdeQueue` | | the values TLC gives to `Events` |
| `DiskCache` | `dskcache.c`; it composes with `DiskService` for its requests | the disk cache |
| `DiskCacheProofs` | | theorems about `DiskCache` |
| `MCDiskCache` | | the values TLC gives to `Faults` and `Beside` |
| `FileSystem` | `FILESYS.C` | the file system and its disk |
| `FileStore` | | what the file system promises: names and sizes |
| `FileSystemMap` | | the inductive invariant of `FileSystem`, and lemmas |
| `FileSystemProofs` | | theorems about `FileSystem` |
| `MCFileSystem` | | the values TLC gives to `Careless` |
| `CoinPath` | `SWITCH.C`, `lib/goose/switch.c`, `COINDRV.C` | a coin from its switch to its meter |
| `SerialPort` | `niletty.c`, the buffers of `IO.C` | the serial terminal |
| `DriverProofs` | | theorems about `CoinPath` and `SerialPort` |
| `CmosDriver` | `vcmosdrv.c` | the CMOS, its shadow, its three kinds of words |
| `CmosSetup` | `SETCMOS.C`, `adjust.c`; it composes with `CmosDriver` | the start of a game over the CMOS, power cuts |
| `CmosSetupProofs` | | theorems about `CmosSetup` and `CmosDriver` |
| `NodeLists` | the loops that take nodes out of a list | a list without some of its nodes |
| `ObjectList` | `object.c` | the object list and its frame |
| `TmuMemory` | the texture memory of `gext.c` | memory in halves |
| `TextureLists` | `texture.c`; it composes with `TmuMemory` | the textures |
| `NodeListProofs` | | theorems about `ObjectList`, `TextureLists` and `TmuMemory` |
| `MCParts` | | the five parts from `CoinPath` on in one run |

### GooseProcess

The state is the code's: the globals of `process.c` and the fields of every
`process_node`, as functions over the nodes the heap can supply. Added are: `home` (which of
heap, free list and active list a node belongs to; it is set where the code calls malloc and free and
where it unlinks), `phase` (where the dispatcher stands), `loop` (a library call in
progress), `dying` (a process whose exit function has run), and `calls`, a bound.

* One action per library call. A call that only changes fields (the sleep, suspend, resume
  and wakeup calls) is one step. The calls that delete while they walk (`killall`,
  `kill_everything`, `delete_process_id`, `delete_multiple_processs`) take one step per
  node, with the saved next pointer in `loop.ptr`. `create_process` takes one step per node
  `add_process_block` gets from the heap, each of which may fail, and one for the link.
* `kill`, `die`: an exit function runs in the middle. `Kill`, `DeleteStep` and `Die` run it
  and `FinishKill` deletes the process.
* The dispatcher is `StartPass`, `Visit`, `Advance`, `EndPass`, `DoProcessSort`.
* `process_sleep_time` is a signed short with the top bit meaning "suspended". The model has
  a word of 3 bits, sums modulo 8 and a bitwise or, so carries into and out of the sign bit
  happen as they do in 16 bits. As in the code a process whose word is 0 or negative never wakes by itself:
  `sleep(0)` is a suspension.
* What a walk meets is `Follow(f, p)`, the least set that holds `p` and whatever `f` leads to
  from it; `Reach(p)` is that along `next`. A least set can be reasoned about where a recursive
  definition could not.
* In the mode that frees memory, a freed node goes back to the heap, and reading its link
  would be undefined; the properties say that nobody does.

What the model takes as a contract of the game, because the game is not in the repository:
an exit function kills at most one other process, which has no exit function itself and is
not the one that runs; a process ends itself with `die` and not with `kill` or one of the deleting calls
that do not spare the caller; `clear_process_list` is called from hooks, as it
leaves `cur_proc` alone; `create_process_immediate` is called by a process.

### IdeQueue

`head`, `tail` are `queue.head`, `queue.tail`; `slot` is `qd` (the array `queue.qd` of
pointers always holds `&qd[i]` at `i`). `proc = "done"` stands for the -1 that `ide_intr`
stores. `drive` and `command` are what the drive does and for which slot; `mine` is each
caller's local `qdata`, `cur` and `pc` are the caller on the processor and its place in
`que_trans`.

* The caller's code is cut at each access to the ring: `QueTrans` (fill the record), `Drained`
  (a write waits), `LookAtQueue` (`is_not_empty`), `AddQueue` (wait for room, append),
  `StartDrive`, `CheckQueue`, `SuspendSelf`, `ReturnResumed`; for code outside the process
  loop `SpinEnds` and `SpinTimeout`. One caller runs at a time, because processes do not
  preempt each other; interrupts come between any two of these steps.
* `IdeIntr` and `IdeDiskTimeout` run with interrupts off and are one step: retry, next
  transfer, or answer, then start the next request.
* The interrupt mask is not part of the state. `disable_ip(IDE_DISK_INT)` masks the disk
  interrupt, but the exception handler is given the raw cause register and services what is
  pending there (`HANDLERS.C:386`, `588`), so every other interrupt services the disk too. (The Vegas
  board's `VHAND.C` does mask the cause; the model is of the boards with `HANDLERS.C`.)
* `Events` switches on what may go wrong: drive errors, a silent drive, a drive that stays
  busy when a command is sent, a resume by the game, and the end of the hook's waiting loop.

Left out: calls from inside interrupt routines (they poll the drive), callbacks, the
debugger's path, addresses and DMA tables, and the value `que_trans` returns
(`DiskCache` has it: only the return after a suspension reports an error).

### DiskCache

`usage_count` and `starting_block` are the fields of `dcc`, `disk_cache` is the data of each
control block, tagged in the model with the disk block it was copied from. A disk block of 256
sectors is one datum. `op[p]` holds the locals of the call a process is in: the block and the
number of blocks left, and `line`, the control block `get_block` or `disk_cache_write` keeps a
pointer to while the process waits.

* Requests go through `DiskService`, which `IdeQueue` implements: they are queued, served
  in order, and returned. `ServeRead` and `ServeWrite` are the transfer.
* `ReadHit`, `ReadMiss`, `ReadDone` are one iteration of the loop of `disk_cache_read`
  without a disk access, up to `_SecReads`, and after it; `WriteFind`, `WriteSubmit`,
  `WriteDone` are the look-up of `disk_cache_write`, `_SecWrites` once the queue is drained, and
  what follows it.
* `turn` is the dispatcher: processes run in list order, and the next one runs only when
  this one is outside a call or waits for the disk. Code outside the process loop runs at
  `turn = 0`, where `Flush` may happen.
* `Faults` switches on failing reads and writes, a drive that does not start, and flushes.
  `Beside` says which kinds of calls the game runs beside each other.
* `Succeeds` is what `que_trans` tells its caller. If the queue has emptied by the time it is looked at, before
  the process is suspended, it returns 0 whatever the answer was (`idedrv.c:1814-1817`), so with `at = "disk"` a
  request that failed counts as done: `get_block` keeps the tag of a block that was not loaded, and
  `disk_cache_write` updates the cached block for a write that failed. Only a process that was
  suspended and woken learns of the error. With `at = "lost"` the answer came after the look at the queue and
  before `suspend`, and the call never returns.
* Two variables are history: `overlap`, a call in progress began while another was in progress, and `doubtful`, the
  blocks of which a write failed, or a read failed before its process suspended, until they are loaded anew or
  written.

### FileSystem

`disk` is what the platters hold, `fsb_t` the cluster buffers, `fatbuf` the one buffer for a window
of the table, `fh` the handles. A cluster is a directory cluster (`slot`, `link`) or a file's
(`word`); the word at position i of a file n is the datum `<<n, i>>`, so a word out of place
shows.

* A call (`call.op`) is cut where the code writes to the disk: a step has at most one
  `SecWrites`, so every state of `disk` is what a power cut can leave. Evictions (`FSBNew`) and
  table windows (`FSBFATGet`) write from the middle of calls on other files.
* `Walk` follows a chain of links for as many steps as there are clusters, a recursive function; `Chain`
  is the set of clusters on it. The directory and the properties are read through them.
* `bypassed` are clusters that were written past a buffer that holds them; `closed` is
  the size each closed file had; both are history. `right` turns FALSE when a read gives a
  wrong word.
* `FileStore` is what callers are promised, by name and size.
* `FILEDRV.C` opens through `FSCreate` (reading and writing), through `FSOpen`, `FSClose`,
  `FSDelete` and `FSCreate` (writing), or through `FSOpen` (reading).

The contract of the game: one call at a time, the disk has room, transfers do not fail, a
handle is given up at `FSClose`. `Careless` is what the code does not survive; in the runs it is
empty. With `seek` (a seek forward from the middle of a cluster, which stops one cluster
short) or `unflushed` (a read by whole clusters of what is still in a dirty buffer) `ReadsBack` fails, and
with `append` (a write after a read up to the end of the last cluster, which starts a new chain)
`ChainsExact`. With `replace` (`FDReplace` takes the first unused entry although the name comes later) a name
comes to have two entries; that names are unique is what the careful game sees to, and is not stated as a
property. Nothing is claimed about work after a power cut.

### CoinPath

One slot and its meter. The millisecond interrupt (`nile4_watchdog_handler`) reads the switch,
which may read anything, and every `MeterPeriod` calls `coinintr`. The main loop is
cut where `get_inputs` copies `on_trans_accum` and where it zeroes it (lines 476 and 481), and where
`coinioctl` loads and stores `count` (line 113): the interrupt comes in between. `coin_tally`
is history: runs of on readings that lasted (`closings`), those that ended in the first
window (`missed`), pulses that ended in the second (`undone`). The properties say that these two
windows are the only places where a coin is lost or a pulse made twice.
What counts as a closing is what the code counts: after a bounce off that is shorter than
`OffDebounce` the on count starts anew and a second transition is counted although the state
stayed on. The auto-repeat is never enabled (`DEFAULT_REPEAT_DELAY` is 0).

### SerialPort

Characters are numbered as the buffers accept them. `ttyread` and `ttywrite` are cut at each
access to a buffer; in particular `circ_getc` steps past the end of the buffer (`SteppedOver`) and
then wraps (`Wrapped`), and the receive interrupt compares with the pointer in
between. The UART's FIFO is off (the table at `niletty.c:92`), so characters are one character time
apart and at most one arrives between those two instructions. `ttyopen` is one step. The
waiting loops read the buffers anew each time (`niletty.c:309`).

### CmosDriver and CmosSetup

A word is a tuple, and check data is a tuple that begins with "crc" and holds the words it is
about: a CRC of 32 bits is taken to tell apart what the program stores. `Torn` is a word of
which some bytes were copied. `update_cmos` copies what differs, word by word, and a power cut
leaves any prefix of that copy, its last word torn. `cmos_caller.stores` are the stores the
program has yet to make, each a step, so the interrupt and a power cut come between a count and
its check data. The stages of `setup_cmos2` follow each other as in the code (`Following`, `StageAfter`),
and a stage that is a loop over audits or adjustments is one item a step (`NextItem`): the look,
and the stores of the call it asks for, which the following steps make one by one.
A power cut while one adjustment is copied leaves a bad check, and the next start restores
every adjustment to its factory setting; the settings of `FACTORY_RESTORE` and `HIGH_SCORE_RESET` are then 1, and so
all records are reset too. A power cut in `test_cmos`, which overwrites everything with its only
copy in RAM, loses everything. `KeptAcrossPower` speaks of the other cuts: what still checks is kept.
It also asks that no adjustment is out of its range, because check data alone do not say that a table
is whole: when the table does not check and an adjustment is reset, `set_adjustment` computes the check
data over the whole table, torn words with it. A power cut after that store and before the
loop gets to the torn word leaves a table that checks, in which the next start resets the torn adjustment
by its range and, as the status is then 1, all others with it. TLC finds this with four adjustments and two cuts.
Left out: the older `setup_cmos`, the dump record, `lib/goose/cmos.c` and the game's own adjustments.

### ObjectList

Lists are sequences; the walk's pointer is a node and its successor is looked up when the walk
goes on, as the code follows `next` after the draw function. The draw function may make one call
per object; it does not delete its own object, after which the code would walk the free list.
`clear_free_object_list` is called only where nodes are allocated one by one.

### TmuMemory and TextureLists

`findMemTmuList`, `query_memory`, `texLoadTmuMemory` and the freeing functions are operators on a
record of pieces and free counters per half, with every attempt of `texLoadTmuMemory` in its order. A
half's border belongs to both halves, and a piece that starts there is counted back to the
first one (`gext.c:1472`): the counters of the halves then drift apart and a texture that fits
the second may be refused; `TextureMemoryExact` holds them together only in sum.
`create_texture` is cut at the load, which suspends: `texture_loads[c]` is the node in hand.
Nodes that others free meanwhile are put in front of it and lost at line 291, which
`TexturesExact` allows. `create_texture_from_memory` and `clear_all_textures` are not called during a
load. The use count starts at 0.

## 3. The runs

All bounds are constants in the `.cfg` files.

| Run | cfg | Instance | Shows |
|---|---|---|---|
| `lists` | GooseLists | 3 nodes, ids with and without the NODESTRUCT bit, blocks of 2 nodes, every call that changes lists | both lists are exact after every step, cursors stay live, stacks are owned, `killall` is complete without exit functions |
| `exit_functions` | GooseExit | 3 nodes, 2 run levels, exit functions | the inductive invariant of the proofs and exact lists, with deletions in the middle of deletions and sorts; the list and its cursor implement `GooseTick` |
| `crowd` | GooseCrowd | 3 nodes, memory freed, ticks 1 and 3, one library call a slice, every call on the sleep word with creates, kills and sorts; with fairness | the word keeps its width; a suspension ends only when somebody ends it; a process that sleeps runs, is suspended, or is removed, if ticks keep ending |
| `disk_queue` | IdeQueue | 2 processes and the hook, ring of 4, one transfer, no retries; error, silence, hang | no buffer is given back early, writes are oldest, calls implement `DiskService` |
| `disk_answers` | IdeLive | the same callers, ring of 2, two transfers, 4 retries; all events but a drive that hangs | the drive serves the request at the tail, answers are whole; a begun request is answered, by the interrupt or by the timeout's restart |
| `files` | Files | 2 names, 2 handles, clusters of 2 words, 1 entry per directory cluster, 3 buffers, nine clusters, a window of 4 table entries of sector 2, files of up to 6 words, 9 calls | chains and entries agree between calls, reads give what was written, a closed file survives a power cut anywhere; `FileStore` is implemented |
| `disk_cache` | DiskCache | 2 processes, 2 lines, 3 blocks, calls for 1 or 2 blocks; reads beside reads, writes alone; reads and writes that fail, answers before and after the suspension, lost wakeups, a drive that does not start, flushes between any two steps | no block is cached twice; when nobody is in a call, only a block whose transfer failed differs from the disk; a read that runs alone gets the disk's data, unless a transfer of that block failed |
| `parts` | Parts | coin: debounce 2 and 3, meter every 2, 3 coins; serial: 3 slots, 4 characters each way, 2 per call; CMOS: 2 audits, 3 adjustments, 1 store, 1 power cut; objects: 3 nodes, 2 ids, 2 orders, 5 calls; textures: 3 nodes, 2 names, 2 units of 2 halves of 3, 2 callers, 4 calls | coins and pulses are neither lost nor made but in two windows, and all are pulsed; nothing is reordered and the sender resumes; what the game reads is trusted, kept, and catches up; a frame is complete; texture lists and memory are exact |
| `lost_wakeup` | IdeWakeup | 1 process | violation: see findings |
| `cache_out_of_sync` | DiskCacheSync | the cache with a write beside a read, without faults | violation: see findings |
| `files_stale` | FilesStale | one handle, 2 entries per directory cluster, otherwise as `files` | violation: see findings |
| `audit_marker` | AuditMarker | the CMOS of games with 2 and 3 audits | violation: see findings |

`parts` holds five parts that share no state. A behaviour chooses its part at the start and the
others stay where they are, so the state spaces add up and are not multiplied.

Why the bounds are enough. Three nodes are the least with a head, a middle and a tail, so
every case of `delete_process` (only, head, tail, middle; cursor on it or not) occurs, and
one exit function can hit the node a loop has saved. `MaxCalls = 2` bounds the library calls in one
slice, so a slice can, for example, create and kill; longer sequences arise over several
slices. `ALLOC_NUM` of 2 or 3 covers a block that is
cut short. In `crowd` one node can sleep while a second creates the third and dies, over and over, which two
nodes cannot show. A ring of 4 holds the requests of all three callers, so requests queue behind each
other and the indices wrap; the ring of 2 has room for one request and makes callers wait for
room, with the code's four retries and two transfers per request (three repeat what two do).
Two cache lines for three blocks make every miss choose a victim, and one of two concurrent
misses can take a line the other has just left; `MaxUsage = 2` bounds the usage counts, whose
order alone decides the victim: with two lines every order of the two counts occurs, and a miss
that fails stays inside the bound. The run's `VIEW` (`Seen` in `MCDiskCache`, with the reasons) leaves out of
the state what is assigned before it is looked at again: the data of lines without a tag or about to be
loaded, and all data once a process has lost its wakeup and so never leaves its call.

In `files` a file of 6 words has three clusters, so chains grow, cross the table window and are
freed while the other file's are interleaved with them; one entry per directory cluster makes the
directory grow; three buffers for more clusters in use make every kind of buffer an
eviction's victim; lengths 1 and 6 and positions 0 and 3 give transfers of part of a cluster, of whole clusters
past the buffers, and of both in one call. Nine calls are two full lives of a file.
In `parts` the debounce times differ and are longer than one reading; three slots of a
circular buffer hold two characters, so the buffer is empty, partly full and full, and
wraps at each of its slots; one store and one power cut at any word of a copy meet every stage of
the start, which follows the power cut anew. Objects and textures have three nodes for the reason above; a
texture of two units of memory in halves of three leaves spaces of one, and split textures need
both halves or both units.

`CHECK_DEADLOCK FALSE` is set in the disk runs because the code really stops there: after a
lost wakeup, a lost start, or with a drive that hangs in an interrupt, every caller waits for ever.
In `disk_cache` it is set because of lost wakeups too, and of the bound on the usage counts: a call that would leave it does
not go on, and nobody else may run in its slice. In `parts` it is set because with the calls,
coins and characters used up a part comes to rest.

### Fairness

`GooseProcess!Fairness`: the dispatcher goes on, a call finishes, and a process that runs
gives up its slice. This is the cooperative contract; a process that never yields is
stopped by the watchdog. Nothing is assumed about which calls are made, except that a new
process is created only `MaxCalls` times per slice: an endless loop of creates would never
yield. This does not make every tick end: a process that creates the next with
`create_process_immediate` and dies, which does the same in turn, keeps the dispatcher in one walk of the
list for ever, and sleepers are not counted down. That is how the code is, so `NoStarvation` asks of the game what
its scheduler cannot give: that ticks keep ending, and that others do not lengthen sleeps for ever.

`IdeQueue!FairSpec`: a busy drive answers or falls silent with its DMA stopped (a drive that
is slow with the DMA active is only waited for, and restarts the machine after its last
retry), the interrupt comes, since even a masked one is serviced at the next retrace, and
the timer counts. Nothing is assumed about callers. `BegunIsAnswered` is checked for a drive that is not busy
when it is sent a command ("the drive should NEVER be busy here", `idedrv.c:2202`). With one that hangs it is false:
the interrupt ignores what `queued_req` returns (`idedrv.c:2004`, `2069`, `2123`, `2139`), and a retry or a
next transfer that is refused leaves the request at the tail with the timeout off.

`MCParts!PartsSpec`: the millisecond interrupt and the main loop's `scan_switches` (a process
hook, called every tick) go on; the UART drains and interrupts, and a program in `ttyread`
or `ttywrite` goes on; the program's stores and the interrupt that copies them go on. Nothing is
assumed about coins, calls of the game, characters from outside or power.

### Findings

* `lost_wakeup`: `que_trans` looks at the queue and then suspends, with the disk interrupt
  enabled in between. The interrupt that answers the request there resumes a process that is not
  suspended yet; then it suspends and nobody resumes it.
* `cache_out_of_sync`: the header of `dskcache.c` says that disk and cache can never be out of
  sync. `disk_cache_write` keeps a pointer to the control block while it waits for the disk; if
  another process's miss replaces the block meanwhile, the written data overwrites the copy of a
  different disk block, whose tag stays valid.
* `files_stale`: `FSBGet` is to find the buffer "with the valid data in it". `FSWrite` writes whole clusters past the
  buffers, one of which may still hold such a cluster from a file that was deleted; the next
  access to a part of the cluster takes the old contents.
* `audit_marker`: "if the maximum number of audits changes, EVERYTHING must be restored"; the test
  of the marker is inverted (`get_audit` returns 0 for a valid audit), so nothing ever is.

Five more disagreements were met and have no run: `killall`, whose saved next node an exit
function may kill, so that matching processes survive (`process.c:728`, `740`); `sleep_process`,
which or-s a difference into the sleep word and calls it a total (`process.c:493`, `506`);
`add_queue`, whose emptiness test before the append may be overtaken, so that nobody starts the
drive (`idedrv.c:1651`, `1772`); an error answered before its process suspends, which counts as success
(`idedrv.c:1814-1817`), so that a lone write leaves the cache with what the disk does not hold; and the border of the
texture halves above.

The comment "POSSIBLE BUG" at `mthread.c:763` is answered by `exit_functions`: when the head of
the list dies the walk starts at `plist` again, but exactly the processes not yet looked at are
behind it.

## 4. What is proved

`GooseProofs` proves, for every set of nodes, ids, levels and calls, both memory modes
and any bound, from the assumptions named in `GooseProcess` (`NullIsNoNode`, `FiniteNodes`,
`PidsAssumption`, `LevelsAssumption`, `AllocAssumption`, `ModeAssumption`,
`MaxCallsAssumption`, `TicksAssumption`):

* `InvariantHolds`: `Spec => [](IInv /\ Ordered)`;
* `TypeCorrect`, `CursorSafe`, `StacksSafe`: `TypeOK`, `CursorLive`, `StacksOwned` always hold;
* `LoopCursorSafe`: in a game without exit functions `LoopCursorLive` always holds.

The argument. `CursorLive` is not inductive: `delete_process` moves `cur_proc` to its
predecessor, so the predecessor must be on the list. `IInv` therefore adds

* `LinksLocal`: pointer by pointer, a neighbour of a live node is live and points back, only the
  head has no predecessor, free nodes link to free nodes, and no two to the same one;
* `ControlInv`: what holds between the steps of a call, in particular that a deletion in
  progress (`dying`, `loop`) never hits the process that runs.

This still allows a live node that is its own predecessor, and then the cursor would stay on
a deleted node. `Ordered` excludes cycles by a ranking that rises along `next`. It quantifies over
functions to the integers, so TLC checks `IInv` and the proof adds `Ordered`: a created node
is ranked below its successor (or the ranks above the caller's are moved up), a deletion
keeps the ranking, and the sort ranks by position. There is one lemma per action, and facts about `delete_process`
(`DeleteLinks`, `CursorMovesBack`), the exit function (`KillKeeps`) and the sleep words
(`WordArith`) are lemmas of their own.

It goes on from that invariant, under the same assumptions:

* `ListsAlwaysExact`: `Spec => []ListsExact`. The two lists hold exactly the active and the free
  nodes, and end;
* `KillallFindsAll`: if `process_exit` is not among the calls, `Spec => []KillallComplete`;
* `SuspensionsHold`: `Spec => SuspensionHolds`, an action property;
* `TickImplemented`: `Spec => ImplementsTick`.

The argument. `LinksLocal` speaks of single links; that every active node is met from `plist`
is a fact about the whole list. Suppose some are not. Of those, `Ordered` gives one of least rank; it
is not the head, so it has a predecessor, which ranks lower and so is met, and then it is met
itself (`Follow` is closed). That the list ends is the same with a node of greatest rank. The free list has
no back links, so `FreeChain` adds a ranking and a predecessor for each node but the head, and
`BlockOpen` says that the node a block is to be continued at is the end of the list. Two lemmas say what
an unlinking and a push do to `Follow`; with them each step maps to a step of `GooseTick`: what
is left of the walk (`Rest`) loses the node that is visited and every node that is deleted, and gains
a created one only if it was linked behind the cursor's process. `KillallFindsAll` needs `Passed`: of the nodes
the walk has left behind, only the caller matches. An exit function may kill the node saved as the
next, and the walk then ends at a deleted node's link (`process.c:728`, `740`): hence the hypothesis,
without which the statement is false.

`IdeQueueProofs` proves, for every number of processes, every ring the code's mask allows (a power of
two), every retry limit and number of transfers, from `HookIsNoProcess`, `RingAssumption`,
`RetriesAssumption`, `TransfersAssumption` and `NamesAssumption`:

* `QueueInvariant`: `Spec => []QueueInv`; from it `QueueTypes`, `DriveAndTailAgree`
  (`DriveServesTail`), `WritesWait` (`WritesFirst`) and `AnswersAreWhole` (`AnsweredWhole`), whatever goes wrong;
* `BuffersAreHeld` and `ServiceImplemented`: if nobody gives up (`NobodyGivesUp`),
  `Spec => []BufferHeld` and `Spec => ImplementsService`.

The argument. The interrupt and the callers meet at the ring, so the invariant says what a caller
may still rely on between two of its steps: it fills the slot at the head, which is not yet in the
ring (`CallerPlaced`); if it has seen the queue empty, nobody else's request is there and the drive is
idle until it has started it (`StartsAlone`); a write that has waited for the queue to drain
still finds it empty (`WriteWaited`). `DriveTimed` ties the drive to the request at the tail. The arithmetic of the
ring is in lemmas on `Gap`, the number of slots from the tail. `Waiting` adds that the caller of
each queued request is in `que_trans` and waits there; it fails when a process is resumed by the game or the hook's waiting
loop ends before the answer, since both leave `que_trans` with the request in the ring and the
buffer in use. `NobodyGivesUp` says that neither happens, which is the contract the code relies on and
nowhere checks; drive errors, silence and hangs stay in. For the refinement, the requests of the
ring in order are the pending ones of `DiskService`, and an answer the caller has not yet taken is
in `answered`.

`DiskCacheProofs` proves, for every number of processes, lines and blocks, from
`CallersAssumption`, `LinesAssumption`, `BlocksAssumption` and `UsageAssumption`:

* `CallsInvariant`, `CacheTypes`, `BlocksCachedOnce`: `[]CallsInv`, `[]TypeOK` and `[]TagsUnique`,
  whatever runs beside what and whatever fails;
* `SyncInvariant`, `OnlyFailuresOutOfSync`, `ReadsAloneAreRight`: under `OnlyReadsTogether`, `[]SyncInv`,
  `[]OnlyFailuresDiffer` and `[]AloneReadsDisk`, whatever fails;
* `CacheInSync`: `[]InSync`, if besides no transfer that was begun fails (`Faults \subseteq {"refused", "flush"}`).

The argument. `OnlyReadsTogether` says that nothing runs beside a write. It is needed, as
`cache_out_of_sync` shows. That no transfer fails is needed for `InSync` alone: a write that ends with an error may have
changed the disk (`dskcache.c:399`), and an error answered before the suspension counts as success. Even reads alone disturb each other: the line a read waits for may be taken and
tagged anew by another's miss, so a line may hold what neither tag nor disk says.
`TagsHold` finds the order in it: as long as reads are queued that will load a line, the last one
of them reads the block of its tag, and requests are served in order; once none is, the line
holds the block of its tag, unless a read that failed has not yet come back to invalidate it, a write that
changed the disk has not yet come back to update it, or the block is doubtful. `Writing` is what the pointer a write keeps is good
for while it is alone.

`FileSystemProofs` proves, on the invariant and the lemmas of `FileSystemMap`, for every number of
names, handles, buffers and clusters, every size of a cluster, of a directory cluster and of the
table's window, and any number of calls, from `NilAssumption`, `SizesAssumption`,
`BoundsAssumption` and the hypothesis `Careless = {}`:

* `FilesInv`: `Spec => []Inv`;
* `FileTypes`, `ReadsRight`, `ChainsStayExact`, `PowerCutSurvived`: `TypeOK`, `ReadsBack`, `ChainsExact` and `SurvivesPowerCut` always hold;
* `StoreImplemented`: `Spec => ImplementsStore`, the refinement of `FileStore`.

`Careless = {}` is the careful game of the run `files`; three of the four
things it leaves out break one of these properties in TLC (see FileSystem in section 2), and the fourth gives
a name two entries, on whose uniqueness the invariant rests.
`SizesAssumption` says of the sectors and windows what the macros of the code give: a table sector
holds an even number of entries, and the window is a whole number of sectors. `LastCluster` stays a constant:
where the disk is full the model's game stops, and the theorems say nothing of what the code does then.

The argument. What the properties say of chains is a fact about paths through the table, and no
single step of a call keeps it by itself: half-way through a call a chain is partly freed, clusters
are allocated and linked to nothing, an entry still shows a chain that is gone. `Inv` therefore speaks of
a map of the disk (`Maps`): for each cluster the file it belongs to and its place there, for each
file its clusters and the words written, the clusters of the directory in order, the `loose` clusters of
an allocation in progress, and the one file (`moving`) whose entry and chain may disagree. No variable
holds the map; `Inv` says that there is one which fits

* the table, as seen through its window (`ChainsOK`): the cluster at place i of a file is marked with
  the one at i + 1 or the end, and what belongs to nobody is unused;
* the directory (`DirsOK`) and its entries (`EntriesOK`), as seen through the buffers;
* the handles (`HandlesOK`): a handle's position is its place in the map and its offset, plus, while a
  seek is under way, the clusters it has still to walk;
* the words (`WordsOK`): what belongs to a file and was written is there in a buffer, and on the
  disk if the buffer is not dirty;
* the promise for a power cut (`PowerOK`): a closed file's entry, the directory's links up to it, and
  its marks are on the disk as they are in memory, and no dirty buffer holds one of its clusters;
* the call in progress (`CallOK`): for each place in each call, what its locals stand for.

Each step then has a local proof: it gives the next map and shows the few places where the two
maps differ. Most steps move no cluster and keep the map. For those, and for the evictions and
window changes hidden in any step, the lemmas on the buffers say that what the code sees is
the same (`Quiet`), that one cluster has new contents (`Changed`) or that one mark is new (`Marked`),
whatever is written back on the way. `FATChainFree` takes the cluster in hand from the map
(`Shorter`); `WriteFirst` and `WriteChain` give the loose clusters to the file (`Longer`); the writes move
the end of what is written (`Spread`), in a buffer or past all of them.

Two calls need facts of their own. A read that follows runs of neighbours (`LinearRun`) may come to the end of a chain only
with the end of the file, or it would take words beyond it (`ReadOK`). And a written word that is
still in a buffer must not be read past it: `ReadOK` says that a read begins with no dirty file
words in the buffers, which is what a careful game owes (`unflushed`).

From the map to the properties: a walk along a function of links that goes up one place at a time
visits exactly the places from where it starts to the end (`WalkUp`, `WalkEnds`), and there are no more places than clusters
(`PlacesEnough`), so `Walk` is long enough. `Chain` of an entry is then the clusters the map gives to its
file (`ChainIs`), and so is what a walk over the disk alone finds after a power cut. That the recursive function
has its values place by place (`WalkRec`) is shown by a least counterexample, as no induction theorem
can be used.

For the refinement, `StoreRel` says without walks what `Stored` is: the size in a file's handle while
it is open, else the size in its one entry. `Inv` gives it (`InvStore`), and a step then only has
to say which slots and handles it touches (`Untouched`): 27 of the 35 actions touch none that counts (`UnseenStep`),
among them every eviction, flush and window change. The others are one step of `FileStore` each: `CreateEntry`
creates, `DeleteEntry` deletes, the last `WriteCluster` or `WriteDirect` of a call grows, and the `FlushFat`
of `FSClose` closes. That `OpenEntry`, `CloseEntry` and a close change no size is where the
invariant is used: a handle that is not dirty has the size of its entry, and at a close's flush the
entry has the size of the handle.

`DriverProofs` proves about `SerialPort`, for every size of the buffers and every number of characters, from
`SerialAssumption`:

* `SerialInvariant`: `TtySpec => []TtyInv`;
* `SerialTypeCorrect`: `TtyTypeOK` always holds, so no pointer leaves its buffer but by the one
  step of `circ_getc`;
* `SerialInOrder`: `TtySpec => NothingReordered`.

The argument. That the next character out is the successor of the last one needs to know what every
slot holds: `Holds` says that from the output slot on, going round, the buffer holds the
characters accepted and not yet passed on, as many as the distance of the two pointers
(`OutExact`, `InExact`). `Dist` and four lemmas on it are the arithmetic of going round. Two
windows need more (`CallerReady`): a writer that has found room still has it when it stores,
since the interrupt only makes room; and between the reader's step past the end and its wrap
`circ_full` compares with a pointer no slot has, so there must be room for the one character that can arrive. The
second holds because the reader has just taken one, and it is where the UART's FIFO being off is
used.

It proves about `CoinPath`, for every debounce time, every period of the meters and every number
of coins, from `CoinAssumption`:

* `CoinInvariant`: `CoinSpec => []CoinInv`, which has the types among its parts;
* `CoinsAreKept`: `CoinSpec => []CoinsKept`;
* `CoinsAreMetered`: `CoinSpec => []CoinsMetered`.

The argument. The two sums are inductive outside the two windows and need, inside them, what the
main loop holds while the interrupt runs: `CopyKept` says that the copy of `get_inputs` with the
drops and the credits accounts for all closings but the missed ones (its reset throws the rest away),
and `AddKept` that the register of `coinioctl` is behind the count by the undone pulses
alone, and that a handler is called only for a drop, which `DropTaken` needs. `SameRuns` ties
the history's runs to the driver's counter, and `PulseTimed` bounds the ticks of a pulse, which
`coinintr` only tests for equality. One lemma for each handler (`ScanInputs`, `CoinIntr`) says
what it can change; there is one lemma per action.

`NodeListProofs` proves, for every number of nodes, ids, orders, names and kinds of textures, from
`ObjectAssumption`, `TextureAssumption` and `TmuAssumption`:

* `ObjectInvariant`, `ObjectTypesHold`, `FramesComplete`: `[]ObjectInv`, `[]ObjectTypeOK` and
  `[]FrameComplete` of `ObjectSpec`;
* `TextureInvariant`, `TextureTypesHold`, `TexturesStayExact`: `[]TextureInv`, `[]TextureTypeOK` and
  `[]TexturesExact` of `TextureSpec`;
* `MemoryInvariant`, `TextureMemoryKept`: `[]MemoryInv` and `[]TextureMemoryExact` of `TextureSpec`.

The argument. The invariant of a frame in progress (`Walk`) is: what is ahead of the walk's node has
been drawn exactly once, what is behind it not at all, and the orders drawn so far do not pass that
node's. All of it is stated by who is ahead of whom in the list (`Ahead`), so each call of a draw
function only has to show that it keeps the order of the objects that stay (`Undisturbed`); that is
one lemma per call, and one for the step of the walk. For the textures the place to watch is the
load: its node is taken from the free list before the process is suspended, and used after.
`OneLoad` and `LoadStands` say that only one caller waits at a time, that the node is still free
when it wakes, and that nobody has made the same texture meanwhile; without them two live textures
could have one name (`NoTwins`). Both rest on lemmas about sequences without repetition: joined,
parted, reversed, shortened, and `Kept`, the list without the nodes a loop takes out. `MemoryInv`
adds the memory: the pieces of each half are `Laid` inside it one behind the other, the counters and
pieces of a unit add up (`Total`), and the owners are active textures, among them all from files. A
piece put into a space large enough keeps that (`LaidMore`, `GetMemory`); for trilinear filtering
the two pieces lie in different units, so the space found for the second is still there after the
first (`TrilinearGiven`). What is freed goes back to one of the two counters of its unit, so their
sum is right although each alone is not (`HandlesDeleted`). Sums of sizes are counted byte by byte
(`Bytes`), which makes them cardinalities; a fold would need induction. `Kept` counts positions,
where `SelectSeq` is recursive: that the k-th remaining position exists for each k follows from
counting and needs no induction.

`CmosSetupProofs` proves, for every number of audits, every table of adjustments and any number of
calls and power failures, from `CmosAssumption` and `CmosBoundsAssumption`:

* `CmosTypes`: `CmosSpec => []CmosTypeOK`;
* `CmosInvariant`: `OneVersion => (CmosSpec => []CmosInv)`;
* `StoredIsTrusted`, `NothingLost`: under the same hypothesis `[]StoredTrusted` and `[]KeptAcrossPower`.

`OneVersion` says that all versions of the game have the same number of audits, that is, that the
board is not started with another game. It is needed: the run `audit_marker` shows that a start after such
a change keeps what lies at the places of the old layout, and TLC finds `StoredTrusted` violated
when an audit count of 1 is followed by one of 3. The proof has no bound on the rest, so it covers
what the run does not reach, such as two power cuts with four adjustments.

The argument. Between the stores of a call nothing checks, so the invariant does not speak of the
shadow but of `Left`: what each word will be when the stores still to do are made. A store leaves
`Left` as it is (`TailTidy`), so only the first step of a call has anything to show, and what it has to
show is that the call makes good what it stores in: `AuditRepairs`, `AdjustmentRepairs`, `RecordRepairs`. `Repaired` then
says that all a start has looked at so far (`AuditSeen`, `AdjustmentSeen`, `RecordSeen`) checks in
this sense. That it is also what was stored is `Origins`, over what a copy broken off anywhere may
be found to hold (`May`): check data there are only of a count that was stored, and of a record
whose value, if it can stand beside them, was. A completed copy forgets what was stored before it, and
there the order of the two stores of `set_audit` matters: `Copyable` says that the check data in the shadow are of
a count that is there or about to be. `Begun` is why nothing is copied in a start before its first
audit has been looked at. `Kept` follows a start after a power failure that left a good CMOS: it changes
nothing until it comes to a reset that was asked for.

Model-checked only:

* the liveness properties (`NoStarvation`, `BegunIsAnswered`, `EveryCoinPulsed`, `SenderResumes`,
  `RamCatchesUp`), as fairness and ENABLED are out of the prover's reach;
* `PartsTypeOK` as a whole; each of its five parts is proved of its component;
* `SizeChangeRestores`, which the code violates (see the findings).

## 5. What is not modelled

The list of `PROJECT.json` gives the reason for each part. Most of the repository is not state
that a model checker can say something about: the sound driver's tables and messages for a DSP
whose program is not there, the hardware self tests, the tools for PCs that convert art and
music, drawing arithmetic, register headers. The map therefore covers a small share of the lines in
`src/`, and most of the code that keeps state under concurrency, failure or power cuts.

Within the modelled parts are left out:

* scheduler: stack contents and register saving, process names and arguments, profiling and dumps; the
  interrupt that walks the process list in `resume_process` while `do_process_sort` relinks it (a sort is one
  step here);
* `IdeQueue`: everything about sectors and DMA except how many transfers a request takes; `DiskCache`: which sectors of a block a cached transfer covers;
* `FileSystem`: `FSRename`, dates and attributes, `FSDirNext`, `FSDiskUsage`, the info sector, upper
  and lower case, failed transfers, a full disk;
* `SerialPort`: the ioctls, the path of an exception that writes to the port directly (`dputc`), the build
  without interrupts;
* `CmosSetup`: see above; `ObjectList`: drawing; `TextureLists`: the contents of files, palettes,
  `texture_to_mem`, `create_dtexture` (compiled out), and `guLoadTextureDirectFromMemory`'s
  ignoring the result of `texLoadTmuMemory` when memory is short.

## 6. Plan

1. `DiskCache`, further: what concurrent readers of one block get while it is loaded (the code
   gives the old contents of the line).
2. `Resume`: the disk interrupt's walk of the list against the loop of `do_process_sort`.
3. `FileSystem`: failed transfers, a full disk, work after a power cut; two callers whose `FSBGet`
   suspends.
4. The sound board's command handshake with its timeouts, as far as the driver's side shows it.
