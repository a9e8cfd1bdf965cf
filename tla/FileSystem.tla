----------------------------- MODULE FileSystem -----------------------------
(***************************************************************************)
(* The file system of the BIOS (biosrom/bios/FILESYS.C): a directory of    *)
(* clusters, chains of clusters in a file allocation table, a few cluster  *)
(* buffers that are written back late, and one buffer for a window of the  *)
(* table.                                                                  *)
(*                                                                         *)
(* One caller at a time is in a call (the file system has no locks and     *)
(* keeps its pointers across disk accesses).  A call is cut into steps     *)
(* with at most one disk write each, so a state of disk between two steps  *)
(* is what a power cut can leave.                                          *)
(*                                                                         *)
(* The word at position i of a file n is the datum <<n, i>>.               *)
(***************************************************************************)
EXTENDS Integers, FiniteSets, FiniteSetsExt

CONSTANTS
  Names, Handles,
  Nil,              \* no name (zero in nm[0]: the entry is not in use), no handle
  CLUSTER_SIZE,     \* words of a cluster
  DIR_ENTRIES,      \* entries of a directory cluster
  FSB_BUF_COUNT,
  FAT_SECTOR,       \* table entries of a sector: a window begins at one
  FAT_WINDOW,       \* table entries of the FAT buffer
  LastCluster,      \* bound: the disk has room for every file
  MaxSize,          \* bound: words of a file
  Lengths,          \* what a caller asks to read or write
  Positions,        \* where it seeks
  MaxCalls,         \* bound: calls the game makes
  Careless          \* what the game does that the code does not survive

ASSUME NilAssumption == Nil \notin Names \cup Handles
ASSUME SizesAssumption ==
  /\ CLUSTER_SIZE \in Nat \ {0} /\ DIR_ENTRIES \in Nat \ {0} /\ FSB_BUF_COUNT \in Nat \ {0}
  /\ FAT_SECTOR \in Nat \ {0} /\ FAT_SECTOR % 2 = 0
  /\ FAT_WINDOW \in Nat \ {0} /\ FAT_WINDOW % FAT_SECTOR = 0 /\ FAT_SECTOR <= FAT_WINDOW
ASSUME BoundsAssumption ==
  /\ LastCluster \in Nat \ (0 .. 2) /\ MaxSize \in Nat /\ MaxCalls \in Nat
  /\ Lengths \subseteq Nat \ {0} /\ Positions \subseteq Nat
ASSUME CarelessAssumption == Careless \subseteq {"seek", "replace", "append", "unflushed"}

CLUSTER_CHAIN_END == 0
CLUSTER_UNUSED == 1
CLUSTER_FIRST_USER == 3
ROOT_DIR_CLUSTER == CLUSTER_FIRST_USER
FSBPRI_SYS == 3
FSBDIRTY_SYS == 1
FSBPRI_USR == 1
FSBDIRTY_USR == 3

Clusters == CLUSTER_FIRST_USER .. LastCluster
Slots == 1 .. DIR_ENTRIES
Buffers == 1 .. FSB_BUF_COUNT
NoWord == <<Nil, 0>>

VARIABLES
  disk,             \* the table, and the directory part and words of each cluster
  fsb_t, fatbuf,
  fatAllocNext, fdNextCluster, lastdircluster,
  fh,               \* FSFile of each handle
  call,             \* the call in progress, with its locals
  closed,           \* size of each file as it was last closed, and not touched since
  bypassed,         \* clusters in use, written past a buffer that held them (history)
  right,            \* every word a read gave was the right one (history)
  calls             \* calls made (bound)

private == <<fatAllocNext, fdNextCluster, lastdircluster>>
history == <<closed, bypassed, right, calls>>
vars == <<disk, fsb_t, fatbuf, private, fh, call, history>>

NoFile == -1
NoEntry == [nm |-> Nil, size |-> 0, cluster |-> 0]
Blank == [slot |-> [s \in Slots |-> NoEntry], link |-> 0,
          word |-> [i \in 0 .. CLUSTER_SIZE - 1 |-> NoWord]]

NoHandle == [nm |-> Nil, mode |-> "free", dircluster |-> 0, diroff |-> 1, firstcluster |-> 0,
             cluster |-> 0, off |-> 0, pos |-> 0, size |-> 0, dirty |-> FALSE]
NoCall == [op |-> "none", at |-> "out", h |-> Nil, nm |-> Nil,
           c |-> 0, x |-> 0, s |-> 1, num |-> 0, n |-> 0]

\* FSFormat: every cluster unused but the root directory, which is empty.
Formatted == [fat |-> [c \in Clusters |-> IF c = ROOT_DIR_CLUSTER THEN CLUSTER_CHAIN_END
                                          ELSE CLUSTER_UNUSED],
              cluster |-> [c \in Clusters |-> Blank]]

EmptyBuffers == [b \in Buffers |-> [cluster |-> 0, dirty |-> 0, pri |-> 0, buf |-> Blank]]
EmptyFat == [first |-> 0, dirty |-> FALSE, buf |-> [c \in {} |-> CLUSTER_UNUSED]]

Init ==
  /\ disk = Formatted
  /\ fsb_t = EmptyBuffers /\ fatbuf = EmptyFat
  /\ fatAllocNext = CLUSTER_FIRST_USER
  /\ fdNextCluster = ROOT_DIR_CLUSTER /\ lastdircluster = ROOT_DIR_CLUSTER
  /\ fh = [h \in Handles |-> NoHandle]
  /\ call = NoCall
  /\ closed = [n \in Names |-> NoFile] /\ bypassed = {} /\ right = TRUE /\ calls = 0

-----------------------------------------------------------------------------
(***************************************************************************)
(* The buffers.  An operator takes and gives the disk with them, because   *)
(* a buffer that is replaced is written first.                             *)
(***************************************************************************)

Written(d, b) ==
  IF fsb_t[b].dirty = 0 THEN d ELSE [d EXCEPT !.cluster[fsb_t[b].cluster] = fsb_t[b].buf]

\* FSBNew: the first of the buffers with the least priority.
Weight(b) == fsb_t[b].pri + fsb_t[b].dirty

FSBNew == CHOOSE b \in Buffers :
            \A k \in Buffers : Weight(b) < Weight(k) \/ (Weight(b) = Weight(k) /\ b <= k)

\* Mutant of FSBGet: the buffer is taken without being flushed.
FSBGetUnflushed(c) ==
  [b |-> FSBNew, disk |-> disk,
   fsb |-> [fsb_t EXCEPT ![FSBNew].cluster = c, ![FSBNew].dirty = 0,
                         ![FSBNew].buf = disk.cluster[c]]]

FSBGet(c) ==
  LET hits == {b \in Buffers : fsb_t[b].cluster = c}
      d == Written(disk, FSBNew)
  IN  IF hits # {} THEN [b |-> Min(hits), disk |-> disk, fsb |-> fsb_t]
      ELSE [b |-> FSBNew, disk |-> d,
            fsb |-> [fsb_t EXCEPT ![FSBNew].cluster = c, ![FSBNew].dirty = 0,
                                  ![FSBNew].buf = d.cluster[c]]]

\* Get cluster c, set the priority of its buffer, and put new contents in it.
Look(c, pri) ==
  LET g == FSBGet(c)
  IN  disk' = g.disk /\ fsb_t' = [g.fsb EXCEPT ![g.b].pri = pri]

Change(c, pri, dirty, new) ==
  LET g == FSBGet(c)
  IN  /\ disk' = g.disk
      /\ fsb_t' = [g.fsb EXCEPT ![g.b].pri = pri, ![g.b].dirty = dirty, ![g.b].buf = new]

Contents(c) == LET g == FSBGet(c) IN g.fsb[g.b].buf

InWindow(f, c) == f.first # 0 /\ c \in f.first .. f.first + FAT_WINDOW - 1

\* Mutant of the next operator: the FAT buffer is not written.
FatKept(f, d) == d

\* FSBFATFlushOne: f is the FAT buffer, d the disk.
FatFlushed(f, d) ==
  IF ~f.dirty THEN d
  ELSE [d EXCEPT !.fat = [c \in Clusters |-> IF InWindow(f, c) THEN f.buf[c] ELSE @[c]]]

WindowStart(c) ==
  CLUSTER_FIRST_USER + ((c - CLUSTER_FIRST_USER) \div FAT_SECTOR) * FAT_SECTOR

Window(first) == Clusters \cap (first .. first + FAT_WINDOW - 1)

LoadWindow(m, first) ==
  LET d == FatFlushed(m.fat, m.disk)
  IN  [disk |-> d, fat |-> [first |-> first, dirty |-> FALSE,
                            buf |-> [c \in Window(first) |-> d.fat[c]]]]

FSBFATGet(m, c) == IF InWindow(m.fat, c) THEN m ELSE LoadWindow(m, WindowStart(c))

Fat == [disk |-> disk, fat |-> fatbuf]
FATValue(m, c) == FSBFATGet(m, c).fat.buf[c]

\* Mutant of the next operator: the FAT buffer is not marked dirty.
MarkedClean(m, c, mark) ==
  LET g == FSBFATGet(m, c) IN [g EXCEPT !.fat.buf[c] = mark]

FATMark(m, c, mark) ==
  LET g == FSBFATGet(m, c) IN [g EXCEPT !.fat.buf[c] = mark, !.fat.dirty = TRUE]

SetFat(m) == disk' = m.disk /\ fatbuf' = m.fat

\* The table as the code sees it.
Mark(m) == [c \in Clusters |-> IF InWindow(m.fat, c) THEN m.fat.buf[c] ELSE m.disk.fat[c]]

\* FATAlloc: the first unused cluster from fatAllocNext on, window by window.  A search
\* that begins at the second half of a word looks at the first half too.
SearchWindow == IF InWindow(fatbuf, fatAllocNext) THEN fatbuf.first ELSE WindowStart(fatAllocNext)
Unallocated ==
  {c \in Clusters : /\ c >= fatAllocNext - ((fatAllocNext - SearchWindow) % 2)
                    /\ Mark(Fat)[c] = CLUSTER_UNUSED}

FATAlloc ==
  LET w == SearchWindow
      c == Min(Unallocated)
      first == w + FAT_WINDOW * ((c - w) \div FAT_WINDOW)
      m == IF first = fatbuf.first THEN Fat ELSE LoadWindow(Fat, first)
  IN  [c |-> c, m |-> [m EXCEPT !.fat.buf[c] = CLUSTER_CHAIN_END, !.fat.dirty = TRUE]]

\* Bound: the disk has room.
Allocate ==
  /\ Unallocated # {}
  /\ SetFat(FATAlloc.m)
  /\ fatAllocNext' = FATAlloc.c + 1
  /\ bypassed' = bypassed \ {FATAlloc.c}

-----------------------------------------------------------------------------
(***************************************************************************)
(* The directory.                                                          *)
(***************************************************************************)

\* A cluster as the code sees it, and the links of the directory.
View(c) ==
  IF \A b \in Buffers : fsb_t[b].cluster # c THEN disk.cluster[c]
  ELSE fsb_t[CHOOSE b \in Buffers : fsb_t[b].cluster = c].buf

\* Along a function of links: the walk from cluster c, which stays where the chain ends, and
\* the clusters on it.
Places == 0 .. LastCluster - CLUSTER_FIRST_USER
Walk(next, c) ==
  LET on == [p \in 0 .. LastCluster |-> IF p \in Clusters THEN next[p] ELSE p]
      at[k \in Places] == IF k = 0 THEN c ELSE on[at[k - 1]]
  IN  at
Chain(next, c) == LET walk == Walk(next, c) IN Clusters \cap {walk[k] : k \in Places}

Links == [c \in Clusters |-> View(c).link]
Directory == Chain(Links, ROOT_DIR_CLUSTER)
Entries == {e \in Directory \X Slots : View(e[1]).slot[e[2]].nm # Nil}
Entry(e) == View(e[1]).slot[e[2]]

Exists(n) == \E e \in Entries : Entry(e).nm = n

Idle == call.op = "none" /\ calls < MaxCalls
Open(n) == \E h \in Handles : fh[h].nm = n

\* A call begins with the locals that new gives, and goes on with those.
Start(new) == call' = new /\ calls' = calls + 1

Return == call' = NoCall

FDFind ==
  /\ call.at = "find"
  /\ Look(call.c, FSBPRI_SYS)
  /\ LET found == {s \in Slots : Contents(call.c).slot[s].nm = call.nm}
         link == Contents(call.c).link
         next == IF link = 0 THEN ROOT_DIR_CLUSTER ELSE link
     IN  \/ /\ found # {}
            /\ fdNextCluster' = call.c
            /\ call' = [call EXCEPT !.at = "entry", !.s = Min(found)]
         \/ /\ found = {}
            /\ IF next = fdNextCluster THEN Return ELSE call' = [call EXCEPT !.c = next]
            /\ UNCHANGED fdNextCluster
  /\ UNCHANGED <<fatbuf, fatAllocNext, lastdircluster, fh, history>>

fsResetPrivates ==
  /\ fatAllocNext' = CLUSTER_FIRST_USER
  /\ fdNextCluster' = ROOT_DIR_CLUSTER /\ lastdircluster' = ROOT_DIR_CLUSTER

\* FATChainFree, one cluster of the chain.  Afterwards the file is deleted or replaced.
FATChainFree ==
  /\ call.at = "free"
  /\ LET v == FATValue(Fat, call.c)
     IN  \/ /\ v >= CLUSTER_FIRST_USER
            /\ call' = [call EXCEPT !.c = v]
            /\ UNCHANGED private
         \/ /\ v < CLUSTER_FIRST_USER /\ call.op = "delete"
            /\ call' = [call EXCEPT !.at = "flush"]
            /\ UNCHANGED private
         \/ /\ v < CLUSTER_FIRST_USER /\ call.op = "create"
            /\ call' = [call EXCEPT !.at = "name", !.c = call.x]
            /\ fsResetPrivates
  /\ SetFat(FATMark(Fat, call.c, CLUSTER_UNUSED))
  /\ UNCHANGED <<fsb_t, fh, history>>

-----------------------------------------------------------------------------
(***************************************************************************)
(* The calls.                                                              *)
(***************************************************************************)

FSOpen(h, n) ==
  /\ Idle /\ fh[h].mode = "free" /\ ~Open(n)
  /\ Start([NoCall EXCEPT !.op = "open", !.h = h, !.nm = n, !.at = "find", !.c = fdNextCluster])
  /\ UNCHANGED <<disk, fsb_t, fatbuf, private, fh, closed, bypassed, right>>

OpenEntry ==
  /\ call.op = "open" /\ call.at = "entry"
  /\ Look(call.c, FSBPRI_SYS)
  /\ LET e == Contents(call.c).slot[call.s]
     IN  fh' = [fh EXCEPT ![call.h] =
                  [NoHandle EXCEPT !.nm = call.nm, !.mode = "read", !.size = e.size,
                                   !.dircluster = call.c, !.diroff = call.s,
                                   !.firstcluster = e.cluster, !.cluster = e.cluster]]
  /\ Return
  /\ UNCHANGED <<fatbuf, private, history>>

FSDelete(n) ==
  /\ Idle /\ ~Open(n)
  /\ Start([NoCall EXCEPT !.op = "delete", !.nm = n, !.at = "find", !.c = fdNextCluster])
  /\ closed' = [closed EXCEPT ![n] = NoFile]
  /\ UNCHANGED <<disk, fsb_t, fatbuf, private, fh, bypassed, right>>

\* The rest of a deleted entry is never read again.
DeleteEntry ==
  /\ call.op = "delete" /\ call.at = "entry"
  /\ LET b == Contents(call.c)
         first == b.slot[call.s].cluster
     IN  /\ Change(call.c, FSBPRI_SYS, FSBDIRTY_SYS, [b EXCEPT !.slot[call.s] = NoEntry])
         /\ call' = [call EXCEPT !.at = IF first < CLUSTER_FIRST_USER THEN "flush" ELSE "free",
                                 !.c = first]
  /\ UNCHANGED <<fatbuf, private, fh, history>>

\* FSBFlush, one buffer.
FlushBuffer ==
  /\ call.at = "flush"
  /\ LET dirty == {b \in Buffers : fsb_t[b].dirty # 0}
     IN  /\ dirty # {}
         /\ disk' = Written(disk, Min(dirty))
         /\ fsb_t' = [fsb_t EXCEPT ![Min(dirty)].dirty = 0]
  /\ UNCHANGED <<fatbuf, private, fh, call, history>>

\* FSBFlush at the FAT buffer, and the end of the call.
FlushFat ==
  /\ call.at = "flush"
  /\ \A b \in Buffers : fsb_t[b].dirty = 0
  /\ disk' = FatFlushed(fatbuf, disk)
  /\ fatbuf' = [fatbuf EXCEPT !.dirty = FALSE]
  /\ \/ /\ call.op = "delete"
        /\ lastdircluster' = ROOT_DIR_CLUSTER /\ fatAllocNext' = CLUSTER_FIRST_USER
        /\ UNCHANGED <<fdNextCluster, fh, closed>>
     \/ /\ call.op = "close"
        /\ fh' = [fh EXCEPT ![call.h] = NoHandle]
        /\ closed' = [closed EXCEPT ![fh[call.h].nm] = fh[call.h].size]
        /\ UNCHANGED private
     \/ call.op = "flush" /\ UNCHANGED <<private, fh, closed>>
  /\ Return
  /\ UNCHANGED <<fsb_t, bypassed, right, calls>>

FSFlush ==
  /\ Idle
  /\ fatbuf.dirty \/ \E b \in Buffers : fsb_t[b].dirty # 0
  /\ Start([NoCall EXCEPT !.op = "flush", !.at = "flush"])
  /\ UNCHANGED <<disk, fsb_t, fatbuf, private, fh, closed, bypassed, right>>

\* The handle is given up (FSReopen would rewind it).
FSClose(h) ==
  /\ Idle /\ fh[h].mode # "free"
  /\ Start([NoCall EXCEPT !.op = "close", !.h = h, !.at = IF fh[h].dirty THEN "size" ELSE "flush"])
  /\ UNCHANGED <<disk, fsb_t, fatbuf, private, fh, closed, bypassed, right>>

CloseEntry ==
  /\ call.at = "size"
  /\ LET f == fh[call.h]
     IN  Change(f.dircluster, FSBPRI_SYS, FSBDIRTY_SYS,
                [Contents(f.dircluster) EXCEPT !.slot[f.diroff].size = f.size])
  /\ call' = [call EXCEPT !.at = "flush"]
  /\ UNCHANGED <<fatbuf, private, fh, history>>

\* A careful game creates a file that exists only where FDReplace meets its entry before
\* an unused one (or deletes the file first, as fileopen does to write): FDReplace takes
\* the first it meets, and with the option "replace" a name comes to have two entries.
Meets(n) ==
  LET Before(d, e) == \/ d[1] = e[1] /\ d[2] < e[2]
                      \/ d[1] # e[1] /\ e[1] \in Chain(Links, d[1])
  IN  /\ lastdircluster = ROOT_DIR_CLUSTER
      /\ \E e \in Entries :
           /\ Entry(e).nm = n
           /\ \A d \in Directory \X Slots : Before(d, e) => Entry(d).nm # Nil

FSCreate(h, n) ==
  /\ Idle /\ fh[h].mode = "free" /\ ~Open(n)
  /\ Exists(n) => Meets(n) \/ "replace" \in Careless
  /\ Start([NoCall EXCEPT !.op = "create", !.h = h, !.nm = n, !.at = "replace",
                          !.c = lastdircluster])
  /\ closed' = [closed EXCEPT ![n] = NoFile]
  /\ UNCHANGED <<disk, fsb_t, fatbuf, private, fh, bypassed, right>>

Replaceable(slot) == {s \in Slots : slot[s].nm \in {Nil, call.nm}}

\* FDReplace: the first entry that is unused or a match, or the next directory cluster,
\* or a new one.
FDReplace ==
  /\ call.at = "replace"
  /\ Look(call.c, FSBPRI_SYS)
  /\ LET slot == Contents(call.c).slot
         link == Contents(call.c).link
         meets == Replaceable(slot)
         s == Min(meets)
     IN  \/ /\ meets # {} /\ slot[s].cluster = 0
            /\ call' = [call EXCEPT !.at = "name", !.s = s]
         \/ /\ meets # {} /\ slot[s].cluster # 0
            /\ call' = [call EXCEPT !.at = "free", !.c = slot[s].cluster, !.x = call.c, !.s = s]
         \/ /\ meets = {} /\ link # 0
            /\ call' = [call EXCEPT !.c = link]
         \/ /\ meets = {} /\ link = 0
            /\ call' = [call EXCEPT !.at = "grow"]
  /\ UNCHANGED <<fatbuf, private, fh, history>>

GrowDirectory ==
  /\ call.at = "grow"
  /\ Allocate
  /\ call' = [call EXCEPT !.at = "link", !.x = FATAlloc.c]
  /\ UNCHANGED <<fsb_t, fdNextCluster, lastdircluster, fh, closed, right, calls>>

LinkDirectory ==
  /\ call.at = "link"
  /\ Change(call.c, FSBPRI_SYS, FSBDIRTY_SYS, [Contents(call.c) EXCEPT !.link = call.x])
  /\ call' = [call EXCEPT !.at = "clear", !.c = call.x]
  /\ UNCHANGED <<fatbuf, private, fh, history>>

ClearDirectory ==
  /\ call.at = "clear"
  /\ Change(call.c, FSBPRI_SYS, FSBDIRTY_SYS, Blank)
  /\ lastdircluster' = call.c
  /\ call' = [call EXCEPT !.at = "replace"]
  /\ UNCHANGED <<fatbuf, fatAllocNext, fdNextCluster, fh, history>>

CreateEntry ==
  /\ call.at = "name"
  /\ Change(call.c, FSBPRI_SYS, FSBDIRTY_SYS,
            [Contents(call.c) EXCEPT !.slot[call.s] = [NoEntry EXCEPT !.nm = call.nm]])
  /\ fh' = [fh EXCEPT ![call.h] = [NoHandle EXCEPT !.nm = call.nm, !.mode = "write",
                                   !.dircluster = call.c, !.diroff = call.s]]
  /\ Return
  /\ UNCHANGED <<fatbuf, private, history>>

\* FSSeek.  A careful game goes back, or forward from the start of the file, and stays
\* below its end.
FSSeek(h, newpos) ==
  LET f == fh[h]
      back == newpos < f.pos
      clusters == (newpos - IF back THEN 0 ELSE f.pos) \div CLUSTER_SIZE
  IN  /\ Idle /\ f.mode # "free" /\ newpos <= f.size /\ newpos # f.pos
      /\ "seek" \notin Careless => newpos < f.size /\ (back \/ f.pos = 0)
      /\ fh' = [fh EXCEPT ![h].cluster = IF back THEN f.firstcluster ELSE @,
                          ![h].off = newpos % CLUSTER_SIZE, ![h].pos = newpos]
      /\ Start([NoCall EXCEPT !.op = "seek", !.h = h, !.at = "seek", !.n = clusters])
  /\ UNCHANGED <<disk, fsb_t, fatbuf, private, closed, bypassed, right>>

SeekCluster ==
  /\ call.at = "seek"
  /\ LET v == FATValue(Fat, fh[call.h].cluster)
     IN  \/ call.n = 0 /\ Return /\ UNCHANGED <<disk, fatbuf, fh>>
         \/ /\ call.n > 0
            /\ SetFat(FSBFATGet(Fat, fh[call.h].cluster))
            /\ IF v < CLUSTER_FIRST_USER THEN Return /\ UNCHANGED fh
               ELSE /\ fh' = [fh EXCEPT ![call.h].cluster = v]
                    /\ call' = [call EXCEPT !.n = @ - 1]
  /\ UNCHANGED <<fsb_t, private, history>>

\* FSWrite.
FSWrite(h, k) ==
  LET f == fh[h]
  IN  /\ Idle /\ f.mode = "write" /\ f.pos + k <= MaxSize
      /\ f.cluster = 0 => f.size = 0 \/ "append" \in Careless
      /\ closed' = [closed EXCEPT ![f.nm] = NoFile]
      /\ Start([NoCall EXCEPT !.op = "write", !.h = h, !.n = k,
                              !.at = IF f.cluster = 0 THEN "first" ELSE "put"])
      /\ UNCHANGED <<disk, fsb_t, fatbuf, private, fh, bypassed, right>>

\* The end of FSWrite: the file may have grown.  Mutant: the new size is not for the entry.
GrownClean(f) == IF f.pos > f.size THEN [f EXCEPT !.size = f.pos] ELSE f

Grown(f) == IF f.pos > f.size THEN [f EXCEPT !.size = f.pos, !.dirty = TRUE] ELSE f

WriteOn(f, k) ==
  IF call.n = k THEN Return /\ fh' = [fh EXCEPT ![call.h] = Grown(f)]
  ELSE call' = [call EXCEPT !.at = "put", !.n = @ - k] /\ fh' = [fh EXCEPT ![call.h] = f]

WriteFirst ==
  /\ call.at = "first"
  /\ Allocate
  /\ fh' = [fh EXCEPT ![call.h].firstcluster = FATAlloc.c]
  /\ call' = [call EXCEPT !.at = "setfirst"]
  /\ UNCHANGED <<fsb_t, fdNextCluster, lastdircluster, closed, right, calls>>

WriteFirstEntry ==
  /\ call.at = "setfirst"
  /\ LET f == fh[call.h]
     IN  /\ Change(f.dircluster, FSBPRI_SYS, FSBDIRTY_SYS,
                   [Contents(f.dircluster) EXCEPT !.slot[f.diroff].cluster = f.firstcluster])
         /\ fh' = [fh EXCEPT ![call.h].cluster = f.firstcluster, ![call.h].off = 0]
  /\ call' = [call EXCEPT !.at = "put"]
  /\ UNCHANGED <<fatbuf, private, history>>

\* What fits in the cluster.  Mutant: more than that.
SpanOver(f) == call.n

Span(f) == Min({call.n, CLUSTER_SIZE - f.off})

\* The words of f from position p on, in a cluster from offset i on.
Put(w, f, i, p, k) ==
  [j \in DOMAIN w |-> IF j \in i .. i + k - 1 THEN <<f.nm, p + j - i>> ELSE w[j]]

WriteCluster ==
  /\ call.op = "write" /\ call.at = "put"
  /\ LET f == fh[call.h]
         k == Span(f)
     IN  /\ k > 0
         /\ Change(f.cluster, FSBPRI_USR, FSBDIRTY_USR,
                   [Contents(f.cluster) EXCEPT !.word = Put(@, f, f.off, f.pos, k)])
         /\ WriteOn([f EXCEPT !.off = @ + k, !.pos = @ + k], k)
  /\ UNCHANGED <<fatbuf, private, history>>

WriteNext ==
  /\ call.op = "write" /\ call.at = "put"
  /\ LET f == fh[call.h]
         v == FATValue(Fat, f.cluster)
     IN  /\ Span(f) = 0
         /\ SetFat(FSBFATGet(Fat, f.cluster))
         /\ \/ /\ v >= CLUSTER_FIRST_USER
               /\ fh' = [fh EXCEPT ![call.h].cluster = v, ![call.h].off = 0]
               /\ UNCHANGED call
            \/ /\ v < CLUSTER_FIRST_USER
               /\ call' = [call EXCEPT !.at = IF call.n > CLUSTER_SIZE THEN "linear" ELSE "extend"]
               /\ UNCHANGED fh
  /\ UNCHANGED <<fsb_t, private, history>>

\* One more cluster, or the first of FATAllocLinearClusters.
WriteAlloc ==
  /\ call.at \in {"extend", "linear"}
  /\ Allocate
  /\ call' = [call EXCEPT !.x = FATAlloc.c,
                          !.at = IF call.at = "extend" THEN "chain" ELSE "more",
                          !.c = IF call.at = "extend" THEN @ ELSE FATAlloc.c,
                          !.num = IF call.at = "extend" THEN 0 ELSE 1]
  /\ UNCHANGED <<fsb_t, fdNextCluster, lastdircluster, fh, closed, right, calls>>

\* FATAllocLinearClusters: the next cluster is taken as long as it is unused.
LinearLeft == call.n - call.num * CLUSTER_SIZE >= CLUSTER_SIZE

\* Bound: the disk has room.
LinearRoom == call.c < LastCluster

LinearMore ==
  /\ call.at = "more" /\ LinearLeft /\ LinearRoom
  /\ FATValue(Fat, call.c + 1) = CLUSTER_UNUSED
  /\ SetFat(FATMark(FSBFATGet(Fat, call.c + 1), call.c, call.c + 1))
  /\ call' = [call EXCEPT !.c = @ + 1, !.num = @ + 1]
  /\ bypassed' = bypassed \ {call.c + 1}
  /\ UNCHANGED <<fsb_t, private, fh, closed, right, calls>>

LinearLast ==
  /\ call.at = "more" /\ (LinearLeft => LinearRoom)
  /\ LinearLeft => FATValue(Fat, call.c + 1) # CLUSTER_UNUSED
  /\ SetFat(FATMark(IF LinearLeft THEN FSBFATGet(Fat, call.c + 1) ELSE Fat,
                    call.c, CLUSTER_CHAIN_END))
  /\ call' = [call EXCEPT !.at = "chain"]
  /\ UNCHANGED <<fsb_t, private, fh, history>>

\* The last cluster of the file is linked to the new ones.
WriteChain ==
  /\ call.at = "chain"
  /\ SetFat(FATMark(Fat, fh[call.h].cluster, call.x))
  /\ IF call.num = 0
     THEN /\ fh' = [fh EXCEPT ![call.h].cluster = call.x, ![call.h].off = 0]
          /\ call' = [call EXCEPT !.at = "put"]
     ELSE call' = [call EXCEPT !.at = "direct"] /\ UNCHANGED fh
  /\ UNCHANGED <<fsb_t, private, history>>

\* SecWrites of all the new clusters, past the buffers.
Direct == call.x .. call.x + call.num - 1

WriteDirect ==
  /\ call.op = "write" /\ call.at = "direct"
  /\ LET f == fh[call.h]
         Word(c, i) == <<f.nm, f.pos + (c - call.x) * CLUSTER_SIZE + i>>
         k == call.num * CLUSTER_SIZE
     IN  /\ disk' = [disk EXCEPT !.cluster = [c \in Clusters |->
                       IF c \in Direct
                       THEN [Blank EXCEPT !.word = [i \in DOMAIN @ |-> Word(c, i)]]
                       ELSE @[c]]]
         /\ WriteOn([f EXCEPT !.cluster = call.x + call.num - 1, !.off = CLUSTER_SIZE,
                              !.pos = @ + k], k)
  /\ bypassed' = bypassed \cup {c \in Direct : \E b \in Buffers : fsb_t[b].cluster = c}
  /\ UNCHANGED <<fsb_t, fatbuf, private, closed, right, calls>>

\* FSRead.  A careful game flushes what it has written before it reads it.
FSRead(h, k) ==
  LET f == fh[h]
  IN  /\ Idle /\ f.mode # "free"
      /\ f.cluster >= CLUSTER_FIRST_USER /\ f.pos < f.size
      /\ (\E b \in Buffers : fsb_t[b].dirty = FSBDIRTY_USR) => "unflushed" \in Careless
      /\ Start([NoCall EXCEPT !.op = "read", !.h = h, !.at = "get", !.n = Min({k, f.size - f.pos})])
      /\ UNCHANGED <<disk, fsb_t, fatbuf, private, fh, closed, bypassed, right>>

ReadOn(f, k) ==
  /\ fh' = [fh EXCEPT ![call.h] = f]
  /\ IF call.n = k THEN Return ELSE call' = [call EXCEPT !.at = "get", !.n = @ - k]

ReadCluster ==
  /\ call.at = "get"
  /\ LET f == fh[call.h]
         k == Span(f)
         w == Contents(f.cluster).word
     IN  /\ k > 0
         /\ Look(f.cluster, FSBPRI_USR)
         /\ right' = (right /\ (f.cluster \in bypassed \/ w = Put(w, f, f.off, f.pos, k)))
         /\ ReadOn([f EXCEPT !.off = @ + k, !.pos = @ + k], k)
  /\ UNCHANGED <<fatbuf, private, closed, bypassed, calls>>

ReadNext ==
  /\ call.at = "get"
  /\ LET f == fh[call.h]
         v == FATValue(Fat, f.cluster)
     IN  /\ Span(f) = 0
         /\ SetFat(FSBFATGet(Fat, f.cluster))
         /\ IF v < CLUSTER_FIRST_USER THEN Return
            ELSE call' = [call EXCEPT !.at = "run", !.c = v, !.x = v, !.num = 0]
  /\ UNCHANGED <<fsb_t, private, fh, history>>

\* FATLinearClusters, one cluster; call.c is the variable chain.
LinearRun ==
  /\ call.at = "run" /\ LinearLeft
  /\ LET v == FATValue(Fat, call.c)
     IN  /\ SetFat(FSBFATGet(Fat, call.c))
         /\ IF v < CLUSTER_FIRST_USER /\ call.n > (call.num + 1) * CLUSTER_SIZE THEN Return
            ELSE call' = [call EXCEPT !.at = IF v = call.c + 1 THEN "run" ELSE "direct",
                                      !.c = v, !.num = @ + 1]
  /\ UNCHANGED <<fsb_t, private, fh, history>>

ReadDirect ==
  /\ call.op = "read"
  /\ call.at = "direct" \/ (call.at = "run" /\ ~LinearLeft)
  /\ LET f == fh[call.h]
         k == call.num * CLUSTER_SIZE
         Word(c, i) == <<f.nm, f.pos + (c - call.x) * CLUSTER_SIZE + i>>
     IN  /\ right' = (right /\ \A c \in Direct \ bypassed, i \in 0 .. CLUSTER_SIZE - 1 :
                                 disk.cluster[c].word[i] = Word(c, i))
         /\ ReadOn([f EXCEPT !.cluster = call.c, !.off = 0, !.pos = @ + k], k)
  /\ UNCHANGED <<disk, fsb_t, fatbuf, private, closed, bypassed, calls>>

\* FSInit, when the machine starts or by FSReset.
FSInit ==
  /\ Idle /\ fatbuf.first # 0 /\ \A h \in Handles : fh[h].mode = "free"
  /\ fsResetPrivates
  /\ fsb_t' = EmptyBuffers /\ fatbuf' = EmptyFat
  /\ calls' = calls + 1
  /\ UNCHANGED <<disk, fh, call, closed, bypassed, right>>

Next ==
  \/ \E h \in Handles, n \in Names : FSOpen(h, n) \/ FSCreate(h, n)
  \/ \E n \in Names : FSDelete(n)
  \/ \E h \in Handles, k \in Lengths : FSRead(h, k) \/ FSWrite(h, k)
  \/ \E h \in Handles, p \in Positions : FSSeek(h, p)
  \/ \E h \in Handles : FSClose(h)
  \/ FSFlush \/ FSInit
  \/ FDFind \/ OpenEntry \/ DeleteEntry \/ FATChainFree \/ FlushBuffer \/ FlushFat
  \/ CloseEntry
  \/ FDReplace \/ GrowDirectory \/ LinkDirectory \/ ClearDirectory \/ CreateEntry
  \/ SeekCluster
  \/ WriteFirst \/ WriteFirstEntry \/ WriteCluster \/ WriteNext \/ WriteAlloc
  \/ LinearMore \/ LinearLast \/ WriteChain \/ WriteDirect
  \/ ReadCluster \/ ReadNext \/ LinearRun \/ ReadDirect

Spec == Init /\ [][Next]_vars

-----------------------------------------------------------------------------
(***************************************************************************)
(* Properties.                                                             *)
(***************************************************************************)

Marks == {CLUSTER_CHAIN_END, CLUSTER_UNUSED} \cup Clusters
Words == {NoWord} \cup (Names \X (0 .. MaxSize - 1))
Parts == [slot : [Slots -> [nm : Names \cup {Nil}, size : 0 .. MaxSize,
                            cluster : {0} \cup Clusters]],
          link : {0} \cup Clusters, word : [0 .. CLUSTER_SIZE - 1 -> Words]]

TypeOK ==
  /\ disk.fat \in [Clusters -> Marks] /\ disk.cluster \in [Clusters -> Parts]
  /\ \A b \in Buffers :
       /\ fsb_t[b].cluster \in {0} \cup Clusters /\ fsb_t[b].buf \in Parts
       /\ fsb_t[b].dirty \in {0, FSBDIRTY_SYS, FSBDIRTY_USR}
       /\ fsb_t[b].pri \in {0, FSBPRI_SYS, FSBPRI_USR}
  /\ fatbuf.first \in {0} \cup Clusters
  /\ fatbuf.buf \in [IF fatbuf.first = 0 THEN {} ELSE Window(fatbuf.first) -> Marks]
  /\ \A h \in Handles :
       /\ fh[h].cluster \in {0} \cup Clusters /\ fh[h].off \in 0 .. CLUSTER_SIZE
       /\ fh[h].pos \in 0 .. MaxSize /\ fh[h].size \in 0 .. MaxSize
  /\ fatAllocNext \in CLUSTER_FIRST_USER .. LastCluster + 1
  /\ {fdNextCluster, lastdircluster} \subseteq Clusters

\* Between calls the clusters in use are exactly those of the directory and of the chains
\* that start at its entries, each in one of them only, and every chain ends and holds the
\* whole file (FATAlloc, FATAllocLinearClusters, FATChainFree and the entries, through two
\* kinds of buffers and a table window that moves).
Held(e) ==
  IF Open(Entry(e).nm) THEN fh[CHOOSE h \in Handles : fh[h].nm = Entry(e).nm].size
  ELSE Entry(e).size

ChainsExact ==
  call.op = "none" =>
    LET next == Mark(Fat)
        entries == Entries
        directory == Directory
        Of(e) == Chain(next, Entry(e).cluster)
    IN  /\ \A e \in entries :
             LET chain == Of(e)
             IN  /\ chain \cap directory = {}
                 /\ \A d \in entries \ {e} : Of(d) \cap chain = {}
                 /\ chain # {} => \E c \in chain : next[c] = CLUSTER_CHAIN_END
                 /\ Cardinality(chain) * CLUSTER_SIZE >= Held(e)
        /\ directory \cup UNION {Of(e) : e \in entries}
             = {c \in Clusters : next[c] # CLUSTER_UNUSED}

\* A read gives the words that were written, whether they are in a buffer, on the disk,
\* or were written past the buffers, except for clusters written past a buffer that holds
\* them (FSRead and FSWrite by clusters and by sectors, FSBNew's replacement).
ReadsBack == right

\* Power may be cut at any step: a file that was closed and not touched since is on the
\* disk, with its entry, its chain and its words, except for the words of clusters written
\* past a buffer that holds them (FSClose and FSBFlush; the evictions and table windows of
\* calls on other files).
OnDisk(n) ==
  LET links == [c \in Clusters |-> disk.cluster[c].link]
      At(e) == disk.cluster[e[1]].slot[e[2]]
  IN  \E e \in Chain(links, ROOT_DIR_CLUSTER) \X Slots :
        /\ At(e).nm = n /\ At(e).size = closed[n]
        /\ \A i \in 0 .. closed[n] - 1 :
             LET c == Walk(disk.fat, At(e).cluster)[i \div CLUSTER_SIZE]
             IN  /\ c \in Clusters
                 /\ c \in bypassed \/ disk.cluster[c].word[i % CLUSTER_SIZE] = <<n, i>>

SurvivesPowerCut == \A n \in Names : closed[n] # NoFile => OnDisk(n)

\* "read a cluster or find the fsb with the valid data in it": a buffer that is not dirty
\* holds what the disk holds.
FindsValidData ==
  \A b \in Buffers : fsb_t[b].cluster # 0 /\ fsb_t[b].dirty = 0
                       => fsb_t[b].buf.word = disk.cluster[fsb_t[b].cluster].word

\* What the callers are promised: a map from names to sizes, and who writes.
Stored(n) == Max({NoFile} \cup {Held(e) : e \in {d \in Entries : Entry(d).nm = n}})

Writers == {fh[h].nm : h \in {k \in Handles : fh[k].mode = "write"}}

Store == INSTANCE FileStore WITH files <- [n \in Names |-> Stored(n)], writing <- Writers
ImplementsStore == Store!Spec
=============================================================================
