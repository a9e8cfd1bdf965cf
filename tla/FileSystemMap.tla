--------------------------- MODULE FileSystemMap ----------------------------
(***************************************************************************)
(* The inductive invariant of FileSystem, for every set of names and       *)
(* handles and every size of a cluster, of the buffers, of the table's     *)
(* window and of the disk, and the lemmas that keep it.                    *)
(*                                                                         *)
(* The invariant speaks of a map of the disk: which cluster belongs to     *)
(* which file and at which place, how far each file is written, and which  *)
(* clusters are the directory's.  No variable holds the map; the invariant *)
(* says that there is one that fits the table, the directory, the buffers  *)
(* and the words.  Here are the lemmas about the model's operators, and    *)
(* one for each step that needs no new map; FileSystemProofs has those     *)
(* that give the next map, and the theorems.                               *)
(***************************************************************************)
EXTENDS FileSystem, FiniteSetTheorems, WellFoundedInduction, TLAPS

Maps ==
  [own : [Clusters -> Names \cup {Nil}],  \* the file of a cluster
   idx : [Clusters -> Nat],               \* its place in the file
   len : [Names -> Nat],                  \* the clusters of a file
   ext : [Names -> Nat],                  \* the words written in it
   dirs : SUBSET Clusters,                \* the clusters of the directory
   pos : [Clusters -> Nat],               \* their place in it
   dlen : Nat,                            \* their number
   loose : SUBSET Clusters,               \* taken from the table and linked to nothing yet
   moving : Names \cup {Nil}]             \* a file whose entry does not show its chain

Table == Mark(Fat)
Slot(c, s) == View(c).slot[s]
Dirty(c) == \E b \in Buffers : fsb_t[b].cluster = c /\ fsb_t[b].dirty # 0
NoEntryOf(n) == \A c \in Clusters, s \in Slots : Slot(c, s).nm # n

ChainsOK(g) ==
  /\ \A c \in Clusters : g.own[c] # Nil =>
       /\ c \notin g.dirs /\ c \notin g.loose
       /\ g.idx[c] < g.len[g.own[c]]
       /\ IF g.idx[c] + 1 = g.len[g.own[c]] THEN Table[c] = CLUSTER_CHAIN_END
          ELSE /\ Table[c] \in Clusters /\ g.own[Table[c]] = g.own[c]
               /\ g.idx[Table[c]] = g.idx[c] + 1
  /\ \A c, d \in Clusters : g.own[c] # Nil /\ g.own[c] = g.own[d] /\ g.idx[c] = g.idx[d] => c = d
  /\ \A n \in Names : \A k \in 0 .. g.len[n] - 1 : \E c \in Clusters : g.own[c] = n /\ g.idx[c] = k
  /\ \A c \in g.dirs : Table[c] = CLUSTER_CHAIN_END /\ c \notin g.loose
  /\ \A c \in Clusters :
       g.own[c] = Nil /\ c \notin g.dirs /\ c \notin g.loose => Table[c] = CLUSTER_UNUSED

DirsOK(g) ==
  /\ ROOT_DIR_CLUSTER \in g.dirs /\ g.pos[ROOT_DIR_CLUSTER] = 0
  /\ \A c \in g.dirs :
       /\ g.pos[c] < g.dlen
       /\ IF g.pos[c] + 1 = g.dlen THEN View(c).link = 0
          ELSE View(c).link \in g.dirs /\ g.pos[View(c).link] = g.pos[c] + 1
  /\ \A c, d \in g.dirs : g.pos[c] = g.pos[d] => c = d
  /\ \A k \in 0 .. g.dlen - 1 : \E c \in g.dirs : g.pos[c] = k
  /\ \A c \in Clusters \ g.dirs : View(c).link = 0 /\ \A s \in Slots : Slot(c, s).nm = Nil
  /\ fdNextCluster \in g.dirs /\ lastdircluster \in g.dirs
  /\ \A b \in Buffers : fsb_t[b].dirty = FSBDIRTY_SYS => fsb_t[b].cluster \in g.dirs

Headed(g, n, c) == \/ c = 0 /\ g.len[n] = 0
                   \/ c \in Clusters /\ g.own[c] = n /\ g.idx[c] = 0

EntriesOK(g) ==
  /\ \A c, d \in Clusters, s, t \in Slots :
       Slot(c, s).nm # Nil /\ Slot(c, s).nm = Slot(d, t).nm => c = d /\ s = t
  /\ \A c \in Clusters, s \in Slots : Slot(c, s).nm = Nil => Slot(c, s) = NoEntry
  /\ \A c \in Clusters, s \in Slots :
       Slot(c, s).nm # Nil /\ Slot(c, s).nm # g.moving =>
         /\ Headed(g, Slot(c, s).nm, Slot(c, s).cluster)
         /\ Slot(c, s).size <= g.ext[Slot(c, s).nm]
  /\ \A n \in Names : n # g.moving /\ NoEntryOf(n) => g.len[n] = 0
  /\ \A n \in Names : g.ext[n] <= g.len[n] * CLUSTER_SIZE /\ g.ext[n] <= MaxSize

SeekLeft(h) == IF call.at = "seek" /\ call.h = h THEN call.n ELSE 0
Writing(h) == call.op = "write" /\ call.h = h

HandleOK(g, h) ==
  LET f == fh[h]
  IN  /\ f.mode \in {"read", "write"} /\ f.nm \in Names
      /\ f.dircluster \in Clusters /\ f.diroff \in Slots
      /\ Slot(f.dircluster, f.diroff).nm = f.nm
      /\ f.nm # g.moving =>
           /\ Slot(f.dircluster, f.diroff).cluster = f.firstcluster
           /\ f.cluster = 0 => f.firstcluster = 0 \/ f.size > 0
      /\ IF f.cluster = 0 THEN f.pos = f.size
         ELSE /\ g.own[f.cluster] = f.nm
              /\ f.pos = (g.idx[f.cluster] + SeekLeft(h)) * CLUSTER_SIZE + f.off
      /\ f.size <= g.ext[f.nm] /\ f.pos <= g.ext[f.nm]
      /\ f.pos <= f.size \/ Writing(h)
      /\ IF f.dirty THEN f.mode = "write" ELSE Slot(f.dircluster, f.diroff).size = f.size
      /\ f.mode = "write" => closed[f.nm] = NoFile
      /\ \A k \in Handles : fh[k].nm = f.nm => h = k

HandlesOK(g) == \A h \in Handles : fh[h] = NoHandle \/ HandleOK(g, h)

\* An entry of n lies ahead in the directory, with no unused entry before it.
Ahead(g, c, n) ==
  \E d \in g.dirs, t \in Slots :
    /\ Slot(d, t).nm = n /\ g.pos[c] <= g.pos[d]
    /\ \A e \in g.dirs, s \in Slots :
         g.pos[c] <= g.pos[e] /\ (g.pos[e] < g.pos[d] \/ (e = d /\ s < t)) => Slot(e, s).nm # Nil

\* Where a call can be.
PhaseOK ==
  \/ call.op = "none" /\ call.at = "out"
  \/ call.op = "open" /\ call.at \in {"find", "entry"}
  \/ call.op = "delete" /\ call.at \in {"find", "entry", "free", "flush"}
  \/ call.op = "flush" /\ call.at = "flush"
  \/ call.op = "close" /\ call.at \in {"size", "flush"}
  \/ call.op = "create" /\ call.at \in {"replace", "free", "grow", "link", "clear", "name"}
  \/ call.op = "seek" /\ call.at = "seek"
  \/ /\ call.op = "write"
     /\ call.at \in {"first", "setfirst", "put", "extend", "linear", "more", "chain", "direct"}
  \/ call.op = "read" /\ call.at \in {"get", "run", "direct"}

DirCallOK(g) ==
  /\ call.op \in {"open", "delete", "create"} =>
       /\ call.nm \in Names /\ ~Open(call.nm)
       /\ call.op # "delete" => call.h \in Handles /\ fh[call.h] = NoHandle
       /\ call.op # "open" => closed[call.nm] = NoFile
  /\ call.at \in {"find", "entry", "name", "replace", "grow", "link", "clear"} => call.c \in g.dirs
  /\ call.at = "entry" => Slot(call.c, call.s).nm = call.nm
  /\ call.at = "free" => /\ call.c \in Clusters /\ g.own[call.c] = call.nm /\ g.idx[call.c] = 0
                         /\ g.ext[call.nm] = 0
                         /\ call.op = "delete" => NoEntryOf(call.nm)
                         /\ call.op = "create" => /\ call.x \in g.dirs
                                                  /\ Slot(call.x, call.s).nm = call.nm
  /\ call.at = "name" => /\ g.len[call.nm] = 0
                         /\ \/ Slot(call.c, call.s).nm = call.nm
                            \/ Slot(call.c, call.s).nm = Nil /\ NoEntryOf(call.nm)
  /\ call.at = "replace" => NoEntryOf(call.nm) \/ Ahead(g, call.c, call.nm)
  /\ call.at \in {"grow", "link", "clear"} => /\ g.pos[call.c] + 1 = g.dlen
                                              /\ NoEntryOf(call.nm)
  /\ call.at = "link" => g.loose = {call.x} /\ Table[call.x] = CLUSTER_CHAIN_END
  /\ call.at = "clear" => \A s \in Slots : Slot(call.c, s).nm = Nil

\* The clusters from x on are the num next ones of the file at f.
Follow(g, f, x, num) ==
  \A c \in x .. x + num - 1 :
    c \in Clusters /\ g.own[c] = f.nm /\ g.idx[c] = g.idx[f.cluster] + 1 + (c - x)

Fresh == IF call.num = 0 THEN 1 ELSE call.num

WriteOK(g) ==
  LET f == fh[call.h]
  IN  /\ call.op = "write" =>
           /\ f.mode = "write" /\ call.n > 0 /\ f.pos + call.n <= MaxSize
      /\ call.at = "first" => f.cluster = 0 /\ f.size = 0
      /\ call.at = "setfirst" =>
           /\ f.cluster = 0 /\ f.size = 0
           /\ f.firstcluster \in Clusters
           /\ g.own[f.firstcluster] = f.nm /\ g.idx[f.firstcluster] = 0
           /\ Slot(f.dircluster, f.diroff).size <= g.ext[f.nm]
      /\ call.at \in {"put", "extend", "linear", "more", "chain", "direct"} => f.cluster # 0
      /\ call.at \in {"extend", "linear", "more", "chain"} =>
           f.off = CLUSTER_SIZE /\ g.idx[f.cluster] + 1 = g.len[f.nm]
      /\ call.at = "linear" => call.n > CLUSTER_SIZE
      /\ call.at = "more" =>
           /\ call.num > 0 /\ call.num * CLUSTER_SIZE <= call.n /\ call.c = call.x + call.num - 1
           /\ g.loose = call.x .. call.c
           /\ \A c \in call.x .. call.c - 1 : Table[c] = c + 1
      /\ call.at = "chain" =>
           /\ call.num > 0 => call.num * CLUSTER_SIZE <= call.n
           /\ g.loose = call.x .. call.x + Fresh - 1
           /\ \A c \in g.loose : Table[c] = IF c = call.x + Fresh - 1 THEN CLUSTER_CHAIN_END
                                            ELSE c + 1
      /\ call.op = "write" /\ call.at = "direct" =>
           /\ f.off = CLUSTER_SIZE
           /\ call.num > 0 /\ call.num * CLUSTER_SIZE <= call.n
           /\ Follow(g, f, call.x, call.num)

ReadOK(g) ==
  LET f == fh[call.h]
  IN  /\ call.op = "read" =>
           /\ f.cluster # 0 /\ call.n > 0 /\ f.pos + call.n <= f.size
           /\ \A b \in Buffers : fsb_t[b].dirty # FSBDIRTY_USR
      /\ call.op = "read" /\ call.at \in {"run", "direct"} =>
           /\ f.off = CLUSTER_SIZE
           /\ call.num * CLUSTER_SIZE <= call.n
           /\ Follow(g, f, call.x, call.num)
           /\ \/ /\ call.c \in Clusters /\ g.own[call.c] = f.nm
                 /\ g.idx[call.c] = g.idx[f.cluster] + 1 + call.num
              \/ /\ call.at = "direct" /\ call.c = 0
                 /\ call.n = call.num * CLUSTER_SIZE /\ f.pos + call.n = f.size
      /\ call.at = "run" => call.c = call.x + call.num

CallOK(g) ==
  /\ PhaseOK
  /\ call.op \in {"close", "seek", "write", "read"} =>
       call.h \in Handles /\ fh[call.h] # NoHandle
  /\ g.moving = IF call.at \in {"free", "name"} THEN call.nm
                ELSE IF call.at = "setfirst" THEN fh[call.h].nm ELSE Nil
  /\ call.at \notin {"link", "more", "chain"} => g.loose = {}
  /\ call.op = "close" /\ call.at = "flush" =>
       Slot(fh[call.h].dircluster, fh[call.h].diroff).size = fh[call.h].size
  /\ call.at = "seek" => fh[call.h].cluster # 0 /\ fh[call.h].pos < fh[call.h].size
  /\ DirCallOK(g) /\ WriteOK(g) /\ ReadOK(g)

WordsAt(g, c) ==
  \A i \in 0 .. CLUSTER_SIZE - 1 :
    LET p == g.idx[c] * CLUSTER_SIZE + i
    IN  g.own[c] # Nil /\ c \notin bypassed /\ p < g.ext[g.own[c]] =>
          /\ View(c).word[i] = <<g.own[c], p>>
          /\ ~Dirty(c) => disk.cluster[c].word[i] = <<g.own[c], p>>

WordsOK(g) == \A c \in Clusters : WordsAt(g, c)

\* The entry of n is on the disk, and the directory up to it.
EntryOnDisk(g, n) ==
  \E c \in g.dirs, s \in Slots :
    /\ Slot(c, s).nm = n /\ Slot(c, s).size = closed[n]
    /\ disk.cluster[c].slot[s] = Slot(c, s)
    /\ \A d \in g.dirs : g.pos[d] < g.pos[c] => disk.cluster[d].link = View(d).link

PowerAt(g, n) ==
  closed[n] # NoFile =>
    /\ n # g.moving /\ closed[n] \in Nat /\ EntryOnDisk(g, n)
    /\ \A c \in Clusters : g.own[c] = n => ~Dirty(c) /\ disk.fat[c] = Table[c]

PowerOK(g) == \A n \in Names : PowerAt(g, n)

Clean == ~fatbuf.dirty /\ \A b \in Buffers : fsb_t[b].dirty = 0
Emptying == call.op = "create" \/ call.at \in {"free", "flush"}
CleanOK == Clean \/ Writers # {} \/ Emptying

BuffersOK ==
  /\ \A b, k \in Buffers : fsb_t[b].cluster # 0 /\ fsb_t[b].cluster = fsb_t[k].cluster => b = k
  /\ \A b \in Buffers : IF fsb_t[b].cluster = 0 THEN fsb_t[b].dirty = 0
                        ELSE fsb_t[b].dirty = 0 =>
                               /\ fsb_t[b].buf.slot = disk.cluster[fsb_t[b].cluster].slot
                               /\ fsb_t[b].buf.link = disk.cluster[fsb_t[b].cluster].link

Good(g) ==
  /\ g \in Maps
  /\ ChainsOK(g) /\ DirsOK(g) /\ EntriesOK(g) /\ HandlesOK(g) /\ CallOK(g)
  /\ WordsOK(g) /\ PowerOK(g)

BufferType == [cluster : {0} \cup Clusters, dirty : {0, FSBDIRTY_SYS, FSBDIRTY_USR},
               pri : {0, FSBPRI_SYS, FSBPRI_USR}, buf : Parts]
DiskType == [fat : [Clusters -> Marks], cluster : [Clusters -> Parts]]
HandleType == [nm : Names \cup {Nil}, mode : {"free", "read", "write"},
               dircluster : {0} \cup Clusters, diroff : Slots, firstcluster : {0} \cup Clusters,
               cluster : {0} \cup Clusters, off : 0 .. CLUSTER_SIZE,
               pos : 0 .. MaxSize, size : 0 .. MaxSize, dirty : BOOLEAN]
CallType == [op : {"none", "open", "delete", "flush", "close", "create", "seek", "write", "read"},
             at : {"out", "find", "entry", "free", "flush", "size", "replace", "grow", "link",
                   "clear", "name", "seek", "first", "setfirst", "put", "extend", "linear",
                   "more", "chain", "direct", "get", "run"},
             h : Handles \cup {Nil}, nm : Names \cup {Nil},
             c : {0} \cup Clusters, x : {0} \cup Clusters, s : Slots, num : Nat, n : Nat]

\* The table and its buffer.
FatGood(m) ==
  /\ m = [disk |-> m.disk, fat |-> m.fat] /\ m.disk \in DiskType
  /\ m.fat = [first |-> m.fat.first, dirty |-> m.fat.dirty, buf |-> m.fat.buf]
  /\ m.fat.first \in {0} \cup Clusters /\ m.fat.dirty \in BOOLEAN
  /\ m.fat.buf \in [IF m.fat.first = 0 THEN {} ELSE Window(m.fat.first) -> Marks]
  /\ m.fat.dirty => m.fat.first # 0
  /\ \A c \in Clusters : InWindow(m.fat, c) /\ ~m.fat.dirty => m.fat.buf[c] = m.disk.fat[c]

TypeInv ==
  /\ FatGood(Fat)
  /\ fsb_t \in [Buffers -> BufferType]
  /\ fatAllocNext \in CLUSTER_FIRST_USER .. LastCluster + 1
  /\ fh \in [Handles -> HandleType]
  /\ call \in CallType
  /\ closed \in [Names -> {NoFile} \cup (0 .. MaxSize)]
  /\ bypassed \subseteq Clusters

Inv ==
  /\ TypeInv /\ BuffersOK /\ CleanOK /\ right = TRUE
  /\ \E g \in Maps : Good(g)

-----------------------------------------------------------------------------
(***************************************************************************)
(* Numbers.                                                                *)
(***************************************************************************)
USE DEF CLUSTER_CHAIN_END, CLUSTER_UNUSED, CLUSTER_FIRST_USER, ROOT_DIR_CLUSTER,
        FSBPRI_SYS, FSBDIRTY_SYS, FSBPRI_USR, FSBDIRTY_USR

\* The sizes as numbers.
LEMMA Sizes ==
  /\ CLUSTER_SIZE \in Nat /\ CLUSTER_SIZE > 0 /\ DIR_ENTRIES \in Nat /\ DIR_ENTRIES > 0
  /\ FSB_BUF_COUNT \in Nat /\ FSB_BUF_COUNT > 0 /\ FAT_SECTOR \in Nat /\ FAT_SECTOR > 0
  /\ FAT_WINDOW \in Nat /\ FAT_WINDOW > 0 /\ FAT_SECTOR <= FAT_WINDOW
  /\ LastCluster \in Nat /\ LastCluster >= 3 /\ MaxSize \in Nat
BY SizesAssumption, BoundsAssumption

\* Clusters, slots and buffers are numbered.
LEMMA Numbered ==
  /\ \A c : c \in Clusters <=> c \in Nat /\ 3 <= c /\ c <= LastCluster
  /\ \A s : s \in Slots <=> s \in Nat /\ 1 <= s /\ s <= DIR_ENTRIES
  /\ \A b : b \in Buffers <=> b \in Nat /\ 1 <= b /\ b <= FSB_BUF_COUNT
  /\ 3 \in Clusters /\ 0 \notin Clusters /\ 1 \notin Clusters
BY Sizes DEF Clusters, Slots, Buffers

\* Nil is no name and no handle.
LEMMA Nils == Nil \notin Names /\ Nil \notin Handles
BY NilAssumption

\* A nonempty set of naturals has a least member: the one induction the proofs use.
LEMMA LeastNat ==
  ASSUME NEW T, T \subseteq Nat, T # {}
  PROVE  \E x \in T : \A y \in T : x <= y
<1> DEFINE R == OpToRel(<, Nat)
<1>1. IsWellFoundedOn(R, Nat)
  BY NatLessThanWellFounded
<1>2. ASSUME NEW x \in Nat, NEW y \in Nat, x < y
      PROVE  <<x, y>> \in R
  BY <1>2 DEF OpToRel
<1> HIDE DEF R
<1>3. PICK x \in T : \A y \in T : ~(<<y, x>> \in R)
  BY <1>1, WFMin
<1>4. ASSUME NEW y \in T
      PROVE  x <= y
  <2>1. x \in Nat /\ y \in Nat /\ ~(<<y, x>> \in R)
    BY <1>3
  <2>2. ~(y < x)
    BY <1>2, <2>1
  <2> QED BY <2>1, <2>2
<1> QED BY <1>4

\* Min gives it.
LEMMA MinIsLeast ==
  ASSUME NEW T, T \subseteq Nat, T # {}
  PROVE  Min(T) \in T /\ \A y \in T : Min(T) <= y
<1>1. PICK x \in T : \A y \in T : x <= y
  BY LeastNat
<1> QED BY <1>1 DEF Min

\* Products by the size of a cluster, as far as the proofs use them.
LEMMA Times ==
  ASSUME NEW k \in Nat
  PROVE  /\ k * CLUSTER_SIZE \in Nat
         /\ (k + 1) * CLUSTER_SIZE = k * CLUSTER_SIZE + CLUSTER_SIZE
         /\ k > 0 => k * CLUSTER_SIZE >= CLUSTER_SIZE
BY Sizes

\* A cluster further on begins behind the one before.
LEMMA TimesApart ==
  ASSUME NEW j \in Nat, NEW k \in Nat, j < k
  PROVE  j * CLUSTER_SIZE + CLUSTER_SIZE <= k * CLUSTER_SIZE
<1>1. PICK d \in Nat : k = j + 1 + d
  <2>1. k - j - 1 \in Nat /\ k = j + 1 + (k - j - 1)
    OBVIOUS
  <2> QED BY <2>1
<1>2. k * CLUSTER_SIZE = j * CLUSTER_SIZE + CLUSTER_SIZE + d * CLUSTER_SIZE
  BY <1>1, Sizes
<1>3. d * CLUSTER_SIZE \in Nat /\ j * CLUSTER_SIZE \in Nat /\ CLUSTER_SIZE \in Nat
  BY Sizes, Times
<1> QED BY <1>2, <1>3

-----------------------------------------------------------------------------
(***************************************************************************)
(* The cluster buffers.                                                    *)
(***************************************************************************)

\* FSBNew chooses a buffer.
LEMMA NewIsBuffer ==
  ASSUME fsb_t \in [Buffers -> BufferType]
  PROVE  FSBNew \in Buffers
<1> DEFINE W == {Weight(b) : b \in Buffers}
<1>1. \A b \in Buffers : Weight(b) \in Nat
  BY DEF Weight, BufferType
<1>2. PICK w \in W : \A y \in W : w <= y
  <2>1. W \subseteq Nat /\ W # {}
    BY <1>1, Sizes DEF Buffers
  <2> HIDE DEF W
  <2> QED BY <2>1, LeastNat
<1> DEFINE L == {b \in Buffers : Weight(b) = w}
<1>3. PICK b \in L : \A y \in L : b <= y
  <2>1. L \subseteq Nat /\ L # {}
    BY <1>2, Numbered
  <2> HIDE DEF L
  <2> QED BY <2>1, LeastNat
<1>4. \A k \in Buffers : Weight(b) < Weight(k) \/ (Weight(b) = Weight(k) /\ b <= k)
  <2> TAKE k \in Buffers
  <2>1. Weight(k) \in Nat /\ Weight(b) \in Nat /\ Weight(b) = w /\ w <= Weight(k)
    BY <1>1, <1>2, <1>3
  <2>2. Weight(k) = w => b <= k
    BY <1>3
  <2> HIDE DEF L, W
  <2> QED BY <2>1, <2>2
<1> QED BY <1>3, <1>4 DEF FSBNew

\* The one buffer of a cluster shows it.
LEMMA ViewIs ==
  ASSUME BuffersOK, NEW c \in Clusters
  PROVE  /\ \A b \in Buffers : fsb_t[b].cluster = c => View(c) = fsb_t[b].buf
         /\ (\A b \in Buffers : fsb_t[b].cluster # c) => View(c) = disk.cluster[c]
<1>1. c # 0
  BY Numbered
<1>2. ASSUME NEW b \in Buffers, fsb_t[b].cluster = c
      PROVE  View(c) = fsb_t[b].buf
  <2>1. \A k \in Buffers : fsb_t[k].cluster = c => k = b
    BY <1>1, <1>2 DEF BuffersOK
  <2>2. (CHOOSE k \in Buffers : fsb_t[k].cluster = c) = b
    BY <1>2, <2>1
  <2> QED BY <1>2, <2>2 DEF View
<1> QED BY <1>2 DEF View

\* The same after a step.
LEMMA ViewWillBe ==
  ASSUME BuffersOK', NEW c \in Clusters
  PROVE  /\ \A b \in Buffers : fsb_t'[b].cluster = c => View(c)' = fsb_t'[b].buf
         /\ (\A b \in Buffers : fsb_t'[b].cluster # c) => View(c)' = disk'.cluster[c]
<1>1. c # 0
  BY Numbered
<1>2. ASSUME NEW b \in Buffers, fsb_t'[b].cluster = c
      PROVE  View(c)' = fsb_t'[b].buf
  <2>1. \A k \in Buffers : fsb_t'[k].cluster = c => k = b
    BY <1>1, <1>2 DEF BuffersOK
  <2>2. (CHOOSE k \in Buffers : fsb_t'[k].cluster = c) = b
    BY <1>2, <2>1
  <2> QED BY <1>2, <2>2 DEF View
<1> QED BY <1>2 DEF View

\* What a step leaves of cluster c when it does not change it.
Kept(c) ==
  /\ View(c)'.slot = View(c).slot /\ View(c)'.link = View(c).link
  /\ \/ /\ disk'.cluster[c] = disk.cluster[c] /\ Dirty(c)' = Dirty(c)
        /\ View(c)' = View(c) \/ (~Dirty(c) /\ View(c)' = disk.cluster[c])
     \/ disk'.cluster[c] = View(c) /\ ~Dirty(c)' /\ View(c)' = View(c)

\* The buffers that are dirty after a step were so before.
NoneDirtied ==
  \A b \in Buffers : fsb_t'[b].dirty # 0 =>
    fsb_t'[b].dirty = fsb_t[b].dirty /\ fsb_t'[b].cluster = fsb_t[b].cluster

BuffersType ==
  /\ fsb_t \in [Buffers -> BufferType] /\ disk.cluster \in [Clusters -> Parts]
  /\ disk = [fat |-> disk.fat, cluster |-> disk.cluster]

\* FSBGet finds the buffer of a cluster or fills one, and loses nothing.
LEMMA GetCases ==
  ASSUME BuffersType, BuffersOK, NEW c \in Clusters
  PROVE  LET g == FSBGet(c)
         IN  /\ g.b \in Buffers
             /\ g.fsb[g.b].buf = View(c) /\ g.fsb[g.b].cluster = c
             /\ \/ g.fsb = fsb_t /\ g.disk = disk
                \/ /\ \A b \in Buffers : fsb_t[b].cluster # c
                   /\ g.b = FSBNew /\ g.disk = Written(disk, FSBNew)
                   /\ g.fsb = [fsb_t EXCEPT ![FSBNew].cluster = c, ![FSBNew].dirty = 0,
                                            ![FSBNew].buf = disk.cluster[c]]
<1> DEFINE hits == {b \in Buffers : fsb_t[b].cluster = c}
           g == FSBGet(c)
<1>1. CASE hits # {}
  <2>1. hits \subseteq Nat
    BY Numbered
  <2>2. Min(hits) \in hits
    <3> HIDE DEF hits
    <3> QED BY <1>1, <2>1, MinIsLeast
  <2>3. g = [b |-> Min(hits), disk |-> disk, fsb |-> fsb_t]
    BY <1>1 DEF FSBGet
  <2> QED BY <2>2, <2>3, ViewIs
<1>2. CASE hits = {}
  <2>1. \A b \in Buffers : fsb_t[b].cluster # c
    BY <1>2
  <2>2. FSBNew \in Buffers
    BY NewIsBuffer DEF BuffersType
  <2>3. Written(disk, FSBNew).cluster[c] = disk.cluster[c]
    BY <2>1, <2>2 DEF Written, BuffersType
  <2>4. g = [b |-> FSBNew, disk |-> Written(disk, FSBNew),
             fsb |-> [fsb_t EXCEPT ![FSBNew].cluster = c, ![FSBNew].dirty = 0,
                                   ![FSBNew].buf = disk.cluster[c]]]
    BY <1>2, <2>3 DEF FSBGet
  <2>5. View(c) = disk.cluster[c]
    BY <2>1, ViewIs
  <2> QED BY <2>1, <2>2, <2>4, <2>5 DEF BuffersType
<1> QED BY <1>1, <1>2

\* What it gives is the cluster as the code sees it.
LEMMA ContentsIsView ==
  ASSUME BuffersType, BuffersOK, NEW c \in Clusters
  PROVE  Contents(c) = View(c)
BY GetCases DEF Contents

\* A cluster as the code sees it has a directory part and words.
LEMMA ViewType ==
  ASSUME BuffersType, BuffersOK, NEW c \in Clusters
  PROVE  View(c) \in Parts
<1>1. CASE \A b \in Buffers : fsb_t[b].cluster # c
  BY <1>1, ViewIs DEF BuffersType
<1>2. CASE ~(\A b \in Buffers : fsb_t[b].cluster # c)
  <2>1. PICK b \in Buffers : fsb_t[b].cluster = c
    BY <1>2
  <2> QED BY <2>1, ViewIs DEF BuffersType, BufferType
<1> QED BY <1>1, <1>2

\* To write the buffer that is replaced leaves the other parts of the disk.
LEMMA WrittenIs ==
  ASSUME BuffersType, BuffersOK, NEW b \in Buffers
  PROVE  /\ Written(disk, b).fat = disk.fat
         /\ Written(disk, b).cluster \in [Clusters -> Parts]
         /\ Written(disk, b) = [fat |-> disk.fat, cluster |-> Written(disk, b).cluster]
         /\ \A d \in Clusters : Written(disk, b).cluster[d] =
              IF fsb_t[b].dirty # 0 /\ fsb_t[b].cluster = d THEN fsb_t[b].buf
              ELSE disk.cluster[d]
<1>1. fsb_t[b] \in BufferType /\ (fsb_t[b].dirty # 0 => fsb_t[b].cluster \in Clusters)
  BY DEF BuffersType, BuffersOK, BufferType
<1>2. CASE fsb_t[b].dirty = 0
  BY <1>2 DEF Written, BuffersType
<1>3. CASE fsb_t[b].dirty # 0
  <2>1. Written(disk, b) = [disk EXCEPT !.cluster[fsb_t[b].cluster] = fsb_t[b].buf]
    BY <1>3 DEF Written
  <2>2. Written(disk, b) = [fat |-> disk.fat,
           cluster |-> [disk.cluster EXCEPT ![fsb_t[b].cluster] = fsb_t[b].buf]]
    BY <2>1 DEF BuffersType
  <2>3. fsb_t[b].buf \in Parts
    BY <1>1 DEF BufferType
  <2> QED BY <1>1, <1>3, <2>2, <2>3 DEF BuffersType
<1> QED BY <1>2, <1>3

\* What every step does to the buffers.
BuffersWell ==
  BuffersType' /\ BuffersOK' /\ disk'.fat = disk.fat

\* A cluster whose buffer stays as it was, or is loaded or left with nothing dirty in it.
LEMMA KeptByBuffers ==
  ASSUME BuffersType, BuffersOK, BuffersType', BuffersOK', NEW d \in Clusters,
         NEW k \in Buffers,
         \A b \in Buffers \ {k} : fsb_t'[b] = fsb_t[b],
         \/ /\ fsb_t'[k].cluster = fsb_t[k].cluster /\ fsb_t'[k].buf = fsb_t[k].buf
            /\ \/ fsb_t'[k].dirty = fsb_t[k].dirty /\ disk'.cluster[d] = disk.cluster[d]
               \/ fsb_t'[k].dirty = 0 /\ disk'.cluster[d] = Written(disk, k).cluster[d]
         \/ /\ \A b \in Buffers : fsb_t[b].cluster # fsb_t'[k].cluster
            /\ fsb_t'[k].cluster = d => fsb_t'[k].buf = disk.cluster[d] /\ fsb_t'[k].dirty = 0
            /\ disk'.cluster[d] = Written(disk, k).cluster[d]
  PROVE  Kept(d)
<1>1. d # 0
  BY Numbered
<1>2. CASE \E b \in Buffers \ {k} : fsb_t[b].cluster = d
  <2>1. PICK b \in Buffers \ {k} : fsb_t[b].cluster = d
    BY <1>2
  <2>2. fsb_t'[b] = fsb_t[b]
    BY <2>1
  <2>3. View(d) = fsb_t[b].buf /\ View(d)' = fsb_t[b].buf
    BY <2>1, <2>2, ViewIs, ViewWillBe
  <2>4. \A j \in Buffers : fsb_t[j].cluster = d => j = b
    BY <1>1, <2>1 DEF BuffersOK
  <2>5. \A j \in Buffers : fsb_t'[j].cluster = d => j = b
    BY <1>1, <2>1, <2>2 DEF BuffersOK
  <2>6. Dirty(d)' = Dirty(d)
    BY <2>1, <2>2, <2>4, <2>5 DEF Dirty
  <2>7. Written(disk, k).cluster[d] = disk.cluster[d]
    BY <2>1, <2>4, WrittenIs
  <2>8. disk'.cluster[d] = disk.cluster[d]
    BY <2>7
  <2> QED BY <2>3, <2>6, <2>8 DEF Kept
<1>3. CASE /\ fsb_t[k].cluster = d
           /\ fsb_t'[k].cluster = fsb_t[k].cluster /\ fsb_t'[k].buf = fsb_t[k].buf
           /\ \/ fsb_t'[k].dirty = fsb_t[k].dirty /\ disk'.cluster[d] = disk.cluster[d]
              \/ fsb_t'[k].dirty = 0 /\ disk'.cluster[d] = Written(disk, k).cluster[d]
  <2>1. View(d) = fsb_t[k].buf /\ View(d)' = fsb_t[k].buf
    BY <1>3, ViewIs, ViewWillBe
  <2>2. \A j \in Buffers : fsb_t[j].cluster = d => j = k
    BY <1>1, <1>3 DEF BuffersOK
  <2>3. \A j \in Buffers : fsb_t'[j].cluster = d => j = k
    BY <1>1, <1>3 DEF BuffersOK
  <2>4. /\ Dirty(d) <=> fsb_t[k].dirty # 0
        /\ Dirty(d)' <=> fsb_t'[k].dirty # 0
    BY <1>3, <2>2, <2>3 DEF Dirty
  <2>5. Dirty(d) \in BOOLEAN /\ Dirty(d)' \in BOOLEAN
    BY DEF Dirty
  <2>6. Written(disk, k).cluster[d] = IF fsb_t[k].dirty # 0 THEN fsb_t[k].buf ELSE disk.cluster[d]
    BY <1>3, WrittenIs
  <2> QED BY <1>3, <2>1, <2>4, <2>5, <2>6 DEF Kept
<1>4. CASE /\ fsb_t[k].cluster = d
           /\ \A b \in Buffers : fsb_t[b].cluster # fsb_t'[k].cluster
           /\ disk'.cluster[d] = Written(disk, k).cluster[d]
  <2>1. View(d) = fsb_t[k].buf
    BY <1>4, ViewIs
  <2>2. \A j \in Buffers : fsb_t[j].cluster = d => j = k
    BY <1>1, <1>4 DEF BuffersOK
  <2>3. \A j \in Buffers : fsb_t'[j].cluster # d
    <3> TAKE j \in Buffers
    <3>1. CASE j = k
      BY <1>4, <3>1
    <3>2. CASE j # k
      BY <2>2, <3>2
    <3> QED BY <3>1, <3>2
  <2>4. View(d)' = disk'.cluster[d] /\ ~Dirty(d)'
    BY <2>3, ViewWillBe DEF Dirty
  <2>5. Dirty(d) <=> fsb_t[k].dirty # 0
    BY <1>4, <2>2 DEF Dirty
  <2>6. disk'.cluster[d] = IF fsb_t[k].dirty # 0 THEN fsb_t[k].buf ELSE disk.cluster[d]
    BY <1>4, WrittenIs
  <2>7. fsb_t[k].dirty = 0 =>
          /\ fsb_t[k].buf.slot = disk.cluster[d].slot /\ fsb_t[k].buf.link = disk.cluster[d].link
    BY <1>1, <1>4 DEF BuffersOK
  <2>8. Dirty(d) \in BOOLEAN /\ Dirty(d)' \in BOOLEAN
    BY DEF Dirty
  <2> QED BY <2>1, <2>4, <2>5, <2>6, <2>7, <2>8 DEF Kept
<1>5. CASE \A b \in Buffers : fsb_t[b].cluster # d
  <2>1. View(d) = disk.cluster[d] /\ ~Dirty(d)
    BY <1>5, ViewIs DEF Dirty
  <2>2. Written(disk, k).cluster[d] = disk.cluster[d]
    BY <1>5, WrittenIs
  <2>3. disk'.cluster[d] = disk.cluster[d]
    BY <2>2
  <2>4. CASE \A b \in Buffers : fsb_t'[b].cluster # d
    <3>1. View(d)' = disk'.cluster[d] /\ ~Dirty(d)'
      BY <2>4, ViewWillBe DEF Dirty
    <3>2. Dirty(d) \in BOOLEAN /\ Dirty(d)' \in BOOLEAN
      BY DEF Dirty
    <3> QED BY <2>1, <2>3, <3>1, <3>2 DEF Kept
  <2>5. CASE \E b \in Buffers : fsb_t'[b].cluster = d
    <3>1. fsb_t'[k].cluster = d
      BY <1>5, <2>5
    <3>2. fsb_t'[k].buf = disk.cluster[d] /\ fsb_t'[k].dirty = 0
      BY <1>5, <3>1
    <3>3. View(d)' = disk.cluster[d]
      BY <3>1, <3>2, ViewWillBe
    <3>4. ~Dirty(d)'
      BY <1>1, <3>1, <3>2 DEF Dirty, BuffersOK
    <3>5. Dirty(d) \in BOOLEAN /\ Dirty(d)' \in BOOLEAN
      BY DEF Dirty
    <3> QED BY <2>1, <2>3, <3>3, <3>4, <3>5 DEF Kept
  <2> QED BY <2>4, <2>5
<1> QED BY <1>2, <1>3, <1>4, <1>5

\* To look at a cluster changes no cluster.
LEMMA LookKeeps ==
  ASSUME BuffersType, BuffersOK, NEW c \in Clusters, NEW pri \in {FSBPRI_SYS, FSBPRI_USR},
         Look(c, pri)
  PROVE  BuffersWell /\ NoneDirtied /\ \A d \in Clusters : Kept(d)
<1> DEFINE g == FSBGet(c)
<1>1. disk' = g.disk /\ fsb_t' = [g.fsb EXCEPT ![g.b].pri = pri]
  BY DEF Look
<1>2. CASE g.fsb = fsb_t /\ g.disk = disk
  <2>1. g.b \in Buffers
    BY GetCases
  <2>2. disk' = disk /\ fsb_t' = [fsb_t EXCEPT ![g.b].pri = pri]
    BY <1>1, <1>2
  <2> HIDE DEF g
  <2>3. fsb_t' \in [Buffers -> BufferType]
    BY <2>1, <2>2 DEF BuffersType, BufferType
  <2>4. \A b \in Buffers : /\ fsb_t'[b].cluster = fsb_t[b].cluster /\ fsb_t'[b].buf = fsb_t[b].buf
                           /\ fsb_t'[b].dirty = fsb_t[b].dirty
    BY <2>1, <2>2 DEF BuffersType, BufferType
  <2>5. BuffersType' /\ BuffersOK'
    BY <2>2, <2>3, <2>4 DEF BuffersType, BuffersOK
  <2>6. \A b \in Buffers \ {g.b} : fsb_t'[b] = fsb_t[b]
    BY <2>1, <2>2 DEF BuffersType
  <2>7. ASSUME NEW d \in Clusters
        PROVE  Kept(d)
    BY <2>1, <2>2, <2>4, <2>5, <2>6, KeptByBuffers
  <2> QED BY <2>2, <2>4, <2>5, <2>7 DEF BuffersWell, NoneDirtied
<1>3. CASE /\ \A b \in Buffers : fsb_t[b].cluster # c
           /\ g.b = FSBNew /\ g.disk = Written(disk, FSBNew)
           /\ g.fsb = [fsb_t EXCEPT ![FSBNew].cluster = c, ![FSBNew].dirty = 0,
                                    ![FSBNew].buf = disk.cluster[c]]
  <2> DEFINE k == FSBNew
  <2>1. k \in Buffers
    BY NewIsBuffer DEF BuffersType
  <2>2. disk' = Written(disk, k) /\ \A b \in Buffers \ {k} : fsb_t'[b] = fsb_t[b]
    BY <1>1, <1>3, <2>1 DEF BuffersType
  <2>3. fsb_t'[k] = [cluster |-> c, dirty |-> 0, pri |-> pri, buf |-> disk.cluster[c]]
    <3>1. g.fsb = [fsb_t EXCEPT ![k].cluster = c, ![k].dirty = 0, ![k].buf = disk.cluster[c]]
          /\ g.b = k
      BY <1>3
    <3> HIDE DEF k, g
    <3>2. g.fsb[k] = [cluster |-> c, dirty |-> 0, pri |-> fsb_t[k].pri, buf |-> disk.cluster[c]]
      <4>1. fsb_t[k] \in BufferType
        BY <2>1 DEF BuffersType
      <4>2. g.fsb[k] = [fsb_t[k] EXCEPT !.cluster = c, !.dirty = 0, !.buf = disk.cluster[c]]
        BY <2>1, <3>1 DEF BuffersType
      <4> QED BY <4>1, <4>2 DEF BufferType
    <3>3. DOMAIN g.fsb = Buffers
      BY <3>1 DEF BuffersType
    <3>4. fsb_t'[k] = [g.fsb[k] EXCEPT !.pri = pri]
      BY <1>1, <2>1, <3>1, <3>3
    <3> QED BY <3>2, <3>4
  <2>4. DOMAIN fsb_t' = Buffers /\ fsb_t' = [b \in Buffers |-> fsb_t'[b]]
    BY <1>1, <1>3, <2>1 DEF BuffersType
  <2> HIDE DEF k, g
  <2>5. /\ disk'.fat = disk.fat /\ disk'.cluster \in [Clusters -> Parts]
        /\ disk' = [fat |-> disk'.fat, cluster |-> disk'.cluster]
    BY <2>1, <2>2, WrittenIs
  <2>6. disk.cluster[c] \in Parts
    BY DEF BuffersType
  <2>7. \A b \in Buffers : fsb_t'[b] \in BufferType
    BY <2>1, <2>2, <2>3, <2>6 DEF BuffersType, BufferType
  <2>8. BuffersType'
    BY <2>4, <2>5, <2>7 DEF BuffersType
  <2>9. \A d \in Clusters : disk'.cluster[d] =
          IF fsb_t[k].dirty # 0 /\ fsb_t[k].cluster = d THEN fsb_t[k].buf ELSE disk.cluster[d]
    BY <2>1, <2>2, WrittenIs
  <2>10. c # 0 /\ 0 \notin Clusters
    BY Numbered
  <2>11. BuffersOK'
    <3>1. \A b, j \in Buffers :
            fsb_t'[b].cluster # 0 /\ fsb_t'[b].cluster = fsb_t'[j].cluster => b = j
      BY <1>3, <2>1, <2>2, <2>3 DEF BuffersOK
    <3>2. ASSUME NEW b \in Buffers
          PROVE  IF fsb_t'[b].cluster = 0 THEN fsb_t'[b].dirty = 0
                 ELSE fsb_t'[b].dirty = 0 =>
                        /\ fsb_t'[b].buf.slot = disk'.cluster[fsb_t'[b].cluster].slot
                        /\ fsb_t'[b].buf.link = disk'.cluster[fsb_t'[b].cluster].link
      <4>1. CASE b = k
        BY <1>3, <2>1, <2>3, <2>9, <2>10, <4>1
      <4>2. CASE b # k
        <5>1. fsb_t'[b] = fsb_t[b] /\ fsb_t[b].cluster \in {0} \cup Clusters
          BY <2>2, <4>2 DEF BuffersType, BufferType
        <5>2. fsb_t[b].cluster # 0 =>
                disk'.cluster[fsb_t[b].cluster] = disk.cluster[fsb_t[b].cluster]
          BY <2>1, <2>9, <4>2, <5>1 DEF BuffersOK
        <5> QED BY <5>1, <5>2 DEF BuffersOK
      <4> QED BY <4>1, <4>2
    <3> QED BY <3>1, <3>2 DEF BuffersOK
  <2>12. ASSUME NEW d \in Clusters
         PROVE  Kept(d)
    <3>1. disk'.cluster[d] = Written(disk, k).cluster[d]
      BY <2>2
    <3>2. /\ \A b \in Buffers : fsb_t[b].cluster # fsb_t'[k].cluster
          /\ fsb_t'[k].cluster = d => fsb_t'[k].buf = disk.cluster[d] /\ fsb_t'[k].dirty = 0
      BY <1>3, <2>3
    <3> QED BY <2>1, <2>2, <2>8, <2>11, <3>1, <3>2, KeptByBuffers
  <2>13. NoneDirtied
    BY <2>2, <2>3 DEF NoneDirtied
  <2> QED BY <2>5, <2>8, <2>11, <2>12, <2>13 DEF BuffersWell
<1> QED BY <1>2, <1>3, GetCases

\* The dirty buffers after a change: the changed one, and some that were so before.
OneDirtied(c, dirty) ==
  \A b \in Buffers : fsb_t'[b].dirty # 0 =>
    \/ fsb_t'[b].cluster = c /\ fsb_t'[b].dirty = dirty
    \/ fsb_t'[b].dirty = fsb_t[b].dirty /\ fsb_t'[b].cluster = fsb_t[b].cluster

\* To change a cluster changes it in its buffer, and no other cluster.
LEMMA ChangeIs ==
  ASSUME BuffersType, BuffersOK, NEW c \in Clusters, NEW pri \in {FSBPRI_SYS, FSBPRI_USR},
         NEW dirty \in {FSBDIRTY_SYS, FSBDIRTY_USR}, NEW new \in Parts,
         Change(c, pri, dirty, new)
  PROVE  /\ BuffersWell /\ OneDirtied(c, dirty)
         /\ \A d \in Clusters \ {c} : Kept(d)
         /\ View(c)' = new /\ Dirty(c)' /\ disk'.cluster[c] = disk.cluster[c]
<1> DEFINE g == FSBGet(c)
           k == g.b
<1>1. disk' = g.disk
      /\ fsb_t' = [g.fsb EXCEPT ![k].pri = pri, ![k].dirty = dirty, ![k].buf = new]
  BY DEF Change
<1>2. k \in Buffers
  BY GetCases
<1>3. /\ \A b \in Buffers \ {k} : fsb_t'[b] = fsb_t[b]
      /\ fsb_t'[k] = [cluster |-> c, dirty |-> dirty, pri |-> pri, buf |-> new]
      /\ fsb_t' = [b \in Buffers |-> fsb_t'[b]]
      /\ \/ disk' = disk /\ fsb_t[k].cluster = c
         \/ disk' = Written(disk, k) /\ \A b \in Buffers : fsb_t[b].cluster # c
  <2>1. CASE g.fsb = fsb_t /\ g.disk = disk
    <3>1. fsb_t[k].cluster = c
      BY <2>1, GetCases
    <3>2. fsb_t' = [fsb_t EXCEPT ![k].pri = pri, ![k].dirty = dirty, ![k].buf = new]
      BY <1>1, <2>1
    <3>3. disk' = disk
      BY <1>1, <2>1
    <3> HIDE DEF k, g
    <3> QED BY <1>2, <3>1, <3>2, <3>3 DEF BuffersType, BufferType
  <2>2. CASE /\ \A b \in Buffers : fsb_t[b].cluster # c
             /\ k = FSBNew /\ g.disk = Written(disk, FSBNew)
             /\ g.fsb = [fsb_t EXCEPT ![FSBNew].cluster = c, ![FSBNew].dirty = 0,
                                      ![FSBNew].buf = disk.cluster[c]]
    <3>1. g.fsb = [fsb_t EXCEPT ![k].cluster = c, ![k].dirty = 0, ![k].buf = disk.cluster[c]]
          /\ disk' = Written(disk, k)
      BY <1>1, <2>2
    <3>2. fsb_t' = [fsb_t EXCEPT ![k] = [cluster |-> c, dirty |-> dirty, pri |-> pri, buf |-> new]]
      BY <1>1, <1>2, <3>1, SMTT(20) DEF BuffersType, BufferType
    <3> HIDE DEF k, g
    <3> QED BY <1>2, <2>2, <3>1, <3>2 DEF BuffersType
  <2> QED BY <2>1, <2>2, GetCases
<1> HIDE DEF k, g
<1>4. /\ disk'.fat = disk.fat /\ disk'.cluster \in [Clusters -> Parts]
      /\ disk' = [fat |-> disk'.fat, cluster |-> disk'.cluster]
  BY <1>2, <1>3, WrittenIs DEF BuffersType
<1>5. BuffersType'
  <2>1. \A b \in Buffers : fsb_t'[b] \in BufferType
    BY <1>3 DEF BuffersType, BufferType
  <2> QED BY <1>3, <1>4, <2>1 DEF BuffersType
<1>6. \A d \in Clusters : disk'.cluster[d] =
        IF disk' # disk /\ fsb_t[k].dirty # 0 /\ fsb_t[k].cluster = d THEN fsb_t[k].buf
        ELSE disk.cluster[d]
  BY <1>2, <1>3, WrittenIs
<1>7. c # 0 /\ 0 \notin Clusters /\ dirty # 0
  BY Numbered
<1>8. ASSUME NEW b \in Buffers \ {k}
      PROVE  fsb_t[b].cluster # c
  BY <1>2, <1>3, <1>7 DEF BuffersOK
<1>9. BuffersOK'
  <2>1. \A b, j \in Buffers :
          fsb_t'[b].cluster # 0 /\ fsb_t'[b].cluster = fsb_t'[j].cluster => b = j
    BY <1>3, <1>8 DEF BuffersOK
  <2>2. ASSUME NEW b \in Buffers
        PROVE  IF fsb_t'[b].cluster = 0 THEN fsb_t'[b].dirty = 0
               ELSE fsb_t'[b].dirty = 0 =>
                      /\ fsb_t'[b].buf.slot = disk'.cluster[fsb_t'[b].cluster].slot
                      /\ fsb_t'[b].buf.link = disk'.cluster[fsb_t'[b].cluster].link
    <3>1. CASE b = k
      BY <1>3, <1>7, <3>1
    <3>2. CASE b # k
      <4>1. fsb_t'[b] = fsb_t[b] /\ fsb_t[b].cluster \in {0} \cup Clusters
        BY <1>3, <3>2 DEF BuffersType, BufferType
      <4>2. fsb_t[b].cluster # 0 => disk'.cluster[fsb_t[b].cluster] = disk.cluster[fsb_t[b].cluster]
        BY <1>2, <1>6, <3>2, <4>1 DEF BuffersOK
      <4> QED BY <4>1, <4>2 DEF BuffersOK
    <3> QED BY <3>1, <3>2
  <2> QED BY <2>1, <2>2 DEF BuffersOK
<1>10. ASSUME NEW d \in Clusters \ {c}
       PROVE  Kept(d)
  <2>1. CASE disk' = disk /\ fsb_t[k].cluster = c
    <3>1. \A b \in Buffers : fsb_t'[b].cluster = fsb_t[b].cluster
      BY <1>3, <2>1
    <3>2. \A b \in Buffers : fsb_t[b].cluster = d => b # k
      BY <2>1
    <3>3. Dirty(d)' = Dirty(d)
      BY <1>3, <3>1, <3>2 DEF Dirty
    <3>4. View(d)' = View(d)
      <4>1. CASE \E b \in Buffers : fsb_t[b].cluster = d
        <5>1. PICK b \in Buffers : fsb_t[b].cluster = d
          BY <4>1
        <5>2. fsb_t'[b] = fsb_t[b]
          BY <1>3, <3>2, <5>1
        <5> QED BY <1>9, <5>1, <5>2, ViewIs, ViewWillBe
      <4>2. CASE \A b \in Buffers : fsb_t[b].cluster # d
        BY <1>9, <2>1, <3>1, <4>2, ViewIs, ViewWillBe
      <4> QED BY <4>1, <4>2
    <3> QED BY <2>1, <3>3, <3>4 DEF Kept
  <2>2. CASE disk' = Written(disk, k) /\ \A b \in Buffers : fsb_t[b].cluster # c
    <3>1. disk'.cluster[d] = Written(disk, k).cluster[d]
      BY <2>2
    <3>2. /\ \A b \in Buffers : fsb_t[b].cluster # fsb_t'[k].cluster
          /\ fsb_t'[k].cluster # d
      BY <1>3, <2>2
    <3> QED BY <1>2, <1>3, <1>5, <1>9, <3>1, <3>2, KeptByBuffers
  <2> QED BY <1>3, <2>1, <2>2
<1>11. View(c)' = new
  BY <1>2, <1>3, <1>9, ViewWillBe
<1>12. Dirty(c)'
  BY <1>2, <1>3, <1>7 DEF Dirty
<1>13. disk'.cluster[c] = disk.cluster[c]
  BY <1>2, <1>3, <1>6
<1>14. OneDirtied(c, dirty)
  BY <1>3 DEF OneDirtied
<1> QED BY <1>4, <1>5, <1>9, <1>10, <1>11, <1>12, <1>13, <1>14 DEF BuffersWell

\* To write a dirty buffer changes no cluster.
LEMMA FlushKeeps ==
  ASSUME BuffersType, BuffersOK, NEW k \in Buffers, fsb_t[k].dirty # 0,
         disk' = Written(disk, k), fsb_t' = [fsb_t EXCEPT ![k].dirty = 0]
  PROVE  BuffersWell /\ NoneDirtied /\ \A d \in Clusters : Kept(d)
<1>1. /\ fsb_t' = [b \in Buffers |-> fsb_t'[b]]
      /\ \A b \in Buffers \ {k} : fsb_t'[b] = fsb_t[b]
      /\ \A b \in Buffers : fsb_t'[b].cluster = fsb_t[b].cluster /\ fsb_t'[b].buf = fsb_t[b].buf
      /\ fsb_t'[k].dirty = 0
      /\ \A b \in Buffers : fsb_t'[b] \in BufferType
  BY DEF BuffersType, BufferType
<1>2. /\ disk'.fat = disk.fat /\ disk'.cluster \in [Clusters -> Parts]
      /\ disk' = [fat |-> disk'.fat, cluster |-> disk'.cluster]
  BY WrittenIs
<1>3. BuffersType'
  BY <1>1, <1>2 DEF BuffersType
<1>4. \A d \in Clusters : disk'.cluster[d] =
        IF fsb_t[k].cluster = d THEN fsb_t[k].buf ELSE disk.cluster[d]
  BY WrittenIs
<1>5. BuffersOK'
  <2>1. \A b, j \in Buffers :
          fsb_t'[b].cluster # 0 /\ fsb_t'[b].cluster = fsb_t'[j].cluster => b = j
    BY <1>1 DEF BuffersOK
  <2>2. ASSUME NEW b \in Buffers
        PROVE  IF fsb_t'[b].cluster = 0 THEN fsb_t'[b].dirty = 0
               ELSE fsb_t'[b].dirty = 0 =>
                      /\ fsb_t'[b].buf.slot = disk'.cluster[fsb_t'[b].cluster].slot
                      /\ fsb_t'[b].buf.link = disk'.cluster[fsb_t'[b].cluster].link
    <3>1. fsb_t[b].cluster \in {0} \cup Clusters
      BY DEF BuffersType, BufferType
    <3>2. CASE b = k
      BY <1>1, <1>4, <3>1, <3>2
    <3>3. CASE b # k
      <4>1. fsb_t[b].cluster # 0 => fsb_t[k].cluster # fsb_t[b].cluster
        BY <3>3 DEF BuffersOK
      <4> QED BY <1>1, <1>4, <3>1, <3>3, <4>1 DEF BuffersOK
    <3> QED BY <3>2, <3>3
  <2> QED BY <2>1, <2>2 DEF BuffersOK
<1>6. ASSUME NEW d \in Clusters
      PROVE  Kept(d)
  <2>1. disk'.cluster[d] = Written(disk, k).cluster[d]
    OBVIOUS
  <2> QED BY <1>1, <1>3, <1>5, <2>1, KeptByBuffers
<1>7. NoneDirtied
  BY <1>1 DEF NoneDirtied
<1> QED BY <1>2, <1>3, <1>5, <1>6, <1>7 DEF BuffersWell

\* A step that touches neither the buffers nor a cluster of the disk.
LEMMA StillKeeps ==
  ASSUME BuffersType, BuffersOK, fsb_t' = fsb_t, disk'.cluster = disk.cluster,
         disk' = [fat |-> disk'.fat, cluster |-> disk'.cluster]
  PROVE  BuffersType' /\ BuffersOK' /\ NoneDirtied /\ \A d \in Clusters : Kept(d)
<1>1. BuffersType' /\ BuffersOK'
  BY DEF BuffersType, BuffersOK
<1>2. NoneDirtied
  BY DEF NoneDirtied
<1>3. ASSUME NEW d \in Clusters
      PROVE  Kept(d)
  <2>1. View(d)' = View(d) /\ Dirty(d)' = Dirty(d)
    BY DEF View, Dirty
  <2> QED BY <2>1 DEF Kept
<1> QED BY <1>1, <1>2, <1>3

\* When no buffer is dirty the buffers may be emptied: the disk has it all.
LEMMA EmptyKeeps ==
  ASSUME BuffersType, BuffersOK, \A b \in Buffers : fsb_t[b].dirty = 0,
         fsb_t' = EmptyBuffers, disk' = disk
  PROVE  BuffersWell /\ NoneDirtied /\ \A d \in Clusters : Kept(d)
<1>1. \A b \in Buffers : fsb_t'[b] = [cluster |-> 0, dirty |-> 0, pri |-> 0, buf |-> Blank]
  BY DEF EmptyBuffers
<1>2. Blank \in Parts
  BY Numbered, Sizes DEF Blank, Parts, NoEntry, Words
<1>3. fsb_t' \in [Buffers -> BufferType]
  <2>1. \A b \in Buffers : fsb_t'[b] \in BufferType
    BY <1>1, <1>2 DEF BufferType
  <2> QED BY <2>1 DEF EmptyBuffers
<1>4. BuffersType' /\ BuffersOK'
  BY <1>1, <1>3 DEF BuffersType, BuffersOK
<1>5. ASSUME NEW d \in Clusters
      PROVE  Kept(d)
  <2>1. \A b \in Buffers : fsb_t'[b].cluster # d
    BY <1>1, Numbered
  <2>2. View(d)' = disk.cluster[d] /\ ~Dirty(d)' /\ ~Dirty(d)
    BY <1>4, <2>1, ViewWillBe DEF Dirty
  <2>3. View(d).slot = disk.cluster[d].slot /\ View(d).link = disk.cluster[d].link
    <3>1. CASE \E b \in Buffers : fsb_t[b].cluster = d
      <4>1. PICK b \in Buffers : fsb_t[b].cluster = d
        BY <3>1
      <4>2. View(d) = fsb_t[b].buf /\ d # 0
        BY <4>1, ViewIs, Numbered
      <4> QED BY <4>1, <4>2 DEF BuffersOK
    <3>2. CASE \A b \in Buffers : fsb_t[b].cluster # d
      BY <3>2, ViewIs
    <3> QED BY <3>1, <3>2
  <2>4. Dirty(d) \in BOOLEAN /\ Dirty(d)' \in BOOLEAN
    BY DEF Dirty
  <2> QED BY <2>2, <2>3, <2>4 DEF Kept
<1>6. NoneDirtied
  BY <1>1 DEF NoneDirtied
<1> QED BY <1>4, <1>5, <1>6 DEF BuffersWell

-----------------------------------------------------------------------------
(***************************************************************************)
(* The table and its buffer.  In these lemmas m is a disk with a buffer.   *)
(***************************************************************************)

\* From m to k no mark is changed, and no cluster; the disk's table may have been written.
FatStill(m, k) ==
  /\ k.disk.cluster = m.disk.cluster /\ Mark(k) = Mark(m)
  /\ k.fat.dirty => m.fat.dirty
  /\ \A d \in Clusters : k.disk.fat[d] \in {m.disk.fat[d], Mark(m)[d]}

\* The window of the buffer.
LEMMA WindowIs ==
  ASSUME NEW m, FatGood(m), NEW c \in Clusters
  PROVE  /\ InWindow(m.fat, c) <=> m.fat.first # 0 /\ c \in DOMAIN m.fat.buf
         /\ m.fat.first # 0 => DOMAIN m.fat.buf = Window(m.fat.first)
         /\ InWindow(m.fat, c) \in BOOLEAN
BY DEF FatGood, InWindow, Window

\* The marks are marks.
LEMMA MarkType ==
  ASSUME NEW m, FatGood(m)
  PROVE  Mark(m) \in [Clusters -> Marks]
<1>1. ASSUME NEW c \in Clusters
      PROVE  (IF InWindow(m.fat, c) THEN m.fat.buf[c] ELSE m.disk.fat[c]) \in Marks
  <2>1. m.disk.fat[c] \in Marks
    BY DEF FatGood, DiskType
  <2>2. InWindow(m.fat, c) => m.fat.buf[c] \in Marks
    BY WindowIs DEF FatGood
  <2> QED BY <2>1, <2>2
<1> QED BY <1>1 DEF Mark

\* To write the buffer puts on the disk the marks that are seen.
LEMMA FatFlushedIs ==
  ASSUME NEW m, FatGood(m)
  PROVE  LET d == FatFlushed(m.fat, m.disk)
         IN  /\ d \in DiskType /\ d.cluster = m.disk.cluster
             /\ \A c \in Clusters : d.fat[c] \in {m.disk.fat[c], Mark(m)[c]}
             /\ \A c \in Clusters : InWindow(m.fat, c) => d.fat[c] = m.fat.buf[c]
             /\ m.fat.dirty => d.fat = Mark(m)
<1> DEFINE d == FatFlushed(m.fat, m.disk)
<1>1. m.disk \in DiskType /\ Mark(m) \in [Clusters -> Marks]
  BY MarkType DEF FatGood
<1>2. CASE ~m.fat.dirty
  <2>1. d = m.disk
    BY <1>2 DEF FatFlushed
  <2>2. \A c \in Clusters : InWindow(m.fat, c) => m.disk.fat[c] = m.fat.buf[c]
    BY <1>2 DEF FatGood
  <2> QED BY <1>1, <1>2, <2>1, <2>2
<1>3. CASE m.fat.dirty
  <2>1. d = [m.disk EXCEPT !.fat = Mark(m)]
    BY <1>3 DEF FatFlushed, Mark
  <2>2. d \in DiskType /\ d.cluster = m.disk.cluster /\ d.fat = Mark(m)
    BY <1>1, <2>1 DEF DiskType
  <2>3. \A c \in Clusters : InWindow(m.fat, c) => Mark(m)[c] = m.fat.buf[c]
    BY DEF Mark
  <2> QED BY <2>2, <2>3
<1> QED BY <1>2, <1>3

\* To load another window of the table changes no mark.
LEMMA LoadKeeps ==
  ASSUME NEW m, FatGood(m), NEW first \in Clusters
  PROVE  LET k == LoadWindow(m, first)
         IN  FatGood(k) /\ FatStill(m, k) /\ k.fat.first = first /\ ~k.fat.dirty
<1> DEFINE d == FatFlushed(m.fat, m.disk)
           k == LoadWindow(m, first)
<1>1. k = [disk |-> d, fat |-> [first |-> first, dirty |-> FALSE,
                                buf |-> [c \in Window(first) |-> d.fat[c]]]]
  BY DEF LoadWindow
<1>2. /\ d \in DiskType /\ d.cluster = m.disk.cluster
      /\ \A c \in Clusters : d.fat[c] \in {m.disk.fat[c], Mark(m)[c]}
      /\ \A c \in Clusters : InWindow(m.fat, c) => d.fat[c] = m.fat.buf[c]
      /\ m.fat.dirty => d.fat = Mark(m)
  BY FatFlushedIs
<1> HIDE DEF d, k
<1>3. first # 0 /\ Window(first) \subseteq Clusters
  BY Numbered DEF Window
<1>4. /\ k.disk = d /\ k.fat.first = first /\ k.fat.dirty = FALSE
      /\ k.fat.buf = [c \in Window(first) |-> d.fat[c]]
      /\ k.fat = [first |-> k.fat.first, dirty |-> k.fat.dirty, buf |-> k.fat.buf]
      /\ k = [disk |-> k.disk, fat |-> k.fat]
  BY <1>1
<1>5. \A c \in Clusters : InWindow(k.fat, c) => c \in Window(first)
  BY <1>3, <1>4 DEF InWindow, Window
<1>6. \A c \in Clusters : InWindow(k.fat, c) => k.fat.buf[c] = d.fat[c]
  BY <1>4, <1>5
<1>7. k.fat.buf \in [Window(first) -> Marks]
  BY <1>2, <1>3, <1>4 DEF DiskType
<1>8. FatGood(k)
  BY <1>2, <1>3, <1>4, <1>6, <1>7 DEF FatGood
<1>9. ASSUME NEW c \in Clusters
      PROVE  Mark(k)[c] = Mark(m)[c]
  <2>1. Mark(k)[c] = d.fat[c]
    BY <1>4, <1>6 DEF Mark
  <2>2. Mark(m)[c] = IF InWindow(m.fat, c) THEN m.fat.buf[c] ELSE m.disk.fat[c]
    BY DEF Mark
  <2> QED BY <1>2, <2>1, <2>2
<1>10. Mark(k) = Mark(m)
  BY <1>9 DEF Mark
<1>11. FatGood(k) /\ FatStill(m, k) /\ k.fat.first = first /\ ~k.fat.dirty
  BY <1>2, <1>4, <1>8, <1>10 DEF FatStill
<1> QED BY <1>11 DEF k

\* The window that FSBFATGet loads for a cluster holds it.
LEMMA WindowHolds ==
  ASSUME NEW c \in Nat, c >= 3
  PROVE  /\ WindowStart(c) \in Nat /\ WindowStart(c) >= 3 /\ WindowStart(c) <= c
         /\ c <= WindowStart(c) + FAT_WINDOW - 1
<1> DEFINE q == (c - 3) \div FAT_SECTOR
<1>1. FAT_SECTOR \in Nat /\ FAT_SECTOR > 0 /\ FAT_WINDOW \in Nat /\ FAT_SECTOR <= FAT_WINDOW
  BY Sizes
<1>2. q \in Nat /\ q * FAT_SECTOR <= c - 3 /\ c - 3 < q * FAT_SECTOR + FAT_SECTOR
      /\ q * FAT_SECTOR \in Nat
  BY <1>1
<1>3. WindowStart(c) = 3 + q * FAT_SECTOR
  BY DEF WindowStart
<1> HIDE DEF q
<1> DEFINE p == q * FAT_SECTOR
<1>4. p \in Nat /\ p <= c - 3 /\ c - 3 < p + FAT_SECTOR /\ WindowStart(c) = 3 + p
  BY <1>2, <1>3
<1> HIDE DEF p
<1> QED BY <1>1, <1>4

\* FSBFATGet changes no mark, and its window holds the cluster.
LEMMA FatGetKeeps ==
  ASSUME NEW m, FatGood(m), NEW c \in Clusters
  PROVE  LET k == FSBFATGet(m, c)
         IN  FatGood(k) /\ FatStill(m, k) /\ InWindow(k.fat, c)
<1>1. CASE InWindow(m.fat, c)
  <2>1. FSBFATGet(m, c) = m
    BY <1>1 DEF FSBFATGet
  <2> QED BY <1>1, <2>1 DEF FatStill, FatGood
<1>2. CASE ~InWindow(m.fat, c)
  <2>1. FSBFATGet(m, c) = LoadWindow(m, WindowStart(c))
    BY <1>2 DEF FSBFATGet
  <2>2. /\ WindowStart(c) \in Nat /\ WindowStart(c) >= 3 /\ WindowStart(c) <= c
        /\ c <= WindowStart(c) + FAT_WINDOW - 1 /\ c \in Nat
    BY WindowHolds, Numbered
  <2>3. WindowStart(c) \in Clusters
    BY <2>2, Numbered, Sizes
  <2>4. FatGood(LoadWindow(m, WindowStart(c))) /\ FatStill(m, LoadWindow(m, WindowStart(c)))
        /\ LoadWindow(m, WindowStart(c)).fat.first = WindowStart(c)
    BY <2>3, LoadKeeps
  <2>5. InWindow(LoadWindow(m, WindowStart(c)).fat, c)
    BY <2>2, <2>4, Sizes DEF InWindow
  <2> QED BY <2>1, <2>4, <2>5
<1> QED BY <1>1, <1>2


\* FATValue gives the mark that is seen.
LEMMA ValueIs ==
  ASSUME NEW m, FatGood(m), NEW c \in Clusters
  PROVE  FATValue(m, c) = Mark(m)[c]
<1> DEFINE k == FSBFATGet(m, c)
<1>1. FatStill(m, k) /\ InWindow(k.fat, c)
  BY FatGetKeeps
<1>2. Mark(k)[c] = k.fat.buf[c]
  BY <1>1 DEF Mark
<1> QED BY <1>1, <1>2 DEF FATValue, FatStill

\* From m to k one mark is changed, and no cluster.
FatMarked(m, k, c, mark) ==
  /\ k.disk.cluster = m.disk.cluster /\ Mark(k) = [Mark(m) EXCEPT ![c] = mark]
  /\ \A d \in Clusters : k.disk.fat[d] \in {m.disk.fat[d], Mark(m)[d]}

\* To put a mark into the buffer of its window.
LEMMA PutMark ==
  ASSUME NEW m, FatGood(m), NEW c \in Clusters, InWindow(m.fat, c), NEW mark \in Marks
  PROVE  LET k == [m EXCEPT !.fat.buf[c] = mark, !.fat.dirty = TRUE]
         IN  FatGood(k) /\ FatMarked(m, k, c, mark)
<1> DEFINE k == [m EXCEPT !.fat.buf[c] = mark, !.fat.dirty = TRUE]
<1>1. /\ m = [disk |-> m.disk, fat |-> m.fat]
      /\ m.fat = [first |-> m.fat.first, dirty |-> m.fat.dirty, buf |-> m.fat.buf]
  BY DEF FatGood
<1>2. k = [disk |-> m.disk, fat |-> [first |-> m.fat.first, dirty |-> TRUE,
                                     buf |-> [m.fat.buf EXCEPT ![c] = mark]]]
  <2> DEFINE d == m.disk
             first == m.fat.first
             dirty == m.fat.dirty
             buf == m.fat.buf
  <2>1. m = [disk |-> d, fat |-> [first |-> first, dirty |-> dirty, buf |-> buf]]
    BY <1>1
  <2> HIDE DEF d, first, dirty, buf
  <2> DEFINE l == [m EXCEPT !.fat.buf[c] = mark]
             t == TRUE
             new == [buf EXCEPT ![c] = mark]
  <2>2. l = [disk |-> d, fat |-> [first |-> first, dirty |-> dirty, buf |-> new]]
    BY <2>1
  <2> HIDE DEF t
  <2>3. [m EXCEPT !.fat.buf[c] = mark, !.fat.dirty = t] = [l EXCEPT !.fat.dirty = t]
    BY <2>1
  <2> HIDE DEF l, new
  <2>4. [l EXCEPT !.fat.dirty = t]
          = [disk |-> d, fat |-> [first |-> first, dirty |-> t, buf |-> new]]
    BY <2>2
  <2> QED BY <2>3, <2>4 DEF d, first, dirty, buf, t, new
<1> HIDE DEF k
<1>3. /\ k.disk = m.disk /\ k.fat.first = m.fat.first /\ k.fat.dirty = TRUE
      /\ k.fat.buf = [m.fat.buf EXCEPT ![c] = mark]
      /\ k = [disk |-> k.disk, fat |-> k.fat]
      /\ k.fat = [first |-> k.fat.first, dirty |-> k.fat.dirty, buf |-> k.fat.buf]
  BY <1>2
<1>4. m.fat.first # 0 /\ DOMAIN m.fat.buf = Window(m.fat.first)
      /\ m.fat.buf \in [Window(m.fat.first) -> Marks] /\ c \in Window(m.fat.first)
  BY WindowIs DEF FatGood, InWindow, Window
<1>5. FatGood(k)
  <2>1. m.disk \in DiskType /\ m.fat.first \in {0} \cup Clusters
    BY DEF FatGood
  <2>2. k.fat.buf \in [Window(k.fat.first) -> Marks]
    BY <1>3, <1>4
  <2> QED BY <1>3, <1>4, <2>1, <2>2 DEF FatGood
<1>6. \A d \in Clusters : InWindow(k.fat, d) = InWindow(m.fat, d)
  BY <1>3 DEF InWindow
<1>7. \A d \in Clusters : InWindow(m.fat, d) =>
        k.fat.buf[d] = IF d = c THEN mark ELSE m.fat.buf[d]
  BY <1>3, <1>4, WindowIs
<1>8. Mark(k) = [Mark(m) EXCEPT ![c] = mark]
  <2>1. \A d \in Clusters : (IF InWindow(k.fat, d) THEN k.fat.buf[d] ELSE k.disk.fat[d])
          = IF d = c THEN mark ELSE Mark(m)[d]
    BY <1>3, <1>6, <1>7 DEF Mark
  <2> QED BY <2>1 DEF Mark
<1>9. FatMarked(m, k, c, mark)
  BY <1>3, <1>8 DEF FatMarked
<1> QED BY <1>5, <1>9 DEF k

\* A change after steps that change nothing.
LEMMA MarkedAfter ==
  ASSUME NEW m, NEW l, NEW k, NEW c, NEW mark, FatStill(m, l), FatMarked(l, k, c, mark)
  PROVE  FatMarked(m, k, c, mark)
BY DEF FatStill, FatMarked

\* FATMark changes one mark.
LEMMA MarkIs ==
  ASSUME NEW m, FatGood(m), NEW c \in Clusters, NEW mark \in Marks
  PROVE  FatGood(FATMark(m, c, mark)) /\ FatMarked(m, FATMark(m, c, mark), c, mark)
<1> DEFINE l == FSBFATGet(m, c)
<1>1. FatGood(l) /\ FatStill(m, l) /\ InWindow(l.fat, c)
  BY FatGetKeeps
<1>2. FATMark(m, c, mark) = [l EXCEPT !.fat.buf[c] = mark, !.fat.dirty = TRUE]
  BY DEF FATMark
<1> DEFINE k == [l EXCEPT !.fat.buf[c] = mark, !.fat.dirty = TRUE]
<1> HIDE DEF l
<1>3. FatGood(k) /\ FatMarked(l, k, c, mark)
  BY <1>1, PutMark
<1> HIDE DEF k
<1>4. FatMarked(m, k, c, mark)
  BY <1>1, <1>3, MarkedAfter
<1> QED BY <1>2, <1>3, <1>4 DEF k

\* FATAlloc finds an unused cluster and marks it as the end of a chain.
LEMMA AllocIs ==
  ASSUME FatGood(Fat), fatAllocNext \in CLUSTER_FIRST_USER .. LastCluster + 1, Unallocated # {}
  PROVE  /\ FATAlloc.c \in Clusters /\ Table[FATAlloc.c] = CLUSTER_UNUSED
         /\ FatGood(FATAlloc.m) /\ FatMarked(Fat, FATAlloc.m, FATAlloc.c, CLUSTER_CHAIN_END)
<1> DEFINE w == SearchWindow
           c == Min(Unallocated)
           q == (c - w) \div FAT_WINDOW
           first == w + FAT_WINDOW * q
           l == IF first = fatbuf.first THEN Fat ELSE LoadWindow(Fat, first)
<1>1. c \in Unallocated
  <2>1. Unallocated \subseteq Nat
    BY Numbered DEF Unallocated
  <2> QED BY <2>1, MinIsLeast
<1>2. /\ c \in Clusters /\ Table[c] = CLUSTER_UNUSED
      /\ c >= fatAllocNext - ((fatAllocNext - w) % 2)
  BY <1>1 DEF Unallocated, Table
<1>3. w \in Nat /\ 3 <= w /\ w <= fatAllocNext
  <2>1. CASE InWindow(fatbuf, fatAllocNext)
    BY <2>1, Numbered, Sizes DEF SearchWindow, InWindow, FatGood, Fat
  <2>2. CASE ~InWindow(fatbuf, fatAllocNext)
    BY <2>2, WindowHolds, Sizes DEF SearchWindow
  <2> QED BY <2>1, <2>2
<1> HIDE DEF w, c
<1>4. c \in Nat /\ w <= c /\ c <= LastCluster
  BY <1>2, <1>3, Sizes, Numbered
<1>5. /\ q \in Nat /\ FAT_WINDOW * q \in Nat
      /\ FAT_WINDOW * q <= c - w /\ c - w < FAT_WINDOW * q + FAT_WINDOW
  BY <1>3, <1>4, Sizes
<1> HIDE DEF q
<1>6. first \in Nat /\ 3 <= first /\ first <= c /\ c <= first + FAT_WINDOW - 1
  <2> DEFINE p == FAT_WINDOW * q
  <2>1. p \in Nat /\ p <= c - w /\ c - w < p + FAT_WINDOW /\ first = w + p
    BY <1>5
  <2> HIDE DEF p, first
  <2> QED BY <2>1, <1>3, <1>4, Sizes
<1> HIDE DEF first
<1>7. first \in Clusters
  BY <1>4, <1>6, Numbered, Sizes
<1>8. FatGood(l) /\ FatStill(Fat, l) /\ InWindow(l.fat, c)
  <2>1. CASE first = fatbuf.first
    <3>1. l = Fat
      BY <2>1
    <3>2. FatStill(Fat, Fat)
      BY DEF FatStill
    <3>3. InWindow(Fat.fat, c)
      BY <1>4, <1>6, <2>1, Sizes DEF InWindow, Fat
    <3> HIDE DEF l
    <3> QED BY <3>1, <3>2, <3>3
  <2>2. CASE first # fatbuf.first
    <3>1. l = LoadWindow(Fat, first)
      BY <2>2
    <3>2. FatGood(l) /\ FatStill(Fat, l) /\ l.fat.first = first
      BY <1>7, <3>1, LoadKeeps
    <3> HIDE DEF l
    <3> QED BY <1>4, <1>6, <3>2, Sizes DEF InWindow
  <2> QED BY <2>1, <2>2
<1>9. FATAlloc = [c |-> c, m |-> [l EXCEPT !.fat.buf[c] = CLUSTER_CHAIN_END, !.fat.dirty = TRUE]]
  BY DEF FATAlloc, c, w, first, q
<1> HIDE DEF l
<1>10. /\ FATAlloc.c = c
       /\ FATAlloc.m = [l EXCEPT !.fat.buf[c] = CLUSTER_CHAIN_END, !.fat.dirty = TRUE]
  BY <1>9
<1>11. CLUSTER_CHAIN_END \in Marks
  BY DEF Marks
<1> DEFINE k == [l EXCEPT !.fat.buf[c] = CLUSTER_CHAIN_END, !.fat.dirty = TRUE]
<1>12. FatGood(k) /\ FatMarked(l, k, c, CLUSTER_CHAIN_END)
  BY <1>2, <1>8, <1>11, PutMark
<1> HIDE DEF k
<1>13. FatMarked(Fat, k, c, CLUSTER_CHAIN_END)
  BY <1>8, <1>12, MarkedAfter
<1> QED BY <1>2, <1>10, <1>12, <1>13 DEF k

\* The table after a step that sets it to k.
LEMMA SetFatIs ==
  ASSUME NEW k, FatGood(k), SetFat(k)
  PROVE  FatGood(Fat)' /\ Table' = Mark(k) /\ disk' = k.disk /\ disk' \in DiskType
<1>1. Fat' = k
  BY DEF FatGood, SetFat, Fat
<1>2. disk' = k.disk /\ disk' \in DiskType
  BY DEF SetFat, FatGood
<1> QED BY <1>1, <1>2 DEF FatGood, Table, Mark, InWindow


-----------------------------------------------------------------------------
(***************************************************************************)
(* What a step leaves.                                                     *)
(***************************************************************************)

\* The parts of the types that the lemmas above take.
LEMMA TypesOf ==
  ASSUME TypeInv
  PROVE  /\ BuffersType /\ FatGood(Fat) /\ disk \in DiskType
         /\ disk.fat \in [Clusters -> Marks] /\ Table \in [Clusters -> Marks]
<1>1. disk \in DiskType
  BY DEF TypeInv, FatGood, Fat
<1>2. Table \in [Clusters -> Marks]
  BY MarkType DEF TypeInv, Table
<1> QED BY <1>1, <1>2 DEF TypeInv, BuffersType, DiskType

\* Nothing that the code sees in a cluster is changed.
Still == BuffersType' /\ BuffersOK' /\ NoneDirtied /\ \A d \in Clusters : Kept(d)

\* The table is as it was, or one mark of it is changed.
FatStep == FatGood(Fat)' /\ \A d \in Clusters : disk'.fat[d] \in {disk.fat[d], Table[d]}
FatQuiet == FatStep /\ Table' = Table /\ (fatbuf'.dirty => fatbuf.dirty)
Quiet == Still /\ FatQuiet

\* The table does not change with the buffers.
LEMMA TableStill ==
  ASSUME TypeInv, fatbuf' = fatbuf, disk'.fat = disk.fat, disk' \in DiskType
  PROVE  FatQuiet
<1>1. FatGood(Fat)'
  <2>1. Fat' = [disk |-> disk', fat |-> fatbuf] /\ Fat = [disk |-> disk, fat |-> fatbuf]
    BY DEF Fat
  <2>2. FatGood(Fat)
    BY TypesOf
  <2> QED BY <2>1, <2>2 DEF FatGood, InWindow
<1>2. Table' = Table
  BY DEF Table, Mark, Fat, InWindow
<1> QED BY <1>1, <1>2 DEF FatStep, FatQuiet

\* The disk keeps its type where only a buffer is written back (Written).
LEMMA DiskTypeOf ==
  ASSUME TypeInv, BuffersType', disk'.fat = disk.fat
  PROVE  disk' \in DiskType
BY TypesOf DEF BuffersType, DiskType

\* Quiet steps: nothing is touched, a cluster is looked at, the window moves.
LEMMA QuietStill ==
  ASSUME TypeInv, BuffersOK, disk' = disk, fsb_t' = fsb_t, fatbuf' = fatbuf
  PROVE  Quiet
<1>1. BuffersType /\ disk = [fat |-> disk.fat, cluster |-> disk.cluster] /\ disk \in DiskType
  BY TypesOf DEF BuffersType
<1>2. Still
  BY <1>1, StillKeeps DEF Still
<1>3. FatQuiet
  BY <1>1, TableStill
<1> QED BY <1>2, <1>3 DEF Quiet

\* Look changes nothing of what the code sees, and finds what it sees (FSBGet).
LEMMA QuietLook ==
  ASSUME TypeInv, BuffersOK, NEW c \in Clusters, NEW pri \in {FSBPRI_SYS, FSBPRI_USR},
         Look(c, pri), fatbuf' = fatbuf
  PROVE  Quiet /\ Contents(c) = View(c)
<1>1. BuffersType
  BY TypesOf
<1>2. Still /\ disk'.fat = disk.fat
  BY <1>1, LookKeeps DEF Still, BuffersWell
<1>3. FatQuiet
  BY <1>2, DiskTypeOf, TableStill DEF Still
<1> QED BY <1>1, <1>2, <1>3, ContentsIsView DEF Quiet

\* A step of the table that keeps every mark, and the clusters, is still (FSBFATGet).
LEMMA FatStillKeeps ==
  ASSUME TypeInv, BuffersOK, fsb_t' = fsb_t, disk'.cluster = disk.cluster, disk' \in DiskType
  PROVE  Still
<1>1. BuffersType /\ disk' = [fat |-> disk'.fat, cluster |-> disk'.cluster]
  BY TypesOf DEF DiskType
<1> QED BY <1>1, StillKeeps DEF Still

\* A step that only moves the table's window, or writes it, is quiet (FSBFATGet).
LEMMA QuietFat ==
  ASSUME TypeInv, BuffersOK, NEW k, FatGood(k), FatStill(Fat, k), SetFat(k), fsb_t' = fsb_t
  PROVE  Quiet
<1>1. FatGood(Fat)' /\ Table' = Mark(k) /\ disk' = k.disk /\ disk' \in DiskType
  BY SetFatIs
<1>2. fatbuf' = k.fat
  BY DEF SetFat
<1>3. /\ k.disk.cluster = disk.cluster /\ Mark(k) = Table
      /\ k.fat.dirty => fatbuf.dirty
      /\ \A d \in Clusters : k.disk.fat[d] \in {disk.fat[d], Table[d]}
  BY DEF FatStill, Fat, Table
<1>4. Still
  BY <1>1, <1>3, FatStillKeeps
<1> QED BY <1>1, <1>2, <1>3, <1>4 DEF Quiet, FatQuiet, FatStep

\* A step that changes one mark.
Marked(c, mark) == Still /\ FatStep /\ Table' = [Table EXCEPT ![c] = mark]

\* A step that sets one mark of the table changes that mark only (FATMark).
LEMMA MarkedFat ==
  ASSUME TypeInv, BuffersOK, NEW k, NEW c, NEW mark, FatGood(k), FatMarked(Fat, k, c, mark),
         SetFat(k), fsb_t' = fsb_t
  PROVE  Marked(c, mark)
<1>1. FatGood(Fat)' /\ Table' = Mark(k) /\ disk' = k.disk /\ disk' \in DiskType
  BY SetFatIs
<1>2. /\ k.disk.cluster = disk.cluster /\ Mark(k) = [Table EXCEPT ![c] = mark]
      /\ \A d \in Clusters : k.disk.fat[d] \in {disk.fat[d], Table[d]}
  BY DEF FatMarked, Fat, Table
<1>3. Still
  BY <1>1, <1>2, FatStillKeeps
<1> QED BY <1>1, <1>2, <1>3 DEF Marked, FatStep

\* Allocate takes an unused cluster.
LEMMA AllocateIs ==
  ASSUME TypeInv, BuffersOK, Allocate, fsb_t' = fsb_t
  PROVE  /\ FATAlloc.c \in Clusters /\ Table[FATAlloc.c] = CLUSTER_UNUSED
         /\ Marked(FATAlloc.c, CLUSTER_CHAIN_END)
         /\ fatAllocNext' \in CLUSTER_FIRST_USER .. LastCluster + 1
         /\ bypassed' = bypassed \ {FATAlloc.c}
<1>1. /\ FatGood(Fat) /\ fatAllocNext \in CLUSTER_FIRST_USER .. LastCluster + 1
      /\ Unallocated # {} /\ SetFat(FATAlloc.m) /\ fatAllocNext' = FATAlloc.c + 1
  BY DEF TypeInv, Allocate
<1>2. /\ FATAlloc.c \in Clusters /\ Table[FATAlloc.c] = CLUSTER_UNUSED
      /\ FatGood(FATAlloc.m) /\ FatMarked(Fat, FATAlloc.m, FATAlloc.c, CLUSTER_CHAIN_END)
  BY <1>1, AllocIs
<1>3. Marked(FATAlloc.c, CLUSTER_CHAIN_END)
  BY <1>1, <1>2, MarkedFat
<1>4. fatAllocNext' \in CLUSTER_FIRST_USER .. LastCluster + 1
  BY <1>1, <1>2, Numbered, Sizes
<1> QED BY <1>2, <1>3, <1>4 DEF Allocate

\* A step that changes cluster c.
Changed(c, dirty, new) ==
  /\ BuffersType' /\ BuffersOK' /\ OneDirtied(c, dirty) /\ FatQuiet
  /\ \A d \in Clusters \ {c} : Kept(d)
  /\ View(c)' = new /\ Dirty(c)' /\ disk'.cluster[c] = disk.cluster[c]

\* Change puts the new contents in one cluster and leaves the others (FSBGet, FSBNew).
LEMMA ChangedIs ==
  ASSUME TypeInv, BuffersOK, NEW c \in Clusters, NEW pri \in {FSBPRI_SYS, FSBPRI_USR},
         NEW dirty \in {FSBDIRTY_SYS, FSBDIRTY_USR}, NEW new \in Parts,
         Change(c, pri, dirty, new), fatbuf' = fatbuf
  PROVE  Changed(c, dirty, new)
<1>1. BuffersType
  BY TypesOf
<1>2. /\ BuffersWell /\ OneDirtied(c, dirty)
      /\ \A d \in Clusters \ {c} : Kept(d)
      /\ View(c)' = new /\ Dirty(c)' /\ disk'.cluster[c] = disk.cluster[c]
  BY <1>1, ChangeIs
<1>3. FatQuiet
  BY <1>2, DiskTypeOf, TableStill DEF BuffersWell
<1> QED BY <1>2, <1>3 DEF Changed, BuffersWell

-----------------------------------------------------------------------------
(***************************************************************************)
(* What a step leaves of the map.                                          *)
(***************************************************************************)

\* What a cluster that is kept gives.
LEMMA KeptGives ==
  ASSUME NEW c, Kept(c)
  PROVE  /\ View(c)'.slot = View(c).slot /\ View(c)'.link = View(c).link
         /\ \A s : Slot(c, s)' = Slot(c, s)
         /\ Dirty(c)' => Dirty(c)
         /\ disk.cluster[c].link = View(c).link => disk'.cluster[c].link = View(c).link
         /\ \A s : disk.cluster[c].slot[s] = Slot(c, s) => disk'.cluster[c].slot[s] = Slot(c, s)
<1>1. Dirty(c) \in BOOLEAN /\ Dirty(c)' \in BOOLEAN
  BY DEF Dirty
<1> QED BY <1>1 DEF Kept, Slot

\* The words of a cluster that is kept.
LEMMA KeptWords ==
  ASSUME NEW c, Kept(c), NEW g, WordsAt(g, c), NEW k, k.own[c] = g.own[c], k.idx[c] = g.idx[c],
         k.own[c] # Nil => k.ext[k.own[c]] <= g.ext[k.own[c]],
         k.own[c] # Nil => (c \in bypassed => c \in bypassed'),
         k.own[c] # Nil => k.ext[k.own[c]] \in Nat /\ g.ext[k.own[c]] \in Nat /\ k.idx[c] \in Nat
  PROVE  WordsAt(k, c)'
<1> SUFFICES ASSUME NEW i \in 0 .. CLUSTER_SIZE - 1, k.own[c] # Nil, c \notin bypassed',
                    k.idx[c] * CLUSTER_SIZE + i < k.ext[k.own[c]]
             PROVE  LET p == k.idx[c] * CLUSTER_SIZE + i
                    IN  /\ View(c)'.word[i] = <<k.own[c], p>>
                        /\ ~Dirty(c)' => disk'.cluster[c].word[i] = <<k.own[c], p>>
  BY DEF WordsAt
<1> DEFINE p == k.idx[c] * CLUSTER_SIZE + i
<1>1. p \in Nat
  BY Times
<1>2. p < g.ext[k.own[c]]
  <2>1. p < k.ext[k.own[c]]
    OBVIOUS
  <2> HIDE DEF p
  <2> QED BY <1>1, <2>1
<1>3. /\ View(c).word[i] = <<k.own[c], p>>
      /\ ~Dirty(c) => disk.cluster[c].word[i] = <<k.own[c], p>>
  BY <1>2 DEF WordsAt
<1> HIDE DEF p
<1>4. Dirty(c) \in BOOLEAN /\ Dirty(c)' \in BOOLEAN
  BY DEF Dirty
<1>5. /\ View(c)'.word[i] = <<k.own[c], p>>
      /\ ~Dirty(c)' => disk'.cluster[c].word[i] = <<k.own[c], p>>
  BY <1>3, <1>4 DEF Kept
<1> QED BY <1>5 DEF p

\* The chains, where the table and the owners stay.
LEMMA ChainsKept ==
  ASSUME NEW g, ChainsOK(g), Table' = Table, NEW k,
         k.own = g.own, k.idx = g.idx, k.len = g.len, k.dirs = g.dirs, k.loose = g.loose
  PROVE  ChainsOK(k)'
BY DEF ChainsOK

\* The directory, where every cluster stays.
LEMMA DirsKept ==
  ASSUME NEW g, DirsOK(g), Still, NEW k,
         k.dirs = g.dirs, k.pos = g.pos, k.dlen = g.dlen, g.dirs \subseteq Clusters,
         fdNextCluster' \in g.dirs, lastdircluster' \in g.dirs
  PROVE  DirsOK(k)'
<1>1. \A c \in Clusters : View(c)'.link = View(c).link /\ \A s : Slot(c, s)' = Slot(c, s)
  BY KeptGives DEF Still
<1>2. \A b \in Buffers : fsb_t'[b].dirty = FSBDIRTY_SYS => fsb_t'[b].cluster \in g.dirs
  BY DEF Still, NoneDirtied, DirsOK
<1> QED BY <1>1, <1>2 DEF DirsOK

\* The entries.
LEMMA EntriesKept ==
  ASSUME NEW g, EntriesOK(g), \A c \in Clusters, s \in Slots : Slot(c, s)' = Slot(c, s), NEW k,
         k.own = g.own, k.idx = g.idx, k.len = g.len, k.ext = g.ext, k.moving = g.moving
  PROVE  EntriesOK(k)'
BY DEF EntriesOK, Headed, NoEntryOf

\* A handle.
LEMMA HandleKept ==
  ASSUME NEW g, NEW h, HandleOK(g, h), NEW k, fh'[h] = fh[h],
         Slot(fh[h].dircluster, fh[h].diroff)' = Slot(fh[h].dircluster, fh[h].diroff),
         closed'[fh[h].nm] \in {closed[fh[h].nm], NoFile},
         g.moving = fh[h].nm => k.moving = fh[h].nm,
         fh[h].cluster # 0 => /\ k.own[fh[h].cluster] = g.own[fh[h].cluster]
                              /\ k.idx[fh[h].cluster] = g.idx[fh[h].cluster],
         g.ext[fh[h].nm] \in Nat, k.ext[fh[h].nm] \in Nat, g.ext[fh[h].nm] <= k.ext[fh[h].nm],
         fh[h].pos \in Nat, fh[h].size \in Nat,
         SeekLeft(h)' = SeekLeft(h), Writing(h) => Writing(h)' \/ fh[h].pos <= fh[h].size,
         \A j \in Handles : fh'[j].nm = fh[h].nm => h = j
  PROVE  HandleOK(k, h)'
<1>1. fh[h].size <= k.ext[fh[h].nm] /\ fh[h].pos <= k.ext[fh[h].nm]
  BY DEF HandleOK
<1> HIDE DEF SeekLeft, Writing
<1> QED BY <1>1 DEF HandleOK

\* What is on the disk of a file that stays closed.
LEMMA PowerKept ==
  ASSUME NEW g, g \in Maps, NEW n, PowerAt(g, n), NEW k, k \in Maps,
         \A c \in g.dirs : c \in k.dirs /\ k.pos[c] = g.pos[c],
         \A d \in k.dirs : \/ d \notin g.dirs /\ k.pos[d] >= g.dlen
                           \/ d \in g.dirs /\ g.pos[d] + 1 = g.dlen
                           \/ /\ d \in g.dirs /\ View(d)'.link = View(d).link
                              /\ disk.cluster[d].link = View(d).link
                                   => disk'.cluster[d].link = View(d).link,
         \A c \in g.dirs : g.pos[c] < g.dlen,
         closed'[n] # NoFile =>
           /\ closed'[n] = closed[n] /\ n # k.moving
           /\ \A c \in Clusters : k.own[c] = n =>
                /\ g.own[c] = n /\ (Dirty(c)' => Dirty(c))
                /\ disk'.fat[c] \in {disk.fat[c], Table[c]} /\ Table'[c] = Table[c]
           /\ \A c \in Clusters, s \in Slots :
                Slot(c, s).nm = n /\ disk.cluster[c].slot[s] = Slot(c, s) =>
                  Slot(c, s)' = Slot(c, s) /\ disk'.cluster[c].slot[s] = Slot(c, s)
  PROVE  PowerAt(k, n)'
<1> SUFFICES ASSUME closed'[n] # NoFile
             PROVE  /\ n # k.moving /\ closed'[n] \in Nat /\ EntryOnDisk(k, n)'
                    /\ \A c \in Clusters : k.own[c] = n => ~Dirty(c)' /\ disk'.fat[c] = Table'[c]
  BY DEF PowerAt
<1>1. closed'[n] = closed[n] /\ closed[n] # NoFile
  OBVIOUS
<1>2. closed[n] \in Nat /\ EntryOnDisk(g, n)
  BY <1>1 DEF PowerAt
<1>3. PICK c \in g.dirs, s \in Slots :
        /\ Slot(c, s).nm = n /\ Slot(c, s).size = closed[n]
        /\ disk.cluster[c].slot[s] = Slot(c, s)
        /\ \A d \in g.dirs : g.pos[d] < g.pos[c] => disk.cluster[d].link = View(d).link
  BY <1>2 DEF EntryOnDisk
<1>4. c \in Clusters /\ c \in k.dirs /\ k.pos[c] = g.pos[c] /\ g.pos[c] \in Nat /\ g.pos[c] < g.dlen
      /\ g.dlen \in Nat
  BY DEF Maps
<1>5. Slot(c, s)' = Slot(c, s) /\ disk'.cluster[c].slot[s] = Slot(c, s)
  BY <1>3, <1>4
<1>6. ASSUME NEW d \in k.dirs, k.pos[d] < k.pos[c]
      PROVE  disk'.cluster[d].link = View(d)'.link
  <2>1. CASE d \notin g.dirs
    BY <1>4, <1>6, <2>1 DEF Maps
  <2>2. CASE d \in g.dirs
    <3>1. k.pos[d] = g.pos[d] /\ g.pos[d] \in Nat /\ g.pos[d] < g.pos[c]
      BY <1>4, <1>6, <2>2 DEF Maps
    <3>2. ~(g.pos[d] + 1 = g.dlen)
      BY <1>4, <3>1
    <3>3. disk.cluster[d].link = View(d).link
      BY <1>3, <2>2, <3>1
    <3>4. /\ View(d)'.link = View(d).link
          /\ disk.cluster[d].link = View(d).link => disk'.cluster[d].link = View(d).link
      BY <2>2, <3>2
    <3> QED BY <3>3, <3>4
  <2> QED BY <2>1, <2>2
<1>7. EntryOnDisk(k, n)'
  BY <1>1, <1>3, <1>4, <1>5, <1>6 DEF EntryOnDisk
<1>8. ASSUME NEW d \in Clusters, k.own[d] = n
      PROVE  ~Dirty(d)' /\ disk'.fat[d] = Table'[d]
  <2>1. g.own[d] = n /\ ~Dirty(d) /\ disk.fat[d] = Table[d]
    BY <1>1, <1>8 DEF PowerAt
  <2> QED BY <1>8, <2>1
<1> QED BY <1>1, <1>2, <1>7, <1>8

\* The parts of the map that speak of the disk.
DiskOK(g) == g \in Maps /\ ChainsOK(g) /\ DirsOK(g) /\ EntriesOK(g) /\ WordsOK(g) /\ PowerOK(g)

\* A quiet step leaves them.
LEMMA QuietParts ==
  ASSUME NEW g, DiskOK(g), Quiet, fdNextCluster' \in g.dirs, lastdircluster' \in g.dirs,
         bypassed' = bypassed
  PROVE  /\ ChainsOK(g)' /\ DirsOK(g)' /\ EntriesOK(g)' /\ WordsOK(g)'
         /\ \A n \in Names : closed'[n] \in {closed[n], NoFile} => PowerAt(g, n)'
         /\ \A c \in Clusters, s \in Slots : Slot(c, s)' = Slot(c, s)
<1>1. \A c \in Clusters : Kept(c)
  BY DEF Quiet, Still
<1>2. Table' = Table /\ \A c \in Clusters : disk'.fat[c] \in {disk.fat[c], Table[c]}
  BY DEF Quiet, FatQuiet, FatStep
<1>3. ChainsOK(g)'
  BY <1>2, ChainsKept DEF DiskOK
<1>4. DirsOK(g)'
  BY DirsKept DEF DiskOK, Quiet, Maps
<1>5. \A c \in Clusters, s \in Slots : Slot(c, s)' = Slot(c, s)
  BY <1>1, KeptGives
<1>6. EntriesOK(g)'
  BY <1>5, EntriesKept DEF DiskOK
<1>7. WordsOK(g)'
  <2> SUFFICES ASSUME NEW c \in Clusters
               PROVE  WordsAt(g, c)'
    BY DEF WordsOK
  <2>1. WordsAt(g, c) /\ Kept(c)
    BY <1>1 DEF DiskOK, WordsOK
  <2>2. g.own[c] # Nil => g.ext[g.own[c]] \in Nat /\ g.ext[g.own[c]] <= g.ext[g.own[c]]
                          /\ g.idx[c] \in Nat
    BY DEF DiskOK, Maps
  <2> QED BY <2>1, <2>2, KeptWords
<1>8. ASSUME NEW n \in Names, closed'[n] \in {closed[n], NoFile}
      PROVE  PowerAt(g, n)'
  <2>1. \A d \in g.dirs : d \in Clusters /\ g.pos[d] < g.dlen
    BY DEF DiskOK, DirsOK, Maps
  <2>2. \A d \in g.dirs : /\ View(d)'.link = View(d).link
                          /\ disk.cluster[d].link = View(d).link
                               => disk'.cluster[d].link = View(d).link
    BY <1>1, <2>1, KeptGives
  <2>3. closed'[n] # NoFile => closed'[n] = closed[n] /\ n # g.moving
    BY <1>8 DEF DiskOK, PowerOK, PowerAt
  <2>4. \A c \in Clusters : Dirty(c)' => Dirty(c)
    BY <1>1, KeptGives
  <2>5. \A c \in Clusters, s \in Slots :
          disk.cluster[c].slot[s] = Slot(c, s) => disk'.cluster[c].slot[s] = Slot(c, s)
    BY <1>1, KeptGives
  <2>6. g \in Maps /\ PowerOK(g)
    BY DEF DiskOK
  <2> QED BY <1>2, <1>5, <2>1, <2>2, <2>3, <2>4, <2>5, <2>6, PowerKept DEF PowerOK
<1> QED BY <1>3, <1>4, <1>5, <1>6, <1>7, <1>8

\* A quiet step keeps what the map says of the disk, and every entry.
LEMMA QuietKeeps ==
  ASSUME NEW g, DiskOK(g), Quiet, fdNextCluster' \in g.dirs, lastdircluster' \in g.dirs,
         bypassed' = bypassed, \A n \in Names : closed'[n] \in {closed[n], NoFile}
  PROVE  DiskOK(g)' /\ \A c \in Clusters, s \in Slots : Slot(c, s)' = Slot(c, s)
<1>1. /\ ChainsOK(g)' /\ DirsOK(g)' /\ EntriesOK(g)' /\ WordsOK(g)'
      /\ \A n \in Names : PowerAt(g, n)'
      /\ \A c \in Clusters, s \in Slots : Slot(c, s)' = Slot(c, s)
  BY QuietParts
<1> QED BY <1>1 DEF DiskOK, PowerOK

\* The types.
LEMMA TypesKept ==
  ASSUME TypeInv, BuffersType', FatGood(Fat)',
         fatAllocNext' \in CLUSTER_FIRST_USER .. LastCluster + 1,
         fh' \in [Handles -> HandleType], call' \in CallType,
         closed' \in [Names -> {NoFile} \cup (0 .. MaxSize)], bypassed' \subseteq Clusters
  PROVE  TypeInv'
BY DEF TypeInv, BuffersType

\* Who may leave buffers unwritten.
LEMMA CleanKept ==
  ASSUME CleanOK, NoneDirtied, fatbuf'.dirty => fatbuf.dirty, fatbuf.dirty \in BOOLEAN,
         fatbuf'.dirty \in BOOLEAN,
         Writers \subseteq Writers',
         Emptying => Emptying'
  PROVE  CleanOK'
<1>1. Clean => Clean'
  BY DEF Clean, NoneDirtied
<1>2. Writers # {} => Writers' # {}
  OBVIOUS
<1> QED BY <1>1, <1>2 DEF CleanOK

\* No call is in progress.
LEMMA CallOut ==
  ASSUME NEW k, call' = NoCall, k.moving = Nil, k.loose = {}
  PROVE  CallOK(k)' /\ call' \in CallType
<1>1. call'.op = "none" /\ call'.at = "out"
  BY DEF NoCall
<1>2. PhaseOK' /\ DirCallOK(k)' /\ WriteOK(k)' /\ ReadOK(k)'
  BY <1>1 DEF PhaseOK, DirCallOK, WriteOK, ReadOK
<1>3. CallOK(k)'
  BY <1>1, <1>2 DEF CallOK
<1>4. call' \in CallType
  <2>1. 1 \in Slots /\ NoCall = [op |-> "none", at |-> "out", h |-> Nil, nm |-> Nil,
                                 c |-> 0, x |-> 0, s |-> 1, num |-> 0, n |-> 0]
    BY Numbered, Sizes DEF NoCall
  <2> QED BY <2>1 DEF CallType
<1> QED BY <1>3, <1>4

-----------------------------------------------------------------------------
(***************************************************************************)
(* The steps that begin a call.                                            *)
(***************************************************************************)

\* The invariant with its map.
Holds(g) == TypeInv /\ BuffersOK /\ CleanOK /\ right = TRUE /\ Good(g)

\* The invariant with its map named.
LEMMA HoldsInv == Inv <=> \E g \in Maps : Holds(g)
<1>1. Inv => \E g \in Maps : Holds(g)
  BY DEF Inv, Holds
<1>2. (\E g \in Maps : Holds(g)) => Inv
  BY DEF Inv, Holds
<1> QED BY <1>1, <1>2

\* The parts of it.
LEMMA PartsOf ==
  ASSUME NEW g, Holds(g)
  PROVE  /\ TypeInv /\ BuffersOK /\ CleanOK /\ right = TRUE /\ DiskOK(g)
         /\ HandlesOK(g) /\ CallOK(g) /\ g \in Maps
BY DEF Holds, Good, DiskOK

\* The next state's invariant, from its parts.
LEMMA HoldsOf ==
  ASSUME NEW k, TypeInv', BuffersOK', CleanOK', right' = TRUE,
         DiskOK(k)', HandlesOK(k)', CallOK(k)'
  PROVE  Holds(k)'
BY DEF Holds, Good, DiskOK

\* A handle in use.
LEMMA HandleTypes ==
  ASSUME NEW g, Holds(g), NEW h \in Handles
  PROVE  /\ fh[h] \in HandleType
         /\ fh[h].cluster \in {0} \cup Clusters /\ fh[h].off \in 0 .. CLUSTER_SIZE
         /\ fh[h].pos \in Nat /\ fh[h].size \in Nat
         /\ fh[h] = NoHandle <=> fh[h].mode = "free"
         /\ fh[h] # NoHandle => HandleOK(g, h)
         /\ fh[h] # NoHandle => /\ fh[h].nm \in Names /\ g.ext[fh[h].nm] \in Nat
                                /\ g.len[fh[h].nm] \in Nat
         /\ fh[h].nm \in Names \cup {Nil} /\ fh[h].nm = Nil <=> fh[h] = NoHandle
<1>1. fh[h] \in HandleType
  BY DEF Holds, TypeInv
<1>2. fh[h] = NoHandle \/ HandleOK(g, h)
  BY DEF Holds, Good, HandlesOK
<1>3. fh[h] = NoHandle => fh[h].mode = "free" /\ fh[h].nm = Nil
  BY DEF NoHandle
<1>4. HandleOK(g, h) => fh[h].mode # "free" /\ fh[h].nm \in Names
  BY DEF HandleOK
<1>5. g \in Maps
  BY PartsOf
<1>6. fh[h].pos \in Nat /\ fh[h].size \in Nat
  BY <1>1, Sizes DEF HandleType
<1> QED BY <1>1, <1>2, <1>3, <1>4, <1>5, <1>6, Nils DEF HandleType, Maps

\* The handles where none is touched.
LEMMA HandlesStay ==
  ASSUME NEW g, Holds(g), fh' = fh, \A c \in Clusters, s \in Slots : Slot(c, s)' = Slot(c, s),
         \A n \in Names : closed'[n] \in {closed[n], NoFile},
         \A h \in Handles : SeekLeft(h)' = SeekLeft(h) /\ (Writing(h) => Writing(h)')
  PROVE  HandlesOK(g)'
<1> SUFFICES ASSUME NEW h \in Handles, fh[h] # NoHandle
             PROVE  HandleOK(g, h)'
  BY DEF HandlesOK
<1>1. HandleOK(g, h) /\ fh[h].nm \in Names /\ g.ext[fh[h].nm] \in Nat
      /\ fh[h].pos \in Nat /\ fh[h].size \in Nat
  BY HandleTypes
<1>2. /\ Slot(fh[h].dircluster, fh[h].diroff)' = Slot(fh[h].dircluster, fh[h].diroff)
      /\ \A j \in Handles : fh'[j].nm = fh[h].nm => h = j
  BY <1>1 DEF HandleOK
<1> QED BY <1>1, <1>2, HandleKept

\* A quiet step with its next call.
LEMMA QuietHolds ==
  ASSUME NEW g, Holds(g), Quiet, fdNextCluster' \in g.dirs, lastdircluster' \in g.dirs,
         fatAllocNext' \in CLUSTER_FIRST_USER .. LastCluster + 1,
         bypassed' = bypassed, closed' \in [Names -> {NoFile} \cup (0 .. MaxSize)],
         \A n \in Names : closed'[n] \in {closed[n], NoFile},
         fh' \in [Handles -> HandleType], call' \in CallType, right' = TRUE,
         Writers \subseteq Writers',
         Emptying => Emptying',
         HandlesOK(g)', CallOK(g)'
  PROVE  Holds(g)'
<1>1. TypeInv /\ CleanOK /\ DiskOK(g)
  BY PartsOf
<1>2. DiskOK(g)'
  BY <1>1, QuietKeeps
<1>3. BuffersType' /\ BuffersOK' /\ NoneDirtied /\ FatGood(Fat)' /\ (fatbuf'.dirty => fatbuf.dirty)
  BY DEF Quiet, Still, FatQuiet, FatStep
<1>4. bypassed' \subseteq Clusters
  BY <1>1 DEF TypeInv
<1>5. TypeInv'
  BY <1>1, <1>3, <1>4, TypesKept
<1>6. fatbuf.dirty \in BOOLEAN /\ fatbuf'.dirty \in BOOLEAN
  BY <1>1, <1>3 DEF TypeInv, FatGood, Fat
<1>7. CleanOK'
  BY <1>1, <1>3, <1>6, CleanKept
<1> QED BY <1>2, <1>3, <1>5, <1>7, HoldsOf

\* Out of a call.
LEMMA OutOf ==
  ASSUME NEW g, Holds(g), call.op = "none"
  PROVE  call.at = "out" /\ g.moving = Nil /\ g.loose = {}
<1>1. CallOK(g)
  BY PartsOf
<1>2. call.at = "out"
  BY <1>1 DEF CallOK, PhaseOK
<1> QED BY <1>1, <1>2 DEF CallOK

\* The directory's clusters.
LEMMA DirsIn ==
  ASSUME NEW g, Holds(g)
  PROVE  /\ g.dirs \subseteq Clusters /\ ROOT_DIR_CLUSTER \in g.dirs
         /\ fdNextCluster \in g.dirs /\ lastdircluster \in g.dirs
<1>1. DirsOK(g) /\ g \in Maps
  BY PartsOf DEF DiskOK
<1>2. g.dirs \subseteq Clusters
  BY <1>1 DEF Maps
<1> QED BY <1>1, <1>2 DEF DirsOK

\* A call begins.
LEMMA BeginHolds ==
  ASSUME NEW g, Holds(g), call.op = "none",
         UNCHANGED <<disk, fsb_t, fatbuf, private, fh, bypassed, right>>,
         closed' \in [Names -> {NoFile} \cup (0 .. MaxSize)],
         \A n \in Names : closed'[n] \in {closed[n], NoFile},
         call' \in CallType, call'.at # "seek",
         Quiet => CallOK(g)'
  PROVE  Holds(g)'
<1>1. TypeInv /\ BuffersOK /\ DiskOK(g) /\ right = TRUE
  BY PartsOf
<1>2. Quiet
  BY <1>1, QuietStill
<1>3. fdNextCluster' \in g.dirs /\ lastdircluster' \in g.dirs
  BY <1>1 DEF DiskOK, DirsOK, private
<1>4. /\ fatAllocNext' \in CLUSTER_FIRST_USER .. LastCluster + 1
      /\ fh' \in [Handles -> HandleType]
  BY <1>1 DEF TypeInv, private
<1>5. \A c \in Clusters, s \in Slots : Slot(c, s)' = Slot(c, s)
  BY DEF Slot, View
<1>6. \A h \in Handles : SeekLeft(h)' = SeekLeft(h) /\ ~Writing(h)
  BY OutOf DEF SeekLeft, Writing
<1>7. HandlesOK(g)'
  BY <1>5, <1>6, HandlesStay
<1>8. Writers' = Writers
  BY DEF Writers
<1>9. ~Emptying
  BY OutOf DEF Emptying
<1> QED BY <1>1, <1>2, <1>3, <1>4, <1>7, <1>8, <1>9, QuietHolds

\* FSOpen begins: the map stays.
LEMMA OpenHolds ==
  ASSUME NEW g, Holds(g), NEW h \in Handles, NEW n \in Names, FSOpen(h, n)
  PROVE  Holds(g)'
<1>1. call.op = "none" /\ fh[h].mode = "free" /\ ~Open(n)
  BY DEF FSOpen, Idle
<1>2. call' = [op |-> "open", at |-> "find", h |-> h, nm |-> n, c |-> fdNextCluster, x |-> 0,
               s |-> 1, num |-> 0, n |-> 0]
  BY DEF FSOpen, Start, NoCall
<1>3. fdNextCluster \in g.dirs /\ fdNextCluster \in Clusters
  BY DirsIn
<1>4. call' \in CallType
  BY <1>2, <1>3, Numbered, Sizes DEF CallType
<1>5. /\ call'.op = "open" /\ call'.at = "find" /\ call'.h = h /\ call'.nm = n
      /\ call'.c = fdNextCluster
  BY <1>2
<1>6. UNCHANGED <<disk, fsb_t, fatbuf, private, fh, closed, bypassed, right>>
  BY DEF FSOpen
<1>7. fh[h] = NoHandle /\ ~Open(n)'
  BY <1>1, <1>6, HandleTypes DEF Open
<1>8. g.moving = Nil /\ g.loose = {}
  BY <1>1, OutOf
<1>9. CallOK(g)'
  BY <1>3, <1>5, <1>6, <1>7, <1>8 DEF CallOK, PhaseOK, DirCallOK, WriteOK, ReadOK, Open
<1>10. closed' \in [Names -> {NoFile} \cup (0 .. MaxSize)] /\ closed' = closed
  BY <1>6, PartsOf DEF TypeInv
<1> QED BY <1>1, <1>4, <1>5, <1>6, <1>9, <1>10, BeginHolds

\* What is closed, less one file.
LEMMA ClosedLess ==
  ASSUME NEW g, Holds(g), NEW n \in Names, closed' = [closed EXCEPT ![n] = NoFile]
  PROVE  /\ closed' \in [Names -> {NoFile} \cup (0 .. MaxSize)] /\ closed'[n] = NoFile
         /\ \A m \in Names : closed'[m] \in {closed[m], NoFile}
BY PartsOf DEF TypeInv

\* FSDelete begins: the map stays, and the file is no longer promised on the disk.
LEMMA DeleteHolds ==
  ASSUME NEW g, Holds(g), NEW n \in Names, FSDelete(n)
  PROVE  Holds(g)'
<1>1. call.op = "none" /\ ~Open(n) /\ closed' = [closed EXCEPT ![n] = NoFile]
  BY DEF FSDelete, Idle
<1>2. call' = [op |-> "delete", at |-> "find", h |-> Nil, nm |-> n, c |-> fdNextCluster, x |-> 0,
               s |-> 1, num |-> 0, n |-> 0]
  BY DEF FSDelete, Start, NoCall
<1>3. fdNextCluster \in g.dirs /\ fdNextCluster \in Clusters
  BY DirsIn
<1>4. call' \in CallType
  BY <1>2, <1>3, Numbered, Sizes DEF CallType
<1>5. /\ call'.op = "delete" /\ call'.at = "find" /\ call'.nm = n /\ call'.c = fdNextCluster
  BY <1>2
<1>6. UNCHANGED <<disk, fsb_t, fatbuf, private, fh, bypassed, right>>
  BY DEF FSDelete
<1>7. ~Open(n)'
  BY <1>1, <1>6 DEF Open
<1>8. g.moving = Nil /\ g.loose = {}
  BY <1>1, OutOf
<1>9. closed' \in [Names -> {NoFile} \cup (0 .. MaxSize)] /\ closed'[n] = NoFile
      /\ \A m \in Names : closed'[m] \in {closed[m], NoFile}
  BY <1>1, ClosedLess
<1>10. CallOK(g)'
  BY <1>3, <1>5, <1>6, <1>7, <1>8, <1>9 DEF CallOK, PhaseOK, DirCallOK, WriteOK, ReadOK, Open
<1> QED BY <1>1, <1>4, <1>5, <1>6, <1>9, <1>10, BeginHolds

\* FSFlush begins: the map stays.
LEMMA FlushBeginHolds ==
  ASSUME NEW g, Holds(g), FSFlush
  PROVE  Holds(g)'
<1>1. call.op = "none"
  BY DEF FSFlush, Idle
<1>2. call' = [op |-> "flush", at |-> "flush", h |-> Nil, nm |-> Nil, c |-> 0, x |-> 0,
               s |-> 1, num |-> 0, n |-> 0]
  BY DEF FSFlush, Start, NoCall
<1>3. call' \in CallType
  BY <1>2, Numbered, Sizes DEF CallType
<1>4. call'.op = "flush" /\ call'.at = "flush"
  BY <1>2
<1>5. UNCHANGED <<disk, fsb_t, fatbuf, private, fh, closed, bypassed, right>>
  BY DEF FSFlush
<1>6. g.moving = Nil /\ g.loose = {}
  BY <1>1, OutOf
<1>7. CallOK(g)'
  BY <1>4, <1>5, <1>6 DEF CallOK, PhaseOK, DirCallOK, WriteOK, ReadOK
<1>8. closed' \in [Names -> {NoFile} \cup (0 .. MaxSize)] /\ closed' = closed
  BY <1>5, PartsOf DEF TypeInv
<1> QED BY <1>1, <1>3, <1>4, <1>5, <1>7, <1>8, BeginHolds

\* FSClose begins: the map stays.
LEMMA CloseHolds ==
  ASSUME NEW g, Holds(g), NEW h \in Handles, FSClose(h)
  PROVE  Holds(g)'
<1>1. call.op = "none" /\ fh[h].mode # "free"
  BY DEF FSClose, Idle
<1>2. call' = [op |-> "close", at |-> IF fh[h].dirty THEN "size" ELSE "flush", h |-> h,
               nm |-> Nil, c |-> 0, x |-> 0, s |-> 1, num |-> 0, n |-> 0]
  BY DEF FSClose, Start, NoCall
<1>3. call' \in CallType
  BY <1>2, Numbered, Sizes DEF CallType
<1>4. call'.op = "close" /\ call'.h = h /\ call'.at = IF fh[h].dirty THEN "size" ELSE "flush"
  BY <1>2
<1>5. UNCHANGED <<disk, fsb_t, fatbuf, private, fh, closed, bypassed, right>>
  BY DEF FSClose
<1>6. g.moving = Nil /\ g.loose = {}
  BY <1>1, OutOf
<1>7. fh[h] # NoHandle /\ HandleOK(g, h)
  BY <1>1, HandleTypes
<1>9. call'.at = "flush" => Slot(fh[h].dircluster, fh[h].diroff)'.size = fh[h].size
  <2>1. call'.at = "flush" => ~fh[h].dirty
    BY <1>4
  <2>2. ~fh[h].dirty => Slot(fh[h].dircluster, fh[h].diroff).size = fh[h].size
    BY <1>7 DEF HandleOK
  <2> QED BY <1>5, <2>1, <2>2 DEF Slot, View
<1>10. CallOK(g)'
  BY <1>4, <1>5, <1>6, <1>7, <1>9 DEF CallOK, PhaseOK, DirCallOK, WriteOK, ReadOK
<1>11. closed' \in [Names -> {NoFile} \cup (0 .. MaxSize)] /\ closed' = closed
  BY <1>5, PartsOf DEF TypeInv
<1>12. call'.at # "seek"
  BY <1>4
<1> QED BY <1>1, <1>3, <1>4, <1>5, <1>10, <1>11, <1>12, BeginHolds

\* FSRead begins: a careful game has no written words in the buffers.
LEMMA ReadHolds ==
  ASSUME NEW g, Holds(g), Careless = {}, NEW h \in Handles, NEW k \in Lengths, FSRead(h, k)
  PROVE  Holds(g)'
<1>1. /\ call.op = "none" /\ fh[h].mode # "free" /\ fh[h].cluster >= 3 /\ fh[h].pos < fh[h].size
      /\ \A b \in Buffers : fsb_t[b].dirty # FSBDIRTY_USR
  BY DEF FSRead, Idle
<1> DEFINE n == Min({k, fh[h].size - fh[h].pos})
<1>2. n \in Nat /\ n > 0 /\ fh[h].pos + n <= fh[h].size
  <2>1. /\ k \in Nat /\ k > 0 /\ fh[h].size - fh[h].pos \in Nat /\ fh[h].size - fh[h].pos > 0
        /\ fh[h].pos \in Nat /\ fh[h].size \in Nat
    BY <1>1, HandleTypes, BoundsAssumption
  <2>2. n \in {k, fh[h].size - fh[h].pos} /\ n <= fh[h].size - fh[h].pos
    BY <2>1, MinIsLeast
  <2> HIDE DEF n
  <2> QED BY <2>1, <2>2
<1>3. call' = [op |-> "read", at |-> "get", h |-> h, nm |-> Nil, c |-> 0, x |-> 0, s |-> 1,
               num |-> 0, n |-> n]
  BY DEF FSRead, Start, NoCall
<1> HIDE DEF n
<1>4. call' \in CallType
  BY <1>2, <1>3, Numbered, Sizes DEF CallType
<1>5. call'.op = "read" /\ call'.at = "get" /\ call'.h = h /\ call'.n = n
  BY <1>3
<1>6. UNCHANGED <<disk, fsb_t, fatbuf, private, fh, closed, bypassed, right>>
  BY DEF FSRead
<1>7. g.moving = Nil /\ g.loose = {}
  BY <1>1, OutOf
<1>8. fh[h] # NoHandle /\ fh[h].cluster # 0
  BY <1>1, HandleTypes
<1>9. CallOK(g)'
  BY <1>1, <1>2, <1>5, <1>6, <1>7, <1>8 DEF CallOK, PhaseOK, DirCallOK, WriteOK, ReadOK
<1>10. closed' \in [Names -> {NoFile} \cup (0 .. MaxSize)] /\ closed' = closed
  BY <1>6, PartsOf DEF TypeInv
<1> QED BY <1>1, <1>4, <1>5, <1>6, <1>9, <1>10, BeginHolds

\* FSWrite begins: the file is no longer promised on the disk.
LEMMA WriteHolds ==
  ASSUME NEW g, Holds(g), Careless = {}, NEW h \in Handles, NEW k \in Lengths, FSWrite(h, k)
  PROVE  Holds(g)'
<1>1. /\ call.op = "none" /\ fh[h].mode = "write" /\ fh[h].pos + k <= MaxSize
      /\ fh[h].cluster = 0 => fh[h].size = 0
      /\ closed' = [closed EXCEPT ![fh[h].nm] = NoFile]
  BY DEF FSWrite, Idle
<1>2. k \in Nat /\ k > 0
  BY BoundsAssumption
<1>3. call' = [op |-> "write", at |-> IF fh[h].cluster = 0 THEN "first" ELSE "put", h |-> h,
               nm |-> Nil, c |-> 0, x |-> 0, s |-> 1, num |-> 0, n |-> k]
  BY DEF FSWrite, Start, NoCall
<1>4. call' \in CallType
  BY <1>2, <1>3, Numbered, Sizes DEF CallType
<1>5. /\ call'.op = "write" /\ call'.h = h /\ call'.n = k
      /\ call'.at = IF fh[h].cluster = 0 THEN "first" ELSE "put"
  BY <1>3
<1>6. UNCHANGED <<disk, fsb_t, fatbuf, private, fh, bypassed, right>>
  BY DEF FSWrite
<1>7. g.moving = Nil /\ g.loose = {}
  BY <1>1, OutOf
<1>8. fh[h] # NoHandle /\ fh[h].nm \in Names
  BY <1>1, HandleTypes
<1>9. CallOK(g)'
  BY <1>1, <1>2, <1>5, <1>6, <1>7, <1>8 DEF CallOK, PhaseOK, DirCallOK, WriteOK, ReadOK
<1>10. /\ closed' \in [Names -> {NoFile} \cup (0 .. MaxSize)]
       /\ \A m \in Names : closed'[m] \in {closed[m], NoFile}
  BY <1>1, <1>8, ClosedLess
<1>11. call'.at # "seek"
  BY <1>5
<1> QED BY <1>1, <1>4, <1>5, <1>6, <1>9, <1>10, <1>11, BeginHolds

\* The handles where one is touched, the handle of the call before or after the step.
LEMMA HandlesBut ==
  ASSUME NEW g, Holds(g), NEW k, NEW h \in Handles,
         call.h = h \/ call.op = "none", call'.h = h \/ call' = NoCall,
         \A j \in Handles \ {h} :
           /\ fh'[j] = fh[j]
           /\ fh[j] # NoHandle =>
                /\ fh'[h].nm # fh[j].nm \/ fh'[h] = NoHandle
                /\ Slot(fh[j].dircluster, fh[j].diroff)' = Slot(fh[j].dircluster, fh[j].diroff)
                /\ closed'[fh[j].nm] \in {closed[fh[j].nm], NoFile}
                /\ g.moving = fh[j].nm => k.moving = fh[j].nm
                /\ fh[j].cluster # 0 => /\ k.own[fh[j].cluster] = g.own[fh[j].cluster]
                                        /\ k.idx[fh[j].cluster] = g.idx[fh[j].cluster]
                /\ k.ext[fh[j].nm] \in Nat /\ g.ext[fh[j].nm] <= k.ext[fh[j].nm],
         fh'[h] = NoHandle \/ HandleOK(k, h)'
  PROVE  HandlesOK(k)'
<1> SUFFICES ASSUME NEW j \in Handles \ {h}, fh[j] # NoHandle
             PROVE  HandleOK(k, j)'
  BY DEF HandlesOK
<1>1. HandleOK(g, j) /\ fh[j].nm \in Names /\ g.ext[fh[j].nm] \in Nat
      /\ fh[j].pos \in Nat /\ fh[j].size \in Nat
  BY HandleTypes
<1>2. SeekLeft(j)' = SeekLeft(j) /\ ~Writing(j)
  <2>1. call.op = "none" => call.at = "out"
    BY OutOf
  <2>2. call.h # j \/ call.op = "none"
    OBVIOUS
  <2>3. call'.h # j \/ (call'.op = "none" /\ call'.at = "out")
    BY DEF NoCall
  <2> QED BY <2>1, <2>2, <2>3 DEF SeekLeft, Writing
<1>3. \A i \in Handles : fh'[i].nm = fh[j].nm => j = i
  <2> SUFFICES ASSUME NEW i \in Handles, fh'[i].nm = fh[j].nm
               PROVE  j = i
    OBVIOUS
  <2>1. CASE i = h
    <3>1. fh'[h] # NoHandle
      BY <1>1, <2>1, Nils DEF NoHandle
    <3>2. fh'[h].nm # fh[j].nm
      BY <3>1
    <3> QED BY <2>1, <3>2
  <2>2. CASE i # h
    BY <1>1, <2>2 DEF HandleOK
  <2> QED BY <2>1, <2>2
<1> QED BY <1>1, <1>2, <1>3, HandleKept

\* The names of the others.
LEMMA OtherNames ==
  ASSUME NEW g, Holds(g), NEW h \in Handles, fh[h] # NoHandle, NEW j \in Handles \ {h},
         fh[j] # NoHandle
  PROVE  fh[j].nm # fh[h].nm
BY HandleTypes DEF HandleOK

\* A file in use begins at the cluster its handle has.
LEMMA FirstIs ==
  ASSUME NEW g, Holds(g), NEW h \in Handles, fh[h] # NoHandle, fh[h].nm # g.moving
  PROVE  /\ Slot(fh[h].dircluster, fh[h].diroff).nm = fh[h].nm
         /\ Headed(g, fh[h].nm, fh[h].firstcluster)
         /\ fh[h].size <= g.ext[fh[h].nm]
         /\ g.ext[fh[h].nm] <= g.len[fh[h].nm] * CLUSTER_SIZE
<1>1. HandleOK(g, h) /\ fh[h].nm \in Names
  BY HandleTypes
<1>2. EntriesOK(g)
  BY PartsOf DEF DiskOK
<1>3. /\ fh[h].dircluster \in Clusters /\ fh[h].diroff \in Slots
      /\ Slot(fh[h].dircluster, fh[h].diroff).nm = fh[h].nm
      /\ Slot(fh[h].dircluster, fh[h].diroff).cluster = fh[h].firstcluster
      /\ fh[h].size <= g.ext[fh[h].nm]
  BY <1>1 DEF HandleOK
<1>4. Headed(g, fh[h].nm, fh[h].firstcluster)
  BY <1>1, <1>2, <1>3, Nils DEF EntriesOK
<1>5. g.ext[fh[h].nm] <= g.len[fh[h].nm] * CLUSTER_SIZE
  BY <1>1, <1>2 DEF EntriesOK
<1> QED BY <1>3, <1>4, <1>5

\* The remainder by the size of a cluster.
LEMMA Parted ==
  ASSUME NEW p \in Nat
  PROVE  /\ p \div CLUSTER_SIZE \in Nat /\ p % CLUSTER_SIZE \in 0 .. CLUSTER_SIZE - 1
         /\ p = (p \div CLUSTER_SIZE) * CLUSTER_SIZE + (p % CLUSTER_SIZE)
BY Sizes

\* The zeroth cluster holds position zero only at its start.
LEMMA FirstCluster ==
  ASSUME NEW i \in Nat, NEW o \in Nat, i * CLUSTER_SIZE + o = 0
  PROVE  i = 0 /\ o = 0
<1>1. i * CLUSTER_SIZE \in Nat /\ (i > 0 => i * CLUSTER_SIZE >= CLUSTER_SIZE)
  BY Times
<1> QED BY <1>1, Sizes

\* FSSeek begins: the clusters that are left to walk make up for the new position.
LEMMA SeekHolds ==
  ASSUME NEW g, Holds(g), Careless = {}, NEW h \in Handles, NEW p \in Positions, FSSeek(h, p)
  PROVE  Holds(g)'
<1> DEFINE f == fh[h]
           back == p < f.pos
           n == (p - IF back THEN 0 ELSE f.pos) \div CLUSTER_SIZE
           first == IF back THEN f.firstcluster ELSE f.cluster
<1>1. /\ call.op = "none" /\ f.mode # "free" /\ p < f.size /\ (back \/ f.pos = 0)
      /\ fh' = [fh EXCEPT ![h].cluster = IF back THEN f.firstcluster ELSE @,
                          ![h].off = p % CLUSTER_SIZE, ![h].pos = p]
  BY DEF FSSeek, Idle
<1>2. call' = [op |-> "seek", at |-> "seek", h |-> h, nm |-> Nil, c |-> 0, x |-> 0, s |-> 1,
               num |-> 0, n |-> n]
  BY DEF FSSeek, Start, NoCall
<1>3. p \in Nat
  BY BoundsAssumption
<1>4. /\ f \in HandleType /\ f # NoHandle /\ HandleOK(g, h) /\ f.nm \in Names
      /\ f.pos \in Nat /\ f.size \in Nat /\ f.off \in 0 .. CLUSTER_SIZE
      /\ g.ext[f.nm] \in Nat /\ g.len[f.nm] \in Nat
  BY <1>1, HandleTypes
<1>5. /\ n = p \div CLUSTER_SIZE /\ n \in Nat /\ p % CLUSTER_SIZE \in 0 .. CLUSTER_SIZE
      /\ p = n * CLUSTER_SIZE + (p % CLUSTER_SIZE)
  <2>1. n = p \div CLUSTER_SIZE
    BY <1>1, <1>3, <1>4
  <2> HIDE DEF n
  <2> QED BY <1>3, <2>1, Parted, Sizes
<1>6. call' \in CallType
  <2> HIDE DEF n
  <2> QED BY <1>2, <1>5, Numbered, Sizes, SMTT(20) DEF CallType
<1>7. call'.op = "seek" /\ call'.at = "seek" /\ call'.h = h /\ call'.n = n
  BY <1>2
<1>8. UNCHANGED <<disk, fsb_t, fatbuf, private, closed, bypassed, right>>
  BY DEF FSSeek
<1>9. g.moving = Nil /\ g.loose = {}
  BY <1>1, OutOf
<1>10. first \in Clusters /\ g.own[first] = f.nm /\ g.idx[first] = 0
  <2>1. CASE back
    <3>1. Headed(g, f.nm, f.firstcluster) /\ f.size <= g.len[f.nm] * CLUSTER_SIZE
      <4>1. /\ Headed(g, f.nm, f.firstcluster)
            /\ f.size <= g.ext[f.nm] /\ g.ext[f.nm] <= g.len[f.nm] * CLUSTER_SIZE
        BY <1>4, <1>9, Nils, FirstIs
      <4> QED BY <1>4, <4>1, Times
    <3>2. g.len[f.nm] # 0
      BY <1>1, <1>3, <1>4, <3>1, Sizes
    <3> QED BY <2>1, <3>1, <3>2 DEF Headed
  <2>2. CASE ~back
    <3>1. f.cluster # 0
      BY <1>1, <1>3, <1>4, <2>2 DEF HandleOK
    <3>2. f.cluster \in Clusters
      BY <1>4, <3>1 DEF HandleType
    <3>3. g.own[f.cluster] = f.nm /\ f.pos = (g.idx[f.cluster] + SeekLeft(h)) * CLUSTER_SIZE + f.off
      BY <1>4, <3>1 DEF HandleOK
    <3>4. SeekLeft(h) = 0 /\ g.idx[f.cluster] \in Nat
      <4>1. call.at = "out" /\ g \in Maps
        BY <1>1, OutOf, PartsOf
      <4>2. SeekLeft(h) = 0
        BY <4>1 DEF SeekLeft
      <4> QED BY <3>2, <4>1, <4>2 DEF Maps
    <3>5. g.idx[f.cluster] * CLUSTER_SIZE + f.off = 0
      BY <1>1, <2>2, <3>3, <3>4
    <3>6. f.off \in Nat
      BY <1>4, Sizes
    <3>7. g.idx[f.cluster] = 0
      BY <3>4, <3>5, <3>6, FirstCluster
    <3>8. first = f.cluster
      BY <2>2
    <3> HIDE DEF first, f
    <3> QED BY <3>2, <3>3, <3>7, <3>8
  <2> HIDE DEF first, f
  <2> QED BY <2>1, <2>2
<1>11. /\ fh'[h] = [f EXCEPT !.cluster = first, !.off = p % CLUSTER_SIZE, !.pos = p]
       /\ \A j \in Handles \ {h} : fh'[j] = fh[j]
       /\ fh' = [j \in Handles |-> fh'[j]]
  BY <1>1, PartsOf DEF TypeInv
<1> HIDE DEF first, n
<1>12. /\ fh'[h].cluster = first /\ fh'[h].off = p % CLUSTER_SIZE /\ fh'[h].pos = p
       /\ fh'[h].nm = f.nm /\ fh'[h].mode = f.mode /\ fh'[h].dircluster = f.dircluster
       /\ fh'[h].diroff = f.diroff /\ fh'[h].firstcluster = f.firstcluster
       /\ fh'[h].size = f.size /\ fh'[h].dirty = f.dirty
       /\ fh'[h] \in HandleType
  <2>1. p \in 0 .. MaxSize
    BY <1>1, <1>3, <1>4, Sizes DEF HandleType
  <2> HIDE DEF f
  <2> QED BY <1>4, <1>5, <1>10, <1>11, <2>1 DEF HandleType
<1>13. fh' \in [Handles -> HandleType]
  BY <1>11, <1>12, PartsOf DEF TypeInv
<1>14. \A c, s : Slot(c, s)' = Slot(c, s)
  BY <1>8 DEF Slot, View
<1>15. HandleOK(g, h)'
  <2>1. SeekLeft(h)' = n
    BY <1>7 DEF SeekLeft
  <2>2. fh'[h].pos = (g.idx[first] + n) * CLUSTER_SIZE + fh'[h].off
    BY <1>5, <1>10, <1>12
  <2>3. \A j \in Handles : fh'[j].nm = f.nm => h = j
    BY <1>4, <1>11, <1>12 DEF HandleOK
  <2>4. first # 0
    BY <1>10, Numbered
  <2>5. p <= g.ext[f.nm]
    BY <1>1, <1>3, <1>4 DEF HandleOK
  <2>6. closed' = closed
    BY <1>8
  <2>7. p <= f.size
    BY <1>1, <1>3, <1>4
  <2> HIDE DEF SeekLeft
  <2> QED BY <1>4, <1>10, <1>12, <1>14, <2>1, <2>2, <2>3, <2>4, <2>5, <2>6, <2>7 DEF HandleOK
<1>16. HandlesOK(g)'
  <2>1. ASSUME NEW j \in Handles \ {h}, fh[j] # NoHandle
        PROVE  /\ fh'[h].nm # fh[j].nm
               /\ Slot(fh[j].dircluster, fh[j].diroff)' = Slot(fh[j].dircluster, fh[j].diroff)
               /\ closed'[fh[j].nm] \in {closed[fh[j].nm], NoFile}
               /\ g.moving = fh[j].nm => g.moving = fh[j].nm
               /\ fh[j].cluster # 0 => /\ g.own[fh[j].cluster] = g.own[fh[j].cluster]
                                       /\ g.idx[fh[j].cluster] = g.idx[fh[j].cluster]
               /\ g.ext[fh[j].nm] \in Nat /\ g.ext[fh[j].nm] <= g.ext[fh[j].nm]
    <3>1. fh[j].nm # f.nm /\ g.ext[fh[j].nm] \in Nat
      BY <1>4, <2>1, OtherNames, HandleTypes
    <3>2. fh'[j] = fh[j]
      BY <1>11
    <3> QED BY <1>8, <1>12, <3>1, <3>2 DEF Slot, View
  <2>2. call.op = "none" /\ call'.h = h /\ Holds(g)
    BY <1>1, <1>7
  <2>3. \A j \in Handles \ {h} : fh'[j] = fh[j]
    BY <1>11
  <2> HIDE DEF f
  <2> QED BY <2>1, <2>2, <2>3, <1>15, HandlesBut
<1>17. CallOK(g)'
  <2>1. PhaseOK' /\ DirCallOK(g)' /\ WriteOK(g)' /\ ReadOK(g)'
    BY <1>7 DEF PhaseOK, DirCallOK, WriteOK, ReadOK
  <2>2. fh'[h] # NoHandle /\ fh'[h].cluster # 0 /\ fh'[h].pos < fh'[h].size
    <3>1. fh'[h] # NoHandle
      <4>1. NoHandle.mode = "free"
        BY DEF NoHandle
      <4>2. fh'[h].mode # "free"
        BY <1>1, <1>12
      <4> QED BY <4>1, <4>2
    <3> QED BY <1>1, <1>10, <1>12, <3>1, Numbered
  <2> QED BY <1>7, <1>9, <2>1, <2>2 DEF CallOK
<1>18. TypeInv /\ BuffersOK /\ DiskOK(g) /\ right = TRUE
  BY PartsOf
<1>19. Quiet
  BY <1>8, <1>18, QuietStill
<1>20. Writers \subseteq Writers'
  <2>1. \A j \in Handles : fh'[j].mode = fh[j].mode /\ fh'[j].nm = fh[j].nm
    BY <1>11, <1>12
  <2> QED BY <2>1 DEF Writers
<1>21. /\ fdNextCluster' \in g.dirs /\ lastdircluster' \in g.dirs
       /\ fatAllocNext' \in CLUSTER_FIRST_USER .. LastCluster + 1
       /\ closed' \in [Names -> {NoFile} \cup (0 .. MaxSize)]
       /\ \A m \in Names : closed'[m] \in {closed[m], NoFile}
  BY <1>8, <1>18, DirsIn DEF TypeInv, private
<1>22. ~Emptying
  BY <1>1, OutOf DEF Emptying
<1> QED BY <1>1, <1>6, <1>8, <1>13, <1>16, <1>17, <1>18, <1>19, <1>20, <1>21, <1>22, QuietHolds


-----------------------------------------------------------------------------
(***************************************************************************)
(* The steps that only look.                                               *)
(***************************************************************************)

\* A quiet step that goes on with the call, or ends it.
LEMMA GoesOn ==
  ASSUME NEW g, Holds(g), Quiet, UNCHANGED <<private, fh, closed, bypassed>>, right' = TRUE,
         call' \in CallType, CallOK(g)', call.at # "seek", call'.at # "seek",
         Emptying => Emptying',
         call.op = "write" => call'.op = "write" /\ call'.h = call.h
  PROVE  Holds(g)'
<1>1. TypeInv /\ DiskOK(g)
  BY PartsOf
<1>2. /\ fdNextCluster' \in g.dirs /\ lastdircluster' \in g.dirs
      /\ fatAllocNext' \in CLUSTER_FIRST_USER .. LastCluster + 1
      /\ fh' \in [Handles -> HandleType]
      /\ closed' \in [Names -> {NoFile} \cup (0 .. MaxSize)]
      /\ \A m \in Names : closed'[m] \in {closed[m], NoFile}
  BY <1>1, DirsIn DEF TypeInv, private
<1>3. \A c \in Clusters, s \in Slots : Slot(c, s)' = Slot(c, s)
  BY <1>1, <1>2, QuietKeeps
<1>4. \A h \in Handles : SeekLeft(h)' = SeekLeft(h) /\ (Writing(h) => Writing(h)')
  BY DEF SeekLeft, Writing
<1>5. HandlesOK(g)'
  BY <1>2, <1>3, <1>4, HandlesStay
<1>6. Writers' = Writers
  BY DEF Writers
<1> QED BY <1>2, <1>5, <1>6, QuietHolds

\* The fields of a call that goes on at another place.
LEMMA NextAt ==
  ASSUME TypeInv, NEW a, call' = [call EXCEPT !.at = a]
  PROVE  /\ call'.at = a /\ call'.op = call.op /\ call'.h = call.h /\ call'.nm = call.nm
         /\ call'.c = call.c /\ call'.x = call.x /\ call'.s = call.s
         /\ call'.num = call.num /\ call'.n = call.n
         /\ a \in {"flush", "replace", "grow", "setfirst", "put", "extend", "linear", "chain",
                   "direct"} => call' \in CallType
BY DEF TypeInv, CallType

\* The links of the directory.
LEMMA LinkIn ==
  ASSUME NEW g, Holds(g), NEW c \in g.dirs
  PROVE  /\ c \in Clusters /\ View(c) \in Parts
         /\ View(c).link # 0 => /\ View(c).link \in g.dirs
                                /\ g.pos[View(c).link] = g.pos[c] + 1
         /\ View(c).link = 0 => g.pos[c] + 1 = g.dlen
<1>1. DirsOK(g) /\ BuffersType /\ BuffersOK
  BY PartsOf, TypesOf DEF DiskOK
<1>2. c \in Clusters
  BY DirsIn
<1>3. View(c) \in Parts
  BY <1>1, <1>2, ViewType
<1>4. IF g.pos[c] + 1 = g.dlen THEN View(c).link = 0
      ELSE View(c).link \in g.dirs /\ g.pos[View(c).link] = g.pos[c] + 1
  BY <1>1 DEF DirsOK
<1>5. 0 \notin g.dirs
  BY DirsIn, Numbered
<1> QED BY <1>2, <1>3, <1>4, <1>5

\* FDFind, one cluster of the directory: the map stays.
LEMMA FindHolds ==
  ASSUME NEW g, Holds(g), FDFind
  PROVE  Holds(g)'
<1> DEFINE found == {s \in Slots : Contents(call.c).slot[s].nm = call.nm}
           link == Contents(call.c).link
           next == IF link = 0 THEN ROOT_DIR_CLUSTER ELSE link
<1>1. call.at = "find" /\ Look(call.c, FSBPRI_SYS)
      /\ UNCHANGED <<fatbuf, fatAllocNext, lastdircluster, fh, history>>
  BY DEF FDFind
<1>2. /\ TypeInv /\ BuffersOK /\ call \in CallType /\ CallOK(g) /\ DirCallOK(g)
      /\ call.c \in g.dirs /\ call.c \in Clusters /\ right = TRUE
  BY <1>1, PartsOf, DirsIn DEF TypeInv, CallOK, DirCallOK
<1>3. Quiet /\ Contents(call.c) = View(call.c)
  BY <1>1, <1>2, QuietLook
<1>4. next \in g.dirs /\ next \in Clusters
  BY <1>2, <1>3, LinkIn, DirsIn
<1>5. call.op \in {"open", "delete"} /\ g.moving = Nil /\ g.loose = {}
  BY <1>1, <1>2 DEF CallOK, PhaseOK
<1>6. /\ \A n \in Names : closed'[n] \in {closed[n], NoFile}
      /\ closed' \in [Names -> {NoFile} \cup (0 .. MaxSize)]
      /\ closed' = closed /\ bypassed' = bypassed /\ right' = TRUE /\ fh' = fh
      /\ fatAllocNext' \in CLUSTER_FIRST_USER .. LastCluster + 1
      /\ lastdircluster' \in g.dirs /\ lastdircluster \in g.dirs /\ fdNextCluster \in g.dirs
      /\ fh' \in [Handles -> HandleType]
  BY <1>1, <1>2, DirsIn DEF TypeInv, history
<1>7. fdNextCluster' \in g.dirs
  BY <1>2, <1>6 DEF FDFind
<1>8. \A c \in Clusters, s \in Slots : Slot(c, s)' = Slot(c, s)
  BY <1>3, <1>6, <1>7, PartsOf, QuietKeeps
<1>9. call' \in CallType /\ CallOK(g)' /\ call'.at # "seek"
  <2>1. CASE call' = NoCall
    BY <1>5, <2>1, CallOut DEF NoCall
  <2>2. CASE found # {} /\ call' = [call EXCEPT !.at = "entry", !.s = Min(found)]
    <3> DEFINE s == Min(found)
    <3>1. s \in found
      <4>1. found \subseteq Nat
        BY Numbered
      <4> HIDE DEF found
      <4> QED BY <2>2, <4>1, MinIsLeast
    <3>2. s \in Slots /\ Slot(call.c, s).nm = call.nm
      BY <1>3, <3>1 DEF Slot
    <3> HIDE DEF s
    <3>3. /\ call'.at = "entry" /\ call'.op = call.op /\ call'.h = call.h /\ call'.nm = call.nm
          /\ call'.c = call.c /\ call'.s = s /\ call' \in CallType
      BY <1>2, <2>2, <3>2 DEF CallType, s
    <3>4. Slot(call.c, call.s)'.nm = call'.nm
      BY <1>2, <1>8, <3>2, <3>3
    <3> QED BY <1>2, <1>5, <1>6, <3>3, <3>4
            DEF CallOK, PhaseOK, DirCallOK, WriteOK, ReadOK, Open
  <2>3. CASE call' = [call EXCEPT !.c = next]
    <3> HIDE DEF next
    <3>1. /\ call'.at = "find" /\ call'.op = call.op /\ call'.h = call.h /\ call'.nm = call.nm
          /\ call'.c = next /\ call' \in CallType
      BY <1>1, <1>2, <1>4, <2>3 DEF CallType
    <3> QED BY <1>2, <1>4, <1>5, <1>6, <3>1 DEF CallOK, PhaseOK, DirCallOK, WriteOK, ReadOK, Open
  <2> QED BY <2>1, <2>2, <2>3 DEF FDFind, Return
<1>10. \A h \in Handles : SeekLeft(h)' = SeekLeft(h) /\ ~Writing(h)
  BY <1>1, <1>5, <1>9 DEF SeekLeft, Writing
<1>11. HandlesOK(g)'
  BY <1>6, <1>8, <1>10, HandlesStay
<1>12. Writers' = Writers /\ ~Emptying
  BY <1>1, <1>5, <1>6 DEF Writers, Emptying
<1> QED BY <1>3, <1>6, <1>7, <1>9, <1>11, <1>12, QuietHolds

\* The machine starts again: nothing was left to write.
LEMMA InitAgainHolds ==
  ASSUME NEW g, Holds(g), FSInit
  PROVE  Holds(g)'
<1>1. /\ call.op = "none" /\ \A h \in Handles : fh[h].mode = "free"
      /\ fatAllocNext' = 3 /\ fdNextCluster' = 3 /\ lastdircluster' = 3
      /\ fsb_t' = EmptyBuffers /\ fatbuf' = EmptyFat
      /\ UNCHANGED <<disk, fh, call, closed, bypassed, right>>
  BY DEF FSInit, Idle, fsResetPrivates
<1>2. TypeInv /\ BuffersOK /\ CleanOK /\ DiskOK(g) /\ CallOK(g) /\ right = TRUE
  BY PartsOf
<1>3. Clean
  <2>1. Writers = {}
    BY <1>1 DEF Writers
  <2>2. ~Emptying
    BY <1>1, OutOf DEF Emptying
  <2> QED BY <1>2, <2>1, <2>2 DEF CleanOK
<1>4. Still
  <2>1. BuffersType /\ (\A b \in Buffers : fsb_t[b].dirty = 0)
    BY <1>2, <1>3, TypesOf DEF Clean
  <2> QED BY <1>1, <1>2, <2>1, EmptyKeeps DEF Still, BuffersWell
<1>5. FatQuiet
  <2>1. fatbuf' = [first |-> 0, dirty |-> FALSE, buf |-> [c \in {} |-> CLUSTER_UNUSED]]
    BY <1>1 DEF EmptyFat
  <2>2. disk \in DiskType
    BY <1>2, TypesOf
  <2>3. FatGood(Fat)'
    <3>1. fatbuf'.buf \in [{} -> Marks]
      BY <2>1
    <3>2. Fat' = [disk |-> disk, fat |-> fatbuf']
      BY <1>1 DEF Fat
    <3>3. fatbuf'.first = 0 /\ fatbuf'.dirty = FALSE
          /\ fatbuf' = [first |-> fatbuf'.first, dirty |-> fatbuf'.dirty, buf |-> fatbuf'.buf]
      BY <2>1
    <3> QED BY <2>2, <3>1, <3>2, <3>3 DEF FatGood, InWindow
  <2>4. ASSUME NEW c \in Clusters
        PROVE  Table[c] = disk.fat[c]
    BY <1>2, <1>3 DEF TypeInv, FatGood, Fat, Table, Mark, Clean
  <2>5. \A c \in Clusters : Table'[c] = disk.fat[c]
    BY <1>1, <2>1 DEF Table, Mark, Fat, InWindow
  <2>6. Table' = Table
    BY <2>4, <2>5 DEF Table, Mark
  <2> QED BY <1>1, <2>1, <2>3, <2>6 DEF FatQuiet, FatStep
<1>6. 3 \in g.dirs
  BY DirsIn
<1>7. Quiet
  BY <1>4, <1>5 DEF Quiet
<1>8. \A c \in Clusters, s \in Slots : Slot(c, s)' = Slot(c, s)
  BY <1>1, <1>2, <1>6, <1>7, QuietKeeps
<1>9. call.at = "out" /\ g.moving = Nil /\ g.loose = {}
  BY <1>1, OutOf
<1>10. CallOK(g)'
  BY <1>1, <1>9 DEF CallOK, PhaseOK, DirCallOK, WriteOK, ReadOK
<1>11. HandlesOK(g)'
  <2>1. \A h \in Handles : SeekLeft(h)' = SeekLeft(h) /\ Writing(h)' = Writing(h)
    BY <1>1 DEF SeekLeft, Writing
  <2> QED BY <1>1, <1>8, <2>1, HandlesStay
<1>12. Writers' = Writers /\ (Emptying => Emptying')
  BY <1>1 DEF Writers, Emptying
<1>13. /\ 3 \in CLUSTER_FIRST_USER .. LastCluster + 1
       /\ fh' \in [Handles -> HandleType] /\ call' \in CallType
       /\ closed' \in [Names -> {NoFile} \cup (0 .. MaxSize)]
  BY <1>1, <1>2, Sizes DEF TypeInv
<1> QED BY <1>1, <1>2, <1>6, <1>7, <1>10, <1>11, <1>12, <1>13, QuietHolds

\* A handle that is given out.
LEMMA OpenEntryHolds ==
  ASSUME NEW g, Holds(g), OpenEntry
  PROVE  Holds(g)'
<1>1. /\ call.op = "open" /\ call.at = "entry" /\ Look(call.c, FSBPRI_SYS)
      /\ call' = NoCall /\ UNCHANGED <<fatbuf, private, history>>
  BY DEF OpenEntry, Return
<1>2. /\ TypeInv /\ BuffersOK /\ call \in CallType /\ CallOK(g) /\ DirCallOK(g) /\ DiskOK(g)
      /\ right = TRUE /\ fh \in [Handles -> HandleType]
  BY PartsOf DEF TypeInv, CallOK
<1>3. /\ call.c \in g.dirs /\ Slot(call.c, call.s).nm = call.nm /\ call.nm \in Names
      /\ ~Open(call.nm) /\ call.h \in Handles /\ fh[call.h] = NoHandle
      /\ g.moving = Nil /\ g.loose = {} /\ call.c \in Clusters /\ call.s \in Slots
  BY <1>1, <1>2, DirsIn DEF CallOK, DirCallOK, CallType
<1>4. PICK h \in Handles, c \in g.dirs, s \in Slots, n \in Names :
        h = call.h /\ c = call.c /\ s = call.s /\ n = call.nm
  BY <1>3
<1>5. Quiet /\ Contents(c) = View(c) /\ View(c) \in Parts /\ c \in Clusters
  BY <1>1, <1>2, <1>3, <1>4, QuietLook, LinkIn
<1> DEFINE e == Slot(c, s)
<1>6. fh' = [fh EXCEPT ![h] =
                  [NoHandle EXCEPT !.nm = n, !.mode = "read", !.size = e.size,
                                   !.dircluster = c, !.diroff = s,
                                   !.firstcluster = e.cluster, !.cluster = e.cluster]]
  BY <1>4, <1>5 DEF OpenEntry, Slot
<1>7. e.size \in 0 .. MaxSize /\ e.cluster \in {0} \cup Clusters /\ e.nm = n
  BY <1>3, <1>4, <1>5 DEF Slot, Parts
<1>8. /\ fdNextCluster' \in g.dirs /\ lastdircluster' \in g.dirs
      /\ fatAllocNext' \in CLUSTER_FIRST_USER .. LastCluster + 1
      /\ bypassed' = bypassed /\ closed' = closed /\ right' = TRUE
      /\ closed' \in [Names -> {NoFile} \cup (0 .. MaxSize)]
  BY <1>1, <1>2, DirsIn DEF TypeInv, private, history
<1>9. \A d \in Clusters, t \in Slots : Slot(d, t)' = Slot(d, t)
  BY <1>2, <1>5, <1>8, QuietKeeps
<1>10. Slot(c, s)' = e
  BY <1>5, <1>9
<1>11. Headed(g, n, e.cluster) /\ e.size <= g.ext[n] /\ g.ext[n] <= g.len[n] * CLUSTER_SIZE
  BY <1>2, <1>3, <1>5, <1>7, Nils DEF DiskOK, EntriesOK
<1>12. g.ext[n] \in Nat /\ e.size \in Nat
  BY <1>2, <1>7, Sizes DEF DiskOK, Maps
<1> HIDE DEF e
<1>13. fh'[h] = [nm |-> n, mode |-> "read", dircluster |-> c, diroff |-> s,
                 firstcluster |-> e.cluster, cluster |-> e.cluster, off |-> 0, pos |-> 0,
                 size |-> e.size, dirty |-> FALSE]
  BY <1>2, <1>6 DEF NoHandle
<1>14. \A j \in Handles \ {h} : fh'[j] = fh[j]
  BY <1>2, <1>6
<1>15. /\ fh'[h].nm = n /\ fh'[h].mode = "read" /\ fh'[h].dircluster = c
       /\ fh'[h].diroff = s /\ fh'[h].firstcluster = e.cluster /\ fh'[h].cluster = e.cluster
       /\ fh'[h].off = 0 /\ fh'[h].pos = 0 /\ fh'[h].size = e.size /\ fh'[h].dirty = FALSE
       /\ fh'[h] \in HandleType
  BY <1>5, <1>7, <1>13, Sizes DEF HandleType
<1>16. fh' \in [Handles -> HandleType]
  <2>1. \A j \in Handles : fh'[j] \in HandleType
    BY <1>2, <1>14, <1>15
  <2> QED BY <1>2, <1>6, <2>1
<1>17. \A j \in Handles : fh[j].nm # n
  BY <1>3, <1>4 DEF Open
<1>18. HandleOK(g, h)'
  <2>1. SeekLeft(h)' = 0
    BY <1>1 DEF SeekLeft, NoCall
  <2>2. e.cluster = 0 => e.size = 0
    BY <1>11, <1>12, Numbered, Sizes DEF Headed
  <2>3. e.cluster # 0 => g.own[e.cluster] = n /\ g.idx[e.cluster] = 0
    BY <1>11 DEF Headed
  <2>4. \A j \in Handles : fh'[j].nm = n => h = j
    BY <1>14, <1>17
  <2> HIDE DEF SeekLeft
  <2> QED BY <1>5, <1>7, <1>10, <1>11, <1>12, <1>15, <2>1, <2>2, <2>3, <2>4, Sizes
          DEF HandleOK
<1>19. HandlesOK(g)'
  <2>1. ASSUME NEW j \in Handles \ {h}, fh[j] # NoHandle
        PROVE  /\ fh'[h].nm # fh[j].nm
               /\ Slot(fh[j].dircluster, fh[j].diroff)' = Slot(fh[j].dircluster, fh[j].diroff)
               /\ closed'[fh[j].nm] \in {closed[fh[j].nm], NoFile}
               /\ g.moving = fh[j].nm => g.moving = fh[j].nm
               /\ fh[j].cluster # 0 => /\ g.own[fh[j].cluster] = g.own[fh[j].cluster]
                                       /\ g.idx[fh[j].cluster] = g.idx[fh[j].cluster]
               /\ g.ext[fh[j].nm] \in Nat /\ g.ext[fh[j].nm] <= g.ext[fh[j].nm]
    <3>1. HandleOK(g, j) /\ g.ext[fh[j].nm] \in Nat
      BY <2>1, HandleTypes
    <3>2. fh'[j] = fh[j] /\ fh[j].dircluster \in Clusters /\ fh[j].diroff \in Slots
      BY <1>14, <3>1 DEF HandleOK
    <3> QED BY <1>8, <1>9, <1>15, <1>17, <3>1, <3>2
  <2>2. call.h = h /\ call' = NoCall
    BY <1>1, <1>4
  <2> QED BY <1>14, <1>18, <2>1, <2>2, HandlesBut
<1>20. CallOK(g)' /\ call' \in CallType
  BY <1>1, <1>3, CallOut
<1>21. Writers \subseteq Writers' /\ ~Emptying
  <2>1. fh[h].mode = "free"
    BY <1>3, <1>4 DEF NoHandle
  <2> QED BY <1>1, <1>14, <2>1 DEF Writers, Emptying
<1> QED BY <1>5, <1>8, <1>16, <1>19, <1>20, <1>21, QuietHolds

\* One buffer is written.
LEMMA FlushBufferHolds ==
  ASSUME NEW g, Holds(g), FlushBuffer
  PROVE  Holds(g)'
<1> DEFINE dirty == {b \in Buffers : fsb_t[b].dirty # 0}
           k == Min(dirty)
<1>1. /\ call.at = "flush" /\ dirty # {} /\ disk' = Written(disk, k)
      /\ fsb_t' = [fsb_t EXCEPT ![k].dirty = 0]
      /\ UNCHANGED <<fatbuf, private, fh, call, history>>
  BY DEF FlushBuffer
<1>2. /\ TypeInv /\ BuffersOK /\ call \in CallType /\ CallOK(g) /\ DirCallOK(g) /\ DiskOK(g)
      /\ right = TRUE /\ BuffersType
  BY PartsOf, TypesOf DEF TypeInv, CallOK
<1>3. k \in Buffers /\ fsb_t[k].dirty # 0
  <2>1. dirty \subseteq Nat
    BY Numbered
  <2>2. k \in dirty
    <3> HIDE DEF dirty
    <3> QED BY <1>1, <2>1, MinIsLeast
  <2> QED BY <2>2
<1> HIDE DEF k, dirty
<1>4. Still /\ disk'.fat = disk.fat
  BY <1>1, <1>2, <1>3, FlushKeeps DEF Still, BuffersWell
<1>5. FatQuiet
  BY <1>1, <1>2, <1>4, DiskTypeOf, TableStill DEF Still
<1>6. Quiet
  BY <1>4, <1>5 DEF Quiet
<1>7. g.moving = Nil /\ g.loose = {} /\ call.op \in {"delete", "flush", "close"}
  BY <1>1, <1>2 DEF CallOK, PhaseOK
<1>8. UNCHANGED <<private, fh, closed, bypassed>> /\ right' = TRUE /\ call' = call
  BY <1>1, <1>2 DEF history
<1>9. \A c \in Clusters, s \in Slots : Slot(c, s)' = Slot(c, s)
  BY <1>4, KeptGives DEF Still
<1>10. CallOK(g)'
  <2>1. call.op = "close" => Slot(fh[call.h].dircluster, fh[call.h].diroff)'.size = fh[call.h].size
    <3> SUFFICES ASSUME call.op = "close"
                 PROVE  Slot(fh[call.h].dircluster, fh[call.h].diroff)'.size = fh[call.h].size
      OBVIOUS
    <3>1. call.h \in Handles /\ fh[call.h] # NoHandle
          /\ Slot(fh[call.h].dircluster, fh[call.h].diroff).size = fh[call.h].size
      BY <1>1, <1>2 DEF CallOK
    <3>2. fh[call.h].dircluster \in Clusters /\ fh[call.h].diroff \in Slots
      BY <3>1, HandleTypes DEF HandleOK
    <3> QED BY <1>8, <1>9, <3>1, <3>2
  <2>2. PhaseOK' /\ WriteOK(g)' /\ ReadOK(g)'
    BY <1>1, <1>2, <1>7, <1>8 DEF PhaseOK, CallOK, WriteOK, ReadOK
  <2>3. DirCallOK(g)'
    BY <1>1, <1>2, <1>7, <1>8 DEF DirCallOK, Open
  <2> QED BY <1>1, <1>2, <1>7, <1>8, <2>1, <2>2, <2>3 DEF CallOK
<1>11. call' \in CallType
  BY <1>2, <1>8
<1>12. Emptying => Emptying'
  BY <1>8 DEF Emptying
<1> QED BY <1>1, <1>6, <1>7, <1>8, <1>10, <1>11, <1>12, GoesOn

\* The table's buffer is written.
LEMMA FatFlushKeeps ==
  ASSUME TypeInv, BuffersOK, disk' = FatFlushed(fatbuf, disk),
         fatbuf' = [fatbuf EXCEPT !.dirty = FALSE], fsb_t' = fsb_t
  PROVE  /\ Quiet /\ fatbuf'.dirty = FALSE /\ disk'.cluster = disk.cluster
         /\ \A c \in Clusters : disk'.fat[c] = Table'[c]
<1>1. FatGood(Fat) /\ disk \in DiskType
  BY TypesOf
<1>2. Fat.fat = fatbuf /\ Fat.disk = disk
  BY DEF Fat
<1>3. /\ disk' \in DiskType /\ disk'.cluster = disk.cluster
      /\ \A c \in Clusters : disk'.fat[c] \in {disk.fat[c], Table[c]}
      /\ \A c \in Clusters : InWindow(fatbuf, c) => disk'.fat[c] = fatbuf.buf[c]
      /\ fatbuf.dirty => disk'.fat = Table
  BY <1>1, <1>2, FatFlushedIs DEF Table
<1>4. /\ fatbuf' = [first |-> fatbuf.first, dirty |-> FALSE, buf |-> fatbuf.buf]
  BY <1>1, <1>2 DEF FatGood
<1>5. fatbuf'.first = fatbuf.first /\ fatbuf'.dirty = FALSE /\ fatbuf'.buf = fatbuf.buf
      /\ fatbuf' = [first |-> fatbuf'.first, dirty |-> fatbuf'.dirty, buf |-> fatbuf'.buf]
  BY <1>4
<1>6. \A c \in Clusters : InWindow(fatbuf', c) = InWindow(fatbuf, c)
  BY <1>5 DEF InWindow
<1>7. FatGood(Fat)'
  <2>1. Fat' = [disk |-> disk', fat |-> fatbuf']
    BY DEF Fat
  <2>2. /\ fatbuf.first \in {0} \cup Clusters
        /\ fatbuf.buf \in [IF fatbuf.first = 0 THEN {} ELSE Window(fatbuf.first) -> Marks]
    BY <1>1, <1>2 DEF FatGood
  <2>3. \A c \in Clusters : InWindow(fatbuf', c) => fatbuf'.buf[c] = disk'.fat[c]
    BY <1>3, <1>5, <1>6
  <2> QED BY <1>3, <1>5, <2>1, <2>2, <2>3 DEF FatGood
<1>8. ASSUME NEW c \in Clusters
      PROVE  Table'[c] = disk'.fat[c] /\ Table[c] = disk'.fat[c]
  <2>1. Table'[c] = IF InWindow(fatbuf', c) THEN fatbuf'.buf[c] ELSE disk'.fat[c]
    <3>1. Fat' = [disk |-> disk', fat |-> fatbuf']
      BY DEF Fat
    <3>2. Fat'.fat = fatbuf' /\ Fat'.disk = disk'
      BY <3>1
    <3>3. Table'[c] = IF InWindow(Fat'.fat, c) THEN Fat'.fat.buf[c] ELSE Fat'.disk.fat[c]
      BY DEF Table, Mark
    <3>4. InWindow(Fat'.fat, c) = InWindow(fatbuf', c)
      BY <3>2
    <3> QED BY <3>2, <3>3, <3>4
  <2>2. Table[c] = IF InWindow(fatbuf, c) THEN fatbuf.buf[c] ELSE disk.fat[c]
    BY DEF Table, Mark, Fat
  <2>3. disk'.fat[c] \in {disk.fat[c], Table[c]}
    BY <1>3
  <2> QED BY <1>3, <1>5, <1>6, <2>1, <2>2, <2>3
<1>9. Table' = Table
  BY <1>8 DEF Table, Mark
<1>10. Still
  BY <1>3, FatStillKeeps
<1> QED BY <1>3, <1>5, <1>7, <1>8, <1>9, <1>10 DEF Quiet, FatQuiet, FatStep

\* All is written.
LEMMA FlushFatHolds ==
  ASSUME NEW g, Holds(g), FlushFat
  PROVE  Holds(g)'
<1>1. /\ call.at = "flush" /\ \A b \in Buffers : fsb_t[b].dirty = 0
      /\ disk' = FatFlushed(fatbuf, disk) /\ fatbuf' = [fatbuf EXCEPT !.dirty = FALSE]
      /\ call' = NoCall /\ UNCHANGED <<fsb_t, bypassed, right, calls>>
  BY DEF FlushFat, Return
<1>2. /\ TypeInv /\ BuffersOK /\ call \in CallType /\ CallOK(g) /\ DiskOK(g)
      /\ right = TRUE /\ BuffersType /\ fh \in [Handles -> HandleType]
      /\ fatAllocNext \in CLUSTER_FIRST_USER .. LastCluster + 1
      /\ closed \in [Names -> {NoFile} \cup (0 .. MaxSize)] /\ bypassed \subseteq Clusters
      /\ fdNextCluster \in g.dirs /\ lastdircluster \in g.dirs /\ 3 \in g.dirs
  BY PartsOf, TypesOf, DirsIn DEF TypeInv
<1>3. /\ Quiet /\ fatbuf'.dirty = FALSE /\ disk'.cluster = disk.cluster
      /\ \A c \in Clusters : disk'.fat[c] = Table'[c]
  BY <1>1, <1>2, FatFlushKeeps
<1>4. g.moving = Nil /\ g.loose = {}
  BY <1>1, <1>2 DEF CallOK, PhaseOK
<1>5. CallOK(g)' /\ call' \in CallType
  BY <1>1, <1>4, CallOut
<1>6. CleanOK'
  BY <1>1, <1>3 DEF CleanOK, Clean
<1>7. 3 \in 3 .. LastCluster + 1
  BY Sizes
<1>8. fdNextCluster' \in g.dirs /\ lastdircluster' \in g.dirs
      /\ fatAllocNext' \in CLUSTER_FIRST_USER .. LastCluster + 1
  BY <1>2, <1>7 DEF FlushFat, private
<1>9. /\ ChainsOK(g)' /\ DirsOK(g)' /\ EntriesOK(g)' /\ WordsOK(g)'
      /\ \A n \in Names : closed'[n] \in {closed[n], NoFile} => PowerAt(g, n)'
      /\ \A c \in Clusters, s \in Slots : Slot(c, s)' = Slot(c, s)
  BY <1>1, <1>2, <1>3, <1>8, QuietParts
<1>10. BuffersType' /\ BuffersOK' /\ FatGood(Fat)'
  BY <1>3 DEF Quiet, Still, FatQuiet, FatStep
<1>11. CASE fh' = fh /\ closed' = closed
  <2>1. PowerOK(g)'
    BY <1>9, <1>11 DEF PowerOK
  <2>2. HandlesOK(g)'
    <3>1. \A h \in Handles : SeekLeft(h)' = SeekLeft(h) /\ ~Writing(h)
      BY <1>1, <1>2 DEF SeekLeft, Writing, NoCall, CallOK, PhaseOK
    <3> QED BY <1>9, <1>11, <3>1, HandlesStay
  <2>3. TypeInv'
    BY <1>1, <1>2, <1>5, <1>8, <1>10, <1>11, TypesKept
  <2>4. DiskOK(g)'
    BY <1>2, <1>9, <2>1 DEF DiskOK
  <2> QED BY <1>1, <1>2, <1>5, <1>6, <1>10, <2>2, <2>3, <2>4, HoldsOf
<1>12. CASE /\ call.op = "close" /\ fh' = [fh EXCEPT ![call.h] = NoHandle]
            /\ closed' = [closed EXCEPT ![fh[call.h].nm] = fh[call.h].size]
  <2>1. /\ call.h \in Handles /\ fh[call.h] # NoHandle
        /\ Slot(fh[call.h].dircluster, fh[call.h].diroff).size = fh[call.h].size
    BY <1>1, <1>2, <1>12 DEF CallOK
  <2>2. PICK h \in Handles : h = call.h
    BY <2>1
  <2> DEFINE n == fh[h].nm
             size == fh[h].size
             c == fh[h].dircluster
             s == fh[h].diroff
  <2>3. /\ HandleOK(g, h) /\ n \in Names /\ size \in 0 .. MaxSize /\ size \in Nat
        /\ c \in Clusters /\ s \in Slots /\ Slot(c, s).nm = n /\ Slot(c, s).size = size
    <3>1. HandleOK(g, h) /\ fh[h] \in HandleType /\ n \in Names
      BY <2>1, <2>2, HandleTypes
    <3> QED BY <2>1, <2>2, <3>1, Sizes DEF HandleOK, HandleType
  <2>4. PICK nn, ss, cc, tt : nn = n /\ ss = size /\ cc = c /\ tt = s
    OBVIOUS
  <2>5. /\ fh' = [fh EXCEPT ![h] = NoHandle] /\ closed' = [closed EXCEPT ![nn] = ss]
        /\ nn \in Names /\ ss \in 0 .. MaxSize /\ ss \in Nat
        /\ cc \in Clusters /\ tt \in Slots /\ Slot(cc, tt).nm = nn /\ Slot(cc, tt).size = ss
    BY <1>12, <2>2, <2>3, <2>4
  <2>6. cc \in g.dirs
    BY <1>2, <2>5, Nils DEF DiskOK, DirsOK
  <2>7. ASSUME NEW d \in Clusters
        PROVE  /\ disk'.cluster[d].slot = View(d)'.slot /\ disk'.cluster[d].link = View(d)'.link
               /\ ~Dirty(d)'
    <3>1. ~Dirty(d)'
      BY <1>1 DEF Dirty
    <3>2. CASE \A b \in Buffers : fsb_t'[b].cluster # d
      BY <1>10, <3>1, <3>2, ViewWillBe
    <3>3. CASE \E b \in Buffers : fsb_t'[b].cluster = d
      <4>1. PICK b \in Buffers : fsb_t'[b].cluster = d
        BY <3>3
      <4>2. View(d)' = fsb_t'[b].buf /\ d # 0 /\ fsb_t'[b].dirty = 0
        BY <1>1, <1>10, <4>1, ViewWillBe, Numbered
      <4> QED BY <1>10, <3>1, <4>1, <4>2 DEF BuffersOK
    <3> QED BY <3>2, <3>3
  <2>8. PowerAt(g, nn)'
    <3>1. Slot(cc, tt)' = Slot(cc, tt)
      BY <1>9, <2>5
    <3>2. disk'.cluster[cc].slot[tt] = Slot(cc, tt)'
      BY <2>5, <2>7 DEF Slot
    <3>3. \A d \in g.dirs : disk'.cluster[d].link = View(d)'.link
      BY <2>7, DirsIn
    <3>4. closed'[nn] = ss
      BY <1>2, <2>5
    <3>5. EntryOnDisk(g, nn)'
      BY <2>5, <2>6, <3>1, <3>2, <3>3, <3>4 DEF EntryOnDisk
    <3>6. nn # g.moving
      BY <1>4, <2>5, Nils
    <3> QED BY <1>3, <2>5, <2>7, <3>4, <3>5, <3>6 DEF PowerAt
  <2>9. PowerOK(g)'
    <3>1. \A m \in Names : m # nn => closed'[m] = closed[m]
      BY <1>2, <2>5
    <3> QED BY <1>9, <2>8, <3>1 DEF PowerOK
  <2>10. DiskOK(g)'
    BY <1>2, <1>9, <2>9 DEF DiskOK
  <2>11. \A j \in Handles \ {h} : fh'[j] = fh[j]
    BY <1>2, <2>5
  <2>12. fh'[h] = NoHandle
    BY <1>2, <2>5
  <2>13. HandlesOK(g)'
    <3>1. ASSUME NEW j \in Handles \ {h}, fh[j] # NoHandle
          PROVE  /\ fh'[h].nm # fh[j].nm \/ fh'[h] = NoHandle
                 /\ Slot(fh[j].dircluster, fh[j].diroff)' = Slot(fh[j].dircluster, fh[j].diroff)
                 /\ closed'[fh[j].nm] \in {closed[fh[j].nm], NoFile}
                 /\ g.moving = fh[j].nm => g.moving = fh[j].nm
                 /\ fh[j].cluster # 0 => /\ g.own[fh[j].cluster] = g.own[fh[j].cluster]
                                         /\ g.idx[fh[j].cluster] = g.idx[fh[j].cluster]
                 /\ g.ext[fh[j].nm] \in Nat /\ g.ext[fh[j].nm] <= g.ext[fh[j].nm]
      <4>1. HandleOK(g, j) /\ g.ext[fh[j].nm] \in Nat /\ fh[j].nm \in Names
        BY <3>1, HandleTypes
      <4>2. fh'[j] = fh[j] /\ fh[j].dircluster \in Clusters /\ fh[j].diroff \in Slots
        BY <2>11, <4>1 DEF HandleOK
      <4>3. fh[j].nm # nn
        BY <2>1, <2>2, <2>4, <3>1, OtherNames
      <4>4. closed'[fh[j].nm] = closed[fh[j].nm]
        BY <1>2, <2>5, <4>1, <4>3
      <4> QED BY <1>9, <2>12, <4>1, <4>2, <4>4
    <3>2. call.h = h /\ call' = NoCall
      BY <1>1, <2>2
    <3> QED BY <2>11, <2>12, <3>1, <3>2, HandlesBut
  <2>14. fh' \in [Handles -> HandleType]
    <3>1. NoHandle \in HandleType
      BY Numbered, Sizes DEF NoHandle, HandleType
    <3> QED BY <1>2, <2>5, <3>1
  <2>15. closed' \in [Names -> {NoFile} \cup (0 .. MaxSize)]
    BY <1>2, <2>5
  <2>16. TypeInv'
    BY <1>1, <1>2, <1>5, <1>8, <1>10, <2>14, <2>15, TypesKept
  <2> QED BY <1>1, <1>2, <1>5, <1>6, <1>10, <2>10, <2>13, <2>16, HoldsOf
<1> QED BY <1>11, <1>12 DEF FlushFat

-----------------------------------------------------------------------------
(***************************************************************************)
(* The steps that move the place of a handle in its file.                  *)
(***************************************************************************)

\* What a place in a file is.
PlaceOK(g, e, left) ==
  /\ e \in HandleType
  /\ e.cluster = 0 => e.pos = e.size /\ e.size > 0
  /\ e.cluster # 0 => /\ g.own[e.cluster] = e.nm
                      /\ e.pos = (g.idx[e.cluster] + left) * CLUSTER_SIZE + e.off
  /\ e.pos <= g.ext[e.nm]

SameFile(e, f) ==
  /\ e.nm = f.nm /\ e.mode = f.mode /\ e.dircluster = f.dircluster /\ e.diroff = f.diroff
  /\ e.firstcluster = f.firstcluster

\* A quiet step that moves it.
LEMMA PlaceHolds ==
  ASSUME NEW g, Holds(g), Quiet, UNCHANGED <<private, closed, bypassed>>, right' = TRUE,
         NEW h \in Handles, h = call.h, fh[h] # NoHandle, NEW e, fh' = [fh EXCEPT ![h] = e],
         SameFile(e, fh[h]), e.size = fh[h].size, e.dirty = fh[h].dirty,
         NEW left, PlaceOK(g, e, left), SeekLeft(h)' = left,
         e.pos <= e.size \/ Writing(h)', call'.h = h \/ call' = NoCall,
         call' \in CallType, CallOK(g)', Emptying => Emptying'
  PROVE  Holds(g)'
<1>0. PICK f : f = fh[h]
  OBVIOUS
<1>1. /\ TypeInv /\ BuffersOK /\ DiskOK(g) /\ right = TRUE /\ fh \in [Handles -> HandleType]
      /\ closed \in [Names -> {NoFile} \cup (0 .. MaxSize)]
      /\ fatAllocNext \in CLUSTER_FIRST_USER .. LastCluster + 1
      /\ fdNextCluster \in g.dirs /\ lastdircluster \in g.dirs
  BY PartsOf, DirsIn DEF TypeInv
<1>2. /\ fdNextCluster' \in g.dirs /\ lastdircluster' \in g.dirs
      /\ fatAllocNext' \in CLUSTER_FIRST_USER .. LastCluster + 1
      /\ closed' \in [Names -> {NoFile} \cup (0 .. MaxSize)]
      /\ \A m \in Names : closed'[m] \in {closed[m], NoFile}
      /\ closed' = closed /\ bypassed' = bypassed
  BY <1>1 DEF private
<1>3. \A c \in Clusters, s \in Slots : Slot(c, s)' = Slot(c, s)
  BY <1>1, <1>2, QuietKeeps
<1>4. fh'[h] = e /\ (\A j \in Handles \ {h} : fh'[j] = fh[j]) /\ fh' \in [Handles -> HandleType]
  BY <1>1 DEF PlaceOK
<1>5. HandleOK(g, h) /\ f.nm \in Names /\ f.dircluster \in Clusters /\ f.diroff \in Slots
  BY <1>0, HandleTypes DEF HandleOK
<1>6. Slot(f.dircluster, f.diroff)' = Slot(f.dircluster, f.diroff)
  BY <1>3, <1>5
<1>7. \A j \in Handles : fh'[j].nm = f.nm => h = j
  BY <1>0, <1>4, <1>5 DEF HandleOK
<1>8. e.nm = f.nm /\ e.mode = f.mode /\ e.dircluster = f.dircluster /\ e.diroff = f.diroff
      /\ e.firstcluster = f.firstcluster /\ e.size = f.size /\ e.dirty = f.dirty
  BY <1>0 DEF SameFile
<1>9. /\ f.mode \in {"read", "write"} /\ Slot(f.dircluster, f.diroff).nm = f.nm
      /\ f.nm # g.moving => Slot(f.dircluster, f.diroff).cluster = f.firstcluster
      /\ f.size <= g.ext[f.nm]
      /\ IF f.dirty THEN f.mode = "write" ELSE Slot(f.dircluster, f.diroff).size = f.size
      /\ f.mode = "write" => closed[f.nm] = NoFile
  BY <1>0, <1>5 DEF HandleOK
<1>10. HandleOK(g, h)'
  <2>1. /\ e.pos <= g.ext[f.nm]
        /\ e.cluster = 0 => e.pos = e.size /\ e.size > 0
        /\ e.cluster # 0 => g.own[e.cluster] = f.nm
        /\ e.cluster # 0 => e.pos = (g.idx[e.cluster] + left) * CLUSTER_SIZE + e.off
    BY <1>8 DEF PlaceOK
  <2>2. closed'[f.nm] = closed[f.nm]
    BY <1>2
  <2>3. IF e.cluster = 0 THEN e.pos = e.size
        ELSE /\ g.own[e.cluster] = f.nm
             /\ e.pos = (g.idx[e.cluster] + SeekLeft(h)') * CLUSTER_SIZE + e.off
    BY <2>1
  <2> HIDE DEF SeekLeft, Writing
  <2> QED BY <1>4, <1>5, <1>6, <1>7, <1>8, <1>9, <2>1, <2>2, <2>3 DEF HandleOK
<1>11. HandlesOK(g)'
  <2>1. ASSUME NEW j \in Handles \ {h}, fh[j] # NoHandle
        PROVE  /\ fh'[h].nm # fh[j].nm
               /\ Slot(fh[j].dircluster, fh[j].diroff)' = Slot(fh[j].dircluster, fh[j].diroff)
               /\ closed'[fh[j].nm] \in {closed[fh[j].nm], NoFile}
               /\ g.moving = fh[j].nm => g.moving = fh[j].nm
               /\ fh[j].cluster # 0 => /\ g.own[fh[j].cluster] = g.own[fh[j].cluster]
                                       /\ g.idx[fh[j].cluster] = g.idx[fh[j].cluster]
               /\ g.ext[fh[j].nm] \in Nat /\ g.ext[fh[j].nm] <= g.ext[fh[j].nm]
    <3>1. HandleOK(g, j) /\ g.ext[fh[j].nm] \in Nat
      BY <2>1, HandleTypes
    <3>2. fh'[j] = fh[j] /\ fh[j].dircluster \in Clusters /\ fh[j].diroff \in Slots
      BY <1>4, <3>1 DEF HandleOK
    <3>3. fh[j].nm # f.nm
      BY <1>0, <2>1, OtherNames
    <3> QED BY <1>2, <1>3, <1>4, <1>8, <3>1, <3>2, <3>3
  <2> QED BY <1>4, <1>10, <2>1, HandlesBut
<1>12. Writers \subseteq Writers'
  <2>1. \A j \in Handles : fh'[j].mode = fh[j].mode /\ fh'[j].nm = fh[j].nm
    BY <1>0, <1>4, <1>8
  <2> QED BY <2>1 DEF Writers
<1> QED BY <1>1, <1>2, <1>4, <1>11, <1>12, QuietHolds

\* The mark of a cluster of a file: the next cluster, or the end.
LEMMA NextIs ==
  ASSUME NEW g, Holds(g), NEW c \in Clusters, g.own[c] # Nil
  PROVE  /\ FATValue(Fat, c) = Table[c] /\ g.idx[c] \in Nat /\ g.own[c] \in Names
         /\ g.idx[c] < g.len[g.own[c]] /\ g.len[g.own[c]] \in Nat
         /\ Table[c] < CLUSTER_FIRST_USER => /\ Table[c] = CLUSTER_CHAIN_END
                                             /\ g.idx[c] + 1 = g.len[g.own[c]]
         /\ Table[c] >= CLUSTER_FIRST_USER => /\ Table[c] \in Clusters
                                              /\ g.own[Table[c]] = g.own[c]
                                              /\ g.idx[Table[c]] = g.idx[c] + 1
         /\ Table[c] \in Nat
<1>1. FatGood(Fat) /\ Table \in [Clusters -> Marks] /\ ChainsOK(g) /\ g \in Maps
  BY PartsOf, TypesOf DEF DiskOK
<1>2. FATValue(Fat, c) = Table[c]
  BY <1>1, ValueIs DEF Table
<1>3. g.idx[c] \in Nat /\ g.own[c] \in Names /\ g.len[g.own[c]] \in Nat
  BY <1>1 DEF Maps
<1>4. /\ g.idx[c] < g.len[g.own[c]]
      /\ IF g.idx[c] + 1 = g.len[g.own[c]] THEN Table[c] = 0
         ELSE /\ Table[c] \in Clusters /\ g.own[Table[c]] = g.own[c]
              /\ g.idx[Table[c]] = g.idx[c] + 1
  BY <1>1 DEF ChainsOK
<1>5. \A d \in Clusters : d \in Nat /\ d >= 3
  BY Numbered
<1> QED BY <1>2, <1>3, <1>4, <1>5

\* A look at the table is quiet.
LEMMA GetQuiet ==
  ASSUME NEW g, Holds(g), NEW c \in Clusters, SetFat(FSBFATGet(Fat, c)), fsb_t' = fsb_t
  PROVE  Quiet
<1>1. TypeInv /\ BuffersOK /\ FatGood(Fat)
  BY PartsOf, TypesOf
<1>2. FatGood(FSBFATGet(Fat, c)) /\ FatStill(Fat, FSBFATGet(Fat, c))
  BY <1>1, FatGetKeeps
<1> QED BY <1>1, <1>2, QuietFat

\* FSSeek, one cluster of the chain: the map stays.
LEMMA SeekClusterHolds ==
  ASSUME NEW g, Holds(g), SeekCluster
  PROVE  Holds(g)'
<1>1. call.at = "seek" /\ UNCHANGED <<fsb_t, private, history>>
  BY DEF SeekCluster
<1>2. /\ TypeInv /\ BuffersOK /\ call \in CallType /\ CallOK(g) /\ right = TRUE
      /\ fh \in [Handles -> HandleType] /\ call.op = "seek"
      /\ call.h \in Handles /\ fh[call.h] # NoHandle /\ fh[call.h].cluster # 0
      /\ fh[call.h].pos < fh[call.h].size /\ g.moving = Nil /\ g.loose = {}
  BY <1>1, PartsOf DEF TypeInv, CallOK, PhaseOK
<1>3. PICK h \in Handles, c \in Clusters, n \in Nat :
        h = call.h /\ c = fh[h].cluster /\ n = call.n
  BY <1>2, HandleTypes DEF CallType
<1>4. UNCHANGED <<private, closed, bypassed>> /\ right' = TRUE
  BY <1>1, <1>2 DEF history
<1>5. /\ fh[h] # NoHandle /\ HandleOK(g, h) /\ fh[h] \in HandleType /\ fh[h].pos < fh[h].size
      /\ fh[h].pos \in Nat /\ fh[h].size \in Nat
  BY <1>2, <1>3, HandleTypes
<1>6. SeekLeft(h) = n
  BY <1>1, <1>3 DEF SeekLeft
<1>7. /\ g.own[c] = fh[h].nm /\ fh[h].pos = (g.idx[c] + n) * CLUSTER_SIZE + fh[h].off
      /\ fh[h].pos <= g.ext[fh[h].nm] /\ fh[h].nm \in Names
  BY <1>2, <1>3, <1>5, <1>6 DEF HandleOK
<1>8. g.own[c] # Nil
  BY <1>7, Nils
<1>9. ~Emptying /\ ~Writing(h)
  BY <1>1, <1>2 DEF Emptying, Writing
<1>10. \/ n = 0 /\ call' = NoCall /\ UNCHANGED <<disk, fatbuf, fh>>
       \/ /\ n > 0 /\ SetFat(FSBFATGet(Fat, c))
          /\ IF Table[c] < 3 THEN call' = NoCall /\ fh' = fh
             ELSE fh' = [fh EXCEPT ![h].cluster = Table[c]] /\ call' = [call EXCEPT !.n = @ - 1]
  BY <1>3, <1>8, NextIs DEF SeekCluster, Return
<1>11. Quiet
  <2>1. CASE UNCHANGED <<disk, fatbuf>>
    BY <1>1, <1>2, <2>1, QuietStill
  <2>2. CASE SetFat(FSBFATGet(Fat, c))
    BY <1>1, <2>2, GetQuiet
  <2> QED BY <1>10, <2>1, <2>2
\* The file is longer than what is left to seek.
<1>12. n > 0 => Table[c] >= 3
  <2>1. SUFFICES ASSUME n > 0, Table[c] < 3 PROVE FALSE
    BY <1>8, NextIs
  <2>2. g.idx[c] + 1 = g.len[fh[h].nm] /\ g.idx[c] \in Nat
    BY <1>7, <1>8, <2>1, NextIs
  <2>3. g.ext[fh[h].nm] <= g.len[fh[h].nm] * CLUSTER_SIZE /\ g.ext[fh[h].nm] \in Nat
        /\ fh[h].size <= g.ext[fh[h].nm]
    BY <1>2, <1>5, <1>7, Nils, FirstIs, HandleTypes
  <2>4. g.len[fh[h].nm] <= g.idx[c] + n /\ g.len[fh[h].nm] \in Nat /\ g.idx[c] + n \in Nat
    BY <2>1, <2>2
  <2>5. g.len[fh[h].nm] * CLUSTER_SIZE <= (g.idx[c] + n) * CLUSTER_SIZE
    <3>1. CASE g.len[fh[h].nm] = g.idx[c] + n
      BY <2>4, <3>1, Times
    <3>2. CASE g.len[fh[h].nm] < g.idx[c] + n
      <4>1. g.len[fh[h].nm] * CLUSTER_SIZE + CLUSTER_SIZE <= (g.idx[c] + n) * CLUSTER_SIZE
        BY <2>4, <3>2, TimesApart
      <4> QED BY <2>4, <4>1, Times, Sizes
    <3> QED BY <2>4, <3>1, <3>2
  <2>6. fh[h].off \in Nat
    BY <1>5, Sizes DEF HandleType
  <2>7. (g.idx[c] + n) * CLUSTER_SIZE \in Nat /\ g.len[fh[h].nm] * CLUSTER_SIZE \in Nat
    BY <2>4, Times
  <2> QED BY <1>5, <1>7, <2>3, <2>5, <2>6, <2>7
<1>13. CASE call' = NoCall /\ fh' = fh
  <2>1. CallOK(g)' /\ call' \in CallType
    BY <1>2, <1>13, CallOut
  <2>2. n = 0
    <3>1. call'.at = "out"
      BY <1>13 DEF NoCall
    <3>2. n > 0 => call'.at = "seek"
      BY <1>1, <1>2, <1>8, <1>10, <1>12, NextIs DEF CallType
    <3> QED BY <1>3, <3>1, <3>2
  <2>3. SeekLeft(h)' = 0
    BY <1>13 DEF SeekLeft, NoCall
  <2>4. fh' = [fh EXCEPT ![h] = fh[h]]
    BY <1>2, <1>13
  <2>5. PlaceOK(g, fh[h], 0)
    BY <1>3, <1>5, <1>7, <2>2, Numbered DEF PlaceOK
  <2>6. SameFile(fh[h], fh[h])
    BY DEF SameFile
  <2>7. fh[h].pos <= fh[h].size
    BY <1>5
  <2> HIDE DEF SeekLeft, Writing, Emptying
  <2> QED BY <1>3, <1>4, <1>5, <1>9, <1>11, <1>13, <2>7, <2>1, <2>3, <2>4, <2>5, <2>6, PlaceHolds
<1>14. CASE n > 0 /\ fh' = [fh EXCEPT ![h].cluster = Table[c]] /\ call' = [call EXCEPT !.n = @ - 1]
  <2>1. /\ call'.op = "seek" /\ call'.at = "seek" /\ call'.h = h /\ call'.n = n - 1
        /\ call' \in CallType
    BY <1>1, <1>2, <1>3, <1>14 DEF CallType
  <2>2. Table[c] \in Clusters /\ g.own[Table[c]] = fh[h].nm /\ g.idx[Table[c]] = g.idx[c] + 1
        /\ g.idx[c] \in Nat
    BY <1>7, <1>8, <1>12, <1>14, NextIs
  <2> DEFINE e == [fh[h] EXCEPT !.cluster = Table[c]]
  <2>3. fh' = [fh EXCEPT ![h] = e] /\ fh'[h] = e
    BY <1>2, <1>14
  <2>4. /\ e \in HandleType /\ SameFile(e, fh[h]) /\ e.size = fh[h].size /\ e.dirty = fh[h].dirty
        /\ e.pos = fh[h].pos /\ e.cluster = Table[c] /\ e.off = fh[h].off /\ e.nm = fh[h].nm
        /\ e.mode = fh[h].mode
    BY <1>5, <2>2 DEF HandleType, SameFile
  <2> HIDE DEF e
  <2>5. PlaceOK(g, e, n - 1)
    BY <1>7, <1>14, <2>2, <2>4, Numbered DEF PlaceOK
  <2>6. SeekLeft(h)' = n - 1
    BY <2>1 DEF SeekLeft
  <2>7. CallOK(g)'
    <3>1. PhaseOK' /\ DirCallOK(g)' /\ WriteOK(g)' /\ ReadOK(g)'
      BY <2>1 DEF PhaseOK, DirCallOK, WriteOK, ReadOK
    <3>2. fh'[h] # NoHandle /\ fh'[h].cluster # 0 /\ fh'[h].pos < fh'[h].size
      <4>1. fh[h].mode # "free" /\ NoHandle.mode = "free"
        BY <1>5, HandleTypes DEF NoHandle
      <4> QED BY <1>5, <2>2, <2>3, <2>4, <4>1, Numbered
    <3> QED BY <1>2, <2>1, <3>1, <3>2 DEF CallOK
  <2>8. e.pos <= e.size
    BY <1>5, <2>4
  <2> QED BY <1>3, <1>4, <1>5, <1>9, <1>11, <2>1, <2>3, <2>4, <2>5, <2>6, <2>7, <2>8, PlaceHolds
<1> QED BY <1>8, <1>10, <1>12, <1>13, <1>14, NextIs

\* The product of a sum.
LEMMA TimesSum ==
  ASSUME NEW i \in Nat, NEW k \in Nat
  PROVE  /\ (i + k) * CLUSTER_SIZE = i * CLUSTER_SIZE + k * CLUSTER_SIZE
         /\ (i + 1 + k) * CLUSTER_SIZE = i * CLUSTER_SIZE + CLUSTER_SIZE + k * CLUSTER_SIZE
         /\ i * CLUSTER_SIZE \in Nat /\ k * CLUSTER_SIZE \in Nat
BY Sizes

\* How much fits.
LEMMA SpanIs ==
  ASSUME call.n \in Nat, NEW f, f.off \in 0 .. CLUSTER_SIZE
  PROVE  /\ Span(f) \in Nat /\ Span(f) <= call.n /\ Span(f) <= CLUSTER_SIZE - f.off
         /\ Span(f) = call.n \/ Span(f) = CLUSTER_SIZE - f.off
<1> DEFINE T == {call.n, CLUSTER_SIZE - f.off}
<1>1. T \subseteq Nat /\ T # {}
  BY Sizes
<1>2. Min(T) \in T /\ \A y \in T : Min(T) <= y
  <2> HIDE DEF T
  <2> QED BY <1>1, MinIsLeast
<1>3. Span(f) = Min(T)
  BY DEF Span
<1> HIDE DEF Span
<1> QED BY <1>1, <1>2, <1>3

\* The next cluster of a file that is written.
LEMMA WriteNextHolds ==
  ASSUME NEW g, Holds(g), WriteNext
  PROVE  Holds(g)'
<1>1. call.op = "write" /\ call.at = "put" /\ UNCHANGED <<fsb_t, private, history>>
  BY DEF WriteNext
<1>2. /\ TypeInv /\ BuffersOK /\ call \in CallType /\ CallOK(g) /\ WriteOK(g) /\ right = TRUE
      /\ fh \in [Handles -> HandleType]
      /\ call.h \in Handles /\ fh[call.h] # NoHandle /\ g.moving = Nil /\ g.loose = {}
  BY <1>1, PartsOf DEF TypeInv, CallOK
<1>3. /\ fh[call.h].mode = "write" /\ call.n > 0 /\ fh[call.h].pos + call.n <= MaxSize
      /\ fh[call.h].cluster # 0
  BY <1>1, <1>2 DEF WriteOK
<1>4. PICK h \in Handles, c \in Clusters, n \in Nat :
        h = call.h /\ c = fh[h].cluster /\ n = call.n
  BY <1>2, <1>3, HandleTypes DEF CallType
<1>5. PICK f \in HandleType : f = fh[h]
  BY <1>4, HandleTypes
<1>6. /\ HandleOK(g, h) /\ f.pos \in Nat /\ f.off \in 0 .. CLUSTER_SIZE
      /\ f.off \in Nat /\ f.size \in Nat
      /\ f.nm \in Names
  BY <1>2, <1>4, <1>5, HandleTypes, Sizes
<1>7. f.off = CLUSTER_SIZE
  BY <1>3, <1>4, <1>5, <1>6, SpanIs, Sizes DEF WriteNext
<1>8. SeekLeft(h) = 0 /\ Writing(h) /\ ~Emptying
  BY <1>1, <1>4 DEF SeekLeft, Writing, Emptying
<1>9. g.own[c] = f.nm /\ f.pos = (g.idx[c] + 0) * CLUSTER_SIZE + f.off /\ f.pos <= g.ext[f.nm]
      /\ g.own[c] # Nil
  BY <1>3, <1>4, <1>5, <1>6, <1>8, Nils DEF HandleOK
<1>10. UNCHANGED <<private, closed, bypassed>> /\ right' = TRUE
  BY <1>1, <1>2 DEF history
<1>11. Quiet
  BY <1>1, <1>4, GetQuiet DEF WriteNext
<1>12. CASE Table[c] >= 3
  <2> DEFINE e == [f EXCEPT !.cluster = Table[c], !.off = 0]
  <2>1. fh' = [fh EXCEPT ![h] = e] /\ call' = call
    <3>1. FATValue(Fat, c) = Table[c] /\ Table[c] \in Nat
      BY <1>9, NextIs
    <3>2. fh' = [fh EXCEPT ![h].cluster = Table[c], ![h].off = 0] /\ call' = call
      BY <1>4, <1>12, <3>1 DEF WriteNext
    <3> QED BY <1>2, <1>5, <3>2
  <2>2. Table[c] \in Clusters /\ g.own[Table[c]] = f.nm /\ g.idx[Table[c]] = g.idx[c] + 1
        /\ g.idx[c] \in Nat
    BY <1>9, <1>12, NextIs
  <2>3. /\ e \in HandleType /\ SameFile(e, f) /\ e.size = f.size /\ e.dirty = f.dirty
        /\ e.pos = f.pos /\ e.cluster = Table[c] /\ e.off = 0 /\ e.nm = f.nm /\ e.mode = f.mode
    <3>1. 0 \in 0 .. CLUSTER_SIZE
      BY Sizes
    <3> QED BY <2>2, <3>1 DEF HandleType, SameFile
  <2> HIDE DEF e
  <2>4. fh'[h] = e
    BY <1>2, <2>1
  <2>5. PlaceOK(g, e, 0)
    <3>1. f.pos = (g.idx[Table[c]] + 0) * CLUSTER_SIZE + 0
      BY <1>7, <1>9, <2>2, Times
    <3> QED BY <1>9, <2>2, <2>3, <3>1, Numbered DEF PlaceOK
  <2>6. SeekLeft(h)' = 0 /\ Writing(h)' /\ call'.h = h
    BY <1>1, <1>4, <2>1 DEF SeekLeft, Writing
  <2>7. CallOK(g)'
    <3>1. WriteOK(g)' /\ ReadOK(g)' /\ PhaseOK' /\ DirCallOK(g)'
      <4>1. e.mode = "write" /\ call.n > 0 /\ e.pos + call.n <= MaxSize /\ e.cluster # 0
        BY <1>3, <1>4, <1>5, <2>2, <2>3, Numbered
      <4> QED BY <1>1, <1>4, <2>1, <2>4, <4>1 DEF WriteOK, ReadOK, PhaseOK, DirCallOK
    <3>2. fh'[h] # NoHandle
      <4>1. NoHandle.mode = "free"
        BY DEF NoHandle
      <4> QED BY <1>3, <1>4, <1>5, <2>3, <2>4, <4>1
    <3> QED BY <1>1, <1>2, <1>4, <2>1, <3>1, <3>2 DEF CallOK
  <2> HIDE DEF SeekLeft, Writing, Emptying
  <2> QED BY <1>2, <1>4, <1>5, <1>8, <1>10, <1>11, <2>1, <2>3, <2>5, <2>6, <2>7, PlaceHolds
<1>13. CASE Table[c] < 3
  <2> DEFINE a == IF call.n > CLUSTER_SIZE THEN "linear" ELSE "extend"
  <2>1. fh' = fh /\ call' = [call EXCEPT !.at = a]
    BY <1>4, <1>9, <1>13, NextIs DEF WriteNext
  <2>2. g.idx[c] + 1 = g.len[f.nm]
    BY <1>9, <1>13, NextIs
  <2>3. a \in {"linear", "extend"} /\ (a = "linear" => n > CLUSTER_SIZE)
    BY <1>4
  <2> HIDE DEF a
  <2>4. /\ call'.at = a /\ call'.op = "write" /\ call'.h = h /\ call'.n = n
        /\ call' \in CallType
    BY <1>1, <1>2, <1>4, <2>1, <2>3, NextAt
  <2>5. CallOK(g)'
    <3>1. PhaseOK' /\ DirCallOK(g)' /\ ReadOK(g)'
      BY <2>3, <2>4 DEF PhaseOK, DirCallOK, ReadOK
    <3>2. WriteOK(g)'
      BY <1>3, <1>4, <1>5, <1>7, <2>1, <2>2, <2>3, <2>4 DEF WriteOK
    <3> QED BY <1>2, <1>4, <2>1, <2>3, <2>4, <3>1, <3>2 DEF CallOK
  <2> QED BY <1>1, <1>4, <1>8, <1>10, <1>11, <2>1, <2>3, <2>4, <2>5, GoesOn
<1>14. Table[c] \in Nat
  BY <1>9, NextIs
<1> QED BY <1>12, <1>13, <1>14

\* The next cluster of a file that is read.
LEMMA ReadNextHolds ==
  ASSUME NEW g, Holds(g), ReadNext
  PROVE  Holds(g)'
<1>1. call.at = "get" /\ UNCHANGED <<fsb_t, private, fh, history>>
  BY DEF ReadNext
<1>2. /\ TypeInv /\ BuffersOK /\ call \in CallType /\ CallOK(g) /\ ReadOK(g) /\ right = TRUE
      /\ call.op = "read" /\ call.h \in Handles /\ fh[call.h] # NoHandle
      /\ g.moving = Nil /\ g.loose = {}
  BY <1>1, PartsOf DEF TypeInv, CallOK, PhaseOK
<1>3. /\ fh[call.h].cluster # 0 /\ call.n > 0 /\ fh[call.h].pos + call.n <= fh[call.h].size
      /\ \A b \in Buffers : fsb_t[b].dirty # FSBDIRTY_USR
  BY <1>1, <1>2 DEF ReadOK
<1>4. PICK h \in Handles, c \in Clusters, n \in Nat :
        h = call.h /\ c = fh[h].cluster /\ n = call.n
  BY <1>2, <1>3, HandleTypes DEF CallType
<1>5. PICK f \in HandleType : f = fh[h]
  BY <1>4, HandleTypes
<1>6. /\ HandleOK(g, h) /\ f.pos \in Nat /\ f.off \in 0 .. CLUSTER_SIZE
      /\ f.off \in Nat /\ f.size \in Nat
      /\ f.nm \in Names
  BY <1>2, <1>4, <1>5, HandleTypes, Sizes
<1>7. f.off = CLUSTER_SIZE
  BY <1>3, <1>4, <1>5, <1>6, SpanIs, Sizes DEF ReadNext
<1>8. SeekLeft(h) = 0 /\ ~Emptying /\ ~Writing(h)
  BY <1>1, <1>2, <1>4 DEF SeekLeft, Writing, Emptying
<1>9. g.own[c] = f.nm /\ g.own[c] # Nil
  BY <1>3, <1>4, <1>5, <1>6, <1>8, Nils DEF HandleOK
<1>10. UNCHANGED <<private, closed, bypassed>> /\ right' = TRUE
  BY <1>1, <1>2 DEF history
<1>11. Quiet
  BY <1>1, <1>4, GetQuiet DEF ReadNext
<1>12. CASE call' = NoCall
  <2>1. CallOK(g)' /\ call' \in CallType /\ call'.at # "seek"
    BY <1>2, <1>12, CallOut DEF NoCall
  <2> QED BY <1>1, <1>2, <1>8, <1>10, <1>11, <2>1, GoesOn
<1>13. CASE Table[c] >= 3
  <2> DEFINE v == Table[c]
  <2>1. call' = [call EXCEPT !.at = "run", !.c = v, !.x = v, !.num = 0]
    <3>1. FATValue(Fat, c) = v /\ v >= 3 /\ v \in Nat
      BY <1>9, <1>13, NextIs
    <3> HIDE DEF v
    <3> QED BY <1>4, <3>1 DEF ReadNext
  <2>2. v \in Clusters /\ g.own[v] = f.nm /\ g.idx[v] = g.idx[c] + 1 /\ g.idx[c] \in Nat
    BY <1>9, <1>13, NextIs
  <2> HIDE DEF v
  <2>3. /\ call'.op = "read" /\ call'.at = "run" /\ call'.c = v /\ call'.x = v /\ call'.num = 0
        /\ call'.n = n /\ call'.h = h /\ call' \in CallType
    BY <1>2, <1>4, <2>1, <2>2 DEF CallType
  <2>4. PhaseOK' /\ DirCallOK(g)' /\ WriteOK(g)'
    BY <2>3 DEF PhaseOK, DirCallOK, WriteOK
  <2>5. v \in Nat
    BY <2>2, Numbered
  <2>6. Follow(g, f, v, 0)
    BY <2>5 DEF Follow
  <2>7. fh' = fh /\ fsb_t' = fsb_t
    BY <1>1
  <2>8. ReadOK(g)'
    <3>1. f.cluster = c /\ f.cluster # 0 /\ n > 0 /\ f.pos + n <= f.size
      BY <1>3, <1>4, <1>5
    <3>2. fh'[h] = f
      BY <1>5, <2>7
    <3>3. 0 * CLUSTER_SIZE <= n
      BY <1>4, Sizes
    <3>4. /\ v \in Clusters /\ g.own[v] = f.nm /\ g.idx[v] = g.idx[c] + 1 + 0
      BY <2>2
    <3> QED BY <1>3, <1>7, <2>3, <2>5, <2>6, <2>7, <3>1, <3>2, <3>3, <3>4 DEF ReadOK, Follow
  <2>9. CallOK(g)'
    BY <1>2, <1>4, <2>3, <2>4, <2>7, <2>8 DEF CallOK
  <2> QED BY <1>1, <1>2, <1>8, <1>10, <1>11, <2>3, <2>9, GoesOn
<1> QED BY <1>4, <1>9, <1>12, <1>13, NextIs DEF ReadNext, Return

\* FATLinearClusters looks one cluster further.
LEMMA LinearRunHolds ==
  ASSUME NEW g, Holds(g), LinearRun
  PROVE  Holds(g)'
<1>1. call.at = "run" /\ LinearLeft /\ UNCHANGED <<fsb_t, private, fh, history>>
  BY DEF LinearRun
<1>2. /\ TypeInv /\ BuffersOK /\ call \in CallType /\ CallOK(g) /\ ReadOK(g) /\ right = TRUE
      /\ call.op = "read" /\ call.h \in Handles /\ fh[call.h] # NoHandle
      /\ g.moving = Nil /\ g.loose = {} /\ g \in Maps
  BY <1>1, PartsOf DEF TypeInv, CallOK, PhaseOK
<1>3. /\ fh[call.h].cluster # 0 /\ call.n > 0 /\ fh[call.h].pos + call.n <= fh[call.h].size
      /\ \A b \in Buffers : fsb_t[b].dirty # FSBDIRTY_USR
      /\ fh[call.h].off = CLUSTER_SIZE /\ call.num * CLUSTER_SIZE <= call.n
      /\ Follow(g, fh[call.h], call.x, call.num) /\ call.c = call.x + call.num
      /\ call.c \in Clusters /\ g.own[call.c] = fh[call.h].nm
      /\ g.idx[call.c] = g.idx[fh[call.h].cluster] + 1 + call.num
  BY <1>1, <1>2 DEF ReadOK
<1>4. PICK h \in Handles, c \in Clusters, d \in Clusters, x \in {0} \cup Clusters,
           n \in Nat, num \in Nat :
        h = call.h /\ c = fh[h].cluster /\ d = call.c /\ x = call.x /\ n = call.n /\ num = call.num
  BY <1>2, <1>3, HandleTypes DEF CallType
<1>5. PICK f \in HandleType : f = fh[h]
  BY <1>4, HandleTypes
<1>6. /\ HandleOK(g, h) /\ f.pos \in Nat /\ f.off \in 0 .. CLUSTER_SIZE
      /\ f.off \in Nat /\ f.size \in Nat
      /\ f.nm \in Names /\ f.cluster = c
      /\ f.size <= g.ext[f.nm] /\ g.ext[f.nm] <= g.len[f.nm] * CLUSTER_SIZE
      /\ g.ext[f.nm] \in Nat /\ g.len[f.nm] \in Nat
  BY <1>2, <1>4, <1>5, HandleTypes, FirstIs, Sizes, Nils
<1>7. /\ f.off = CLUSTER_SIZE /\ num * CLUSTER_SIZE <= n /\ Follow(g, f, x, num) /\ d = x + num
      /\ g.own[d] = f.nm /\ g.idx[d] = g.idx[c] + 1 + num /\ g.idx[c] \in Nat
      /\ n - num * CLUSTER_SIZE >= CLUSTER_SIZE /\ f.pos + n <= f.size /\ x \in Nat /\ d \in Nat
  BY <1>1, <1>2, <1>3, <1>4, <1>5, Numbered DEF LinearLeft, Maps
<1>8. SeekLeft(h) = 0 /\ ~Emptying /\ ~Writing(h)
  BY <1>1, <1>2, <1>4 DEF SeekLeft, Writing, Emptying
<1>9. g.own[d] # Nil
  BY <1>6, <1>7, Nils
<1>10. UNCHANGED <<private, closed, bypassed>> /\ right' = TRUE
  BY <1>1, <1>2 DEF history
<1>11. Quiet
  BY <1>1, <1>4, GetQuiet DEF LinearRun
<1> DEFINE v == Table[d]
<1>12. IF v < 3 /\ n > (num + 1) * CLUSTER_SIZE THEN call' = NoCall
       ELSE call' = [call EXCEPT !.at = IF v = d + 1 THEN "run" ELSE "direct",
                                 !.c = v, !.num = @ + 1]
  <2>1. FATValue(Fat, d) = v
    BY <1>9, NextIs
  <2> HIDE DEF v
  <2> QED BY <1>4, <2>1 DEF LinearRun, Return
<1>13. CASE call' = NoCall
  <2>1. CallOK(g)' /\ call' \in CallType /\ call'.at # "seek"
    BY <1>2, <1>13, CallOut DEF NoCall
  <2> QED BY <1>1, <1>2, <1>8, <1>10, <1>11, <2>1, GoesOn
<1>14. CASE /\ ~(v < 3 /\ n > (num + 1) * CLUSTER_SIZE)
            /\ call' = [call EXCEPT !.at = IF v = d + 1 THEN "run" ELSE "direct",
                                 !.c = v, !.num = @ + 1]
  <2> DEFINE a == IF v = d + 1 THEN "run" ELSE "direct"
  <2>1. /\ v < 3 => v = 0 /\ g.idx[d] + 1 = g.len[f.nm]
        /\ v >= 3 => v \in Clusters /\ g.own[v] = f.nm /\ g.idx[v] = g.idx[d] + 1
        /\ v \in Nat
    BY <1>7, <1>9, NextIs
  <2>2. call' = [call EXCEPT !.at = a, !.c = v, !.num = num + 1]
    BY <1>4, <1>14
  <2>3. a \in {"run", "direct"} /\ (a = "run" => v = d + 1)
    OBVIOUS
  <2> HIDE DEF v, a
  <2>4. v \in {0} \cup Clusters
    BY <2>1
  <2>5. /\ call'.op = "read" /\ call'.at = a /\ call'.c = v /\ call'.x = x /\ call'.num = num + 1
        /\ call'.n = n /\ call'.h = h /\ call' \in CallType
    <3>1. num + 1 \in Nat /\ a \in {"out", "find", "entry", "free", "flush", "size", "replace",
             "grow", "link", "clear", "name", "seek", "first", "setfirst", "put", "extend",
             "linear",
             "more", "chain", "direct", "get", "run"}
      BY <1>4, <2>3
    <3>2. /\ call'.op = call.op /\ call'.at = a /\ call'.c = v /\ call'.x = call.x
          /\ call'.num = num + 1 /\ call'.n = call.n /\ call'.h = call.h
      BY <1>2, <2>2 DEF CallType
    <3>3. call' \in CallType
      BY <1>2, <2>2, <2>4, <3>1, ZenonT(40) DEF CallType
    <3> QED BY <1>2, <1>4, <3>2, <3>3
  <2>6. PhaseOK' /\ DirCallOK(g)' /\ WriteOK(g)'
    <3>1. call'.op = "read" /\ call'.at \in {"run", "direct"}
      BY <2>3, <2>5
    <3>2. fh'[call'.h].cluster # 0
      BY <1>1, <1>3, <1>4, <2>5
    <3> QED BY <3>1, <3>2 DEF PhaseOK, DirCallOK, WriteOK
  <2>7. Follow(g, f, x, num + 1)
    <3> SUFFICES ASSUME NEW y \in x .. x + (num + 1) - 1
                 PROVE  /\ y \in Clusters /\ g.own[y] = f.nm
                        /\ g.idx[y] = g.idx[f.cluster] + 1 + (y - x)
      BY DEF Follow
    <3>1. CASE y = d
      BY <1>6, <1>7, <3>1
    <3>2. CASE y # d
      <4>1. y \in x .. x + num - 1
        BY <1>7, <3>2
      <4> QED BY <1>7, <4>1 DEF Follow
    <3> QED BY <3>1, <3>2
  <2>8. fh' = fh /\ fsb_t' = fsb_t
    BY <1>1
  <2>9. (num + 1) * CLUSTER_SIZE = num * CLUSTER_SIZE + CLUSTER_SIZE
        /\ (num + 1) * CLUSTER_SIZE <= n /\ (num + 1) * CLUSTER_SIZE \in Nat
    BY <1>4, <1>7, Times, Sizes
  <2>10. \/ v \in Clusters /\ g.own[v] = f.nm /\ g.idx[v] = g.idx[c] + 1 + (num + 1)
         \/ a = "direct" /\ v = 0 /\ n = (num + 1) * CLUSTER_SIZE /\ f.pos + n = f.size
    <3>1. CASE v >= 3
      BY <1>7, <2>1, <3>1
    <3>2. CASE v < 3
      <4>1. v = 0 /\ n = (num + 1) * CLUSTER_SIZE /\ a = "direct"
        BY <1>7, <1>14, <2>1, <2>3, <2>9, <3>2
      <4>2. g.len[f.nm] = g.idx[c] + 1 + (num + 1)
        BY <1>7, <2>1, <3>2
      <4>3. f.pos = (g.idx[c] + 0) * CLUSTER_SIZE + CLUSTER_SIZE
        BY <1>4, <1>5, <1>6, <1>7, <1>8, Numbered DEF HandleOK
      <4>4. g.len[f.nm] * CLUSTER_SIZE = f.pos + n
        <5>1. g.idx[c] * CLUSTER_SIZE \in Nat /\ f.pos = g.idx[c] * CLUSTER_SIZE + CLUSTER_SIZE
          BY <1>7, <4>3, Times
        <5>2. PICK k \in Nat : k = num + 1
          BY <1>4
        <5>3. (g.idx[c] + 1 + k) * CLUSTER_SIZE
                = g.idx[c] * CLUSTER_SIZE + CLUSTER_SIZE + k * CLUSTER_SIZE
          BY <1>7, TimesSum
        <5>4. g.len[f.nm] = g.idx[c] + 1 + k /\ n = k * CLUSTER_SIZE
          BY <4>1, <4>2, <5>2
        <5> QED BY <1>4, <1>6, <5>1, <5>3, <5>4
      <4>5. f.pos + n = f.size
        <5>1. PICK m : m = g.len[f.nm] * CLUSTER_SIZE
          OBVIOUS
        <5>2. f.size <= g.ext[f.nm] /\ g.ext[f.nm] <= m /\ m = f.pos + n /\ f.pos + n <= f.size
          BY <1>6, <1>7, <4>4, <5>1
        <5> QED BY <1>4, <1>6, <5>2
      <4> QED BY <4>1, <4>5
    <3> HIDE DEF v
    <3> QED BY <2>1, <3>1, <3>2
  <2>11. ReadOK(g)'
    <3>1. f.cluster = c /\ f.cluster # 0 /\ n > 0 /\ f.pos + n <= f.size
      BY <1>3, <1>4, <1>5
    <3>2. fh'[h] = f
      BY <1>5, <2>8
    <3>3. a = "run" => v = x + (num + 1)
      BY <1>7, <2>3
    <3> QED BY <1>3, <1>7, <2>3, <2>5, <2>7, <2>8, <2>9, <2>10, <3>1, <3>2, <3>3
            DEF ReadOK, Follow
  <2>12. CallOK(g)'
    BY <1>2, <1>4, <2>3, <2>5, <2>6, <2>8, <2>11 DEF CallOK
  <2> QED BY <1>1, <1>2, <1>8, <1>10, <1>11, <2>3, <2>5, <2>12, GoesOn
<1> QED BY <1>12, <1>13, <1>14

\* A call that reads goes on at the next place, or ends.
LEMMA ReadOnHolds ==
  ASSUME NEW g, Holds(g), call.op = "read", NEW h \in Handles, h = call.h,
         NEW e, NEW k \in Nat, ReadOn(e, k), Quiet, UNCHANGED <<private, closed, bypassed>>,
         right' = TRUE, SameFile(e, fh[h]), e.size = fh[h].size, e.dirty = fh[h].dirty,
         PlaceOK(g, e, 0), k <= call.n, e.pos = fh[h].pos + k, k < call.n => e.cluster # 0
  PROVE  Holds(g)'
<1>1. /\ TypeInv /\ call \in CallType /\ CallOK(g) /\ ReadOK(g) /\ fh \in [Handles -> HandleType]
      /\ fh[h] # NoHandle /\ g.moving = Nil /\ call.at # "seek" /\ call.n \in Nat
  BY PartsOf DEF TypeInv, CallOK, PhaseOK, CallType
<1>2. /\ call.n > 0 /\ fh[h].pos + call.n <= fh[h].size
      /\ \A b \in Buffers : fsb_t[b].dirty # FSBDIRTY_USR
  BY <1>1 DEF ReadOK
<1>3. fh[h].pos \in Nat /\ fh[h].size \in Nat /\ fh[h] \in HandleType /\ fh[h].mode # "free"
  BY <1>1, HandleTypes
<1>4. fh' = [fh EXCEPT ![h] = e] /\ fh'[h] = e
  BY <1>1 DEF ReadOn
<1>5. ~Emptying
  BY <1>1 DEF Emptying, CallOK, PhaseOK
<1>6. e.pos <= e.size
  BY <1>2, <1>3, <1>1
<1>7. CASE call' = NoCall
  <2>1. CallOK(g)' /\ call' \in CallType
    BY <1>1, <1>7, CallOut DEF CallOK, PhaseOK
  <2>2. SeekLeft(h)' = 0
    BY <1>7 DEF SeekLeft, NoCall
  <2> HIDE DEF SeekLeft, Writing, Emptying
  <2> QED BY <1>1, <1>4, <1>5, <1>6, <1>7, <2>1, <2>2, PlaceHolds
<1>8. CASE call.n # k /\ call' = [call EXCEPT !.at = "get", !.n = @ - k]
  <2>1. /\ call'.op = "read" /\ call'.at = "get" /\ call'.h = h /\ call'.n = call.n - k
        /\ call' \in CallType
    <3>1. PICK m \in Nat : m = call.n - k
      BY <1>1
    <3>2. call' = [call EXCEPT !.at = "get", !.n = m]
      BY <1>8, <3>1
    <3> QED BY <1>1, <3>1, <3>2 DEF CallType
  <2>2. SeekLeft(h)' = 0
    BY <2>1 DEF SeekLeft
  <2>3. \A b \in Buffers : fsb_t'[b].dirty # FSBDIRTY_USR
    BY <1>2 DEF Quiet, Still, NoneDirtied
  <2>4. /\ e.cluster # 0 /\ call.n - k > 0 /\ e.pos + (call.n - k) <= e.size
    BY <1>1, <1>2, <1>3, <1>8
  <2>5. PhaseOK' /\ DirCallOK(g)' /\ WriteOK(g)' /\ ReadOK(g)'
    BY <1>4, <2>1, <2>3, <2>4 DEF PhaseOK, DirCallOK, WriteOK, ReadOK
  <2>6. fh'[h] # NoHandle
    <3>1. NoHandle.mode = "free" /\ e.mode = fh[h].mode
      BY DEF NoHandle, SameFile
    <3> QED BY <1>3, <1>4, <3>1
  <2>7. g.loose = {}
    BY <1>1 DEF CallOK, PhaseOK
  <2>8. CallOK(g)'
    BY <1>1, <2>1, <2>5, <2>6, <2>7 DEF CallOK
  <2> HIDE DEF SeekLeft, Writing, Emptying
  <2> QED BY <1>1, <1>4, <1>5, <1>6, <2>1, <2>2, <2>8, PlaceHolds
<1> QED BY <1>7, <1>8 DEF ReadOn, Return

\* What a step that reads begins with.
LEMMA ReadBegins ==
  ASSUME NEW g, Holds(g), call.op = "read"
  PROVE  /\ TypeInv /\ BuffersOK /\ BuffersType /\ call \in CallType /\ ReadOK(g) /\ DiskOK(g)
         /\ call.h \in Handles /\ g.moving = Nil /\ g \in Maps /\ right = TRUE
         /\ call.n \in Nat /\ call.num \in Nat
         /\ LET f == fh[call.h]
            IN  /\ f \in HandleType /\ f.cluster \in Clusters /\ f.pos \in Nat /\ f.size \in Nat
                /\ f.off \in 0 .. CLUSTER_SIZE /\ f.off \in Nat
                /\ f.nm \in Names /\ g.own[f.cluster] = f.nm /\ g.idx[f.cluster] \in Nat
                /\ f.pos = g.idx[f.cluster] * CLUSTER_SIZE + f.off
                /\ call.n > 0 /\ f.pos + call.n <= f.size /\ f.size <= g.ext[f.nm]
                /\ g.ext[f.nm] \in Nat
<1>1. /\ TypeInv /\ BuffersOK /\ BuffersType /\ call \in CallType /\ CallOK(g) /\ ReadOK(g)
      /\ call.h \in Handles /\ fh[call.h] # NoHandle /\ g.moving = Nil /\ g \in Maps
      /\ call.n \in Nat /\ call.at # "seek" /\ DiskOK(g) /\ right = TRUE /\ call.num \in Nat
  BY PartsOf, TypesOf DEF TypeInv, CallOK, PhaseOK, CallType
<1>2. PICK h \in Handles : h = call.h
  BY <1>1
<1>3. /\ fh[h] \in HandleType /\ HandleOK(g, h) /\ fh[h].pos \in Nat /\ fh[h].size \in Nat
      /\ fh[h].off \in 0 .. CLUSTER_SIZE /\ fh[h].off \in Nat /\ fh[h].nm \in Names
      /\ g.ext[fh[h].nm] \in Nat /\ fh[h].cluster \in {0} \cup Clusters
  BY <1>1, <1>2, HandleTypes, Sizes
<1>4. fh[h].cluster # 0 /\ call.n > 0 /\ fh[h].pos + call.n <= fh[h].size
  BY <1>1, <1>2 DEF ReadOK
<1>5. fh[h].cluster \in Clusters /\ g.idx[fh[h].cluster] \in Nat
  BY <1>1, <1>3, <1>4 DEF Maps
<1>6. /\ g.own[fh[h].cluster] = fh[h].nm
      /\ fh[h].pos = (g.idx[fh[h].cluster] + 0) * CLUSTER_SIZE + fh[h].off
      /\ fh[h].size <= g.ext[fh[h].nm]
  BY <1>1, <1>2, <1>3, <1>4 DEF HandleOK, SeekLeft
<1>7. fh[h].pos = g.idx[fh[h].cluster] * CLUSTER_SIZE + fh[h].off
  BY <1>5, <1>6
<1> QED BY <1>1, <1>2, <1>3, <1>4, <1>5, <1>6, <1>7

\* A read gives the words of a cluster as the code sees it.
LEMMA ReadClusterHolds ==
  ASSUME NEW g, Holds(g), ReadCluster
  PROVE  Holds(g)'
<1>1. call.at = "get" /\ UNCHANGED <<fatbuf, private, closed, bypassed, calls>>
  BY DEF ReadCluster
<1>2. call.op = "read"
  BY <1>1, PartsOf DEF CallOK, PhaseOK
<1>3. PICK h \in Handles, f \in HandleType, c \in Clusters, n \in Nat :
        h = call.h /\ f = fh[h] /\ c = f.cluster /\ n = call.n
  BY <1>2, ReadBegins
<1>4. /\ TypeInv /\ BuffersOK /\ BuffersType /\ right = TRUE /\ DiskOK(g)
      /\ f.pos \in Nat /\ f.size \in Nat /\ f.off \in 0 .. CLUSTER_SIZE /\ f.off \in Nat
      /\ f.nm \in Names /\ g.own[c] = f.nm /\ g.idx[c] \in Nat
      /\ f.pos = g.idx[c] * CLUSTER_SIZE + f.off
      /\ n > 0 /\ f.pos + n <= f.size /\ f.size <= g.ext[f.nm] /\ g.ext[f.nm] \in Nat
  BY <1>2, <1>3, ReadBegins
<1>5. PICK k \in Nat : /\ k = Span(f) /\ k > 0 /\ k <= n /\ k <= CLUSTER_SIZE - f.off
                       /\ k = n \/ k = CLUSTER_SIZE - f.off
  BY <1>3, <1>4, SpanIs DEF ReadCluster
<1>6. Quiet /\ Contents(c) = View(c)
  BY <1>1, <1>3, <1>4, QuietLook DEF ReadCluster
<1> DEFINE w == View(c).word
           e == [f EXCEPT !.off = @ + k, !.pos = @ + k]
<1>7. /\ right' = (right /\ (c \in bypassed \/ w = Put(w, f, f.off, f.pos, k)))
      /\ ReadOn(e, k)
  BY <1>3, <1>5, <1>6 DEF ReadCluster
<1>8. c \notin bypassed => w = Put(w, f, f.off, f.pos, k)
  <2> SUFFICES ASSUME c \notin bypassed PROVE w = Put(w, f, f.off, f.pos, k)
    OBVIOUS
  <2>1. w \in [0 .. CLUSTER_SIZE - 1 -> Words]
    BY <1>4, ViewType DEF Parts
  <2>2. ASSUME NEW j \in 0 .. CLUSTER_SIZE - 1, j \in f.off .. f.off + k - 1
        PROVE  w[j] = <<f.nm, f.pos + j - f.off>>
    <3>1. WordsAt(g, c) /\ g.own[c] # Nil
      BY <1>4, Nils DEF DiskOK, WordsOK
    <3>2. PICK i \in Nat : i = g.idx[c] * CLUSTER_SIZE
      BY <1>4, Times
    <3>3. i + j = f.pos + j - f.off /\ i + j < g.ext[f.nm] /\ i + j = g.idx[c] * CLUSTER_SIZE + j
      BY <1>3, <1>4, <1>5, <2>2, <3>2, Sizes
    <3>4. w[j] = <<g.own[c], g.idx[c] * CLUSTER_SIZE + j>>
      BY <1>4, <3>1, <3>3 DEF WordsAt
    <3> QED BY <1>4, <3>3, <3>4
  <2> HIDE DEF w
  <2>3. Put(w, f, f.off, f.pos, k) =
          [j \in 0 .. CLUSTER_SIZE - 1 |->
             IF j \in f.off .. f.off + k - 1 THEN <<f.nm, f.pos + j - f.off>> ELSE w[j]]
    BY <2>1 DEF Put
  <2>4. \A j \in 0 .. CLUSTER_SIZE - 1 : Put(w, f, f.off, f.pos, k)[j] = w[j]
    BY <2>2, <2>3
  <2> QED BY <2>1, <2>3, <2>4
<1>9. right' = TRUE
  BY <1>4, <1>7, <1>8
<1>10. /\ e \in HandleType /\ e.nm = f.nm /\ e.mode = f.mode /\ e.dircluster = f.dircluster
       /\ e.diroff = f.diroff /\ e.firstcluster = f.firstcluster /\ e.size = f.size
       /\ e.dirty = f.dirty /\ e.cluster = c /\ e.off = f.off + k /\ e.pos = f.pos + k
  <2>1. f.off + k \in 0 .. CLUSTER_SIZE
    BY <1>4, <1>5, Sizes
  <2>2. f.pos + k \in 0 .. MaxSize
    <3>1. f.size <= MaxSize
      BY DEF HandleType
    <3> QED BY <1>3, <1>4, <1>5, <3>1, Sizes
  <2> QED BY <1>3, <2>1, <2>2 DEF HandleType
<1> HIDE DEF e, w
<1>11. PlaceOK(g, e, 0)
  <2>1. e.pos = (g.idx[c] + 0) * CLUSTER_SIZE + e.off
    <3>1. PICK i \in Nat : i = g.idx[c] * CLUSTER_SIZE
      BY <1>4, Times
    <3>2. (g.idx[c] + 0) * CLUSTER_SIZE = i
      BY <1>4, <3>1
    <3> QED BY <1>4, <1>10, <3>1, <3>2
  <2>2. e.pos <= g.ext[f.nm]
    BY <1>3, <1>4, <1>5, <1>10
  <2> QED BY <1>4, <1>10, <2>1, <2>2, Numbered DEF PlaceOK
<1>12. SameFile(e, fh[h]) /\ e.size = fh[h].size /\ e.dirty = fh[h].dirty /\ k <= call.n
       /\ e.pos = fh[h].pos + k /\ e.cluster # 0
  BY <1>3, <1>5, <1>10, Numbered DEF SameFile
<1> QED BY <1>1, <1>2, <1>3, <1>6, <1>7, <1>9, <1>11, <1>12, ReadOnHolds

\* A read past the buffers gives what is on the disk: no buffer holds a word to write.
LEMMA ReadDirectHolds ==
  ASSUME NEW g, Holds(g), ReadDirect
  PROVE  Holds(g)'
<1>1. /\ call.op = "read" /\ call.at \in {"run", "direct"}
      /\ UNCHANGED <<disk, fsb_t, fatbuf, private, closed, bypassed, calls>>
  BY DEF ReadDirect
<1>2. call.x \in {0} \cup Clusters /\ call.c \in {0} \cup Clusters
  BY <1>1, ReadBegins DEF CallType
<1>3. PICK h \in Handles, f \in HandleType, c \in Clusters, n \in Nat, num \in Nat,
           x \in {0} \cup Clusters, d \in {0} \cup Clusters :
        h = call.h /\ f = fh[h] /\ c = f.cluster /\ n = call.n /\ num = call.num
        /\ x = call.x /\ d = call.c
  BY <1>1, <1>2, ReadBegins
<1>4. /\ TypeInv /\ BuffersOK /\ BuffersType /\ right = TRUE /\ DiskOK(g)
      /\ f.pos \in Nat /\ f.size \in Nat /\ f.off \in 0 .. CLUSTER_SIZE /\ f.off \in Nat
      /\ f.nm \in Names /\ g.own[c] = f.nm /\ g.idx[c] \in Nat
      /\ f.pos = g.idx[c] * CLUSTER_SIZE + f.off
      /\ n > 0 /\ f.pos + n <= f.size /\ f.size <= g.ext[f.nm] /\ g.ext[f.nm] \in Nat
  BY <1>1, <1>3, ReadBegins
<1>5. /\ \A b \in Buffers : fsb_t[b].dirty # FSBDIRTY_USR
      /\ f.off = CLUSTER_SIZE /\ num * CLUSTER_SIZE <= n /\ Follow(g, f, x, num)
      /\ \/ d \in Clusters /\ g.own[d] = f.nm /\ g.idx[d] = g.idx[c] + 1 + num
         \/ d = 0 /\ n = num * CLUSTER_SIZE /\ f.pos + n = f.size
  <2>1. ReadOK(g)
    BY <1>1, ReadBegins
  <2> QED BY <1>1, <1>3, <2>1 DEF ReadOK
<1>6. Quiet
  BY <1>1, <1>4, QuietStill
<1>7. PICK k \in Nat : k = num * CLUSTER_SIZE /\ k <= n
  BY <1>3, <1>5, Times
<1>8. x \in Nat
  BY <1>3, Numbered
<1> DEFINE e == [f EXCEPT !.cluster = d, !.off = 0, !.pos = @ + k]
           all == \A y \in Direct \ bypassed, i \in 0 .. CLUSTER_SIZE - 1 :
                    disk.cluster[y].word[i] = <<f.nm, f.pos + (y - x) * CLUSTER_SIZE + i>>
<1>9. right' = (right /\ all) /\ ReadOn(e, k)
  BY <1>3, <1>7 DEF ReadDirect
<1>10. Direct = x .. x + num - 1
  BY <1>3 DEF Direct
<1>11. all
  <2> SUFFICES ASSUME NEW y \in Direct, y \notin bypassed, NEW i \in 0 .. CLUSTER_SIZE - 1
               PROVE  disk.cluster[y].word[i] = <<f.nm, f.pos + (y - x) * CLUSTER_SIZE + i>>
    OBVIOUS
  <2>1. y \in Clusters /\ g.own[y] = f.nm /\ g.idx[y] = g.idx[c] + 1 + (y - x)
    BY <1>3, <1>5, <1>10 DEF Follow
  <2>2. PICK j \in Nat : j = y - x /\ j < num
    BY <1>3, <1>8, <1>10
  <2>3. g.own[y] # Nil
    BY <1>4, <2>1, Nils
  <2>4. ~Dirty(y)
    <3> SUFFICES ASSUME NEW b \in Buffers, fsb_t[b].cluster = y, fsb_t[b].dirty # 0
                 PROVE  FALSE
      BY DEF Dirty
    <3>1. fsb_t[b].dirty = FSBDIRTY_SYS
      BY <1>4, <1>5 DEF BuffersType, BufferType
    <3>2. y \in g.dirs
      BY <1>4, <3>1 DEF DiskOK, DirsOK
    <3> QED BY <1>4, <2>1, <2>3, <3>2 DEF DiskOK, ChainsOK
  <2>5. g.idx[y] * CLUSTER_SIZE = f.pos + j * CLUSTER_SIZE
    <3>1. (g.idx[c] + 1 + j) * CLUSTER_SIZE
            = g.idx[c] * CLUSTER_SIZE + CLUSTER_SIZE + j * CLUSTER_SIZE
      BY <1>4, TimesSum
    <3>2. g.idx[y] = g.idx[c] + 1 + j
      BY <2>1, <2>2
    <3> QED BY <1>4, <1>5, <3>1, <3>2
  <2>6. j * CLUSTER_SIZE + CLUSTER_SIZE <= k /\ j * CLUSTER_SIZE \in Nat
    BY <1>7, <2>2, TimesApart, Times
  <2>7. PICK p \in Nat : p = f.pos + j * CLUSTER_SIZE
    BY <1>4, <2>6
  <2>8. p + i < g.ext[f.nm]
    <3>1. PICK q \in Nat : q = j * CLUSTER_SIZE
      BY <2>6
    <3> QED BY <1>3, <1>4, <1>7, <2>6, <2>7, <3>1, Sizes
  <2>9. disk.cluster[y].word[i] = <<g.own[y], g.idx[y] * CLUSTER_SIZE + i>>
    <3>1. WordsAt(g, y)
      BY <1>4, <2>1 DEF DiskOK, WordsOK
    <3>2. g.idx[y] * CLUSTER_SIZE + i < g.ext[g.own[y]]
      BY <2>1, <2>5, <2>7, <2>8
    <3> QED BY <2>3, <2>4, <3>1, <3>2 DEF WordsAt
  <2>10. g.idx[y] * CLUSTER_SIZE + i = f.pos + (y - x) * CLUSTER_SIZE + i
    BY <2>2, <2>5
  <2> QED BY <2>1, <2>9, <2>10
<1>12. right' = TRUE
  BY <1>4, <1>9, <1>11
<1>13. /\ e \in HandleType /\ e.nm = f.nm /\ e.mode = f.mode /\ e.dircluster = f.dircluster
       /\ e.diroff = f.diroff /\ e.firstcluster = f.firstcluster /\ e.size = f.size
       /\ e.dirty = f.dirty /\ e.cluster = d /\ e.off = 0 /\ e.pos = f.pos + k
  <2>1. 0 \in 0 .. CLUSTER_SIZE
    BY Sizes
  <2>2. f.pos + k \in 0 .. MaxSize
    <3>1. f.size <= MaxSize
      BY DEF HandleType
    <3> QED BY <1>3, <1>4, <1>7, <3>1, Sizes
  <2> QED BY <1>3, <2>1, <2>2 DEF HandleType
<1> HIDE DEF e, all
<1>14. PlaceOK(g, e, 0)
  <2>1. e.pos <= g.ext[f.nm]
    BY <1>3, <1>4, <1>7, <1>13
  <2>2. d = 0 => e.pos = e.size /\ e.size > 0
    <3> SUFFICES ASSUME d = 0 PROVE e.pos = e.size /\ e.size > 0
      OBVIOUS
    <3>1. n = k /\ f.pos + n = f.size
      BY <1>5, <1>7, Numbered
    <3> QED BY <1>3, <1>4, <1>13, <3>1
  <2>3. d # 0 => e.pos = (g.idx[d] + 0) * CLUSTER_SIZE + e.off
    <3> SUFFICES ASSUME d # 0 PROVE e.pos = (g.idx[d] + 0) * CLUSTER_SIZE + e.off
      OBVIOUS
    <3>1. (g.idx[c] + 1 + num) * CLUSTER_SIZE
            = g.idx[c] * CLUSTER_SIZE + CLUSTER_SIZE + num * CLUSTER_SIZE
          /\ g.idx[c] * CLUSTER_SIZE \in Nat
      BY <1>3, <1>4, TimesSum, ZenonT(40)
    <3>2. g.idx[d] = g.idx[c] + 1 + num
      BY <1>5
    <3>3. g.idx[d] + 0 = g.idx[c] + 1 + num
      BY <1>3, <1>4, <3>2
    <3> QED BY <1>4, <1>5, <1>7, <1>13, <3>1, <3>3
  <2>4. d # 0 => g.own[d] = f.nm
    BY <1>5
  <2> QED BY <1>13, <2>1, <2>2, <2>3, <2>4 DEF PlaceOK
<1>15. SameFile(e, fh[h]) /\ e.size = fh[h].size /\ e.dirty = fh[h].dirty /\ k <= call.n
       /\ e.pos = fh[h].pos + k
  BY <1>3, <1>7, <1>13 DEF SameFile
<1>16. k < call.n => e.cluster # 0
  BY <1>3, <1>5, <1>7, <1>13, Numbered
<1> QED BY <1>1, <1>3, <1>6, <1>9, <1>12, <1>14, <1>15, <1>16, ReadOnHolds

-----------------------------------------------------------------------------
(***************************************************************************)
(* The steps that change the directory.                                    *)
(***************************************************************************)

EntryType == [nm : Names \cup {Nil}, size : 0 .. MaxSize, cluster : {0} \cup Clusters]

\* A map with the same clusters in the same places.
SameClusters(g, k) ==
  /\ k \in Maps /\ k.own = g.own /\ k.idx = g.idx /\ k.len = g.len
  /\ k.dirs = g.dirs /\ k.pos = g.pos /\ k.dlen = g.dlen /\ k.loose = g.loose

\* The entry at slot s of cluster c is changed.
SlotChanged(c, s, entry) ==
  \E new \in Parts : /\ Changed(c, FSBDIRTY_SYS, new) /\ new.link = View(c).link
                     /\ new.slot = [View(c).slot EXCEPT ![s] = entry]

\* What the disk shows after a change of an entry.
LEMMA SlotParts ==
  ASSUME NEW g, Holds(g), NEW c \in g.dirs, NEW s \in Slots, NEW entry \in EntryType,
         SlotChanged(c, s, entry), fatAllocNext' = fatAllocNext,
         fdNextCluster' \in g.dirs, lastdircluster' \in g.dirs, bypassed' = bypassed,
         NEW k, SameClusters(g, k), \A n \in Names : k.ext[n] <= g.ext[n]
  PROVE  /\ ChainsOK(k)' /\ DirsOK(k)' /\ WordsOK(k)'
         /\ \A d \in Clusters, t \in Slots :
              Slot(d, t)' = IF d = c /\ t = s THEN entry ELSE Slot(d, t)
         /\ \A n \in Names :
              /\ closed'[n] \in {closed[n], NoFile}
              /\ closed'[n] # NoFile => /\ n # Slot(c, s).nm \/ entry = Slot(c, s)
                                        /\ n # k.moving
              => PowerAt(k, n)'
<1>1. /\ DiskOK(g) /\ TypeInv /\ BuffersOK /\ BuffersType /\ g \in Maps /\ c \in Clusters
      /\ g.dirs \subseteq Clusters /\ fdNextCluster \in g.dirs /\ lastdircluster \in g.dirs
      /\ View(c) \in Parts
  BY PartsOf, TypesOf, DirsIn, LinkIn
<1>2. PICK new \in Parts : /\ Changed(c, FSBDIRTY_SYS, new) /\ new.link = View(c).link
                           /\ new.slot = [View(c).slot EXCEPT ![s] = entry]
  BY DEF SlotChanged
<1>3. /\ new.link = View(c).link
      /\ new.slot = [View(c).slot EXCEPT ![s] = entry]
      /\ \A t \in Slots : new.slot[t] = IF t = s THEN entry ELSE View(c).slot[t]
  BY <1>1, <1>2 DEF Parts
<1>4. /\ OneDirtied(c, FSBDIRTY_SYS) /\ FatQuiet /\ (\A d \in Clusters \ {c} : Kept(d))
      /\ View(c)' = new /\ Dirty(c)' /\ disk'.cluster[c] = disk.cluster[c]
  BY <1>2 DEF Changed
<1>5. \A d \in Clusters, t \in Slots :
        Slot(d, t)' = IF d = c /\ t = s THEN entry ELSE Slot(d, t)
  <2> SUFFICES ASSUME NEW d \in Clusters, NEW t \in Slots
               PROVE  Slot(d, t)' = IF d = c /\ t = s THEN entry ELSE Slot(d, t)
    OBVIOUS
  <2>1. CASE d = c
    <3>1. Slot(d, t)' = new.slot[t]
      BY <1>4, <2>1 DEF Slot
    <3> QED BY <1>3, <2>1, <3>1 DEF Slot
  <2>2. CASE d # c
    BY <1>4, <2>2, KeptGives
  <2> QED BY <2>1, <2>2
<1>6. \A d \in Clusters : View(d)'.link = View(d).link
  <2> SUFFICES ASSUME NEW d \in Clusters PROVE View(d)'.link = View(d).link
    OBVIOUS
  <2>1. CASE d = c
    BY <1>3, <1>4, <2>1
  <2>2. CASE d # c
    BY <1>4, <2>2, KeptGives
  <2> QED BY <2>1, <2>2
<1>7. ChainsOK(k)'
  <2>1. Table' = Table
    BY <1>4 DEF FatQuiet
  <2> QED BY <1>1, <2>1, ChainsKept DEF SameClusters, DiskOK
<1>8. DirsOK(k)'
  <2>1. DirsOK(g)
    BY <1>1 DEF DiskOK
  <2>2. \A b \in Buffers : fsb_t'[b].dirty = 1 => fsb_t'[b].cluster \in g.dirs
    BY <1>4, <2>1 DEF OneDirtied, DirsOK
  <2>3. \A d \in Clusters \ g.dirs : View(d)'.link = 0 /\ \A t \in Slots : Slot(d, t)'.nm = Nil
    BY <1>5, <1>6, <2>1 DEF DirsOK
  <2>4. fdNextCluster' \in g.dirs /\ lastdircluster' \in g.dirs
    OBVIOUS
  <2>5. \A d \in g.dirs : View(d)'.link = View(d).link
    BY <1>1, <1>6
  <2> QED BY <2>1, <2>2, <2>3, <2>4, <2>5 DEF DirsOK, SameClusters
<1>9. WordsOK(k)'
  <2> SUFFICES ASSUME NEW d \in Clusters PROVE WordsAt(k, d)'
    BY DEF WordsOK
  <2>1. CASE d = c
    <3>1. g.own[c] = Nil
      BY <1>1 DEF DiskOK, ChainsOK
    <3> QED BY <2>1, <3>1 DEF WordsAt, SameClusters
  <2>2. CASE d # c
    <3>1. WordsAt(g, d) /\ Kept(d) /\ k.own[d] = g.own[d] /\ k.idx[d] = g.idx[d]
      BY <1>1, <1>4, <2>2 DEF SameClusters, DiskOK, WordsOK
    <3>2. k.own[d] # Nil =>
            /\ k.ext[k.own[d]] <= g.ext[k.own[d]] /\ k.ext[k.own[d]] \in Nat
            /\ g.ext[k.own[d]] \in Nat /\ k.idx[d] \in Nat
      BY <1>1 DEF SameClusters, Maps
    <3>3. d \in bypassed => d \in bypassed'
      OBVIOUS
    <3> QED BY <3>1, <3>2, <3>3, KeptWords
  <2> QED BY <2>1, <2>2
<1>10. ASSUME NEW n \in Names, closed'[n] \in {closed[n], NoFile},
              closed'[n] # NoFile => /\ n # Slot(c, s).nm \/ entry = Slot(c, s)
                                     /\ n # k.moving
       PROVE  PowerAt(k, n)'
  <2>1. PowerAt(g, n) /\ DirsOK(g) /\ ChainsOK(g)
    BY <1>1 DEF DiskOK, PowerOK
  <2>2. \A d \in g.dirs : d \in k.dirs /\ k.pos[d] = g.pos[d]
    BY DEF SameClusters
  <2>3. \A d \in k.dirs : /\ d \in g.dirs /\ View(d)'.link = View(d).link
                          /\ disk.cluster[d].link = View(d).link
                               => disk'.cluster[d].link = View(d).link
    <3> SUFFICES ASSUME NEW d \in g.dirs
                 PROVE  disk.cluster[d].link = View(d).link => disk'.cluster[d].link = View(d).link
      BY <1>1, <1>6 DEF SameClusters
    <3>1. CASE d = c
      BY <1>4, <3>1
    <3>2. CASE d # c
      BY <1>1, <1>4, <3>2, KeptGives
    <3> QED BY <3>1, <3>2
  <2>4. \A d \in g.dirs : g.pos[d] < g.dlen
    BY <2>1 DEF DirsOK
  <2>5. ASSUME closed'[n] # NoFile
        PROVE  /\ closed'[n] = closed[n] /\ n # k.moving
               /\ \A d \in Clusters : k.own[d] = n =>
                    /\ g.own[d] = n /\ (Dirty(d)' => Dirty(d))
                    /\ disk'.fat[d] \in {disk.fat[d], Table[d]} /\ Table'[d] = Table[d]
               /\ \A d \in Clusters, t \in Slots :
                    Slot(d, t).nm = n /\ disk.cluster[d].slot[t] = Slot(d, t) =>
                      Slot(d, t)' = Slot(d, t) /\ disk'.cluster[d].slot[t] = Slot(d, t)
    <3>1. ASSUME NEW d \in Clusters, k.own[d] = n
          PROVE  /\ g.own[d] = n /\ (Dirty(d)' => Dirty(d))
                 /\ disk'.fat[d] \in {disk.fat[d], Table[d]} /\ Table'[d] = Table[d]
      <4>1. g.own[d] = n /\ d # c
        BY <2>1, <3>1, Nils DEF SameClusters, ChainsOK
      <4> QED BY <1>4, <3>1, <4>1, KeptGives DEF FatQuiet, FatStep
    <3>2. ASSUME NEW d \in Clusters, NEW t \in Slots, Slot(d, t).nm = n,
                 disk.cluster[d].slot[t] = Slot(d, t)
          PROVE  Slot(d, t)' = Slot(d, t) /\ disk'.cluster[d].slot[t] = Slot(d, t)
      <4>1. Slot(d, t)' = Slot(d, t)
        BY <1>5, <1>10, <2>5, <3>2
      <4>2. CASE d = c
        BY <1>4, <3>2, <4>1, <4>2
      <4>3. CASE d # c
        BY <1>4, <3>2, <4>1, <4>3, KeptGives
      <4> QED BY <4>1, <4>2, <4>3
    <3> QED BY <1>10, <2>5, <3>1, <3>2
  <2>6. k \in Maps
    BY DEF SameClusters
  <2> QED BY <1>1, <2>1, <2>2, <2>3, <2>4, <2>5, <2>6, PowerKept
<1> QED BY <1>5, <1>7, <1>8, <1>9, <1>10

\* A step that changes an entry.
LEMMA SlotHolds ==
  ASSUME NEW g, Holds(g), NEW c \in g.dirs, NEW s \in Slots, NEW entry \in EntryType,
         SlotChanged(c, s, entry), fatAllocNext' = fatAllocNext,
         fdNextCluster' \in g.dirs, lastdircluster' \in g.dirs, bypassed' = bypassed,
         NEW k, SameClusters(g, k), \A n \in Names : k.ext[n] <= g.ext[n],
         closed' = closed, right' = TRUE,
         \A n \in Names : closed[n] # NoFile => /\ n # Slot(c, s).nm \/ entry = Slot(c, s)
                                                /\ n # k.moving,
         fh' \in [Handles -> HandleType], call' \in CallType,
         EntriesOK(k)', HandlesOK(k)', CallOK(k)', Emptying' \/ Writers' # {}
  PROVE  Holds(k)'
<1>1. DiskOK(g) /\ TypeInv
  BY PartsOf
<1>2. /\ ChainsOK(k)' /\ DirsOK(k)' /\ WordsOK(k)'
      /\ \A n \in Names :
              /\ closed'[n] \in {closed[n], NoFile}
              /\ closed'[n] # NoFile => /\ n # Slot(c, s).nm \/ entry = Slot(c, s)
                                        /\ n # k.moving
              => PowerAt(k, n)'
  BY SlotParts
<1>3. PowerOK(k)'
  BY <1>2 DEF PowerOK
<1>4. DiskOK(k)'
  BY <1>2, <1>3 DEF DiskOK, SameClusters
<1>5. BuffersType' /\ BuffersOK' /\ FatGood(Fat)'
  BY DEF SlotChanged, Changed, FatQuiet, FatStep
<1>6. TypeInv'
  BY <1>1, <1>5, TypesKept DEF TypeInv, private
<1>7. CleanOK'
  BY DEF CleanOK
<1> QED BY <1>4, <1>5, <1>6, <1>7, HoldsOf

\* FSClose puts the size into the entry.
LEMMA CloseEntryHolds ==
  ASSUME NEW g, Holds(g), CloseEntry
  PROVE  Holds(g)'
<1>1. call.at = "size" /\ call' = [call EXCEPT !.at = "flush"]
      /\ UNCHANGED <<fatbuf, private, fh, history>>
  BY DEF CloseEntry
<1>2. /\ TypeInv /\ BuffersOK /\ BuffersType /\ DiskOK(g) /\ CallOK(g) /\ call.op = "close"
      /\ call.h \in Handles /\ fh[call.h] # NoHandle /\ g.moving = Nil /\ g.loose = {}
      /\ fh \in [Handles -> HandleType] /\ g \in Maps /\ right = TRUE
  BY <1>1, PartsOf, TypesOf DEF CallOK, PhaseOK, TypeInv
<1>3. PICK h \in Handles, f \in HandleType : h = call.h /\ f = fh[h]
  BY <1>2, HandleTypes
<1>4. /\ HandleOK(g, h) /\ f.nm \in Names /\ f.dircluster \in Clusters /\ f.diroff \in Slots
      /\ Slot(f.dircluster, f.diroff).nm = f.nm /\ f.size <= g.ext[f.nm]
      /\ IF f.dirty THEN f.mode = "write" ELSE Slot(f.dircluster, f.diroff).size = f.size
      /\ f.mode = "write" => closed[f.nm] = NoFile
      /\ \A j \in Handles : fh[j].nm = f.nm => h = j
  BY <1>2, <1>3, HandleTypes DEF HandleOK
<1>5. PICK c \in Clusters, s \in Slots : c = f.dircluster /\ s = f.diroff
  BY <1>4
<1>6. c \in g.dirs
  BY <1>2, <1>4, <1>5, Nils DEF DiskOK, DirsOK
<1>7. View(c) \in Parts /\ Contents(c) = View(c)
  BY <1>2, <1>6, LinkIn, ContentsIsView
<1>8. PICK old \in EntryType : old = Slot(c, s)
  BY <1>7 DEF EntryType, Parts, Slot
<1>9. PICK entry \in EntryType : entry = [old EXCEPT !.size = f.size]
  BY DEF EntryType, HandleType
<1>10. entry.nm = f.nm /\ entry.size = f.size /\ entry.cluster = old.cluster
  BY <1>4, <1>5, <1>8, <1>9 DEF EntryType
<1>11. SlotChanged(c, s, entry)
  <2>1. PICK new : new = [View(c) EXCEPT !.slot[s] = entry]
    OBVIOUS
  <2>2. new \in Parts
    BY <1>7, <2>1 DEF Parts, EntryType
  <2>3. new = [View(c) EXCEPT !.slot[s].size = f.size]
    BY <1>7, <1>8, <1>9, <2>1 DEF Parts, Slot
  <2>4. Change(c, FSBPRI_SYS, FSBDIRTY_SYS, new)
    BY <1>3, <1>5, <1>7, <2>3 DEF CloseEntry
  <2>5. Changed(c, FSBDIRTY_SYS, new)
    BY <1>1, <1>2, <2>2, <2>4, ChangedIs
  <2>6. new.link = View(c).link /\ new.slot = [View(c).slot EXCEPT ![s] = entry]
    BY <1>7, <2>1 DEF Parts
  <2> QED BY <2>2, <2>5, <2>6 DEF SlotChanged
<1>12. SameClusters(g, g) /\ \A n \in Names : g.ext[n] <= g.ext[n]
  BY <1>2 DEF SameClusters, Maps
<1>13. /\ fatAllocNext' = fatAllocNext /\ fdNextCluster' \in g.dirs /\ lastdircluster' \in g.dirs
       /\ bypassed' = bypassed /\ closed' = closed /\ right' = TRUE /\ fh' = fh
  BY <1>1, <1>2, DirsIn DEF history, private
<1>14. \A d \in Clusters, t \in Slots :
         Slot(d, t)' = IF d = c /\ t = s THEN entry ELSE Slot(d, t)
  BY <1>6, <1>11, <1>12, <1>13, SlotParts
<1>15. EntriesOK(g)'
  <2>1. EntriesOK(g)
    BY <1>2 DEF DiskOK
  <2>2. \A d \in Clusters, t \in Slots : /\ Slot(d, t)'.nm = Slot(d, t).nm
                                         /\ Slot(d, t)'.cluster = Slot(d, t).cluster
    BY <1>4, <1>5, <1>8, <1>10, <1>14
  <2>3. \A d \in Clusters, t \in Slots : Slot(d, t)'.nm = Nil => Slot(d, t)' = NoEntry
    <3>1. f.nm # Nil
      BY <1>4, Nils
    <3> QED BY <1>10, <1>14, <2>1, <2>2, <3>1 DEF EntriesOK
  <2>4. \A d \in Clusters, t \in Slots :
          Slot(d, t)'.nm # Nil /\ Slot(d, t)'.nm # g.moving =>
            Slot(d, t)'.size <= g.ext[Slot(d, t)'.nm]
    <3> SUFFICES ASSUME NEW d \in Clusters, NEW t \in Slots,
                        Slot(d, t)'.nm # Nil /\ Slot(d, t)'.nm # g.moving
                 PROVE  Slot(d, t)'.size <= g.ext[Slot(d, t)'.nm]
      OBVIOUS
    <3>1. CASE d = c /\ t = s
      BY <1>4, <1>10, <1>14, <3>1
    <3>2. CASE ~(d = c /\ t = s)
      BY <1>14, <2>1, <3>2 DEF EntriesOK
    <3> QED BY <3>1, <3>2
  <2> QED BY <2>1, <2>2, <2>3, <2>4 DEF EntriesOK, NoEntryOf, Headed
<1>16. /\ call'.at = "flush" /\ call'.op = "close" /\ call'.h = h /\ call' \in CallType
  BY <1>1, <1>2, <1>3, NextAt
<1>17. HandleOK(g, h)'
  <2>1. SeekLeft(h)' = SeekLeft(h) /\ ~Writing(h)
    BY <1>1, <1>2, <1>16 DEF SeekLeft, Writing
  <2>2. fh'[h] = f /\ closed' = closed
    BY <1>3, <1>13
  <2>3. Slot(f.dircluster, f.diroff)' = entry
    BY <1>5, <1>14
  <2>4. \A j \in Handles : fh'[j].nm = f.nm => h = j
    BY <1>4, <1>13
  <2>5. entry.cluster = Slot(f.dircluster, f.diroff).cluster
    BY <1>5, <1>8, <1>10
  <2> HIDE DEF SeekLeft, Writing
  <2> QED BY <1>3, <1>4, <1>10, <2>1, <2>2, <2>3, <2>4, <2>5 DEF HandleOK
<1>18. HandlesOK(g)'
  <2>1. ASSUME NEW j \in Handles \ {h}, fh[j] # NoHandle
        PROVE  /\ fh'[h].nm # fh[j].nm
               /\ Slot(fh[j].dircluster, fh[j].diroff)' = Slot(fh[j].dircluster, fh[j].diroff)
               /\ closed'[fh[j].nm] \in {closed[fh[j].nm], NoFile}
               /\ g.moving = fh[j].nm => g.moving = fh[j].nm
               /\ fh[j].cluster # 0 => /\ g.own[fh[j].cluster] = g.own[fh[j].cluster]
                                       /\ g.idx[fh[j].cluster] = g.idx[fh[j].cluster]
               /\ g.ext[fh[j].nm] \in Nat /\ g.ext[fh[j].nm] <= g.ext[fh[j].nm]
    <3>1. HandleOK(g, j) /\ g.ext[fh[j].nm] \in Nat
      BY <2>1, HandleTypes
    <3>2. /\ fh'[j] = fh[j] /\ fh[j].dircluster \in Clusters /\ fh[j].diroff \in Slots
          /\ Slot(fh[j].dircluster, fh[j].diroff).nm = fh[j].nm
      BY <1>13, <3>1 DEF HandleOK
    <3>3. fh[j].nm # f.nm
      BY <1>2, <1>3, <2>1, OtherNames
    <3>4. Slot(fh[j].dircluster, fh[j].diroff)' = Slot(fh[j].dircluster, fh[j].diroff)
      BY <1>4, <1>5, <1>14, <3>2, <3>3
    <3> QED BY <1>3, <1>13, <3>1, <3>3, <3>4
  <2>2. \A j \in Handles \ {h} : fh'[j] = fh[j]
    BY <1>13
  <2> QED BY <1>3, <1>16, <1>17, <2>1, <2>2, HandlesBut
<1>19. CallOK(g)'
  <2>1. PhaseOK' /\ DirCallOK(g)' /\ WriteOK(g)' /\ ReadOK(g)'
    BY <1>16 DEF PhaseOK, DirCallOK, WriteOK, ReadOK
  <2>2. Slot(f.dircluster, f.diroff)'.size = f.size
    BY <1>5, <1>10, <1>14
  <2> QED BY <1>2, <1>3, <1>13, <1>16, <2>1, <2>2 DEF CallOK
<1>20. Emptying'
  BY <1>16 DEF Emptying
<1>21. \A n \in Names : closed[n] # NoFile => /\ n # Slot(c, s).nm \/ entry = Slot(c, s)
                                              /\ n # g.moving
  <2> SUFFICES ASSUME NEW n \in Names, closed[n] # NoFile, n = f.nm
               PROVE  entry = old
    BY <1>2, <1>4, <1>5, <1>8, Nils
  <2>1. old.size = f.size
    BY <1>4, <1>5, <1>8
  <2> QED BY <1>9, <2>1 DEF EntryType
<1>22. fh' \in [Handles -> HandleType]
  BY <1>2, <1>13
<1> QED BY <1>6, <1>11, <1>12, <1>13, <1>15, <1>16, <1>18, <1>19, <1>20, <1>21, <1>22, SlotHolds

\* FDCreate clears the new cluster of the directory, which was empty.
LEMMA ClearDirectoryHolds ==
  ASSUME NEW g, Holds(g), ClearDirectory
  PROVE  Holds(g)'
<1>1. /\ call.at = "clear" /\ Change(call.c, FSBPRI_SYS, FSBDIRTY_SYS, Blank)
      /\ lastdircluster' = call.c /\ call' = [call EXCEPT !.at = "replace"]
      /\ UNCHANGED <<fatbuf, fatAllocNext, fdNextCluster, fh, history>>
  BY DEF ClearDirectory
<1>2. /\ TypeInv /\ BuffersOK /\ BuffersType /\ DiskOK(g) /\ CallOK(g) /\ DirCallOK(g)
      /\ call.op = "create" /\ g.moving = Nil /\ g.loose = {} /\ g \in Maps /\ right = TRUE
      /\ fh \in [Handles -> HandleType]
  BY <1>1, PartsOf, TypesOf DEF CallOK, PhaseOK, TypeInv
<1>3. /\ call.c \in g.dirs /\ g.pos[call.c] + 1 = g.dlen /\ NoEntryOf(call.nm)
      /\ \A s \in Slots : Slot(call.c, s).nm = Nil
      /\ call.nm \in Names /\ ~Open(call.nm) /\ call.h \in Handles /\ fh[call.h] = NoHandle
      /\ closed[call.nm] = NoFile
  BY <1>1, <1>2 DEF DirCallOK
<1>4. PICK c \in g.dirs : c = call.c
  BY <1>3
<1>5. c \in Clusters /\ View(c) \in Parts /\ View(c).link = 0
  <2>1. c \in Clusters /\ View(c) \in Parts /\ DirsOK(g)
    BY <1>2, LinkIn DEF DiskOK
  <2> QED BY <1>3, <1>4, <2>1 DEF DirsOK
<1>6. \A s \in Slots : Slot(c, s) = NoEntry
  BY <1>2, <1>3, <1>4, <1>5 DEF DiskOK, EntriesOK
<1>7. 1 \in Slots /\ NoEntry \in EntryType
  BY Numbered, Sizes DEF NoEntry, EntryType
<1>8. SlotChanged(c, 1, NoEntry)
  <2>1. Blank.link = 0 /\ Blank.slot = [s \in Slots |-> NoEntry]
    BY DEF Blank
  <2>2. Blank \in Parts
    BY Sizes DEF Blank, Parts, NoEntry, NoWord, Words
  <2>3. View(c).slot = [s \in Slots |-> NoEntry]
    BY <1>5, <1>6 DEF Slot, Parts
  <2>4. Changed(c, FSBDIRTY_SYS, Blank)
    BY <1>1, <1>2, <1>4, <1>5, <2>2, ChangedIs
  <2>5. Blank.slot = [View(c).slot EXCEPT ![1] = NoEntry]
    BY <1>7, <2>1, <2>3
  <2> QED BY <1>5, <2>1, <2>2, <2>4, <2>5 DEF SlotChanged
<1>9. SameClusters(g, g) /\ \A n \in Names : g.ext[n] <= g.ext[n]
  BY <1>2 DEF SameClusters, Maps
<1>10. /\ fatAllocNext' = fatAllocNext /\ fdNextCluster' \in g.dirs /\ lastdircluster' \in g.dirs
       /\ bypassed' = bypassed /\ closed' = closed /\ right' = TRUE /\ fh' = fh
       /\ fh' \in [Handles -> HandleType]
  BY <1>1, <1>2, <1>3, DirsIn DEF history
<1>11. \A d \in Clusters, t \in Slots : Slot(d, t)' = Slot(d, t)
  <2>1. \A d \in Clusters, t \in Slots :
          Slot(d, t)' = IF d = c /\ t = 1 THEN NoEntry ELSE Slot(d, t)
    BY <1>7, <1>8, <1>9, <1>10, SlotParts
  <2> QED BY <1>6, <2>1
<1>12. EntriesOK(g)'
  BY <1>2, <1>11, EntriesKept DEF DiskOK
<1>13. /\ call'.at = "replace" /\ call'.op = "create" /\ call'.h = call.h /\ call'.nm = call.nm
       /\ call'.c = call.c /\ call' \in CallType
  BY <1>1, <1>2, NextAt
<1>14. HandlesOK(g)'
  <2>1. \A h \in Handles : SeekLeft(h)' = SeekLeft(h) /\ ~Writing(h)
    BY <1>1, <1>2, <1>13 DEF SeekLeft, Writing
  <2> QED BY <1>10, <1>11, <2>1, HandlesStay
<1>15. CallOK(g)'
  <2>1. NoEntryOf(call.nm)'
    BY <1>3, <1>11, <1>13 DEF NoEntryOf
  <2>2. DirCallOK(g)'
    BY <1>3, <1>10, <1>13, <2>1 DEF DirCallOK, Open
  <2>3. PhaseOK' /\ WriteOK(g)' /\ ReadOK(g)'
    BY <1>13 DEF PhaseOK, WriteOK, ReadOK
  <2> QED BY <1>2, <1>13, <2>2, <2>3 DEF CallOK
<1>16. Emptying'
  BY <1>13 DEF Emptying
<1>17. \A n \in Names : closed[n] # NoFile => /\ n # Slot(c, 1).nm \/ NoEntry = Slot(c, 1)
                                              /\ n # g.moving
  BY <1>2, <1>6, <1>7, Nils
<1> QED BY <1>7, <1>8, <1>9, <1>10, <1>12, <1>13, <1>14, <1>15, <1>16, <1>17, SlotHolds

=============================================================================
