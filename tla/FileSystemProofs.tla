-------------------------- MODULE FileSystemProofs --------------------------
(***************************************************************************)
(* Theorems about FileSystem, for every set of names and handles and every *)
(* size of a cluster, of the buffers, of the table's window and of the     *)
(* disk, under the careful game (Careless = {}).                           *)
(*                                                                         *)
(* First the steps that change what belongs to whom, each with the map of  *)
(* the disk it makes from the one before (FileSystemMap has the others);   *)
(* then the invariant, and what follows from it along the chains.          *)
(***************************************************************************)
EXTENDS FileSystemMap

\* The constants of the code are used throughout.
USE DEF CLUSTER_CHAIN_END, CLUSTER_UNUSED, CLUSTER_FIRST_USER, ROOT_DIR_CLUSTER,
        FSBPRI_SYS, FSBDIRTY_SYS, FSBPRI_USR, FSBDIRTY_USR

\* FDCreate links a new cluster to the last of the directory.
LEMMA LinkDirectoryHolds ==
  ASSUME NEW g, Holds(g), LinkDirectory
  PROVE  \E k \in Maps : Holds(k)'
<1>1. /\ call.at = "link"
      /\ Change(call.c, FSBPRI_SYS, FSBDIRTY_SYS, [Contents(call.c) EXCEPT !.link = call.x])
      /\ call' = [call EXCEPT !.at = "clear", !.c = call.x]
      /\ UNCHANGED <<fatbuf, private, fh, history>>
  BY DEF LinkDirectory
<1>2. /\ TypeInv /\ BuffersOK /\ BuffersType /\ DiskOK(g) /\ CallOK(g) /\ DirCallOK(g)
      /\ call.op = "create" /\ g.moving = Nil /\ g \in Maps /\ right = TRUE
      /\ fh \in [Handles -> HandleType] /\ call \in CallType
  BY <1>1, PartsOf, TypesOf DEF CallOK, PhaseOK, TypeInv
<1>3. /\ call.c \in g.dirs /\ g.pos[call.c] + 1 = g.dlen /\ NoEntryOf(call.nm)
      /\ g.loose = {call.x} /\ Table[call.x] = 0
      /\ call.nm \in Names /\ ~Open(call.nm) /\ call.h \in Handles /\ fh[call.h] = NoHandle
      /\ closed[call.nm] = NoFile
  BY <1>1, <1>2 DEF DirCallOK
<1>4. PICK c \in g.dirs, x \in Clusters : c = call.c /\ x = call.x
  BY <1>2, <1>3 DEF Maps
<1>5. /\ c \in Clusters /\ View(c) \in Parts /\ View(c).link = 0 /\ Contents(c) = View(c)
      /\ g.dirs \subseteq Clusters
  <2>1. c \in Clusters /\ View(c) \in Parts /\ DirsOK(g)
    BY <1>2, LinkIn DEF DiskOK
  <2> QED BY <1>2, <1>3, <1>4, <2>1, ContentsIsView, DirsIn DEF DirsOK
<1>6. x \notin g.dirs /\ g.own[x] = Nil /\ x # c
  BY <1>2, <1>3, <1>4 DEF DiskOK, ChainsOK
<1>7. PICK new : new = [View(c) EXCEPT !.link = x]
  OBVIOUS
<1>8. new \in Parts /\ new.link = x /\ new.slot = View(c).slot
  BY <1>5, <1>7 DEF Parts
<1>9. Changed(c, FSBDIRTY_SYS, new)
  BY <1>1, <1>2, <1>4, <1>5, <1>7, <1>8, ChangedIs
<1>10. /\ OneDirtied(c, FSBDIRTY_SYS) /\ FatQuiet /\ (\A d \in Clusters \ {c} : Kept(d))
       /\ View(c)' = new /\ disk'.cluster[c] = disk.cluster[c]
       /\ BuffersType' /\ BuffersOK' /\ FatGood(Fat)'
  BY <1>9 DEF Changed, FatQuiet, FatStep
<1>11. \A d \in Clusters, t \in Slots : Slot(d, t)' = Slot(d, t)
  <2> SUFFICES ASSUME NEW d \in Clusters, NEW t \in Slots PROVE Slot(d, t)' = Slot(d, t)
    OBVIOUS
  <2>1. CASE d = c
    BY <1>8, <1>10, <2>1 DEF Slot
  <2>2. CASE d # c
    BY <1>10, <2>2, KeptGives
  <2> QED BY <2>1, <2>2
<1>12. \A d \in Clusters : View(d)'.link = IF d = c THEN x ELSE View(d).link
  BY <1>8, <1>10, KeptGives
<1>13. /\ bypassed' = bypassed /\ closed' = closed /\ right' = TRUE /\ fh' = fh
       /\ fatAllocNext' = fatAllocNext /\ fdNextCluster' \in g.dirs /\ lastdircluster' \in g.dirs
  BY <1>1, <1>2, DirsIn DEF history, private
<1> DEFINE k == [own |-> g.own, idx |-> g.idx, len |-> g.len, ext |-> g.ext,
                 dirs |-> g.dirs \cup {x}, pos |-> [g.pos EXCEPT ![x] = g.dlen],
                 dlen |-> g.dlen + 1, loose |-> {}, moving |-> g.moving]
<1>14. /\ k \in Maps /\ k.own = g.own /\ k.idx = g.idx /\ k.len = g.len /\ k.ext = g.ext
       /\ k.moving = g.moving /\ k.loose = {} /\ k.dirs = g.dirs \cup {x} /\ k.dlen = g.dlen + 1
       /\ k.pos = [g.pos EXCEPT ![x] = g.dlen] /\ g.dlen \in Nat /\ g.pos \in [Clusters -> Nat]
  BY <1>2, <1>5 DEF Maps
<1> HIDE DEF k
<1>15. k.pos[x] = g.dlen /\ \A d \in g.dirs : k.pos[d] = g.pos[d] /\ g.pos[d] \in Nat
  BY <1>5, <1>6, <1>14
<1>16. ChainsOK(k)'
  <2>1. Table' = Table /\ ChainsOK(g)
    BY <1>2, <1>10 DEF FatQuiet, DiskOK
  <2>2. \A d \in Clusters : g.own[d] # Nil => d \notin k.dirs /\ d \notin k.loose
    BY <1>6, <1>14, <2>1 DEF ChainsOK
  <2>3. \A d \in k.dirs : Table[d] = 0 /\ d \notin k.loose
    BY <1>3, <1>4, <1>14, <2>1 DEF ChainsOK
  <2>4. \A d \in Clusters : g.own[d] = Nil /\ d \notin k.dirs /\ d \notin k.loose => Table[d] = 1
    BY <1>3, <1>4, <1>14, <2>1 DEF ChainsOK
  <2> QED BY <1>14, <2>1, <2>2, <2>3, <2>4 DEF ChainsOK
<1>17. DirsOK(k)'
  <2>1. DirsOK(g)
    BY <1>2 DEF DiskOK
  <2>2. 3 \in k.dirs /\ k.pos[3] = 0
    BY <1>14, <1>15, <2>1 DEF DirsOK
  <2>3. ASSUME NEW d \in k.dirs
        PROVE  /\ k.pos[d] < k.dlen
               /\ IF k.pos[d] + 1 = k.dlen THEN View(d)'.link = 0
                  ELSE View(d)'.link \in k.dirs /\ k.pos[View(d)'.link] = k.pos[d] + 1
    <3>1. CASE d = x
      <4>1. View(x).link = 0
        BY <1>6, <2>1 DEF DirsOK
      <4>2. View(x)'.link = 0
        BY <1>6, <1>12, <4>1
      <4> QED BY <1>14, <1>15, <3>1, <4>2
    <3>2. CASE d = c
      <4>1. View(c)'.link = x
        BY <1>5, <1>12
      <4> QED BY <1>3, <1>4, <1>14, <1>15, <3>2, <4>1
    <3>3. CASE d # x /\ d # c
      <4>1. d \in g.dirs /\ g.pos[d] < g.dlen /\ k.pos[d] = g.pos[d] /\ g.pos[d] \in Nat
        BY <1>14, <1>15, <2>1, <3>3 DEF DirsOK
      <4>2. g.pos[d] + 1 # g.dlen
        BY <1>3, <1>4, <1>14, <1>15, <2>1, <3>3, <4>1 DEF DirsOK
      <4>3. View(d).link \in g.dirs /\ g.pos[View(d).link] = g.pos[d] + 1
        BY <2>1, <4>1, <4>2 DEF DirsOK
      <4>4. View(d)'.link = View(d).link
        BY <1>5, <1>12, <3>3, <4>1
      <4> QED BY <1>14, <1>15, <4>1, <4>2, <4>3, <4>4
    <3> QED BY <3>1, <3>2, <3>3
  <2>4. \A d, e \in k.dirs : k.pos[d] = k.pos[e] => d = e
    <3>1. \A d \in g.dirs : k.pos[d] = g.pos[d] /\ g.pos[d] < g.dlen
      BY <1>15, <2>1 DEF DirsOK
    <3> QED BY <1>14, <1>15, <2>1, <3>1 DEF DirsOK
  <2>5. ASSUME NEW j \in 0 .. k.dlen - 1
        PROVE  \E d \in k.dirs : k.pos[d] = j
    <3>1. CASE j = g.dlen
      BY <1>14, <1>15, <3>1
    <3>2. CASE j # g.dlen
      <4>1. j \in 0 .. g.dlen - 1
        BY <1>14, <3>2
      <4>2. PICK d \in g.dirs : g.pos[d] = j
        BY <2>1, <4>1 DEF DirsOK
      <4> QED BY <1>14, <1>15, <4>2
    <3> QED BY <3>1, <3>2
  <2>6. \A d \in Clusters \ k.dirs : View(d)'.link = 0 /\ \A s \in Slots : Slot(d, s)'.nm = Nil
    <3> SUFFICES ASSUME NEW d \in Clusters \ k.dirs
                 PROVE  View(d)'.link = 0 /\ \A s \in Slots : Slot(d, s)'.nm = Nil
      OBVIOUS
    <3>1. d \in Clusters \ g.dirs /\ d # c
      BY <1>14
    <3>2. View(d).link = 0 /\ \A s \in Slots : Slot(d, s).nm = Nil
      BY <2>1, <3>1 DEF DirsOK
    <3> QED BY <1>11, <1>12, <3>1, <3>2
  <2>7. \A b \in Buffers : fsb_t'[b].dirty = 1 => fsb_t'[b].cluster \in k.dirs
    BY <1>10, <1>14, <2>1 DEF OneDirtied, DirsOK
  <2>8. fdNextCluster' \in k.dirs /\ lastdircluster' \in k.dirs
    BY <1>13, <1>14
  <2> QED BY <2>2, <2>3, <2>4, <2>5, <2>6, <2>7, <2>8 DEF DirsOK
<1>18. EntriesOK(k)'
  BY <1>2, <1>11, <1>14, EntriesKept DEF DiskOK
<1>19. WordsOK(k)'
  <2> SUFFICES ASSUME NEW d \in Clusters PROVE WordsAt(k, d)'
    BY DEF WordsOK
  <2>1. CASE d = c
    <3>1. g.own[c] = Nil
      BY <1>2, <1>5 DEF DiskOK, ChainsOK
    <3> QED BY <1>14, <2>1, <3>1 DEF WordsAt
  <2>2. CASE d # c
    <3>1. WordsAt(g, d) /\ Kept(d)
      BY <1>2, <1>10, <2>2 DEF DiskOK, WordsOK
    <3>2. k.own[d] # Nil => g.ext[k.own[d]] \in Nat /\ k.idx[d] \in Nat
      BY <1>2, <1>14 DEF Maps
    <3>3. k.own[d] # Nil => k.ext[k.own[d]] <= g.ext[k.own[d]] /\ k.ext[k.own[d]] \in Nat
      BY <1>14, <3>2
    <3> QED BY <1>13, <1>14, <3>1, <3>2, <3>3, KeptWords
  <2> QED BY <2>1, <2>2
<1>20. PowerOK(k)'
  <2> SUFFICES ASSUME NEW n \in Names PROVE PowerAt(k, n)'
    BY DEF PowerOK
  <2>1. PowerAt(g, n) /\ DirsOK(g) /\ ChainsOK(g)
    BY <1>2 DEF DiskOK, PowerOK
  <2>2. \A d \in g.dirs : d \in k.dirs /\ k.pos[d] = g.pos[d] /\ g.pos[d] < g.dlen
    BY <1>14, <1>15, <2>1 DEF DirsOK
  <2>3. ASSUME NEW d \in k.dirs
        PROVE  \/ d \notin g.dirs /\ k.pos[d] >= g.dlen
               \/ d \in g.dirs /\ g.pos[d] + 1 = g.dlen
               \/ /\ d \in g.dirs /\ View(d)'.link = View(d).link
                  /\ disk.cluster[d].link = View(d).link => disk'.cluster[d].link = View(d).link
    <3>1. CASE d = x
      BY <1>6, <1>14, <1>15, <3>1
    <3>2. CASE d = c
      BY <1>3, <1>4, <3>2
    <3>3. CASE d # x /\ d # c
      <4>1. d \in g.dirs
        BY <1>14, <3>3
      <4>2. Kept(d)
        BY <1>5, <1>10, <3>3, <4>1
      <4>3. /\ View(d)'.link = View(d).link
            /\ disk.cluster[d].link = View(d).link => disk'.cluster[d].link = View(d).link
        BY <4>2, KeptGives
      <4> QED BY <4>1, <4>3
    <3> QED BY <3>1, <3>2, <3>3
  <2>4. ASSUME closed'[n] # NoFile
        PROVE  /\ closed'[n] = closed[n] /\ n # k.moving
               /\ \A d \in Clusters : k.own[d] = n =>
                    /\ g.own[d] = n /\ (Dirty(d)' => Dirty(d))
                    /\ disk'.fat[d] \in {disk.fat[d], Table[d]} /\ Table'[d] = Table[d]
               /\ \A d \in Clusters, t \in Slots :
                    Slot(d, t).nm = n /\ disk.cluster[d].slot[t] = Slot(d, t) =>
                      Slot(d, t)' = Slot(d, t) /\ disk'.cluster[d].slot[t] = Slot(d, t)
    <3>1. ASSUME NEW d \in Clusters, k.own[d] = n
          PROVE  /\ g.own[d] = n /\ (Dirty(d)' => Dirty(d))
                 /\ disk'.fat[d] \in {disk.fat[d], Table[d]} /\ Table'[d] = Table[d]
      <4>1. g.own[d] = n /\ d # c
        BY <1>14, <2>1, <3>1, Nils DEF ChainsOK
      <4> QED BY <1>10, <3>1, <4>1, KeptGives DEF FatQuiet, FatStep
    <3>2. ASSUME NEW d \in Clusters, NEW t \in Slots, Slot(d, t).nm = n,
                 disk.cluster[d].slot[t] = Slot(d, t)
          PROVE  Slot(d, t)' = Slot(d, t) /\ disk'.cluster[d].slot[t] = Slot(d, t)
      <4>1. Slot(d, t)' = Slot(d, t)
        BY <1>11
      <4>2. CASE d = c
        BY <1>10, <3>2, <4>1, <4>2
      <4>3. CASE d # c
        BY <1>10, <3>2, <4>1, <4>3, KeptGives
      <4> QED BY <4>1, <4>2, <4>3
    <3> QED BY <1>2, <1>13, <1>14, <3>1, <3>2, Nils
  <2>5. \A d \in g.dirs : d \in k.dirs /\ k.pos[d] = g.pos[d]
    BY <2>2
  <2>6. \A d \in g.dirs : g.pos[d] < g.dlen
    BY <2>2
  <2>7. k \in Maps /\ g \in Maps /\ PowerAt(g, n)
    BY <1>2, <1>14, <2>1
  <2> QED BY <2>3, <2>4, <2>5, <2>6, <2>7, PowerKept
<1>21. DiskOK(k)'
  BY <1>14, <1>16, <1>17, <1>18, <1>19, <1>20 DEF DiskOK
<1>22. /\ call'.at = "clear" /\ call'.op = "create" /\ call'.h = call.h /\ call'.nm = call.nm
       /\ call'.c = x /\ call' \in CallType
  BY <1>1, <1>2, <1>4 DEF CallType
<1>23. HandlesOK(k)'
  <2>1. \A h \in Handles : SeekLeft(h)' = SeekLeft(h) /\ ~Writing(h)
    BY <1>1, <1>2, <1>22 DEF SeekLeft, Writing
  <2>2. HandlesOK(g)'
    BY <1>11, <1>13, <2>1, HandlesStay
  <2> QED BY <1>14, <2>2 DEF HandlesOK, HandleOK
<1>24. CallOK(k)'
  <2>1. NoEntryOf(call.nm)'
    BY <1>3, <1>11, <1>22 DEF NoEntryOf
  <2>2. \A s \in Slots : Slot(x, s)'.nm = Nil
    BY <1>2, <1>6, <1>11 DEF DiskOK, DirsOK
  <2>3. \A s \in Slots : Slot(call.c, s)'.nm = Nil
    BY <1>22, <2>2
  <2>4. x \in k.dirs /\ k.pos[x] + 1 = k.dlen
    BY <1>14, <1>15
  <2>5. DirCallOK(k)'
    BY <1>3, <1>13, <1>22, <2>1, <2>3, <2>4 DEF DirCallOK, Open
  <2>6. PhaseOK' /\ WriteOK(k)' /\ ReadOK(k)'
    BY <1>22 DEF PhaseOK, WriteOK, ReadOK
  <2> QED BY <1>2, <1>14, <1>22, <2>5, <2>6 DEF CallOK
<1>25. TypeInv'
  BY <1>2, <1>10, <1>13, <1>22, TypesKept DEF TypeInv
<1>26. CleanOK'
  BY <1>22 DEF CleanOK, Emptying
<1>27. Holds(k)'
  BY <1>10, <1>13, <1>21, <1>23, <1>24, <1>25, <1>26, HoldsOf
<1> QED BY <1>14, <1>27

-----------------------------------------------------------------------------
(***************************************************************************)
(* The steps that take clusters from the table.                            *)
(***************************************************************************)

\* An unused cluster belongs to nothing.
LEMMA UnusedIs ==
  ASSUME NEW g, Holds(g), NEW a \in Clusters, Table[a] = CLUSTER_UNUSED
  PROVE  g.own[a] = Nil /\ a \notin g.dirs
<1>1. ChainsOK(g)
  BY PartsOf DEF DiskOK
<1>2. 1 \notin Clusters
  BY Numbered
<1>3. a \notin g.dirs
  BY <1>1 DEF ChainsOK
<1>4. g.own[a] = Nil
  <2> SUFFICES ASSUME g.own[a] # Nil PROVE FALSE
    OBVIOUS
  <2>1. Table[a] = 0 \/ Table[a] \in Clusters
    BY <1>1 DEF ChainsOK
  <2> QED BY <1>2, <2>1
<1> QED BY <1>3, <1>4

\* A step that changes no entry, no link and no chain keeps what is on the disk.
LEMMA LoosePower ==
  ASSUME NEW g, g \in Maps, NEW k, k \in Maps, NEW n, PowerAt(g, n), DirsOK(g),
         k.dirs = g.dirs, k.pos = g.pos, \A d \in Clusters : Kept(d),
         closed'[n] # NoFile =>
           /\ closed'[n] = closed[n] /\ n # k.moving
           /\ \A d \in Clusters : k.own[d] = n =>
                /\ g.own[d] = n /\ (Dirty(d)' => Dirty(d))
                /\ disk'.fat[d] \in {disk.fat[d], Table[d]} /\ Table'[d] = Table[d]
           /\ \A d \in Clusters, t \in Slots :
                Slot(d, t).nm = n /\ disk.cluster[d].slot[t] = Slot(d, t) =>
                  Slot(d, t)' = Slot(d, t) /\ disk'.cluster[d].slot[t] = Slot(d, t)
  PROVE  PowerAt(k, n)'
<1>1. \A d \in g.dirs : d \in k.dirs /\ k.pos[d] = g.pos[d]
  OBVIOUS
<1>2. \A d \in g.dirs : d \in Clusters
  BY DEF Maps
<1>3. \A d \in k.dirs :
        \/ d \notin g.dirs /\ k.pos[d] >= g.dlen
        \/ d \in g.dirs /\ g.pos[d] + 1 = g.dlen
        \/ /\ d \in g.dirs /\ View(d)'.link = View(d).link
           /\ disk.cluster[d].link = View(d).link => disk'.cluster[d].link = View(d).link
  BY <1>2, KeptGives
<1>4. \A d \in g.dirs : g.pos[d] < g.dlen
  BY DEF DirsOK
<1> QED BY <1>1, <1>3, <1>4, PowerKept

\* A step that marks cluster a, which is linked to nothing yet, and takes the clusters of L.
LEMMA LooseHolds ==
  ASSUME NEW g, Holds(g), NEW a \in Clusters, NEW mark, Marked(a, mark),
         NEW L, g.loose \subseteq L, L \subseteq Clusters, a \in L,
         \A d \in L : g.own[d] = Nil /\ d \notin g.dirs,
         NEW k, k = [g EXCEPT !.loose = L],
         bypassed' \subseteq Clusters,
         \A d \in bypassed : d \in bypassed' \/ g.own[d] = Nil,
         fdNextCluster' = fdNextCluster, lastdircluster' = lastdircluster,
         fatAllocNext' \in CLUSTER_FIRST_USER .. LastCluster + 1,
         fh' = fh, closed' = closed, right' = TRUE, call' \in CallType,
         call.at # "seek", call'.at # "seek", Emptying' \/ Writers # {},
         call.op = "write" => call'.op = "write" /\ call'.h = call.h,
         (\A c \in Clusters, s \in Slots : Slot(c, s)' = Slot(c, s)) => CallOK(k)'
  PROVE  Holds(k)' /\ k \in Maps
<1>1. /\ DiskOK(g) /\ TypeInv /\ g \in Maps /\ g.dirs \subseteq Clusters
      /\ fdNextCluster \in g.dirs /\ lastdircluster \in g.dirs
      /\ ChainsOK(g) /\ DirsOK(g) /\ EntriesOK(g) /\ WordsOK(g) /\ PowerOK(g)
      /\ Table \in [Clusters -> Marks]
  BY PartsOf, DirsIn, TypesOf DEF DiskOK
<1>2. /\ k \in Maps /\ k.own = g.own /\ k.idx = g.idx /\ k.len = g.len /\ k.ext = g.ext
      /\ k.moving = g.moving /\ k.loose = L /\ k.dirs = g.dirs /\ k.dlen = g.dlen
      /\ k.pos = g.pos
  BY <1>1 DEF Maps
<1>3. /\ Still /\ FatStep /\ Table' = [Table EXCEPT ![a] = mark]
      /\ BuffersType' /\ BuffersOK' /\ FatGood(Fat)' /\ NoneDirtied
      /\ \A d \in Clusters : Kept(d)
  BY DEF Marked, Still, FatStep
<1>4. \A d \in Clusters : d # a => Table'[d] = Table[d]
  BY <1>1, <1>3
<1>5. \A d \in Clusters, t \in Slots : Slot(d, t)' = Slot(d, t)
  BY <1>3, KeptGives
<1>6. ChainsOK(k)'
  <2>1. \A d \in Clusters : g.own[d] # Nil => d \notin L /\ Table'[d] = Table[d]
    BY <1>4
  <2>2. \A d \in g.dirs : d \notin L /\ Table'[d] = Table[d]
    BY <1>1, <1>4
  <2>3. \A d \in Clusters : d \notin L => d \notin g.loose /\ Table'[d] = Table[d]
    BY <1>4
  <2> QED BY <1>1, <1>2, <2>1, <2>2, <2>3 DEF ChainsOK
<1>7. DirsOK(k)'
  BY <1>1, <1>2, <1>3, DirsKept
<1>8. EntriesOK(k)'
  BY <1>1, <1>2, <1>5, EntriesKept
<1>9. WordsOK(k)'
  <2> SUFFICES ASSUME NEW d \in Clusters PROVE WordsAt(k, d)'
    BY DEF WordsOK
  <2>1. WordsAt(g, d) /\ Kept(d)
    BY <1>1, <1>3 DEF WordsOK
  <2>2. k.own[d] # Nil => g.ext[k.own[d]] \in Nat /\ k.idx[d] \in Nat
    BY <1>1, <1>2 DEF Maps
  <2>3. k.own[d] # Nil => k.ext[k.own[d]] <= g.ext[k.own[d]] /\ k.ext[k.own[d]] \in Nat
    BY <1>2, <2>2
  <2>4. k.own[d] # Nil => (d \in bypassed => d \in bypassed')
    BY <1>2
  <2> QED BY <1>2, <2>1, <2>2, <2>3, <2>4, KeptWords
<1>10. PowerOK(k)'
  <2> SUFFICES ASSUME NEW n \in Names PROVE PowerAt(k, n)'
    BY DEF PowerOK
  <2>1. PowerAt(g, n)
    BY <1>1 DEF PowerOK
  <2>5. closed'[n] # NoFile =>
               /\ closed'[n] = closed[n] /\ n # k.moving
               /\ \A d \in Clusters : k.own[d] = n =>
                    /\ g.own[d] = n /\ (Dirty(d)' => Dirty(d))
                    /\ disk'.fat[d] \in {disk.fat[d], Table[d]} /\ Table'[d] = Table[d]
               /\ \A d \in Clusters, t \in Slots :
                    Slot(d, t).nm = n /\ disk.cluster[d].slot[t] = Slot(d, t) =>
                      Slot(d, t)' = Slot(d, t) /\ disk'.cluster[d].slot[t] = Slot(d, t)
    <3> SUFFICES ASSUME closed'[n] # NoFile
                 PROVE  /\ closed'[n] = closed[n] /\ n # k.moving
                        /\ \A d \in Clusters : k.own[d] = n =>
                             /\ g.own[d] = n /\ (Dirty(d)' => Dirty(d))
                             /\ disk'.fat[d] \in {disk.fat[d], Table[d]} /\ Table'[d] = Table[d]
                        /\ \A d \in Clusters, t \in Slots :
                             Slot(d, t).nm = n /\ disk.cluster[d].slot[t] = Slot(d, t) =>
                               Slot(d, t)' = Slot(d, t) /\ disk'.cluster[d].slot[t] = Slot(d, t)
      OBVIOUS
    <3>1. n # k.moving
      BY <1>2, <2>1 DEF PowerAt
    <3>2. ASSUME NEW d \in Clusters, k.own[d] = n
          PROVE  /\ g.own[d] = n /\ (Dirty(d)' => Dirty(d))
                 /\ disk'.fat[d] \in {disk.fat[d], Table[d]} /\ Table'[d] = Table[d]
      <4>1. g.own[d] = n /\ d # a
        BY <1>2, <3>2, Nils
      <4> QED BY <1>3, <1>4, <4>1, KeptGives DEF FatStep
    <3>3. ASSUME NEW d \in Clusters, NEW t \in Slots, Slot(d, t).nm = n,
                 disk.cluster[d].slot[t] = Slot(d, t)
          PROVE  Slot(d, t)' = Slot(d, t) /\ disk'.cluster[d].slot[t] = Slot(d, t)
      BY <1>3, <1>5, <3>3, KeptGives
    <3>4. closed'[n] = closed[n]
      OBVIOUS
    <3>5. \A d \in Clusters : k.own[d] = n =>
            /\ g.own[d] = n /\ (Dirty(d)' => Dirty(d))
            /\ disk'.fat[d] \in {disk.fat[d], Table[d]} /\ Table'[d] = Table[d]
      BY <3>2
    <3>6. \A d \in Clusters, t \in Slots :
            Slot(d, t).nm = n /\ disk.cluster[d].slot[t] = Slot(d, t) =>
              Slot(d, t)' = Slot(d, t) /\ disk'.cluster[d].slot[t] = Slot(d, t)
      BY <3>3
    <3> QED BY <3>1, <3>4, <3>5, <3>6
  <2>6. \A d \in Clusters : Kept(d)
    BY <1>3
  <2>7. g \in Maps /\ k \in Maps /\ DirsOK(g) /\ k.dirs = g.dirs /\ k.pos = g.pos
    BY <1>1, <1>2
  <2> QED BY <2>1, <2>5, <2>6, <2>7, LoosePower
<1>11. DiskOK(k)'
  BY <1>2, <1>6, <1>7, <1>8, <1>9, <1>10 DEF DiskOK
<1>12. HandlesOK(k)'
  <2>1. \A h \in Handles : SeekLeft(h)' = SeekLeft(h) /\ (Writing(h) => Writing(h)')
    BY DEF SeekLeft, Writing
  <2>2. HandlesOK(g)'
    BY <1>5, <2>1, HandlesStay
  <2> QED BY <1>2, <2>2 DEF HandlesOK, HandleOK
<1>13. TypeInv'
  BY <1>1, <1>3, TypesKept DEF TypeInv
<1>14. CleanOK'
  BY DEF CleanOK, Writers
<1>15. CallOK(k)'
  BY <1>5
<1> QED BY <1>2, <1>3, <1>11, <1>12, <1>13, <1>14, <1>15, HoldsOf

\* FDCreate takes a cluster for the directory.
LEMMA GrowDirectoryHolds ==
  ASSUME NEW g, Holds(g), GrowDirectory
  PROVE  \E k \in Maps : Holds(k)'
<1>1. /\ call.at = "grow" /\ Allocate /\ call' = [call EXCEPT !.at = "link", !.x = FATAlloc.c]
      /\ UNCHANGED <<fsb_t, fdNextCluster, lastdircluster, fh, closed, right, calls>>
  BY DEF GrowDirectory
<1>2. /\ TypeInv /\ BuffersOK /\ CallOK(g) /\ DirCallOK(g) /\ call.op = "create"
      /\ g.moving = Nil /\ g.loose = {} /\ g \in Maps /\ right = TRUE /\ call \in CallType
      /\ bypassed \subseteq Clusters
  BY <1>1, PartsOf DEF CallOK, PhaseOK, TypeInv
<1>3. /\ FATAlloc.c \in Clusters /\ Table[FATAlloc.c] = CLUSTER_UNUSED
      /\ Marked(FATAlloc.c, CLUSTER_CHAIN_END)
      /\ fatAllocNext' \in CLUSTER_FIRST_USER .. LastCluster + 1
      /\ bypassed' = bypassed \ {FATAlloc.c}
  BY <1>1, <1>2, AllocateIs
<1>4. PICK a \in Clusters : a = FATAlloc.c
  BY <1>3
<1>5. g.own[a] = Nil /\ a \notin g.dirs
  BY <1>3, <1>4, UnusedIs
<1>6. PICK k : k = [g EXCEPT !.loose = {a}]
  OBVIOUS
<1>7. /\ k.loose = {a} /\ k.moving = Nil /\ k.dirs = g.dirs /\ k.pos = g.pos /\ k.dlen = g.dlen
  BY <1>2, <1>6 DEF Maps
<1>8. /\ call'.at = "link" /\ call'.op = "create" /\ call'.h = call.h /\ call'.nm = call.nm
      /\ call'.c = call.c /\ call'.x = a /\ call' \in CallType
  BY <1>1, <1>2, <1>4 DEF CallType
<1>9. Table'[a] = 0
  <2>1. Table \in [Clusters -> Marks] /\ Table' = [Table EXCEPT ![a] = 0]
    BY <1>2, <1>3, <1>4, TypesOf DEF Marked
  <2> QED BY <2>1
<1>10. ASSUME \A c \in Clusters, s \in Slots : Slot(c, s)' = Slot(c, s)
       PROVE  CallOK(k)'
  <2>1. /\ call.c \in g.dirs /\ g.pos[call.c] + 1 = g.dlen /\ NoEntryOf(call.nm)
        /\ call.nm \in Names /\ ~Open(call.nm) /\ call.h \in Handles /\ fh[call.h] = NoHandle
        /\ closed[call.nm] = NoFile
    BY <1>1, <1>2 DEF DirCallOK
  <2>2. NoEntryOf(call.nm)'
    BY <1>8, <1>10, <2>1 DEF NoEntryOf
  <2>3. DirCallOK(k)'
    BY <1>1, <1>7, <1>8, <1>9, <2>1, <2>2 DEF DirCallOK, Open
  <2>4. PhaseOK' /\ WriteOK(k)' /\ ReadOK(k)'
    BY <1>8 DEF PhaseOK, WriteOK, ReadOK
  <2> QED BY <1>7, <1>8, <2>3, <2>4 DEF CallOK
<1>11. Emptying'
  BY <1>8 DEF Emptying
<1>12. bypassed' \subseteq Clusters /\ \A d \in bypassed : d \in bypassed' \/ g.own[d] = Nil
  BY <1>2, <1>3, <1>4, <1>5
<1>13. Holds(k)' /\ k \in Maps
  <2>1. g.loose \subseteq {a} /\ {a} \subseteq Clusters /\ a \in {a}
        /\ \A d \in {a} : g.own[d] = Nil /\ d \notin g.dirs
    BY <1>2, <1>5
  <2>2. call.at # "seek" /\ call'.at # "seek" /\ call.op # "write"
    BY <1>1, <1>2, <1>8
  <2>3. Marked(a, CLUSTER_CHAIN_END)
    BY <1>3, <1>4
  <2> QED BY <1>1, <1>2, <1>3, <1>6, <1>8, <1>10, <1>11, <1>12, <2>1, <2>2, <2>3,
             LooseHolds, ZenonT(40)
<1> QED BY <1>13

\* What a step that writes begins with.
LEMMA WriteBegins ==
  ASSUME NEW g, Holds(g), call.op = "write"
  PROVE  /\ TypeInv /\ BuffersOK /\ BuffersType /\ call \in CallType /\ CallOK(g) /\ WriteOK(g)
         /\ DiskOK(g) /\ g \in Maps /\ right = TRUE /\ fh \in [Handles -> HandleType]
         /\ call.h \in Handles /\ call.n \in Nat /\ call.num \in Nat /\ Writers # {}
         /\ bypassed \subseteq Clusters /\ call.at # "seek" /\ ~Emptying
         /\ call.x \in {0} \cup Clusters /\ call.c \in {0} \cup Clusters
         /\ LET f == fh[call.h]
            IN  /\ f \in HandleType /\ f # NoHandle /\ HandleOK(g, call.h) /\ f.mode = "write"
                /\ f.cluster \in {0} \cup Clusters /\ f.pos \in Nat /\ f.size \in Nat
                /\ f.off \in 0 .. CLUSTER_SIZE /\ f.off \in Nat /\ f.nm \in Names
                /\ closed[f.nm] = NoFile /\ f.dircluster \in g.dirs /\ f.diroff \in Slots
                /\ Slot(f.dircluster, f.diroff).nm = f.nm
                /\ f.cluster = 0 => f.pos = f.size
                /\ f.cluster # 0 => /\ g.own[f.cluster] = f.nm /\ g.idx[f.cluster] \in Nat
                                    /\ f.pos = g.idx[f.cluster] * CLUSTER_SIZE + f.off
                /\ call.n > 0 /\ f.pos + call.n <= MaxSize
                /\ f.size <= g.ext[f.nm] /\ f.pos <= g.ext[f.nm]
                /\ g.ext[f.nm] \in Nat /\ g.len[f.nm] \in Nat
                /\ g.ext[f.nm] <= g.len[f.nm] * CLUSTER_SIZE
<1>1. /\ TypeInv /\ BuffersOK /\ BuffersType /\ call \in CallType /\ CallOK(g) /\ WriteOK(g)
      /\ call.h \in Handles /\ fh[call.h] # NoHandle /\ g \in Maps /\ DirsOK(g) /\ EntriesOK(g)
      /\ call.n \in Nat /\ call.at # "seek" /\ DiskOK(g) /\ right = TRUE /\ call.num \in Nat
      /\ bypassed \subseteq Clusters /\ fh \in [Handles -> HandleType]
      /\ call.x \in {0} \cup Clusters /\ call.c \in {0} \cup Clusters /\ ~Emptying
  BY PartsOf, TypesOf DEF TypeInv, CallOK, PhaseOK, CallType, DiskOK, Emptying
<1>2. PICK h \in Handles : h = call.h
  BY <1>1
<1>3. /\ fh[h] \in HandleType /\ HandleOK(g, h) /\ fh[h].pos \in Nat /\ fh[h].size \in Nat
      /\ fh[h].off \in 0 .. CLUSTER_SIZE /\ fh[h].off \in Nat /\ fh[h].nm \in Names
      /\ g.ext[fh[h].nm] \in Nat /\ fh[h].cluster \in {0} \cup Clusters /\ g.len[fh[h].nm] \in Nat
  BY <1>1, <1>2, HandleTypes, Sizes
<1>4. fh[h].mode = "write" /\ call.n > 0 /\ fh[h].pos + call.n <= MaxSize
  BY <1>1, <1>2 DEF WriteOK
<1>5. /\ closed[fh[h].nm] = NoFile /\ fh[h].dircluster \in Clusters /\ fh[h].diroff \in Slots
      /\ Slot(fh[h].dircluster, fh[h].diroff).nm = fh[h].nm
      /\ fh[h].cluster = 0 => fh[h].pos = fh[h].size
      /\ fh[h].cluster # 0 => /\ g.own[fh[h].cluster] = fh[h].nm
                              /\ fh[h].pos = (g.idx[fh[h].cluster] + SeekLeft(h)) * CLUSTER_SIZE
                                               + fh[h].off
      /\ fh[h].size <= g.ext[fh[h].nm] /\ fh[h].pos <= g.ext[fh[h].nm]
  BY <1>3, <1>4 DEF HandleOK
<1>6. fh[h].dircluster \in g.dirs
  BY <1>1, <1>3, <1>5, Nils DEF DirsOK
<1>7. SeekLeft(h) = 0
  BY <1>1 DEF SeekLeft
<1>8. fh[h].cluster # 0 => g.idx[fh[h].cluster] \in Nat
  BY <1>1, <1>3 DEF Maps
<1>9. fh[h].cluster # 0 => fh[h].pos = g.idx[fh[h].cluster] * CLUSTER_SIZE + fh[h].off
  <2> HIDE DEF SeekLeft
  <2> QED BY <1>5, <1>7, <1>8
<1>10. Writers # {}
  BY <1>4 DEF Writers
<1>11. g.ext[fh[h].nm] <= g.len[fh[h].nm] * CLUSTER_SIZE
  BY <1>1, <1>3 DEF EntriesOK
<1> QED BY <1>1, <1>2, <1>3, <1>4, <1>5, <1>6, <1>8, <1>9, <1>10, <1>11

\* FSWrite takes one more cluster.
LEMMA WriteAllocHolds ==
  ASSUME NEW g, Holds(g), WriteAlloc
  PROVE  \E k \in Maps : Holds(k)'
<1>1. /\ call.at \in {"extend", "linear"} /\ Allocate
      /\ call' = [call EXCEPT !.x = FATAlloc.c,
                              !.at = IF call.at = "extend" THEN "chain" ELSE "more",
                              !.c = IF call.at = "extend" THEN @ ELSE FATAlloc.c,
                              !.num = IF call.at = "extend" THEN 0 ELSE 1]
      /\ UNCHANGED <<fsb_t, fdNextCluster, lastdircluster, fh, closed, right, calls>>
  BY DEF WriteAlloc
<1>2. call.op = "write"
  BY <1>1, PartsOf DEF CallOK, PhaseOK
<1>3. /\ TypeInv /\ BuffersOK /\ CallOK(g) /\ WriteOK(g) /\ g \in Maps /\ right = TRUE
      /\ call \in CallType /\ bypassed \subseteq Clusters /\ Writers # {} /\ call.at # "seek"
      /\ call.h \in Handles /\ call.n \in Nat /\ call.c \in {0} \cup Clusters
      /\ fh[call.h] # NoHandle
  BY <1>2, WriteBegins
<1>4. /\ FATAlloc.c \in Clusters /\ Table[FATAlloc.c] = CLUSTER_UNUSED
      /\ Marked(FATAlloc.c, CLUSTER_CHAIN_END)
      /\ fatAllocNext' \in CLUSTER_FIRST_USER .. LastCluster + 1
      /\ bypassed' = bypassed \ {FATAlloc.c}
  BY <1>1, <1>3, AllocateIs
<1>5. PICK a \in Clusters : a = FATAlloc.c
  BY <1>4
<1>6. g.own[a] = Nil /\ a \notin g.dirs /\ g.moving = Nil /\ g.loose = {} /\ a \in Nat
  BY <1>1, <1>3, <1>4, <1>5, UnusedIs, Numbered DEF CallOK
<1>7. PICK k : k = [g EXCEPT !.loose = {a}]
  OBVIOUS
<1>8. /\ k.loose = {a} /\ k.moving = Nil /\ k.len = g.len /\ k.idx = g.idx
  BY <1>3, <1>6, <1>7 DEF Maps
<1>9. Table'[a] = 0
  <2>1. Table \in [Clusters -> Marks] /\ Table' = [Table EXCEPT ![a] = 0]
    BY <1>3, <1>4, <1>5, TypesOf DEF Marked
  <2> QED BY <2>1
<1>10. /\ call'.op = "write" /\ call'.h = call.h /\ call'.n = call.n /\ call'.x = a
       /\ call' \in CallType
       /\ \/ call.at = "extend" /\ call'.at = "chain" /\ call'.num = 0
          \/ call.at = "linear" /\ call'.at = "more" /\ call'.num = 1 /\ call'.c = a
  <2>1. CASE call.at = "extend"
    <3>1. call' = [call EXCEPT !.x = a, !.at = "chain", !.num = 0]
      BY <1>1, <1>3, <1>5, <2>1 DEF CallType
    <3> QED BY <1>2, <1>3, <2>1, <3>1 DEF CallType
  <2>2. CASE call.at = "linear"
    <3>1. call' = [call EXCEPT !.x = a, !.at = "more", !.c = a, !.num = 1]
      BY <1>1, <1>3, <1>5, <2>2 DEF CallType
    <3> QED BY <1>2, <1>3, <2>2, <3>1 DEF CallType
  <2> QED BY <1>1, <2>1, <2>2
<1>11. CallOK(k)'
  <2> DEFINE f == fh[call.h]
  <2>1. /\ f.mode = "write" /\ call.n > 0 /\ f.pos + call.n <= MaxSize /\ f.cluster # 0
        /\ f.off = CLUSTER_SIZE /\ g.idx[f.cluster] + 1 = g.len[f.nm]
        /\ call.at = "linear" => call.n > CLUSTER_SIZE
    BY <1>1, <1>2, <1>3 DEF WriteOK
  <2>2. fh'[call'.h] = f
    BY <1>1, <1>10
  <2> HIDE DEF f
  <2>3. CASE call.at = "extend"
    <3>1. call'.at = "chain" /\ call'.num = 0
      BY <1>10, <2>3
    <3>2. Fresh' = 1 /\ {a} = a .. a + 1 - 1
      BY <1>6, <3>1 DEF Fresh
    <3>3. WriteOK(k)'
      BY <1>6, <1>8, <1>9, <1>10, <2>1, <2>2, <3>1, <3>2 DEF WriteOK
    <3>4. PhaseOK' /\ DirCallOK(k)' /\ ReadOK(k)'
      BY <1>10, <3>1 DEF PhaseOK, DirCallOK, ReadOK
    <3> QED BY <1>1, <1>3, <1>8, <1>10, <3>1, <3>3, <3>4 DEF CallOK
  <2>4. CASE call.at = "linear"
    <3>1. call'.at = "more" /\ call'.num = 1 /\ call'.c = a
      BY <1>10, <2>4
    <3>2. 1 * CLUSTER_SIZE <= call.n /\ a = a + 1 - 1 /\ {a} = a .. a /\ a .. a - 1 = {}
      BY <1>3, <1>6, <2>1, <2>4, Sizes
    <3>3. WriteOK(k)'
      BY <1>6, <1>8, <1>9, <1>10, <2>1, <2>2, <3>1, <3>2 DEF WriteOK
    <3>4. PhaseOK' /\ DirCallOK(k)' /\ ReadOK(k)'
      BY <1>10, <3>1 DEF PhaseOK, DirCallOK, ReadOK
    <3> QED BY <1>1, <1>3, <1>8, <1>10, <3>1, <3>3, <3>4 DEF CallOK
  <2> QED BY <1>1, <2>3, <2>4
<1>12. bypassed' \subseteq Clusters /\ \A d \in bypassed : d \in bypassed' \/ g.own[d] = Nil
  BY <1>3, <1>4, <1>5, <1>6
<1>13. g.loose \subseteq {a} /\ {a} \subseteq Clusters /\ a \in {a}
       /\ \A d \in {a} : g.own[d] = Nil /\ d \notin g.dirs
  BY <1>6
<1>14. Marked(a, CLUSTER_CHAIN_END) /\ call'.at # "seek"
  BY <1>4, <1>5, <1>10
<1> QED BY <1>1, <1>3, <1>4, <1>7, <1>10, <1>11, <1>12, <1>13, <1>14, LooseHolds

\* What a step that takes the next cluster begins with.
LEMMA MoreIs ==
  ASSUME NEW g, Holds(g), call.at = "more"
  PROVE  /\ call.op = "write" /\ call.c \in Clusters /\ call.x \in Nat /\ call.c \in Nat
         /\ call.num \in Nat /\ call.num > 0 /\ call.num * CLUSTER_SIZE <= call.n
         /\ call.num * CLUSTER_SIZE \in Nat
         /\ call.c = call.x + call.num - 1 /\ g.loose = call.x .. call.c /\ call.c \in g.loose
         /\ g.loose \subseteq Clusters /\ (\A d \in g.loose : g.own[d] = Nil /\ d \notin g.dirs)
         /\ \A y \in call.x .. call.c - 1 : Table[y] = y + 1
         /\ fh[call.h].mode = "write" /\ fh[call.h].pos + call.n <= MaxSize
         /\ fh[call.h].cluster # 0 /\ fh[call.h].off = CLUSTER_SIZE /\ call.n > 0
         /\ g.idx[fh[call.h].cluster] + 1 = g.len[fh[call.h].nm]
         /\ g.moving = Nil
<1>1. call.op = "write"
  BY PartsOf DEF CallOK, PhaseOK
<1>2. /\ WriteOK(g) /\ CallOK(g) /\ g \in Maps /\ call.x \in {0} \cup Clusters
      /\ call.c \in {0} \cup Clusters /\ call.num \in Nat /\ ChainsOK(g)
  BY <1>1, WriteBegins DEF DiskOK
<1>3. /\ call.num > 0 /\ call.num * CLUSTER_SIZE <= call.n
      /\ call.c = call.x + call.num - 1 /\ g.loose = call.x .. call.c
      /\ \A y \in call.x .. call.c - 1 : Table[y] = y + 1
      /\ fh[call.h].mode = "write" /\ fh[call.h].pos + call.n <= MaxSize
      /\ fh[call.h].cluster # 0 /\ fh[call.h].off = CLUSTER_SIZE /\ call.n > 0
      /\ g.idx[fh[call.h].cluster] + 1 = g.len[fh[call.h].nm]
  BY <1>1, <1>2 DEF WriteOK
<1>4. call.x \in Nat /\ call.c \in Nat
  BY <1>2, Numbered
<1>5. call.c \in g.loose
  BY <1>2, <1>3, <1>4
<1>6. g.loose \subseteq Clusters
  BY <1>2 DEF Maps
<1>7. \A d \in g.loose : g.own[d] = Nil /\ d \notin g.dirs
  BY <1>2, <1>6 DEF ChainsOK
<1>8. g.moving = Nil
  BY <1>2 DEF CallOK
<1> QED BY <1>1, <1>2, <1>3, <1>4, <1>5, <1>6, <1>7, <1>8, Times

\* FATAllocLinearClusters takes the next cluster.
LEMMA LinearMoreHolds ==
  ASSUME NEW g, Holds(g), LinearMore
  PROVE  \E k \in Maps : Holds(k)'
<1>1. /\ call.at = "more" /\ LinearLeft /\ LinearRoom
      /\ FATValue(Fat, call.c + 1) = CLUSTER_UNUSED
      /\ SetFat(FATMark(FSBFATGet(Fat, call.c + 1), call.c, call.c + 1))
      /\ call' = [call EXCEPT !.c = @ + 1, !.num = @ + 1]
      /\ bypassed' = bypassed \ {call.c + 1}
      /\ UNCHANGED <<fsb_t, private, fh, closed, right, calls>>
  BY DEF LinearMore
<1>2. /\ call.op = "write" /\ call.c \in Clusters /\ call.x \in Nat /\ call.c \in Nat
      /\ call.num \in Nat /\ call.num > 0 /\ call.num * CLUSTER_SIZE <= call.n
      /\ call.num * CLUSTER_SIZE \in Nat
      /\ call.c = call.x + call.num - 1 /\ g.loose = call.x .. call.c /\ call.c \in g.loose
      /\ g.loose \subseteq Clusters /\ (\A d \in g.loose : g.own[d] = Nil /\ d \notin g.dirs)
      /\ \A y \in call.x .. call.c - 1 : Table[y] = y + 1
      /\ fh[call.h].mode = "write" /\ fh[call.h].pos + call.n <= MaxSize
      /\ fh[call.h].cluster # 0 /\ fh[call.h].off = CLUSTER_SIZE /\ call.n > 0
      /\ g.idx[fh[call.h].cluster] + 1 = g.len[fh[call.h].nm]
      /\ g.moving = Nil
  BY <1>1, MoreIs
<1>3. /\ TypeInv /\ BuffersOK /\ CallOK(g) /\ g \in Maps /\ right = TRUE /\ call.n \in Nat
      /\ call \in CallType /\ bypassed \subseteq Clusters /\ Writers # {} /\ FatGood(Fat)
      /\ call.h \in Handles /\ fh[call.h] # NoHandle /\ Table \in [Clusters -> Marks]
      /\ fatAllocNext \in CLUSTER_FIRST_USER .. LastCluster + 1
  BY <1>2, WriteBegins, TypesOf DEF TypeInv
<1>4. PICK x \in Nat, c \in Clusters, a \in Nat, num \in Nat, n \in Nat :
        x = call.x /\ c = call.c /\ a = call.c + 1 /\ num = call.num /\ n = call.n
  BY <1>2, <1>3
<1>5. a \in Clusters /\ a = c + 1 /\ c \in Nat
  <2>1. c < LastCluster /\ 3 <= c /\ LastCluster \in Nat
    BY <1>1, <1>4, Numbered, Sizes DEF LinearRoom
  <2>2. a = c + 1 /\ c \in Nat
    BY <1>2, <1>4
  <2> QED BY <2>1, <2>2, Numbered
<1>6. Table[a] = CLUSTER_UNUSED
  BY <1>1, <1>3, <1>4, <1>5, ValueIs DEF Table
<1>7. g.own[a] = Nil /\ a \notin g.dirs
  BY <1>5, <1>6, UnusedIs
<1>8. Marked(c, a)
  <2>1. a \in Marks
    BY <1>5 DEF Marks
  <2>2. FatGood(FSBFATGet(Fat, a)) /\ FatStill(Fat, FSBFATGet(Fat, a))
    BY <1>3, <1>5, FatGetKeeps
  <2> DEFINE l == FSBFATGet(Fat, a)
             m == FATMark(l, c, a)
  <2>3. FatGood(m) /\ FatMarked(l, m, c, a)
    BY <2>1, <2>2, MarkIs
  <2>4. FatMarked(Fat, m, c, a)
    BY <2>2, <2>3, MarkedAfter
  <2>5. SetFat(m) /\ fsb_t' = fsb_t
    BY <1>1, <1>4
  <2> HIDE DEF m
  <2> QED BY <1>3, <2>3, <2>4, <2>5, MarkedFat
<1>9. \A d \in Clusters : Table'[d] = IF d = c THEN a ELSE Table[d]
  BY <1>3, <1>8 DEF Marked
<1>10. PICK k : k = [g EXCEPT !.loose = g.loose \cup {a}]
  OBVIOUS
<1>11. /\ k.loose = g.loose \cup {a} /\ k.moving = Nil /\ k.len = g.len /\ k.idx = g.idx
  BY <1>2, <1>3, <1>10 DEF Maps
<1>12. /\ call'.op = "write" /\ call'.at = "more" /\ call'.h = call.h /\ call'.n = n
       /\ call'.x = x /\ call'.c = a /\ call'.num = num + 1 /\ call' \in CallType
  <2>1. call' = [call EXCEPT !.c = a, !.num = num + 1]
    BY <1>1, <1>3, <1>4 DEF CallType
  <2>2. num + 1 \in Nat
    BY <1>4
  <2> QED BY <1>1, <1>2, <1>3, <1>4, <1>5, <2>1, <2>2, ZenonT(40) DEF CallType
<1>13. CallOK(k)'
  <2>1. (num + 1) * CLUSTER_SIZE <= n
    <3>1. PICK q \in Nat : q = num * CLUSTER_SIZE
      BY <1>4, Times
    <3>2. n - q >= CLUSTER_SIZE
      BY <1>1, <1>4, <3>1 DEF LinearLeft
    <3>3. (num + 1) * CLUSTER_SIZE = q + CLUSTER_SIZE
      BY <1>4, <3>1, Times
    <3> QED BY <1>4, <3>2, <3>3, Sizes
  <2>2. a = x + (num + 1) - 1
    <3>1. c = x + num - 1
      BY <1>2, <1>4
    <3> QED BY <1>4, <1>5, <3>1
  <2>3. k.loose = x .. a
    BY <1>2, <1>4, <1>5, <1>11, <2>2, SMTT(20)
  <2>4. \A y \in x .. a - 1 : Table'[y] = y + 1
    <3> SUFFICES ASSUME NEW y \in x .. a - 1 PROVE Table'[y] = y + 1
      OBVIOUS
    <3>1. y \in Clusters
      <4>1. y \in x .. c
        BY <1>4, <1>5
      <4>2. g.loose = x .. c /\ g.loose \subseteq Clusters
        BY <1>2, <1>4
      <4> QED BY <4>1, <4>2
    <3>2. CASE y = c
      BY <1>5, <1>9, <3>2
    <3>3. CASE y # c
      <4>1. y \in x .. c - 1
        BY <1>4, <1>5, <3>3
      <4>2. Table[y] = y + 1
        BY <1>2, <1>4, <4>1
      <4> QED BY <1>9, <3>1, <3>3, <4>2
    <3> QED BY <3>2, <3>3
  <2>5. num + 1 > 0 /\ fh' = fh
    BY <1>1, <1>4
  <2> HIDE DEF Table
  <2>6. WriteOK(k)'
    BY <1>2, <1>4, <1>11, <1>12, <2>1, <2>2, <2>3, <2>4, <2>5 DEF WriteOK
  <2>7. PhaseOK' /\ DirCallOK(k)' /\ ReadOK(k)'
    BY <1>12 DEF PhaseOK, DirCallOK, ReadOK
  <2> QED BY <1>1, <1>3, <1>11, <1>12, <2>6, <2>7 DEF CallOK
<1>14. bypassed' \subseteq Clusters /\ \A d \in bypassed : d \in bypassed' \/ g.own[d] = Nil
  BY <1>1, <1>3, <1>4, <1>7
<1>15. PICK L : L = g.loose \cup {a}
  OBVIOUS
<1>16. g.loose \subseteq L /\ L \subseteq Clusters /\ c \in L
       /\ (\A d \in L : g.own[d] = Nil /\ d \notin g.dirs) /\ k = [g EXCEPT !.loose = L]
  BY <1>2, <1>4, <1>5, <1>7, <1>10, <1>15
<1>17. call.at # "seek" /\ call'.at # "seek"
  BY <1>1, <1>12
<1>18. /\ fdNextCluster' = fdNextCluster /\ lastdircluster' = lastdircluster
       /\ fatAllocNext' \in CLUSTER_FIRST_USER .. LastCluster + 1
       /\ fh' = fh /\ closed' = closed /\ right' = TRUE
  BY <1>1, <1>3 DEF private
<1> QED BY <1>3, <1>8, <1>12, <1>13, <1>14, <1>16, <1>17, <1>18, LooseHolds

\* The last of them ends the new chain.
LEMMA LinearLastHolds ==
  ASSUME NEW g, Holds(g), LinearLast
  PROVE  \E k \in Maps : Holds(k)'
<1>1. /\ call.at = "more" /\ (LinearLeft => LinearRoom)
      /\ SetFat(FATMark(IF LinearLeft THEN FSBFATGet(Fat, call.c + 1) ELSE Fat,
                        call.c, CLUSTER_CHAIN_END))
      /\ call' = [call EXCEPT !.at = "chain"]
      /\ UNCHANGED <<fsb_t, private, fh, history>>
  BY DEF LinearLast
<1>2. /\ call.op = "write" /\ call.c \in Clusters /\ call.x \in Nat /\ call.c \in Nat
      /\ call.num \in Nat /\ call.num > 0 /\ call.num * CLUSTER_SIZE <= call.n
      /\ call.c = call.x + call.num - 1 /\ g.loose = call.x .. call.c /\ call.c \in g.loose
      /\ g.loose \subseteq Clusters /\ (\A d \in g.loose : g.own[d] = Nil /\ d \notin g.dirs)
      /\ \A y \in call.x .. call.c - 1 : Table[y] = y + 1
      /\ fh[call.h].mode = "write" /\ fh[call.h].pos + call.n <= MaxSize
      /\ fh[call.h].cluster # 0 /\ fh[call.h].off = CLUSTER_SIZE /\ call.n > 0
      /\ g.idx[fh[call.h].cluster] + 1 = g.len[fh[call.h].nm]
      /\ g.moving = Nil
  BY <1>1, MoreIs
<1>3. /\ TypeInv /\ BuffersOK /\ CallOK(g) /\ g \in Maps /\ right = TRUE /\ call.n \in Nat
      /\ call \in CallType /\ bypassed \subseteq Clusters /\ Writers # {} /\ FatGood(Fat)
      /\ call.h \in Handles /\ fh[call.h] # NoHandle /\ Table \in [Clusters -> Marks]
      /\ fatAllocNext \in CLUSTER_FIRST_USER .. LastCluster + 1
  BY <1>2, WriteBegins, TypesOf DEF TypeInv
<1>4. PICK x \in Nat, c \in Clusters, num \in Nat, n \in Nat :
        x = call.x /\ c = call.c /\ num = call.num /\ n = call.n
  BY <1>2, <1>3
<1>5. Marked(c, 0)
  <2>1. 0 \in Marks
    BY DEF Marks
  <2>2. PICK l : /\ l = IF LinearLeft THEN FSBFATGet(Fat, call.c + 1) ELSE Fat
                 /\ SetFat(FATMark(l, c, 0))
    BY <1>1, <1>4
  <2>3. FatGood(l) /\ FatStill(Fat, l)
    <3>1. CASE LinearLeft
      <4>1. call.c + 1 \in Clusters
        <5>1. c < LastCluster /\ 3 <= c /\ LastCluster \in Nat
          BY <1>1, <1>4, <3>1, Numbered, Sizes DEF LinearRoom
        <5>2. c + 1 \in Clusters
          BY <5>1, Numbered
        <5> QED BY <1>4, <5>2
      <4> QED BY <1>3, <2>2, <3>1, <4>1, FatGetKeeps
    <3>2. CASE ~LinearLeft
      BY <1>3, <2>2, <3>2 DEF FatStill
    <3> QED BY <3>1, <3>2
  <2> DEFINE m == FATMark(l, c, 0)
  <2>4. FatGood(m) /\ FatMarked(l, m, c, 0)
    BY <2>1, <2>3, MarkIs
  <2>5. FatMarked(Fat, m, c, 0)
    BY <2>3, <2>4, MarkedAfter
  <2>6. SetFat(m) /\ fsb_t' = fsb_t
    BY <1>1, <2>2
  <2> HIDE DEF m
  <2> QED BY <1>3, <2>4, <2>5, <2>6, MarkedFat
<1>6. \A d \in Clusters : Table'[d] = IF d = c THEN 0 ELSE Table[d]
  BY <1>3, <1>5 DEF Marked
<1>7. PICK L : L = g.loose
  OBVIOUS
<1>8. PICK k : k = [g EXCEPT !.loose = L]
  OBVIOUS
<1>9. /\ k.loose = g.loose /\ k.moving = Nil /\ k.len = g.len /\ k.idx = g.idx
  BY <1>2, <1>3, <1>7, <1>8 DEF Maps
<1>10. /\ call'.op = "write" /\ call'.at = "chain" /\ call'.h = call.h /\ call'.n = n
       /\ call'.x = x /\ call'.num = num /\ call' \in CallType
  BY <1>1, <1>2, <1>3, <1>4, NextAt
<1>11. CallOK(k)'
  <2>1. Fresh' = num
    BY <1>2, <1>4, <1>10 DEF Fresh
  <2>2. k.loose = x .. x + num - 1 /\ c = x + num - 1
    BY <1>2, <1>4, <1>9
  <2>3. \A y \in k.loose : Table'[y] = IF y = x + num - 1 THEN 0 ELSE y + 1
    <3> SUFFICES ASSUME NEW y \in k.loose
                 PROVE  Table'[y] = IF y = x + num - 1 THEN 0 ELSE y + 1
      OBVIOUS
    <3>1. y \in Clusters
      BY <1>2, <1>9, <2>2
    <3>2. CASE y = c
      BY <1>6, <2>2, <3>2
    <3>3. CASE y # c
      BY <1>2, <1>4, <1>6, <2>2, <3>1, <3>3
    <3> QED BY <3>2, <3>3
  <2> HIDE DEF Table, Fresh
  <2>4. WriteOK(k)'
    BY <1>1, <1>2, <1>4, <1>9, <1>10, <2>1, <2>2, <2>3 DEF WriteOK
  <2>5. PhaseOK' /\ DirCallOK(k)' /\ ReadOK(k)'
    BY <1>10 DEF PhaseOK, DirCallOK, ReadOK
  <2> QED BY <1>1, <1>3, <1>9, <1>10, <2>4, <2>5 DEF CallOK
<1>12. g.loose \subseteq L /\ L \subseteq Clusters /\ c \in L
       /\ (\A d \in L : g.own[d] = Nil /\ d \notin g.dirs)
  BY <1>2, <1>4, <1>7
<1>13. call.at # "seek" /\ call'.at # "seek"
  BY <1>1, <1>10
<1>14. /\ fdNextCluster' = fdNextCluster /\ lastdircluster' = lastdircluster
       /\ fatAllocNext' \in CLUSTER_FIRST_USER .. LastCluster + 1
       /\ fh' = fh /\ closed' = closed /\ right' = TRUE
       /\ bypassed' \subseteq Clusters /\ \A d \in bypassed : d \in bypassed' \/ g.own[d] = Nil
  BY <1>1, <1>3 DEF private, history
<1> QED BY <1>3, <1>5, <1>8, <1>10, <1>11, <1>12, <1>13, <1>14, LooseHolds

-----------------------------------------------------------------------------
(***************************************************************************)
(* The steps that empty a file: FSDelete, and FSCreate of a name that      *)
(* exists.                                                                 *)
(***************************************************************************)

\* The open files are other ones than nm, which is being emptied.
LEMMA HandlesElse ==
  ASSUME NEW g, Holds(g), NEW nm \in Names, ~Open(nm), g.moving \in {Nil, nm},
         NEW k, k \in Maps, k.moving \in {Nil, nm},
         \A d \in Clusters :
           g.own[d] \notin {Nil, nm} => k.own[d] = g.own[d] /\ k.idx[d] = g.idx[d],
         \A n \in Names : n # nm => k.ext[n] = g.ext[n],
         \A d \in Clusters, t \in Slots :
           Slot(d, t).nm \notin {Nil, nm} => Slot(d, t)' = Slot(d, t),
         fh' = fh, closed' = closed, call.at # "seek", call'.at # "seek", call.op # "write"
  PROVE  HandlesOK(k)'
<1> SUFFICES ASSUME NEW h \in Handles, fh'[h] # NoHandle PROVE HandleOK(k, h)'
  BY DEF HandlesOK
<1>1. HandleOK(g, h) /\ fh[h].nm \in Names /\ g.ext[fh[h].nm] \in Nat /\ fh[h].pos \in Nat
      /\ fh[h].size \in Nat /\ fh[h].cluster \in {0} \cup Clusters /\ g \in Maps
  BY HandleTypes, PartsOf
<1>2. fh[h].nm # nm /\ fh[h].nm # Nil
  BY <1>1, Nils DEF Open
<1>3. /\ fh[h].dircluster \in Clusters /\ fh[h].diroff \in Slots
      /\ Slot(fh[h].dircluster, fh[h].diroff).nm = fh[h].nm
      /\ fh[h].cluster # 0 => g.own[fh[h].cluster] = fh[h].nm
      /\ \A j \in Handles : fh[j].nm = fh[h].nm => h = j
  BY <1>1 DEF HandleOK
<1>4. Slot(fh[h].dircluster, fh[h].diroff)' = Slot(fh[h].dircluster, fh[h].diroff)
  BY <1>2, <1>3
<1>5. fh[h].cluster # 0 => /\ k.own[fh[h].cluster] = g.own[fh[h].cluster]
                           /\ k.idx[fh[h].cluster] = g.idx[fh[h].cluster]
  BY <1>1, <1>2, <1>3
<1>6. g.moving # fh[h].nm
  BY <1>2
<1>7. k.ext[fh[h].nm] \in Nat /\ g.ext[fh[h].nm] <= k.ext[fh[h].nm]
  BY <1>1, <1>2
<1>8. SeekLeft(h)' = SeekLeft(h) /\ ~Writing(h)
  BY DEF SeekLeft, Writing
<1>9. \A j \in Handles : fh'[j].nm = fh[h].nm => h = j
  BY <1>3
<1>10. closed'[fh[h].nm] \in {closed[fh[h].nm], NoFile} /\ fh'[h] = fh[h]
  OBVIOUS
<1> HIDE DEF SeekLeft, Writing
<1> QED BY <1>1, <1>4, <1>5, <1>6, <1>7, <1>8, <1>9, <1>10, HandleKept

\* In map k nothing is written in nm any more.
Drained(g, nm, m, k) ==
  /\ SameClusters(g, k) /\ k.moving = m
  /\ \A n \in Names : k.ext[n] = IF n = nm THEN 0 ELSE g.ext[n]
  /\ \A n \in Names : k.ext[n] <= g.ext[n]

\* There is such a map.
LEMMA Emptied ==
  ASSUME NEW g, g \in Maps, NEW nm \in Names, NEW m \in {Nil, nm}
  PROVE  \E k \in Maps : Drained(g, nm, m, k)
<1> DEFINE k == [own |-> g.own, idx |-> g.idx, len |-> g.len, ext |-> [g.ext EXCEPT ![nm] = 0],
                 dirs |-> g.dirs, pos |-> g.pos, dlen |-> g.dlen, loose |-> g.loose, moving |-> m]
<1>1. k \in Maps
  BY DEF Maps
<1>2. SameClusters(g, k) /\ k.moving = m
  BY <1>1 DEF SameClusters
<1>3. \A n \in Names : k.ext[n] = IF n = nm THEN 0 ELSE g.ext[n]
  BY DEF Maps
<1> HIDE DEF k
<1>4. \A n \in Names : k.ext[n] <= g.ext[n]
  BY <1>3 DEF Maps
<1> QED BY <1>1, <1>2, <1>3, <1>4 DEF Drained

\* FSDelete clears the entry.
LEMMA DeleteEntryHolds ==
  ASSUME NEW g, Holds(g), DeleteEntry
  PROVE  \E k \in Maps : Holds(k)'
<1>1. call.op = "delete" /\ call.at = "entry" /\ UNCHANGED <<fatbuf, private, fh, history>>
  BY DEF DeleteEntry
<1>2. /\ TypeInv /\ BuffersOK /\ BuffersType /\ DiskOK(g) /\ CallOK(g) /\ DirCallOK(g)
      /\ g.moving = Nil /\ g.loose = {} /\ g \in Maps /\ right = TRUE /\ EntriesOK(g)
      /\ fh \in [Handles -> HandleType] /\ call \in CallType
  BY <1>1, PartsOf, TypesOf DEF CallOK, TypeInv, DiskOK
<1>3. /\ call.nm \in Names /\ ~Open(call.nm) /\ closed[call.nm] = NoFile
      /\ call.c \in g.dirs /\ Slot(call.c, call.s).nm = call.nm /\ call.s \in Slots
  BY <1>1, <1>2 DEF DirCallOK, CallType
<1>4. PICK nm \in Names, c \in g.dirs, s \in Slots : nm = call.nm /\ c = call.c /\ s = call.s
  BY <1>3
<1>5. c \in Clusters /\ View(c) \in Parts /\ Contents(c) = View(c)
  BY <1>2, LinkIn, ContentsIsView
<1>6. PICK first \in {0} \cup Clusters : first = Slot(c, s).cluster
  BY <1>5 DEF Parts, Slot
<1>7. Headed(g, nm, first) /\ Slot(c, s).nm = nm /\ nm # Nil
  BY <1>2, <1>3, <1>4, <1>5, <1>6, Nils DEF EntriesOK
<1>8. first < CLUSTER_FIRST_USER <=> first = 0
  BY <1>6, Numbered
<1>9. call' = [call EXCEPT !.at = IF first = 0 THEN "flush" ELSE "free", !.c = first]
  BY <1>4, <1>5, <1>6, <1>8 DEF DeleteEntry, Slot
<1>10. /\ call'.op = "delete" /\ call'.nm = nm /\ call'.c = first /\ call' \in CallType
       /\ call'.at = IF first = 0 THEN "flush" ELSE "free"
  <2>1. CASE first = 0
    <3>1. call' = [call EXCEPT !.at = "flush", !.c = first]
      BY <1>9, <2>1
    <3> QED BY <1>1, <1>2, <1>4, <2>1, <3>1 DEF CallType
  <2>2. CASE first # 0
    <3>1. call' = [call EXCEPT !.at = "free", !.c = first]
      BY <1>9, <2>2
    <3> QED BY <1>1, <1>2, <1>4, <2>2, <3>1 DEF CallType
  <2> QED BY <2>1, <2>2
<1>11. NoEntry \in EntryType /\ NoEntry.nm = Nil
  BY Sizes DEF NoEntry, EntryType
<1>12. SlotChanged(c, s, NoEntry)
  <2>1. PICK new : new = [View(c) EXCEPT !.slot[s] = NoEntry]
    OBVIOUS
  <2>2. new \in Parts
    BY <1>5, <1>11, <2>1 DEF Parts, EntryType
  <2>3. Change(c, FSBPRI_SYS, FSBDIRTY_SYS, new)
    BY <1>4, <1>5, <2>1 DEF DeleteEntry
  <2>4. Changed(c, FSBDIRTY_SYS, new)
    BY <1>1, <1>2, <1>5, <2>2, <2>3, ChangedIs
  <2>5. new.link = View(c).link /\ new.slot = [View(c).slot EXCEPT ![s] = NoEntry]
    BY <1>5, <2>1 DEF Parts
  <2> QED BY <2>2, <2>4, <2>5 DEF SlotChanged
<1>13. PICK m \in {Nil, nm} : m = IF first = 0 THEN Nil ELSE nm
  OBVIOUS
<1>14. PICK k \in Maps : Drained(g, nm, m, k)
  BY <1>2, Emptied
<1>24. /\ SameClusters(g, k) /\ k.moving = m
       /\ \A n \in Names : k.ext[n] = IF n = nm THEN 0 ELSE g.ext[n]
       /\ \A n \in Names : k.ext[n] <= g.ext[n]
  BY <1>14 DEF Drained
<1>15. /\ fatAllocNext' = fatAllocNext /\ fdNextCluster' \in g.dirs /\ lastdircluster' \in g.dirs
       /\ bypassed' = bypassed /\ closed' = closed /\ right' = TRUE /\ fh' = fh
       /\ fh' \in [Handles -> HandleType]
  BY <1>1, <1>2, DirsIn DEF history, private
<1>16. \A d \in Clusters, t \in Slots :
         Slot(d, t)' = IF d = c /\ t = s THEN NoEntry ELSE Slot(d, t)
  BY <1>11, <1>12, <1>24, <1>15, SlotParts
<1>17. k.own = g.own /\ k.idx = g.idx /\ k.len = g.len /\ k.loose = {}
  BY <1>2, <1>24 DEF SameClusters
<1>18. \A d \in Clusters, t \in Slots : Slot(d, t)'.nm # Nil =>
         Slot(d, t)' = Slot(d, t) /\ Slot(d, t).nm # nm
  BY <1>2, <1>5, <1>7, <1>11, <1>16 DEF EntriesOK
<1>19. EntriesOK(k)'
  <2>1. \A d, e \in Clusters, t, u \in Slots :
          Slot(d, t)'.nm # Nil /\ Slot(d, t)'.nm = Slot(e, u)'.nm => d = e /\ t = u
    BY <1>2, <1>18 DEF EntriesOK
  <2>2. \A d \in Clusters, t \in Slots : Slot(d, t)'.nm = Nil => Slot(d, t)' = NoEntry
    BY <1>2, <1>16 DEF EntriesOK
  <2>3. \A d \in Clusters, t \in Slots :
          Slot(d, t)'.nm # Nil /\ Slot(d, t)'.nm # k.moving =>
            /\ Headed(k, Slot(d, t)'.nm, Slot(d, t)'.cluster)
            /\ Slot(d, t)'.size <= k.ext[Slot(d, t)'.nm]
    <3> SUFFICES ASSUME NEW d \in Clusters, NEW t \in Slots, Slot(d, t)'.nm # Nil
                 PROVE  /\ Headed(k, Slot(d, t)'.nm, Slot(d, t)'.cluster)
                        /\ Slot(d, t)'.size <= k.ext[Slot(d, t)'.nm]
      OBVIOUS
    <3>1. Slot(d, t)' = Slot(d, t) /\ Slot(d, t).nm # nm /\ Slot(d, t).nm # Nil
      BY <1>18
    <3>2. Slot(d, t).nm \in Names
      <4>1. View(d) \in Parts
        BY <1>2, ViewType
      <4> QED BY <3>1, <4>1 DEF Parts, Slot
    <3>3. /\ Headed(g, Slot(d, t).nm, Slot(d, t).cluster)
          /\ Slot(d, t).size <= g.ext[Slot(d, t).nm]
      BY <1>2, <3>1 DEF EntriesOK
    <3> QED BY <1>24, <1>17, <3>1, <3>2, <3>3 DEF Headed
  <2>4. \A n \in Names : n # k.moving /\ NoEntryOf(n)' => k.len[n] = 0
    <3> SUFFICES ASSUME NEW n \in Names, n # k.moving, NoEntryOf(n)' PROVE g.len[n] = 0
      BY <1>17
    <3>1. CASE n = nm
      <4>1. first = 0
        BY <1>13, <1>24, <3>1
      <4> QED BY <1>7, <3>1, <4>1, Numbered DEF Headed
    <3>2. CASE n # nm
      <4>1. NoEntryOf(n)
        BY <1>5, <1>7, <1>16, <3>2 DEF NoEntryOf
      <4> QED BY <1>2, <4>1, Nils DEF EntriesOK
    <3> QED BY <3>1, <3>2
  <2>5. \A n \in Names : k.ext[n] <= k.len[n] * CLUSTER_SIZE /\ k.ext[n] <= MaxSize
    <3> SUFFICES ASSUME NEW n \in Names
                 PROVE  k.ext[n] <= g.len[n] * CLUSTER_SIZE /\ k.ext[n] <= MaxSize
      BY <1>17
    <3>1. CASE n = nm
      <4>1. g.len[n] \in Nat
        BY <1>2 DEF Maps
      <4> QED BY <1>24, <3>1, <4>1, Times, Sizes
    <3>2. CASE n # nm
      BY <1>2, <1>24, <3>2 DEF EntriesOK
    <3> QED BY <3>1, <3>2
  <2> QED BY <2>1, <2>2, <2>3, <2>4, <2>5 DEF EntriesOK
<1>20. HandlesOK(k)'
  <2>1. \A d \in Clusters, t \in Slots :
          Slot(d, t).nm \notin {Nil, nm} => Slot(d, t)' = Slot(d, t)
    BY <1>7, <1>16
  <2>2. call.at # "seek" /\ call'.at # "seek" /\ call.op # "write" /\ ~Open(nm)
    BY <1>1, <1>3, <1>4, <1>10
  <2> QED BY <1>2, <1>13, <1>24, <1>15, <1>17, <2>1, <2>2, HandlesElse
<1>21. CallOK(k)'
  <2>1. NoEntryOf(nm)'
    BY <1>7, <1>16, <1>18 DEF NoEntryOf
  <2>2. Open(nm)' = Open(nm)
    BY <1>15 DEF Open
  <2>3. first # 0 => /\ first \in Clusters /\ k.own[first] = nm /\ k.idx[first] = 0
                     /\ k.ext[nm] = 0
    BY <1>6, <1>7, <1>24, <1>17 DEF Headed
  <2>4. DirCallOK(k)'
    BY <1>3, <1>4, <1>10, <1>15, <2>1, <2>2, <2>3 DEF DirCallOK
  <2>5. PhaseOK' /\ WriteOK(k)' /\ ReadOK(k)'
    BY <1>10 DEF PhaseOK, WriteOK, ReadOK
  <2> QED BY <1>10, <1>13, <1>24, <1>17, <2>4, <2>5 DEF CallOK
<1>22. Emptying'
  BY <1>10 DEF Emptying
<1>23. \A n \in Names : closed[n] # NoFile => /\ n # Slot(c, s).nm \/ NoEntry = Slot(c, s)
                                              /\ n # k.moving
  BY <1>3, <1>4, <1>7, <1>13, <1>24, Nils
<1> QED BY <1>10, <1>11, <1>12, <1>24, <1>15, <1>19, <1>20, <1>21, <1>22, <1>23, SlotHolds

\* A quiet step after which a file is being emptied.
LEMMA ForgetHolds ==
  ASSUME NEW g, Holds(g), Quiet, UNCHANGED <<private, fh, closed, bypassed>>, right' = TRUE,
         NEW nm \in Names, ~Open(nm), closed[nm] = NoFile, g.moving = Nil,
         NEW k, k \in Maps, Drained(g, nm, nm, k),
         call.at # "seek", call'.at # "seek", call.op # "write",
         call' \in CallType, CallOK(k)', Emptying'
  PROVE  Holds(k)'
<1>1. /\ DiskOK(g) /\ TypeInv /\ g \in Maps /\ CleanOK /\ fdNextCluster \in g.dirs
      /\ lastdircluster \in g.dirs /\ EntriesOK(g)
  BY PartsOf, DirsIn DEF DiskOK
<1>2. /\ SameClusters(g, k) /\ k.moving = nm
      /\ \A n \in Names : k.ext[n] = IF n = nm THEN 0 ELSE g.ext[n]
      /\ \A n \in Names : k.ext[n] <= g.ext[n]
  BY DEF Drained
<1>3. /\ k.own = g.own /\ k.idx = g.idx /\ k.len = g.len /\ k.dirs = g.dirs /\ k.pos = g.pos
      /\ k.dlen = g.dlen /\ k.loose = g.loose
  BY <1>2 DEF SameClusters
<1>4. /\ fdNextCluster' \in g.dirs /\ lastdircluster' \in g.dirs /\ bypassed' = bypassed
      /\ closed' = closed /\ fh' = fh /\ \A n \in Names : closed'[n] \in {closed[n], NoFile}
  BY <1>1 DEF private
<1>5. /\ ChainsOK(g)' /\ DirsOK(g)' /\ EntriesOK(g)'
      /\ \A n \in Names : closed'[n] \in {closed[n], NoFile} => PowerAt(g, n)'
      /\ \A c \in Clusters, s \in Slots : Slot(c, s)' = Slot(c, s)
  BY <1>1, <1>4, QuietParts
<1>6. Table' = Table /\ Still
  BY DEF Quiet, FatQuiet
<1>7. ChainsOK(k)'
  BY <1>1, <1>3, <1>6, ChainsKept DEF DiskOK
<1>8. DirsOK(k)'
  BY <1>1, <1>3, <1>4, <1>6, DirsKept, DirsIn DEF DiskOK
<1>9. EntriesOK(k)'
  <2>1. \A d, e \in Clusters, t, u \in Slots :
          Slot(d, t)'.nm # Nil /\ Slot(d, t)'.nm = Slot(e, u)'.nm => d = e /\ t = u
    BY <1>1, <1>5 DEF EntriesOK
  <2>2. \A d \in Clusters, t \in Slots : Slot(d, t)'.nm = Nil => Slot(d, t)' = NoEntry
    BY <1>1, <1>5 DEF EntriesOK
  <2>3. \A d \in Clusters, t \in Slots :
          Slot(d, t)'.nm # Nil /\ Slot(d, t)'.nm # k.moving =>
            /\ Headed(k, Slot(d, t)'.nm, Slot(d, t)'.cluster)
            /\ Slot(d, t)'.size <= k.ext[Slot(d, t)'.nm]
    <3> SUFFICES ASSUME NEW d \in Clusters, NEW t \in Slots, Slot(d, t)'.nm # Nil,
                        Slot(d, t)'.nm # k.moving
                 PROVE  /\ Headed(k, Slot(d, t)'.nm, Slot(d, t)'.cluster)
                        /\ Slot(d, t)'.size <= k.ext[Slot(d, t)'.nm]
      OBVIOUS
    <3>1. Slot(d, t)' = Slot(d, t) /\ Slot(d, t).nm # nm /\ Slot(d, t).nm # Nil
      BY <1>2, <1>5
    <3>2. Slot(d, t).nm \in Names
      <4>1. View(d) \in Parts
        BY <1>1, ViewType, PartsOf, TypesOf
      <4> QED BY <3>1, <4>1 DEF Parts, Slot
    <3>3. /\ Headed(g, Slot(d, t).nm, Slot(d, t).cluster)
          /\ Slot(d, t).size <= g.ext[Slot(d, t).nm]
      BY <1>1, <3>1 DEF EntriesOK
    <3> QED BY <1>2, <1>3, <3>1, <3>2, <3>3 DEF Headed
  <2>4. \A n \in Names : n # k.moving /\ NoEntryOf(n)' => k.len[n] = 0
    <3> SUFFICES ASSUME NEW n \in Names, n # k.moving, NoEntryOf(n)' PROVE g.len[n] = 0
      BY <1>3
    <3>1. NoEntryOf(n)
      BY <1>5 DEF NoEntryOf
    <3> QED BY <1>1, <3>1, Nils DEF EntriesOK
  <2>5. \A n \in Names : k.ext[n] <= k.len[n] * CLUSTER_SIZE /\ k.ext[n] <= MaxSize
    <3> SUFFICES ASSUME NEW n \in Names
                 PROVE  k.ext[n] <= g.len[n] * CLUSTER_SIZE /\ k.ext[n] <= MaxSize
      BY <1>3
    <3>1. CASE n = nm
      <4>1. g.len[n] \in Nat
        BY <1>1 DEF Maps
      <4> QED BY <1>2, <3>1, <4>1, Times, Sizes
    <3>2. CASE n # nm
      BY <1>1, <1>2, <3>2 DEF EntriesOK
    <3> QED BY <3>1, <3>2
  <2> QED BY <2>1, <2>2, <2>3, <2>4, <2>5 DEF EntriesOK
<1>10. WordsOK(k)'
  <2> SUFFICES ASSUME NEW d \in Clusters PROVE WordsAt(k, d)'
    BY DEF WordsOK
  <2>1. WordsAt(g, d) /\ Kept(d) /\ k.own[d] = g.own[d] /\ k.idx[d] = g.idx[d]
    BY <1>1, <1>3, <1>6 DEF DiskOK, WordsOK, Still
  <2>2. k.own[d] # Nil => /\ k.ext[k.own[d]] <= g.ext[k.own[d]] /\ k.ext[k.own[d]] \in Nat
                          /\ g.ext[k.own[d]] \in Nat /\ k.idx[d] \in Nat
    BY <1>1, <1>2 DEF Maps
  <2>3. d \in bypassed => d \in bypassed'
    BY <1>4
  <2> QED BY <2>1, <2>2, <2>3, KeptWords
<1>11. PowerOK(k)'
  <2> SUFFICES ASSUME NEW n \in Names PROVE PowerAt(k, n)'
    BY DEF PowerOK
  <2>1. PowerAt(g, n) /\ DirsOK(g)
    BY <1>1 DEF DiskOK, PowerOK
  <2>2. closed'[n] # NoFile =>
          /\ closed'[n] = closed[n] /\ n # k.moving
          /\ \A d \in Clusters : k.own[d] = n =>
               /\ g.own[d] = n /\ (Dirty(d)' => Dirty(d))
               /\ disk'.fat[d] \in {disk.fat[d], Table[d]} /\ Table'[d] = Table[d]
          /\ \A d \in Clusters, t \in Slots :
               Slot(d, t).nm = n /\ disk.cluster[d].slot[t] = Slot(d, t) =>
                 Slot(d, t)' = Slot(d, t) /\ disk'.cluster[d].slot[t] = Slot(d, t)
    <3>1. \A d \in Clusters : Kept(d) /\ disk'.fat[d] \in {disk.fat[d], Table[d]}
      BY DEF Quiet, Still, FatQuiet, FatStep
    <3>2. closed'[n] # NoFile => closed'[n] = closed[n] /\ n # k.moving
      BY <1>2, <1>4
    <3> QED BY <1>3, <1>6, <3>1, <3>2, KeptGives
  <2>3. g \in Maps /\ k \in Maps /\ k.dirs = g.dirs /\ k.pos = g.pos /\ \A d \in Clusters : Kept(d)
    BY <1>1, <1>3, <1>6 DEF Still
  <2> QED BY <2>1, <2>2, <2>3, LoosePower
<1>12. DiskOK(k)'
  BY <1>7, <1>8, <1>9, <1>10, <1>11 DEF DiskOK
<1>13. HandlesOK(k)'
  <2>1. \A d \in Clusters, t \in Slots :
          Slot(d, t).nm \notin {Nil, nm} => Slot(d, t)' = Slot(d, t)
    BY <1>5
  <2> QED BY <1>2, <1>3, <1>4, <2>1, HandlesElse
<1>14. TypeInv'
  <2>1. /\ BuffersType' /\ FatGood(Fat)' /\ bypassed' \subseteq Clusters
        /\ fatAllocNext' \in CLUSTER_FIRST_USER .. LastCluster + 1
        /\ fh' \in [Handles -> HandleType] /\ closed' \in [Names -> {NoFile} \cup (0 .. MaxSize)]
    BY <1>1 DEF Quiet, Still, FatQuiet, FatStep, TypeInv, private
  <2> QED BY <1>1, <2>1, TypesKept
<1>15. CleanOK'
  BY DEF CleanOK
<1> QED BY <1>6, <1>12, <1>13, <1>14, <1>15, HoldsOf DEF Still

\* FDReplace at one cluster of the directory.
LEMMA ReplaceHolds ==
  ASSUME NEW g, Holds(g), FDReplace
  PROVE  \E k \in Maps : Holds(k)'
<1> DEFINE slot == Contents(call.c).slot
           link == Contents(call.c).link
           meets == Replaceable(slot)
           s == Min(meets)
<1>1. /\ call.at = "replace" /\ Look(call.c, FSBPRI_SYS)
      /\ UNCHANGED <<fatbuf, private, fh, history>>
  BY DEF FDReplace
<1>2. /\ TypeInv /\ BuffersOK /\ call \in CallType /\ CallOK(g) /\ DirCallOK(g) /\ right = TRUE
      /\ call.op = "create" /\ g.moving = Nil /\ g.loose = {} /\ g \in Maps /\ EntriesOK(g)
      /\ DirsOK(g) /\ DiskOK(g)
  BY <1>1, PartsOf DEF TypeInv, CallOK, PhaseOK, DiskOK
<1>3. /\ call.nm \in Names /\ ~Open(call.nm) /\ closed[call.nm] = NoFile
      /\ call.h \in Handles /\ fh[call.h] = NoHandle /\ call.c \in g.dirs
      /\ NoEntryOf(call.nm) \/ Ahead(g, call.c, call.nm)
  BY <1>1, <1>2 DEF DirCallOK
<1>4. PICK nm \in Names, c \in g.dirs : nm = call.nm /\ c = call.c
  BY <1>3
<1>5. /\ c \in Clusters /\ View(c) \in Parts
      /\ View(c).link # 0 => View(c).link \in g.dirs /\ g.pos[View(c).link] = g.pos[c] + 1
      /\ View(c).link = 0 => g.pos[c] + 1 = g.dlen
  BY LinkIn
<1>6. Quiet /\ Contents(c) = View(c)
  BY <1>1, <1>2, <1>4, <1>5, QuietLook
<1>7. /\ UNCHANGED <<private, fh, closed, bypassed>> /\ right' = TRUE /\ fh' = fh
      /\ closed' = closed
  BY <1>1, <1>2 DEF history
<1>8. \A d \in Clusters, t \in Slots : Slot(d, t)' = Slot(d, t)
  BY <1>1, <1>2, <1>6, DirsIn, QuietKeeps DEF history, private
<1>9. \A t \in Slots : t \in meets <=> Slot(c, t).nm = Nil \/ Slot(c, t).nm = nm
  BY <1>4, <1>6 DEF Replaceable, Slot
<1>10. nm # Nil /\ Open(nm)' = Open(nm) /\ ~Open(nm)
  BY <1>3, <1>4, <1>7, Nils DEF Open
<1>11. \A d \in g.dirs : d \in Clusters /\ g.pos[d] \in Nat /\ g.pos[d] < g.dlen /\ g.dlen \in Nat
  BY <1>2 DEF DirsOK, Maps
<1>12. CASE meets # {}
  <2>1. s \in meets /\ s \in Slots /\ \A t \in meets : s <= t
    <3>1. meets \subseteq Slots
      BY DEF Replaceable
    <3>2. meets \subseteq Nat
      BY <3>1, Numbered
    <3> HIDE DEF meets
    <3> QED BY <1>12, <3>1, <3>2, MinIsLeast
  <2>2. PICK u \in Slots : u = s
    BY <2>1
  <2>3. Slot(c, u).nm \in {Nil, nm} /\ \A t \in Slots : t \in meets => u <= t
    BY <1>9, <2>1, <2>2
  <2>4. slot[s] = Slot(c, u)
    BY <1>4, <1>6, <2>2 DEF Slot
  <2>5. Slot(c, u).nm = Nil => Slot(c, u).cluster = 0 /\ NoEntryOf(nm)
    <3> SUFFICES ASSUME Slot(c, u).nm = Nil PROVE Slot(c, u).cluster = 0 /\ NoEntryOf(nm)
      OBVIOUS
    <3>1. Slot(c, u).cluster = 0
      BY <1>2, <1>5 DEF EntriesOK, NoEntry
    <3>2. ~Ahead(g, c, nm)
      <4> SUFFICES ASSUME Ahead(g, c, nm) PROVE FALSE
        OBVIOUS
      <4>1. PICK d \in g.dirs, t \in Slots :
              /\ Slot(d, t).nm = nm /\ g.pos[c] <= g.pos[d]
              /\ \A e \in g.dirs, v \in Slots :
                   g.pos[c] <= g.pos[e] /\ (g.pos[e] < g.pos[d] \/ (e = d /\ v < t))
                     => Slot(e, v).nm # Nil
        BY DEF Ahead
      <4>2. g.pos[c] <= g.pos[c] /\ ~(g.pos[c] < g.pos[d]) /\ ~(c = d /\ u < t)
        BY <1>11, <4>1
      <4>3. c = d
        <5>1. g.pos[c] = g.pos[d]
          BY <1>11, <4>1, <4>2
        <5> QED BY <1>2, <5>1 DEF DirsOK
      <4>4. t \in meets
        BY <1>9, <4>1, <4>3
      <4>5. u <= t /\ u \in Nat /\ t \in Nat
        BY <2>3, <4>4, Numbered
      <4>6. u = t
        BY <4>2, <4>3, <4>5
      <4> QED BY <1>10, <4>1, <4>3, <4>6
    <3> QED BY <1>3, <1>4, <3>1, <3>2
  <2>6. Slot(c, u).nm = nm => Headed(g, nm, Slot(c, u).cluster)
    BY <1>2, <1>5, <1>10 DEF EntriesOK
  <2>7. PICK k \in Maps : Drained(g, nm, nm, k)
    BY <1>2, Emptied
  <2>8. /\ k.own = g.own /\ k.idx = g.idx /\ k.len = g.len /\ k.loose = {} /\ k.moving = nm
        /\ k.dirs = g.dirs /\ k.ext[nm] = 0
    BY <1>2, <2>7 DEF Drained, SameClusters
  <2>9. Slot(c, u)' = Slot(c, u)
    BY <1>5, <1>8
  <2>10. \/ Slot(c, u).cluster = 0 /\ call' = [call EXCEPT !.at = "name", !.s = u]
         \/ /\ Slot(c, u).cluster # 0
            /\ call' = [call EXCEPT !.at = "free", !.c = Slot(c, u).cluster, !.x = c, !.s = u]
    <3>1. \/ slot[s].cluster = 0 /\ call' = [call EXCEPT !.at = "name", !.s = s]
          \/ /\ slot[s].cluster # 0
             /\ call' = [call EXCEPT !.at = "free", !.c = slot[s].cluster, !.x = call.c, !.s = s]
      BY <1>12 DEF FDReplace
    <3> HIDE DEF slot, s
    <3> QED BY <1>4, <2>2, <2>4, <3>1
  <2> HIDE DEF slot, link, meets, s
  <2>11. call' \in CallType /\ CallOK(k)' /\ call'.at # "seek" /\ call'.op = "create"
    <3>1. CASE Slot(c, u).cluster = 0
      <4>1. call' = [call EXCEPT !.at = "name", !.s = u]
        BY <2>10, <3>1
      <4>2. /\ call'.at = "name" /\ call'.s = u /\ call'.op = "create" /\ call'.nm = nm
            /\ call'.c = c /\ call'.h = call.h /\ call' \in CallType
        BY <1>2, <1>4, <4>1 DEF CallType
      <4>3. g.len[nm] = 0
        <5>1. CASE Slot(c, u).nm = nm
          BY <2>6, <3>1, <5>1, Numbered DEF Headed
        <5>2. CASE Slot(c, u).nm = Nil
          BY <1>2, <1>10, <2>5, <5>2 DEF EntriesOK
        <5> QED BY <2>3, <5>1, <5>2
      <4>4. Slot(c, u)'.nm = nm \/ (Slot(c, u)'.nm = Nil /\ NoEntryOf(nm)')
        <5>1. NoEntryOf(nm) => NoEntryOf(nm)'
          BY <1>8 DEF NoEntryOf
        <5> QED BY <2>3, <2>5, <2>9, <5>1
      <4>5. DirCallOK(k)'
        BY <1>3, <1>4, <1>7, <1>10, <2>8, <4>2, <4>3, <4>4 DEF DirCallOK
      <4>6. PhaseOK' /\ WriteOK(k)' /\ ReadOK(k)'
        BY <4>2 DEF PhaseOK, WriteOK, ReadOK
      <4> QED BY <2>8, <4>2, <4>5, <4>6 DEF CallOK
    <3>2. CASE Slot(c, u).cluster # 0
      <4>1. call' = [call EXCEPT !.at = "free", !.c = Slot(c, u).cluster, !.x = c, !.s = u]
        BY <2>10, <3>2
      <4>2. Slot(c, u).nm = nm
        BY <2>3, <2>5, <3>2
      <4>3. PICK d \in Clusters : d = Slot(c, u).cluster /\ g.own[d] = nm /\ g.idx[d] = 0
        BY <2>6, <3>2, <4>2 DEF Headed
      <4>4. call' = [call EXCEPT !.at = "free", !.c = d, !.x = c, !.s = u]
        BY <4>1, <4>3
      <4>5. /\ call'.at = "free" /\ call'.s = u /\ call'.op = "create" /\ call'.nm = nm
            /\ call'.c = d /\ call'.x = c /\ call'.h = call.h /\ call' \in CallType
        BY <1>2, <1>4, <1>5, <4>4, ZenonT(40) DEF CallType
      <4>6. DirCallOK(k)'
        BY <1>3, <1>4, <1>7, <1>10, <2>8, <2>9, <4>2, <4>3, <4>5 DEF DirCallOK
      <4>7. PhaseOK' /\ WriteOK(k)' /\ ReadOK(k)'
        BY <4>5 DEF PhaseOK, WriteOK, ReadOK
      <4> QED BY <2>8, <4>5, <4>6, <4>7 DEF CallOK
    <3> QED BY <3>1, <3>2
  <2>12. Emptying' /\ call.at # "seek" /\ call.op # "write" /\ closed[nm] = NoFile
    BY <1>1, <1>2, <1>3, <1>4, <2>11 DEF Emptying
  <2> QED BY <1>2, <1>6, <1>7, <1>10, <2>7, <2>11, <2>12, ForgetHolds
<1>13. CASE meets = {}
  <2>1. \A t \in Slots : Slot(c, t).nm # nm
    BY <1>9, <1>13
  <2>2. ASSUME Ahead(g, c, nm)
        PROVE  View(c).link # 0 /\ Ahead(g, View(c).link, nm)
    <3>1. PICK d \in g.dirs, t \in Slots :
            /\ Slot(d, t).nm = nm /\ g.pos[c] <= g.pos[d]
            /\ \A e \in g.dirs, v \in Slots :
                 g.pos[c] <= g.pos[e] /\ (g.pos[e] < g.pos[d] \/ (e = d /\ v < t))
                   => Slot(e, v).nm # Nil
      BY <2>2 DEF Ahead
    <3>2. g.pos[c] < g.pos[d]
      <4>1. g.pos[c] # g.pos[d]
        BY <1>2, <2>1, <3>1 DEF DirsOK
      <4> QED BY <1>11, <3>1, <4>1
    <3>3. View(c).link # 0
      BY <1>5, <1>11, <3>2
    <3>4. PICK l \in g.dirs : l = View(c).link /\ g.pos[l] = g.pos[c] + 1
      BY <1>5, <3>3
    <3>5. g.pos[l] <= g.pos[d] /\ \A e \in g.dirs : g.pos[l] <= g.pos[e] => g.pos[c] <= g.pos[e]
      BY <1>11, <3>2, <3>4
    <3>6. Ahead(g, l, nm)
      BY <3>1, <3>5 DEF Ahead
    <3> QED BY <3>3, <3>4, <3>6
  <2>3. \A d \in g.dirs : Ahead(g, d, nm) => Ahead(g, d, nm)'
    <3> SUFFICES ASSUME NEW d \in g.dirs, Ahead(g, d, nm) PROVE Ahead(g, d, nm)'
      OBVIOUS
    <3> QED BY <1>8, <1>11 DEF Ahead
  <2>4. NoEntryOf(nm) => NoEntryOf(nm)'
    BY <1>8 DEF NoEntryOf
  <2>5. \/ View(c).link # 0 /\ call' = [call EXCEPT !.c = View(c).link]
        \/ View(c).link = 0 /\ call' = [call EXCEPT !.at = "grow"]
    BY <1>4, <1>6, <1>13 DEF FDReplace
  <2> HIDE DEF slot, link, meets, s
  <2>6. call' \in CallType /\ CallOK(g)' /\ call'.at # "seek" /\ call'.op = "create"
    <3>1. CASE View(c).link # 0
      <4>1. PICK l \in g.dirs : l = View(c).link
        BY <1>5, <3>1
      <4>2. call' = [call EXCEPT !.c = l] /\ l \in Clusters
        BY <1>11, <2>5, <3>1, <4>1
      <4>3. /\ call'.at = "replace" /\ call'.op = "create" /\ call'.nm = nm
            /\ call'.c = l /\ call'.h = call.h /\ call' \in CallType
        BY <1>1, <1>2, <1>4, <4>2 DEF CallType
      <4>4. NoEntryOf(nm)' \/ Ahead(g, l, nm)'
        BY <1>3, <1>4, <2>2, <2>3, <2>4, <4>1
      <4>5. DirCallOK(g)'
        BY <1>3, <1>4, <1>7, <1>10, <4>3, <4>4 DEF DirCallOK
      <4>6. PhaseOK' /\ WriteOK(g)' /\ ReadOK(g)'
        BY <4>3 DEF PhaseOK, WriteOK, ReadOK
      <4> QED BY <1>2, <4>3, <4>5, <4>6 DEF CallOK
    <3>2. CASE View(c).link = 0
      <4>1. call' = [call EXCEPT !.at = "grow"]
        BY <2>5, <3>2
      <4>2. /\ call'.at = "grow" /\ call'.op = "create" /\ call'.nm = nm
            /\ call'.c = c /\ call'.h = call.h /\ call' \in CallType
        BY <1>2, <1>4, <4>1, NextAt
      <4>3. NoEntryOf(nm)' /\ g.pos[c] + 1 = g.dlen
        BY <1>3, <1>4, <1>5, <2>2, <2>4, <3>2
      <4>4. DirCallOK(g)'
        BY <1>3, <1>4, <1>7, <1>10, <4>2, <4>3 DEF DirCallOK
      <4>5. PhaseOK' /\ WriteOK(g)' /\ ReadOK(g)'
        BY <4>2 DEF PhaseOK, WriteOK, ReadOK
      <4> QED BY <1>2, <4>2, <4>4, <4>5 DEF CallOK
    <3> QED BY <3>1, <3>2
  <2>7. Emptying' /\ call.at # "seek" /\ call.op # "write"
    BY <1>1, <1>2, <2>6 DEF Emptying
  <2> QED BY <1>2, <1>6, <1>7, <2>6, <2>7, GoesOn
<1> QED BY <1>12, <1>13

\* The map without the first cluster of nm.
Shortened(g, nm, c, m, k) ==
  /\ k.own = [g.own EXCEPT ![c] = Nil] /\ k.ext = g.ext
  /\ k.idx = [d \in Clusters |-> IF g.own[d] = nm /\ d # c THEN g.idx[d] - 1 ELSE g.idx[d]]
  /\ k.len = [g.len EXCEPT ![nm] = @ - 1]
  /\ k.dirs = g.dirs /\ k.pos = g.pos /\ k.dlen = g.dlen /\ k.loose = g.loose /\ k.moving = m

\* There is such a map, and it says where the clusters are.
LEMMA Shorter ==
  ASSUME NEW g, g \in Maps, ChainsOK(g), NEW nm \in Names, NEW c \in Clusters,
         g.own[c] = nm, g.idx[c] = 0, NEW m \in {Nil, nm}
  PROVE  /\ \E k \in Maps : Shortened(g, nm, c, m, k)
         /\ \A k : Shortened(g, nm, c, m, k) =>
              /\ k.own[c] = Nil /\ \A n \in Names : n # nm => k.len[n] = g.len[n]
              /\ k.len[nm] = g.len[nm] - 1 /\ g.len[nm] > 0
              /\ \A d \in Clusters : d # c =>
                   /\ k.own[d] = g.own[d]
                   /\ g.own[d] = nm => k.idx[d] = g.idx[d] - 1 /\ g.idx[d] > 0
                   /\ g.own[d] # nm => k.idx[d] = g.idx[d]
<1>1. \A d \in Clusters : g.own[d] = nm /\ d # c => g.idx[d] \in Nat /\ g.idx[d] # 0
  BY Nils DEF ChainsOK, Maps
<1>2. g.len[nm] \in Nat /\ g.len[nm] > 0
  <2>1. g.len[nm] \in Nat /\ g.idx[c] < g.len[g.own[c]]
    BY Nils DEF ChainsOK, Maps
  <2> QED BY <2>1
<1>3. \E k \in Maps : Shortened(g, nm, c, m, k)
  <2> DEFINE idx == [d \in Clusters |-> IF g.own[d] = nm /\ d # c THEN g.idx[d] - 1 ELSE g.idx[d]]
             len == [g.len EXCEPT ![nm] = @ - 1]
             k == [own |-> [g.own EXCEPT ![c] = Nil], idx |-> idx, len |-> len, ext |-> g.ext,
                   dirs |-> g.dirs, pos |-> g.pos, dlen |-> g.dlen, loose |-> g.loose, moving |-> m]
  <2>1. idx \in [Clusters -> Nat]
    <3>1. \A d \in Clusters : g.idx[d] \in Nat
      BY DEF Maps
    <3> QED BY <1>1, <3>1
  <2>2. len \in [Names -> Nat]
    <3>1. g.len \in [Names -> Nat] /\ g.len[nm] - 1 \in Nat
      BY <1>2 DEF Maps
    <3> QED BY <3>1
  <2>3. [g.own EXCEPT ![c] = Nil] \in [Clusters -> Names \cup {Nil}]
    BY DEF Maps
  <2>4. Shortened(g, nm, c, m, k)
    BY DEF Shortened
  <2> HIDE DEF idx, len
  <2>5. k \in Maps
    BY <2>1, <2>2, <2>3 DEF Maps
  <2> QED BY <2>4, <2>5
<1>4. ASSUME NEW k, Shortened(g, nm, c, m, k)
      PROVE  /\ k.own[c] = Nil /\ \A n \in Names : n # nm => k.len[n] = g.len[n]
             /\ k.len[nm] = g.len[nm] - 1
             /\ \A d \in Clusters : d # c =>
                  /\ k.own[d] = g.own[d]
                  /\ g.own[d] = nm => k.idx[d] = g.idx[d] - 1 /\ g.idx[d] > 0
                  /\ g.own[d] # nm => k.idx[d] = g.idx[d]
  BY <1>1, <1>4 DEF Shortened, Maps
<1> QED BY <1>2, <1>3, <1>4

\* FATChainFree at one cluster.
LEMMA ChainFreeHolds ==
  ASSUME NEW g, Holds(g), FATChainFree
  PROVE  \E k \in Maps : Holds(k)'
<1>1. /\ call.at = "free" /\ SetFat(FATMark(Fat, call.c, CLUSTER_UNUSED))
      /\ UNCHANGED <<fsb_t, fh, history>>
  BY DEF FATChainFree
<1>2. /\ TypeInv /\ BuffersOK /\ call \in CallType /\ CallOK(g) /\ DirCallOK(g) /\ right = TRUE
      /\ call.op \in {"delete", "create"} /\ g.loose = {} /\ g \in Maps /\ EntriesOK(g)
      /\ g.moving = call.nm /\ DirsOK(g) /\ DiskOK(g) /\ ChainsOK(g) /\ FatGood(Fat)
      /\ fatAllocNext \in CLUSTER_FIRST_USER .. LastCluster + 1 /\ ROOT_DIR_CLUSTER \in g.dirs
      /\ fdNextCluster \in g.dirs /\ lastdircluster \in g.dirs
      /\ Table \in [Clusters -> Marks]
  BY <1>1, PartsOf, TypesOf, DirsIn DEF TypeInv, CallOK, PhaseOK, DiskOK
<1>3. /\ call.nm \in Names /\ ~Open(call.nm) /\ closed[call.nm] = NoFile
      /\ call.op = "create" => call.h \in Handles /\ fh[call.h] = NoHandle
      /\ call.c \in Clusters /\ g.own[call.c] = call.nm /\ g.idx[call.c] = 0 /\ g.ext[call.nm] = 0
      /\ call.op = "delete" => NoEntryOf(call.nm)
      /\ call.op = "create" => call.x \in g.dirs /\ Slot(call.x, call.s).nm = call.nm
  BY <1>1, <1>2 DEF DirCallOK
<1>4. PICK nm \in Names, c \in Clusters : nm = call.nm /\ c = call.c
  BY <1>3
<1>5. nm # Nil /\ g.own[c] = nm /\ g.idx[c] = 0 /\ g.moving = nm
  BY <1>2, <1>3, <1>4, Nils
<1>6. PICK v \in Nat : v = Table[c]
  BY <1>4, <1>5, NextIs
<1>7. /\ FATValue(Fat, call.c) = v
      /\ v < 3 => v = 0 /\ g.len[nm] = 1
      /\ v >= 3 => v \in Clusters /\ g.own[v] = nm /\ g.idx[v] = 1
  <2>1. /\ FATValue(Fat, c) = v
        /\ v < 3 => v = 0 /\ 0 + 1 = g.len[nm]
        /\ v >= 3 => v \in Clusters /\ g.own[v] = nm /\ g.idx[v] = 0 + 1
    BY <1>5, <1>6, NextIs
  <2> QED BY <1>4, <2>1
<1>8. Marked(c, 1)
  <2>1. 1 \in Marks
    BY DEF Marks
  <2> DEFINE m == FATMark(Fat, c, 1)
  <2>2. FatGood(m) /\ FatMarked(Fat, m, c, 1)
    BY <1>2, <2>1, MarkIs
  <2>3. SetFat(m) /\ fsb_t' = fsb_t
    BY <1>1, <1>4
  <2> HIDE DEF m
  <2> QED BY <1>2, <2>2, <2>3, MarkedFat
<1>9. /\ Still /\ FatStep /\ Table' = [Table EXCEPT ![c] = 1] /\ BuffersType' /\ BuffersOK'
      /\ FatGood(Fat)' /\ \A d \in Clusters : Kept(d)
  BY <1>8 DEF Marked, Still, FatStep
<1>10. Table'[c] = 1 /\ \A d \in Clusters : d # c => Table'[d] = Table[d]
  BY <1>2, <1>9
<1>11. \A d \in Clusters, t \in Slots : Slot(d, t)' = Slot(d, t)
  BY <1>9, KeptGives
<1>12. /\ bypassed' = bypassed /\ closed' = closed /\ fh' = fh /\ right' = TRUE
  BY <1>1, <1>2 DEF history
<1>13. /\ call' \in CallType /\ call'.op = call.op /\ call'.nm = nm /\ call'.h = call.h
       /\ call'.s = call.s
       /\ fatAllocNext' \in CLUSTER_FIRST_USER .. LastCluster + 1
       /\ fdNextCluster' \in g.dirs /\ lastdircluster' \in g.dirs
       /\ \/ v >= 3 /\ call'.at = "free" /\ call'.c = v /\ call'.x = call.x
          \/ v < 3 /\ call.op = "delete" /\ call'.at = "flush"
          \/ v < 3 /\ call.op = "create" /\ call'.at = "name" /\ call'.c = call.x
  <2>1. CASE v >= 3
    <3>1. call' = [call EXCEPT !.c = v] /\ UNCHANGED private
      BY <1>7, <2>1 DEF FATChainFree
    <3> QED BY <1>1, <1>2, <1>4, <1>7, <2>1, <3>1 DEF CallType, private
  <2>2. CASE v < 3 /\ call.op = "delete"
    <3>1. call' = [call EXCEPT !.at = "flush"] /\ UNCHANGED private
      BY <1>7, <2>2 DEF FATChainFree
    <3> QED BY <1>1, <1>2, <1>4, <2>2, <3>1 DEF CallType, private
  <2>3. CASE v < 3 /\ call.op = "create"
    <3>1. call' = [call EXCEPT !.at = "name", !.c = call.x] /\ fsResetPrivates
      BY <1>7, <2>3 DEF FATChainFree
    <3>2. 3 \in 3 .. LastCluster + 1
      BY Sizes
    <3> QED BY <1>1, <1>2, <1>4, <2>3, <3>1, <3>2 DEF CallType, fsResetPrivates
  <2> QED BY <1>2, <1>6, <2>1, <2>2, <2>3
<1>14. PICK m \in {Nil, nm} : m = IF call'.at = "flush" THEN Nil ELSE nm
  OBVIOUS
<1>15. PICK k \in Maps : Shortened(g, nm, c, m, k)
  BY <1>2, <1>5, Shorter
<1>16. /\ k.own[c] = Nil /\ \A n \in Names : n # nm => k.len[n] = g.len[n]
       /\ k.len[nm] = g.len[nm] - 1 /\ g.len[nm] > 0
       /\ \A d \in Clusters : d # c =>
            /\ k.own[d] = g.own[d]
            /\ g.own[d] = nm => k.idx[d] = g.idx[d] - 1 /\ g.idx[d] > 0
            /\ g.own[d] # nm => k.idx[d] = g.idx[d]
  BY <1>2, <1>5, <1>15, Shorter
<1>17. /\ k.dirs = g.dirs /\ k.pos = g.pos /\ k.dlen = g.dlen /\ k.loose = g.loose
       /\ k.moving = m /\ k.ext = g.ext
  BY <1>15 DEF Shortened
<1>18. /\ \A d \in Clusters : g.idx[d] \in Nat
       /\ \A n \in Names : g.len[n] \in Nat
  BY <1>2 DEF Maps
<1>19. ChainsOK(k)'
  <2>1. \A d \in Clusters : k.own[d] # Nil =>
          /\ d \notin k.dirs /\ d \notin k.loose
          /\ k.idx[d] < k.len[k.own[d]]
          /\ IF k.idx[d] + 1 = k.len[k.own[d]] THEN Table'[d] = 0
             ELSE /\ Table'[d] \in Clusters /\ k.own[Table'[d]] = k.own[d]
                  /\ k.idx[Table'[d]] = k.idx[d] + 1
    <3> SUFFICES ASSUME NEW d \in Clusters, k.own[d] # Nil
                 PROVE  /\ d \notin k.dirs /\ d \notin k.loose
                        /\ k.idx[d] < k.len[k.own[d]]
                        /\ IF k.idx[d] + 1 = k.len[k.own[d]] THEN Table'[d] = 0
                           ELSE /\ Table'[d] \in Clusters /\ k.own[Table'[d]] = k.own[d]
                                /\ k.idx[Table'[d]] = k.idx[d] + 1
      OBVIOUS
    <3>1. d # c /\ g.own[d] = k.own[d] /\ Table'[d] = Table[d] /\ g.own[d] # Nil
      BY <1>10, <1>16
    <3>2. /\ d \notin g.dirs /\ d \notin g.loose
          /\ g.idx[d] < g.len[g.own[d]]
          /\ IF g.idx[d] + 1 = g.len[g.own[d]] THEN Table[d] = 0
             ELSE /\ Table[d] \in Clusters /\ g.own[Table[d]] = g.own[d]
                  /\ g.idx[Table[d]] = g.idx[d] + 1
      BY <1>2, <3>1 DEF ChainsOK
    <3>3. k.own[d] \in Names
      BY <1>15, <3>1 DEF Maps
    <3>4. Table[d] \in Clusters /\ g.idx[Table[d]] = g.idx[d] + 1 => Table[d] # c
      BY <1>5, <1>18
    <3>5. CASE g.own[d] = nm
      <4>1. k.idx[d] = g.idx[d] - 1 /\ k.len[k.own[d]] = g.len[nm] - 1 /\ g.len[nm] \in Nat
        BY <1>16, <1>18, <3>1, <3>5
      <4>2. k.idx[d] + 1 = k.len[k.own[d]] <=> g.idx[d] + 1 = g.len[nm]
        BY <1>18, <4>1
      <4>3. k.idx[d] < k.len[k.own[d]]
        BY <1>18, <3>2, <3>5, <4>1
      <4>4. CASE g.idx[d] + 1 = g.len[nm]
        BY <1>17, <3>1, <3>2, <3>5, <4>2, <4>3, <4>4
      <4>5. CASE g.idx[d] + 1 # g.len[nm]
        <5>1. /\ Table[d] \in Clusters /\ g.own[Table[d]] = nm /\ Table[d] # c
              /\ g.idx[Table[d]] = g.idx[d] + 1
          BY <3>2, <3>4, <3>5, <4>5
        <5>2. k.own[Table[d]] = nm /\ k.idx[Table[d]] = g.idx[d]
          <6>1. PICK e \in Clusters : e = Table[d]
            BY <5>1
          <6>2. e # c /\ g.own[e] = nm /\ g.idx[e] = g.idx[d] + 1
            BY <5>1, <6>1
          <6>3. k.own[e] = nm /\ k.idx[e] = g.idx[e] - 1
            BY <1>16, <6>2
          <6> QED BY <1>18, <6>1, <6>2, <6>3
        <5>3. k.idx[Table[d]] = k.idx[d] + 1
          BY <1>18, <4>1, <5>2
        <5> QED BY <1>17, <3>1, <3>2, <3>5, <4>2, <4>3, <4>5, <5>1, <5>2, <5>3
      <4> QED BY <4>4, <4>5
    <3>6. CASE g.own[d] # nm
      <4>1. k.idx[d] = g.idx[d] /\ k.len[k.own[d]] = g.len[g.own[d]]
        BY <1>16, <3>1, <3>3, <3>6
      <4>2. g.idx[d] + 1 # g.len[g.own[d]] => /\ k.own[Table[d]] = g.own[d]
                                              /\ k.idx[Table[d]] = g.idx[Table[d]]
        BY <1>16, <3>2, <3>4, <3>6
      <4> QED BY <1>17, <3>1, <3>2, <4>1, <4>2
    <3> QED BY <3>5, <3>6
  <2>2. \A d, e \in Clusters : k.own[d] # Nil /\ k.own[d] = k.own[e] /\ k.idx[d] = k.idx[e] => d = e
    <3> SUFFICES ASSUME NEW d \in Clusters, NEW e \in Clusters, k.own[d] # Nil,
                        k.own[d] = k.own[e], k.idx[d] = k.idx[e]
                 PROVE  d = e
      OBVIOUS
    <3>1. d # c /\ e # c /\ g.own[d] = g.own[e] /\ g.own[d] # Nil
      BY <1>16
    <3>2. g.idx[d] = g.idx[e]
      BY <1>16, <1>18, <3>1
    <3> QED BY <1>2, <3>1, <3>2 DEF ChainsOK
  <2>3. \A n \in Names : \A j \in 0 .. k.len[n] - 1 :
          \E d \in Clusters : k.own[d] = n /\ k.idx[d] = j
    <3> SUFFICES ASSUME NEW n \in Names, NEW j \in 0 .. k.len[n] - 1
                 PROVE  \E d \in Clusters : k.own[d] = n /\ k.idx[d] = j
      OBVIOUS
    <3>1. CASE n = nm
      <4>1. j + 1 \in 0 .. g.len[nm] - 1 /\ j \in Nat
        BY <1>16, <1>18, <3>1
      <4>2. PICK d \in Clusters : g.own[d] = nm /\ g.idx[d] = j + 1
        BY <1>2, <4>1 DEF ChainsOK
      <4>3. d # c
        BY <1>5, <4>1, <4>2
      <4>4. k.own[d] = nm /\ k.idx[d] = j
        BY <1>16, <4>1, <4>2, <4>3
      <4> QED BY <3>1, <4>4
    <3>2. CASE n # nm
      <4>1. j \in 0 .. g.len[n] - 1
        BY <1>16, <3>2
      <4>2. PICK d \in Clusters : g.own[d] = n /\ g.idx[d] = j
        BY <1>2, <4>1 DEF ChainsOK
      <4> QED BY <1>5, <1>16, <3>2, <4>2
    <3> QED BY <3>1, <3>2
  <2>4. \A d \in k.dirs : Table'[d] = 0 /\ d \notin k.loose
    <3>1. c \notin g.dirs
      BY <1>2, <1>5 DEF ChainsOK
    <3>2. \A d \in g.dirs : d \in Clusters
      BY <1>2 DEF Maps
    <3> QED BY <1>2, <1>10, <1>17, <3>1, <3>2 DEF ChainsOK
  <2>5. \A d \in Clusters : k.own[d] = Nil /\ d \notin k.dirs /\ d \notin k.loose => Table'[d] = 1
    BY <1>2, <1>10, <1>16, <1>17 DEF ChainsOK
  <2> HIDE DEF Table
  <2> QED BY <2>1, <2>2, <2>3, <2>4, <2>5 DEF ChainsOK
<1>20. DirsOK(k)'
  BY <1>2, <1>9, <1>13, <1>17, DirsKept, DirsIn
<1>21. EntriesOK(k)'
  <2>1. \A d, e \in Clusters, t, u \in Slots :
          Slot(d, t)'.nm # Nil /\ Slot(d, t)'.nm = Slot(e, u)'.nm => d = e /\ t = u
    BY <1>2, <1>11 DEF EntriesOK
  <2>2. \A d \in Clusters, t \in Slots : Slot(d, t)'.nm = Nil => Slot(d, t)' = NoEntry
    BY <1>2, <1>11 DEF EntriesOK
  <2>3. k.moving # nm => NoEntryOf(nm) /\ k.len[nm] = 0
    <3> SUFFICES ASSUME k.moving # nm PROVE NoEntryOf(nm) /\ k.len[nm] = 0
      OBVIOUS
    <3>1. call'.at = "flush"
      BY <1>14, <1>17
    <3>2. v < 3 /\ call.op = "delete"
      BY <1>13, <3>1
    <3> QED BY <1>3, <1>4, <1>7, <1>16, <3>2
  <2>4. \A d \in Clusters, t \in Slots :
          Slot(d, t)'.nm # Nil /\ Slot(d, t)'.nm # k.moving =>
            /\ Headed(k, Slot(d, t)'.nm, Slot(d, t)'.cluster)
            /\ Slot(d, t)'.size <= k.ext[Slot(d, t)'.nm]
    <3> SUFFICES ASSUME NEW d \in Clusters, NEW t \in Slots, Slot(d, t)'.nm # Nil,
                        Slot(d, t)'.nm # k.moving
                 PROVE  /\ Headed(k, Slot(d, t)'.nm, Slot(d, t)'.cluster)
                        /\ Slot(d, t)'.size <= k.ext[Slot(d, t)'.nm]
      OBVIOUS
    <3>1. Slot(d, t)' = Slot(d, t) /\ Slot(d, t).nm # Nil
      BY <1>11
    <3>2. Slot(d, t).nm # nm
      BY <2>3, <3>1 DEF NoEntryOf
    <3>3. Slot(d, t).nm \in Names
      <4>1. View(d) \in Parts
        BY <1>2, ViewType, TypesOf
      <4> QED BY <3>1, <4>1 DEF Parts, Slot
    <3>4. /\ Headed(g, Slot(d, t).nm, Slot(d, t).cluster)
          /\ Slot(d, t).size <= g.ext[Slot(d, t).nm]
      BY <1>2, <1>5, <3>1, <3>2 DEF EntriesOK
    <3>5. Headed(k, Slot(d, t).nm, Slot(d, t).cluster)
      BY <1>5, <1>16, <3>2, <3>3, <3>4 DEF Headed
    <3> QED BY <1>17, <3>1, <3>4, <3>5
  <2>5. \A n \in Names : n # k.moving /\ NoEntryOf(n)' => k.len[n] = 0
    <3> SUFFICES ASSUME NEW n \in Names, n # k.moving, NoEntryOf(n)' PROVE k.len[n] = 0
      OBVIOUS
    <3>1. CASE n = nm
      BY <2>3, <3>1
    <3>2. CASE n # nm
      <4>1. NoEntryOf(n)
        BY <1>11 DEF NoEntryOf
      <4> QED BY <1>2, <1>5, <1>16, <3>2, <4>1 DEF EntriesOK
    <3> QED BY <3>1, <3>2
  <2>6. \A n \in Names : k.ext[n] <= k.len[n] * CLUSTER_SIZE /\ k.ext[n] <= MaxSize
    <3> SUFFICES ASSUME NEW n \in Names
                 PROVE  g.ext[n] <= k.len[n] * CLUSTER_SIZE /\ g.ext[n] <= MaxSize
      BY <1>17
    <3>1. CASE n = nm
      <4>1. k.len[nm] \in Nat
        BY <1>15 DEF Maps
      <4> QED BY <1>3, <1>4, <3>1, <4>1, Times, Sizes
    <3>2. CASE n # nm
      BY <1>2, <1>16, <3>2 DEF EntriesOK
    <3> QED BY <3>1, <3>2
  <2> QED BY <2>1, <2>2, <2>4, <2>5, <2>6 DEF EntriesOK
<1>22. WordsOK(k)'
  <2> SUFFICES ASSUME NEW d \in Clusters PROVE WordsAt(k, d)'
    BY DEF WordsOK
  <2>1. CASE d = c
    BY <1>16, <2>1 DEF WordsAt
  <2>2. CASE d # c /\ g.own[d] = nm
    <3>1. k.own[d] = nm /\ k.ext[nm] = 0 /\ k.idx[d] \in Nat
      BY <1>3, <1>4, <1>15, <1>16, <1>17, <2>2 DEF Maps
    <3>2. \A i \in 0 .. CLUSTER_SIZE - 1 : ~(k.idx[d] * CLUSTER_SIZE + i < 0)
      <4>1. PICK q \in Nat : q = k.idx[d] * CLUSTER_SIZE
        BY <3>1, Times
      <4>2. \A i \in 0 .. CLUSTER_SIZE - 1 : ~(q + i < 0)
        BY Sizes
      <4> QED BY <4>1, <4>2
    <3> QED BY <3>1, <3>2 DEF WordsAt
  <2>3. CASE d # c /\ g.own[d] # nm
    <3>1. WordsAt(g, d) /\ Kept(d) /\ k.own[d] = g.own[d] /\ k.idx[d] = g.idx[d]
      BY <1>2, <1>9, <1>16, <2>3 DEF DiskOK, WordsOK
    <3>2. k.own[d] # Nil => /\ k.ext[k.own[d]] <= g.ext[k.own[d]] /\ k.ext[k.own[d]] \in Nat
                            /\ g.ext[k.own[d]] \in Nat /\ k.idx[d] \in Nat
      <4>1. k.own[d] # Nil => g.ext[k.own[d]] \in Nat /\ k.idx[d] \in Nat
        BY <1>2, <3>1 DEF Maps
      <4> QED BY <1>17, <4>1
    <3>3. d \in bypassed => d \in bypassed'
      BY <1>12
    <3> QED BY <3>1, <3>2, <3>3, KeptWords
  <2> QED BY <2>1, <2>2, <2>3
<1>23. PowerOK(k)'
  <2> SUFFICES ASSUME NEW n \in Names PROVE PowerAt(k, n)'
    BY DEF PowerOK
  <2>1. PowerAt(g, n)
    BY <1>2 DEF DiskOK, PowerOK
  <2>2. closed'[n] # NoFile =>
          /\ closed'[n] = closed[n] /\ n # k.moving
          /\ \A d \in Clusters : k.own[d] = n =>
               /\ g.own[d] = n /\ (Dirty(d)' => Dirty(d))
               /\ disk'.fat[d] \in {disk.fat[d], Table[d]} /\ Table'[d] = Table[d]
          /\ \A d \in Clusters, t \in Slots :
               Slot(d, t).nm = n /\ disk.cluster[d].slot[t] = Slot(d, t) =>
                 Slot(d, t)' = Slot(d, t) /\ disk'.cluster[d].slot[t] = Slot(d, t)
    <3>1. \A d \in Clusters : Kept(d) /\ disk'.fat[d] \in {disk.fat[d], Table[d]}
      BY <1>9 DEF FatStep
    <3>2. closed'[n] # NoFile => closed'[n] = closed[n] /\ n # k.moving
      BY <1>3, <1>4, <1>12, <1>17, Nils
    <3>3. \A d \in Clusters : k.own[d] = n => d # c /\ g.own[d] = n
      BY <1>16, Nils
    <3> QED BY <1>10, <3>1, <3>2, <3>3, KeptGives
  <2> QED BY <1>2, <1>9, <1>17, <2>1, <2>2, LoosePower
<1>24. DiskOK(k)'
  BY <1>19, <1>20, <1>21, <1>22, <1>23 DEF DiskOK
<1>25. call.at # "seek" /\ call'.at # "seek" /\ call.op # "write" /\ Emptying'
  BY <1>1, <1>2, <1>13 DEF Emptying
<1>26. HandlesOK(k)'
  <2>1. \A d \in Clusters, t \in Slots :
          Slot(d, t).nm \notin {Nil, nm} => Slot(d, t)' = Slot(d, t)
    BY <1>11
  <2>2. \A d \in Clusters : g.own[d] \notin {Nil, nm} => k.own[d] = g.own[d] /\ k.idx[d] = g.idx[d]
    BY <1>5, <1>16
  <2>3. ~Open(nm) /\ g.moving \in {Nil, nm} /\ k.moving \in {Nil, nm}
    BY <1>3, <1>4, <1>5, <1>17
  <2>4. \A n \in Names : n # nm => k.ext[n] = g.ext[n]
    BY <1>17
  <2> QED BY <1>12, <1>25, <2>1, <2>2, <2>3, <2>4, HandlesElse
<1>27. CallOK(k)'
  <2>1. Open(nm)' = Open(nm) /\ ~Open(nm)
    BY <1>3, <1>4, <1>12 DEF Open
  <2>2. NoEntryOf(nm) => NoEntryOf(nm)'
    BY <1>11 DEF NoEntryOf
  <2>3. PICK x \in {0} \cup Clusters, s \in Slots : x = call.x /\ s = call.s
    BY <1>2 DEF CallType
  <2>4. call.op = "create" => x \in g.dirs /\ Slot(x, s)' = Slot(x, s) /\ Slot(x, s).nm = nm
    BY <1>3, <1>4, <1>11, <2>3, DirsIn
  <2>5. k.moving = IF call'.at = "flush" THEN Nil ELSE nm
    BY <1>14, <1>17
  <2>6. v >= 3 => k.own[v] = nm /\ k.idx[v] = 0 /\ v \in Clusters
    <3>1. v >= 3 => v # c
      BY <1>5, <1>7
    <3> QED BY <1>7, <1>16, <3>1
  <2>7. v < 3 => k.len[nm] = 0
    BY <1>7, <1>16
  <2>8. k.ext[nm] = 0 /\ k.dirs = g.dirs
    BY <1>3, <1>4, <1>17
  <2>9. DirCallOK(k)'
    <3>1. CASE v >= 3
      <4>1. call'.at = "free" /\ call'.c = v /\ call'.x = x
        BY <1>6, <1>13, <2>3, <3>1
      <4> QED BY <1>2, <1>3, <1>4, <1>12, <1>13, <2>1, <2>2, <2>3, <2>4, <2>6, <2>8, <3>1, <4>1
              DEF DirCallOK
    <3>2. CASE v < 3 /\ call.op = "delete"
      <4>1. call'.at = "flush"
        BY <1>6, <1>13, <3>2
      <4> QED BY <1>3, <1>4, <1>12, <1>13, <2>1, <3>2, <4>1 DEF DirCallOK
    <3>3. CASE v < 3 /\ call.op = "create"
      <4>1. call'.at = "name" /\ call'.c = x
        BY <1>6, <1>13, <2>3, <3>3
      <4> QED BY <1>3, <1>4, <1>12, <1>13, <2>1, <2>3, <2>4, <2>7, <2>8, <3>3, <4>1 DEF DirCallOK
    <3> QED BY <1>2, <1>6, <3>1, <3>2, <3>3
  <2>10. PhaseOK' /\ WriteOK(k)' /\ ReadOK(k)'
    BY <1>2, <1>13 DEF PhaseOK, WriteOK, ReadOK
  <2> QED BY <1>2, <1>13, <1>17, <2>5, <2>9, <2>10 DEF CallOK
<1>28. TypeInv'
  <2>1. /\ fh' \in [Handles -> HandleType] /\ bypassed' \subseteq Clusters
        /\ closed' \in [Names -> {NoFile} \cup (0 .. MaxSize)]
    BY <1>2, <1>12 DEF TypeInv
  <2> QED BY <1>2, <1>9, <1>13, <2>1, TypesKept
<1>29. CleanOK'
  BY <1>25 DEF CleanOK
<1> QED BY <1>9, <1>12, <1>24, <1>26, <1>27, <1>28, <1>29, HoldsOf

\* FDCreate names the entry, and the handle is new.
LEMMA CreateEntryHolds ==
  ASSUME NEW g, Holds(g), CreateEntry
  PROVE  \E k \in Maps : Holds(k)'
<1>1. /\ call.at = "name" /\ call' = NoCall /\ UNCHANGED <<fatbuf, private, history>>
      /\ fh' = [fh EXCEPT ![call.h] = [NoHandle EXCEPT !.nm = call.nm, !.mode = "write",
                                       !.dircluster = call.c, !.diroff = call.s]]
  BY DEF CreateEntry, Return
<1>2. /\ TypeInv /\ BuffersOK /\ BuffersType /\ DiskOK(g) /\ CallOK(g) /\ DirCallOK(g)
      /\ call.op = "create" /\ g.loose = {} /\ g \in Maps /\ right = TRUE /\ EntriesOK(g)
      /\ g.moving = call.nm /\ fh \in [Handles -> HandleType] /\ call \in CallType /\ g \in Maps
  BY <1>1, PartsOf, TypesOf DEF CallOK, PhaseOK, TypeInv, DiskOK
<1>3. /\ call.nm \in Names /\ ~Open(call.nm) /\ closed[call.nm] = NoFile
      /\ call.h \in Handles /\ fh[call.h] = NoHandle
      /\ call.c \in g.dirs /\ g.len[call.nm] = 0 /\ call.s \in Slots
      /\ \/ Slot(call.c, call.s).nm = call.nm
         \/ Slot(call.c, call.s).nm = Nil /\ NoEntryOf(call.nm)
  BY <1>1, <1>2 DEF DirCallOK, CallType
<1>4. PICK nm \in Names, c \in g.dirs, s \in Slots, h \in Handles :
        nm = call.nm /\ c = call.c /\ s = call.s /\ h = call.h
  BY <1>3
<1>5. c \in Clusters /\ View(c) \in Parts /\ Contents(c) = View(c) /\ nm # Nil
  BY <1>2, LinkIn, ContentsIsView, Nils
<1>6. PICK entry : entry = [NoEntry EXCEPT !.nm = nm]
  OBVIOUS
<1>7. entry.nm = nm /\ entry.size = 0 /\ entry.cluster = 0 /\ entry \in EntryType
  BY <1>6, Sizes DEF NoEntry, EntryType
<1>8. PICK f : f = [NoHandle EXCEPT !.nm = nm, !.mode = "write", !.dircluster = c, !.diroff = s]
  OBVIOUS
<1>9. /\ f.nm = nm /\ f.mode = "write" /\ f.dircluster = c /\ f.diroff = s
      /\ f.firstcluster = 0 /\ f.cluster = 0 /\ f.off = 0 /\ f.pos = 0 /\ f.size = 0
      /\ f.dirty = FALSE /\ f \in HandleType
  <2>1. 0 \in 0 .. CLUSTER_SIZE /\ 0 \in 0 .. MaxSize
    BY Sizes
  <2> QED BY <1>5, <1>8, <2>1 DEF NoHandle, HandleType
<1>10. fh' = [fh EXCEPT ![h] = f]
  BY <1>1, <1>4, <1>8
<1>11. fh'[h] = f /\ (\A j \in Handles \ {h} : fh'[j] = fh[j]) /\ fh' \in [Handles -> HandleType]
  BY <1>2, <1>9, <1>10
<1>12. SlotChanged(c, s, entry)
  <2>1. PICK new : new = [View(c) EXCEPT !.slot[s] = entry]
    OBVIOUS
  <2>2. new \in Parts
    BY <1>5, <1>7, <2>1 DEF Parts, EntryType
  <2>3. Change(c, FSBPRI_SYS, FSBDIRTY_SYS, new)
    BY <1>4, <1>5, <1>6, <2>1 DEF CreateEntry
  <2>4. Changed(c, FSBDIRTY_SYS, new)
    BY <1>1, <1>2, <1>5, <2>2, <2>3, ChangedIs
  <2>5. new.link = View(c).link /\ new.slot = [View(c).slot EXCEPT ![s] = entry]
    BY <1>5, <2>1 DEF Parts
  <2> QED BY <2>2, <2>4, <2>5 DEF SlotChanged
<1>13. PICK k : k = [g EXCEPT !.moving = Nil]
  OBVIOUS
<1>14. /\ k \in Maps /\ SameClusters(g, k) /\ k.moving = Nil /\ k.ext = g.ext /\ k.len = g.len
       /\ k.loose = {} /\ k.own = g.own /\ k.idx = g.idx
       /\ \A n \in Names : k.ext[n] <= g.ext[n]
  BY <1>2, <1>13 DEF Maps, SameClusters
<1>15. /\ fatAllocNext' = fatAllocNext /\ fdNextCluster' \in g.dirs /\ lastdircluster' \in g.dirs
       /\ bypassed' = bypassed /\ closed' = closed /\ right' = TRUE
  BY <1>1, <1>2, DirsIn DEF history, private
<1>16. \A d \in Clusters, t \in Slots :
         Slot(d, t)' = IF d = c /\ t = s THEN entry ELSE Slot(d, t)
  BY <1>7, <1>12, <1>14, <1>15, SlotParts
<1>17. \A d \in Clusters, t \in Slots : Slot(d, t).nm = nm => d = c /\ t = s
  <2> SUFFICES ASSUME NEW d \in Clusters, NEW t \in Slots, Slot(d, t).nm = nm
               PROVE  d = c /\ t = s
    OBVIOUS
  <2>1. ~NoEntryOf(nm)
    BY DEF NoEntryOf
  <2>2. Slot(c, s).nm = nm
    BY <1>3, <1>4, <2>1
  <2> QED BY <1>2, <1>5, <2>2 DEF EntriesOK
<1>18. EntriesOK(k)'
  <2>1. \A d, e \in Clusters, t, u \in Slots :
          Slot(d, t)'.nm # Nil /\ Slot(d, t)'.nm = Slot(e, u)'.nm => d = e /\ t = u
    <3> SUFFICES ASSUME NEW d \in Clusters, NEW e \in Clusters, NEW t \in Slots, NEW u \in Slots,
                        Slot(d, t)'.nm # Nil, Slot(d, t)'.nm = Slot(e, u)'.nm
                 PROVE  d = e /\ t = u
      OBVIOUS
    <3>1. CASE Slot(d, t)'.nm = nm
      BY <1>16, <1>17, <3>1
    <3>2. CASE Slot(d, t)'.nm # nm
      <4>1. Slot(d, t)' = Slot(d, t) /\ Slot(e, u)' = Slot(e, u)
        BY <1>7, <1>16, <3>2
      <4> QED BY <1>2, <4>1 DEF EntriesOK
    <3> QED BY <3>1, <3>2
  <2>2. \A d \in Clusters, t \in Slots : Slot(d, t)'.nm = Nil => Slot(d, t)' = NoEntry
    BY <1>2, <1>5, <1>7, <1>16 DEF EntriesOK
  <2>3. \A d \in Clusters, t \in Slots :
          Slot(d, t)'.nm # Nil /\ Slot(d, t)'.nm # k.moving =>
            /\ Headed(k, Slot(d, t)'.nm, Slot(d, t)'.cluster)
            /\ Slot(d, t)'.size <= k.ext[Slot(d, t)'.nm]
    <3> SUFFICES ASSUME NEW d \in Clusters, NEW t \in Slots, Slot(d, t)'.nm # Nil
                 PROVE  /\ Headed(k, Slot(d, t)'.nm, Slot(d, t)'.cluster)
                        /\ Slot(d, t)'.size <= k.ext[Slot(d, t)'.nm]
      OBVIOUS
    <3>1. CASE d = c /\ t = s
      <4>1. Slot(d, t)' = entry
        BY <1>16, <3>1
      <4>2. k.ext[nm] \in Nat
        BY <1>14 DEF Maps
      <4>3. Headed(k, nm, 0) /\ 0 <= k.ext[nm]
        BY <1>3, <1>4, <1>14, <4>2 DEF Headed
      <4> QED BY <1>7, <4>1, <4>3
    <3>2. CASE ~(d = c /\ t = s)
      <4>1. Slot(d, t)' = Slot(d, t) /\ Slot(d, t).nm # nm /\ Slot(d, t).nm # Nil
        BY <1>16, <1>17, <3>2
      <4>2. /\ Headed(g, Slot(d, t).nm, Slot(d, t).cluster)
            /\ Slot(d, t).size <= g.ext[Slot(d, t).nm]
        BY <1>2, <1>4, <4>1 DEF EntriesOK
      <4> QED BY <1>14, <4>1, <4>2 DEF Headed
    <3> QED BY <3>1, <3>2
  <2>4. \A n \in Names : n # k.moving /\ NoEntryOf(n)' => k.len[n] = 0
    <3> SUFFICES ASSUME NEW n \in Names, NoEntryOf(n)' PROVE g.len[n] = 0
      BY <1>14
    <3>1. n # nm
      BY <1>5, <1>7, <1>16 DEF NoEntryOf
    <3>2. NoEntryOf(n)
      <4> SUFFICES ASSUME NEW d \in Clusters, NEW t \in Slots, Slot(d, t).nm = n PROVE FALSE
        BY DEF NoEntryOf
      <4>1. ~(d = c /\ t = s)
        BY <1>3, <1>4, <3>1, Nils
      <4>2. Slot(d, t)' = Slot(d, t)
        BY <1>16, <4>1
      <4> QED BY <4>2 DEF NoEntryOf
    <3> QED BY <1>2, <1>4, <3>1, <3>2 DEF EntriesOK
  <2>5. \A n \in Names : k.ext[n] <= k.len[n] * CLUSTER_SIZE /\ k.ext[n] <= MaxSize
    BY <1>2, <1>14 DEF EntriesOK
  <2> QED BY <2>1, <2>2, <2>3, <2>4, <2>5 DEF EntriesOK
<1>19. HandleOK(k, h)'
  <2>1. Slot(c, s)' = entry
    BY <1>5, <1>16
  <2>2. k.ext[nm] \in Nat /\ closed' = closed /\ closed[nm] = NoFile
    BY <1>3, <1>4, <1>14, <1>15 DEF Maps
  <2>3. \A j \in Handles : fh'[j].nm = nm => h = j
    BY <1>3, <1>4, <1>11 DEF Open
  <2> QED BY <1>5, <1>7, <1>9, <1>11, <2>1, <2>2, <2>3 DEF HandleOK
<1>20. HandlesOK(k)'
  <2>1. ASSUME NEW j \in Handles \ {h}, fh[j] # NoHandle
        PROVE  /\ fh'[h].nm # fh[j].nm
               /\ Slot(fh[j].dircluster, fh[j].diroff)' = Slot(fh[j].dircluster, fh[j].diroff)
               /\ closed'[fh[j].nm] \in {closed[fh[j].nm], NoFile}
               /\ g.moving = fh[j].nm => k.moving = fh[j].nm
               /\ fh[j].cluster # 0 => /\ k.own[fh[j].cluster] = g.own[fh[j].cluster]
                                       /\ k.idx[fh[j].cluster] = g.idx[fh[j].cluster]
               /\ k.ext[fh[j].nm] \in Nat /\ g.ext[fh[j].nm] <= k.ext[fh[j].nm]
    <3>1. HandleOK(g, j) /\ g.ext[fh[j].nm] \in Nat
      BY <2>1, HandleTypes
    <3>2. /\ fh[j].dircluster \in Clusters /\ fh[j].diroff \in Slots
          /\ Slot(fh[j].dircluster, fh[j].diroff).nm = fh[j].nm /\ fh[j].nm \in Names
      BY <3>1 DEF HandleOK
    <3>3. fh[j].nm # nm
      BY <1>3, <1>4 DEF Open
    <3>4. ~(fh[j].dircluster = c /\ fh[j].diroff = s)
      BY <1>3, <1>4, <3>2, <3>3, Nils
    <3>5. Slot(fh[j].dircluster, fh[j].diroff)' = Slot(fh[j].dircluster, fh[j].diroff)
      BY <1>11, <1>16, <3>2, <3>4
    <3>6. k.ext = g.ext /\ k.own = g.own /\ k.idx = g.idx /\ g.moving = nm
      BY <1>2, <1>4, <1>14
    <3> QED BY <1>9, <1>11, <1>15, <3>1, <3>3, <3>5, <3>6
  <2>2. \A j \in Handles \ {h} : fh'[j] = fh[j]
    BY <1>11
  <2> QED BY <1>1, <1>4, <1>19, <2>1, <2>2, HandlesBut
<1>21. CallOK(k)' /\ call' \in CallType
  BY <1>1, <1>14, CallOut
<1>22. Writers' # {}
  <2>1. h \in {j \in Handles : fh'[j].mode = "write"}
    BY <1>9, <1>11
  <2> QED BY <2>1 DEF Writers
<1>23. \A n \in Names : closed[n] # NoFile => /\ n # Slot(c, s).nm \/ entry = Slot(c, s)
                                              /\ n # k.moving
  BY <1>3, <1>4, <1>14, Nils
<1> QED BY <1>7, <1>12, <1>14, <1>15, <1>11, <1>18, <1>20, <1>21, <1>22, <1>23, SlotHolds

\* FSWrite sets the first cluster in the entry.
LEMMA FirstEntryHolds ==
  ASSUME NEW g, Holds(g), WriteFirstEntry
  PROVE  \E k \in Maps : Holds(k)'
<1>1. /\ call.at = "setfirst" /\ call' = [call EXCEPT !.at = "put"]
      /\ UNCHANGED <<fatbuf, private, history>>
      /\ fh' = [fh EXCEPT ![call.h].cluster = fh[call.h].firstcluster, ![call.h].off = 0]
  BY DEF WriteFirstEntry
<1>2. call.op = "write"
  BY <1>1, PartsOf DEF CallOK, PhaseOK
<1>3. /\ TypeInv /\ BuffersOK /\ BuffersType /\ DiskOK(g) /\ CallOK(g) /\ WriteOK(g)
      /\ g.loose = {} /\ g \in Maps /\ right = TRUE /\ EntriesOK(g) /\ ChainsOK(g) /\ DirsOK(g)
      /\ g.moving = fh[call.h].nm /\ fh \in [Handles -> HandleType] /\ call \in CallType
      /\ call.h \in Handles /\ fh[call.h] # NoHandle
  BY <1>1, <1>2, PartsOf, TypesOf DEF CallOK, TypeInv, DiskOK
<1>4. PICK h \in Handles, f \in HandleType : h = call.h /\ f = fh[h]
  BY <1>3, HandleTypes
<1>5. /\ HandleOK(g, h) /\ f.nm \in Names /\ f.dircluster \in Clusters /\ f.diroff \in Slots
      /\ Slot(f.dircluster, f.diroff).nm = f.nm /\ f.size <= g.ext[f.nm] /\ f.pos <= g.ext[f.nm]
      /\ (IF f.dirty THEN f.mode = "write" ELSE Slot(f.dircluster, f.diroff).size = f.size)
      /\ f.mode = "write" => closed[f.nm] = NoFile
      /\ \A j \in Handles : fh[j].nm = f.nm => h = j
      /\ f.cluster = 0 => f.pos = f.size
  BY <1>3, <1>4, HandleTypes DEF HandleOK
<1>6. /\ f.mode = "write" /\ call.n > 0 /\ f.pos + call.n <= MaxSize /\ f.cluster = 0 /\ f.size = 0
      /\ f.firstcluster \in Clusters /\ g.own[f.firstcluster] = f.nm
      /\ g.idx[f.firstcluster] = 0 /\ Slot(f.dircluster, f.diroff).size <= g.ext[f.nm]
  BY <1>1, <1>2, <1>3, <1>4 DEF WriteOK
<1>7. PICK c \in Clusters, s \in Slots, a \in Clusters, nm \in Names :
        c = f.dircluster /\ s = f.diroff /\ a = f.firstcluster /\ nm = f.nm
  BY <1>5, <1>6
<1>8. c \in g.dirs /\ nm # Nil
  BY <1>3, <1>5, <1>7, Nils DEF DirsOK
<1>9. View(c) \in Parts /\ Contents(c) = View(c)
  BY <1>3, <1>8, LinkIn, ContentsIsView
<1>10. PICK old \in EntryType : old = Slot(c, s)
  BY <1>9 DEF EntryType, Parts, Slot
<1>11. PICK entry \in EntryType : entry = [old EXCEPT !.cluster = a]
  BY DEF EntryType
<1>12. entry.nm = nm /\ entry.size = old.size /\ entry.cluster = a /\ old.nm = nm
  BY <1>5, <1>7, <1>10, <1>11 DEF EntryType
<1>13. SlotChanged(c, s, entry)
  <2>1. PICK new : new = [View(c) EXCEPT !.slot[s] = entry]
    OBVIOUS
  <2>2. new \in Parts
    BY <1>9, <2>1 DEF Parts, EntryType
  <2>3. new = [View(c) EXCEPT !.slot[s].cluster = a]
    BY <1>9, <1>10, <1>11, <2>1 DEF Parts, Slot
  <2>4. Change(c, FSBPRI_SYS, FSBDIRTY_SYS, new)
    BY <1>4, <1>7, <1>9, <2>3 DEF WriteFirstEntry
  <2>5. Changed(c, FSBDIRTY_SYS, new)
    BY <1>1, <1>3, <2>2, <2>4, ChangedIs
  <2>6. new.link = View(c).link /\ new.slot = [View(c).slot EXCEPT ![s] = entry]
    BY <1>9, <2>1 DEF Parts
  <2> QED BY <2>2, <2>5, <2>6 DEF SlotChanged
<1>14. PICK k : k = [g EXCEPT !.moving = Nil]
  OBVIOUS
<1>15. /\ k \in Maps /\ SameClusters(g, k) /\ k.moving = Nil /\ k.ext = g.ext /\ k.len = g.len
       /\ k.loose = {} /\ k.own = g.own /\ k.idx = g.idx
       /\ \A n \in Names : k.ext[n] <= g.ext[n]
  BY <1>3, <1>14 DEF Maps, SameClusters
<1>16. /\ fatAllocNext' = fatAllocNext /\ fdNextCluster' \in g.dirs /\ lastdircluster' \in g.dirs
       /\ bypassed' = bypassed /\ closed' = closed /\ right' = TRUE
  BY <1>1, <1>3, DirsIn DEF history, private
<1>17. \A d \in Clusters, t \in Slots :
         Slot(d, t)' = IF d = c /\ t = s THEN entry ELSE Slot(d, t)
  BY <1>8, <1>13, <1>15, <1>16, SlotParts
<1>18. PICK e : e = [f EXCEPT !.cluster = a, !.off = 0]
  OBVIOUS
<1>19. /\ e.nm = nm /\ e.mode = "write" /\ e.dircluster = c /\ e.diroff = s
       /\ e.firstcluster = a /\ e.cluster = a /\ e.off = 0 /\ e.pos = 0 /\ e.size = 0
       /\ e.dirty = f.dirty /\ e \in HandleType
  <2>1. 0 \in 0 .. CLUSTER_SIZE /\ f.pos = 0
    BY <1>5, <1>6, Sizes
  <2> QED BY <1>5, <1>6, <1>7, <1>18, <2>1 DEF HandleType
<1>20. fh' = [fh EXCEPT ![h] = e]
  BY <1>1, <1>3, <1>4, <1>7, <1>18 DEF HandleType
<1>21. fh'[h] = e /\ (\A j \in Handles \ {h} : fh'[j] = fh[j]) /\ fh' \in [Handles -> HandleType]
  BY <1>3, <1>19, <1>20
<1>22. \A d \in Clusters, t \in Slots : Slot(d, t).nm = nm => d = c /\ t = s
  BY <1>3, <1>8, <1>10, <1>12 DEF EntriesOK
<1>23. EntriesOK(k)'
  <2>1. \A d \in Clusters, t \in Slots : /\ Slot(d, t)'.nm = Slot(d, t).nm
                                         /\ Slot(d, t)'.size = Slot(d, t).size
    BY <1>10, <1>12, <1>17
  <2>2. \A d, b \in Clusters, t, u \in Slots :
          Slot(d, t)'.nm # Nil /\ Slot(d, t)'.nm = Slot(b, u)'.nm => d = b /\ t = u
    BY <1>3, <2>1 DEF EntriesOK
  <2>3. \A d \in Clusters, t \in Slots : Slot(d, t)'.nm = Nil => Slot(d, t)' = NoEntry
    BY <1>3, <1>8, <1>12, <1>17 DEF EntriesOK
  <2>4. \A d \in Clusters, t \in Slots :
          Slot(d, t)'.nm # Nil /\ Slot(d, t)'.nm # k.moving =>
            /\ Headed(k, Slot(d, t)'.nm, Slot(d, t)'.cluster)
            /\ Slot(d, t)'.size <= k.ext[Slot(d, t)'.nm]
    <3> SUFFICES ASSUME NEW d \in Clusters, NEW t \in Slots, Slot(d, t)'.nm # Nil
                 PROVE  /\ Headed(k, Slot(d, t)'.nm, Slot(d, t)'.cluster)
                        /\ Slot(d, t)'.size <= k.ext[Slot(d, t)'.nm]
      OBVIOUS
    <3>1. CASE d = c /\ t = s
      <4>1. Slot(d, t)' = entry
        BY <1>17, <3>1
      <4>2. Headed(k, nm, a) /\ old.size <= k.ext[nm]
        BY <1>6, <1>7, <1>10, <1>15 DEF Headed
      <4> QED BY <1>12, <4>1, <4>2
    <3>2. CASE ~(d = c /\ t = s)
      <4>1. Slot(d, t)' = Slot(d, t) /\ Slot(d, t).nm # nm /\ Slot(d, t).nm # Nil
        BY <1>17, <1>22, <3>2
      <4>2. /\ Headed(g, Slot(d, t).nm, Slot(d, t).cluster)
            /\ Slot(d, t).size <= g.ext[Slot(d, t).nm]
        BY <1>3, <1>4, <1>7, <4>1 DEF EntriesOK
      <4> QED BY <1>15, <4>1, <4>2 DEF Headed
    <3> QED BY <3>1, <3>2
  <2>5. \A n \in Names : n # k.moving /\ NoEntryOf(n)' => k.len[n] = 0
    <3> SUFFICES ASSUME NEW n \in Names, NoEntryOf(n)' PROVE g.len[n] = 0
      BY <1>15
    <3>1. NoEntryOf(n)
      BY <2>1 DEF NoEntryOf
    <3>2. n # nm
      BY <1>10, <1>12, <3>1 DEF NoEntryOf
    <3> QED BY <1>3, <1>4, <1>7, <3>1, <3>2 DEF EntriesOK
  <2>6. \A n \in Names : k.ext[n] <= k.len[n] * CLUSTER_SIZE /\ k.ext[n] <= MaxSize
    BY <1>3, <1>15 DEF EntriesOK
  <2> QED BY <2>2, <2>3, <2>4, <2>5, <2>6 DEF EntriesOK
<1>24. /\ call'.at = "put" /\ call'.op = "write" /\ call'.h = h /\ call'.n = call.n
       /\ call' \in CallType
  BY <1>1, <1>2, <1>3, <1>4, NextAt
<1>25. HandleOK(k, h)'
  <2>1. Slot(c, s)' = entry
    BY <1>17
  <2>2. k.ext[nm] \in Nat /\ closed' = closed /\ closed[nm] = NoFile /\ k.own[a] = nm
        /\ k.idx[a] = 0
    BY <1>5, <1>6, <1>7, <1>15, <1>16 DEF Maps
  <2>3. \A j \in Handles : fh'[j].nm = nm => h = j
    BY <1>4, <1>5, <1>7, <1>21
  <2>4. SeekLeft(h)' = 0 /\ (0 + 0) * CLUSTER_SIZE + 0 = 0
    BY <1>24, Sizes DEF SeekLeft
  <2>5. ~f.dirty => entry.size = 0
    BY <1>5, <1>6, <1>7, <1>10, <1>12
  <2>6. a # 0
    BY Numbered
  <2> HIDE DEF SeekLeft
  <2> QED BY <1>8, <1>12, <1>19, <1>21, <2>1, <2>2, <2>3, <2>4, <2>5, <2>6 DEF HandleOK
<1>26. HandlesOK(k)'
  <2>1. ASSUME NEW j \in Handles \ {h}, fh[j] # NoHandle
        PROVE  /\ fh'[h].nm # fh[j].nm
               /\ Slot(fh[j].dircluster, fh[j].diroff)' = Slot(fh[j].dircluster, fh[j].diroff)
               /\ closed'[fh[j].nm] \in {closed[fh[j].nm], NoFile}
               /\ g.moving = fh[j].nm => k.moving = fh[j].nm
               /\ fh[j].cluster # 0 => /\ k.own[fh[j].cluster] = g.own[fh[j].cluster]
                                       /\ k.idx[fh[j].cluster] = g.idx[fh[j].cluster]
               /\ k.ext[fh[j].nm] \in Nat /\ g.ext[fh[j].nm] <= k.ext[fh[j].nm]
    <3>1. HandleOK(g, j) /\ g.ext[fh[j].nm] \in Nat
      BY <2>1, HandleTypes
    <3>2. /\ fh[j].dircluster \in Clusters /\ fh[j].diroff \in Slots
          /\ Slot(fh[j].dircluster, fh[j].diroff).nm = fh[j].nm /\ fh[j].nm \in Names
      BY <3>1 DEF HandleOK
    <3>3. fh[j].nm # nm
      BY <1>3, <1>4, <1>7, <2>1, OtherNames
    <3>4. Slot(fh[j].dircluster, fh[j].diroff)' = Slot(fh[j].dircluster, fh[j].diroff)
      BY <1>10, <1>12, <1>17, <1>21, <3>2, <3>3
    <3>5. k.ext = g.ext /\ k.own = g.own /\ k.idx = g.idx /\ g.moving = nm
      BY <1>3, <1>4, <1>7, <1>15
    <3> QED BY <1>16, <1>19, <1>21, <3>1, <3>3, <3>4, <3>5
  <2>2. \A j \in Handles \ {h} : fh'[j] = fh[j]
    BY <1>21
  <2> QED BY <1>4, <1>24, <1>25, <2>1, <2>2, HandlesBut
<1>27. CallOK(k)'
  <2>1. a # 0 /\ e.pos + call.n <= MaxSize
    BY <1>5, <1>6, <1>19, Numbered
  <2>2. WriteOK(k)'
    BY <1>6, <1>19, <1>21, <1>24, <2>1 DEF WriteOK
  <2>3. PhaseOK' /\ DirCallOK(k)' /\ ReadOK(k)'
    BY <1>24 DEF PhaseOK, DirCallOK, ReadOK
  <2>4. fh'[h] # NoHandle
    <3>1. NoHandle.mode = "free"
      BY DEF NoHandle
    <3> QED BY <1>19, <1>21, <3>1
  <2> QED BY <1>4, <1>15, <1>24, <2>2, <2>3, <2>4 DEF CallOK
<1>28. Writers' # {}
  <2>1. h \in {j \in Handles : fh'[j].mode = "write"}
    BY <1>19, <1>21
  <2> QED BY <2>1 DEF Writers
<1>29. \A n \in Names : closed[n] # NoFile => /\ n # Slot(c, s).nm \/ entry = Slot(c, s)
                                              /\ n # k.moving
  BY <1>5, <1>6, <1>7, <1>10, <1>12, <1>15, Nils
<1> QED BY <1>8, <1>13, <1>15, <1>16, <1>21, <1>23, <1>24, <1>26, <1>27, <1>28, <1>29, SlotHolds

-----------------------------------------------------------------------------
(***************************************************************************)
(* The steps that make a file longer.                                      *)
(***************************************************************************)

\* The map in which nm goes on with the num clusters from x on.
Joined(g, nm, x, num, m, k) ==
  /\ k.own = [d \in Clusters |-> IF d \in x .. x + num - 1 THEN nm ELSE g.own[d]]
  /\ k.idx = [d \in Clusters |-> IF d \in x .. x + num - 1 THEN g.len[nm] + (d - x) ELSE g.idx[d]]
  /\ k.len = [g.len EXCEPT ![nm] = @ + num]
  /\ k.ext = g.ext /\ k.dirs = g.dirs /\ k.pos = g.pos /\ k.dlen = g.dlen
  /\ k.loose = {} /\ k.moving = m

\* There is such a map.
LEMMA Longer ==
  ASSUME NEW g, g \in Maps, NEW nm \in Names, NEW x \in Nat, NEW num \in Nat,
         NEW m \in {Nil, nm}
  PROVE  \E k \in Maps : Joined(g, nm, x, num, m, k)
<1> DEFINE own == [d \in Clusters |-> IF d \in x .. x + num - 1 THEN nm ELSE g.own[d]]
           idx == [d \in Clusters |-> IF d \in x .. x + num - 1 THEN g.len[nm] + (d - x)
                                      ELSE g.idx[d]]
           len == [g.len EXCEPT ![nm] = @ + num]
           k == [own |-> own, idx |-> idx, len |-> len, ext |-> g.ext,
                 dirs |-> g.dirs, pos |-> g.pos, dlen |-> g.dlen, loose |-> {}, moving |-> m]
<1>1. g.len[nm] \in Nat /\ \A d \in Clusters : d \in Nat
  BY Numbered DEF Maps
<1>2. idx \in [Clusters -> Nat]
  <2>1. \A d \in Clusters : g.idx[d] \in Nat
    BY DEF Maps
  <2>2. \A d \in Clusters : d \in x .. x + num - 1 => g.len[nm] + (d - x) \in Nat
    BY <1>1
  <2> QED BY <2>1, <2>2
<1>3. len \in [Names -> Nat]
  <2>1. g.len \in [Names -> Nat] /\ g.len[nm] + num \in Nat
    BY <1>1 DEF Maps
  <2> QED BY <2>1
<1>4. own \in [Clusters -> Names \cup {Nil}]
  BY DEF Maps
<1>5. Joined(g, nm, x, num, m, k)
  BY DEF Joined
<1> HIDE DEF idx, len, own
<1>6. k \in Maps
  BY <1>2, <1>3, <1>4 DEF Maps
<1> QED BY <1>5, <1>6

\* It says where the clusters are.
LEMMA JoinedAt ==
  ASSUME NEW g, g \in Maps, NEW nm \in Names, NEW x \in Nat, NEW num \in Nat,
         NEW m \in {Nil, nm}, NEW k, Joined(g, nm, x, num, m, k)
  PROVE  /\ \A n \in Names : n # nm => k.len[n] = g.len[n]
         /\ k.len[nm] = g.len[nm] + num
         /\ \A d \in Clusters :
              /\ d \in x .. x + num - 1 => k.own[d] = nm /\ k.idx[d] = g.len[nm] + (d - x)
              /\ d \notin x .. x + num - 1 => k.own[d] = g.own[d] /\ k.idx[d] = g.idx[d]
BY DEF Joined, Maps

\* The new clusters follow the last one of nm in the table.
NewLinks(g, nm, x, num) ==
  /\ \A d \in x .. x + num - 1 :
       /\ d \in Clusters /\ g.own[d] = Nil /\ d \notin g.dirs
       /\ Table'[d] = IF d = x + num - 1 THEN CLUSTER_CHAIN_END ELSE d + 1
  /\ \A d \in Clusters : d \notin x .. x + num - 1 =>
       Table'[d] = IF g.own[d] = nm /\ g.idx[d] + 1 = g.len[nm] THEN x ELSE Table[d]
  /\ g.loose \subseteq x .. x + num - 1

\* The chains are as the longer map says.
LEMMA JoinChains ==
  ASSUME NEW g, g \in Maps, ChainsOK(g), NEW nm \in Names, NEW x \in Nat, NEW num \in Nat, num > 0,
         NEW m \in {Nil, nm}, NEW k \in Maps, Joined(g, nm, x, num, m, k), NewLinks(g, nm, x, num)
  PROVE  ChainsOK(k)'
<1> DEFINE S == x .. x + num - 1
<1>1. /\ \A n \in Names : n # nm => k.len[n] = g.len[n]
      /\ k.len[nm] = g.len[nm] + num
      /\ \A d \in Clusters :
           /\ d \in S => k.own[d] = nm /\ k.idx[d] = g.len[nm] + (d - x)
           /\ d \notin S => k.own[d] = g.own[d] /\ k.idx[d] = g.idx[d]
  BY JoinedAt
<1>2. k.dirs = g.dirs /\ k.loose = {}
  BY DEF Joined
<1>3. /\ \A d \in S : /\ d \in Clusters /\ g.own[d] = Nil /\ d \notin g.dirs
                      /\ Table'[d] = IF d = x + num - 1 THEN 0 ELSE d + 1
      /\ \A d \in Clusters : d \notin S =>
           Table'[d] = IF g.own[d] = nm /\ g.idx[d] + 1 = g.len[nm] THEN x ELSE Table[d]
      /\ g.loose \subseteq S
  BY DEF NewLinks
<1>4. /\ \A d \in Clusters : g.idx[d] \in Nat /\ g.own[d] \in Names \cup {Nil}
      /\ \A n \in Names : g.len[n] \in Nat
      /\ \A d \in g.dirs : d \in Clusters
      /\ nm # Nil
  BY Nils DEF Maps
<1>5. \A d \in S : d \in Nat /\ d - x \in 0 .. num - 1
  OBVIOUS
<1> HIDE DEF S
<1>6. \A d \in Clusters : g.own[d] # Nil =>
        /\ d \notin g.dirs /\ d \notin g.loose /\ d \notin S
        /\ g.idx[d] < g.len[g.own[d]]
        /\ IF g.idx[d] + 1 = g.len[g.own[d]] THEN Table[d] = 0
           ELSE /\ Table[d] \in Clusters /\ g.own[Table[d]] = g.own[d] /\ Table[d] \notin S
                /\ g.idx[Table[d]] = g.idx[d] + 1
  BY <1>3 DEF ChainsOK
<1>7. \A d \in Clusters : k.own[d] # Nil =>
        /\ d \notin k.dirs /\ d \notin k.loose
        /\ k.idx[d] < k.len[k.own[d]]
        /\ IF k.idx[d] + 1 = k.len[k.own[d]] THEN Table'[d] = 0
           ELSE /\ Table'[d] \in Clusters /\ k.own[Table'[d]] = k.own[d]
                /\ k.idx[Table'[d]] = k.idx[d] + 1
  <2> SUFFICES ASSUME NEW d \in Clusters, k.own[d] # Nil
               PROVE  /\ d \notin k.dirs
                      /\ k.idx[d] < k.len[k.own[d]]
                      /\ IF k.idx[d] + 1 = k.len[k.own[d]] THEN Table'[d] = 0
                         ELSE /\ Table'[d] \in Clusters /\ k.own[Table'[d]] = k.own[d]
                              /\ k.idx[Table'[d]] = k.idx[d] + 1
    BY <1>2
  <2>1. CASE d \in S
    <3>1. k.own[d] = nm /\ k.idx[d] = g.len[nm] + (d - x) /\ k.len[nm] = g.len[nm] + num
      BY <1>1, <2>1
    <3>2. d \notin k.dirs /\ k.idx[d] < k.len[nm]
      BY <1>2, <1>3, <1>4, <1>5, <2>1, <3>1
    <3>3. k.idx[d] + 1 = k.len[nm] <=> d = x + num - 1
      BY <1>4, <1>5, <2>1, <3>1
    <3>4. CASE d = x + num - 1
      BY <1>3, <2>1, <3>1, <3>2, <3>3, <3>4
    <3>5. CASE d # x + num - 1
      <4>1. PICK e \in S : e = d + 1
        <5>1. d + 1 \in x .. x + num - 1
          BY <2>1, <3>5 DEF S
        <5> QED BY <5>1 DEF S
      <4>2. Table'[d] = e /\ e \in Clusters /\ k.own[e] = nm /\ k.idx[e] = g.len[nm] + (e - x)
        BY <1>1, <1>3, <2>1, <3>5, <4>1
      <4>3. k.idx[e] = k.idx[d] + 1
        BY <1>4, <1>5, <2>1, <3>1, <4>1, <4>2
      <4> QED BY <3>1, <3>2, <3>3, <3>5, <4>2, <4>3
    <3> QED BY <3>4, <3>5
  <2>2. CASE d \notin S /\ g.own[d] = nm
    <3>1. k.own[d] = nm /\ k.idx[d] = g.idx[d] /\ k.len[nm] = g.len[nm] + num
      BY <1>1, <2>2
    <3>2. d \notin k.dirs /\ g.idx[d] < g.len[nm] /\ g.idx[d] \in Nat /\ g.len[nm] \in Nat
      BY <1>2, <1>4, <1>6, <2>2
    <3>3. k.idx[d] < k.len[nm] /\ k.idx[d] + 1 # k.len[nm]
      BY <3>1, <3>2
    <3>4. CASE g.idx[d] + 1 = g.len[nm]
      <4>1. x \in S /\ x \in Clusters
        BY <1>3 DEF S
      <4>2. Table'[d] = x /\ k.own[x] = nm /\ k.idx[x] = g.len[nm] + (x - x)
        BY <1>1, <1>3, <2>2, <3>4, <4>1
      <4>3. k.idx[x] = k.idx[d] + 1
        BY <3>1, <3>2, <3>4, <4>2
      <4> QED BY <3>1, <3>2, <3>3, <4>1, <4>2, <4>3
    <3>5. CASE g.idx[d] + 1 # g.len[nm]
      <4>1. Table'[d] = Table[d]
        BY <1>3, <2>2, <3>5
      <4>2. /\ Table[d] \in Clusters /\ g.own[Table[d]] = nm /\ Table[d] \notin S
            /\ g.idx[Table[d]] = g.idx[d] + 1
        BY <1>4, <1>6, <2>2, <3>5
      <4>3. k.own[Table[d]] = nm /\ k.idx[Table[d]] = g.idx[Table[d]]
        BY <1>1, <4>2
      <4> QED BY <3>1, <3>2, <3>3, <4>1, <4>2, <4>3
    <3> QED BY <3>4, <3>5
  <2>3. CASE d \notin S /\ g.own[d] # nm
    <3>1. k.own[d] = g.own[d] /\ k.idx[d] = g.idx[d] /\ Table'[d] = Table[d]
      BY <1>1, <1>3, <2>3
    <3>2. k.len[k.own[d]] = g.len[g.own[d]]
      BY <1>1, <1>4, <2>3, <3>1
    <3>3. Table[d] \in Clusters /\ Table[d] \notin S =>
            k.own[Table[d]] = g.own[Table[d]] /\ k.idx[Table[d]] = g.idx[Table[d]]
      BY <1>1
    <3> QED BY <1>2, <1>6, <3>1, <3>2, <3>3
  <2> QED BY <2>1, <2>2, <2>3
<1>8. \A d, e \in Clusters : k.own[d] # Nil /\ k.own[d] = k.own[e] /\ k.idx[d] = k.idx[e] => d = e
  <2> SUFFICES ASSUME NEW d \in Clusters, NEW e \in Clusters, k.own[d] # Nil,
                      k.own[d] = k.own[e], k.idx[d] = k.idx[e]
               PROVE  d = e
    OBVIOUS
  <2>1. ASSUME NEW a \in Clusters, NEW b \in Clusters, a \in S, b \notin S, k.own[b] = nm
        PROVE  k.idx[a] # k.idx[b]
    <3>1. k.idx[a] = g.len[nm] + (a - x) /\ k.idx[b] = g.idx[b] /\ g.own[b] = nm
      BY <1>1, <2>1
    <3>2. g.idx[b] < g.len[nm] /\ g.idx[b] \in Nat /\ g.len[nm] \in Nat
      BY <1>4, <1>6, <3>1
    <3> QED BY <1>5, <2>1, <3>1, <3>2
  <2>2. CASE d \in S /\ e \in S
    <3>1. g.len[nm] + (d - x) = g.len[nm] + (e - x) /\ g.len[nm] \in Nat
      BY <1>1, <1>4, <2>2
    <3> QED BY <1>5, <2>2, <3>1
  <2>3. CASE d \in S /\ e \notin S
    BY <1>1, <2>1, <2>3
  <2>4. CASE d \notin S /\ e \in S
    BY <1>1, <2>1, <2>4
  <2>5. CASE d \notin S /\ e \notin S
    BY <1>1, <2>5 DEF ChainsOK
  <2> QED BY <2>2, <2>3, <2>4, <2>5
<1>9. \A n \in Names : \A j \in 0 .. k.len[n] - 1 : \E d \in Clusters : k.own[d] = n /\ k.idx[d] = j
  <2> SUFFICES ASSUME NEW n \in Names, NEW j \in 0 .. k.len[n] - 1
               PROVE  \E d \in Clusters : k.own[d] = n /\ k.idx[d] = j
    OBVIOUS
  <2>1. CASE j \in 0 .. g.len[n] - 1
    <3>1. PICK d \in Clusters : g.own[d] = n /\ g.idx[d] = j
      BY <2>1 DEF ChainsOK
    <3>2. d \notin S
      BY <1>3, <3>1, Nils
    <3> QED BY <1>1, <3>1, <3>2
  <2>2. CASE j \notin 0 .. g.len[n] - 1
    <3>1. n = nm /\ g.len[nm] \in Nat /\ j \in Nat /\ j >= g.len[nm] /\ j < g.len[nm] + num
      BY <1>1, <1>4, <2>2
    <3>2. PICK d \in S : d = x + (j - g.len[nm])
      <4>1. x + (j - g.len[nm]) \in x .. x + num - 1
        BY <3>1
      <4> QED BY <4>1 DEF S
    <3>3. d \in Clusters /\ k.own[d] = nm /\ k.idx[d] = g.len[nm] + (d - x)
      BY <1>1, <1>3
    <3>4. k.idx[d] = j
      BY <3>1, <3>2, <3>3
    <3> QED BY <3>1, <3>3, <3>4
  <2> QED BY <2>1, <2>2
<1>10. \A d \in k.dirs : Table'[d] = 0 /\ d \notin k.loose
  <2>1. \A d \in g.dirs : d \notin S /\ g.own[d] # nm /\ Table[d] = 0
    BY <1>3, <1>4, <1>6 DEF ChainsOK
  <2> QED BY <1>2, <1>3, <1>4, <2>1
<1>11. \A d \in Clusters : k.own[d] = Nil /\ d \notin k.dirs /\ d \notin k.loose => Table'[d] = 1
  BY <1>1, <1>2, <1>3, <1>4 DEF ChainsOK
<1> HIDE DEF Table
<1> QED BY <1>7, <1>8, <1>9, <1>10, <1>11 DEF ChainsOK

\* A step that marks a cluster and thereby makes the file of the call longer.
JoinStep(g, h, nm, x, num, m, k, e) ==
  /\ call.op = "write" /\ h = call.h /\ fh[h] # NoHandle
  /\ nm = fh[h].nm /\ fh[h].mode = "write" /\ g.moving = Nil
  /\ num > 0 /\ NewLinks(g, nm, x, num) /\ Joined(g, nm, x, num, m, k)
  /\ g.len[nm] > 0 \/ m = nm
  /\ fh' = [fh EXCEPT ![h] = e] /\ e \in HandleType /\ e.nm = nm /\ e.mode = "write"
  /\ bypassed' \subseteq Clusters /\ \A d \in bypassed : d \in bypassed' \/ g.own[d] = Nil
  /\ fdNextCluster' = fdNextCluster /\ lastdircluster' = lastdircluster
  /\ fatAllocNext' \in CLUSTER_FIRST_USER .. LastCluster + 1
  /\ closed' = closed /\ right' = TRUE /\ call' \in CallType /\ call'.h = h
  /\ HandleOK(k, h)' /\ CallOK(k)'

\* WriteFirst and WriteChain: the loose clusters join the file of the handle.
LEMMA JoinHolds ==
  ASSUME NEW g, Holds(g), NEW h \in Handles, NEW nm \in Names, NEW x \in Nat, NEW num \in Nat,
         NEW m \in {Nil, nm}, NEW k \in Maps, NEW e, NEW c, NEW mark, Marked(c, mark),
         JoinStep(g, h, nm, x, num, m, k, e)
  PROVE  Holds(k)'
<1>0. /\ call.op = "write" /\ h = call.h /\ fh[h] # NoHandle
      /\ nm = fh[h].nm /\ fh[h].mode = "write" /\ g.moving = Nil
      /\ num > 0 /\ NewLinks(g, nm, x, num) /\ Joined(g, nm, x, num, m, k)
      /\ g.len[nm] > 0 \/ m = nm
      /\ fh' = [fh EXCEPT ![h] = e] /\ e \in HandleType /\ e.nm = nm /\ e.mode = "write"
      /\ bypassed' \subseteq Clusters /\ \A d \in bypassed : d \in bypassed' \/ g.own[d] = Nil
      /\ fdNextCluster' = fdNextCluster /\ lastdircluster' = lastdircluster
      /\ fatAllocNext' \in CLUSTER_FIRST_USER .. LastCluster + 1
      /\ closed' = closed /\ right' = TRUE /\ call' \in CallType /\ call'.h = h
      /\ HandleOK(k, h)' /\ CallOK(k)'
  BY DEF JoinStep
<1> USE <1>0
<1>1. /\ DiskOK(g) /\ TypeInv /\ g \in Maps /\ g.dirs \subseteq Clusters
      /\ fdNextCluster \in g.dirs /\ lastdircluster \in g.dirs
      /\ ChainsOK(g) /\ DirsOK(g) /\ EntriesOK(g) /\ WordsOK(g) /\ PowerOK(g)
      /\ fh \in [Handles -> HandleType] /\ BuffersType /\ BuffersOK
  BY PartsOf, DirsIn, TypesOf DEF DiskOK, TypeInv
<1>2. /\ Still /\ FatStep /\ BuffersType' /\ BuffersOK' /\ FatGood(Fat)'
      /\ \A d \in Clusters : Kept(d)
  BY DEF Marked, Still, FatStep
<1>3. /\ \A n \in Names : n # nm => k.len[n] = g.len[n]
      /\ k.len[nm] = g.len[nm] + num
      /\ \A d \in Clusters :
           /\ d \in x .. x + num - 1 => k.own[d] = nm /\ k.idx[d] = g.len[nm] + (d - x)
           /\ d \notin x .. x + num - 1 => k.own[d] = g.own[d] /\ k.idx[d] = g.idx[d]
  BY <1>1, JoinedAt
<1>4. /\ k.ext = g.ext /\ k.dirs = g.dirs /\ k.pos = g.pos /\ k.dlen = g.dlen
      /\ k.loose = {} /\ k.moving = m
  BY DEF Joined
<1>5. \A d \in Clusters : g.own[d] # Nil => /\ d \notin x .. x + num - 1
                                            /\ k.own[d] = g.own[d] /\ k.idx[d] = g.idx[d]
  BY <1>3 DEF NewLinks
<1>6. \A d \in Clusters, t \in Slots : Slot(d, t)' = Slot(d, t)
  BY <1>2, KeptGives
<1>7. ChainsOK(k)'
  BY <1>1, JoinChains
<1>8. DirsOK(k)'
  BY <1>1, <1>2, <1>4, DirsKept
<1>9. closed[nm] = NoFile /\ ~NoEntryOf(nm) /\ nm # Nil
  <2>1. HandleOK(g, h)
    BY HandleTypes
  <2> QED BY <2>1, Nils DEF HandleOK, NoEntryOf
<1>10. g.len[nm] \in Nat /\ \A n \in Names : k.len[n] \in Nat
  BY <1>1 DEF Maps
<1>11. EntriesOK(k)'
  <2>1. \A d, b \in Clusters, t, u \in Slots :
          Slot(d, t)'.nm # Nil /\ Slot(d, t)'.nm = Slot(b, u)'.nm => d = b /\ t = u
    BY <1>1, <1>6 DEF EntriesOK
  <2>2. \A d \in Clusters, t \in Slots : Slot(d, t)'.nm = Nil => Slot(d, t)' = NoEntry
    BY <1>1, <1>6 DEF EntriesOK
  <2>3. \A d \in Clusters, t \in Slots :
          Slot(d, t)'.nm # Nil /\ Slot(d, t)'.nm # k.moving =>
            /\ Headed(k, Slot(d, t)'.nm, Slot(d, t)'.cluster)
            /\ Slot(d, t)'.size <= k.ext[Slot(d, t)'.nm]
    <3> SUFFICES ASSUME NEW d \in Clusters, NEW t \in Slots, Slot(d, t)'.nm # Nil,
                        Slot(d, t)'.nm # k.moving
                 PROVE  /\ Headed(k, Slot(d, t)'.nm, Slot(d, t)'.cluster)
                        /\ Slot(d, t)'.size <= k.ext[Slot(d, t)'.nm]
      OBVIOUS
    <3>1. Slot(d, t)' = Slot(d, t) /\ Slot(d, t).nm # Nil
      BY <1>6
    <3>2. PICK n \in Names : n = Slot(d, t).nm
      <4>1. View(d) \in Parts
        BY <1>1, ViewType
      <4> QED BY <3>1, <4>1 DEF Parts, Slot
    <3>3. Headed(g, n, Slot(d, t).cluster) /\ Slot(d, t).size <= g.ext[n]
      BY <1>1, <3>1, <3>2 DEF EntriesOK
    <3>4. Headed(k, n, Slot(d, t).cluster)
      <4>1. n = nm => g.len[n] # 0
        BY <1>4, <1>10, <3>1, <3>2
      <4>2. g.len[n] = 0 => k.len[n] = 0
        BY <1>3, <4>1
      <4> QED BY <1>5, <3>2, <3>3, <4>2, Nils DEF Headed
    <3> QED BY <1>4, <3>1, <3>2, <3>3, <3>4
  <2>4. \A n \in Names : n # k.moving /\ NoEntryOf(n)' => k.len[n] = 0
    <3> SUFFICES ASSUME NEW n \in Names, NoEntryOf(n)' PROVE k.len[n] = 0
      OBVIOUS
    <3>1. NoEntryOf(n)
      BY <1>6 DEF NoEntryOf
    <3> QED BY <1>1, <1>3, <1>9, <3>1, Nils DEF EntriesOK
  <2>5. \A n \in Names : k.ext[n] <= k.len[n] * CLUSTER_SIZE /\ k.ext[n] <= MaxSize
    <3> SUFFICES ASSUME NEW n \in Names
                 PROVE  g.ext[n] <= k.len[n] * CLUSTER_SIZE /\ g.ext[n] <= MaxSize
      BY <1>4
    <3>1. g.ext[n] <= g.len[n] * CLUSTER_SIZE /\ g.ext[n] <= MaxSize /\ g.ext[n] \in Nat
      BY <1>1 DEF EntriesOK, Maps
    <3>2. CASE n = nm
      <4>1. PICK p \in Nat, q \in Nat : p = g.len[nm] * CLUSTER_SIZE /\ q = num * CLUSTER_SIZE
        BY <1>10, Times
      <4>2. k.len[nm] * CLUSTER_SIZE = p + q
        <5>1. PICK l \in Nat : l = g.len[nm]
          BY <1>10
        <5>2. (l + num) * CLUSTER_SIZE = l * CLUSTER_SIZE + num * CLUSTER_SIZE
          BY TimesSum
        <5> QED BY <1>3, <4>1, <5>1, <5>2
      <4> QED BY <3>1, <3>2, <4>1, <4>2
    <3>3. CASE n # nm
      BY <1>3, <3>1, <3>3
    <3> QED BY <3>2, <3>3
  <2> QED BY <2>1, <2>2, <2>3, <2>4, <2>5 DEF EntriesOK
<1>12. WordsOK(k)'
  <2> SUFFICES ASSUME NEW d \in Clusters PROVE WordsAt(k, d)'
    BY DEF WordsOK
  <2>1. CASE d \in x .. x + num - 1
    <3>1. k.own[d] = nm /\ k.idx[d] = g.len[nm] + (d - x) /\ d - x \in Nat
      BY <1>3, <2>1
    <3>2. g.ext[nm] <= g.len[nm] * CLUSTER_SIZE /\ g.ext[nm] \in Nat
      BY <1>1 DEF EntriesOK, Maps
    <3>3. \A i \in 0 .. CLUSTER_SIZE - 1 : ~(k.idx[d] * CLUSTER_SIZE + i < k.ext[nm])
      <4> SUFFICES ASSUME NEW i \in 0 .. CLUSTER_SIZE - 1
                   PROVE  ~(k.idx[d] * CLUSTER_SIZE + i < g.ext[nm])
        BY <1>4
      <4>1. PICK y \in Nat : y = d - x
        BY <3>1
      <4>2. PICK p \in Nat, q \in Nat : p = g.len[nm] * CLUSTER_SIZE /\ q = y * CLUSTER_SIZE
        BY <1>10, Times
      <4>3. k.idx[d] * CLUSTER_SIZE = p + q
        <5>1. PICK l \in Nat : l = g.len[nm]
          BY <1>10
        <5>2. (l + y) * CLUSTER_SIZE = l * CLUSTER_SIZE + y * CLUSTER_SIZE
          BY TimesSum
        <5> QED BY <3>1, <4>1, <4>2, <5>1, <5>2
      <4>4. i \in Nat
        BY Sizes
      <4> QED BY <3>2, <4>2, <4>3, <4>4
    <3> QED BY <3>1, <3>3 DEF WordsAt
  <2>2. CASE d \notin x .. x + num - 1
    <3>1. WordsAt(g, d) /\ Kept(d) /\ k.own[d] = g.own[d] /\ k.idx[d] = g.idx[d]
      BY <1>1, <1>2, <1>3, <2>2 DEF WordsOK
    <3>2. k.own[d] # Nil => g.ext[k.own[d]] \in Nat /\ k.idx[d] \in Nat
      BY <1>1, <3>1 DEF Maps
    <3>3. k.own[d] # Nil => /\ k.ext[k.own[d]] <= g.ext[k.own[d]] /\ k.ext[k.own[d]] \in Nat
                            /\ g.ext[k.own[d]] \in Nat /\ k.idx[d] \in Nat
      BY <1>4, <3>2
    <3>4. k.own[d] # Nil => (d \in bypassed => d \in bypassed')
      BY <3>1
    <3> QED BY <3>1, <3>3, <3>4, KeptWords
  <2> QED BY <2>1, <2>2
<1>13. PowerOK(k)'
  <2> SUFFICES ASSUME NEW n \in Names PROVE PowerAt(k, n)'
    BY DEF PowerOK
  <2>1. PowerAt(g, n)
    BY <1>1 DEF PowerOK
  <2>2. closed'[n] # NoFile =>
          /\ closed'[n] = closed[n] /\ n # k.moving
          /\ \A d \in Clusters : k.own[d] = n =>
               /\ g.own[d] = n /\ (Dirty(d)' => Dirty(d))
               /\ disk'.fat[d] \in {disk.fat[d], Table[d]} /\ Table'[d] = Table[d]
          /\ \A d \in Clusters, t \in Slots :
               Slot(d, t).nm = n /\ disk.cluster[d].slot[t] = Slot(d, t) =>
                 Slot(d, t)' = Slot(d, t) /\ disk'.cluster[d].slot[t] = Slot(d, t)
    <3>1. \A d \in Clusters : Kept(d) /\ disk'.fat[d] \in {disk.fat[d], Table[d]}
      BY <1>2 DEF FatStep
    <3>2. closed'[n] # NoFile => closed'[n] = closed[n] /\ n # k.moving /\ n # nm
      BY <1>4, <1>9, Nils
    <3>3. \A d \in Clusters : k.own[d] = n /\ n # nm => g.own[d] = n /\ Table'[d] = Table[d]
      BY <1>3 DEF NewLinks
    <3> QED BY <3>1, <3>2, <3>3, KeptGives
  <2> QED BY <1>1, <1>2, <1>4, <2>1, <2>2, LoosePower
<1>14. DiskOK(k)'
  BY <1>7, <1>8, <1>11, <1>12, <1>13 DEF DiskOK
<1>15. fh'[h] = e /\ (\A j \in Handles \ {h} : fh'[j] = fh[j]) /\ fh' \in [Handles -> HandleType]
  BY <1>1
<1>16. HandlesOK(k)'
  <2>1. ASSUME NEW j \in Handles \ {h}, fh[j] # NoHandle
        PROVE  /\ fh'[h].nm # fh[j].nm
               /\ Slot(fh[j].dircluster, fh[j].diroff)' = Slot(fh[j].dircluster, fh[j].diroff)
               /\ closed'[fh[j].nm] \in {closed[fh[j].nm], NoFile}
               /\ g.moving = fh[j].nm => k.moving = fh[j].nm
               /\ fh[j].cluster # 0 => /\ k.own[fh[j].cluster] = g.own[fh[j].cluster]
                                       /\ k.idx[fh[j].cluster] = g.idx[fh[j].cluster]
               /\ k.ext[fh[j].nm] \in Nat /\ g.ext[fh[j].nm] <= k.ext[fh[j].nm]
    <3>1. HandleOK(g, j) /\ g.ext[fh[j].nm] \in Nat /\ fh[j].nm \in Names
          /\ fh[j].cluster \in {0} \cup Clusters
      BY <2>1, HandleTypes
    <3>2. /\ fh[j].dircluster \in Clusters /\ fh[j].diroff \in Slots
          /\ fh[j].cluster # 0 => g.own[fh[j].cluster] = fh[j].nm
      BY <3>1 DEF HandleOK
    <3>3. fh[j].nm # nm /\ fh[j].nm # Nil
      BY <2>1, <3>1, OtherNames, Nils
    <3>4. Slot(fh[j].dircluster, fh[j].diroff)' = Slot(fh[j].dircluster, fh[j].diroff)
      BY <1>6, <1>15, <3>2
    <3>5. fh[j].cluster # 0 => /\ k.own[fh[j].cluster] = g.own[fh[j].cluster]
                               /\ k.idx[fh[j].cluster] = g.idx[fh[j].cluster]
      BY <1>5, <3>1, <3>2, <3>3
    <3>6. k.ext = g.ext
      BY <1>4
    <3> QED BY <1>15, <3>1, <3>3, <3>4, <3>5, <3>6
  <2>2. \A j \in Handles \ {h} : fh'[j] = fh[j]
    BY <1>15
  <2> QED BY <2>1, <2>2, HandlesBut
<1>17. TypeInv'
  BY <1>1, <1>2, <1>15, TypesKept DEF TypeInv
<1>18. CleanOK'
  <2>1. h \in {j \in Handles : fh'[j].mode = "write"}
    BY <1>15
  <2> QED BY <2>1 DEF CleanOK, Writers
<1> QED BY <1>2, <1>14, <1>16, <1>17, <1>18, HoldsOf

\* What a handle that writes may become when its file goes on.
WriterAs(f, e, k) ==
  /\ e \in HandleType /\ e.nm = f.nm /\ e.mode = f.mode
  /\ e.dircluster = f.dircluster /\ e.diroff = f.diroff
  /\ e.size = f.size /\ e.pos = f.pos /\ e.dirty = f.dirty
  /\ f.nm # k.moving => /\ Slot(f.dircluster, f.diroff).cluster = e.firstcluster
                        /\ e.cluster = 0 => e.firstcluster = 0 \/ e.size > 0
  /\ IF e.cluster = 0 THEN e.pos = e.size
     ELSE k.own[e.cluster] = f.nm /\ e.pos = k.idx[e.cluster] * CLUSTER_SIZE + e.off

\* The handle that writes stays right under a map that is written further.
LEMMA WriterKept ==
  ASSUME NEW g, Holds(g), call.op = "write", NEW h \in Handles, h = call.h,
         NEW e, fh' = [fh EXCEPT ![h] = e],
         NEW k, k \in Maps, k.ext = g.ext, WriterAs(fh[h], e, k), closed' = closed,
         \A c \in Clusters, s \in Slots : Slot(c, s)' = Slot(c, s),
         call'.op = "write", call'.h = h, call'.at # "seek"
  PROVE  HandleOK(k, h)' /\ fh'[h] = e /\ fh'[h] # NoHandle
<1>0. PICK f : f = fh[h]
  OBVIOUS
<1>1. /\ HandleOK(g, h) /\ f.mode = "write" /\ f.nm \in Names /\ f.dircluster \in Clusters
      /\ f.diroff \in Slots /\ fh \in [Handles -> HandleType]
  <2>1. HandleOK(g, h) /\ f.mode = "write" /\ f.nm \in Names /\ fh \in [Handles -> HandleType]
    BY <1>0, WriteBegins
  <2> QED BY <1>0, <2>1 DEF HandleOK
<1>a. WriterAs(f, e, k)
  BY <1>0
<1>2. fh'[h] = e /\ \A j \in Handles \ {h} : fh'[j] = fh[j]
  BY <1>1
<1>3. fh'[h] # NoHandle
  <2>1. NoHandle.mode = "free"
    BY DEF NoHandle
  <2> QED BY <1>1, <1>a, <1>2, <2>1 DEF WriterAs
<1>4. SeekLeft(h)' = 0 /\ Writing(h)'
  BY DEF SeekLeft, Writing
<1>5. /\ Slot(f.dircluster, f.diroff).nm = f.nm /\ f.size <= g.ext[f.nm] /\ f.pos <= g.ext[f.nm]
      /\ (IF f.dirty THEN f.mode = "write" ELSE Slot(f.dircluster, f.diroff).size = f.size)
      /\ closed[f.nm] = NoFile
      /\ \A j \in Handles : fh[j].nm = f.nm => h = j
  BY <1>0, <1>1 DEF HandleOK
<1>6. PICK c \in Clusters, s \in Slots : c = f.dircluster /\ s = f.diroff
  BY <1>1
<1>7. Slot(c, s)' = Slot(c, s)
  OBVIOUS
<1>8. \A j \in Handles : fh'[j].nm = f.nm => h = j
  BY <1>0, <1>2, <1>5, <1>a DEF WriterAs
<1>9. e.cluster # 0 => e.pos = (k.idx[e.cluster] + 0) * CLUSTER_SIZE + e.off
  <2>1. e.cluster # 0 => k.idx[e.cluster] + 0 = k.idx[e.cluster]
    BY <1>a DEF Maps, HandleType, WriterAs
  <2> QED BY <1>a, <2>1 DEF WriterAs
<1> HIDE DEF SeekLeft, Writing
<1>10. HandleOK(k, h)'
  BY <1>1, <1>2, <1>4, <1>5, <1>6, <1>7, <1>8, <1>9, <1>a DEF HandleOK, WriterAs
<1> QED BY <1>2, <1>3, <1>10

\* The first cluster of a file.
LEMMA WriteFirstHolds ==
  ASSUME NEW g, Holds(g), WriteFirst
  PROVE  \E k \in Maps : Holds(k)'
<1>1. /\ call.at = "first" /\ Allocate /\ call' = [call EXCEPT !.at = "setfirst"]
      /\ fh' = [fh EXCEPT ![call.h].firstcluster = FATAlloc.c]
      /\ UNCHANGED <<fsb_t, fdNextCluster, lastdircluster, closed, right, calls>>
  BY DEF WriteFirst
<1>2. call.op = "write"
  BY <1>1, PartsOf DEF CallOK, PhaseOK
<1>3. /\ TypeInv /\ BuffersOK /\ call \in CallType /\ CallOK(g) /\ WriteOK(g) /\ DiskOK(g)
      /\ g \in Maps /\ right = TRUE /\ fh \in [Handles -> HandleType] /\ call.h \in Handles
      /\ bypassed \subseteq Clusters /\ g.moving = Nil /\ g.loose = {}
      /\ ChainsOK(g) /\ DirsOK(g) /\ EntriesOK(g)
  <2>1. /\ TypeInv /\ BuffersOK /\ call \in CallType /\ CallOK(g) /\ WriteOK(g) /\ DiskOK(g)
        /\ g \in Maps /\ right = TRUE /\ fh \in [Handles -> HandleType] /\ call.h \in Handles
        /\ bypassed \subseteq Clusters
    BY <1>2, WriteBegins
  <2> QED BY <1>1, <2>1 DEF CallOK, DiskOK
<1>4. PICK h \in Handles, f \in HandleType : h = call.h /\ f = fh[h]
  BY <1>2, WriteBegins
<1>5. /\ f.cluster = 0 /\ f.size = 0 /\ f.mode = "write" /\ call.n > 0
      /\ f.pos + call.n <= MaxSize
  BY <1>1, <1>2, <1>3, <1>4 DEF WriteOK
<1>6. PICK nm \in Names, c \in Clusters, s \in Slots :
        nm = f.nm /\ c = f.dircluster /\ s = f.diroff
  BY <1>2, <1>4, WriteBegins DEF HandleOK
<1>7. fh[h] # NoHandle /\ HandleOK(g, h) /\ nm # Nil
  BY <1>2, <1>4, <1>6, WriteBegins, Nils
<1>8. f.firstcluster = 0 /\ Slot(c, s).cluster = 0 /\ Slot(c, s).nm = nm /\ f.pos = f.size
  BY <1>3, <1>4, <1>5, <1>6, <1>7 DEF HandleOK
<1>9. g.len[nm] = 0 /\ Slot(c, s).size <= g.ext[nm]
  <2>1. Headed(g, nm, 0) /\ Slot(c, s).size <= g.ext[nm]
    BY <1>3, <1>7, <1>8 DEF EntriesOK
  <2> QED BY <2>1, Numbered DEF Headed
<1>10. PICK x \in Clusters : x = FATAlloc.c
  BY <1>1, <1>3, AllocateIs
<1>11. /\ Table[x] = CLUSTER_UNUSED /\ Marked(x, CLUSTER_CHAIN_END)
       /\ fatAllocNext' \in CLUSTER_FIRST_USER .. LastCluster + 1 /\ bypassed' = bypassed \ {x}
  BY <1>1, <1>3, <1>10, AllocateIs
<1>12. g.own[x] = Nil /\ x \notin g.dirs /\ x \in Nat /\ 1 \in Nat
  BY <1>11, UnusedIs, Numbered
<1>13. x .. x + 1 - 1 = {x}
  BY <1>12
<1>14. NewLinks(g, nm, x, 1)
  <2>1. Table \in [Clusters -> Marks] /\ Table' = [Table EXCEPT ![x] = 0]
    BY <1>3, <1>11, TypesOf DEF Marked
  <2>2. \A d \in Clusters : ~(g.own[d] = nm /\ g.idx[d] + 1 = g.len[nm])
    BY <1>3, <1>9 DEF Maps
  <2>3. x = x + 1 - 1
    BY <1>12
  <2>4. Table'[x] = 0 /\ \A d \in Clusters : d # x => Table'[d] = Table[d]
    BY <2>1
  <2> HIDE DEF Table
  <2>5. \A d \in x .. x + 1 - 1 : d = x
    BY <1>13
  <2>6. \A d \in Clusters : d \notin x .. x + 1 - 1 => d # x
    BY <1>13
  <2> QED BY <1>3, <1>12, <2>2, <2>3, <2>4, <2>5, <2>6 DEF NewLinks
<1>15. PICK k \in Maps : Joined(g, nm, x, 1, nm, k)
  BY <1>3, <1>12, Longer
<1>16. k.own[x] = nm /\ k.idx[x] = 0
  <2>1. x \in x .. x + 1 - 1
    BY <1>13
  <2>2. k.own[x] = nm /\ k.idx[x] = g.len[nm] + (x - x)
    BY <1>3, <1>12, <1>15, <2>1, JoinedAt
  <2> QED BY <1>9, <1>12, <2>2
<1>17. k.ext = g.ext /\ k.moving = nm /\ k.loose = {}
  BY <1>15 DEF Joined
<1>18. PICK e : e = [f EXCEPT !.firstcluster = x]
  OBVIOUS
<1>19. /\ e \in HandleType /\ e.nm = nm /\ e.mode = "write" /\ e.dircluster = c /\ e.diroff = s
       /\ e.size = 0 /\ e.pos = f.pos /\ e.dirty = f.dirty /\ e.cluster = 0 /\ e.firstcluster = x
  BY <1>5, <1>6, <1>18 DEF HandleType
<1>20. fh' = [fh EXCEPT ![h] = e]
  BY <1>1, <1>3, <1>4, <1>10, <1>18 DEF HandleType
<1>21. /\ call'.at = "setfirst" /\ call'.op = "write" /\ call'.h = h /\ call'.n = call.n
       /\ call' \in CallType
  BY <1>1, <1>2, <1>3, <1>4, NextAt
<1>22. \A d \in Clusters, t \in Slots : Slot(d, t)' = Slot(d, t)
  BY <1>11, KeptGives DEF Marked, Still
<1>23. HandleOK(k, h)' /\ fh'[h] = e /\ fh'[h] # NoHandle
  <2>1. WriterAs(f, e, k)
    BY <1>5, <1>6, <1>8, <1>17, <1>19 DEF WriterAs
  <2>2. k.ext = g.ext /\ h = call.h /\ f = fh[h] /\ closed' = closed
    BY <1>1, <1>4, <1>17
  <2>3. call'.op = "write" /\ call'.h = h /\ call'.at # "seek"
    BY <1>21
  <2> QED BY <1>2, <1>15, <1>20, <1>22, <2>1, <2>2, <2>3, WriterKept
<1>24. CallOK(k)'
  <2>1. Slot(c, s)'.size <= k.ext[nm]
    BY <1>9, <1>17, <1>22
  <2>2. WriteOK(k)'
    BY <1>5, <1>16, <1>19, <1>21, <1>23, <2>1 DEF WriteOK
  <2>3. PhaseOK' /\ DirCallOK(k)' /\ ReadOK(k)'
    BY <1>21 DEF PhaseOK, DirCallOK, ReadOK
  <2> QED BY <1>17, <1>19, <1>21, <1>23, <2>2, <2>3 DEF CallOK
<1>25. bypassed' \subseteq Clusters /\ \A d \in bypassed : d \in bypassed' \/ g.own[d] = Nil
  BY <1>3, <1>11, <1>12
<1>26. /\ closed' = closed /\ right' = TRUE /\ fdNextCluster' = fdNextCluster
       /\ lastdircluster' = lastdircluster
  BY <1>1, <1>3
<1>27. Holds(k)'
  <2>1. fh[h].mode = "write" /\ nm = fh[h].nm /\ 1 > 0
    BY <1>4, <1>5, <1>6
  <2>2. JoinStep(g, h, nm, x, 1, nm, k, e)
    BY <1>2, <1>3, <1>4, <1>7, <1>11, <1>14, <1>15, <1>19, <1>20, <1>21, <1>23, <1>24, <1>25,
       <1>26, <2>1 DEF JoinStep
  <2> QED BY <1>11, <1>12, <2>2, JoinHolds
<1> QED BY <1>27

\* The new clusters become the end of the file.
LEMMA WriteChainHolds ==
  ASSUME NEW g, Holds(g), WriteChain
  PROVE  \E k \in Maps : Holds(k)'
<1>1. /\ call.at = "chain" /\ SetFat(FATMark(Fat, fh[call.h].cluster, call.x))
      /\ UNCHANGED <<fsb_t, private, history>>
  BY DEF WriteChain
<1>2. call.op = "write"
  BY <1>1, PartsOf DEF CallOK, PhaseOK
<1>3. /\ TypeInv /\ BuffersOK /\ call \in CallType /\ CallOK(g) /\ WriteOK(g) /\ DiskOK(g)
      /\ g \in Maps /\ right = TRUE /\ fh \in [Handles -> HandleType] /\ call.h \in Handles
      /\ bypassed \subseteq Clusters /\ g.moving = Nil
      /\ ChainsOK(g) /\ DirsOK(g) /\ call.num \in Nat /\ call.x \in {0} \cup Clusters
  <2>1. /\ TypeInv /\ BuffersOK /\ call \in CallType /\ CallOK(g) /\ WriteOK(g) /\ DiskOK(g)
        /\ g \in Maps /\ right = TRUE /\ fh \in [Handles -> HandleType] /\ call.h \in Handles
        /\ bypassed \subseteq Clusters /\ call.num \in Nat /\ call.x \in {0} \cup Clusters
    BY <1>2, WriteBegins
  <2> QED BY <1>1, <2>1 DEF CallOK, DiskOK
<1>4. PICK h \in Handles, f \in HandleType : h = call.h /\ f = fh[h]
  BY <1>2, WriteBegins
<1>5. /\ f.cluster # 0 /\ f.mode = "write" /\ call.n > 0 /\ f.pos + call.n <= MaxSize
      /\ f.off = CLUSTER_SIZE /\ g.idx[f.cluster] + 1 = g.len[f.nm]
      /\ call.num > 0 => call.num * CLUSTER_SIZE <= call.n
      /\ g.loose = call.x .. call.x + Fresh - 1
      /\ \A d \in g.loose : Table[d] = IF d = call.x + Fresh - 1 THEN 0 ELSE d + 1
  BY <1>1, <1>2, <1>3, <1>4 DEF WriteOK
<1>6. PICK nm \in Names, c \in Clusters, x \in Nat, num \in Nat :
        nm = f.nm /\ c = f.cluster /\ x = call.x /\ num = Fresh
  <2>1. Fresh \in Nat /\ call.x \in Nat /\ f.cluster \in Clusters
    BY <1>3, <1>5, Numbered DEF Fresh, HandleType
  <2> QED BY <1>2, <1>4, <2>1, WriteBegins
<1>7. /\ num > 0 /\ g.loose = x .. x + num - 1 /\ g.idx[c] + 1 = g.len[nm]
      /\ \A d \in g.loose : Table[d] = IF d = x + num - 1 THEN 0 ELSE d + 1
      /\ g.loose \subseteq Clusters /\ x \in g.loose /\ g.idx[c] \in Nat /\ g.len[nm] \in Nat
  <2>1. num > 0
    BY <1>3, <1>6 DEF Fresh
  <2>2. x \in x .. x + num - 1
    BY <1>6, <2>1
  <2>3. g.loose \subseteq Clusters /\ g.idx[c] \in Nat /\ g.len[nm] \in Nat
    BY <1>3 DEF Maps
  <2> QED BY <1>5, <1>6, <2>1, <2>2, <2>3
<1>8. /\ fh[h] # NoHandle /\ HandleOK(g, h) /\ nm # Nil /\ g.own[c] = nm
      /\ f.pos = g.idx[c] * CLUSTER_SIZE + CLUSTER_SIZE /\ f.pos \in Nat
  BY <1>2, <1>4, <1>5, <1>6, WriteBegins, Nils
<1>9. \A d \in g.loose : g.own[d] = Nil /\ d \notin g.dirs /\ d # c
  BY <1>3, <1>7, <1>8 DEF ChainsOK
<1>10. Marked(c, x)
  <2>1. x \in Marks
    BY <1>7 DEF Marks
  <2>2. FatGood(FATMark(Fat, c, x)) /\ FatMarked(Fat, FATMark(Fat, c, x), c, x)
    BY <1>3, <2>1, TypesOf, MarkIs
  <2>3. SetFat(FATMark(Fat, c, x)) /\ fsb_t' = fsb_t
    BY <1>1, <1>4, <1>6
  <2> QED BY <1>3, <2>2, <2>3, MarkedFat
<1>11. NewLinks(g, nm, x, num)
  <2>1. Table \in [Clusters -> Marks] /\ Table' = [Table EXCEPT ![c] = x]
    BY <1>3, <1>10, TypesOf DEF Marked
  <2>2. Table'[c] = x /\ \A d \in Clusters : d # c => Table'[d] = Table[d]
    BY <2>1
  <2> HIDE DEF Table
  <2>3. \A d \in Clusters : g.own[d] = nm /\ g.idx[d] + 1 = g.len[nm] <=> d = c
    <3>1. \A d \in Clusters : g.idx[d] \in Nat
      BY <1>3 DEF Maps
    <3>2. \A d \in Clusters : g.own[d] = nm /\ g.idx[d] = g.idx[c] => d = c
      BY <1>3, <1>8 DEF ChainsOK
    <3> QED BY <1>7, <1>8, <3>1, <3>2
  <2>4. \A d \in g.loose : /\ d \in Clusters /\ g.own[d] = Nil /\ d \notin g.dirs
                           /\ Table'[d] = IF d = x + num - 1 THEN 0 ELSE d + 1
    BY <1>7, <1>9, <2>2
  <2>5. \A d \in Clusters : d \notin g.loose =>
          Table'[d] = IF g.own[d] = nm /\ g.idx[d] + 1 = g.len[nm] THEN x ELSE Table[d]
    BY <2>2, <2>3
  <2> QED BY <1>7, <2>4, <2>5 DEF NewLinks
<1>12. PICK k \in Maps : Joined(g, nm, x, num, Nil, k)
  BY <1>3, Longer
<1>13. /\ \A d \in g.loose : k.own[d] = nm /\ k.idx[d] = g.len[nm] + (d - x)
       /\ k.own[c] = nm /\ k.idx[c] = g.idx[c] /\ k.len[nm] = g.len[nm] + num
  <2>1. \A d \in Clusters :
          /\ d \in g.loose => k.own[d] = nm /\ k.idx[d] = g.len[nm] + (d - x)
          /\ d \notin g.loose => k.own[d] = g.own[d] /\ k.idx[d] = g.idx[d]
    BY <1>3, <1>7, <1>12, JoinedAt
  <2>2. k.len[nm] = g.len[nm] + num
    BY <1>3, <1>12, JoinedAt
  <2> QED BY <1>7, <1>8, <1>9, <2>1, <2>2
<1>14. k.ext = g.ext /\ k.moving = Nil /\ k.loose = {}
  BY <1>12 DEF Joined
<1>15. \A d \in Clusters, t \in Slots : Slot(d, t)' = Slot(d, t)
  BY <1>10, KeptGives DEF Marked, Still
<1>16. Slot(f.dircluster, f.diroff).cluster = f.firstcluster
  BY <1>3, <1>4, <1>6, <1>8 DEF HandleOK
<1>17. /\ closed' = closed /\ bypassed' = bypassed /\ right' = TRUE
       /\ fdNextCluster' = fdNextCluster /\ lastdircluster' = lastdircluster
       /\ fatAllocNext' \in CLUSTER_FIRST_USER .. LastCluster + 1
  BY <1>1, <1>3 DEF history, private, TypeInv
<1>18. ASSUME NEW e, fh' = [fh EXCEPT ![h] = e], WriterAs(f, e, k), call' \in CallType,
              call'.op = "write", call'.h = h, call'.at # "seek",
              HandleOK(k, h)' => CallOK(k)'
       PROVE  Holds(k)'
  <2>1. fh[h].mode = "write" /\ nm = fh[h].nm /\ g.len[nm] > 0
    BY <1>4, <1>5, <1>6, <1>7
  <2>2. e \in HandleType /\ e.nm = nm /\ e.mode = "write"
    BY <1>5, <1>6, <1>18 DEF WriterAs
  <2>3. HandleOK(k, h)' /\ fh'[h] = e /\ fh'[h] # NoHandle
    BY <1>2, <1>4, <1>12, <1>14, <1>15, <1>17, <1>18, WriterKept
  <2>4. bypassed' \subseteq Clusters /\ \A d \in bypassed : d \in bypassed' \/ g.own[d] = Nil
    BY <1>3, <1>17
  <2>5. CallOK(k)'
    BY <1>18, <2>3
  <2>6. /\ Nil \in {Nil, nm} /\ g.moving = Nil /\ call'.h = h /\ call' \in CallType
        /\ g.len[nm] > 0 \/ Nil = nm
        /\ h = call.h /\ num > 0 /\ fh[h] # NoHandle /\ fh' = [fh EXCEPT ![h] = e]
    BY <1>3, <1>4, <1>7, <1>8, <1>18, <2>1
  <2>7. JoinStep(g, h, nm, x, num, Nil, k, e)
    BY <1>2, <1>11, <1>12, <1>17, <2>1, <2>2, <2>3, <2>4, <2>5, <2>6 DEF JoinStep
  <2> QED BY <1>10, <2>6, <2>7, JoinHolds
<1>19. CASE call.num = 0
  <2>1. PICK e : e = [f EXCEPT !.cluster = x, !.off = 0]
    OBVIOUS
  <2>2. call' = [call EXCEPT !.at = "put"] /\ fh' = [fh EXCEPT ![h] = e]
    BY <1>3, <1>4, <1>6, <1>19, <2>1 DEF WriteChain, HandleType
  <2>3. /\ call'.at = "put" /\ call'.op = "write" /\ call'.h = h /\ call'.n = call.n
        /\ call' \in CallType
    BY <1>2, <1>3, <1>4, <2>2, NextAt
  <2>4. x \in Clusters /\ x # 0
    BY <1>7, Numbered
  <2>5. /\ e \in HandleType /\ e.nm = nm /\ e.mode = "write" /\ e.dircluster = f.dircluster
        /\ e.diroff = f.diroff /\ e.size = f.size /\ e.pos = f.pos /\ e.dirty = f.dirty
        /\ e.cluster = x /\ e.firstcluster = f.firstcluster /\ e.off = 0
    <3>1. 0 \in 0 .. CLUSTER_SIZE
      BY Sizes
    <3> QED BY <1>5, <1>6, <2>1, <2>4, <3>1 DEF HandleType
  <2>6. k.own[x] = nm /\ f.pos = k.idx[x] * CLUSTER_SIZE + 0
    <3>1. k.idx[x] = g.idx[c] + 1
      BY <1>7, <1>13
    <3>2. (g.idx[c] + 1) * CLUSTER_SIZE = g.idx[c] * CLUSTER_SIZE + CLUSTER_SIZE
      BY <1>7, Times
    <3> QED BY <1>7, <1>8, <1>13, <3>1, <3>2
  <2>7. WriterAs(f, e, k)
    BY <1>5, <1>6, <1>16, <2>4, <2>5, <2>6 DEF WriterAs
  <2>8. ASSUME HandleOK(k, h)' PROVE CallOK(k)'
    <3>1. fh'[h] = e
      BY <1>3, <2>2
    <3>2. WriteOK(k)'
      BY <1>5, <2>3, <2>4, <2>5, <3>1 DEF WriteOK
    <3>3. PhaseOK' /\ DirCallOK(k)' /\ ReadOK(k)'
      BY <2>3 DEF PhaseOK, DirCallOK, ReadOK
    <3>4. fh'[h] # NoHandle
      <4>1. NoHandle.mode = "free"
        BY DEF NoHandle
      <4> QED BY <2>5, <3>1, <4>1
    <3> QED BY <1>14, <2>3, <3>2, <3>3, <3>4 DEF CallOK
  <2> QED BY <1>18, <2>2, <2>3, <2>7, <2>8
<1>20. CASE call.num # 0
  <2>1. call' = [call EXCEPT !.at = "direct"] /\ fh' = fh
    BY <1>20 DEF WriteChain
  <2>2. /\ call'.at = "direct" /\ call'.op = "write" /\ call'.h = h /\ call'.n = call.n
        /\ call'.x = x /\ call'.num = call.num /\ call' \in CallType
    BY <1>2, <1>3, <1>4, <1>6, <2>1, NextAt
  <2>3. fh' = [fh EXCEPT ![h] = f]
    BY <1>3, <1>4, <2>1
  <2>4. WriterAs(f, f, k)
    BY <1>5, <1>6, <1>8, <1>13, <1>16 DEF WriterAs
  <2>5. num = call.num /\ num > 0 /\ num * CLUSTER_SIZE <= call.n
    BY <1>3, <1>5, <1>6, <1>7, <1>20 DEF Fresh
  <2>6. Follow(k, f, x, num)
    <3> SUFFICES ASSUME NEW d \in g.loose
                 PROVE  d \in Clusters /\ k.own[d] = f.nm
                        /\ k.idx[d] = k.idx[f.cluster] + 1 + (d - x)
      BY <1>7 DEF Follow
    <3> QED BY <1>6, <1>7, <1>13
  <2>7. ASSUME HandleOK(k, h)' PROVE CallOK(k)'
    <3>1. fh'[h] = f
      BY <1>4, <2>1
    <3>2. WriteOK(k)'
      BY <1>5, <2>2, <2>5, <2>6, <3>1 DEF WriteOK, Follow
    <3>3. PhaseOK' /\ DirCallOK(k)' /\ ReadOK(k)'
      BY <2>2 DEF PhaseOK, DirCallOK, ReadOK
    <3> QED BY <1>4, <1>8, <1>14, <2>2, <3>1, <3>2, <3>3 DEF CallOK
  <2> QED BY <1>18, <2>2, <2>3, <2>4, <2>7
<1> QED BY <1>19, <1>20

-----------------------------------------------------------------------------
(***************************************************************************)
(* The steps that write words.                                             *)
(***************************************************************************)

\* The map in which nm is written as far as p, if it was not already.
SpreadTo(g, nm, p, k) ==
  /\ k \in Maps
  /\ k.own = g.own /\ k.idx = g.idx /\ k.len = g.len /\ k.dirs = g.dirs /\ k.pos = g.pos
  /\ k.dlen = g.dlen /\ k.loose = g.loose /\ k.moving = g.moving
  /\ \A n \in Names : n # nm => k.ext[n] = g.ext[n]
  /\ k.ext[nm] \in {g.ext[nm], p} /\ g.ext[nm] <= k.ext[nm] /\ p <= k.ext[nm]

\* There is one.
LEMMA Spread ==
  ASSUME NEW g, g \in Maps, NEW nm \in Names, NEW p \in Nat
  PROVE  \E k \in Maps : SpreadTo(g, nm, p, k)
<1>1. PICK l \in Nat : l = g.ext[nm]
  BY DEF Maps
<1>2. PICK y \in Nat : y \in {l, p} /\ l <= y /\ p <= y
  <2>1. CASE l <= p
    BY <2>1
  <2>2. CASE p <= l
    BY <2>2
  <2> QED BY <2>1, <2>2
<1>3. PICK new : new = [g.ext EXCEPT ![nm] = y]
  OBVIOUS
<1>4. /\ new \in [Names -> Nat] /\ new[nm] = y
      /\ \A n \in Names : n # nm => new[n] = g.ext[n]
  BY <1>3 DEF Maps
<1>5. PICK k : k = [g EXCEPT !.ext = new]
  OBVIOUS
<1>6. /\ k \in Maps /\ k.own = g.own /\ k.idx = g.idx /\ k.len = g.len /\ k.dirs = g.dirs
      /\ k.pos = g.pos /\ k.dlen = g.dlen /\ k.loose = g.loose /\ k.moving = g.moving
      /\ k.ext = new
  BY <1>4, <1>5 DEF Maps
<1>7. SpreadTo(g, nm, p, k)
  BY <1>1, <1>2, <1>4, <1>6 DEF SpreadTo
<1> QED BY <1>6, <1>7

\* A cluster with none of the positions written holds what the map says.
LEMMA SpreadWords ==
  ASSUME NEW g, g \in Maps, NEW d \in Clusters, WordsAt(g, d), NEW nm \in Names,
         NEW q \in Nat, q <= g.ext[nm], NEW p \in Nat, NEW k, SpreadTo(g, nm, p, k),
         g.own[d] = nm => \A i \in 0 .. CLUSTER_SIZE - 1 :
           ~(q <= g.idx[d] * CLUSTER_SIZE + i /\ g.idx[d] * CLUSTER_SIZE + i < p)
  PROVE  WordsAt(k, d)
<1> SUFFICES ASSUME NEW i \in 0 .. CLUSTER_SIZE - 1, k.own[d] # Nil, d \notin bypassed,
                    k.idx[d] * CLUSTER_SIZE + i < k.ext[k.own[d]]
             PROVE  /\ View(d).word[i] = <<k.own[d], k.idx[d] * CLUSTER_SIZE + i>>
                    /\ ~Dirty(d) => disk.cluster[d].word[i]
                                      = <<k.own[d], k.idx[d] * CLUSTER_SIZE + i>>
  BY DEF WordsAt
<1>1. k.own[d] = g.own[d] /\ k.idx[d] = g.idx[d] /\ g.idx[d] \in Nat /\ g.own[d] \in Names
  BY DEF SpreadTo, Maps
<1>2. PICK j \in Nat : j = g.idx[d] * CLUSTER_SIZE + i
  <2>1. g.idx[d] * CLUSTER_SIZE \in Nat /\ i \in Nat
    BY <1>1, Times, Sizes
  <2> QED BY <2>1
<1>3. j < g.ext[g.own[d]]
  <2>1. CASE g.own[d] = nm
    <3>1. ~(q <= j /\ j < p) /\ j < k.ext[nm] /\ k.ext[nm] \in {g.ext[nm], p}
          /\ g.ext[nm] \in Nat
      BY <1>1, <1>2, <2>1 DEF SpreadTo, Maps
    <3> QED BY <2>1, <3>1
  <2>2. CASE g.own[d] # nm
    BY <1>1, <1>2, <2>2 DEF SpreadTo
  <2> QED BY <2>1, <2>2
<1> QED BY <1>1, <1>2, <1>3 DEF WordsAt

\* What a handle becomes by writing m words.
WroteAs(g, f, e, m) ==
  /\ e \in HandleType /\ SameFile(e, f) /\ e.size = f.size /\ e.dirty = f.dirty
  /\ e.pos = f.pos + m
  /\ e.cluster \in Clusters /\ g.own[e.cluster] = f.nm
  /\ e.pos = g.idx[e.cluster] * CLUSTER_SIZE + e.off

\* The handles, the entries and the call after words were written.
LEMMA WriteOnKeeps ==
  ASSUME NEW g, Holds(g), call.op = "write", call.at \in {"put", "direct"},
         NEW h \in Handles, h = call.h, NEW e, NEW m \in Nat, m > 0, m <= call.n,
         WriteOn(e, m), WroteAs(g, fh[h], e, m), NEW k, SpreadTo(g, fh[h].nm, e.pos, k),
         \A c \in Clusters, s \in Slots : Slot(c, s)' = Slot(c, s), closed' = closed
  PROVE  /\ HandlesOK(k)' /\ CallOK(k)' /\ EntriesOK(k)'
         /\ call' \in CallType /\ fh' \in [Handles -> HandleType] /\ CleanOK'
<1>1. PICK f \in HandleType, n \in Nat, nm \in Names : f = fh[h] /\ n = call.n /\ nm = f.nm
  BY WriteBegins
<1>2. /\ TypeInv /\ call \in CallType /\ CallOK(g) /\ DiskOK(g) /\ g \in Maps
      /\ fh \in [Handles -> HandleType] /\ HandleOK(g, h) /\ f # NoHandle /\ f.mode = "write"
      /\ f.pos \in Nat /\ f.size \in Nat /\ closed[nm] = NoFile
      /\ f.pos + n <= MaxSize /\ f.size <= g.ext[nm] /\ g.ext[nm] \in Nat
  BY <1>1, WriteBegins
<1>3. g.moving = Nil /\ g.loose = {} /\ EntriesOK(g) /\ ChainsOK(g)
  BY <1>2 DEF CallOK, DiskOK
<1>4. /\ k \in Maps /\ k.own = g.own /\ k.idx = g.idx /\ k.len = g.len /\ k.loose = {}
      /\ k.moving = Nil /\ (\A a \in Names : a # nm => k.ext[a] = g.ext[a])
      /\ k.ext[nm] \in {g.ext[nm], e.pos} /\ g.ext[nm] <= k.ext[nm] /\ e.pos <= k.ext[nm]
  BY <1>1, <1>3 DEF SpreadTo
<1>5. /\ e \in HandleType /\ e.nm = nm /\ e.mode = "write" /\ e.dircluster = f.dircluster
      /\ e.diroff = f.diroff /\ e.firstcluster = f.firstcluster /\ e.size = f.size
      /\ e.dirty = f.dirty /\ e.pos = f.pos + m /\ e.pos \in Nat
      /\ e.cluster \in Clusters /\ e.cluster # 0 /\ g.own[e.cluster] = nm
      /\ e.pos = g.idx[e.cluster] * CLUSTER_SIZE + e.off /\ e.off \in 0 .. CLUSTER_SIZE
  <2>1. WroteAs(g, f, e, m)
    BY <1>1
  <2>2. e.off \in 0 .. CLUSTER_SIZE
    BY <2>1 DEF WroteAs, HandleType
  <2> QED BY <1>1, <1>2, <2>1, <2>2, Numbered DEF WroteAs, SameFile
<1>6. /\ k.ext[nm] \in Nat /\ g.ext[nm] \in Nat /\ e.pos <= MaxSize
      /\ e.pos <= g.len[nm] * CLUSTER_SIZE
      /\ g.len[nm] * CLUSTER_SIZE \in Nat
  <2>1. k.ext[nm] \in Nat
    BY <1>2, <1>4, <1>5
  <2>2. PICK i \in Nat, l \in Nat, o \in Nat :
          i = g.idx[e.cluster] /\ l = g.len[nm] /\ o = e.off /\ o <= CLUSTER_SIZE
    <3>1. g.idx[e.cluster] \in Nat /\ g.len[nm] \in Nat
      BY <1>2, <1>5 DEF Maps
    <3> QED BY <1>5, <3>1, Sizes
  <2>3. i < l
    BY <1>3, <1>5, <2>2, Nils DEF ChainsOK
  <2>4. i * CLUSTER_SIZE + CLUSTER_SIZE <= l * CLUSTER_SIZE
    BY <2>3, TimesApart
  <2>5. i * CLUSTER_SIZE \in Nat /\ l * CLUSTER_SIZE \in Nat
    BY Times
  <2>6. i * CLUSTER_SIZE + o <= l * CLUSTER_SIZE
    BY <2>2, <2>4, <2>5, Sizes
  <2>7. e.pos <= MaxSize
    BY <1>1, <1>2, <1>5, Sizes
  <2> QED BY <1>2, <1>5, <2>1, <2>2, <2>5, <2>6, <2>7
<1>7. PICK e2 : e2 = IF n = m THEN Grown(e) ELSE e
  OBVIOUS
<1>8. fh' = [fh EXCEPT ![h] = e2]
  BY <1>1, <1>7 DEF WriteOn
<1>9. /\ e2 \in HandleType /\ e2.nm = nm /\ e2.mode = "write" /\ e2.dircluster = f.dircluster
      /\ e2.diroff = f.diroff /\ e2.firstcluster = f.firstcluster /\ e2.pos = e.pos
      /\ e2.cluster = e.cluster /\ e2.off = e.off
      /\ \/ e2.size = f.size /\ e2.dirty = f.dirty
         \/ e2.size = e.pos /\ e2.dirty = TRUE
      /\ n = m => e2.pos <= e2.size
  <2>1. PICK y : y = [e EXCEPT !.size = e.pos, !.dirty = TRUE]
    OBVIOUS
  <2>2. /\ y \in HandleType /\ y.nm = nm /\ y.mode = "write" /\ y.dircluster = f.dircluster
        /\ y.diroff = f.diroff /\ y.firstcluster = f.firstcluster /\ y.pos = e.pos
        /\ y.cluster = e.cluster /\ y.off = e.off /\ y.size = e.pos /\ y.dirty = TRUE
    BY <1>5, <2>1 DEF HandleType
  <2>3. CASE n = m /\ e.pos > e.size
    <3>1. e2 = y
      BY <1>7, <2>1, <2>3 DEF Grown
    <3> QED BY <1>5, <2>2, <3>1
  <2>4. CASE ~(n = m /\ e.pos > e.size)
    <3>1. e2 = e
      BY <1>7, <2>4 DEF Grown
    <3> QED BY <1>2, <1>5, <2>4, <3>1
  <2> QED BY <2>3, <2>4
<1>10. fh'[h] = e2 /\ (\A j \in Handles \ {h} : fh'[j] = fh[j]) /\ fh' \in [Handles -> HandleType]
  BY <1>2, <1>8, <1>9
<1>11. \/ n = m /\ call' = NoCall
       \/ n # m /\ call' = [call EXCEPT !.at = "put", !.n = n - m]
  BY <1>1 DEF WriteOn, Return
<1>12. n = m => CallOK(k)' /\ call' \in CallType
  BY <1>4, <1>11, CallOut
<1>13. n # m => /\ call'.at = "put" /\ call'.op = "write" /\ call'.h = h /\ call'.n = n - m
                /\ n - m \in Nat /\ n - m > 0 /\ call' \in CallType
  <2> SUFFICES ASSUME n # m
               PROVE  /\ call'.at = "put" /\ call'.op = "write" /\ call'.h = h
                      /\ call'.n = n - m /\ n - m \in Nat /\ n - m > 0 /\ call' \in CallType
    OBVIOUS
  <2>1. n - m \in Nat /\ n - m > 0
    BY <1>1
  <2> QED BY <1>2, <1>11, <2>1 DEF CallType
<1>14. CallOK(k)' /\ call' \in CallType
  <2>1. CASE n # m
    <3>1. e2.pos + (n - m) <= MaxSize
      BY <1>1, <1>2, <1>5, <1>9
    <3>2. WriteOK(k)'
      BY <1>5, <1>9, <1>10, <1>13, <2>1, <3>1 DEF WriteOK
    <3>3. PhaseOK' /\ DirCallOK(k)' /\ ReadOK(k)'
      BY <1>13, <2>1 DEF PhaseOK, DirCallOK, ReadOK
    <3>4. fh'[h] # NoHandle
      <4>1. NoHandle.mode = "free"
        BY DEF NoHandle
      <4> QED BY <1>9, <1>10, <4>1
    <3>5. CallOK(k)'
      BY <1>4, <1>13, <2>1, <3>2, <3>3, <3>4 DEF CallOK
    <3> QED BY <1>13, <2>1, <3>5
  <2> QED BY <1>12, <2>1
<1>15. HandleOK(k, h)'
  <2>1. /\ f.dircluster \in Clusters /\ f.diroff \in Slots
        /\ Slot(f.dircluster, f.diroff).nm = nm
        /\ Slot(f.dircluster, f.diroff).cluster = f.firstcluster
        /\ (IF f.dirty THEN f.mode = "write" ELSE Slot(f.dircluster, f.diroff).size = f.size)
        /\ \A j \in Handles : fh[j].nm = nm => h = j
    BY <1>1, <1>2, <1>3, Nils DEF HandleOK
  <2>2. PICK c \in Clusters, s \in Slots : c = f.dircluster /\ s = f.diroff
    BY <2>1
  <2>3. Slot(c, s)' = Slot(c, s)
    OBVIOUS
  <2>4. \A j \in Handles : fh'[j].nm = nm => h = j
    BY <1>1, <1>10, <2>1
  <2>5. SeekLeft(h)' = 0
    BY <1>11, <1>13 DEF SeekLeft, NoCall
  <2>6. n # m => Writing(h)'
    BY <1>13 DEF Writing
  <2>7. e2.pos = (k.idx[e2.cluster] + 0) * CLUSTER_SIZE + e2.off
    <3>1. g.idx[e.cluster] + 0 = g.idx[e.cluster]
      BY <1>2, <1>5 DEF Maps
    <3> QED BY <1>4, <1>5, <1>9, <3>1
  <2>8. e2.size <= k.ext[nm] /\ e2.pos <= k.ext[nm]
    BY <1>2, <1>4, <1>5, <1>6, <1>9
  <2>9. k.own[e2.cluster] = nm /\ e2.cluster # 0
    BY <1>4, <1>5, <1>9
  <2>10. e2.pos <= e2.size \/ Writing(h)'
    BY <1>9, <2>6
  <2>11. IF e2.dirty THEN e2.mode = "write" ELSE Slot(c, s)'.size = e2.size
    BY <1>9, <2>1, <2>2, <2>3
  <2> HIDE DEF SeekLeft, Writing
  <2> QED BY <1>2, <1>9, <1>10, <2>1, <2>2, <2>3, <2>4, <2>5, <2>7, <2>8, <2>9, <2>10, <2>11
          DEF HandleOK
<1>16. HandlesOK(k)'
  <2>1. ASSUME NEW j \in Handles \ {h}, fh[j] # NoHandle
        PROVE  /\ fh'[h].nm # fh[j].nm
               /\ Slot(fh[j].dircluster, fh[j].diroff)' = Slot(fh[j].dircluster, fh[j].diroff)
               /\ closed'[fh[j].nm] \in {closed[fh[j].nm], NoFile}
               /\ g.moving = fh[j].nm => k.moving = fh[j].nm
               /\ fh[j].cluster # 0 => /\ k.own[fh[j].cluster] = g.own[fh[j].cluster]
                                       /\ k.idx[fh[j].cluster] = g.idx[fh[j].cluster]
               /\ k.ext[fh[j].nm] \in Nat /\ g.ext[fh[j].nm] <= k.ext[fh[j].nm]
    <3>1. HandleOK(g, j) /\ g.ext[fh[j].nm] \in Nat /\ fh[j].nm \in Names
      BY <2>1, HandleTypes
    <3>2. fh[j].dircluster \in Clusters /\ fh[j].diroff \in Slots
      BY <3>1 DEF HandleOK
    <3>3. fh[j].nm # nm
      BY <1>1, <1>2, <2>1, OtherNames
    <3>4. Slot(fh[j].dircluster, fh[j].diroff)' = Slot(fh[j].dircluster, fh[j].diroff)
      BY <1>10, <3>2
    <3>5. k.ext[fh[j].nm] = g.ext[fh[j].nm] /\ k.own = g.own /\ k.idx = g.idx
          /\ g.moving = k.moving
      BY <1>3, <1>4, <3>1, <3>3
    <3> QED BY <1>9, <1>10, <3>1, <3>3, <3>4, <3>5
  <2>2. \A j \in Handles \ {h} : fh'[j] = fh[j]
    BY <1>10
  <2>3. call'.h = h \/ call' = NoCall
    BY <1>11, <1>13
  <2> QED BY <1>15, <2>1, <2>2, <2>3, HandlesBut
<1>17. EntriesOK(k)'
  <2>1. \A d, b \in Clusters, t, u \in Slots :
          Slot(d, t)'.nm # Nil /\ Slot(d, t)'.nm = Slot(b, u)'.nm => d = b /\ t = u
    BY <1>3 DEF EntriesOK
  <2>2. \A d \in Clusters, t \in Slots : Slot(d, t)'.nm = Nil => Slot(d, t)' = NoEntry
    BY <1>3 DEF EntriesOK
  <2>3. \A d \in Clusters, t \in Slots :
          Slot(d, t)'.nm # Nil /\ Slot(d, t)'.nm # k.moving =>
            /\ Headed(k, Slot(d, t)'.nm, Slot(d, t)'.cluster)
            /\ Slot(d, t)'.size <= k.ext[Slot(d, t)'.nm]
    <3> SUFFICES ASSUME NEW d \in Clusters, NEW t \in Slots, Slot(d, t)'.nm # Nil
                 PROVE  /\ Headed(k, Slot(d, t)'.nm, Slot(d, t)'.cluster)
                        /\ Slot(d, t)'.size <= k.ext[Slot(d, t)'.nm]
      OBVIOUS
    <3>1. PICK b : b = Slot(d, t)
      OBVIOUS
    <3>2. Slot(d, t)' = b /\ b.nm # Nil /\ b.nm \in Names /\ b.size \in Nat
      <4>1. View(d) \in Parts
        BY <1>2, TypesOf, PartsOf, ViewType
      <4> QED BY <3>1, <4>1 DEF Parts, Slot
    <3>3. Headed(g, b.nm, b.cluster) /\ b.size <= g.ext[b.nm]
      BY <1>3, <3>1, <3>2 DEF EntriesOK
    <3>4. Headed(k, b.nm, b.cluster)
      BY <1>4, <3>3 DEF Headed
    <3>5. b.size <= k.ext[b.nm]
      <4>1. CASE b.nm = nm
        BY <1>4, <1>6, <3>2, <3>3, <4>1
      <4>2. CASE b.nm # nm
        BY <1>4, <3>2, <3>3, <4>2
      <4> QED BY <4>1, <4>2
    <3> QED BY <3>2, <3>4, <3>5
  <2>4. \A a \in Names : a # k.moving /\ NoEntryOf(a)' => k.len[a] = 0
    <3> SUFFICES ASSUME NEW a \in Names, NoEntryOf(a)' PROVE g.len[a] = 0
      BY <1>4
    <3>1. NoEntryOf(a)
      BY DEF NoEntryOf
    <3> QED BY <1>3, <3>1, Nils DEF EntriesOK
  <2>5. \A a \in Names : k.ext[a] <= k.len[a] * CLUSTER_SIZE /\ k.ext[a] <= MaxSize
    <3> SUFFICES ASSUME NEW a \in Names
                 PROVE  k.ext[a] <= g.len[a] * CLUSTER_SIZE /\ k.ext[a] <= MaxSize
      BY <1>4
    <3>1. g.ext[a] <= g.len[a] * CLUSTER_SIZE /\ g.ext[a] <= MaxSize
      BY <1>3 DEF EntriesOK
    <3> QED BY <1>4, <1>6, <3>1
  <2> QED BY <2>1, <2>2, <2>3, <2>4, <2>5 DEF EntriesOK
<1>18. CleanOK'
  <2>1. h \in {j \in Handles : fh'[j].mode = "write"}
    BY <1>9, <1>10
  <2> QED BY <2>1 DEF CleanOK, Writers
<1> QED BY <1>10, <1>14, <1>16, <1>17, <1>18

\* A step that writes words of nm in the clusters S, and nowhere else.
WroteStep(g, h, e, m, k, S) ==
  /\ call.op = "write" /\ call.at \in {"put", "direct"} /\ h = call.h
  /\ m > 0 /\ m <= call.n /\ WriteOn(e, m) /\ WroteAs(g, fh[h], e, m)
  /\ SpreadTo(g, fh[h].nm, e.pos, k)
  /\ FatQuiet /\ BuffersType' /\ BuffersOK'
  /\ \A b \in Buffers : fsb_t'[b].dirty = FSBDIRTY_SYS =>
       fsb_t[b].dirty = FSBDIRTY_SYS /\ fsb_t'[b].cluster = fsb_t[b].cluster
  /\ \A d \in S : /\ g.own[d] = fh[h].nm /\ WordsAt(k, d)'
                  /\ View(d)'.slot = View(d).slot /\ View(d)'.link = View(d).link
  /\ \A d \in Clusters \ S :
       /\ Kept(d)
       /\ g.own[d] = fh[h].nm => \A i \in 0 .. CLUSTER_SIZE - 1 :
            ~(/\ fh[h].pos <= g.idx[d] * CLUSTER_SIZE + i
              /\ g.idx[d] * CLUSTER_SIZE + i < e.pos)
  /\ bypassed \subseteq bypassed' /\ bypassed' \subseteq Clusters
  /\ closed' = closed /\ right' = TRUE /\ UNCHANGED private

\* WriteCluster and WriteDirect: the file is written further, in the clusters S.
LEMMA WroteHolds ==
  ASSUME NEW g, Holds(g), NEW h \in Handles, NEW e, NEW m \in Nat, NEW k,
         NEW S, S \subseteq Clusters, WroteStep(g, h, e, m, k, S)
  PROVE  Holds(k)'
<1>0. /\ call.op = "write" /\ call.at \in {"put", "direct"} /\ h = call.h
      /\ m > 0 /\ m <= call.n /\ WriteOn(e, m) /\ WroteAs(g, fh[h], e, m)
      /\ SpreadTo(g, fh[h].nm, e.pos, k)
      /\ FatQuiet /\ BuffersType' /\ BuffersOK'
      /\ bypassed \subseteq bypassed' /\ bypassed' \subseteq Clusters
      /\ closed' = closed /\ right' = TRUE /\ UNCHANGED private
  BY DEF WroteStep
<1>1. PICK f \in HandleType, nm \in Names : f = fh[h] /\ nm = f.nm
  BY <1>0, WriteBegins
<1>2. /\ TypeInv /\ DiskOK(g) /\ g \in Maps /\ HandleOK(g, h) /\ closed[nm] = NoFile
      /\ f.pos \in Nat /\ f.pos <= g.ext[nm] /\ nm # Nil /\ CallOK(g)
  BY <1>0, <1>1, WriteBegins, Nils
<1>3. /\ ChainsOK(g) /\ DirsOK(g) /\ EntriesOK(g) /\ WordsOK(g) /\ PowerOK(g)
      /\ g.moving = Nil /\ g.dirs \subseteq Clusters /\ BuffersType
      /\ fdNextCluster \in g.dirs /\ lastdircluster \in g.dirs
  BY <1>0, <1>2, DirsIn, TypesOf DEF DiskOK, CallOK
<1>4. /\ \A d \in S : /\ g.own[d] = nm /\ WordsAt(k, d)'
                      /\ View(d)'.slot = View(d).slot /\ View(d)'.link = View(d).link
      /\ \A d \in Clusters \ S :
           /\ Kept(d)
           /\ g.own[d] = nm => \A i \in 0 .. CLUSTER_SIZE - 1 :
                ~(/\ f.pos <= g.idx[d] * CLUSTER_SIZE + i
                  /\ g.idx[d] * CLUSTER_SIZE + i < e.pos)
  BY <1>1 DEF WroteStep
<1>5. /\ k \in Maps /\ k.own = g.own /\ k.idx = g.idx /\ k.len = g.len /\ k.dirs = g.dirs
      /\ k.pos = g.pos /\ k.dlen = g.dlen /\ k.loose = g.loose /\ k.moving = Nil
  BY <1>0, <1>3 DEF SpreadTo
<1>6. \A d \in S : d \notin g.dirs /\ View(d).link = 0 /\ \A t \in Slots : Slot(d, t).nm = Nil
  <2>1. \A d \in S : d \in Clusters /\ d \notin g.dirs
    BY <1>2, <1>3, <1>4 DEF ChainsOK
  <2> QED BY <1>3, <2>1 DEF DirsOK
<1>7. \A d \in Clusters : /\ View(d)'.link = View(d).link
                          /\ \A t \in Slots : Slot(d, t)' = Slot(d, t)
  <2> SUFFICES ASSUME NEW d \in Clusters
               PROVE  View(d)'.link = View(d).link /\ \A t \in Slots : Slot(d, t)' = Slot(d, t)
    OBVIOUS
  <2>1. CASE d \in S
    BY <1>4, <2>1 DEF Slot
  <2>2. CASE d \notin S
    BY <1>4, <2>2, KeptGives
  <2> QED BY <2>1, <2>2
<1>8. HandlesOK(k)' /\ CallOK(k)' /\ EntriesOK(k)'
      /\ call' \in CallType /\ fh' \in [Handles -> HandleType] /\ CleanOK'
  <2>1. \A c \in Clusters, s \in Slots : Slot(c, s)' = Slot(c, s)
    BY <1>7
  <2> QED BY <1>0, <2>1, WriteOnKeeps
<1>9. ChainsOK(k)'
  <2>1. Table' = Table
    BY <1>0 DEF FatQuiet
  <2> QED BY <1>3, <1>5, <2>1, ChainsKept
<1>10. DirsOK(k)'
  <2>1. \A b \in Buffers : fsb_t'[b].dirty = 1 => fsb_t'[b].cluster \in g.dirs
    BY <1>3 DEF DirsOK, WroteStep
  <2>2. fdNextCluster' \in g.dirs /\ lastdircluster' \in g.dirs
    BY <1>0, <1>3 DEF private
  <2>3. /\ \A c \in g.dirs :
             /\ g.pos[c] < g.dlen
             /\ IF g.pos[c] + 1 = g.dlen THEN View(c)'.link = 0
                ELSE View(c)'.link \in g.dirs /\ g.pos[View(c)'.link] = g.pos[c] + 1
        /\ \A c \in Clusters \ g.dirs : View(c)'.link = 0 /\ \A s \in Slots : Slot(c, s)'.nm = Nil
    BY <1>3, <1>7 DEF DirsOK
  <2>4. /\ ROOT_DIR_CLUSTER \in g.dirs /\ g.pos[ROOT_DIR_CLUSTER] = 0
        /\ \A c, d \in g.dirs : g.pos[c] = g.pos[d] => c = d
        /\ \A j \in 0 .. g.dlen - 1 : \E c \in g.dirs : g.pos[c] = j
    BY <1>3 DEF DirsOK
  <2> QED BY <1>5, <2>1, <2>2, <2>3, <2>4 DEF DirsOK
<1>11. WordsOK(k)'
  <2> SUFFICES ASSUME NEW d \in Clusters, d \notin S PROVE WordsAt(k, d)'
    BY <1>4 DEF WordsOK
  <2>1. /\ WordsAt(g, d) /\ Kept(d)
        /\ g.own[d] = nm => \A i \in 0 .. CLUSTER_SIZE - 1 :
             ~(/\ f.pos <= g.idx[d] * CLUSTER_SIZE + i
               /\ g.idx[d] * CLUSTER_SIZE + i < e.pos)
    BY <1>3, <1>4 DEF WordsOK
  <2>2. e.pos \in Nat /\ SpreadTo(g, nm, e.pos, k)
    <3>1. e.pos = f.pos + m
      BY <1>0, <1>1 DEF WroteAs
    <3> QED BY <1>0, <1>1, <1>2, <3>1
  <2>3. WordsAt(k, d)
    BY <1>2, <2>1, <2>2, SpreadWords
  <2>4. k.own[d] # Nil => k.ext[k.own[d]] \in Nat /\ k.idx[d] \in Nat
    BY <1>5 DEF Maps
  <2>5. k.own[d] # Nil => k.ext[k.own[d]] <= k.ext[k.own[d]]
    BY <2>4
  <2>6. k.own[d] # Nil => (d \in bypassed => d \in bypassed')
    BY <1>0
  <2> QED BY <2>1, <2>3, <2>4, <2>5, <2>6, KeptWords
<1>12. PowerOK(k)'
  <2> SUFFICES ASSUME NEW n \in Names PROVE PowerAt(k, n)'
    BY DEF PowerOK
  <2>1. PowerAt(g, n)
    BY <1>3 DEF PowerOK
  <2>2. \A d \in k.dirs : Kept(d) /\ d \in g.dirs
    BY <1>3, <1>4, <1>5, <1>6
  <2>3. \A d \in k.dirs : \/ d \notin g.dirs /\ k.pos[d] >= g.dlen
                          \/ d \in g.dirs /\ g.pos[d] + 1 = g.dlen
                          \/ /\ d \in g.dirs /\ View(d)'.link = View(d).link
                             /\ disk.cluster[d].link = View(d).link
                                  => disk'.cluster[d].link = View(d).link
    BY <2>2, KeptGives
  <2>4. ASSUME closed'[n] # NoFile
        PROVE  /\ closed'[n] = closed[n] /\ n # k.moving
               /\ \A d \in Clusters : k.own[d] = n =>
                    /\ g.own[d] = n /\ (Dirty(d)' => Dirty(d))
                    /\ disk'.fat[d] \in {disk.fat[d], Table[d]} /\ Table'[d] = Table[d]
               /\ \A d \in Clusters, t \in Slots :
                    Slot(d, t).nm = n /\ disk.cluster[d].slot[t] = Slot(d, t) =>
                      Slot(d, t)' = Slot(d, t) /\ disk'.cluster[d].slot[t] = Slot(d, t)
    <3>1. n # nm /\ n # Nil
      BY <1>0, <1>2, <2>4, Nils
    <3>2. \A d \in Clusters : k.own[d] = n => g.own[d] = n /\ Kept(d)
      BY <1>4, <1>5, <3>1
    <3>3. \A d \in Clusters, t \in Slots : Slot(d, t).nm = n => Kept(d)
      BY <1>4, <1>6, <3>1
    <3>4. \A d \in Clusters : disk'.fat[d] \in {disk.fat[d], Table[d]} /\ Table'[d] = Table[d]
      BY <1>0 DEF FatQuiet, FatStep
    <3> QED BY <1>0, <1>5, <3>1, <3>2, <3>3, <3>4, KeptGives
  <2>5. \A d \in g.dirs : d \in k.dirs /\ k.pos[d] = g.pos[d]
    BY <1>5
  <2>6. \A d \in g.dirs : g.pos[d] < g.dlen
    BY <1>3 DEF DirsOK
  <2> QED BY <1>2, <1>5, <2>1, <2>3, <2>4, <2>5, <2>6, PowerKept
<1>13. DiskOK(k)'
  BY <1>5, <1>8, <1>9, <1>10, <1>11, <1>12 DEF DiskOK
<1>14. TypeInv'
  <2>1. FatGood(Fat)' /\ fatAllocNext' \in CLUSTER_FIRST_USER .. LastCluster + 1
    BY <1>0, <1>2 DEF FatQuiet, FatStep, TypeInv, private
  <2>2. closed' \in [Names -> {NoFile} \cup (0 .. MaxSize)]
    BY <1>0, <1>2 DEF TypeInv
  <2> QED BY <1>0, <1>2, <1>8, <2>1, <2>2, TypesKept
<1> QED BY <1>0, <1>8, <1>13, <1>14, HoldsOf

\* A step that writes words of the file of the call.
Wrote(g) ==
  \E e : \E k \in Maps, m \in Nat, S \in SUBSET Clusters : WroteStep(g, call.h, e, m, k, S)

\* Words are written in the buffer of a cluster.
LEMMA WriteClusterWrote ==
  ASSUME NEW g, Holds(g), WriteCluster
  PROVE  Wrote(g)
<1>1. call.op = "write" /\ call.at = "put" /\ UNCHANGED <<fatbuf, private, history>>
  BY DEF WriteCluster
<1>2. PICK h \in Handles, f \in HandleType, n \in Nat, nm \in Names :
        h = call.h /\ f = fh[h] /\ n = call.n /\ nm = f.nm
  BY <1>1, WriteBegins
<1>3. /\ TypeInv /\ BuffersOK /\ BuffersType /\ DiskOK(g) /\ g \in Maps /\ right = TRUE
      /\ f.pos \in Nat /\ f.off \in 0 .. CLUSTER_SIZE /\ f.off \in Nat
      /\ f.pos + n <= MaxSize /\ f.pos <= g.ext[nm] /\ g.ext[nm] \in Nat
      /\ bypassed \subseteq Clusters
  BY <1>1, <1>2, WriteBegins
<1>4. PICK c \in Clusters : c = f.cluster
  <2>1. f.cluster # 0 /\ f.cluster \in {0} \cup Clusters
    BY <1>1, <1>2, WriteBegins DEF WriteOK
  <2> QED BY <2>1
<1>5. /\ g.own[c] = nm /\ g.idx[c] \in Nat /\ f.pos = g.idx[c] * CLUSTER_SIZE + f.off
      /\ nm # Nil /\ ChainsOK(g) /\ WordsOK(g) /\ DirsOK(g)
  <2>1. f.cluster # 0
    BY <1>4, Numbered
  <2> QED BY <1>1, <1>2, <1>3, <1>4, <2>1, WriteBegins, Nils DEF DiskOK
<1>6. PICK m \in Nat : m = Span(f) /\ m > 0 /\ m <= n /\ m <= CLUSTER_SIZE - f.off
  BY <1>2, <1>3, SpanIs DEF WriteCluster
<1>7. Contents(c) = View(c) /\ View(c) \in Parts
  BY <1>3, ContentsIsView, ViewType
<1>8. PICK word : word = Put(View(c).word, f, f.off, f.pos, m)
  OBVIOUS
<1>9. PICK new : new = [View(c) EXCEPT !.word = word]
  OBVIOUS
<1>10. PICK e : e = [f EXCEPT !.off = @ + m, !.pos = @ + m]
  OBVIOUS
<1>11. Change(c, FSBPRI_USR, FSBDIRTY_USR, new) /\ WriteOn(e, m)
  BY <1>2, <1>4, <1>6, <1>7, <1>8, <1>9, <1>10 DEF WriteCluster
<1>12. word = [j \in 0 .. CLUSTER_SIZE - 1 |->
                 IF j \in f.off .. f.off + m - 1 THEN <<nm, f.pos + j - f.off>>
                 ELSE View(c).word[j]]
  <2>1. DOMAIN View(c).word = 0 .. CLUSTER_SIZE - 1
    BY <1>7 DEF Parts
  <2> QED BY <1>2, <1>8, <2>1 DEF Put
<1>13. word \in [0 .. CLUSTER_SIZE - 1 -> Words]
  <2> SUFFICES ASSUME NEW j \in 0 .. CLUSTER_SIZE - 1 PROVE word[j] \in Words
    BY <1>12
  <2>1. CASE j \in f.off .. f.off + m - 1
    <3>1. f.pos + j - f.off \in 0 .. MaxSize - 1
      BY <1>2, <1>3, <1>6, <2>1, Sizes
    <3> QED BY <1>12, <2>1, <3>1 DEF Words
  <2>2. CASE j \notin f.off .. f.off + m - 1
    BY <1>7, <1>12, <2>2 DEF Parts
  <2> QED BY <2>1, <2>2
<1>14. new \in Parts /\ new.slot = View(c).slot /\ new.link = View(c).link /\ new.word = word
  BY <1>7, <1>9, <1>13 DEF Parts
<1>15. Changed(c, FSBDIRTY_USR, new)
  BY <1>1, <1>3, <1>11, <1>14, ChangedIs
<1>16. /\ BuffersType' /\ BuffersOK' /\ OneDirtied(c, FSBDIRTY_USR) /\ FatQuiet
       /\ (\A d \in Clusters \ {c} : Kept(d)) /\ View(c)' = new /\ Dirty(c)'
  BY <1>15 DEF Changed
<1>17. /\ e \in HandleType /\ e.nm = nm /\ e.mode = f.mode /\ e.dircluster = f.dircluster
       /\ e.diroff = f.diroff /\ e.firstcluster = f.firstcluster /\ e.cluster = c
       /\ e.size = f.size /\ e.dirty = f.dirty /\ e.pos = f.pos + m /\ e.off = f.off + m
  <2>1. f.off + m \in 0 .. CLUSTER_SIZE /\ f.pos + m \in 0 .. MaxSize
    BY <1>2, <1>3, <1>6, Sizes
  <2> QED BY <1>2, <1>4, <1>10, <2>1 DEF HandleType
<1>18. PICK q \in Nat : q = g.idx[c] * CLUSTER_SIZE
  BY <1>5, Times
<1>19. WroteAs(g, f, e, m)
  BY <1>2, <1>3, <1>5, <1>17, <1>18 DEF WroteAs, SameFile
<1>20. PICK k \in Maps : SpreadTo(g, nm, e.pos, k)
  BY <1>3, <1>17, Spread
<1>21. WordsAt(k, c)'
  <2> SUFFICES ASSUME NEW i \in 0 .. CLUSTER_SIZE - 1, c \notin bypassed',
                      k.idx[c] * CLUSTER_SIZE + i < k.ext[k.own[c]]
               PROVE  View(c)'.word[i] = <<k.own[c], k.idx[c] * CLUSTER_SIZE + i>>
    BY <1>16 DEF WordsAt
  <2>1. k.own[c] = nm /\ k.idx[c] = g.idx[c] /\ k.ext[nm] \in {g.ext[nm], e.pos}
    BY <1>5, <1>20 DEF SpreadTo
  <2>2. View(c)'.word[i] = word[i] /\ i \in Nat
    BY <1>14, <1>16, Sizes
  <2>3. CASE i \in f.off .. f.off + m - 1
    <3>1. f.pos + i - f.off = q + i
      BY <1>3, <1>5, <1>18, <2>2
    <3> QED BY <1>12, <1>18, <2>1, <2>2, <2>3, <3>1
  <2>4. CASE i \notin f.off .. f.off + m - 1
    <3>1. q + i < g.ext[nm]
      BY <1>3, <1>5, <1>6, <1>17, <1>18, <2>1, <2>2, <2>4
    <3>2. c \notin bypassed /\ WordsAt(g, c)
      BY <1>1, <1>5 DEF WordsOK, history
    <3>3. View(c).word[i] = <<nm, q + i>>
      BY <1>5, <1>18, <3>1, <3>2 DEF WordsAt
    <3> QED BY <1>12, <1>18, <2>1, <2>2, <2>4, <3>3
  <2> QED BY <2>3, <2>4
<1>22. ASSUME NEW d \in Clusters \ {c}, g.own[d] = nm, NEW i \in 0 .. CLUSTER_SIZE - 1
       PROVE  ~(/\ f.pos <= g.idx[d] * CLUSTER_SIZE + i
                /\ g.idx[d] * CLUSTER_SIZE + i < e.pos)
  <2>1. PICK y \in Nat, j \in Nat, p \in Nat :
          y = g.idx[d] /\ j = g.idx[c] /\ p = y * CLUSTER_SIZE
    <3>1. g.idx[d] \in Nat
      BY <1>3 DEF Maps
    <3> QED BY <1>5, <3>1, Times
  <2>2. y # j
    BY <1>5, <1>22, <2>1 DEF ChainsOK
  <2>3. CASE y < j
    <3>1. p + CLUSTER_SIZE <= q
      BY <1>18, <2>1, <2>3, TimesApart
    <3> QED BY <1>3, <1>5, <1>18, <2>1, <3>1, Sizes
  <2>4. CASE j < y
    <3>1. q + CLUSTER_SIZE <= p
      BY <1>5, <1>18, <2>1, <2>4, TimesApart
    <3>2. PICK o \in Nat, t \in Nat, u \in Nat : o = f.off /\ t = CLUSTER_SIZE /\ u = i
      BY <1>3, Sizes
    <3>3. e.pos = q + o + m /\ o + m <= t
      <4>1. f.pos = q + o /\ e.pos = f.pos + m /\ m <= t - o
        BY <1>5, <1>6, <1>17, <1>18, <3>2
      <4> QED BY <4>1, <3>2
    <3>4. g.idx[d] * CLUSTER_SIZE + i = p + u
      BY <2>1, <3>2
    <3>5. q + t <= p
      BY <3>1, <3>2
    <3>6. ~(p + u < q + o + m)
      BY <3>3, <3>5, <3>2
    <3>7. ~(g.idx[d] * CLUSTER_SIZE + i < e.pos)
      <4>1. PICK r : r = g.idx[d] * CLUSTER_SIZE + i
        OBVIOUS
      <4>2. r = p + u /\ ~(r < e.pos)
        BY <3>3, <3>4, <3>6, <4>1
      <4> QED BY <4>1, <4>2
    <3> QED BY <3>7
  <2>5. y < j \/ j < y
    BY <2>1, <2>2
  <2> QED BY <2>3, <2>4, <2>5
<1>23. WroteStep(g, h, e, m, k, {c})
  <2>1. \A b \in Buffers : fsb_t'[b].dirty = FSBDIRTY_SYS =>
          fsb_t[b].dirty = FSBDIRTY_SYS /\ fsb_t'[b].cluster = fsb_t[b].cluster
    BY <1>16 DEF OneDirtied
  <2>2. bypassed' = bypassed /\ closed' = closed /\ right' = TRUE /\ UNCHANGED private
    BY <1>1, <1>3 DEF history
  <2>3. m > 0 /\ m <= call.n /\ WriteOn(e, m) /\ call.at \in {"put", "direct"}
    BY <1>1, <1>2, <1>6, <1>11
  <2>4. View(c)'.slot = View(c).slot /\ View(c)'.link = View(c).link
    BY <1>14, <1>16
  <2>5. \A d \in Clusters \ {c} :
          /\ Kept(d)
          /\ g.own[d] = nm => \A i \in 0 .. CLUSTER_SIZE - 1 :
               ~(/\ f.pos <= g.idx[d] * CLUSTER_SIZE + i
                 /\ g.idx[d] * CLUSTER_SIZE + i < e.pos)
    BY <1>16, <1>22
  <2> QED BY <1>1, <1>2, <1>3, <1>5, <1>16, <1>19, <1>20, <1>21, <2>1, <2>2, <2>3, <2>4, <2>5
          DEF WroteStep
<1>24. {c} \in SUBSET Clusters
  OBVIOUS
<1> QED BY <1>2, <1>6, <1>20, <1>23, <1>24 DEF Wrote

\* Words are written on the disk, past the buffers.
LEMMA WriteDirectWrote ==
  ASSUME NEW g, Holds(g), WriteDirect
  PROVE  Wrote(g)
<1>1. /\ call.op = "write" /\ call.at = "direct"
      /\ UNCHANGED <<fsb_t, fatbuf, private, closed, right, calls>>
      /\ bypassed' = bypassed \cup {d \in Direct : \E b \in Buffers : fsb_t[b].cluster = d}
  BY DEF WriteDirect
<1>2. PICK h \in Handles, f \in HandleType, n \in Nat, nm \in Names, num \in Nat :
        h = call.h /\ f = fh[h] /\ n = call.n /\ nm = f.nm /\ num = call.num
  BY <1>1, WriteBegins
<1>3. /\ TypeInv /\ BuffersOK /\ BuffersType /\ DiskOK(g) /\ g \in Maps /\ right = TRUE
      /\ f.pos \in Nat /\ f.off \in 0 .. CLUSTER_SIZE /\ f.off \in Nat
      /\ f.pos + n <= MaxSize /\ f.pos <= g.ext[nm] /\ g.ext[nm] \in Nat
      /\ bypassed \subseteq Clusters
  BY <1>1, <1>2, WriteBegins
<1>4. /\ f.cluster # 0 /\ f.off = CLUSTER_SIZE /\ num > 0 /\ num * CLUSTER_SIZE <= n
      /\ Follow(g, f, call.x, num)
  <2>1. WriteOK(g)
    BY <1>1, WriteBegins
  <2> QED BY <1>1, <1>2, <2>1 DEF WriteOK, Follow
<1>5. PICK c \in Clusters, x \in Nat : c = f.cluster /\ x = call.x
  <2>1. f.cluster \in {0} \cup Clusters /\ call.x \in {0} \cup Clusters
    BY <1>1, <1>2, WriteBegins
  <2> QED BY <1>4, <2>1, Numbered
<1>6. /\ g.own[c] = nm /\ g.idx[c] \in Nat /\ f.pos = g.idx[c] * CLUSTER_SIZE + CLUSTER_SIZE
      /\ nm # Nil /\ ChainsOK(g) /\ WordsOK(g) /\ DirsOK(g) /\ EntriesOK(g)
  BY <1>1, <1>2, <1>3, <1>4, <1>5, WriteBegins, Nils DEF DiskOK
<1>7. PICK m \in Nat, j \in Nat : m = num * CLUSTER_SIZE /\ j = g.idx[c] + 1
  <2>1. num * CLUSTER_SIZE \in Nat /\ g.idx[c] + 1 \in Nat
    BY <1>6, Times
  <2> QED BY <2>1
<1>8. m > 0 /\ m <= n /\ f.pos = j * CLUSTER_SIZE
  <2>1. num * CLUSTER_SIZE >= CLUSTER_SIZE
    BY <1>4, Times
  <2>2. PICK l \in Nat : l = g.idx[c] /\ j = l + 1
    BY <1>6, <1>7
  <2>3. (l + 1) * CLUSTER_SIZE = l * CLUSTER_SIZE + CLUSTER_SIZE
    BY Times
  <2>4. f.pos = j * CLUSTER_SIZE
    BY <1>6, <2>2, <2>3
  <2> QED BY <1>4, <1>7, <2>1, <2>4, Sizes
<1> DEFINE S == x .. x + num - 1
<1>9. Direct = S
  BY <1>2, <1>5 DEF Direct
<1>10. \A d \in S : /\ d \in Clusters /\ g.own[d] = nm /\ g.idx[d] = j + (d - x)
                    /\ d - x \in 0 .. num - 1
  BY <1>2, <1>4, <1>5, <1>7 DEF Follow
<1>11. x + num - 1 \in S
  BY <1>4
<1> HIDE DEF S
<1>12. PICK z \in S : z = x + num - 1
  BY <1>11
<1> DEFINE Word(d, i) == <<nm, f.pos + (d - x) * CLUSTER_SIZE + i>>
           New(d) == [Blank EXCEPT !.word = [i \in DOMAIN @ |-> Word(d, i)]]
<1>13. PICK e : e = [f EXCEPT !.cluster = z, !.off = CLUSTER_SIZE, !.pos = @ + m]
  OBVIOUS
<1>14. /\ disk' = [disk EXCEPT !.cluster = [d \in Clusters |-> IF d \in S THEN New(d) ELSE @[d]]]
       /\ WriteOn(e, m)
  BY <1>2, <1>5, <1>7, <1>9, <1>12, <1>13 DEF WriteDirect
<1>15. \A d \in S : /\ New(d).slot = [s \in Slots |-> NoEntry] /\ New(d).link = 0
                    /\ New(d).word = [i \in 0 .. CLUSTER_SIZE - 1 |-> Word(d, i)]
                    /\ New(d) \in Parts
  <2> SUFFICES ASSUME NEW d \in S
               PROVE  /\ New(d).slot = [s \in Slots |-> NoEntry] /\ New(d).link = 0
                      /\ New(d).word = [i \in 0 .. CLUSTER_SIZE - 1 |-> Word(d, i)]
                      /\ New(d) \in Parts
    OBVIOUS
  <2>1. PICK word : word = [i \in 0 .. CLUSTER_SIZE - 1 |-> Word(d, i)]
    OBVIOUS
  <2>2. word \in [0 .. CLUSTER_SIZE - 1 -> Words]
    <3> SUFFICES ASSUME NEW i \in 0 .. CLUSTER_SIZE - 1
                 PROVE  f.pos + (d - x) * CLUSTER_SIZE + i \in 0 .. MaxSize - 1
      BY <2>1 DEF Words
    <3>1. PICK y \in Nat : y = d - x /\ y < num
      BY <1>10
    <3>2. y * CLUSTER_SIZE + CLUSTER_SIZE <= num * CLUSTER_SIZE /\ y * CLUSTER_SIZE \in Nat
      BY <3>1, Times, TimesApart
    <3> QED BY <1>3, <1>7, <1>8, <3>1, <3>2, Sizes
  <2>3. New(d) = [slot |-> [s \in Slots |-> NoEntry], link |-> 0, word |-> word]
    <3>1. PICK w : w = [i \in 0 .. CLUSTER_SIZE - 1 |-> NoWord]
      OBVIOUS
    <3>2. DOMAIN w = 0 .. CLUSTER_SIZE - 1
      BY <3>1
    <3>3. Blank = [slot |-> [s \in Slots |-> NoEntry], link |-> 0, word |-> w]
      BY <3>1 DEF Blank
    <3>4. New(d) = [Blank EXCEPT !.word = [i \in DOMAIN w |-> Word(d, i)]]
      BY <3>3
    <3>5. [i \in DOMAIN w |-> Word(d, i)] = word
      BY <2>1, <3>2
    <3>6. New(d) = [Blank EXCEPT !.word = word]
      BY <3>4, <3>5
    <3> HIDE DEF New
    <3> QED BY <3>3, <3>6
  <2>4. [s \in Slots |-> NoEntry] \in [Slots -> [nm : Names \cup {Nil}, size : 0 .. MaxSize,
                                                 cluster : {0} \cup Clusters]]
    BY Sizes DEF NoEntry
  <2> HIDE DEF New
  <2>5. New(d) \in Parts
    BY <2>2, <2>3, <2>4 DEF Parts
  <2> QED BY <2>1, <2>3, <2>5
<1> HIDE DEF New
<1>16. /\ disk'.fat = disk.fat /\ disk' = [fat |-> disk'.fat, cluster |-> disk'.cluster]
       /\ \A d \in Clusters : disk'.cluster[d] = IF d \in S THEN New(d) ELSE disk.cluster[d]
       /\ disk'.cluster \in [Clusters -> Parts]
  <2>1. disk \in DiskType
    BY <1>3, TypesOf
  <2> QED BY <1>14, <1>15, <2>1 DEF DiskType
<1>17. BuffersType'
  BY <1>1, <1>3, <1>16 DEF BuffersType
<1>18. FatQuiet
  <2>1. disk' \in DiskType
    BY <1>3, <1>16, <1>17, DiskTypeOf
  <2> QED BY <1>1, <1>3, <1>16, <2>1, TableStill
<1>19. \A d \in S : View(d).link = 0 /\ View(d).slot = [s \in Slots |-> NoEntry]
  <2> SUFFICES ASSUME NEW d \in S
               PROVE  View(d).link = 0 /\ View(d).slot = [s \in Slots |-> NoEntry]
    OBVIOUS
  <2>1. d \in Clusters /\ d \notin g.dirs
    BY <1>6, <1>10 DEF ChainsOK
  <2>2. View(d).link = 0 /\ \A s \in Slots : Slot(d, s) = NoEntry
    BY <1>6, <2>1 DEF DirsOK, EntriesOK
  <2>3. View(d) \in Parts
    BY <1>3, <2>1, ViewType
  <2> QED BY <2>2, <2>3 DEF Parts, Slot
<1>20. BuffersOK'
  <2>1. \A b, i \in Buffers : fsb_t[b].cluster # 0 /\ fsb_t[b].cluster = fsb_t[i].cluster => b = i
    BY <1>3 DEF BuffersOK
  <2>2. ASSUME NEW b \in Buffers
        PROVE  IF fsb_t[b].cluster = 0 THEN fsb_t[b].dirty = 0
               ELSE fsb_t[b].dirty = 0 =>
                      /\ fsb_t[b].buf.slot = disk'.cluster[fsb_t[b].cluster].slot
                      /\ fsb_t[b].buf.link = disk'.cluster[fsb_t[b].cluster].link
    <3>1. CASE fsb_t[b].cluster \in S
      <4>1. PICK d \in S : d = fsb_t[b].cluster
        BY <3>1
      <4>2. View(d) = fsb_t[b].buf /\ d # 0
        BY <1>3, <1>10, <4>1, ViewIs, Numbered
      <4> QED BY <1>10, <1>15, <1>16, <1>19, <4>1, <4>2, ZenonT(40)
    <3>2. CASE fsb_t[b].cluster \notin S
      <4>1. fsb_t[b].cluster \in {0} \cup Clusters
        BY <1>3 DEF BuffersType, BufferType
      <4> QED BY <1>3, <1>16, <3>2, <4>1 DEF BuffersOK
    <3> QED BY <3>1, <3>2
  <2> QED BY <1>1, <2>1, <2>2 DEF BuffersOK
<1>21. \A d \in Clusters : IF \E b \in Buffers : fsb_t[b].cluster = d THEN View(d)' = View(d)
                           ELSE View(d)' = disk'.cluster[d] /\ View(d) = disk.cluster[d]
  BY <1>1, <1>3, <1>20, ViewIs, ViewWillBe
<1>22. \A d \in Clusters : Dirty(d)' = Dirty(d)
  BY <1>1 DEF Dirty
<1>23. \A d \in Clusters \ S : Kept(d)
  BY <1>16, <1>21, <1>22 DEF Kept
<1>24. \A d \in S : View(d)'.slot = View(d).slot /\ View(d)'.link = View(d).link
  <2> SUFFICES ASSUME NEW d \in S
               PROVE  View(d)'.slot = View(d).slot /\ View(d)'.link = View(d).link
    OBVIOUS
  <2>1. CASE \E b \in Buffers : fsb_t[b].cluster = d
    <3>1. View(d)' = View(d)
      BY <1>10, <1>21, <2>1
    <3> QED BY <3>1
  <2>2. CASE ~\E b \in Buffers : fsb_t[b].cluster = d
    <3>1. View(d)' = New(d)
      BY <1>10, <1>16, <1>21, <2>2
    <3> QED BY <1>15, <1>19, <3>1
  <2> QED BY <2>1, <2>2
<1>25. /\ e \in HandleType /\ e.nm = nm /\ e.mode = f.mode /\ e.dircluster = f.dircluster
       /\ e.diroff = f.diroff /\ e.firstcluster = f.firstcluster /\ e.cluster = z
       /\ e.size = f.size /\ e.dirty = f.dirty /\ e.pos = f.pos + m /\ e.off = CLUSTER_SIZE
  <2>1. CLUSTER_SIZE \in 0 .. CLUSTER_SIZE /\ f.pos + m \in 0 .. MaxSize /\ z \in Clusters
    BY <1>3, <1>8, <1>10, Sizes
  <2> QED BY <1>2, <1>13, <2>1 DEF HandleType
<1>26. f.pos + m = (j + num) * CLUSTER_SIZE
  <2>1. (j + num) * CLUSTER_SIZE = j * CLUSTER_SIZE + num * CLUSTER_SIZE
    BY TimesSum
  <2> QED BY <1>7, <1>8, <2>1
<1>27. WroteAs(g, f, e, m)
  <2>1. PICK y \in Nat : num = y + 1
    <3>1. num - 1 \in Nat /\ num = (num - 1) + 1
      BY <1>4
    <3> QED BY <3>1
  <2>2. g.idx[z] = j + y /\ g.own[z] = nm /\ z \in Clusters
    BY <1>10, <1>12, <2>1
  <2>3. PICK w \in Nat : w = j + y /\ j + num = w + 1
    BY <2>1
  <2>4. (w + 1) * CLUSTER_SIZE = w * CLUSTER_SIZE + CLUSTER_SIZE
    BY Times
  <2> QED BY <1>2, <1>25, <1>26, <2>2, <2>3, <2>4 DEF WroteAs, SameFile
<1>28. PICK k \in Maps : SpreadTo(g, nm, e.pos, k)
  BY <1>3, <1>25, Spread
<1>29. ASSUME NEW d \in S PROVE WordsAt(k, d)'
  <2>1. CASE \E b \in Buffers : fsb_t[b].cluster = d
    <3>1. d \in bypassed'
      BY <1>1, <1>9, <2>1
    <3> QED BY <3>1 DEF WordsAt
  <2>2. CASE ~\E b \in Buffers : fsb_t[b].cluster = d
    <3>1. View(d)' = New(d) /\ disk'.cluster[d] = New(d)
      BY <1>10, <1>16, <1>21, <2>2
    <3>2. ASSUME NEW i \in 0 .. CLUSTER_SIZE - 1
          PROVE  New(d).word[i] = <<k.own[d], k.idx[d] * CLUSTER_SIZE + i>>
      <4>1. PICK y \in Nat : y = d - x
        BY <1>10
      <4>2. k.own[d] = nm /\ k.idx[d] = j + y
        BY <1>10, <1>28, <4>1 DEF SpreadTo
      <4>3. (j + y) * CLUSTER_SIZE = j * CLUSTER_SIZE + y * CLUSTER_SIZE
        BY TimesSum
      <4>4. New(d).word[i] = <<nm, f.pos + y * CLUSTER_SIZE + i>>
        BY <1>15, <4>1
      <4> QED BY <1>8, <4>2, <4>3, <4>4
    <3> QED BY <3>1, <3>2 DEF WordsAt
  <2> QED BY <2>1, <2>2
<1>30. ASSUME NEW d \in Clusters \ S, g.own[d] = nm, NEW i \in 0 .. CLUSTER_SIZE - 1
       PROVE  ~(/\ f.pos <= g.idx[d] * CLUSTER_SIZE + i
                /\ g.idx[d] * CLUSTER_SIZE + i < e.pos)
  <2>1. PICK y \in Nat, p \in Nat, r \in Nat, q \in Nat, l \in Nat :
          /\ y = g.idx[d] /\ p = y * CLUSTER_SIZE /\ r = j * CLUSTER_SIZE
          /\ l = j + num /\ q = l * CLUSTER_SIZE
    <3>1. g.idx[d] \in Nat
      BY <1>3 DEF Maps
    <3>2. PICK y \in Nat, l \in Nat : y = g.idx[d] /\ l = j + num
      BY <3>1
    <3>3. y * CLUSTER_SIZE \in Nat /\ j * CLUSTER_SIZE \in Nat /\ l * CLUSTER_SIZE \in Nat
      BY Times
    <3> QED BY <3>2, <3>3
  <2>2. f.pos = r /\ e.pos = q /\ i \in Nat /\ i < CLUSTER_SIZE
    BY <1>8, <1>25, <1>26, <2>1, Sizes
  <2>3. CASE y < j
    <3>1. p + CLUSTER_SIZE <= r
      BY <2>1, <2>3, TimesApart
    <3> QED BY <2>1, <2>2, <3>1, Sizes
  <2>4. CASE y >= l
    <3>1. y = l \/ l < y
      BY <2>1, <2>4
    <3>2. l < y => q + CLUSTER_SIZE <= p
      BY <2>1, TimesApart
    <3>3. q <= p
      BY <2>1, <3>1, <3>2, Sizes
    <3> QED BY <2>1, <2>2, <3>3
  <2>5. CASE j <= y /\ y < l
    <3>1. PICK v \in S : v = x + (y - j)
      <4>1. x + (y - j) \in x .. x + num - 1
        BY <2>1, <2>5
      <4> QED BY <4>1 DEF S
    <3>2. v \in Clusters /\ g.own[v] = nm /\ g.idx[v] = y
      BY <1>10, <2>1, <3>1
    <3>3. v = d
      BY <1>6, <1>30, <2>1, <3>2 DEF ChainsOK
    <3> QED BY <3>1, <3>3
  <2> QED BY <2>1, <2>3, <2>4, <2>5
<1>31. WroteStep(g, h, e, m, k, S)
  <2>1. /\ bypassed \subseteq bypassed' /\ bypassed' \subseteq Clusters /\ closed' = closed
        /\ right' = TRUE /\ UNCHANGED private
    BY <1>1, <1>3, <1>9, <1>10
  <2>2. m > 0 /\ m <= call.n /\ WriteOn(e, m) /\ call.at \in {"put", "direct"}
    BY <1>1, <1>2, <1>8, <1>14
  <2>3. \A d \in Clusters \ S :
          /\ Kept(d)
          /\ g.own[d] = nm => \A i \in 0 .. CLUSTER_SIZE - 1 :
               ~(/\ f.pos <= g.idx[d] * CLUSTER_SIZE + i
                 /\ g.idx[d] * CLUSTER_SIZE + i < e.pos)
    BY <1>23, <1>30
  <2>4. \A d \in S : /\ g.own[d] = nm /\ WordsAt(k, d)'
                     /\ View(d)'.slot = View(d).slot /\ View(d)'.link = View(d).link
    BY <1>10, <1>24, <1>29
  <2>5. \A b \in Buffers : fsb_t'[b].dirty = FSBDIRTY_SYS =>
          fsb_t[b].dirty = FSBDIRTY_SYS /\ fsb_t'[b].cluster = fsb_t[b].cluster
    BY <1>1
  <2> QED BY <1>1, <1>2, <1>17, <1>18, <1>20, <1>27, <1>28, <2>1, <2>2, <2>3, <2>4, <2>5
          DEF WroteStep
<1>32. S \in SUBSET Clusters
  BY <1>10
<1> QED BY <1>2, <1>7, <1>28, <1>31, <1>32 DEF Wrote

\* Both have a next map.
LEMMA WriteClusterHolds ==
  ASSUME NEW g, Holds(g), WriteCluster
  PROVE  \E k \in Maps : Holds(k)'
<1>1. PICK e : \E k \in Maps, m \in Nat, S \in SUBSET Clusters : WroteStep(g, call.h, e, m, k, S)
  BY WriteClusterWrote DEF Wrote
<1>2. PICK k \in Maps, m \in Nat, S \in SUBSET Clusters : WroteStep(g, call.h, e, m, k, S)
  BY <1>1
<1>3. call.h \in Handles
  BY WriteBegins DEF WriteCluster
<1>4. Holds(k)'
  BY <1>2, <1>3, WroteHolds
<1> QED BY <1>4

\* The words past the buffers have theirs too.
LEMMA WriteDirectHolds ==
  ASSUME NEW g, Holds(g), WriteDirect
  PROVE  \E k \in Maps : Holds(k)'
<1>1. PICK e : \E k \in Maps, m \in Nat, S \in SUBSET Clusters : WroteStep(g, call.h, e, m, k, S)
  BY WriteDirectWrote DEF Wrote
<1>2. PICK k \in Maps, m \in Nat, S \in SUBSET Clusters : WroteStep(g, call.h, e, m, k, S)
  BY <1>1
<1>3. call.h \in Handles
  BY WriteBegins DEF WriteDirect
<1>4. Holds(k)'
  BY <1>2, <1>3, WroteHolds
<1> QED BY <1>4

-----------------------------------------------------------------------------
(***************************************************************************)
(* Walks along links: the directory, and the chains of the table.          *)
(***************************************************************************)

\* Where a walk goes from a value.
On(next) == [p \in 0 .. LastCluster |-> IF p \in Clusters THEN next[p] ELSE p]

\* A walk as far as place m.
WalksTo(next, c, m, f) == f = [k \in 0 .. m |-> IF k = 0 THEN c ELSE On(next)[f[k - 1]]]

\* A walk is defined: what Walk chooses exists, place by place.
LEMMA WalkRec ==
  ASSUME NEW next, NEW c
  PROVE  Walk(next, c) = [k \in Places |-> IF k = 0 THEN c
                                           ELSE On(next)[Walk(next, c)[k - 1]]]
<1> DEFINE T == {m \in Nat : ~\E f : WalksTo(next, c, m, f)}
<1>1. T = {}
  <2> SUFFICES ASSUME T # {} PROVE FALSE
    OBVIOUS
  <2>1. PICK m \in T : \A y \in T : m <= y
    <3>1. T \subseteq Nat
      OBVIOUS
    <3> HIDE DEF T
    <3> QED BY <3>1, LeastNat
  <2>2. m \in Nat /\ ~\E f : WalksTo(next, c, m, f)
    BY <2>1
  <2>3. CASE m = 0
    <3>1. PICK f : f = [k \in 0 .. 0 |-> c]
      OBVIOUS
    <3>2. WalksTo(next, c, 0, f)
      BY <3>1 DEF WalksTo
    <3> QED BY <2>2, <2>3, <3>2
  <2>4. CASE m # 0
    <3>1. m - 1 \in Nat /\ m - 1 \notin T
      BY <2>1, <2>2, <2>4
    <3>2. PICK f : WalksTo(next, c, m - 1, f)
      BY <3>1
    <3>3. PICK e : e = [k \in 0 .. m |-> IF k = 0 THEN c ELSE On(next)[f[k - 1]]]
      OBVIOUS
    <3>4. \A k \in 0 .. m - 1 : e[k] = f[k]
      BY <2>2, <3>1, <3>2, <3>3 DEF WalksTo
    <3>5. \A k \in 0 .. m : k # 0 => k - 1 \in 0 .. m - 1
      BY <2>2
    <3>6. \A k \in 0 .. m : k # 0 => f[k - 1] = e[k - 1]
      BY <3>4, <3>5
    <3>7. e = [k \in 0 .. m |-> IF k = 0 THEN c ELSE On(next)[e[k - 1]]]
      BY <3>3, <3>6
    <3>8. WalksTo(next, c, m, e)
      BY <3>7 DEF WalksTo
    <3> QED BY <2>2, <3>8
  <2> QED BY <2>3, <2>4
<1>2. LastCluster - 3 \in Nat
  BY Sizes
<1>3. PICK f : WalksTo(next, c, LastCluster - 3, f)
  BY <1>1, <1>2
<1>4. f = [k \in Places |-> IF k = 0 THEN c ELSE On(next)[f[k - 1]]]
  BY <1>3 DEF WalksTo, Places
<1>5. Walk(next, c) = CHOOSE e : e = [k \in Places |-> IF k = 0 THEN c ELSE On(next)[e[k - 1]]]
  BY DEF Walk, On
<1> QED BY <1>4, <1>5

\* The steps of a walk.
LEMMA WalkStep ==
  ASSUME NEW next, NEW c
  PROVE  /\ Walk(next, c)[0] = c
         /\ \A k \in Places : k + 1 \in Places =>
              /\ Walk(next, c)[k] \in Clusters =>
                   Walk(next, c)[k + 1] = next[Walk(next, c)[k]]
              /\ Walk(next, c)[k] = 0 => Walk(next, c)[k + 1] = 0
<1>1. PICK w : w = Walk(next, c)
  OBVIOUS
<1>2. w = [k \in Places |-> IF k = 0 THEN c ELSE On(next)[w[k - 1]]]
  BY <1>1, WalkRec
<1>3. 0 \in Places /\ \A k \in Places : k \in Nat
  BY Sizes DEF Places
<1>4. w[0] = c
  BY <1>2, <1>3
<1>5. ASSUME NEW k \in Places, k + 1 \in Places
      PROVE  w[k + 1] = On(next)[w[k]]
  <2>1. k + 1 # 0 /\ (k + 1) - 1 = k
    BY <1>3
  <2> QED BY <1>2, <1>5, <2>1
<1>6. /\ \A p \in Clusters : On(next)[p] = next[p]
      /\ On(next)[0] = 0
  BY Numbered, Sizes DEF On
<1> QED BY <1>1, <1>4, <1>5, <1>6

\* Links that go up by one place, below place b.
GoesUp(next, S, r, b) ==
  /\ S \subseteq Clusters /\ \A d \in S : r[d] \in Nat
  /\ \A d \in S : r[d] < b => next[d] \in S /\ r[next[d]] = r[d] + 1

\* A walk goes up.
LEMMA WalkUp ==
  ASSUME NEW next, NEW S, NEW r, NEW b \in Nat, GoesUp(next, S, r, b), NEW c \in S
  PROVE  \A k \in Places : r[c] + k <= b => /\ Walk(next, c)[k] \in S
                                            /\ r[Walk(next, c)[k]] = r[c] + k
<1> DEFINE Good1(k) == Walk(next, c)[k] \in S /\ r[Walk(next, c)[k]] = r[c] + k
           T == {k \in Places : r[c] + k <= b /\ ~Good1(k)}
<1>0. /\ S \subseteq Clusters /\ \A d \in S : r[d] \in Nat
      /\ \A d \in S : r[d] < b => next[d] \in S /\ r[next[d]] = r[d] + 1
  BY DEF GoesUp
<1>1. SUFFICES ASSUME T # {} PROVE FALSE
  OBVIOUS
<1>2. PICK k \in T : \A y \in T : k <= y
  <2>1. T \subseteq Nat
    BY DEF Places
  <2> HIDE DEF T
  <2> QED BY <1>1, <2>1, LeastNat
<1>3. k \in Places /\ r[c] + k <= b /\ ~Good1(k) /\ k \in Nat /\ r[c] \in Nat
  BY <1>0, <1>2 DEF Places
<1>4. k # 0
  BY <1>3, WalkStep
<1>5. PICK j \in Places : k = j + 1 /\ j \in Nat /\ j \notin T
  <2>1. k - 1 \in Places /\ k = (k - 1) + 1 /\ k - 1 \in Nat
    BY <1>3, <1>4, Sizes DEF Places
  <2>2. k - 1 \notin T
    BY <1>2, <1>3, <2>1
  <2> HIDE DEF T
  <2> QED BY <2>1, <2>2
<1>6. Good1(j)
  BY <1>3, <1>5
<1>7. PICK d \in S : d = Walk(next, c)[j] /\ r[d] = r[c] + j
  BY <1>6
<1>8. r[d] < b /\ next[d] \in S /\ r[next[d]] = r[d] + 1
  BY <1>0, <1>3, <1>5, <1>7
<1>9. Walk(next, c)[j + 1] = next[d]
  BY <1>0, <1>3, <1>5, <1>7, WalkStep
<1>10. r[next[d]] = r[c] + k
  BY <1>3, <1>5, <1>7, <1>8
<1> QED BY <1>3, <1>5, <1>8, <1>9, <1>10

\* A walk that has ended stays so.
LEMMA WalkEnds ==
  ASSUME NEW next, NEW c, NEW j \in Places, Walk(next, c)[j] = 0
  PROVE  \A k \in Places : j <= k => Walk(next, c)[k] = 0
<1> DEFINE T == {k \in Places : j <= k /\ Walk(next, c)[k] # 0}
<1>1. SUFFICES ASSUME T # {} PROVE FALSE
  OBVIOUS
<1>2. PICK k \in T : \A y \in T : k <= y
  <2>1. T \subseteq Nat
    BY DEF Places
  <2> HIDE DEF T
  <2> QED BY <1>1, <2>1, LeastNat
<1>3. k \in Places /\ j <= k /\ Walk(next, c)[k] # 0 /\ k \in Nat /\ j \in Nat /\ k # j
  BY <1>2 DEF Places
<1>4. PICK i \in Places : k = i + 1 /\ i \notin T /\ j <= i
  <2>1. k - 1 \in Places /\ k = (k - 1) + 1 /\ j <= k - 1
    BY <1>3, Sizes DEF Places
  <2>2. k - 1 \notin T
    BY <1>2, <1>3, <2>1
  <2> HIDE DEF T
  <2> QED BY <2>1, <2>2
<1>5. Walk(next, c)[i] = 0
  BY <1>4
<1> QED BY <1>3, <1>4, <1>5, WalkStep

\* A cluster of S at each place below n.
Fills(S, r, n) == S \subseteq Clusters /\ \A k \in 0 .. n - 1 : \E c \in S : r[c] = k

\* As many places as clusters: there are no more of them than a walk has.
LEMMA PlacesEnough ==
  ASSUME NEW S, NEW r, NEW n \in Nat, Fills(S, r, n)
  PROVE  \A k \in Nat : k < n => k \in Places
<1>0. S \subseteq Clusters /\ \A k \in 0 .. n - 1 : \E c \in S : r[c] = k
  BY DEF Fills
<1> DEFINE f == [k \in 0 .. n - 1 |-> CHOOSE c \in S : r[c] = k]
<1>1. \A k \in 0 .. n - 1 : f[k] \in S /\ r[f[k]] = k
  BY <1>0
<1>2. f \in Injection(0 .. n - 1, Clusters)
  <2>1. f \in [0 .. n - 1 -> Clusters]
    BY <1>0, <1>1
  <2>2. \A j, k \in 0 .. n - 1 : f[j] = f[k] => j = k
    BY <1>1
  <2> HIDE DEF f
  <2> QED BY <2>1, <2>2 DEF Injection, IsInjective
<1> HIDE DEF f
<1>3. IsFiniteSet(Clusters) /\ Cardinality(Clusters) = LastCluster - 2
  BY Sizes, FS_Interval DEF Clusters
<1>4. Cardinality(0 .. n - 1) <= Cardinality(Clusters)
  BY <1>2, <1>3, FS_Injection
<1>5. Cardinality(0 .. n - 1) = n
  <2>1. 0 \in Int /\ n - 1 \in Int
    OBVIOUS
  <2>2. Cardinality(0 .. n - 1) = IF 0 > n - 1 THEN 0 ELSE n - 1 - 0 + 1
    BY <2>1, FS_Interval
  <2> QED BY <2>2
<1>6. n <= LastCluster - 2
  BY <1>3, <1>4, <1>5
<1> QED BY <1>6, Sizes DEF Places

\* The places of a set of clusters, and the links between them up to the end.
Chained(next, S, r, n) ==
  /\ S \subseteq Clusters /\ \A d \in S : r[d] \in Nat
  /\ \A d \in S : /\ r[d] < n
                  /\ IF r[d] + 1 = n THEN next[d] = 0
                     ELSE next[d] \in S /\ r[next[d]] = r[d] + 1
  /\ \A d, e \in S : r[d] = r[e] => d = e
  /\ \A k \in 0 .. n - 1 : \E d \in S : r[d] = k

\* A walk visits what lies further on, and then ends.
LEMMA WalkIs ==
  ASSUME NEW next, NEW S, NEW r, NEW n \in Nat, Chained(next, S, r, n), NEW c \in S
  PROVE  /\ \A d \in S : r[c] <= r[d] => /\ r[d] - r[c] \in Places
                                         /\ Walk(next, c)[r[d] - r[c]] = d
         /\ \A k \in Places : r[c] + k >= n => Walk(next, c)[k] = 0
         /\ Chain(next, c) = {d \in S : r[c] <= r[d]}
<1>0. /\ S \subseteq Clusters /\ \A d \in S : r[d] \in Nat /\ r[d] < n
      /\ \A d \in S : IF r[d] + 1 = n THEN next[d] = 0
                      ELSE next[d] \in S /\ r[next[d]] = r[d] + 1
      /\ \A d, e \in S : r[d] = r[e] => d = e
      /\ \A k \in 0 .. n - 1 : \E d \in S : r[d] = k
  BY DEF Chained
<1>1. PICK b \in Nat : n = b + 1
  <2>1. n - 1 \in Nat /\ n = (n - 1) + 1
    BY <1>0
  <2> QED BY <2>1
<1>2. GoesUp(next, S, r, b)
  BY <1>0, <1>1 DEF GoesUp
<1>3. \A k \in Nat : k < n => k \in Places
  <2>1. Fills(S, r, n)
    BY <1>0 DEF Fills
  <2> QED BY <2>1, PlacesEnough
<1>4. PICK i \in Nat : i = r[c] /\ i <= b
  BY <1>0, <1>1
<1>5. ASSUME NEW d \in S, r[c] <= r[d]
      PROVE  r[d] - r[c] \in Places /\ Walk(next, c)[r[d] - r[c]] = d
  <2>1. PICK k \in Nat : k = r[d] - r[c] /\ i + k = r[d] /\ k < n /\ i + k <= b
    <3>1. PICK j \in Nat : j = r[d] /\ j < n
      BY <1>0
    <3>2. j - i \in Nat /\ i + (j - i) = j /\ j - i < n /\ j <= b
      BY <1>1, <1>4, <1>5, <3>1
    <3> QED BY <1>4, <3>1, <3>2
  <2>2. k \in Places
    BY <1>3, <2>1
  <2>3. Walk(next, c)[k] \in S /\ r[Walk(next, c)[k]] = i + k
    BY <1>2, <1>4, <2>1, <2>2, WalkUp
  <2>4. Walk(next, c)[k] = d
    BY <1>0, <2>1, <2>3
  <2> QED BY <2>1, <2>2, <2>4
<1>6. ASSUME NEW k \in Places, r[c] + k >= n
      PROVE  Walk(next, c)[k] = 0
  <2>1. k \in Nat
    BY DEF Places
  <2>2. PICK j \in Nat : i + j = b
    <3>1. b - i \in Nat /\ i + (b - i) = b
      BY <1>4
    <3> QED BY <3>1
  <2>3. j < n /\ j + 1 <= k
    BY <1>1, <1>4, <1>6, <2>1, <2>2
  <2>4. j \in Places /\ j + 1 \in Places
    <3>1. k <= LastCluster - 3 /\ LastCluster \in Nat
      BY Sizes DEF Places
    <3>2. j \in Nat /\ j + 1 \in Nat /\ j <= LastCluster - 3 /\ j + 1 <= LastCluster - 3
      BY <2>1, <2>3, <3>1
    <3> QED BY <3>1, <3>2 DEF Places
  <2>5. PICK d \in S : d = Walk(next, c)[j] /\ r[d] = b
    BY <1>2, <1>4, <2>2, <2>4, WalkUp
  <2>6. next[d] = 0 /\ d \in Clusters
    BY <1>0, <1>1, <2>5
  <2>7. Walk(next, c)[j + 1] = 0
    BY <2>4, <2>5, <2>6, WalkStep
  <2> QED BY <2>3, <2>4, <2>7, WalkEnds
<1>7. Chain(next, c) = {d \in S : r[c] <= r[d]}
  <2>1. ASSUME NEW d \in Chain(next, c) PROVE d \in S /\ r[c] <= r[d]
    <3>1. PICK k \in Places : d = Walk(next, c)[k] /\ d \in Clusters
      BY DEF Chain
    <3>2. k \in Nat /\ d # 0
      BY <3>1, Numbered DEF Places
    <3>3. i + k < n
      BY <1>4, <1>6, <3>1, <3>2
    <3>4. i + k <= b
      BY <1>1, <3>2, <3>3
    <3>5. d \in S /\ r[d] = i + k
      BY <1>2, <1>4, <3>1, <3>4, WalkUp
    <3> QED BY <1>4, <3>2, <3>5
  <2>2. ASSUME NEW d \in S, r[c] <= r[d] PROVE d \in Chain(next, c)
    <3>1. r[d] - r[c] \in Places /\ Walk(next, c)[r[d] - r[c]] = d
      BY <1>5, <2>2
    <3>2. d \in Clusters
      BY <1>0
    <3> QED BY <3>1, <3>2 DEF Chain
  <2> QED BY <2>1, <2>2
<1> QED BY <1>5, <1>6, <1>7

\* A chain that is empty.
LEMMA ChainOfNone ==
  ASSUME NEW next
  PROVE  Chain(next, 0) = {}
<1>1. 0 \in Places /\ \A k \in Places : 0 <= k
  BY Sizes DEF Places
<1>2. Walk(next, 0)[0] = 0
  BY WalkStep
<1>3. \A k \in Places : Walk(next, 0)[k] = 0
  BY <1>1, <1>2, WalkEnds
<1> QED BY <1>3, Numbered DEF Chain

\* The directory's clusters are those of the map, and the chain from one of them is what
\* comes after it.
LEMMA DirectoryIs ==
  ASSUME NEW g, Holds(g)
  PROVE  /\ Directory = g.dirs
         /\ \A c \in g.dirs : Chain(Links, c) = {d \in g.dirs : g.pos[c] <= g.pos[d]}
         /\ Entries = {e \in g.dirs \X Slots : Slot(e[1], e[2]).nm # Nil}
<1>1. DirsOK(g) /\ g \in Maps /\ g.dirs \subseteq Clusters /\ 3 \in g.dirs
  BY PartsOf, DirsIn DEF DiskOK
<1>2. \A c \in Clusters : Links[c] = View(c).link
  BY DEF Links
<1>3. g.dlen \in Nat /\ \A c \in Clusters : g.pos[c] \in Nat
  BY <1>1 DEF Maps
<1>4. g.pos[3] = 0
  BY <1>1 DEF DirsOK
<1>5. Chained(Links, g.dirs, g.pos, g.dlen)
  BY <1>1, <1>2, <1>3 DEF DirsOK, Chained
<1>6. \A c \in g.dirs : Chain(Links, c) = {d \in g.dirs : g.pos[c] <= g.pos[d]}
  BY <1>3, <1>5, WalkIs
<1>7. Directory = g.dirs
  <2>1. \A d \in g.dirs : g.pos[3] <= g.pos[d]
    BY <1>1, <1>3, <1>4
  <2>2. Chain(Links, 3) = {d \in g.dirs : g.pos[3] <= g.pos[d]}
    BY <1>1, <1>6
  <2> QED BY <2>1, <2>2 DEF Directory
<1> QED BY <1>6, <1>7 DEF Entries, Slot

\* The clusters of a file.
Own(g, n) == {d \in Clusters : g.own[d] = n}

\* The chain of a file.
LEMMA ChainIs ==
  ASSUME NEW g, ChainsOK(g), g \in Maps, NEW n \in Names, NEW c, Headed(g, n, c)
  PROVE  /\ Chain(Table, c) = Own(g, n)
         /\ Chained(Table, Own(g, n), g.idx, g.len[n])
<1> DEFINE S == Own(g, n)
<1>1. n # Nil /\ g.len[n] \in Nat /\ \A d \in Clusters : g.idx[d] \in Nat
  BY Nils DEF Maps
<1>2. Chained(Table, S, g.idx, g.len[n])
  <2>1. \A d \in S : d \in Clusters /\ g.own[d] = n
    BY DEF Own
  <2>2. \A d \in Clusters : g.own[d] = n => d \in S
    BY DEF Own
  <2> HIDE DEF S, Table
  <2>3. \A d \in S : /\ g.idx[d] < g.len[n]
                     /\ IF g.idx[d] + 1 = g.len[n] THEN Table[d] = 0
                        ELSE Table[d] \in S /\ g.idx[Table[d]] = g.idx[d] + 1
    BY <1>1, <2>1, <2>2 DEF ChainsOK
  <2>4. \A d, e \in S : g.idx[d] = g.idx[e] => d = e
    BY <1>1, <2>1 DEF ChainsOK
  <2>5. \A k \in 0 .. g.len[n] - 1 : \E d \in S : g.idx[d] = k
    BY <2>2 DEF ChainsOK
  <2>6. S \subseteq Clusters /\ \A d \in S : g.idx[d] \in Nat
    BY <1>1, <2>1
  <2> QED BY <2>3, <2>4, <2>5, <2>6 DEF Chained
<1>3. Chain(Table, c) = S
  <2>1. CASE c \in Clusters /\ g.own[c] = n /\ g.idx[c] = 0
    <3>1. c \in S /\ \A d \in S : g.idx[d] \in Nat
      BY <1>1, <2>1 DEF Own
    <3> HIDE DEF S, Table
    <3>2. Chain(Table, c) = {d \in S : g.idx[c] <= g.idx[d]}
      BY <1>1, <1>2, <3>1, WalkIs
    <3> QED BY <2>1, <3>1, <3>2
  <2>2. CASE c = 0 /\ g.len[n] = 0
    <3>1. ASSUME NEW d \in S PROVE FALSE
      <4> HIDE DEF S
      <4>1. g.idx[d] < g.len[n] /\ g.idx[d] \in Nat
        BY <1>2 DEF Chained
      <4> QED BY <2>2, <4>1
    <3>2. S = {}
      BY <3>1
    <3> QED BY <2>2, <3>2, ChainOfNone
  <2> QED BY <2>1, <2>2 DEF Headed
<1> QED BY <1>2, <1>3

-----------------------------------------------------------------------------
(***************************************************************************)
(* FSCreate begins, and the step of the whole system.                      *)
(***************************************************************************)

\* What Exists says of the entries.
LEMMA ExistsIs ==
  ASSUME NEW g, Holds(g), NEW n \in Names
  PROVE  Exists(n) <=> ~NoEntryOf(n)
<1>1. DirsOK(g) /\ g.dirs \subseteq Clusters /\ n # Nil
  BY PartsOf, DirsIn, Nils DEF DiskOK
<1>2. Entries = {e \in g.dirs \X Slots : Slot(e[1], e[2]).nm # Nil}
  BY DirectoryIs
<1>3. ASSUME Exists(n) PROVE ~NoEntryOf(n)
  <2>1. PICK e \in Entries : Entry(e).nm = n
    BY <1>3 DEF Exists
  <2>2. e[1] \in Clusters /\ e[2] \in Slots /\ Slot(e[1], e[2]).nm = n
    BY <1>1, <1>2, <2>1 DEF Entry, Slot
  <2> QED BY <2>2 DEF NoEntryOf
<1>4. ASSUME ~NoEntryOf(n) PROVE Exists(n)
  <2>1. PICK c \in Clusters, s \in Slots : Slot(c, s).nm = n
    BY <1>4 DEF NoEntryOf
  <2>2. c \in g.dirs
    BY <1>1, <2>1 DEF DirsOK
  <2>3. <<c, s>> \in Entries /\ Entry(<<c, s>>).nm = n
    BY <1>1, <1>2, <2>1, <2>2 DEF Entry, Slot
  <2> QED BY <2>3 DEF Exists
<1> QED BY <1>3, <1>4

\* A careful caller creates a file that exists only where its entry lies ahead.
LEMMA MeetsAhead ==
  ASSUME NEW g, Holds(g), NEW n \in Names, Meets(n)
  PROVE  Ahead(g, lastdircluster, n)
<1>1. /\ Directory = g.dirs
      /\ \A c \in g.dirs : Chain(Links, c) = {d \in g.dirs : g.pos[c] <= g.pos[d]}
      /\ Entries = {e \in g.dirs \X Slots : Slot(e[1], e[2]).nm # Nil}
  BY DirectoryIs
<1>2. DirsOK(g) /\ g \in Maps /\ g.dirs \subseteq Clusters /\ 3 \in g.dirs
  BY PartsOf, DirsIn DEF DiskOK
<1>3. lastdircluster = 3 /\ g.pos[3] = 0 /\ \A c \in g.dirs : g.pos[c] \in Nat
  BY <1>2 DEF Meets, DirsOK, Maps
<1>4. PICK e \in Entries :
        /\ Entry(e).nm = n
        /\ \A d \in Directory \X Slots :
             \/ d[1] = e[1] /\ d[2] < e[2]
             \/ d[1] # e[1] /\ e[1] \in Chain(Links, d[1])
             => Entry(d).nm # Nil
  BY DEF Meets
<1>5. PICK d \in g.dirs, t \in Slots : e = <<d, t>>
  BY <1>1, <1>4
<1>6. Slot(d, t).nm = n
  BY <1>4, <1>5 DEF Entry, Slot
<1>7. ASSUME NEW x \in g.dirs, NEW s \in Slots,
             g.pos[x] < g.pos[d] \/ (x = d /\ s < t)
      PROVE  Slot(x, s).nm # Nil
  <2>1. <<x, s>> \in Directory \X Slots
    BY <1>1
  <2>2. \/ x = d /\ s < t
        \/ x # d /\ d \in Chain(Links, x)
    <3>1. CASE x = d /\ s < t
      BY <3>1
    <3>2. CASE g.pos[x] < g.pos[d]
      <4>1. x # d /\ g.pos[x] <= g.pos[d]
        BY <1>3, <3>2
      <4> QED BY <1>1, <4>1
    <3> QED BY <1>7, <3>1, <3>2
  <2>3. Entry(<<x, s>>).nm # Nil
    BY <1>4, <1>5, <2>1, <2>2
  <2> QED BY <2>3 DEF Entry, Slot
<1>8. g.pos[lastdircluster] <= g.pos[d]
  BY <1>3
<1> QED BY <1>6, <1>7, <1>8 DEF Ahead

\* FSCreate begins.
LEMMA CreateHolds ==
  ASSUME NEW g, Holds(g), Careless = {}, NEW h \in Handles, NEW n \in Names, FSCreate(h, n)
  PROVE  Holds(g)'
<1>1. /\ call.op = "none" /\ fh[h].mode = "free" /\ ~Open(n)
      /\ closed' = [closed EXCEPT ![n] = NoFile] /\ (Exists(n) => Meets(n))
  BY DEF FSCreate, Idle
<1>2. call' = [op |-> "create", at |-> "replace", h |-> h, nm |-> n, c |-> lastdircluster, x |-> 0,
               s |-> 1, num |-> 0, n |-> 0]
  BY DEF FSCreate, Start, NoCall
<1>3. lastdircluster \in g.dirs /\ lastdircluster \in Clusters
  BY DirsIn
<1>4. call' \in CallType
  BY <1>2, <1>3, Numbered, Sizes DEF CallType
<1>5. /\ call'.op = "create" /\ call'.at = "replace" /\ call'.nm = n /\ call'.h = h
      /\ call'.c = lastdircluster
  BY <1>2
<1>6. UNCHANGED <<disk, fsb_t, fatbuf, private, fh, bypassed, right>>
  BY DEF FSCreate
<1>7. ~Open(n)' /\ fh[h] = NoHandle
  BY <1>1, <1>6, HandleTypes DEF Open
<1>8. g.moving = Nil /\ g.loose = {}
  BY <1>1, OutOf
<1>9. closed' \in [Names -> {NoFile} \cup (0 .. MaxSize)] /\ closed'[n] = NoFile
      /\ \A m \in Names : closed'[m] \in {closed[m], NoFile}
  BY <1>1, ClosedLess
<1>10. NoEntryOf(n) \/ Ahead(g, lastdircluster, n)
  BY <1>1, ExistsIs, MeetsAhead
<1>11. NoEntryOf(n)' \/ Ahead(g, lastdircluster, n)'
  <2>1. lastdircluster' = lastdircluster /\ \A c, s : Slot(c, s)' = Slot(c, s)
    BY <1>6 DEF Slot, View, private
  <2> QED BY <1>10, <2>1 DEF NoEntryOf, Ahead
<1>12. CallOK(g)'
  <2>1. DirCallOK(g)'
    <3>1. lastdircluster' = lastdircluster
      BY <1>6 DEF private
    <3> QED BY <1>3, <1>5, <1>6, <1>7, <1>9, <1>11, <3>1 DEF DirCallOK, Open
  <2>2. PhaseOK' /\ WriteOK(g)' /\ ReadOK(g)'
    BY <1>5 DEF PhaseOK, WriteOK, ReadOK
  <2> QED BY <1>5, <1>8, <2>1, <2>2 DEF CallOK
<1> QED BY <1>1, <1>4, <1>5, <1>6, <1>9, <1>12, BeginHolds

\* An empty disk: the root directory, and no files.
LEMMA InitHolds ==
  ASSUME Init
  PROVE  \E g \in Maps : Holds(g)
<1>1. /\ disk = Formatted /\ fsb_t = EmptyBuffers /\ fatbuf = EmptyFat /\ fatAllocNext = 3
      /\ fdNextCluster = 3 /\ lastdircluster = 3 /\ fh = [h \in Handles |-> NoHandle]
      /\ call = NoCall /\ closed = [n \in Names |-> NoFile] /\ bypassed = {} /\ right = TRUE
  BY DEF Init
<1>2. PICK g : g = [own |-> [c \in Clusters |-> Nil], idx |-> [c \in Clusters |-> 0],
                    len |-> [n \in Names |-> 0], ext |-> [n \in Names |-> 0], dirs |-> {3},
                    pos |-> [c \in Clusters |-> 0], dlen |-> 1, loose |-> {}, moving |-> Nil]
  OBVIOUS
<1>3. g \in Maps
  BY <1>2, Numbered DEF Maps
<1>4. /\ \A c \in Clusters : g.own[c] = Nil /\ g.pos[c] = 0
      /\ \A n \in Names : g.len[n] = 0 /\ g.ext[n] = 0
      /\ g.dirs = {3} /\ g.dlen = 1 /\ g.loose = {} /\ g.moving = Nil
  BY <1>2
<1>5. Blank \in Parts /\ Blank.link = 0 /\ \A s \in Slots : Blank.slot[s] = NoEntry
  <2>1. NoEntry \in [nm : Names \cup {Nil}, size : 0 .. MaxSize, cluster : {0} \cup Clusters]
    BY Sizes DEF NoEntry
  <2>2. NoWord \in Words
    BY DEF Words
  <2> QED BY <2>1, <2>2 DEF Blank, Parts
<1>6. disk \in DiskType
  BY <1>1, <1>5 DEF Formatted, DiskType, Marks
<1>7. /\ \A c \in Clusters : disk.fat[c] = IF c = 3 THEN 0 ELSE 1
      /\ \A c \in Clusters : disk.cluster[c] = Blank
  BY <1>1 DEF Formatted
<1>8. /\ \A b \in Buffers : fsb_t[b] = [cluster |-> 0, dirty |-> 0, pri |-> 0, buf |-> Blank]
      /\ fsb_t \in [Buffers -> BufferType]
  BY <1>1, <1>5 DEF EmptyBuffers, BufferType
<1>9. fatbuf = [first |-> 0, dirty |-> FALSE, buf |-> [c \in {} |-> CLUSTER_UNUSED]]
  BY <1>1 DEF EmptyFat
<1>10. FatGood(Fat)
  <2>1. fatbuf.buf \in [{} -> Marks]
    BY <1>9
  <2>2. Fat = [disk |-> disk, fat |-> fatbuf]
    BY DEF Fat
  <2>3. fatbuf.first = 0 /\ fatbuf.dirty = FALSE
        /\ fatbuf = [first |-> fatbuf.first, dirty |-> fatbuf.dirty, buf |-> fatbuf.buf]
    BY <1>9
  <2> QED BY <1>6, <2>1, <2>2, <2>3 DEF FatGood, InWindow
<1>11. \A c \in Clusters : Table[c] = IF c = 3 THEN 0 ELSE 1
  <2>1. \A c \in Clusters : Table[c] = disk.fat[c]
    BY <1>9 DEF Table, Mark, Fat, InWindow
  <2> QED BY <1>7, <2>1
<1>12. BuffersOK
  BY <1>8 DEF BuffersOK
<1>13. \A c \in Clusters : View(c) = Blank
  <2> SUFFICES ASSUME NEW c \in Clusters PROVE View(c) = Blank
    OBVIOUS
  <2>1. \A b \in Buffers : fsb_t[b].cluster # c
    BY <1>8, Numbered
  <2> QED BY <1>7, <1>12, <2>1, ViewIs
<1>14. \A c \in Clusters, s \in Slots : Slot(c, s) = NoEntry
  BY <1>5, <1>13 DEF Slot
<1>15. NoEntry.nm = Nil
  BY DEF NoEntry
<1>16. TypeInv
  <2>1. NoHandle \in HandleType /\ NoCall \in CallType
    BY Sizes, Numbered DEF HandleType, CallType, NoHandle, NoCall
  <2>2. fatAllocNext \in CLUSTER_FIRST_USER .. LastCluster + 1
    BY <1>1, Sizes
  <2> QED BY <1>1, <1>8, <1>10, <2>1, <2>2 DEF TypeInv
<1>17. CleanOK
  BY <1>8, <1>9 DEF CleanOK, Clean
<1>18. ChainsOK(g)
  <2> HIDE DEF Table
  <2> QED BY <1>4, <1>11, Numbered DEF ChainsOK
<1>19. DirsOK(g)
  <2>1. \A k \in 0 .. g.dlen - 1 : \E c \in g.dirs : g.pos[c] = k
    BY <1>4, Numbered
  <2>2. \A c \in g.dirs : g.pos[c] < g.dlen /\ g.pos[c] + 1 = g.dlen /\ View(c).link = 0
    BY <1>4, <1>5, <1>13, Numbered
  <2>3. \A c \in Clusters \ g.dirs : View(c).link = 0 /\ \A s \in Slots : Slot(c, s).nm = Nil
    BY <1>5, <1>13, <1>14, <1>15
  <2>4. 3 \in g.dirs /\ g.pos[3] = 0 /\ fdNextCluster \in g.dirs /\ lastdircluster \in g.dirs
    BY <1>1, <1>4, Numbered
  <2>5. \A b \in Buffers : fsb_t[b].dirty = 1 => fsb_t[b].cluster \in g.dirs
    BY <1>8
  <2>6. \A c, d \in g.dirs : g.pos[c] = g.pos[d] => c = d
    BY <1>4
  <2> QED BY <2>1, <2>2, <2>3, <2>4, <2>5, <2>6 DEF DirsOK
<1>20. EntriesOK(g)
  <2>1. \A n \in Names : g.len[n] = 0 /\ g.ext[n] <= g.len[n] * CLUSTER_SIZE /\ g.ext[n] <= MaxSize
    BY <1>4, Sizes
  <2> QED BY <1>14, <1>15, <2>1 DEF EntriesOK
<1>21. HandlesOK(g)
  BY <1>1 DEF HandlesOK
<1>22. CallOK(g)
  <2>1. call.op = "none" /\ call.at = "out"
    BY <1>1 DEF NoCall
  <2> QED BY <1>4, <2>1 DEF CallOK, PhaseOK, DirCallOK, WriteOK, ReadOK
<1>23. WordsOK(g)
  BY <1>4 DEF WordsOK, WordsAt
<1>24. PowerOK(g)
  BY <1>1 DEF PowerOK, PowerAt
<1> QED BY <1>1, <1>3, <1>12, <1>16, <1>17, <1>18, <1>19, <1>20, <1>21, <1>22, <1>23, <1>24
        DEF Holds, Good

\* Each step has a next map.
LEMMA NextHolds ==
  ASSUME NEW g \in Maps, Holds(g), Careless = {}, Next
  PROVE  \E k \in Maps : Holds(k)'
<1>1. ASSUME NEW h \in Handles, NEW n \in Names, FSOpen(h, n) \/ FSCreate(h, n)
      PROVE  Holds(g)'
  BY <1>1, OpenHolds, CreateHolds
<1>2. ASSUME NEW n \in Names, FSDelete(n)
      PROVE  Holds(g)'
  BY <1>2, DeleteHolds
<1>3. ASSUME NEW h \in Handles, NEW k \in Lengths, FSRead(h, k) \/ FSWrite(h, k)
      PROVE  Holds(g)'
  BY <1>3, ReadHolds, WriteHolds
<1>4. ASSUME NEW h \in Handles, NEW p \in Positions, FSSeek(h, p)
      PROVE  Holds(g)'
  BY <1>4, SeekHolds
<1>5. ASSUME NEW h \in Handles, FSClose(h)
      PROVE  Holds(g)'
  BY <1>5, CloseHolds
<1>6. FSFlush \/ FSInit => Holds(g)'
  BY FlushBeginHolds, InitAgainHolds
<1>7. FDFind \/ OpenEntry \/ FlushBuffer \/ FlushFat \/ CloseEntry => Holds(g)'
  BY FindHolds, OpenEntryHolds, FlushBufferHolds, FlushFatHolds, CloseEntryHolds
<1>8. DeleteEntry \/ FATChainFree => \E k \in Maps : Holds(k)'
  BY DeleteEntryHolds, ChainFreeHolds
<1>9. FDReplace \/ GrowDirectory \/ LinkDirectory \/ CreateEntry => \E k \in Maps : Holds(k)'
  BY ReplaceHolds, GrowDirectoryHolds, LinkDirectoryHolds, CreateEntryHolds
<1>10. ClearDirectory \/ SeekCluster \/ WriteNext => Holds(g)'
  BY ClearDirectoryHolds, SeekClusterHolds, WriteNextHolds
<1>11. WriteFirst \/ WriteFirstEntry \/ WriteCluster \/ WriteAlloc => \E k \in Maps : Holds(k)'
  BY WriteFirstHolds, FirstEntryHolds, WriteClusterHolds, WriteAllocHolds
<1>12. LinearMore \/ LinearLast \/ WriteChain \/ WriteDirect => \E k \in Maps : Holds(k)'
  BY LinearMoreHolds, LinearLastHolds, WriteChainHolds, WriteDirectHolds
<1>13. ReadCluster \/ ReadNext \/ LinearRun \/ ReadDirect => Holds(g)'
  BY ReadClusterHolds, ReadNextHolds, LinearRunHolds, ReadDirectHolds
<1>14. Holds(g)' => \E k \in Maps : Holds(k)'
  OBVIOUS
<1> QED BY <1>1, <1>2, <1>3, <1>4, <1>5, <1>6, <1>7, <1>8, <1>9, <1>10, <1>11, <1>12, <1>13, <1>14
        DEF Next

\* What holds of the variables stays when they do, but for the number of calls.
LEMMA StutterHolds ==
  ASSUME NEW g, Holds(g), UNCHANGED vars
  PROVE  Holds(g)'
<1>1. /\ disk' = disk /\ fsb_t' = fsb_t /\ fatbuf' = fatbuf /\ fatAllocNext' = fatAllocNext
      /\ fdNextCluster' = fdNextCluster /\ lastdircluster' = lastdircluster /\ fh' = fh
      /\ call' = call /\ closed' = closed /\ bypassed' = bypassed /\ right' = right
  BY DEF vars, private, history
<1>2. Fat' = Fat /\ Table' = Table
  BY <1>1 DEF Fat, Table, Mark, InWindow
<1>3. /\ \A c : View(c)' = View(c) /\ Dirty(c)' = Dirty(c)
      /\ \A c, s : Slot(c, s)' = Slot(c, s)
      /\ \A n : NoEntryOf(n)' = NoEntryOf(n)
  BY <1>1 DEF View, Slot, Dirty, NoEntryOf
<1>4. TypeInv /\ BuffersOK /\ CleanOK /\ right = TRUE /\ DiskOK(g) /\ HandlesOK(g) /\ CallOK(g)
  BY PartsOf
<1>5. TypeInv'
  <2>1. FatGood(Fat)'
    BY <1>2, <1>4 DEF TypeInv, FatGood
  <2> QED BY <1>1, <1>4, <2>1 DEF TypeInv
<1>6. BuffersOK' /\ CleanOK'
  BY <1>1, <1>4 DEF BuffersOK, CleanOK, Clean, Writers, Emptying
<1>7. ChainsOK(g)'
  BY <1>2, <1>4 DEF DiskOK, ChainsOK
<1>8. DirsOK(g)' /\ EntriesOK(g)'
  BY <1>1, <1>3, <1>4 DEF DiskOK, DirsOK, EntriesOK
<1>9. WordsOK(g)'
  BY <1>1, <1>3, <1>4 DEF DiskOK, WordsOK, WordsAt
<1>10. PowerOK(g)'
  BY <1>1, <1>2, <1>3, <1>4 DEF DiskOK, PowerOK, PowerAt, EntryOnDisk
<1>11. HandlesOK(g)'
  BY <1>1, <1>3, <1>4 DEF HandlesOK, HandleOK, SeekLeft, Writing
<1>12. CallOK(g)'
  <2>1. DirCallOK(g)'
    BY <1>1, <1>2, <1>3, <1>4 DEF CallOK, DirCallOK, Open, Ahead
  <2>2. WriteOK(g)' /\ ReadOK(g)'
    BY <1>1, <1>2, <1>3, <1>4 DEF CallOK, WriteOK, ReadOK, Follow, Fresh
  <2> QED BY <1>1, <1>3, <1>4, <2>1, <2>2 DEF CallOK, PhaseOK
<1>13. DiskOK(g)'
  BY <1>4, <1>7, <1>8, <1>9, <1>10 DEF DiskOK
<1> QED BY <1>1, <1>4, <1>5, <1>6, <1>11, <1>12, <1>13, HoldsOf

\* The inductive invariant: there is a map that fits the variables.
THEOREM FilesInv ==
  ASSUME Careless = {}
  PROVE  Spec => []Inv
<1>1. Init => Inv
  BY InitHolds, HoldsInv
<1>2. ASSUME Inv, [Next]_vars
      PROVE  Inv'
  <2>1. PICK g \in Maps : Holds(g)
    BY <1>2, HoldsInv
  <2>2. \E k \in Maps : Holds(k)'
    BY <1>2, <2>1, NextHolds, StutterHolds
  <2> QED BY <2>2 DEF Inv, Holds
<1>3. Inv /\ [Next]_vars => Inv'
  BY <1>2
<1> QED BY <1>1, <1>3, PTL DEF Spec

-----------------------------------------------------------------------------
(***************************************************************************)
(* What the invariant says of the properties.                              *)
(***************************************************************************)

\* The types of the variables.
LEMMA InvTypes ==
  ASSUME Inv
  PROVE  TypeOK
<1>1. PICK g \in Maps : Holds(g)
  BY HoldsInv
<1>2. TypeInv /\ fdNextCluster \in Clusters /\ lastdircluster \in Clusters
  BY <1>1, PartsOf, DirsIn
<1>3. disk \in DiskType /\ fatbuf = Fat.fat /\ FatGood(Fat)
  BY <1>2, TypesOf DEF Fat
<1>4. disk.fat \in [Clusters -> Marks] /\ disk.cluster \in [Clusters -> Parts]
  BY <1>3 DEF DiskType
<1>5. /\ fatbuf.first \in {0} \cup Clusters
      /\ fatbuf.buf \in [IF fatbuf.first = 0 THEN {} ELSE Window(fatbuf.first) -> Marks]
  BY <1>3 DEF FatGood
<1>6. \A b \in Buffers :
        /\ fsb_t[b].cluster \in {0} \cup Clusters /\ fsb_t[b].buf \in Parts
        /\ fsb_t[b].dirty \in {0, FSBDIRTY_SYS, FSBDIRTY_USR}
        /\ fsb_t[b].pri \in {0, FSBPRI_SYS, FSBPRI_USR}
  BY <1>2 DEF TypeInv, BufferType
<1>7. \A h \in Handles :
        /\ fh[h].cluster \in {0} \cup Clusters /\ fh[h].off \in 0 .. CLUSTER_SIZE
        /\ fh[h].pos \in 0 .. MaxSize /\ fh[h].size \in 0 .. MaxSize
  BY <1>2 DEF TypeInv, HandleType
<1>8. fatAllocNext \in CLUSTER_FIRST_USER .. LastCluster + 1
  BY <1>2 DEF TypeInv
<1> QED BY <1>2, <1>4, <1>5, <1>6, <1>7, <1>8 DEF TypeOK

\* No two entries have the same name.
LEMMA InvNames ==
  ASSUME Inv
  PROVE  \A d, e \in Entries : Entry(d).nm = Entry(e).nm => d = e
<1>1. PICK g \in Maps : Holds(g)
  BY HoldsInv
<1>2. EntriesOK(g) /\ g.dirs \subseteq Clusters
  BY <1>1, PartsOf, DirsIn DEF DiskOK
<1>3. Entries = {e \in g.dirs \X Slots : Slot(e[1], e[2]).nm # Nil}
  BY <1>1, DirectoryIs
<1>4. ASSUME NEW d \in Entries, NEW e \in Entries, Entry(d).nm = Entry(e).nm
      PROVE  d = e
  <2>1. PICK c \in g.dirs, s \in Slots : d = <<c, s>> /\ Slot(c, s).nm # Nil
    BY <1>3
  <2>2. PICK x \in g.dirs, t \in Slots : e = <<x, t>> /\ Slot(x, t).nm # Nil
    BY <1>3
  <2>3. Slot(c, s).nm = Slot(x, t).nm
    BY <1>4, <2>1, <2>2 DEF Entry, Slot
  <2>4. c = x /\ s = t
    BY <1>2, <2>1, <2>2, <2>3 DEF EntriesOK
  <2> QED BY <2>1, <2>2, <2>4
<1> QED BY <1>4

\* An entry between calls: its name, its file's chain, and its size.
LEMMA EntryIs ==
  ASSUME NEW g \in Maps, Holds(g), call.op = "none", NEW e \in Entries
  PROVE  /\ Entry(e).nm \in Names /\ Entry(e).nm # Nil
         /\ Chain(Table, Entry(e).cluster) = Own(g, Entry(e).nm)
         /\ Held(e) \in Nat /\ Held(e) <= g.ext[Entry(e).nm]
<1>1. PICK c \in g.dirs, s \in Slots : e = <<c, s>> /\ Slot(c, s).nm # Nil
  <2>1. Entries = {d \in g.dirs \X Slots : Slot(d[1], d[2]).nm # Nil}
    BY DirectoryIs
  <2> QED BY <2>1
<1>2. /\ ChainsOK(g) /\ EntriesOK(g) /\ HandlesOK(g) /\ TypeInv /\ BuffersOK /\ BuffersType
      /\ c \in Clusters /\ g.moving = Nil
  BY <1>1, PartsOf, DirsIn, OutOf, TypesOf DEF DiskOK
<1>3. Entry(e) = Slot(c, s) /\ View(c) \in Parts
  BY <1>1, <1>2, ViewType DEF Entry, Slot
<1>4. /\ Slot(c, s).nm \in Names /\ Slot(c, s).size \in Nat
      /\ Headed(g, Slot(c, s).nm, Slot(c, s).cluster)
      /\ Slot(c, s).size <= g.ext[Slot(c, s).nm]
  <2>1. Slot(c, s) \in [nm : Names \cup {Nil}, size : 0 .. MaxSize, cluster : {0} \cup Clusters]
    BY <1>3 DEF Parts, Slot
  <2> QED BY <1>1, <1>2, <2>1, Sizes DEF EntriesOK
<1>5. PICK n \in Names : n = Slot(c, s).nm
  BY <1>4
<1>6. Chain(Table, Slot(c, s).cluster) = Own(g, n)
  <2>1. PICK x : x = Slot(c, s).cluster
    OBVIOUS
  <2>2. Headed(g, n, x)
    BY <1>4, <1>5, <2>1
  <2>3. Chain(Table, x) = Own(g, n)
    BY <1>2, <2>2, ChainIs
  <2> QED BY <2>1, <2>3
<1>7. Held(e) \in Nat /\ Held(e) <= g.ext[n]
  <2>1. CASE Open(n)
    <3>1. PICK h \in Handles : h = (CHOOSE i \in Handles : fh[i].nm = n) /\ fh[h].nm = n
      BY <2>1 DEF Open
    <3>2. fh[h] # NoHandle
      BY <3>1, Nils DEF NoHandle
    <3>3. HandleOK(g, h) /\ fh[h].size \in Nat
      BY <3>2, HandleTypes
    <3>4. Held(e) = fh[h].size
      BY <1>3, <1>5, <2>1, <3>1 DEF Held
    <3> QED BY <3>1, <3>3, <3>4 DEF HandleOK
  <2>2. CASE ~Open(n)
    BY <1>3, <1>4, <1>5, <2>2 DEF Held
  <2> QED BY <2>1, <2>2
<1> QED BY <1>3, <1>4, <1>5, <1>6, <1>7, Nils

\* The chain of a file has its clusters, as many as it is long.
LEMMA ChainLong ==
  ASSUME NEW g \in Maps, ChainsOK(g), NEW n \in Names
  PROVE  Cardinality(Own(g, n)) \in Nat /\ g.len[n] <= Cardinality(Own(g, n))
<1> DEFINE S == Own(g, n)
           f == [k \in 0 .. g.len[n] - 1 |-> CHOOSE c \in S : g.idx[c] = k]
<1>1. g.len[n] \in Nat
  BY DEF Maps
<1>2. \A k \in 0 .. g.len[n] - 1 : \E c \in S : g.idx[c] = k
  BY DEF ChainsOK, Own
<1>3. IsFiniteSet(S)
  <2>1. IsFiniteSet(Clusters)
    BY Sizes, FS_Interval DEF Clusters
  <2>2. S \in SUBSET Clusters
    BY DEF Own
  <2> HIDE DEF S
  <2> QED BY <2>1, <2>2, FS_Subset
<1> HIDE DEF S
<1>4. \A k \in 0 .. g.len[n] - 1 : f[k] \in S /\ g.idx[f[k]] = k
  BY <1>2
<1>5. f \in Injection(0 .. g.len[n] - 1, S)
  <2>1. f \in [0 .. g.len[n] - 1 -> S]
    BY <1>4
  <2>2. \A j, k \in 0 .. g.len[n] - 1 : f[j] = f[k] => j = k
    BY <1>4
  <2> HIDE DEF f
  <2> QED BY <2>1, <2>2 DEF Injection, IsInjective
<1> HIDE DEF f
<1>6. Cardinality(S) \in Nat /\ Cardinality(0 .. g.len[n] - 1) <= Cardinality(S)
  BY <1>3, <1>5, FS_Injection, FS_CardinalityType
<1>7. Cardinality(0 .. g.len[n] - 1) = g.len[n]
  <2>1. PICK m \in Int : m = g.len[n] - 1
    BY <1>1
  <2>2. Cardinality(0 .. m) = IF 0 > m THEN 0 ELSE m - 0 + 1
    BY FS_Interval
  <2> QED BY <1>1, <2>1, <2>2
<1>8. Cardinality(S) \in Nat /\ g.len[n] <= Cardinality(S)
  BY <1>6, <1>7
<1> QED BY <1>8 DEF S

\* Between calls the clusters in use are the directory's and those of the files' chains.
LEMMA InvChains ==
  ASSUME Inv
  PROVE  ChainsExact
<1> SUFFICES ASSUME call.op = "none" PROVE ChainsExact
  BY DEF ChainsExact
<1>1. PICK g \in Maps : Holds(g)
  BY HoldsInv
<1>2. /\ ChainsOK(g) /\ EntriesOK(g) /\ DirsOK(g) /\ g.moving = Nil /\ g.loose = {}
      /\ g.dirs \subseteq Clusters
  BY <1>1, PartsOf, DirsIn, OutOf DEF DiskOK
<1>3. Directory = g.dirs /\ Entries = {e \in g.dirs \X Slots : Slot(e[1], e[2]).nm # Nil}
  BY <1>1, DirectoryIs
<1>4. \A e \in Entries :
        /\ Entry(e).nm \in Names /\ Entry(e).nm # Nil
        /\ Chain(Table, Entry(e).cluster) = Own(g, Entry(e).nm)
        /\ Held(e) \in Nat /\ Held(e) <= g.ext[Entry(e).nm]
  BY <1>1, EntryIs
<1>5. \A d, e \in Entries : Entry(d).nm = Entry(e).nm => d = e
  BY InvNames
<1> DEFINE Of(e) == Chain(Table, Entry(e).cluster)
<1>6. ASSUME NEW e \in Entries
      PROVE  /\ Of(e) \cap Directory = {}
             /\ \A d \in Entries \ {e} : Of(d) \cap Of(e) = {}
             /\ Of(e) # {} => \E c \in Of(e) : Table[c] = CLUSTER_CHAIN_END
             /\ Cardinality(Of(e)) * CLUSTER_SIZE >= Held(e)
  <2>1. PICK n \in Names : n = Entry(e).nm /\ n # Nil
    BY <1>4
  <2>2. Of(e) = Own(g, n)
    BY <1>4, <2>1
  <2>3. Own(g, n) \cap Directory = {}
    BY <1>2, <1>3, <2>1 DEF ChainsOK, Own
  <2>4. \A d \in Entries \ {e} : Of(d) \cap Of(e) = {}
    <3> SUFFICES ASSUME NEW d \in Entries, d # e PROVE Of(d) \cap Of(e) = {}
      OBVIOUS
    <3>1. Of(d) = Own(g, Entry(d).nm) /\ Entry(d).nm # n
      BY <1>4, <1>5, <2>1
    <3> HIDE DEF Of
    <3> QED BY <2>2, <3>1 DEF Own
  <2>5. Own(g, n) # {} => \E c \in Own(g, n) : Table[c] = 0
    <3>1. ASSUME NEW d \in Own(g, n) PROVE \E c \in Own(g, n) : Table[c] = 0
      <4>1. d \in Clusters /\ g.own[d] = n /\ g.idx[d] < g.len[n]
        BY <1>2, <2>1 DEF ChainsOK, Own
      <4>2. PICK m \in Nat : m = g.len[n]
        BY <1>1 DEF Maps
      <4>3. g.idx[d] \in Nat
        BY <1>1, <4>1 DEF Maps
      <4>4. m - 1 \in 0 .. g.len[n] - 1
        BY <4>1, <4>2, <4>3
      <4>5. PICK c \in Clusters : g.own[c] = n /\ g.idx[c] = m - 1
        BY <1>2, <4>4 DEF ChainsOK
      <4>6. g.idx[c] + 1 = g.len[n]
        BY <4>2, <4>5
      <4>7. Table[c] = 0
        BY <1>2, <2>1, <4>5, <4>6 DEF ChainsOK
      <4> QED BY <4>5, <4>7 DEF Own
    <3> QED BY <3>1
  <2>6. Cardinality(Own(g, n)) * CLUSTER_SIZE >= Held(e)
    <3>1. PICK m \in Nat, l \in Nat : m = Cardinality(Own(g, n)) /\ l = g.len[n] /\ l <= m
      <4>1. g.len[n] \in Nat
        BY <1>1 DEF Maps
      <4>2. Cardinality(Own(g, n)) \in Nat /\ g.len[n] <= Cardinality(Own(g, n))
        BY <1>1, <1>2, ChainLong
      <4> QED BY <4>1, <4>2
    <3>2. PICK v \in Nat, x \in Nat : v = Held(e) /\ x = g.ext[n] /\ v <= x
      <4>1. g.ext[n] \in Nat
        BY <1>1 DEF Maps
      <4> QED BY <1>4, <2>1, <4>1
    <3>3. x <= l * CLUSTER_SIZE
      BY <1>2, <3>1, <3>2 DEF EntriesOK
    <3>4. PICK d \in Nat : m = l + d
      <4>1. m - l \in Nat /\ m = l + (m - l)
        BY <3>1
      <4> QED BY <4>1
    <3>5. m * CLUSTER_SIZE = l * CLUSTER_SIZE + d * CLUSTER_SIZE
      BY <3>4, TimesSum
    <3>6. PICK p \in Nat, q \in Nat : p = l * CLUSTER_SIZE /\ q = d * CLUSTER_SIZE
      BY Times
    <3>7. p + q >= v
      BY <3>2, <3>3, <3>6
    <3> QED BY <3>1, <3>2, <3>5, <3>6, <3>7
  <2> HIDE DEF Of
  <2> QED BY <2>2, <2>3, <2>4, <2>5, <2>6
<1>7. Directory \cup UNION {Of(e) : e \in Entries} = {c \in Clusters : Table[c] # CLUSTER_UNUSED}
  <2>1. ASSUME NEW c \in Directory
        PROVE  c \in Clusters /\ Table[c] # 1
    BY <1>2, <1>3 DEF ChainsOK
  <2>2. ASSUME NEW e \in Entries, NEW c \in Of(e)
        PROVE  c \in Clusters /\ Table[c] # 1
    <3>1. PICK n \in Names : n = Entry(e).nm /\ n # Nil /\ Of(e) = Own(g, n)
      BY <1>4
    <3>2. c \in Clusters /\ g.own[c] = n
      BY <2>2, <3>1 DEF Own
    <3>3. Table[c] = 0 \/ Table[c] \in Clusters
      BY <1>2, <3>1, <3>2 DEF ChainsOK
    <3> QED BY <3>2, <3>3, Numbered
  <2>3. ASSUME NEW c \in Clusters, Table[c] # 1, c \notin Directory
        PROVE  \E e \in Entries : c \in Of(e)
    <3>1. g.own[c] # Nil
      BY <1>2, <1>3, <2>3 DEF ChainsOK
    <3>2. PICK n \in Names : n = g.own[c]
      BY <1>1, <3>1 DEF Maps
    <3>3. g.idx[c] < g.len[n] /\ g.idx[c] \in Nat /\ g.len[n] \in Nat
      BY <1>1, <1>2, <3>1, <3>2 DEF ChainsOK, Maps
    <3>4. ~NoEntryOf(n)
      BY <1>2, <3>1, <3>2, <3>3 DEF EntriesOK
    <3>5. PICK e \in Entries : Entry(e).nm = n
      BY <1>1, <3>2, <3>4, ExistsIs DEF Exists
    <3>6. c \in Of(e)
      BY <1>4, <3>2, <3>5 DEF Own
    <3> QED BY <3>5, <3>6
  <2> HIDE DEF Of
  <2> QED BY <2>1, <2>2, <2>3
<1>8. Table = Mark(Fat)
  BY DEF Table
<1> QED BY <1>6, <1>7, <1>8, SMTT(20) DEF ChainsExact

\* A file closed and not touched since is on the disk, in every state.
LEMMA InvPower ==
  ASSUME Inv
  PROVE  SurvivesPowerCut
<1>1. PICK g \in Maps : Holds(g)
  BY HoldsInv
<1>2. /\ ChainsOK(g) /\ EntriesOK(g) /\ DirsOK(g) /\ WordsOK(g) /\ PowerOK(g)
      /\ g.dirs \subseteq Clusters /\ 3 \in g.dirs /\ TypeInv
  BY <1>1, PartsOf, DirsIn DEF DiskOK
<1> SUFFICES ASSUME NEW n \in Names, closed[n] # NoFile PROVE OnDisk(n)
  BY DEF SurvivesPowerCut
<1>3. PowerAt(g, n) /\ n # Nil
  BY <1>2, Nils DEF PowerOK
<1>4. PICK size \in Nat : size = closed[n]
  BY <1>3 DEF PowerAt
<1>5. PICK c \in g.dirs, s \in Slots :
        /\ Slot(c, s).nm = n /\ Slot(c, s).size = size
        /\ disk.cluster[c].slot[s] = Slot(c, s)
        /\ \A d \in g.dirs : g.pos[d] < g.pos[c] => disk.cluster[d].link = View(d).link
  BY <1>3, <1>4 DEF PowerAt, EntryOnDisk
<1>6. \A d \in Own(g, n) : ~Dirty(d) /\ disk.fat[d] = Table[d]
  BY <1>3 DEF PowerAt, Own
<1> DEFINE links == [d \in Clusters |-> disk.cluster[d].link]
<1>7. c \in Chain(links, 3)
  <2>1. PICK b \in Nat : b = g.pos[c]
    BY <1>1, <1>2 DEF Maps
  <2>2. \A d \in g.dirs : g.pos[d] \in Nat /\ g.pos[d] < g.dlen
    BY <1>1, <1>2 DEF DirsOK, Maps
  <2>3. g.dlen \in Nat
    BY <1>1 DEF Maps
  <2>4. GoesUp(links, g.dirs, g.pos, b)
    <3>1. ASSUME NEW d \in g.dirs, g.pos[d] < b
          PROVE  links[d] \in g.dirs /\ g.pos[links[d]] = g.pos[d] + 1
      <4>1. links[d] = View(d).link
        BY <1>2, <1>5, <2>1, <3>1
      <4>2. g.pos[d] + 1 # g.dlen
        BY <2>1, <2>2, <2>3, <3>1
      <4> HIDE DEF links
      <4> QED BY <1>2, <4>1, <4>2 DEF DirsOK
    <3> HIDE DEF links
    <3> QED BY <1>2, <2>2, <3>1 DEF GoesUp
  <2> HIDE DEF links
  <2>5. b \in Places
    <3>1. Fills(g.dirs, g.pos, g.dlen)
      BY <1>2 DEF Fills, DirsOK
    <3>2. b < g.dlen
      BY <2>1, <2>2
    <3> QED BY <2>3, <3>1, <3>2, PlacesEnough
  <2>6. g.pos[3] = 0
    BY <1>2 DEF DirsOK
  <2>7. Walk(links, 3)[b] \in g.dirs /\ g.pos[Walk(links, 3)[b]] = b
    <3>1. \A k \in Places : g.pos[3] + k <= b => /\ Walk(links, 3)[k] \in g.dirs
                                                 /\ g.pos[Walk(links, 3)[k]] = g.pos[3] + k
      BY <1>2, <2>4, WalkUp
    <3>2. g.pos[3] + b = b
      BY <2>6
    <3> QED BY <2>5, <3>1, <3>2
  <2>8. Walk(links, 3)[b] = c
    BY <1>2, <2>1, <2>7 DEF DirsOK
  <2>9. c \in Clusters
    BY <1>2
  <2> QED BY <2>5, <2>8, <2>9 DEF Chain
<1>8. PICK x : x = Slot(c, s).cluster
  OBVIOUS
<1>9. Headed(g, n, x) /\ size <= g.ext[n] /\ g.ext[n] <= g.len[n] * CLUSTER_SIZE
  BY <1>2, <1>3, <1>5, <1>8 DEF EntriesOK, PowerAt
<1>10. ASSUME NEW i \in 0 .. size - 1
       PROVE  LET d == Walk(disk.fat, x)[i \div CLUSTER_SIZE]
              IN  /\ d \in Clusters
                  /\ d \in bypassed \/ disk.cluster[d].word[i % CLUSTER_SIZE] = <<n, i>>
  <2>1. PICK k \in Nat, j \in 0 .. CLUSTER_SIZE - 1 :
          k = i \div CLUSTER_SIZE /\ j = i % CLUSTER_SIZE /\ i = k * CLUSTER_SIZE + j
    BY Parted
  <2>2. PICK l \in Nat, e \in Nat : l = g.len[n] /\ e = g.ext[n]
    BY <1>1 DEF Maps
  <2>3. i < e /\ i \in Nat
    BY <1>9, <2>2
  <2>4. k < l
    <3>1. SUFFICES ASSUME ~(k < l) PROVE FALSE
      OBVIOUS
    <3>2. PICK m \in Nat : k = l + m
      <4>1. k - l \in Nat /\ k = l + (k - l)
        BY <3>1
      <4> QED BY <4>1
    <3>3. k * CLUSTER_SIZE = l * CLUSTER_SIZE + m * CLUSTER_SIZE
      BY <3>2, TimesSum
    <3>4. PICK p \in Nat, q \in Nat : p = l * CLUSTER_SIZE /\ q = m * CLUSTER_SIZE
      BY Times
    <3>5. e <= p /\ i = p + q + j /\ j \in Nat
      BY <1>9, <2>1, <2>2, <3>3, <3>4, Sizes
    <3> QED BY <2>3, <3>5
  <2>5. x \in Own(g, n) /\ g.idx[x] = 0
    <3>1. g.len[n] # 0
      BY <2>2, <2>4
    <3> QED BY <1>9, <3>1 DEF Headed, Own
  <2>6. Chained(Table, Own(g, n), g.idx, l)
    BY <1>1, <1>2, <1>9, <2>2, ChainIs
  <2>7. Chained(disk.fat, Own(g, n), g.idx, l)
    BY <1>6, <2>6 DEF Chained
  <2>8. PICK d \in Own(g, n) : g.idx[d] = k
    BY <2>4, <2>6 DEF Chained
  <2>9. Walk(disk.fat, x)[k] = d
    <3>1. \A y \in Own(g, n) : g.idx[x] <= g.idx[y] =>
            Walk(disk.fat, x)[g.idx[y] - g.idx[x]] = y
      BY <2>5, <2>7, WalkIs
    <3>2. g.idx[d] - g.idx[x] = k /\ g.idx[x] <= g.idx[d]
      BY <2>5, <2>8
    <3> QED BY <3>1, <3>2
  <2>10. d \in Clusters /\ g.own[d] = n /\ ~Dirty(d) /\ WordsAt(g, d)
    BY <1>2, <1>6, <2>8 DEF WordsOK, Own
  <2>11. d \notin bypassed => disk.cluster[d].word[j] = <<n, i>>
    <3>1. g.idx[d] * CLUSTER_SIZE + j = i /\ i < g.ext[g.own[d]]
      BY <2>1, <2>2, <2>3, <2>8, <2>10
    <3>2. d \notin bypassed /\ g.idx[d] * CLUSTER_SIZE + j < g.ext[g.own[d]] =>
            disk.cluster[d].word[j] = <<g.own[d], g.idx[d] * CLUSTER_SIZE + j>>
      BY <1>3, <2>10 DEF WordsAt
    <3> QED BY <2>10, <3>1, <3>2
  <2> QED BY <2>1, <2>9, <2>10, <2>11
<1>11. PICK z : z = <<c, s>>
  OBVIOUS
<1>12. z \in Chain(links, 3) \X Slots /\ z[1] = c /\ z[2] = s
  BY <1>7, <1>11
<1>13. /\ disk.cluster[z[1]].slot[z[2]].nm = n /\ disk.cluster[z[1]].slot[z[2]].size = closed[n]
       /\ disk.cluster[z[1]].slot[z[2]].cluster = x
  BY <1>4, <1>5, <1>8, <1>12
<1> QED BY <1>4, <1>10, <1>12, <1>13 DEF OnDisk

\* The variables have their types.
THEOREM FileTypes ==
  ASSUME Careless = {}
  PROVE  Spec => []TypeOK
<1>1. Inv => TypeOK
  BY InvTypes
<1> QED BY <1>1, FilesInv, PTL

\* A read gives the words that were written.
THEOREM ReadsRight ==
  ASSUME Careless = {}
  PROVE  Spec => []ReadsBack
<1>1. Inv => ReadsBack
  BY DEF Inv, ReadsBack
<1> QED BY <1>1, FilesInv, PTL

\* The table, the directory and the chains agree between calls.
THEOREM ChainsStayExact ==
  ASSUME Careless = {}
  PROVE  Spec => []ChainsExact
<1>1. Inv => ChainsExact
  BY InvChains
<1> QED BY <1>1, FilesInv, PTL

\* Power cut in any state leaves every closed file whole on the disk.
THEOREM PowerCutSurvived ==
  ASSUME Careless = {}
  PROVE  Spec => []SurvivesPowerCut
<1>1. Inv => SurvivesPowerCut
  BY InvPower
<1> QED BY <1>1, FilesInv, PTL

-----------------------------------------------------------------------------
(***************************************************************************)
(* The refinement: what a step does to the stored sizes, and to who writes.*)
(***************************************************************************)

\* The size v of file n, in a form without the directory's links.
SizeIs(n, v) ==
  /\ NoEntryOf(n) => v = NoFile
  /\ \A c \in Clusters, s \in Slots : Slot(c, s).nm = n =>
       /\ v \in Nat
       /\ ~Open(n) => v = Slot(c, s).size
  /\ \A h \in Handles : fh[h].nm = n => v = fh[h].size

StoreRel == \A n \in Names : SizeIs(n, Stored(n))

\* The largest of one number above NoFile, and NoFile alone.
LEMMA MaxOf ==
  ASSUME NEW v \in Nat
  PROVE  Max({NoFile} \cup {v}) = v
<1>1. PICK S : S = {NoFile} \cup {v}
  OBVIOUS
<1>2. v \in S /\ (\A y \in S : v >= y) /\ \A x \in S : (\A y \in S : x >= y) => x = v
  BY <1>1 DEF NoFile
<1>3. Max(S) = v
  BY <1>2 DEF Max
<1> QED BY <1>1, <1>3

\* The stored size of each file, at every step of every call.
LEMMA StoredIs ==
  ASSUME NEW g, Holds(g), NEW n \in Names
  PROVE  SizeIs(n, Stored(n))
<1>1. /\ EntriesOK(g) /\ DirsOK(g) /\ HandlesOK(g) /\ TypeInv /\ BuffersOK /\ BuffersType
      /\ g.dirs \subseteq Clusters /\ n # Nil
  BY PartsOf, DirsIn, TypesOf, Nils DEF DiskOK
<1>2. Entries = {e \in g.dirs \X Slots : Slot(e[1], e[2]).nm # Nil}
  BY DirectoryIs
<1>3. \A h \in Handles : fh[h].nm = n => HandleOK(g, h) /\ fh[h].size \in Nat
  BY <1>1, HandleTypes
<1>4. CASE NoEntryOf(n)
  <2>1. {d \in Entries : Entry(d).nm = n} = {}
    BY <1>1, <1>2, <1>4 DEF NoEntryOf, Entry, Slot
  <2>2. Stored(n) = Max({NoFile})
    BY <2>1 DEF Stored
  <2>3. Max({NoFile}) = NoFile
    BY DEF Max, NoFile
  <2>4. \A h \in Handles : fh[h].nm # n
    BY <1>3, <1>4 DEF HandleOK, NoEntryOf
  <2> QED BY <1>4, <2>2, <2>3, <2>4 DEF SizeIs, NoEntryOf
<1>5. CASE ~NoEntryOf(n)
  <2>1. PICK c \in Clusters, s \in Slots : Slot(c, s).nm = n
    BY <1>5 DEF NoEntryOf
  <2>2. \A d \in Clusters, t \in Slots : Slot(d, t).nm = n => d = c /\ t = s
    BY <1>1, <2>1 DEF EntriesOK
  <2>3. c \in g.dirs /\ View(c) \in Parts
    BY <1>1, <2>1, ViewType DEF DirsOK
  <2>4. PICK e : e = <<c, s>>
    OBVIOUS
  <2>5. e \in Entries /\ Entry(e) = Slot(c, s)
    BY <1>1, <1>2, <2>1, <2>3, <2>4 DEF Entry, Slot
  <2>6. {d \in Entries : Entry(d).nm = n} = {e}
    <3>1. ASSUME NEW d \in Entries, Entry(d).nm = n
          PROVE  d = e
      <4>1. PICK a \in g.dirs, t \in Slots : d = <<a, t>>
        BY <1>2
      <4>2. Slot(a, t).nm = n
        BY <3>1, <4>1 DEF Entry, Slot
      <4> QED BY <1>1, <2>2, <2>4, <4>1, <4>2
    <3> QED BY <2>1, <2>5, <3>1
  <2>7. Slot(c, s).size \in Nat
    BY <2>3, Sizes DEF Parts, Slot
  <2>8. Held(e) \in Nat /\ (~Open(n) => Held(e) = Slot(c, s).size)
        /\ \A h \in Handles : fh[h].nm = n => Held(e) = fh[h].size
    <3>1. CASE Open(n)
      <4>1. PICK h \in Handles : fh[h].nm = n
        BY <3>1 DEF Open
      <4>2. \A k \in Handles : fh[k].nm = n => k = h
        BY <1>3, <4>1 DEF HandleOK
      <4>3. (CHOOSE k \in Handles : fh[k].nm = n) = h
        BY <4>1, <4>2
      <4>4. Held(e) = fh[h].size
        BY <2>1, <2>5, <3>1, <4>3 DEF Held
      <4> QED BY <1>3, <3>1, <4>1, <4>2, <4>4
    <3>2. CASE ~Open(n)
      BY <2>1, <2>5, <2>7, <3>2 DEF Held, Open
    <3> QED BY <3>1, <3>2
  <2>9. {Held(d) : d \in {d \in Entries : Entry(d).nm = n}} = {Held(e)}
    BY <2>6
  <2>10. Stored(n) = Held(e)
    BY <2>8, <2>9, MaxOf DEF Stored
  <2> QED BY <1>5, <2>2, <2>8, <2>10 DEF SizeIs
<1> QED BY <1>4, <1>5

\* The stored sizes, from the invariant.
LEMMA InvStore == Inv => StoreRel
BY HoldsInv, StoredIs DEF StoreRel

\* A file whose entry and handle keep their names, and their sizes.
Untouched(n) ==
  /\ \A c \in Clusters, s \in Slots : /\ Slot(c, s)'.nm = n <=> Slot(c, s).nm = n
                                      /\ Slot(c, s).nm = n /\ ~Open(n) =>
                                           Slot(c, s)'.size = Slot(c, s).size
  /\ \A h \in Handles : /\ fh'[h].nm = n <=> fh[h].nm = n
                        /\ fh[h].nm = n => fh'[h].size = fh[h].size

\* Its stored size stays.
LEMMA StoredStays ==
  ASSUME StoreRel, StoreRel', NEW n \in Names, Untouched(n)
  PROVE  Stored(n)' = Stored(n)
<1>1. SizeIs(n, Stored(n)) /\ SizeIs(n, Stored(n))'
  BY DEF StoreRel
<1>2. CASE NoEntryOf(n)
  <2>1. NoEntryOf(n)'
    BY <1>2 DEF NoEntryOf, Untouched
  <2> QED BY <1>1, <1>2, <2>1 DEF SizeIs, NoFile
<1>3. CASE Open(n)
  <2>1. PICK h \in Handles : fh[h].nm = n /\ fh'[h].nm = n /\ fh'[h].size = fh[h].size
    BY <1>3 DEF Open, Untouched
  <2> QED BY <1>1, <2>1 DEF SizeIs
<1>4. CASE ~NoEntryOf(n) /\ ~Open(n)
  <2>1. ~Open(n)'
    BY <1>4 DEF Open, Untouched
  <2>2. PICK c \in Clusters, s \in Slots : Slot(c, s).nm = n
    BY <1>4 DEF NoEntryOf
  <2>3. Slot(c, s)'.nm = n /\ Slot(c, s)'.size = Slot(c, s).size
    BY <1>4, <2>2 DEF Untouched
  <2> QED BY <1>1, <1>4, <2>1, <2>2, <2>3 DEF SizeIs
<1> QED BY <1>2, <1>3, <1>4

\* The slots of every cluster, as the code sees it.
SlotsStay == \A c \in Clusters, s \in Slots : Slot(c, s)' = Slot(c, s)
SizesStay ==
  \A h \in Handles : fh'[h].nm = fh[h].nm /\ fh'[h].size = fh[h].size /\ fh'[h].mode = fh[h].mode

\* Who writes, where no handle changes its name or its mode.
LEMMA WritersStay ==
  ASSUME SizesStay
  PROVE  Writers' = Writers
BY DEF SizesStay, Writers

\* A step that touches no file.
LEMMA OtherStep ==
  ASSUME StoreRel, StoreRel', Writers' = Writers, \A n \in Names : Untouched(n)
  PROVE  Store!Next
<1>1. \A n \in Names : Stored(n)' = Stored(n)
  BY StoredStays
<1>2. [n \in Names |-> Stored(n)]' = [n \in Names |-> Stored(n)]
  BY <1>1
<1> QED BY <1>2 DEF Store!Next, Store!Other

\* A step that leaves every entry and every handle's size.
LEMMA UnseenStep ==
  ASSUME StoreRel, StoreRel', SlotsStay, SizesStay
  PROVE  Store!Next
<1>1. \A n \in Names : Untouched(n)
  BY DEF SlotsStay, SizesStay, Untouched
<1> QED BY <1>1, WritersStay, OtherStep

\* A memory with the clusters of the disk: its table and its table's buffer may differ.
SameDisk(m) ==
  /\ m = [disk |-> m.disk, fat |-> m.fat]
  /\ m.disk = [fat |-> m.disk.fat, cluster |-> m.disk.cluster]
  /\ m.disk.cluster = disk.cluster

\* The operators on the table leave the clusters (FSBFATFlushOne, FSBFATGet, FATMark).
LEMMA FlushSame ==
  ASSUME NEW f, NEW d, d = [fat |-> d.fat, cluster |-> d.cluster]
  PROVE  /\ FatFlushed(f, d).cluster = d.cluster
         /\ FatFlushed(f, d) = [fat |-> FatFlushed(f, d).fat, cluster |-> FatFlushed(f, d).cluster]
<1>1. PICK t : t = [c \in Clusters |-> IF InWindow(f, c) THEN f.buf[c] ELSE d.fat[c]]
  OBVIOUS
<1>2. [d EXCEPT !.fat = [c \in Clusters |-> IF InWindow(f, c) THEN f.buf[c] ELSE @[c]]]
        = [d EXCEPT !.fat = t]
  BY <1>1
<1>3. [d EXCEPT !.fat = t] = [fat |-> t, cluster |-> d.cluster]
  OBVIOUS
<1> QED BY <1>2, <1>3 DEF FatFlushed

\* FSBFATGet's reading of a window.
LEMMA LoadSame ==
  ASSUME NEW m, SameDisk(m), NEW first
  PROVE  SameDisk(LoadWindow(m, first))
<1>1. PICK d : d = FatFlushed(m.fat, m.disk)
  OBVIOUS
<1>2. d.cluster = disk.cluster /\ d = [fat |-> d.fat, cluster |-> d.cluster]
  BY <1>1, FlushSame DEF SameDisk
<1>3. PICK f : LoadWindow(m, first) = [disk |-> d, fat |-> f]
  BY <1>1 DEF LoadWindow
<1> QED BY <1>2, <1>3 DEF SameDisk

\* FSBFATGet.
LEMMA GetSame ==
  ASSUME NEW m, SameDisk(m), NEW c
  PROVE  SameDisk(FSBFATGet(m, c))
BY LoadSame DEF FSBFATGet

\* FATMark.
LEMMA MarkSame ==
  ASSUME NEW m, SameDisk(m), NEW c, NEW mark
  PROVE  SameDisk(FATMark(m, c, mark))
<1>1. PICK g : g = FSBFATGet(m, c)
  OBVIOUS
<1>2. SameDisk(g)
  BY <1>1, GetSame
<1>3. PICK f : FATMark(m, c, mark) = [g EXCEPT !.fat = f]
  <2>1. FATMark(m, c, mark) = [g EXCEPT !.fat.buf[c] = mark, !.fat.dirty = TRUE]
    BY <1>1 DEF FATMark
  <2>2. [g EXCEPT !.fat.buf[c] = mark, !.fat.dirty = TRUE]
          = [g EXCEPT !.fat = [[g.fat EXCEPT !.buf[c] = mark] EXCEPT !.dirty = TRUE]]
    BY <1>2 DEF SameDisk
  <2> QED BY <2>1, <2>2
<1>4. FATMark(m, c, mark) = [disk |-> g.disk, fat |-> f]
  BY <1>2, <1>3 DEF SameDisk
<1> QED BY <1>2, <1>4 DEF SameDisk

\* The table and its buffer in the variables.
LEMMA FatSame ==
  ASSUME TypeInv
  PROVE  SameDisk(Fat)
<1>1. disk = [fat |-> disk.fat, cluster |-> disk.cluster]
  BY TypesOf DEF DiskType
<1> QED BY <1>1 DEF SameDisk, Fat

\* Allocate leaves the clusters.
LEMMA AllocSame ==
  ASSUME TypeInv, Allocate
  PROVE  disk'.cluster = disk.cluster
<1>1. PICK c, first, m : /\ m = (IF first = fatbuf.first THEN Fat ELSE LoadWindow(Fat, first))
                         /\ FATAlloc.m = [m EXCEPT !.fat.buf[c] = CLUSTER_CHAIN_END,
                                                   !.fat.dirty = TRUE]
  BY DEF FATAlloc
<1>2. SameDisk(m)
  BY <1>1, FatSame, LoadSame
<1>3. [m EXCEPT !.fat.buf[c] = CLUSTER_CHAIN_END, !.fat.dirty = TRUE]
        = [m EXCEPT !.fat = [[m.fat EXCEPT !.buf[c] = CLUSTER_CHAIN_END] EXCEPT !.dirty = TRUE]]
  BY <1>2 DEF SameDisk
<1>4. PICK f : FATAlloc.m = [m EXCEPT !.fat = f]
  BY <1>1, <1>3
<1>5. FATAlloc.m = [disk |-> m.disk, fat |-> f]
  BY <1>2, <1>4 DEF SameDisk
<1>6. disk' = FATAlloc.m.disk
  BY DEF Allocate, SetFat
<1> QED BY <1>2, <1>5, <1>6 DEF SameDisk

\* A step of the table leaves every slot.
LEMMA ClustersStay ==
  ASSUME disk'.cluster = disk.cluster, fsb_t' = fsb_t
  PROVE  SlotsStay
BY DEF SlotsStay, Slot, View

\* A step that sets the table and its buffer.
LEMMA TableSlots ==
  ASSUME NEW m, SameDisk(m), SetFat(m), fsb_t' = fsb_t
  PROVE  SlotsStay
BY ClustersStay DEF SameDisk, SetFat

\* A step that moves no slot's cluster.
LEMMA StillSlots ==
  ASSUME Still
  PROVE  SlotsStay
BY KeptGives DEF Still, SlotsStay

\* The calls that only begin, and those that read the disk past the buffers.
LEMMA BeginSlots ==
  ASSUME disk' = disk, fsb_t' = fsb_t
  PROVE  SlotsStay
BY ClustersStay

\* A step that keeps every cluster.
LEMMA KeptSlots ==
  ASSUME \A c \in Clusters : Kept(c)
  PROVE  SlotsStay
BY KeptGives DEF SlotsStay

\* A handle that moves in its file.
LEMMA MovedSizes ==
  ASSUME fh \in [Handles -> HandleType], NEW h \in Handles, NEW e, fh' = [fh EXCEPT ![h] = e],
         e.nm = fh[h].nm, e.size = fh[h].size, e.mode = fh[h].mode
  PROVE  SizesStay
BY DEF SizesStay

\* Every handle stays.
LEMMA SameSizes == fh' = fh => SizesStay
BY DEF SizesStay

\* The calls that begin touch no file, nor does a read past the buffers.
LEMMA BeginUnseen ==
  ASSUME NEW g, Holds(g), StoreRel, StoreRel',
         \/ \E h \in Handles, n \in Names : FSOpen(h, n) \/ FSCreate(h, n)
         \/ \E n \in Names : FSDelete(n)
         \/ \E h \in Handles, k \in Lengths : FSRead(h, k) \/ FSWrite(h, k)
         \/ \E h \in Handles, p \in Positions : FSSeek(h, p)
         \/ \E h \in Handles : FSClose(h)
         \/ FSFlush \/ ReadDirect
  PROVE  Store!Next
<1>1. disk' = disk /\ fsb_t' = fsb_t
  BY DEF FSOpen, FSCreate, FSDelete, FSRead, FSWrite, FSSeek, FSClose, FSFlush, ReadDirect
<1>2. fh \in [Handles -> HandleType]
  BY PartsOf DEF TypeInv
<1>3. (\E h \in Handles, p \in Positions : FSSeek(h, p)) => SizesStay
  <2> SUFFICES ASSUME NEW h \in Handles, NEW p \in Positions, FSSeek(h, p)
               PROVE  SizesStay
    OBVIOUS
  <2>1. PICK c, o : fh' = [fh EXCEPT ![h].cluster = c, ![h].off = o, ![h].pos = p]
    BY DEF FSSeek
  <2>2. PICK e : e = [fh[h] EXCEPT !.cluster = c, !.off = o, !.pos = p]
    OBVIOUS
  <2>3. fh' = [fh EXCEPT ![h] = e]
    BY <1>2, <2>1, <2>2
  <2>4. e.nm = fh[h].nm /\ e.size = fh[h].size /\ e.mode = fh[h].mode
    BY <1>2, <2>2 DEF HandleType
  <2> QED BY <1>2, <2>3, <2>4, MovedSizes
<1>4. ReadDirect => SizesStay
  <2> SUFFICES ASSUME ReadDirect PROVE SizesStay
    OBVIOUS
  <2>1. PICK h, c, k : /\ h = call.h
                       /\ ReadOn([fh[h] EXCEPT !.cluster = c, !.off = 0, !.pos = @ + k], k)
    BY DEF ReadDirect
  <2>2. h \in Handles
    BY <2>1, ReadBegins DEF ReadDirect
  <2>3. PICK e : e = [fh[h] EXCEPT !.cluster = c, !.off = 0, !.pos = @ + k]
    OBVIOUS
  <2>4. fh' = [fh EXCEPT ![h] = e]
    BY <2>1, <2>3 DEF ReadOn
  <2>5. e.nm = fh[h].nm /\ e.size = fh[h].size /\ e.mode = fh[h].mode
    BY <1>2, <2>2, <2>3 DEF HandleType
  <2> QED BY <1>2, <2>2, <2>4, <2>5, MovedSizes
<1>5. SizesStay
  BY <1>3, <1>4, SameSizes DEF FSOpen, FSCreate, FSDelete, FSRead, FSWrite, FSClose, FSFlush
<1> QED BY <1>1, <1>5, BeginSlots, UnseenStep

\* Nor do the steps of the table.
LEMMA TableUnseen ==
  ASSUME NEW g, Holds(g), StoreRel, StoreRel',
         \/ FATChainFree \/ SeekCluster \/ WriteNext \/ LinearMore \/ LinearLast
         \/ WriteChain \/ ReadNext \/ LinearRun
  PROVE  Store!Next
<1>1. /\ fh \in [Handles -> HandleType] /\ CallOK(g) /\ SameDisk(Fat)
  BY PartsOf, FatSame DEF TypeInv
<1>2. fsb_t' = fsb_t
  BY DEF FATChainFree, SeekCluster, WriteNext, LinearMore, LinearLast, WriteChain, ReadNext,
         LinearRun
<1>3. (\E m : SameDisk(m) /\ SetFat(m)) \/ disk' = disk
  <2>1. FATChainFree => SetFat(FATMark(Fat, call.c, CLUSTER_UNUSED))
    BY DEF FATChainFree
  <2>2. SeekCluster => disk' = disk \/ SetFat(FSBFATGet(Fat, fh[call.h].cluster))
    BY DEF SeekCluster
  <2>3. WriteNext \/ ReadNext => SetFat(FSBFATGet(Fat, fh[call.h].cluster))
    BY DEF WriteNext, ReadNext
  <2>4. LinearMore => SetFat(FATMark(FSBFATGet(Fat, call.c + 1), call.c, call.c + 1))
    BY DEF LinearMore
  <2>5. LinearLast => \/ SetFat(FATMark(FSBFATGet(Fat, call.c + 1), call.c, CLUSTER_CHAIN_END))
                      \/ SetFat(FATMark(Fat, call.c, CLUSTER_CHAIN_END))
    BY DEF LinearLast
  <2>6. WriteChain => SetFat(FATMark(Fat, fh[call.h].cluster, call.x))
    BY DEF WriteChain
  <2>7. LinearRun => SetFat(FSBFATGet(Fat, call.c))
    BY DEF LinearRun
  <2>8. \A c, mark : /\ SameDisk(FATMark(Fat, c, mark)) /\ SameDisk(FSBFATGet(Fat, c))
                     /\ \A d : SameDisk(FATMark(FSBFATGet(Fat, d), c, mark))
    BY <1>1, GetSame, MarkSame
  <2> QED BY <2>1, <2>2, <2>3, <2>4, <2>5, <2>6, <2>7, <2>8
<1>4. SlotsStay
  BY <1>2, <1>3, TableSlots, BeginSlots
<1>5. SizesStay
  <2>1. FATChainFree \/ LinearMore \/ LinearLast \/ ReadNext \/ LinearRun => fh' = fh
    BY DEF FATChainFree, LinearMore, LinearLast, ReadNext, LinearRun
  <2>2. SeekCluster \/ WriteNext \/ WriteChain =>
          \/ fh' = fh
          \/ \E c, o : \/ fh' = [fh EXCEPT ![call.h].cluster = c]
                       \/ fh' = [fh EXCEPT ![call.h].cluster = c, ![call.h].off = o]
    BY DEF SeekCluster, WriteNext, WriteChain
  <2>3. SeekCluster \/ WriteNext \/ WriteChain => call.h \in Handles
    BY <1>1 DEF CallOK, PhaseOK, SeekCluster, WriteNext, WriteChain
  <2>4. ASSUME NEW h \in Handles, NEW c, NEW o,
               \/ fh' = [fh EXCEPT ![h].cluster = c]
               \/ fh' = [fh EXCEPT ![h].cluster = c, ![h].off = o]
        PROVE  SizesStay
    <3>1. PICK e : \/ e = [fh[h] EXCEPT !.cluster = c] /\ fh' = [fh EXCEPT ![h] = e]
                   \/ /\ e = [fh[h] EXCEPT !.cluster = c, !.off = o]
                      /\ fh' = [fh EXCEPT ![h] = e]
      BY <1>1, <2>4
    <3>2. e.nm = fh[h].nm /\ e.size = fh[h].size /\ e.mode = fh[h].mode
      BY <1>1, <3>1 DEF HandleType
    <3> QED BY <1>1, <3>1, <3>2, MovedSizes
  <2> QED BY <2>1, <2>2, <2>3, <2>4, SameSizes
<1> QED BY <1>4, <1>5, UnseenStep

\* Nor do those that allocate a cluster.
LEMMA AllocUnseen ==
  ASSUME NEW g, Holds(g), StoreRel, StoreRel', GrowDirectory \/ WriteFirst \/ WriteAlloc
  PROVE  Store!Next
<1>1. TypeInv /\ fh \in [Handles -> HandleType] /\ CallOK(g)
  BY PartsOf DEF TypeInv
<1>2. Allocate /\ fsb_t' = fsb_t
  BY DEF GrowDirectory, WriteFirst, WriteAlloc
<1>3. SlotsStay
  BY <1>1, <1>2, AllocSame, ClustersStay
<1>4. WriteFirst => SizesStay
  <2> SUFFICES ASSUME WriteFirst PROVE SizesStay
    OBVIOUS
  <2>1. PICK c : fh' = [fh EXCEPT ![call.h].firstcluster = c]
    BY DEF WriteFirst
  <2>2. PICK h \in Handles : h = call.h
    BY <1>1 DEF CallOK, PhaseOK, WriteFirst
  <2>3. PICK e : e = [fh[h] EXCEPT !.firstcluster = c] /\ fh' = [fh EXCEPT ![h] = e]
    BY <1>1, <2>1, <2>2
  <2>4. e.nm = fh[h].nm /\ e.size = fh[h].size /\ e.mode = fh[h].mode
    BY <1>1, <2>3 DEF HandleType
  <2> QED BY <1>1, <2>3, <2>4, MovedSizes
<1>5. SizesStay
  BY <1>4, SameSizes DEF GrowDirectory, WriteAlloc
<1> QED BY <1>3, <1>5, UnseenStep

\* Nor do those that look at a cluster, write a buffer or forget the clean ones.
LEMMA LookUnseen ==
  ASSUME NEW g, Holds(g), StoreRel, StoreRel',
         FDFind \/ FDReplace \/ ReadCluster \/ FlushBuffer \/ FSInit
  PROVE  Store!Next
<1>1. /\ TypeInv /\ BuffersOK /\ BuffersType /\ CleanOK /\ CallOK(g)
      /\ fh \in [Handles -> HandleType] /\ g.dirs \subseteq Clusters
  BY PartsOf, TypesOf, DirsIn DEF TypeInv
<1>2. FDFind \/ FDReplace => SlotsStay /\ SizesStay
  <2> SUFFICES ASSUME FDFind \/ FDReplace PROVE SlotsStay /\ SizesStay
    OBVIOUS
  <2>1. Look(call.c, FSBPRI_SYS) /\ fatbuf' = fatbuf /\ fh' = fh /\ call.at \in {"find", "replace"}
    BY DEF FDFind, FDReplace
  <2>2. call.c \in Clusters
    BY <1>1, <2>1 DEF CallOK, DirCallOK
  <2>3. Still
    BY <1>1, <2>1, <2>2, QuietLook DEF Quiet
  <2> QED BY <2>1, <2>3, StillSlots, SameSizes
<1>3. ReadCluster => SlotsStay /\ SizesStay
  <2> SUFFICES ASSUME ReadCluster PROVE SlotsStay /\ SizesStay
    OBVIOUS
  <2>1. call.op = "read"
    BY <1>1 DEF CallOK, PhaseOK, ReadCluster
  <2>2. PICK h \in Handles, c \in Clusters : h = call.h /\ c = fh[h].cluster
    BY <2>1, ReadBegins
  <2>3. Look(c, FSBPRI_USR) /\ fatbuf' = fatbuf
    BY <2>2 DEF ReadCluster
  <2>4. Still
    BY <1>1, <2>3, QuietLook DEF Quiet
  <2>5. PICK k : ReadOn([fh[h] EXCEPT !.off = @ + k, !.pos = @ + k], k)
    BY <2>2 DEF ReadCluster
  <2>6. PICK e : e = [fh[h] EXCEPT !.off = @ + k, !.pos = @ + k]
    OBVIOUS
  <2>7. fh' = [fh EXCEPT ![h] = e]
    BY <2>2, <2>5, <2>6 DEF ReadOn
  <2>8. e.nm = fh[h].nm /\ e.size = fh[h].size /\ e.mode = fh[h].mode
    BY <1>1, <2>6 DEF HandleType
  <2> QED BY <1>1, <2>4, <2>7, <2>8, StillSlots, MovedSizes
<1>4. FlushBuffer => SlotsStay /\ SizesStay
  <2> SUFFICES ASSUME FlushBuffer PROVE SlotsStay /\ SizesStay
    OBVIOUS
  <2>1. PICK S \in SUBSET Buffers : S = {b \in Buffers : fsb_t[b].dirty # 0} /\ S # {}
    BY DEF FlushBuffer
  <2>2. PICK k : k = Min(S) /\ k \in S
    BY <2>1, MinIsLeast, Numbered
  <2>3. disk' = Written(disk, k) /\ fsb_t' = [fsb_t EXCEPT ![k].dirty = 0] /\ fh' = fh
    BY <2>1, <2>2 DEF FlushBuffer
  <2> QED BY <1>1, <2>1, <2>2, <2>3, FlushKeeps, KeptSlots, SameSizes
<1>5. FSInit => SlotsStay /\ SizesStay
  <2> SUFFICES ASSUME FSInit PROVE SlotsStay /\ SizesStay
    OBVIOUS
  <2>1. /\ call.op = "none" /\ \A h \in Handles : fh[h].mode = "free"
        /\ fsb_t' = EmptyBuffers /\ disk' = disk /\ fh' = fh
    BY DEF FSInit, Idle
  <2>2. Writers = {} /\ ~Emptying
    BY <2>1, OutOf DEF Writers, Emptying
  <2>3. \A b \in Buffers : fsb_t[b].dirty = 0
    BY <1>1, <2>2 DEF CleanOK, Clean
  <2> QED BY <1>1, <2>1, <2>3, EmptyKeeps, KeptSlots, SameSizes
<1> QED BY <1>2, <1>3, <1>4, <1>5, UnseenStep

\* One slot gets an entry.
EntrySet(c, s, entry) ==
  \A d \in Clusters, t \in Slots : Slot(d, t)' = IF d = c /\ t = s THEN entry ELSE Slot(d, t)

\* What changing a cluster of the directory does to the slots.
LEMMA ChangeSlots ==
  ASSUME NEW g, Holds(g), NEW c \in Clusters, NEW new \in Parts,
         Change(c, FSBPRI_SYS, FSBDIRTY_SYS, new)
  PROVE  \A d \in Clusters, t \in Slots :
           Slot(d, t)' = IF d = c THEN new.slot[t] ELSE Slot(d, t)
<1>1. BuffersType /\ BuffersOK
  BY PartsOf, TypesOf
<1>2. View(c)' = new /\ \A d \in Clusters \ {c} : Kept(d)
  BY <1>1, ChangeIs
<1> QED BY <1>2, KeptGives DEF Slot

\* And changing one of its entries.
LEMMA ChangeEntry ==
  ASSUME NEW g, Holds(g), NEW c \in Clusters, NEW s \in Slots, NEW entry \in EntryType,
         Change(c, FSBPRI_SYS, FSBDIRTY_SYS, [View(c) EXCEPT !.slot[s] = entry])
  PROVE  EntrySet(c, s, entry)
<1>1. View(c) \in Parts
  BY PartsOf, TypesOf, ViewType
<1>2. PICK new : new = [View(c) EXCEPT !.slot[s] = entry]
  OBVIOUS
<1>3. new \in Parts /\ new.slot = [View(c).slot EXCEPT ![s] = entry]
  BY <1>1, <1>2 DEF Parts, EntryType
<1>4. \A d \in Clusters, t \in Slots :
        Slot(d, t)' = IF d = c THEN new.slot[t] ELSE Slot(d, t)
  BY <1>2, <1>3, ChangeSlots
<1>5. \A t \in Slots : new.slot[t] = IF t = s THEN entry ELSE Slot(c, t)
  BY <1>1, <1>3 DEF Parts, Slot
<1> QED BY <1>4, <1>5 DEF EntrySet

\* A slot of a cluster, as the code gets it.
LEMMA SlotType ==
  ASSUME NEW g, Holds(g), NEW c \in Clusters, NEW s \in Slots
  PROVE  /\ View(c) \in Parts /\ Contents(c) = View(c)
         /\ Slot(c, s) \in EntryType /\ Slot(c, s) = View(c).slot[s]
<1>1. BuffersType /\ BuffersOK
  BY PartsOf, TypesOf
<1>2. View(c) \in Parts /\ Contents(c) = View(c)
  BY <1>1, ViewType, ContentsIsView
<1> QED BY <1>2 DEF Parts, EntryType, Slot

\* The directory grows: no entry changes (FDCreate).
LEMMA DirectoryUnseen ==
  ASSUME NEW g, Holds(g), StoreRel, StoreRel', LinkDirectory \/ ClearDirectory
  PROVE  Store!Next
<1>1. CallOK(g) /\ EntriesOK(g) /\ call \in CallType /\ fh' = fh
  BY PartsOf DEF DiskOK, TypeInv, LinkDirectory, ClearDirectory
<1>2. PICK c \in Clusters : c = call.c
  BY <1>1, DirsIn DEF CallOK, DirCallOK, LinkDirectory, ClearDirectory
<1>3. View(c) \in Parts /\ Contents(c) = View(c)
  BY PartsOf, TypesOf, ViewType, ContentsIsView
<1>4. CASE LinkDirectory
  <2>1. PICK new : new = [View(c) EXCEPT !.link = call.x]
    OBVIOUS
  <2>2. new \in Parts /\ new.slot = View(c).slot
    BY <1>1, <1>3, <2>1 DEF Parts, CallType
  <2>3. Change(c, FSBPRI_SYS, FSBDIRTY_SYS, new)
    BY <1>2, <1>3, <1>4, <2>1 DEF LinkDirectory
  <2>4. SlotsStay
    BY <2>2, <2>3, ChangeSlots DEF SlotsStay, Slot
  <2> QED BY <1>1, <2>4, SameSizes, UnseenStep
<1>5. CASE ClearDirectory
  <2>1. \A s \in Slots : Slot(c, s) = NoEntry
    BY <1>1, <1>2, <1>5 DEF CallOK, DirCallOK, EntriesOK, ClearDirectory
  <2>2. Blank \in Parts /\ \A s \in Slots : Blank.slot[s] = NoEntry
    BY Sizes DEF Blank, Parts, NoEntry, NoWord, Words
  <2>3. Change(c, FSBPRI_SYS, FSBDIRTY_SYS, Blank)
    BY <1>2, <1>5 DEF ClearDirectory
  <2>4. SlotsStay
    BY <2>1, <2>2, <2>3, ChangeSlots DEF SlotsStay
  <2> QED BY <1>1, <2>4, SameSizes, UnseenStep
<1> QED BY <1>4, <1>5

\* Nor does a step that changes an entry's cluster, or the size of a file that is open:
\* its handle has the size.
LEMMA EntryUnseen ==
  ASSUME NEW g, Holds(g), StoreRel, StoreRel', SizesStay,
         NEW c \in Clusters, NEW s \in Slots, NEW entry, EntrySet(c, s, entry),
         entry.nm = Slot(c, s).nm, Open(entry.nm)
  PROVE  Store!Next
<1>1. ASSUME NEW n \in Names
      PROVE  Untouched(n)
  <2>1. \A d \in Clusters, t \in Slots :
          /\ Slot(d, t)'.nm = n <=> Slot(d, t).nm = n
          /\ Slot(d, t).nm = n /\ ~Open(n) => Slot(d, t)'.size = Slot(d, t).size
    BY DEF EntrySet
  <2> QED BY <2>1 DEF Untouched, SizesStay
<1> QED BY <1>1, WritersStay, OtherStep

\* FSClose's new size, and the first cluster that FSWrite gives a file.
LEMMA HandleEntryUnseen ==
  ASSUME NEW g, Holds(g), StoreRel, StoreRel', CloseEntry \/ WriteFirstEntry
  PROVE  Store!Next
<1>1. CallOK(g) /\ fh \in [Handles -> HandleType]
  BY PartsOf DEF TypeInv
<1>2. PICK h \in Handles, f \in HandleType : h = call.h /\ f = fh[h] /\ HandleOK(g, h)
  BY <1>1, HandleTypes DEF CallOK, PhaseOK, CloseEntry, WriteFirstEntry
<1>3. PICK c \in Clusters, s \in Slots : c = f.dircluster /\ s = f.diroff /\ Slot(c, s).nm = f.nm
  BY <1>2 DEF HandleOK
<1>4. PICK old \in EntryType : old = Slot(c, s) /\ old = View(c).slot[s]
  BY SlotType
<1>5. View(c) \in Parts /\ Contents(c) = View(c)
  BY SlotType
<1>6. Open(old.nm)
  BY <1>2, <1>3, <1>4 DEF Open
<1>7. CASE CloseEntry
  <2>1. PICK entry \in EntryType : entry = [old EXCEPT !.size = f.size]
    BY DEF EntryType, HandleType
  <2>2. [View(c) EXCEPT !.slot[s].size = f.size] = [View(c) EXCEPT !.slot[s] = entry]
    BY <1>4, <1>5, <2>1 DEF Parts
  <2>3. Change(c, FSBPRI_SYS, FSBDIRTY_SYS, [View(c) EXCEPT !.slot[s] = entry]) /\ fh' = fh
    BY <1>2, <1>3, <1>5, <1>7, <2>2 DEF CloseEntry
  <2>4. EntrySet(c, s, entry) /\ entry.nm = Slot(c, s).nm
    BY <1>4, <2>1, <2>3, ChangeEntry DEF EntryType
  <2> QED BY <1>4, <1>6, <2>3, <2>4, SameSizes, EntryUnseen
<1>8. CASE WriteFirstEntry
  <2>1. PICK entry \in EntryType : entry = [old EXCEPT !.cluster = f.firstcluster]
    BY DEF EntryType, HandleType
  <2>2. [View(c) EXCEPT !.slot[s].cluster = f.firstcluster] = [View(c) EXCEPT !.slot[s] = entry]
    BY <1>4, <1>5, <2>1 DEF Parts
  <2>3. Change(c, FSBPRI_SYS, FSBDIRTY_SYS, [View(c) EXCEPT !.slot[s] = entry])
    BY <1>2, <1>3, <1>5, <1>8, <2>2 DEF WriteFirstEntry
  <2>4. EntrySet(c, s, entry) /\ entry.nm = Slot(c, s).nm
    BY <1>4, <2>1, <2>3, ChangeEntry DEF EntryType
  <2>5. fh' = [fh EXCEPT ![h].cluster = f.firstcluster, ![h].off = 0]
    BY <1>2, <1>8 DEF WriteFirstEntry
  <2>6. PICK e : e = [f EXCEPT !.cluster = f.firstcluster, !.off = 0]
    OBVIOUS
  <2>7. fh' = [fh EXCEPT ![h] = e]
    BY <1>1, <1>2, <2>5, <2>6
  <2>8. e.nm = fh[h].nm /\ e.size = fh[h].size /\ e.mode = fh[h].mode
    BY <1>2, <2>6 DEF HandleType
  <2>9. SizesStay
    BY <1>1, <2>7, <2>8, MovedSizes
  <2> QED BY <1>4, <1>6, <2>4, <2>9, EntryUnseen
<1> QED BY <1>7, <1>8

\* FSOpen: the handle has the size of the entry.
LEMMA OpenUnseen ==
  ASSUME NEW g, Holds(g), StoreRel, StoreRel', OpenEntry
  PROVE  Store!Next
<1>1. /\ CallOK(g) /\ TypeInv /\ BuffersOK /\ fh \in [Handles -> HandleType] /\ call \in CallType
      /\ call.op = "open" /\ call.at = "entry" /\ fatbuf' = fatbuf
  BY PartsOf DEF TypeInv, OpenEntry
<1>2. PICK h \in Handles, n \in Names, c \in Clusters, s \in Slots :
        /\ h = call.h /\ n = call.nm /\ c = call.c /\ s = call.s
        /\ fh[h] = NoHandle /\ ~Open(n) /\ Slot(c, s).nm = n
  BY <1>1, DirsIn DEF CallOK, DirCallOK, CallType
<1>3. PICK old \in EntryType : old = Slot(c, s) /\ old = Contents(c).slot[s]
  BY SlotType
<1>4. SlotsStay
  BY <1>1, <1>2, QuietLook, StillSlots DEF OpenEntry, Quiet
<1>5. PICK e : /\ e.nm = n /\ e.mode = "read" /\ e.size = old.size
               /\ fh' = [fh EXCEPT ![h] = e]
  <2>1. PICK x : x = old.cluster
    OBVIOUS
  <2>2. fh' = [fh EXCEPT ![h] =
                 [NoHandle EXCEPT !.nm = n, !.mode = "read", !.size = old.size,
                                  !.dircluster = c, !.diroff = s,
                                  !.firstcluster = x, !.cluster = x]]
    BY <1>2, <1>3, <2>1 DEF OpenEntry
  <2>3. PICK e : e = [NoHandle EXCEPT !.nm = n, !.mode = "read", !.size = old.size,
                                      !.dircluster = c, !.diroff = s,
                                      !.firstcluster = x, !.cluster = x]
    OBVIOUS
  <2>4. e.nm = n /\ e.mode = "read" /\ e.size = old.size
    BY <2>3 DEF NoHandle
  <2> QED BY <2>2, <2>3, <2>4
<1>6. fh'[h] = e /\ \A k \in Handles \ {h} : fh'[k] = fh[k]
  BY <1>1, <1>5
<1>7. n # Nil /\ fh[h].nm = Nil /\ fh[h].mode = "free"
  BY <1>2, Nils DEF NoHandle
<1>8. \A m \in Names \ {n} : Untouched(m)
  <2> SUFFICES ASSUME NEW m \in Names \ {n} PROVE Untouched(m)
    OBVIOUS
  <2>1. \A k \in Handles : /\ fh'[k].nm = m <=> fh[k].nm = m
                           /\ fh[k].nm = m => fh'[k].size = fh[k].size
    BY <1>5, <1>6, <1>7, Nils
  <2> QED BY <1>4, <2>1 DEF Untouched, SlotsStay
<1>9. \A m \in Names \ {n} : Stored(m)' = Stored(m)
  BY <1>8, StoredStays
<1>10. Stored(n)' = Stored(n)
  <2>1. SizeIs(n, Stored(n)) /\ SizeIs(n, Stored(n))'
    BY DEF StoreRel
  <2>2. Stored(n) = old.size
    BY <1>2, <1>3, <2>1 DEF SizeIs
  <2>3. Stored(n)' = e.size
    BY <1>5, <1>6, <2>1 DEF SizeIs
  <2> QED BY <1>5, <2>2, <2>3
<1>11. Writers' = Writers
  <2>1. \A k \in Handles : fh'[k].mode = "write" <=> fh[k].mode = "write"
    BY <1>5, <1>6, <1>7
  <2>2. \A k \in Handles : fh[k].mode = "write" => fh'[k].nm = fh[k].nm
    BY <1>6, <1>7
  <2> QED BY <2>1, <2>2 DEF Writers
<1>12. [m \in Names |-> Stored(m)]' = [m \in Names |-> Stored(m)]
  BY <1>9, <1>10
<1> QED BY <1>11, <1>12 DEF Store!Next, Store!Other

\* The end of a flush: FSClose gives up the handle, whose size is the entry's.
LEMMA FlushFatStores ==
  ASSUME NEW g, Holds(g), StoreRel, StoreRel', FlushFat
  PROVE  Store!Next
<1>1. /\ CallOK(g) /\ TypeInv /\ fh \in [Handles -> HandleType]
      /\ disk = [fat |-> disk.fat, cluster |-> disk.cluster]
  BY PartsOf, TypesOf DEF TypeInv, DiskType
<1>2. disk' = FatFlushed(fatbuf, disk) /\ fsb_t' = fsb_t /\ call.at = "flush"
  BY DEF FlushFat
<1>3. SlotsStay
  BY <1>1, <1>2, FlushSame, ClustersStay
<1>4. CASE call.op # "close"
  <2>1. fh' = fh
    BY <1>4 DEF FlushFat
  <2> QED BY <1>3, <2>1, SameSizes, UnseenStep
<1>5. CASE call.op = "close"
  <2>1. PICK h \in Handles, f \in HandleType : /\ h = call.h /\ f = fh[h] /\ HandleOK(g, h)
                                               /\ Slot(f.dircluster, f.diroff).size = f.size
    BY <1>1, <1>2, <1>5, HandleTypes DEF CallOK
  <2>2. PICK n \in Names, c \in Clusters, s \in Slots :
          /\ n = f.nm /\ c = f.dircluster /\ s = f.diroff /\ Slot(c, s).nm = n
          /\ Slot(c, s).size = f.size /\ \A k \in Handles : fh[k].nm = n => k = h
    BY <2>1 DEF HandleOK
  <2>3. fh' = [fh EXCEPT ![h] = NoHandle]
    BY <1>5, <2>1 DEF FlushFat
  <2>4. fh'[h] = NoHandle /\ \A k \in Handles \ {h} : fh'[k] = fh[k]
    BY <1>1, <2>3
  <2>5. NoHandle.nm = Nil /\ NoHandle.mode = "free"
    BY DEF NoHandle
  <2>6. \A m \in Names \ {n} : Untouched(m)
    <3> SUFFICES ASSUME NEW m \in Names \ {n} PROVE Untouched(m)
      OBVIOUS
    <3>1. \A k \in Handles : /\ fh'[k].nm = m <=> fh[k].nm = m
                             /\ fh[k].nm = m => fh'[k].size = fh[k].size
      BY <2>1, <2>2, <2>4, <2>5, Nils
    <3> QED BY <1>3, <3>1 DEF Untouched, SlotsStay
  <2>7. \A m \in Names \ {n} : Stored(m)' = Stored(m)
    BY <2>6, StoredStays
  <2>8. Stored(n)' = Stored(n)
    <3>1. SizeIs(n, Stored(n)) /\ SizeIs(n, Stored(n))'
      BY DEF StoreRel
    <3>2. Stored(n) = f.size
      BY <2>1, <2>2, <3>1 DEF SizeIs
    <3>3. \A k \in Handles : fh'[k].nm # n
      BY <2>2, <2>4, <2>5, Nils
    <3>4. ~Open(n)' /\ Slot(c, s)'.nm = n /\ Slot(c, s)'.size = f.size
      BY <1>3, <2>2, <3>3 DEF Open, SlotsStay
    <3>5. Stored(n)' = f.size
      BY <3>1, <3>4 DEF SizeIs
    <3> QED BY <3>2, <3>5
  <2>9. PICK store : /\ store = [m \in Names |-> Stored(m)]
                     /\ [m \in Names |-> Stored(m)]' = store
    BY <2>7, <2>8
  <2>10. CASE f.mode = "write"
    <3>1. n \in Writers
      BY <2>1, <2>2, <2>10 DEF Writers
    <3>2. Writers' = Writers \ {n}
      <4>1. \A k \in Handles : fh'[k].mode = "write" <=> fh[k].mode = "write" /\ k # h
        BY <2>4, <2>5
      <4>2. \A k \in Handles : fh[k].mode = "write" /\ k # h => fh'[k].nm = fh[k].nm /\ fh[k].nm # n
        BY <2>2, <2>4
      <4>3. fh[h].nm = n
        BY <2>1, <2>2
      <4> QED BY <4>1, <4>2, <4>3 DEF Writers
    <3>3. Store!Close(n)
      BY <2>9, <3>1, <3>2 DEF Store!Close
    <3> QED BY <3>3 DEF Store!Next
  <2>11. CASE f.mode # "write"
    <3>1. \A k \in Handles : fh'[k].mode = "write" <=> fh[k].mode = "write"
      BY <2>1, <2>4, <2>5, <2>11
    <3>2. \A k \in Handles : fh[k].mode = "write" => fh'[k].nm = fh[k].nm
      BY <2>1, <2>4, <2>11
    <3>3. Writers' = Writers
      BY <3>1, <3>2 DEF Writers
    <3> QED BY <2>9, <3>3 DEF Store!Next, Store!Other
  <2> QED BY <2>10, <2>11
<1> QED BY <1>4, <1>5

\* FDCreate's entry: the file is there, and empty.
LEMMA CreateStores ==
  ASSUME NEW g, Holds(g), StoreRel, StoreRel', CreateEntry
  PROVE  Store!Next
<1>1. /\ CallOK(g) /\ fh \in [Handles -> HandleType] /\ call \in CallType
      /\ call.op = "create" /\ call.at = "name"
  BY PartsOf DEF TypeInv, CreateEntry, CallOK, PhaseOK
<1>2. PICK h \in Handles, n \in Names, c \in Clusters, s \in Slots :
        /\ h = call.h /\ n = call.nm /\ c = call.c /\ s = call.s
        /\ fh[h] = NoHandle /\ ~Open(n) /\ Slot(c, s).nm \in {n, Nil}
  BY <1>1, DirsIn DEF CallOK, DirCallOK, CallType
<1>3. PICK entry \in EntryType : entry = [NoEntry EXCEPT !.nm = n] /\ entry.nm = n
  <2>1. PICK entry : entry = [nm |-> n, size |-> 0, cluster |-> 0]
    OBVIOUS
  <2>2. entry \in EntryType /\ entry.nm = n
    BY <2>1, Sizes DEF EntryType
  <2>3. entry = [NoEntry EXCEPT !.nm = n]
    BY <2>1 DEF NoEntry
  <2> QED BY <2>2, <2>3
<1>4. EntrySet(c, s, entry)
  <2>1. Contents(c) = View(c)
    BY SlotType
  <2>2. Change(c, FSBPRI_SYS, FSBDIRTY_SYS, [View(c) EXCEPT !.slot[s] = entry])
    BY <1>2, <1>3, <2>1 DEF CreateEntry
  <2> QED BY <2>2, ChangeEntry
<1>5. PICK e : e.nm = n /\ e.mode = "write" /\ e.size = 0 /\ fh' = [fh EXCEPT ![h] = e]
  <2>1. PICK e : e = [NoHandle EXCEPT !.nm = n, !.mode = "write", !.dircluster = c, !.diroff = s]
    OBVIOUS
  <2>2. fh' = [fh EXCEPT ![h] = e]
    BY <1>2, <2>1 DEF CreateEntry
  <2>3. e.nm = n /\ e.mode = "write" /\ e.size = 0
    BY <2>1 DEF NoHandle
  <2> QED BY <2>2, <2>3
<1>6. fh'[h] = e /\ \A k \in Handles \ {h} : fh'[k] = fh[k]
  BY <1>1, <1>5
<1>7. n # Nil /\ fh[h].nm = Nil /\ fh[h].mode = "free"
  BY <1>2, Nils DEF NoHandle
<1>8. \A m \in Names \ {n} : Untouched(m)
  <2> SUFFICES ASSUME NEW m \in Names \ {n} PROVE Untouched(m)
    OBVIOUS
  <2>1. \A k \in Handles : /\ fh'[k].nm = m <=> fh[k].nm = m
                           /\ fh[k].nm = m => fh'[k].size = fh[k].size
    BY <1>5, <1>6, <1>7, Nils
  <2>2. \A d \in Clusters, t \in Slots :
          /\ Slot(d, t)'.nm = m <=> Slot(d, t).nm = m
          /\ Slot(d, t).nm = m => Slot(d, t)' = Slot(d, t)
    BY <1>2, <1>3, <1>4, Nils DEF EntrySet
  <2> QED BY <2>1, <2>2 DEF Untouched
<1>9. \A m \in Names \ {n} : Stored(m)' = Stored(m)
  BY <1>8, StoredStays
<1>10. Stored(n)' = 0
  BY <1>5, <1>6 DEF StoreRel, SizeIs
<1>11. n \notin Writers
  BY <1>2 DEF Writers, Open
<1>12. Writers' = Writers \cup {n}
  <2>1. \A k \in Handles : fh'[k].mode = "write" <=> fh[k].mode = "write" \/ k = h
    BY <1>5, <1>6
  <2>2. \A k \in Handles : fh[k].mode = "write" => fh'[k].nm = fh[k].nm
    BY <1>6, <1>7
  <2> QED BY <1>5, <1>6, <2>1, <2>2 DEF Writers
<1>13. PICK old, new : /\ old = [m \in Names |-> Stored(m)]
                       /\ [m \in Names |-> Stored(m)]' = new
                       /\ new[n] = 0 /\ \A m \in Names \ {n} : new[m] = old[m]
  <2>1. PICK old : old = [m \in Names |-> Stored(m)]
    OBVIOUS
  <2>2. PICK new : new = [m \in Names |-> Stored(m)]'
    OBVIOUS
  <2>3. \A m \in Names : old[m] = Stored(m) /\ new[m] = Stored(m)'
    BY <2>1, <2>2
  <2> QED BY <1>9, <1>10, <2>1, <2>2, <2>3
<1>14. Store!Create(n)
  BY <1>11, <1>12, <1>13 DEF Store!Create, Store!Only
<1> QED BY <1>14 DEF Store!Next

\* FSDelete's entry: the file is gone.
LEMMA DeleteStores ==
  ASSUME NEW g, Holds(g), StoreRel, StoreRel', DeleteEntry
  PROVE  Store!Next
<1>1. /\ CallOK(g) /\ EntriesOK(g) /\ call \in CallType /\ fh' = fh
      /\ call.op = "delete" /\ call.at = "entry"
  BY PartsOf DEF DiskOK, TypeInv, DeleteEntry
<1>2. PICK n \in Names, c \in Clusters, s \in Slots :
        n = call.nm /\ c = call.c /\ s = call.s /\ ~Open(n) /\ Slot(c, s).nm = n
  BY <1>1, DirsIn DEF CallOK, DirCallOK, CallType
<1>3. NoEntry \in EntryType /\ NoEntry.nm = Nil /\ n # Nil
  BY Nils, Sizes DEF NoEntry, EntryType
<1>4. EntrySet(c, s, NoEntry)
  <2>1. Contents(c) = View(c)
    BY SlotType
  <2>2. Change(c, FSBPRI_SYS, FSBDIRTY_SYS, [View(c) EXCEPT !.slot[s] = NoEntry])
    BY <1>2, <2>1 DEF DeleteEntry
  <2> QED BY <1>3, <2>2, ChangeEntry
<1>5. \A m \in Names \ {n} : Untouched(m)
  <2> SUFFICES ASSUME NEW m \in Names \ {n} PROVE Untouched(m)
    OBVIOUS
  <2>1. \A d \in Clusters, t \in Slots :
          /\ Slot(d, t)'.nm = m <=> Slot(d, t).nm = m
          /\ Slot(d, t).nm = m => Slot(d, t)' = Slot(d, t)
    BY <1>2, <1>3, <1>4, Nils DEF EntrySet
  <2> QED BY <1>1, <2>1 DEF Untouched
<1>6. \A m \in Names \ {n} : Stored(m)' = Stored(m)
  BY <1>5, StoredStays
<1>7. Stored(n) # NoFile
  BY <1>2 DEF StoreRel, SizeIs, NoFile
<1>8. Stored(n)' = NoFile
  <2>1. \A d \in Clusters, t \in Slots : Slot(d, t).nm = n => d = c /\ t = s
    BY <1>1, <1>2, <1>3 DEF EntriesOK
  <2>2. NoEntryOf(n)'
    BY <1>3, <1>4, <2>1 DEF NoEntryOf, EntrySet
  <2> QED BY <2>2 DEF StoreRel, SizeIs
<1>9. n \notin Writers /\ Writers' = Writers
  BY <1>1, <1>2 DEF Writers, Open
<1>10. PICK old, new : /\ old = [m \in Names |-> Stored(m)]
                       /\ [m \in Names |-> Stored(m)]' = new
                       /\ old[n] # NoFile /\ new[n] = NoFile
                       /\ \A m \in Names \ {n} : new[m] = old[m]
  <2>1. PICK old : old = [m \in Names |-> Stored(m)]
    OBVIOUS
  <2>2. PICK new : new = [m \in Names |-> Stored(m)]'
    OBVIOUS
  <2>3. \A m \in Names : old[m] = Stored(m) /\ new[m] = Stored(m)'
    BY <2>1, <2>2
  <2> QED BY <1>6, <1>7, <1>8, <2>1, <2>2, <2>3
<1>11. Store!Delete(n)
  BY <1>9, <1>10 DEF Store!Delete, Store!Only, Store!NoFile, NoFile
<1> QED BY <1>11 DEF Store!Next

\* FSWrite's words: at its end the file may have grown.
LEMMA WriteStores ==
  ASSUME NEW g, Holds(g), StoreRel, StoreRel', WriteCluster \/ WriteDirect
  PROVE  Store!Next
<1> PICK e : \E k \in Maps, m \in Nat, S \in SUBSET Clusters : WroteStep(g, call.h, e, m, k, S)
  BY WriteClusterWrote, WriteDirectWrote DEF Wrote
<1>1. PICK k \in Maps, m \in Nat, S \in SUBSET Clusters : WroteStep(g, call.h, e, m, k, S)
  OBVIOUS
<1>2. /\ call.op = "write" /\ WriteOn(e, m) /\ WroteAs(g, fh[call.h], e, m)
      /\ \A d \in S : View(d)'.slot = View(d).slot
      /\ \A d \in Clusters \ S : Kept(d)
  BY <1>1 DEF WroteStep
<1>3. PICK h \in Handles, f \in HandleType, n \in Names :
        /\ h = call.h /\ f = fh[h] /\ n = f.nm /\ f.mode = "write" /\ HandleOK(g, h)
        /\ f.size \in Nat /\ fh \in [Handles -> HandleType]
  BY <1>2, WriteBegins
<1>4. SlotsStay
  BY <1>2, KeptGives DEF SlotsStay, Slot
<1>5. e \in HandleType /\ e.nm = n /\ e.mode = "write" /\ e.size = f.size /\ e.pos \in 0 .. MaxSize
  BY <1>2, <1>3 DEF WroteAs, SameFile, HandleType
<1>6. PICK i : fh' = [fh EXCEPT ![h] = i] /\ i \in {e, Grown(e)}
  BY <1>2, <1>3 DEF WriteOn
<1>7. i.nm = n /\ i.mode = "write" /\ i.size \in {f.size} \cup (f.size + 1 .. MaxSize)
  <2>1. CASE e.pos > e.size
    <3>1. PICK j : j = [e EXCEPT !.size = e.pos, !.dirty = TRUE]
      OBVIOUS
    <3>2. j.nm = n /\ j.mode = "write" /\ j.size = e.pos
      BY <1>5, <3>1 DEF HandleType
    <3>3. i \in {e, j}
      BY <1>6, <2>1, <3>1 DEF Grown
    <3>4. e.pos \in f.size + 1 .. MaxSize
      BY <1>3, <1>5, <2>1, Sizes
    <3> QED BY <1>5, <3>2, <3>3, <3>4
  <2>2. CASE ~(e.pos > e.size)
    BY <1>5, <1>6, <2>2 DEF Grown
  <2> QED BY <2>1, <2>2
<1>8. CASE i.size = f.size
  BY <1>3, <1>4, <1>6, <1>7, <1>8, MovedSizes, UnseenStep
<1>9. CASE i.size # f.size
  <2>1. fh'[h] = i /\ \A j \in Handles \ {h} : fh'[j] = fh[j] /\ fh[j].nm # n
    BY <1>3, <1>6 DEF HandleOK
  <2>2. \A j \in Handles : fh'[j].nm = fh[j].nm /\ fh'[j].mode = fh[j].mode
    BY <1>3, <1>7, <2>1
  <2>3. \A o \in Names \ {n} : Untouched(o)
    <3> SUFFICES ASSUME NEW o \in Names \ {n} PROVE Untouched(o)
      OBVIOUS
    <3>1. \A j \in Handles : /\ fh'[j].nm = o <=> fh[j].nm = o
                             /\ fh[j].nm = o => fh'[j].size = fh[j].size
      BY <1>3, <2>1, <2>2
    <3> QED BY <1>4, <3>1 DEF Untouched, SlotsStay
  <2>4. \A o \in Names \ {n} : Stored(o)' = Stored(o)
    BY <2>3, StoredStays
  <2>5. SizeIs(n, Stored(n)) /\ SizeIs(n, Stored(n))'
    BY DEF StoreRel
  <2>6. Stored(n) = f.size /\ Stored(n)' = i.size
    BY <1>3, <1>7, <2>1, <2>5 DEF SizeIs
  <2>7. n \in Writers /\ Writers' = Writers
    BY <1>3, <2>2 DEF Writers
  <2>8. PICK old, new : /\ old = [o \in Names |-> Stored(o)]
                        /\ [o \in Names |-> Stored(o)]' = new
                        /\ new[n] \in old[n] + 1 .. MaxSize
                        /\ \A o \in Names \ {n} : new[o] = old[o]
    <3>1. PICK old : old = [o \in Names |-> Stored(o)]
      OBVIOUS
    <3>2. PICK new : new = [o \in Names |-> Stored(o)]'
      OBVIOUS
    <3>3. \A o \in Names : old[o] = Stored(o) /\ new[o] = Stored(o)'
      BY <3>1, <3>2
    <3>4. new[n] \in old[n] + 1 .. MaxSize
      BY <1>7, <1>9, <2>6, <3>3
    <3> QED BY <2>4, <3>1, <3>2, <3>3, <3>4
  <2>9. Store!Grow(n)
    BY <2>7, <2>8 DEF Store!Grow, Store!Only
  <2> QED BY <2>9 DEF Store!Next
<1> QED BY <1>8, <1>9

\* Each step of the calls is a step of the promise, or touches nothing of it.
LEMMA NextStore ==
  ASSUME NEW g, Holds(g), StoreRel, StoreRel', Next
  PROVE  Store!Next
<1>1. ASSUME \/ \E h \in Handles, n \in Names : FSOpen(h, n) \/ FSCreate(h, n)
             \/ \E n \in Names : FSDelete(n)
             \/ \E h \in Handles, k \in Lengths : FSRead(h, k) \/ FSWrite(h, k)
             \/ \E h \in Handles, p \in Positions : FSSeek(h, p)
             \/ \E h \in Handles : FSClose(h)
             \/ FSFlush \/ ReadDirect
      PROVE  Store!Next
  BY <1>1, BeginUnseen
<1>2. ASSUME \/ FATChainFree \/ SeekCluster \/ WriteNext \/ LinearMore \/ LinearLast
             \/ WriteChain \/ ReadNext \/ LinearRun
      PROVE  Store!Next
  BY <1>2, TableUnseen
<1>3. ASSUME \/ GrowDirectory \/ WriteFirst \/ WriteAlloc \/ LinkDirectory \/ ClearDirectory
             \/ FDFind \/ FDReplace \/ ReadCluster \/ FlushBuffer \/ FSInit
      PROVE  Store!Next
  BY <1>3, AllocUnseen, DirectoryUnseen, LookUnseen
<1>4. ASSUME OpenEntry \/ CloseEntry \/ WriteFirstEntry \/ FlushFat
      PROVE  Store!Next
  BY <1>4, OpenUnseen, HandleEntryUnseen, FlushFatStores
<1>5. ASSUME CreateEntry \/ DeleteEntry \/ WriteCluster \/ WriteDirect
      PROVE  Store!Next
  BY <1>5, CreateStores, DeleteStores, WriteStores
<1> QED BY <1>1, <1>2, <1>3, <1>4, <1>5 DEF Next

\* A stutter leaves what the callers see.
LEMMA StutterStore ==
  ASSUME UNCHANGED vars
  PROVE  UNCHANGED <<[n \in Names |-> Stored(n)], Writers>>
<1>1. disk' = disk /\ fsb_t' = fsb_t /\ fh' = fh
  BY DEF vars
<1>2. \A c : View(c)' = View(c)
  BY <1>1 DEF View
<1>3. Links' = Links
  BY <1>2 DEF Links
<1>4. Directory' = Directory
  BY <1>3 DEF Directory
<1>5. \A e : Entry(e)' = Entry(e)
  BY <1>2 DEF Entry
<1>6. Entries' = Entries
  BY <1>2, <1>4 DEF Entries
<1>7. \A e : Held(e)' = Held(e)
  BY <1>1, <1>5 DEF Held, Open
<1>8. \A n : Stored(n)' = Stored(n)
  BY <1>5, <1>6, <1>7 DEF Stored
<1> QED BY <1>1, <1>8 DEF Writers

\* At the start no file exists, and nobody writes.
LEMMA InitStore ==
  ASSUME Init, StoreRel
  PROVE  Store!Init
<1>1. ASSUME NEW n \in Names
      PROVE  Stored(n) = NoFile
  <2>1. \A c \in Clusters : View(c) = Blank
    BY Numbered DEF Init, View, EmptyBuffers, Formatted
  <2>2. NoEntryOf(n)
    BY <1>1, <2>1, Nils DEF NoEntryOf, Slot, Blank, NoEntry
  <2> QED BY <1>1, <2>2 DEF StoreRel, SizeIs
<1>2. Writers = {}
  BY DEF Init, Writers, NoHandle
<1> QED BY <1>1, <1>2 DEF Store!Init, Store!NoFile, NoFile

\* The calls implement the promise of FileStore: however a call is cut into steps, its
\* caller sees a file created empty, grown, closed and deleted at one step each.
THEOREM StoreImplemented ==
  ASSUME Careless = {}
  PROVE  Spec => ImplementsStore
<1>1. Init /\ StoreRel => Store!Init
  BY InitStore
<1>2. Inv /\ StoreRel /\ StoreRel' /\ [Next]_vars
        => [Store!Next]_<<[n \in Names |-> Stored(n)], Writers>>
  <2> SUFFICES ASSUME Inv, StoreRel, StoreRel', [Next]_vars
               PROVE  [Store!Next]_<<[n \in Names |-> Stored(n)], Writers>>
    OBVIOUS
  <2>1. PICK g \in Maps : Holds(g)
    BY HoldsInv
  <2>2. Next => Store!Next
    BY <2>1, NextStore
  <2> QED BY <2>2, StutterStore
<1>3. Spec => []Inv
  BY FilesInv
<1>4. Inv => StoreRel
  BY InvStore
<1>5. (Init /\ StoreRel => Store!Init) /\ [](Inv => StoreRel)
  BY <1>1, <1>4, PTL
<1> QED BY <1>1, <1>2, <1>3, <1>4, PTL DEF Spec, ImplementsStore, Store!Spec

=============================================================================
