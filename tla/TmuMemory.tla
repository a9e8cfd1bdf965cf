----------------------------- MODULE TmuMemory ------------------------------
(* The memory of the texture units: lib/goose/gext.c.  The memory of a unit  *)
(* is managed in two halves, each with a list of the pieces in use ordered   *)
(* by address and a counter of free bytes.  A memory is a record of both,    *)
(* for every half; the operators return the memory after the call.           *)
EXTENDS NodeLists, SequencesExt

CONSTANTS
  TMUs,    \* the texture units: {0, 1} with Voodoo 2, {0} with Banshee
  TmuHalf, \* bytes of half a unit, where both halves are the same size
  NoMemory \* what a call that finds no memory returns

ASSUME TmuAssumption == TMUs \in {{0}, {0, 1}} /\ TmuHalf \in Nat \ {0}

Sections == TMUs \X {"A", "B"}

(* initMemoryInfo: the last address of the first half is the first address   *)
(* of the second.                                                            *)
minAddr(s) == IF s[2] = "A" THEN 0 ELSE TmuHalf
maxAddr(s) == minAddr(s) + TmuHalf

resetTextureSystem == [pieces |-> [s \in Sections |-> <<>>],
                       free |-> [s \in Sections |-> TmuHalf]]

-----------------------------------------------------------------------------
(* Finding memory.                                                           *)

PieceEnd(piece) == piece.start + piece.size

(* Where the space in front of the k-th piece of a half begins and ends; the *)
(* last space is in front of the footer.                                     *)
GapStart(m, s, k) == IF k = 1 THEN minAddr(s) ELSE PieceEnd(m.pieces[s][k - 1])
GapEnd(m, s, k) ==
  IF k = Len(m.pieces[s]) + 1 THEN maxAddr(s) ELSE m.pieces[s][k].start
GapSize(m, s, k) == GapEnd(m, s, k) - GapStart(m, s, k)

(* Mutant: a space one byte too small will do.                               *)
findMemTmuListTight(m, s, size) ==
  {k \in 1..Len(m.pieces[s]) + 1 : GapSize(m, s, k) + 1 >= size}

findMemTmuList(m, s, size) ==
  {k \in 1..Len(m.pieces[s]) + 1 : GapSize(m, s, k) >= size}

(* query_memory: the first half whose counter says more than size is free,   *)
(* and which has that much in one piece.                                     *)
query_memory(m, tmu, size) ==
  LET found == {h \in {"A", "B"} : /\ size < m.free[<<tmu, h>>]
                                   /\ findMemTmuList(m, <<tmu, h>>, size) # {}}
  IN  IF found = {} THEN NoMemory
      ELSE <<tmu, IF "A" \in found THEN "A" ELSE "B">>

(* get_memory takes the first space that is large enough, and the caller     *)
(* counts it.                                                                *)
get_memory(m, s, size, owner) ==
  LET k == Min(findMemTmuList(m, s, size))
      piece == [start |-> GapStart(m, s, k), size |-> size, owner |-> owner]
  IN  [pieces |-> [m.pieces EXCEPT ![s] = InsertAt(@, k, piece)],
       free |-> [m.free EXCEPT ![s] = @ - size]]

(* texSingleTmu0, texSingleTmu1.                                             *)
texSingle(m, tmu, kind, owner) ==
  LET both == query_memory(m, tmu, kind.both)
  IN  IF both = NoMemory THEN NoMemory
      ELSE get_memory(m, both, kind.both, owner)

(* texTrilinearTmu0, texTrilinearTmu1: the even levels of detail in this     *)
(* unit and the odd ones in the other.                                       *)
texTrilinear(m, tmu, kind, owner) ==
  LET even == query_memory(m, tmu, kind.even)
      odd == query_memory(m, 1 - tmu, kind.odd)
  IN  IF TMUs = {0} \/ kind.one_level \/ NoMemory \in {even, odd} THEN NoMemory
      ELSE get_memory(get_memory(m, even, kind.even, owner), odd, kind.odd, owner)

getTotalMemTmu(m, tmu) == m.free[<<tmu, "A">>] + m.free[<<tmu, "B">>]

(* texLoadTmuMemory: the unit with more free memory first; in one piece      *)
(* before it is split, unless the texture asks for trilinear filtering.  The *)
(* MultiBase attempts always fail.                                           *)
texLoadTmuMemory(m, kind, owner) ==
  LET order == IF TMUs = {0} THEN <<0>>
               ELSE IF getTotalMemTmu(m, 0) >= getTotalMemTmu(m, 1) THEN <<0, 1>>
               ELSE <<1, 0>>
      single == [k \in DOMAIN order |-> texSingle(m, order[k], kind, owner)]
      split == [k \in DOMAIN order |-> texTrilinear(m, order[k], kind, owner)]
      tries == IF kind.trilinear THEN split \o single ELSE single \o split
      loaded == {k \in DOMAIN tries : tries[k] # NoMemory}
  IN  IF loaded = {} THEN NoMemory ELSE tries[Min(loaded)]

-----------------------------------------------------------------------------
(* Giving it back.                                                           *)

(* findTmuSection: the half whose counter a piece is added to.  An address   *)
(* on the border counts as the first half.                                   *)
findTmuSection(addr, tmu) ==
  IF addr <= maxAddr(<<tmu, "A">>) THEN <<tmu, "A">> ELSE <<tmu, "B">>

(* The sizes of some pieces together, byte by byte.                          *)
Bytes(pieces) == Cardinality(UNION {{p} \X (1 .. p.size) : p \in pieces})

(* delete_texture_handle of each of the owners: remove_tmu_node of its one   *)
(* or two pieces.                                                            *)
delete_texture_handle(m, owners) ==
  LET gone(s) == {p \in ToSet(m.pieces[s]) : p.owner \in owners}
      back(s) == {p \in gone(<<s[1], "A">>) \cup gone(<<s[1], "B">>) :
                    findTmuSection(p.start, s[1]) = s}
  IN  [pieces |-> [s \in Sections |->
                     Kept(m.pieces[s], ToSet(m.pieces[s]) \ gone(s))],
       free |-> [s \in Sections |-> m.free[s] + Bytes(back(s))]]

-----------------------------------------------------------------------------

Owners(m) == {p.owner : p \in UNION {ToSet(m.pieces[s]) : s \in Sections}}
UsedBytes(m, s) == Bytes(ToSet(m.pieces[s]))
=============================================================================
