---------------------------- MODULE TextureLists ----------------------------
(* The textures of a game: lib/goose/texture.c.  A process that creates a    *)
(* texture is suspended while the file is loaded; other processes go on and  *)
(* change the lists meanwhile.  The linked lists are sequences; the handle   *)
(* of a texture is the memory of the texture units its node owns.            *)
EXTENDS TmuMemory, NodeLists

CONSTANTS
  TextureNodes,   \* what the heap has room for
  TEXTURE_BLOCK,  \* nodes of a block (ALLOC_NUM, 16)
  TextureNames, TextureIds, \* a texture is known by its name and its id
  TextureKinds,   \* of each name, what the file says the texture needs
  TextureCallers, \* processes that create textures
  NoTexture,      \* the null pointer
  MaxTextureCalls \* bound: calls

ASSUME TextureAssumption ==
  /\ TEXTURE_BLOCK \in Nat \ {0} /\ MaxTextureCalls \in Nat
  /\ NoTexture \notin TextureNodes /\ IsFiniteSet(TextureNodes)
  /\ \A name \in TextureNames :
       /\ {TextureKinds[name].one_level, TextureKinds[name].trilinear} \subseteq BOOLEAN
       /\ TextureKinds[name].both \in Nat \ {0}
       /\ ~TextureKinds[name].one_level =>
            {TextureKinds[name].even, TextureKinds[name].odd} \subseteq Nat \ {0}

VARIABLES
  tlist, tfree, \* the active textures and the free nodes
  texture_heap, \* nodes malloc may still return
  texture,      \* of each node its fields
  tmu_memory,   \* the memory of the texture units
  texture_node_mode,        \* TRUE: add_texture_to_free, deleted nodes are kept
  texture_load_in_progress,
  texture_loads, \* the load each caller is suspended in, or NoTexture
  texture_calls  \* calls so far

texture_lists == <<tlist, tfree, texture_heap, texture, tmu_memory>>
texture_loading == <<texture_load_in_progress, texture_loads>>
texture_vars == <<texture_lists, texture_loading, texture_node_mode, texture_calls>>

Live == ToSet(tlist)
WithIds(ids) == {n \in Live : texture[n].id \in ids}
LoadSuspended == \E c \in TextureCallers : texture_loads[c] # NoTexture

-----------------------------------------------------------------------------
(* Creation.                                                                 *)

(* add_texture_block, when the free list is empty.                           *)
Stocked ==
  LET size == IF texture_node_mode THEN TEXTURE_BLOCK ELSE 1
      block == SubSeq(SetToSeq(texture_heap), 1, size)
  IN  IF tfree # <<>> \/ Cardinality(texture_heap) < size
      THEN [free |-> tfree, heap |-> texture_heap]
      ELSE [free |-> block, heap |-> texture_heap \ ToSet(block)]

Stock(stock) == tfree' = stock.free /\ texture_heap' = stock.heap

(* find_texture: the first node of the list with that name and id.           *)
find_texture(want) ==
  LET found == Kept(tlist, {n \in Live : /\ texture[n].name = want.name
                                         /\ texture[n].id = want.id})
  IN  IF found = <<>> THEN NoTexture ELSE Head(found)

(* A texture that is there already gets one more user, unless it is locked.  *)
Reused(n) ==
  /\ texture' = [texture EXCEPT ![n].count = IF texture[n].locked THEN @ ELSE @ + 1]
  /\ UNCHANGED <<tlist, tmu_memory>>

(* Mutant: the first free node is taken for the node of the load.            *)
NextOnwardsFirst(n) == Tail(tfree)

(* What is left of the list a node is on behind it.                          *)
NextOnwards(n) ==
  LET list == IF n \in Live THEN tlist ELSE tfree
      at == CHOOSE k \in DOMAIN list : list[k] = n
  IN  SubSeq(list, at + 1, Len(list))

(* The node becomes the first active texture, with the texture memory it got. *)
Linked(n, want, file, memory) ==
  /\ tlist' = <<n>> \o tlist
  /\ texture' = [texture EXCEPT ![n] =
                   [name |-> want.name, id |-> want.id, locked |-> want.locked,
                    normal |-> want.normal, file |-> file, count |-> 0]]
  /\ tmu_memory' = memory

Placed(n, want) == texLoadTmuMemory(tmu_memory, TextureKinds[want.name], n)

(* create_texture up to the load.  The two modes look for a free node before *)
(* and after the search of the active list.                                  *)
create_texture(c, want) ==
  LET found == IF want.normal THEN find_texture(want) ELSE NoTexture
      search_first == ~texture_node_mode /\ found # NoTexture
      stock == IF search_first THEN [free |-> tfree, heap |-> texture_heap]
               ELSE Stocked
  IN  /\ texture_loads[c] = NoTexture
      /\ Stock(stock)
      /\ IF stock.free = <<>> /\ ~search_first
         THEN UNCHANGED <<tlist, texture, tmu_memory, texture_loading>>
         ELSE IF found # NoTexture
         THEN Reused(found) /\ UNCHANGED texture_loading
         ELSE IF texture_load_in_progress
         THEN UNCHANGED <<tlist, texture, tmu_memory, texture_loading>>
         ELSE /\ texture_load_in_progress' = TRUE
              /\ texture_loads' = [texture_loads EXCEPT ![c] =
                                     [node |-> Head(stock.free), want |-> want]]
              /\ UNCHANGED <<tlist, texture, tmu_memory>>

(* guLoadTextureDirect returns: the file was read, or not, and there was      *)
(* memory for the texture, or not.                                           *)
TextureLoaded(c, fine) ==
  LET load == texture_loads[c]
      after == Placed(load.node, load.want)
  IN  /\ load # NoTexture
      /\ texture_load_in_progress' = FALSE
      /\ texture_loads' = [texture_loads EXCEPT ![c] = NoTexture]
      /\ IF fine /\ after # NoMemory
         THEN /\ tfree' = NextOnwards(load.node)
              /\ Linked(load.node, load.want, TRUE, after)
         ELSE UNCHANGED <<tlist, tfree, texture, tmu_memory>>
      /\ UNCHANGED texture_heap

(* create_texture_from_memory does not suspend, and does not look whether a  *)
(* load is in progress: the game must not call it during one.  Nor does      *)
(* guLoadTextureDirectFromMemory look whether the texture got memory.        *)
create_texture_from_memory(want, fine) ==
  LET found == IF want.normal THEN find_texture(want) ELSE NoTexture
  IN  /\ ~LoadSuspended
      /\ texture_heap' = Stocked.heap
      /\ IF Stocked.free # <<>> /\ found = NoTexture /\ fine
         THEN LET n == Head(Stocked.free)
                  after == Placed(n, want)
              IN  /\ tfree' = Tail(Stocked.free)
                  /\ Linked(n, want, FALSE, IF after = NoMemory THEN tmu_memory ELSE after)
         ELSE /\ tfree' = Stocked.free
              /\ IF Stocked.free # <<>> /\ found # NoTexture
                 THEN Reused(found) ELSE UNCHANGED <<tlist, texture, tmu_memory>>

-----------------------------------------------------------------------------
(* Deletion and locks.                                                       *)

(* Nodes leave the active list, the first of them first, for the free list   *)
(* or for the heap; the others in "less" lose one user, those in "one" have  *)
(* one user left.                                                            *)
Removed(gone, less, one) ==
  /\ tlist' = Kept(tlist, Live \ gone)
  /\ tfree' = IF texture_node_mode
              THEN Reverse(Kept(tlist, gone)) \o tfree
              ELSE tfree
  /\ texture_heap' = IF texture_node_mode THEN texture_heap ELSE texture_heap \cup gone
  /\ texture' = [n \in TextureNodes |->
                   IF n \in less \ gone THEN [texture[n] EXCEPT !.count = @ - 1]
                   ELSE IF n \in one \ gone THEN [texture[n] EXCEPT !.count = 1]
                   ELSE texture[n]]
  /\ tmu_memory' = delete_texture_handle(tmu_memory, gone)

(* delete_texture for each of some active nodes.                             *)
TexturesDeleted(nodes) ==
  LET open == {n \in nodes : ~texture[n].locked}
  IN  Removed({n \in open : texture[n].count <= 1}, open, {})

(* force_delete_multiple_textures sets the count of each of them to 1 first,  *)
(* that of the locked ones, which delete_texture then refuses, too.          *)
ForceDeleted(nodes) == Removed({n \in nodes : ~texture[n].locked}, {}, nodes)

delete_texture_id(id) ==
  WithIds({id}) # {} /\ TexturesDeleted({Head(Kept(tlist, WithIds({id})))})

(* clear_all_textures resets the texture memory, with the handle a load has   *)
(* taken: the game must not call it during one.                              *)
clear_all_textures ==
  /\ ~LoadSuspended
  /\ tlist # <<>>
  /\ tmu_memory' = resetTextureSystem
  /\ tlist' = <<>> /\ tfree' = tlist \o tfree
  /\ texture' = [n \in TextureNodes |->
                   IF n \in Live THEN [texture[n] EXCEPT !.count = 0] ELSE texture[n]]
  /\ UNCHANGED texture_heap

(* These two set the count of the nodes they then delete only.               *)
clear_unlocked_textures == Removed({n \in Live : ~texture[n].locked}, {}, {})
clear_locked_textures == Removed({n \in Live : texture[n].locked}, {}, {})

(* clear_free_texture_list frees every node by itself: only where nodes were *)
(* allocated one by one, and not under a load.                               *)
clear_free_texture_list ==
  /\ ~texture_node_mode /\ ~LoadSuspended
  /\ tfree' = <<>>
  /\ texture_heap' = texture_heap \cup ToSet(tfree)
  /\ UNCHANGED <<tlist, texture, tmu_memory>>

(* lock_texture and unlock_texture, their _id forms for one node, their      *)
(* _multiple and _all forms for the nodes with some ids.                     *)
Locked(nodes, lock) ==
  /\ texture' = [n \in TextureNodes |->
                   IF n \in nodes THEN [texture[n] EXCEPT !.locked = lock]
                   ELSE texture[n]]
  /\ UNCHANGED <<tlist, tfree, texture_heap, tmu_memory>>

-----------------------------------------------------------------------------

Wanted == [name : TextureNames, id : TextureIds, locked : BOOLEAN, normal : BOOLEAN]

ListCall ==
  /\ UNCHANGED texture_loading
  /\ \/ \E want \in Wanted, fine \in BOOLEAN : create_texture_from_memory(want, fine)
     \/ \E n \in Live : TexturesDeleted({n})
     \/ \E id \in TextureIds : delete_texture_id(id)
     \/ \E ids \in SUBSET TextureIds : TexturesDeleted(WithIds(ids))
     \/ \E ids \in SUBSET TextureIds : ForceDeleted(WithIds(ids))
     \/ clear_all_textures \/ clear_unlocked_textures \/ clear_locked_textures
     \/ clear_free_texture_list
     \/ \E n \in Live, lock \in BOOLEAN : Locked({n}, lock)
     \/ \E ids \in SUBSET TextureIds, lock \in BOOLEAN : Locked(WithIds(ids), lock)

TextureCall ==
  /\ texture_calls < MaxTextureCalls
  /\ texture_calls' = texture_calls + 1
  /\ \/ \E c \in TextureCallers, want \in Wanted : create_texture(c, want)
     \/ ListCall
  /\ UNCHANGED texture_node_mode

LoadEnds ==
  /\ \E c \in TextureCallers, fine \in BOOLEAN : TextureLoaded(c, fine)
  /\ UNCHANGED <<texture_node_mode, texture_calls>>

TextureInit ==
  /\ tlist = <<>> /\ tfree = <<>> /\ texture_heap = TextureNodes
  /\ texture = [n \in TextureNodes |-> [name |-> NoTexture, id |-> 0,
                  locked |-> FALSE, normal |-> FALSE, file |-> FALSE, count |-> 0]]
  /\ tmu_memory = resetTextureSystem
  /\ texture_node_mode \in BOOLEAN
  /\ texture_load_in_progress = FALSE
  /\ texture_loads = [c \in TextureCallers |-> NoTexture]
  /\ texture_calls = 0

TextureNext == TextureCall \/ LoadEnds
TextureSpec == TextureInit /\ [][TextureNext]_texture_vars

-----------------------------------------------------------------------------
(* Properties.                                                               *)

TextureTypeOK ==
  /\ Live \cup ToSet(tfree) \cup texture_heap \subseteq TextureNodes
  /\ texture_load_in_progress \in BOOLEAN
  /\ \A n \in TextureNodes : texture[n].count \in 0..MaxTextureCalls

(* Whatever other processes delete, lock or ask for while a texture is being  *)
(* loaded, no node is on two lists or twice on one, the node of the load is  *)
(* still a free one when it is linked in (texture.c:250-290), and two calls  *)
(* that asked for the same texture got the same node.                        *)
TexturesExact ==
  /\ IsInjective(tlist \o tfree)
  /\ (Live \cup ToSet(tfree)) \cap texture_heap = {}
  /\ \A c \in TextureCallers :
       texture_loads[c] # NoTexture => texture_loads[c].node \in ToSet(tfree)
  /\ \A m, n \in Live :
       (/\ texture[m].normal /\ texture[n].normal
        /\ texture[m].name = texture[n].name /\ texture[m].id = texture[n].id) => m = n

(* No two textures ever share a byte of a texture unit; the memory in use is *)
(* that of the active textures, and every one that came from a file has its  *)
(* own; and no byte of a unit is lost: its two counters and its pieces add   *)
(* up, also where a piece is counted back to the other half (gext.c:1472).   *)
TextureMemoryExact ==
  /\ \A s \in Sections : \A k \in 1..Len(tmu_memory.pieces[s]) + 1 :
       GapSize(tmu_memory, s, k) >= 0
  /\ Owners(tmu_memory) \subseteq Live
  /\ \A n \in Live : texture[n].file => n \in Owners(tmu_memory)
  /\ \A t \in TMUs :
       /\ getTotalMemTmu(tmu_memory, t) + UsedBytes(tmu_memory, <<t, "A">>)
            + UsedBytes(tmu_memory, <<t, "B">>) = 2 * TmuHalf
       /\ \A h \in {"A", "B"} : tmu_memory.free[<<t, h>>] >= 0
=============================================================================
