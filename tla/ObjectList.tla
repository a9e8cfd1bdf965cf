----------------------------- MODULE ObjectList -----------------------------
(* The 3D objects of a game and the frame that draws them:                   *)
(* lib/goose/object.c.  The two linked lists are sequences here; the link a  *)
(* loop follows is the successor in the sequence the node is on, which is    *)
(* what the code's next field holds there.                                   *)
EXTENDS NodeLists, SequencesExt

CONSTANTS
  ObjectNodes, \* what the heap has room for
  OBJECT_BLOCK,   \* nodes of a block (32)
  ObjectIds,   \* object ids
  DrawOrders,  \* values of draw_order
  NoObject,    \* the null pointer
  MaxObjectCalls \* bound: calls

ASSUME ObjectAssumption ==
  /\ OBJECT_BLOCK \in Nat \ {0} /\ MaxObjectCalls \in Nat
  /\ DrawOrders \subseteq Int
  /\ NoObject \notin ObjectNodes /\ IsFiniteSet(ObjectNodes)

VARIABLES
  olist,         \* the active objects, by draw_order
  ofree,         \* the free nodes
  object,        \* of each node the fields a call sets
  resource_mode, \* TRUE: NO_FREE_MEMORY, nodes stay on the free list
  current_3dobj, \* the object being drawn, or NoObject outside a frame
  frame,         \* history: objects there throughout the frame, and drawn
  object_calls   \* calls so far

object_vars == <<olist, ofree, object, resource_mode, current_3dobj, frame,
                 object_calls>>

Objects == ToSet(olist)
Heap == ObjectNodes \ (Objects \cup ToSet(ofree))

(* The next field of an active node.                                         *)
NextOf(n) ==
  LET at == CHOOSE k \in DOMAIN olist : olist[k] = n
  IN  IF at = Len(olist) THEN NoObject ELSE olist[at + 1]

(* An object stays in the frame's account while it is active and visible.    *)
Shown(nodes) == frame' = [frame EXCEPT !.whole = @ \cap nodes]

-----------------------------------------------------------------------------
(* The calls.                                                                *)

(* add_object_block: a block of nodes, or a single one in the mode that      *)
(* frees them, if the heap has it.                                           *)
add_object_block ==
  LET size == IF resource_mode THEN OBJECT_BLOCK ELSE 1
  IN  IF Cardinality(Heap) < size THEN <<>>
      ELSE SubSeq(SetToSeq(Heap), 1, size)

(* Mutant: behind the last object, whatever its draw_order.                  *)
insert_objectLast(n, order) == Append(olist, n)

(* insert_object: behind every object of the same or a smaller draw_order.   *)
insert_object(n, order) ==
  LET first == {m \in Objects : object[m].draw_order <= order}
      before == Kept(olist, first)
      behind == Kept(olist, Objects \ first)
  IN  before \o <<n>> \o behind

create_object(id, order) ==
  LET free == IF ofree # <<>> THEN ofree ELSE add_object_block
      on == Head(free)
  IN  IF free = <<>>
      THEN UNCHANGED <<olist, ofree, object, frame>>
      ELSE /\ ofree' = Tail(free)
           /\ object' = [object EXCEPT ![on] =
                           [id |-> id, draw_order |-> order, hidden |-> FALSE]]
           /\ olist' = insert_object(on, order)
           /\ UNCHANGED frame

(* The deleted nodes, the last one deleted first on the free list.           *)
ObjectsDeleted(nodes) ==
  LET gone == Kept(olist, nodes)
  IN  /\ olist' = Kept(olist, Objects \ nodes)
      /\ ofree' = IF resource_mode THEN Reverse(gone) \o ofree ELSE ofree
      /\ Shown(Objects \ nodes)
      /\ UNCHANGED object

delete_object(n) == ObjectsDeleted({n})

(* delete_object_id deletes the first object with the id.                    *)
delete_object_id(id) ==
  LET found == Kept(olist, {n \in Objects : object[n].id = id})
  IN  found # <<>> /\ ObjectsDeleted({Head(found)})

delete_multiple_objects(ids) == ObjectsDeleted({n \in Objects : object[n].id \in ids})

(* clear_object_list puts the active list in front of the free list, in both *)
(* modes.                                                                    *)
clear_object_list ==
  /\ olist' = <<>>
  /\ ofree' = olist \o ofree
  /\ Shown({})
  /\ UNCHANGED object

(* hide_multiple_objects, unhide_multiple_objects, and with every id their   *)
(* _all_3d_objects.                                                          *)
hide_multiple_objects(ids, hide) ==
  LET hidden == {n \in Objects : object[n].id \in ids}
  IN  /\ object' = [n \in ObjectNodes |->
                      IF n \in hidden THEN [object[n] EXCEPT !.hidden = hide]
                      ELSE object[n]]
      /\ Shown(IF hide THEN Objects \ hidden ELSE Objects)
      /\ UNCHANGED <<olist, ofree>>

(* clear_free_object_list frees every node by itself: only where nodes were  *)
(* allocated one by one.                                                     *)
clear_free_object_list ==
  /\ ~resource_mode
  /\ ofree' = <<>>
  /\ UNCHANGED <<olist, object, frame>>

(* A call of the game, from outside a frame or from the draw function of an  *)
(* object.  The loop reads the link of that object when the function has     *)
(* returned, so the function must leave its own object on the list.          *)
ObjectCall ==
  LET kept == Objects \cap {current_3dobj}
  IN  /\ object_calls < MaxObjectCalls
      /\ frame.at # "object"
      /\ object_calls' = object_calls + 1
      /\ \/ \E id \in ObjectIds, order \in DrawOrders : create_object(id, order)
         \/ \E n \in Objects : delete_object(n)
         \/ \E id \in ObjectIds : delete_object_id(id)
         \/ \E ids \in SUBSET ObjectIds : delete_multiple_objects(ids)
         \/ clear_object_list
         \/ \E ids \in SUBSET ObjectIds, hide \in BOOLEAN :
              hide_multiple_objects(ids, hide)
         \/ clear_free_object_list
      /\ kept \subseteq ToSet(olist')
      /\ UNCHANGED <<resource_mode, current_3dobj>>

-----------------------------------------------------------------------------
(* draw_3d_objects.                                                          *)

StandAt(n) == /\ current_3dobj' = n
              /\ UNCHANGED <<olist, ofree, object, resource_mode, object_calls>>

StartFrame ==
  LET first == IF olist = <<>> THEN NoObject ELSE Head(olist)
  IN  /\ frame.at = "out"
      /\ StandAt(first)
      /\ frame' = [at |-> IF first = NoObject THEN "out" ELSE "object",
                   whole |-> {n \in Objects : ~object[n].hidden},
                   drawn |-> <<>>]

(* The draw function of a visible object is called ...                       *)
DrawObject ==
  /\ frame.at = "object"
  /\ ~object[current_3dobj].hidden
  /\ frame' = [frame EXCEPT
                 !.at = "function",
                 !.drawn = Append(@, [node |-> current_3dobj,
                                      order |-> object[current_3dobj].draw_order])]
  /\ StandAt(current_3dobj)

(* ... and the loop follows the link of the object when it returns.          *)
NextObject ==
  LET next == NextOf(current_3dobj)
  IN  /\ \/ frame.at = "function"
         \/ frame.at = "object" /\ object[current_3dobj].hidden
      /\ StandAt(next)
      /\ frame' = [frame EXCEPT !.at = IF next = NoObject THEN "out" ELSE "object"]

-----------------------------------------------------------------------------

ObjectInit ==
  /\ olist = <<>> /\ ofree = <<>>
  /\ object = [n \in ObjectNodes |-> [id |-> 0, draw_order |-> 0, hidden |-> FALSE]]
  /\ resource_mode \in BOOLEAN
  /\ current_3dobj = NoObject
  /\ frame = [at |-> "out", whole |-> {}, drawn |-> <<>>]
  /\ object_calls = 0

ObjectNext == ObjectCall \/ StartFrame \/ DrawObject \/ NextObject

ObjectSpec == ObjectInit /\ [][ObjectNext]_object_vars

-----------------------------------------------------------------------------
(* Properties.                                                               *)

ObjectTypeOK ==
  /\ IsInjective(olist \o ofree)
  /\ Objects \cup ToSet(ofree) \subseteq ObjectNodes
  /\ resource_mode \in BOOLEAN
  /\ current_3dobj \in ObjectNodes \cup {NoObject}
  /\ frame.at \in {"out", "object", "function"}

(* A frame draws every object that was active and visible all through it,    *)
(* each once, and whatever it draws is active then and comes in draw_order,  *)
(* although draw functions create, delete, hide and clear other objects in   *)
(* the middle of the walk (object.c:389-403).                                *)
FrameComplete ==
  /\ frame.at # "out" => current_3dobj \in Objects
  /\ \A k, m \in DOMAIN frame.drawn :
       k < m => frame.drawn[k].order <= frame.drawn[m].order
  /\ frame.at = "out" =>
       \A n \in frame.whole :
         Cardinality({k \in DOMAIN frame.drawn : frame.drawn[k].node = n}) = 1
=============================================================================
