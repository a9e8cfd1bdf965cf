---------------------------- MODULE MCDiskCache ----------------------------
(* Instances of DiskCache for TLC. *)
EXTENDS DiskCache

AllFaults == {"read_error", "write_error", "refused", "flush"}
NoFaults == {}

\* Reads run beside reads; or also beside a write.
ReadsTogether == {{"read"}}
ReadBesideWrite == {{"read"}, {"read", "write"}}

-----------------------------------------------------------------------------
(***************************************************************************)
(* Where no write runs beside a read, states that differ only in the       *)
(* following need not be told apart, as no invariant of the run and no     *)
(* guard looks at it before it is assigned anew: the data of a line        *)
(* without a tag, or that a queued read will load; the mark of the last    *)
(* call while none is in progress; and, once a process has lost its        *)
(* wakeup, all data and the locals of its call.  A lost process stays in   *)
(* its call for ever and every later call runs beside it, so that          *)
(* OnlyFailuresDiffer and AloneReadsDisk ask nothing any more, while       *)
(* TagsUnique and TypeOK speak of what is left.                            *)
(***************************************************************************)
Lost == {p \in Callers : op[p].at = "lost"}

Loading == {op[p].line : p \in {q \in Range(pending) : op[q].kind = "read"}}

Unread == Loading \cup {l \in Lines : starting_block[l] = NoBlock}

Contents == <<[l \in Lines |-> IF l \in Unread THEN Junk ELSE disk_cache[l]],
              disk, doubtful, overlap /\ Busy # {}>>

Seen == <<pending, answered, usage_count, starting_block, turn,
          [p \in Callers |-> IF p \in Lost THEN op[p].kind ELSE op[p]],
          IF Lost = {} THEN Contents ELSE <<>> >>
=============================================================================
