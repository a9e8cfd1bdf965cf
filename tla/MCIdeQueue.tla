----------------------------- MODULE MCIdeQueue -----------------------------
(* Instances of IdeQueue for TLC. *)
EXTENDS IdeQueue

QueueEvents == {"drive_error", "drive_silent", "drive_hung"}
\* No drive_hung: the drive takes every command it is sent (see BegunIsAnswered).
LiveEvents == {"drive_error", "drive_silent", "resume_all", "spin_timeout"}
NoEvents == {}
=============================================================================
