--------------------------- MODULE MCGooseProcess ---------------------------
(***************************************************************************)
(* Values for the model checker: which calls each instance makes.          *)
(***************************************************************************)
EXTENDS GooseProcess, TLC

\* The calls that change the lists.
ListCalls == {"create_process", "create_process_immediate", "kill", "killall",
              "delete_multiple_processs", "clear_process_list", "clear_free_process_list"}
\* Run levels, so that the list is sorted, exit functions, and every deletion.
ExitCalls == {"create_process", "create_process_immediate", "kill", "killall",
              "kill_everything", "process_exit", "set_process_run_level", "suspend_process"}
\* The calls that change sleep times, with creates, kills and sorts around the sleepers.
CrowdCalls == {"create_process", "create_process_immediate", "kill", "sleep_process",
               "add_sleep_process_id", "wakeup_process", "wakeup_process_id",
               "suspend_process", "suspend_all", "suspend_multiple_processes", "resume_all",
               "resume_multiple_processes", "resume_process", "suspend_self", "set_pid",
               "set_process_run_level"}

Symmetry == Permutations(Nodes)
=============================================================================
