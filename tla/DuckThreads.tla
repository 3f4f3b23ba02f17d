------------------------------ MODULE DuckThreads ------------------------------
(***************************************************************************)
(* The threads that enter Rducks: the one that loaded it into R, which     *)
(* alone may run R (rducks_is_main_thread), and DuckDB's.                  *)
(***************************************************************************)
CONSTANTS
  RThread,      (* the recorded R thread                                   *)
  OtherThreads  (* DuckDB threads                                          *)

Threads == {RThread} \cup OtherThreads
=============================================================================
