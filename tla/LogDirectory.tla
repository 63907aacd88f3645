----------------------------- MODULE LogDirectory -----------------------------
(***************************************************************************)
(* The directory in which the scripts of the transparency log meet: the    *)
(* log and its checkpoint.                                                 *)
(***************************************************************************)
EXTENDS LogFile

CONSTANTS
  Process,     \* processes that run the scripts
  MaxEntries   \* bound on the length of the log

VARIABLES
  log,         \* transparency-log.json
  checkpoint   \* checkpoint.json

=============================================================================
