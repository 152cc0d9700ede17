--------------------------- MODULE MCDatabaseLock ---------------------------
(* Instances of DatabaseLock for TLC.                                      *)
EXTENDS DatabaseLock
=============================================================================
