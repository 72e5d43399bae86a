--------------------------- MODULE MCUploadMonitor ---------------------------
(* An instance of UploadMonitor for TLC: two accounts, and two attempts of    *)
(* discovery, one of them with its reply still due while the next is made.    *)
EXTENDS UploadMonitorProperties

CONSTANTS one, two, a, b
=============================================================================
