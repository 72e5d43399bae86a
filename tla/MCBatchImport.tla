--------------------------- MODULE MCBatchImport ---------------------------
(* An instance of BatchImport for TLC. *)
EXTENDS BatchImportProperties, TLC

CONSTANTS picker, backup, photo

(* One file that is read at once; the same photo is selected twice. *)
OneChunk == photo :> <<Chunk>>
SameTwice == <<photo, photo>>
=============================================================================
