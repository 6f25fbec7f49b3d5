--------------------------- MODULE MCRecordCache ---------------------------
(* RecordCache for TLC.                                                     *)
EXTENDS RecordCache
=============================================================================
