--------------------------- MODULE MCContentImport ---------------------------
(* Constant values for the runs of ContentImport.                          *)
EXTENDS ContentImport
=============================================================================
