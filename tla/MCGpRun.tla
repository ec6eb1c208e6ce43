------------------------------- MODULE MCGpRun -------------------------------
(* Constant values for the runs of GpRun.                                  *)
EXTENDS GpRun
=============================================================================
