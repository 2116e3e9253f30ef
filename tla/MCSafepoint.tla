----------------------------- MODULE MCSafepoint -----------------------------
(* The safepoint protocol for TLC: the threads are model values, given in  *)
(* the .cfg files.  Symmetry is not used, for the sake of liveness.        *)
EXTENDS SafepointProperties
=============================================================================
