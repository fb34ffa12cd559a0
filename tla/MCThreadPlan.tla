---------------------------- MODULE MCThreadPlan ----------------------------
(* The thread plan of every small request.  SizeMod is 2^6. *)
EXTENDS ThreadPlan
=============================================================================
