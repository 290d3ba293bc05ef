--------------------------- MODULE MCNativeProxy ---------------------------
(* The native proxy for TLC.  The process may have ended: that is no deadlock. *)
EXTENDS NativeProxy
=============================================================================
