--------------------------- MODULE MCNativeOutbox ---------------------------
(* The outbox on a small instance: see README.md for its bounds.             *)
EXTENDS NativeOutbox, TLC
=============================================================================
