-------------------------- MODULE MCCircularBuffer --------------------------
(* Model checking of CircularBuffer; the bounds are set in the .cfg files. *)
EXTENDS CircularBuffer
=============================================================================
