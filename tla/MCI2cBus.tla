------------------------------- MODULE MCI2cBus -------------------------------
(* The touch screen, a caller that must not sleep, and a writer; the  *)
(* second adapter has no master_xfer.                                 *)
(* A number the file does not take is the one it has counted down to. *)
EXTENDS I2cBus

CONSTANTS w, touch, atom

Writers == {w}
Values == {1}
Least == -1
Callers == {touch, atom}
Atoms == {atom}
WithXfer == {0}
=============================================================================
