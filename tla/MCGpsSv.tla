------------------------------- MODULE MCGpsSv -------------------------------
(* A receiver with up to two GSV sentences in a cycle for TLC. *)
EXTENDS GpsSvLines
=============================================================================
