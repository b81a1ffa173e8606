--------------------------- MODULE MCGuestRuntime ---------------------------
(* A provider of an execution target and the components of two worlds.     *)
EXTENDS GuestRuntime

CONSTANTS p, d1, d2, c1
=============================================================================
