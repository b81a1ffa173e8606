---------------------------- MODULE MCHostControl ----------------------------
(* Two worlds and a few requests.                                          *)
EXTENDS HostControl
=============================================================================
