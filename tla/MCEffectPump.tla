---------------------------- MODULE MCEffectPump ----------------------------
(* A few pumps, jobs and handler answers.                                  *)
EXTENDS EffectPump

CONSTANTS j1, j2, wa, wb, yes, no
=============================================================================
