-------------------------- MODULE MCForkHandshake --------------------------
(* The instances of ForkHandshake that TLC checks; the cfg files give its   *)
(* constants their values.                                                  *)
EXTENDS ForkHandshake
=============================================================================
