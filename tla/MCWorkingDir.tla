---------------------------- MODULE MCWorkingDir ----------------------------
(* Three places, one of them with a path that does not fit, and a link.     *)
EXTENDS WorkingDir

CONSTANTS home, dir, deep, link

MCPlaces == {home, dir, deep}
MCNames == MCPlaces \cup {link}
MCTarget == [n \in MCNames |-> IF n = link THEN dir ELSE n]
MCLong == {deep}
=============================================================================
