----------------------------- MODULE MCJobTable -----------------------------
(* The instance of JobTable that TLC checks; MCJobTable.cfg gives its       *)
(* constants their values.                                                  *)
EXTENDS JobTable
=============================================================================
