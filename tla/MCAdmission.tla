----------------------------- MODULE MCAdmission -----------------------------
(* Small instances of Admission: two values of everything.                   *)
EXTENDS Admission
=============================================================================
