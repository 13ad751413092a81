----------------------------- MODULE MCDeletion -----------------------------
(* Small instances of Deletion: two clusters, one of them with the arbiter.  *)
EXTENDS Deletion

CONSTANTS c1, c2, a, b, d, e

OwnerTwo == [h \in Hosts |-> IF h \in {a, b} THEN c1 ELSE c2]
=============================================================================
