--------------------------- MODULE MCProvisioning ---------------------------
(* Small instances of Provisioning: two clusters.                          *)
EXTENDS Provisioning

CONSTANTS o1, o2

\* Start from clusters in which nothing is set up.
FairFreshSpec == FairSpec /\ Fresh
=============================================================================
