-------------------------- MODULE MCRollingRestart --------------------------
(* Small instances of RollingRestart: the pods of one cluster.             *)
EXTENDS RollingRestart

CONSTANTS p1, p2, p3

\* A cluster without an arbiter, and the cluster of the arbiter.
OneOrNone == {{}, {p3}}
\* The cluster of the arbiter.
One == {{p3}}
=============================================================================
