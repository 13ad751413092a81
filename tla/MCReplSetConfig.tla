-------------------------- MODULE MCReplSetConfig --------------------------
(* Small instances of ReplSetConfig: which operator owns which host.       *)
EXTENDS ReplSetConfig

CONSTANTS o1, o2, a, b, c

\* Two clusters, one of them with two pods.
OwnerTwo == [h \in Hosts |-> IF h = b THEN o2 ELSE o1]
=============================================================================
