---------------------------- MODULE MCFederation ----------------------------
(* Small instances of Federation: two clusters and their schedules.        *)
EXTENDS Federation

Uniform == {<<1, 1>>, <<2, 2>>}
Drain == {<<2, 1>>, <<2, 0>>}
Uneven == {<<1, 1>>, <<2, 1>>}

\* Every cluster scales by as much as the others, or one is given up.
Planned == Uniform \cup Drain
PlannedChanges == {<<<<1, 1>>, <<2, 2>>>>, <<<<2, 2>>, <<1, 1>>>>, <<<<2, 1>>, <<2, 0>>>>}

\* One cluster scales and the other does not.
UnevenChanges == {<<<<1, 1>>, <<2, 1>>>>}
=============================================================================
