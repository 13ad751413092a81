----------------------------- MODULE MCArbiter -----------------------------
(* Small instances of Arbiter: two clusters that may change places.          *)
EXTENDS Arbiter

OrdersTwo == {<<1, 2>>, <<2, 1>>}
=============================================================================
