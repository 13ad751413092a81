----------------------------- MODULE Membership -----------------------------
(***************************************************************************)
(* What the members of a replica set promise to a deployment: the set of    *)
(* hosts changes by one host at a time, a host joins only while its pod      *)
(* exists, and a pod is deleted only after its host has left the set.  The   *)
(* promise ends when one client overwrites what another has written.         *)
(***************************************************************************)
CONSTANT Hosts
VARIABLES members, wanted,
          lost   \* has a write been overwritten unread

Init == members = wanted /\ wanted \subseteq Hosts /\ lost = FALSE

Start(h) == /\ h \notin wanted
            /\ wanted' = wanted \cup {h}
            /\ UNCHANGED members

Join(h) == /\ h \in wanted
           /\ members' = members \cup {h}
           /\ UNCHANGED wanted

Leave(h) == /\ h \in wanted
            /\ members' = members \ {h}
            /\ UNCHANGED wanted

Stop(h) == /\ h \notin members
           /\ wanted' = wanted \ {h}
           /\ UNCHANGED members

Next == \/ lost'
        \/ \E h \in Hosts : Start(h) \/ Join(h) \/ Leave(h) \/ Stop(h)

Spec == Init /\ [][Next]_<<members, wanted>>
=============================================================================
