---------------------------- MODULE DeviceMemory ----------------------------
(***************************************************************************)
(* What an ESP8266 device keeps while it is without power, whatever sector *)
(* it is kept in: an identity (its key pair), drawn once and kept for      *)
(* good, a setting, and at most one bond with a controller that knows the  *)
(* device under that identity.                                             *)
(***************************************************************************)

CONSTANTS Key, Name, Peer, Nothing

VARIABLES identity, name, bond

Init ==
    /\ identity = Nothing
    /\ name = Nothing
    /\ bond = Nothing

\* The first start.
Provision(k, n) ==
    /\ identity = Nothing
    /\ identity' = k
    /\ name' = n
    /\ UNCHANGED bond

SetName(n) ==
    /\ identity # Nothing
    /\ name' = n
    /\ UNCHANGED <<identity, bond>>

Bond(p) ==
    /\ identity # Nothing
    /\ bond' = [peer |-> p, key |-> identity]
    /\ UNCHANGED <<identity, name>>

Forget ==
    /\ bond' = Nothing
    /\ UNCHANGED <<identity, name>>

Next ==
    \/ \E k \in Key, n \in Name : Provision(k, n)
    \/ \E n \in Name : SetName(n)
    \/ \E p \in Peer : Bond(p)
    \/ Forget

Spec == Init /\ [][Next]_<<identity, name, bond>>

=============================================================================
