--------------------------- MODULE DurablePairing ---------------------------
(***************************************************************************)
(* What pairing promises, without packets: a device commits to at most one *)
(* controller and for good, and a controller is bound to its device only   *)
(* once the device has committed to it.  A controller may lose the binding *)
(* and may bind again; a device never goes back on its commitment.         *)
(***************************************************************************)

CONSTANTS
    Device, Controller,
    None,           \* a device that has committed to nobody
    Target          \* the device a controller asks

VARIABLES
    committed,      \* the controller each device has committed to
    bound           \* the controllers that hold a pairing

Init ==
    /\ committed = [d \in Device |-> None]
    /\ bound = {}

Commit(d, c) ==
    /\ Target[c] = d
    /\ committed[d] = None
    /\ committed' = [committed EXCEPT ![d] = c]
    /\ UNCHANGED bound

Bind(c) ==
    /\ committed[Target[c]] = c
    /\ bound' = bound \cup {c}
    /\ UNCHANGED committed

Unbind(c) ==
    /\ bound' = bound \ {c}
    /\ UNCHANGED committed

Next ==
    \/ \E d \in Device : \E c \in Controller : Commit(d, c)
    \/ \E c \in Controller : Bind(c) \/ Unbind(c)

Spec == Init /\ [][Next]_<<committed, bound>>

=============================================================================
