------------------------------ MODULE MCFabric ------------------------------
(***************************************************************************)
(* Instances of Fabric for TLC: one device and one or two controllers that *)
(* are all pointed at it.                                                  *)
(***************************************************************************)
EXTENDS FabricInvariant

CONSTANTS d1, c1, c2, DeviceStarts, ControllerStarts

MCTarget == [c \in Controller |-> d1]
MCStarts == [n \in Node |-> IF n \in Device THEN DeviceStarts ELSE ControllerStarts]

\* --set --value 1, alone or beside --get and --set --value 2
MCSet == {Set(1)}
MCCommand == {Get, Set(1), Set(2)}

=============================================================================
