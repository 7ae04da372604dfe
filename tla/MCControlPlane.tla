--------------------------- MODULE MCControlPlane ---------------------------
(* Small instances of ControlPlane.  Sets are given in the .cfg files; the  *)
(* sets of model values below are symmetric: the specification only         *)
(* compares their members for equality.                                     *)
EXTENDS ControlPlane, TLC

Symmetry == Permutations(Peers) \cup Permutations(Nodes) \cup Permutations(Workers)

(* Up to n faults of the given kinds.                                       *)
UpTo(n, kinds) == [kinds |-> kinds, left |-> n]

NoFaults == {UpTo(0, {})}
AnyFault == {UpTo(1, AllFaults)}
LeasesHold == {UpTo(2, AllFaults \ {"slow"})}
ErrorsOrCrashes ==
    {UpTo(3, {"loss", "exec", "reject"}), UpTo(2, {"crash", "restart"}),
     UpTo(2, {"loss", "exec", "reject", "crash", "restart"})}
=============================================================================
