--------------------------- MODULE MCControlPlane ---------------------------
(* ControlPlane for TLC.  Two zone rows of one name belong to two users, or  *)
(* to one; records, handlers and replicas differ in nothing but their name.  *)
EXTENDS ControlPlane, TLC

CONSTANTS z1, z2

OneName   == (z1 :> "example" @@ z2 :> "example")
TwoUsers  == (z1 :> "alice" @@ z2 :> "bob")
OneUser   == (z1 :> "alice" @@ z2 :> "alice")
SoleName  == (z1 :> "example")
SoleOwner == (z1 :> "alice")

Symmetry == Permutations(Records) \cup Permutations(Handlers) \cup Permutations(Replicas)
=============================================================================
