----------------------------- MODULE MCSession -----------------------------
(* Session for TLC.                                                         *)
EXTENDS Session, TLC

CONSTANTS u1, u2, e1, e2

OneUser == {[id |-> u1, email |-> e1]}

TabSymmetry == Permutations(Tabs)
=============================================================================
