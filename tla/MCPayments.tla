----------------------------- MODULE MCPayments -----------------------------
(***************************************************************************)
(* Instances of Payments for TLC.                                          *)
(***************************************************************************)
EXTENDS Payments, TLC

(* Every set of model values is interchangeable: no definition of Payments *)
(* names or orders their members.                                          *)
Symmetry ==
    Permutations(Users) \cup Permutations(Txns) \cup Permutations(SubIds) \cup
    Permutations(Refs) \cup Permutations(Requests) \cup Permutations(Deliveries)
============================================================================
