---------------------------- MODULE MCTitleDesk ----------------------------
(***************************************************************************)
(* Instances of TitleDesk for TLC.                                         *)
(***************************************************************************)
EXTENDS TitleDesk, TLC

(* No definition of TitleDesk names or orders the members of these sets.   *)
Symmetry == Permutations(Seasons) \cup Permutations(Numbers) \cup Permutations(Slots)
============================================================================
