----------------------------- MODULE MCCatalog -----------------------------
(***************************************************************************)
(* Instances of Catalog for TLC.                                           *)
(***************************************************************************)
EXTENDS Catalog, TLC

(* Every upload is cut into one segment.                                   *)
MCSegments == [s \in Sources |-> 1]

(* Object keys, episodes and slots for edits and uploads are               *)
(* interchangeable.                                                        *)
Symmetry ==
    Permutations(Sources) \cup Permutations(Episodes)
        \cup Permutations(Uploads) \cup Permutations(Edits)
============================================================================
