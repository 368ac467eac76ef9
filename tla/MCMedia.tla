------------------------------ MODULE MCMedia ------------------------------
(***************************************************************************)
(* Instances of Media for TLC.                                             *)
(***************************************************************************)
EXTENDS Media

CONSTANTS s1, s2

(* One upload is longer than the other.                                    *)
MCSources  == {s1, s2}
MCSegments == [s \in MCSources |-> IF s = s1 THEN 1 ELSE 2]
============================================================================
