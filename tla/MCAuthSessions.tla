--------------------------- MODULE MCAuthSessions ---------------------------
(***************************************************************************)
(* Instances of AuthSessions for TLC.                                      *)
(***************************************************************************)
EXTENDS AuthSessions, TLC

(* Bound: one token's lifetime ends.                                       *)
OneExpires == \A s, t \in expired : s = t

(* Every set of model values is interchangeable.                           *)
Symmetry ==
    Permutations(Users) \cup Permutations(Emails) \cup Permutations(Tokens) \cup
    Permutations(Browsers) \cup Permutations(Calls)
============================================================================
