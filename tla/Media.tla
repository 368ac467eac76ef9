------------------------------- MODULE Media -------------------------------
(***************************************************************************)
(* MediaPipeline on its own: every owner exists.                           *)
(***************************************************************************)
EXTENDS MediaPipeline

Next ==
    \/ \E c \in Uploads, a \in Assets, s \in Sources : Register(c, a, s)
    \/ MediaNext

Spec == MediaInit /\ [][Next]_media

FairSpec == Spec /\ MediaFairness
============================================================================
