---------------------------- MODULE MediaProofs ----------------------------
(***************************************************************************)
(* The theorems about the media pipeline, for every number of owners,      *)
(* object keys, upload pages and renditions, and every bound on faults.    *)
(***************************************************************************)
EXTENDS Media, PipelineProofs

(* The inductive invariant: where each upload page and the worker are, and *)
(* what the rows, the jobs and the bucket then say of every asset.         *)
THEOREM Invariant == Spec => []MediaInv
<1>1. MediaInit => MediaInv
  BY MediaInitIsSound
<1>2. MediaInv /\ [Next]_media => MediaInv'
  <2> SUFFICES ASSUME MediaInv, [Next]_media
               PROVE  MediaInv'
    OBVIOUS
  <2>1. CASE \E c \in Uploads, a \in Assets, s \in Sources : Register(c, a, s)
    BY <2>1, RegisterKeeps
  <2>2. CASE MediaNext
    BY <2>2, MediaNextKeeps
  <2>3. CASE UNCHANGED media
    BY <2>3, MediaStutters
  <2> QED
    BY <2>1, <2>2, <2>3 DEF Next
<1> QED
  BY <1>1, <1>2, PTL DEF Spec

(* A READY full video has its manifest and every object of some video, and *)
(* a playlist that lists segments which are not there is that of a job     *)
(* begun since, unless BullMQ gave a job up: the worker uploads every      *)
(* object before it updates the row, and no step takes one away.           *)
THEOREM ReadyMeansComplete == Spec => []ReadyIsComplete
<1>1. MediaInv => ReadyIsComplete
  BY DEF MediaInv
<1> QED
  BY <1>1, Invariant, PTL

(* A READY video of which no job is begun, and none was given up, is made  *)
(* from one upload: two jobs of one asset never mix for good.              *)
THEOREM SettledMeansWhole == Spec => []SettledIsWhole
<1>1. MediaInv => SettledIsWhole
  BY DEF MediaInv
<1> QED
  BY <1>1, Invariant, PTL

(* A READY video that was never registered again while the pipeline was at *)
(* work on it is the one its row names.                                    *)
THEOREM UndisturbedMeansExact == Spec => []UndisturbedIsExact
<1>1. MediaInv => UndisturbedIsExact
  BY DEF MediaInv
<1> QED
  BY <1>1, Invariant, PTL

(* A row reads PENDING only while a page or a job is at work on it, or     *)
(* after an upload broke off or BullMQ gave a job up.                      *)
THEOREM PendingMeansAtWork == Spec => []PendingIsAtWork
<1>1. MediaInv => PendingIsAtWork
  BY DEF MediaInv
<1> QED
  BY <1>1, Invariant, PTL
============================================================================
