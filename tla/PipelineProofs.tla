--------------------------- MODULE PipelineProofs ---------------------------
(***************************************************************************)
(* The inductive invariant of MediaPipeline, one step after the other, for *)
(* the modules that put the pipeline to work: Media, where every owner     *)
(* exists, and Catalog, which creates the owners.                          *)
(*                                                                         *)
(* Most of it is about jobs: which a step adds, and which it takes away.   *)
(***************************************************************************)
EXTENDS MediaPipeline, SequenceTheorems, TLAPS

----------------------------------------------------------------------------
(* The jobs waiting.                                                       *)

Waiting(q) == {q[i] : i \in DOMAIN q}

LEMMA WaitingOfAppend ==
    ASSUME NEW q \in Seq(Job), NEW j \in Job
    PROVE  /\ Append(q, j) \in Seq(Job)
           /\ Waiting(Append(q, j)) = Waiting(q) \cup {j}
<1>1. /\ Append(q, j) \in Seq(Job)
      /\ DOMAIN q = 1..Len(q)
      /\ Len(q) \in Nat
      /\ DOMAIN Append(q, j) = 1..Len(q) + 1
      /\ \A i \in 1..Len(q) : Append(q, j)[i] = q[i]
      /\ Append(q, j)[Len(q) + 1] = j
  OBVIOUS
<1>2. \A i \in 1..Len(q) + 1 : i \in 1..Len(q) \/ i = Len(q) + 1
  BY <1>1
<1>3. 1..Len(q) \subseteq 1..Len(q) + 1 /\ Len(q) + 1 \in 1..Len(q) + 1
  BY <1>1
<1> QED
  BY <1>1, <1>2, <1>3, Zenon DEF Waiting

LEMMA WaitingOfTail ==
    ASSUME NEW q \in Seq(Job), q # <<>>
    PROVE  /\ Head(q) \in Job
           /\ Tail(q) \in Seq(Job)
           /\ Waiting(q) = Waiting(Tail(q)) \cup {Head(q)}
<1>1. /\ Head(q) \in Job
      /\ Tail(q) \in Seq(Job)
      /\ Len(q) \in Nat \ {0}
      /\ DOMAIN q = 1..Len(q)
      /\ DOMAIN Tail(q) = 1..Len(q) - 1
      /\ Head(q) = q[1]
      /\ \A i \in 1..Len(q) - 1 : Tail(q)[i] = q[i + 1]
  BY HeadTailProperties, LenProperties
<1>2. \A i \in 1..Len(q) : i = 1 \/ (i - 1 \in 1..Len(q) - 1 /\ q[i] = Tail(q)[i - 1])
  BY <1>1
<1>3. \A i \in 1..Len(q) - 1 : i + 1 \in 1..Len(q)
  BY <1>1
<1>4. 1 \in 1..Len(q)
  BY <1>1
<1>5. Waiting(q) \subseteq Waiting(Tail(q)) \cup {Head(q)}
  <2>1. \A i \in DOMAIN q : q[i] \in Waiting(Tail(q)) \cup {Head(q)}
    <3> TAKE i \in DOMAIN q
    <3>1. CASE i = 1
      BY <1>1, <3>1
    <3>2. CASE i - 1 \in DOMAIN Tail(q) /\ q[i] = Tail(q)[i - 1]
      BY <3>2, Zenon DEF Waiting
    <3> QED
      BY <1>1, <1>2, <3>1, <3>2
  <2> QED
    BY <2>1, Zenon DEF Waiting
<1>6. Waiting(Tail(q)) \cup {Head(q)} \subseteq Waiting(q)
  <2>1. \A i \in DOMAIN Tail(q) : Tail(q)[i] \in Waiting(q)
    BY <1>1, <1>3 DEF Waiting
  <2> QED
    BY <1>1, <1>4, <2>1, Zenon DEF Waiting
<1> QED
  BY <1>1, <1>5, <1>6

LEMMA WaitingOfPush ==
    ASSUME NEW q \in Seq(Job), NEW j \in Job
    PROVE  /\ <<j>> \o q \in Seq(Job)
           /\ Waiting(<<j>> \o q) = Waiting(q) \cup {j}
<1>1. /\ <<j>> \in Seq(Job)
      /\ Len(<<j>>) = 1
      /\ <<j>>[1] = j
  OBVIOUS
<1>2. /\ <<j>> \o q \in Seq(Job)
      /\ Len(q) \in Nat
      /\ DOMAIN q = 1..Len(q)
      /\ DOMAIN (<<j>> \o q) = 1..1 + Len(q)
      /\ \A i \in 1..1 + Len(q) : (<<j>> \o q)[i] = IF i <= 1 THEN <<j>>[i] ELSE q[i - 1]
  BY <1>1, ConcatProperties, LenProperties
<1>3. \A i \in 1..1 + Len(q) :
        \/ (<<j>> \o q)[i] = j
        \/ i - 1 \in 1..Len(q) /\ (<<j>> \o q)[i] = q[i - 1]
  <2> SUFFICES ASSUME NEW i \in 1..1 + Len(q), i # 1
               PROVE  i - 1 \in 1..Len(q) /\ (<<j>> \o q)[i] = q[i - 1]
    BY <1>1, <1>2
  <2> QED
    BY <1>2
<1>4. \A i \in 1..Len(q) : i + 1 \in 1..1 + Len(q) /\ (<<j>> \o q)[i + 1] = q[i]
  <2> TAKE i \in 1..Len(q)
  <2>1. i + 1 \in 1..1 + Len(q) /\ ~(i + 1 <= 1) /\ (i + 1) - 1 = i
    BY <1>2
  <2> QED
    BY <1>2, <2>1
<1>5. 1 \in 1..1 + Len(q) /\ (<<j>> \o q)[1] = j
  BY <1>1, <1>2
<1>6. Waiting(<<j>> \o q) \subseteq Waiting(q) \cup {j}
  BY <1>2, <1>3, Zenon DEF Waiting
<1>7. Waiting(q) \cup {j} \subseteq Waiting(<<j>> \o q)
  <2>1. \A i \in DOMAIN q : q[i] \in Waiting(<<j>> \o q)
    <3> TAKE i \in DOMAIN q
    <3>1. i + 1 \in DOMAIN (<<j>> \o q) /\ (<<j>> \o q)[i + 1] = q[i]
      BY <1>2, <1>4, Zenon
    <3> QED
      BY <3>1, Zenon DEF Waiting
  <2>2. j \in Waiting(<<j>> \o q)
    <3>1. 1 \in DOMAIN (<<j>> \o q) /\ (<<j>> \o q)[1] = j
      BY <1>2, <1>5, Zenon
    <3> QED
      BY <3>1, Zenon DEF Waiting
  <2> QED
    BY <2>1, <2>2, Zenon DEF Waiting
<1> QED
  BY <1>2, <1>6, <1>7

----------------------------------------------------------------------------
(* Jobs, over a step.                                                      *)

LEMMA JobsAre == Jobs = Waiting(queue) \cup orphans \cup ({worker.job} \ {None})
BY DEF Jobs, Waiting

LEMMA JobsStay ==
    ASSUME UNCHANGED pipeline
    PROVE  Jobs' = Jobs /\ \A a : JobsOf(a)' = JobsOf(a) /\ Begun(a)' = Begun(a)
BY DEF pipeline, Jobs, JobsOf, Begun

(* A job that was begun counts as begun while BullMQ knows of it.          *)
LEMMA BegunGrows ==
    ASSUME NEW a, JobsOf(a) \subseteq JobsOf(a)',
           \A j \in JobsOf(a) : j \in orphans => j \in orphans',
           worker'.job = worker.job \/ worker.job \in orphans' \/ worker.job \notin JobsOf(a)
    PROVE  Begun(a) \subseteq Begun(a)'
BY DEF Begun

LEMMA ObjectsAreKeys ==
    ASSUME NEW s \in Sources
    PROVE  /\ Objects(s) \subseteq Keys
           /\ \A r \in 1..Renditions :
                /\ Playlist(r) \in Objects(s)
                /\ \A k \in 1..Segments[s] : <<r, k>> \in Objects(s)
<1>1. Segments[s] \in Nat
  BY MediaAssumption
<1>2. 0 \in 0..Segments[s] /\ \A k \in 1..Segments[s] : k \in 0..Segments[s]
  BY <1>1
<1> QED
  BY <1>2 DEF Keys, Objects, Playlist

LEMMA JobsAreJobs ==
    ASSUME MediaTypeOK
    PROVE  Jobs \subseteq Job
<1>1. Waiting(queue) \subseteq Job
  BY ElementOfSeq, LenProperties DEF Waiting, MediaTypeOK
<1>2. worker.job \in Job \cup {None}
  BY DEF MediaTypeOK, Worker
<1> QED
  BY <1>1, <1>2, JobsAre DEF MediaTypeOK

(* A step that leaves the rows, the objects and the jobs alone keeps the   *)
(* invariant, if it keeps the parts that say where a page and the worker   *)
(* are.                                                                    *)
LEMMA MovesKeep ==
    ASSUME MediaInv,
           UNCHANGED <<asset, hls, dropped, disturbed, Jobs>>,
           \A a : Begun(a) \subseteq Begun(a)',
           uploaded \subseteq uploaded',
           abandoned \subseteq abandoned',
           \A c \in Uploads :
             \/ /\ upload'[c].asset = upload[c].asset
                /\ upload'[c].source \in {upload[c].source, asset[upload[c].asset].source}
             \/ upload'[c] = NoUpload /\ upload[c].asset \in abandoned',
           MediaTypeOK', UploadsHaveRows', WorkerIsSound'
    PROVE  MediaInv'
<1>1. \A a : JobsOf(a)' = JobsOf(a)
  BY DEF JobsOf
<1>2. None \notin Assets /\ Fulls \subseteq Assets
  BY NoneAssumption DEF Fulls, Assets, Kinds
<1>3. WorkIsOfTheRow'
  <2> SUFFICES ASSUME NEW a \in Fulls \ disturbed
               PROVE  /\ \A j \in JobsOf(a) : j.source = asset[a].source
                      /\ \A c \in Uploads : upload'[c].asset = a => upload'[c].source = asset[a].source
    BY <1>1 DEF WorkIsOfTheRow
  <2> QED
    BY <1>2 DEF MediaInv, WorkIsOfTheRow, NoUpload
<1>4. ReadyIsComplete'
  <2> SUFFICES ASSUME NEW a \in Fulls, Ready(a)
               PROVE  /\ asset[a].manifest = Master
                      /\ WasComplete(a)'
                      /\ a \notin dropped => \A r \in 1..Renditions :
                            \/ Streams(a, r)'
                            \/ \E j \in Begun(a)' : j.source = hls[a][Playlist(r)]
    BY DEF ReadyIsComplete, Ready
  <2>1. asset[a].manifest = Master /\ WasComplete(a)
    BY DEF MediaInv, ReadyIsComplete
  <2>2. WasComplete(a)'
    BY <2>1 DEF WasComplete
  <2>3. ASSUME a \notin dropped, NEW r \in 1..Renditions
        PROVE  \/ Streams(a, r)'
               \/ \E j \in Begun(a)' : j.source = hls[a][Playlist(r)]
    <3>1. Streams(a, r) \/ \E j \in Begun(a) : j.source = hls[a][Playlist(r)]
      BY <2>3 DEF MediaInv, ReadyIsComplete
    <3>2. Streams(a, r) => Streams(a, r)'
      BY DEF Streams
    <3> QED
      BY <3>1, <3>2
  <2> QED
    BY <2>1, <2>2, <2>3
<1>5. SettledIsWhole'
  BY DEF MediaInv, SettledIsWhole, Ready, IsOf
<1>6. UndisturbedIsExact'
  BY DEF MediaInv, UndisturbedIsExact, Ready, IsOf
<1>7. PendingIsAtWork'
  <2> SUFFICES ASSUME NEW a \in Assets \ (abandoned' \cup dropped),
                      asset[a].status = "PENDING",
                      JobsOf(a) = {}
               PROVE  \E c \in Uploads : upload'[c].asset = a
    BY <1>1 DEF PendingIsAtWork, Quiet
  <2> QED
    BY DEF MediaInv, PendingIsAtWork, Quiet
<1> QED
  BY <1>3, <1>4, <1>5, <1>6, <1>7 DEF MediaInv

(* The invariant, asset by asset.                                          *)
AssetIsSound(a) ==
    /\ a \in Fulls \ disturbed =>
        /\ \A j \in JobsOf(a) : j.source = asset[a].source
        /\ \A c \in Uploads : upload[c].asset = a => upload[c].source = asset[a].source
    /\ a \in Fulls /\ Ready(a) =>
        /\ asset[a].manifest = Master
        /\ WasComplete(a)
        /\ a \notin dropped => \A r \in 1..Renditions :
                Streams(a, r) \/ \E j \in Begun(a) : j.source = hls[a][Playlist(r)]
    /\ a \in Fulls \ dropped /\ Ready(a) /\ Begun(a) = {} => \E s \in uploaded : IsOf(a, s)
    /\ a \in Fulls \ disturbed /\ Ready(a) => IsOf(a, asset[a].source)
    /\ a \notin abandoned \cup dropped /\ asset[a].status = "PENDING" => ~Quiet(a)

LEMMA FullsAreAssets == Fulls \subseteq Assets
BY DEF Fulls, Assets, Kinds

LEMMA SoundAssets ==
    MediaInv <=> /\ MediaTypeOK
                 /\ UploadsHaveRows
                 /\ WorkerIsSound
                 /\ \A a \in Assets : AssetIsSound(a)
<1>1. (\A a \in Assets : AssetIsSound(a)) =>
        /\ WorkIsOfTheRow
        /\ ReadyIsComplete
        /\ SettledIsWhole
        /\ UndisturbedIsExact
        /\ PendingIsAtWork
  BY FullsAreAssets DEF AssetIsSound, WorkIsOfTheRow, ReadyIsComplete, SettledIsWhole,
     UndisturbedIsExact, PendingIsAtWork
<1>2. /\ WorkIsOfTheRow
      /\ ReadyIsComplete
      /\ SettledIsWhole
      /\ UndisturbedIsExact
      /\ PendingIsAtWork
      => \A a \in Assets : AssetIsSound(a)
  BY DEF AssetIsSound, WorkIsOfTheRow, ReadyIsComplete, SettledIsWhole,
     UndisturbedIsExact, PendingIsAtWork
<1> QED
  BY <1>1, <1>2 DEF MediaInv

LEMMA SoundAssetsNext ==
    MediaTypeOK' /\ UploadsHaveRows' /\ WorkerIsSound' /\ (\A a \in Assets : AssetIsSound(a))'
    => MediaInv'
BY SoundAssets, PTL

(* An asset that a step does not touch stays sound.                        *)
LEMMA UntouchedIsSound ==
    ASSUME NEW b, AssetIsSound(b),
           asset'[b] = asset[b],
           b \in Fulls => hls'[b] = hls[b],
           JobsOf(b)' = JobsOf(b),
           Begun(b) \subseteq Begun(b)',
           \A c \in Uploads : upload'[c].asset = b =>
                upload[c].asset = b /\ upload'[c].source = upload[c].source,
           \A c \in Uploads : upload[c].asset = b => upload'[c].asset = b,
           uploaded \subseteq uploaded',
           disturbed \subseteq disturbed',
           abandoned \subseteq abandoned',
           dropped \subseteq dropped'
    PROVE  AssetIsSound(b)'
<1>1. b \in Fulls => (WasComplete(b) => WasComplete(b)')
  BY DEF WasComplete
<1>2. \A r : b \in Fulls => (Streams(b, r) => Streams(b, r)')
  BY DEF Streams
<1>3. \A s : b \in Fulls => (IsOf(b, s) => IsOf(b, s)')
  BY DEF IsOf
<1> QED
  BY <1>1, <1>2, <1>3 DEF AssetIsSound, Ready, Quiet

(* What a step to r leaves of the rows.                                    *)
LEMMA RowMoves ==
    ASSUME MediaInv, NEW a \in Assets, NEW r \in MediaAsset,
           asset' = [asset EXCEPT ![a] = r]
    PROVE  /\ asset' \in [Assets -> MediaAsset]
           /\ asset'[a] = r
           /\ \A b \in Assets \ {a} : asset'[b] = asset[b]
BY DEF MediaInv, MediaTypeOK

LEMMA RowSet ==
    ASSUME MediaInv, NEW a \in Assets, NEW x, NEW m
    PROVE  /\ [asset EXCEPT ![a].status = x]
                = [asset EXCEPT ![a] = [status |-> x, source |-> asset[a].source,
                                        manifest |-> asset[a].manifest]]
           /\ [asset EXCEPT ![a].status = x, ![a].manifest = m]
                = [asset EXCEPT ![a] = [status |-> x, source |-> asset[a].source,
                                        manifest |-> m]]
<1> DEFINE r == asset[a]
<1>1. asset \in [Assets -> MediaAsset] /\ r \in MediaAsset
  BY DEF MediaInv, MediaTypeOK
<1>2. /\ [asset EXCEPT ![a].status = x] = [asset EXCEPT ![a] = [r EXCEPT !.status = x]]
      /\ [asset EXCEPT ![a].status = x, ![a].manifest = m]
           = [asset EXCEPT ![a] = [r EXCEPT !.status = x, !.manifest = m]]
  BY <1>1
<1>3. r = [status |-> r.status, source |-> r.source, manifest |-> r.manifest]
  BY <1>1 DEF MediaAsset
<1> HIDE DEF r
<1> DEFINE q == [r EXCEPT !.status = x]
<1>4. q = [status |-> x, source |-> r.source, manifest |-> r.manifest]
  BY <1>3
<1>5. [r EXCEPT !.status = x, !.manifest = m] = [q EXCEPT !.manifest = m]
  OBVIOUS
<1> HIDE DEF q
<1>6. [q EXCEPT !.manifest = m] = [status |-> x, source |-> r.source, manifest |-> m]
  BY <1>4
<1> QED
  BY <1>2, <1>4, <1>5, <1>6 DEF q, r

----------------------------------------------------------------------------
(* The upload page.                                                        *)

(* Where the page is that an action moves.                                 *)
LEMMA PageAtWork ==
    ASSUME MediaInv, NEW c \in Uploads, upload[c].pc # "idle"
    PROVE  \E a \in Assets, s \in Sources :
             /\ upload[c].asset = a
             /\ upload[c].source = s
             /\ asset[a].source \in Sources
BY DEF MediaInv, UploadsHaveRows, NoUpload

LEMMA PageSet ==
    ASSUME MediaInv, NEW c \in Uploads, NEW p, NEW x
    PROVE  /\ [upload EXCEPT ![c].pc = p]
                = [upload EXCEPT ![c] = [pc |-> p, asset |-> upload[c].asset,
                                         source |-> upload[c].source]]
           /\ [upload EXCEPT ![c].pc = p, ![c].source = x]
                = [upload EXCEPT ![c] = [pc |-> p, asset |-> upload[c].asset, source |-> x]]
<1> DEFINE r == upload[c]
<1>1. upload \in [Uploads -> Upload] /\ r \in Upload
  BY DEF MediaInv, MediaTypeOK
<1>2. /\ [upload EXCEPT ![c].pc = p] = [upload EXCEPT ![c] = [r EXCEPT !.pc = p]]
      /\ [upload EXCEPT ![c].pc = p, ![c].source = x]
           = [upload EXCEPT ![c] = [r EXCEPT !.pc = p, !.source = x]]
  BY <1>1
<1>3. r = [pc |-> r.pc, asset |-> r.asset, source |-> r.source]
  BY <1>1 DEF Upload
<1> HIDE DEF r
<1> DEFINE q == [r EXCEPT !.pc = p]
<1>4. q = [pc |-> p, asset |-> r.asset, source |-> r.source]
  BY <1>3
<1>5. [r EXCEPT !.pc = p, !.source = x] = [q EXCEPT !.source = x]
  OBVIOUS
<1> HIDE DEF q
<1>6. [q EXCEPT !.source = x] = [pc |-> p, asset |-> r.asset, source |-> x]
  BY <1>4
<1> QED
  BY <1>2, <1>4, <1>5, <1>6 DEF q, r

(* What a page's step to u leaves of the two parts that look at it.        *)
LEMMA PageMoves ==
    ASSUME MediaInv, NEW c \in Uploads, NEW u \in Upload,
           upload' = [upload EXCEPT ![c] = u],
           \/ u = NoUpload
           \/ u.pc # "idle" /\ u.asset \in Assets /\ u.source \in Sources,
           u = NoUpload \/ asset'[u.asset].source \in Sources,
           \A a \in Assets : asset[a].source \in Sources => asset'[a].source \in Sources
    PROVE  /\ UploadsHaveRows'
           /\ upload' \in [Uploads -> Upload]
           /\ upload'[c] = u
           /\ \A d \in Uploads \ {c} : upload'[d] = upload[d]
<1>1. /\ upload' \in [Uploads -> Upload]
      /\ upload'[c] = u
      /\ \A d \in Uploads \ {c} : upload'[d] = upload[d]
  BY DEF MediaInv, MediaTypeOK
<1>2. UploadsHaveRows'
  <2> SUFFICES ASSUME NEW d \in Uploads
               PROVE  \/ upload'[d] = NoUpload
                      \/ /\ upload'[d].pc # "idle"
                         /\ upload'[d].asset \in Assets
                         /\ upload'[d].source \in Sources
                         /\ asset'[upload'[d].asset].source \in Sources
    BY DEF UploadsHaveRows
  <2>1. CASE d = c
    BY <1>1, <2>1
  <2>2. CASE d # c
    BY <1>1, <2>2 DEF MediaInv, UploadsHaveRows
  <2> QED
    BY <2>1, <2>2
<1> QED
  BY <1>1, <1>2

LEMMA PutKeeps ==
    ASSUME MediaInv, NEW c \in Uploads, Put(c) \/ PutRefused(c)
    PROVE  MediaInv'
<1>1. PICK a \in Assets, s \in Sources :
        /\ upload[c].asset = a
        /\ upload[c].source = s
        /\ asset[a].source \in Sources
  BY PageAtWork DEF Put, PutRefused
<1>2. PICK u \in Upload : u = [pc |-> "read", asset |-> a, source |-> s]
  <2> DEFINE n == [pc |-> "read", asset |-> a, source |-> s]
  <2>1. n \in Upload
    BY DEF Upload
  <2> QED
    BY <2>1
<1>3. /\ upload' = [upload EXCEPT ![c] = u]
      /\ uploaded' \in {uploaded, uploaded \cup {s}}
      /\ faults' \in {faults, faults + 1}
      /\ UNCHANGED <<asset, hls, disturbed, abandoned, queue, worker, orphans, dropped>>
  BY <1>1, <1>2, PageSet DEF Put, PutRefused, pipeline
<1>4. /\ UploadsHaveRows'
      /\ upload' \in [Uploads -> Upload]
      /\ upload'[c] = u
      /\ \A d \in Uploads \ {c} : upload'[d] = upload[d]
  BY <1>1, <1>2, <1>3, PageMoves
<1>5. MediaTypeOK'
  BY <1>3, <1>4 DEF MediaInv, MediaTypeOK
<1>6. WorkerIsSound'
  BY <1>3 DEF MediaInv, WorkerIsSound
<1>7. Jobs' = Jobs /\ \A b : Begun(b)' = Begun(b)
  BY <1>3, JobsStay DEF pipeline
<1> QED
  BY <1>1, <1>2, <1>3, <1>4, <1>5, <1>6, <1>7, MovesKeep

LEMMA CompleteReadKeeps ==
    ASSUME MediaInv, NEW c \in Uploads, CompleteRead(c)
    PROVE  MediaInv'
<1>1. PICK a \in Assets, s \in Sources :
        /\ upload[c].asset = a
        /\ upload[c].source = s
        /\ asset[a].source \in Sources
  <2>1. upload[c].pc # "idle"
    BY DEF CompleteRead
  <2> QED
    BY <2>1, PageAtWork
<1>2. PICK u \in Upload : u = [pc |-> "pend", asset |-> a, source |-> asset[a].source]
  <2> DEFINE n == [pc |-> "pend", asset |-> a, source |-> asset[a].source]
  <2>1. n \in Upload
    BY <1>1 DEF Upload
  <2> QED
    BY <2>1
<1>3. /\ upload' = [upload EXCEPT ![c] = u]
      /\ UNCHANGED <<asset, uploaded, hls, disturbed, abandoned, queue, worker, orphans, dropped, faults>>
  <2>1. [upload EXCEPT ![c].pc = "pend", ![c].source = asset[a].source] = [upload EXCEPT ![c] = u]
    <3> DEFINE n == [pc |-> "pend", asset |-> upload[c].asset, source |-> asset[a].source]
    <3>1. [upload EXCEPT ![c].pc = "pend", ![c].source = asset[a].source] = [upload EXCEPT ![c] = n]
      BY PageSet
    <3>2. n = u
      BY <1>1, <1>2
    <3> HIDE DEF n
    <3> QED
      BY <3>1, <3>2
  <2>2. upload' = [upload EXCEPT ![c].pc = "pend", ![c].source = asset[a].source]
    BY <1>1 DEF CompleteRead
  <2> QED
    BY <2>1, <2>2 DEF CompleteRead, pipeline
<1>4. /\ UploadsHaveRows'
      /\ upload' \in [Uploads -> Upload]
      /\ upload'[c] = u
      /\ \A d \in Uploads \ {c} : upload'[d] = upload[d]
  BY <1>1, <1>2, <1>3, PageMoves
<1>5. MediaTypeOK'
  BY <1>3, <1>4 DEF MediaInv, MediaTypeOK
<1>6. WorkerIsSound'
  BY <1>3 DEF MediaInv, WorkerIsSound
<1>7. Jobs' = Jobs /\ \A b : Begun(b)' = Begun(b)
  BY <1>3, JobsStay DEF pipeline
<1> QED
  BY <1>1, <1>2, <1>3, <1>4, <1>5, <1>6, <1>7, MovesKeep

LEMMA UploadFailsKeeps ==
    ASSUME MediaInv, NEW c \in Uploads, UploadFails(c)
    PROVE  MediaInv'
<1>1. PICK a \in Assets, s \in Sources :
        /\ upload[c].asset = a
        /\ upload[c].source = s
        /\ asset[a].source \in Sources
  <2>1. upload[c].pc # "idle"
    BY DEF UploadFails
  <2> QED
    BY <2>1, PageAtWork
<1>2. NoUpload \in Upload
  BY DEF NoUpload, Upload
<1>3. /\ upload' = [upload EXCEPT ![c] = NoUpload]
      /\ abandoned' = abandoned \cup {a}
      /\ faults' = faults + 1
      /\ UNCHANGED <<asset, uploaded, hls, disturbed, queue, worker, orphans, dropped>>
  BY <1>1 DEF UploadFails, pipeline
<1>4. /\ UploadsHaveRows'
      /\ upload' \in [Uploads -> Upload]
      /\ upload'[c] = NoUpload
      /\ \A d \in Uploads \ {c} : upload'[d] = upload[d]
  BY <1>1, <1>2, <1>3, PageMoves
<1>5. MediaTypeOK'
  BY <1>3, <1>4 DEF MediaInv, MediaTypeOK
<1>6. WorkerIsSound'
  BY <1>3 DEF MediaInv, WorkerIsSound
<1>7. Jobs' = Jobs /\ \A b : Begun(b)' = Begun(b)
  BY <1>3, JobsStay DEF pipeline
<1> QED
  BY <1>1, <1>3, <1>4, <1>5, <1>6, <1>7, MovesKeep

LEMMA CompletePendKeeps ==
    ASSUME MediaInv, NEW c \in Uploads, CompletePend(c)
    PROVE  MediaInv'
<1>1. PICK a \in Assets, s \in Sources :
        /\ upload[c].asset = a
        /\ upload[c].source = s
        /\ asset[a].source \in Sources
  <2>1. upload[c].pc # "idle"
    BY DEF CompletePend
  <2> QED
    BY <2>1, PageAtWork
<1>2. PICK u \in Upload : u = [pc |-> "finish", asset |-> a, source |-> s]
  <2> DEFINE n == [pc |-> "finish", asset |-> a, source |-> s]
  <2>1. n \in Upload
    BY DEF Upload
  <2> QED
    BY <2>1
<1>3. PICK r \in MediaAsset :
        r = [status |-> "PENDING", source |-> asset[a].source, manifest |-> asset[a].manifest]
  <2> DEFINE n == [status |-> "PENDING", source |-> asset[a].source, manifest |-> asset[a].manifest]
  <2>1. n \in MediaAsset
    BY DEF MediaAsset, Statuses, MediaInv, MediaTypeOK
  <2> QED
    BY <2>1
<1>4. /\ asset' = [asset EXCEPT ![a] = r]
      /\ upload' = [upload EXCEPT ![c] = u]
      /\ UNCHANGED <<uploaded, hls, disturbed, abandoned, queue, worker, orphans, dropped, faults>>
  BY <1>1, <1>2, <1>3, PageSet, RowSet DEF CompletePend, pipeline
<1>5. /\ asset' \in [Assets -> MediaAsset]
      /\ asset'[a] = r
      /\ \A b \in Assets \ {a} : asset'[b] = asset[b]
  BY <1>4, RowMoves
<1>6. /\ UploadsHaveRows'
      /\ upload' \in [Uploads -> Upload]
      /\ upload'[c] = u
      /\ \A d \in Uploads \ {c} : upload'[d] = upload[d]
  BY <1>1, <1>2, <1>3, <1>4, <1>5, PageMoves
<1>7. \A b : JobsOf(b)' = JobsOf(b) /\ Begun(b)' = Begun(b)
  BY <1>4, JobsStay DEF pipeline
<1>8. MediaTypeOK'
  BY <1>4, <1>5, <1>6 DEF MediaInv, MediaTypeOK
<1>9. WorkerIsSound'
  BY <1>4 DEF MediaInv, WorkerIsSound
<1>10. \A d \in Uploads : upload'[d].asset = upload[d].asset /\ upload'[d].source = upload[d].source
  BY <1>1, <1>2, <1>6
<1>11. ASSUME NEW b \in Assets
       PROVE  AssetIsSound(b)'
  <2>1. AssetIsSound(b)
    BY SoundAssets
  <2>2. CASE b = a
    BY <1>1, <1>2, <1>3, <1>4, <1>5, <1>6, <1>7, <1>10, <2>1, <2>2 DEF AssetIsSound, Ready, Quiet
  <2>3. CASE b # a
    BY <1>4, <1>5, <1>7, <1>10, <2>1, <2>3, UntouchedIsSound
  <2> QED
    BY <2>2, <2>3
<1> QED
  BY <1>6, <1>8, <1>9, <1>11, SoundAssetsNext

LEMMA RegisterKeeps ==
    ASSUME MediaInv, NEW c \in Uploads, NEW a \in Assets, NEW s \in Sources, Register(c, a, s)
    PROVE  MediaInv'
<1>1. upload[c] = NoUpload
  BY DEF MediaInv, UploadsHaveRows, Register
<1>2. PICK u \in Upload : u = [pc |-> "put", asset |-> a, source |-> s]
  <2> DEFINE n == [pc |-> "put", asset |-> a, source |-> s]
  <2>1. n \in Upload
    BY DEF Upload
  <2> QED
    BY <2>1
<1>3. PICK r \in MediaAsset : r = [status |-> "PENDING", source |-> s, manifest |-> None]
  <2> DEFINE n == [status |-> "PENDING", source |-> s, manifest |-> None]
  <2>1. n \in MediaAsset
    BY DEF MediaAsset, Statuses
  <2> QED
    BY <2>1
<1>4. /\ asset' = [asset EXCEPT ![a] = r]
      /\ upload' = [upload EXCEPT ![c] = u]
      /\ disturbed' = IF Quiet(a) THEN disturbed ELSE disturbed \cup {a}
      /\ UNCHANGED <<uploaded, hls, abandoned, queue, worker, orphans, dropped, faults>>
  BY <1>2, <1>3 DEF Register, UpdateOnRegister, pipeline
<1>5. /\ asset' \in [Assets -> MediaAsset]
      /\ asset'[a] = r
      /\ \A b \in Assets \ {a} : asset'[b] = asset[b]
  BY <1>4, RowMoves
<1>6. /\ UploadsHaveRows'
      /\ upload' \in [Uploads -> Upload]
      /\ upload'[c] = u
      /\ \A d \in Uploads \ {c} : upload'[d] = upload[d]
  BY <1>2, <1>3, <1>4, <1>5, PageMoves
<1>7. \A b : JobsOf(b)' = JobsOf(b) /\ Begun(b)' = Begun(b)
  BY <1>4, JobsStay DEF pipeline
<1>8. MediaTypeOK'
  BY <1>4, <1>5, <1>6 DEF MediaInv, MediaTypeOK
<1>9. WorkerIsSound'
  BY <1>4 DEF MediaInv, WorkerIsSound
<1>10. ASSUME NEW b \in Assets
       PROVE  AssetIsSound(b)'
  <2>1. AssetIsSound(b)
    BY SoundAssets
  <2>2. CASE b = a
    <3>1. ~Ready(b)' /\ ~Quiet(b)' /\ asset'[b].source = s
      BY <1>2, <1>3, <1>5, <1>6, <2>2 DEF Ready, Quiet
    <3>2. ASSUME b \notin disturbed'
          PROVE  /\ JobsOf(b) = {}
                 /\ \A d \in Uploads : upload'[d].asset = b => upload'[d].source = s
      <4>1. Quiet(a)
        BY <1>4, <2>2, <3>2
      <4> QED
        BY <1>2, <1>6, <2>2, <4>1 DEF Quiet
    <3> QED
      BY <1>7, <3>1, <3>2 DEF AssetIsSound
  <2>3. CASE b # a
    <3>1. /\ upload[c].asset # b
          /\ upload'[c].asset # b
      BY <1>1, <1>2, <1>6, <2>3, NoneAssumption DEF NoUpload
    <3> QED
      BY <1>4, <1>5, <1>6, <1>7, <2>1, <2>3, <3>1, UntouchedIsSound
  <2> QED
    BY <2>2, <2>3
<1> QED
  BY <1>6, <1>8, <1>9, <1>10, SoundAssetsNext

LEMMA FinishTrailerKeeps ==
    ASSUME MediaInv, NEW c \in Uploads, FinishTrailer(c)
    PROVE  MediaInv'
<1>1. PICK a \in Assets, s \in Sources :
        /\ upload[c].asset = a
        /\ upload[c].source = s
        /\ asset[a].source \in Sources
  <2>1. upload[c].pc # "idle"
    BY DEF FinishTrailer
  <2> QED
    BY <2>1, PageAtWork
<1>2. NoUpload \in Upload
  BY DEF NoUpload, Upload
<1>3. PICK r \in MediaAsset :
        r = [status |-> "READY", source |-> asset[a].source, manifest |-> s]
  <2> DEFINE n == [status |-> "READY", source |-> asset[a].source, manifest |-> s]
  <2>1. n \in MediaAsset
    BY DEF MediaAsset, Statuses, MediaInv, MediaTypeOK
  <2> QED
    BY <2>1
<1>4. /\ asset' = [asset EXCEPT ![a] = r]
      /\ upload' = [upload EXCEPT ![c] = NoUpload]
      /\ UNCHANGED <<uploaded, hls, disturbed, abandoned, queue, worker, orphans, dropped, faults>>
      /\ a \notin Fulls
  <2> DEFINE n == [status |-> "READY", source |-> asset[a].source, manifest |-> s]
  <2>1. [asset EXCEPT ![a].status = "READY", ![a].manifest = s] = [asset EXCEPT ![a] = r]
    <3>1. [asset EXCEPT ![a].status = "READY", ![a].manifest = s] = [asset EXCEPT ![a] = n]
      BY RowSet, ZenonT(60)
    <3> QED
      BY <1>3, <3>1
  <2>2. asset' = [asset EXCEPT ![a].status = "READY", ![a].manifest = s]
    BY <1>1 DEF FinishTrailer
  <2> QED
    BY <1>1, <2>1, <2>2 DEF FinishTrailer, pipeline
<1>5. /\ asset' \in [Assets -> MediaAsset]
      /\ asset'[a] = r
      /\ \A b \in Assets \ {a} : asset'[b] = asset[b]
  BY <1>4, RowMoves
<1>6. /\ UploadsHaveRows'
      /\ upload' \in [Uploads -> Upload]
      /\ upload'[c] = NoUpload
      /\ \A d \in Uploads \ {c} : upload'[d] = upload[d]
  BY <1>1, <1>2, <1>3, <1>4, <1>5, PageMoves
<1>7. \A b : JobsOf(b)' = JobsOf(b) /\ Begun(b)' = Begun(b)
  BY <1>4, JobsStay DEF pipeline
<1>8. MediaTypeOK'
  BY <1>4, <1>5, <1>6 DEF MediaInv, MediaTypeOK
<1>9. WorkerIsSound'
  BY <1>4 DEF MediaInv, WorkerIsSound
<1>10. ASSUME NEW b \in Assets
       PROVE  AssetIsSound(b)'
  <2>1. AssetIsSound(b)
    BY SoundAssets
  <2>2. CASE b = a
    <3>1. asset'[b].status = "READY" /\ b \notin Fulls
      BY <1>3, <1>4, <1>5, <2>2
    <3> QED
      BY <3>1 DEF AssetIsSound
  <2>3. CASE b # a
    <3>1. /\ upload[c].asset # b
          /\ upload'[c].asset # b
      BY <1>1, <1>6, <2>3, NoneAssumption DEF NoUpload
    <3> QED
      BY <1>4, <1>5, <1>6, <1>7, <2>1, <2>3, <3>1, UntouchedIsSound
  <2> QED
    BY <2>2, <2>3
<1> QED
  BY <1>6, <1>8, <1>9, <1>10, SoundAssetsNext

LEMMA EnqueueKeeps ==
    ASSUME MediaInv, NEW c \in Uploads, Enqueue(c)
    PROVE  MediaInv'
<1>1. PICK a \in Assets, s \in Sources :
        /\ upload[c].asset = a
        /\ upload[c].source = s
        /\ asset[a].source \in Sources
  <2>1. upload[c].pc # "idle"
    BY DEF Enqueue
  <2> QED
    BY <2>1, PageAtWork
<1>2. NoUpload \in Upload
  BY DEF NoUpload, Upload
<1>3. a \in Fulls
  BY <1>1 DEF Enqueue
<1>4. PICK j \in Job : j = [asset |-> a, source |-> s, stalled |-> 0]
  <2> DEFINE n == [asset |-> a, source |-> s, stalled |-> 0]
  <2>1. n \in Job
    BY <1>3 DEF Job
  <2> QED
    BY <2>1
<1>5. /\ queue' = Append(queue, j)
      /\ upload' = [upload EXCEPT ![c] = NoUpload]
      /\ UNCHANGED <<asset, uploaded, hls, disturbed, abandoned, worker, orphans, dropped, faults>>
  BY <1>1, <1>4 DEF Enqueue
<1>6. /\ queue' \in Seq(Job)
      /\ Jobs' = Jobs \cup {j}
  <2>1. Waiting(queue)' = Waiting(queue) \cup {j} /\ queue' \in Seq(Job)
    <3>1. queue \in Seq(Job)
      BY DEF MediaInv, MediaTypeOK
    <3>2. Append(queue, j) \in Seq(Job) /\ Waiting(Append(queue, j)) = Waiting(queue) \cup {j}
      BY <3>1, WaitingOfAppend
    <3> QED
      BY <1>5, <3>2 DEF Waiting
  <2>2. Jobs' = Waiting(queue)' \cup orphans \cup ({worker.job} \ {None})
    BY <1>5 DEF Jobs, Waiting
  <2> QED
    BY <2>1, <2>2, JobsAre
<1>7. /\ UploadsHaveRows'
      /\ upload' \in [Uploads -> Upload]
      /\ upload'[c] = NoUpload
      /\ \A d \in Uploads \ {c} : upload'[d] = upload[d]
  BY <1>1, <1>2, <1>5, PageMoves
<1>8. MediaTypeOK'
  BY <1>5, <1>6, <1>7 DEF MediaInv, MediaTypeOK
<1>9. WorkerIsSound'
  BY <1>5 DEF MediaInv, WorkerIsSound
<1>10. ASSUME NEW b \in Assets
       PROVE  AssetIsSound(b)'
  <2>1. AssetIsSound(b)
    BY SoundAssets
  <2>2. CASE b = a
    <3>1. JobsOf(b)' = JobsOf(b) \cup {j} /\ j.source = upload[c].source
      BY <1>1, <1>4, <1>6, <2>2 DEF JobsOf
    <3>2. ~Quiet(b)'
      BY <3>1 DEF Quiet
    <3>3. \A d \in Uploads : upload'[d].asset = b =>
            upload[d].asset = b /\ upload'[d].source = upload[d].source
      BY <1>7, NoneAssumption DEF NoUpload
    <3>4. Begun(b) \subseteq Begun(b)'
      BY <1>5, <3>1, BegunGrows
    <3>5. Ready(b)' <=> Ready(b)
      BY <1>5 DEF Ready
    <3>6. \A r : Streams(b, r)' <=> Streams(b, r)
      BY <1>5 DEF Streams
    <3>7. (WasComplete(b)' <=> WasComplete(b)) /\ \A t : IsOf(b, t)' <=> IsOf(b, t)
      BY <1>5 DEF WasComplete, IsOf
    <3> QED
      BY <1>1, <1>5, <2>1, <2>2, <3>1, <3>2, <3>3, <3>4, <3>5, <3>6, <3>7 DEF AssetIsSound
  <2>3. CASE b # a
    <3>1. /\ upload[c].asset # b
          /\ upload'[c].asset # b
      BY <1>1, <1>7, <2>3, NoneAssumption DEF NoUpload
    <3>2. JobsOf(b)' = JobsOf(b)
      BY <1>4, <1>6, <2>3 DEF JobsOf
    <3>3. Begun(b) \subseteq Begun(b)'
      BY <1>5, <3>2, BegunGrows
    <3> QED
      BY <1>5, <1>7, <2>1, <2>3, <3>1, <3>2, <3>3, UntouchedIsSound
  <2> QED
    BY <2>2, <2>3
<1> QED
  BY <1>7, <1>8, <1>9, <1>10, SoundAssetsNext

----------------------------------------------------------------------------
(* The worker.                                                             *)

(* The job in progress.                                                    *)
LEMMA WorkerAtWork ==
    ASSUME MediaInv, worker.pc # "idle"
    PROVE  \E j \in Job :
             /\ worker.job = j
             /\ j \in Jobs
             /\ j # None
             /\ j.asset \in Fulls
             /\ j.source \in Sources
             /\ j = [asset |-> j.asset, source |-> j.source, stalled |-> j.stalled]
<1>1. worker.job \in Job
  BY DEF MediaInv, WorkerIsSound, IdleWorker
<1>2. worker.job # None
  BY <1>1, NoneAssumption
<1>3. worker.job \in Jobs
  BY <1>2 DEF Jobs
<1> QED
  BY <1>1, <1>2, <1>3 DEF Job

LEMMA PagesStay ==
    ASSUME MediaInv, UNCHANGED <<asset, upload>>
    PROVE  UploadsHaveRows'
BY DEF MediaInv, UploadsHaveRows

LEMMA TakeJobKeeps ==
    ASSUME MediaInv, TakeJob
    PROVE  MediaInv'
<1>1. queue \in Seq(Job) /\ queue # <<>>
  BY DEF MediaInv, MediaTypeOK, TakeJob
<1>2. PICK j \in Job : j = Head(queue)
  BY <1>1, WaitingOfTail
<1>3. /\ worker' = [pc |-> "download", job |-> j, left |-> {}]
      /\ queue' = Tail(queue)
      /\ UNCHANGED <<asset, uploaded, hls, upload, disturbed, abandoned, orphans, dropped, faults>>
  BY <1>2 DEF TakeJob, admin
<1>4. Waiting(queue)' \cup {j} = Waiting(queue) /\ queue' \in Seq(Job)
  BY <1>1, <1>2, <1>3, WaitingOfTail DEF Waiting
<1>5. worker.job = None /\ j # None
  BY NoneAssumption DEF TakeJob, MediaInv, WorkerIsSound, IdleWorker
<1>6. Jobs' = Jobs
  <2>1. Jobs' = Waiting(queue)' \cup orphans \cup ({j} \ {None})
    BY <1>3 DEF Jobs, Waiting
  <2> QED
    BY <1>4, <1>5, <2>1, JobsAre
<1>7. ASSUME NEW b PROVE Begun(b) \subseteq Begun(b)'
  <2>1. None \notin JobsOf(b) /\ JobsOf(b)' = JobsOf(b)
    BY <1>6, JobsAreJobs, NoneAssumption DEF JobsOf, MediaInv
  <2> QED
    BY <1>3, <1>5, <2>1, BegunGrows
<1>8. MediaTypeOK'
  BY <1>3, <1>4 DEF MediaInv, MediaTypeOK, Worker
<1>9. WorkerIsSound'
  BY <1>3 DEF WorkerIsSound
<1> QED
  BY <1>3, <1>6, <1>7, <1>8, <1>9, PagesStay, MovesKeep

(* The job goes on, and its objects are left alone.                        *)
LEMMA SameJob ==
    ASSUME worker'.job = worker.job, UNCHANGED <<queue, orphans>>
    PROVE  Jobs' = Jobs /\ \A b : JobsOf(b)' = JobsOf(b) /\ Begun(b)' = Begun(b)
BY DEF Jobs, JobsOf, Begun

LEMMA DownloadKeeps ==
    ASSUME MediaInv, Download
    PROVE  MediaInv'
<1>1. PICK j \in Job : worker.job = j /\ j.source \in Sources
  BY WorkerAtWork DEF Download
<1>2. UNCHANGED <<asset, uploaded, hls, upload, disturbed, abandoned, queue, orphans, dropped, faults>>
  BY DEF Download, admin
<1>3. CASE j.source \in uploaded
  <2>1. /\ worker' \in Worker
        /\ worker'.pc = "upload"
        /\ worker'.job = j
        /\ worker'.left = Objects(j.source)
    BY <1>1, <1>3, ObjectsAreKeys DEF Download, MediaInv, MediaTypeOK, Worker
  <2>2. MediaTypeOK' /\ WorkerIsSound'
    BY <1>2, <1>3, <2>1 DEF MediaInv, MediaTypeOK, WorkerIsSound
  <2> QED
    BY <1>1, <1>2, <2>1, <2>2, SameJob, PagesStay, MovesKeep
<1>4. CASE j.source \notin uploaded
  <2>1. /\ worker' \in Worker
        /\ worker'.pc = "failed"
        /\ worker'.job = j
    BY <1>1, <1>4 DEF Download, MediaInv, MediaTypeOK, Worker
  <2>2. MediaTypeOK' /\ WorkerIsSound'
    BY <1>2, <2>1 DEF MediaInv, MediaTypeOK, WorkerIsSound
  <2> QED
    BY <1>1, <1>2, <2>1, <2>2, SameJob, PagesStay, MovesKeep
<1> QED
  BY <1>3, <1>4

(* The catch block, reached from both of its places, and the download that *)
(* ends in none.                                                           *)
LEMMA ThrowsKeeps ==
    ASSUME MediaInv, TranscodeFails \/ ReadyThrows \/ DownloadHangs
    PROVE  MediaInv'
<1>1. PICK j \in Job : worker.job = j
  BY WorkerAtWork DEF TranscodeFails, ReadyThrows, DownloadHangs
<1>2. PICK label \in {"failed", "hung"} :
      /\ worker' = [worker EXCEPT !.pc = label]
      /\ faults' \in {faults, faults + 1}
      /\ UNCHANGED <<asset, uploaded, hls, upload, disturbed, abandoned, queue, orphans, dropped>>
  BY DEF TranscodeFails, ReadyThrows, DownloadHangs, admin
<1>3. /\ worker' \in Worker
      /\ worker'.pc \in {"failed", "hung"}
      /\ worker'.job = j
  BY <1>1, <1>2 DEF MediaInv, MediaTypeOK, Worker
<1>4. MediaTypeOK'
  BY <1>2, <1>3 DEF MediaInv, MediaTypeOK
<1>5. WorkerIsSound'
  BY <1>3 DEF WorkerIsSound
<1> QED
  BY <1>1, <1>2, <1>3, <1>4, <1>5, SameJob, PagesStay, MovesKeep

LEMMA IdleIsSound ==
    ASSUME worker' = IdleWorker
    PROVE  worker' \in Worker /\ worker'.job = None /\ WorkerIsSound'
BY DEF IdleWorker, Worker, WorkerIsSound

LEMMA WorkerDiesKeeps ==
    ASSUME MediaInv, WorkerDies
    PROVE  MediaInv'
<1>1. PICK j \in Job : worker.job = j /\ j # None
  BY WorkerAtWork DEF WorkerDies
<1>2. /\ worker' = IdleWorker
      /\ orphans' = orphans \cup {j}
      /\ faults' = faults + 1
      /\ UNCHANGED <<asset, uploaded, hls, upload, disturbed, abandoned, queue, dropped>>
  BY <1>1 DEF WorkerDies, admin
<1>3. Jobs' = Jobs
  BY <1>1, <1>2, IdleIsSound DEF Jobs
<1>4. MediaTypeOK'
  BY <1>2, IdleIsSound DEF MediaInv, MediaTypeOK
<1>5. ASSUME NEW b PROVE Begun(b) \subseteq Begun(b)'
  <2>1. JobsOf(b)' = JobsOf(b)
    BY <1>3 DEF JobsOf
  <2> QED
    BY <1>1, <1>2, <2>1, BegunGrows
<1> QED
  BY <1>2, <1>3, <1>4, <1>5, IdleIsSound, PagesStay, MovesKeep

(* One more object of the worker's, over what the asset had under its key. *)
LEMMA UploadFileKeeps ==
    ASSUME MediaInv, UploadFile
    PROVE  MediaInv'
<1>1. PICK j \in Job :
        /\ worker.job = j
        /\ j \in Jobs
        /\ j.asset \in Fulls
        /\ j.source \in Sources
  BY WorkerAtWork DEF UploadFile
<1>2. PICK a \in Fulls, s \in Sources : j.asset = a /\ j.source = s
  BY <1>1
<1>3. PICK left \in SUBSET Keys, o \in Keys :
        /\ worker.left = left /\ o \in left
        /\ hls' = [hls EXCEPT ![a][o] = s]
        /\ worker' = [worker EXCEPT !.left = left \ {o},
                                    !.pc = IF left \ {o} = {} THEN "ready" ELSE "upload"]
  <2>1. worker.left \in SUBSET Keys
    BY DEF MediaInv, MediaTypeOK, Worker
  <2> QED
    BY <1>1, <1>2, <2>1 DEF UploadFile, AllIsUp
<1>4. UNCHANGED <<asset, uploaded, upload, disturbed, abandoned, queue, orphans, dropped, faults>>
  BY DEF UploadFile, admin
<1>5. /\ s \in uploaded
      /\ \A k \in Objects(s) \ left : hls[a][k] = s
  BY <1>1, <1>2, <1>3 DEF MediaInv, WorkerIsSound, IdleWorker, UploadFile
<1>6. /\ hls' \in [Fulls -> [Keys -> Sources \cup {None}]]
      /\ hls'[a][o] = s
      /\ \A k \in Keys \ {o} : hls'[a][k] = hls[a][k]
      /\ \A b \in Fulls \ {a} : hls'[b] = hls[b]
  BY <1>3 DEF MediaInv, MediaTypeOK
<1>7. /\ worker' \in Worker
      /\ worker'.job = j
      /\ worker'.left = left \ {o}
      /\ worker'.pc = IF left \ {o} = {} THEN "ready" ELSE "upload"
  BY <1>1, <1>3 DEF MediaInv, MediaTypeOK, Worker
<1>8. \A b : JobsOf(b)' = JobsOf(b) /\ Begun(b)' = Begun(b)
  BY <1>1, <1>4, <1>7, SameJob
<1>9. MediaTypeOK'
  BY <1>4, <1>6, <1>7 DEF MediaInv, MediaTypeOK
<1>10. WorkerIsSound'
  <2>1. \A k \in Objects(s) \ (left \ {o}) : hls'[a][k] = s
    BY <1>5, <1>6, ObjectsAreKeys
  <2> QED
    BY <1>2, <1>4, <1>5, <1>7, <2>1 DEF WorkerIsSound
<1>11. \A k \in Keys : hls'[a][k] \in {hls[a][k], s}
  BY <1>6
<1>12. uploaded \subseteq Sources
  BY DEF MediaInv, MediaTypeOK
<1>13. ASSUME NEW b \in Assets
       PROVE  AssetIsSound(b)'
  <2>1. AssetIsSound(b)
    BY SoundAssets
  <2>2. CASE b = a
    <3>1. j \in JobsOf(b) /\ j \in Begun(b)
      BY <1>1, <1>2, <2>2 DEF JobsOf, Begun
    <3>2. b \notin disturbed => asset[b].source = s
      BY <1>2, <2>1, <2>2, <3>1 DEF AssetIsSound
    <3>3. WasComplete(b) => WasComplete(b)'
      BY <1>4, <1>5, <1>11, <1>12, <2>2, ObjectsAreKeys DEF WasComplete
    <3>4. IsOf(b, s) => IsOf(b, s)'
      BY <1>11, <2>2, ObjectsAreKeys DEF IsOf
    <3>5. ASSUME NEW r \in 1..Renditions,
                 Streams(b, r) \/ \E i \in Begun(b) : i.source = hls[b][Playlist(r)]
          PROVE  Streams(b, r)' \/ \E i \in Begun(b) : i.source = hls'[b][Playlist(r)]
      <4>1. Playlist(r) \in Keys
        BY <1>2, ObjectsAreKeys
      <4>2. CASE o = Playlist(r)
        BY <1>2, <1>6, <2>2, <3>1, <4>2
      <4>3. CASE o # Playlist(r) /\ Streams(b, r)
        <5>1. PICK t \in Sources : t = hls[b][Playlist(r)] /\ t = hls'[b][Playlist(r)]
          BY <1>6, <1>12, <2>2, <4>1, <4>3 DEF Streams
        <5>2. \A k \in 1..Segments[t] : hls'[b][<<r, k>>] \in uploaded
          BY <1>5, <1>11, <2>2, <4>3, <5>1, ObjectsAreKeys DEF Streams
        <5> QED
          BY <1>4, <4>3, <5>1, <5>2 DEF Streams
      <4>4. CASE o # Playlist(r) /\ \E i \in Begun(b) : i.source = hls[b][Playlist(r)]
        BY <1>6, <2>2, <4>1, <4>4
      <4> QED
        BY <3>5, <4>2, <4>3, <4>4
    <3> QED
      BY <1>4, <1>8, <2>1, <2>2, <3>1, <3>2, <3>3, <3>4, <3>5 DEF AssetIsSound, Ready, Quiet
  <2>3. CASE b # a
    BY <1>4, <1>6, <1>8, <2>1, <2>3, UntouchedIsSound
  <2> QED
    BY <2>2, <2>3
<1> QED
  BY <1>4, <1>9, <1>10, <1>13, PagesStay, SoundAssetsNext

(* What is left of the jobs when the worker is done with j.                *)
LEMMA JobIsDone ==
    ASSUME NEW j, worker.job = j, worker' = IdleWorker, UNCHANGED <<queue, orphans>>
    PROVE  /\ JobsOf(j.asset)' \subseteq JobsOf(j.asset)
           /\ \A b : b # j.asset => JobsOf(b)' = JobsOf(b) /\ Begun(b) \subseteq Begun(b)'
<1>1. Jobs = Jobs' \cup ({j} \ {None})
  BY DEF Jobs, IdleWorker
<1>2. \A b : b # j.asset => JobsOf(b)' = JobsOf(b) /\ j \notin JobsOf(b)
  BY <1>1 DEF JobsOf
<1>3. JobsOf(j.asset)' \subseteq JobsOf(j.asset)
  BY <1>1 DEF JobsOf
<1> QED
  BY <1>2, <1>3, BegunGrows

(* The update of the row that ends a job.                                  *)
LEMMA MarkKeeps ==
    ASSUME MediaInv, MarkReady \/ MarkFailed
    PROVE  MediaInv'
<1>1. PICK j \in Job :
        /\ worker.job = j
        /\ j \in Jobs
        /\ j.asset \in Fulls
        /\ j.source \in Sources
  BY WorkerAtWork DEF MarkReady, MarkFailed
<1>2. PICK a \in Fulls, s \in Sources : j.asset = a /\ j.source = s
  BY <1>1
<1>3. PICK m \in Sources \cup {None, Master} :
        m = IF worker.pc = "ready" THEN Master ELSE asset[a].manifest
  BY <1>2, FullsAreAssets DEF MediaInv, MediaTypeOK, MediaAsset
<1>4. PICK r \in MediaAsset :
        r = [status |-> IF worker.pc = "ready" THEN "READY" ELSE "FAILED",
             source |-> asset[a].source, manifest |-> m]
  <2> DEFINE n == [status |-> IF worker.pc = "ready" THEN "READY" ELSE "FAILED",
                   source |-> asset[a].source, manifest |-> m]
  <2>1. asset[a].source \in Sources \cup {None}
    BY <1>2, FullsAreAssets DEF MediaInv, MediaTypeOK, MediaAsset
  <2>2. n \in MediaAsset
    BY <2>1 DEF MediaAsset, Statuses
  <2> QED
    BY <2>2
<1>5. /\ asset' = [asset EXCEPT ![a] = r]
      /\ worker' = IdleWorker
      /\ UNCHANGED <<uploaded, hls, upload, disturbed, abandoned, queue, orphans, dropped, faults>>
  <2>1. CASE MarkReady
    <3>1. [asset EXCEPT ![a].status = "READY", ![a].manifest = Master] = [asset EXCEPT ![a] = r]
      <4>1. m = Master /\ r = [status |-> "READY", source |-> asset[a].source, manifest |-> m]
        BY <1>3, <1>4, <2>1 DEF MarkReady
      <4>2. a \in Assets
        BY FullsAreAssets
      <4> DEFINE n == [status |-> "READY", source |-> asset[a].source, manifest |-> m]
      <4>3. [asset EXCEPT ![a].status = "READY", ![a].manifest = m] = [asset EXCEPT ![a] = n]
        BY <4>2, RowSet, ZenonT(60)
      <4> QED
        BY <4>1, <4>3
    <3>2. asset' = [asset EXCEPT ![a].status = "READY", ![a].manifest = Master]
      BY <1>1, <1>2, <2>1 DEF MarkReady
    <3> QED
      BY <2>1, <3>1, <3>2 DEF MarkReady, admin
  <2>2. CASE MarkFailed
    <3>1. [asset EXCEPT ![a].status = "FAILED"] = [asset EXCEPT ![a] = r]
      BY <1>2, <1>3, <1>4, <2>2, RowSet, FullsAreAssets DEF MarkFailed
    <3>2. asset' = [asset EXCEPT ![a].status = "FAILED"]
      BY <1>1, <1>2, <2>2 DEF MarkFailed, FailedStatus
    <3> QED
      BY <2>2, <3>1, <3>2 DEF MarkFailed, admin
  <2> QED
    BY <2>1, <2>2
<1>6. /\ asset' \in [Assets -> MediaAsset]
      /\ asset'[a] = r
      /\ \A b \in Assets \ {a} : asset'[b] = asset[b]
  BY <1>2, <1>5, RowMoves, FullsAreAssets
<1>7. /\ JobsOf(a)' \subseteq JobsOf(a)
      /\ \A b : b # a => JobsOf(b)' = JobsOf(b) /\ Begun(b) \subseteq Begun(b)'
  BY <1>1, <1>2, <1>5, JobIsDone
<1>8. worker.pc = "ready" => s \in uploaded /\ \A o \in Objects(s) : hls[a][o] = s
  BY <1>1, <1>2 DEF MediaInv, WorkerIsSound, IdleWorker
<1>9. MediaTypeOK' /\ WorkerIsSound'
  BY <1>5, <1>6, IdleIsSound DEF MediaInv, MediaTypeOK
<1>10. UploadsHaveRows'
  <2>1. \A b \in Assets : asset'[b].source = asset[b].source
    BY <1>4, <1>6
  <2> QED
    BY <1>5, <2>1 DEF MediaInv, UploadsHaveRows
<1>11. ASSUME NEW b \in Assets
       PROVE  AssetIsSound(b)'
  <2>1. AssetIsSound(b)
    BY SoundAssets
  <2>2. CASE b = a
    <3>1. j \in JobsOf(b)
      BY <1>1, <1>2, <2>2 DEF JobsOf
    <3>2. b \notin disturbed => asset[b].source = s
      BY <1>2, <2>1, <2>2, <3>1 DEF AssetIsSound
    <3>3. asset'[b] = r /\ JobsOf(b)' \subseteq JobsOf(b)
      BY <1>6, <1>7, <2>2
    <3>4. CASE worker.pc = "ready"
      <4>1. IsOf(b, s)' /\ s \in uploaded'
        BY <1>5, <1>8, <2>2, <3>4 DEF IsOf
      <4>2. WasComplete(b)'
        BY <4>1 DEF WasComplete, IsOf
      <4>3. \A i \in 1..Renditions : Streams(b, i)'
        BY <4>1, ObjectsAreKeys DEF Streams, IsOf
      <4>4. asset'[b].manifest = Master /\ asset'[b].source = asset[b].source
        BY <1>3, <1>4, <2>2, <3>3, <3>4
      <4>5. asset'[b].status = "READY"
        BY <1>4, <3>3, <3>4
      <4> QED
        BY <1>5, <2>1, <2>2, <3>2, <3>3, <4>1, <4>2, <4>3, <4>4, <4>5 DEF AssetIsSound
    <3>5. CASE worker.pc # "ready"
      BY <1>4, <1>5, <2>1, <2>2, <3>3, <3>5 DEF AssetIsSound, Ready
    <3> QED
      BY <3>4, <3>5
  <2>3. CASE b # a
    BY <1>5, <1>6, <1>7, <2>1, <2>3, UntouchedIsSound
  <2> QED
    BY <2>2, <2>3
<1> QED
  BY <1>9, <1>10, <1>11, SoundAssetsNext

LEMMA JobThrowsKeeps ==
    ASSUME MediaInv, JobThrows
    PROVE  MediaInv'
<1>1. PICK j \in Job : worker.job = j /\ j \in Jobs /\ j.asset \in Fulls
  BY WorkerAtWork DEF JobThrows
<1>2. PICK a \in Fulls : j.asset = a
  BY <1>1
<1>3. /\ dropped' = dropped \cup {a}
      /\ worker' = IdleWorker
      /\ faults' = faults + 1
      /\ UNCHANGED <<asset, uploaded, hls, upload, disturbed, abandoned, queue, orphans>>
  BY <1>1, <1>2 DEF JobThrows, admin
<1>4. /\ JobsOf(a)' \subseteq JobsOf(a)
      /\ \A b : b # a => JobsOf(b)' = JobsOf(b) /\ Begun(b) \subseteq Begun(b)'
  BY <1>1, <1>2, <1>3, JobIsDone
<1>5. MediaTypeOK' /\ WorkerIsSound'
  BY <1>2, <1>3, IdleIsSound DEF MediaInv, MediaTypeOK
<1>6. ASSUME NEW b \in Assets
      PROVE  AssetIsSound(b)'
  <2>1. AssetIsSound(b)
    BY SoundAssets
  <2>2. CASE b = a
    <3>1. b \in dropped' /\ JobsOf(b)' \subseteq JobsOf(b)
      BY <1>3, <1>4, <2>2
    <3>2. (Ready(b)' <=> Ready(b)) /\ (WasComplete(b)' <=> WasComplete(b))
      BY <1>3 DEF Ready, WasComplete
    <3>3. \A t : IsOf(b, t)' <=> IsOf(b, t)
      BY <1>3 DEF IsOf
    <3> QED
      BY <1>3, <2>1, <3>1, <3>2, <3>3 DEF AssetIsSound
  <2>3. CASE b # a
    BY <1>3, <1>4, <2>1, <2>3, UntouchedIsSound
  <2> QED
    BY <2>2, <2>3
<1> QED
  BY <1>3, <1>5, <1>6, PagesStay, SoundAssetsNext

LEMMA RecoverStalledKeeps ==
    ASSUME MediaInv, NEW j \in orphans, RecoverStalled(j)
    PROVE  MediaInv'
<1>1. j \in Job /\ j \in Jobs /\ j.asset \in Fulls
  BY DEF MediaInv, MediaTypeOK, Job, Jobs
<1>2. PICK a \in Fulls : j.asset = a
  BY <1>1
<1>3. PICK k \in Job :
        k = [j EXCEPT !.stalled = 1] /\ k.asset = a /\ k.source = j.source
  <2> DEFINE n == [j EXCEPT !.stalled = 1]
  <2>1. n \in Job /\ n.asset = a /\ n.source = j.source
    BY <1>1, <1>2 DEF Job
  <2> QED
    BY <2>1
<1>4. /\ orphans' = orphans \ {j}
      /\ UNCHANGED <<asset, uploaded, hls, upload, disturbed, abandoned, worker, faults>>
  BY DEF RecoverStalled, admin
<1>5. UploadsHaveRows' /\ WorkerIsSound'
  BY <1>4, PagesStay DEF MediaInv, WorkerIsSound
<1>6. CASE j.stalled = 0
  <2>1. queue' = <<k>> \o queue /\ UNCHANGED dropped
    BY <1>3, <1>6 DEF RecoverStalled
  <2>2. queue' \in Seq(Job) /\ Waiting(queue)' = Waiting(queue) \cup {k}
    <3>1. queue \in Seq(Job)
      BY DEF MediaInv, MediaTypeOK
    <3>2. <<k>> \o queue \in Seq(Job) /\ Waiting(<<k>> \o queue) = Waiting(queue) \cup {k}
      BY <3>1, WaitingOfPush
    <3> QED
      BY <2>1, <3>2 DEF Waiting
  <2>3. Jobs' \subseteq Jobs \cup {k} /\ Jobs \subseteq Jobs' \cup {j} /\ k \in Jobs'
    <3>1. Jobs' = Waiting(queue)' \cup (orphans \ {j}) \cup ({worker.job} \ {None})
      BY <1>4 DEF Jobs, Waiting
    <3> QED
      BY <2>2, <3>1, JobsAre
  <2>4. MediaTypeOK'
    BY <1>4, <2>1, <2>2 DEF MediaInv, MediaTypeOK
  <2>5. ASSUME NEW b \in Assets
        PROVE  AssetIsSound(b)'
    <3>1. AssetIsSound(b)
      BY SoundAssets
    <3>2. CASE b = a
      <4>1. j \in JobsOf(b) /\ k \in JobsOf(b)'
        BY <1>1, <1>2, <1>3, <2>3, <3>2 DEF JobsOf
      <4>2. JobsOf(b)' \subseteq JobsOf(b) \cup {k}
        BY <2>3 DEF JobsOf
      <4>3. k \in Begun(b)' /\ k.source = j.source
        BY <1>1, <1>3, <4>1 DEF Begun, Job
      <4>4. \A i \in Begun(b) : \E n \in Begun(b)' : n.source = i.source
        <5> TAKE i \in Begun(b)
        <5>1. CASE i = j
          BY <4>3, <5>1
        <5>2. CASE i # j
          <6>1. i \in JobsOf(b)'
            BY <2>3, <5>2 DEF Begun, JobsOf
          <6> QED
            BY <1>4, <5>2, <6>1 DEF Begun
        <5> QED
          BY <5>1, <5>2
      <4>5. /\ Ready(b)' <=> Ready(b)
            /\ WasComplete(b)' <=> WasComplete(b)
            /\ \A r : Streams(b, r)' <=> Streams(b, r)
            /\ \A t : IsOf(b, t)' <=> IsOf(b, t)
        BY <1>4 DEF Ready, WasComplete, Streams, IsOf
      <4> QED
        BY <1>4, <2>1, <3>1, <4>1, <4>2, <4>3, <4>4, <4>5 DEF AssetIsSound, Quiet
    <3>3. CASE b # a
      <4>1. JobsOf(b)' = JobsOf(b) /\ j \notin JobsOf(b)
        BY <1>2, <1>3, <2>3, <3>3 DEF JobsOf
      <4>2. Begun(b) \subseteq Begun(b)'
        BY <1>4, <4>1, BegunGrows
      <4> QED
        BY <1>4, <2>1, <3>1, <4>1, <4>2, UntouchedIsSound
    <3> QED
      BY <3>2, <3>3
  <2> QED
    BY <1>5, <2>4, <2>5, SoundAssetsNext
<1>7. CASE j.stalled # 0
  <2>1. dropped' = dropped \cup {a} /\ UNCHANGED queue
    BY <1>2, <1>7 DEF RecoverStalled
  <2>2. Jobs' \subseteq Jobs /\ Jobs \subseteq Jobs' \cup {j}
    BY <1>4, <2>1 DEF Jobs
  <2>3. MediaTypeOK'
    BY <1>2, <1>4, <2>1 DEF MediaInv, MediaTypeOK
  <2>4. ASSUME NEW b \in Assets
        PROVE  AssetIsSound(b)'
    <3>1. AssetIsSound(b)
      BY SoundAssets
    <3>2. CASE b = a
      <4>1. b \in dropped' /\ JobsOf(b)' \subseteq JobsOf(b)
        BY <2>1, <2>2, <3>2 DEF JobsOf
      <4> QED
        BY <1>4, <3>1, <4>1 DEF AssetIsSound, Ready, WasComplete, IsOf
    <3>3. CASE b # a
      <4>1. JobsOf(b)' = JobsOf(b) /\ j \notin JobsOf(b)
        BY <1>2, <2>2, <3>3 DEF JobsOf
      <4>2. Begun(b) \subseteq Begun(b)'
        BY <1>4, <4>1, BegunGrows
      <4> QED
        BY <1>4, <2>1, <3>1, <4>1, <4>2, UntouchedIsSound
    <3> QED
      BY <3>2, <3>3
  <2> QED
    BY <1>5, <2>3, <2>4, SoundAssetsNext
<1> QED
  BY <1>6, <1>7

----------------------------------------------------------------------------
(* The pipeline as a whole.                                                *)

LEMMA MediaInitIsSound == MediaInit => MediaInv
<1> SUFFICES ASSUME MediaInit PROVE MediaInv
  OBVIOUS
<1>1. Jobs = {}
  <2>1. Waiting(queue) = {}
    <3>1. DOMAIN queue = {}
      BY DEF MediaInit
    <3> QED
      BY <3>1, Zenon DEF Waiting
  <2> QED
    BY <2>1, JobsAre DEF MediaInit, IdleWorker
<1>2. MediaTypeOK
  <2>1. /\ NoAsset \in MediaAsset
        /\ NoUpload \in Upload
        /\ IdleWorker \in Worker
        /\ <<>> \in Seq(Job)
    BY DEF NoAsset, MediaAsset, Statuses, NoUpload, Upload, IdleWorker, Worker
  <2> QED
    BY <2>1 DEF MediaInit, MediaTypeOK
<1>3. UploadsHaveRows /\ WorkerIsSound
  BY DEF MediaInit, UploadsHaveRows, WorkerIsSound
<1>4. \A a \in Assets : AssetIsSound(a)
  <2> TAKE a \in Assets
  <2>1. asset[a].status = "ABSENT" /\ a # None
    BY NoneAssumption DEF MediaInit, NoAsset
  <2>2. \A c \in Uploads : upload[c].asset = None
    BY DEF MediaInit, NoUpload
  <2> QED
    BY <1>1, <2>1, <2>2 DEF AssetIsSound, JobsOf, Ready
<1> QED
  BY <1>2, <1>3, <1>4, SoundAssets

LEMMA MediaNextKeeps ==
    ASSUME MediaInv, MediaNext
    PROVE  MediaInv'
<1>1. CASE \E c \in Uploads :
            \/ Put(c) \/ PutRefused(c)
            \/ CompleteRead(c) \/ CompletePend(c) \/ Enqueue(c) \/ FinishTrailer(c)
            \/ UploadFails(c)
  BY <1>1, PutKeeps, CompleteReadKeeps, CompletePendKeeps, EnqueueKeeps, FinishTrailerKeeps,
     UploadFailsKeeps
<1>2. CASE WorkerStep
  BY <1>2, TakeJobKeeps, DownloadKeeps, UploadFileKeeps, ThrowsKeeps, MarkKeeps DEF WorkerStep
<1>3. CASE DownloadHangs \/ ReadyThrows \/ JobThrows \/ WorkerDies
  BY <1>3, ThrowsKeeps, JobThrowsKeeps, WorkerDiesKeeps
<1>4. CASE \E j \in orphans : RecoverStalled(j)
  BY <1>4, RecoverStalledKeeps
<1> QED
  BY <1>1, <1>2, <1>3, <1>4 DEF MediaNext

LEMMA MediaStutters ==
    ASSUME MediaInv, UNCHANGED media
    PROVE  MediaInv'
<1>1. UNCHANGED <<asset, uploaded, hls, upload, disturbed, abandoned, queue, worker, orphans,
                  dropped, faults>>
  BY DEF media, admin, pipeline
<1>2. \A b : JobsOf(b)' = JobsOf(b) /\ Begun(b)' = Begun(b)
  BY <1>1, JobsStay DEF pipeline
<1>3. MediaTypeOK' /\ UploadsHaveRows' /\ WorkerIsSound'
  BY <1>1 DEF MediaInv, MediaTypeOK, UploadsHaveRows, WorkerIsSound
<1>4. ASSUME NEW b \in Assets
      PROVE  AssetIsSound(b)'
  BY <1>1, <1>2, SoundAssets, UntouchedIsSound
<1> QED
  BY <1>3, <1>4, SoundAssetsNext

(* No object of a video is ever taken out of the bucket.                   *)
LEMMA ObjectsStay ==
    ASSUME MediaInv,
           \/ MediaNext
           \/ \E c \in Uploads, a \in Assets, s \in Sources : Register(c, a, s)
           \/ UNCHANGED media,
           NEW b \in Fulls, NEW o \in Keys, hls[b][o] # None
    PROVE  hls'[b][o] # None
<1>1. CASE UNCHANGED hls
  BY <1>1
<1>2. CASE UploadFile
  <2>1. PICK j \in Job : worker.job = j /\ j.asset \in Fulls /\ j.source \in Sources
    BY <1>2, WorkerAtWork DEF UploadFile
  <2>2. PICK a \in Fulls, s \in Sources : j.asset = a /\ j.source = s
    BY <2>1
  <2>3. PICK k \in Keys : hls' = [hls EXCEPT ![a][k] = s]
    BY <1>2, <2>1, <2>2 DEF UploadFile, MediaInv, MediaTypeOK, Worker
  <2>4. hls'[b][o] = hls[b][o] \/ hls'[b][o] = s
    BY <2>3 DEF MediaInv, MediaTypeOK
  <2> QED
    BY <2>2, <2>4, NoneAssumption
<1>3. UNCHANGED hls \/ UploadFile
  BY DEF MediaNext, WorkerStep, Register, Put, PutRefused, CompleteRead, CompletePend, Enqueue,
     FinishTrailer, UploadFails, TakeJob, Download, TranscodeFails, MarkReady, MarkFailed,
     DownloadHangs, ReadyThrows, JobThrows, WorkerDies, RecoverStalled, media
<1> QED
  BY <1>1, <1>2, <1>3

============================================================================
