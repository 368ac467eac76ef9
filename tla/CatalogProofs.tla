---------------------------- MODULE CatalogProofs ---------------------------
(***************************************************************************)
(* The theorems about the catalog, for every number of titles, seasons,    *)
(* episodes, edits and visitors, over a pipeline of any size.              *)
(*                                                                         *)
(* A step is of the pipeline, of an edit, of a page or of the catalog's    *)
(* own rows; a lemma for each kind says what such a step has to show.      *)
(***************************************************************************)
EXTENDS Catalog, PipelineProofs

----------------------------------------------------------------------------
(* Videos.                                                                 *)

LEMMA FullsOfUnits ==
    ASSUME NEW u \in Units
    PROVE  <<u, "FULL">> \in Fulls
BY OwnersAssumption DEF Fulls

LEMMA EpisodesAreUnits == Episodes \subseteq Units /\ Movies \subseteq Units
BY DEF Units

LEMMA ReadyIsBacked ==
    ASSUME MediaInv, NEW u \in Units, FullReady(u)
    PROVE  Backed(u)
<1> DEFINE a == <<u, "FULL">>
<1>1. a \in Fulls /\ Ready(a)
  BY FullsOfUnits DEF FullReady
<1>2. PICK s \in uploaded : \A o \in Objects(s) : hls[a][o] \in uploaded
  BY <1>1 DEF MediaInv, ReadyIsComplete, WasComplete
<1>3. s \in Sources /\ None \notin uploaded
  BY NoneAssumption DEF MediaInv, MediaTypeOK
<1> QED
  BY <1>2, <1>3 DEF Backed

LEMMA BackedStays ==
    ASSUME MediaInv,
           \/ MediaNext
           \/ \E c \in Uploads, a \in Assets, s \in Sources : Register(c, a, s)
           \/ UNCHANGED media,
           NEW u \in Units, Backed(u)
    PROVE  Backed(u)'
<1> DEFINE b == <<u, "FULL">>
<1>1. b \in Fulls
  BY FullsOfUnits
<1>2. PICK s \in Sources : \A o \in Objects(s) : hls[b][o] # None
  BY DEF Backed
<1>3. Objects(s) \subseteq Keys
  BY ObjectsAreKeys
<1> HIDE DEF b
<1>4. \A o \in Objects(s) : hls'[b][o] # None
  BY <1>1, <1>2, <1>3, ObjectsStay
<1> QED
  BY <1>4 DEF Backed, b

----------------------------------------------------------------------------
(* Edits.                                                                  *)

LEMMA JustifiedByRecord ==
    ASSUME NEW c, NEW k, edit'[c] = k, EditIsJustified(k)'
    PROVE  EditIsJustified(edit[c])'
BY DEF EditIsJustified, OwnerExists, EpisodesOf, Backed

(* The step leaves each edit as it is, ends it, or overtakes it.           *)
EditsGoOn ==
    /\ edit' \in [Edits -> Edit]
    /\ \A c \in Edits :
        \/ edit'[c] \in {edit[c], NoEdit}
        \/ edit[c].pc # "idle" /\ edit'[c] = [edit[c] EXCEPT !.touched = TRUE]

LEMMA EditsUnchanged ==
    ASSUME TypeOK, UNCHANGED edit
    PROVE  EditsGoOn
BY DEF TypeOK, EditsGoOn

LEMMA TouchGoesOn ==
    ASSUME TypeOK, NEW xs, NEW pcs, "idle" \notin pcs, Touch(xs, pcs)
    PROVE  EditsGoOn
<1>1. ASSUME NEW c \in Edits
      PROVE  /\ edit'[c] \in Edit
             /\ \/ edit'[c] \in {edit[c], NoEdit}
                \/ edit[c].pc # "idle" /\ edit'[c] = [edit[c] EXCEPT !.touched = TRUE]
  <2>1. edit[c] \in Edit
    BY DEF TypeOK
  <2>2. PICK b \in BOOLEAN : b = (edit[c].what \in xs /\ edit[c].pc \in pcs)
    OBVIOUS
  <2>3. edit'[c] = [edit[c] EXCEPT !.touched = @ \/ b]
    BY <2>2 DEF Touch
  <2>4. CASE b
    BY <2>1, <2>2, <2>3, <2>4 DEF Edit
  <2>5. CASE ~b
    BY <2>1, <2>3, <2>5 DEF Edit
  <2> QED
    BY <2>4, <2>5
<1>2. edit' \in [Edits -> Edit]
  BY <1>1 DEF Touch
<1> QED
  BY <1>1, <1>2 DEF EditsGoOn

LEMMA NoEditIsFine == NoEdit \in Edit /\ EditIsJustified(NoEdit)
BY DEF NoEdit, Edit, EditIsJustified

(* What an edit has seen does not depend on its being overtaken.           *)
LEMMA GoneOnIsJustified ==
    ASSUME TypeOK, EditsAreJustified, EditsGoOn, NEW c \in Edits
    PROVE  EditIsJustified(edit'[c])
<1>1. edit[c] \in Edit /\ EditIsJustified(edit[c])
  BY DEF TypeOK, EditsAreJustified
<1>2. CASE edit'[c] \in {edit[c], NoEdit}
  BY <1>1, <1>2, NoEditIsFine
<1>3. CASE edit[c].pc # "idle" /\ edit'[c] = [edit[c] EXCEPT !.touched = TRUE]
  <2>1. PICK k \in Edit : k = edit[c]
    BY <1>1
  <2>2. PICK m : m = [k EXCEPT !.touched = TRUE]
    OBVIOUS
  <2>3. m.pc = k.pc /\ m.what = k.what /\ m.left = k.left
    BY <2>2 DEF Edit
  <2>4. k # NoEdit /\ EditIsJustified(k)
    BY <1>1, <1>3, <2>1 DEF NoEdit
  <2>5. EditIsJustified(m)
    BY <2>3, <2>4 DEF EditIsJustified
  <2> QED
    BY <1>3, <2>1, <2>2, <2>5
<1> QED
  BY <1>2, <1>3 DEF EditsGoOn

(* What an edit has seen is not lost by the steps of others.               *)
LEMMA StaysJustified ==
    ASSUME NEW k, EditIsJustified(k),
           \A x \in Titles \cup Episodes : OwnerExists(x) => OwnerExists(x)',
           \A u \in Units : Backed(u) => Backed(u)',
           \A t \in Series : EpisodesOf(t) \subseteq EpisodesOf(t)'
    PROVE  EditIsJustified(k)'
<1>1. CASE k = NoEdit
  BY <1>1 DEF EditIsJustified
<1>2. CASE k # NoEdit /\ k.what \in Units /\ k.left = {} /\ k.pc \in {"check", "update"}
           /\ OwnerExists(k.what) /\ (k.pc = "update" => Backed(k.what))
  BY <1>2, Zenon DEF EditIsJustified, Units, Titles
<1>3. CASE /\ k.pc # "idle"
           /\ k.what \in Series
           /\ OwnerExists(k.what)
           /\ k.left \subseteq EpisodesOf(k.what)
           /\ k.pc = "update" => \E e \in EpisodesOf(k.what) : Backed(e)
  <2>1. OwnerExists(k.what)' /\ k.left \subseteq EpisodesOf(k.what)'
    BY <1>3 DEF Titles
  <2>2. k.pc = "update" => \E e \in EpisodesOf(k.what)' : Backed(e)'
    <3>1. EpisodesOf(k.what) \subseteq Units
      BY DEF EpisodesOf, Units
    <3> QED
      BY <1>3, <3>1
  <2> QED
    BY <1>3, <2>1, <2>2 DEF EditIsJustified
<1> QED
  BY <1>1, <1>2, <1>3 DEF EditIsJustified

(* The catalog's rows, when a step leaves them alone.                      *)
LEMMA RowsStay ==
    ASSUME UNCHANGED catalog
    PROVE  /\ \A t : EpisodesOf(t)' = EpisodesOf(t)
           /\ \A x : OwnerExists(x) => OwnerExists(x)'
           /\ EpisodesAreFiled => EpisodesAreFiled'
BY DEF catalog, EpisodesOf, OwnerExists, EpisodesAreFiled, EpisodeIsFiled

LEMMA BackedRows ==
    ASSUME UNCHANGED catalog, PublishedIsBacked,
           \A u \in Units : Backed(u) => Backed(u)'
    PROVE  PublishedIsBacked'
<1>1. \A t : EpisodesOf(t)' = EpisodesOf(t) /\ EpisodesOf(t) \subseteq Units
  BY RowsStay DEF EpisodesOf, Units
<1>2. \A u \in Units :
        (IF u \in Movies THEN title'[u] ELSE episode'[u].state) = "published" => Backed(u)'
  BY DEF catalog, PublishedIsBacked
<1>3. \A t \in Series : title'[t] = "published" => \E e \in EpisodesOf(t)' : Backed(e)'
  BY <1>1 DEF catalog, PublishedIsBacked
<1> QED
  BY <1>2, <1>3 DEF PublishedIsBacked

LEMMA OffersStay ==
    ASSUME UNCHANGED page, TypeOK, PagesAreOfUnits, OfferIsBacked,
           \A u \in Units : Backed(u) => Backed(u)'
    PROVE  PagesAreOfUnits' /\ OfferIsBacked'
<1>1. PagesAreOfUnits'
  BY DEF PagesAreOfUnits
<1>2. ASSUME NEW v \in Visitors, page[v].full
      PROVE  Backed(page[v].unit)'
  <2>1. PICK u \in Units : page[v].unit = u
    BY <1>2 DEF PagesAreOfUnits, NoPage
  <2>2. Backed(u)
    BY <1>2, <2>1 DEF OfferIsBacked
  <2>3. Backed(u)'
    BY <2>2
  <2> QED
    BY <2>1, <2>3 DEF Backed
<1> QED
  BY <1>1, <1>2 DEF OfferIsBacked

----------------------------------------------------------------------------
(* A step of the pipeline.                                                 *)

LEMMA PipelineStepKeeps ==
    ASSUME IInv, MediaInv',
           \A u \in Units : Backed(u) => Backed(u)',
           UNCHANGED <<catalog, page>>, EditsGoOn
    PROVE  IInv'
<1>1. TypeOK'
  BY DEF IInv, TypeOK, MediaInv, catalog, EditsGoOn
<1>2. EditsAreJustified'
  <2> SUFFICES ASSUME NEW c \in Edits
               PROVE  EditIsJustified(edit[c])'
    BY DEF EditsAreJustified
  <2>1. PICK k : k = edit'[c]
    OBVIOUS
  <2>2. EditIsJustified(k)
    BY <2>1, GoneOnIsJustified DEF IInv
  <2>3. EditIsJustified(k)'
    BY <2>2, RowsStay, StaysJustified DEF catalog
  <2> QED
    BY <2>1, <2>3, JustifiedByRecord
<1>3. EpisodesAreFiled'
  BY RowsStay DEF IInv
<1>4. PublishedIsBacked'
  BY BackedRows DEF IInv
<1>5. PagesAreOfUnits' /\ OfferIsBacked'
  BY OffersStay DEF IInv
<1> QED
  BY <1>1, <1>2, <1>3, <1>4, <1>5 DEF IInv

LEMMA RegisterMediaAssetKeeps ==
    ASSUME IInv, NEW c \in Uploads, NEW a \in Assets, NEW s \in Sources,
           RegisterMediaAsset(c, a, s)
    PROVE  IInv'
<1>1. /\ Register(c, a, s)
      /\ UNCHANGED <<catalog, page>>
      /\ EditsGoOn
  BY TouchGoesOn DEF RegisterMediaAsset, IInv
<1>2. MediaInv' /\ \A u \in Units : Backed(u) => Backed(u)'
  BY <1>1, RegisterKeeps, BackedStays DEF IInv
<1> QED
  BY <1>1, <1>2, PipelineStepKeeps

LEMMA MediaNextKeepsCatalog ==
    ASSUME IInv, MediaNext, UNCHANGED <<catalog, edit, page>>
    PROVE  IInv'
<1>1. MediaInv' /\ \A u \in Units : Backed(u) => Backed(u)'
  BY MediaNextKeeps, BackedStays DEF IInv
<1> QED
  BY <1>1, EditsUnchanged, PipelineStepKeeps DEF IInv

LEMMA CatalogStutters ==
    ASSUME IInv, UNCHANGED vars
    PROVE  IInv'
<1>1. UNCHANGED media /\ UNCHANGED <<catalog, edit, page>>
  BY DEF vars
<1>2. MediaInv' /\ \A u \in Units : Backed(u) => Backed(u)'
  BY <1>1, MediaStutters, BackedStays DEF IInv
<1> QED
  BY <1>1, <1>2, EditsUnchanged, PipelineStepKeeps DEF IInv

----------------------------------------------------------------------------
(* A step of an edit or a page that leaves the rows alone.                 *)

LEMMA EditStepKeeps ==
    ASSUME IInv, NEW c \in Edits, NEW k \in Edit,
           edit' = [edit EXCEPT ![c] = k],
           UNCHANGED <<media, catalog, page>>,
           EditIsJustified(k)
    PROVE  IInv'
<1>1. MediaInv' /\ \A u \in Units : Backed(u) => Backed(u)'
  BY MediaStutters, BackedStays DEF IInv
<1>2. TypeOK'
  BY <1>1 DEF IInv, TypeOK, MediaInv, catalog
<1>3. EditsAreJustified'
  <2> SUFFICES ASSUME NEW d \in Edits
               PROVE  EditIsJustified(edit[d])'
    BY DEF EditsAreJustified
  <2>1. PICK m : m = edit'[d]
    OBVIOUS
  <2>2. m = k \/ m = edit[d]
    BY <2>1 DEF IInv, TypeOK
  <2>3. EditIsJustified(m)
    BY <2>2 DEF IInv, EditsAreJustified
  <2>4. EditIsJustified(m)'
    BY <1>1, <2>3, RowsStay, StaysJustified DEF catalog
  <2> QED
    BY <2>1, <2>4, JustifiedByRecord
<1>4. EpisodesAreFiled'
  BY RowsStay DEF IInv
<1>5. PublishedIsBacked'
  BY <1>1, BackedRows DEF IInv
<1>6. PagesAreOfUnits' /\ OfferIsBacked'
  BY <1>1, OffersStay DEF IInv
<1> QED
  BY <1>1, <1>2, <1>3, <1>4, <1>5, <1>6 DEF IInv

LEMMA PageStepKeeps ==
    ASSUME IInv, NEW v \in Visitors, NEW q \in Page,
           page' = [page EXCEPT ![v] = q],
           UNCHANGED <<media, catalog, edit>>,
           q = NoPage \/ q.unit \in Units,
           q.full => Backed(q.unit)
    PROVE  IInv'
<1>1. MediaInv' /\ \A u \in Units : Backed(u) => Backed(u)'
  BY MediaStutters, BackedStays DEF IInv
<1>2. TypeOK'
  BY <1>1 DEF IInv, TypeOK, MediaInv, catalog
<1>3. EditsAreJustified'
  <2> SUFFICES ASSUME NEW d \in Edits
               PROVE  EditIsJustified(edit[d])'
    BY DEF EditsAreJustified
  <2>1. PICK m : m = edit[d]
    OBVIOUS
  <2>2. EditIsJustified(m)
    BY <2>1 DEF IInv, EditsAreJustified
  <2>3. EditIsJustified(m)'
    BY <1>1, <2>2, RowsStay, StaysJustified DEF catalog
  <2> QED
    BY <2>1, <2>3, JustifiedByRecord
<1>4. EpisodesAreFiled'
  BY RowsStay DEF IInv
<1>5. PublishedIsBacked'
  BY <1>1, BackedRows DEF IInv
<1>6. \A w \in Visitors : page'[w] = q \/ page'[w] = page[w]
  BY DEF IInv, TypeOK
<1>7. PagesAreOfUnits'
  BY <1>6 DEF PagesAreOfUnits, IInv
<1>8. OfferIsBacked'
  <2> SUFFICES ASSUME NEW w \in Visitors, page'[w].full
               PROVE  Backed(page[w].unit)'
    BY DEF OfferIsBacked
  <2>1. PICK u \in Units : page'[w].unit = u
    BY <1>7 DEF PagesAreOfUnits, NoPage
  <2>2. Backed(u)
    BY <1>6, <2>1 DEF IInv, OfferIsBacked
  <2>3. Backed(u)'
    BY <1>1, <2>2
  <2> QED
    BY <2>1, <2>3 DEF Backed
<1> QED
  BY <1>1, <1>2, <1>3, <1>4, <1>5, <1>7, <1>8 DEF IInv

(* Where an edit in flight is.                                             *)
LEMMA EditInFlight ==
    ASSUME IInv, NEW c \in Edits
    PROVE  edit[c] \in Edit /\ EditIsJustified(edit[c])
BY DEF IInv, TypeOK, EditsAreJustified

LEMMA SeriesAreNoUnits ==
    /\ Series \cap Units = {}
    /\ Titles \cup Episodes = Series \cup Units
BY OwnersAssumption DEF Titles, Units

LEMMA BeginPublishKeeps ==
    ASSUME IInv, NEW c \in Edits, NEW x \in Titles \cup Episodes, BeginPublish(c, x)
    PROVE  IInv'
<1> DEFINE k == [NoEdit EXCEPT !.pc = IF x \in Series THEN "list" ELSE "check", !.what = x]
<1>1. /\ k \in Edit
      /\ k.pc = IF x \in Series THEN "list" ELSE "check"
      /\ k.what = x
      /\ k.left = {}
  BY NoEditIsFine DEF Edit, NoEdit
<1> HIDE DEF k
<1>2. EditIsJustified(k)
  BY <1>1, SeriesAreNoUnits DEF BeginPublish, EditIsJustified
<1> USE DEF k
<1>3. edit' = [edit EXCEPT ![c] = k] /\ UNCHANGED <<media, catalog, page>>
  BY DEF BeginPublish, SetEdit
<1> QED
  BY <1>1, <1>2, <1>3, EditStepKeeps

LEMMA ListEpisodesKeeps ==
    ASSUME IInv, NEW c \in Edits, ListEpisodes(c)
    PROVE  IInv'
<1>1. PICK m \in Edit : m = edit[c] /\ EditIsJustified(m)
  BY EditInFlight
<1>2. m.pc = "list" /\ m # NoEdit
  BY <1>1 DEF ListEpisodes, NoEdit
<1>3. /\ m.what \in Series
      /\ OwnerExists(m.what)
  BY <1>1, <1>2 DEF EditIsJustified
<1>4. PICK found : found = PublishedEpisodesOf(m.what)
  OBVIOUS
<1>5. found \subseteq EpisodesOf(m.what) /\ found \subseteq Episodes
  BY <1>4 DEF PublishedEpisodesOf, EpisodesOf
<1>6. PICK k \in Edit :
        /\ k = IF found = {} THEN NoEdit ELSE [m EXCEPT !.pc = "check", !.left = found]
        /\ EditIsJustified(k)
  <2> DEFINE k == [m EXCEPT !.pc = "check", !.left = found]
  <2>1. CASE found = {}
    BY <2>1, NoEditIsFine
  <2>2. CASE found # {}
    <3>1. k \in Edit /\ k.pc = "check" /\ k.what = m.what /\ k.left = found
      BY <1>5 DEF Edit
    <3>2. EditIsJustified(k)
      BY <1>3, <1>4, <1>5, <2>2, <3>1 DEF EditIsJustified
    <3> QED
      BY <2>2, <3>1, <3>2
  <2> QED
    BY <2>1, <2>2
<1>7. edit' = [edit EXCEPT ![c] = k] /\ UNCHANGED <<media, catalog, page>>
  BY <1>1, <1>4, <1>6 DEF ListEpisodes, SetEdit
<1> QED
  BY <1>6, <1>7, EditStepKeeps

LEMMA CheckUnitKeeps ==
    ASSUME IInv, NEW c \in Edits, CheckUnit(c)
    PROVE  IInv'
<1>1. PICK m \in Edit : m = edit[c] /\ EditIsJustified(m)
  BY EditInFlight
<1>2. m.pc = "check" /\ m.what \in Units /\ m # NoEdit
  BY <1>1 DEF CheckUnit, NoEdit
<1>3. OwnerExists(m.what) /\ m.left = {}
  BY <1>1, <1>2, SeriesAreNoUnits DEF EditIsJustified
<1>4. PICK k \in Edit :
        /\ k = IF FullReady(m.what) THEN [m EXCEPT !.pc = "update"] ELSE NoEdit
        /\ EditIsJustified(k)
  <2> DEFINE k == [m EXCEPT !.pc = "update"]
  <2>1. CASE ~FullReady(m.what)
    BY <2>1, NoEditIsFine
  <2>2. CASE FullReady(m.what)
    <3>1. k \in Edit /\ k.pc = "update" /\ k.what = m.what /\ k.left = {}
      BY <1>3 DEF Edit
    <3>2. Backed(m.what)
      BY <1>2, <2>2, ReadyIsBacked DEF IInv
    <3>3. EditIsJustified(k)
      BY <1>2, <1>3, <3>1, <3>2 DEF EditIsJustified
    <3> QED
      BY <2>2, <3>1, <3>3
  <2> QED
    BY <2>1, <2>2
<1>5. edit' = [edit EXCEPT ![c] = k] /\ UNCHANGED <<media, catalog, page>>
  BY <1>1, <1>4 DEF CheckUnit, SetEdit
<1> QED
  BY <1>4, <1>5, EditStepKeeps

LEMMA CheckListedKeeps ==
    ASSUME IInv, NEW c \in Edits, NEW e \in Episodes, CheckListed(c, e)
    PROVE  IInv'
<1>1. PICK m \in Edit : m = edit[c] /\ EditIsJustified(m)
  BY EditInFlight
<1>2. m.pc = "check" /\ e \in m.left
  BY <1>1 DEF CheckListed
<1>3. /\ m.what \in Series
      /\ OwnerExists(m.what)
      /\ m.left \subseteq EpisodesOf(m.what)
  BY <1>1, <1>2 DEF EditIsJustified, NoEdit
<1>4. PICK rest : rest = m.left \ {e}
  OBVIOUS
<1>5. PICK k \in Edit :
        /\ k = IF FullReady(e) THEN [m EXCEPT !.pc = "update", !.left = {}]
               ELSE IF rest = {} THEN NoEdit
               ELSE [m EXCEPT !.left = rest]
        /\ EditIsJustified(k)
  <2>1. CASE FullReady(e)
    <3> DEFINE k == [m EXCEPT !.pc = "update", !.left = {}]
    <3>1. k \in Edit /\ k.pc = "update" /\ k.what = m.what /\ k.left = {}
      BY DEF Edit
    <3>2. Backed(e) /\ e \in EpisodesOf(m.what)
      BY <1>2, <1>3, <2>1, EpisodesAreUnits, ReadyIsBacked DEF IInv
    <3>3. EditIsJustified(k)
      BY <1>3, <3>1, <3>2 DEF EditIsJustified
    <3> QED
      BY <2>1, <3>1, <3>3
  <2>2. CASE ~FullReady(e) /\ rest = {}
    BY <2>2, NoEditIsFine
  <2>3. CASE ~FullReady(e) /\ rest # {}
    <3> DEFINE k == [m EXCEPT !.left = rest]
    <3>1. k \in Edit /\ k.pc = "check" /\ k.what = m.what /\ k.left = rest
      BY <1>2, <1>4 DEF Edit
    <3>2. EditIsJustified(k)
      BY <1>3, <1>4, <3>1 DEF EditIsJustified
    <3> QED
      BY <2>3, <3>1, <3>2
  <2> QED
    BY <2>1, <2>2, <2>3
<1>6. edit' = [edit EXCEPT ![c] = k] /\ UNCHANGED <<media, catalog, page>>
  BY <1>1, <1>4, <1>5 DEF CheckListed, SetEdit
<1> QED
  BY <1>5, <1>6, EditStepKeeps

----------------------------------------------------------------------------
(* The title page.                                                         *)

LEMMA PageInUse ==
    ASSUME IInv, NEW v \in Visitors, page[v].pc # "closed"
    PROVE  /\ page[v] \in Page
           /\ page[v].unit \in Units
           /\ page[v].full => Backed(page[v].unit)
BY DEF IInv, TypeOK, PagesAreOfUnits, OfferIsBacked, NoPage

LEMMA OpenPageKeeps ==
    ASSUME IInv, NEW v \in Visitors, NEW u \in Units, OpenPage(v, u)
    PROVE  IInv'
<1> DEFINE q == [NoPage EXCEPT !.pc = "trailer", !.unit = u]
<1>1. q \in Page /\ q.unit \in Units /\ q.full = FALSE
  BY DEF NoPage, Page, Kinds
<1>2. page' = [page EXCEPT ![v] = q] /\ UNCHANGED <<media, catalog, edit>>
  BY DEF OpenPage
<1> QED
  BY <1>1, <1>2, PageStepKeeps

LEMMA ReadFullKeeps ==
    ASSUME IInv, NEW v \in Visitors, ReadFull(v)
    PROVE  IInv'
<1>1. page[v] \in Page /\ page[v].unit \in Units
  BY PageInUse DEF ReadFull
<1>2. PICK u \in Units : u = page[v].unit
  BY <1>1
<1>3. PICK b \in BOOLEAN : b = FullReady(u)
  BY DEF FullReady, Ready
<1> DEFINE q == [page[v] EXCEPT !.pc = "shown", !.full = b]
<1>4. q \in Page /\ q.unit = u /\ q.full = b
  BY <1>1, <1>2 DEF Page
<1>5. b => Backed(u)
  BY <1>3, ReadyIsBacked DEF IInv
<1>6. page' = [page EXCEPT ![v] = q] /\ UNCHANGED <<media, catalog, edit>>
  BY <1>2, <1>3 DEF ReadFull, IInv, TypeOK
<1> QED
  BY <1>4, <1>5, <1>6, PageStepKeeps

(* The steps that leave what the page offers as it is.                     *)
LEMMA OfferStaysKeeps ==
    ASSUME IInv, NEW v \in Visitors,
           ReadTrailer(v) \/ AskTrailer(v) \/ AskFull(v) \/ GetUrl(v)
    PROVE  IInv'
<1>1. /\ page[v] \in Page
      /\ page[v].unit \in Units
      /\ page[v].full => Backed(page[v].unit)
  BY PageInUse DEF ReadTrailer, AskTrailer, AskFull, GetUrl
<1>2. PICK q \in Page :
        /\ q.unit = page[v].unit
        /\ q.full = page[v].full
        /\ page' = [page EXCEPT ![v] = q]
  <2>1. CASE ReadTrailer(v)
    <3>1. PICK t \in {"none", "unready", "ready"} :
            t = IF asset[<<page[v].unit, "TRAILER">>] = NoAsset THEN "none"
                ELSE IF Ready(<<page[v].unit, "TRAILER">>) THEN "ready" ELSE "unready"
      OBVIOUS
    <3> DEFINE q == [page[v] EXCEPT !.pc = "full", !.trailer = t]
    <3>2. q \in Page /\ q.unit = page[v].unit /\ q.full = page[v].full
      BY <1>1 DEF Page
    <3>3. page' = [page EXCEPT ![v] = q]
      BY <2>1, <3>1 DEF ReadTrailer, IInv, TypeOK
    <3> QED
      BY <3>2, <3>3
  <2>2. ASSUME NEW kind \in Kinds,
               page' = [page EXCEPT ![v].pc = "asked", ![v].asked = kind]
        PROVE  \E q \in Page : /\ q.unit = page[v].unit
                               /\ q.full = page[v].full
                               /\ page' = [page EXCEPT ![v] = q]
    <3> DEFINE q == [page[v] EXCEPT !.pc = "asked", !.asked = kind]
    <3>1. q \in Page /\ q.unit = page[v].unit /\ q.full = page[v].full
      BY <1>1 DEF Page
    <3>2. page' = [page EXCEPT ![v] = q]
      BY <2>2 DEF IInv, TypeOK
    <3> QED
      BY <3>1, <3>2
  <2>3. CASE AskTrailer(v) \/ AskFull(v)
    BY <2>2, <2>3 DEF AskTrailer, AskFull, Kinds
  <2>4. CASE GetUrl(v)
    <3>1. PICK answer \in {"url", "refused"} :
            answer = IF Playable(AssetAsked(v), page[v].asked) THEN "url" ELSE "refused"
      OBVIOUS
    <3> DEFINE q == [page[v] EXCEPT !.pc = answer]
    <3>2. q \in Page /\ q.unit = page[v].unit /\ q.full = page[v].full
      BY <1>1 DEF Page
    <3>3. page' = [page EXCEPT ![v] = q]
      BY <2>4, <3>1 DEF GetUrl, IInv, TypeOK
    <3> QED
      BY <3>2, <3>3
  <2> QED
    BY <2>1, <2>3, <2>4
<1>3. UNCHANGED <<media, catalog, edit>>
  BY DEF ReadTrailer, AskTrailer, AskFull, GetUrl
<1> QED
  BY <1>1, <1>2, <1>3, PageStepKeeps

LEMMA ClosePageKeeps ==
    ASSUME IInv, NEW v \in Visitors, ClosePage(v)
    PROVE  IInv'
<1>1. NoPage \in Page /\ NoPage.full = FALSE
  BY DEF NoPage, Page, Kinds
<1> QED
  BY <1>1, PageStepKeeps DEF ClosePage

----------------------------------------------------------------------------
(* A step that changes the catalog's rows.                                 *)

LEMMA RowStepKeeps ==
    ASSUME IInv,
           UNCHANGED <<media, page>>,
           TypeOK', EpisodesAreFiled', PublishedIsBacked',
           EditsGoOn,
           \A x \in Titles \cup Episodes : OwnerExists(x) => OwnerExists(x)',
           \A t \in Series : EpisodesOf(t) \subseteq EpisodesOf(t)'
    PROVE  IInv'
<1>1. MediaInv' /\ \A u \in Units : Backed(u) => Backed(u)'
  BY MediaStutters, BackedStays DEF IInv
<1>2. EditsAreJustified'
  <2> SUFFICES ASSUME NEW c \in Edits
               PROVE  EditIsJustified(edit[c])'
    BY DEF EditsAreJustified
  <2>1. PICK k : k = edit'[c]
    OBVIOUS
  <2>2. EditIsJustified(k)
    BY <2>1, GoneOnIsJustified DEF IInv
  <2>3. EditIsJustified(k)'
    BY <1>1, <2>2, StaysJustified
  <2> QED
    BY <2>1, <2>3, JustifiedByRecord
<1>3. PagesAreOfUnits' /\ OfferIsBacked'
  BY <1>1, OffersStay DEF IInv
<1> QED
  BY <1>1, <1>2, <1>3 DEF IInv

LEMMA CreateTitleKeeps ==
    ASSUME IInv, NEW t \in Titles, CreateTitle(t)
    PROVE  IInv'
<1>1. /\ title[t] = "absent"
      /\ title' = [title EXCEPT ![t] = "draft"]
      /\ UNCHANGED <<media, season, episode, edit, page>>
  BY DEF CreateTitle
<1>2. /\ title' \in [Titles -> Visibility]
      /\ title'[t] = "draft"
      /\ \A x \in Titles \ {t} : title'[x] = title[x]
  BY <1>1 DEF IInv, TypeOK, Visibility
<1>3. MediaInv' /\ \A u \in Units : Backed(u) => Backed(u)'
  BY <1>1, MediaStutters, BackedStays DEF IInv
<1>4. TypeOK'
  BY <1>1, <1>2, <1>3 DEF IInv, TypeOK, MediaInv
<1>5. EpisodesAreFiled'
  BY <1>1 DEF IInv, EpisodesAreFiled, EpisodeIsFiled
<1>6. \A x : EpisodesOf(x)' = EpisodesOf(x)
  BY <1>1 DEF EpisodesOf
<1>7. \A x \in Titles \cup Episodes : OwnerExists(x) => OwnerExists(x)'
  BY <1>1, <1>2 DEF OwnerExists
<1>8. \A x \in Titles : title'[x] = "published" => title[x] = "published"
  BY <1>2
<1>9. PublishedIsBacked'
  <2>1. ASSUME NEW u \in Units,
               (IF u \in Movies THEN title'[u] ELSE episode'[u].state) = "published"
        PROVE  Backed(u)'
    <3>1. (IF u \in Movies THEN title[u] ELSE episode[u].state) = "published"
      BY <1>1, <1>8, <2>1 DEF Titles
    <3> QED
      BY <1>3, <3>1 DEF IInv, PublishedIsBacked
  <2>2. ASSUME NEW x \in Series, title'[x] = "published"
        PROVE  \E e \in EpisodesOf(x)' : Backed(e)'
    <3>1. title[x] = "published" /\ EpisodesOf(x) \subseteq Units
      BY <1>8, <2>2 DEF Titles, Units, EpisodesOf
    <3> QED
      BY <1>3, <1>6, <3>1 DEF IInv, PublishedIsBacked
  <2> QED
    BY <2>1, <2>2 DEF PublishedIsBacked
<1> QED
  BY <1>1, <1>4, <1>5, <1>6, <1>7, <1>9, EditsUnchanged, RowStepKeeps DEF IInv

(* No episode is in the season yet, so no series gains or loses one.       *)
LEMMA CreateSeasonKeeps ==
    ASSUME IInv, NEW n \in Seasons, NEW t \in Titles, CreateSeason(n, t)
    PROVE  IInv'
<1>1. /\ season[n] = None
      /\ t \in Series
      /\ season' = [season EXCEPT ![n] = t]
      /\ UNCHANGED <<media, title, episode, edit, page>>
  BY DEF CreateSeason
<1>2. /\ season' \in [Seasons -> Series \cup {None}]
      /\ \A m \in Seasons : season[m] \in Series => season'[m] = season[m]
  BY <1>1, OwnersAssumption DEF IInv, TypeOK, Titles
<1>3. MediaInv' /\ \A u \in Units : Backed(u) => Backed(u)'
  BY <1>1, MediaStutters, BackedStays DEF IInv
<1>4. TypeOK'
  BY <1>1, <1>2, <1>3 DEF IInv, TypeOK, MediaInv
<1>5. EpisodesAreFiled'
  BY <1>1, <1>2 DEF IInv, EpisodesAreFiled, EpisodeIsFiled
<1>6. \A e \in Episodes : episode[e].state # "absent" =>
            season'[episode[e].season] = season[episode[e].season]
  BY <1>2 DEF IInv, EpisodesAreFiled, EpisodeIsFiled
<1>7. \A x : EpisodesOf(x)' = EpisodesOf(x)
  BY <1>1, <1>6 DEF EpisodesOf
<1>8. \A x \in Titles \cup Episodes : OwnerExists(x) => OwnerExists(x)'
  BY <1>1 DEF OwnerExists
<1>9. PublishedIsBacked'
  <2>1. \A u \in Units :
          (IF u \in Movies THEN title'[u] ELSE episode'[u].state) = "published" => Backed(u)'
    BY <1>1, <1>3 DEF IInv, PublishedIsBacked
  <2>2. ASSUME NEW x \in Series, title'[x] = "published"
        PROVE  \E e \in EpisodesOf(x)' : Backed(e)'
    <3>1. EpisodesOf(x) \subseteq Units
      BY DEF Units, EpisodesOf
    <3> QED
      BY <1>1, <1>3, <1>7, <2>2, <3>1 DEF IInv, PublishedIsBacked
  <2> QED
    BY <2>1, <2>2 DEF PublishedIsBacked
<1> QED
  BY <1>1, <1>4, <1>5, <1>7, <1>8, <1>9, EditsUnchanged, RowStepKeeps DEF IInv

LEMMA CreateEpisodeKeeps ==
    ASSUME IInv, NEW e \in Episodes, NEW n \in Seasons, CreateEpisode(e, n)
    PROVE  IInv'
<1>1. /\ episode[e].state = "absent"
      /\ season[n] # None
      /\ episode' = [episode EXCEPT ![e] = [season |-> n, state |-> "draft"]]
      /\ UNCHANGED <<media, title, season, edit, page>>
  BY DEF CreateEpisode, NoEpisode
<1>2. /\ episode' \in [Episodes -> Episode]
      /\ episode'[e].season = n
      /\ episode'[e].state = "draft"
      /\ \A d \in Episodes \ {e} : episode'[d] = episode[d]
  BY <1>1 DEF IInv, TypeOK, Episode, Visibility
<1>3. MediaInv' /\ \A u \in Units : Backed(u) => Backed(u)'
  BY <1>1, MediaStutters, BackedStays DEF IInv
<1>4. TypeOK'
  BY <1>1, <1>2, <1>3 DEF IInv, TypeOK, MediaInv
<1>5. EpisodesAreFiled'
  BY <1>1, <1>2 DEF IInv, TypeOK, EpisodesAreFiled, EpisodeIsFiled
<1>6. \A x : EpisodesOf(x) \subseteq EpisodesOf(x)'
  BY <1>1, <1>2 DEF EpisodesOf
<1>7. \A x \in Titles \cup Episodes : OwnerExists(x) => OwnerExists(x)'
  BY <1>1, <1>2 DEF OwnerExists
<1>8. PublishedIsBacked'
  <2>1. ASSUME NEW u \in Units,
               (IF u \in Movies THEN title'[u] ELSE episode'[u].state) = "published"
        PROVE  Backed(u)'
    <3>1. (IF u \in Movies THEN title[u] ELSE episode[u].state) = "published"
      BY <1>1, <1>2, <2>1 DEF Units
    <3> QED
      BY <1>3, <3>1 DEF IInv, PublishedIsBacked
  <2>2. ASSUME NEW x \in Series, title'[x] = "published"
        PROVE  \E d \in EpisodesOf(x)' : Backed(d)'
    <3>1. EpisodesOf(x) \subseteq Units
      BY DEF Units, EpisodesOf
    <3> QED
      BY <1>1, <1>3, <1>6, <2>2, <3>1 DEF IInv, PublishedIsBacked
  <2> QED
    BY <2>1, <2>2 DEF PublishedIsBacked
<1> QED
  BY <1>1, <1>4, <1>5, <1>6, <1>7, <1>8, EditsUnchanged, RowStepKeeps DEF IInv

(* updateTitle and updateEpisode: `published` of a title,                  *)
LEMMA TitleVisibilityKeeps ==
    ASSUME IInv, NEW x \in Titles, NEW state \in {"draft", "published"},
           OwnerExists(x),
           SetVisibility(x, state),
           UNCHANGED <<media, season, page>>,
           EditsGoOn,
           state = "published" =>
             /\ x \in Units => Backed(x)
             /\ x \in Series => \E e \in EpisodesOf(x) : Backed(e)
    PROVE  IInv'
<1>1. /\ title' = [title EXCEPT ![x] = state]
      /\ UNCHANGED episode
  BY OwnersAssumption DEF SetVisibility
<1>2. /\ title' \in [Titles -> Visibility]
      /\ title'[x] = state
      /\ \A t \in Titles \ {x} : title'[t] = title[t]
  BY <1>1 DEF IInv, TypeOK, Visibility
<1>3. MediaInv' /\ \A u \in Units : Backed(u) => Backed(u)'
  BY MediaStutters, BackedStays DEF IInv
<1>4. TypeOK'
  BY <1>1, <1>2, <1>3 DEF IInv, TypeOK, MediaInv, EditsGoOn
<1>5. EpisodesAreFiled'
  BY <1>1 DEF IInv, EpisodesAreFiled, EpisodeIsFiled
<1>6. \A t : EpisodesOf(t)' = EpisodesOf(t)
  BY <1>1 DEF EpisodesOf
<1>7. \A y \in Titles \cup Episodes : OwnerExists(y) => OwnerExists(y)'
  BY <1>1, <1>2 DEF OwnerExists
<1>8. PublishedIsBacked'
  <2>1. ASSUME NEW u \in Units,
               (IF u \in Movies THEN title'[u] ELSE episode'[u].state) = "published"
        PROVE  Backed(u)'
    <3>1. Backed(u)
      <4>1. CASE u = x /\ u \in Movies
        BY <1>2, <2>1, <4>1
      <4>2. CASE ~(u = x /\ u \in Movies)
        BY <1>1, <1>2, <2>1, <4>2 DEF IInv, PublishedIsBacked, Titles
      <4> QED
        BY <4>1, <4>2
    <3> QED
      BY <1>3, <3>1
  <2>2. ASSUME NEW t \in Series, title'[t] = "published"
        PROVE  \E e \in EpisodesOf(t)' : Backed(e)'
    <3>1. \E e \in EpisodesOf(t) : Backed(e)
      <4>1. CASE t = x
        BY <1>2, <2>2, <4>1
      <4>2. CASE t # x
        BY <1>2, <2>2, <4>2 DEF IInv, PublishedIsBacked, Titles
      <4> QED
        BY <4>1, <4>2
    <3>2. EpisodesOf(t) \subseteq Units
      BY DEF Units, EpisodesOf
    <3> QED
      BY <1>3, <1>6, <3>1, <3>2
  <2> QED
    BY <2>1, <2>2 DEF PublishedIsBacked
<1> QED
  BY <1>4, <1>5, <1>6, <1>7, <1>8, RowStepKeeps

(* and of an episode.                                                      *)
LEMMA EpisodeVisibilityKeeps ==
    ASSUME IInv, NEW x \in Episodes, NEW state \in {"draft", "published"},
           OwnerExists(x),
           SetVisibility(x, state),
           UNCHANGED <<media, season, page>>,
           EditsGoOn,
           state = "published" => Backed(x)
    PROVE  IInv'
<1>1. /\ episode[x].state # "absent"
      /\ x \notin Titles
      /\ episode[x].season \in Seasons
      /\ season[episode[x].season] \in Series
  BY OwnersAssumption DEF OwnerExists, IInv, EpisodesAreFiled, EpisodeIsFiled
<1>2. /\ episode' = [episode EXCEPT ![x].state = state]
      /\ UNCHANGED title
  BY <1>1, Zenon DEF SetVisibility
<1>3. /\ episode' \in [Episodes -> Episode]
      /\ episode'[x].season = episode[x].season
      /\ episode'[x].state = state
      /\ \A e \in Episodes \ {x} : episode'[e] = episode[e]
  BY <1>2 DEF IInv, TypeOK, Episode, Visibility
<1>4. MediaInv' /\ \A u \in Units : Backed(u) => Backed(u)'
  BY MediaStutters, BackedStays DEF IInv
<1>5. TypeOK'
  BY <1>2, <1>3, <1>4 DEF IInv, TypeOK, MediaInv, EditsGoOn
<1>6. EpisodesAreFiled'
  BY <1>1, <1>3 DEF IInv, EpisodesAreFiled, EpisodeIsFiled
<1>7. \A t : EpisodesOf(t)' = EpisodesOf(t)
  BY <1>1, <1>3 DEF EpisodesOf
<1>8. \A y \in Titles \cup Episodes : OwnerExists(y) => OwnerExists(y)'
  BY <1>2, <1>3 DEF OwnerExists
<1>9. PublishedIsBacked'
  <2>1. ASSUME NEW u \in Units,
               (IF u \in Movies THEN title'[u] ELSE episode'[u].state) = "published"
        PROVE  Backed(u)'
    <3>1. Backed(u)
      <4>1. CASE u = x
        BY <1>1, <1>3, <2>1, <4>1 DEF Titles
      <4>2. CASE u # x
        BY <1>2, <1>3, <2>1, <4>2 DEF IInv, PublishedIsBacked, Units
      <4> QED
        BY <4>1, <4>2
    <3> QED
      BY <1>4, <3>1
  <2>2. ASSUME NEW t \in Series, title'[t] = "published"
        PROVE  \E e \in EpisodesOf(t)' : Backed(e)'
    <3>1. EpisodesOf(t) \subseteq Units
      BY DEF Units, EpisodesOf
    <3> QED
      BY <1>2, <1>4, <1>7, <2>2, <3>1 DEF IInv, PublishedIsBacked
  <2> QED
    BY <2>1, <2>2 DEF PublishedIsBacked
<1> QED
  BY <1>5, <1>6, <1>7, <1>8, <1>9, RowStepKeeps

LEMMA PublishKeeps ==
    ASSUME IInv, NEW c \in Edits, Publish(c)
    PROVE  IInv'
<1>1. PICK m \in Edit : m = edit[c] /\ EditIsJustified(m)
  BY EditInFlight
<1>2. PICK x : x = m.what
  OBVIOUS
<1>3. /\ m.pc = "update"
      /\ m # NoEdit
      /\ SetVisibility(x, "published")
      /\ edit' = [edit EXCEPT ![c] = NoEdit]
      /\ UNCHANGED <<media, season, page>>
  BY <1>1, <1>2 DEF Publish, SetEdit, NoEdit
<1>4. EditsGoOn
  BY <1>3, NoEditIsFine DEF IInv, TypeOK, EditsGoOn
<1>5. /\ OwnerExists(x)
      /\ x \in Units => Backed(x)
      /\ x \in Series => \E e \in EpisodesOf(x) : Backed(e)
      /\ x \in Titles \cup Episodes
  BY <1>1, <1>2, <1>3, SeriesAreNoUnits DEF EditIsJustified
<1>6. CASE x \in Titles
  BY <1>3, <1>4, <1>5, <1>6, TitleVisibilityKeeps
<1>7. CASE x \in Episodes
  BY <1>3, <1>4, <1>5, <1>7, EpisodesAreUnits, EpisodeVisibilityKeeps
<1> QED
  BY <1>5, <1>6, <1>7

LEMMA UnpublishKeeps ==
    ASSUME IInv, NEW x \in Titles \cup Episodes, Unpublish(x)
    PROVE  IInv'
<1>1. /\ OwnerExists(x)
      /\ SetVisibility(x, "draft")
      /\ Touch(Parents(x), {"check", "update"})
      /\ UNCHANGED <<media, season, page>>
  BY DEF Unpublish
<1>2. EditsGoOn
  BY <1>1, TouchGoesOn DEF IInv
<1>3. CASE x \in Titles
  BY <1>1, <1>2, <1>3, TitleVisibilityKeeps
<1>4. CASE x \in Episodes
  BY <1>1, <1>2, <1>4, EpisodeVisibilityKeeps
<1> QED
  BY <1>3, <1>4

----------------------------------------------------------------------------
(* The catalog as a whole.                                                 *)

LEMMA InitIsSound == Init => IInv
<1> SUFFICES ASSUME Init PROVE IInv
  OBVIOUS
<1>1. MediaInv
  BY MediaInitIsSound DEF Init
<1>2. /\ NoEpisode \in Episode /\ NoEpisode.state = "absent"
      /\ NoEdit \in Edit
      /\ NoPage \in Page /\ NoPage.full = FALSE
  BY DEF NoEpisode, Episode, Visibility, NoEdit, Edit, NoPage, Page, Kinds
<1>3. TypeOK
  BY <1>1, <1>2 DEF Init, TypeOK, MediaInv, Visibility
<1>4. EpisodesAreFiled /\ EditsAreJustified /\ PagesAreOfUnits
  BY <1>2, NoEditIsFine DEF Init, EpisodesAreFiled, EditsAreJustified, PagesAreOfUnits
<1>5. PublishedIsBacked
  BY <1>2 DEF Init, PublishedIsBacked, Units, Titles
<1>6. OfferIsBacked
  BY <1>2 DEF Init, OfferIsBacked
<1> QED
  BY <1>1, <1>3, <1>4, <1>5, <1>6 DEF IInv

(* The inductive invariant: what holds of the pipeline, and that every     *)
(* edit in flight is justified by what it has seen.                        *)
THEOREM Invariant == Spec => []IInv
<1>1. IInv /\ [Next]_vars => IInv'
  <2> SUFFICES ASSUME IInv, [Next]_vars
               PROVE  IInv'
    OBVIOUS
  <2>1. CASE \/ \E t \in Titles : CreateTitle(t)
             \/ \E n \in Seasons, t \in Titles : CreateSeason(n, t)
             \/ \E e \in Episodes, n \in Seasons : CreateEpisode(e, n)
    BY <2>1, CreateTitleKeeps, CreateSeasonKeeps, CreateEpisodeKeeps
  <2>2. CASE \E c \in Uploads, a \in Assets, s \in Sources : RegisterMediaAsset(c, a, s)
    BY <2>2, RegisterMediaAssetKeeps
  <2>3. CASE MediaNext /\ UNCHANGED <<catalog, edit, page>>
    BY <2>3, MediaNextKeepsCatalog
  <2>4. CASE \E c \in Edits, x \in Titles \cup Episodes : BeginPublish(c, x)
    BY <2>4, BeginPublishKeeps
  <2>5. CASE \E c \in Edits :
                \/ ListEpisodes(c) \/ CheckUnit(c) \/ Publish(c)
                \/ \E e \in Episodes : CheckListed(c, e)
    BY <2>5, ListEpisodesKeeps, CheckUnitKeeps, PublishKeeps, CheckListedKeeps
  <2>6. CASE \E x \in Titles \cup Episodes : Unpublish(x)
    BY <2>6, UnpublishKeeps
  <2>7. CASE \/ \E v \in Visitors, u \in Units : OpenPage(v, u)
             \/ \E v \in Visitors :
                   \/ ReadTrailer(v) \/ ReadFull(v) \/ AskTrailer(v) \/ AskFull(v)
                   \/ GetUrl(v) \/ ClosePage(v)
    BY <2>7, OpenPageKeeps, ReadFullKeeps, OfferStaysKeeps, ClosePageKeeps
  <2>8. CASE UNCHANGED vars
    BY <2>8, CatalogStutters
  <2> QED
    BY <2>1, <2>2, <2>3, <2>4, <2>5, <2>6, <2>7, <2>8 DEF Next
<1> QED
  BY <1>1, InitIsSound, PTL DEF Spec

(* What is published, a movie, an episode or a series by one of its        *)
(* episodes, has the objects of a complete full video in the bucket,       *)
(* whatever was uploaded, transcoded or edited between an edit's check and *)
(* its update.                                                             *)
THEOREM PublishedCanBePlayed == Spec => []PublishedIsBacked
<1>1. IInv => PublishedIsBacked
  BY DEF IInv
<1> QED
  BY <1>1, Invariant, PTL

(* A title page, however old, offers no full video that was never whole.   *)
THEOREM OffersAreBacked == Spec => []OfferIsBacked
<1>1. IInv => OfferIsBacked
  BY DEF IInv
<1> QED
  BY <1>1, Invariant, PTL

----------------------------------------------------------------------------
(* The catalog over the pipeline.                                          *)

(* The pipeline on its own, as Media has it: every owner exists.           *)
PipelineNext == MediaNext \/ \E c \in Uploads, a \in Assets, s \in Sources : Register(c, a, s)
PipelineSpec == MediaInit /\ [][PipelineNext]_media

(* No step of an edit or of a page touches the pipeline, and registering a *)
(* video for an owner that exists is registering it.                       *)
LEMMA CatalogLeavesThePipeline == [Next]_vars => [PipelineNext]_media
<1> SUFFICES ASSUME [Next]_vars
             PROVE  PipelineNext \/ UNCHANGED media
  OBVIOUS
<1>1. CASE \/ \E t \in Titles : CreateTitle(t)
           \/ \E n \in Seasons, t \in Titles : CreateSeason(n, t)
           \/ \E e \in Episodes, n \in Seasons : CreateEpisode(e, n)
           \/ \E x \in Titles \cup Episodes : Unpublish(x)
  BY <1>1 DEF CreateTitle, CreateSeason, CreateEpisode, Unpublish
<1>2. CASE \E c \in Uploads, a \in Assets, s \in Sources : RegisterMediaAsset(c, a, s)
  BY <1>2 DEF RegisterMediaAsset, PipelineNext
<1>3. CASE MediaNext
  BY <1>3 DEF PipelineNext
<1>4. CASE \/ \E c \in Edits, x \in Titles \cup Episodes : BeginPublish(c, x)
           \/ \E c \in Edits :
                 \/ ListEpisodes(c) \/ CheckUnit(c) \/ Publish(c)
                 \/ \E e \in Episodes : CheckListed(c, e)
  BY <1>4 DEF BeginPublish, ListEpisodes, CheckUnit, Publish, CheckListed
<1>5. CASE \/ \E v \in Visitors, u \in Units : OpenPage(v, u)
           \/ \E v \in Visitors :
                 \/ ReadTrailer(v) \/ ReadFull(v) \/ AskTrailer(v) \/ AskFull(v)
                 \/ GetUrl(v) \/ ClosePage(v)
  BY <1>5 DEF OpenPage, ReadTrailer, ReadFull, AskTrailer, AskFull, GetUrl, ClosePage
<1>6. CASE UNCHANGED vars
  BY <1>6 DEF vars
<1> QED
  BY <1>1, <1>2, <1>3, <1>4, <1>5, <1>6 DEF Next

(* Whatever admins edit and visitors open, the media half of the catalog   *)
(* is a behaviour of the pipeline on its own: every safety result about    *)
(* Media is one about Catalog.                                             *)
THEOREM CatalogRunsThePipeline == Spec => PipelineSpec
<1>1. Init => MediaInit
  BY DEF Init
<1>2. [Next]_vars => [PipelineNext]_media
  BY CatalogLeavesThePipeline
<1> QED
  BY <1>1, <1>2, PTL DEF Spec, PipelineSpec
============================================================================
