------------------------------ MODULE Catalog ------------------------------
(***************************************************************************)
(* The catalog over the media pipeline: AdminTitlesService creates titles, *)
(* seasons and episodes and publishes what is ready; CatalogService shows  *)
(* a visitor what is published; the title page offers to play it, and      *)
(* MediaService answers with the object to play or with 404.               *)
(*                                                                         *)
(* Nothing is ever deleted, and only `published` is kept of what an edit   *)
(* may change.  A unit is what can be watched: a movie or an episode.      *)
(*                                                                         *)
(*   edit[c]    an updateTitle or updateEpisode in flight                  *)
(*   page[v]    a visitor's title page: what it was told, what was asked   *)
(***************************************************************************)
EXTENDS MediaPipeline

CONSTANTS Movies, Series, Seasons, Episodes, Edits, Visitors

Titles == Movies \cup Series
Units  == Movies \cup Episodes

(* Whatever can be watched can have a video, and nothing but titles and    *)
(* episodes has one.  A title is of one type, an id is of one table, and   *)
(* NULL is none of them.                                                   *)
ASSUME OwnersAssumption ==
    /\ Units \subseteq Owners
    /\ Owners \subseteq Titles \cup Episodes
    /\ Movies \cap Series = {}
    /\ Titles \cap Episodes = {}
    /\ None \notin Titles \cup Episodes \cup Seasons

VARIABLES
    title,          \* the table titles: "absent", "draft" or "published"
    season,         \* the table seasons: the series of each
    episode,        \* the table episodes: the season and `published` of each
    edit, page

catalog == <<title, season, episode>>
vars    == <<media, catalog, edit, page>>

Visibility == {"absent", "draft", "published"}

Episode  == [season : Seasons \cup {None}, state : Visibility]
NoEpisode == [season |-> None, state |-> "absent"]

(* left: the published episodes that updateTitle has still to look at.     *)
(* touched: history, what it has seen was changed before its update.       *)
Edit   == [pc : {"idle", "list", "check", "update"},
           what : Titles \cup Episodes \cup {None}, left : SUBSET Episodes,
           touched : BOOLEAN]
NoEdit == [pc |-> "idle", what |-> None, left |-> {}, touched |-> FALSE]

Page   == [pc : {"closed", "trailer", "full", "shown", "asked", "url", "refused"},
           unit : Units \cup {None}, trailer : {"none", "unready", "ready"},
           full : BOOLEAN, asked : Kinds]
NoPage == [pc |-> "closed", unit |-> None, trailer |-> "none", full |-> FALSE,
           asked |-> "TRAILER"]

TypeOK ==
    /\ MediaTypeOK
    /\ title \in [Titles -> Visibility]
    /\ season \in [Seasons -> Series \cup {None}]
    /\ episode \in [Episodes -> Episode]
    /\ edit \in [Edits -> Edit]
    /\ page \in [Visitors -> Page]

Init ==
    /\ MediaInit
    /\ title = [t \in Titles |-> "absent"]
    /\ season = [n \in Seasons |-> None]
    /\ episode = [e \in Episodes |-> NoEpisode]
    /\ edit = [c \in Edits |-> NoEdit]
    /\ page = [v \in Visitors |-> NoPage]

----------------------------------------------------------------------------
EpisodesOf(t) ==
    {e \in Episodes : episode[e].state # "absent" /\ season[episode[e].season] = t}

SeriesOf(e) == season[episode[e].season]

PublishedEpisodesOf(t) == {e \in EpisodesOf(t) : episode[e].state = "published"}

OwnerExists(o) == IF o \in Titles THEN title[o] # "absent" ELSE episode[o].state # "absent"

(* Mutant of FullReady: the row of the asset is enough.                    *)
FullRegistered(o) == asset[<<o, "FULL">>].status # "ABSENT"

(* Mutant of FullReady: an asset of either kind will do.                   *)
AnyReady(o) == \E kind \in Kinds : Ready(<<o, kind>>)

(* getMediaAssetStatus(owner, 'FULL')?.ready.                              *)
FullReady(o) == Ready(<<o, "FULL">>)

SetEdit(c, e) == edit' = [edit EXCEPT ![c] = e]

(* Edits of these titles and episodes, so far already, are overtaken.      *)
Touch(xs, pcs) ==
    edit' = [c \in Edits |-> [edit[c] EXCEPT !.touched =
                                @ \/ (edit[c].what \in xs /\ edit[c].pc \in pcs)]]

(* Whose publishing looks at x: the series of an episode.                  *)
Parents(x) == IF x \in Episodes THEN {SeriesOf(x)} ELSE {}

----------------------------------------------------------------------------
(* AdminTitlesService.                                                     *)

CreateTitle(t) ==
    /\ title[t] = "absent"
    /\ title' = [title EXCEPT ![t] = "draft"]
    /\ UNCHANGED <<media, season, episode, edit, page>>

(* Of a series only; 422 for a movie.                                      *)
CreateSeason(n, t) ==
    /\ season[n] = None
    /\ t \in Series
    /\ title[t] # "absent"
    /\ season' = [season EXCEPT ![n] = t]
    /\ UNCHANGED <<media, title, episode, edit, page>>

CreateEpisode(e, n) ==
    /\ episode[e] = NoEpisode
    /\ season[n] # None
    /\ episode' = [episode EXCEPT ![e] = [season |-> n, state |-> "draft"]]
    /\ UNCHANGED <<media, title, season, edit, page>>

RegisterMediaAsset(c, a, s) ==
    /\ OwnerExists(a[1])
    /\ Register(c, a, s)
    /\ Touch(IF a \in Fulls THEN {a[1]} \cup Parents(a[1]) ELSE {}, {"update"})
    /\ UNCHANGED <<catalog, page>>

(* updateTitle and updateEpisode with published: true.                     *)
BeginPublish(c, x) ==
    /\ edit[c] = NoEdit
    /\ OwnerExists(x)
    /\ SetEdit(c, [NoEdit EXCEPT !.pc = IF x \in Series THEN "list" ELSE "check", !.what = x])
    /\ UNCHANGED <<media, catalog, page>>

(* Mutant of ListEpisodes: drafts are listed too.                          *)
ListAnyEpisodes(c) ==
    LET found == EpisodesOf(edit[c].what) IN
    /\ edit[c].pc = "list"
    /\ SetEdit(c, IF found = {} THEN NoEdit ELSE [edit[c] EXCEPT !.pc = "check", !.left = found])
    /\ UNCHANGED <<media, catalog, page>>

(* canPublish of a series lists the published episodes once; with none of  *)
(* them it answers no, and the update is refused.                          *)
ListEpisodes(c) ==
    LET found == PublishedEpisodesOf(edit[c].what) IN
    /\ edit[c].pc = "list"
    /\ SetEdit(c, IF found = {} THEN NoEdit ELSE [edit[c] EXCEPT !.pc = "check", !.left = found])
    /\ UNCHANGED <<media, catalog, page>>

(* The asset of a movie or of an episode being published.                  *)
CheckUnit(c) ==
    /\ edit[c].pc = "check"
    /\ edit[c].what \in Units
    /\ SetEdit(c, IF FullReady(edit[c].what) THEN [edit[c] EXCEPT !.pc = "update"] ELSE NoEdit)
    /\ UNCHANGED <<media, catalog, page>>

(* The asset of one listed episode after the other, until one is ready.    *)
CheckListed(c, e) ==
    LET rest == edit[c].left \ {e} IN
    /\ edit[c].pc = "check"
    /\ e \in edit[c].left
    /\ SetEdit(c, IF FullReady(e) THEN [edit[c] EXCEPT !.pc = "update", !.left = {}]
                  ELSE IF rest = {} THEN NoEdit
                  ELSE [edit[c] EXCEPT !.left = rest])
    /\ UNCHANGED <<media, catalog, page>>

SetVisibility(x, state) ==
    /\ title' = IF x \in Titles THEN [title EXCEPT ![x] = state] ELSE title
    /\ episode' = IF x \in Episodes THEN [episode EXCEPT ![x].state = state] ELSE episode

Publish(c) ==
    /\ edit[c].pc = "update"
    /\ SetVisibility(edit[c].what, "published")
    /\ SetEdit(c, NoEdit)
    /\ UNCHANGED <<media, season, page>>

(* published: false is not checked.                                        *)
Unpublish(x) ==
    /\ OwnerExists(x)
    /\ SetVisibility(x, "draft")
    /\ Touch(Parents(x), {"check", "update"})
    /\ UNCHANGED <<media, season, page>>

----------------------------------------------------------------------------
(* The title page and MediaService.                                        *)

(* getTitleById finds the title published, and the episode with it.        *)
Shown(u) ==
    IF u \in Movies THEN title[u] = "published"
    ELSE /\ episode[u].state = "published"
         /\ title[SeriesOf(u)] = "published"

OpenPage(v, u) ==
    /\ page[v].pc = "closed"
    /\ Shown(u)
    /\ page' = [page EXCEPT ![v] = [NoPage EXCEPT !.pc = "trailer", !.unit = u]]
    /\ UNCHANGED <<media, catalog, edit>>

(* It then reads the two assets, one query each, and answers.  The queries *)
(* run side by side, and neither answer depends on the other.              *)
ReadTrailer(v) ==
    LET a == <<page[v].unit, "TRAILER">> IN
    /\ page[v].pc = "trailer"
    /\ page' = [page EXCEPT ![v].pc = "full",
                  ![v].trailer = IF asset[a] = NoAsset THEN "none"
                                 ELSE IF Ready(a) THEN "ready" ELSE "unready"]
    /\ UNCHANGED <<media, catalog, edit>>

ReadFull(v) ==
    /\ page[v].pc = "full"
    /\ page' = [page EXCEPT ![v].pc = "shown", ![v].full = FullReady(page[v].unit)]
    /\ UNCHANGED <<media, catalog, edit>>

AskTrailer(v) ==
    /\ page[v].pc = "shown"
    /\ page[v].trailer = "ready"
    /\ page' = [page EXCEPT ![v].pc = "asked", ![v].asked = "TRAILER"]
    /\ UNCHANGED <<media, catalog, edit>>

(* The button "Play full", pressed by a subscriber.                        *)
AskFull(v) ==
    /\ page[v].pc = "shown"
    /\ page[v].full
    /\ page[v].trailer # "none"
    /\ page' = [page EXCEPT ![v].pc = "asked", ![v].asked = "FULL"]
    /\ UNCHANGED <<media, catalog, edit>>

(* The asset the page names in its call: of both buttons the trailer's.    *)
AssetAsked(v) == <<page[v].unit, "TRAILER">>

(* getSignedUrlForReadyAsset, with the kind the endpoint is for.           *)
Playable(a, kind) ==
    /\ a[2] = kind
    /\ Ready(a)
    /\ asset[a].manifest # None

GetUrl(v) ==
    /\ page[v].pc = "asked"
    /\ page' = [page EXCEPT ![v].pc =
                  IF Playable(AssetAsked(v), page[v].asked) THEN "url" ELSE "refused"]
    /\ UNCHANGED <<media, catalog, edit>>

ClosePage(v) ==
    /\ page[v].pc \in {"shown", "url", "refused"}
    /\ page' = [page EXCEPT ![v] = NoPage]
    /\ UNCHANGED <<media, catalog, edit>>

----------------------------------------------------------------------------
Next ==
    \/ \E t \in Titles : CreateTitle(t)
    \/ \E n \in Seasons, t \in Titles : CreateSeason(n, t)
    \/ \E e \in Episodes, n \in Seasons : CreateEpisode(e, n)
    \/ \E c \in Uploads, a \in Assets, s \in Sources : RegisterMediaAsset(c, a, s)
    \/ MediaNext /\ UNCHANGED <<catalog, edit, page>>
    \/ \E c \in Edits, x \in Titles \cup Episodes : BeginPublish(c, x)
    \/ \E c \in Edits :
        ListEpisodes(c) \/ CheckUnit(c) \/ Publish(c) \/ \E e \in Episodes : CheckListed(c, e)
    \/ \E x \in Titles \cup Episodes : Unpublish(x)
    \/ \E v \in Visitors, u \in Units : OpenPage(v, u)
    \/ \E v \in Visitors :
        \/ ReadTrailer(v) \/ ReadFull(v) \/ AskTrailer(v) \/ AskFull(v)
        \/ GetUrl(v) \/ ClosePage(v)

Spec == Init /\ [][Next]_vars

----------------------------------------------------------------------------
(* Safety.                                                                 *)

(* What admins publish can be played, or could be: there is a video all of *)
(* whose objects are in the bucket, though the check, the listing of the   *)
(* episodes and the update are statements of their own, and uploads go on  *)
(* between.                                                                *)
Backed(u) == \E s \in Sources : \A o \in Objects(s) : hls[<<u, "FULL">>][o] # None

PublishedIsBacked ==
    /\ \A u \in Units :
        (IF u \in Movies THEN title[u] ELSE episode[u].state) = "published" => Backed(u)
    /\ \A t \in Series :
        title[t] = "published" => \E e \in EpisodesOf(t) : Backed(e)

(* What an edit is about to publish is READY, a series by an episode that  *)
(* is itself published, though it looked some statements ago.  The check   *)
(* is overtaken in these ways only: a full video of it was registered      *)
(* after its status was read, an episode of the series was unpublished     *)
(* after the episodes were listed, or a video was replaced before an       *)
(* earlier one was through the pipeline.                                   *)
StillReady(u) == FullReady(u) \/ <<u, "FULL">> \in disturbed

PublishedWhenReady ==
    \A c \in Edits : edit[c].pc = "update" /\ ~edit[c].touched =>
        IF edit[c].what \in Units THEN StillReady(edit[c].what)
        ELSE \E e \in PublishedEpisodesOf(edit[c].what) : StillReady(e)

(* A page, however old, offers no full video that was never complete.      *)
OfferIsBacked == \A v \in Visitors : page[v].full => Backed(page[v].unit)

----------------------------------------------------------------------------
(* The inductive invariant.                                                *)

EpisodeIsFiled(e) ==
    /\ episode[e].season \in Seasons
    /\ season[episode[e].season] \in Series

(* An episode that exists is in a season of a series, for good.            *)
EpisodesAreFiled ==
    \A e \in Episodes : episode[e].state = "absent" \/ EpisodeIsFiled(e)

(* What an edit in flight has seen still holds, though it looked at it     *)
(* some statements ago: a title or an episode is never deleted, an episode *)
(* never leaves its series, and a video once complete has all its objects. *)
EditIsJustified(k) ==
    \/ k = NoEdit
    \/ /\ k.pc \in {"check", "update"}
       /\ k.what \in Units
       /\ OwnerExists(k.what)
       /\ k.left = {}
       /\ k.pc = "update" => Backed(k.what)
    \/ /\ k.pc # "idle"
       /\ k.what \in Series
       /\ OwnerExists(k.what)
       /\ k.left \subseteq EpisodesOf(k.what)
       /\ k.pc = "update" => \E e \in EpisodesOf(k.what) : Backed(e)

EditsAreJustified == \A c \in Edits : EditIsJustified(edit[c])

PagesAreOfUnits == \A v \in Visitors : page[v] = NoPage \/ page[v].unit \in Units

(* What holds of the catalog over the pipeline, after any steps of both.   *)
IInv ==
    /\ TypeOK
    /\ MediaInv
    /\ EpisodesAreFiled
    /\ EditsAreJustified
    /\ PagesAreOfUnits
    /\ PublishedIsBacked
    /\ OfferIsBacked

----------------------------------------------------------------------------
(* What the documents say and the code does not do.                        *)

(* spec.md: a subscriber can play any full movie or episode: the button    *)
(* "Play full" is not refused while the full video is ready.               *)
PlayFullPlays ==
    [][\A v \in Visitors :
          /\ page[v].pc = "asked"
          /\ page[v].asked = "FULL"
          /\ FullReady(page[v].unit)
          /\ page'[v] # page[v]
          => page'[v].pc = "url"]_vars
============================================================================
