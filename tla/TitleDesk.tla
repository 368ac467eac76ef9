------------------------------ MODULE TitleDesk ------------------------------
(***************************************************************************)
(* The admin's page of one series, /admin/titles/[titleId], over the       *)
(* endpoints it calls.  The page shows a copy of the title; a press sends  *)
(* a call and, once that is answered, loads the title again.  No button is *)
(* disabled meanwhile, so calls and loads of one page overlap, and answers *)
(* arrive in any order.  What may be published is Catalog's affair: here   *)
(* the server may apply a call or refuse it.  A season is known by its     *)
(* number, which is unique in the title, and an episode by its season and  *)
(* its number, unique there.                                               *)
(***************************************************************************)
EXTENDS FiniteSets

CONSTANTS
    Seasons,        \* what an admin may type for a season's number
    Numbers,        \* and for an episode's
    Slots,          \* bound: calls, and loads, of the page in flight
    None

VARIABLES
    db,             \* the title, its seasons and episodes, in the database
    shown,          \* what the page shows of it
    form,           \* episodeForm: one for the forms of all seasons
    call, load,     \* the page's requests in flight
    excused         \* history: why the page may show an old title

vars == <<db, shown, form, call, load, excused>>

Title == [published : BOOLEAN, seasons : SUBSET Seasons,
          episodes : SUBSET (Seasons \X Numbers)]
NewTitle == [published |-> FALSE, seasons |-> {}, episodes |-> {}]

(* touched is history: the season in whose form the last keystroke or      *)
(* press was.                                                              *)
Form == [season : Seasons \cup {None}, number : Numbers \cup {None},
         touched : Seasons \cup {None}]
BlankForm == [season |-> None, number |-> None, touched |-> None]

(* label: what the button says, "Publish" or "Unpublish".  under: history, *)
(* the season whose "Add episode" was pressed, if it was touched before.   *)
Call == [pc : {"sent", "done"}, what : {"season", "episode", "published"},
         season : Seasons \cup {None}, number : Numbers \cup {None}, label : BOOLEAN,
         under : Seasons \cup {None}]
BlankCall == [pc |-> "sent", what |-> "published", season |-> None, number |-> None,
              label |-> FALSE, under |-> None]

(* A load in flight, and what it has read.                                 *)
Load  == [read : BOOLEAN, title : Title \cup {None}]
Asked == [read |-> FALSE, title |-> None]

(* NULL is no number, no title and no request.                             *)
ASSUME NoneAssumption == None \notin Seasons \cup Numbers \cup Title \cup Call \cup Load

TypeOK ==
    /\ db \in Title
    /\ shown \in Title \cup {None}
    /\ form \in Form
    /\ call \in [Slots -> Call \cup {None}]
    /\ load \in [Slots -> Load \cup {None}]
    /\ excused \in BOOLEAN

(* useEffect(load): the first load is asked when the page is opened.       *)
Init ==
    /\ db = NewTitle
    /\ shown = None
    /\ form = BlankForm
    /\ call = [k \in Slots |-> None]
    /\ \E k \in Slots : load = [l \in Slots |-> IF l = k THEN Asked ELSE None]
    /\ excused = FALSE

----------------------------------------------------------------------------
(* load(): GET /admin/titles/:id reads the title with all that is below it *)
(* by one call of Prisma, and the answer replaces what is shown.  The call *)
(* is several SELECTs, taken here at one moment: what this page changes    *)
(* between them it loads once more when the change is answered, and what   *)
(* another admin changes excuses the page anyhow.                          *)

(* Two loads in flight may be answered in the other order than read.       *)
AskLoad(k) ==
    /\ load[k] = None
    /\ load' = [load EXCEPT ![k] = Asked]
    /\ excused' = (excused \/ \E l \in Slots : load[l] # None)

LoadRead(k) ==
    /\ load[k] = Asked
    /\ load' = [load EXCEPT ![k] = [read |-> TRUE, title |-> db]]
    /\ UNCHANGED <<db, shown, form, call, excused>>

LoadAnswer(k) ==
    /\ load[k] # None
    /\ load[k].read
    /\ shown' = load[k].title
    /\ load' = [load EXCEPT ![k] = None]
    /\ UNCHANGED <<db, form, call, excused>>

(* "Failed to load title.", above the title shown before.                  *)
LoadLost(k) ==
    /\ load[k] # None
    /\ load' = [load EXCEPT ![k] = None]
    /\ excused' = TRUE
    /\ UNCHANGED <<db, shown, form, call>>

----------------------------------------------------------------------------
(* Typing and pressing.                                                    *)

ShownSeasons == IF shown = None THEN {} ELSE shown.seasons

(* Mutant of Type: a keystroke changes its own field only.                 *)
TypeInPlace(n, number) ==
    /\ n \in ShownSeasons
    /\ form' = [season |-> IF form.season = None THEN n ELSE form.season,
                number |-> number, touched |-> n]
    /\ UNCHANGED <<db, shown, call, load, excused>>

(* A keystroke in the form of season n moves the one form there.           *)
Type(n, number) ==
    /\ n \in ShownSeasons
    /\ form' = [season |-> n, number |-> number, touched |-> n]
    /\ UNCHANGED <<db, shown, call, load, excused>>

Send(k, c) ==
    /\ call[k] = None
    /\ call' = [call EXCEPT ![k] = c]
    /\ UNCHANGED <<db, shown, load, excused>>

(* "Add episode" under season n: the call carries the form as it was       *)
(* before the press moves it, whichever season it was typed under.         *)
PressAddEpisode(k, n) ==
    /\ n \in ShownSeasons
    /\ Send(k, [BlankCall EXCEPT !.what = "episode", !.season = form.season,
                                 !.number = form.number,
                                 !.under = IF n = form.touched THEN n ELSE None])
    /\ form' = [form EXCEPT !.season = n, !.touched = n]

PressAddSeason(k, n) ==
    /\ shown # None
    /\ Send(k, [BlankCall EXCEPT !.what = "season", !.season = n])
    /\ UNCHANGED form

PressPublish(k) ==
    /\ shown # None
    /\ Send(k, [BlankCall EXCEPT !.label = ~shown.published])
    /\ UNCHANGED form

----------------------------------------------------------------------------
(* AdminTitlesService, with the unique columns [titleId, number] and       *)
(* [seasonId, number].                                                     *)

CreateSeason(c) ==
    /\ c.what = "season"
    /\ c.season \notin db.seasons
    /\ db' = [db EXCEPT !.seasons = @ \cup {c.season}]

CreateEpisode(c) ==
    /\ c.what = "episode"
    /\ None \notin {c.season, c.number}
    /\ <<c.season, c.number>> \notin db.episodes
    /\ db' = [db EXCEPT !.episodes = @ \cup {<<c.season, c.number>>}]

UpdatePublished(c) ==
    /\ c.what = "published"
    /\ db' = [db EXCEPT !.published = c.label]

Apply(k) ==
    /\ call[k] # None
    /\ call[k].pc = "sent"
    /\ CreateSeason(call[k]) \/ CreateEpisode(call[k]) \/ UpdatePublished(call[k])
    /\ call' = [call EXCEPT ![k].pc = "done"]
    /\ UNCHANGED <<shown, form, load, excused>>

(* 404, 409, 422 or 500, or the call never arrives: the form is kept, and  *)
(* an alert, if any, shown.                                                *)
Refuse(k) ==
    /\ call[k] # None
    /\ call[k].pc = "sent"
    /\ call' = [call EXCEPT ![k] = None]
    /\ UNCHANGED <<db, shown, form, load, excused>>

(* Applied, but the answer is lost: to the page this is a refusal.         *)
AnswerLost(k) ==
    /\ call[k] # None
    /\ call[k].pc = "done"
    /\ call' = [call EXCEPT ![k] = None]
    /\ excused' = TRUE
    /\ UNCHANGED <<db, shown, form, load>>

FormAfter(c) ==
    IF c.what = "episode" THEN [BlankForm EXCEPT !.touched = form.touched] ELSE form

(* Mutant of Answered: the page trusts that the call changed what it says. *)
AnsweredInPlace(k) ==
    /\ call[k] # None
    /\ call[k].pc = "done"
    /\ call' = [call EXCEPT ![k] = None]
    /\ form' = FormAfter(call[k])
    /\ shown' = [shown EXCEPT !.published =
                    IF call[k].what = "published" THEN ~@ ELSE @]
    /\ UNCHANGED <<db, load, excused>>

(* A new episode empties the form, whatever has been typed since; then the *)
(* title is loaded again.                                                  *)
Answered(k) ==
    /\ call[k] # None
    /\ call[k].pc = "done"
    /\ call' = [call EXCEPT ![k] = None]
    /\ form' = FormAfter(call[k])
    /\ \E l \in Slots : AskLoad(l)
    /\ UNCHANGED <<db, shown>>

(* Another admin, another tab.                                             *)
Elsewhere ==
    /\ db' = [db EXCEPT !.published = ~@]
    /\ excused' = TRUE
    /\ UNCHANGED <<shown, form, call, load>>

----------------------------------------------------------------------------
Press(k) ==
    \/ \E n \in Seasons : PressAddEpisode(k, n) \/ PressAddSeason(k, n)
    \/ PressPublish(k)

Next ==
    \/ \E k \in Slots : LoadRead(k) \/ LoadAnswer(k) \/ LoadLost(k)
    \/ \E n \in Seasons, number \in Numbers : Type(n, number)
    \/ \E k \in Slots : Press(k) \/ Apply(k) \/ Refuse(k) \/ AnswerLost(k) \/ Answered(k)
    \/ Elsewhere

Spec == Init /\ [][Next]_vars

----------------------------------------------------------------------------
AtRest == \A k \in Slots : call[k] = None /\ load[k] = None

(* A page with nothing in flight shows the title as it is stored, however  *)
(* its presses overlapped: unless another admin was at work, an answer was *)
(* lost, or two loads were in flight at once, whose answers are not told   *)
(* apart.                                                                  *)
DeskIsCurrent == AtRest /\ ~excused => shown = db

(* The forms of all seasons are one, and a late answer empties it.  Still  *)
(* an episode is filed under no other season than the one whose button was *)
(* pressed, if the form of that season is the one touched before.  If not, *)
(* the button files it where the one form was: that is what the code does, *)
(* and seldom what is meant.                                               *)
FiledWhereTouched ==
    \A k \in Slots :
        call[k] # None /\ None \notin {call[k].under, call[k].season}
            => call[k].season = call[k].under
----------------------------------------------------------------------------
(* The inductive invariant.                                                *)

(* Every way into the one form, a keystroke or a press, moves it to the    *)
(* season it is in; a late answer empties it and moves it nowhere.         *)
FormIsWhereTouched == form.season # None => form.season = form.touched

CallsAreWhole ==
    \A k \in Slots : call[k] # None /\ call[k].what = "season" => call[k].season # None

(* A call that is applied and not yet answered: the load that its answer   *)
(* will ask for is still to come.                                          *)
Unanswered == \E k \in Slots : call[k] # None /\ call[k].pc = "done"

(* What the page is told is the title as it is stored, or another load     *)
(* follows.                                                                *)
LoadsFollow ==
    ~excused =>
        /\ shown = db \/ Unanswered \/ \E k \in Slots : load[k] # None
        /\ \A k \in Slots : load[k] # None /\ load[k].read =>
                load[k].title = db \/ Unanswered

IInv ==
    /\ TypeOK
    /\ FormIsWhereTouched
    /\ CallsAreWhole
    /\ LoadsFollow
    /\ FiledWhereTouched
============================================================================
