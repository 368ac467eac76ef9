--------------------------- MODULE TitleDeskProofs --------------------------
(***************************************************************************)
(* The theorems about the admin's title page, for every number of seasons, *)
(* episode numbers and requests in flight.                                 *)
(***************************************************************************)
EXTENDS TitleDesk, TLAPS

----------------------------------------------------------------------------
LEMMA NoNulls ==
    /\ Asked \in Load /\ Asked # None /\ Asked.read = FALSE
    /\ BlankForm \in Form /\ BlankForm.season = None
    /\ NewTitle \in Title
    /\ None \notin Seasons \cup Title \cup Call \cup Load
<1>1. None \notin Seasons \cup Title \cup Call \cup Load
  BY NoneAssumption
<1>2. Asked \in Load /\ Asked.read = FALSE
  BY DEF Asked, Load
<1>3. BlankForm \in Form /\ BlankForm.season = None
  BY DEF BlankForm, Form
<1>4. NewTitle \in Title
  BY DEF NewTitle, Title
<1> QED
  BY <1>1, <1>2, <1>3, <1>4

LEMMA InitIsSound == Init => IInv
<1> SUFFICES ASSUME Init PROVE IInv
  OBVIOUS
<1>1. PICK k \in Slots : load = [l \in Slots |-> IF l = k THEN Asked ELSE None]
  BY DEF Init
<1>2. TypeOK
  BY <1>1, NoNulls DEF Init, TypeOK
<1>3. FormIsWhereTouched /\ CallsAreWhole /\ FiledWhereTouched
  BY NoNulls DEF Init, FormIsWhereTouched, CallsAreWhole, FiledWhereTouched
<1>4. load[k] # None /\ \A l \in Slots : load[l] # None => ~load[l].read
  BY <1>1, NoNulls
<1>5. LoadsFollow
  BY <1>4 DEF LoadsFollow
<1> QED
  BY <1>2, <1>3, <1>5 DEF IInv

----------------------------------------------------------------------------
(* The loads.                                                              *)

LEMMA LoadReadKeeps ==
    ASSUME IInv, NEW k \in Slots, LoadRead(k)
    PROVE  IInv'
<1>1. PICK r \in Load : r = [read |-> TRUE, title |-> db]
  <2> DEFINE n == [read |-> TRUE, title |-> db]
  <2>1. n \in Load
    BY DEF Load, IInv, TypeOK
  <2> QED
    BY <2>1
<1>2. load' = [load EXCEPT ![k] = r] /\ UNCHANGED <<db, shown, form, call, excused>>
  BY <1>1 DEF LoadRead
<1>3. /\ load' \in [Slots -> Load \cup {None}]
      /\ load'[k] = r
      /\ \A l \in Slots \ {k} : load'[l] = load[l]
  BY <1>2 DEF IInv, TypeOK
<1>4. TypeOK'
  BY <1>2, <1>3 DEF IInv, TypeOK
<1>5. FormIsWhereTouched' /\ CallsAreWhole' /\ FiledWhereTouched'
  BY <1>2 DEF IInv, FormIsWhereTouched, CallsAreWhole, FiledWhereTouched
<1>6. Unanswered' = Unanswered
  BY <1>2 DEF Unanswered
<1>7. LoadsFollow'
  <2>1. r # None /\ r.title = db
    BY <1>1, NoNulls
  <2> QED
    BY <1>2, <1>3, <1>6, <2>1 DEF IInv, LoadsFollow
<1> QED
  BY <1>4, <1>5, <1>7 DEF IInv

LEMMA LoadAnswerKeeps ==
    ASSUME IInv, NEW k \in Slots, LoadAnswer(k)
    PROVE  IInv'
<1>1. PICK r \in Load : r = load[k] /\ r.read
  BY DEF LoadAnswer, IInv, TypeOK
<1>2. /\ shown' = r.title
      /\ load' = [load EXCEPT ![k] = None]
      /\ UNCHANGED <<db, form, call, excused>>
  BY <1>1 DEF LoadAnswer
<1>3. /\ load' \in [Slots -> Load \cup {None}]
      /\ load'[k] = None
      /\ \A l \in Slots \ {k} : load'[l] = load[l]
  BY <1>2 DEF IInv, TypeOK
<1>4. TypeOK'
  BY <1>2, <1>3 DEF IInv, TypeOK, Load
<1>5. FormIsWhereTouched' /\ CallsAreWhole' /\ FiledWhereTouched'
  BY <1>2 DEF IInv, FormIsWhereTouched, CallsAreWhole, FiledWhereTouched
<1>6. Unanswered' = Unanswered
  BY <1>2 DEF Unanswered
<1>7. LoadsFollow'
  <2>1. r # None
    BY NoNulls
  <2> QED
    BY <1>1, <1>2, <1>3, <1>6, <2>1 DEF IInv, LoadsFollow
<1> QED
  BY <1>4, <1>5, <1>7 DEF IInv

LEMMA LoadLostKeeps ==
    ASSUME IInv, NEW k \in Slots, LoadLost(k)
    PROVE  IInv'
<1>1. TypeOK'
  BY DEF IInv, TypeOK, LoadLost
<1>2. FormIsWhereTouched' /\ CallsAreWhole' /\ FiledWhereTouched'
  BY DEF IInv, FormIsWhereTouched, CallsAreWhole, FiledWhereTouched, LoadLost
<1>3. LoadsFollow'
  BY DEF LoadsFollow, LoadLost
<1> QED
  BY <1>1, <1>2, <1>3 DEF IInv

----------------------------------------------------------------------------
(* Typing and pressing.                                                    *)

LEMMA ShownSeasonsAreSeasons ==
    ASSUME IInv
    PROVE  ShownSeasons \subseteq Seasons
BY DEF IInv, TypeOK, ShownSeasons, Title

LEMMA TypeKeeps ==
    ASSUME IInv, NEW n \in Seasons, NEW number \in Numbers, Type(n, number)
    PROVE  IInv'
<1>1. /\ form' \in Form
      /\ form'.season = form'.touched
      /\ UNCHANGED <<db, shown, call, load, excused>>
  BY DEF Type, Form
<1>2. TypeOK' /\ FormIsWhereTouched'
  BY <1>1 DEF IInv, TypeOK, FormIsWhereTouched
<1>3. CallsAreWhole' /\ FiledWhereTouched' /\ LoadsFollow'
  BY <1>1 DEF IInv, CallsAreWhole, FiledWhereTouched, LoadsFollow, Unanswered
<1> QED
  BY <1>2, <1>3 DEF IInv

(* What a press has to show of the call it sends.                          *)
LEMMA SendKeeps ==
    ASSUME IInv, NEW k \in Slots, NEW c \in Call, Send(k, c),
           form' \in Form, FormIsWhereTouched',
           c.pc = "sent",
           c.what = "season" => c.season # None,
           None \notin {c.under, c.season} => c.season = c.under
    PROVE  IInv'
<1>1. /\ call[k] = None
      /\ call' = [call EXCEPT ![k] = c]
      /\ UNCHANGED <<db, shown, load, excused>>
  BY DEF Send
<1>2. /\ call' \in [Slots -> Call \cup {None}]
      /\ call'[k] = c
      /\ \A l \in Slots \ {k} : call'[l] = call[l]
  BY <1>1 DEF IInv, TypeOK
<1>3. TypeOK'
  BY <1>1, <1>2 DEF IInv, TypeOK
<1>4. CallsAreWhole' /\ FiledWhereTouched'
  BY <1>2 DEF IInv, CallsAreWhole, FiledWhereTouched
<1>5. Unanswered => Unanswered'
  BY <1>1, <1>2 DEF Unanswered
<1>6. LoadsFollow'
  BY <1>1, <1>5 DEF IInv, LoadsFollow
<1> QED
  BY <1>3, <1>4, <1>6 DEF IInv

LEMMA PressAddEpisodeKeeps ==
    ASSUME IInv, NEW k \in Slots, NEW n \in Seasons, PressAddEpisode(k, n)
    PROVE  IInv'
<1> DEFINE c == [BlankCall EXCEPT !.what = "episode", !.season = form.season,
                                  !.number = form.number,
                                  !.under = IF n = form.touched THEN n ELSE None]
<1>1. form \in Form
  BY DEF IInv, TypeOK
<1>2. /\ c \in Call
      /\ c.pc = "sent"
      /\ c.what = "episode"
      /\ c.season = form.season
      /\ c.under = IF n = form.touched THEN n ELSE None
  BY <1>1 DEF BlankCall, Call, Form
<1>3. Send(k, c) /\ form' = [form EXCEPT !.season = n, !.touched = n]
  BY DEF PressAddEpisode
<1>4. form' \in Form /\ form'.season = n /\ form'.touched = n
  BY <1>1, <1>3 DEF Form
<1>5. FormIsWhereTouched'
  BY <1>4 DEF FormIsWhereTouched
<1>6. None \notin {c.under, c.season} => c.season = c.under
  BY <1>2 DEF IInv, FormIsWhereTouched
<1> HIDE DEF c
<1> QED
  BY <1>2, <1>3, <1>4, <1>5, <1>6, SendKeeps

LEMMA PressAddSeasonKeeps ==
    ASSUME IInv, NEW k \in Slots, NEW n \in Seasons, PressAddSeason(k, n)
    PROVE  IInv'
<1> DEFINE c == [BlankCall EXCEPT !.what = "season", !.season = n]
<1>1. c \in Call /\ c.pc = "sent" /\ c.season = n /\ c.under = None
  BY DEF BlankCall, Call
<1>2. Send(k, c) /\ UNCHANGED form
  BY DEF PressAddSeason
<1>3. form' \in Form /\ FormIsWhereTouched'
  BY <1>2 DEF IInv, TypeOK, FormIsWhereTouched
<1> HIDE DEF c
<1> QED
  BY <1>1, <1>2, <1>3, NoNulls, SendKeeps

LEMMA PressPublishKeeps ==
    ASSUME IInv, NEW k \in Slots, PressPublish(k)
    PROVE  IInv'
<1> DEFINE c == [BlankCall EXCEPT !.label = ~shown.published]
<1>1. shown \in Title
  BY DEF IInv, TypeOK, PressPublish
<1>2. c \in Call /\ c.pc = "sent" /\ c.what = "published" /\ c.under = None
  BY <1>1 DEF BlankCall, Call, Title
<1>3. Send(k, c) /\ UNCHANGED form
  BY DEF PressPublish
<1>4. form' \in Form /\ FormIsWhereTouched'
  BY <1>3 DEF IInv, TypeOK, FormIsWhereTouched
<1> HIDE DEF c
<1> QED
  BY <1>2, <1>3, <1>4, SendKeeps

----------------------------------------------------------------------------
(* The server, and its answers.                                            *)

LEMMA ApplyKeeps ==
    ASSUME IInv, NEW k \in Slots, Apply(k)
    PROVE  IInv'
<1>1. PICK c \in Call : c = call[k] /\ c.pc = "sent"
  BY DEF IInv, TypeOK, Apply
<1>2. /\ call' = [call EXCEPT ![k].pc = "done"]
      /\ UNCHANGED <<shown, form, load, excused>>
      /\ CreateSeason(c) \/ CreateEpisode(c) \/ UpdatePublished(c)
  BY <1>1 DEF Apply
<1>3. /\ call' \in [Slots -> Call \cup {None}]
      /\ call'[k] \in Call
      /\ call'[k].pc = "done"
      /\ call'[k].what = c.what
      /\ call'[k].season = c.season
      /\ call'[k].under = c.under
      /\ \A l \in Slots \ {k} : call'[l] = call[l]
  <2>1. call' = [call EXCEPT ![k] = [c EXCEPT !.pc = "done"]]
    BY <1>1, <1>2 DEF IInv, TypeOK
  <2> QED
    BY <2>1 DEF IInv, TypeOK, Call
<1>4. db' \in Title
  <2>1. db \in Title
    BY DEF IInv, TypeOK
  <2>2. CASE CreateSeason(c)
    <3>1. c.season \in Seasons
      BY <1>1, <2>2, NoNulls DEF IInv, CallsAreWhole, CreateSeason, Call
    <3> QED
      BY <2>1, <2>2, <3>1 DEF CreateSeason, Title
  <2>3. CASE CreateEpisode(c)
    <3>1. <<c.season, c.number>> \in Seasons \X Numbers
      BY <2>3 DEF CreateEpisode, Call
    <3> QED
      BY <2>1, <2>3, <3>1 DEF CreateEpisode, Title
  <2>4. CASE UpdatePublished(c)
    BY <2>1, <2>4 DEF UpdatePublished, Title, Call
  <2> QED
    BY <1>2, <2>2, <2>3, <2>4
<1>5. TypeOK' /\ FormIsWhereTouched'
  BY <1>2, <1>3, <1>4 DEF IInv, TypeOK, FormIsWhereTouched
<1>6. CallsAreWhole' /\ FiledWhereTouched'
  <2>1. c # None
    BY NoNulls
  <2> QED
    BY <1>1, <1>3, <2>1 DEF IInv, CallsAreWhole, FiledWhereTouched
<1>7. Unanswered'
  BY <1>3, NoNulls DEF Unanswered
<1>8. LoadsFollow'
  BY <1>7 DEF LoadsFollow
<1> QED
  BY <1>5, <1>6, <1>8 DEF IInv

(* The call of slot k is over.                                             *)
LEMMA CallIsOver ==
    ASSUME IInv, NEW k \in Slots, call' = [call EXCEPT ![k] = None]
    PROVE  /\ call' \in [Slots -> Call \cup {None}]
           /\ call'[k] = None
           /\ \A l \in Slots \ {k} : call'[l] = call[l]
           /\ CallsAreWhole'
           /\ FiledWhereTouched'
<1>1. /\ call' \in [Slots -> Call \cup {None}]
      /\ call'[k] = None
      /\ \A l \in Slots \ {k} : call'[l] = call[l]
  BY DEF IInv, TypeOK
<1> QED
  BY <1>1 DEF IInv, CallsAreWhole, FiledWhereTouched

LEMMA RefuseKeeps ==
    ASSUME IInv, NEW k \in Slots, Refuse(k)
    PROVE  IInv'
<1>1. /\ call[k].pc = "sent"
      /\ call' = [call EXCEPT ![k] = None]
      /\ UNCHANGED <<db, shown, form, load, excused>>
  BY DEF Refuse
<1>2. TypeOK' /\ FormIsWhereTouched'
  BY <1>1, CallIsOver DEF IInv, TypeOK, FormIsWhereTouched
<1>3. Unanswered => Unanswered'
  BY <1>1, CallIsOver DEF Unanswered
<1>4. LoadsFollow'
  BY <1>1, <1>3 DEF IInv, LoadsFollow
<1> QED
  BY <1>1, <1>2, <1>4, CallIsOver DEF IInv

LEMMA AnswerLostKeeps ==
    ASSUME IInv, NEW k \in Slots, AnswerLost(k)
    PROVE  IInv'
<1>1. /\ call' = [call EXCEPT ![k] = None]
      /\ excused' = TRUE
      /\ UNCHANGED <<db, shown, form, load>>
  BY DEF AnswerLost
<1>2. TypeOK' /\ FormIsWhereTouched'
  BY <1>1, CallIsOver DEF IInv, TypeOK, FormIsWhereTouched
<1>3. LoadsFollow'
  BY <1>1 DEF LoadsFollow
<1> QED
  BY <1>1, <1>2, <1>3, CallIsOver DEF IInv

(* The answer's load is the only one in flight, or the page is excused.    *)
LEMMA AnsweredKeeps ==
    ASSUME IInv, NEW k \in Slots, Answered(k)
    PROVE  IInv'
<1>1. /\ call' = [call EXCEPT ![k] = None]
      /\ form' = FormAfter(call[k])
      /\ UNCHANGED <<db, shown>>
  BY DEF Answered
<1>2. PICK l \in Slots : AskLoad(l)
  BY DEF Answered
<1>3. /\ load' \in [Slots -> Load \cup {None}]
      /\ load'[l] = Asked
      /\ \A m \in Slots \ {l} : load'[m] = load[m]
      /\ excused' \in BOOLEAN
      /\ ~excused' => \A m \in Slots : load[m] = None
  BY <1>2, NoNulls DEF AskLoad, IInv, TypeOK
<1>4. form' \in Form /\ FormIsWhereTouched'
  <2>1. CASE form' = form
    BY <2>1 DEF IInv, TypeOK, FormIsWhereTouched
  <2>2. CASE form' = [BlankForm EXCEPT !.touched = form.touched]
    <3>1. form' \in Form /\ form'.season = None
      BY <2>2 DEF BlankForm, Form, IInv, TypeOK
    <3> QED
      BY <3>1 DEF FormIsWhereTouched
  <2> QED
    BY <1>1, <2>1, <2>2 DEF FormAfter
<1>5. TypeOK'
  BY <1>1, <1>3, <1>4, CallIsOver DEF IInv, TypeOK
<1>6. LoadsFollow'
  BY <1>3, NoNulls DEF LoadsFollow
<1> QED
  BY <1>1, <1>4, <1>5, <1>6, CallIsOver DEF IInv

LEMMA ElsewhereKeeps ==
    ASSUME IInv, Elsewhere
    PROVE  IInv'
<1>1. /\ db' = [db EXCEPT !.published = ~@]
      /\ excused' = TRUE
      /\ UNCHANGED <<shown, form, call, load>>
  BY DEF Elsewhere
<1>2. db' \in Title
  BY <1>1 DEF IInv, TypeOK, Title
<1>3. TypeOK'
  BY <1>1, <1>2 DEF IInv, TypeOK
<1>4. FormIsWhereTouched' /\ CallsAreWhole' /\ FiledWhereTouched'
  BY <1>1 DEF IInv, FormIsWhereTouched, CallsAreWhole, FiledWhereTouched
<1>5. LoadsFollow'
  BY <1>1 DEF LoadsFollow
<1> QED
  BY <1>3, <1>4, <1>5 DEF IInv

LEMMA DeskStutters ==
    ASSUME IInv, UNCHANGED vars
    PROVE  IInv'
BY DEF vars, IInv, TypeOK, FormIsWhereTouched, CallsAreWhole, LoadsFollow, Unanswered,
   FiledWhereTouched

----------------------------------------------------------------------------
(* The theorems.                                                           *)

(* The inductive invariant: the one form is where it was touched, and a    *)
(* load follows every call that changed the title.                         *)
THEOREM Invariant == Spec => []IInv
<1>1. IInv /\ [Next]_vars => IInv'
  <2> SUFFICES ASSUME IInv, [Next]_vars
               PROVE  IInv'
    OBVIOUS
  <2>1. CASE \E k \in Slots : LoadRead(k) \/ LoadAnswer(k) \/ LoadLost(k)
    BY <2>1, LoadReadKeeps, LoadAnswerKeeps, LoadLostKeeps
  <2>2. CASE \E n \in Seasons, number \in Numbers : Type(n, number)
    BY <2>2, TypeKeeps
  <2>3. CASE \E k \in Slots : Press(k)
    BY <2>3, PressAddEpisodeKeeps, PressAddSeasonKeeps, PressPublishKeeps DEF Press
  <2>4. CASE \E k \in Slots : Apply(k) \/ Refuse(k) \/ AnswerLost(k) \/ Answered(k)
    BY <2>4, ApplyKeeps, RefuseKeeps, AnswerLostKeeps, AnsweredKeeps
  <2>5. CASE Elsewhere
    BY <2>5, ElsewhereKeeps
  <2>6. CASE UNCHANGED vars
    BY <2>6, DeskStutters
  <2> QED
    BY <2>1, <2>2, <2>3, <2>4, <2>5, <2>6 DEF Next
<1> QED
  BY <1>1, InitIsSound, PTL DEF Spec

(* A page with nothing in flight shows the title as it is stored, however  *)
(* many presses and loads overlapped before, unless another admin was at   *)
(* work, an answer was lost or two loads overlapped.                       *)
THEOREM DeskShowsTheTitle == Spec => []DeskIsCurrent
<1>1. IInv => DeskIsCurrent
  BY DEF IInv, LoadsFollow, Unanswered, DeskIsCurrent, AtRest
<1> QED
  BY <1>1, Invariant, PTL

(* An episode added by the button of the season touched before is filed    *)
(* under no other season, whatever late answer empties the form.           *)
THEOREM EpisodesAreFiledWhereTouched == Spec => []FiledWhereTouched
<1>1. IInv => FiledWhereTouched
  BY DEF IInv
<1> QED
  BY <1>1, Invariant, PTL
============================================================================
