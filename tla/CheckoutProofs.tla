--------------------------- MODULE CheckoutProofs ---------------------------
(***************************************************************************)
(* Theorems about Checkout, for any number of rows, of pages and of        *)
(* requests in flight.                                                     *)
(***************************************************************************)
EXTENDS Checkout, TLAPS

USE DEF Begun, Endings, Pages

(* The variables each part of the invariant reads: a step that leaves them *)
(* alone keeps that part.                                                  *)
LEMMA Frame ==
  /\ RowsOfPages /\ UNCHANGED <<status, bought, page, links>> => RowsOfPages'
  /\ OnlyWatchersAsk /\ UNCHANGED <<page, poll>> => OnlyWatchersAsk'
  /\ AnswersStayTrue /\ UNCHANGED <<status, bought, page, poll>> => AnswersStayTrue'
  /\ OneAtATime /\ UNCHANGED <<page, poll>> => OneAtATime'
  /\ BillingKnowsDue /\ UNCHANGED <<status, bought, billing>> => BillingKnowsDue'
  /\ SuccessIsBought /\ UNCHANGED <<bought, page>> => SuccessIsBought'
  /\ FailureFreesUser /\ UNCHANGED <<status, page>> => FailureFreesUser'
BY DEF RowsOfPages, HoldsTxn, OnlyWatchersAsk, Watching, AnswersStayTrue, OneAtATime,
       BillingKnowsDue, SuccessIsBought, FailureFreesUser

LEMMA InitHolds == Init => IInv
<1> SUFFICES ASSUME Init PROVE IInv
  OBVIOUS
<1>1. TypeOK
  BY DEF Init, LifeInit, TypeOK, Page, EmptyForm, Poll, NoPolls, Billing, NoBilling
<1>2. \A v \in Pages : page[v] = EmptyForm /\ \A k \in Slots : poll[v][k] = "idle"
  BY DEF Init, NoPolls
<1>3. \A b \in BillingPages : billing[b] = NoBilling
  BY DEF Init
<1>4. RowsOfPages
  BY <1>2 DEF Init, LifeInit, RowsOfPages, HoldsTxn, EmptyForm
<1>5. OnlyWatchersAsk /\ AnswersStayTrue /\ OneAtATime /\ SuccessIsBought /\ FailureFreesUser
  BY <1>2 DEF OnlyWatchersAsk, AnswersStayTrue, OneAtATime, SuccessIsBought,
              FailureFreesUser, Watching, EmptyForm
<1>6. BillingKnowsDue
  BY <1>3 DEF BillingKnowsDue, NoBilling
<1> QED
  BY <1>1, <1>4, <1>5, <1>6 DEF IInv

----------------------------------------------------------------------------
(* A step of one page that is asking nothing, to a page that shows nothing *)
(* but "pending": the form, opening and leaving.                           *)
LEMMA QuietPage ==
  ASSUME IInv, NEW v \in Pages, NEW p \in Page,
         page' = [page EXCEPT ![v] = p],
         p.shown = "PENDING",
         p.pc = "watching" => p.polling,
         p.pc \in {"started", "watching"} => p.txn \in Txns /\ Begun(p.txn),
         poll' \in [Pages -> [Slots -> Poll]],
         \A k \in Slots : poll'[v][k] = "idle",
         \A w \in Pages \ {v} : poll'[w] = poll[w],
         links' \subseteq Txns,
         \A t \in links' : Begun(t),
         UNCHANGED <<status, bought, billing>>
  PROVE  IInv'
<1>1. page'[v] = p /\ \A w \in Pages \ {v} : page'[w] = page[w]
  BY DEF IInv, TypeOK
<1>2. TypeOK'
  BY DEF IInv, TypeOK
<1>3. RowsOfPages'
  BY <1>1 DEF IInv, RowsOfPages, HoldsTxn
<1>4. OnlyWatchersAsk' /\ OneAtATime'
  BY <1>1 DEF IInv, OnlyWatchersAsk, OneAtATime, Watching
<1>5. AnswersStayTrue'
  BY <1>1 DEF IInv, AnswersStayTrue
<1>6. SuccessIsBought' /\ FailureFreesUser'
  BY <1>1 DEF IInv, SuccessIsBought, FailureFreesUser
<1> QED
  BY <1>2, <1>3, <1>4, <1>5, <1>6, Frame DEF IInv

(* A page that does not watch asks nothing.                                *)
LEMMA IdlePolls ==
  ASSUME IInv, NEW v \in Pages, ~Watching(v)
  PROVE  \A k \in Slots : poll[v][k] = "idle"
BY DEF IInv, OnlyWatchersAsk

LEMMA SubmitStep ==
  ASSUME IInv, NEW v \in Pages, NEW method \in {"mpesa", "bank"}, Submit(v, method)
  PROVE  IInv'
<1> DEFINE p == [page[v] EXCEPT !.pc = "sent", !.method = method]
<1>1. page[v] \in Page /\ page[v].shown = "PENDING" /\ ~Watching(v)
  BY DEF Submit, IInv, TypeOK, OnlyWatchersAsk, Watching
<1>2. p \in Page /\ p.shown = "PENDING" /\ p.pc = "sent"
  BY <1>1 DEF Page
<1>3. page' = [page EXCEPT ![v] = p]
  BY DEF Submit, IInv, TypeOK
<1>4. UNCHANGED <<status, bought, poll, links, billing>>
  BY DEF Submit
<1> HIDE DEF p
<1> QED
  BY <1>1, <1>2, <1>3, <1>4, IdlePolls, QuietPage DEF IInv, TypeOK, RowsOfPages

LEMMA SubmitFailsStep ==
  ASSUME IInv, NEW v \in Pages, SubmitFails(v)
  PROVE  IInv'
<1> DEFINE p == [EmptyForm EXCEPT !.method = page[v].method]
<1>1. ~Watching(v)
  BY DEF SubmitFails, Watching
<1>2. p \in Page /\ p.shown = "PENDING" /\ p.pc = "form"
  BY DEF EmptyForm, Page, IInv, TypeOK
<1>3. page' = [page EXCEPT ![v] = p] /\ UNCHANGED <<status, bought, poll, links, billing>>
  BY DEF SubmitFails
<1> HIDE DEF p
<1> QED
  BY <1>1, <1>2, <1>3, IdlePolls, QuietPage DEF IInv, TypeOK, RowsOfPages

(* Both pages begin to watch in the same way.                              *)
LEMMA WatchStep ==
  ASSUME IInv, NEW v \in Pages, NEW t \in Txns, ~Watching(v), Begun(t), Watch(v, t),
         UNCHANGED <<status, bought, poll, links, billing>>
  PROVE  IInv'
<1> DEFINE p == [EmptyForm EXCEPT !.pc = "watching", !.txn = t, !.polling = TRUE]
<1>1. p \in Page /\ p.shown = "PENDING" /\ p.pc = "watching" /\ p.polling /\ p.txn = t
  BY DEF EmptyForm, Page
<1>2. page' = [page EXCEPT ![v] = p]
  BY DEF Watch
<1> HIDE DEF p
<1> QED
  BY <1>1, <1>2, IdlePolls, QuietPage DEF IInv, TypeOK, RowsOfPages

LEMMA BankRedirectStep ==
  ASSUME IInv, NEW v \in Pages, BankRedirect(v)
  PROVE  IInv'
<1>1. ~Watching(v) /\ page[v].txn \in Txns /\ Begun(page[v].txn)
  BY DEF BankRedirect, Watching, IInv, RowsOfPages, HoldsTxn
<1>2. ClosedPage \in Page /\ ClosedPage.shown = "PENDING" /\ ClosedPage.pc = "closed"
  BY DEF ClosedPage, EmptyForm, Page
<1>3. links' \subseteq Txns /\ \A t \in links' : Begun(t)
  BY <1>1 DEF BankRedirect, IInv, TypeOK, RowsOfPages
<1>4. page' = [page EXCEPT ![v] = ClosedPage] /\ UNCHANGED <<status, bought, poll, billing>>
  BY DEF BankRedirect
<1>5. poll \in [Pages -> [Slots -> Poll]]
  BY DEF IInv, TypeOK
<1> QED
  BY <1>1, <1>2, <1>3, <1>4, <1>5, IdlePolls, QuietPage

LEMMA CloseStep ==
  ASSUME IInv, NEW v \in Pages, Close(v)
  PROVE  IInv'
<1>1. ClosedPage \in Page /\ ClosedPage.shown = "PENDING" /\ ClosedPage.pc = "closed"
  BY DEF ClosedPage, EmptyForm, Page
<1>2. /\ poll' \in [Pages -> [Slots -> Poll]]
      /\ \A k \in Slots : poll'[v][k] = "idle"
      /\ \A w \in Pages \ {v} : poll'[w] = poll[w]
  BY DEF Close, IInv, TypeOK, NoPolls, Poll
<1> QED
  BY <1>1, <1>2, QuietPage DEF Close, IInv, TypeOK, RowsOfPages

----------------------------------------------------------------------------
(* What every row keeps when rows begin and move on.                       *)
RowsMoveOn ==
    /\ status' \in [Txns -> {"ABSENT", "PENDING"} \cup Endings]
    /\ bought' \subseteq Txns
    /\ bought \subseteq bought'
    /\ \A t \in Txns :
        /\ Begun(t) => Begun(t)'
        /\ status[t] \in Endings => status'[t] \in Endings
        /\ status'[t] = "SUCCEEDED" => t \in bought'
        /\ t \in bought' => status'[t] \in Endings

LEMMA BeginMovesOn ==
  ASSUME IInv, NEW t \in Txns, Begin(t)
  PROVE  RowsMoveOn /\ Begun(t)'
BY DEF IInv, TypeOK, RowsOfPages, Begin, RowsMoveOn

LEMMA ResolveMovesOn ==
  ASSUME IInv, NEW t \in Txns, Resolve(t)
  PROVE  RowsMoveOn
<1>1. CASE Succeed(t)
  BY <1>1 DEF IInv, TypeOK, RowsOfPages, Succeed, RowsMoveOn
<1>2. ASSUME NEW how \in {"FAILED", "TIMED_OUT"}, GiveUp(t, how)
      PROVE  RowsMoveOn
  BY <1>2 DEF IInv, TypeOK, RowsOfPages, GiveUp, RowsMoveOn
<1> QED
  BY <1>1, <1>2 DEF Resolve

(* Where rows only move on, what billing pages are due stays due.          *)
LEMMA DueStaysDue ==
  ASSUME IInv, RowsMoveOn, UNCHANGED billing
  PROVE  BillingKnowsDue'
<1>1. \A b \in BillingPages : billing[b].due \subseteq Txns
  BY DEF IInv, TypeOK, Billing
<1> QED
  BY <1>1 DEF IInv, BillingKnowsDue, RowsMoveOn

(* The rows move on under pages that stay as they are.                     *)
LEMMA RowStepHolds ==
  ASSUME IInv, RowStep
  PROVE  IInv'
<1>1. RowsMoveOn
  BY BeginMovesOn, ResolveMovesOn DEF RowStep, LifeNext
<1>2. UNCHANGED <<page, poll, links, billing>>
  BY DEF RowStep, pages
<1>3. \A v \in Pages : Watching(v) => page[v].txn \in Txns
  BY DEF IInv, RowsOfPages, HoldsTxn, Watching
<1>4. TypeOK'
  BY <1>1, <1>2 DEF IInv, TypeOK, RowsMoveOn
<1>5. RowsOfPages'
  BY <1>1, <1>2 DEF IInv, TypeOK, RowsOfPages, HoldsTxn, RowsMoveOn
<1>6. AnswersStayTrue'
  BY <1>1, <1>2, <1>3 DEF IInv, AnswersStayTrue, OnlyWatchersAsk, RowsMoveOn
<1>7. SuccessIsBought'
  BY <1>1, <1>2 DEF IInv, SuccessIsBought, RowsMoveOn
<1>8. FailureFreesUser'
  <2> SUFFICES ASSUME NEW v \in Pages, page[v].shown \in {"FAILED", "TIMED_OUT"}
               PROVE  status'[page[v].txn] # "PENDING"
    BY <1>2 DEF FailureFreesUser
  <2>1. page[v].txn \in Txns /\ Begun(page[v].txn) /\ status[page[v].txn] # "PENDING"
    BY DEF IInv, OnlyWatchersAsk, FailureFreesUser, RowsOfPages, HoldsTxn, Watching
  <2>2. status[page[v].txn] \in Endings
    BY <2>1 DEF IInv, TypeOK
  <2> QED
    BY <1>1, <2>1, <2>2 DEF RowsMoveOn
<1> QED
  BY <1>1, <1>2, <1>4, <1>5, <1>6, <1>7, <1>8, DueStaysDue, Frame DEF IInv

(* A row begins, and a page that does not watch yet gets to know it.       *)
LEMMA StartedStep ==
  ASSUME IInv, NEW v \in Pages, NEW t \in Txns, Started(v, t)
  PROVE  IInv'
<1>1. RowsMoveOn /\ Begun(t)' /\ UNCHANGED <<bought, poll, links, billing>>
  BY BeginMovesOn DEF Started, Begin
<1>2. ~Watching(v) /\ page[v].shown = "PENDING"
  BY DEF Started, Watching, IInv, OnlyWatchersAsk
<1>3. /\ page'[v] = [page[v] EXCEPT !.pc = "started", !.txn = t]
      /\ \A w \in Pages \ {v} : page'[w] = page[w]
  BY DEF Started, IInv, TypeOK
<1>4. page[v] \in Page
  BY DEF IInv, TypeOK
<1>5. page'[v].pc = "started" /\ page'[v].txn = t /\ page'[v].shown = "PENDING"
      /\ page'[v] \in Page
  BY <1>2, <1>3, <1>4 DEF Page
<1>6. \A w \in Pages : Watching(w) => page[w].txn \in Txns /\ Begun(page[w].txn)
  BY DEF IInv, RowsOfPages, HoldsTxn, Watching
<1>7. TypeOK'
  <2>1. page' \in [Pages -> Page]
    BY <1>3, <1>5 DEF Started, IInv, TypeOK
  <2> QED
    BY <1>1, <2>1 DEF IInv, TypeOK, RowsMoveOn
<1>8. RowsOfPages'
  <2>1. ASSUME NEW w \in Pages, HoldsTxn(w)'
        PROVE  page'[w].txn \in Txns /\ status'[page'[w].txn] # "ABSENT"
    <3>1. CASE w = v
      BY <1>1, <1>5, <3>1
    <3>2. CASE w # v
      BY <1>1, <1>3, <2>1, <3>2 DEF IInv, RowsOfPages, HoldsTxn, RowsMoveOn
    <3> QED
      BY <3>1, <3>2
  <2>2. \A u \in links' : Begun(u)'
    BY <1>1 DEF IInv, TypeOK, RowsOfPages, RowsMoveOn
  <2> QED
    BY <1>1, <2>1, <2>2 DEF RowsOfPages, RowsMoveOn
<1>9. \A k \in Slots : poll'[v][k] = "idle"
  <2>1. \A k \in Slots : poll[v][k] = "idle"
    BY <1>2, IdlePolls
  <2> QED
    BY <1>1, <2>1
<1>10. \A w \in Pages \ {v} : page'[w] = page[w] /\ poll'[w] = poll[w]
  BY <1>1, <1>3
<1>11. OnlyWatchersAsk' /\ OneAtATime'
  <2>1. OnlyWatchersAsk'
    BY <1>5, <1>9, <1>10 DEF IInv, OnlyWatchersAsk, Watching
  <2>2. OneAtATime'
    <3> SUFFICES ASSUME NEW w \in ReturnPages
                 PROVE  /\ \A k, l \in Slots :
                             poll'[w][k] # "idle" /\ poll'[w][l] # "idle" => k = l
                        /\ page'[w].pc = "watching" /\ ~page'[w].polling =>
                             /\ page'[w].shown # "PENDING"
                             /\ \A k \in Slots : poll'[w][k] = "idle"
      BY DEF OneAtATime, Watching
    <3>1. CASE w = v
      BY <3>1, <1>5, <1>9
    <3>2. CASE w # v
      BY <3>2, <1>10 DEF IInv, OneAtATime, Watching
    <3> QED
      BY <3>1, <3>2
  <2> QED
    BY <2>1, <2>2
<1>12. AnswersStayTrue'
  <2>1. ASSUME NEW w \in Pages \ {v}, NEW k \in Slots
        PROVE  /\ poll[w][k] = "SUCCEEDED" => page[w].txn \in bought
               /\ poll[w][k] \in Endings =>
                    page[w].txn \in Txns /\ status[page[w].txn] \in Endings
    BY <2>1, <1>6 DEF IInv, OnlyWatchersAsk, AnswersStayTrue
  <2>2. ASSUME NEW w \in Pages \ {v}, NEW k \in Slots
        PROVE  /\ poll'[w][k] = "SUCCEEDED" => page'[w].txn \in bought'
               /\ poll'[w][k] \in Endings => status'[page'[w].txn] \in Endings
    BY <1>1, <1>10, <2>1 DEF RowsMoveOn
  <2> QED
    BY <1>9, <2>2 DEF AnswersStayTrue
<1>13. SuccessIsBought'
  BY <1>1, <1>3, <1>5 DEF IInv, SuccessIsBought
<1>14. FailureFreesUser'
  <2> SUFFICES ASSUME NEW w \in Pages \ {v}, page[w].shown \in {"FAILED", "TIMED_OUT"}
               PROVE  status'[page[w].txn] # "PENDING"
    BY <1>3, <1>5 DEF FailureFreesUser
  <2>1. page[w].txn \in Txns /\ Begun(page[w].txn) /\ status[page[w].txn] # "PENDING"
    BY <1>6 DEF IInv, OnlyWatchersAsk, FailureFreesUser
  <2>2. status[page[w].txn] \in Endings
    BY <2>1 DEF IInv, TypeOK
  <2> QED
    BY <1>1, <2>1, <2>2 DEF RowsMoveOn
<1> QED
  BY <1>1, <1>7, <1>8, <1>11, <1>12, <1>13, <1>14, DueStaysDue DEF IInv

----------------------------------------------------------------------------
(* Watching.                                                               *)

LEMMA PollUpdate ==
  ASSUME IInv, NEW v \in Pages, NEW k \in Slots, NEW x \in Poll,
         poll' = [poll EXCEPT ![v][k] = x]
  PROVE  /\ poll' \in [Pages -> [Slots -> Poll]]
         /\ \A l \in Slots : poll'[v][l] = IF l = k THEN x ELSE poll[v][l]
         /\ \A w \in Pages \ {v} : poll'[w] = poll[w]
BY DEF IInv, TypeOK

(* Of a page's requests one changes, and the page does not.                *)
LEMMA PollChange ==
  ASSUME IInv, NEW v \in Pages, NEW k \in Slots, NEW x \in Poll,
         poll' = [poll EXCEPT ![v][k] = x],
         UNCHANGED <<status, bought, page, links, billing>>,
         x # "idle" => Watching(v),
         x \in Endings => x = status[page[v].txn],
         v \in ReturnPages /\ x # "idle" =>
            page[v].polling /\ \A l \in Slots \ {k} : poll[v][l] = "idle"
  PROVE  IInv'
<1>1. /\ poll' \in [Pages -> [Slots -> Poll]]
      /\ \A l \in Slots : poll'[v][l] = IF l = k THEN x ELSE poll[v][l]
      /\ \A w \in Pages \ {v} : poll'[w] = poll[w]
  BY PollUpdate
<1>2. TypeOK'
  BY <1>1 DEF IInv, TypeOK
<1>3. OnlyWatchersAsk'
  BY <1>1 DEF IInv, OnlyWatchersAsk, Watching
<1>4. x \in Endings =>
        status[page[v].txn] \in Endings /\ (x = "SUCCEEDED" => page[v].txn \in bought)
  BY DEF IInv, RowsOfPages, HoldsTxn, Watching
<1>5. AnswersStayTrue'
  BY <1>1, <1>4 DEF IInv, AnswersStayTrue
<1>6. OneAtATime'
  <2>1. ASSUME NEW w \in ReturnPages \ {v}
        PROVE  poll'[w] = poll[w]
    BY <1>1
  <2>2. CASE v \notin ReturnPages
    BY <2>1, <2>2 DEF IInv, OneAtATime, Watching
  <2>3. CASE v \in ReturnPages
    BY <1>1, <2>1, <2>3 DEF IInv, OneAtATime, Watching
  <2> QED
    BY <2>2, <2>3
<1> QED
  BY <1>2, <1>3, <1>5, <1>6, Frame DEF IInv

LEMMA PollSendStep ==
  ASSUME IInv, NEW v \in Pages, NEW k \in Slots, PollSend(v, k)
  PROVE  IInv'
<1>1. v \in ReturnPages => \A l \in Slots : poll[v][l] = "idle"
  BY PagesAssumption DEF PollSend, MaySend, NoPolls
<1> QED
  BY <1>1, PollChange DEF PollSend, Poll

LEMMA PollReadStep ==
  ASSUME IInv, NEW v \in Pages, NEW k \in Slots, PollRead(v, k)
  PROVE  IInv'
<1> DEFINE x == status[page[v].txn]
<1>1. Watching(v) /\ page[v].txn \in Txns /\ x # "ABSENT"
  BY DEF PollRead, IInv, OnlyWatchersAsk, RowsOfPages, HoldsTxn, Watching
<1>2. x \in Poll
  BY <1>1 DEF IInv, TypeOK, Poll
<1>3. v \in ReturnPages =>
        page[v].polling /\ \A l \in Slots \ {k} : poll[v][l] = "idle"
  BY <1>1 DEF PollRead, IInv, OneAtATime
<1>4. /\ poll' = [poll EXCEPT ![v][k] = x]
      /\ UNCHANGED <<status, bought, page, links, billing>>
  BY DEF PollRead
<1> HIDE DEF x
<1>5. x = status[page[v].txn]
  BY DEF x
<1> QED
  BY <1>1, <1>2, <1>3, <1>4, <1>5, PollChange

LEMMA PollLostStep ==
  ASSUME IInv, NEW v \in Pages, NEW k \in Slots, PollLost(v, k)
  PROVE  IInv'
BY PollChange DEF PollLost, Poll

(* The answer that is shown may be older than what is shown already, but   *)
(* an ending it tells of is true.                                          *)
LEMMA PollAnswerStep ==
  ASSUME IInv, NEW v \in Pages, NEW k \in Slots, PollAnswer(v, k)
  PROVE  IInv'
<1> DEFINE x == poll[v][k]
<1>1. x \in {"PENDING"} \cup Endings /\ Watching(v)
  BY DEF PollAnswer, IInv, OnlyWatchersAsk
<1>2. /\ poll' \in [Pages -> [Slots -> Poll]]
      /\ \A l \in Slots : poll'[v][l] = IF l = k THEN "idle" ELSE poll[v][l]
      /\ \A w \in Pages \ {v} : poll'[w] = poll[w]
  BY PollUpdate DEF PollAnswer, Poll
<1>3. /\ page' \in [Pages -> Page]
      /\ page'[v].pc = "watching" /\ page'[v].txn = page[v].txn /\ page'[v].shown = x
      /\ page'[v].polling = (page[v].polling /\ x = "PENDING")
      /\ \A w \in Pages \ {v} : page'[w] = page[w]
  <2>1. page[v] \in Page
    BY DEF IInv, TypeOK
  <2> QED
    BY <1>1, <2>1 DEF PollAnswer, IInv, TypeOK, Page, Watching
<1>4. UNCHANGED <<status, bought, links, billing>>
  BY DEF PollAnswer
<1> HIDE DEF x
<1>5. TypeOK'
  BY <1>2, <1>3, <1>4 DEF IInv, TypeOK
<1>6. RowsOfPages'
  BY <1>1, <1>3, <1>4 DEF IInv, RowsOfPages, HoldsTxn, Watching
<1>7. OnlyWatchersAsk'
  BY <1>2, <1>3 DEF IInv, OnlyWatchersAsk, Watching
<1>8. AnswersStayTrue'
  BY <1>2, <1>3, <1>4 DEF IInv, AnswersStayTrue
<1>9. /\ x = "SUCCEEDED" => page[v].txn \in bought
      /\ x \in Endings => status[page[v].txn] \in Endings
  BY DEF IInv, AnswersStayTrue, x
<1>10. SuccessIsBought'
  BY <1>3, <1>4, <1>9 DEF IInv, SuccessIsBought
<1>11. FailureFreesUser'
  BY <1>3, <1>4, <1>9 DEF IInv, FailureFreesUser
<1>12. OneAtATime'
  <2>1. ASSUME NEW w \in ReturnPages \ {v}
        PROVE  poll'[w] = poll[w] /\ page'[w] = page[w]
    BY <1>2, <1>3
  <2>2. CASE v \notin ReturnPages
    BY <2>1, <2>2 DEF IInv, OneAtATime, Watching
  <2>3. CASE v \in ReturnPages
    <3>1. \A l \in Slots : poll'[v][l] = "idle"
      BY <1>1, <1>2, <2>3 DEF IInv, OneAtATime, x
    <3>2. page[v].polling
      BY <1>1, <2>3 DEF IInv, OneAtATime, x
    <3>3. ~page'[v].polling => page'[v].shown # "PENDING"
      BY <1>3, <3>2
    <3> QED
      BY <2>1, <3>1, <3>3 DEF IInv, OneAtATime, Watching
  <2> QED
    BY <2>2, <2>3
<1> QED
  BY <1>4, <1>5, <1>6, <1>7, <1>8, <1>10, <1>11, <1>12, Frame DEF IInv

----------------------------------------------------------------------------
(* Billing: what a page is due when it is opened, every later read finds.  *)

LEMMA BillingChange ==
  ASSUME IInv, NEW b \in BillingPages, NEW n \in Billing,
         billing' = [billing EXCEPT ![b] = n],
         UNCHANGED <<status, bought, page, poll, links>>,
         \A t \in n.due : t \in bought /\ status[t] \in Endings,
         n.subscription # None => n.due \subseteq n.subscription,
         n.history # None => n.due \subseteq n.history
  PROVE  IInv'
<1>1. billing'[b] = n /\ \A c \in BillingPages \ {b} : billing'[c] = billing[c]
  BY DEF IInv, TypeOK
<1>2. TypeOK'
  BY DEF IInv, TypeOK
<1>3. BillingKnowsDue'
  BY <1>1 DEF IInv, BillingKnowsDue
<1> QED
  BY <1>2, <1>3, Frame DEF IInv

LEMMA OpenBillingStep ==
  ASSUME IInv, NEW b \in BillingPages, OpenBilling(b)
  PROVE  IInv'
<1> DEFINE n == [NoBilling EXCEPT !.pc = "open", !.due = CalledSuccessful]
<1>1. \A t \in CalledSuccessful : t \in Txns /\ t \in bought /\ status[t] \in Endings
  <2> SUFFICES ASSUME NEW v \in Pages, page[v].shown = "SUCCEEDED"
               PROVE  LET t == page[v].txn
                      IN  t \in Txns /\ t \in bought /\ status[t] \in Endings
    BY DEF CalledSuccessful
  <2> DEFINE t == page[v].txn
  <2>1. t \in Txns /\ Begun(t)
    BY DEF IInv, OnlyWatchersAsk, RowsOfPages, HoldsTxn, Watching
  <2>2. t \in bought
    BY DEF IInv, SuccessIsBought
  <2> QED
    BY <2>1, <2>2 DEF IInv, RowsOfPages
<1>2. n \in Billing /\ n.due = CalledSuccessful /\ n.subscription = None /\ n.history = None
  BY <1>1 DEF NoBilling, Billing
<1>3. /\ billing' = [billing EXCEPT ![b] = n]
      /\ UNCHANGED <<status, bought, page, poll, links>>
  BY DEF OpenBilling
<1> HIDE DEF n
<1> QED
  BY <1>1, <1>2, <1>3, BillingChange

LEMMA ReadSubscriptionStep ==
  ASSUME IInv, NEW b \in BillingPages, ReadSubscription(b)
  PROVE  IInv'
<1> DEFINE n == [billing[b] EXCEPT !.subscription = bought]
<1>1. billing[b] \in Billing /\ bought \subseteq Txns
  BY DEF IInv, TypeOK
<1>2. /\ n \in Billing /\ n.due = billing[b].due
      /\ n.subscription = bought /\ n.history = billing[b].history
  BY <1>1 DEF Billing
<1>3. billing' = [billing EXCEPT ![b] = n]
  BY DEF ReadSubscription, IInv, TypeOK
<1>4. UNCHANGED <<status, bought, page, poll, links>>
  BY DEF ReadSubscription
<1> HIDE DEF n
<1> QED
  BY <1>2, <1>3, <1>4, BillingChange DEF IInv, BillingKnowsDue

LEMMA ReadHistoryStep ==
  ASSUME IInv, NEW b \in BillingPages, ReadHistory(b)
  PROVE  IInv'
<1> DEFINE listed == {t \in Txns : status[t] \in Endings}
           n == [billing[b] EXCEPT !.history = listed]
<1>1. billing[b] \in Billing
  BY DEF IInv, TypeOK
<1>2. /\ n \in Billing /\ n.due = billing[b].due
      /\ n.subscription = billing[b].subscription /\ n.history = listed
  BY <1>1 DEF Billing
<1>3. billing' = [billing EXCEPT ![b] = n]
  BY DEF ReadHistory, IInv, TypeOK
<1>4. UNCHANGED <<status, bought, page, poll, links>>
  BY DEF ReadHistory
<1>5. n.due \subseteq listed
  BY <1>1, <1>2 DEF IInv, BillingKnowsDue, Billing
<1> HIDE DEF n
<1> QED
  BY <1>2, <1>3, <1>4, <1>5, BillingChange DEF IInv, BillingKnowsDue

LEMMA BillingFailsStep ==
  ASSUME IInv, NEW b \in BillingPages, BillingFails(b)
  PROVE  IInv'
<1> DEFINE n == [NoBilling EXCEPT !.pc = "error"]
<1>1. n \in Billing /\ n.due = {} /\ n.subscription = None /\ n.history = None
  BY DEF NoBilling, Billing
<1>2. /\ billing' = [billing EXCEPT ![b] = n]
      /\ UNCHANGED <<status, bought, page, poll, links>>
  BY DEF BillingFails
<1> HIDE DEF n
<1> QED
  BY <1>1, <1>2, BillingChange

----------------------------------------------------------------------------
LEMMA FormStepHolds ==
  ASSUME IInv, NEW v \in SubscribePages, FormStep(v)
  PROVE  IInv'
<1>1. CASE MpesaAccepted(v)
  BY <1>1, WatchStep DEF MpesaAccepted, Watching, IInv, RowsOfPages, HoldsTxn
<1> QED
  BY <1>1, SubmitStep, StartedStep, SubmitFailsStep, BankRedirectStep DEF FormStep

LEMMA ReturnStep ==
  ASSUME IInv, NEW v \in ReturnPages, NEW t \in Txns, Return(v, t)
  PROVE  IInv'
BY WatchStep DEF Return, Watching, IInv, RowsOfPages

LEMMA IInvNext == IInv /\ [Next]_vars => IInv'
<1> SUFFICES ASSUME IInv, [Next]_vars PROVE IInv'
  OBVIOUS
<1>1. CASE UNCHANGED vars
  <2>1. TypeOK'
    BY <1>1 DEF vars, pages, IInv, TypeOK
  <2> QED
    BY <1>1, <2>1, Frame DEF vars, pages, IInv
<1>2. ASSUME NEW v \in Pages, NEW k \in Slots, PollStep(v, k)
      PROVE  IInv'
  BY <1>2, PollSendStep, PollReadStep, PollAnswerStep, PollLostStep DEF PollStep
<1>3. ASSUME NEW b \in BillingPages, BillingStep(b)
      PROVE  IInv'
  BY <1>3, OpenBillingStep, ReadSubscriptionStep, ReadHistoryStep, BillingFailsStep
  DEF BillingStep
<1> QED
  BY <1>1, <1>2, <1>3, FormStepHolds, ReturnStep, CloseStep, RowStepHolds DEF Next

(* The inductive invariant holds: no answer, however late, is out of date  *)
(* in what it says of an ending, and the return page asks one at a time.   *)
THEOREM CheckoutInvariance == Spec => []IInv
<1> QED
  BY InitHolds, IInvNext, PTL DEF Spec

(* "Your subscription is now active" is never shown of a payment that      *)
(* bought nothing, whatever the redirect said.                             *)
THEOREM NoFalseSuccess == Spec => []SuccessIsBought
<1>1. IInv => SuccessIsBought
  BY DEF IInv
<1> QED
  BY <1>1, CheckoutInvariance, PTL

(* "You can try again" is never shown of a payment still pending.          *)
THEOREM NoFalseFailure == Spec => []FailureFreesUser
<1>1. IInv => FailureFreesUser
  BY DEF IInv
<1> QED
  BY <1>1, CheckoutInvariance, PTL

(* The return page goes on asking while it shows a payment as pending.     *)
THEOREM ReturnAsksOn == Spec => []ReturnNeverStuck
<1>1. IInv => ReturnNeverStuck
  BY DEF IInv, OneAtATime, ReturnNeverStuck
<1> QED
  BY <1>1, CheckoutInvariance, PTL

(* A billing page opened after "Payment successful" shows what was bought. *)
THEOREM BillingReadsTheWrites == Spec => []BillingFollowsCheckout
<1>1. IInv => BillingFollowsCheckout
  BY DEF IInv, BillingKnowsDue, BillingFollowsCheckout
<1> QED
  BY <1>1, CheckoutInvariance, PTL
============================================================================
