------------------------------- MODULE Checkout -------------------------------
(***************************************************************************)
(* A customer's pages around a payment: /subscribe, which starts one and   *)
(* watches an M-Pesa payment with an interval; /subscribe/return, to which *)
(* the bank gateway sends the browser back and which watches with a chain  *)
(* of timeouts; and /billing.  The rows they watch live by TransactionLife,*)
(* which Payments implements; whether a row may begin is Payments' affair. *)
(*                                                                         *)
(* The two ways of watching differ in one guard, MaySend: an interval asks *)
(* again every three seconds whatever is still unanswered, so its answers  *)
(* overlap, and may arrive in another order than the server wrote them.    *)
(***************************************************************************)
EXTENDS TransactionLife

CONSTANTS
    SubscribePages, \* mounts of /subscribe
    ReturnPages,    \* mounts of /subscribe/return
    BillingPages,   \* mounts of /billing
    Slots,          \* bound: status requests of a page in flight at once
    None

Pages == SubscribePages \cup ReturnPages

ASSUME PagesAssumption ==
    /\ SubscribePages \cap ReturnPages = {}
    /\ None \notin Txns

VARIABLES
    page,           \* what each page is at, and shows
    poll,           \* the status requests of each page
    links,          \* bank checkouts the browser was sent to
    billing         \* what each billing page has loaded

pages == <<page, poll, links, billing>>
vars  == <<status, bought, pages>>

Endings == {"SUCCEEDED", "FAILED", "TIMED_OUT"}

(* told is history: whether the page has ever shown how the payment ended. *)
Page == [pc : {"form", "sent", "started", "watching", "closed"},
         method : {"mpesa", "bank", None}, txn : Txns \cup {None},
         shown : {"PENDING"} \cup Endings, polling : BOOLEAN, told : BOOLEAN]
EmptyForm == [pc |-> "form", method |-> None, txn |-> None,
              shown |-> "PENDING", polling |-> FALSE, told |-> FALSE]
ClosedPage == [EmptyForm EXCEPT !.pc = "closed"]

Poll == {"idle", "asked", "PENDING"} \cup Endings
NoPolls == [k \in Slots |-> "idle"]

(* due is history: the payments that pages had called successful when the  *)
(* billing page was opened.                                                *)
Billing == [pc : {"closed", "open", "error"}, due : SUBSET Txns,
            subscription : {None} \cup SUBSET Txns,
            history : {None} \cup SUBSET Txns]
NoBilling == [pc |-> "closed", due |-> {}, subscription |-> None, history |-> None]

TypeOK ==
    /\ status \in [Txns -> {"ABSENT", "PENDING"} \cup Endings]
    /\ bought \subseteq Txns
    /\ page \in [Pages -> Page]
    /\ poll \in [Pages -> [Slots -> Poll]]
    /\ links \subseteq Txns
    /\ billing \in [BillingPages -> Billing]

Init ==
    /\ LifeInit
    /\ page = [v \in Pages |-> EmptyForm]
    /\ poll = [v \in Pages |-> NoPolls]
    /\ links = {}
    /\ billing = [b \in BillingPages |-> NoBilling]

----------------------------------------------------------------------------
(* The form of /subscribe.                                                 *)

(* A method once chosen stays chosen, and the button is disabled until the *)
(* answer is in.                                                           *)
Submit(v, method) ==
    /\ page[v].pc = "form"
    /\ page[v].method \in {None, method}
    /\ page' = [page EXCEPT ![v].pc = "sent", ![v].method = method]
    /\ UNCHANGED <<status, bought, poll, links, billing>>

(* Mutant of Started: the key is answered before the row is there.         *)
StartedUnwritten(v, t) ==
    /\ page[v].pc = "sent"
    /\ page' = [page EXCEPT ![v].pc = "started", ![v].txn = t]
    /\ UNCHANGED <<status, bought, poll, links, billing>>

(* The request reaches the backend, which creates row t.                   *)
Started(v, t) ==
    /\ page[v].pc = "sent"
    /\ Begin(t)
    /\ page' = [page EXCEPT ![v].pc = "started", ![v].txn = t]
    /\ UNCHANGED <<poll, links, billing>>

(* 409, 422, a refused initiation or a lost answer: an alert, and the form *)
(* can be sent again.  In the last two cases there is a row all the same.  *)
SubmitFails(v) ==
    /\ page[v].pc \in {"sent", "started"}
    /\ page' = [page EXCEPT ![v] = [EmptyForm EXCEPT !.method = page[v].method]]
    /\ UNCHANGED <<status, bought, poll, links, billing>>

Watch(v, t) ==
    page' = [page EXCEPT ![v] =
        [EmptyForm EXCEPT !.pc = "watching", !.txn = t, !.polling = TRUE]]

(* submitMpesa: "Check your phone", and the interval of usePolling starts. *)
MpesaAccepted(v) ==
    /\ page[v].pc = "started"
    /\ page[v].method = "mpesa"
    /\ Watch(v, page[v].txn)
    /\ UNCHANGED <<status, bought, poll, links, billing>>

(* submitBankGateway: the browser leaves for the gateway's checkout.       *)
BankRedirect(v) ==
    /\ page[v].pc = "started"
    /\ page[v].method = "bank"
    /\ links' = links \cup {page[v].txn}
    /\ page' = [page EXCEPT ![v] = ClosedPage]
    /\ UNCHANGED <<status, bought, poll, billing>>

(* Mutant of Return: the page believes the redirect's query string.        *)
ReturnTrusting(v, t) ==
    /\ page[v].pc = "form"
    /\ t \in links
    /\ page' = [page EXCEPT ![v] =
          [EmptyForm EXCEPT !.pc = "watching", !.txn = t, !.shown = "SUCCEEDED"]]
    /\ UNCHANGED <<status, bought, poll, links, billing>>

(* /subscribe/return?tx_ref=t: "Confirming your payment".  The gateway     *)
(* sends the browser here paid or not, before or after its webhook.        *)
Return(v, t) ==
    /\ page[v].pc = "form"
    /\ t \in links
    /\ Watch(v, t)
    /\ UNCHANGED <<status, bought, poll, links, billing>>

(* The customer leaves: an answer to come is dropped.                      *)
Close(v) ==
    /\ page[v].pc \in {"form", "watching"}
    /\ page' = [page EXCEPT ![v] = ClosedPage]
    /\ poll' = [poll EXCEPT ![v] = NoPolls]
    /\ UNCHANGED <<status, bought, links, billing>>

----------------------------------------------------------------------------
(* Watching.                                                               *)

Watching(v) == page[v].pc = "watching"

(* Mutant of MaySend: the return page watches with an interval too.        *)
MaySendOverlapping(v) == TRUE

(* The interval of /subscribe asks again whatever is still unanswered; the *)
(* return page sets its next timeout when an answer, or an error, is in.   *)
MaySend(v) == v \in SubscribePages \/ poll[v] = NoPolls

PollSend(v, k) ==
    /\ Watching(v)
    /\ page[v].polling
    /\ MaySend(v)
    /\ poll[v][k] = "idle"
    /\ poll' = [poll EXCEPT ![v][k] = "asked"]
    /\ UNCHANGED <<status, bought, page, links, billing>>

(* GET /payments/:id/status reads the row.                                 *)
PollRead(v, k) ==
    /\ poll[v][k] = "asked"
    /\ poll' = [poll EXCEPT ![v][k] = status[page[v].txn]]
    /\ UNCHANGED <<status, bought, page, links, billing>>

(* An answer is shown, and ends the watching unless it is PENDING.  What   *)
(* is still in flight when the interval is cleared is shown as well.       *)
PollAnswer(v, k) ==
    /\ poll[v][k] \in {"PENDING"} \cup Endings
    /\ page' = [page EXCEPT
          ![v].shown = poll[v][k],
          ![v].polling = @ /\ poll[v][k] = "PENDING",
          ![v].told = @ \/ poll[v][k] # "PENDING"]
    /\ poll' = [poll EXCEPT ![v][k] = "idle"]
    /\ UNCHANGED <<status, bought, links, billing>>

(* Mutants of PollLost: an error reads as a failed payment; and an error   *)
(* ends the watching.                                                      *)
PollLostIsFailure(v, k) ==
    /\ poll[v][k] # "idle"
    /\ poll' = [poll EXCEPT ![v][k] = "idle"]
    /\ page' = [page EXCEPT ![v].shown = "FAILED"]
    /\ UNCHANGED <<status, bought, links, billing>>

PollLostIsTheEnd(v, k) ==
    /\ poll[v][k] # "idle"
    /\ poll' = [poll EXCEPT ![v][k] = "idle"]
    /\ page' = [page EXCEPT ![v].polling = FALSE]
    /\ UNCHANGED <<status, bought, links, billing>>

(* The request or its answer is lost: nothing is shown, the page asks on.  *)
PollLost(v, k) ==
    /\ poll[v][k] # "idle"
    /\ poll' = [poll EXCEPT ![v][k] = "idle"]
    /\ UNCHANGED <<status, bought, page, links, billing>>

----------------------------------------------------------------------------
(* /billing: two requests at once, shown when both have been answered.     *)

CalledSuccessful == {page[v].txn : v \in {w \in Pages : page[w].shown = "SUCCEEDED"}}

OpenBilling(b) ==
    /\ billing[b].pc = "closed"
    /\ billing' = [billing EXCEPT ![b] =
          [NoBilling EXCEPT !.pc = "open", !.due = CalledSuccessful]]
    /\ UNCHANGED <<status, bought, page, poll, links>>

(* Mutant of ReadSubscription: whether there is one is told from whether   *)
(* the last payment's row reads SUCCEEDED.                                 *)
SubscriptionByStatus(b) ==
    /\ billing[b].pc = "open"
    /\ billing[b].subscription = None
    /\ billing' = [billing EXCEPT ![b].subscription =
                      {t \in Txns : status[t] = "SUCCEEDED"}]
    /\ UNCHANGED <<status, bought, page, poll, links>>

(* GET /subscriptions/me reads the table subscriptions.                    *)
ReadSubscription(b) ==
    /\ billing[b].pc = "open"
    /\ billing[b].subscription = None
    /\ billing' = [billing EXCEPT ![b].subscription = bought]
    /\ UNCHANGED <<status, bought, page, poll, links>>

(* GET /payments/history reads the table transactions; kept of it are the  *)
(* payments it lists with another outcome than PENDING.                    *)
ReadHistory(b) ==
    /\ billing[b].pc = "open"
    /\ billing[b].history = None
    /\ billing' = [billing EXCEPT ![b].history =
                      {t \in Txns : status[t] \in Endings}]
    /\ UNCHANGED <<status, bought, page, poll, links>>

BillingFails(b) ==
    /\ billing[b].pc = "open"
    /\ None \in {billing[b].subscription, billing[b].history}
    /\ billing' = [billing EXCEPT ![b] = [NoBilling EXCEPT !.pc = "error"]]
    /\ UNCHANGED <<status, bought, page, poll, links>>

----------------------------------------------------------------------------
FormStep(v) ==
    \/ \E method \in {"mpesa", "bank"} : Submit(v, method)
    \/ \E t \in Txns : Started(v, t)
    \/ SubmitFails(v)
    \/ MpesaAccepted(v)
    \/ BankRedirect(v)

PollStep(v, k) == PollSend(v, k) \/ PollRead(v, k) \/ PollAnswer(v, k) \/ PollLost(v, k)

BillingStep(b) == OpenBilling(b) \/ ReadSubscription(b) \/ ReadHistory(b) \/ BillingFails(b)

(* The backend resolves a row, or creates one for a page that is no longer *)
(* there to be told of it.                                                 *)
RowStep == LifeNext /\ UNCHANGED pages

Next ==
    \/ \E v \in SubscribePages : FormStep(v)
    \/ \E v \in ReturnPages, t \in Txns : Return(v, t)
    \/ \E v \in Pages : Close(v)
    \/ \E v \in Pages, k \in Slots : PollStep(v, k)
    \/ \E b \in BillingPages : BillingStep(b)
    \/ RowStep

Spec == Init /\ [][Next]_vars

(* The timers fire; the backend reads, and the browser gets, what is asked *)
(* and asked again: requests may be lost, but not each and every one.      *)
Fairness ==
    \A v \in Pages :
        /\ WF_vars(\E k \in Slots : PollSend(v, k))
        /\ SF_vars(\E k \in Slots : PollRead(v, k))
        /\ SF_vars(\E k \in Slots : PollAnswer(v, k))

FairSpec == Spec /\ Fairness

----------------------------------------------------------------------------
(* A page that says "Your subscription is now active" is right, whatever   *)
(* the redirect said and however late the webhook and the answers came.    *)
SuccessIsBought ==
    \A v \in Pages : page[v].shown = "SUCCEEDED" => page[v].txn \in bought

(* A page that says "You can try again" does not send the customer into    *)
(* the 409 of a payment still pending: a lost answer is not a failure.     *)
FailureFreesUser ==
    \A v \in Pages :
        page[v].shown \in {"FAILED", "TIMED_OUT"} => status[page[v].txn] # "PENDING"

(* The return page never gives up on a payment it shows as pending.        *)
ReturnNeverStuck ==
    \A v \in ReturnPages :
        Watching(v) /\ page[v].shown = "PENDING" => page[v].polling

(* A billing page opened after a page has called a payment successful      *)
(* shows its subscription, and no longer lists the payment as pending,     *)
(* though it reads the two tables at two moments.                          *)
BillingFollowsCheckout ==
    \A b \in BillingPages :
        None \notin {billing[b].subscription, billing[b].history} =>
            billing[b].due \subseteq billing[b].subscription \cap billing[b].history

----------------------------------------------------------------------------
(* The inductive invariant, proved in CheckoutProofs: what each page and   *)
(* each answer on its way knows of the row still holds when it is used.    *)

HoldsTxn(v) == page[v].pc \in {"started", "watching"}

RowsOfPages ==
    /\ \A v \in Pages : HoldsTxn(v) => page[v].txn \in Txns /\ Begun(page[v].txn)
    /\ \A t \in links : Begun(t)
    /\ \A t \in Txns :
        /\ status[t] = "SUCCEEDED" => t \in bought
        /\ t \in bought => status[t] \in Endings

(* Only a page that watches has answers to come, or shows an ending.       *)
OnlyWatchersAsk ==
    \A v \in Pages :
        /\ \A k \in Slots : poll[v][k] # "idle" => Watching(v)
        /\ page[v].shown # "PENDING" => Watching(v)

(* An answer may be late, but what it says of an ending is true for good.  *)
AnswersStayTrue ==
    \A v \in Pages, k \in Slots :
        /\ poll[v][k] = "SUCCEEDED" => page[v].txn \in bought
        /\ poll[v][k] \in Endings => status[page[v].txn] \in Endings

(* The chain of the return page: one request at a time, and none when the  *)
(* watching is over.                                                       *)
OneAtATime ==
    \A v \in ReturnPages :
        /\ \A k, l \in Slots : poll[v][k] # "idle" /\ poll[v][l] # "idle" => k = l
        /\ Watching(v) /\ ~page[v].polling =>
             page[v].shown # "PENDING" /\ \A k \in Slots : poll[v][k] = "idle"

BillingKnowsDue ==
    \A b \in BillingPages :
        /\ \A t \in billing[b].due : t \in bought /\ status[t] \in Endings
        /\ billing[b].subscription # None => billing[b].due \subseteq billing[b].subscription
        /\ billing[b].history # None => billing[b].due \subseteq billing[b].history

IInv ==
    /\ TypeOK
    /\ RowsOfPages
    /\ OnlyWatchersAsk
    /\ AnswersStayTrue
    /\ OneAtATime
    /\ BillingKnowsDue
    /\ SuccessIsBought
    /\ FailureFreesUser

----------------------------------------------------------------------------
(* How a payment ended is shown sooner or later on a page that watches it, *)
(* however many answers are lost on the way.                               *)
PageHears ==
    \A v \in Pages :
        (Watching(v) /\ status[page[v].txn] \in Endings)
            ~> (page[v].told \/ ~Watching(v))

(* spec.md: the page moves on from "Check your phone" by itself once the   *)
(* payment has ended.                                                      *)
SubscribePageMovesOn ==
    \A v \in SubscribePages :
        (Watching(v) /\ status[page[v].txn] \in Endings)
            ~> (page[v].shown # "PENDING" \/ ~Watching(v))
============================================================================
