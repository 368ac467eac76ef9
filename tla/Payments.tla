------------------------------ MODULE Payments ------------------------------
(***************************************************************************)
(* Paying for a subscription: PaymentsService, TransactionsService and     *)
(* SubscriptionsService.activateFromTransaction over one PostgreSQL        *)
(* database, with the two payment providers as their environment.          *)
(*                                                                         *)
(* Every `await` of a handler is a point where other handlers run, so an   *)
(* action is the code between two awaits: one database statement (or one   *)
(* commit of an interactive transaction), or one call to a provider.  The  *)
(* field pc of a handler names the await it has reached, and the other     *)
(* fields hold what it has read so far and may use when it is stale.       *)
(*                                                                         *)
(*   request[q]   a call of POST /payments/{mpesa,bank-gateway}/initiate   *)
(*   delivery[d]  a call of POST /payments/mpesa/callback or .../webhook   *)
(*   stale        rows the timeout sweep has read and not yet marked       *)
(***************************************************************************)
EXTENDS Entitlement, FiniteSets

CONSTANTS
    Users,          \* accounts
    Txns,           \* primary keys the table transactions may draw
    SubIds,         \* primary keys the table subscriptions may draw
    Refs,           \* references the providers give their charges
    Requests,       \* initiate handlers that may be in flight at once
    Deliveries,     \* webhook handlers that may be in flight at once
    StkTimeout,     \* mpesa.stkTimeoutSeconds
    Period,         \* subscription.periodDays
    MaxTime,        \* bound: the clock stops here
    MaxFaults,      \* bound: failed statements and restarts of the backend
    None            \* SQL's NULL

ASSUME TimesAssumption ==
    /\ StkTimeout \in Nat
    /\ Period \in Nat \ {0}
    /\ MaxTime \in Nat
    /\ MaxFaults \in Nat

ASSUME NoneAssumption == None \notin Users \cup Txns \cup Refs

(* A process has only so many requests in hand at once.                    *)
ASSUME RequestsAssumption == IsFiniteSet(Requests)

VARIABLES
    now,            \* the time
    transactions,   \* the table transactions, by primary key
    subscriptions,  \* the table subscriptions, a set of rows
    request,        \* the initiate handlers
    delivery,       \* the webhook handlers
    stale,          \* what the sweep is about to mark TIMED_OUT
    charge,         \* the providers' records of what customers were asked
    links,          \* bank checkouts whose link a customer has received
    acked,          \* charges whose outcome was answered with 200
    faults          \* how many faults have happened

database  == <<transactions, subscriptions>>
handlers  == <<request, delivery, stale>>
providers == <<charge, links, acked>>
vars      == <<now, database, handlers, providers, faults>>

Methods  == {"MPESA", "BANK_GATEWAY"}
Statuses == {"ABSENT", "PENDING", "SUCCEEDED", "FAILED", "TIMED_OUT"}
Outcomes == {"SUCCEEDED", "FAILED"}

Row == [status : Statuses, user : Users \cup {None}, method : Methods,
        ref : Refs \cup {None}, initiatedAt : Nat]
NoRow == [status |-> "ABSENT", user |-> None, method |-> "MPESA",
          ref |-> None, initiatedAt |-> 0]

Subscription == [id : SubIds, txn : Txns, user : Users, expiresAt : Nat]

Request == [pc : {"idle", "create", "initiate", "accepted", "markFailed"},
            user : Users \cup {None}, method : Methods,
            txn : Txns \cup {None}, ref : Refs \cup {None}]
IdleRequest == [pc |-> "idle", user |-> None, method |-> "MPESA",
                txn |-> None, ref |-> None]

Delivery == [pc : {"idle", "link", "activate", "commit", "markFailed"},
             txn : Txns \cup {None}, ref : Refs \cup {None}]
IdleDelivery == [pc |-> "idle", txn |-> None, ref |-> None]

Charge == [state : {"none", "open"} \cup Outcomes, txn : Txns \cup {None}]
NoCharge == [state |-> "none", txn |-> None]

TypeOK ==
    /\ now \in Nat
    /\ transactions \in [Txns -> Row]
    /\ subscriptions \subseteq Subscription
    /\ request \in [Requests -> Request]
    /\ delivery \in [Deliveries -> Delivery]
    /\ stale \subseteq Txns
    /\ charge \in [Refs -> Charge]
    /\ links \subseteq Txns
    /\ acked \subseteq Refs
    /\ faults \in Nat

Init ==
    /\ now = 0
    /\ transactions = [t \in Txns |-> NoRow]
    /\ subscriptions = {}
    /\ request = [q \in Requests |-> IdleRequest]
    /\ delivery = [d \in Deliveries |-> IdleDelivery]
    /\ stale = {}
    /\ charge = [r \in Refs |-> NoCharge]
    /\ links = {}
    /\ acked = {}
    /\ faults = 0

----------------------------------------------------------------------------
(* The tables.                                                             *)

Exists(t)  == transactions[t].status # "ABSENT"
Pending(t) == transactions[t].status = "PENDING"
Bank(t)    == transactions[t].method = "BANK_GATEWAY"
Subscribed(t) == \E s \in subscriptions : s.txn = t
Settled(r) == charge[r].state \in Outcomes
Paid(r)    == charge[r].state = "SUCCEEDED"

(* TransactionsService.markFailed: an update by primary key alone.         *)
MarkFailed(t) == transactions' = [transactions EXCEPT ![t].status = "FAILED"]

(* Mutant of SetProviderReference: the whole row is saved as it was read.  *)
SaveWithReference(t, r) ==
    /\ \A u \in Txns \ {t} : transactions[u].ref # r
    /\ transactions' = [transactions EXCEPT ![t].ref = r, ![t].status = "PENDING"]

(* TransactionsService.setProviderReference, with its unique column.       *)
SetProviderReference(t, r) ==
    /\ \A u \in Txns \ {t} : transactions[u].ref # r
    /\ transactions' = [transactions EXCEPT ![t].ref = r]

(* Mutant of UniqueTransactionId: the column is not declared unique.       *)
NotUnique(t) == TRUE

(* The unique column transactionId of the table subscriptions.             *)
UniqueTransactionId(t) == ~Subscribed(t)

NewSubscription(i, t, expiry) ==
    [id |-> i, txn |-> t, user |-> transactions[t].user, expiresAt |-> expiry]

(* Mutant of InsertSubscription: a period stacked on the one the user has. *)
StackSubscription(i, t) ==
    LET mine == SubscriptionsOf(subscriptions, transactions[t].user)
        from == IF mine = {} THEN now ELSE Latest(subscriptions, transactions[t].user).expiresAt
    IN  subscriptions' = subscriptions \cup {NewSubscription(i, t, from + Period)}

(* The insert of activateFromTransaction, under the fresh key i.           *)
InsertSubscription(i, t) ==
    /\ \A s \in subscriptions : s.id # i
    /\ subscriptions' = subscriptions \cup {NewSubscription(i, t, now + Period)}

Goto(q, label)     == request' = [request EXCEPT ![q].pc = label]
EndRequest(q)      == request' = [request EXCEPT ![q] = IdleRequest]
GotoDelivery(d, l) == delivery' = [delivery EXCEPT ![d].pc = l]
EndDelivery(d)     == delivery' = [delivery EXCEPT ![d] = IdleDelivery]
Ack(r)             == acked' = acked \cup {r}

----------------------------------------------------------------------------
(* PaymentsService.initiateMpesa and initiateBankGateway.                  *)

(* Mutant of NoPendingOf: the read is dropped.                             *)
AnyPendingOf(u) == TRUE

NoPendingOf(u) == \A t \in Txns : ~(Pending(t) /\ transactions[t].user = u)

(* createPending's first statement.  A user who has a pending payment is   *)
(* answered 409 and nothing changes, so only the other outcome is a step.  *)
FindExistingPending(q, u, m) ==
    /\ request[q].pc = "idle"
    /\ NoPendingOf(u)
    /\ request' = [request EXCEPT ![q] =
                     [IdleRequest EXCEPT !.pc = "create", !.user = u, !.method = m]]
    /\ UNCHANGED <<now, database, delivery, stale, providers, faults>>

(* createPending's second statement.  The last conjunct is a bound: a row  *)
(* is created only while the clock can still reach its timeout.            *)
CreateTransaction(q, t) ==
    /\ request[q].pc = "create"
    /\ ~Exists(t)
    /\ transactions' = [transactions EXCEPT ![t] =
          [status |-> "PENDING", user |-> request[q].user,
           method |-> request[q].method, ref |-> None, initiatedAt |-> now]]
    /\ request' = [request EXCEPT ![q].pc = "initiate", ![q].txn = t]
    /\ UNCHANGED <<now, subscriptions, delivery, stale, providers, faults>>
    /\ now + StkTimeout < MaxTime

(* MpesaProvider.initiate: Daraja accepts the push and gives it reference  *)
(* r.  From here on the customer can answer it, and the callback can come  *)
(* in, before this handler has read the response.                          *)
PushAccepted(q, r) ==
    /\ request[q].pc = "initiate"
    /\ request[q].method = "MPESA"
    /\ charge[r] = NoCharge
    /\ charge' = [charge EXCEPT ![r] = [state |-> "open", txn |-> request[q].txn]]
    /\ request' = [request EXCEPT ![q].pc = "accepted", ![q].ref = r]
    /\ UNCHANGED <<now, database, delivery, stale, links, acked, faults>>

StoreReference(q) ==
    /\ request[q].pc = "accepted"
    /\ SetProviderReference(request[q].txn, request[q].ref)
    /\ EndRequest(q)
    /\ UNCHANGED <<now, subscriptions, delivery, stale, providers, faults>>

(* BankGatewayProvider.initiate succeeds and the customer gets the link:   *)
(* no reference is known, the provider keeps tx_ref, our primary key.      *)
ReturnLink(q) ==
    /\ request[q].pc = "initiate"
    /\ request[q].method = "BANK_GATEWAY"
    /\ links' = links \cup {request[q].txn}
    /\ EndRequest(q)
    /\ UNCHANGED <<now, database, delivery, stale, charge, acked, faults>>

(* The catch block: the provider refused, its response was lost, or the    *)
(* reference could not be stored after the push was accepted.              *)
InitiateFails(q) ==
    /\ request[q].pc \in {"initiate", "accepted"}
    /\ faults < MaxFaults
    /\ faults' = faults + 1
    /\ Goto(q, "markFailed")
    /\ UNCHANGED <<now, database, delivery, stale, providers>>

MarkInitiateFailed(q) ==
    /\ request[q].pc = "markFailed"
    /\ MarkFailed(request[q].txn)
    /\ EndRequest(q)
    /\ UNCHANGED <<now, subscriptions, delivery, stale, providers, faults>>

----------------------------------------------------------------------------
(* The customer and the providers, as the handlers see them.               *)

(* The customer answers the push on the phone, or lets it lapse: at any    *)
(* time, before the response of the push or after the row is TIMED_OUT.    *)
CustomerAnswersPush(r, outcome) ==
    /\ charge[r].state = "open"
    /\ charge' = [charge EXCEPT ![r].state = outcome]
    /\ UNCHANGED <<now, database, handlers, links, acked, faults>>

(* A checkout link may be tried again after a declined attempt, each       *)
(* attempt with a reference of its own, and is closed once it is paid.     *)
CustomerUsesLink(t, r, outcome) ==
    /\ t \in links
    /\ charge[r] = NoCharge
    /\ \A p \in Refs : ~(Paid(p) /\ charge[p].txn = t)
    /\ charge' = [charge EXCEPT ![r] = [state |-> outcome, txn |-> t]]
    /\ UNCHANGED <<now, database, handlers, links, acked, faults>>

----------------------------------------------------------------------------
(* handleMpesaCallback, handleBankGatewayWebhook and applyOutcome.  A      *)
(* request that fails verify() changes nothing and is left out.  The       *)
(* outcome of a settled charge may be delivered at any time, any number of *)
(* times and concurrently with itself; an answer other than 200 (a thrown  *)
(* error) leaves it unacknowledged.                                        *)

ByReference(r) == {t \in Txns : transactions[t].ref = r}

(* Mutants of FindForWebhook: no fallback; and a fallback to whatever the  *)
(* paying customer has pending.                                            *)
FindByReferenceOnly(r) == ByReference(r)

FindPendingOfPayer(r) ==
    IF ByReference(r) # {} THEN ByReference(r)
    ELSE {t \in Txns : /\ Pending(t)
                       /\ transactions[t].user = transactions[charge[r].txn].user}

(* findForWebhook: by reference, else by tx_ref, which only the bank       *)
(* gateway echoes.                                                         *)
FindForWebhook(r) ==
    IF ByReference(r) # {} THEN ByReference(r)
    ELSE {t \in Txns : charge[r].txn = t /\ Bank(t)}

(* Mutant of ResolveLabel: the outcome's status is not looked at.          *)
AlwaysActivate(r) == "activate"

ResolveLabel(r) == IF Paid(r) THEN "activate" ELSE "markFailed"

(* The outcome concerns a row that reads PENDING: the handler goes on with *)
(* what it has read.                                                       *)
Receive(d, r, t) ==
    /\ delivery[d].pc = "idle"
    /\ Settled(r)
    /\ t \in FindForWebhook(r)
    /\ Pending(t)
    /\ delivery' = [delivery EXCEPT ![d] =
          [pc |-> IF transactions[t].ref = None THEN "link" ELSE ResolveLabel(r),
           txn |-> t, ref |-> r]]
    /\ UNCHANGED <<now, database, request, stale, providers, faults>>

(* No such row, or one already resolved: a warning or a log line, and 200. *)
ReceiveIgnored(r) ==
    /\ Settled(r)
    /\ \A t \in FindForWebhook(r) : ~Pending(t)
    /\ Ack(r)
    /\ UNCHANGED <<now, database, handlers, charge, links, faults>>

LinkReference(d) ==
    /\ delivery[d].pc = "link"
    /\ SetProviderReference(delivery[d].txn, delivery[d].ref)
    /\ GotoDelivery(d, ResolveLabel(delivery[d].ref))
    /\ UNCHANGED <<now, subscriptions, request, stale, providers, faults>>

ActivationFound(d) ==
    /\ delivery[d].pc = "activate"
    /\ Subscribed(delivery[d].txn)
    /\ EndDelivery(d)
    /\ Ack(delivery[d].ref)
    /\ UNCHANGED <<now, database, request, stale, charge, links, faults>>

(* Mutant of ActivationRead: the status is updated outside the transaction *)
(* that inserts the subscription.                                          *)
ActivationReadAndUpdate(d) ==
    /\ delivery[d].pc = "activate"
    /\ ~Subscribed(delivery[d].txn)
    /\ transactions' = [transactions EXCEPT ![delivery[d].txn].status = "SUCCEEDED"]
    /\ GotoDelivery(d, "commit")
    /\ UNCHANGED <<now, subscriptions, request, stale, providers, faults>>

(* activateFromTransaction reads inside an interactive transaction whose   *)
(* isolation level is READ COMMITTED, so the read locks nothing.  If there *)
(* is a subscription already, it is returned (ActivationFound).            *)
ActivationRead(d) ==
    /\ delivery[d].pc = "activate"
    /\ ~Subscribed(delivery[d].txn)
    /\ GotoDelivery(d, "commit")
    /\ UNCHANGED <<now, database, request, stale, providers, faults>>

(* The update and the insert commit together, unless another handler has   *)
(* inserted the subscription meanwhile: the unique column transactionId    *)
(* then rolls both back and the webhook is answered 500.                   *)
CommitActivation(d, i) ==
    /\ delivery[d].pc = "commit"
    /\ UniqueTransactionId(delivery[d].txn)
    /\ transactions' = [transactions EXCEPT ![delivery[d].txn].status = "SUCCEEDED"]
    /\ InsertSubscription(i, delivery[d].txn)
    /\ EndDelivery(d)
    /\ Ack(delivery[d].ref)
    /\ UNCHANGED <<now, request, stale, charge, links, faults>>

CommitConflict(d) ==
    /\ delivery[d].pc = "commit"
    /\ ~UniqueTransactionId(delivery[d].txn)
    /\ EndDelivery(d)
    /\ UNCHANGED <<now, database, request, stale, providers, faults>>

MarkDeclined(d) ==
    /\ delivery[d].pc = "markFailed"
    /\ MarkFailed(delivery[d].txn)
    /\ EndDelivery(d)
    /\ Ack(delivery[d].ref)
    /\ UNCHANGED <<now, subscriptions, request, stale, charge, links, faults>>

----------------------------------------------------------------------------
(* startTimeoutSweep: every 30 seconds, one query, then one update by      *)
(* primary key after the other.  A tick does not wait for the tick before. *)

(* Mutants of Overdue: one second early; and pushes that never got their   *)
(* reference stored are left out.                                          *)
OverdueAtTimeout(t) ==
    Pending(t) /\ ~Bank(t) /\ transactions[t].initiatedAt <= now - StkTimeout

OverdueWithReference(t) ==
    /\ Pending(t)
    /\ ~Bank(t)
    /\ transactions[t].ref # None
    /\ transactions[t].initiatedAt < now - StkTimeout

Overdue(t) ==
    /\ Pending(t)
    /\ ~Bank(t)
    /\ transactions[t].initiatedAt < now - StkTimeout

SweepRead ==
    /\ stale' = stale \cup {t \in Txns : Overdue(t)}
    /\ stale' # stale
    /\ UNCHANGED <<now, database, request, delivery, providers, faults>>

MarkTimedOut(t) ==
    /\ t \in stale
    /\ transactions' = [transactions EXCEPT ![t].status = "TIMED_OUT"]
    /\ stale' = stale \ {t}
    /\ UNCHANGED <<now, subscriptions, request, delivery, providers, faults>>

----------------------------------------------------------------------------
(* Time and faults.                                                        *)

Tick ==
    /\ now < MaxTime
    /\ now' = now + 1
    /\ UNCHANGED <<database, handlers, providers, faults>>

(* Mutant of DeliveryFails: the error is logged and answered with 200.     *)
DeliveryFailsSilently(d) ==
    /\ delivery[d].pc # "idle"
    /\ faults < MaxFaults
    /\ faults' = faults + 1
    /\ EndDelivery(d)
    /\ Ack(delivery[d].ref)
    /\ UNCHANGED <<now, database, request, stale, charge, links>>

(* A statement fails outside a try block: the webhook is answered 500.     *)
DeliveryFails(d) ==
    /\ delivery[d].pc # "idle"
    /\ faults < MaxFaults
    /\ faults' = faults + 1
    /\ EndDelivery(d)
    /\ UNCHANGED <<now, database, request, stale, providers>>

(* The backend process ends and starts again: a deployment, or an error in *)
(* the sweep's callback, whose rejected promise nobody handles.            *)
Restart ==
    /\ faults < MaxFaults
    /\ faults' = faults + 1
    /\ request' = [q \in Requests |-> IdleRequest]
    /\ delivery' = [d \in Deliveries |-> IdleDelivery]
    /\ stale' = {}
    /\ UNCHANGED <<now, database, providers>>

----------------------------------------------------------------------------
InitiateStep(q) ==
    \/ \E t \in Txns : CreateTransaction(q, t)
    \/ \E r \in Refs : PushAccepted(q, r)
    \/ StoreReference(q)
    \/ ReturnLink(q)
    \/ MarkInitiateFailed(q)

DeliveryStep(d) ==
    \/ LinkReference(d)
    \/ ActivationFound(d)
    \/ ActivationRead(d)
    \/ \E i \in SubIds : CommitActivation(d, i)
    \/ CommitConflict(d)
    \/ MarkDeclined(d)

Deliver(r) ==
    \/ \E d \in Deliveries, t \in Txns : Receive(d, r, t)
    \/ ReceiveIgnored(r)

Next ==
    \/ \E q \in Requests, u \in Users, m \in Methods : FindExistingPending(q, u, m)
    \/ \E q \in Requests : InitiateStep(q) \/ InitiateFails(q)
    \/ \E r \in Refs, o \in Outcomes : CustomerAnswersPush(r, o)
    \/ \E t \in Txns, r \in Refs, o \in Outcomes : CustomerUsesLink(t, r, o)
    \/ \E r \in Refs : Deliver(r)
    \/ \E d \in Deliveries : DeliveryStep(d) \/ DeliveryFails(d)
    \/ SweepRead
    \/ \E t \in Txns : MarkTimedOut(t)
    \/ Tick
    \/ Restart

Spec == Init /\ [][Next]_vars

(* Handlers run on, the interval fires, the clock moves, and an outcome    *)
(* that was not answered with 200 is delivered again.  A handler slot is   *)
(* an artefact of the model, hence strong fairness for the deliveries.     *)
Fairness ==
    /\ WF_vars(Tick)
    /\ WF_vars(SweepRead)
    /\ WF_vars(\E t \in Txns : MarkTimedOut(t))
    /\ \A q \in Requests : WF_vars(InitiateStep(q))
    /\ \A d \in Deliveries : WF_vars(DeliveryStep(d))
    /\ \A r \in Refs : SF_vars(r \notin acked /\ Deliver(r))

FairSpec == Spec /\ Fairness

----------------------------------------------------------------------------
(* Safety.                                                                 *)

(* However many deliveries of an outcome overlap, a payment is turned into *)
(* at most one subscription (FR-010): activateFromTransaction's read and   *)
(* the unique column transactionId together.                               *)
OneSubscriptionPerPayment ==
    \A s1, s2 \in subscriptions : s1.txn = s2.txn => s1 = s2

(* A subscription was paid for: a charge the provider collected for this   *)
(* very transaction, started by this very user.  findForWebhook never      *)
(* attributes a charge to another customer's row.                          *)
SubscriptionIsPaidFor ==
    \A s \in subscriptions :
        /\ \E r \in Refs : Paid(r) /\ charge[r].txn = s.txn
        /\ transactions[s.txn].user = s.user

(* A customer told SUCCEEDED by the status endpoint is subscribed, at      *)
(* every moment, including after a crash in the middle of the activation.  *)
SucceededIsSubscribed ==
    \A t \in Txns : transactions[t].status = "SUCCEEDED" => Subscribed(t)

(* The sweep gives up on M-Pesa pushes only, and never before their time:  *)
(* a bank checkout or a fresh push is not closed under the customer.       *)
TimedOutIsOverdue ==
    \A t \in Txns : transactions[t].status = "TIMED_OUT" =>
        /\ ~Bank(t)
        /\ transactions[t].initiatedAt + StkTimeout < now

(* A checkout whose link the customer holds is FAILED only because an      *)
(* attempt on it was declined: no error path of initiateBankGateway and no *)
(* other customer's webhook closes it.                                     *)
Declined(t) == \E r \in Refs : charge[r].state = "FAILED" /\ charge[r].txn = t

LinkFailsOnlyIfDeclined ==
    \A t \in links : transactions[t].status = "FAILED" => Declined(t)

(* The gateway stops redelivering an outcome it got 200 for, so 200 for a  *)
(* collected bank charge must mean the subscription is there (FR-009).  A  *)
(* declined attempt on the same link excepted: it closes the row.          *)
BankAckIsSubscribed ==
    \A r \in acked :
        LET t == charge[r].txn IN
        Paid(r) /\ Bank(t) /\ ~Declined(t) => Subscribed(t)

(* The row of a payment that was granted may be overwritten by a handler   *)
(* that read it PENDING before: by the sweep, that of a push, and by the   *)
(* declined first attempt on its link, that of a bank checkout.  No other  *)
(* race takes a success back: a push that was paid never reads FAILED, as  *)
(* its initiator's catch block is reached only if no reference was stored, *)
(* and then no callback finds the row; nor does a bank checkout read       *)
(* TIMED_OUT.                                                              *)
SuccessOverwritten ==
    \A t \in Txns : Subscribed(t) =>
        \/ transactions[t].status = "SUCCEEDED"
        \/ transactions[t].status = "TIMED_OUT" /\ ~Bank(t)
        \/ transactions[t].status = "FAILED" /\ Bank(t) /\ Declined(t)

(* The header, the account page and the entitlement guard never disagree   *)
(* on whether a user is subscribed, though each runs its own query.        *)
EntitlementViewsAgree ==
    \A u \in Users :
        /\ HasActiveSubscription(subscriptions, u, now)
              <=> StatusForUser(subscriptions, u, now) = "ACTIVE"
        /\ HasActiveSubscription(subscriptions, u, now)
              <=> MeIsSubscribed(subscriptions, u, now)

(* The payments the providers collected, the periods the database grants,  *)
(* and the claim that together they behave as the ledger.                  *)
PaidLedger ==
    {[txn |-> charge[r].txn, user |-> transactions[charge[r].txn].user] :
        r \in {p \in Refs : Paid(p)}}

GrantedLedger ==
    {[txn |-> s.txn, user |-> s.user, expiresAt |-> s.expiresAt] : s \in subscriptions}

L == INSTANCE Ledger WITH clock <- now, paid <- PaidLedger, granted <- GrantedLedger

(* Paying implements Ledger: one period per payment, to its payer, whole.  *)
RefinesLedger == L!Spec

(* What watchers of a payment see of the two tables.                       *)
StatusColumn == [t \in Txns |-> transactions[t].status]
Bought == {s.txn : s \in subscriptions}

Life == INSTANCE TransactionLife WITH status <- StatusColumn, bought <- Bought

(* What the status endpoint may report of a payment over time, whatever    *)
(* handlers overlap: never PENDING again, SUCCEEDED from the step on that  *)
(* buys the subscription.  (That a resolved status never changes again, as *)
(* data-model.md has it, does not hold: see TransactionLife.)              *)
RefinesLife == Life!LifeSpec

(* createPending reads and then inserts, so overlapping requests of a user *)
(* may each insert a row; but each must have read before the first insert, *)
(* so a user never has more pending rows than requests overlapped.  (One   *)
(* at a time, as data-model.md has it, does not hold.)                     *)
PendingOf(u)   == {t \in Txns : Pending(t) /\ transactions[t].user = u}
CreatingFor(u) == {q \in Requests : request[q].pc = "create" /\ request[q].user = u}

PendingBounded ==
    \A u \in Users :
        Cardinality(PendingOf(u)) + Cardinality(CreatingFor(u)) <= Cardinality(Requests)

----------------------------------------------------------------------------
(* The inductive invariant: what each handler knows of the rows it holds,  *)
(* and how rows, charges and links belong together.  Proved in             *)
(* PaymentsProofs, where the safety properties above follow from it.       *)

HoldsRow(q) == request[q].pc \in {"initiate", "accepted", "markFailed"}

(* A request works on a row of its own, whose link nobody has yet.         *)
RequestsOwnRows ==
    /\ \A q \in Requests :
        /\ request[q].pc # "idle" => request[q].user \in Users
        /\ HoldsRow(q) =>
            /\ request[q].txn \in Txns \ links
            /\ Exists(request[q].txn)
            /\ transactions[request[q].txn].method = request[q].method
            /\ Bank(request[q].txn) => Pending(request[q].txn)
    /\ \A q1, q2 \in Requests :
        HoldsRow(q1) /\ HoldsRow(q2) /\ request[q1].txn = request[q2].txn => q1 = q2

(* Before the push there is no charge for the row; after it, the reference *)
(* to be stored is that of the row's charge.                               *)
RequestsKnowCharges ==
    \A q \in Requests :
        /\ request[q].pc = "initiate" =>
            \A r \in Refs : charge[r].txn # request[q].txn
        /\ request[q].pc = "accepted" =>
            /\ request[q].ref \in Refs
            /\ charge[request[q].ref].txn = request[q].txn

(* Rows have an owner, charges have rows, references lead to own charges.  *)
RowsAndChargesMatch ==
    /\ \A t \in Txns :
        /\ Exists(t) => transactions[t].user \in Users
        /\ transactions[t].ref # None => charge[transactions[t].ref].txn = t
    /\ \A r \in Refs :
        /\ charge[r].state = "none" => charge[r].txn = None
        /\ charge[r].state # "none" =>
            /\ charge[r].txn \in Txns
            /\ Exists(charge[r].txn)
            /\ Bank(charge[r].txn) => charge[r].txn \in links
            /\ charge[r].state = "open" => ~Bank(charge[r].txn)
    /\ \A t \in links : Exists(t) /\ Bank(t)
    /\ \A r \in acked : Settled(r)

(* A push is made once, and a link is closed once it is paid.              *)
PaidOnce ==
    \A r1, r2 \in Refs :
        /\ charge[r1].txn \in Txns
        /\ charge[r1].txn = charge[r2].txn
        /\ Bank(charge[r1].txn) => Paid(r1) /\ Paid(r2)
        => r1 = r2

(* A webhook handler works on the row of the charge it was told of, and    *)
(* on the outcome it was told.                                             *)
DeliveriesKnowOutcomes ==
    \A d \in Deliveries : delivery[d].pc # "idle" =>
        /\ delivery[d].ref \in Refs
        /\ delivery[d].txn \in Txns
        /\ charge[delivery[d].ref].txn = delivery[d].txn
        /\ Settled(delivery[d].ref)
        /\ delivery[d].pc \in {"activate", "commit"} => Paid(delivery[d].ref)
        /\ delivery[d].pc = "markFailed" => ~Paid(delivery[d].ref)

(* What the sweep has read may be resolved by now, but was overdue.        *)
StaleIsOverdue ==
    \A t \in stale :
        /\ Exists(t)
        /\ ~Bank(t)
        /\ transactions[t].initiatedAt + StkTimeout < now

IInv ==
    /\ TypeOK
    /\ RequestsOwnRows
    /\ RequestsKnowCharges
    /\ RowsAndChargesMatch
    /\ PaidOnce
    /\ DeliveriesKnowOutcomes
    /\ StaleIsOverdue
    /\ OneSubscriptionPerPayment
    /\ SubscriptionIsPaidFor
    /\ SucceededIsSubscribed
    /\ TimedOutIsOverdue
    /\ LinkFailsOnlyIfDeclined
    /\ BankAckIsSubscribed

(* The two parts that the counting properties add: a user's pending rows   *)
(* can be counted, and no period reaches further than one from now, so a   *)
(* user's rows have a latest one.                                          *)
PendingIsFinite == \A u \in Users : IsFiniteSet(PendingOf(u))
PeriodsFromNow  == \A s \in subscriptions : s.expiresAt <= now + Period

(* The part that SuccessOverwritten adds: webhooks find a push by its      *)
(* reference, which its initiator, while at work, has not stored.          *)
FoundByReference ==
    /\ \A q \in Requests : HoldsRow(q) => transactions[request[q].txn].ref = None
    /\ \A d \in Deliveries : delivery[d].pc # "idle" =>
            Bank(delivery[d].txn) \/ transactions[delivery[d].txn].ref # None
    /\ \A t \in Txns : Subscribed(t) => Bank(t) \/ transactions[t].ref # None

----------------------------------------------------------------------------
(* Liveness, under FairSpec.                                               *)

(* A push nobody answers, or whose callback or response was lost, does not *)
(* block the user for ever: the sweep closes it.                           *)
PushIsResolved == \A t \in Txns : (Pending(t) /\ ~Bank(t)) ~> ~Pending(t)

(* A bank payment becomes a subscription, whatever overlaps, fails or      *)
(* restarts on the way.                                                    *)
BankPaymentActivates ==
    \A r \in Refs :
        (Paid(r) /\ Bank(charge[r].txn)) ~>
            (Subscribed(charge[r].txn) \/ Declined(charge[r].txn))

----------------------------------------------------------------------------
(* What the documents say and the code does not do.                        *)

(* spec.md: when the payment completes, the subscription becomes active:   *)
(* the provider is told 200 for no collected payment that bought nothing.  *)
AckIsSubscribed == \A r \in acked : Paid(r) => Subscribed(charge[r].txn)

(* data-model.md: PENDING leads to SUCCEEDED, FAILED or TIMED_OUT.         *)
EveryPaymentResolves == \A t \in Txns : Pending(t) ~> ~Pending(t)
============================================================================
