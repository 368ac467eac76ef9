--------------------------- MODULE PaymentsProofs ---------------------------
(***************************************************************************)
(* Theorems about Payments, for any number of users, rows, handlers and    *)
(* references, any timeout and any period.                                 *)
(***************************************************************************)
EXTENDS Payments, FiniteSetTheorems, WellFoundedInduction, TLAPS

(* The one-line state predicates are expanded wherever they occur.         *)
USE DEF Exists, Pending, Bank, Subscribed, Settled, Paid, Declined, HoldsRow

(* The variables each part of the invariant reads: an action that leaves   *)
(* them alone keeps that part.                                             *)
LEMMA Frame ==
  /\ RequestsOwnRows /\ UNCHANGED <<request, transactions, links>> => RequestsOwnRows'
  /\ RequestsKnowCharges /\ UNCHANGED <<request, charge>> => RequestsKnowCharges'
  /\ RowsAndChargesMatch /\ UNCHANGED <<transactions, charge, links, acked>> => RowsAndChargesMatch'
  /\ PaidOnce /\ UNCHANGED <<charge, transactions>> => PaidOnce'
  /\ DeliveriesKnowOutcomes /\ UNCHANGED <<delivery, charge>> => DeliveriesKnowOutcomes'
  /\ StaleIsOverdue /\ UNCHANGED <<stale, transactions, now>> => StaleIsOverdue'
  /\ OneSubscriptionPerPayment /\ UNCHANGED subscriptions => OneSubscriptionPerPayment'
  /\ SubscriptionIsPaidFor /\ UNCHANGED <<subscriptions, charge, transactions>> => SubscriptionIsPaidFor'
  /\ SucceededIsSubscribed /\ UNCHANGED <<transactions, subscriptions>> => SucceededIsSubscribed'
  /\ TimedOutIsOverdue /\ UNCHANGED <<transactions, now>> => TimedOutIsOverdue'
  /\ LinkFailsOnlyIfDeclined /\ UNCHANGED <<links, transactions, charge>> => LinkFailsOnlyIfDeclined'
  /\ BankAckIsSubscribed /\ UNCHANGED <<acked, charge, transactions, subscriptions>> => BankAckIsSubscribed'
BY DEF RequestsOwnRows, RequestsKnowCharges, RowsAndChargesMatch, PaidOnce,
      DeliveriesKnowOutcomes, StaleIsOverdue, OneSubscriptionPerPayment,
      SubscriptionIsPaidFor, SucceededIsSubscribed, TimedOutIsOverdue,
      LinkFailsOnlyIfDeclined, BankAckIsSubscribed

(* An update of the column status alone.                                   *)
LEMMA StatusUpdate ==
  ASSUME TypeOK, NEW t \in Txns, NEW s \in Statuses,
         transactions' = [transactions EXCEPT ![t].status = s]
  PROVE  /\ transactions' \in [Txns -> Row]
         /\ \A u \in Txns :
              /\ transactions'[u].status = IF u = t THEN s ELSE transactions[u].status
              /\ transactions'[u].user = transactions[u].user
              /\ transactions'[u].method = transactions[u].method
              /\ transactions'[u].ref = transactions[u].ref
              /\ transactions'[u].initiatedAt = transactions[u].initiatedAt
BY DEF TypeOK, Row

(* New charges and answers to open ones acknowledge nothing: as long as    *)
(* the settled charges stay as they are, an acknowledged one keeps what it *)
(* bought.                                                                 *)
LEMMA SettledKeepAcks ==
  ASSUME IInv,
         \A r \in Refs : Settled(r) => charge'[r] = charge[r],
         UNCHANGED <<acked, transactions, subscriptions>>
  PROVE  BankAckIsSubscribed'
<1> SUFFICES ASSUME NEW r \in acked, Paid(r)', Bank(charge[r].txn)',
                    ~Declined(charge[r].txn)'
             PROVE  Subscribed(charge[r].txn)
  BY DEF IInv, TypeOK, RowsAndChargesMatch, BankAckIsSubscribed
<1>1. r \in Refs /\ charge'[r] = charge[r]
  BY DEF IInv, TypeOK, RowsAndChargesMatch
<1>2. ~Declined(charge[r].txn)
  BY <1>1 DEF Outcomes
<1> QED
  BY <1>1, <1>2 DEF IInv, BankAckIsSubscribed

(* A request that found nothing pending holds no row yet.                  *)
LEMMA FindExistingPendingStep ==
  ASSUME IInv, NEW q \in Requests, NEW u \in Users, NEW m \in Methods, FindExistingPending(q, u, m)
  PROVE  IInv'
<1>1. TypeOK'
  BY DEF IInv, TypeOK, FindExistingPending, database, providers, Methods,
        Request, IdleRequest
<1>2. RequestsOwnRows'
  BY DEF IInv, TypeOK, RequestsOwnRows, FindExistingPending, database,
        providers, Methods, Request, IdleRequest
<1>3. RequestsKnowCharges'
  BY DEF IInv, TypeOK, RequestsKnowCharges, FindExistingPending, database,
        providers, Methods, Request, IdleRequest
<1>4. RowsAndChargesMatch' /\ PaidOnce' /\ DeliveriesKnowOutcomes' /\
     StaleIsOverdue' /\ OneSubscriptionPerPayment' /\ SubscriptionIsPaidFor' /\
     SucceededIsSubscribed' /\ TimedOutIsOverdue' /\ LinkFailsOnlyIfDeclined' /\
     BankAckIsSubscribed'
  BY Frame DEF IInv, FindExistingPending, database, providers
<1> QED
  BY <1>1, <1>2, <1>3, <1>4 DEF IInv

(* The row is new, so no request, charge, handler or subscription knows it. *)
LEMMA CreateTransactionStep ==
  ASSUME IInv, NEW q \in Requests, NEW t \in Txns, CreateTransaction(q, t)
  PROVE  IInv'
<1>1. TypeOK'
  <2> DEFINE row == [status |-> "PENDING", user |-> request[q].user,
                     method |-> request[q].method, ref |-> None, initiatedAt |-> now]
  <2>1. row \in Row
    BY DEF CreateTransaction, IInv, TypeOK, RequestsOwnRows, Row, Request, Statuses
  <2>2. [request EXCEPT ![q].pc = "initiate", ![q].txn = t] \in [Requests -> Request]
    BY ZenonT(60) DEF IInv, TypeOK, Request
  <2> QED
    BY <2>1, <2>2 DEF CreateTransaction, IInv, TypeOK, providers
<1>2. RequestsOwnRows'
  BY DEF IInv, TypeOK, RequestsOwnRows, RequestsKnowCharges,
        RowsAndChargesMatch, DeliveriesKnowOutcomes, CreateTransaction,
        providers, Row, Statuses, Methods, Request, IdleRequest
<1>3. RequestsKnowCharges'
  BY NoneAssumption DEF IInv, TypeOK, RequestsKnowCharges, RequestsOwnRows,
                       RowsAndChargesMatch, CreateTransaction, providers, Row,
                       Statuses, Methods, Request, IdleRequest
<1>4. RowsAndChargesMatch'
  BY DEF IInv, TypeOK, RowsAndChargesMatch, RequestsOwnRows,
        RequestsKnowCharges, DeliveriesKnowOutcomes, CreateTransaction,
        providers, Row, Statuses, Methods, Request, IdleRequest
<1>5. PaidOnce'
  BY NoneAssumption DEF IInv, TypeOK, PaidOnce, RequestsOwnRows,
                       RequestsKnowCharges, RowsAndChargesMatch,
                       DeliveriesKnowOutcomes, CreateTransaction, providers,
                       Row, Statuses, Methods, Request, IdleRequest
<1>6. StaleIsOverdue'
  BY DEF IInv, TypeOK, StaleIsOverdue, CreateTransaction, providers, Row,
        Statuses, Methods, Request, IdleRequest
<1>7. SubscriptionIsPaidFor'
  BY DEF IInv, TypeOK, SubscriptionIsPaidFor, RowsAndChargesMatch,
        DeliveriesKnowOutcomes, CreateTransaction, providers, Row, Statuses,
        Methods, Request, IdleRequest
<1>8. SucceededIsSubscribed'
  BY DEF IInv, TypeOK, SucceededIsSubscribed, CreateTransaction, providers,
        Row, Statuses, Methods, Request, IdleRequest
<1>9. TimedOutIsOverdue'
  BY DEF IInv, TypeOK, TimedOutIsOverdue, CreateTransaction, providers, Row,
        Statuses, Methods, Request, IdleRequest
<1>10. LinkFailsOnlyIfDeclined'
  BY DEF IInv, TypeOK, LinkFailsOnlyIfDeclined, CreateTransaction, providers,
        Row, Statuses, Methods, Request, IdleRequest
<1>11. BankAckIsSubscribed'
  BY DEF IInv, TypeOK, BankAckIsSubscribed, RowsAndChargesMatch,
        DeliveriesKnowOutcomes, CreateTransaction, providers, Row, Statuses,
        Methods, Request, IdleRequest
<1>12. DeliveriesKnowOutcomes' /\ OneSubscriptionPerPayment'
  BY Frame DEF IInv, CreateTransaction, providers
<1> QED
  BY <1>1, <1>2, <1>3, <1>4, <1>5, <1>6, <1>7, <1>8, <1>9, <1>10,
            <1>11, <1>12 DEF IInv

(* The row had no charge, and the reference had no row.                    *)
LEMMA PushAcceptedStep ==
  ASSUME IInv, NEW q \in Requests, NEW r \in Refs, PushAccepted(q, r)
  PROVE  IInv'
<1>1. TypeOK'
  <2>1. request[q].txn \in Txns
    BY DEF PushAccepted, IInv, RequestsOwnRows
  <2>2. [state |-> "open", txn |-> request[q].txn] \in Charge
    BY <2>1 DEF Charge
  <2>3. [request EXCEPT ![q].pc = "accepted", ![q].ref = r] \in [Requests -> Request]
    BY ZenonT(60) DEF IInv, TypeOK, Request
  <2> QED
    BY <2>2, <2>3 DEF PushAccepted, IInv, TypeOK, database
<1>2. RequestsOwnRows'
  BY DEF IInv, TypeOK, RequestsOwnRows, PushAccepted, database, NoCharge,
        Methods, Request, IdleRequest, Charge, Outcomes
<1>3. RequestsKnowCharges'
  BY NoneAssumption DEF IInv, TypeOK, RequestsKnowCharges, RequestsOwnRows,
                       RowsAndChargesMatch, PushAccepted, database, NoCharge,
                       Methods, Request, IdleRequest, Charge, Outcomes
<1>4. RowsAndChargesMatch'
  BY NoneAssumption DEF IInv, TypeOK, RowsAndChargesMatch, RequestsOwnRows,
                       RequestsKnowCharges, DeliveriesKnowOutcomes,
                       PushAccepted, database, NoCharge, Methods, Request,
                       IdleRequest, Charge, Outcomes
<1>5. PaidOnce'
  BY DEF IInv, TypeOK, PaidOnce, RequestsOwnRows, RequestsKnowCharges,
        RowsAndChargesMatch, DeliveriesKnowOutcomes, PushAccepted, database,
        NoCharge, Methods, Request, IdleRequest, Charge, Outcomes
<1>6. DeliveriesKnowOutcomes'
  BY DEF IInv, TypeOK, DeliveriesKnowOutcomes, PushAccepted, database,
        NoCharge, Methods, Request, IdleRequest, Charge, Outcomes
<1>7. SubscriptionIsPaidFor'
  BY DEF IInv, TypeOK, SubscriptionIsPaidFor, PushAccepted, database,
        NoCharge, Methods, Request, IdleRequest, Charge, Outcomes
<1>8. LinkFailsOnlyIfDeclined'
  BY DEF IInv, TypeOK, LinkFailsOnlyIfDeclined, PushAccepted, database,
        NoCharge, Methods, Request, IdleRequest, Charge, Outcomes
<1>9. BankAckIsSubscribed'
  BY SettledKeepAcks DEF IInv, TypeOK, PushAccepted, NoCharge, database, Outcomes
<1>10. StaleIsOverdue' /\ OneSubscriptionPerPayment' /\ SucceededIsSubscribed' /\
      TimedOutIsOverdue'
  BY Frame DEF IInv, PushAccepted, database, NoCharge
<1> QED
  BY <1>1, <1>2, <1>3, <1>4, <1>5, <1>6, <1>7, <1>8, <1>9, <1>10 DEF IInv

(* The reference stored is that of the row's own charge.                   *)
LEMMA StoreReferenceStep ==
  ASSUME IInv, NEW q \in Requests, StoreReference(q)
  PROVE  IInv'
<1>1. TypeOK'
  BY DEF IInv, TypeOK, RequestsOwnRows, RequestsKnowCharges, StoreReference,
        SetProviderReference, EndRequest, providers, Row, Statuses, Methods,
        Request, IdleRequest
<1>2. RequestsOwnRows'
  BY DEF IInv, TypeOK, RequestsOwnRows, StoreReference, SetProviderReference,
        EndRequest, providers, Row, Statuses, Methods, Request, IdleRequest
<1>3. RequestsKnowCharges'
  BY DEF IInv, TypeOK, RequestsKnowCharges, StoreReference,
        SetProviderReference, EndRequest, providers, Row, Statuses, Methods,
        Request, IdleRequest
<1>4. RowsAndChargesMatch'
  BY DEF IInv, TypeOK, RowsAndChargesMatch, RequestsOwnRows,
        RequestsKnowCharges, DeliveriesKnowOutcomes, StoreReference,
        SetProviderReference, EndRequest, providers, Row, Statuses, Methods,
        Request, IdleRequest
<1>5. PaidOnce'
  BY DEF IInv, TypeOK, PaidOnce, StoreReference, SetProviderReference,
        EndRequest, providers, Row, Statuses, Methods, Request, IdleRequest
<1>6. StaleIsOverdue'
  BY DEF IInv, TypeOK, StaleIsOverdue, StoreReference, SetProviderReference,
        EndRequest, providers, Row, Statuses, Methods, Request, IdleRequest
<1>7. SubscriptionIsPaidFor'
  BY DEF IInv, TypeOK, SubscriptionIsPaidFor, StoreReference,
        SetProviderReference, EndRequest, providers, Row, Statuses, Methods,
        Request, IdleRequest
<1>8. SucceededIsSubscribed'
  BY DEF IInv, TypeOK, SucceededIsSubscribed, StoreReference,
        SetProviderReference, EndRequest, providers, Row, Statuses, Methods,
        Request, IdleRequest
<1>9. TimedOutIsOverdue'
  BY DEF IInv, TypeOK, TimedOutIsOverdue, StoreReference,
        SetProviderReference, EndRequest, providers, Row, Statuses, Methods,
        Request, IdleRequest
<1>10. LinkFailsOnlyIfDeclined'
  BY DEF IInv, TypeOK, LinkFailsOnlyIfDeclined, StoreReference,
        SetProviderReference, EndRequest, providers, Row, Statuses, Methods,
        Request, IdleRequest
<1>11. BankAckIsSubscribed'
  BY DEF IInv, TypeOK, BankAckIsSubscribed, StoreReference,
        SetProviderReference, EndRequest, providers, Row, Statuses, Methods,
        Request, IdleRequest
<1>12. DeliveriesKnowOutcomes' /\ OneSubscriptionPerPayment'
  BY Frame DEF IInv, StoreReference, SetProviderReference, EndRequest,
              providers
<1> QED
  BY <1>1, <1>2, <1>3, <1>4, <1>5, <1>6, <1>7, <1>8, <1>9, <1>10,
            <1>11, <1>12 DEF IInv

(* A bank row is still PENDING when its link is handed out.                *)
LEMMA ReturnLinkStep ==
  ASSUME IInv, NEW q \in Requests, ReturnLink(q)
  PROVE  IInv'
<1>1. TypeOK'
  BY DEF IInv, TypeOK, RequestsOwnRows, ReturnLink, EndRequest, database,
        Methods, Request, IdleRequest
<1>2. RequestsOwnRows'
  BY DEF IInv, TypeOK, RequestsOwnRows, ReturnLink, EndRequest, database,
        Methods, Request, IdleRequest
<1>3. RequestsKnowCharges'
  BY DEF IInv, TypeOK, RequestsKnowCharges, ReturnLink, EndRequest, database,
        Methods, Request, IdleRequest
<1>4. RowsAndChargesMatch'
  BY DEF IInv, TypeOK, RowsAndChargesMatch, RequestsOwnRows,
        RequestsKnowCharges, DeliveriesKnowOutcomes, ReturnLink, EndRequest,
        database, Methods, Request, IdleRequest
<1>5. LinkFailsOnlyIfDeclined'
  BY DEF IInv, TypeOK, LinkFailsOnlyIfDeclined, RequestsOwnRows,
        RowsAndChargesMatch, ReturnLink, EndRequest, database, Methods,
        Request, IdleRequest
<1>6. PaidOnce' /\ DeliveriesKnowOutcomes' /\ StaleIsOverdue' /\
     OneSubscriptionPerPayment' /\ SubscriptionIsPaidFor' /\
     SucceededIsSubscribed' /\ TimedOutIsOverdue' /\ BankAckIsSubscribed'
  BY Frame DEF IInv, ReturnLink, EndRequest, database
<1> QED
  BY <1>1, <1>2, <1>3, <1>4, <1>5, <1>6 DEF IInv

(* The row is kept for the catch block.                                    *)
LEMMA InitiateFailsStep ==
  ASSUME IInv, NEW q \in Requests, InitiateFails(q)
  PROVE  IInv'
<1>1. TypeOK'
  BY DEF IInv, TypeOK, InitiateFails, Goto, database, providers, Methods,
        Request, IdleRequest
<1>2. RequestsOwnRows'
  BY DEF IInv, TypeOK, RequestsOwnRows, InitiateFails, Goto, database,
        providers, Methods, Request, IdleRequest
<1>3. RequestsKnowCharges'
  BY DEF IInv, TypeOK, RequestsKnowCharges, InitiateFails, Goto, database,
        providers, Methods, Request, IdleRequest
<1>4. RowsAndChargesMatch' /\ PaidOnce' /\ DeliveriesKnowOutcomes' /\
     StaleIsOverdue' /\ OneSubscriptionPerPayment' /\ SubscriptionIsPaidFor' /\
     SucceededIsSubscribed' /\ TimedOutIsOverdue' /\ LinkFailsOnlyIfDeclined' /\
     BankAckIsSubscribed'
  BY Frame DEF IInv, InitiateFails, Goto, database, providers
<1> QED
  BY <1>1, <1>2, <1>3, <1>4 DEF IInv

(* Nobody holds the link of a row the catch block closes.                  *)
LEMMA MarkInitiateFailedStep ==
  ASSUME IInv, NEW q \in Requests, MarkInitiateFailed(q)
  PROVE  IInv'
<1>1. TypeOK'
  BY DEF IInv, TypeOK, RequestsOwnRows, MarkInitiateFailed, MarkFailed,
        EndRequest, providers, Row, Statuses, Methods, Request, IdleRequest
<1>2. RequestsOwnRows'
  BY DEF IInv, TypeOK, RequestsOwnRows, MarkInitiateFailed, MarkFailed,
        EndRequest, providers, Row, Statuses, Methods, Request, IdleRequest
<1>3. RequestsKnowCharges'
  BY DEF IInv, TypeOK, RequestsKnowCharges, MarkInitiateFailed, MarkFailed,
        EndRequest, providers, Row, Statuses, Methods, Request, IdleRequest
<1>4. RowsAndChargesMatch'
  BY DEF IInv, TypeOK, RowsAndChargesMatch, RequestsOwnRows,
        RequestsKnowCharges, DeliveriesKnowOutcomes, MarkInitiateFailed,
        MarkFailed, EndRequest, providers, Row, Statuses, Methods, Request,
        IdleRequest
<1>5. PaidOnce'
  BY DEF IInv, TypeOK, PaidOnce, MarkInitiateFailed, MarkFailed, EndRequest,
        providers, Row, Statuses, Methods, Request, IdleRequest
<1>6. StaleIsOverdue'
  BY DEF IInv, TypeOK, StaleIsOverdue, MarkInitiateFailed, MarkFailed,
        EndRequest, providers, Row, Statuses, Methods, Request, IdleRequest
<1>7. SubscriptionIsPaidFor'
  BY DEF IInv, TypeOK, SubscriptionIsPaidFor, MarkInitiateFailed, MarkFailed,
        EndRequest, providers, Row, Statuses, Methods, Request, IdleRequest
<1>8. SucceededIsSubscribed'
  BY DEF IInv, TypeOK, SucceededIsSubscribed, MarkInitiateFailed, MarkFailed,
        EndRequest, providers, Row, Statuses, Methods, Request, IdleRequest
<1>9. TimedOutIsOverdue'
  BY DEF IInv, TypeOK, TimedOutIsOverdue, MarkInitiateFailed, MarkFailed,
        EndRequest, providers, Row, Statuses, Methods, Request, IdleRequest
<1>10. LinkFailsOnlyIfDeclined'
  BY DEF IInv, TypeOK, LinkFailsOnlyIfDeclined, RequestsOwnRows,
        RowsAndChargesMatch, DeliveriesKnowOutcomes, StaleIsOverdue,
        MarkInitiateFailed, MarkFailed, EndRequest, providers, Row, Statuses,
        Methods, Request, IdleRequest
<1>11. BankAckIsSubscribed'
  BY DEF IInv, TypeOK, BankAckIsSubscribed, MarkInitiateFailed, MarkFailed,
        EndRequest, providers, Row, Statuses, Methods, Request, IdleRequest
<1>12. DeliveriesKnowOutcomes' /\ OneSubscriptionPerPayment'
  BY Frame DEF IInv, MarkInitiateFailed, MarkFailed, EndRequest, providers
<1> QED
  BY <1>1, <1>2, <1>3, <1>4, <1>5, <1>6, <1>7, <1>8, <1>9, <1>10,
            <1>11, <1>12 DEF IInv

(* An open charge has not been delivered or acknowledged yet.              *)
LEMMA CustomerAnswersPushStep ==
  ASSUME IInv, NEW r \in Refs, NEW o \in Outcomes, CustomerAnswersPush(r, o)
  PROVE  IInv'
<1>1. TypeOK'
  BY DEF IInv, TypeOK, CustomerAnswersPush, database, handlers, Charge,
        Outcomes
<1>2. RequestsKnowCharges'
  BY DEF IInv, TypeOK, RequestsKnowCharges, CustomerAnswersPush, database,
        handlers, Charge, Outcomes
<1>3. RowsAndChargesMatch'
  BY DEF IInv, TypeOK, RowsAndChargesMatch, CustomerAnswersPush, database,
        handlers, Charge, Outcomes
<1>4. PaidOnce'
  BY DEF IInv, TypeOK, PaidOnce, RequestsOwnRows, RequestsKnowCharges,
        RowsAndChargesMatch, DeliveriesKnowOutcomes, CustomerAnswersPush,
        database, handlers, Charge, Outcomes
<1>5. DeliveriesKnowOutcomes'
  BY DEF IInv, TypeOK, DeliveriesKnowOutcomes, CustomerAnswersPush, database,
        handlers, Charge, Outcomes
<1>6. SubscriptionIsPaidFor'
  BY DEF IInv, TypeOK, SubscriptionIsPaidFor, CustomerAnswersPush, database,
        handlers, Charge, Outcomes
<1>7. LinkFailsOnlyIfDeclined'
  BY DEF IInv, TypeOK, LinkFailsOnlyIfDeclined, CustomerAnswersPush, database,
        handlers, Charge, Outcomes
<1>8. BankAckIsSubscribed'
  BY SettledKeepAcks
  DEF IInv, TypeOK, CustomerAnswersPush, database, handlers, Outcomes
<1>9. RequestsOwnRows' /\ StaleIsOverdue' /\ OneSubscriptionPerPayment' /\
     SucceededIsSubscribed' /\ TimedOutIsOverdue'
  BY Frame DEF IInv, CustomerAnswersPush, database, handlers
<1> QED
  BY <1>1, <1>2, <1>3, <1>4, <1>5, <1>6, <1>7, <1>8, <1>9 DEF IInv

(* A paid link takes no further attempt.                                   *)
LEMMA CustomerUsesLinkStep ==
  ASSUME IInv, NEW t \in Txns, NEW r \in Refs, NEW o \in Outcomes, CustomerUsesLink(t, r, o)
  PROVE  IInv'
<1>1. TypeOK'
  BY DEF IInv, TypeOK, CustomerUsesLink, database, handlers, NoCharge, Charge,
        Outcomes
<1>2. RequestsKnowCharges'
  BY NoneAssumption DEF IInv, TypeOK, RequestsKnowCharges, RequestsOwnRows,
                       RowsAndChargesMatch, CustomerUsesLink, database,
                       handlers, NoCharge, Charge, Outcomes
<1>3. RowsAndChargesMatch'
  BY NoneAssumption DEF IInv, TypeOK, RowsAndChargesMatch, CustomerUsesLink,
                       database, handlers, NoCharge, Charge, Outcomes
<1>4. PaidOnce'
  BY DEF IInv, TypeOK, PaidOnce, RequestsOwnRows, RequestsKnowCharges,
        RowsAndChargesMatch, DeliveriesKnowOutcomes, CustomerUsesLink,
        database, handlers, NoCharge, Charge, Outcomes
<1>5. DeliveriesKnowOutcomes'
  BY DEF IInv, TypeOK, DeliveriesKnowOutcomes, CustomerUsesLink, database,
        handlers, NoCharge, Charge, Outcomes
<1>6. SubscriptionIsPaidFor'
  BY DEF IInv, TypeOK, SubscriptionIsPaidFor, CustomerUsesLink, database,
        handlers, NoCharge, Charge, Outcomes
<1>7. LinkFailsOnlyIfDeclined'
  BY DEF IInv, TypeOK, LinkFailsOnlyIfDeclined, CustomerUsesLink, database,
        handlers, NoCharge, Charge, Outcomes
<1>8. BankAckIsSubscribed'
  BY SettledKeepAcks
  DEF IInv, TypeOK, CustomerUsesLink, NoCharge, database, handlers, Outcomes
<1>9. RequestsOwnRows' /\ StaleIsOverdue' /\ OneSubscriptionPerPayment' /\
     SucceededIsSubscribed' /\ TimedOutIsOverdue'
  BY Frame DEF IInv, CustomerUsesLink, database, handlers, NoCharge
<1> QED
  BY <1>1, <1>2, <1>3, <1>4, <1>5, <1>6, <1>7, <1>8, <1>9 DEF IInv

(* The row found is the row of the charge.                                 *)
LEMMA ReceiveStep ==
  ASSUME IInv, NEW d \in Deliveries, NEW r \in Refs, NEW t \in Txns, Receive(d, r, t)
  PROVE  IInv'
<1>1. TypeOK'
  BY DEF IInv, TypeOK, Receive, ResolveLabel, database, providers, Delivery,
        IdleDelivery
<1>2. DeliveriesKnowOutcomes'
  <2>1. charge[r].txn = t
    BY NoneAssumption
    DEF Receive, FindForWebhook, ByReference, IInv, TypeOK, RowsAndChargesMatch
  <2>2. delivery'[d].txn = t /\ delivery'[d].ref = r
    BY DEF Receive, IInv, TypeOK
  <2>3. delivery'[d].pc \in {"link", ResolveLabel(r)}
    BY DEF Receive, IInv, TypeOK
  <2>4. \A e \in Deliveries \ {d} : delivery'[e] = delivery[e]
    BY DEF Receive, IInv, TypeOK
  <2>5. UNCHANGED charge /\ Settled(r)
    BY DEF Receive, providers
  <2> QED
    BY <2>1, <2>2, <2>3, <2>4, <2>5 DEF ResolveLabel, IInv, DeliveriesKnowOutcomes
<1>3. RequestsOwnRows' /\ RequestsKnowCharges' /\ RowsAndChargesMatch' /\ PaidOnce' /\
     StaleIsOverdue' /\ OneSubscriptionPerPayment' /\ SubscriptionIsPaidFor' /\
     SucceededIsSubscribed' /\ TimedOutIsOverdue' /\ LinkFailsOnlyIfDeclined' /\
     BankAckIsSubscribed'
  BY Frame DEF IInv, Receive, ResolveLabel, database, providers
<1> QED
  BY <1>1, <1>2, <1>3 DEF IInv

(* An outcome is dropped when its row is resolved: a bank row that is not  *)
(* PENDING was activated, or declined.                                     *)
LEMMA ReceiveIgnoredStep ==
  ASSUME IInv, NEW r \in Refs, ReceiveIgnored(r)
  PROVE  IInv'
<1>1. TypeOK'
  BY DEF IInv, TypeOK, ReceiveIgnored, Ack, database, handlers, Outcomes
<1>2. RowsAndChargesMatch'
  BY DEF IInv, TypeOK, RowsAndChargesMatch, ReceiveIgnored, Ack, database,
        handlers, Outcomes
<1>3. BankAckIsSubscribed'
  <2> SUFFICES ASSUME Paid(r), Bank(charge[r].txn), ~Declined(charge[r].txn)
               PROVE  Subscribed(charge[r].txn)
    BY DEF ReceiveIgnored, Ack, database, IInv, BankAckIsSubscribed
  <2> DEFINE t == charge[r].txn
  <2>1. t \in links /\ Exists(t)
    BY DEF IInv, RowsAndChargesMatch
  <2>2. t \in FindForWebhook(r)
    BY <2>1, NoneAssumption
    DEF FindForWebhook, ByReference, IInv, TypeOK, RowsAndChargesMatch
  <2>3. transactions[t].status \notin {"ABSENT", "PENDING"}
    BY <2>1, <2>2 DEF ReceiveIgnored
  <2>4. transactions[t].status # "FAILED"
    BY <2>1 DEF IInv, LinkFailsOnlyIfDeclined
  <2>5. transactions[t].status # "TIMED_OUT"
    BY <2>1 DEF IInv, TypeOK, TimedOutIsOverdue
  <2>6. transactions[t].status = "SUCCEEDED"
    BY <2>1, <2>3, <2>4, <2>5 DEF IInv, TypeOK, Row, Statuses
  <2> QED
    BY <2>1, <2>6 DEF IInv, TypeOK, SucceededIsSubscribed
<1>4. RequestsOwnRows' /\ RequestsKnowCharges' /\ PaidOnce' /\
     DeliveriesKnowOutcomes' /\ StaleIsOverdue' /\ OneSubscriptionPerPayment' /\
     SubscriptionIsPaidFor' /\ SucceededIsSubscribed' /\ TimedOutIsOverdue' /\
     LinkFailsOnlyIfDeclined'
  BY Frame DEF IInv, ReceiveIgnored, Ack, database, handlers
<1> QED
  BY <1>1, <1>2, <1>3, <1>4 DEF IInv

(* Two charges never share a reference.                                    *)
LEMMA LinkReferenceStep ==
  ASSUME IInv, NEW d \in Deliveries, LinkReference(d)
  PROVE  IInv'
<1>1. TypeOK'
  <2>1. delivery[d].txn \in Txns /\ delivery[d].ref \in Refs
    BY DEF LinkReference, IInv, DeliveriesKnowOutcomes
  <2>2. transactions' \in [Txns -> Row]
    BY <2>1 DEF LinkReference, SetProviderReference, IInv, TypeOK, Row
  <2>3. delivery' \in [Deliveries -> Delivery]
    BY DEF LinkReference, GotoDelivery, ResolveLabel, IInv, TypeOK, Delivery
  <2> QED
    BY <2>2, <2>3 DEF LinkReference, IInv, TypeOK, providers
<1>2. RequestsOwnRows'
  BY DEF IInv, TypeOK, RequestsOwnRows, LinkReference, SetProviderReference,
        GotoDelivery, ResolveLabel, providers, Row, Statuses, Methods,
        Delivery, IdleDelivery
<1>3. RowsAndChargesMatch'
  BY DEF IInv, TypeOK, RowsAndChargesMatch, RequestsOwnRows,
        RequestsKnowCharges, DeliveriesKnowOutcomes, LinkReference,
        SetProviderReference, GotoDelivery, ResolveLabel, providers, Row,
        Statuses, Methods, Delivery, IdleDelivery
<1>4. PaidOnce'
  BY DEF IInv, TypeOK, PaidOnce, LinkReference, SetProviderReference,
        GotoDelivery, ResolveLabel, providers, Row, Statuses, Methods,
        Delivery, IdleDelivery
<1>5. DeliveriesKnowOutcomes'
  BY DEF IInv, TypeOK, DeliveriesKnowOutcomes, LinkReference,
        SetProviderReference, GotoDelivery, ResolveLabel, providers, Row,
        Statuses, Methods, Delivery, IdleDelivery
<1>6. StaleIsOverdue'
  BY DEF IInv, TypeOK, StaleIsOverdue, LinkReference, SetProviderReference,
        GotoDelivery, ResolveLabel, providers, Row, Statuses, Methods,
        Delivery, IdleDelivery
<1>7. SubscriptionIsPaidFor'
  BY DEF IInv, TypeOK, SubscriptionIsPaidFor, LinkReference,
        SetProviderReference, GotoDelivery, ResolveLabel, providers, Row,
        Statuses, Methods, Delivery, IdleDelivery
<1>8. SucceededIsSubscribed'
  BY DEF IInv, TypeOK, SucceededIsSubscribed, LinkReference,
        SetProviderReference, GotoDelivery, ResolveLabel, providers, Row,
        Statuses, Methods, Delivery, IdleDelivery
<1>9. TimedOutIsOverdue'
  BY DEF IInv, TypeOK, TimedOutIsOverdue, LinkReference, SetProviderReference,
        GotoDelivery, ResolveLabel, providers, Row, Statuses, Methods,
        Delivery, IdleDelivery
<1>10. LinkFailsOnlyIfDeclined'
  BY DEF IInv, TypeOK, LinkFailsOnlyIfDeclined, LinkReference,
        SetProviderReference, GotoDelivery, ResolveLabel, providers, Row,
        Statuses, Methods, Delivery, IdleDelivery
<1>11. BankAckIsSubscribed'
  BY DEF IInv, TypeOK, BankAckIsSubscribed, LinkReference,
        SetProviderReference, GotoDelivery, ResolveLabel, providers, Row,
        Statuses, Methods, Delivery, IdleDelivery
<1>12. RequestsKnowCharges' /\ OneSubscriptionPerPayment'
  BY Frame DEF IInv, LinkReference, SetProviderReference, GotoDelivery,
              ResolveLabel, providers
<1> QED
  BY <1>1, <1>2, <1>3, <1>4, <1>5, <1>6, <1>7, <1>8, <1>9, <1>10,
            <1>11, <1>12 DEF IInv

(* There is a subscription, so the acknowledgement is due.                 *)
LEMMA ActivationFoundStep ==
  ASSUME IInv, NEW d \in Deliveries, ActivationFound(d)
  PROVE  IInv'
<1>1. TypeOK'
  BY DEF IInv, TypeOK, DeliveriesKnowOutcomes, ActivationFound, EndDelivery,
        Ack, database, Delivery, IdleDelivery, Outcomes
<1>2. RowsAndChargesMatch'
  BY DEF IInv, TypeOK, RowsAndChargesMatch, RequestsOwnRows,
        RequestsKnowCharges, DeliveriesKnowOutcomes, ActivationFound,
        EndDelivery, Ack, database, Delivery, IdleDelivery, Outcomes
<1>3. DeliveriesKnowOutcomes'
  BY DEF IInv, TypeOK, DeliveriesKnowOutcomes, ActivationFound, EndDelivery,
        Ack, database, Delivery, IdleDelivery, Outcomes
<1>4. BankAckIsSubscribed'
  BY DEF IInv, TypeOK, BankAckIsSubscribed, RowsAndChargesMatch,
        DeliveriesKnowOutcomes, ActivationFound, EndDelivery, Ack, database,
        Delivery, IdleDelivery, Outcomes
<1>5. RequestsOwnRows' /\ RequestsKnowCharges' /\ PaidOnce' /\ StaleIsOverdue' /\
     OneSubscriptionPerPayment' /\ SubscriptionIsPaidFor' /\
     SucceededIsSubscribed' /\ TimedOutIsOverdue' /\ LinkFailsOnlyIfDeclined'
  BY Frame DEF IInv, ActivationFound, EndDelivery, Ack, database
<1> QED
  BY <1>1, <1>2, <1>3, <1>4, <1>5 DEF IInv

(* Reading changes no row.                                                 *)
LEMMA ActivationReadStep ==
  ASSUME IInv, NEW d \in Deliveries, ActivationRead(d)
  PROVE  IInv'
<1>1. TypeOK'
  BY DEF IInv, TypeOK, ActivationRead, GotoDelivery, database, providers,
        Delivery, IdleDelivery
<1>2. DeliveriesKnowOutcomes'
  BY DEF IInv, TypeOK, DeliveriesKnowOutcomes, ActivationRead, GotoDelivery,
        database, providers, Delivery, IdleDelivery
<1>3. RequestsOwnRows' /\ RequestsKnowCharges' /\ RowsAndChargesMatch' /\ PaidOnce' /\
     StaleIsOverdue' /\ OneSubscriptionPerPayment' /\ SubscriptionIsPaidFor' /\
     SucceededIsSubscribed' /\ TimedOutIsOverdue' /\ LinkFailsOnlyIfDeclined' /\
     BankAckIsSubscribed'
  BY Frame DEF IInv, ActivationRead, GotoDelivery, database, providers
<1> QED
  BY <1>1, <1>2, <1>3 DEF IInv

(* Status and subscription are written together, once.                     *)
LEMMA CommitActivationStep ==
  ASSUME IInv, NEW d \in Deliveries, NEW i \in SubIds, CommitActivation(d, i)
  PROVE  IInv'
<1> DEFINE t == delivery[d].txn
           s == NewSubscription(i, t, now + Period)
<1>a. t \in Txns /\ delivery[d].ref \in Refs /\ Paid(delivery[d].ref)
      /\ charge[delivery[d].ref].txn = t
  BY DEF CommitActivation, IInv, DeliveriesKnowOutcomes
<1>b. Exists(t) /\ transactions[t].user \in Users
  BY <1>a DEF IInv, RowsAndChargesMatch
<1>c. /\ subscriptions' = subscriptions \cup {s}
      /\ s.txn = t
      /\ s.user = transactions[t].user
      /\ s \in Subscription
  BY <1>a, <1>b, TimesAssumption
  DEF CommitActivation, InsertSubscription, NewSubscription, Subscription, IInv, TypeOK
<1>d. transactions' \in [Txns -> Row]
      /\ \A u \in Txns :
           /\ transactions'[u].status =
                 IF u = t THEN "SUCCEEDED" ELSE transactions[u].status
           /\ transactions'[u].user = transactions[u].user
           /\ transactions'[u].method = transactions[u].method
           /\ transactions'[u].ref = transactions[u].ref
           /\ transactions'[u].initiatedAt = transactions[u].initiatedAt
  BY <1>a, StatusUpdate DEF CommitActivation, IInv, TypeOK, Statuses
<1>e. UNCHANGED <<now, request, stale, charge, links, faults>>
      /\ acked' = acked \cup {delivery[d].ref}
      /\ delivery' = [delivery EXCEPT ![d] = IdleDelivery]
  BY DEF CommitActivation, Ack, EndDelivery
<1>1. TypeOK'
  BY <1>a, <1>c, <1>d, <1>e DEF IInv, TypeOK, Delivery, IdleDelivery
<1>2. RequestsOwnRows'
  BY <1>a, <1>b, <1>d, <1>e DEF IInv, RequestsOwnRows, RowsAndChargesMatch
<1>3. RowsAndChargesMatch'
  BY <1>a, <1>b, <1>d, <1>e DEF IInv, TypeOK, RowsAndChargesMatch, Outcomes
<1>4. PaidOnce'
  BY <1>d, <1>e DEF IInv, PaidOnce
<1>5. DeliveriesKnowOutcomes'
  BY <1>e DEF IInv, TypeOK, DeliveriesKnowOutcomes, IdleDelivery
<1>6. StaleIsOverdue'
  BY <1>a, <1>b, <1>d, <1>e DEF IInv, TypeOK, StaleIsOverdue
<1>7. OneSubscriptionPerPayment'
  <2>1. \A r \in subscriptions : r.txn # t
    BY DEF CommitActivation, UniqueTransactionId
  <2> QED
    BY <1>c, <2>1 DEF IInv, OneSubscriptionPerPayment
<1>8. SubscriptionIsPaidFor'
  BY <1>a, <1>c, <1>d, <1>e
  DEF IInv, TypeOK, Subscription, SubscriptionIsPaidFor
<1>9. SucceededIsSubscribed'
  BY <1>c, <1>d DEF IInv, SucceededIsSubscribed
<1>10. TimedOutIsOverdue'
  BY <1>d, <1>e DEF IInv, TimedOutIsOverdue
<1>11. LinkFailsOnlyIfDeclined'
  BY <1>d, <1>e DEF IInv, TypeOK, LinkFailsOnlyIfDeclined
<1>12. BankAckIsSubscribed'
  <2> SUFFICES ASSUME NEW r \in acked', Paid(r), Bank(charge[r].txn)',
                      ~Declined(charge[r].txn)
               PROVE  Subscribed(charge[r].txn)'
    BY <1>e DEF BankAckIsSubscribed
  <2>1. CASE r = delivery[d].ref
    BY <2>1, <1>a, <1>c, <1>e
  <2>2. CASE r \in acked
    <3>1. Bank(charge[r].txn)
      BY <2>2, <1>d, <1>e DEF IInv, TypeOK, RowsAndChargesMatch, Outcomes
    <3> QED
      BY <2>2, <3>1, <1>c, <1>e DEF IInv, BankAckIsSubscribed
  <2> QED
    BY <2>1, <2>2, <1>e
<1>13. RequestsKnowCharges'
  BY Frame DEF IInv, CommitActivation, InsertSubscription, NewSubscription,
              EndDelivery, Ack
<1> QED
  BY <1>1, <1>2, <1>3, <1>4, <1>5, <1>6, <1>7, <1>8, <1>9, <1>10,
            <1>11, <1>12, <1>13 DEF IInv

(* The conflicting handler leaves no trace.                                *)
LEMMA CommitConflictStep ==
  ASSUME IInv, NEW d \in Deliveries, CommitConflict(d)
  PROVE  IInv'
<1>1. TypeOK'
  BY DEF IInv, TypeOK, CommitConflict, EndDelivery, database, providers,
        Delivery, IdleDelivery
<1>2. DeliveriesKnowOutcomes'
  BY DEF IInv, TypeOK, DeliveriesKnowOutcomes, CommitConflict, EndDelivery,
        database, providers, Delivery, IdleDelivery
<1>3. RequestsOwnRows' /\ RequestsKnowCharges' /\ RowsAndChargesMatch' /\ PaidOnce' /\
     StaleIsOverdue' /\ OneSubscriptionPerPayment' /\ SubscriptionIsPaidFor' /\
     SucceededIsSubscribed' /\ TimedOutIsOverdue' /\ LinkFailsOnlyIfDeclined' /\
     BankAckIsSubscribed'
  BY Frame DEF IInv, CommitConflict, EndDelivery, database, providers
<1> QED
  BY <1>1, <1>2, <1>3 DEF IInv

(* A declined charge is the reason for the row to be FAILED.               *)
LEMMA MarkDeclinedStep ==
  ASSUME IInv, NEW d \in Deliveries, MarkDeclined(d)
  PROVE  IInv'
<1>1. TypeOK'
  <2>1. transactions' \in [Txns -> Row]
    BY StatusUpdate
    DEF MarkDeclined, MarkFailed, IInv, TypeOK, DeliveriesKnowOutcomes, Statuses
  <2>2. delivery[d].ref \in Refs
    BY DEF MarkDeclined, IInv, DeliveriesKnowOutcomes
  <2> QED
    BY <2>1, <2>2
    DEF MarkDeclined, EndDelivery, Ack, IInv, TypeOK, Delivery, IdleDelivery
<1>2. RequestsOwnRows'
  BY DEF IInv, TypeOK, RequestsOwnRows, RequestsKnowCharges,
        RowsAndChargesMatch, DeliveriesKnowOutcomes, MarkDeclined, MarkFailed,
        EndDelivery, Ack, Row, Statuses, Methods, Delivery, IdleDelivery,
        Outcomes
<1>3. RowsAndChargesMatch'
  BY DEF IInv, TypeOK, RowsAndChargesMatch, RequestsOwnRows,
        RequestsKnowCharges, DeliveriesKnowOutcomes, MarkDeclined, MarkFailed,
        EndDelivery, Ack, Row, Statuses, Methods, Delivery, IdleDelivery,
        Outcomes
<1>4. PaidOnce'
  BY DEF IInv, TypeOK, PaidOnce, MarkDeclined, MarkFailed, EndDelivery, Ack,
        Row, Statuses, Methods, Delivery, IdleDelivery, Outcomes
<1>5. DeliveriesKnowOutcomes'
  BY DEF IInv, TypeOK, DeliveriesKnowOutcomes, MarkDeclined, MarkFailed,
        EndDelivery, Ack, Row, Statuses, Methods, Delivery, IdleDelivery,
        Outcomes
<1>6. StaleIsOverdue'
  BY DEF IInv, TypeOK, StaleIsOverdue, MarkDeclined, MarkFailed, EndDelivery,
        Ack, Row, Statuses, Methods, Delivery, IdleDelivery, Outcomes
<1>7. SubscriptionIsPaidFor'
  BY DEF IInv, TypeOK, SubscriptionIsPaidFor, MarkDeclined, MarkFailed,
        EndDelivery, Ack, Row, Statuses, Methods, Delivery, IdleDelivery,
        Outcomes
<1>8. SucceededIsSubscribed'
  BY DEF IInv, TypeOK, SucceededIsSubscribed, MarkDeclined, MarkFailed,
        EndDelivery, Ack, Row, Statuses, Methods, Delivery, IdleDelivery,
        Outcomes
<1>9. TimedOutIsOverdue'
  BY DEF IInv, TypeOK, TimedOutIsOverdue, MarkDeclined, MarkFailed,
        EndDelivery, Ack, Row, Statuses, Methods, Delivery, IdleDelivery,
        Outcomes
<1>10. LinkFailsOnlyIfDeclined'
  BY DEF IInv, TypeOK, LinkFailsOnlyIfDeclined, RequestsOwnRows,
        RowsAndChargesMatch, DeliveriesKnowOutcomes, StaleIsOverdue,
        MarkDeclined, MarkFailed, EndDelivery, Ack, Row, Statuses, Methods,
        Delivery, IdleDelivery, Outcomes
<1>11. BankAckIsSubscribed'
  BY DEF IInv, TypeOK, BankAckIsSubscribed, RowsAndChargesMatch,
        DeliveriesKnowOutcomes, MarkDeclined, MarkFailed, EndDelivery, Ack,
        Row, Statuses, Methods, Delivery, IdleDelivery, Outcomes
<1>12. RequestsKnowCharges' /\ OneSubscriptionPerPayment'
  BY Frame DEF IInv, MarkDeclined, MarkFailed, EndDelivery, Ack
<1> QED
  BY <1>1, <1>2, <1>3, <1>4, <1>5, <1>6, <1>7, <1>8, <1>9, <1>10,
            <1>11, <1>12 DEF IInv

(* What is read is overdue now, and for ever.                              *)
LEMMA SweepReadStep ==
  ASSUME IInv, SweepRead
  PROVE  IInv'
<1>1. TypeOK'
  BY DEF IInv, TypeOK, SweepRead, database, providers
<1>2. StaleIsOverdue'
  <2> SUFFICES ASSUME NEW t \in stale'
               PROVE  /\ Exists(t) /\ ~Bank(t)
                      /\ transactions[t].initiatedAt + StkTimeout < now
    BY DEF SweepRead, database, StaleIsOverdue
  <2>1. CASE t \in stale
    BY <2>1 DEF IInv, StaleIsOverdue
  <2>2. CASE t \in Txns /\ Overdue(t)
    BY <2>2, TimesAssumption DEF Overdue, IInv, TypeOK, Row
  <2> QED
    BY <2>1, <2>2 DEF SweepRead
<1>3. RequestsOwnRows' /\ RequestsKnowCharges' /\ RowsAndChargesMatch' /\ PaidOnce' /\
     DeliveriesKnowOutcomes' /\ OneSubscriptionPerPayment' /\
     SubscriptionIsPaidFor' /\ SucceededIsSubscribed' /\ TimedOutIsOverdue' /\
     LinkFailsOnlyIfDeclined' /\ BankAckIsSubscribed'
  BY Frame DEF IInv, SweepRead, database, providers
<1> QED
  BY <1>1, <1>2, <1>3 DEF IInv

(* The sweep may overwrite a resolved row, never one that is not overdue.  *)
LEMMA MarkTimedOutStep ==
  ASSUME IInv, NEW t \in Txns, MarkTimedOut(t)
  PROVE  IInv'
<1>a. /\ transactions' \in [Txns -> Row]
      /\ \A u \in Txns :
           /\ transactions'[u].status =
                 IF u = t THEN "TIMED_OUT" ELSE transactions[u].status
           /\ transactions'[u].user = transactions[u].user
           /\ transactions'[u].method = transactions[u].method
           /\ transactions'[u].ref = transactions[u].ref
           /\ transactions'[u].initiatedAt = transactions[u].initiatedAt
  BY StatusUpdate DEF MarkTimedOut, IInv, TypeOK, Statuses
<1>b. Exists(t) /\ ~Bank(t)
  BY DEF MarkTimedOut, IInv, StaleIsOverdue
<1>c. UNCHANGED <<now, subscriptions, request, delivery, charge, links, acked, faults>>
      /\ stale' = stale \ {t}
  BY DEF MarkTimedOut, providers
<1>1. TypeOK'
  BY <1>a, <1>c DEF IInv, TypeOK
<1>2. RequestsOwnRows'
  BY <1>a, <1>b, <1>c DEF IInv, RequestsOwnRows
<1>3. RowsAndChargesMatch'
  BY <1>a, <1>b, <1>c DEF IInv, TypeOK, RowsAndChargesMatch
<1>4. PaidOnce'
  BY DEF IInv, TypeOK, PaidOnce, MarkTimedOut, providers, Row, Statuses,
        Methods
<1>5. StaleIsOverdue'
  BY DEF IInv, TypeOK, StaleIsOverdue, MarkTimedOut, providers, Row, Statuses,
        Methods
<1>6. SubscriptionIsPaidFor'
  BY DEF IInv, TypeOK, SubscriptionIsPaidFor, MarkTimedOut, providers, Row,
        Statuses, Methods
<1>7. SucceededIsSubscribed'
  BY DEF IInv, TypeOK, SucceededIsSubscribed, MarkTimedOut, providers, Row,
        Statuses, Methods
<1>8. TimedOutIsOverdue'
  BY DEF IInv, TypeOK, TimedOutIsOverdue, StaleIsOverdue, MarkTimedOut,
        providers, Row, Statuses, Methods
<1>9. LinkFailsOnlyIfDeclined'
  BY DEF IInv, TypeOK, LinkFailsOnlyIfDeclined, MarkTimedOut, providers, Row,
        Statuses, Methods
<1>10. BankAckIsSubscribed'
  BY DEF IInv, TypeOK, BankAckIsSubscribed, MarkTimedOut, providers, Row,
        Statuses, Methods
<1>11. RequestsKnowCharges' /\ DeliveriesKnowOutcomes' /\
      OneSubscriptionPerPayment'
  BY Frame DEF IInv, MarkTimedOut, providers
<1> QED
  BY <1>1, <1>2, <1>3, <1>4, <1>5, <1>6, <1>7, <1>8, <1>9, <1>10,
            <1>11 DEF IInv

(* Overdue rows stay overdue.                                              *)
LEMMA TickStep ==
  ASSUME IInv, Tick
  PROVE  IInv'
<1>1. TypeOK'
  BY DEF IInv, TypeOK, Tick, database, handlers, providers, Row
<1>2. StaleIsOverdue'
  BY TimesAssumption
  DEF Tick, database, handlers, IInv, TypeOK, Row, StaleIsOverdue
<1>3. TimedOutIsOverdue'
  BY TimesAssumption
  DEF Tick, database, handlers, IInv, TypeOK, Row, TimedOutIsOverdue
<1>4. RequestsOwnRows' /\ RequestsKnowCharges' /\ RowsAndChargesMatch' /\ PaidOnce' /\
     DeliveriesKnowOutcomes' /\ OneSubscriptionPerPayment' /\
     SubscriptionIsPaidFor' /\ SucceededIsSubscribed' /\ LinkFailsOnlyIfDeclined' /\
     BankAckIsSubscribed'
  BY Frame DEF IInv, Tick, database, handlers, providers
<1> QED
  BY <1>1, <1>2, <1>3, <1>4 DEF IInv

(* A handler that fails forgets what it knew.                              *)
LEMMA DeliveryFailsStep ==
  ASSUME IInv, NEW d \in Deliveries, DeliveryFails(d)
  PROVE  IInv'
<1>1. TypeOK'
  BY DEF IInv, TypeOK, DeliveryFails, EndDelivery, database, providers,
        Delivery, IdleDelivery
<1>2. DeliveriesKnowOutcomes'
  BY DEF IInv, TypeOK, DeliveriesKnowOutcomes, DeliveryFails, EndDelivery,
        database, providers, Delivery, IdleDelivery
<1>3. RequestsOwnRows' /\ RequestsKnowCharges' /\ RowsAndChargesMatch' /\ PaidOnce' /\
     StaleIsOverdue' /\ OneSubscriptionPerPayment' /\ SubscriptionIsPaidFor' /\
     SucceededIsSubscribed' /\ TimedOutIsOverdue' /\ LinkFailsOnlyIfDeclined' /\
     BankAckIsSubscribed'
  BY Frame DEF IInv, DeliveryFails, EndDelivery, database, providers
<1> QED
  BY <1>1, <1>2, <1>3 DEF IInv

(* A restart forgets what the handlers knew.                               *)
LEMMA RestartStep ==
  ASSUME IInv, Restart
  PROVE  IInv'
<1>1. TypeOK'
  BY DEF IInv, TypeOK, Restart, database, providers, Methods, Request,
        IdleRequest, Delivery, IdleDelivery
<1>2. RequestsOwnRows'
  BY DEF IInv, TypeOK, RequestsOwnRows, Restart, database, providers, Methods,
        Request, IdleRequest, Delivery, IdleDelivery
<1>3. RequestsKnowCharges'
  BY DEF IInv, TypeOK, RequestsKnowCharges, Restart, database, providers,
        Methods, Request, IdleRequest, Delivery, IdleDelivery
<1>4. DeliveriesKnowOutcomes'
  BY DEF IInv, TypeOK, DeliveriesKnowOutcomes, Restart, database, providers,
        Methods, Request, IdleRequest, Delivery, IdleDelivery
<1>5. StaleIsOverdue'
  BY DEF IInv, TypeOK, StaleIsOverdue, Restart, database, providers, Methods,
        Request, IdleRequest, Delivery, IdleDelivery
<1>6. RowsAndChargesMatch' /\ PaidOnce' /\ OneSubscriptionPerPayment' /\
     SubscriptionIsPaidFor' /\ SucceededIsSubscribed' /\ TimedOutIsOverdue' /\
     LinkFailsOnlyIfDeclined' /\ BankAckIsSubscribed'
  BY Frame DEF IInv, Restart, database, providers
<1> QED
  BY <1>1, <1>2, <1>3, <1>4, <1>5, <1>6 DEF IInv
----------------------------------------------------------------------------
LEMMA IInvInit == Init => IInv
BY TimesAssumption, NoneAssumption
DEF Init, IInv, TypeOK, Row, Request, Delivery, Charge, NoRow, IdleRequest,
    IdleDelivery, NoCharge, Statuses, Methods, Outcomes, RequestsOwnRows,
    RequestsKnowCharges, RowsAndChargesMatch, PaidOnce, DeliveriesKnowOutcomes,
    StaleIsOverdue, OneSubscriptionPerPayment, SubscriptionIsPaidFor,
    SucceededIsSubscribed, TimedOutIsOverdue, LinkFailsOnlyIfDeclined,
    BankAckIsSubscribed

LEMMA IInvStutter == IInv /\ UNCHANGED vars => IInv'
BY Frame DEF IInv, TypeOK, vars, database, handlers, providers

LEMMA IInvNext == IInv /\ [Next]_vars => IInv'
<1> SUFFICES ASSUME IInv, [Next]_vars PROVE IInv'
  OBVIOUS
<1>1. CASE UNCHANGED vars
  BY <1>1, IInvStutter
<1>2. ASSUME NEW q \in Requests, NEW u \in Users, NEW m \in Methods,
             FindExistingPending(q, u, m)
      PROVE  IInv'
  BY <1>2, FindExistingPendingStep
<1>3. ASSUME NEW q \in Requests, InitiateStep(q) \/ InitiateFails(q)
      PROVE  IInv'
  BY <1>3, CreateTransactionStep, PushAcceptedStep, StoreReferenceStep, ReturnLinkStep,
     InitiateFailsStep, MarkInitiateFailedStep
  DEF InitiateStep
<1>4. ASSUME NEW r \in Refs, NEW o \in Outcomes, CustomerAnswersPush(r, o)
      PROVE  IInv'
  BY <1>4, CustomerAnswersPushStep
<1>5. ASSUME NEW t \in Txns, NEW r \in Refs, NEW o \in Outcomes, CustomerUsesLink(t, r, o)
      PROVE  IInv'
  BY <1>5, CustomerUsesLinkStep
<1>6. ASSUME NEW r \in Refs, Deliver(r)
      PROVE  IInv'
  BY <1>6, ReceiveStep, ReceiveIgnoredStep DEF Deliver
<1>7. ASSUME NEW d \in Deliveries, DeliveryStep(d) \/ DeliveryFails(d)
      PROVE  IInv'
  BY <1>7, LinkReferenceStep, ActivationFoundStep, ActivationReadStep, CommitActivationStep,
     CommitConflictStep, MarkDeclinedStep, DeliveryFailsStep
  DEF DeliveryStep
<1>8. ASSUME NEW t \in Txns, MarkTimedOut(t)
      PROVE  IInv'
  BY <1>8, MarkTimedOutStep
<1>9. CASE SweepRead \/ Tick \/ Restart
  BY <1>9, SweepReadStep, TickStep, RestartStep
<1> QED
  BY <1>1, <1>2, <1>3, <1>4, <1>5, <1>6, <1>7, <1>8, <1>9 DEF Next

(* The inductive invariant holds in every reachable state, under any       *)
(* overlap of handlers, redelivery, sweep and restart.                     *)
THEOREM Invariance == Spec => []IInv
<1>1. Init => IInv
  BY IInvInit
<1>2. IInv /\ [Next]_vars => IInv'
  BY IInvNext
<1> QED
  BY <1>1, <1>2, PTL DEF Spec

(* Rows, handlers and charges keep the shapes the tables declare.          *)
THEOREM TypeCorrect == Spec => []TypeOK
<1>1. IInv => TypeOK
  BY DEF IInv
<1> QED
  BY <1>1, Invariance, PTL

(* A payment is never turned into two subscriptions (FR-010, SC-007).      *)
THEOREM NoDoubleActivation == Spec => []OneSubscriptionPerPayment
<1>1. IInv => OneSubscriptionPerPayment
  BY DEF IInv
<1> QED
  BY <1>1, Invariance, PTL

(* No subscription without a collected charge of its own user.             *)
THEOREM NoFreeSubscription == Spec => []SubscriptionIsPaidFor
<1>1. IInv => SubscriptionIsPaidFor
  BY DEF IInv
<1> QED
  BY <1>1, Invariance, PTL

(* activateFromTransaction is atomic for every reader of the status.       *)
THEOREM ActivationIsAtomic == Spec => []SucceededIsSubscribed
<1>1. IInv => SucceededIsSubscribed
  BY DEF IInv
<1> QED
  BY <1>1, Invariance, PTL

(* The sweep never closes a bank checkout or a push that is not overdue.   *)
THEOREM NoEarlyTimeout == Spec => []TimedOutIsOverdue
<1>1. IInv => TimedOutIsOverdue
  BY DEF IInv
<1> QED
  BY <1>1, Invariance, PTL

(* A checkout is FAILED only when the gateway declined an attempt on it.   *)
THEOREM NoUndeclinedFailure == Spec => []LinkFailsOnlyIfDeclined
<1>1. IInv => LinkFailsOnlyIfDeclined
  BY DEF IInv
<1> QED
  BY <1>1, Invariance, PTL

(* The gateway is never told 200 for a payment that bought nothing.        *)
THEOREM BankAckIsSafe == Spec => []BankAckIsSubscribed
<1>1. IInv => BankAckIsSubscribed
  BY DEF IInv
<1> QED
  BY <1>1, Invariance, PTL

----------------------------------------------------------------------------
(* Only CommitActivation writes the table subscriptions.                    *)
LEMMA OnlyActivationBuys ==
  ASSUME [Next]_vars
  PROVE  \/ \E d \in Deliveries, i \in SubIds : CommitActivation(d, i)
         \/ UNCHANGED subscriptions
<1> USE DEF database, handlers, providers
<1>1. CASE UNCHANGED vars
  BY <1>1 DEF vars
<1>2. ASSUME NEW q \in Requests, NEW u \in Users, NEW m \in Methods,
             FindExistingPending(q, u, m)
      PROVE  UNCHANGED subscriptions
  BY <1>2 DEF FindExistingPending
<1>3. ASSUME NEW q \in Requests, InitiateStep(q) \/ InitiateFails(q)
      PROVE  UNCHANGED subscriptions
  BY <1>3 DEF InitiateStep, InitiateFails, CreateTransaction, PushAccepted, StoreReference,
     ReturnLink, MarkInitiateFailed
<1>4. ASSUME NEW r \in Refs, NEW o \in Outcomes, CustomerAnswersPush(r, o)
      PROVE  UNCHANGED subscriptions
  BY <1>4 DEF CustomerAnswersPush
<1>5. ASSUME NEW t \in Txns, NEW r \in Refs, NEW o \in Outcomes, CustomerUsesLink(t, r, o)
      PROVE  UNCHANGED subscriptions
  BY <1>5 DEF CustomerUsesLink
<1>6. ASSUME NEW r \in Refs, Deliver(r)
      PROVE  UNCHANGED subscriptions
  BY <1>6 DEF Deliver, Receive, ReceiveIgnored
<1>7. ASSUME NEW d \in Deliveries, DeliveryStep(d) \/ DeliveryFails(d)
      PROVE  (\E i \in SubIds : CommitActivation(d, i)) \/ UNCHANGED subscriptions
  BY <1>7 DEF DeliveryStep, DeliveryFails, LinkReference, ActivationFound, ActivationRead,
     CommitConflict, MarkDeclined
<1>8. ASSUME NEW t \in Txns, MarkTimedOut(t)
      PROVE  UNCHANGED subscriptions
  BY <1>8 DEF MarkTimedOut
<1>9. CASE SweepRead \/ Tick \/ Restart
  BY <1>9 DEF SweepRead, Tick, Restart
<1> QED
  BY <1>1, <1>2, <1>3, <1>4, <1>5, <1>6, <1>7, <1>8, <1>9 DEF Next

(* Only Tick moves the clock, forwards.                                     *)
LEMMA ClockMoves == ASSUME IInv, [Next]_vars PROVE now' \in Nat /\ now' >= now
<1>1. now \in Nat
  BY DEF IInv, TypeOK
<1>2. UNCHANGED now \/ Tick
  BY DEF Next, vars, FindExistingPending, InitiateStep, InitiateFails, CreateTransaction,
     PushAccepted, StoreReference, ReturnLink, MarkInitiateFailed, CustomerAnswersPush,
     CustomerUsesLink, Deliver, Receive, ReceiveIgnored, DeliveryStep, DeliveryFails,
     LinkReference, ActivationFound, ActivationRead, CommitActivation, CommitConflict,
     MarkDeclined, SweepRead, MarkTimedOut, Restart
<1> QED
  BY <1>1, <1>2 DEF Tick

----------------------------------------------------------------------------
(* Counting a user's pending payments.                                     *)

(* What a step must do to leave every user's count where it was, or lower. *)
NothingMorePending ==
  /\ \A t \in Txns : transactions'[t].status = "PENDING" =>
       transactions[t].status = "PENDING" /\ transactions'[t].user = transactions[t].user
  /\ \A q \in Requests : request'[q].pc = "create" =>
       request[q].pc = "create" /\ request'[q].user = request[q].user

(* Only createPending's two statements can add to a count.                 *)
LEMMA OnlyCreatePendingCounts ==
  ASSUME IInv, [Next]_vars
  PROVE  \/ \E q \in Requests, u \in Users, m \in Methods : FindExistingPending(q, u, m)
         \/ \E q \in Requests, t \in Txns : CreateTransaction(q, t)
         \/ NothingMorePending
<1> USE DEF database, handlers, providers
<1>0. /\ transactions \in [Txns -> Row]
      /\ request \in [Requests -> Request]
      /\ delivery \in [Deliveries -> Delivery]
      /\ \A q \in Requests : HoldsRow(q) => request[q].txn \in Txns
      /\ \A d \in Deliveries : delivery[d].pc # "idle" => delivery[d].txn \in Txns
  BY DEF IInv, TypeOK, RequestsOwnRows, DeliveriesKnowOutcomes
<1>1. CASE UNCHANGED vars
  BY <1>1 DEF vars, NothingMorePending
<1>2. ASSUME NEW q \in Requests, InitiateFails(q) \/ ReturnLink(q) \/ \E r \in Refs : PushAccepted(q, r)
      PROVE  NothingMorePending
  <2>1. CASE InitiateFails(q)
    BY <1>0, <2>1 DEF InitiateFails, Goto, NothingMorePending, Request
  <2>2. CASE ReturnLink(q)
    BY <1>0, <2>2 DEF ReturnLink, EndRequest, IdleRequest, NothingMorePending, Request
  <2>3. ASSUME NEW r \in Refs, PushAccepted(q, r) PROVE NothingMorePending
    BY <1>0, <2>3 DEF PushAccepted, NothingMorePending, Request
  <2> QED
    BY <1>2, <2>1, <2>2, <2>3
<1>3. ASSUME NEW q \in Requests, StoreReference(q) \/ MarkInitiateFailed(q)
      PROVE  NothingMorePending
  BY <1>0, <1>3 DEF StoreReference, MarkInitiateFailed, SetProviderReference, MarkFailed,
     EndRequest, IdleRequest, NothingMorePending, Row
<1>4. ASSUME NEW r \in Refs, NEW o \in Outcomes, CustomerAnswersPush(r, o)
      PROVE  NothingMorePending
  BY <1>4 DEF CustomerAnswersPush, NothingMorePending
<1>5. ASSUME NEW t \in Txns, NEW r \in Refs, NEW o \in Outcomes, CustomerUsesLink(t, r, o)
      PROVE  NothingMorePending
  BY <1>5 DEF CustomerUsesLink, NothingMorePending
<1>6. ASSUME NEW r \in Refs, Deliver(r)
      PROVE  NothingMorePending
  BY <1>6 DEF Deliver, Receive, ReceiveIgnored, NothingMorePending
<1>7. ASSUME NEW d \in Deliveries, DeliveryStep(d) \/ DeliveryFails(d)
      PROVE  NothingMorePending
  <2>1. CASE LinkReference(d)
    BY <1>0, <2>1 DEF LinkReference, SetProviderReference, NothingMorePending, Row
  <2>2. CASE \E i \in SubIds : CommitActivation(d, i)
    BY <1>0, <2>2 DEF CommitActivation, NothingMorePending, Row
  <2>3. CASE MarkDeclined(d)
    BY <1>0, <2>3 DEF MarkDeclined, MarkFailed, NothingMorePending, Row
  <2>4. CASE ActivationFound(d) \/ ActivationRead(d) \/ CommitConflict(d) \/ DeliveryFails(d)
    BY <2>4 DEF ActivationFound, ActivationRead, CommitConflict, DeliveryFails, NothingMorePending
  <2> QED
    BY <1>7, <2>1, <2>2, <2>3, <2>4 DEF DeliveryStep
<1>8. ASSUME NEW t \in Txns, MarkTimedOut(t)
      PROVE  NothingMorePending
  BY <1>0, <1>8 DEF MarkTimedOut, NothingMorePending, Row
<1>9. CASE SweepRead \/ Tick \/ Restart
  BY <1>0, <1>9 DEF SweepRead, Tick, Restart, IdleRequest, NothingMorePending
<1> QED
  BY <1>1, <1>2, <1>3, <1>4, <1>5, <1>6, <1>7, <1>8, <1>9 DEF Next, InitiateStep

(* A request that gets past the check found no pending row of its user, so *)
(* it counts among the overlapping requests; the row it then creates takes *)
(* its place.                                                              *)
LEMMA PendingBoundedStep ==
  ASSUME IInv, [Next]_vars, PendingBounded, PendingIsFinite
  PROVE  PendingBounded' /\ PendingIsFinite'
<1> SUFFICES ASSUME NEW u \in Users
             PROVE  /\ IsFiniteSet(PendingOf(u)')
                    /\ Cardinality(PendingOf(u)') + Cardinality(CreatingFor(u)') <= Cardinality(Requests)
  BY DEF PendingBounded, PendingIsFinite
<1>0. /\ transactions \in [Txns -> Row]
      /\ request \in [Requests -> Request]
  BY DEF IInv, TypeOK
<1>1. PICK P, C : P = PendingOf(u) /\ C = CreatingFor(u)
  OBVIOUS
<1>2. PICK Q, D : Q = PendingOf(u)' /\ D = CreatingFor(u)'
  OBVIOUS
<1>3. /\ P = {t \in Txns : transactions[t].status = "PENDING" /\ transactions[t].user = u}
      /\ C = {q \in Requests : request[q].pc = "create" /\ request[q].user = u}
      /\ Q = {t \in Txns : transactions'[t].status = "PENDING" /\ transactions'[t].user = u}
      /\ D = {q \in Requests : request'[q].pc = "create" /\ request'[q].user = u}
  BY <1>1, <1>2 DEF PendingOf, CreatingFor
<1>4. /\ IsFiniteSet(P)
      /\ Cardinality(P) + Cardinality(C) <= Cardinality(Requests)
  BY <1>1 DEF PendingBounded, PendingIsFinite
<1>5. IsFiniteSet(C) /\ IsFiniteSet(D) /\ Cardinality(D) <= Cardinality(Requests)
  BY <1>3, RequestsAssumption, FS_Subset
<1>6. /\ Cardinality(P) \in Nat /\ Cardinality(C) \in Nat
      /\ Cardinality(D) \in Nat /\ Cardinality(Requests) \in Nat
  BY <1>4, <1>5, RequestsAssumption, FS_CardinalityType
<1> SUFFICES IsFiniteSet(Q) /\ Cardinality(Q) + Cardinality(D) <= Cardinality(Requests)
  BY <1>2
<1>7. ASSUME Q \subseteq P, D \subseteq C
      PROVE  IsFiniteSet(Q) /\ Cardinality(Q) + Cardinality(D) <= Cardinality(Requests)
  <2>1. IsFiniteSet(Q) /\ Cardinality(Q) <= Cardinality(P) /\ Cardinality(D) <= Cardinality(C)
    BY <1>4, <1>5, <1>7, FS_Subset
  <2>2. Cardinality(Q) \in Nat
    BY <2>1, FS_CardinalityType
  <2> QED
    BY <1>4, <1>6, <2>1, <2>2
<1>8. ASSUME NEW q \in Requests, NEW v \in Users, NEW m \in Methods, FindExistingPending(q, v, m)
      PROVE  IsFiniteSet(Q) /\ Cardinality(Q) + Cardinality(D) <= Cardinality(Requests)
  <2>1. Q = P
    BY <1>3, <1>8 DEF FindExistingPending, database
  <2>2. request' = [request EXCEPT ![q] =
                      [IdleRequest EXCEPT !.pc = "create", !.user = v, !.method = m]]
    BY <1>8 DEF FindExistingPending
  <2>3. CASE v = u
    <3>1. Q = {}
      BY <1>3, <1>8, <2>1, <2>3 DEF FindExistingPending, NoPendingOf
    <3> QED
      BY <1>5, <1>6, <3>1, FS_EmptySet
  <2>4. CASE v # u
    <3>1. D \subseteq C
      BY <1>0, <1>3, <2>2, <2>4 DEF IdleRequest
    <3> QED
      BY <1>7, <2>1, <3>1
  <2> QED
    BY <2>3, <2>4
<1>9. ASSUME NEW q \in Requests, NEW t \in Txns, CreateTransaction(q, t)
      PROVE  IsFiniteSet(Q) /\ Cardinality(Q) + Cardinality(D) <= Cardinality(Requests)
  <2>1. /\ request[q].pc = "create"
        /\ transactions[t].status = "ABSENT"
        /\ transactions'[t].status = "PENDING" /\ transactions'[t].user = request[q].user
        /\ \A s \in Txns \ {t} : transactions'[s] = transactions[s]
        /\ request'[q].pc = "initiate"
        /\ \A p \in Requests \ {q} : request'[p] = request[p]
    BY <1>0, <1>9 DEF CreateTransaction
  <2>2. CASE request[q].user = u
    <3>1. Q = P \cup {t} /\ t \notin P
      BY <1>3, <2>1, <2>2
    <3>2. D = C \ {q} /\ q \in C
      BY <1>3, <2>1, <2>2
    <3>3. IsFiniteSet(Q) /\ Cardinality(Q) = Cardinality(P) + 1
      BY <1>4, <3>1, FS_AddElement
    <3>4. Cardinality(D) = Cardinality(C) - 1
      BY <1>5, <3>2, FS_RemoveElement
    <3> QED
      BY <1>4, <1>6, <3>3, <3>4
  <2>3. CASE request[q].user # u
    <3>1. Q \subseteq P /\ D \subseteq C
      BY <1>3, <2>1, <2>3
    <3> QED
      BY <1>7, <3>1
  <2> QED
    BY <2>2, <2>3
<1>10. CASE NothingMorePending
  <2>1. Q \subseteq P /\ D \subseteq C
    BY <1>3, <1>10 DEF NothingMorePending
  <2> QED
    BY <1>7, <2>1
<1> QED
  BY <1>8, <1>9, <1>10, OnlyCreatePendingCounts

(* A user never has more payments pending than requests overlap in         *)
(* createPending, however many rows were created and given up before.      *)
THEOREM OverlapBoundsPending == Spec => []PendingBounded
<1>1. Init => PendingBounded /\ PendingIsFinite
  <2> SUFFICES ASSUME Init, NEW u \in Users
               PROVE  /\ IsFiniteSet(PendingOf(u))
                      /\ Cardinality(PendingOf(u)) + Cardinality(CreatingFor(u)) <= Cardinality(Requests)
    BY DEF PendingBounded, PendingIsFinite
  <2>1. PendingOf(u) = {} /\ CreatingFor(u) = {}
    BY DEF Init, PendingOf, CreatingFor, NoRow, IdleRequest
  <2>2. Cardinality(Requests) \in Nat
    BY RequestsAssumption, FS_CardinalityType
  <2> QED
    BY <2>1, <2>2, FS_EmptySet
<1>2. IInv /\ [Next]_vars /\ PendingBounded /\ PendingIsFinite
        => PendingBounded' /\ PendingIsFinite'
  BY PendingBoundedStep
<1> QED
  BY <1>1, <1>2, Invariance, PTL DEF Spec

----------------------------------------------------------------------------
(* The three answers to "is this user subscribed".                         *)

(* A nonempty set of naturals has a least element.                         *)
LEMMA LeastNatural ==
  ASSUME NEW T, T \subseteq Nat, T # {}
  PROVE  \E x \in T : \A y \in T : x <= y
<1> DEFINE R == OpToRel(<, Nat)
<1>1. IsWellFoundedOn(R, Nat)
  BY NatLessThanWellFounded, Zenon
<1>2. \A x, y \in Nat : <<y, x>> \notin R => x <= y
  BY DEF OpToRel
<1> HIDE DEF R
<1>3. \E x \in T : \A y \in T : <<y, x>> \notin R
  BY <1>1, WFMin
<1> QED
  BY <1>2, <1>3

(* findFirst by expiresAt descending finds a row that expires last, if any *)
(* exists: the expiries have a bound, so they have a greatest.             *)
LEMMA LatestIsLatest ==
  ASSUME NEW subs, NEW u, NEW b \in Nat, SubscriptionsOf(subs, u) # {},
         \A s \in SubscriptionsOf(subs, u) : s.expiresAt \in 0..b
  PROVE  /\ Latest(subs, u) \in SubscriptionsOf(subs, u)
         /\ \A r \in SubscriptionsOf(subs, u) : r.expiresAt <= Latest(subs, u).expiresAt
<1> DEFINE mine == SubscriptionsOf(subs, u)
           T == {b - s.expiresAt : s \in mine}
<1>1. T \subseteq Nat /\ T # {}
  OBVIOUS
<1>2. PICK x \in T : \A y \in T : x <= y
  BY <1>1, LeastNatural
<1>3. PICK s \in mine : x = b - s.expiresAt
  BY <1>2
<1>4. \A r \in mine : r.expiresAt <= s.expiresAt
  <2> TAKE r \in mine
  <2>1. b - s.expiresAt <= b - r.expiresAt
    BY <1>2, <1>3
  <2> QED
    BY <2>1
<1> QED
  BY <1>4 DEF Latest

(* The three queries agree on any rows whose expiries have a bound.        *)
LEMMA ViewsAgree ==
  ASSUME NEW subs, NEW u, NEW t \in Nat, NEW b \in Nat,
         \A s \in SubscriptionsOf(subs, u) : s.expiresAt \in 0..b
  PROVE  /\ HasActiveSubscription(subs, u, t) <=> StatusForUser(subs, u, t) = "ACTIVE"
         /\ HasActiveSubscription(subs, u, t) <=> MeIsSubscribed(subs, u, t)
<1>1. CASE SubscriptionsOf(subs, u) = {}
  BY <1>1 DEF HasActiveSubscription, StatusForUser, MeIsSubscribed
<1>2. CASE SubscriptionsOf(subs, u) # {}
  <2>1. /\ Latest(subs, u) \in SubscriptionsOf(subs, u)
        /\ \A r \in SubscriptionsOf(subs, u) : r.expiresAt <= Latest(subs, u).expiresAt
    BY <1>2, LatestIsLatest
  <2>2. HasActiveSubscription(subs, u, t) <=> Latest(subs, u).expiresAt > t
    BY <2>1 DEF HasActiveSubscription
  <2>3. StatusForUser(subs, u, t) = "ACTIVE" <=> Latest(subs, u).expiresAt > t
    BY <1>2 DEF StatusForUser
  <2>4. MeIsSubscribed(subs, u, t) <=> Latest(subs, u).expiresAt > t
    BY <1>2 DEF MeIsSubscribed
  <2> QED
    BY <2>2, <2>3, <2>4
<1> QED
  BY <1>1, <1>2

(* Periods are counted from the moment they are granted, not stacked.      *)
LEMMA PeriodsFromNowStep ==
  ASSUME IInv, IInv', [Next]_vars, PeriodsFromNow
  PROVE  PeriodsFromNow'
<1> USE DEF database, handlers, providers
<1>1. CASE \E d \in Deliveries, i \in SubIds : CommitActivation(d, i)
  BY <1>1, TimesAssumption DEF CommitActivation, InsertSubscription, NewSubscription,
     PeriodsFromNow, IInv, TypeOK
<1>2. CASE UNCHANGED subscriptions
  <2>1. now' >= now /\ now \in Nat /\ now' \in Nat
    BY ClockMoves DEF IInv, TypeOK
  <2>2. \A s \in subscriptions : s.expiresAt \in Nat
    BY DEF IInv, TypeOK, Subscription
  <2> QED
    BY <1>2, <2>1, <2>2, TimesAssumption DEF PeriodsFromNow
<1> QED
  BY <1>1, <1>2, OnlyActivationBuys

(* The header, the account page and the guard agree in every reachable     *)
(* state, whatever rows of a user overlap or have expired.                 *)
THEOREM ViewsNeverDisagree == Spec => []EntitlementViewsAgree
<1>1. Init => PeriodsFromNow
  BY DEF Init, PeriodsFromNow
<1>2. IInv /\ IInv' /\ [Next]_vars /\ PeriodsFromNow => PeriodsFromNow'
  BY PeriodsFromNowStep
<1>3. IInv /\ PeriodsFromNow => EntitlementViewsAgree
  <2> SUFFICES ASSUME IInv, PeriodsFromNow PROVE EntitlementViewsAgree
    OBVIOUS
  <2>1. now \in Nat /\ now + Period \in Nat
    BY TimesAssumption DEF IInv, TypeOK
  <2>2. \A u \in Users : \A s \in SubscriptionsOf(subscriptions, u) : s.expiresAt \in 0..(now + Period)
    BY <2>1 DEF IInv, TypeOK, Subscription, SubscriptionsOf, PeriodsFromNow
  <2> QED
    BY <2>1, <2>2, ViewsAgree DEF EntitlementViewsAgree
<1> QED
  BY <1>1, <1>2, <1>3, Invariance, PTL DEF Spec

----------------------------------------------------------------------------
(* Payments implements Ledger.                                             *)

PaidEntry(r) == [txn |-> charge[r].txn, user |-> transactions[charge[r].txn].user]

(* A row keeps its user, so a step that collects nothing leaves the        *)
(* ledger's payments alone.                                                *)
LEMMA SamePayments ==
  ASSUME UNCHANGED charge,
         \A r \in Refs : Paid(r) =>
             transactions'[charge[r].txn].user = transactions[charge[r].txn].user
  PROVE  UNCHANGED PaidLedger
BY DEF PaidLedger

(* A charge that turns from unpaid to paid, the first of its row, is Pay.  *)
LEMMA PaymentIsPay ==
  ASSUME IInv, IInv', NEW r \in Refs, NEW t \in Txns,
         UNCHANGED <<now, transactions, subscriptions>>,
         ~Paid(r), Paid(r)', charge'[r].txn = t,
         \A p \in Refs \ {r} : charge'[p] = charge[p]
  PROVE  L!Pay(t, transactions[t].user)
<1>1. transactions[t].user \in Users
  BY DEF IInv, RowsAndChargesMatch, TypeOK, Outcomes
<1>2. \A p \in Refs : Paid(p) => charge[p].txn # t
  BY DEF IInv, PaidOnce, RowsAndChargesMatch, TypeOK
<1>3. \A p \in PaidLedger : p.txn # t
  BY <1>2 DEF PaidLedger
<1>4. PaidLedger' = PaidLedger \cup {[txn |-> t, user |-> transactions[t].user]}
  <2>1. \A p \in Refs : Paid(p)' <=> Paid(p) \/ p = r
    OBVIOUS
  <2>2. \A p \in Refs : Paid(p) => PaidEntry(p)' = PaidEntry(p)
    BY DEF PaidEntry
  <2>3. PaidEntry(r)' = [txn |-> t, user |-> transactions[t].user]
    BY DEF PaidEntry
  <2>4. PaidLedger = {PaidEntry(p) : p \in {p \in Refs : Paid(p)}}
    BY DEF PaidLedger, PaidEntry
  <2>5. PaidLedger' = {PaidEntry(p)' : p \in {p \in Refs : Paid(p)'}}
    BY DEF PaidLedger, PaidEntry
  <2> QED
    BY <2>1, <2>2, <2>3, <2>4, <2>5
<1> QED
  BY <1>3, <1>4 DEF L!Pay, GrantedLedger

LEMMA LedgerStep == IInv /\ IInv' /\ [Next]_vars => [L!Next]_(L!ledger)
<1> SUFFICES ASSUME IInv, IInv', [Next]_vars PROVE [L!Next]_(L!ledger)
  OBVIOUS
<1> USE DEF database, handlers, providers, L!ledger
<1> DEFINE Same == UNCHANGED <<now, PaidLedger, GrantedLedger>>
<1>0. ASSUME UNCHANGED <<now, subscriptions, charge>>,
             \A r \in Refs : Paid(r) =>
                transactions'[charge[r].txn].user = transactions[charge[r].txn].user
      PROVE  Same
  BY <1>0, SamePayments DEF GrantedLedger
<1>1. CASE UNCHANGED <<now, subscriptions, charge, transactions>>
  BY <1>1, <1>0
<1>2. ASSUME NEW q \in Requests, NEW t \in Txns, CreateTransaction(q, t)
      PROVE  Same
  <2>1. \A r \in Refs : Paid(r) => charge[r].txn # t
    BY <1>2 DEF CreateTransaction, IInv, RowsAndChargesMatch
  <2> QED
    BY <1>2, <2>1, <1>0 DEF CreateTransaction, IInv, TypeOK, RowsAndChargesMatch
<1>3. ASSUME NEW t \in Txns, NEW r \in Refs, SetProviderReference(t, r),
             UNCHANGED <<now, subscriptions, charge>>
      PROVE  Same
  BY <1>3, <1>0 DEF SetProviderReference, IInv, TypeOK, Row, RowsAndChargesMatch
<1>4. ASSUME NEW t \in Txns, NEW s \in Statuses,
             transactions' = [transactions EXCEPT ![t].status = s]
      PROVE  \A u \in Txns : transactions'[u].user = transactions[u].user
  BY <1>4, StatusUpdate DEF IInv
<1>5. ASSUME NEW t \in Txns, NEW s \in Statuses,
             transactions' = [transactions EXCEPT ![t].status = s],
             UNCHANGED <<now, subscriptions, charge>>
      PROVE  Same
  BY <1>5, <1>4, <1>0 DEF IInv, RowsAndChargesMatch
<1>6. ASSUME NEW r \in Refs, NEW o \in Outcomes, CustomerAnswersPush(r, o)
      PROVE  [L!Next]_(L!ledger)
  <2>1. charge[r].txn \in Txns /\ charge'[r].txn = charge[r].txn /\ charge'[r].state = o
    BY <1>6 DEF CustomerAnswersPush, IInv, TypeOK, Charge, RowsAndChargesMatch
  <2>2. \A p \in Refs \ {r} : charge'[p] = charge[p]
    BY <1>6 DEF CustomerAnswersPush, IInv, TypeOK
  <2>3. CASE o = "SUCCEEDED"
    <3>1. L!Pay(charge[r].txn, transactions[charge[r].txn].user)
      BY <1>6, <2>1, <2>2, <2>3, PaymentIsPay DEF CustomerAnswersPush
    <3>2. transactions[charge[r].txn].user \in Users
      BY <2>1, <1>6 DEF CustomerAnswersPush, IInv, RowsAndChargesMatch
    <3> QED
      BY <2>1, <3>1, <3>2 DEF L!Next
  <2>4. CASE o = "FAILED"
    BY <1>6, <2>1, <2>2, <2>4 DEF CustomerAnswersPush, PaidLedger, GrantedLedger
  <2> QED
    BY <2>3, <2>4 DEF Outcomes
<1>7. ASSUME NEW t \in Txns, NEW r \in Refs, NEW o \in Outcomes, CustomerUsesLink(t, r, o)
      PROVE  [L!Next]_(L!ledger)
  <2>1. charge'[r].txn = t /\ charge'[r].state = o /\ ~Paid(r)
    BY <1>7 DEF CustomerUsesLink, NoCharge, IInv, TypeOK
  <2>2. \A p \in Refs \ {r} : charge'[p] = charge[p]
    BY <1>7 DEF CustomerUsesLink, IInv, TypeOK
  <2>3. CASE o = "SUCCEEDED"
    <3>1. L!Pay(t, transactions[t].user)
      BY <1>7, <2>1, <2>2, <2>3, PaymentIsPay DEF CustomerUsesLink
    <3>2. transactions[t].user \in Users
      BY <1>7 DEF CustomerUsesLink, IInv, RowsAndChargesMatch
    <3> QED
      BY <3>1, <3>2 DEF L!Next
  <2>4. CASE o = "FAILED"
    BY <1>7, <2>1, <2>2, <2>4 DEF CustomerUsesLink, PaidLedger, GrantedLedger
  <2> QED
    BY <2>3, <2>4 DEF Outcomes
<1>8. ASSUME NEW d \in Deliveries, NEW i \in SubIds, CommitActivation(d, i)
      PROVE  [L!Next]_(L!ledger)
  <2> DEFINE t == delivery[d].txn
             u == transactions[t].user
  <2>1. t \in Txns /\ delivery[d].ref \in Refs /\ Paid(delivery[d].ref)
        /\ charge[delivery[d].ref].txn = t
    BY <1>8 DEF CommitActivation, IInv, DeliveriesKnowOutcomes
  <2>2. u \in Users
    BY <2>1 DEF IInv, RowsAndChargesMatch
  <2>3. UNCHANGED PaidLedger
    BY <1>8, <2>1, <1>4, SamePayments
    DEF CommitActivation, Statuses, IInv, RowsAndChargesMatch
  <2>4. [txn |-> t, user |-> u] \in PaidLedger
    BY <2>1 DEF PaidLedger
  <2>5. \A g \in GrantedLedger : g.txn # t
    BY <1>8 DEF CommitActivation, UniqueTransactionId, GrantedLedger
  <2>6. GrantedLedger' = GrantedLedger \cup
                            {[txn |-> t, user |-> u, expiresAt |-> now + Period]}
    <3> DEFINE s == NewSubscription(i, t, now + Period)
    <3>1. subscriptions' = subscriptions \cup {s}
      BY <1>8 DEF CommitActivation, InsertSubscription
    <3>2. s.txn = t /\ s.user = u /\ s.expiresAt = now + Period
      BY DEF NewSubscription
    <3> HIDE DEF s
    <3> QED
      BY <3>1, <3>2 DEF GrantedLedger
  <2>7. L!Grant(t, u)
    BY <1>8, <2>3, <2>4, <2>5, <2>6 DEF CommitActivation, L!Grant
  <2> QED
    BY <2>1, <2>2, <2>7 DEF L!Next
<1>9. CASE Tick
  <2>1. now' = now + 1
    BY <1>9 DEF Tick
  <2>2. UNCHANGED <<PaidLedger, GrantedLedger>>
    BY <1>9 DEF Tick, PaidLedger, GrantedLedger
  <2> QED
    BY <2>1, <2>2 DEF L!Tick, L!Next
<1>10. ASSUME NEW q \in Requests, InitiateStep(q) \/ InitiateFails(q)
       PROVE  Same
  <2>1. CASE StoreReference(q)
    BY <2>1, <1>3 DEF StoreReference, IInv, RequestsOwnRows, RequestsKnowCharges
  <2>2. CASE MarkInitiateFailed(q)
    BY <2>2, <1>5 DEF MarkInitiateFailed, MarkFailed, Statuses, IInv, RequestsOwnRows
  <2>3. ASSUME NEW r \in Refs, PushAccepted(q, r)
        PROVE  Same
    BY <2>3 DEF PushAccepted, NoCharge, IInv, TypeOK, PaidLedger, GrantedLedger
  <2> QED
    BY <1>10, <1>0, <1>2, <2>1, <2>2, <2>3 DEF InitiateStep, InitiateFails, ReturnLink
<1>11. ASSUME NEW d \in Deliveries, DeliveryStep(d) \/ DeliveryFails(d)
       PROVE  [L!Next]_(L!ledger)
  <2>1. CASE LinkReference(d)
    BY <2>1, <1>3 DEF LinkReference, IInv, DeliveriesKnowOutcomes
  <2>2. CASE MarkDeclined(d)
    BY <2>2, <1>5 DEF MarkDeclined, MarkFailed, Statuses, IInv, DeliveriesKnowOutcomes
  <2> QED
    BY <1>11, <1>1, <1>8, <2>1, <2>2
    DEF DeliveryStep, DeliveryFails, ActivationFound, ActivationRead, CommitConflict
<1>12. ASSUME NEW t \in Txns, MarkTimedOut(t)
       PROVE  Same
  BY <1>12, <1>5 DEF MarkTimedOut, Statuses
<1>13. ASSUME NEW r \in Refs, Deliver(r)
       PROVE  Same
  BY <1>13, <1>0 DEF Deliver, Receive, ReceiveIgnored
<1> QED
  BY <1>1, <1>6, <1>7, <1>9, <1>10, <1>11, <1>12, <1>13
  DEF Next, vars, FindExistingPending, SweepRead, Restart

(* However handlers overlap, fail and repeat, the database grants what the *)
(* providers collected: one period per payment, to its payer.              *)
THEOREM Refinement == Spec => RefinesLedger
<1>1. Init => L!Init
  BY DEF Init, L!Init, NoCharge, PaidLedger, GrantedLedger
<1>2. IInv /\ IInv' /\ [Next]_vars => [L!Next]_(L!ledger)
  BY LedgerStep
<1> QED
  BY <1>1, <1>2, Invariance, PTL DEF Spec, L!Spec, RefinesLedger
============================================================================
