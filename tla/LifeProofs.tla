----------------------------- MODULE LifeProofs -----------------------------
(***************************************************************************)
(* What becomes of a payment's row, for any number of users, rows and      *)
(* handlers: Payments implements TransactionLife, which its watchers, the  *)
(* pages of Checkout, may count on; and what a granted row may be          *)
(* overwritten with.                                                       *)
(***************************************************************************)
EXTENDS PaymentsProofs

(* The one-line state predicates are expanded wherever they occur.         *)
USE DEF Exists, Pending, Bank, Subscribed, Settled, Paid, Declined, HoldsRow

(* A step that leaves every status and the subscriptions alone.            *)
LEMMA LifeStutters ==
  ASSUME UNCHANGED subscriptions,
         \A t \in Txns : transactions'[t].status = transactions[t].status
  PROVE  UNCHANGED Life!life
BY DEF Life!life, StatusColumn, Bought

(* The row a webhook handler works on exists.                              *)
LEMMA DeliveriesHoldRows ==
  ASSUME IInv, NEW d \in Deliveries, delivery[d].pc # "idle"
  PROVE  /\ delivery[d].txn \in Txns
         /\ Exists(delivery[d].txn)
BY DEF IInv, DeliveriesKnowOutcomes, RowsAndChargesMatch, Outcomes

(* Every handler that resolves a row without a subscription gives it up:   *)
(* the update is by primary key alone, so the row need only exist.         *)
LEMMA GivingUp ==
  ASSUME IInv, NEW t \in Txns, NEW how \in {"FAILED", "TIMED_OUT"}, Exists(t),
         transactions' = [transactions EXCEPT ![t].status = how],
         UNCHANGED subscriptions
  PROVE  Life!LifeNext
<1>0. TypeOK /\ how \in Statuses
  BY DEF IInv, Statuses
<1>1. \A u \in Txns :
        transactions'[u].status = IF u = t THEN how ELSE transactions[u].status
  BY <1>0, StatusUpdate
<1>2. StatusColumn' = [StatusColumn EXCEPT ![t] = how]
  BY <1>1 DEF StatusColumn
<1>3. StatusColumn[t] # "ABSENT"
  BY DEF StatusColumn
<1>4. Life!GiveUp(t, how)
  BY <1>2, <1>3 DEF Life!GiveUp, Life!Begun, Bought
<1> QED
  BY <1>4 DEF Life!LifeNext, Life!Resolve

LEMMA CreatingBegins ==
  ASSUME IInv, NEW q \in Requests, NEW t \in Txns, CreateTransaction(q, t)
  PROVE  Life!LifeNext
<1>1. StatusColumn' = [StatusColumn EXCEPT ![t] = "PENDING"]
  BY DEF CreateTransaction, StatusColumn, IInv, TypeOK
<1>2. StatusColumn[t] = "ABSENT" /\ UNCHANGED Bought
  BY DEF CreateTransaction, StatusColumn, Bought
<1>3. Life!Begin(t)
  BY <1>1, <1>2 DEF Life!Begin, Life!Begun
<1> QED
  BY <1>3 DEF Life!LifeNext

(* The status and the subscription are written in one commit.              *)
LEMMA CommittingSucceeds ==
  ASSUME IInv, NEW d \in Deliveries, NEW i \in SubIds, CommitActivation(d, i)
  PROVE  Life!LifeNext
<1> DEFINE t == delivery[d].txn
<1>1. t \in Txns /\ Exists(t)
  BY DeliveriesHoldRows DEF CommitActivation
<1>2. \A u \in Txns :
        transactions'[u].status = IF u = t THEN "SUCCEEDED" ELSE transactions[u].status
  BY <1>1, StatusUpdate DEF CommitActivation, IInv, Statuses
<1>3. StatusColumn' = [StatusColumn EXCEPT ![t] = "SUCCEEDED"]
  BY <1>2 DEF StatusColumn
<1>4. StatusColumn[t] # "ABSENT"
  BY <1>1 DEF StatusColumn
<1>5. t \notin Bought
  BY DEF CommitActivation, UniqueTransactionId, Bought
<1>6. Bought' = Bought \cup {t}
  <2> DEFINE s == NewSubscription(i, t, now + Period)
  <2>1. subscriptions' = subscriptions \cup {s}
    BY DEF CommitActivation, InsertSubscription
  <2>2. s.txn = t
    BY DEF NewSubscription
  <2> HIDE DEF s
  <2> QED
    BY <2>1, <2>2 DEF Bought
<1>7. Life!Succeed(t)
  BY <1>3, <1>4, <1>5, <1>6 DEF Life!Succeed, Life!Begun
<1> QED
  BY <1>1, <1>7 DEF Life!LifeNext, Life!Resolve

LEMMA LifeStep == IInv /\ [Next]_vars => [Life!LifeNext]_(Life!life)
<1> SUFFICES ASSUME IInv, [Next]_vars PROVE [Life!LifeNext]_(Life!life)
  OBVIOUS
<1> USE DEF database, handlers, providers
<1>1. CASE UNCHANGED <<transactions, subscriptions>>
  BY <1>1, LifeStutters
<1>2. ASSUME NEW t \in Txns, NEW r \in Refs, SetProviderReference(t, r),
             UNCHANGED subscriptions
      PROVE  UNCHANGED Life!life
  BY <1>2, LifeStutters DEF SetProviderReference, IInv, TypeOK, Row
<1>3. ASSUME NEW q \in Requests, InitiateStep(q) \/ InitiateFails(q)
      PROVE  [Life!LifeNext]_(Life!life)
  <2>1. CASE StoreReference(q)
    BY <2>1, <1>2 DEF StoreReference, IInv, RequestsOwnRows, RequestsKnowCharges
  <2>2. CASE MarkInitiateFailed(q)
    BY <2>2, GivingUp DEF MarkInitiateFailed, MarkFailed, IInv, RequestsOwnRows
  <2>3. ASSUME NEW r \in Refs, PushAccepted(q, r)
        PROVE  UNCHANGED <<transactions, subscriptions>>
    BY <2>3 DEF PushAccepted
  <2> QED
    BY <1>3, <1>1, <2>1, <2>2, <2>3, CreatingBegins
    DEF InitiateStep, InitiateFails, ReturnLink
<1>4. ASSUME NEW d \in Deliveries, DeliveryStep(d) \/ DeliveryFails(d)
      PROVE  [Life!LifeNext]_(Life!life)
  <2>1. CASE LinkReference(d)
    BY <2>1, <1>2 DEF LinkReference, IInv, DeliveriesKnowOutcomes
  <2>2. CASE MarkDeclined(d)
    BY <2>2, GivingUp, DeliveriesHoldRows DEF MarkDeclined, MarkFailed
  <2> QED
    BY <1>4, <1>1, <2>1, <2>2, CommittingSucceeds
    DEF DeliveryStep, DeliveryFails, ActivationFound, ActivationRead, CommitConflict
<1>5. ASSUME NEW t \in Txns, MarkTimedOut(t)
      PROVE  Life!LifeNext
  BY <1>5, GivingUp DEF MarkTimedOut, IInv, StaleIsOverdue
<1>6. ASSUME NEW r \in Refs, Deliver(r)
      PROVE  UNCHANGED <<transactions, subscriptions>>
  BY <1>6 DEF Deliver, Receive, ReceiveIgnored
<1>7. ASSUME NEW r \in Refs, NEW o \in Outcomes,
             CustomerAnswersPush(r, o) \/ \E t \in Txns : CustomerUsesLink(t, r, o)
      PROVE  UNCHANGED <<transactions, subscriptions>>
  BY <1>7 DEF CustomerAnswersPush, CustomerUsesLink
<1> QED
  BY <1>1, <1>3, <1>4, <1>5, <1>6, <1>7
  DEF Next, vars, FindExistingPending, SweepRead, Tick, Restart

(* However handlers, webhooks and sweeps overlap, a payment's status never *)
(* goes back to PENDING, and reads SUCCEEDED from no other step than the   *)
(* one that inserts its subscription.                                      *)
THEOREM LifeRefinement == Spec => RefinesLife
<1>1. Init => Life!LifeInit
  BY DEF Init, NoRow, Life!LifeInit, StatusColumn, Bought
<1>2. IInv /\ [Next]_vars => [Life!LifeNext]_(Life!life)
  BY LifeStep
<1> QED
  BY <1>1, <1>2, Invariance, PTL DEF Spec, RefinesLife, Life!LifeSpec

----------------------------------------------------------------------------
(* The row of a payment that was granted, after it was overwritten.        *)

Overwriting == FoundByReference /\ SuccessOverwritten

(* Handlers end or go on with the rows they have.                          *)
RequestsShrink ==
  \A q \in Requests : HoldsRow(q)' => HoldsRow(q) /\ request'[q].txn = request[q].txn

DeliveriesShrink ==
  \A d \in Deliveries : delivery'[d].pc # "idle" =>
      delivery[d].pc # "idle" /\ delivery'[d].txn = delivery[d].txn

(* A declined attempt stays declined.                                      *)
DeclinedStay ==
  \A r \in Refs : charge[r].state = "FAILED" => charge'[r] = charge[r]

(* Handlers know their rows.                                               *)
LEMMA HandlersHoldRows ==
  ASSUME IInv
  PROVE  /\ \A q \in Requests : HoldsRow(q) => request[q].txn \in Txns
         /\ \A d \in Deliveries : delivery[d].pc # "idle" => delivery[d].txn \in Txns
BY DEF IInv, RequestsOwnRows, DeliveriesKnowOutcomes

LEMMA TablesStay ==
  ASSUME IInv, Overwriting,
         UNCHANGED <<transactions, subscriptions>>,
         RequestsShrink, DeclinedStay,
         \A d \in Deliveries : delivery'[d].pc # "idle" =>
            \/ delivery[d].pc # "idle" /\ delivery'[d].txn = delivery[d].txn
            \/ Bank(delivery'[d].txn)
            \/ transactions[delivery'[d].txn].ref # None
  PROVE  Overwriting'
<1>1. FoundByReference'
  BY DEF Overwriting, FoundByReference, RequestsShrink
<1>2. SuccessOverwritten'
  BY DEF Overwriting, SuccessOverwritten, DeclinedStay
<1> QED
  BY <1>1, <1>2 DEF Overwriting

(* A status written by primary key alone.                                  *)
LEMMA StatusOverwritten ==
  ASSUME IInv, Overwriting, NEW t \in Txns, NEW how \in {"FAILED", "TIMED_OUT"},
         transactions' = [transactions EXCEPT ![t].status = how],
         UNCHANGED <<subscriptions, charge>>,
         RequestsShrink, DeliveriesShrink,
         Subscribed(t) => \/ how = "TIMED_OUT" /\ ~Bank(t)
                          \/ how = "FAILED" /\ Bank(t) /\ Declined(t)
  PROVE  Overwriting'
<1>0. TypeOK /\ how \in Statuses
  BY DEF IInv, Statuses
<1>1. \A u \in Txns :
        /\ transactions'[u].status = IF u = t THEN how ELSE transactions[u].status
        /\ transactions'[u].method = transactions[u].method
        /\ transactions'[u].ref = transactions[u].ref
  BY <1>0, StatusUpdate
<1>2. FoundByReference'
  BY <1>1, HandlersHoldRows
  DEF Overwriting, FoundByReference, RequestsShrink, DeliveriesShrink
<1>3. SuccessOverwritten'
  BY <1>1 DEF Overwriting, SuccessOverwritten
<1> QED
  BY <1>2, <1>3 DEF Overwriting

(* A bank checkout that a webhook works on, or that was granted, is one    *)
(* whose link is out: no request holds its row.                            *)
LEMMA ChargedIsOut ==
  ASSUME IInv, NEW r \in Refs, Settled(r), Bank(charge[r].txn)
  PROVE  \A q \in Requests : HoldsRow(q) => request[q].txn # charge[r].txn
BY DEF IInv, RowsAndChargesMatch, RequestsOwnRows, Outcomes

LEMMA GrantedIsOut ==
  ASSUME IInv, Overwriting, NEW t \in Txns, Subscribed(t)
  PROVE  \A q \in Requests : HoldsRow(q) => request[q].txn # t
<1>1. PICK r \in Refs : Paid(r) /\ charge[r].txn = t
  BY DEF IInv, SubscriptionIsPaidFor
<1>2. CASE Bank(t)
  BY <1>1, <1>2, ChargedIsOut DEF Outcomes
<1>3. CASE ~Bank(t)
  BY <1>3 DEF Overwriting, FoundByReference
<1> QED
  BY <1>2, <1>3

(* A reference is stored.                                                  *)
LEMMA ReferenceStored ==
  ASSUME IInv, Overwriting, NEW t \in Txns, NEW r \in Refs, SetProviderReference(t, r),
         UNCHANGED <<subscriptions, charge>>,
         RequestsShrink, DeliveriesShrink,
         \A q \in Requests : HoldsRow(q)' => request[q].txn # t
  PROVE  Overwriting'
<1>1. \A u \in Txns :
        /\ transactions'[u].status = transactions[u].status
        /\ transactions'[u].method = transactions[u].method
        /\ transactions'[u].ref = IF u = t THEN r ELSE transactions[u].ref
  BY DEF SetProviderReference, IInv, TypeOK, Row
<1>2. r # None
  BY NoneAssumption
<1>3. FoundByReference'
  BY <1>1, <1>2, HandlersHoldRows
  DEF Overwriting, FoundByReference, RequestsShrink, DeliveriesShrink
<1>4. SuccessOverwritten'
  BY <1>1 DEF Overwriting, SuccessOverwritten
<1> QED
  BY <1>3, <1>4 DEF Overwriting

(* One step of the payments, handler by handler.                           *)
LEMMA OverwritingStep ==
  ASSUME IInv, Overwriting, [Next]_vars
  PROVE  Overwriting'
<1> USE DEF database, handlers, providers
<1>1. CASE UNCHANGED vars
  BY <1>1, TablesStay DEF vars, RequestsShrink, DeclinedStay
<1>2. ASSUME NEW q \in Requests, NEW t \in Txns, CreateTransaction(q, t)
      PROVE  Overwriting'
  <2>1. ~Subscribed(t)
    BY <1>2 DEF CreateTransaction, Overwriting, SuccessOverwritten
  <2>2. /\ transactions'[t].ref = None
        /\ \A u \in Txns \ {t} : transactions'[u] = transactions[u]
        /\ UNCHANGED <<subscriptions, charge, delivery>>
    BY <1>2 DEF CreateTransaction, IInv, TypeOK
  <2>3. \A p \in Requests : HoldsRow(p)' =>
            request'[p].txn = t \/ (HoldsRow(p) /\ request'[p].txn = request[p].txn)
    BY <1>2 DEF CreateTransaction, IInv, TypeOK, Request
  <2>4. \A d \in Deliveries : delivery[d].pc # "idle" =>
            delivery[d].txn \in Txns /\ delivery[d].txn # t
    BY <1>2, DeliveriesHoldRows DEF CreateTransaction
  <2>5. FoundByReference'
    BY <2>1, <2>2, <2>3, <2>4, HandlersHoldRows DEF Overwriting, FoundByReference
  <2>6. SuccessOverwritten'
    BY <2>1, <2>2 DEF Overwriting, SuccessOverwritten
  <2> QED
    BY <2>5, <2>6 DEF Overwriting
<1>3. ASSUME NEW q \in Requests, StoreReference(q)
      PROVE  Overwriting'
  <2>1. /\ request[q].txn \in Txns
        /\ request[q].ref \in Refs
        /\ \A p \in Requests \ {q} : HoldsRow(p) => request[p].txn # request[q].txn
    BY <1>3 DEF StoreReference, IInv, RequestsOwnRows, RequestsKnowCharges
  <2>2. /\ request'[q].pc = "idle"
        /\ \A p \in Requests \ {q} : request'[p] = request[p]
    BY <1>3 DEF StoreReference, EndRequest, IdleRequest, IInv, TypeOK
  <2>3. RequestsShrink /\ DeliveriesShrink
    BY <1>3, <2>2 DEF StoreReference, RequestsShrink, DeliveriesShrink
  <2>4. \A p \in Requests : HoldsRow(p)' => request[p].txn # request[q].txn
    BY <2>1, <2>2
  <2> QED
    BY <1>3, <2>1, <2>3, <2>4, ReferenceStored DEF StoreReference
<1>4. ASSUME NEW q \in Requests, MarkInitiateFailed(q)
      PROVE  Overwriting'
  <2>1. request[q].txn \in Txns /\ ~Subscribed(request[q].txn)
    BY <1>4, HandlersHoldRows, GrantedIsOut DEF MarkInitiateFailed
  <2>2. RequestsShrink /\ DeliveriesShrink
    BY <1>4 DEF MarkInitiateFailed, EndRequest, IdleRequest, RequestsShrink, DeliveriesShrink,
       IInv, TypeOK
  <2> QED
    BY <1>4, <2>1, <2>2, StatusOverwritten DEF MarkInitiateFailed, MarkFailed
<1>5. ASSUME NEW q \in Requests,
             \/ \E u \in Users, m \in Methods : FindExistingPending(q, u, m)
             \/ \E r \in Refs : PushAccepted(q, r)
             \/ ReturnLink(q)
             \/ InitiateFails(q)
      PROVE  Overwriting'
  <2>1. request \in [Requests -> Request] /\ charge \in [Refs -> Charge]
    BY DEF IInv, TypeOK
  <2>2. ASSUME NEW u \in Users, NEW m \in Methods, FindExistingPending(q, u, m)
        PROVE  Overwriting'
    <3>1. RequestsShrink
      BY <2>1, <2>2 DEF FindExistingPending, IdleRequest, RequestsShrink
    <3> QED
      BY <2>2, <3>1, TablesStay DEF FindExistingPending, DeclinedStay
  <2>3. ASSUME NEW r \in Refs, PushAccepted(q, r)
        PROVE  Overwriting'
    <3>1. RequestsShrink /\ DeclinedStay
      BY <2>1, <2>3 DEF PushAccepted, Request, NoCharge, RequestsShrink, DeclinedStay
    <3> QED
      BY <2>3, <3>1, TablesStay DEF PushAccepted
  <2>4. CASE ReturnLink(q)
    <3>1. RequestsShrink
      BY <2>1, <2>4 DEF ReturnLink, EndRequest, IdleRequest, RequestsShrink
    <3> QED
      BY <2>4, <3>1, TablesStay DEF ReturnLink, DeclinedStay
  <2>5. CASE InitiateFails(q)
    <3>1. RequestsShrink
      BY <2>1, <2>5 DEF InitiateFails, Goto, Request, RequestsShrink
    <3> QED
      BY <2>5, <3>1, TablesStay DEF InitiateFails, DeclinedStay
  <2> QED
    BY <1>5, <2>2, <2>3, <2>4, <2>5
<1>6. ASSUME NEW r \in Refs, NEW o \in Outcomes,
             CustomerAnswersPush(r, o) \/ \E t \in Txns : CustomerUsesLink(t, r, o)
      PROVE  Overwriting'
  <2>1. DeclinedStay /\ UNCHANGED <<transactions, subscriptions, request, delivery>>
    BY <1>6 DEF CustomerAnswersPush, CustomerUsesLink, DeclinedStay, NoCharge, IInv, TypeOK
  <2> QED
    BY <2>1, TablesStay DEF RequestsShrink
<1>7. ASSUME NEW r \in Refs, Deliver(r)
      PROVE  Overwriting'
  <2>1. ASSUME NEW d \in Deliveries, NEW t \in Txns, Receive(d, r, t)
        PROVE  Overwriting'
    <3>1. Bank(t) \/ transactions[t].ref # None
      BY <2>1, NoneAssumption DEF Receive, FindForWebhook, ByReference
    <3>2. \A e \in Deliveries : delivery'[e].pc # "idle" =>
              \/ delivery'[e].txn = t
              \/ delivery[e].pc # "idle" /\ delivery'[e].txn = delivery[e].txn
      BY <2>1 DEF Receive, IInv, TypeOK
    <3>3. UNCHANGED <<transactions, subscriptions, request, charge>>
      BY <2>1 DEF Receive
    <3> QED
      BY <3>1, <3>2, <3>3, TablesStay DEF RequestsShrink, DeclinedStay
  <2>2. CASE ReceiveIgnored(r)
    BY <2>2, TablesStay DEF ReceiveIgnored, RequestsShrink, DeclinedStay
  <2> QED
    BY <1>7, <2>1, <2>2 DEF Deliver
<1>8. ASSUME NEW d \in Deliveries, LinkReference(d)
      PROVE  Overwriting'
  <2>1. PICK t \in Txns, r \in Refs : /\ t = delivery[d].txn
                                      /\ r = delivery[d].ref
                                      /\ charge[r].txn = t
                                      /\ Settled(r)
    BY <1>8 DEF LinkReference, IInv, DeliveriesKnowOutcomes
  <2>2. Bank(t) \/ transactions[t].ref # None
    BY <1>8, <2>1 DEF LinkReference, Overwriting, FoundByReference
  <2>3. \A q \in Requests : HoldsRow(q) => request[q].txn # t
    BY <2>1, <2>2, ChargedIsOut DEF Overwriting, FoundByReference
  <2>4. RequestsShrink /\ DeliveriesShrink
    BY <1>8 DEF LinkReference, GotoDelivery, RequestsShrink, DeliveriesShrink, IInv, TypeOK,
       Delivery
  <2>5. \A q \in Requests : HoldsRow(q)' => request[q].txn # t
    BY <1>8, <2>3 DEF LinkReference
  <2> QED
    BY <1>8, <2>1, <2>4, <2>5, ReferenceStored DEF LinkReference
<1>9. ASSUME NEW d \in Deliveries, NEW i \in SubIds, CommitActivation(d, i)
      PROVE  Overwriting'
  <2>1. PICK t \in Txns : t = delivery[d].txn
    BY <1>9, DeliveriesHoldRows DEF CommitActivation
  <2>2. \A u \in Txns :
          /\ transactions'[u].status = IF u = t THEN "SUCCEEDED" ELSE transactions[u].status
          /\ transactions'[u].method = transactions[u].method
          /\ transactions'[u].ref = transactions[u].ref
    <3>1. TypeOK /\ "SUCCEEDED" \in Statuses
      BY DEF IInv, Statuses
    <3>2. transactions' = [transactions EXCEPT ![t].status = "SUCCEEDED"]
      BY <1>9, <2>1 DEF CommitActivation
    <3> QED
      BY <3>1, <3>2, StatusUpdate
  <2>3. \A u \in Txns : Subscribed(u)' => u = t \/ Subscribed(u)
    BY <1>9, <2>1 DEF CommitActivation, InsertSubscription, NewSubscription
  <2>4. Bank(t) \/ transactions[t].ref # None
    BY <1>9, <2>1 DEF CommitActivation, Overwriting, FoundByReference
  <2>5. DeliveriesShrink /\ UNCHANGED <<request, charge>>
    BY <1>9 DEF CommitActivation, EndDelivery, IdleDelivery, DeliveriesShrink, IInv, TypeOK
  <2>6. FoundByReference'
    BY <2>2, <2>3, <2>4, <2>5, HandlersHoldRows
    DEF Overwriting, FoundByReference, DeliveriesShrink
  <2>7. SuccessOverwritten'
    BY <2>2, <2>3, <2>5 DEF Overwriting, SuccessOverwritten
  <2> QED
    BY <2>6, <2>7 DEF Overwriting
<1>10. ASSUME NEW d \in Deliveries, MarkDeclined(d)
       PROVE  Overwriting'
  <2>1. PICK t \in Txns, r \in Refs : /\ t = delivery[d].txn
                                      /\ charge[r].txn = t
                                      /\ charge[r].state = "FAILED"
    BY <1>10 DEF MarkDeclined, IInv, DeliveriesKnowOutcomes, Outcomes
  <2>2. Subscribed(t) => Bank(t) /\ Declined(t)
    <3>1. Declined(t)
      BY <2>1
    <3>2. ASSUME Subscribed(t) PROVE Bank(t)
      <4>1. PICK p \in Refs : Paid(p) /\ charge[p].txn = t
        BY <3>2 DEF IInv, SubscriptionIsPaidFor
      <4> QED
        BY <2>1, <4>1 DEF IInv, PaidOnce
    <3> QED
      BY <3>1, <3>2
  <2>3. RequestsShrink /\ DeliveriesShrink
    BY <1>10 DEF MarkDeclined, EndDelivery, IdleDelivery, RequestsShrink, DeliveriesShrink,
       IInv, TypeOK
  <2> QED
    BY <1>10, <2>1, <2>2, <2>3, StatusOverwritten DEF MarkDeclined, MarkFailed
<1>11. ASSUME NEW d \in Deliveries,
              \/ ActivationFound(d) \/ ActivationRead(d)
              \/ CommitConflict(d) \/ DeliveryFails(d)
       PROVE  Overwriting'
  <2>1. DeliveriesShrink
    BY <1>11 DEF ActivationFound, ActivationRead, CommitConflict, DeliveryFails, EndDelivery,
       GotoDelivery, IdleDelivery, DeliveriesShrink, IInv, TypeOK, Delivery
  <2>2. UNCHANGED <<transactions, subscriptions, request, charge>>
    BY <1>11 DEF ActivationFound, ActivationRead, CommitConflict, DeliveryFails
  <2> QED
    BY <2>1, <2>2, TablesStay DEF RequestsShrink, DeliveriesShrink, DeclinedStay
<1>12. ASSUME NEW t \in Txns, MarkTimedOut(t)
       PROVE  Overwriting'
  <2>1. ~Bank(t)
    BY <1>12 DEF MarkTimedOut, IInv, StaleIsOverdue
  <2>2. RequestsShrink /\ DeliveriesShrink
    BY <1>12 DEF MarkTimedOut, RequestsShrink, DeliveriesShrink
  <2> QED
    BY <1>12, <2>1, <2>2, StatusOverwritten DEF MarkTimedOut
<1>13. CASE SweepRead \/ Tick \/ Restart
  <2>1. UNCHANGED <<transactions, subscriptions, charge>>
    BY <1>13 DEF SweepRead, Tick, Restart
  <2>2. RequestsShrink /\ DeliveriesShrink
    BY <1>13 DEF SweepRead, Tick, Restart, RequestsShrink, DeliveriesShrink, IdleRequest,
       IdleDelivery
  <2> QED
    BY <2>1, <2>2, TablesStay DEF DeliveriesShrink, DeclinedStay
<1> QED
  BY <1>1, <1>2, <1>3, <1>4, <1>5, <1>6, <1>7, <1>8, <1>9, <1>10, <1>11, <1>12, <1>13
  DEF Next, InitiateStep, DeliveryStep

(* A row whose payment was granted reads SUCCEEDED, or was overwritten by  *)
(* a handler that had read it before: TIMED_OUT by the sweep, a push only, *)
(* or FAILED by a declined attempt on the same checkout link.  No push     *)
(* that was paid reads FAILED, and no granted row reads PENDING.           *)
THEOREM GrantedRowsRead == Spec => []SuccessOverwritten
<1>1. Init => Overwriting
  BY DEF Init, Overwriting, FoundByReference, SuccessOverwritten, IdleRequest, IdleDelivery
<1>2. IInv /\ Overwriting /\ [Next]_vars => Overwriting'
  BY OverwritingStep
<1>3. Overwriting => SuccessOverwritten
  BY DEF Overwriting
<1> QED
  BY <1>1, <1>2, <1>3, Invariance, PTL DEF Spec
============================================================================
