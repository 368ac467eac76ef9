---------------------------- MODULE Entitlement ----------------------------
(***************************************************************************)
(* The three places of the backend that decide whether a user is           *)
(* subscribed, each with a database query of its own over the rows of the  *)
(* table `subscriptions`.  A row here is a record                          *)
(*     [id, txn, user, expiresAt]                                          *)
(* Its column `status` is written once, as ACTIVE, and never updated, and  *)
(* startAt is expiresAt minus a constant: neither is kept.                 *)
(***************************************************************************)
EXTENDS Integers

SubscriptionsOf(subs, u) == {s \in subs : s.user = u}

(* EntitlementGuard.hasActiveSubscription: some row that has not expired.  *)
HasActiveSubscription(subs, u, t) ==
    \E s \in SubscriptionsOf(subs, u) : s.expiresAt > t

(* Mutant of Latest: the rows sorted the other way round.                  *)
EarliestFirst(subs, u) ==
    CHOOSE s \in SubscriptionsOf(subs, u) :
        \A r \in SubscriptionsOf(subs, u) : s.expiresAt <= r.expiresAt

(* findFirst({ orderBy: { expiresAt: 'desc' } }).                          *)
Latest(subs, u) ==
    CHOOSE s \in SubscriptionsOf(subs, u) :
        \A r \in SubscriptionsOf(subs, u) : r.expiresAt <= s.expiresAt

(* SubscriptionsService.getStatusForUser, read by the account pages.       *)
StatusForUser(subs, u, t) ==
    IF SubscriptionsOf(subs, u) = {} THEN "NONE"
    ELSE IF Latest(subs, u).expiresAt > t THEN "ACTIVE"
    ELSE "EXPIRED"

(* AuthService.getMe, read by the header and by the play button: the same  *)
(* latest row, reported only while it is active.                           *)
MeIsSubscribed(subs, u, t) ==
    /\ SubscriptionsOf(subs, u) # {}
    /\ Latest(subs, u).expiresAt > t
============================================================================
