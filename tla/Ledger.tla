------------------------------- MODULE Ledger -------------------------------
(***************************************************************************)
(* What paying promises, with no handler, webhook, retry or fault in       *)
(* sight: a customer pays for a purchase once, and a payment buys its      *)
(* payer one period, once, counted from the moment it is granted.          *)
(***************************************************************************)
EXTENDS Integers

CONSTANTS Users, Txns, Period

VARIABLES clock, paid, granted

ledger == <<clock, paid, granted>>

Init == clock = 0 /\ paid = {} /\ granted = {}

Pay(t, u) ==
    /\ \A p \in paid : p.txn # t
    /\ paid' = paid \cup {[txn |-> t, user |-> u]}
    /\ UNCHANGED <<clock, granted>>

Grant(t, u) ==
    /\ [txn |-> t, user |-> u] \in paid
    /\ \A g \in granted : g.txn # t
    /\ granted' = granted \cup {[txn |-> t, user |-> u, expiresAt |-> clock + Period]}
    /\ UNCHANGED <<clock, paid>>

Tick == clock' = clock + 1 /\ UNCHANGED <<paid, granted>>

Next == Tick \/ \E t \in Txns, u \in Users : Pay(t, u) \/ Grant(t, u)

Spec == Init /\ [][Next]_ledger
============================================================================
