--------------------------- MODULE TransactionLife ---------------------------
(***************************************************************************)
(* What the table transactions promises to those who watch a payment by    *)
(* its status: a row begins PENDING, a row that has left PENDING never     *)
(* returns to it, and a row turns SUCCEEDED in the very step in which its  *)
(* payment buys a subscription.  Between the three other statuses a row    *)
(* may move more than once: concurrent handlers overwrite each other's     *)
(* resolution.  Payments implements this module; Checkout builds on it.    *)
(***************************************************************************)
CONSTANT Txns       \* primary keys of the table transactions

VARIABLES
    status,         \* the column status, "ABSENT" where there is no row
    bought          \* the rows whose payment has bought a subscription

Begun(t) == status[t] # "ABSENT"

LifeInit ==
    /\ status = [t \in Txns |-> "ABSENT"]
    /\ bought = {}

Begin(t) ==
    /\ ~Begun(t)
    /\ status' = [status EXCEPT ![t] = "PENDING"]
    /\ UNCHANGED bought

Succeed(t) ==
    /\ Begun(t)
    /\ t \notin bought
    /\ status' = [status EXCEPT ![t] = "SUCCEEDED"]
    /\ bought' = bought \cup {t}

GiveUp(t, how) ==
    /\ Begun(t)
    /\ status' = [status EXCEPT ![t] = how]
    /\ UNCHANGED bought

Resolve(t) == Succeed(t) \/ \E how \in {"FAILED", "TIMED_OUT"} : GiveUp(t, how)

life == <<status, bought>>

LifeNext == \E t \in Txns : Begin(t) \/ Resolve(t)

LifeSpec == LifeInit /\ [][LifeNext]_life
==============================================================================
