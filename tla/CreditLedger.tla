---------------------------- MODULE CreditLedger ----------------------------
(***************************************************************************)
(* What the credit store promises an organization (domain.CreditStore): a   *)
(* balance for each cost bearer that never goes below zero, spent at most   *)
(* once for each idempotency key, raised by purchases and by at most one    *)
(* grant for each billing period.  One atomic step for each operation.      *)
(***************************************************************************)
EXTENDS Integers

CONSTANTS
    Bearers, \* cost bearers (cost_bearers.id)
    Keys,    \* idempotency keys, the empty string included
    Periods, \* billing periods (monthly_credit_grants.period_start)
    Amounts, \* credits one consumption takes
    Packs,   \* sizes of the credit packs
    Units,   \* credits a month's grant brings
    Seed     \* balance an organization starts with

VARIABLES
    balance,  \* balance[b]: what is left to spend
    charged,  \* idempotency keys that have been paid
    credited  \* <<bearer, period>> pairs whose grant has been added

vars == <<balance, charged, credited>>

Init ==
    /\ balance = [b \in Bearers |-> Seed]
    /\ charged = {}
    /\ credited = {}

\* Credits are spent: all of them or none, and once for a key.
Charge(b, k, n) ==
    /\ k \notin charged
    /\ balance[b] >= n
    /\ balance' = [balance EXCEPT ![b] = @ - n]
    /\ charged' = charged \cup {k}
    /\ UNCHANGED credited

\* A pack is bought.
Buy(b, n) ==
    /\ balance' = [balance EXCEPT ![b] = @ + n]
    /\ UNCHANGED <<charged, credited>>

\* The month's included credits arrive.
Grant(b, p) ==
    /\ <<b, p>> \notin credited
    /\ balance' = [balance EXCEPT ![b] = @ + Units]
    /\ credited' = credited \cup {<<b, p>>}
    /\ UNCHANGED charged

Next ==
    \E b \in Bearers :
        \/ \E k \in Keys, n \in Amounts : Charge(b, k, n)
        \/ \E n \in Packs : Buy(b, n)
        \/ \E p \in Periods : Grant(b, p)

Spec == Init /\ [][Next]_vars
=============================================================================
