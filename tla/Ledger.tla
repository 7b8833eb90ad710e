------------------------------- MODULE Ledger -------------------------------
(***************************************************************************)
(* What settlement promises, without webhooks, keys, requests or failures: *)
(* nothing is written that what Mercado Pago reported does not justify.    *)
(* Each effect happens in one step, from evidence that may be old but was  *)
(* true once; it may happen late, again, or not at all.                    *)
(***************************************************************************)
EXTENDS Naturals

CONSTANTS
    Payments, Cases, None,
    RawStatus,        \* what Mercado Pago may report of a payment
    mapMpStatus(_),   \* the status the table keeps for a reported one
    PaymentsOf(_),    \* the payments of a case
    IsZero(_, _),     \* a sum owed is settled by a set of payments
    NewCase, InitialOwed

VARIABLES
    reported,  \* the statuses Mercado Pago has given to each payment
    owes,      \* the sums each case has owed
    recorded,  \* the status in the payments table, or None
    told,      \* how often each debtor was told that the payment was approved
    status,    \* the status of each case
    decided    \* how often an operator has decided the status of each case

ledger == <<reported, owes, recorded, told, status, decided>>

Approved(p) == reported[p] \cap {"approved", "accredited"} # {}

\* Payments of c that were approved at some time, and a sum that c owed.
Evidence(c) == (SUBSET {p \in PaymentsOf(c) : Approved(p)}) \X owes[c]

Init ==
    /\ reported = [p \in Payments |-> {}]
    /\ owes = [c \in Cases |-> {InitialOwed[c]}]
    /\ recorded = [p \in Payments |-> None]
    /\ told = [p \in Payments |-> 0]
    /\ status = [c \in Cases |-> NewCase]
    /\ decided = [c \in Cases |-> 0]

Report(p, s) ==
    /\ reported' = [reported EXCEPT ![p] = @ \cup {s}]
    /\ UNCHANGED <<owes, recorded, told, status, decided>>

Owe(c) ==
    /\ \E d \in owes'[c] : owes' = [owes EXCEPT ![c] = @ \cup {d}]
    /\ UNCHANGED <<reported, recorded, told, status, decided>>

\* The table takes a status that was reported, not always the last one.
Record(p, s) ==
    /\ s \in reported[p]
    /\ recorded' = [recorded EXCEPT ![p] = mapMpStatus(s)]
    /\ UNCHANGED <<reported, owes, told, status, decided>>

\* A debtor is told only of payments that were approved and recorded.
Tell(p) ==
    /\ Approved(p) /\ recorded[p] # None
    /\ told' = [told EXCEPT ![p] = @ + 1]
    /\ UNCHANGED <<reported, owes, recorded, status, decided>>

Close(c) ==
    /\ \E e \in Evidence(c) : IsZero(e[2], e[1])
    /\ status' = [status EXCEPT ![c] = "PAID"]
    /\ UNCHANGED <<reported, owes, recorded, told, decided>>

\* Only a PAID case with an approved payment reopens, on a balance it once had.
Reopen(c) ==
    /\ status[c] = "PAID"
    /\ \E e \in Evidence(c) : ~IsZero(e[2], e[1])
    /\ \E p \in PaymentsOf(c) : Approved(p)
    /\ status' = [status EXCEPT ![c] = "OPEN"]
    /\ UNCHANGED <<reported, owes, recorded, told, decided>>

\* An operator may give a case any status, and it shows that it was an operator.
Decide(c, s) ==
    /\ s \in {"OPEN", "PAID", "CANCELLED"}
    /\ status' = [status EXCEPT ![c] = s]
    /\ decided' = [decided EXCEPT ![c] = @ + 1]
    /\ UNCHANGED <<reported, owes, recorded, told>>

Next ==
    \/ \E p \in Payments : Tell(p) \/ \E s \in RawStatus : Report(p, s) \/ Record(p, s)
    \/ \E c \in Cases : \/ Owe(c) \/ Close(c) \/ Reopen(c)
                        \/ \E s \in {"OPEN", "PAID", "CANCELLED"} : Decide(c, s)

Spec == Init /\ [][Next]_ledger
=============================================================================
