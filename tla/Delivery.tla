------------------------------ MODULE Delivery ------------------------------
(***************************************************************************)
(* What sending promises to those who ask for a message, without rows,     *)
(* processors, attempts or failures: a message goes out only when asked    *)
(* for and in a bounded number of copies, is given up or counts as sent    *)
(* once, and counts as sent only if it went out.                           *)
(***************************************************************************)
EXTENDS Naturals

CONSTANTS
    Messages,
    MaxCopies,  \* how often each may go out
    None

VARIABLES
    asked,      \* messages somebody asked for
    copies,     \* how often the provider took each
    outcome     \* what became of it

delivery == <<asked, copies, outcome>>

Outcome == {"sent", "dropped", None}

Init ==
    /\ asked = {}
    /\ copies = [m \in Messages |-> 0]
    /\ outcome = [m \in Messages |-> None]

Ask(m) ==
    /\ asked' = asked \cup {m}
    /\ UNCHANGED <<copies, outcome>>

\* A processor that lost its job may still send after the outcome.
Copy(m) ==
    /\ m \in asked /\ copies[m] < MaxCopies[m]
    /\ copies' = [copies EXCEPT ![m] = @ + 1]
    /\ UNCHANGED <<asked, outcome>>

Decide(m, o) ==
    /\ m \in asked /\ outcome[m] = None
    /\ o = "sent" => copies[m] > 0
    /\ outcome' = [outcome EXCEPT ![m] = o]
    /\ UNCHANGED <<asked, copies>>

Next == \E m \in Messages : Ask(m) \/ Copy(m) \/ \E o \in {"sent", "dropped"} : Decide(m, o)

Spec == Init /\ [][Next]_delivery
-----------------------------------------------------------------------------
\* What follows for whoever relies on it: nothing unasked goes out, nothing too
\* often, and what counts as sent went out.
Kept ==
    \A m \in Messages :
        /\ copies[m] <= MaxCopies[m]
        /\ copies[m] > 0 \/ outcome[m] # None => m \in asked
        /\ outcome[m] = "sent" => copies[m] > 0
=============================================================================
