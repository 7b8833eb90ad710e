----------------------------- MODULE MCInbound -----------------------------
(* Instances of Inbound for TLC. *)
EXTENDS Inbound, TLC

CONSTANTS ana, eva, leo, stop, promise, vague, r1, r2, w1, w2

\* ana and eva are debtors with one phone in two tenants; leo's phone may be
\* stored with a plus sign.
Tenants == (ana :> 0) @@ (eva :> 1) @@ (leo :> 0)
Addresses == (ana :> 11) @@ (eva :> 11) @@ (leo :> 12)
Statuses == [c \in Contacts |-> "ABIERTO"]

\* An opt-out that mentions a payment, a promise, one without a date.
Says == [t \in Texts |-> CASE t = stop -> {"baja", "pagado"}
                            [] t = promise -> {"pago", "monto", "fecha"}
                            [] t = vague -> {"pago", "monto"}]
Kinds == [t \in Texts |-> IF t = vague THEN "list" ELSE "text"]

\* leo promises twice in one payload; the opt-out is eva's.
LeoPromises == {<<promise, vague>>}
EvaStops == [t \in Texts |-> IF t = stop THEN 11 ELSE 12]

\* leo opts out by a direct call.
AllLeo == [t \in Texts |-> 12]
OneTenant == [c \in Contacts |-> 1]

Tenant1 == [t \in Direct |-> 1]
NoCase == [t \in Direct |-> None]

Symmetric == Permutations(Requests) \cup Permutations(Workers)
=============================================================================
