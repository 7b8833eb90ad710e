---------------------------- MODULE MCNlpInbound ----------------------------
(* Instances of NlpInbound for TLC. *)
EXTENDS NlpInbound, TLC

CONSTANTS ana, eva, leo, promise, again, stop, vague, w1, w2

\* ana and eva hold one phone, in two tenants, leo another; only ana's case is
\* OPEN, and the id of eva's tenant is a uuid.  Nobody holds the phone of the
\* vague promise.
OwnPhones == [c \in Contacts |-> IF c = leo THEN 22 ELSE 11]
Senders == [t \in Texts |-> IF t = vague THEN 33 ELSE 11]

\* A promise that both webhooks enqueue, and, without an id, an opt-out and a
\* promise that names no date.
Ids == (promise :> 1) @@ (again :> 1) @@ (vague :> None) @@ (stop :> None)
Says == [t \in Texts |-> CASE t = stop -> {"baja", "pague"} [] t = vague -> {"pago", "monto"}
                           [] OTHER -> {"pago", "fecha"}]
Tries == [t \in Texts |-> IF t = again THEN 1 ELSE 3]

Slots == Permutations(Workers)
=============================================================================
