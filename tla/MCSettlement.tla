---------------------------- MODULE MCSettlement ----------------------------
(* Instances of Settlement for TLC. *)
EXTENDS Settlement, TLC

CONSTANTS p1, p2, c1, h1, h2

RequestSymmetry == Permutations(Requests)

\* A debt of 100.00 paid by two payments of which neither covers it alone.
TwoHalves == (p1 :> 6000) @@ (p2 :> 4000)

\* A debt of 100.00 paid at once.
Whole == p1 :> 10000

\* Half of it: the debt must be imported anew before this settles it.
Half == p1 :> 5000

AllOfC1 == [p \in Payments |-> c1]

Owes100 == [c \in Cases |-> [byDebtId |-> 10000, byCaseId |-> 0, cents |-> 0]]
OwesCents == [c \in Cases |-> [byDebtId |-> 0, byCaseId |-> 0, cents |-> 10000]]

ById == [via |-> "payments", shape |-> "data", type |-> "payment",
         header |-> FALSE, signed |-> TRUE]
ByIdWebhooks == [ById EXCEPT !.via = "webhooks"]
ByHeader == [ById EXCEPT !.header = TRUE]
ByClock == [ByIdWebhooks EXCEPT !.shape = "resource"]
OtherTopic == [ByHeader EXCEPT !.type = "other"]

BothControllers == {ById, ByIdWebhooks}
Headers == {ByHeader}
Mixed == {ByHeader, ByClock, OtherTopic}

Approval == {<<"linked", "approved">>}
Slow == {<<"linked", "pending">>, <<"pending", "approved">>}
Refunds == Approval \cup {<<"approved", "refunded">>}
Life == {<<"linked", "pending">>, <<"pending", "accredited">>,
         <<"pending", "rejected">>, <<"accredited", "refunded">>}
=============================================================================
