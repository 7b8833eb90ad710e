--------------------------- MODULE MCMessageSend ---------------------------
(* Instances of MessageSend for TLC. *)
EXTENDS MessageSend, TLC

CONSTANTS imported, payment, campaign, request, w1, w2

\* One message of each kind: an imported line, a payment confirmation with its
\* case, a message of a campaign, and a direct request.
Forms == (imported :> "byId") @@ (payment :> "full") @@ (campaign :> "full")
         @@ (request :> "direct")
Tries == [j \in Jobs |-> IF j = campaign THEN 5 ELSE 3]

Mix(js, f, r, c) == [jobs |-> js, faults |-> f, rejections |-> r, callbacks |-> c]

\* A failure among callbacks; refusals to the last attempt; two that are sent
\* without a case, and jobs of three and of five attempts through more failures.
Together == {Mix({payment}, 1, 1, TRUE), Mix({payment, request}, 0, 3, FALSE),
             Mix({imported, request}, 2, 1, FALSE), Mix({imported}, 4, 1, FALSE),
             Mix({campaign}, 3, 5, FALSE)}
=============================================================================
