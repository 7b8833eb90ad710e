----------------------------- MODULE MCCampaign -----------------------------
(* Instances of Campaign for TLC. *)
EXTENDS Campaign, TLC

CONSTANTS ana, leo, eva, daily, hourly, r1, r2, w1, w2, e1, e2

\* A row as create leaves it, with one message a day.
ActiveOne == {[status |-> "ACTIVE", cap |-> 1, cron |-> None]}

\* The filter joins ana with two rows.
Returned == {<<ana, 1>>, <<ana, 2>>, <<leo, 1>>, <<eva, 1>>}

\* Two dispatches side by side; faults; edits of the row and of the segment, with
\* a dispatch or not; and a BullMQ that refuses the ids.
Mix(d, e, s, f) ==
    [dispatches |-> d, edits |-> e, segments |-> s, faults |-> f, anyId |-> TRUE]
Mixes == {Mix(2, 0, 0, 1), Mix(1, 0, 0, 3), Mix(0, 4, 0, 1), Mix(0, 0, 3, 1),
          Mix(1, 1, 1, 0), Mix(1, 0, 2, 1), [Mix(1, 0, 0, 1) EXCEPT !.anyId = FALSE]}

Symmetric == Permutations(Calls) \cup Permutations(Workers) \cup Permutations(Editors)
=============================================================================
