------------------------------ MODULE Campaign ------------------------------
(***************************************************************************)
(* One campaign: its row and its segment, edited by requests; its          *)
(* repeatable job; the dispatches, by hand or by the clock, which put a    *)
(* job into the queue campaign-dispatch for each case they choose; and the *)
(* processors that make a message of each job.                             *)
(*                                                                         *)
(* A job has the case and the day in its id.  BullMQ ignores a job whose   *)
(* id is in use, and frees the id of a completed job, not of a failed one. *)
(* The version that the repository locks takes no id of five parts, as     *)
(* these are: adding throws.  Both kinds of BullMQ are modelled.           *)
(***************************************************************************)
EXTENDS BullMQ, FiniteSets, FiniteSetsExt

CONSTANTS
    Cases,        \* cases a filter may select
    Hits,         \* the rows in which it may return them: <<case, number>>, since
                  \* a case that the filter joins with several others comes in several
    Own,          \* those of the tenant of the campaign
    WithChannel,  \* those whose contact has an address for some channel
    Days,         \* bound: the days are 1..Days
    Crons,        \* schedules one may ask for
    Caps,         \* daily caps one may ask for
    Created,      \* the rows create may insert
    Calls,        \* slots for dispatches
    Workers,      \* slots of the queue campaign-dispatch
    Editors,      \* slots for the requests that edit or schedule
    Bounds        \* bounds: how many dispatches, edits of the row and of the segment,
                  \* and faults go together, and whether BullMQ takes any job id

ASSUME CasesAssumption ==
    IsFiniteSet(Cases) /\ Own \subseteq Cases /\ WithChannel \subseteq Cases
ASSUME HitsAssumption == IsFiniteSet(Hits) /\ Hits \subseteq Cases \X Nat
ASSUME BoundsAssumption ==
    /\ Days \in Nat \ {0} /\ Caps \subseteq Nat
    /\ Bounds \subseteq [dispatches : Nat, edits : Nat, segments : Nat, faults : Nat,
                          anyId : BOOLEAN]
VARIABLES
    row,          \* table campaigns: status, daily_cap, schedule_cron, or None
    filter,       \* table segments: the cases the filter may select, or NoFilter
    today,
    call,         \* dispatches in flight
    jobs,         \* the queue campaign-dispatch: the job of each id
    run,          \* its processors
    editor,       \* edits in flight
    schedules,    \* the repeatable jobs of the campaign
    messages,     \* message-send jobs added for each id
    picked,       \* history: in how many rows dispatches found each id
    asked,        \* history: how often a dispatch added each id
    allowed,      \* history: the caps of the dispatches of each day
    causes,       \* history: stalls and lost answers of each id
    wish,         \* history: the status and the filter that were asked for last
    raced,        \* history: kinds of edits of which two went on at once
    used,         \* what is used of the bounds
    bound

queueVars == <<jobs, run, messages, causes>>
dispatchVars == <<call, picked, asked, allowed>>
editVars == <<row, filter, editor, schedules, wish, raced>>
vars == <<queueVars, dispatchVars, editVars, today, used, bound>>

Status == {"ACTIVE", "PAUSED"}
Id == Cases \X (1..Days)

Row == [status : Status, cap : Caps, cron : Crons \cup {None}]

ASSUME CreatedAssumption == Created \subseteq Row
ASSUME SlotsAssumption == IsFiniteSet(Calls) /\ IsFiniteSet(Workers)
ASSUME NoneAssumption == None \notin Row \cup Nat \cup Crons \cup Workers \cup Id \cup Cases

\* NoFilter stands where there is none: no segment, or none asked for.
NoFilter == {None}
Filter == (SUBSET Cases) \cup {NoFilter}

Call == [pc : {"idle", "select", "add"}, cap : Caps \cup {None},
         rest : SUBSET Hits, day : 1..Days]
NoCall == [pc |-> "idle", cap |-> None, rest |-> {}, day |-> 1]

Run == [pc : {"idle", "read", "add", "done", "throw"}, id : Id \cup {None}]
NoRun == [pc |-> "idle", id |-> None]

\* What an edit has read (row, found, filter) and what it asks for.
Editor == [pc : {"idle", "write", "list", "remove", "add", "save"},
           row : Row \cup {None}, status : Status \cup {None},
           cron : Crons \cup {None}, found : SUBSET Crons,
           filter : SUBSET Cases, newFilter : Filter]
NoEdit == [pc |-> "idle", row |-> None, status |-> None, cron |-> None, found |-> {},
           filter |-> {}, newFilter |-> NoFilter]

Job == [state : {"none", "waiting", "active", "failed"}, made : Nat, stalled : Nat,
        by : Workers \cup {None}]

\* An id that no job has.
Free == [Queued EXCEPT !.state = "none"]

Init ==
    /\ row = None /\ filter = Cases
    /\ today = 1
    /\ call = [r \in Calls |-> NoCall]
    /\ jobs = [id \in Id |-> Free]
    /\ run = [w \in Workers |-> NoRun]
    /\ editor = [e \in Editors |-> NoEdit]
    /\ schedules = {}
    /\ messages = [id \in Id |-> 0] /\ asked = [id \in Id |-> 0]
    /\ picked = [id \in Id |-> 0]
    /\ allowed = [d \in 1..Days |-> 0]
    /\ causes = [id \in Id |-> 0]
    /\ wish = [status |-> "ACTIVE", filter |-> Cases] /\ raced = {}
    /\ used = [dispatches |-> 0, edits |-> 0, segments |-> 0, faults |-> 0]
    /\ bound \in Bounds

Use(what) == used[what] < bound[what] /\ used' = [used EXCEPT ![what] = @ + 1]
Fault == Use("faults")
Cause(id) == causes' = [causes EXCEPT ![id] = @ + 1]

Midnight ==
    /\ today < Days /\ today' = today + 1
    /\ UNCHANGED <<queueVars, dispatchVars, editVars, used, bound>>
-----------------------------------------------------------------------------
(***************************************************************************)
(* dispatchCampaign                                                        *)
(***************************************************************************)
\* POST :id/dispatch, with a cap of its own or that of the row.  A repeatable job
\* that comes due does the same with the cap of the row.
dispatch(r) ==
    /\ Use("dispatches")
    /\ call[r].pc = "idle" /\ row # None /\ row.status # "PAUSED"
    /\ \E cap \in Caps \cup {row.cap} :
           call' = [call EXCEPT ![r] = [NoCall EXCEPT !.pc = "select", !.cap = cap]]
    /\ UNCHANGED <<queueVars, editVars, picked, asked, allowed, today, bound>>

Smaller(m, n) == IF m < n THEN m ELSE n

HitsOf(cases) == {h \in Hits : h[1] \in cases}

\* The slices of n rows at most: the filter need not order them, and which of
\* its rows it returns now is up to tables that are not modelled.
Slices(hits, n) == UNION {kSubset(k, hits) : k \in 0..Smaller(n, Cardinality(hits))}

\* The rows of case c.
RowsFor(c, hits) == {h \in hits : h[1] = c}

Chosen(r, hits) ==
    /\ \/ hits = {} /\ call' = [call EXCEPT ![r] = NoCall]
       \/ /\ hits # {}
          /\ call' = [call EXCEPT ![r] = [pc |-> "add", cap |-> call[r].cap, rest |-> hits, day |-> today]]
    /\ picked' = [id \in Id |-> IF id[2] = today
                                THEN picked[id] + Cardinality(RowsFor(id[1], hits))
                                ELSE picked[id]]
    /\ allowed' = [allowed EXCEPT ![today] = @ + call[r].cap]
    /\ UNCHANGED <<queueVars, editVars, asked, today, used, bound>>

\* Faulty variant: the filter is run without the tenant guard.
selectUnguarded(r) ==
    /\ call[r].pc = "select" /\ filter # NoFilter
    /\ \E hits \in Slices(HitsOf(filter), call[r].cap) : Chosen(r, hits)

\* Faulty variant: the cap is compared by <=.
selectOneMore(r) ==
    /\ call[r].pc = "select" /\ filter # NoFilter
    /\ \E hits \in Slices(HitsOf(filter \cap Own), call[r].cap + 1) : Chosen(r, hits)

\* The guard keeps the rows of the tenant, and a case as often as it is returned.
selectCases(r) ==
    /\ call[r].pc = "select" /\ filter # NoFilter
    /\ \E hits \in Slices(HitsOf(filter \cap Own), call[r].cap) : Chosen(r, hits)

segmentMissing(r) ==
    /\ call[r].pc = "select" /\ filter = NoFilter
    /\ call' = [call EXCEPT ![r] = NoCall]
    /\ UNCHANGED <<queueVars, editVars, picked, asked, allowed, today, used, bound>>

NextCase(r, h) ==
    \/ call[r].rest = {h} /\ call' = [call EXCEPT ![r] = NoCall]
    \/ call[r].rest # {h} /\ call' = [call EXCEPT ![r].rest = @ \ {h}]

\* Faulty variant: a job replaces the one that has its id.
addJobAnew(id) == jobs' = [jobs EXCEPT ![id] = Queued]

\* BullMQ ignores a job whose id is in use.
addJob(id) == jobs' = [jobs EXCEPT ![id] = IF @ = Free THEN Queued ELSE @]

enqueue(r) ==
    /\ call[r].pc = "add" /\ bound.anyId
    /\ \E h \in call[r].rest : LET id == <<h[1], call[r].day>> IN
           /\ addJob(id)
           /\ asked' = [asked EXCEPT ![id] = @ + 1]
           /\ NextCase(r, h)
    /\ UNCHANGED <<run, messages, causes, editVars, picked, allowed, today, used, bound>>

\* BullMQ refuses the id of the first job: the dispatch throws, with no job added.
enqueueRefused(r) ==
    /\ call[r].pc = "add" /\ ~ bound.anyId
    /\ call' = [call EXCEPT ![r] = NoCall]
    /\ UNCHANGED <<queueVars, editVars, picked, asked, allowed, today, used, bound>>

\* A query or Redis does not answer: what was asked may have been done, the
\* rest of the slice is not.
dispatchFails(r) ==
    /\ Fault
    /\ call[r].pc # "idle"
    /\ \/ UNCHANGED <<jobs, asked>>
       \/ \E h \in call[r].rest : LET id == <<h[1], call[r].day>> IN
              bound.anyId /\ addJob(id) /\ asked' = [asked EXCEPT ![id] = @ + 1]
    /\ call' = [call EXCEPT ![r] = NoCall]
    /\ UNCHANGED <<run, messages, causes, editVars, picked, allowed, today, bound>>
-----------------------------------------------------------------------------
(***************************************************************************)
(* The processor of campaign-dispatch.                                     *)
(***************************************************************************)
Others == <<dispatchVars, editVars, today, bound>>

\* The attempts a dispatch asks for.
Attempts == 3

Goto(w, pc) == run' = [run EXCEPT ![w].pc = pc]

Take(w, id) ==
    /\ run[w].pc = "idle" /\ jobs[id].state = "waiting"
    /\ jobs' = [jobs EXCEPT ![id] = Taken(@, w)]
    /\ run' = [run EXCEPT ![w] = [pc |-> "read", id |-> id]]
    /\ UNCHANGED <<messages, causes, used, Others>>

\* Without an available channel the job is done.
readCase(w) ==
    /\ run[w].pc = "read"
    /\ Goto(w, IF run[w].id[1] \in WithChannel THEN "add" ELSE "done")
    /\ UNCHANGED <<jobs, messages, causes, used, Others>>

readFails(w) ==
    /\ Fault
    /\ run[w].pc = "read"
    /\ Goto(w, "throw")
    /\ UNCHANGED <<jobs, messages, causes, Others>>

\* Faulty variant: a message for each of two channels.
addMessagesToAll(id) == messages' = [messages EXCEPT ![id] = @ + 2]

addMessage(id) == messages' = [messages EXCEPT ![id] = @ + 1]

queueMessage(w) ==
    /\ run[w].pc = "add"
    /\ addMessage(run[w].id)
    /\ Goto(w, "done")
    /\ UNCHANGED <<jobs, causes, used, Others>>

\* Redis does not answer, whether or not the message was added.
queueFails(w) ==
    /\ Fault
    /\ run[w].pc = "add"
    /\ \/ addMessage(run[w].id) /\ Cause(run[w].id)
       \/ UNCHANGED <<messages, causes>>
    /\ Goto(w, "throw")
    /\ UNCHANGED <<jobs, Others>>

Settle(w, q) ==
    /\ jobs' = [jobs EXCEPT ![run[w].id] = Settled(@, w, q)]
    /\ run' = [run EXCEPT ![w] = NoRun]
    /\ UNCHANGED <<messages, causes, used, Others>>

\* removeOnComplete frees the id.
Complete(w) == run[w].pc = "done" /\ Settle(w, Free)

\* Faulty variant: a job that fails is dropped at once.
RetryNever(w) == run[w].pc = "throw" /\ Settle(w, Free)

Retry(w) == run[w].pc = "throw" /\ Settle(w, Retried(jobs[run[w].id], Attempts))

Stall(id) ==
    /\ jobs' = [jobs EXCEPT ![id] = Stalled(@)]
    /\ Cause(id)
    /\ UNCHANGED <<run, messages, Others>>

Orphan(id) == run[jobs[id].by].id # id

\* The process that had the job is gone.
StalledFound(id) ==
    jobs[id].state = "active" /\ Orphan(id) /\ Stall(id) /\ UNCHANGED used

\* The lock is not renewed in time, though the processor goes on.
LockLost(id) == Fault /\ jobs[id].state = "active" /\ ~Orphan(id) /\ Stall(id)

\* The process stops: dispatches, processors and edits are lost.
Restart ==
    /\ Fault
    /\ run' = [w \in Workers |-> NoRun]
    /\ call' = [r \in Calls |-> NoCall]
    /\ editor' = [e \in Editors |-> NoEdit]
    /\ <<run, call, editor>>' # <<run, call, editor>>
    /\ UNCHANGED <<jobs, messages, causes, picked, asked, allowed, row, filter, schedules,
                   wish, raced, today, bound>>
-----------------------------------------------------------------------------
(***************************************************************************)
(* Edits: update reads the row and writes it whole; ensureRepeatable takes *)
(* the repeatable jobs away that it finds, and adds one.                   *)
(***************************************************************************)
NotEdits == <<queueVars, dispatchVars, today, bound>>

Ensures == {"list", "remove", "add"}
Kind == [update |-> {"write"}, ensure |-> Ensures, segment |-> {"save"}]
Busy(e, kind) == \E f \in Editors \ {e} : editor[f].pc \in Kind[kind]
Noted(e, kind) == raced' = IF Busy(e, kind) THEN raced \cup {kind} ELSE raced

create(new) ==
    /\ row = None
    /\ row' = new /\ wish' = [wish EXCEPT !.status = new.status]
    /\ UNCHANGED <<filter, editor, schedules, raced, used, NotEdits>>

\* PUT :id, the read: what the request asks for goes with it.
updateGet(e, status, cron) ==
    /\ Use("edits")
    /\ editor[e].pc = "idle" /\ row # None
    /\ editor' = [editor EXCEPT ![e] = [NoEdit EXCEPT !.pc = "write", !.row = row,
                                            !.status = status, !.cron = cron]]
    /\ Noted(e, "update")
    /\ UNCHANGED <<row, filter, schedules, wish, NotEdits>>

\* Faulty variant: what the request says is written, a status or none.
MergedRaw(q) ==
    [q.row EXCEPT !.status = q.status, !.cron = IF @ # None THEN @ ELSE q.cron]

\* Faulty variant: a status that is not asked for is the default of create.
MergedAnew(q) ==
    [q.row EXCEPT !.status = IF q.status # None THEN q.status ELSE "ACTIVE",
                  !.cron = IF @ # None THEN @ ELSE q.cron]

\* What is written: the status that is asked for, or the one that was read;
\* the cap and the schedule that were read, and the schedule asked for only if
\* there was none.
Merged(q) ==
    [q.row EXCEPT !.status = IF q.status # None THEN q.status ELSE @,
                  !.cron = IF @ # None THEN @ ELSE q.cron]

updateWrite(e) ==
    /\ editor[e].pc = "write"
    /\ row' = Merged(editor[e])
    /\ wish' = [wish EXCEPT !.status = IF editor[e].status # None THEN editor[e].status ELSE @]
    /\ editor' = [editor EXCEPT ![e] = NoEdit]
    /\ UNCHANGED <<filter, schedules, raced, used, NotEdits>>

setStatus(status) ==
    /\ Use("edits")
    /\ row # None
    /\ row' = [row EXCEPT !.status = status] /\ wish' = [wish EXCEPT !.status = status]
    /\ raced' = IF \E e \in Editors : editor[e].pc = "write" THEN raced \cup {"update"} ELSE raced
    /\ UNCHANGED <<filter, editor, schedules, NotEdits>>

\* POST :id/ensure-repeatable
ensureRepeatable(e) ==
    /\ Use("edits")
    /\ editor[e].pc = "idle" /\ row # None /\ row.cron # None
    /\ editor' = [editor EXCEPT ![e] = [NoEdit EXCEPT !.pc = "list", !.cron = row.cron]]
    /\ Noted(e, "ensure")
    /\ UNCHANGED <<row, filter, schedules, wish, NotEdits>>

listRepeatables(e) ==
    /\ editor[e].pc = "list"
    /\ editor' = [editor EXCEPT ![e].pc = "remove", ![e].found = schedules]
    /\ UNCHANGED <<row, filter, schedules, wish, raced, used, NotEdits>>

\* Faulty variant: the repeatable job of the same pattern only is removed.
removeSame(e) ==
    /\ editor[e].pc = "remove"
    /\ schedules' = schedules \ {editor[e].cron}
    /\ editor' = [editor EXCEPT ![e].pc = "add"]
    /\ UNCHANGED <<row, filter, wish, raced, used, NotEdits>>

removeRepeatables(e) ==
    /\ editor[e].pc = "remove"
    /\ schedules' = schedules \ editor[e].found
    /\ editor' = [editor EXCEPT ![e].pc = "add"]
    /\ UNCHANGED <<row, filter, wish, raced, used, NotEdits>>

addRepeatable(e) ==
    /\ editor[e].pc = "add"
    /\ schedules' = schedules \cup {editor[e].cron}
    /\ editor' = [editor EXCEPT ![e] = NoEdit]
    /\ UNCHANGED <<row, filter, wish, raced, used, NotEdits>>

\* PUT of the segment, the read; the name alone may be asked for.
segmentGet(e, new) ==
    /\ Use("segments")
    /\ editor[e].pc = "idle" /\ filter # NoFilter
    /\ editor' = [editor EXCEPT ![e] = [NoEdit EXCEPT !.pc = "save", !.filter = filter,
                                            !.newFilter = new]]
    /\ Noted(e, "segment")
    /\ UNCHANGED <<row, filter, schedules, wish, NotEdits>>

\* Every column that differs is written; a row that is gone is inserted anew.
segmentSave(e) ==
    /\ editor[e].pc = "save"
    /\ LET new == editor[e].newFilter IN
           /\ filter' = IF new # NoFilter THEN new ELSE editor[e].filter
           /\ wish' = [wish EXCEPT !.filter = IF new # NoFilter THEN new ELSE @]
    /\ editor' = [editor EXCEPT ![e] = NoEdit]
    /\ UNCHANGED <<row, schedules, raced, used, NotEdits>>

segmentRemove ==
    /\ Use("segments")
    /\ filter' = NoFilter /\ wish' = [wish EXCEPT !.filter = NoFilter]
    /\ raced' = IF \E e \in Editors : editor[e].pc = "save" THEN raced \cup {"segment"} ELSE raced
    /\ UNCHANGED <<row, editor, schedules, NotEdits>>

editFails(e) ==
    /\ Fault
    /\ editor[e].pc # "idle"
    /\ editor' = [editor EXCEPT ![e] = NoEdit]
    /\ UNCHANGED <<row, filter, schedules, wish, raced, NotEdits>>
-----------------------------------------------------------------------------
Dispatching(r) ==
    selectCases(r) \/ segmentMissing(r) \/ enqueue(r) \/ enqueueRefused(r)

Work(w) == readCase(w) \/ queueMessage(w) \/ Complete(w) \/ Retry(w)

Edit(e) ==
    \/ updateWrite(e) \/ listRepeatables(e) \/ removeRepeatables(e) \/ addRepeatable(e)
    \/ segmentSave(e)

Next ==
    \/ Midnight
    \/ \E r \in Calls : dispatch(r) \/ Dispatching(r) \/ dispatchFails(r)
    \/ \E w \in Workers : \/ \E id \in Id : Take(w, id)
                          \/ Work(w) \/ readFails(w) \/ queueFails(w)
    \/ \E id \in Id : StalledFound(id) \/ LockLost(id)
    \/ \E e \in Editors : \/ \E s \in Status \cup {None}, c \in Crons \cup {None} :
                                 updateGet(e, s, c)
                          \/ \E f \in Filter : segmentGet(e, f)
                          \/ ensureRepeatable(e) \/ Edit(e) \/ editFails(e)
    \/ \E new \in Created : create(new)
    \/ \E s \in Status : setStatus(s)
    \/ segmentRemove
    \/ Restart

Spec == Init /\ [][Next]_vars
-----------------------------------------------------------------------------
\* Every variable holds a value of the program's types.
TypeOK ==
    /\ row \in Row \cup {None} /\ filter \in Filter /\ today \in 1..Days
    /\ call \in [Calls -> Call]
    /\ jobs \in [Id -> Job]
    /\ run \in [Workers -> Run]
    /\ editor \in [Editors -> Editor] /\ schedules \subseteq Crons
    /\ messages \in [Id -> Nat] /\ asked \in [Id -> Nat] /\ causes \in [Id -> Nat]
    /\ picked \in [Id -> Nat]
    /\ allowed \in [1..Days -> Nat]
    /\ wish \in [status : Status, filter : Filter]
    /\ raced \subseteq {"update", "ensure", "segment"}

\* A case has no more messages on a day than rows in which dispatches found it in
\* the segment on that day, but for stalls and lost answers: not one more for a
\* retried attempt, for a second channel, for a dispatch that overlaps another or
\* midnight, or for what waits while the campaign is paused and edited.  A filter
\* that returns a case twice may get it two messages from one dispatch.
MessagesNeedDispatch ==
    \A id \in Id : messages[id] <= asked[id] + causes[id] /\ asked[id] <= picked[id]

Sent(f, d) == MapThenSumSet(LAMBDA c : f[<<c, d>>], Cases)

\* The messages of a day stay within the caps of the dispatches of that day,
\* whatever was retried, restarted or left for the next day.
CapsHold == \A d \in 1..Days : Sent(messages, d) <= allowed[d] + Sent(causes, d)

\* A segment may be shared by all tenants: no message of a campaign goes to a
\* debtor of another tenant.
OwnTenantOnly == \A id \in Id : messages[id] > 0 => id[1] \in Own

InUse(q) == q.state # "none"

\* A dispatch neither restarts nor renews a job of the same case and day: its
\* attempts and stalls go on counting until it completes, and one that has
\* failed stays so for the day.
JobsAreNotRenewed ==
    [][\A id \in Id : InUse(jobs[id]) /\ InUse(jobs'[id]) =>
           /\ jobs'[id].made + jobs'[id].stalled >= jobs[id].made + jobs[id].stalled
           /\ jobs[id].state = "failed" => jobs'[id] = jobs[id]]_vars

Resting ==
    /\ \A r \in Calls : call[r].pc = "idle"
    /\ \A w \in Workers : run[w].pc = "idle"
    /\ \A id \in Id : jobs[id].state \in {"none", "failed"}

\* However often jobs stall and the process stops: at rest a case that was given
\* to the queue and can be reached has a message, or its job has failed for good
\* and keeps its id.
ChosenIsSent ==
    Resting => \A id \in Id :
        asked[id] > 0 /\ id[1] \in WithChannel => messages[id] > 0 \/ jobs[id].state = "failed"

\* As long as edits of one row do not overlap, campaign and segment are as they
\* were last asked for: an edit of something else neither pauses nor resumes the
\* campaign, a rename does not bring an old filter back, and a segment that was
\* removed stays so.
EditsAreKept ==
    /\ row # None /\ "update" \notin raced => row.status = wish.status
    /\ "segment" \notin raced => filter = wish.filter

\* As long as ensureRepeatable does not overlap with itself, there is one
\* repeatable job at most, however often the schedule was changed.
OneSchedule == "ensure" \notin raced => Cardinality(schedules) <= 1
=============================================================================
