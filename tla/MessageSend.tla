---------------------------- MODULE MessageSend ----------------------------
(***************************************************************************)
(* Sending of messages: the import that saves and enqueues them, the queue *)
(* message-send with its retries and stalled jobs, the worker, the direct  *)
(* endpoints, and the status callbacks of the providers.                   *)
(*                                                                         *)
(* A job is one message somebody asked to send.  A worker slot is one      *)
(* processor call (or one direct request); its "pc" is the await it stands *)
(* at, and slots interleave at every await.                                *)
(***************************************************************************)
EXTENDS BullMQ, Sequences, FiniteSets

CONSTANTS
    Jobs,           \* messages that may be asked for
    Workers,        \* slots in which they are processed
    FormOf,         \* how each is asked for
    AttemptsOf,     \* the attempts its producer asks for
    WithCase,       \* jobs that carry the id of a case
    Reports,        \* statuses the providers report in callbacks
    Mixes           \* bounds: the messages that are asked for together, the
                    \* faults (failed writes, lost answers, stalls, restarts), the
                    \* rejections of each message, and whether callbacks come

\* A queued job names a saved row, or carries the whole payload; a direct
\* request passes by the queue.
Form == {"byId", "full", "direct"}

ASSUME FormAssumption == FormOf \in [Jobs -> Form]
\* Campaigns ask for five attempts, everybody else for three.
ASSUME AttemptsAssumption ==
    /\ AttemptsOf \in [Jobs -> {3, 5}]
    /\ \A j \in Jobs : FormOf[j] = "byId" => AttemptsOf[j] = 3
ASSUME CaseAssumption == WithCase \subseteq {j \in Jobs : FormOf[j] = "full"}
ASSUME ReportsAssumption == Reports \subseteq {"sent", "delivered", "read", "failed"}
ASSUME WorkersAssumption == IsFiniteSet(Workers)
ASSUME NoneAssumption ==
    None \notin Nat \cup Jobs \cup Workers
                 \cup {"enqueued", "invalid", "sent", "refused", "dropped"}
ASSUME BoundsAssumption ==
    Mixes \subseteq [jobs : SUBSET Jobs, faults : Nat, rejections : Nat, callbacks : BOOLEAN]

VARIABLES
    job,        \* the queue: state, failed attempts, stalls and lock of each job
    log,        \* the rows of table messages that belong to each job
    run,        \* the worker slots
    sent,       \* provider: how many messages it accepted for each job
    reported,   \* provider: the statuses it has reported, by message
    inbox,      \* callbacks on their way or half handled
    told,       \* what the import or the direct request was answered
    contacted,  \* jobs after which last_contacted_at of the case was set
    rejected,   \* history: rejections of each job
    causes,     \* history: answers and writes lost, and stalls, of each job
    mix,        \* the bounds of this behaviour
    faults      \* what is used of them

provider == <<sent, reported, inbox>>
vars == <<job, log, run, provider, told, contacted, rejected, causes, mix, faults>>
-----------------------------------------------------------------------------
MessageStatus == {"QUEUED", "SENT", "DELIVERED", "READ", "FAILED"}
Row == [status : MessageStatus, ext : Nat \cup {None}]

\* Besides the states of BullMQ: a line that is saved, a direct request, and
\* one or the other that is over.
JobState == {"none", "row", "direct", "gone", "waiting", "active", "completed", "failed"}
Answer == {"enqueued", "invalid", "sent", "refused", None}
Job == [state : JobState, made : Nat, stalled : Nat, by : Workers \cup {None}]

Pc == {"idle", "load", "send", "update", "contact", "fail", "throw", "done", "persist"}
Run == [pc : Pc, job : Jobs \cup {None}, row : Nat, ext : Nat \cup {None}]

NoRun == [pc |-> "idle", job |-> None, row |-> 0, ext |-> None]

Callback == [job : Jobs, id : Nat, status : Reports, row : Nat]

Init ==
    /\ job = [j \in Jobs |-> [Queued EXCEPT !.state = "none"]]
    /\ log = [j \in Jobs |-> <<>>]
    /\ run = [w \in Workers |-> NoRun]
    /\ sent = [j \in Jobs |-> 0]
    /\ reported = [j \in Jobs |-> {}]
    /\ inbox = {}
    /\ told = [j \in Jobs |-> None]
    /\ contacted = {}
    /\ rejected = [j \in Jobs |-> 0]
    /\ causes = [j \in Jobs |-> 0]
    /\ mix \in Mixes
    /\ faults = 0

Fault == faults < mix.faults /\ faults' = faults + 1

Cause(j) == causes' = [causes EXCEPT ![j] = @ + 1]
-----------------------------------------------------------------------------
(***************************************************************************)
(* Producers.                                                              *)
(***************************************************************************)

Asked(j, f) == j \in mix.jobs /\ FormOf[j] = f /\ job[j].state = "none"

Saved(j) == [log EXCEPT ![j] = <<[status |-> "QUEUED", ext |-> None]>>]

\* importCsvBuffer saves the row of a CSV line and then enqueues it.
importRow(j) ==
    /\ Asked(j, "byId")
    /\ log' = Saved(j)
    /\ job' = [job EXCEPT ![j].state = "row"]
    /\ UNCHANGED <<run, provider, told, contacted, rejected, causes, mix, faults>>

addMessageSend(j) ==
    /\ job[j].state = "row"
    /\ job' = [job EXCEPT ![j].state = "waiting"]
    /\ told' = [told EXCEPT ![j] = "enqueued"]
    /\ UNCHANGED <<log, run, provider, contacted, rejected, causes, mix, faults>>

\* Saving or adding fails: the line is reported invalid, a row that was saved stays.
importFails(j) ==
    /\ Fault
    /\ Asked(j, "byId") \/ job[j].state = "row"
    /\ log' \in {log, Saved(j)}
    /\ job' = [job EXCEPT ![j].state = "gone"]
    /\ told' = [told EXCEPT ![j] = "invalid"]
    /\ UNCHANGED <<run, provider, contacted, rejected, causes, mix>>

\* The queue takes the job, but its answer is lost: the line is reported invalid.
importAnswerLost(j) ==
    /\ Fault
    /\ job[j].state = "row"
    /\ job' = [job EXCEPT ![j].state = "waiting"]
    /\ told' = [told EXCEPT ![j] = "invalid"]
    /\ UNCHANGED <<log, run, provider, contacted, rejected, causes, mix>>

\* Payments, campaigns and replies enqueue the whole payload.
addJob(j) ==
    /\ Asked(j, "full")
    /\ job' = [job EXCEPT ![j].state = "waiting"]
    /\ UNCHANGED <<log, run, provider, told, contacted, rejected, causes, mix, faults>>

\* The endpoints that send at once and save the row afterwards.
sendDirect(w, j) ==
    /\ Asked(j, "direct")
    /\ run[w].pc = "idle"
    /\ job' = [job EXCEPT ![j].state = "direct"]
    /\ run' = [run EXCEPT ![w] = [NoRun EXCEPT !.pc = "send", !.job = j]]
    /\ UNCHANGED <<log, provider, told, contacted, rejected, causes, mix, faults>>
-----------------------------------------------------------------------------
(***************************************************************************)
(* The worker.                                                             *)
(***************************************************************************)
Take(w, j) ==
    /\ run[w].pc = "idle" /\ job[j].state = "waiting"
    /\ job' = [job EXCEPT ![j] = Taken(@, w)]
    /\ run' = [run EXCEPT ![w] = [NoRun EXCEPT !.pc = "load", !.job = j]]
    /\ UNCHANGED <<log, provider, told, contacted, rejected, causes, mix, faults>>

\* A job by id reads its row; a full payload saves a row at every attempt.
load(w) ==
    LET j == run[w].job IN
    /\ run[w].pc = "load"
    /\ log' = IF FormOf[j] = "full"
              THEN [log EXCEPT ![j] = Append(@, [status |-> "QUEUED", ext |-> None])]
              ELSE log
    /\ run' = [run EXCEPT ![w].pc = "send", ![w].row = Len(log'[j])]
    /\ UNCHANGED <<job, provider, told, contacted, rejected, causes, mix, faults>>

\* Outside the try block: the row is not marked as failed.
loadFails(w) ==
    /\ Fault
    /\ run[w].pc = "load"
    /\ run' = [run EXCEPT ![w].pc = "throw"]
    /\ UNCHANGED <<job, log, provider, told, contacted, rejected, causes, mix>>

\* sendWhatsappTemplate, sendWhatsappText, sendSms or sendEmail: the provider
\* accepts the message and gives it an id.
send(w) ==
    LET j == run[w].job IN
    /\ run[w].pc = "send"
    /\ sent' = [sent EXCEPT ![j] = @ + 1]
    /\ run' = [run EXCEPT ![w].ext = sent'[j],
                          ![w].pc = IF FormOf[j] = "direct" THEN "persist" ELSE "update"]
    /\ UNCHANGED <<job, log, reported, inbox, told, contacted, rejected, causes, mix, faults>>

\* A direct request is over.
Close(w, answer) ==
    /\ job' = [job EXCEPT ![run[w].job].state = "gone"]
    /\ told' = [told EXCEPT ![run[w].job] = answer]
    /\ run' = [run EXCEPT ![w] = NoRun]

\* What the thrown exception makes of the request: a direct one is answered
\* "No se pudo enviar", a job goes to its catch block.
SendThrows(w) ==
    LET j == run[w].job IN
    IF FormOf[j] = "direct"
    THEN Close(w, "refused")
    ELSE /\ run' = [run EXCEPT ![w].pc = "fail"]
         /\ UNCHANGED <<job, told>>

sendRejected(w) ==
    LET j == run[w].job IN
    /\ run[w].pc = "send" /\ rejected[j] < mix.rejections
    /\ rejected' = [rejected EXCEPT ![j] = @ + 1]
    /\ SendThrows(w)
    /\ UNCHANGED <<log, provider, contacted, causes, mix, faults>>

\* Faulty variant: without a timeout the call of a job waits for ever.
sendHangs(w) ==
    LET j == run[w].job IN
    /\ Fault
    /\ run[w].pc = "send"
    /\ sent' = [sent EXCEPT ![j] = @ + 1]
    /\ Cause(j)
    /\ IF FormOf[j] = "direct" THEN SendThrows(w)
       ELSE run' = [run EXCEPT ![w].pc = "persist"] /\ UNCHANGED <<job, told>>
    /\ UNCHANGED <<log, reported, inbox, contacted, rejected, mix>>

\* The provider accepts, but its answer does not come within 15 seconds.
sendTimesOut(w) ==
    LET j == run[w].job IN
    /\ Fault
    /\ run[w].pc = "send"
    /\ sent' = [sent EXCEPT ![j] = @ + 1]
    /\ Cause(j)
    /\ SendThrows(w)
    /\ UNCHANGED <<log, reported, inbox, contacted, rejected, mix>>

\* The row of the attempt becomes SENT, whatever it has become since.
updateRow(w) ==
    LET j == run[w].job IN
    /\ run[w].pc = "update"
    /\ log' = [log EXCEPT ![j][run[w].row] = [status |-> "SENT", ext |-> run[w].ext]]
    /\ run' = [run EXCEPT ![w].pc = IF j \in WithCase THEN "contact" ELSE "done"]
    /\ UNCHANGED <<job, provider, told, contacted, rejected, causes, mix, faults>>

\* Faulty variant: the failed update is swallowed like that of the case.
updateSwallowed(w) ==
    /\ Fault
    /\ run[w].pc = "update"
    /\ Cause(run[w].job)
    /\ run' = [run EXCEPT ![w].pc = "done"]
    /\ UNCHANGED <<job, log, provider, told, contacted, rejected, mix>>

\* The message is out, but the attempt counts as failed.
updateFails(w) ==
    /\ Fault
    /\ run[w].pc = "update"
    /\ Cause(run[w].job)
    /\ run' = [run EXCEPT ![w].pc = "fail"]
    /\ UNCHANGED <<job, log, provider, told, contacted, rejected, mix>>

markContacted(w) ==
    /\ run[w].pc = "contact"
    /\ contacted' = contacted \cup {run[w].job}
    /\ run' = [run EXCEPT ![w].pc = "done"]
    /\ UNCHANGED <<job, log, provider, told, rejected, causes, mix, faults>>

\* Faulty variant: the exception reaches the catch block of the attempt.
contactThrows(w) ==
    /\ Fault
    /\ run[w].pc = "contact"
    /\ run' = [run EXCEPT ![w].pc = "fail"]
    /\ UNCHANGED <<job, log, provider, told, contacted, rejected, causes, mix>>

\* markContacted has a try block of its own.
contactFails(w) ==
    /\ Fault
    /\ run[w].pc = "contact"
    /\ run' = [run EXCEPT ![w].pc = "done"]
    /\ UNCHANGED <<job, log, provider, told, contacted, rejected, causes, mix>>

\* Faulty variant: the attempt is thrown again without touching the row.
leaveRow(w) ==
    /\ run[w].pc = "fail"
    /\ run' = [run EXCEPT ![w].pc = "throw"]
    /\ UNCHANGED <<job, log, provider, told, contacted, rejected, causes, mix, faults>>

\* The catch block marks the row and throws again.
failRow(w) ==
    /\ run[w].pc = "fail"
    /\ log' = [log EXCEPT ![run[w].job][run[w].row].status = "FAILED"]
    /\ run' = [run EXCEPT ![w].pc = "throw"]
    /\ UNCHANGED <<job, provider, told, contacted, rejected, causes, mix, faults>>

failRowFails(w) ==
    /\ Fault
    /\ run[w].pc = "fail"
    /\ run' = [run EXCEPT ![w].pc = "throw"]
    /\ UNCHANGED <<job, log, provider, told, contacted, rejected, causes, mix>>

SentRow(w) ==
    [log EXCEPT ![run[w].job] = <<[status |-> "SENT", ext |-> run[w].ext]>>]

\* Faulty variant: the answer does not wait for the row.
persistNotAwaited(w) ==
    /\ Fault
    /\ run[w].pc = "persist" /\ FormOf[run[w].job] = "direct"
    /\ Close(w, "sent")
    /\ UNCHANGED <<log, provider, contacted, rejected, causes, mix>>

\* A direct request saves its row after the send.
persist(w) ==
    /\ run[w].pc = "persist" /\ FormOf[run[w].job] = "direct"
    /\ log' = SentRow(w)
    /\ Close(w, "sent")
    /\ UNCHANGED <<provider, contacted, rejected, causes, mix, faults>>

\* The save is inside the try block of the send: same exception.
persistFails(w) ==
    /\ Fault
    /\ run[w].pc = "persist" /\ FormOf[run[w].job] = "direct"
    /\ log' \in {log, SentRow(w)}
    /\ Cause(run[w].job)
    /\ Close(w, "refused")
    /\ UNCHANGED <<provider, contacted, rejected, mix>>
-----------------------------------------------------------------------------
(***************************************************************************)
(* BullMQ.                                                                 *)
(***************************************************************************)

Settle(w, q) ==
    LET j == run[w].job IN
    /\ job' = [job EXCEPT ![j] = Settled(@, w, q)]
    /\ run' = [run EXCEPT ![w] = NoRun]
    /\ UNCHANGED <<log, provider, told, contacted, rejected, causes, mix, faults>>

Complete(w) ==
    /\ run[w].pc = "done"
    /\ Settle(w, Completed(job[run[w].job]))

\* Faulty variant: a failed attempt is not counted.
RetryForEver(w) ==
    /\ run[w].pc = "throw"
    /\ Settle(w, [job[run[w].job] EXCEPT !.state = "waiting", !.by = None])

Retry(w) ==
    /\ run[w].pc = "throw"
    /\ Settle(w, Retried(job[run[w].job], AttemptsOf[run[w].job]))

Stall(j) ==
    /\ job' = [job EXCEPT ![j] = Stalled(@)]
    /\ Cause(j)
    /\ UNCHANGED <<log, run, provider, told, contacted, rejected, mix>>

Orphan(j) == run[job[j].by].job # j

\* The process that had the job is gone.
StalledFound(j) ==
    /\ job[j].state = "active" /\ Orphan(j)
    /\ Stall(j)
    /\ UNCHANGED faults

\* The lock is not renewed in time, though the processor goes on.
LockLost(j) ==
    /\ Fault
    /\ job[j].state = "active" /\ ~Orphan(j)
    /\ Stall(j)

\* The process stops: imports, processors and direct requests are lost.
Restart ==
    /\ Fault
    /\ run' = [w \in Workers |-> NoRun]
    /\ run' # run
    /\ job' = [j \in Jobs |-> IF job[j].state \in {"row", "direct"}
                              THEN [job[j] EXCEPT !.state = "gone"] ELSE job[j]]
    /\ inbox' = {c \in inbox : c.row = 0}
    /\ UNCHANGED <<log, sent, reported, told, contacted, rejected, causes, mix>>
-----------------------------------------------------------------------------
(***************************************************************************)
(* Status callbacks: /messaging/whatsapp/webhook and /messaging/sms/webhook*)
(***************************************************************************)

\* The provider reports on the n-th message of j; callbacks overtake each other.
ProviderReports(j, n, s) ==
    /\ mix.callbacks /\ <<n, s>> \notin reported[j]
    /\ s = "read" => <<n, "delivered">> \in reported[j]
    /\ s = "failed" => <<n, "delivered">> \notin reported[j]
    /\ s = "delivered" => <<n, "failed">> \notin reported[j]
    /\ reported' = [reported EXCEPT ![j] = @ \cup {<<n, s>>}]
    /\ inbox' = inbox \cup {[job |-> j, id |-> n, status |-> s, row |-> 0]}
    /\ UNCHANGED <<job, log, run, sent, told, contacted, rejected, causes, mix, faults>>

\* Faulty variant: the provider's own word is written.
nextStatusRaw(s) == s

\* Faulty variant: every unknown status counts as delivered.
nextStatusDelivered(s) ==
    CASE s = "read" -> "READ"
      [] s = "failed" -> "FAILED"
      [] OTHER -> "DELIVERED"

nextStatus(s) ==
    CASE s = "read" -> "READ"
      [] s = "delivered" -> "DELIVERED"
      [] s = "failed" -> "FAILED"
      [] OTHER -> "SENT"

findByExternalId(c) == {i \in 1..Len(log[c.job]) : log[c.job][i].ext = c.id}

\* No row has the id: the callback is answered and forgotten.
callbackFind(c) ==
    /\ c \in inbox /\ c.row = 0
    /\ inbox' = (inbox \ {c}) \cup {[c EXCEPT !.row = i] : i \in findByExternalId(c)}
    /\ UNCHANGED <<job, log, run, sent, reported, told, contacted, rejected, causes, mix, faults>>

\* The row that was found takes the status, whatever it holds by now.
callbackWrite(c) ==
    /\ c \in inbox /\ c.row # 0
    /\ inbox' = inbox \ {c}
    /\ log' = [log EXCEPT ![c.job][c.row].status = nextStatus(c.status)]
    /\ UNCHANGED <<job, run, sent, reported, told, contacted, rejected, causes, mix, faults>>
-----------------------------------------------------------------------------
Work(w) ==
    \/ load(w) \/ send(w) \/ updateRow(w) \/ markContacted(w) \/ failRow(w)
    \/ persist(w) \/ Complete(w) \/ Retry(w)

WorkFails(w) ==
    \/ loadFails(w) \/ sendRejected(w) \/ sendTimesOut(w) \/ updateFails(w)
    \/ contactFails(w) \/ failRowFails(w) \/ persistFails(w)

Next ==
    \/ \E j \in Jobs : \/ importRow(j) \/ addMessageSend(j) \/ addJob(j)
                       \/ importFails(j) \/ importAnswerLost(j)
                       \/ StalledFound(j) \/ LockLost(j)
                       \/ \E n \in 1..sent[j], s \in Reports : ProviderReports(j, n, s)
                       \/ \E w \in Workers : sendDirect(w, j) \/ Take(w, j)
    \/ \E w \in Workers : Work(w) \/ WorkFails(w)
    \/ \E c \in inbox : callbackFind(c) \/ callbackWrite(c)
    \/ Restart

Spec == Init /\ [][Next]_vars

\* The import goes on with its line, a free slot takes a waiting job, a
\* processor goes on once its promise is settled, and BullMQ looks for
\* stalled jobs.  Whether a provider accepts or times out is its choice.
Fairness ==
    /\ \A j \in Jobs : /\ WF_vars(addMessageSend(j))
                       /\ WF_vars(\E w \in Workers : Take(w, j))
                       /\ WF_vars(StalledFound(j))
    /\ \A w \in Workers : WF_vars(Work(w))

FairSpec == Spec /\ Fairness
-----------------------------------------------------------------------------
\* Every variable holds a value of the program's types.
TypeOK ==
    /\ job \in [Jobs -> Job]
    /\ log \in [Jobs -> Seq(Row)]
    /\ run \in [Workers -> Run]
    /\ sent \in [Jobs -> Nat]
    /\ reported \in [Jobs -> SUBSET (Nat \X Reports)]
    /\ inbox \subseteq Callback
    /\ told \in [Jobs -> Answer]
    /\ contacted \subseteq Jobs
    /\ rejected \in [Jobs -> Nat] /\ causes \in [Jobs -> Nat]
    /\ mix \in Mixes /\ faults \in 0..mix.faults

RowsOf(j) == {log[j][i] : i \in 1..Len(log[j])}

Told(j, s) == \E n \in 1..sent[j] : <<n, s>> \in reported[j]

\* The log never claims what did not happen: a row that is SENT has the id of
\* a message the provider accepted, one that is DELIVERED or READ was reported
\* so, and one that is FAILED had an attempt fail or a failure reported,
\* however attempts, stalls and callbacks overtake each other.
LogIsTrue ==
    \A j \in Jobs : \A r \in RowsOf(j) :
        /\ r.ext # None => r.ext \in 1..sent[j]
        /\ r.status = "SENT" => r.ext # None
        /\ r.status = "DELIVERED" => Told(j, "delivered")
        /\ r.status = "READ" => Told(j, "read")
        /\ r.status = "FAILED" => rejected[j] + causes[j] > 0 \/ Told(j, "failed")

\* A message goes out a second time only for a reason: an answer or the update
\* of the row was lost after a send, or the job stalled.  That the case could
\* not be marked, or that the provider refused an attempt, is no reason.
CopiesNeedCause == \A j \in Jobs : sent[j] <= 1 + causes[j]

\* Nobody is told what did not happen: a direct request is answered as sent
\* only with its message out and in the log, and refused with the message out
\* only when an answer or a row was lost; a line counted as enqueued has its job;
\* and a job that the queue counts as completed was sent and has its id in the
\* log, for the callbacks to find.
AnswersAreTrue ==
    \A j \in Jobs :
        LET logged == \E r \in RowsOf(j) : r.ext # None IN
        /\ told[j] = "sent" \/ job[j].state = "completed" => sent[j] > 0 /\ logged
        /\ told[j] = "refused" /\ sent[j] > 0 => causes[j] > 0
        /\ told[j] = "enqueued" =>
               job[j].state \in {"waiting", "active", "completed", "failed"}

Resting(j) == \A w \in Workers : run[w].job # j

\* What the row of a message that went out may show: that it is SENT, or any
\* status that the provider has reported of that very message.
Shown(j, r) ==
    {"SENT"} \cup {nextStatus(s) : s \in {t \in Reports : <<r.ext, t>> \in reported[j]}}

\* As long as only providers refuse: once a job rests, its last row tells its
\* outcome.  Of a message that went out it has the id, and the status SENT or one
\* that was reported of this message, in whatever order its callbacks came; of one
\* that was given up it has no id and is FAILED.  The rows of earlier attempts are
\* FAILED without an id, callbacks or not, and the case of a message that went out
\* counts as contacted; every row of an import has its job, and a direct request
\* leaves a row exactly when it is answered as sent.
LogAgrees ==
    faults = 0 =>
    \A j \in Jobs : Resting(j) =>
        /\ Ended(job[j]) =>
            LET last == log[j][Len(log[j])] IN
            /\ job[j].state = "completed" =>
                   last.ext # None /\ last.status \in Shown(j, last)
            /\ job[j].state = "failed" => last.ext = None /\ last.status = "FAILED"
            /\ \A i \in 1..(Len(log[j]) - 1) :
                   log[j][i].ext = None /\ log[j][i].status = "FAILED"
            /\ job[j].state = "completed" /\ j \in WithCase => j \in contacted
        /\ job[j].state = "gone" =>
            FormOf[j] = "direct" /\ (told[j] = "sent" <=> log[j] # <<>>)

MaxCopies == [j \in Jobs |-> IF FormOf[j] = "direct" THEN 1 ELSE AttemptsOf[j] + MaxStalled]

\* What sending promises is kept: retries, stalls, restarts and lost answers
\* together send no message more often than its attempts and one stall allow,
\* none before it was asked for, and what became of a job does not change.
Promised == INSTANCE Delivery WITH
    Messages <- Jobs,
    MaxCopies <- MaxCopies,
    asked <- {j \in Jobs : job[j].state # "none"},
    copies <- sent,
    outcome <- [j \in Jobs |-> CASE job[j].state = "completed" -> "sent"
                                 [] job[j].state = "failed" -> "dropped"
                                 [] OTHER -> None]

ImplementsDelivery == Promised!Spec

\* Everything that was asked for is decided at last, for good: a job is completed
\* or given up through any number of rejections, stalls and restarts within the
\* bounds, a saved line is queued or its import has failed, and a direct request
\* is over.
JobsSettle ==
    <>[](\A j \in Jobs : job[j].state \in {"none", "gone", "completed", "failed"})
=============================================================================
