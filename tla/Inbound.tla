------------------------------- MODULE Inbound -------------------------------
(***************************************************************************)
(* Texts of debtors: the webhook Meta posts payloads to, the endpoint      *)
(* others call, the queue nlp-inbound, and InboundService, which finds the *)
(* case, classifies the text, registers opt-outs and promises to pay, and  *)
(* enqueues the reply.                                                     *)
(*                                                                         *)
(* req are webhook requests and run the processors (and direct calls); the *)
(* "pc" is the await each stands at.                                       *)
(***************************************************************************)
EXTENDS BullMQ, Sequences, FiniteSets

CONSTANTS
    Contacts,     \* contacts, each with one case
    TenantOf,     \* the tenant of each
    AddressOf,    \* the digits of the phone of each
    Verbatim,     \* contacts whose phone is stored just as providers write it
    Reachable,    \* contacts that have an address for the channel of the reply
    StatusOf,     \* the first status of the case of each
    Payers,       \* contacts whose debt may be paid meanwhile
    Texts,        \* texts that debtors may write
    FromOf,       \* the address each comes from
    WordsOf,      \* what classify finds in each
    KindOf,       \* the type of message in which Meta delivers each
    Payloads,     \* what Meta posts: sequences of texts
    CallTenant,   \* the tenant a direct call names
    CallCase,     \* the contact whose case a direct call names, or None
    Requests,     \* slots for webhook requests
    Workers,      \* slots in which texts are handled
    MaxFaults     \* bound: failed awaits, lost answers, stalls, restarts, expiries

Words == {"baja", "pagado", "pago", "monto", "fecha", "consulta"}

CaseStatus == {"ABIERTO", "OPEN", "PAID", "CANCELLED"}

\* The texts that Meta delivers; the others come as direct calls.
TextsIn(p) == {p[i] : i \in 1..Len(p)}
Delivered == UNION {TextsIn(p) : p \in Payloads}
Direct == Texts \ Delivered

ASSUME ContactsAssumption ==
    /\ TenantOf \in [Contacts -> Nat]
    /\ \A c, d \in Contacts : c # d => \/ AddressOf[c] # AddressOf[d]
                                       \/ TenantOf[c] # TenantOf[d]
    /\ Verbatim \subseteq Contacts /\ Reachable \subseteq Contacts
    /\ Payers \subseteq Contacts /\ StatusOf \in [Contacts -> CaseStatus]
ASSUME TextsAssumption ==
    /\ WordsOf \in [Texts -> SUBSET Words]
    /\ KindOf \in [Texts -> {"text", "list", "button", "image"}]
    /\ CallTenant \in [Direct -> Nat]
    /\ CallCase \in [Direct -> Contacts \cup {None}]
ASSUME PayloadsAssumption ==
    /\ Payloads \subseteq Seq(Texts)
    /\ \A p, q \in Payloads : p = q \/ TextsIn(p) \cap TextsIn(q) = {}
    /\ \A p \in Payloads : p # <<>> /\ Cardinality(TextsIn(p)) = Len(p)
ASSUME SlotsAssumption == IsFiniteSet(Requests) /\ IsFiniteSet(Workers) /\ MaxFaults \in Nat
ASSUME NoneAssumption == None \notin Contacts \cup Texts \cup Workers \cup Nat

VARIABLES
    mail,       \* Meta: what has become of each payload
    req,        \* the webhook requests in flight
    keys,       \* Redis: the texts whose wa:in: key is reserved
    jobs,       \* the queue nlp-inbound, in the order of arrival
    run,        \* the processors
    calls,      \* direct calls that were answered
    status,     \* the status of the case of each contact
    heard,      \* contacts whose case has last_inbound_at set
    dnc,        \* contacts that are not to be contacted
    ptps,       \* rows of table ptp that come from each text
    replies,    \* reply jobs enqueued for each text
    causes,     \* history: failures and stalls while each text was handled
    broken,     \* history: texts reserved by a request that failed then
    expired,    \* history: texts whose key expired
    faults      \* what is used of MaxFaults

cases == <<status, heard, dnc, ptps, replies>>
hookVars == <<mail, req, keys, broken, expired>>
vars == <<hookVars, jobs, run, calls, cases, causes, faults>>

Req == [pc : {"idle", "reserve", "add"}, payload : Payloads \cup {<<>>}, pos : Nat]
NoReq == [pc |-> "idle", payload |-> <<>>, pos |-> 0]

Pc == {"idle", "find", "mark", "dnc", "ptp", "lookup", "queue", "done", "throw"}
Run == [pc : Pc, job : Nat, text : Texts \cup {None}, kase : Contacts \cup {None}]
NoRun == [pc |-> "idle", job |-> 0, text |-> None, kase |-> None]

Job == [text : Texts, state : {"waiting", "active", "completed", "failed"},
        made : Nat, stalled : Nat, by : Workers \cup {None}]

Init ==
    /\ mail = [p \in Payloads |-> "unsent"]
    /\ req = [r \in Requests |-> NoReq]
    /\ keys = {}
    /\ jobs = <<>>
    /\ run = [w \in Workers |-> NoRun]
    /\ calls = {}
    /\ status = StatusOf
    /\ heard = {} /\ dnc = {}
    /\ ptps = [t \in Texts |-> 0]
    /\ replies = [t \in Texts |-> 0]
    /\ causes = [t \in Texts |-> 0]
    /\ broken = {} /\ expired = {}
    /\ faults = 0

Fault == faults < MaxFaults /\ faults' = faults + 1
Cause(t) == causes' = [causes EXCEPT ![t] = @ + 1]
-----------------------------------------------------------------------------
(***************************************************************************)
(* The webhook.                                                            *)
(***************************************************************************)
\* Meta posts a payload, and again until it is answered.
Deliver(r, p) ==
    /\ req[r].pc = "idle" /\ mail[p] \in {"unsent", "pending"}
    /\ mail' = [mail EXCEPT ![p] = "pending"]
    /\ req' = [req EXCEPT ![r] = [pc |-> "reserve", payload |-> p, pos |-> 1]]
    /\ UNCHANGED <<keys, jobs, run, calls, cases, causes, broken, expired, faults>>

\* On to the next message of the payload, or the answer.
Advance(r) ==
    LET q == req[r] IN
    IF q.pos = Len(q.payload)
    THEN /\ req' = [req EXCEPT ![r] = NoReq]
         /\ mail' = [mail EXCEPT ![q.payload] = "answered"]
    ELSE /\ req' = [req EXCEPT ![r].pos = q.pos + 1, ![r].pc = "reserve"]
         /\ mail' = mail

TextOf(r) == req[r].payload[req[r].pos]

\* Faulty variant: the loop is left at the first duplicate.
reserveOrLeave(r) ==
    /\ req[r].pc = "reserve"
    /\ \/ /\ TextOf(r) \notin keys
          /\ keys' = keys \cup {TextOf(r)}
          /\ req' = [req EXCEPT ![r].pc = "add"]
          /\ mail' = mail
       \/ /\ TextOf(r) \in keys
          /\ req' = [req EXCEPT ![r] = NoReq]
          /\ mail' = [mail EXCEPT ![req[r].payload] = "answered"]
          /\ keys' = keys
    /\ UNCHANGED <<jobs, run, calls, cases, causes, broken, expired, faults>>

reserveOnce(r) ==
    /\ req[r].pc = "reserve"
    /\ \/ /\ TextOf(r) \notin keys
          /\ keys' = keys \cup {TextOf(r)}
          /\ req' = [req EXCEPT ![r].pc = "add"]
          /\ mail' = mail
       \/ /\ TextOf(r) \in keys
          /\ Advance(r)
          /\ keys' = keys
    /\ UNCHANGED <<jobs, run, calls, cases, causes, broken, expired, faults>>

Arrived(t) == [text |-> t, state |-> "waiting", made |-> 0, stalled |-> 0, by |-> None]

addJob(r) ==
    /\ req[r].pc = "add"
    /\ jobs' = Append(jobs, Arrived(TextOf(r)))
    /\ Advance(r)
    /\ UNCHANGED <<keys, run, calls, cases, causes, broken, expired, faults>>

\* What a request has reserved and has not enqueued yet.
Reserved(r) == {t \in Texts : req[r].pc = "add" /\ t = TextOf(r)}

\* Redis does not answer: what was asked may have been done, and Meta gets 500.
RequestFails(r) ==
    /\ Fault
    /\ req[r].pc # "idle"
    /\ \/ /\ UNCHANGED <<keys, jobs>>
          /\ broken' = broken \cup Reserved(r)
       \/ /\ req[r].pc = "reserve"
          /\ keys' = keys \cup {TextOf(r)} /\ jobs' = jobs
          /\ broken' = broken \cup (keys' \ keys)
       \/ /\ req[r].pc = "add"
          /\ jobs' = Append(jobs, Arrived(TextOf(r)))
          /\ UNCHANGED <<keys, broken>>
    /\ req' = [req EXCEPT ![r] = NoReq]
    /\ UNCHANGED <<mail, run, calls, cases, causes, expired>>

\* A key lasts a day; Meta may post longer.
KeyExpires(t) ==
    /\ Fault
    /\ t \in keys \ expired
    /\ keys' = keys \ {t} /\ expired' = expired \cup {t}
    /\ UNCHANGED <<mail, req, jobs, run, calls, cases, causes, broken>>
-----------------------------------------------------------------------------
(***************************************************************************)
(* InboundService.                                                         *)
(***************************************************************************)

\* extractText: a button's reply has a title, not a text, and comes out empty.
extractText(t) ==
    IF t \in Direct \/ KindOf[t] \in {"text", "list"} THEN WordsOf[t] ELSE {}

\* Faulty variant: the word for a payment is looked for first.
classifyPaidFirst(ws) ==
    IF "pagado" \in ws THEN "PAGO"
    ELSE IF "baja" \in ws THEN "BAJA"
    ELSE IF "pago" \in ws /\ ws \cap {"monto", "fecha"} # {} THEN "PTP"
    ELSE IF "consulta" \in ws THEN "CONSULTA" ELSE "UNKNOWN"

classify(ws) ==
    IF "baja" \in ws THEN "BAJA"
    ELSE IF "pagado" \in ws THEN "PAGO"
    ELSE IF "pago" \in ws /\ ws \cap {"monto", "fecha"} # {} THEN "PTP"
    ELSE IF "consulta" \in ws THEN "CONSULTA" ELSE "UNKNOWN"

Intent(t) == classify(extractText(t))

\* Both columns of table ptp are NOT NULL.
IsWhole(t) == {"monto", "fecha"} \subseteq extractText(t)

\* The tenant a text is handled for: the webhook says 0.
TenantIn(t) == IF t \in Direct THEN CallTenant[t] ELSE 0

\* The case of the contact of that tenant with those digits, if it is ABIERTO.
Found(t) == {c \in Contacts : /\ AddressOf[c] = FromOf[t]
                              /\ TenantOf[c] = TenantIn(t)
                              /\ status[c] = "ABIERTO"}

\* Faulty variant: an opt-out from every tenant.
OptsOutAnywhere(t) == {c \in Verbatim : AddressOf[c] = FromOf[t]}

\* The contacts markDnc updates: it compares the address as it is stored.
OptsOut(t) == {c \in Verbatim : AddressOf[c] = FromOf[t] /\ TenantOf[c] = TenantIn(t)}

\* closeIfZero closes a case that was paid, whatever texts are being handled.
closeIfZero(c) ==
    /\ c \in Payers /\ status[c] \in {"ABIERTO", "OPEN"}
    /\ status' = [status EXCEPT ![c] = "PAID"]
    /\ UNCHANGED <<hookVars, jobs, run, calls, heard, dnc, ptps, replies, causes, faults>>

Goto(w, pc) == run' = [run EXCEPT ![w].pc = pc]

handle(t, i) == [NoRun EXCEPT !.job = i, !.text = t,
                    !.pc = IF t \in Direct /\ CallCase[t] # None THEN "mark" ELSE "find",
                    !.kase = IF t \in Direct THEN CallCase[t] ELSE None]

Take(w, i) ==
    /\ run[w].pc = "idle" /\ jobs[i].state = "waiting"
    /\ jobs' = [jobs EXCEPT ![i] = Taken(@, w)]
    /\ run' = [run EXCEPT ![w] = handle(jobs[i].text, i)]
    /\ UNCHANGED <<hookVars, calls, cases, causes, faults>>

\* POST /inbound/webhook handles the text in the request; a caller that got
\* an error may call again.
webhook(w, t) ==
    /\ run[w].pc = "idle"
    /\ t \in Direct \ calls /\ \A v \in Workers : run[v].text # t
    /\ run' = [run EXCEPT ![w] = handle(t, 0)]
    /\ UNCHANGED <<hookVars, jobs, calls, cases, causes, faults>>

\* Faulty variant: the handling goes on without a case.
findUnchecked(w) ==
    /\ run[w].pc = "find"
    /\ \/ \E c \in Found(run[w].text) : run' = [run EXCEPT ![w].pc = "mark", ![w].kase = c]
       \/ Found(run[w].text) = {} /\ Goto(w, "mark")
    /\ UNCHANGED <<hookVars, jobs, calls, cases, causes, faults>>

findOpenCaseIdByAddress(w) ==
    /\ run[w].pc = "find"
    /\ \/ \E c \in Found(run[w].text) : run' = [run EXCEPT ![w].pc = "mark", ![w].kase = c]
       \/ Found(run[w].text) = {} /\ Goto(w, "done")     \* case_not_found
    /\ UNCHANGED <<hookVars, jobs, calls, cases, causes, faults>>

EffectOf(t) == CASE Intent(t) = "BAJA" -> "dnc" [] Intent(t) = "PTP" -> "ptp"
                 [] OTHER -> "lookup"

markInbound(w) ==
    /\ run[w].pc = "mark"
    /\ heard' = heard \cup {run[w].kase}
    /\ Goto(w, EffectOf(run[w].text))
    /\ UNCHANGED <<hookVars, jobs, calls, status, dnc, ptps, replies, causes, faults>>

markDnc(w) ==
    /\ run[w].pc = "dnc"
    /\ dnc' = dnc \cup OptsOut(run[w].text)
    /\ Goto(w, "lookup")
    /\ UNCHANGED <<hookVars, jobs, calls, status, heard, ptps, replies, causes, faults>>

insertPtp(t) == ptps' = [ptps EXCEPT ![t] = @ + 1]

\* Faulty variant: the reply goes out whether or not the row was inserted.
createPtpLoosely(w) ==
    /\ run[w].pc = "ptp"
    /\ IF IsWhole(run[w].text) THEN insertPtp(run[w].text) ELSE ptps' = ptps
    /\ Goto(w, "lookup")
    /\ UNCHANGED <<hookVars, jobs, calls, status, heard, dnc, replies, causes, faults>>

\* A promise without its amount or its date is refused by the table.
createPtp(w) ==
    /\ run[w].pc = "ptp"
    /\ \/ IsWhole(run[w].text) /\ insertPtp(run[w].text) /\ Goto(w, "lookup")
       \/ ~IsWhole(run[w].text) /\ ptps' = ptps /\ Goto(w, "throw")
    /\ UNCHANGED <<hookVars, jobs, calls, status, heard, dnc, replies, causes, faults>>

\* The insert was done, but its answer is lost.
createPtpLost(w) ==
    /\ Fault
    /\ run[w].pc = "ptp" /\ IsWhole(run[w].text)
    /\ insertPtp(run[w].text)
    /\ Cause(run[w].text)
    /\ Goto(w, "throw")
    /\ UNCHANGED <<hookVars, jobs, calls, status, heard, dnc, replies>>

\* reply looks up the address of the case; without one there is no reply.
replyLookup(w) ==
    /\ run[w].pc = "lookup"
    /\ Goto(w, IF run[w].kase \in Reachable THEN "queue" ELSE "done")
    /\ UNCHANGED <<hookVars, jobs, calls, cases, causes, faults>>

replyJob(t) == replies' = [replies EXCEPT ![t] = @ + 1]

reply(w) ==
    /\ run[w].pc = "queue"
    /\ replyJob(run[w].text)
    /\ Goto(w, "done")
    /\ UNCHANGED <<hookVars, jobs, calls, status, heard, dnc, ptps, causes, faults>>

\* Faulty variant: the exception leaves reply.
replyThrows(w) ==
    /\ Fault
    /\ run[w].pc = "queue"
    /\ replyJob(run[w].text) \/ replies' = replies
    /\ Goto(w, "throw")
    /\ UNCHANGED <<hookVars, jobs, calls, status, heard, dnc, ptps, causes>>

\* reply swallows the exception of addJob, whether or not the job was added.
replyFails(w) ==
    /\ Fault
    /\ run[w].pc = "queue"
    /\ replyJob(run[w].text) \/ replies' = replies
    /\ Goto(w, "done")
    /\ UNCHANGED <<hookVars, jobs, calls, status, heard, dnc, ptps, causes>>

\* Any other query fails: the exception leaves handle.
StepFails(w) ==
    /\ Fault
    /\ run[w].pc \in {"find", "mark", "dnc", "ptp", "lookup"}
    /\ Cause(run[w].text)
    /\ Goto(w, "throw")
    /\ UNCHANGED <<hookVars, jobs, calls, cases>>
-----------------------------------------------------------------------------
\* The attempts the webhook asks for.
Attempts == 3

\* The processor returns or throws; a direct call is answered 200 or 500.
Finish(w, q, answered) ==
    /\ jobs' = IF run[w].job = 0 THEN jobs
               ELSE [jobs EXCEPT ![run[w].job] = Settled(@, w, q)]
    /\ calls' = IF run[w].job = 0 THEN calls \cup answered ELSE calls
    /\ run' = [run EXCEPT ![w] = NoRun]
    /\ UNCHANGED <<hookVars, cases, causes, faults>>

JobOf(w) == IF run[w].job = 0 THEN Arrived(run[w].text) ELSE jobs[run[w].job]

Return(w) ==
    /\ run[w].pc = "done"
    /\ Finish(w, Completed(JobOf(w)), {run[w].text})

Throw(w) ==
    /\ run[w].pc = "throw"
    /\ Finish(w, Retried(JobOf(w), Attempts), {})

Orphan(i) == run[jobs[i].by].job # i

Stall(i) ==
    /\ jobs' = [jobs EXCEPT ![i] = Stalled(@)]
    /\ Cause(jobs[i].text)
    /\ UNCHANGED <<hookVars, run, calls, cases>>

\* The process that had the job is gone.
StalledFound(i) ==
    jobs[i].state = "active" /\ Orphan(i) /\ Stall(i) /\ UNCHANGED faults

\* The lock is not renewed in time, though the processor goes on.
LockLost(i) == Fault /\ jobs[i].state = "active" /\ ~Orphan(i) /\ Stall(i)

\* The process stops: requests, processors and direct calls are lost.
Restart ==
    /\ Fault
    /\ \/ \E w \in Workers : run[w].pc # "idle"
       \/ \E r \in Requests : req[r].pc # "idle"
    /\ run' = [w \in Workers |-> NoRun]
    /\ req' = [r \in Requests |-> NoReq]
    /\ causes' = [t \in Texts |->
                    causes[t] + Cardinality({w \in Workers : run[w].text = t /\ t \in Direct})]
    /\ broken' = broken \cup UNION {Reserved(r) : r \in Requests}
    /\ UNCHANGED <<mail, keys, jobs, calls, cases, expired>>
-----------------------------------------------------------------------------
Continue(r) == reserveOnce(r) \/ addJob(r)

Work(w) ==
    \/ findOpenCaseIdByAddress(w) \/ markInbound(w) \/ markDnc(w) \/ createPtp(w)
    \/ replyLookup(w) \/ reply(w) \/ Return(w) \/ Throw(w)

Next ==
    \/ \E r \in Requests : \/ \E p \in Payloads : Deliver(r, p)
                           \/ Continue(r) \/ RequestFails(r)
    \/ \E w \in Workers : \/ \E i \in 1..Len(jobs) : Take(w, i)
                          \/ \E t \in Direct : webhook(w, t)
                          \/ Work(w) \/ createPtpLost(w) \/ replyFails(w) \/ StepFails(w)
    \/ \E i \in 1..Len(jobs) : StalledFound(i) \/ LockLost(i)
    \/ \E c \in Contacts : closeIfZero(c)
    \/ \E t \in Delivered : KeyExpires(t)
    \/ Restart

Spec == Init /\ [][Next]_vars

-----------------------------------------------------------------------------
\* Every variable holds a value of the program's types.
TypeOK ==
    /\ mail \in [Payloads -> {"unsent", "pending", "answered"}]
    /\ req \in [Requests -> Req]
    /\ keys \subseteq Delivered
    /\ jobs \in Seq(Job)
    /\ run \in [Workers -> Run]
    /\ calls \subseteq Direct
    /\ status \in [Contacts -> CaseStatus]
    /\ heard \subseteq Contacts /\ dnc \subseteq Verbatim
    /\ ptps \in [Texts -> Nat] /\ replies \in [Texts -> Nat]
    /\ causes \in [Texts -> Nat]
    /\ broken \subseteq Delivered /\ expired \subseteq Delivered
    /\ faults \in 0..MaxFaults

Answered(t) ==
    t \in calls \/ \E p \in Payloads : t \in TextsIn(p) /\ mail[p] = "answered"

JobsOf(t) == {i \in 1..Len(jobs) : jobs[i].text = t}

\* However often Meta posts a payload, at once or after a failure in the midst
\* of it, each of its texts is enqueued at most once while its key lasts.  When
\* Meta has its answer each is enqueued or about to be, though another request
\* than the one that answered reserved it: none is lost but those whose own
\* request failed between the reservation and the queue.
OneJobPerText ==
    \A t \in Delivered :
        /\ Cardinality(JobsOf(t)) <= IF t \in expired THEN 2 ELSE 1
        /\ Answered(t) /\ JobsOf(t) = {} =>
               t \in broken \/ \E r \in Requests : t \in Reserved(r)

\* How often the handling of a text was started for a reason of its own.
Asked(t) == IF t \in Direct THEN 1 ELSE Cardinality(JobsOf(t))

\* A second promise or a second reply for one text has a cause: an attempt that
\* failed before the reply, a stall, a restart.  That the reply could not be
\* enqueued is none.
EffectsNeedCause ==
    \A t \in Texts : ptps[t] <= Asked(t) + causes[t] /\ replies[t] <= Asked(t) + causes[t]

\* "Perfecto, registre tu promesa de pago" is said only of a promise that is in
\* the table, whatever failed in between.
PromiseIsRecorded ==
    \A t \in Texts : Intent(t) = "PTP" /\ replies[t] > 0 => ptps[t] > 0

Written(t) == t \in Direct \/ \E p \in Payloads : t \in TextsIn(p) /\ mail[p] # "unsent"

\* A contact is silenced only for a text with a word of opt-out from its own
\* address, in its own tenant: never by a debtor of another tenant.
SilencedOnRequest ==
    \A c \in dnc : \E t \in Texts :
        /\ Written(t) /\ "baja" \in WordsOf[t]
        /\ FromOf[t] = AddressOf[c] /\ TenantIn(t) = TenantOf[c]

Resting ==
    /\ \A p \in Payloads : mail[p] # "pending"
    /\ \A r \in Requests : req[r].pc = "idle"
    /\ \A w \in Workers : run[w].pc = "idle"
    /\ \A i \in 1..Len(jobs) : Ended(jobs[i])

\* As long as nothing fails: at rest a text whose case is found was heard and
\* had its one effect and its one reply, though its payload was posted twice
\* and its texts were handled side by side; an opt-out is an opt-out whatever
\* else the text says.
RestingIsHandled ==
    faults = 0 /\ Resting =>
    \A t \in Texts, c \in Contacts : Answered(t) /\ c \in Found(t) =>
        /\ c \in heard
        /\ "baja" \in extractText(t) /\ c \in Verbatim => c \in dnc
        /\ ptps[t] = IF Intent(t) = "PTP" /\ IsWhole(t) THEN 1 ELSE 0
        /\ replies[t] = IF c \in Reachable /\ (Intent(t) = "PTP" => IsWhole(t))
                        THEN 1 ELSE 0

(***************************************************************************)
(* What the code says and does not do.                                     *)
(***************************************************************************)

\* "Listo, no volveremos a contactarte por este medio.": who is told so is not
\* to be contacted any more.
ToldIsSilenced ==
    \A t \in Texts, c \in Contacts :
        Intent(t) = "BAJA" /\ replies[t] > 0 /\ c \in Found(t) => c \in dnc
=============================================================================
