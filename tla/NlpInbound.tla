----------------------------- MODULE NlpInbound -----------------------------
(***************************************************************************)
(* NlpInboundRuntime, the other worker of the queue nlp-inbound: it files  *)
(* a text once under the id of its provider, and then registers opt-outs   *)
(* and promises and answers.                                               *)
(*                                                                         *)
(* A text is one job.  Both WhatsApp webhooks enqueue what Meta sends, so  *)
(* two texts may carry one id.  run[w] is a processor, its "pc" the await  *)
(* it stands at.                                                           *)
(***************************************************************************)
EXTENDS BullMQ, Sequences, FiniteSets

CONSTANTS
    Contacts,     \* contacts, each with one case
    PhoneOf,      \* the phone of each, as it is stored
    OpenCases,    \* contacts whose case has the status OPEN
    Numbered,     \* contacts whose tenant has a number for an id
    Texts,        \* jobs that may be enqueued
    IdOf,         \* the provider's id each carries, or None
    FromOf,       \* the phone each comes from
    WordsOf,      \* what classify finds in each
    AttemptsOf,   \* the attempts its producer asks for
    Workers,      \* slots in which texts are handled
    MaxTexts,     \* bound: texts that are enqueued
    MaxFaults     \* bound: failed awaits, lost answers, stalls and restarts

Words == {"baja", "pague", "pago", "monto", "fecha", "manana", "no puedo", "consulta"}

ASSUME TextsAssumption ==
    /\ WordsOf \in [Texts -> SUBSET Words]
    /\ AttemptsOf \in [Texts -> {1, 3}]
ASSUME ContactsAssumption == OpenCases \subseteq Contacts /\ Numbered \subseteq Contacts
ASSUME WorkersAssumption == IsFiniteSet(Workers)
ASSUME NoneAssumption == None \notin Contacts \cup Texts \cup Workers
ASSUME BoundsAssumption == MaxTexts \in Nat /\ MaxFaults \in Nat

VARIABLES
    jobs,       \* the queue: the job of each text
    run,        \* the processors
    lastOut,    \* table messages: the case of the last message to each phone
    rows,       \* table replies: the cases under which each text was filed
    recent,     \* contacts whose case was heard within two hours
    dnc,        \* contacts that are not to be contacted
    ptps,       \* rows of table ptp that come from each text
    answers,    \* answers enqueued for each text
    causes,     \* history: attempts that failed, and stalls, of each text
    slow,       \* history: texts during whose handling two hours went by
    faults      \* what is used of MaxFaults

effects == <<rows, recent, dnc, ptps, answers>>
vars == <<jobs, run, lastOut, effects, causes, slow, faults>>

Pc == {"idle", "dup", "out", "contact", "case", "insert", "orphan", "mark", "dnc", "ptp",
       "lookup", "queue", "done", "throw"}
Run == [pc : Pc, text : Texts \cup {None}, kase : Contacts \cup {None}]
NoRun == [pc |-> "idle", text |-> None, kase |-> None]

Job == [state : {"none", "waiting", "active", "completed", "failed"},
        made : Nat, stalled : Nat, by : Workers \cup {None}]

Phones == {FromOf[t] : t \in Texts}

Init ==
    /\ jobs = [t \in Texts |-> [Queued EXCEPT !.state = "none"]]
    /\ run = [w \in Workers |-> NoRun]
    /\ lastOut \in [Phones -> Contacts \cup {None}]
    /\ rows = [t \in Texts |-> <<>>]
    /\ recent = {} /\ dnc = {}
    /\ ptps = [t \in Texts |-> 0]
    /\ answers = [t \in Texts |-> 0]
    /\ causes = [t \in Texts |-> 0]
    /\ slow = {}
    /\ faults = 0

Fault == faults < MaxFaults /\ faults' = faults + 1
Cause(t) == causes' = [causes EXCEPT ![t] = @ + 1]
-----------------------------------------------------------------------------
(***************************************************************************)
(* NlpService.                                                             *)
(***************************************************************************)

\* Any two digits make an amount, those of a date as well.
extractAmount(ws) == ws \cap {"monto", "fecha"} # {}
extractDate(ws) == ws \cap {"fecha", "manana"} # {}

IsPtp(ws) == "pago" \in ws /\ (extractAmount(ws) \/ extractDate(ws))

\* Faulty variant: a receipt goes before an opt-out.
classifyPagoFirst(ws) ==
    IF "pague" \in ws THEN "PAGO"
    ELSE IF "baja" \in ws THEN "BAJA"
    ELSE IF IsPtp(ws) THEN "PTP" ELSE "DESCONOCIDO"

classify(ws) ==
    IF "baja" \in ws THEN "BAJA"
    ELSE IF "pague" \in ws THEN "PAGO"
    ELSE IF IsPtp(ws) THEN "PTP"
    ELSE IF "no puedo" \in ws THEN "NEGATIVA"
    ELSE IF "consulta" \in ws THEN "CONSULTA" ELSE "DESCONOCIDO"

Intent(t) == classify(WordsOf[t])

\* Both columns of table ptp are NOT NULL.
IsWhole(t) == extractAmount(WordsOf[t]) /\ extractDate(WordsOf[t])
-----------------------------------------------------------------------------
(***************************************************************************)
(* The world around: webhooks, sending, and the time.                      *)
(***************************************************************************)
addJob(t) ==
    /\ jobs[t].state = "none"
    /\ Cardinality({u \in Texts : jobs[u].state # "none"}) < MaxTexts
    /\ jobs' = [jobs EXCEPT ![t].state = "waiting"]
    /\ UNCHANGED <<run, lastOut, effects, causes, slow, faults>>

\* Two hours go by without a word, while texts may wait for an answer.
HoursPass(c) ==
    /\ c \in recent
    /\ recent' = recent \ {c}
    /\ slow' = slow \cup {run[w].text : w \in {v \in Workers : run[v].kase = c}}
    /\ UNCHANGED <<jobs, run, lastOut, rows, dnc, ptps, answers, causes, faults>>
-----------------------------------------------------------------------------
(***************************************************************************)
(* The processor.                                                          *)
(***************************************************************************)
Goto(w, pc) == run' = [run EXCEPT ![w].pc = pc]

Take(w, t) ==
    /\ run[w].pc = "idle" /\ jobs[t].state = "waiting"
    /\ jobs' = [jobs EXCEPT ![t] = Taken(@, w)]
    /\ run' = [run EXCEPT ![w] = [NoRun EXCEPT !.text = t,
                                     !.pc = IF IdOf[t] = None THEN "out" ELSE "dup"]]
    /\ UNCHANGED <<lastOut, effects, causes, slow, faults>>

\* The texts that have the id of t: a row under it is t's too.
Same(t) == IF IdOf[t] = None THEN {t} ELSE {u \in Texts : IdOf[u] = IdOf[t]}

Known(t) == IdOf[t] # None /\ \E u \in Same(t) : rows[u] # <<>>

\* A query that writes nothing.
Reads == UNCHANGED <<jobs, lastOut, effects, causes, slow, faults>>

findDuplicate(w) ==
    /\ run[w].pc = "dup"
    /\ Goto(w, IF Known(run[w].text) THEN "done" ELSE "out")
    /\ Reads

\* A case whose tenant is not a number (Number of a uuid is NaN) is no context.
InContext(w, c) ==
    run' = IF c \in Numbered THEN [run EXCEPT ![w].pc = "insert", ![w].kase = c]
           ELSE [run EXCEPT ![w].pc = "orphan", ![w].kase = None]

\* resolveContext: the case of the last message that went to the phone, ...
lastMessage(w) ==
    LET c == lastOut[FromOf[run[w].text]] IN
    /\ run[w].pc = "out"
    /\ IF c = None THEN Goto(w, "contact") ELSE InContext(w, c)
    /\ Reads

\* ... or some contact that has the phone, of whatever tenant, ...
findContact(w) ==
    LET Holders == {c \in Contacts : PhoneOf[c] = FromOf[run[w].text]} IN
    /\ run[w].pc = "contact"
    /\ \/ \E c \in Holders : run' = [run EXCEPT ![w].pc = "case", ![w].kase = c]
       \/ Holders = {} /\ Goto(w, "orphan")
    /\ Reads

\* ... if its case is OPEN.
findCase(w) ==
    /\ run[w].pc = "case"
    /\ IF run[w].kase \in OpenCases THEN InContext(w, run[w].kase)
       ELSE run' = [run EXCEPT ![w].pc = "orphan", ![w].kase = None]
    /\ Reads

\* The writes, each with what it leaves alone of the tables and the queue.
File(t, c) ==
    rows' = [rows EXCEPT ![t] = Append(@, c)] /\ UNCHANGED <<recent, dnc, ptps, answers>>
Touch(c) == recent' = recent \cup {c} /\ UNCHANGED <<rows, dnc, ptps, answers>>

\* Every contact that has the phone, of whatever tenant.
Silence(w) ==
    /\ dnc' = dnc \cup {c \in Contacts : PhoneOf[c] = FromOf[run[w].text]}
    /\ UNCHANGED <<rows, recent, ptps, answers>>

Promise(t) == ptps' = [ptps EXCEPT ![t] = @ + 1] /\ UNCHANGED <<rows, recent, dnc, answers>>
Answer(t) ==
    answers' = [answers EXCEPT ![t] = @ + 1] /\ UNCHANGED <<rows, recent, dnc, ptps>>

Writes == UNCHANGED <<jobs, lastOut, causes, slow, faults>>

\* Faulty variant: without the index.
FilableAnyway(w) == run[w].pc \in {"insert", "orphan"}

\* externalId is unique: a second row under it is refused.
Filable(w) == run[w].pc \in {"insert", "orphan"} /\ ~Known(run[w].text)

insertReply(w) ==
    /\ Filable(w)
    /\ File(run[w].text, run[w].kase)
    /\ Goto(w, IF run[w].pc = "insert" THEN "mark" ELSE "done")
    /\ Writes

EffectOf(t) ==
    CASE Intent(t) = "BAJA" -> "dnc"
      [] Intent(t) = "PTP" -> "ptp"
      [] Intent(t) \in {"PAGO", "CONSULTA"} -> "lookup"
      [] OTHER -> "done"

\* Faulty variant: the phone is passed for the case.
markInboundFrom(w) ==
    /\ run[w].pc = "mark"
    /\ Touch(FromOf[run[w].text])
    /\ Goto(w, EffectOf(run[w].text))
    /\ Writes

markInbound(w) ==
    /\ run[w].pc = "mark"
    /\ Touch(run[w].kase)
    /\ Goto(w, EffectOf(run[w].text))
    /\ Writes

markDnc(w) == run[w].pc = "dnc" /\ Silence(w) /\ Goto(w, "lookup") /\ Writes

insertPtp(w) ==
    /\ run[w].pc = "ptp" /\ IsWhole(run[w].text)
    /\ Promise(run[w].text)
    /\ Goto(w, "lookup")
    /\ Writes

\* Faulty variant: the cooldown looks at nothing.
maybeAutoReplyAlways(w) == run[w].pc = "lookup" /\ Goto(w, "queue") /\ Reads

\* Nothing within two hours: but the text itself was just marked.
maybeAutoReply(w) ==
    /\ run[w].pc = "lookup"
    /\ Goto(w, IF run[w].kase \in recent THEN "done" ELSE "queue")
    /\ Reads

addAnswer(w) == run[w].pc = "queue" /\ Answer(run[w].text) /\ Goto(w, "done") /\ Writes

\* The table refuses a second row under an id, and a promise without its
\* amount or its date.
Refused(w) ==
    \/ run[w].pc \in {"insert", "orphan"} /\ ~Filable(w)
    \/ run[w].pc = "ptp" /\ ~IsWhole(run[w].text)

insertRefused(w) ==
    /\ Refused(w)
    /\ Cause(run[w].text) /\ Goto(w, "throw")
    /\ UNCHANGED <<jobs, lastOut, effects, slow, faults>>

\* An await fails; what it asked for was not done.
StepFails(w) ==
    /\ Fault
    /\ run[w].pc \notin {"idle", "done", "throw"}
    /\ Cause(run[w].text) /\ Goto(w, "throw")
    /\ UNCHANGED <<jobs, lastOut, effects, slow>>

\* An await fails; what it asked for was done.
AnswerLost(w) ==
    /\ Fault
    /\ \/ Filable(w) /\ File(run[w].text, run[w].kase)
       \/ run[w].pc = "mark" /\ Touch(run[w].kase)
       \/ run[w].pc = "dnc" /\ Silence(w)
       \/ run[w].pc = "ptp" /\ IsWhole(run[w].text) /\ Promise(run[w].text)
       \/ run[w].pc = "queue" /\ Answer(run[w].text)
    /\ Cause(run[w].text) /\ Goto(w, "throw")
    /\ UNCHANGED <<jobs, lastOut, slow>>
-----------------------------------------------------------------------------
(***************************************************************************)
(* The queue.                                                              *)
(***************************************************************************)
Settle(w, q) ==
    /\ jobs' = [jobs EXCEPT ![run[w].text] = Settled(@, w, q)]
    /\ run' = [run EXCEPT ![w] = NoRun]
    /\ UNCHANGED <<lastOut, effects, causes, slow, faults>>

Complete(w) == run[w].pc = "done" /\ Settle(w, Completed(jobs[run[w].text]))

Retry(w) ==
    run[w].pc = "throw" /\ Settle(w, Retried(jobs[run[w].text], AttemptsOf[run[w].text]))

Stall(t) ==
    /\ jobs' = [jobs EXCEPT ![t] = Stalled(@)]
    /\ Cause(t)
    /\ UNCHANGED <<run, lastOut, effects, slow>>

Orphan(t) == run[jobs[t].by].text # t

\* The process that had the job is gone.
StalledFound(t) ==
    jobs[t].state = "active" /\ Orphan(t) /\ Stall(t) /\ UNCHANGED faults

\* The lock is not renewed in time, though the processor goes on.
LockLost(t) == Fault /\ jobs[t].state = "active" /\ ~Orphan(t) /\ Stall(t)

Restart ==
    /\ Fault
    /\ \E w \in Workers : run[w].pc # "idle"
    /\ run' = [w \in Workers |-> NoRun]
    /\ UNCHANGED <<jobs, lastOut, effects, causes, slow>>
-----------------------------------------------------------------------------
Work(w) ==
    \/ findDuplicate(w) \/ lastMessage(w) \/ findContact(w) \/ findCase(w)
    \/ insertReply(w) \/ markInbound(w) \/ markDnc(w) \/ insertPtp(w) \/ insertRefused(w)
    \/ maybeAutoReply(w) \/ addAnswer(w) \/ Complete(w) \/ Retry(w)

Next ==
    \/ \E t \in Texts : addJob(t) \/ StalledFound(t) \/ LockLost(t)
    \/ \E c \in Contacts : HoursPass(c)
    \/ \E w \in Workers : \/ \E t \in Texts : Take(w, t)
                          \/ Work(w) \/ StepFails(w) \/ AnswerLost(w)
    \/ Restart

Spec == Init /\ [][Next]_vars
-----------------------------------------------------------------------------
\* Every variable holds a value of the program's types.
TypeOK ==
    /\ jobs \in [Texts -> Job]
    /\ run \in [Workers -> Run]
    /\ lastOut \in [Phones -> Contacts \cup {None}]
    /\ rows \in [Texts -> Seq(Contacts \cup {None})]
    /\ recent \subseteq Contacts /\ dnc \subseteq Contacts
    /\ ptps \in [Texts -> Nat] /\ answers \in [Texts -> Nat] /\ causes \in [Texts -> Nat]
    /\ slow \subseteq Texts
    /\ faults \in 0..MaxFaults

\* What a text with an id leaves behind, it leaves behind once: however often
\* the job runs, stalls or is doubled by the other webhook, no second row, no
\* second promise, no second answer.  Without an id, each second one has a
\* cause: an attempt that failed or a stall.
OnceOrForCause ==
    \A t \in Texts :
        /\ Len(rows[t]) <= 1 + causes[t] /\ ptps[t] <= 1 + causes[t] /\ answers[t] <= 1 + causes[t]
        /\ IdOf[t] # None =>
            /\ Len(rows[t]) <= 1 /\ ptps[t] <= 1 /\ answers[t] <= 1
            /\ ptps[t] + answers[t] > 0 => rows[t] # <<>>
            /\ rows[t] # <<>> => \A u \in Same(t) \ {t} : rows[u] = <<>>

FiledUnder(t) == {rows[t][i] : i \in 1..Len(rows[t])} \ {None}

\* Texts and effects belong together.  A job that is done has left its text in
\* the table, or another job of the same id has; a text that was filed under a
\* case takes effect, unless an attempt failed or stalled: then the row alone is
\* left, and keeps the next attempt away.  And nobody is silenced but by a text
\* of opt-out that was filed and came from the same phone, whatever case it was
\* filed under.
EffectOrCause ==
    /\ \A t \in Texts : jobs[t].state = "completed" =>
        /\ \E u \in Same(t) : rows[u] # <<>>
        /\ FiledUnder(t) # {} /\ causes[t] = 0 =>
            /\ Intent(t) = "PTP" => ptps[t] = 1
            /\ "baja" \in WordsOf[t] =>
                \A c \in Contacts : PhoneOf[c] = FromOf[t] => c \in dnc
    /\ \A c \in dnc : \E t \in Texts :
        "baja" \in WordsOf[t] /\ FromOf[t] = PhoneOf[c] /\ FiledUnder(t) # {}

\* The cooldown counts the text it is to answer: an answer goes out only if two
\* hours went by between the two.
AnswerNeedsDelay == \A t \in Texts : answers[t] > 0 => t \in slow
=============================================================================
