-------------------------- MODULE MessageSendProofs --------------------------
(***************************************************************************)
(* Proofs about MessageSend, for every set of messages and workers, every  *)
(* form and number of attempts, and any number of faults and rejections.   *)
(***************************************************************************)
EXTENDS MessageSend, FiniteSetTheorems, TLAPS

Logged(j) == \E r \in RowsOf(j) : r.ext # None

Running == {"direct", "waiting", "active", "completed", "failed"}

\* What a slot knows of its job at each await.
RunOk(w) ==
    LET j == run[w].job IN
    /\ run[w].pc = "idle" => run[w] = NoRun
    /\ run[w].pc # "idle" =>
        /\ j \in Jobs /\ job[j].state \in Running
        /\ FormOf[j] # "direct" => run[w].pc # "persist"
        /\ FormOf[j] # "direct" /\ run[w].pc \in {"send", "update", "contact", "fail"} =>
               run[w].row \in 1..Len(log[j])
        /\ run[w].pc \in {"update", "persist"} => run[w].ext \in 1..sent[j]
        /\ run[w].pc \in {"contact", "done"} => sent[j] > 0 /\ Logged(j)
        /\ run[w].pc = "fail" => rejected[j] + causes[j] > 0
        /\ FormOf[j] = "direct" =>
               /\ run[w].pc \in {"send", "persist"}
               /\ run[w].pc = "send" => sent[j] = 0
               /\ \A v \in Workers : run[v].job = j => v = w

\* How the state of a job goes with its form, its rows and its answers.
JobOk(j) ==
    /\ job[j].by # None => job[j].state = "active"
    /\ FormOf[j] = "direct" => job[j].state \in {"none", "direct", "gone"} /\ sent[j] <= 1
    /\ job[j].state = "direct" => FormOf[j] = "direct"
    /\ job[j].state = "row" =>
           FormOf[j] = "byId" /\ log[j] = <<[status |-> "QUEUED", ext |-> None]>>
    /\ job[j].state \in {"none", "row"} => sent[j] = 0
    /\ job[j].state \in {"none", "row", "direct"} => told[j] = None
    /\ job[j].state \in {"none", "direct"} => log[j] = <<>>
    /\ job[j].state \in {"waiting", "active", "completed", "failed"} /\ FormOf[j] = "byId" =>
           log[j] # <<>>
    /\ told[j] = "refused" => FormOf[j] = "direct" /\ job[j].state = "gone"

\* A callback reports on a message that was accepted, and one that has found a
\* row found it by the id that the provider gave.
CallbackOk(c) ==
    /\ c.id \in 1..sent[c.job] /\ <<c.id, c.status>> \in reported[c.job]
    /\ c.row # 0 => c.row \in 1..Len(log[c.job]) /\ log[c.job][c.row].ext # None

Shape ==
    /\ \A w \in Workers : RunOk(w)
    /\ \A j \in Jobs : JobOk(j)
    /\ \A c \in inbox : CallbackOk(c)

\* Slots in which a message may still go out.
InFlight(j) == {w \in Workers : run[w].job = j /\ run[w].pc \in {"load", "send"}}

\* So far as the queue has counted: every message of a job belongs to an attempt
\* that was made, to a stall, or to the attempt the queue still counts on.
CountOk(j) ==
    LET n == sent[j] + Cardinality(InFlight(j))
        counted == job[j].made + job[j].stalled IN
    FormOf[j] # "direct" =>
        /\ job[j].state \in {"none", "row", "gone"} => n = 0 /\ counted = 0
        /\ job[j].state = "waiting" => n <= counted
        /\ job[j].state \in {"active", "completed"} => n <= counted + 1
        /\ job[j].state # "failed" => job[j].made < AttemptsOf[j] /\ job[j].stalled <= 1
        /\ job[j].state = "failed" => n <= counted /\ counted <= AttemptsOf[j] + 1

\* Slots that may still send, or make their job be sent again.
Open(j) ==
    {w \in Workers : /\ run[w].job = j
                     /\ \/ run[w].pc \in {"load", "send"}
                        \/ run[w].pc \in {"fail", "throw"} /\ job[j].by = w}

\* Every message but one has its cause, those that may still go out included.
CauseOk(j) ==
    sent[j] + Cardinality(Open(j))
    + (IF job[j].state \in {"none", "row", "waiting"} THEN 1 ELSE 0) <= 1 + causes[j]

Counts == \A j \in Jobs : CountOk(j) /\ CauseOk(j)

IInv == TypeOK /\ Shape /\ LogIsTrue /\ AnswersAreTrue /\ Counts
-----------------------------------------------------------------------------
(* Sets of slots. *)

LEMMA Slots ==
  ASSUME NEW S \in SUBSET Workers
  PROVE  IsFiniteSet(S) /\ Cardinality(S) \in Nat
  BY WorkersAssumption, FS_Subset, FS_CardinalityType

LEMMA FewerSlots ==
  ASSUME NEW S \in SUBSET Workers, NEW T \in SUBSET S
  PROVE  Cardinality(T) <= Cardinality(S)
  BY Slots, FS_Subset

LEMMA OneSlotMore ==
  ASSUME NEW S \in SUBSET Workers, NEW T \in SUBSET Workers, NEW x \in Workers,
         T \subseteq S \cup {x}
  PROVE  Cardinality(T) <= Cardinality(S) + 1
<1>1. Cardinality(T) <= Cardinality(S \cup {x})
  BY FewerSlots
<1>2. Cardinality(S \cup {x}) <= Cardinality(S) + 1
  BY Slots, FS_AddElement
<1> QED
  BY <1>1, <1>2, Slots

LEMMA OneSlotLess ==
  ASSUME NEW S \in SUBSET Workers, NEW x \in S, NEW T \in SUBSET (S \ {x})
  PROVE  Cardinality(T) + 1 <= Cardinality(S)
<1>1. Cardinality(T) <= Cardinality(S \ {x})
  BY FewerSlots
<1>2. Cardinality(S \ {x}) = Cardinality(S) - 1
  BY Slots, FS_RemoveElement
<1> QED
  BY <1>1, <1>2, Slots
-----------------------------------------------------------------------------
(* What no step takes back. *)

Grow ==
    \A j \in Jobs :
        /\ sent[j] <= sent'[j] /\ causes[j] <= causes'[j] /\ rejected[j] <= rejected'[j]
        /\ reported[j] \subseteq reported'[j]
        /\ Len(log[j]) <= Len(log'[j])
        /\ \A i \in 1..Len(log[j]) : log[j][i].ext # None => log'[j][i].ext # None

LEMMA LoggedStays ==
  ASSUME IInv, Grow, TypeOK', NEW j \in Jobs, Logged(j)
  PROVE  Logged(j)'
<1>1. PICK i \in 1..Len(log[j]) : log[j][i].ext # None
  BY DEF Logged, RowsOf
<1>2. i \in 1..Len(log'[j]) /\ log'[j][i].ext # None
  BY <1>1 DEF Grow, IInv, TypeOK
<1> QED
  BY <1>2 DEF Logged, RowsOf

\* A slot that a step leaves alone still knows what it knew.
LEMMA RunStays ==
  ASSUME IInv, Grow, TypeOK', NEW w \in Workers, run'[w] = run[w],
         run[w].pc # "idle" =>
             /\ job'[run[w].job].state \in Running
             /\ FormOf[run[w].job] = "direct" =>
                    /\ sent'[run[w].job] = sent[run[w].job]
                    /\ \A v \in Workers : run'[v].job = run[w].job => run[v].job = run[w].job
  PROVE  RunOk(w)'
<1>1. CASE run[w].pc = "idle"
  BY <1>1 DEF IInv, Shape, RunOk
<1>2. CASE run[w].pc # "idle"
  <2> DEFINE j == run[w].job
  <2>1. RunOk(w) /\ j \in Jobs
    BY <1>2 DEF IInv, Shape, RunOk
  <2>2. run[w].pc \in {"contact", "done"} => Logged(j)'
    BY <1>2, <2>1, LoggedStays DEF RunOk
  <2>3. /\ sent[j] \in Nat /\ sent'[j] \in Nat /\ causes[j] \in Nat /\ causes'[j] \in Nat
        /\ rejected[j] \in Nat /\ rejected'[j] \in Nat /\ sent[j] <= sent'[j]
        /\ causes[j] <= causes'[j] /\ rejected[j] <= rejected'[j]
        /\ Len(log[j]) \in Nat /\ Len(log'[j]) \in Nat /\ Len(log[j]) <= Len(log'[j])
        /\ run[w] \in Run
    BY <2>1 DEF IInv, TypeOK, Grow
  <2>4. /\ FormOf[j] # "direct" /\ run[w].pc \in {"send", "update", "contact", "fail"} =>
               run[w].row \in 1..Len(log'[j])
        /\ run[w].pc \in {"update", "persist"} => run[w].ext \in 1..sent'[j]
        /\ run[w].pc \in {"contact", "done"} => sent'[j] > 0
        /\ run[w].pc = "fail" => rejected'[j] + causes'[j] > 0
    <3>1. run[w].row \in 1..Len(log[j]) => run[w].row \in 1..Len(log'[j])
      BY <2>3
    <3>2. run[w].ext \in 1..sent[j] => run[w].ext \in 1..sent'[j]
      BY <2>3
    <3>3. sent[j] > 0 => sent'[j] > 0
      BY <2>3
    <3>4. rejected[j] + causes[j] > 0 => rejected'[j] + causes'[j] > 0
      BY <2>3
    <3> QED
      BY <1>2, <2>1, <3>1, <3>2, <3>3, <3>4 DEF RunOk
  <2>5. FormOf[j] = "direct" =>
               /\ run[w].pc \in {"send", "persist"}
               /\ run[w].pc = "send" => sent'[j] = 0
               /\ \A v \in Workers : run'[v].job = j => v = w
    BY <1>2, <2>1 DEF RunOk
  <2>6. /\ job'[j].state \in Running
        /\ FormOf[j] # "direct" => run[w].pc # "persist"
    BY <1>2, <2>1 DEF RunOk
  <2> QED
    BY <1>2, <2>1, <2>2, <2>4, <2>5, <2>6 DEF RunOk
<1> QED
  BY <1>1, <1>2

LEMMA CallbackStays ==
  ASSUME IInv, Grow, TypeOK', NEW c \in inbox
  PROVE  CallbackOk(c)'
<1>1. CallbackOk(c) /\ c \in Callback /\ c.job \in Jobs
  BY DEF IInv, Shape, TypeOK, Callback
<1>2. /\ sent[c.job] \in Nat /\ sent'[c.job] \in Nat
      /\ Len(log[c.job]) \in Nat /\ Len(log'[c.job]) \in Nat
  BY SMTT(30), <1>1 DEF IInv, TypeOK
<1> QED
  BY SMTT(30), <1>1, <1>2 DEF Grow, CallbackOk

\* What the log must tell of one of its rows.
RowIsTrue(j, r) ==
    /\ r.ext # None => r.ext \in 1..sent[j]
    /\ r.status = "SENT" => r.ext # None
    /\ r.status = "DELIVERED" => Told(j, "delivered")
    /\ r.status = "READ" => Told(j, "read")
    /\ r.status = "FAILED" => rejected[j] + causes[j] > 0 \/ Told(j, "failed")

LEMMA ToldStays ==
  ASSUME IInv, Grow, TypeOK', NEW j \in Jobs, NEW s, Told(j, s)
  PROVE  Told(j, s)'
<1>1. PICK n \in 1..sent[j] : <<n, s>> \in reported[j]
  BY DEF Told
<1>2. n \in 1..sent'[j] /\ <<n, s>> \in reported'[j]
  BY <1>1 DEF Grow, IInv, TypeOK
<1> QED
  BY <1>2 DEF Told

LEMMA RowStays ==
  ASSUME IInv, Grow, TypeOK', NEW j \in Jobs, NEW r \in RowsOf(j)
  PROVE  RowIsTrue(j, r)'
<1>1. RowIsTrue(j, r)
  BY DEF IInv, LogIsTrue, RowIsTrue
<1>2. \A s : Told(j, s) => Told(j, s)'
  BY ToldStays
<1>3. /\ sent[j] \in Nat /\ sent'[j] \in Nat /\ causes[j] \in Nat /\ causes'[j] \in Nat
      /\ rejected[j] \in Nat /\ rejected'[j] \in Nat /\ sent[j] <= sent'[j]
      /\ causes[j] <= causes'[j] /\ rejected[j] <= rejected'[j]
  BY DEF IInv, TypeOK, Grow
<1> QED
  BY <1>1, <1>2, <1>3 DEF RowIsTrue

LEMMA RowsAreTrue ==
  ASSUME IInv, Grow, TypeOK',
         \A j \in Jobs : \A r \in RowsOf(j)' : r \in RowsOf(j) \/ RowIsTrue(j, r)'
  PROVE  LogIsTrue'
<1>1. \A j \in Jobs : \A r \in RowsOf(j)' : RowIsTrue(j, r)'
  BY RowStays
<1> QED
  BY <1>1 DEF LogIsTrue, RowIsTrue

\* A step that neither writes rows nor handles callbacks.
LEMMA LogStays ==
  ASSUME IInv, TypeOK', UNCHANGED <<log, reported, inbox>>,
         \A j \in Jobs : /\ sent[j] <= sent'[j] /\ causes[j] <= causes'[j]
                         /\ rejected[j] <= rejected'[j]
  PROVE  Grow /\ LogIsTrue' /\ \A c \in inbox' : CallbackOk(c)'
<1>1. Grow
  BY DEF Grow, IInv, TypeOK
<1>2. \A j \in Jobs : RowsOf(j)' = RowsOf(j)
  BY DEF RowsOf
<1> QED
  BY <1>1, <1>2, RowsAreTrue, CallbackStays
-----------------------------------------------------------------------------
(* Every step keeps the types. *)

LEMMA JobTypes ==
  ASSUME NEW q \in Job
  PROVE  /\ \A w \in Workers : Taken(q, w) \in Job /\ \A r \in Job : Settled(q, w, r) \in Job
         /\ Completed(q) \in Job
         /\ \A n \in Nat : Retried(q, n) \in Job
         /\ Stalled(q) \in Job
         /\ \A s \in JobState : [q EXCEPT !.state = s] \in Job
<1>1. (\A w \in Workers : Taken(q, w) \in Job) /\ Completed(q) \in Job
  BY DEF Taken, Completed, Job, JobState
<1>2. q.made + 1 \in Nat /\ q.stalled + 1 \in Nat
  BY DEF Job
<1>3. \A n \in Nat : Retried(q, n) \in Job
  <2> TAKE n \in Nat
  <2>1. \/ Retried(q, n) = [q EXCEPT !.made = q.made + 1, !.by = None, !.state = "waiting"]
        \/ Retried(q, n) = [q EXCEPT !.made = q.made + 1, !.by = None, !.state = "failed"]
    BY DEF Retried
  <2> QED
    BY <1>2, <2>1 DEF Job, JobState
<1>4. Stalled(q) \in Job
  <2>1. \/ Stalled(q) = [q EXCEPT !.stalled = q.stalled + 1, !.by = None, !.state = "waiting"]
        \/ Stalled(q) = [q EXCEPT !.stalled = q.stalled + 1, !.by = None, !.state = "failed"]
    BY DEF Stalled
  <2> QED
    BY <1>2, <2>1 DEF Job, JobState
<1>5. \A s \in JobState : [q EXCEPT !.state = s] \in Job
  BY DEF Job, JobState
<1>6. \A w \in Workers, r \in Job : Settled(q, w, r) \in Job
  BY DEF Settled
<1> QED
  BY <1>1, <1>3, <1>4, <1>5, <1>6

LEMMA JobWritten ==
  ASSUME IInv, NEW j \in Jobs, NEW q \in Job, job' = [job EXCEPT ![j] = q]
  PROVE  /\ job' \in [Jobs -> Job] /\ job'[j] = q
         /\ \A i \in Jobs \ {j} : job'[i] = job[i]
  BY DEF IInv, TypeOK

\* A producer moves a job to another state.
LEMMA StateWritten ==
  ASSUME IInv, NEW j \in Jobs, NEW s \in JobState, job' = [job EXCEPT ![j].state = s]
  PROVE  /\ job' \in [Jobs -> Job] /\ job'[j] = [job[j] EXCEPT !.state = s]
         /\ \A i \in Jobs \ {j} : job'[i] = job[i]
<1>1. job[j] \in Job
  BY DEF IInv, TypeOK
<1>2. [job[j] EXCEPT !.state = s] \in Job
  BY <1>1 DEF Job, JobState
<1>3. job' = [job EXCEPT ![j] = [job[j] EXCEPT !.state = s]]
  OBVIOUS
<1> QED
  BY <1>2, <1>3, JobWritten

LEMMA Busy ==
  ASSUME IInv, NEW w \in Workers
  PROVE  /\ run[w] \in Run
         /\ run[w].pc # "idle" => run[w].job \in Jobs
         /\ run[w].pc # "idle" => job[run[w].job] \in Job
         /\ run[w].pc # "idle" => log[run[w].job] \in Seq(Row)
         /\ run[w].pc # "idle" => sent[run[w].job] \in Nat
         /\ run[w].pc # "idle" => rejected[run[w].job] \in Nat
         /\ run[w].pc # "idle" => causes[run[w].job] \in Nat
         /\ NoRun \in Run
<1>1. run[w].pc # "idle" => run[w].job \in Jobs
  BY DEF IInv, Shape, RunOk
<1>2. run[w] \in Run
  BY DEF IInv, TypeOK
<1>3. NoRun \in Run
  BY DEF NoRun, Run, Pc
<1> QED
  BY <1>1, <1>2, <1>3 DEF IInv, TypeOK

LEMMA FreshRow == [status |-> "QUEUED", ext |-> None] \in Row
  BY DEF Row, MessageStatus

LEMMA ProducerTypes ==
  ASSUME IInv, NEW j \in Jobs,
         importRow(j) \/ addMessageSend(j) \/ importFails(j) \/ importAnswerLost(j) \/ addJob(j)
  PROVE  TypeOK'
<1>1. job' \in [Jobs -> Job]
  <2>1. PICK s \in JobState : job' = [job EXCEPT ![j].state = s]
    BY DEF JobState, importRow, addMessageSend, importFails, importAnswerLost, addJob
  <2> QED
    BY <2>1, StateWritten
<1>4. told' \in [Jobs -> Answer]
  BY DEF IInv, TypeOK, Answer, importRow, addMessageSend, importFails, importAnswerLost,
     addJob
<1>2. log' \in [Jobs -> Seq(Row)]
  <2>1. Saved(j) \in [Jobs -> Seq(Row)]
    BY FreshRow DEF IInv, TypeOK, Saved
  <2> QED
    BY <2>1 DEF IInv, TypeOK, importRow, addMessageSend, importFails, importAnswerLost, addJob
<1>3. mix' = mix /\ mix \in Mixes /\ faults' \in 0..mix.faults
  BY BoundsAssumption DEF IInv, TypeOK, Fault, importRow, addMessageSend, importFails,
     importAnswerLost, addJob
<1> QED
  BY <1>1, <1>2, <1>3, <1>4 DEF IInv, TypeOK, importRow, addMessageSend, importFails,
     importAnswerLost, addJob, provider

LEMMA FaultType ==
  ASSUME IInv, Fault \/ UNCHANGED faults, mix' = mix
  PROVE  mix' \in Mixes /\ faults' \in 0..mix'.faults
  BY BoundsAssumption DEF IInv, TypeOK, Fault

LEMMA CountedUp ==
  ASSUME NEW f \in [Jobs -> Nat], NEW j \in Jobs
  PROVE  /\ [f EXCEPT ![j] = @ + 1] \in [Jobs -> Nat]
         /\ [f EXCEPT ![j] = @ + 1][j] = f[j] + 1
         /\ \A i \in Jobs : f[i] <= [f EXCEPT ![j] = @ + 1][i]
         /\ \A i \in Jobs \ {j} : f[i] = [f EXCEPT ![j] = @ + 1][i]
  OBVIOUS

LEMMA CauseType ==
  ASSUME IInv, NEW j \in Jobs, Cause(j)
  PROVE  /\ causes' \in [Jobs -> Nat] /\ causes'[j] = causes[j] + 1
         /\ \A i \in Jobs : causes[i] <= causes'[i]
  BY DEF IInv, TypeOK, Cause

LEMMA StartTypes ==
  ASSUME IInv, NEW j \in Jobs, NEW w \in Workers, sendDirect(w, j) \/ Take(w, j)
  PROVE  TypeOK'
<1>1. job' \in [Jobs -> Job]
  <2>1. CASE sendDirect(w, j)
    BY <2>1, StateWritten DEF JobState, sendDirect
  <2>2. CASE Take(w, j)
    <3>1. job[j] \in Job
      BY DEF IInv, TypeOK
    <3> QED
      BY <2>2, <3>1, JobTypes, JobWritten DEF Take
  <2> QED
    BY <2>1, <2>2
<1>2. run' \in [Workers -> Run]
  <2>1. /\ [NoRun EXCEPT !.pc = "send", !.job = j] \in Run
        /\ [NoRun EXCEPT !.pc = "load", !.job = j] \in Run
    BY DEF NoRun, Run, Pc
  <2> QED
    BY <2>1 DEF IInv, TypeOK, sendDirect, Take
<1> QED
  BY <1>1, <1>2 DEF IInv, TypeOK, sendDirect, Take, provider

\* A slot that goes on to another await.
LEMMA PcTypes ==
  ASSUME IInv, NEW w \in Workers, NEW p \in Pc, NEW i \in Nat, NEW e \in Nat
  PROVE  /\ [run EXCEPT ![w].pc = p] \in [Workers -> Run]
         /\ [run EXCEPT ![w].pc = p, ![w].row = i] \in [Workers -> Run]
         /\ [run EXCEPT ![w].ext = e, ![w].pc = p] \in [Workers -> Run]
         /\ [run EXCEPT ![w] = NoRun] \in [Workers -> Run]
  BY ZenonT(30), Busy DEF IInv, TypeOK, Run

LEMMA RowWritten ==
  ASSUME NEW s \in Seq(Row), NEW i \in 1..Len(s), NEW r \in Row
  PROVE  /\ [s EXCEPT ![i] = r] \in Seq(Row)
         /\ Len([s EXCEPT ![i] = r]) = Len(s)
         /\ \A k \in 1..Len(s) : [s EXCEPT ![i] = r][k] = IF k = i THEN r ELSE s[k]
  OBVIOUS

\* The steps of a slot that neither write rows nor decide about the job.
LEMMA MoveTypes ==
  ASSUME IInv, NEW w \in Workers,
         \/ loadFails(w) \/ send(w) \/ sendRejected(w) \/ sendTimesOut(w)
         \/ updateFails(w) \/ markContacted(w) \/ contactFails(w) \/ failRowFails(w)
  PROVE  TypeOK'
<1> DEFINE j == run[w].job
<1> USE DEF provider
<1>1. /\ run[w].pc # "idle" /\ j \in Jobs /\ run[w] \in Run /\ sent[j] \in Nat
      /\ rejected[j] \in Nat /\ mix' = mix /\ (Fault \/ UNCHANGED faults)
  BY Busy DEF loadFails, send, sendRejected, sendTimesOut, updateFails, markContacted,
     contactFails, failRowFails
<1>2. mix' \in Mixes /\ faults' \in 0..mix'.faults
  BY <1>1, FaultType
<1>3. run' \in [Workers -> Run]
  <2>0. \A p \in Pc : [run EXCEPT ![w].pc = p] \in [Workers -> Run]
    BY PcTypes
  <2>1. SendThrows(w) => run' \in [Workers -> Run]
    <3>1. SendThrows(w) => \/ run' = [run EXCEPT ![w] = NoRun]
                           \/ run' = [run EXCEPT ![w].pc = "fail"]
      BY DEF SendThrows, Close
    <3>2. [run EXCEPT ![w] = NoRun] \in [Workers -> Run] /\ "fail" \in Pc
      BY Busy DEF IInv, TypeOK, Pc
    <3> QED
      BY <2>0, <3>1, <3>2
  <2>2. send(w) => run' \in [Workers -> Run]
    <3> SUFFICES ASSUME send(w) PROVE run' \in [Workers -> Run]
      OBVIOUS
    <3>1. sent'[j] = sent[j] + 1
      BY <1>1 DEF IInv, TypeOK, send
    <3>2. sent'[j] \in Nat
      BY <1>1, <3>1
    <3>3. PICK p \in Pc : run' = [run EXCEPT ![w].ext = sent'[j], ![w].pc = p]
      BY DEF send, Pc
    <3> QED
      BY <3>2, <3>3, PcTypes
  <2>3. loadFails(w) \/ updateFails(w) \/ markContacted(w) \/ contactFails(w) \/ failRowFails(w)
        => \E p \in Pc : run' = [run EXCEPT ![w].pc = p]
    BY DEF loadFails, updateFails, markContacted, contactFails, failRowFails, Pc
  <2> QED
    BY <2>0, <2>1, <2>2, <2>3 DEF sendRejected, sendTimesOut
<1>4. job' \in [Jobs -> Job] /\ told' \in [Jobs -> Answer]
  <2>1. SendThrows(w) => job' \in [Jobs -> Job] /\ told' \in [Jobs -> Answer]
    <3>1. Close(w, "refused") => job' \in [Jobs -> Job]
      BY <1>1, StateWritten DEF Close, JobState
    <3>2. Close(w, "refused") => told' \in [Jobs -> Answer]
      BY <1>1 DEF IInv, TypeOK, Close, Answer
    <3> QED
      BY <3>1, <3>2 DEF SendThrows, IInv, TypeOK
  <2> QED
    BY <2>1 DEF IInv, TypeOK, loadFails, send, sendRejected, sendTimesOut, updateFails,
       markContacted, contactFails, failRowFails
<1>5. /\ sent' \in [Jobs -> Nat] /\ rejected' \in [Jobs -> Nat]
      /\ contacted' \subseteq Jobs
  <2>1. /\ UNCHANGED sent \/ sent' = [sent EXCEPT ![j] = @ + 1]
        /\ UNCHANGED rejected \/ rejected' = [rejected EXCEPT ![j] = @ + 1]
        /\ UNCHANGED contacted \/ contacted' = contacted \cup {j}
    <3>1. CASE send(w) \/ sendTimesOut(w)
      BY <3>1 DEF send, sendTimesOut
    <3>2. CASE sendRejected(w) \/ markContacted(w)
      BY <3>2 DEF sendRejected, markContacted
    <3>3. CASE loadFails(w) \/ updateFails(w) \/ contactFails(w) \/ failRowFails(w)
      BY <3>3 DEF loadFails, updateFails, contactFails, failRowFails
    <3> QED
      BY <3>1, <3>2, <3>3
  <2>2. sent \in [Jobs -> Nat] /\ rejected \in [Jobs -> Nat]
    BY DEF IInv, TypeOK
  <2>3. sent' \in [Jobs -> Nat] /\ rejected' \in [Jobs -> Nat]
    <3>1. [sent EXCEPT ![j] = @ + 1] \in [Jobs -> Nat]
      BY <1>1, <2>2, CountedUp
    <3>2. [rejected EXCEPT ![j] = @ + 1] \in [Jobs -> Nat]
      BY <1>1, <2>2, CountedUp
    <3> QED
      BY <2>1, <2>2, <3>1, <3>2
  <2>4. contacted' \subseteq Jobs
    BY <1>1, <2>1 DEF IInv, TypeOK
  <2> QED
    BY <2>3, <2>4
<1>6. causes' \in [Jobs -> Nat]
  <2>1. Cause(j) \/ UNCHANGED causes
    BY DEF loadFails, send, sendRejected, sendTimesOut,
       updateFails, markContacted, contactFails, failRowFails
  <2> QED
    BY <1>1, <2>1, CauseType DEF IInv, TypeOK
<1>7. UNCHANGED <<log, reported, inbox>>
  BY DEF loadFails, send, sendRejected, sendTimesOut, updateFails, markContacted,
     contactFails, failRowFails
<1> QED
  BY <1>2, <1>3, <1>4, <1>5, <1>6, <1>7 DEF IInv, TypeOK

\* The steps that write a row.
LEMMA WriteTypes ==
  ASSUME IInv, NEW w \in Workers,
         load(w) \/ updateRow(w) \/ failRow(w) \/ persist(w) \/ persistFails(w)
  PROVE  TypeOK'
<1> DEFINE j == run[w].job
<1> USE DEF provider
<1>1. /\ run[w].pc # "idle" /\ j \in Jobs /\ run[w] \in Run /\ log[j] \in Seq(Row)
      /\ mix' = mix /\ (Fault \/ UNCHANGED faults)
  BY Busy DEF load, updateRow, failRow, persist, persistFails
<1>2. mix' \in Mixes /\ faults' \in 0..mix'.faults
  BY <1>1, FaultType
<1>3. log' \in [Jobs -> Seq(Row)]
  <2>1. CASE load(w)
    <3>1. Append(log[j], [status |-> "QUEUED", ext |-> None]) \in Seq(Row)
      BY <1>1, FreshRow
    <3> QED
      BY <2>1, <3>1 DEF IInv, TypeOK, load
  <2>2. CASE updateRow(w) \/ failRow(w)
    <3>1. run[w].row \in 1..Len(log[j])
      BY <2>2 DEF IInv, Shape, RunOk, updateRow, failRow
    <3>2. CASE updateRow(w)
      <4>1. [status |-> "SENT", ext |-> run[w].ext] \in Row
        BY <1>1 DEF Run, Row, MessageStatus
      <4>2. [log[j] EXCEPT ![run[w].row] = [status |-> "SENT", ext |-> run[w].ext]] \in Seq(Row)
        BY <1>1, <3>1, <4>1, RowWritten
      <4> QED
        BY <3>2, <4>2 DEF IInv, TypeOK, updateRow
    <3>3. CASE failRow(w)
      <4>1. log[j][run[w].row] \in Row
        BY <1>1, <3>1
      <4>2. [log[j][run[w].row] EXCEPT !.status = "FAILED"] \in Row
        BY <4>1 DEF Row, MessageStatus
      <4>3. [log[j] EXCEPT ![run[w].row] = [log[j][run[w].row] EXCEPT !.status = "FAILED"]]
            \in Seq(Row)
        BY <1>1, <3>1, <4>2, RowWritten
      <4> QED
        BY <3>3, <4>3 DEF IInv, TypeOK, failRow
    <3> QED
      BY <2>2, <3>2, <3>3
  <2>3. CASE persist(w) \/ persistFails(w)
    <3>1. [status |-> "SENT", ext |-> run[w].ext] \in Row
      BY <1>1 DEF Run, Row, MessageStatus
    <3>2. SentRow(w) \in [Jobs -> Seq(Row)]
      BY <1>1, <3>1 DEF IInv, TypeOK, SentRow
    <3> QED
      BY <2>3, <3>2 DEF IInv, TypeOK, persist, persistFails
  <2> QED
    BY <2>1, <2>2, <2>3
<1>4. run' \in [Workers -> Run]
  <2>1. load(w) => Len(log'[j]) \in Nat
    BY <1>1, <1>3
  <2>2. /\ \A p \in Pc : [run EXCEPT ![w].pc = p] \in [Workers -> Run]
        /\ \A i \in Nat : [run EXCEPT ![w].pc = "send", ![w].row = i] \in [Workers -> Run]
        /\ [run EXCEPT ![w] = NoRun] \in [Workers -> Run]
    BY ZenonT(30), Busy DEF IInv, TypeOK, Run, Pc
  <2>3. load(w) => run' \in [Workers -> Run]
    BY ZenonT(30), <2>1, <2>2 DEF load
  <2>4. updateRow(w) \/ failRow(w) => \E p \in Pc : run' = [run EXCEPT ![w].pc = p]
    BY DEF updateRow, failRow, Pc
  <2>5. persist(w) \/ persistFails(w) => run' = [run EXCEPT ![w] = NoRun]
    BY DEF persist, persistFails, Close
  <2> QED
    BY <2>2, <2>3, <2>4, <2>5
<1>5. \A a \in Answer : Close(w, a) => job' \in [Jobs -> Job] /\ told' \in [Jobs -> Answer]
  <2> TAKE a \in Answer
  <2>1. Close(w, a) => job' \in [Jobs -> Job]
    BY <1>1, StateWritten DEF Close, JobState
  <2>2. Close(w, a) => told' \in [Jobs -> Answer]
    BY <1>1 DEF IInv, TypeOK, Close
  <2> QED
    BY <2>1, <2>2
<1>6. job' \in [Jobs -> Job] /\ told' \in [Jobs -> Answer]
  BY <1>5 DEF IInv, TypeOK, Answer, load, updateRow, failRow, persist, persistFails
<1>7. causes' \in [Jobs -> Nat]
  BY <1>1, CauseType DEF IInv, TypeOK, load, updateRow, failRow, persist, persistFails
<1> QED
  BY <1>2, <1>3, <1>4, <1>6, <1>7 DEF IInv, TypeOK, load, updateRow, failRow, persist, persistFails

\* What BullMQ does to a job.
LEMMA QueueTypes ==
  ASSUME IInv,
         \/ \E w \in Workers : Complete(w) \/ Retry(w)
         \/ \E j \in Jobs : StalledFound(j) \/ LockLost(j)
         \/ Restart
  PROVE  TypeOK'
<1> USE DEF provider
<1>1. CASE \E w \in Workers : Complete(w) \/ Retry(w)
  <2> PICK w \in Workers : Complete(w) \/ Retry(w)
    BY <1>1
  <2> DEFINE j == run[w].job
  <2>1. run[w].pc # "idle" /\ j \in Jobs /\ job[j] \in Job
    BY Busy DEF Complete, Retry
  <2>2. AttemptsOf[j] \in Nat
    BY <2>1, AttemptsAssumption
  <2>3. PICK q \in Job : Settle(w, q)
    BY <2>1, <2>2, JobTypes DEF Complete, Retry
  <2>4. job' \in [Jobs -> Job]
    BY <2>1, <2>3, JobTypes, JobWritten DEF Settle
  <2>5. run' \in [Workers -> Run]
    BY <2>3, Busy DEF IInv, TypeOK, Settle
  <2> QED
    BY <2>3, <2>4, <2>5 DEF IInv, TypeOK, Settle
<1>2. CASE \E j \in Jobs : StalledFound(j) \/ LockLost(j)
  <2> PICK j \in Jobs : StalledFound(j) \/ LockLost(j)
    BY <1>2
  <2>1. Stall(j) /\ (Fault \/ UNCHANGED faults)
    BY DEF StalledFound, LockLost
  <2>2. job[j] \in Job
    BY DEF IInv, TypeOK
  <2>3. job' \in [Jobs -> Job]
    <3>1. Stalled(job[j]) \in Job
      BY <2>2, JobTypes
    <3> QED
      BY <2>1, <3>1, JobWritten DEF Stall
  <2>4. causes' \in [Jobs -> Nat]
    BY <2>1, CauseType DEF Stall
  <2>5. mix' \in Mixes /\ faults' \in 0..mix'.faults
    BY <2>1, FaultType DEF Stall
  <2> QED
    BY <2>1, <2>3, <2>4, <2>5 DEF IInv, TypeOK, Stall
<1>3. CASE Restart
  <2>1. run' \in [Workers -> Run]
    BY <1>3 DEF Restart, NoRun, Run, Pc
  <2>2. job' \in [Jobs -> Job]
    <3>1. \A j \in Jobs : job[j] \in Job /\ [job[j] EXCEPT !.state = "gone"] \in Job
      BY JobTypes DEF IInv, TypeOK, JobState
    <3> QED
      BY <1>3, <3>1 DEF Restart
  <2>3. mix' \in Mixes /\ faults' \in 0..mix'.faults
    BY <1>3, FaultType DEF Restart
  <2> QED
    BY <1>3, <2>1, <2>2, <2>3 DEF IInv, TypeOK, Restart
<1> QED
  BY <1>1, <1>2, <1>3

LEMMA CallbackTypes ==
  ASSUME IInv,
         \/ \E j \in Jobs : \E n \in 1..sent[j], s \in Reports : ProviderReports(j, n, s)
         \/ \E c \in inbox : callbackFind(c) \/ callbackWrite(c)
  PROVE  TypeOK'
<1> USE DEF provider
<1>1. CASE \E j \in Jobs : \E n \in 1..sent[j], s \in Reports : ProviderReports(j, n, s)
  <2> PICK j \in Jobs : \E n \in 1..sent[j], s \in Reports : ProviderReports(j, n, s)
    BY <1>1
  <2>1. sent[j] \in Nat
    BY DEF IInv, TypeOK
  <2> PICK n \in 1..sent[j], s \in Reports : ProviderReports(j, n, s)
    OBVIOUS
  <2>2. /\ <<n, s>> \in Nat \X Reports
        /\ [job |-> j, id |-> n, status |-> s, row |-> 0] \in Callback
    BY <2>1 DEF Callback
  <2> QED
    BY <2>2 DEF IInv, TypeOK, ProviderReports
<1>2. CASE \E c \in inbox : callbackFind(c)
  <2> PICK c \in inbox : callbackFind(c)
    BY <1>2
  <2>1. c \in Callback /\ log[c.job] \in Seq(Row)
    BY DEF IInv, TypeOK, Callback
  <2>2. \A i \in findByExternalId(c) : [c EXCEPT !.row = i] \in Callback
    BY <2>1 DEF findByExternalId, Callback
  <2> QED
    BY <2>2 DEF IInv, TypeOK, callbackFind
<1>3. CASE \E c \in inbox : callbackWrite(c)
  <2> PICK c \in inbox : callbackWrite(c)
    BY <1>3
  <2>1. c \in Callback /\ c.job \in Jobs /\ log[c.job] \in Seq(Row) /\ CallbackOk(c)
    BY DEF IInv, Shape, TypeOK, Callback
  <2>2. c.row \in 1..Len(log[c.job])
    BY <2>1 DEF CallbackOk, callbackWrite
  <2>3. [log[c.job][c.row] EXCEPT !.status = nextStatus(c.status)] \in Row
    <3>1. log[c.job][c.row] \in Row
      BY <2>1, <2>2
    <3>2. nextStatus(c.status) \in MessageStatus
      BY DEF nextStatus, MessageStatus
    <3> QED
      BY <3>1, <3>2 DEF Row
  <2>4. [log[c.job] EXCEPT ![c.row] =
            [log[c.job][c.row] EXCEPT !.status = nextStatus(c.status)]] \in Seq(Row)
    BY <2>1, <2>2, <2>3, RowWritten
  <2>5. log' \in [Jobs -> Seq(Row)]
    BY <2>1, <2>4 DEF IInv, TypeOK, callbackWrite
  <2> QED
    BY <2>5 DEF IInv, TypeOK, callbackWrite
<1> QED
  BY <1>1, <1>2, <1>3

LEMMA TypeStep ==
  ASSUME IInv, [Next]_vars
  PROVE  TypeOK'
<1>1. CASE Next
  <2>1. \A j \in Jobs :
          importRow(j) \/ addMessageSend(j) \/ addJob(j) \/ importFails(j) \/ importAnswerLost(j)
          => TypeOK'
    BY ProducerTypes
  <2>2. \A j \in Jobs, w \in Workers : sendDirect(w, j) \/ Take(w, j) => TypeOK'
    BY StartTypes
  <2>3. \A w \in Workers :
          \/ load(w) \/ updateRow(w) \/ failRow(w) \/ persist(w) \/ persistFails(w)
          => TypeOK'
    BY WriteTypes
  <2>4. \A w \in Workers :
          \/ loadFails(w) \/ send(w) \/ sendRejected(w) \/ sendTimesOut(w)
          \/ updateFails(w) \/ markContacted(w) \/ contactFails(w) \/ failRowFails(w)
          => TypeOK'
    BY MoveTypes
  <2>5. \A w \in Workers : Work(w) \/ WorkFails(w) => TypeOK'
    BY <2>3, <2>4, QueueTypes DEF Work, WorkFails
  <2> QED
    BY <1>1, <2>1, <2>2, <2>5, QueueTypes, CallbackTypes DEF Next
<1>2. CASE UNCHANGED vars
  BY <1>2 DEF IInv, TypeOK, vars, provider
<1> QED
  BY <1>1, <1>2
-----------------------------------------------------------------------------
(* Nothing is taken back. *)

LEMMA CountersGrow ==
  ASSUME IInv, [Next]_vars, NEW j \in Jobs
  PROVE  /\ sent[j] <= sent'[j] /\ causes[j] <= causes'[j] /\ rejected[j] <= rejected'[j]
         /\ reported[j] \subseteq reported'[j]
<1> USE DEF provider
<1>1. sent[j] \in Nat /\ causes[j] \in Nat /\ rejected[j] \in Nat
  BY DEF IInv, TypeOK
<1>2. ASSUME NEW w \in Workers, Work(w) \/ WorkFails(w)
      PROVE  /\ UNCHANGED sent \/ sent' = [sent EXCEPT ![run[w].job] = @ + 1]
             /\ UNCHANGED rejected \/ rejected' = [rejected EXCEPT ![run[w].job] = @ + 1]
             /\ UNCHANGED causes \/ Cause(run[w].job)
             /\ UNCHANGED reported /\ run[w].job \in Jobs
  <2>0. run[w].job \in Jobs
    BY <1>2, Busy DEF Work, WorkFails, load, send, updateRow, markContacted, failRow, persist,
       Complete, Retry, loadFails, sendRejected, sendTimesOut, updateFails, contactFails,
       failRowFails, persistFails
  <2>1. CASE load(w) \/ updateRow(w) \/ failRow(w) \/ persist(w) \/ markContacted(w)
    BY <2>0, <2>1 DEF load, updateRow, failRow, persist, markContacted
  <2>2. CASE Complete(w) \/ Retry(w)
    BY <2>0, <2>2 DEF Complete, Retry, Settle
  <2>3. CASE send(w) \/ sendTimesOut(w) \/ sendRejected(w)
    BY <2>0, <2>3 DEF send, sendTimesOut, sendRejected
  <2>4. CASE loadFails(w) \/ updateFails(w) \/ contactFails(w) \/ failRowFails(w)
             \/ persistFails(w)
    BY <2>0, <2>4 DEF loadFails, updateFails, contactFails, failRowFails, persistFails
  <2> QED
    BY <1>2, <2>1, <2>2, <2>3, <2>4 DEF Work, WorkFails
<1>3. ASSUME NEW w \in Workers, Work(w) \/ WorkFails(w)
      PROVE  /\ sent[j] <= sent'[j] /\ causes[j] <= causes'[j] /\ rejected[j] <= rejected'[j]
             /\ reported[j] \subseteq reported'[j]
  <2>1. /\ sent \in [Jobs -> Nat] /\ rejected \in [Jobs -> Nat] /\ run[w].job \in Jobs
        /\ UNCHANGED causes \/ Cause(run[w].job)
        /\ UNCHANGED reported
    BY <1>2, <1>3 DEF IInv, TypeOK
  <2>2. causes[j] <= causes'[j]
    BY <1>1, <2>1, CauseType
  <2>3. sent[j] <= sent'[j]
    BY <1>1, <1>2, <1>3, <2>1, CountedUp
  <2>4. rejected[j] <= rejected'[j]
    BY <1>1, <1>2, <1>3, <2>1, CountedUp
  <2> QED
    BY <2>1, <2>2, <2>3, <2>4
<1>4. ASSUME NEW i \in Jobs,
             \/ importRow(i) \/ addMessageSend(i) \/ addJob(i) \/ importFails(i)
             \/ importAnswerLost(i) \/ \E w \in Workers : sendDirect(w, i) \/ Take(w, i)
      PROVE  UNCHANGED <<sent, causes, rejected, reported>>
  BY <1>4 DEF importRow, addMessageSend, addJob, importFails, importAnswerLost, sendDirect, Take
<1>5. ASSUME NEW i \in Jobs, StalledFound(i) \/ LockLost(i)
      PROVE  UNCHANGED <<sent, rejected, reported>> /\ causes[j] <= causes'[j]
  BY <1>1, <1>5, CauseType DEF StalledFound, LockLost, Stall
<1>6. ASSUME NEW i \in Jobs, NEW n \in 1..sent[i], NEW s \in Reports, ProviderReports(i, n, s)
      PROVE  UNCHANGED <<sent, causes, rejected>> /\ reported[j] \subseteq reported'[j]
  BY <1>6 DEF ProviderReports, IInv, TypeOK
<1>7. ASSUME NEW c \in inbox, callbackFind(c) \/ callbackWrite(c)
      PROVE  UNCHANGED <<sent, causes, rejected, reported>>
  BY <1>7 DEF callbackFind, callbackWrite
<1>8. ASSUME Restart \/ UNCHANGED vars
      PROVE  UNCHANGED <<sent, causes, rejected, reported>>
  BY <1>8 DEF Restart, vars
<1> QED
  BY <1>1, <1>3, <1>4, <1>5, <1>6, <1>7, <1>8 DEF Next

\* How a step changes the rows of j: one is appended, or one is written without
\* losing its id, or a direct request gets its only row.
LEMMA LogChange ==
  ASSUME IInv, [Next]_vars, NEW j \in Jobs
  PROVE  \/ log'[j] = log[j]
         \/ log'[j] = Append(log[j], [status |-> "QUEUED", ext |-> None])
         \/ \E i \in 1..Len(log[j]), r \in Row :
               /\ log'[j] = [log[j] EXCEPT ![i] = r]
               /\ log[j][i].ext # None => r.ext # None
         \/ log[j] = <<>>
<1> USE DEF provider
<1>0. log \in [Jobs -> Seq(Row)] /\ JobOk(j)
  BY DEF IInv, TypeOK, Shape
<1>1. ASSUME NEW i \in Jobs, importRow(i) \/ importFails(i)
      PROVE  log'[j] = log[j] \/ log[j] = <<>>
  <2>1. CASE j = i
    BY <1>0, <1>1, <2>1 DEF importRow, importFails, Asked, JobOk, Saved
  <2>2. CASE j # i
    BY <1>0, <1>1, <2>2 DEF importRow, importFails, Saved
  <2> QED
    BY <2>1, <2>2
<1>2. ASSUME NEW w \in Workers, load(w)
      PROVE  log'[j] = log[j] \/ log'[j] = Append(log[j], [status |-> "QUEUED", ext |-> None])
  BY <1>0, <1>2 DEF load
<1>3. ASSUME NEW w \in Workers, updateRow(w) \/ failRow(w)
      PROVE  \/ log'[j] = log[j]
             \/ \E i \in 1..Len(log[j]), r \in Row :
                  /\ log'[j] = [log[j] EXCEPT ![i] = r]
                  /\ log[j][i].ext # None => r.ext # None
  <2>1. CASE run[w].job # j
    BY <1>0, <1>3, <2>1 DEF updateRow, failRow
  <2>2. CASE run[w].job = j
    <3>1. run[w].row \in 1..Len(log[j]) /\ log[j][run[w].row] \in Row
      BY <1>0, <1>3, <2>2 DEF IInv, Shape, RunOk, updateRow, failRow
    <3>2. CASE updateRow(w)
      <4>1. run[w].ext \in Nat
        BY <3>2, <2>2, <1>0 DEF updateRow, IInv, Shape, RunOk, TypeOK
      <4>2. run[w].ext # None
        BY <4>1, NoneAssumption
      <4>3. [status |-> "SENT", ext |-> run[w].ext] \in Row
        BY <4>1 DEF Row, MessageStatus
      <4>4. log'[j] = [log[j] EXCEPT ![run[w].row] = [status |-> "SENT", ext |-> run[w].ext]]
        BY <1>0, <2>2, <3>2 DEF updateRow
      <4> QED
        BY <3>1, <4>2, <4>3, <4>4
    <3>3. CASE failRow(w)
      <4> DEFINE r == [log[j][run[w].row] EXCEPT !.status = "FAILED"]
      <4>1. r \in Row /\ r.ext = log[j][run[w].row].ext
        BY <3>1 DEF Row, MessageStatus
      <4>2. log'[j] = [log[j] EXCEPT ![run[w].row] = r]
        BY <1>0, <2>2, <3>3 DEF failRow
      <4> HIDE DEF r
      <4> QED
        BY <3>1, <4>1, <4>2
    <3> QED
      BY <1>3, <3>2, <3>3
  <2> QED
    BY <2>1, <2>2
<1>4. ASSUME NEW w \in Workers, persist(w) \/ persistFails(w)
      PROVE  log'[j] = log[j] \/ log[j] = <<>>
  <2>1. CASE run[w].job # j
    BY <1>0, <1>4, <2>1 DEF persist, persistFails, SentRow
  <2>2. CASE run[w].job = j
    <3>1. job[j].state = "direct"
      BY <1>0, <1>4, <2>2 DEF IInv, Shape, RunOk, JobOk, Running, persist, persistFails
    <3> QED
      BY <1>0, <3>1 DEF JobOk
  <2> QED
    BY <2>1, <2>2
<1>5. ASSUME NEW c \in inbox, callbackWrite(c)
      PROVE  \/ log'[j] = log[j]
             \/ \E i \in 1..Len(log[j]), r \in Row :
                  /\ log'[j] = [log[j] EXCEPT ![i] = r]
                  /\ log[j][i].ext # None => r.ext # None
  <2>1. CASE c.job # j
    BY <1>0, <1>5, <2>1 DEF callbackWrite
  <2>2. CASE c.job = j
    <3> DEFINE r == [log[j][c.row] EXCEPT !.status = nextStatus(c.status)]
    <3>0. CallbackOk(c) /\ c.row # 0
      BY <1>5 DEF IInv, Shape, callbackWrite
    <3>1. c.row \in 1..Len(log[j]) /\ log[j][c.row] \in Row
      BY <1>0, <2>2, <3>0 DEF CallbackOk
    <3>2. nextStatus(c.status) \in MessageStatus
      BY DEF nextStatus, MessageStatus
    <3>3. r \in Row /\ r.ext = log[j][c.row].ext
      BY <3>1, <3>2 DEF Row
    <3>4. log'[j] = [log[j] EXCEPT ![c.row] = r]
      BY <1>0, <1>5, <2>2 DEF callbackWrite
    <3> HIDE DEF r
    <3> QED
      BY <3>1, <3>3, <3>4
  <2> QED
    BY <2>1, <2>2
<1>6. ASSUME NEW i \in Jobs,
             \/ addMessageSend(i) \/ addJob(i) \/ importAnswerLost(i)
             \/ StalledFound(i) \/ LockLost(i)
             \/ \E w \in Workers : sendDirect(w, i) \/ Take(w, i)
             \/ \E n \in 1..sent[i], s \in Reports : ProviderReports(i, n, s)
      PROVE  UNCHANGED log
  BY <1>6 DEF addMessageSend, addJob, importAnswerLost, StalledFound, LockLost, Stall,
     sendDirect, Take, ProviderReports
<1>7. ASSUME NEW w \in Workers,
             \/ send(w) \/ markContacted(w) \/ Complete(w) \/ Retry(w) \/ loadFails(w)
             \/ sendRejected(w) \/ sendTimesOut(w) \/ updateFails(w) \/ contactFails(w)
             \/ failRowFails(w)
      PROVE  UNCHANGED log
  BY <1>7 DEF send, markContacted, Complete, Retry, Settle, loadFails, sendRejected,
     sendTimesOut, updateFails, contactFails, failRowFails
<1>8. ASSUME Restart \/ UNCHANGED vars \/ \E c \in inbox : callbackFind(c)
      PROVE  UNCHANGED log
  BY <1>8 DEF Restart, vars, callbackFind
<1> QED
  BY <1>1, <1>2, <1>3, <1>4, <1>5, <1>6, <1>7, <1>8 DEF Next, Work, WorkFails

LEMMA GrowStep ==
  ASSUME IInv, [Next]_vars
  PROVE  Grow
<1> SUFFICES ASSUME NEW j \in Jobs
             PROVE  /\ Len(log[j]) <= Len(log'[j])
                    /\ \A i \in 1..Len(log[j]) : log[j][i].ext # None => log'[j][i].ext # None
  BY CountersGrow DEF Grow
<1>1. log[j] \in Seq(Row) /\ log'[j] \in Seq(Row)
  BY TypeStep DEF IInv, TypeOK
<1>2. CASE log'[j] = log[j] \/ log[j] = <<>>
  BY <1>1, <1>2
<1>3. CASE log'[j] = Append(log[j], [status |-> "QUEUED", ext |-> None])
  BY <1>1, <1>3, FreshRow
<1>4. CASE \E i \in 1..Len(log[j]), r \in Row :
               /\ log'[j] = [log[j] EXCEPT ![i] = r]
               /\ log[j][i].ext # None => r.ext # None
  BY <1>1, <1>4, RowWritten
<1> QED
  BY <1>2, <1>3, <1>4, LogChange
-----------------------------------------------------------------------------
(* What the slots know stays true. *)

\* The slots a step of slot w leaves alone.
LEMMA OthersStay ==
  ASSUME IInv, Grow, TypeOK', NEW w \in Workers, NEW j \in Jobs,
         \A v \in Workers \ {w} : run'[v] = run[v],
         run'[w].job \in {j, None},
         \A i \in Jobs \ {j} : job'[i].state = job[i].state /\ sent'[i] = sent[i],
         \/ \A v \in Workers \ {w} : run[v].job # j
         \/ FormOf[j] # "direct" /\ job'[j].state \in Running,
         NEW v \in Workers \ {w}
  PROVE  RunOk(v)'
<1>1. CASE run[v].pc = "idle"
  BY <1>1, RunStays
<1>2. CASE run[v].pc # "idle"
  <2>1. RunOk(v) /\ run[v].job \in Jobs /\ job[run[v].job].state \in Running
    BY <1>2 DEF IInv, Shape, RunOk
  <2>2. None \notin Jobs
    BY NoneAssumption
  <2>3. CASE run[v].job = j
    BY <2>1, <2>3, RunStays
  <2>4. CASE run[v].job # j
    <3>1. \A u \in Workers : run'[u].job = run[v].job => run[u].job = run[v].job
      BY <2>1, <2>2, <2>4
    <3> QED
      BY <2>1, <2>4, <3>1, RunStays
  <2> QED
    BY <2>3, <2>4
<1> QED
  BY <1>1, <1>2

LEMMA IdleRun ==
  ASSUME NEW w \in Workers, run'[w] = NoRun
  PROVE  RunOk(w)'
  BY DEF RunOk, NoRun

LEMMA RunsProducer ==
  ASSUME IInv, Grow, TypeOK', NEW j \in Jobs,
         \/ importRow(j) \/ addMessageSend(j) \/ addJob(j) \/ importFails(j)
         \/ importAnswerLost(j),
         NEW w \in Workers
  PROVE  RunOk(w)'
<1>1. /\ run' = run /\ sent' = sent
      /\ job[j].state \in {"none", "row"}
      /\ \A i \in Jobs \ {j} : job'[i] = job[i]
  BY DEF IInv, TypeOK, importRow, addMessageSend, addJob, importFails, importAnswerLost,
     Asked, provider
<1>2. RunOk(w)
  BY DEF IInv, Shape
<1> QED
  BY <1>1, <1>2, RunStays DEF RunOk, Running

LEMMA RunsStart ==
  ASSUME IInv, Grow, TypeOK', NEW j \in Jobs, NEW w \in Workers,
         sendDirect(w, j) \/ Take(w, j), NEW v \in Workers
  PROVE  RunOk(v)'
<1>1. /\ run[w].pc = "idle"
      /\ \A u \in Workers \ {w} : run'[u] = run[u]
      /\ run'[w].job = j
      /\ \A i \in Jobs \ {j} : job'[i] = job[i]
      /\ sent' = sent
  <2>1. run \in [Workers -> Run] /\ job \in [Jobs -> Job] /\ NoRun.job = None
    BY DEF IInv, TypeOK, NoRun
  <2>2. CASE sendDirect(w, j)
    BY <2>1, <2>2 DEF sendDirect, provider, NoRun
  <2>3. CASE Take(w, j)
    BY <2>1, <2>3 DEF Take, provider, NoRun
  <2> QED
    BY <2>2, <2>3
<1>2. JobOk(j) /\ run \in [Workers -> Run] /\ job \in [Jobs -> Job]
  BY DEF IInv, Shape, TypeOK
<1>3. CASE sendDirect(w, j)
  <2>1. \A u \in Workers : run[u].job # j
    <3>1. job[j].state = "none" /\ j # None
      BY <1>3, NoneAssumption DEF sendDirect, Asked
    <3>2. \A u \in Workers : RunOk(u)
      BY DEF IInv, Shape
    <3> QED
      BY <3>1, <3>2 DEF RunOk, Running, NoRun
  <2>2. RunOk(w)'
    <3>1. /\ run'[w] = [NoRun EXCEPT !.pc = "send", !.job = j]
          /\ job'[j].state = "direct" /\ FormOf[j] = "direct" /\ sent'[j] = 0
      BY <1>1, <1>2, <1>3 DEF sendDirect, Asked, JobOk
    <3> QED
      BY <1>1, <2>1, <3>1 DEF RunOk, NoRun, Running
  <2> QED
    BY <1>1, <2>1, <2>2, OthersStay
<1>4. CASE Take(w, j)
  <2>1. FormOf[j] # "direct" /\ job'[j].state = "active"
    BY <1>2, <1>4 DEF Take, Taken, JobOk, Job
  <2>2. RunOk(w)'
    <3>1. run'[w] = [NoRun EXCEPT !.pc = "load", !.job = j]
      BY <1>2, <1>4 DEF Take
    <3> QED
      BY <2>1, <3>1 DEF RunOk, NoRun, Running
  <2> QED
    BY <1>1, <2>1, <2>2, OthersStay DEF Running
<1> QED
  BY <1>3, <1>4

\* A slot that stays with its job while the job stays as it is.
LEMMA SlotGoesOn ==
  ASSUME IInv, Grow, TypeOK', NEW w \in Workers, run[w].pc # "idle",
         \A u \in Workers \ {w} : run'[u] = run[u],
         run'[w].job = run[w].job, UNCHANGED job,
         \A i \in Jobs \ {run[w].job} : sent'[i] = sent[i],
         RunOk(w)',
         NEW v \in Workers
  PROVE  RunOk(v)'
<1> DEFINE j == run[w].job
<1>1. RunOk(w) /\ j \in Jobs /\ job[j].state \in Running
  BY DEF IInv, Shape, RunOk
<1>2. \/ \A u \in Workers \ {w} : run[u].job # j
      \/ FormOf[j] # "direct" /\ job'[j].state \in Running
  BY <1>1 DEF RunOk
<1>3. v # w => RunOk(v)'
  BY <1>1, <1>2, OthersStay
<1> QED
  BY <1>3

\* A slot that is done with its job.
LEMMA SlotLeaves ==
  ASSUME IInv, Grow, TypeOK', NEW w \in Workers, run[w].pc # "idle",
         run' = [run EXCEPT ![w] = NoRun],
         \A i \in Jobs \ {run[w].job} : job'[i] = job[i] /\ sent'[i] = sent[i],
         FormOf[run[w].job] = "direct" \/ job'[run[w].job].state \in Running,
         NEW v \in Workers
  PROVE  RunOk(v)'
<1> DEFINE j == run[w].job
<1>1. RunOk(w) /\ j \in Jobs /\ run \in [Workers -> Run]
  BY DEF IInv, Shape, RunOk, TypeOK
<1>2. \/ \A u \in Workers \ {w} : run[u].job # j
      \/ FormOf[j] # "direct" /\ job'[j].state \in Running
  BY <1>1 DEF RunOk
<1>3. run'[w] = NoRun /\ run'[w].job = None /\ \A u \in Workers \ {w} : run'[u] = run[u]
  BY <1>1 DEF NoRun
<1>4. v # w => RunOk(v)'
  BY <1>1, <1>2, <1>3, OthersStay
<1> QED
  BY <1>3, <1>4, IdleRun

LEMMA RunsMove ==
  ASSUME IInv, Grow, TypeOK', NEW w \in Workers,
         \/ load(w) \/ loadFails(w) \/ send(w) \/ updateRow(w) \/ updateFails(w)
         \/ markContacted(w) \/ contactFails(w) \/ failRow(w) \/ failRowFails(w),
         NEW v \in Workers
  PROVE  RunOk(v)'
<1> DEFINE j == run[w].job
<1> USE DEF provider
<1>1. /\ run[w].pc # "idle" /\ RunOk(w) /\ j \in Jobs /\ run \in [Workers -> Run]
      /\ job[j].state \in Running
  BY DEF IInv, Shape, RunOk, TypeOK, load, loadFails, send, updateRow, updateFails, markContacted,
     contactFails, failRow, failRowFails
<1>2. /\ \A u \in Workers \ {w} : run'[u] = run[u]
      /\ UNCHANGED job
      /\ \A i \in Jobs \ {j} : sent'[i] = sent[i]
  <2>1. CASE send(w)
    BY <1>1, <2>1 DEF IInv, TypeOK, send
  <2>2. CASE load(w) \/ loadFails(w) \/ updateRow(w) \/ updateFails(w)
    BY <1>1, <2>2 DEF load, loadFails, updateRow, updateFails
  <2>3. CASE markContacted(w) \/ contactFails(w) \/ failRow(w) \/ failRowFails(w)
    BY <1>1, <2>3 DEF markContacted, contactFails, failRow, failRowFails
  <2> QED
    BY <2>1, <2>2, <2>3
<1>3. /\ sent[j] \in Nat /\ causes[j] \in Nat /\ rejected[j] \in Nat /\ log[j] \in Seq(Row)
      /\ sent'[j] \in Nat /\ causes'[j] \in Nat /\ rejected'[j] \in Nat /\ log'[j] \in Seq(Row)
      /\ sent[j] <= sent'[j] /\ causes[j] <= causes'[j] /\ rejected[j] <= rejected'[j]
      /\ Len(log[j]) <= Len(log'[j])
  BY <1>1 DEF IInv, TypeOK, Grow
<1>4. CASE load(w)
  <2>1. /\ run'[w] = [run[w] EXCEPT !.pc = "send", !.row = Len(log'[j])]
        /\ FormOf[j] # "direct"
    BY <1>1, <1>4 DEF load, RunOk
  <2>2. run'[w].job = j /\ run'[w].pc = "send" /\ run'[w].row = Len(log'[j])
    BY <1>1, <2>1 DEF Run
  <2>3. Len(log'[j]) > 0
    <3>1. CASE FormOf[j] = "full"
      BY <1>1, <1>3, <1>4, <3>1, FreshRow DEF load, IInv, TypeOK
    <3>2. CASE FormOf[j] = "byId"
      <4>1. JobOk(j) /\ job[j].state # "direct"
        BY <1>1, <2>1 DEF IInv, Shape, JobOk
      <4>2. log[j] # <<>>
        BY <1>1, <3>2, <4>1 DEF JobOk, Running
      <4> QED
        BY <1>3, <4>2
    <3> QED
      BY <1>1, <2>1, <3>1, <3>2, FormAssumption DEF Form
  <2>4. run'[w].row \in 1..Len(log'[j])
    BY <1>3, <2>2, <2>3
  <2>5. RunOk(w)'
    BY <1>1, <1>2, <2>1, <2>2, <2>4 DEF RunOk
  <2> QED
    BY <1>1, <1>2, <2>2, <2>5, SlotGoesOn
<1>5. CASE send(w)
  <2>1. sent'[j] = sent[j] + 1
    BY <1>1, <1>5 DEF send, IInv, TypeOK
  <2>2. /\ run'[w] = [run[w] EXCEPT !.ext = sent'[j],
                                    !.pc = IF FormOf[j] = "direct" THEN "persist" ELSE "update"]
        /\ UNCHANGED log
    BY <1>1, <1>5 DEF send
  <2>3. /\ run'[w].job = j /\ run'[w].row = run[w].row /\ run'[w].ext = sent'[j]
        /\ run'[w].pc = IF FormOf[j] = "direct" THEN "persist" ELSE "update"
    BY <1>1, <2>2 DEF Run
  <2>4. run'[w].ext \in 1..sent'[j]
    BY <1>3, <2>1, <2>3
  <2>5. RunOk(w)'
    <3>1. CASE FormOf[j] = "direct"
      <4>1. \A u \in Workers : run'[u].job = j => u = w
        BY <1>1, <1>2, <3>1 DEF RunOk
      <4> QED
        BY <1>1, <1>2, <2>3, <2>4, <3>1, <4>1 DEF RunOk
    <3>2. CASE FormOf[j] # "direct"
      BY <1>1, <1>2, <1>5, <2>2, <2>3, <2>4, <3>2 DEF RunOk, send
    <3> QED
      BY <3>1, <3>2
  <2> QED
    BY <1>1, <1>2, <2>3, <2>5, SlotGoesOn
<1>6. CASE \/ loadFails(w) \/ updateRow(w) \/ updateFails(w)
           \/ markContacted(w) \/ contactFails(w) \/ failRow(w) \/ failRowFails(w)
  <2>1. PICK p \in {"throw", "contact", "done", "fail"} :
           /\ run'[w] = [run[w] EXCEPT !.pc = p]
           /\ p \in {"contact", "done"} => run[w].pc \in {"update", "contact"}
           /\ p = "fail" => run[w].pc = "update" /\ Cause(j)
           /\ run[w].pc = "update" /\ p # "fail" => updateRow(w)
    <3>1. CASE loadFails(w) \/ updateRow(w) \/ updateFails(w)
      BY <1>1, <3>1 DEF loadFails, updateRow, updateFails
    <3>2. CASE markContacted(w) \/ contactFails(w) \/ failRow(w) \/ failRowFails(w)
      BY <1>1, <3>2 DEF markContacted, contactFails, failRow, failRowFails
    <3> QED
      BY <1>6, <3>1, <3>2
  <2>2. run'[w].job = j /\ run'[w].row = run[w].row /\ run'[w].pc = p
    BY <1>1, <2>1 DEF Run
  <2>3. FormOf[j] # "direct"
    BY <1>1, <1>6 DEF RunOk, loadFails, updateRow, updateFails, markContacted, contactFails,
       failRow, failRowFails
  <2>4. p = "fail" => /\ run'[w].row \in 1..Len(log'[j])
                      /\ rejected'[j] + causes'[j] > 0
    <3> SUFFICES ASSUME p = "fail"
                 PROVE  /\ run'[w].row \in 1..Len(log'[j])
                        /\ rejected'[j] + causes'[j] > 0
      OBVIOUS
    <3>1. run[w].row \in 1..Len(log[j])
      BY <1>1, <2>1, <2>3 DEF RunOk
    <3>2. causes'[j] = causes[j] + 1
      BY <1>1, <2>1, CauseType
    <3> QED
      BY <1>3, <2>2, <3>1, <3>2
  <2>5. p = "contact" => run'[w].row \in 1..Len(log'[j])
    BY <1>1, <1>3, <2>1, <2>2, <2>3 DEF RunOk
  <2>6. p \in {"contact", "done"} => sent'[j] > 0 /\ Logged(j)'
    <3>1. CASE updateRow(w)
      <4>1. sent[j] > 0 /\ run[w].ext \in Nat /\ run[w].row \in 1..Len(log[j])
        BY <1>1, <1>3, <2>3, <3>1 DEF updateRow, RunOk
      <4>2. log'[j] = [log[j] EXCEPT ![run[w].row] = [status |-> "SENT", ext |-> run[w].ext]]
        BY <1>1, <3>1 DEF updateRow, IInv, TypeOK
      <4>3. /\ run[w].row \in 1..Len(log'[j])
            /\ log'[j][run[w].row] = [status |-> "SENT", ext |-> run[w].ext]
        BY <1>3, <4>1, <4>2
      <4>4. log'[j][run[w].row].ext # None
        <5>1. run[w].ext # None
          BY <4>1, NoneAssumption
        <5> QED
          BY <4>3, <5>1
      <4> QED
        BY SMTT(30), <1>3, <2>2, <4>1, <4>3, <4>4 DEF Logged, RowsOf
    <3>2. CASE run[w].pc = "contact"
      <4>1. sent[j] > 0 /\ Logged(j)
        BY <1>1, <3>2 DEF RunOk
      <4> QED
        <5> HIDE DEF j
        <5>1. \A i \in Jobs : Logged(i) => Logged(i)'
          BY LoggedStays
        <5>2. run'[w].job = j
          BY <2>2
        <5> QED
          BY <1>1, <1>3, <4>1, <5>1, <5>2 DEF j
    <3> QED
      BY <2>1, <3>1, <3>2
  <2>7. RunOk(w)'
    BY <1>1, <1>2, <2>2, <2>3, <2>4, <2>5, <2>6 DEF RunOk
  <2> QED
    BY <1>1, <1>2, <2>2, <2>7, SlotGoesOn
<1> QED
  BY <1>4, <1>5, <1>6

\* An exception, an answer, or the end of a job.
LEMMA RunsEnd ==
  ASSUME IInv, Grow, TypeOK', NEW w \in Workers,
         \/ sendRejected(w) \/ sendTimesOut(w) \/ persist(w) \/ persistFails(w)
         \/ Complete(w) \/ Retry(w),
         NEW v \in Workers
  PROVE  RunOk(v)'
<1> USE DEF provider
<1>1. PICK j \in Jobs : j = run[w].job /\ job[j].state \in Running
  BY DEF IInv, Shape, RunOk, sendRejected, sendTimesOut, persist, persistFails, Complete, Retry
<1>2. /\ run[w].pc # "idle" /\ RunOk(w) /\ JobOk(j) /\ run \in [Workers -> Run]
      /\ job \in [Jobs -> Job] /\ sent \in [Jobs -> Nat]
  BY DEF IInv, Shape, RunOk, TypeOK, sendRejected, sendTimesOut, persist, persistFails,
     Complete, Retry
<1>3. CASE persist(w) \/ persistFails(w)
           \/ (FormOf[j] = "direct" /\ (sendRejected(w) \/ sendTimesOut(w)))
  <2>1. /\ run' = [run EXCEPT ![w] = NoRun] /\ FormOf[j] = "direct"
        /\ \A i \in Jobs \ {j} : job'[i] = job[i]
    BY <1>1, <1>2, <1>3 DEF persist, persistFails, sendRejected, sendTimesOut, SendThrows, Close
  <2>2. \A i \in Jobs \ {j} : sent'[i] = sent[i]
    BY <1>1, <1>2, <1>3 DEF persist, persistFails, sendRejected, sendTimesOut
  <2> QED
    BY <1>1, <1>2, <2>1, <2>2, SlotLeaves
<1>4. CASE FormOf[j] # "direct" /\ (sendRejected(w) \/ sendTimesOut(w))
  <2>1. /\ run'[w] = [run[w] EXCEPT !.pc = "fail"]
        /\ \A u \in Workers \ {w} : run'[u] = run[u]
        /\ UNCHANGED <<job, log>>
    BY <1>1, <1>2, <1>4 DEF sendRejected, sendTimesOut, SendThrows
  <2>2. run'[w].pc = "fail" /\ run'[w].job = j /\ run'[w].row = run[w].row
    BY <1>1, <1>2, <2>1 DEF Run
  <2>3. /\ rejected[j] \in Nat /\ causes[j] \in Nat /\ rejected'[j] \in Nat /\ causes'[j] \in Nat
        /\ rejected'[j] = rejected[j] + 1 \/ causes'[j] = causes[j] + 1
    BY <1>1, <1>2, <1>4, CauseType DEF sendRejected, sendTimesOut, IInv, TypeOK
  <2>4. run[w].row \in 1..Len(log[j])
    BY <1>1, <1>2, <1>4 DEF RunOk, sendRejected, sendTimesOut
  <2>5. RunOk(w)'
    BY SMTT(30), <1>1, <1>4, <2>1, <2>2, <2>3, <2>4 DEF RunOk
  <2>6. \A i \in Jobs \ {j} : sent'[i] = sent[i]
    BY <1>1, <1>2, <1>4 DEF sendRejected, sendTimesOut
  <2> QED
    BY <1>1, <1>2, <2>1, <2>2, <2>5, <2>6, SlotGoesOn
<1>5. CASE Complete(w) \/ Retry(w)
  <2>1. /\ run' = [run EXCEPT ![w] = NoRun] /\ UNCHANGED sent
        /\ \A i \in Jobs \ {j} : job'[i] = job[i]
        /\ \/ job'[j] = job[j]
           \/ job'[j] = Completed(job[j])
           \/ job'[j] = Retried(job[j], AttemptsOf[j])
    BY <1>1, <1>2, <1>5 DEF Complete, Retry, Settle, Settled
  <2>2. job'[j].state \in Running
    <3>1. job[j] \in Job
      BY <1>2
    <3>2. /\ Completed(job[j]).state = "completed"
          /\ Retried(job[j], AttemptsOf[j]).state \in {"waiting", "failed"}
      BY <3>1 DEF Completed, Retried, Job
    <3> QED
      BY <1>1, <2>1, <3>2 DEF Running
  <2> QED
    BY <1>1, <1>2, <2>1, <2>2, SlotLeaves
<1> QED
  BY <1>3, <1>4, <1>5

LEMMA RunsElse ==
  ASSUME IInv, Grow, TypeOK',
         \/ \E j \in Jobs : StalledFound(j) \/ LockLost(j)
         \/ Restart
         \/ \E j \in Jobs : \E n \in 1..sent[j], s \in Reports : ProviderReports(j, n, s)
         \/ \E c \in inbox : callbackFind(c) \/ callbackWrite(c)
         \/ UNCHANGED vars,
         NEW w \in Workers
  PROVE  RunOk(w)'
<1> USE DEF provider
<1>1. RunOk(w)
  BY DEF IInv, Shape
<1>2. CASE Restart
  BY <1>2, IdleRun DEF Restart
<1>3. CASE \E j \in Jobs : StalledFound(j) \/ LockLost(j)
  <2> PICK j \in Jobs : StalledFound(j) \/ LockLost(j)
    BY <1>3
  <2>1. /\ run' = run /\ sent' = sent /\ job[j] \in Job
        /\ \A i \in Jobs \ {j} : job'[i] = job[i]
        /\ job'[j] = Stalled(job[j])
    BY DEF StalledFound, LockLost, Stall, IInv, TypeOK
  <2>2. job'[j].state \in Running
    BY <2>1 DEF Stalled, Job, Running
  <2> QED
    BY <1>1, <2>1, <2>2, RunStays DEF RunOk
<1>4. CASE \/ \E j \in Jobs : \E n \in 1..sent[j], s \in Reports : ProviderReports(j, n, s)
           \/ \E c \in inbox : callbackFind(c) \/ callbackWrite(c)
           \/ UNCHANGED vars
  <2>1. run' = run /\ job' = job /\ sent' = sent
    BY <1>4 DEF ProviderReports, callbackFind, callbackWrite, vars
  <2> QED
    BY <1>1, <2>1, RunStays DEF RunOk
<1> QED
  BY <1>2, <1>3, <1>4

LEMMA RunsStep ==
  ASSUME IInv, [Next]_vars, NEW v \in Workers
  PROVE  RunOk(v)'
<1>1. Grow /\ TypeOK'
  BY GrowStep, TypeStep
<1>2. ASSUME NEW w \in Workers, Work(w) \/ WorkFails(w)
      PROVE  RunOk(v)'
  BY <1>1, <1>2, RunsMove, RunsEnd DEF Work, WorkFails
<1> QED
  BY <1>1, <1>2, RunsProducer, RunsStart, RunsElse DEF Next
-----------------------------------------------------------------------------
(* What the jobs know stays true. *)

LEMMA JobStays ==
  ASSUME IInv, NEW j \in Jobs,
         job'[j] = job[j], log'[j] = log[j], told'[j] = told[j], sent'[j] = sent[j]
  PROVE  JobOk(j)'
  BY DEF IInv, Shape, JobOk

LEMMA JobsProducer ==
  ASSUME IInv, Grow, TypeOK', NEW j \in Jobs,
         \/ importRow(j) \/ addMessageSend(j) \/ addJob(j) \/ importFails(j)
         \/ importAnswerLost(j),
         NEW i \in Jobs
  PROVE  JobOk(i)'
<1>1. /\ job \in [Jobs -> Job] /\ log \in [Jobs -> Seq(Row)] /\ told \in [Jobs -> Answer]
      /\ sent' = sent /\ JobOk(j) /\ FormOf[j] # "direct"
  BY FormAssumption DEF IInv, Shape, TypeOK, JobOk, importRow, addMessageSend, addJob, importFails,
     importAnswerLost, Asked, provider
<1>2. CASE i # j
  BY <1>1, <1>2, JobStays DEF importRow, addMessageSend, addJob, importFails,
     importAnswerLost, Saved
<1>3. CASE i = j
  <2>1. /\ told[j] = None /\ sent[j] = 0 /\ job[j].by = None
        /\ job[j].state = "row" =>
               FormOf[j] = "byId" /\ log[j] = <<[status |-> "QUEUED", ext |-> None]>>
    BY <1>1 DEF JobOk, Asked, importRow, addMessageSend, addJob, importFails, importAnswerLost
  <2>2. /\ None \notin {"enqueued", "invalid", "sent", "refused"}
        /\ job[j] \in Job /\ log[j] \in Seq(Row)
    BY <1>1, NoneAssumption
  <2>3. CASE importRow(j)
    <3>1. /\ FormOf[j] = "byId" /\ job'[j] = [job[j] EXCEPT !.state = "row"]
          /\ log'[j] = <<[status |-> "QUEUED", ext |-> None]>> /\ told'[j] = told[j]
      BY <1>1, <2>3 DEF importRow, Asked, Saved
    <3> QED
      BY <1>1, <1>3, <2>1, <2>2, <3>1 DEF JobOk, Job
  <2>4. CASE addMessageSend(j) \/ importAnswerLost(j)
    <3>1. /\ FormOf[j] = "byId" /\ job'[j] = [job[j] EXCEPT !.state = "waiting"]
          /\ log'[j] = <<[status |-> "QUEUED", ext |-> None]>>
          /\ told'[j] \in {"enqueued", "invalid"}
      BY <1>1, <2>1, <2>4 DEF addMessageSend, importAnswerLost
    <3> QED
      BY <1>1, <1>3, <2>1, <2>2, <3>1 DEF JobOk, Job
  <2>5. CASE addJob(j)
    <3>1. /\ FormOf[j] = "full" /\ job'[j] = [job[j] EXCEPT !.state = "waiting"]
          /\ log'[j] = log[j] /\ told'[j] = told[j]
      BY <1>1, <2>5 DEF addJob, Asked
    <3> QED
      BY <1>1, <1>3, <2>1, <2>2, <3>1 DEF JobOk, Job
  <2>6. CASE importFails(j)
    <3>1. job'[j] = [job[j] EXCEPT !.state = "gone"] /\ told'[j] = "invalid"
      BY <1>1, <2>6 DEF importFails
    <3> QED
      BY <1>1, <1>3, <2>1, <2>2, <3>1 DEF JobOk, Job
  <2> QED
    BY <2>3, <2>4, <2>5, <2>6
<1> QED
  BY <1>2, <1>3

LEMMA JobsStart ==
  ASSUME IInv, Grow, TypeOK', NEW j \in Jobs, NEW w \in Workers,
         sendDirect(w, j) \/ Take(w, j), NEW i \in Jobs
  PROVE  JobOk(i)'
<1>1. /\ job \in [Jobs -> Job] /\ JobOk(j) /\ UNCHANGED <<log, told, sent>>
  BY DEF IInv, Shape, TypeOK, sendDirect, Take, provider
<1>2. CASE i # j
  BY <1>1, <1>2, JobStays DEF sendDirect, Take
<1>3. CASE i = j /\ sendDirect(w, j)
  <2>1. /\ FormOf[j] = "direct" /\ job'[j] = [job[j] EXCEPT !.state = "direct"]
        /\ sent[j] = 0 /\ told[j] = None /\ log[j] = <<>> /\ job[j].by = None
    BY <1>1, <1>3 DEF sendDirect, Asked, JobOk
  <2> QED
    BY <1>1, <1>3, <2>1, NoneAssumption DEF JobOk, Job
<1>4. CASE i = j /\ Take(w, j)
  <2>1. /\ FormOf[j] # "direct" /\ job[j].state = "waiting"
        /\ job'[j] = [job[j] EXCEPT !.state = "active", !.by = w]
    BY <1>1, <1>4 DEF Take, Taken, JobOk
  <2> QED
    BY <1>1, <1>4, <2>1 DEF JobOk, Job
<1> QED
  BY <1>2, <1>3, <1>4

\* Steps that leave the job and its answer alone, and append or write rows.
LEMMA JobsMove ==
  ASSUME IInv, Grow, TypeOK',
         \/ \E w \in Workers :
               \/ load(w) \/ loadFails(w) \/ send(w) \/ updateRow(w) \/ updateFails(w)
               \/ markContacted(w) \/ contactFails(w) \/ failRow(w) \/ failRowFails(w)
         \/ \E j \in Jobs : \E n \in 1..sent[j], s \in Reports : ProviderReports(j, n, s)
         \/ \E c \in inbox : callbackFind(c) \/ callbackWrite(c)
         \/ UNCHANGED vars,
         NEW i \in Jobs
  PROVE  JobOk(i)'
<1> USE DEF provider
<1>1. UNCHANGED <<job, told>>
  BY DEF load, loadFails, send, updateRow, updateFails, markContacted, contactFails, failRow,
     failRowFails, ProviderReports, callbackFind, callbackWrite, vars
<1>2. JobOk(i) /\ log[i] \in Seq(Row) /\ log'[i] \in Seq(Row) /\ Len(log[i]) <= Len(log'[i])
      /\ sent[i] \in Nat
  BY DEF IInv, Shape, TypeOK, Grow
<1>3. log'[i] # log[i] => job[i].state \in {"waiting", "active", "completed", "failed", "gone"}
  <2>1. ASSUME NEW w \in Workers,
               \/ load(w) \/ loadFails(w) \/ send(w) \/ updateRow(w) \/ updateFails(w)
               \/ markContacted(w) \/ contactFails(w) \/ failRow(w) \/ failRowFails(w),
               log'[i] # log[i]
        PROVE  job[i].state \in {"waiting", "active", "completed", "failed"}
    <3>1. run[w].job = i /\ (load(w) \/ updateRow(w) \/ failRow(w))
      BY <2>1 DEF load, loadFails, send, updateRow, updateFails, markContacted, contactFails,
         failRow, failRowFails, IInv, TypeOK
    <3>2. RunOk(w) /\ run[w].pc \in {"load", "update", "fail"}
      BY <3>1 DEF load, updateRow, failRow, IInv, Shape
    <3> QED
      BY <1>2, <3>1, <3>2 DEF RunOk, JobOk, Running
  <2>2. ASSUME NEW c \in inbox, callbackWrite(c), log'[i] # log[i]
        PROVE  job[i].state \in {"waiting", "active", "completed", "failed", "gone"}
    <3>1. c.job = i
      BY <2>2 DEF callbackWrite, IInv, TypeOK
    <3>2. sent[i] > 0 /\ Len(log[i]) > 0
      <4>1. CallbackOk(c) /\ c.row # 0
        BY <2>2 DEF IInv, Shape, callbackWrite
      <4> QED
        BY <1>2, <3>1, <4>1 DEF CallbackOk
    <3>3. log[i] # <<>>
      BY <1>2, <3>2
    <3>4. job[i].state \in JobState
      BY DEF IInv, TypeOK, Job
    <3> QED
      BY <1>2, <3>2, <3>3, <3>4 DEF JobOk, JobState
  <2>3. (\E c \in inbox : callbackFind(c)) \/ UNCHANGED vars
        \/ (\E j \in Jobs : \E n \in 1..sent[j], s \in Reports : ProviderReports(j, n, s))
        => log'[i] = log[i]
    BY DEF callbackFind, vars, ProviderReports
  <2> QED
    BY <2>1, <2>2, <2>3
<1>4. sent'[i] # sent[i] => job[i].state \in Running /\ (FormOf[i] = "direct" => sent'[i] = 1)
  <2>1. ASSUME NEW w \in Workers, send(w), sent'[i] # sent[i]
        PROVE  job[i].state \in Running /\ (FormOf[i] = "direct" => sent'[i] = 1)
    <3>1. run[w].job = i /\ sent'[i] = sent[i] + 1
      BY <2>1 DEF send, IInv, TypeOK
    <3>2. RunOk(w) /\ run[w].pc = "send"
      BY <2>1 DEF IInv, Shape, send
    <3> QED
      BY <1>2, <3>1, <3>2 DEF RunOk
  <2>2. (\A w \in Workers : ~send(w)) => sent' = sent
    BY DEF load, loadFails, updateRow, updateFails, markContacted, contactFails, failRow,
       failRowFails, ProviderReports, callbackFind, callbackWrite, vars
  <2> QED
    BY <2>1, <2>2
<1>5. log'[i] = <<>> => log[i] = <<>>
  BY <1>2
<1> QED
  BY <1>1, <1>2, <1>3, <1>4, <1>5 DEF JobOk, Running

LEMMA JobsEnd ==
  ASSUME IInv, Grow, TypeOK', NEW w \in Workers,
         \/ sendRejected(w) \/ sendTimesOut(w) \/ persist(w) \/ persistFails(w)
         \/ Complete(w) \/ Retry(w),
         NEW i \in Jobs
  PROVE  JobOk(i)'
<1> USE DEF provider
<1>1. PICK j \in Jobs : j = run[w].job /\ job[j].state \in Running
  BY DEF IInv, Shape, RunOk, sendRejected, sendTimesOut, persist, persistFails, Complete, Retry
<1>2. /\ RunOk(w) /\ JobOk(j) /\ JobOk(i) /\ job[j] \in Job
      /\ job \in [Jobs -> Job] /\ log \in [Jobs -> Seq(Row)] /\ told \in [Jobs -> Answer]
      /\ sent \in [Jobs -> Nat]
  BY DEF IInv, Shape, TypeOK
<1>3. CASE i # j
  <2>1. job'[i] = job[i]
    BY <1>1, <1>2, <1>3 DEF sendRejected, sendTimesOut, SendThrows, persist, persistFails, Close,
       Complete, Retry, Settle
  <2>2. log'[i] = log[i] /\ told'[i] = told[i] /\ sent'[i] = sent[i]
    <3>1. CASE sendRejected(w) \/ sendTimesOut(w)
      BY <1>1, <1>2, <1>3, <3>1 DEF sendRejected, sendTimesOut, SendThrows, Close
    <3>2. CASE persist(w) \/ persistFails(w)
      BY <1>1, <1>2, <1>3, <3>2 DEF persist, persistFails, Close, SentRow
    <3>3. CASE Complete(w) \/ Retry(w)
      BY <3>3 DEF Complete, Retry, Settle
    <3> QED
      BY <3>1, <3>2, <3>3
  <2> QED
    BY <2>1, <2>2, JobStays
<1>4. CASE i = j /\ FormOf[j] = "direct"
  <2>1. /\ job[j].state = "direct" /\ job[j].by = None
        /\ ~(Complete(w) \/ Retry(w))
    BY <1>1, <1>2, <1>4 DEF JobOk, RunOk, Running, Complete, Retry
  <2>2. /\ job'[j] = [job[j] EXCEPT !.state = "gone"] /\ told'[j] \in {"sent", "refused"}
    BY <1>1, <1>2, <1>4, <2>1 DEF sendRejected, sendTimesOut, SendThrows, persist, persistFails,
       Close
  <2>3. sent'[j] <= 1
    <3>1. sendTimesOut(w) => sent[j] = 0 /\ sent'[j] = 1
      BY <1>1, <1>2, <1>4 DEF RunOk, sendTimesOut
    <3>2. ~sendTimesOut(w) => sent'[j] = sent[j]
      BY <2>1 DEF sendRejected, persist, persistFails
    <3> QED
      BY <1>2, <1>4, <3>1, <3>2 DEF JobOk
  <2> QED
    BY <1>2, <1>4, <2>1, <2>2, <2>3 DEF JobOk, Job
<1>5. CASE i = j /\ FormOf[j] # "direct"
  <2>1. /\ job[j].state \in {"waiting", "active", "completed", "failed"}
        /\ ~persist(w) /\ ~persistFails(w)
    BY <1>1, <1>2, <1>5 DEF JobOk, RunOk, Running, persist, persistFails
  <2>2. log' = log /\ told' = told
    BY <1>1, <1>5, <2>1 DEF sendRejected, sendTimesOut, SendThrows, Complete, Retry, Settle
  <2>3. \/ job'[j] = job[j]
        \/ job'[j].state \in {"waiting", "completed", "failed"} /\ job'[j].by = None
    <3>1. CASE sendRejected(w) \/ sendTimesOut(w)
      BY <1>1, <1>5, <3>1 DEF sendRejected, sendTimesOut, SendThrows
    <3>2. CASE Complete(w) \/ Retry(w)
      <4>1. \/ job'[j] = job[j] \/ job'[j] = Completed(job[j])
            \/ job'[j] = Retried(job[j], AttemptsOf[j])
        BY <1>1, <1>2, <3>2 DEF Complete, Retry, Settle, Settled
      <4>2. /\ Completed(job[j]).state = "completed" /\ Completed(job[j]).by = None
            /\ Retried(job[j], AttemptsOf[j]).state \in {"waiting", "failed"}
            /\ Retried(job[j], AttemptsOf[j]).by = None
        BY <1>2 DEF Completed, Retried, Job
      <4> QED
        BY <4>1, <4>2
    <3> QED
      BY <2>1, <3>1, <3>2
  <2> QED
    BY <1>2, <1>5, <2>1, <2>2, <2>3 DEF JobOk
<1> QED
  BY <1>3, <1>4, <1>5

LEMMA JobsQueue ==
  ASSUME IInv, Grow, TypeOK', Restart \/ \E j \in Jobs : StalledFound(j) \/ LockLost(j),
         NEW i \in Jobs
  PROVE  JobOk(i)'
<1>1. JobOk(i) /\ job \in [Jobs -> Job] /\ job[i] \in Job /\ UNCHANGED <<log, told, sent>>
  BY DEF IInv, Shape, TypeOK, Restart, StalledFound, LockLost, Stall, provider
<1>2. CASE Restart
  <2>1. job'[i] = IF job[i].state \in {"row", "direct"}
                  THEN [job[i] EXCEPT !.state = "gone"] ELSE job[i]
    BY <1>2 DEF Restart
  <2> QED
    BY <1>1, <2>1 DEF JobOk, Job
<1>3. CASE \E j \in Jobs : StalledFound(j) \/ LockLost(j)
  <2>1. \/ job'[i] = job[i]
        \/ job[i].state = "active" /\ job'[i] = Stalled(job[i])
    BY <1>1, <1>3 DEF StalledFound, LockLost, Stall
  <2>2. Stalled(job[i]).state \in {"waiting", "failed"} /\ Stalled(job[i]).by = None
    BY <1>1 DEF Stalled, Job
  <2> QED
    BY <1>1, <2>1, <2>2 DEF JobOk
<1> QED
  BY <1>2, <1>3

LEMMA JobsStep ==
  ASSUME IInv, [Next]_vars, NEW i \in Jobs
  PROVE  JobOk(i)'
<1>1. Grow /\ TypeOK'
  BY GrowStep, TypeStep
<1>2. ASSUME NEW w \in Workers, Work(w) \/ WorkFails(w)
      PROVE  JobOk(i)'
  BY <1>1, <1>2, JobsMove, JobsEnd DEF Work, WorkFails
<1> QED
  BY <1>1, <1>2, JobsProducer, JobsStart, JobsMove, JobsQueue DEF Next
-----------------------------------------------------------------------------
(* Callbacks and rows. *)

LEMMA CallbacksStep ==
  ASSUME IInv, [Next]_vars, NEW c \in inbox'
  PROVE  CallbackOk(c)'
<1>1. Grow /\ TypeOK'
  BY GrowStep, TypeStep
<1>2. CASE c \in inbox
  BY <1>1, <1>2, CallbackStays
<1>3. CASE c \notin inbox
  <2>1. \/ \E j \in Jobs : \E n \in 1..sent[j], s \in Reports : ProviderReports(j, n, s)
        \/ \E d \in inbox : callbackFind(d)
    <3>1. ASSUME NEW w \in Workers, Work(w) \/ WorkFails(w)
          PROVE  inbox' = inbox
      BY <3>1 DEF Work, WorkFails, load, send, updateRow, markContacted, failRow, persist,
         Complete, Retry, Settle, loadFails, sendRejected, sendTimesOut, updateFails,
         contactFails, failRowFails, persistFails, provider
    <3>2. ASSUME NEW j \in Jobs,
                 \/ importRow(j) \/ addMessageSend(j) \/ addJob(j) \/ importFails(j)
                 \/ importAnswerLost(j) \/ StalledFound(j) \/ LockLost(j)
                 \/ \E w \in Workers : sendDirect(w, j) \/ Take(w, j)
          PROVE  inbox' = inbox
      BY <3>2 DEF importRow, addMessageSend, addJob, importFails, importAnswerLost, StalledFound,
         LockLost, Stall, sendDirect, Take, provider
    <3>3. ASSUME Restart \/ UNCHANGED vars \/ \E d \in inbox : callbackWrite(d)
          PROVE  inbox' \subseteq inbox
      BY <3>3 DEF Restart, vars, provider, callbackWrite
    <3> QED
      BY <1>3, <3>1, <3>2, <3>3 DEF Next
  <2>2. ASSUME NEW j \in Jobs, NEW n \in 1..sent[j], NEW s \in Reports, ProviderReports(j, n, s)
        PROVE  CallbackOk(c)'
    BY <1>3, <2>2 DEF ProviderReports, CallbackOk, IInv, TypeOK
  <2>3. ASSUME NEW d \in inbox, callbackFind(d)
        PROVE  CallbackOk(c)'
    <3>1. PICK i \in findByExternalId(d) : c = [d EXCEPT !.row = i]
      BY <1>3, <2>3 DEF callbackFind
    <3>2. d \in Callback /\ CallbackOk(d) /\ log[d.job] \in Seq(Row)
      BY DEF IInv, Shape, TypeOK, Callback
    <3>3. /\ c.job = d.job /\ c.id = d.id /\ c.status = d.status /\ c.row = i
          /\ i \in 1..Len(log[d.job]) /\ log[d.job][i].ext = d.id
      BY <3>1, <3>2 DEF findByExternalId, Callback
    <3>4. d.id # None
      BY <3>2, NoneAssumption DEF Callback
    <3>5. UNCHANGED <<log, sent, reported>>
      BY <2>3 DEF callbackFind
    <3> QED
      BY <3>2, <3>3, <3>4, <3>5 DEF CallbackOk
  <2> QED
    BY <2>1, <2>2, <2>3
<1> QED
  BY <1>2, <1>3

\* The rows after one is written.
LEMMA RowsWritten ==
  ASSUME NEW s \in Seq(Row), NEW i \in 1..Len(s), NEW r \in Row, NEW t,
         t = [s EXCEPT ![i] = r], NEW q \in {t[k] : k \in 1..Len(t)}
  PROVE  q = r \/ q \in {s[k] : k \in 1..Len(s)}
  BY RowWritten

LEMMA FreshIsTrue ==
  ASSUME NEW j \in Jobs
  PROVE  RowIsTrue(j, [status |-> "QUEUED", ext |-> None])'
  BY DEF RowIsTrue

LEMMA RowsStep ==
  ASSUME IInv, [Next]_vars
  PROVE  LogIsTrue'
<1> USE DEF provider
<1> DEFINE Fresh == [status |-> "QUEUED", ext |-> None]
<1>1. Grow /\ TypeOK'
  BY GrowStep, TypeStep
<1> SUFFICES ASSUME NEW j \in Jobs, NEW r \in RowsOf(j)'
             PROVE  r \in RowsOf(j) \/ RowIsTrue(j, r)'
  BY <1>1, RowsAreTrue
<1>2. /\ log \in [Jobs -> Seq(Row)] /\ log[j] \in Seq(Row) /\ log'[j] \in Seq(Row)
      /\ sent[j] \in Nat /\ sent'[j] \in Nat /\ sent[j] <= sent'[j]
      /\ None \notin Nat
  BY <1>1, NoneAssumption DEF IInv, TypeOK, Grow
<1>3. CASE log'[j] = log[j] \/ log'[j] = <<Fresh>> \/ log'[j] = Append(log[j], Fresh)
  <2>1. r \in RowsOf(j) \/ r = Fresh
    BY <1>2, <1>3, FreshRow DEF RowsOf
  <2> QED
    BY <2>1, FreshIsTrue
<1>4. ASSUME NEW w \in Workers, run[w].job = j, updateRow(w)
      PROVE  r \in RowsOf(j) \/ RowIsTrue(j, r)'
  <2>1. RunOk(w) /\ run[w].pc = "update" /\ run \in [Workers -> Run]
    BY <1>4 DEF IInv, Shape, TypeOK, updateRow
  <2>2. run[w].ext \in 1..sent[j] /\ FormOf[j] # "direct"
    BY <1>4, <2>1 DEF RunOk
  <2>3. run[w].row \in 1..Len(log[j])
    BY <1>4, <2>1, <2>2 DEF RunOk
  <2> DEFINE q == [status |-> "SENT", ext |-> run[w].ext]
  <2>4. q \in Row
    BY <1>2, <2>2 DEF Row, MessageStatus
  <2>5. log'[j] = [log[j] EXCEPT ![run[w].row] = q]
    BY <1>2, <1>4 DEF updateRow
  <2>6. r = q \/ r \in RowsOf(j)
    BY <1>2, <2>3, <2>4, <2>5, RowsWritten DEF RowsOf
  <2>7. r = q => RowIsTrue(j, r)'
    BY <1>2, <2>2 DEF RowIsTrue
  <2> QED
    BY <2>6, <2>7
<1>5. ASSUME NEW w \in Workers, run[w].job = j, failRow(w)
      PROVE  r \in RowsOf(j) \/ RowIsTrue(j, r)'
  <2>1. RunOk(w) /\ run[w].pc = "fail"
    BY <1>5 DEF IInv, Shape, failRow
  <2>2. /\ rejected[j] + causes[j] > 0 /\ FormOf[j] # "direct"
        /\ run[w].row \in 1..Len(log[j])
    BY <1>5, <2>1 DEF RunOk
  <2>3. log[j][run[w].row] \in RowsOf(j) /\ log[j][run[w].row] \in Row
    BY <1>2, <2>2 DEF RowsOf
  <2> DEFINE q == [log[j][run[w].row] EXCEPT !.status = "FAILED"]
  <2>4. q \in Row /\ q.ext = log[j][run[w].row].ext /\ q.status = "FAILED"
    BY <2>3 DEF Row, MessageStatus
  <2>5. log'[j] = [log[j] EXCEPT ![run[w].row] = q]
    BY <1>2, <1>5 DEF failRow
  <2>6. r = q \/ r \in RowsOf(j)
    BY <1>2, <2>2, <2>4, <2>5, RowsWritten DEF RowsOf
  <2>7. q.ext # None => q.ext \in 1..sent'[j]
    BY <1>2, <2>3, <2>4 DEF IInv, LogIsTrue
  <2>8. rejected'[j] + causes'[j] > 0
    BY <1>1, <1>5, <2>2 DEF failRow
  <2> HIDE DEF q
  <2>9. r = q => RowIsTrue(j, r)'
    BY <2>4, <2>7, <2>8 DEF RowIsTrue
  <2> QED
    BY <2>6, <2>9
<1>6. ASSUME NEW c \in inbox, c.job = j, callbackWrite(c)
      PROVE  r \in RowsOf(j) \/ RowIsTrue(j, r)'
  <2>1. CallbackOk(c) /\ c.row # 0 /\ c \in Callback
    BY <1>6 DEF IInv, Shape, TypeOK, callbackWrite
  <2>2. /\ c.row \in 1..Len(log[j]) /\ log[j][c.row].ext # None
        /\ c.id \in 1..sent[j] /\ <<c.id, c.status>> \in reported[j]
    BY <1>6, <2>1 DEF CallbackOk
  <2>3. log[j][c.row] \in RowsOf(j) /\ log[j][c.row] \in Row
    BY <1>2, <2>2 DEF RowsOf
  <2> DEFINE q == [log[j][c.row] EXCEPT !.status = nextStatus(c.status)]
  <2>4. q \in Row /\ q.ext = log[j][c.row].ext /\ q.status = nextStatus(c.status)
    <3>1. nextStatus(c.status) \in MessageStatus
      BY DEF nextStatus, MessageStatus
    <3> QED
      BY <2>3, <3>1 DEF Row
  <2>5. log'[j] = [log[j] EXCEPT ![c.row] = q]
    BY <1>2, <1>6 DEF callbackWrite
  <2>6. r = q \/ r \in RowsOf(j)
    BY <1>2, <2>2, <2>4, <2>5, RowsWritten DEF RowsOf
  <2>7. q.ext \in 1..sent'[j] /\ q.ext # None
    BY <1>2, <2>2, <2>3, <2>4 DEF IInv, LogIsTrue
  <2>8. Told(j, c.status)'
    BY <1>2, <1>6, <2>2 DEF Told, callbackWrite
  <2>9. /\ q.status = "DELIVERED" => c.status = "delivered"
        /\ q.status = "READ" => c.status = "read"
        /\ q.status = "FAILED" => c.status = "failed"
    <3>1. c.status \in {"sent", "delivered", "read", "failed"}
      BY <2>1, ReportsAssumption DEF Callback
    <3> QED
      BY <2>4, <3>1 DEF nextStatus
  <2> HIDE DEF q
  <2>10. r = q => RowIsTrue(j, r)'
    BY <2>7, <2>8, <2>9 DEF RowIsTrue
  <2> QED
    BY <2>6, <2>10
<1>7. ASSUME NEW w \in Workers, run[w].job = j, persist(w) \/ persistFails(w), log'[j] # log[j]
      PROVE  r \in RowsOf(j) \/ RowIsTrue(j, r)'
  <2>1. run[w].ext \in 1..sent[j]
    BY <1>7 DEF IInv, Shape, RunOk, persist, persistFails
  <2>2. log'[j] = <<[status |-> "SENT", ext |-> run[w].ext]>>
    BY <1>2, <1>7 DEF persist, persistFails, SentRow
  <2>3. r = [status |-> "SENT", ext |-> run[w].ext]
    BY <2>2 DEF RowsOf
  <2> QED
    BY <1>2, <2>1, <2>3 DEF RowIsTrue
<1>8. \/ log'[j] = log[j] \/ log'[j] = <<Fresh>> \/ log'[j] = Append(log[j], Fresh)
      \/ \E w \in Workers : run[w].job = j /\ (updateRow(w) \/ failRow(w))
      \/ \E c \in inbox : c.job = j /\ callbackWrite(c)
      \/ \E w \in Workers : run[w].job = j /\ (persist(w) \/ persistFails(w))
  <2>1. ASSUME NEW i \in Jobs, importRow(i) \/ importFails(i)
        PROVE  log'[j] = log[j] \/ log'[j] = <<Fresh>>
    BY <1>2, <2>1 DEF importRow, importFails, Saved
  <2>2. ASSUME NEW w \in Workers, load(w)
        PROVE  log'[j] = log[j] \/ log'[j] = Append(log[j], Fresh)
    BY <1>2, <2>2 DEF load
  <2>3. ASSUME NEW w \in Workers, updateRow(w) \/ failRow(w), run[w].job # j
        PROVE  log'[j] = log[j]
    BY <1>2, <2>3 DEF updateRow, failRow
  <2>4. ASSUME NEW w \in Workers, persist(w) \/ persistFails(w), run[w].job # j
        PROVE  log'[j] = log[j]
    BY <1>2, <2>4 DEF persist, persistFails, SentRow
  <2>5. ASSUME NEW c \in inbox, callbackWrite(c), c.job # j
        PROVE  log'[j] = log[j]
    BY <1>2, <2>5 DEF callbackWrite
  <2>6. ASSUME NEW i \in Jobs,
               \/ addMessageSend(i) \/ addJob(i) \/ importAnswerLost(i)
               \/ StalledFound(i) \/ LockLost(i)
               \/ \E w \in Workers : sendDirect(w, i) \/ Take(w, i)
               \/ \E n \in 1..sent[i], s \in Reports : ProviderReports(i, n, s)
        PROVE  UNCHANGED log
    BY <2>6 DEF addMessageSend, addJob, importAnswerLost, StalledFound, LockLost, Stall,
       sendDirect, Take, ProviderReports
  <2>7. ASSUME NEW w \in Workers,
               \/ send(w) \/ markContacted(w) \/ Complete(w) \/ Retry(w) \/ loadFails(w)
               \/ sendRejected(w) \/ sendTimesOut(w) \/ updateFails(w) \/ contactFails(w)
               \/ failRowFails(w)
        PROVE  UNCHANGED log
    BY <2>7 DEF send, markContacted, Complete, Retry, Settle, loadFails, sendRejected,
       sendTimesOut, updateFails, contactFails, failRowFails
  <2>8. ASSUME Restart \/ UNCHANGED vars \/ \E c \in inbox : callbackFind(c)
        PROVE  UNCHANGED log
    BY <2>8 DEF Restart, vars, callbackFind
  <2> HIDE DEF Fresh
  <2> QED
    BY <2>1, <2>2, <2>3, <2>4, <2>5, <2>6, <2>7, <2>8 DEF Next, Work, WorkFails
<1> QED
  BY <1>3, <1>4, <1>5, <1>6, <1>7, <1>8
-----------------------------------------------------------------------------
(* Answers. *)

Queue == {"waiting", "active", "completed", "failed"}

AnswerOk(j) ==
    /\ told[j] = "sent" \/ job[j].state = "completed" => sent[j] > 0 /\ Logged(j)
    /\ told[j] = "refused" /\ sent[j] > 0 => causes[j] > 0
    /\ told[j] = "enqueued" => job[j].state \in Queue

LEMMA AnswersByJob == AnswersAreTrue <=> \A j \in Jobs : AnswerOk(j)
  BY DEF AnswersAreTrue, AnswerOk, Logged, Queue

\* A message goes out only while its job is known to a slot.
LEMMA SentWhileRunning ==
  ASSUME IInv, [Next]_vars, NEW j \in Jobs, sent'[j] # sent[j]
  PROVE  job[j].state \in Running
<1> USE DEF provider
<1>1. PICK w \in Workers : send(w) \/ sendTimesOut(w)
  <2>1. ASSUME NEW w \in Workers, Work(w) \/ WorkFails(w)
        PROVE  send(w) \/ sendTimesOut(w) \/ sent' = sent
    BY <2>1 DEF Work, WorkFails, load, updateRow, markContacted, failRow, persist, Complete,
       Retry, Settle, loadFails, sendRejected, updateFails, contactFails, failRowFails,
       persistFails
  <2>2. ASSUME NEW i \in Jobs,
               \/ importRow(i) \/ addMessageSend(i) \/ addJob(i) \/ importFails(i)
               \/ importAnswerLost(i) \/ StalledFound(i) \/ LockLost(i)
               \/ \E w \in Workers : sendDirect(w, i) \/ Take(w, i)
               \/ \E n \in 1..sent[i], s \in Reports : ProviderReports(i, n, s)
        PROVE  sent' = sent
    BY <2>2 DEF importRow, addMessageSend, addJob, importFails, importAnswerLost, StalledFound,
       LockLost, Stall, sendDirect, Take, ProviderReports
  <2>3. ASSUME Restart \/ UNCHANGED vars \/ \E c \in inbox : callbackFind(c) \/ callbackWrite(c)
        PROVE  sent' = sent
    BY <2>3 DEF Restart, vars, callbackFind, callbackWrite
  <2> QED
    BY <2>1, <2>2, <2>3 DEF Next
<1>2. run[w].job = j
  BY <1>1 DEF send, sendTimesOut, IInv, TypeOK
<1> QED
  BY <1>1, <1>2 DEF IInv, Shape, RunOk, send, sendTimesOut

LEMMA AnswerStays ==
  ASSUME IInv, [Next]_vars, NEW j \in Jobs,
         told'[j] = told[j], job'[j].state = "completed" => job[j].state = "completed",
         job[j].state \in Queue => job'[j].state \in Queue
  PROVE  AnswerOk(j)'
<1>1. Grow /\ TypeOK'
  BY GrowStep, TypeStep
<1>2. AnswerOk(j) /\ JobOk(j)
  BY AnswersByJob DEF IInv, Shape
<1>3. /\ sent[j] \in Nat /\ sent'[j] \in Nat /\ causes[j] \in Nat /\ causes'[j] \in Nat
      /\ sent[j] <= sent'[j] /\ causes[j] <= causes'[j]
  BY <1>1 DEF IInv, TypeOK, Grow
<1>4. Logged(j) => Logged(j)'
  BY <1>1, LoggedStays
<1>5. told[j] = "refused" => sent'[j] = sent[j]
  BY <1>2, SentWhileRunning DEF JobOk, Running
<1> QED
  BY <1>2, <1>3, <1>4, <1>5 DEF AnswerOk

LEMMA AnswersClose ==
  ASSUME IInv, [Next]_vars, NEW w \in Workers, NEW j \in Jobs, j = run[w].job, FormOf[j] = "direct",
         sendRejected(w) \/ sendTimesOut(w) \/ persist(w) \/ persistFails(w)
  PROVE  AnswerOk(j)'
<1> USE DEF provider
<1>1. /\ RunOk(w) /\ JobOk(j) /\ sent[j] \in Nat /\ causes[j] \in Nat
      /\ job \in [Jobs -> Job] /\ told \in [Jobs -> Answer] /\ log \in [Jobs -> Seq(Row)]
      /\ None \notin Nat
  BY NoneAssumption DEF IInv, Shape, TypeOK
<1>2. job'[j].state = "gone" /\ told'[j] = IF persist(w) THEN "sent" ELSE "refused"
  <2>1. CASE persist(w)
    BY <1>1, <2>1 DEF persist, Close, Job
  <2>2. CASE persistFails(w)
    BY <1>1, <2>2 DEF persist, persistFails, Close, Job
  <2>3. CASE sendRejected(w) \/ sendTimesOut(w)
    <3>1. run[w].pc = "send" /\ Close(w, "refused")
      BY <2>3 DEF sendRejected, sendTimesOut, SendThrows
    <3> QED
      BY <1>1, <3>1 DEF persist, Close, Job
  <2> QED
    BY <2>1, <2>2, <2>3
<1>3. CASE persist(w)
  <2>1. run[w].ext \in 1..sent[j] /\ sent' = sent
    BY <1>1, <1>3 DEF RunOk, persist
  <2>2. log'[j] = <<[status |-> "SENT", ext |-> run[w].ext]>>
    BY <1>1, <1>3 DEF persist, SentRow
  <2>3. [status |-> "SENT", ext |-> run[w].ext] \in RowsOf(j)' /\ run[w].ext # None
    BY <1>1, <2>1, <2>2 DEF RowsOf
  <2> QED
    BY <1>1, <1>2, <1>3, <2>1, <2>3 DEF AnswerOk, Logged
<1>4. CASE sendRejected(w)
  <2>1. sent[j] = 0 /\ sent' = sent
    BY <1>1, <1>4 DEF RunOk, sendRejected
  <2>2. ~persist(w)
    BY <1>4 DEF sendRejected, persist
  <2> QED
    BY <1>2, <2>1, <2>2 DEF AnswerOk
<1>5. CASE sendTimesOut(w) \/ persistFails(w)
  <2>1. causes'[j] = causes[j] + 1
    BY <1>5, CauseType DEF sendTimesOut, persistFails
  <2> QED
    BY <1>1, <1>2, <1>3, <2>1 DEF AnswerOk
<1> QED
  BY <1>3, <1>4, <1>5

LEMMA AnswersStep ==
  ASSUME IInv, [Next]_vars
  PROVE  AnswersAreTrue'
<1> USE DEF provider
<1> SUFFICES ASSUME NEW j \in Jobs PROVE AnswerOk(j)'
  BY AnswersByJob DEF AnswersAreTrue, AnswerOk, Logged, Queue
<1>1. Grow /\ TypeOK'
  BY GrowStep, TypeStep
<1>2. /\ JobOk(j) /\ AnswerOk(j) /\ job \in [Jobs -> Job] /\ told \in [Jobs -> Answer]
      /\ sent[j] \in Nat
  BY AnswersByJob DEF IInv, Shape, TypeOK
<1>3. ASSUME NEW i \in Jobs, addMessageSend(i) \/ importAnswerLost(i) \/ importFails(i)
      PROVE  AnswerOk(j)'
  <2>1. CASE i # j
    BY <1>2, <1>3, <2>1, AnswerStays DEF addMessageSend, importAnswerLost, importFails
  <2>2. CASE i = j
    <3>1. \/ job'[j].state = "waiting" /\ told'[j] \in {"enqueued", "invalid"}
          \/ job'[j].state = "gone" /\ told'[j] = "invalid"
      BY <1>2, <1>3, <2>2 DEF addMessageSend, importAnswerLost, importFails, Job
    <3> QED
      BY <3>1 DEF AnswerOk, Queue
  <2> QED
    BY <2>1, <2>2
<1>4. ASSUME NEW i \in Jobs,
             \/ importRow(i) \/ addJob(i) \/ \E w \in Workers : sendDirect(w, i) \/ Take(w, i)
      PROVE  AnswerOk(j)'
  <2>1. /\ UNCHANGED told
        /\ \/ job'[j] = job[j]
           \/ job[j].state = "none" /\ job'[j].state \in {"row", "waiting", "direct"}
           \/ job[j].state = "waiting" /\ job'[j].state = "active"
    <3>1. ASSUME NEW x, job' = [job EXCEPT ![i].state = x]
          PROVE  job'[j] = job[j] \/ (i = j /\ job'[j].state = x)
      BY <1>2, <3>1 DEF Job
    <3>2. CASE importRow(i)
      BY <3>1, <3>2 DEF importRow, Asked
    <3>3. CASE addJob(i)
      BY <3>1, <3>3 DEF addJob, Asked
    <3>4. ASSUME NEW w \in Workers, sendDirect(w, i)
          PROVE  /\ UNCHANGED told
                 /\ \/ job'[j] = job[j]
                    \/ job[j].state = "none" /\ job'[j].state = "direct"
      BY <3>1, <3>4 DEF sendDirect, Asked
    <3>5. ASSUME NEW w \in Workers, Take(w, i)
          PROVE  /\ UNCHANGED told
                 /\ \/ job'[j] = job[j]
                    \/ job[j].state = "waiting" /\ job'[j].state = "active"
      <4>1. /\ UNCHANGED told /\ job[i].state = "waiting"
            /\ job' = [job EXCEPT ![i] = Taken(@, w)]
        BY <3>5 DEF Take
      <4>2. Taken(job[i], w).state = "active"
        BY <1>2 DEF Taken, Job
      <4> QED
        BY <1>2, <4>1, <4>2
    <3> QED
      BY <1>4, <3>2, <3>3, <3>4, <3>5
  <2> QED
    BY <2>1, AnswerStays DEF Queue
<1>5. ASSUME NEW w \in Workers,
             \/ load(w) \/ loadFails(w) \/ send(w) \/ updateRow(w) \/ updateFails(w)
             \/ markContacted(w) \/ contactFails(w) \/ failRow(w) \/ failRowFails(w)
      PROVE  AnswerOk(j)'
  <2>1. UNCHANGED <<job, told>>
    BY <1>5 DEF load, loadFails, send, updateRow, updateFails, markContacted, contactFails,
       failRow, failRowFails
  <2> QED
    BY <2>1, AnswerStays
<1>6. ASSUME NEW w \in Workers, \/ sendRejected(w) \/ sendTimesOut(w)
                                \/ persist(w) \/ persistFails(w)
      PROVE  AnswerOk(j)'
  <2>1. CASE run[w].job = j /\ FormOf[j] = "direct"
    BY <1>6, <2>1, AnswersClose
  <2>2. CASE run[w].job # j \/ FormOf[j] # "direct"
    <3>1. job'[j] = job[j] /\ told'[j] = told[j]
      BY <1>2, <1>6, <2>2 DEF sendRejected, sendTimesOut, SendThrows, persist, persistFails, Close
    <3> QED
      BY <3>1, AnswerStays
  <2> QED
    BY <2>1, <2>2
<1>7. ASSUME NEW w \in Workers, Complete(w) \/ Retry(w)
      PROVE  AnswerOk(j)'
  <2>1. /\ UNCHANGED told
        /\ \/ job'[j] = job[j]
           \/ run[w].job = j /\ Complete(w) /\ job[j].by = w /\ job'[j] = Completed(job[j])
           \/ run[w].job = j /\ Retry(w) /\ job[j].by = w /\ job'[j] = Retried(job[j], AttemptsOf[j])
    BY <1>2, <1>7 DEF Complete, Retry, Settle, Settled
  <2>2. CASE job'[j] = job[j]
    BY <2>1, <2>2, AnswerStays
  <2>3. CASE run[w].job = j /\ Complete(w) /\ job'[j] = Completed(job[j])
    <3>1. sent[j] > 0 /\ Logged(j) /\ FormOf[j] # "direct"
      BY <2>3 DEF IInv, Shape, RunOk, Complete
    <3>2. Logged(j)' /\ sent' = sent
      BY <1>1, <2>3, <3>1, LoggedStays DEF Complete, Settle
    <3>3. job'[j].state = "completed"
      BY <1>2, <2>3 DEF Completed, Job
    <3> QED
      BY <1>2, <2>1, <3>1, <3>2, <3>3 DEF AnswerOk, JobOk, Queue
  <2>4. CASE run[w].job = j /\ Retry(w) /\ job'[j] = Retried(job[j], AttemptsOf[j])
    <3>1. job'[j].state \in {"waiting", "failed"}
      BY <1>2, <2>4 DEF Retried, Job
    <3> QED
      BY <2>1, <3>1, AnswerStays DEF Queue
  <2> QED
    BY <2>1, <2>2, <2>3, <2>4
<1>8. ASSUME Restart \/ \E i \in Jobs : StalledFound(i) \/ LockLost(i)
      PROVE  AnswerOk(j)'
  <2>1. UNCHANGED told
    BY <1>8 DEF Restart, StalledFound, LockLost, Stall
  <2>2. \/ job'[j] = job[j]
        \/ job[j].state \in {"row", "direct"} /\ job'[j].state = "gone"
        \/ job'[j] = Stalled(job[j])
    BY <1>2, <1>8 DEF Restart, StalledFound, LockLost, Stall, Job
  <2>3. Stalled(job[j]).state \in {"waiting", "failed"}
    BY <1>2 DEF Stalled, Job
  <2> QED
    BY <2>1, <2>2, <2>3, AnswerStays DEF Queue
<1>9. ASSUME \/ \E i \in Jobs : \E n \in 1..sent[i], s \in Reports : ProviderReports(i, n, s)
             \/ \E c \in inbox : callbackFind(c) \/ callbackWrite(c)
             \/ UNCHANGED vars
      PROVE  AnswerOk(j)'
  <2>1. UNCHANGED <<job, told>>
    BY <1>9 DEF ProviderReports, callbackFind, callbackWrite, vars
  <2> QED
    BY <2>1, AnswerStays
<1> QED
  BY <1>3, <1>4, <1>5, <1>6, <1>7, <1>8, <1>9 DEF Next, Work, WorkFails
-----------------------------------------------------------------------------
(* Counting messages. *)

LEMMA SlotCounts ==
  ASSUME NEW j
  PROVE  /\ InFlight(j) \in SUBSET Workers /\ Open(j) \in SUBSET Workers
         /\ InFlight(j)' \in SUBSET Workers /\ Open(j)' \in SUBSET Workers
         /\ Cardinality(InFlight(j)) \in Nat /\ Cardinality(Open(j)) \in Nat
         /\ Cardinality(InFlight(j)') \in Nat /\ Cardinality(Open(j)') \in Nat
<1>1. /\ InFlight(j) \in SUBSET Workers /\ Open(j) \in SUBSET Workers
      /\ InFlight(j)' \in SUBSET Workers /\ Open(j)' \in SUBSET Workers
  BY DEF InFlight, Open
<1> QED
  BY <1>1, Slots

\* A job that a step leaves alone, but for slots that go on.
LEMMA StillCounted ==
  ASSUME IInv, TypeOK', NEW j \in Jobs, job'[j] = job[j], sent'[j] = sent[j],
         causes[j] <= causes'[j],
         InFlight(j)' \subseteq InFlight(j), Open(j)' \subseteq Open(j)
  PROVE  CountOk(j)' /\ CauseOk(j)'
<1>1. /\ Cardinality(InFlight(j)') <= Cardinality(InFlight(j))
      /\ Cardinality(Open(j)') <= Cardinality(Open(j))
  BY SlotCounts, FewerSlots
<1>2. /\ sent[j] \in Nat /\ causes[j] \in Nat /\ causes'[j] \in Nat
      /\ job[j] \in Job /\ CountOk(j) /\ CauseOk(j)
  BY DEF IInv, TypeOK, Counts
<1>3. job[j].made \in Nat /\ job[j].stalled \in Nat
  BY <1>2 DEF Job
<1> DEFINE a == Cardinality(InFlight(j))  b == Cardinality(InFlight(j)')
           c == Cardinality(Open(j))      d == Cardinality(Open(j)')
<1>4. a \in Nat /\ b \in Nat /\ c \in Nat /\ d \in Nat /\ b <= a /\ d <= c
  BY <1>1, SlotCounts
<1>5. CountOk(j)'
  <2>1. Cardinality(InFlight(j))' = b
    OBVIOUS
  <2> HIDE DEF a, b
  <2> QED
    BY <1>2, <1>3, <1>4, <2>1 DEF CountOk, a
<1>6. CauseOk(j)'
  <2>1. Cardinality(Open(j))' = d
    OBVIOUS
  <2> HIDE DEF c, d
  <2> QED
    BY <1>2, <1>4, <2>1 DEF CauseOk, c
<1> QED
  BY <1>5, <1>6

\* Slots of other jobs.
LEMMA OtherSlots ==
  ASSUME IInv, NEW w \in Workers, NEW i \in Jobs,
         \A v \in Workers \ {w} : run'[v] = run[v],
         run[w].job # i, run'[w].job # i, job'[i] = job[i]
  PROVE  InFlight(i)' \subseteq InFlight(i) /\ Open(i)' \subseteq Open(i)
  BY DEF InFlight, Open

LEMMA CountsProducer ==
  ASSUME IInv, TypeOK', NEW j \in Jobs,
         \/ importRow(j) \/ addMessageSend(j) \/ addJob(j) \/ importFails(j)
         \/ importAnswerLost(j),
         NEW i \in Jobs
  PROVE  CountOk(i)' /\ CauseOk(i)'
<1>1. /\ job \in [Jobs -> Job] /\ UNCHANGED <<run, sent, causes>> /\ causes[i] \in Nat
  BY DEF IInv, TypeOK, importRow, addMessageSend, addJob, importFails, importAnswerLost, provider
<1>2. PICK s \in {"row", "waiting", "gone"} : job' = [job EXCEPT ![j].state = s]
  BY DEF importRow, addMessageSend, addJob, importFails, importAnswerLost
<1>3. CASE i # j
  <2>1. job'[i] = job[i]
    BY <1>1, <1>2, <1>3
  <2>2. InFlight(i)' = InFlight(i) /\ Open(i)' = Open(i)
    BY <1>1, <2>1 DEF InFlight, Open
  <2> QED
    BY <1>1, <2>1, <2>2, StillCounted
<1>4. CASE i = j
  <2>1. job[j].state \in {"none", "row"} /\ FormOf[j] # "direct"
    BY FormAssumption DEF IInv, Shape, JobOk, importRow, addMessageSend, addJob, importFails,
       importAnswerLost, Asked
  <2>2. job'[j] = [job[j] EXCEPT !.state = s] /\ job[j] \in Job
    BY <1>1, <1>2
  <2>3. /\ job'[j].state = s /\ job'[j].made = job[j].made /\ job'[j].by = job[j].by
        /\ job'[j].stalled = job[j].stalled /\ job[j].made \in Nat /\ job[j].stalled \in Nat
    BY <2>2 DEF Job
  <2>4. InFlight(j)' = InFlight(j) /\ Open(j)' = Open(j)
    BY <1>1, <2>3 DEF InFlight, Open
  <2>5. /\ Cardinality(InFlight(j)) \in Nat /\ Cardinality(Open(j)) \in Nat
        /\ sent[j] \in Nat /\ CountOk(j) /\ CauseOk(j)
    BY SlotCounts DEF IInv, TypeOK, Counts
  <2>6. CountOk(j)'
    BY <1>1, <2>1, <2>3, <2>4, <2>5 DEF CountOk
  <2>7. CauseOk(j)'
    BY <1>1, <1>4, <2>1, <2>3, <2>4, <2>5 DEF CauseOk
  <2> QED
    BY <1>4, <2>6, <2>7
<1> QED
  BY <1>3, <1>4

\* What the counts say of one job, with the numbers that matter as variables.
LEMMA CountsBefore ==
  ASSUME IInv, NEW j \in Jobs
  PROVE  /\ Cardinality(InFlight(j)) \in Nat /\ Cardinality(Open(j)) \in Nat
         /\ Cardinality(InFlight(j)') \in Nat /\ Cardinality(Open(j)') \in Nat
         /\ sent[j] \in Nat /\ causes[j] \in Nat /\ AttemptsOf[j] \in Nat
         /\ job[j] \in Job /\ job[j].made \in Nat /\ job[j].stalled \in Nat
         /\ CountOk(j) /\ CauseOk(j) /\ JobOk(j)
<1>1. job[j] \in Job
  BY DEF IInv, TypeOK
<1>2. job[j].made \in Nat /\ job[j].stalled \in Nat
  BY <1>1 DEF Job
<1>3. AttemptsOf[j] \in Nat
  BY AttemptsAssumption
<1>4. sent[j] \in Nat /\ causes[j] \in Nat /\ CountOk(j) /\ CauseOk(j) /\ JobOk(j)
  BY DEF IInv, Shape, TypeOK, Counts
<1> QED
  BY <1>1, <1>2, <1>3, <1>4, SlotCounts

LEMMA CountsStart ==
  ASSUME IInv, TypeOK', NEW j \in Jobs, NEW w \in Workers, sendDirect(w, j) \/ Take(w, j),
         NEW i \in Jobs
  PROVE  CountOk(i)' /\ CauseOk(i)'
<1>1. /\ job \in [Jobs -> Job] /\ run \in [Workers -> Run] /\ UNCHANGED <<sent, causes>>
      /\ run[w] = NoRun /\ None # i /\ None # j
  <2>1. run[w].pc = "idle" /\ RunOk(w)
    BY DEF IInv, Shape, sendDirect, Take
  <2> QED
    BY <2>1, NoneAssumption DEF RunOk, IInv, TypeOK, sendDirect, Take, provider
<1>2. /\ \A v \in Workers \ {w} : run'[v] = run[v]
      /\ run'[w].job = j
      /\ \A k \in Jobs \ {j} : job'[k] = job[k]
  BY <1>1 DEF sendDirect, Take, NoRun
<1>3. CASE i # j
  <2>1. InFlight(i)' \subseteq InFlight(i) /\ Open(i)' \subseteq Open(i)
    BY <1>1, <1>2, <1>3, OtherSlots DEF NoRun
  <2> QED
    BY <1>1, <1>2, <1>3, <2>1, StillCounted, CountsBefore
<1>4. CASE i = j
  <2>1. \/ /\ job[j].state = "none" /\ FormOf[j] = "direct"
           /\ job'[j] = [job[j] EXCEPT !.state = "direct"]
        \/ /\ job[j].state = "waiting" /\ FormOf[j] # "direct"
           /\ job'[j] = [job[j] EXCEPT !.state = "active", !.by = w]
    BY <1>1, CountsBefore DEF sendDirect, Take, Asked, Taken, JobOk
  <2>2. /\ job'[j].made = job[j].made /\ job'[j].stalled = job[j].stalled
        /\ \/ job[j].state = "none" /\ FormOf[j] = "direct" /\ job'[j].state = "direct"
           \/ job[j].state = "waiting" /\ FormOf[j] # "direct" /\ job'[j].state = "active"
        /\ job[j].by = None /\ job'[j].by \in {None, w}
    BY <2>1, CountsBefore DEF Job, JobOk
  <2>3. InFlight(j)' \subseteq InFlight(j) \cup {w} /\ Open(j)' \subseteq Open(j) \cup {w}
    BY <1>2, <2>2, NoneAssumption DEF InFlight, Open
  <2>4. /\ Cardinality(InFlight(j)') <= Cardinality(InFlight(j)) + 1
        /\ Cardinality(Open(j)') <= Cardinality(Open(j)) + 1
    BY <2>3, SlotCounts, OneSlotMore
  <2> QED
    BY SMTT(30), <1>1, <1>4, <2>2, <2>4, CountsBefore DEF CountOk, CauseOk
<1> QED
  BY <1>3, <1>4

\* A slot that goes on, closes a direct request, or makes its attempt fail.
LEMMA CountsMove ==
  ASSUME IInv, TypeOK', NEW w \in Workers,
         \/ load(w) \/ loadFails(w) \/ send(w) \/ sendRejected(w) \/ sendTimesOut(w)
         \/ updateRow(w) \/ updateFails(w) \/ markContacted(w) \/ contactFails(w)
         \/ failRow(w) \/ failRowFails(w) \/ persist(w) \/ persistFails(w),
         NEW i \in Jobs
  PROVE  CountOk(i)' /\ CauseOk(i)'
<1> USE DEF provider
<1>1. PICK j \in Jobs : j = run[w].job /\ run[w].pc # "idle" /\ job[j].state \in Running
  BY DEF IInv, Shape, RunOk, load, loadFails, send, sendRejected, sendTimesOut, updateRow,
     updateFails, markContacted, contactFails, failRow, failRowFails, persist, persistFails
<1>2. /\ RunOk(w) /\ run \in [Workers -> Run] /\ job \in [Jobs -> Job] /\ run[w] \in Run
      /\ sent \in [Jobs -> Nat] /\ causes \in [Jobs -> Nat] /\ None \notin Jobs
      /\ None \notin Workers
  BY NoneAssumption DEF IInv, Shape, TypeOK
<1>3. /\ \A v \in Workers \ {w} : run'[v] = run[v]
      /\ run'[w].job \in {j, None}
      /\ \A k \in Jobs \ {j} : job'[k] = job[k] /\ sent'[k] = sent[k] /\ causes[k] <= causes'[k]
      /\ causes[j] <= causes'[j]
  <2>1. CASE load(w) \/ loadFails(w) \/ updateRow(w) \/ markContacted(w) \/ contactFails(w)
             \/ failRow(w) \/ failRowFails(w)
    BY SMTT(30), <1>1, <1>2, <2>1 DEF load, loadFails, updateRow, markContacted, contactFails,
       failRow, failRowFails, Run
  <2>2. CASE send(w)
    BY <1>1, <1>2, <2>2 DEF send, Run
  <2>3. CASE updateFails(w)
    BY <1>1, <1>2, <2>3, CauseType DEF updateFails, Run
  <2>4. SendThrows(w) => /\ \A v \in Workers \ {w} : run'[v] = run[v]
                         /\ run'[w].job \in {j, None}
                         /\ \A k \in Jobs \ {j} : job'[k] = job[k]
    BY <1>1, <1>2 DEF SendThrows, Close, NoRun, Run
  <2>5. CASE sendRejected(w)
    BY <1>1, <1>2, <2>4, <2>5 DEF sendRejected
  <2>6. CASE sendTimesOut(w)
    BY <1>1, <1>2, <2>4, <2>6, CauseType DEF sendTimesOut
  <2>7. CASE persist(w) \/ persistFails(w)
    BY <1>1, <1>2, <2>7, CauseType DEF persist, persistFails, Close, NoRun
  <2> QED
    BY <2>1, <2>2, <2>3, <2>5, <2>6, <2>7
<1>4. CASE i # j
  <2>1. InFlight(i)' \subseteq InFlight(i) /\ Open(i)' \subseteq Open(i)
    BY <1>1, <1>2, <1>3, <1>4, OtherSlots
  <2> QED
    BY <1>3, <1>4, <2>1, StillCounted
<1>5. CASE i = j /\ (load(w) \/ loadFails(w) \/ updateRow(w) \/ markContacted(w) \/ contactFails(w)
                     \/ failRow(w) \/ failRowFails(w))
  <2>1. job' = job /\ sent' = sent
    BY <1>5 DEF load, loadFails, updateRow, markContacted, contactFails, failRow, failRowFails
  <2>2. run'[w].pc \in {"load", "send"} => run[w].pc \in {"load", "send"}
    BY SMTT(30), <1>2, <1>5 DEF load, loadFails, updateRow, markContacted, contactFails, failRow,
       failRowFails, Run
  <2>3. run'[w].pc \in {"fail", "throw"} => run[w].pc \in {"load", "fail"}
    BY SMTT(30), <1>2, <1>5 DEF load, loadFails, updateRow, markContacted, contactFails, failRow,
       failRowFails, Run
  <2>4. InFlight(j)' \subseteq InFlight(j) /\ Open(j)' \subseteq Open(j)
    BY <1>1, <1>2, <1>3, <2>1, <2>2, <2>3 DEF InFlight, Open
  <2> QED
    BY <1>3, <1>5, <2>1, <2>4, StillCounted
<1>6. CASE i = j /\ send(w)
  <2>1. /\ UNCHANGED <<job, causes>> /\ sent'[j] = sent[j] + 1
        /\ run[w].pc = "send" /\ run'[w].pc \in {"persist", "update"}
    BY <1>1, <1>2, <1>6 DEF send, Run
  <2>2. /\ w \in InFlight(j) /\ InFlight(j)' \subseteq InFlight(j) \ {w}
        /\ w \in Open(j) /\ Open(j)' \subseteq Open(j) \ {w}
    BY <1>1, <1>2, <1>3, <2>1 DEF InFlight, Open
  <2>3. /\ Cardinality(InFlight(j)') + 1 <= Cardinality(InFlight(j))
        /\ Cardinality(Open(j)') + 1 <= Cardinality(Open(j))
    BY <2>2, SlotCounts, OneSlotLess
  <2> QED
    BY <1>6, <2>1, <2>3, CountsBefore DEF CountOk, CauseOk
<1>7. CASE i = j /\ updateFails(w)
  <2>1. /\ UNCHANGED <<job, sent>> /\ causes'[j] = causes[j] + 1
        /\ run'[w].pc = "fail"
    BY <1>1, <1>2, <1>7, CauseType DEF updateFails, Run
  <2>2. InFlight(j)' \subseteq InFlight(j) /\ Open(j)' \subseteq Open(j) \cup {w}
    BY <1>1, <1>2, <1>3, <2>1 DEF InFlight, Open
  <2>3. /\ Cardinality(InFlight(j)') <= Cardinality(InFlight(j))
        /\ Cardinality(Open(j)') <= Cardinality(Open(j)) + 1
    BY <2>2, SlotCounts, OneSlotMore, FewerSlots
  <2>4. CountOk(j)'
    BY <2>1, <2>3, CountsBefore DEF CountOk
  <2>5. CauseOk(j)'
    BY <2>1, <2>3, CountsBefore DEF CauseOk
  <2> QED
    BY <1>7, <2>4, <2>5
<1>8. CASE i = j /\ (sendRejected(w) \/ sendTimesOut(w)) /\ FormOf[j] # "direct"
  <2>1. /\ job' = job /\ run[w].pc = "send" /\ run'[w].pc = "fail"
        /\ \/ sent'[j] = sent[j] /\ causes'[j] = causes[j]
           \/ sent'[j] = sent[j] + 1 /\ causes'[j] = causes[j] + 1
    BY <1>1, <1>2, <1>8, CauseType DEF sendRejected, sendTimesOut, SendThrows, Run
  <2>2. /\ w \in InFlight(j) /\ InFlight(j)' \subseteq InFlight(j) \ {w}
        /\ Open(j)' \subseteq Open(j)
    BY <1>1, <1>2, <1>3, <2>1 DEF InFlight, Open
  <2>3. /\ Cardinality(InFlight(j)') + 1 <= Cardinality(InFlight(j))
        /\ Cardinality(Open(j)') <= Cardinality(Open(j))
    BY <2>2, SlotCounts, OneSlotLess, FewerSlots
  <2> QED
    BY <1>8, <2>1, <2>3, CountsBefore DEF CountOk, CauseOk
<1>9. CASE i = j /\ FormOf[j] = "direct"
           /\ (sendRejected(w) \/ sendTimesOut(w) \/ persist(w) \/ persistFails(w))
  <2>1. /\ job'[j].state = "gone" /\ job'[j].by = job[j].by /\ run'[w].pc = "idle"
        /\ \/ sent'[j] = sent[j] /\ causes[j] <= causes'[j]
           \/ sent'[j] = sent[j] + 1 /\ causes'[j] = causes[j] + 1
    <3>1. PICK a \in Answer : Close(w, a)
      BY <1>1, <1>9 DEF sendRejected, sendTimesOut, SendThrows, persist, persistFails, Answer
    <3>2. job'[j] = [job[j] EXCEPT !.state = "gone"] /\ run'[w] = NoRun
      BY <1>1, <1>2, <3>1 DEF Close
    <3>3. \/ sent'[j] = sent[j] /\ causes[j] <= causes'[j]
          \/ sent'[j] = sent[j] + 1 /\ causes'[j] = causes[j] + 1
      BY <1>1, <1>2, <1>3, <1>9, CauseType DEF sendRejected, sendTimesOut, persist, persistFails
    <3> QED
      BY <1>2, <3>2, <3>3 DEF Job, NoRun
  <2>2. Open(j)' \subseteq Open(j)
    BY <1>1, <1>2, <1>3, <2>1 DEF Open
  <2>3. Cardinality(Open(j)') <= Cardinality(Open(j))
    BY <2>2, SlotCounts, FewerSlots
  <2>4. causes'[j] \in Nat /\ sent'[j] \in Nat
    BY DEF TypeOK
  <2> QED
    BY <1>9, <2>1, <2>3, <2>4, CountsBefore DEF CountOk, CauseOk
<1>10. persist(w) \/ persistFails(w) => FormOf[j] = "direct"
  BY <1>1, <1>2 DEF RunOk, persist, persistFails
<1> QED
  BY <1>4, <1>5, <1>6, <1>7, <1>8, <1>9, <1>10

\* A slot that ends its job, if it still holds its lock.
LEMMA CountsSettle ==
  ASSUME IInv, TypeOK', NEW w \in Workers, Complete(w) \/ Retry(w), NEW i \in Jobs
  PROVE  CountOk(i)' /\ CauseOk(i)'
<1>1. PICK j \in Jobs : j = run[w].job /\ run[w].pc \in {"done", "throw"}
  BY DEF IInv, Shape, RunOk, Complete, Retry
<1>2. /\ run \in [Workers -> Run] /\ job \in [Jobs -> Job] /\ None \notin Jobs
      /\ None \notin Workers /\ UNCHANGED <<sent, causes>> /\ FormOf[j] # "direct"
      /\ run' = [run EXCEPT ![w] = NoRun]
  BY <1>1, NoneAssumption DEF IInv, Shape, RunOk, TypeOK, Complete, Retry, Settle, provider
<1>3. /\ \A v \in Workers \ {w} : run'[v] = run[v]
      /\ run'[w].job = None
      /\ \A k \in Jobs \ {j} : job'[k] = job[k]
      /\ \/ job'[j] = job[j]
         \/ Complete(w) /\ job[j].by = w /\ job'[j] = Completed(job[j])
         \/ Retry(w) /\ job[j].by = w /\ job'[j] = Retried(job[j], AttemptsOf[j])
  BY <1>1, <1>2 DEF Complete, Retry, Settle, Settled, NoRun
<1>4. CASE i # j
  <2>1. InFlight(i)' \subseteq InFlight(i) /\ Open(i)' \subseteq Open(i)
    BY <1>1, <1>2, <1>3, <1>4, OtherSlots
  <2> QED
    BY <1>2, <1>3, <1>4, <2>1, StillCounted, CountsBefore
<1>5. CASE i = j /\ job'[j] = job[j]
  <2>1. InFlight(j)' \subseteq InFlight(j) /\ Open(j)' \subseteq Open(j)
    BY <1>2, <1>3, <1>5 DEF InFlight, Open
  <2> QED
    BY <1>2, <1>5, <2>1, StillCounted, CountsBefore
<1>6. CASE i = j /\ Complete(w) /\ job[j].by = w /\ job'[j] = Completed(job[j])
  <2>1. /\ job[j].state = "active" /\ job'[j].state = "completed" /\ job'[j].by = None
        /\ job'[j].made = job[j].made /\ job'[j].stalled = job[j].stalled
    BY <1>2, <1>6, CountsBefore DEF Completed, Job, JobOk
  <2>2. InFlight(j)' \subseteq InFlight(j) /\ Open(j)' \subseteq Open(j)
    BY <1>2, <1>3, <2>1 DEF InFlight, Open
  <2>3. /\ Cardinality(InFlight(j)') <= Cardinality(InFlight(j))
        /\ Cardinality(Open(j)') <= Cardinality(Open(j))
    BY <2>2, SlotCounts, FewerSlots
  <2> QED
    BY <1>2, <1>6, <2>1, <2>3, CountsBefore DEF CountOk, CauseOk
<1>7. CASE i = j /\ Retry(w) /\ job[j].by = w /\ job'[j] = Retried(job[j], AttemptsOf[j])
  <2>1. /\ job[j].state = "active" /\ job'[j].by = None /\ run[w].pc = "throw"
        /\ job'[j].made = job[j].made + 1 /\ job'[j].stalled = job[j].stalled
        /\ job'[j].state = IF job[j].made + 1 < AttemptsOf[j] THEN "waiting" ELSE "failed"
    BY <1>2, <1>7, CountsBefore DEF Retried, Retry, Job, JobOk
  <2>2. /\ InFlight(j)' \subseteq InFlight(j)
        /\ w \in Open(j) /\ Open(j)' \subseteq Open(j) \ {w}
    BY <1>1, <1>2, <1>3, <1>7, <2>1 DEF InFlight, Open
  <2>3. /\ Cardinality(InFlight(j)') <= Cardinality(InFlight(j))
        /\ Cardinality(Open(j)') + 1 <= Cardinality(Open(j))
    BY <2>2, SlotCounts, FewerSlots, OneSlotLess
  <2>4. CountOk(j)'
    BY <1>2, <2>1, <2>3, CountsBefore DEF CountOk
  <2>5. CauseOk(j)'
    BY <1>2, <2>1, <2>3, CountsBefore DEF CauseOk
  <2> QED
    BY <1>7, <2>4, <2>5
<1> QED
  BY <1>3, <1>4, <1>5, <1>6, <1>7

LEMMA CountsStall ==
  ASSUME IInv, TypeOK', NEW j \in Jobs, StalledFound(j) \/ LockLost(j), NEW i \in Jobs
  PROVE  CountOk(i)' /\ CauseOk(i)'
<1>1. /\ UNCHANGED <<run, sent>> /\ job \in [Jobs -> Job] /\ None \notin Workers
      /\ job' = [job EXCEPT ![j] = Stalled(job[j])] /\ job[j].state = "active"
      /\ causes'[j] = causes[j] + 1 /\ \A k \in Jobs : causes[k] <= causes'[k]
  BY CauseType, NoneAssumption DEF StalledFound, LockLost, Stall, IInv, TypeOK, provider
<1>2. CASE i # j
  <2>1. job'[i] = job[i]
    BY <1>1, <1>2
  <2>2. InFlight(i)' = InFlight(i) /\ Open(i)' = Open(i)
    BY <1>1, <2>1 DEF InFlight, Open
  <2> QED
    BY <1>1, <2>1, <2>2, StillCounted
<1>3. CASE i = j
  <2>1. /\ job'[j].by = None /\ job'[j].made = job[j].made
        /\ job'[j].stalled = job[j].stalled + 1
        /\ job'[j].state = IF job[j].stalled < 1 THEN "waiting" ELSE "failed"
        /\ FormOf[j] # "direct"
    BY <1>1, CountsBefore DEF Stalled, MaxStalled, Job, JobOk
  <2>2. InFlight(j)' \subseteq InFlight(j) /\ Open(j)' \subseteq Open(j)
    BY <1>1, <2>1 DEF InFlight, Open
  <2>3. /\ Cardinality(InFlight(j)') <= Cardinality(InFlight(j))
        /\ Cardinality(Open(j)') <= Cardinality(Open(j))
    BY <2>2, SlotCounts, FewerSlots
  <2>4. CountOk(j)'
    BY <1>1, <2>1, <2>3, CountsBefore DEF CountOk
  <2>5. CauseOk(j)'
    BY <1>1, <2>1, <2>3, CountsBefore DEF CauseOk
  <2> QED
    BY <1>3, <2>4, <2>5
<1> QED
  BY <1>2, <1>3

LEMMA CountsRestart ==
  ASSUME IInv, TypeOK', Restart, NEW i \in Jobs
  PROVE  CountOk(i)' /\ CauseOk(i)'
<1>1. /\ run' = [w \in Workers |-> NoRun] /\ UNCHANGED <<sent, causes>>
      /\ job'[i] = IF job[i].state \in {"row", "direct"}
                   THEN [job[i] EXCEPT !.state = "gone"] ELSE job[i]
      /\ None # i /\ NoRun.job = None
  BY NoneAssumption DEF Restart, NoRun
<1>2. /\ job'[i].made = job[i].made /\ job'[i].stalled = job[i].stalled
      /\ job'[i].by = job[i].by
      /\ \/ job'[i].state = job[i].state
         \/ job[i].state \in {"row", "direct"} /\ job'[i].state = "gone"
  BY <1>1, CountsBefore DEF Job
<1>3. InFlight(i)' \subseteq InFlight(i) /\ Open(i)' \subseteq Open(i)
  BY <1>1 DEF InFlight, Open
<1>4. /\ Cardinality(InFlight(i)') <= Cardinality(InFlight(i))
      /\ Cardinality(Open(i)') <= Cardinality(Open(i))
  BY <1>3, SlotCounts, FewerSlots
<1>5. CountOk(i)'
  <2>1. CASE job'[i].state = job[i].state
    BY <1>1, <1>2, <1>4, <2>1, CountsBefore DEF CountOk
  <2>2. CASE job[i].state = "row" /\ job'[i].state = "gone"
    BY <1>1, <1>2, <1>4, <2>2, CountsBefore DEF CountOk
  <2>3. CASE job[i].state = "direct"
    BY <2>3, CountsBefore DEF CountOk, JobOk
  <2> QED
    BY <1>2, <2>1, <2>2, <2>3
<1>6. CauseOk(i)'
  BY <1>1, <1>2, <1>4, CountsBefore DEF CauseOk
<1> QED
  BY <1>5, <1>6

LEMMA CountsStep ==
  ASSUME IInv, [Next]_vars
  PROVE  Counts'
<1> SUFFICES ASSUME NEW i \in Jobs PROVE CountOk(i)' /\ CauseOk(i)'
  BY DEF Counts
<1>1. TypeOK'
  BY TypeStep
<1>2. ASSUME \/ \E j \in Jobs : \E n \in 1..sent[j], s \in Reports : ProviderReports(j, n, s)
             \/ \E c \in inbox : callbackFind(c) \/ callbackWrite(c)
             \/ UNCHANGED vars
      PROVE  CountOk(i)' /\ CauseOk(i)'
  <2>1. UNCHANGED <<job, run, sent, causes>>
    BY <1>2 DEF ProviderReports, callbackFind, callbackWrite, vars, provider
  <2>2. InFlight(i)' = InFlight(i) /\ Open(i)' = Open(i)
    BY <2>1 DEF InFlight, Open
  <2> QED
    BY <1>1, <2>1, <2>2, StillCounted, CountsBefore
<1>3. ASSUME NEW w \in Workers, Work(w) \/ WorkFails(w)
      PROVE  CountOk(i)' /\ CauseOk(i)'
  BY <1>1, <1>3, CountsMove, CountsSettle DEF Work, WorkFails
<1> QED
  BY <1>1, <1>2, <1>3, CountsProducer, CountsStart, CountsStall, CountsRestart DEF Next
-----------------------------------------------------------------------------
LEMMA InitInv == Init => IInv
<1> SUFFICES ASSUME Init PROVE IInv
  OBVIOUS
<1> USE DEF Init
<1>1. [Queued EXCEPT !.state = "none"] \in Job
  BY DEF Queued, Job, JobState
<1>2. NoRun \in Run /\ NoRun.pc = "idle" /\ NoRun.job = None
  BY DEF NoRun, Run, Pc
<1>3. TypeOK
  BY <1>1, <1>2, BoundsAssumption DEF TypeOK, Answer
<1>4. Shape
  <2>1. \A w \in Workers : RunOk(w)
    BY <1>2 DEF RunOk
  <2>2. None \notin {"enqueued", "invalid", "sent", "refused"}
    BY NoneAssumption
  <2>3. \A j \in Jobs : JobOk(j)
    BY <2>2 DEF JobOk, Queued
  <2> QED
    BY <2>1, <2>3 DEF Shape
<1>5. LogIsTrue
  BY DEF LogIsTrue, RowsOf
<1>6. AnswersAreTrue
  BY NoneAssumption DEF AnswersAreTrue, Queued
<1>7. Counts
  <2> SUFFICES ASSUME NEW j \in Jobs PROVE CountOk(j) /\ CauseOk(j)
    BY DEF Counts
  <2>1. InFlight(j) = {} /\ Open(j) = {}
    BY <1>2 DEF InFlight, Open
  <2>2. Cardinality({}) = 0
    BY FS_EmptySet
  <2>3. AttemptsOf[j] \in {3, 5}
    BY AttemptsAssumption
  <2> QED
    BY <2>1, <2>2, <2>3 DEF CountOk, CauseOk, Queued
<1> QED
  BY <1>3, <1>4, <1>5, <1>6, <1>7 DEF IInv

LEMMA StepInv == IInv /\ [Next]_vars => IInv'
  BY TypeStep, RunsStep, JobsStep, CallbacksStep, RowsStep, AnswersStep, CountsStep
  DEF IInv, Shape

\* Types, shapes and counts are inductive together: the properties below follow.
THEOREM Invariance == Spec => []IInv
  BY InitInv, StepInv, PTL DEF Spec

\* Every variable keeps to its type, whatever jobs, slots and faults there are.
THEOREM TypeCorrect == Spec => []TypeOK
  BY Invariance, PTL DEF IInv

\* However many attempts, stalls, lost answers and callbacks overtake each
\* other, no row of the log claims what did not happen.
THEOREM LogTrue == Spec => []LogIsTrue
  BY Invariance, PTL DEF IInv

\* Nobody is told what did not happen, whatever fails between the steps.
THEOREM AnswersTrue == Spec => []AnswersAreTrue
  BY Invariance, PTL DEF IInv

LEMMA CauseBound == IInv => CopiesNeedCause
<1> SUFFICES ASSUME IInv, NEW j \in Jobs PROVE sent[j] <= 1 + causes[j]
  BY DEF CopiesNeedCause
<1> QED
  BY CountsBefore DEF CauseOk

\* Every copy of a message but the first has its own lost answer, lost write or
\* stall: there are as many of these as copies, not merely some.
THEOREM CopiesCaused == Spec => []CopiesNeedCause
  BY Invariance, CauseBound, PTL
-----------------------------------------------------------------------------
(* The promise of Delivery. *)
LEMMA CopyBound ==
  ASSUME IInv, NEW j \in Jobs
  PROVE  /\ sent[j] + (IF FormOf[j] = "direct" THEN 0 ELSE Cardinality(InFlight(j)))
              <= MaxCopies[j]
         /\ MaxCopies[j] \in Nat
<1>1. CASE FormOf[j] = "direct"
  BY <1>1, CountsBefore DEF JobOk, MaxCopies
<1>2. CASE FormOf[j] # "direct"
  <2>1. job[j].state \in JobState /\ JobOk(j) /\ CountOk(j)
    BY CountsBefore DEF Job
  <2>2. job[j].state # "direct"
    BY <1>2, <2>1 DEF JobOk
  <2> QED
    BY <1>2, <2>1, <2>2, CountsBefore DEF CountOk, MaxCopies, MaxStalled, JobState
<1> QED
  BY <1>1, <1>2

OutcomeOf(j) == CASE job[j].state = "completed" -> "sent"
                  [] job[j].state = "failed" -> "dropped"
                  [] OTHER -> None

LEMMA InitPromised == Init => Promised!Init
<1> SUFFICES ASSUME Init PROVE Promised!Init
  OBVIOUS
<1>1. \A j \in Jobs : job[j].state = "none"
  BY DEF Init, Queued
<1> QED
  BY <1>1 DEF Init, Promised!Init

\* Who asks for a message, and nothing else, is Ask.
LEMMA AskStep ==
  ASSUME NEW j \in Jobs, sent' = sent,
         \A i \in Jobs \ {j} : job'[i].state = job[i].state,
         job[j].state \notin {"completed", "failed"},
         job'[j].state \notin {"none", "completed", "failed"}
  PROVE  Promised!Ask(j)
<1>1. \A i \in Jobs : OutcomeOf(i)' = OutcomeOf(i)
  BY DEF OutcomeOf
<1>2. [i \in Jobs |-> OutcomeOf(i)]' = [i \in Jobs |-> OutcomeOf(i)]
  BY <1>1
<1> QED
  BY <1>2 DEF Promised!Ask, OutcomeOf

\* Nobody asks, nothing goes out and nothing is decided.
LEMMA StillStep ==
  ASSUME sent' = sent,
         \A i \in Jobs : \/ job'[i].state = job[i].state
                         \/ {job[i].state, job'[i].state}
                            \subseteq {"row", "direct", "gone", "waiting", "active"}
  PROVE  UNCHANGED Promised!delivery
<1>1. \A i \in Jobs : /\ OutcomeOf(i)' = OutcomeOf(i)
                      /\ job'[i].state = "none" <=> job[i].state = "none"
  BY DEF OutcomeOf
<1>2. /\ [i \in Jobs |-> OutcomeOf(i)]' = [i \in Jobs |-> OutcomeOf(i)]
      /\ {i \in Jobs : job[i].state # "none"}' = {i \in Jobs : job[i].state # "none"}
  BY <1>1
<1> QED
  BY <1>2 DEF Promised!delivery, OutcomeOf

\* The queue ends a job, or puts it back.
LEMMA DecideStep ==
  ASSUME NEW j \in Jobs, sent' = sent,
         \A i \in Jobs \ {j} : job'[i].state = job[i].state,
         job[j].state = "active", job'[j].state \in {"active", "waiting", "completed", "failed"},
         job'[j].state = "completed" => sent[j] > 0
  PROVE  [Promised!Next]_(Promised!delivery)
<1>1. CASE job'[j].state \in {"active", "waiting"}
  BY <1>1, StillStep
<1>2. CASE job'[j].state \in {"completed", "failed"}
  <2>0. PICK o \in {"sent", "dropped"} :
                 o = IF job'[j].state = "completed" THEN "sent" ELSE "dropped"
    OBVIOUS
  <2>1. /\ \A i \in Jobs : OutcomeOf(i)' = IF i = j THEN o ELSE OutcomeOf(i)
        /\ OutcomeOf(j) = None
    BY <1>2, <2>0 DEF OutcomeOf
  <2>2. /\ [i \in Jobs |-> OutcomeOf(i)]' = [[i \in Jobs |-> OutcomeOf(i)] EXCEPT ![j] = o]
        /\ [i \in Jobs |-> OutcomeOf(i)][j] = None
    BY <2>1
  <2>3. /\ {i \in Jobs : job[i].state # "none"}' = {i \in Jobs : job[i].state # "none"}
        /\ j \in {i \in Jobs : job[i].state # "none"}
    <3>1. \A i \in Jobs : job'[i].state # "none" <=> job[i].state # "none"
      BY <1>2
    <3> QED
      BY <3>1
  <2>4. Promised!Decide(j, o)
    BY <1>2, <2>0, <2>2, <2>3 DEF Promised!Decide, OutcomeOf
  <2> QED
    BY <2>4 DEF Promised!Next
<1> QED
  BY <1>1, <1>2

\* A message goes out: its slot is among those the bound has counted.
LEMMA CopyStep ==
  ASSUME IInv, NEW w \in Workers, send(w) \/ sendTimesOut(w)
  PROVE  [Promised!Next]_(Promised!delivery)
<1>1. PICK j \in Jobs : j = run[w].job /\ job[j].state \in Running /\ run[w].pc = "send"
  BY DEF send, sendTimesOut, IInv, Shape, RunOk
<1>2. /\ sent' = [sent EXCEPT ![j] = @ + 1]
      /\ \A i \in Jobs : \/ job'[i].state = job[i].state
                         \/ job[i].state = "direct" /\ job'[i].state = "gone"
  <2>1. job \in [Jobs -> Job]
    BY DEF IInv, TypeOK
  <2>2. CASE job' = job
    BY <1>1, <2>2 DEF send, sendTimesOut
  <2>3. CASE FormOf[j] = "direct" /\ job' = [job EXCEPT ![j].state = "gone"]
    <3>1. job[j].state = "direct"
      BY <1>1, <2>3 DEF IInv, Shape, JobOk, Running
    <3>2. sent' = [sent EXCEPT ![j] = @ + 1]
      BY <1>1 DEF send, sendTimesOut
    <3>3. \A i \in Jobs \ {j} : job'[i] = job[i]
      BY <2>1, <2>3
    <3>4. job'[j].state = "gone"
      BY <2>1, <2>3 DEF Job
    <3> QED
      BY <3>1, <3>2, <3>3, <3>4
  <2> QED
    BY <1>1, <2>2, <2>3 DEF send, sendTimesOut, SendThrows, Close
<1>3. \A i \in Jobs : /\ OutcomeOf(i)' = OutcomeOf(i)
                      /\ job'[i].state = "none" <=> job[i].state = "none"
  BY <1>2 DEF OutcomeOf
<1>4. /\ [i \in Jobs |-> OutcomeOf(i)]' = [i \in Jobs |-> OutcomeOf(i)]
      /\ {i \in Jobs : job[i].state # "none"}' = {i \in Jobs : job[i].state # "none"}
      /\ j \in {i \in Jobs : job[i].state # "none"}
  BY <1>1, <1>3 DEF Running
<1>5. sent[j] < MaxCopies[j]
  <2>1. CASE FormOf[j] = "direct"
    BY <1>1, <2>1 DEF IInv, Shape, RunOk, MaxCopies
  <2>2. CASE FormOf[j] # "direct"
    <3>1. w \in InFlight(j)
      BY <1>1 DEF InFlight
    <3>2. Cardinality(InFlight(j)) # 0
      <4>1. IsFiniteSet(InFlight(j))
        BY SlotCounts, WorkersAssumption, FS_Subset
      <4> QED
        BY <3>1, <4>1, FS_EmptySet
    <3> QED
      BY <2>2, <3>2, CopyBound, CountsBefore
  <2> QED
    BY <2>1, <2>2
<1>6. Promised!Copy(j)
  BY <1>2, <1>4, <1>5 DEF Promised!Copy, OutcomeOf
<1> QED
  BY <1>6 DEF Promised!Next

LEMMA PromisedStep ==
  ASSUME IInv, [Next]_vars
  PROVE  [Promised!Next]_(Promised!delivery)
<1>0. job \in [Jobs -> Job] /\ run \in [Workers -> Run]
  BY DEF IInv, TypeOK
<1>1. ASSUME NEW j \in Jobs,
             \/ importRow(j) \/ addMessageSend(j) \/ addJob(j) \/ importFails(j)
             \/ importAnswerLost(j) \/ \E w \in Workers : sendDirect(w, j)
      PROVE  [Promised!Next]_(Promised!delivery)
  <2>1. /\ sent' = sent /\ job[j].state \in {"none", "row"}
        /\ \E s \in {"row", "waiting", "gone", "direct"} : job' = [job EXCEPT ![j].state = s]
    BY <1>1 DEF importRow, addMessageSend, addJob, importFails, importAnswerLost, sendDirect,
       Asked, provider
  <2>2. /\ \A i \in Jobs \ {j} : job'[i].state = job[i].state
        /\ job'[j].state \in {"row", "waiting", "gone", "direct"}
    BY <1>0, <2>1 DEF Job
  <2>3. Promised!Ask(j)
    BY <2>1, <2>2, AskStep
  <2> QED
    BY <2>3 DEF Promised!Next
<1>2. ASSUME NEW j \in Jobs, NEW w \in Workers, Take(w, j)
      PROVE  [Promised!Next]_(Promised!delivery)
  <2>1. /\ sent' = sent /\ job[j].state = "waiting"
        /\ job' = [job EXCEPT ![j].state = "active", ![j].by = w]
    BY <1>0, <1>2 DEF Take, Taken, provider
  <2> QED
    BY <1>0, <2>1, StillStep DEF Job
<1>3. ASSUME NEW j \in Jobs, StalledFound(j) \/ LockLost(j)
      PROVE  [Promised!Next]_(Promised!delivery)
  <2>1. /\ sent' = sent /\ job[j].state = "active" /\ job' = [job EXCEPT ![j] = Stalled(job[j])]
    BY <1>3 DEF StalledFound, LockLost, Stall, provider
  <2>2. Stalled(job[j]).state \in {"waiting", "failed"}
    BY <1>0 DEF Stalled, Job
  <2>3. /\ \A i \in Jobs \ {j} : job'[i].state = job[i].state
        /\ job'[j].state \in {"waiting", "failed"}
    BY <1>0, <2>1, <2>2
  <2> QED
    BY <2>1, <2>3, DecideStep
<1>4. ASSUME NEW w \in Workers, Complete(w) \/ Retry(w)
      PROVE  [Promised!Next]_(Promised!delivery)
  <2>1. PICK j \in Jobs : j = run[w].job /\ JobOk(j) /\ (run[w].pc = "done" => sent[j] > 0)
    BY <1>4 DEF IInv, Shape, RunOk, Complete, Retry
  <2>2. CASE job' = job
    BY <1>4, <2>2, StillStep DEF Complete, Retry, Settle, provider
  <2>3. CASE Complete(w) /\ job[j].by = w /\ job' = [job EXCEPT ![j] = Completed(job[j])]
    <3>1. job[j].state = "active" /\ Completed(job[j]).state = "completed"
      BY <1>0, <2>1, <2>3, NoneAssumption DEF Completed, JobOk, Job
    <3>2. /\ \A i \in Jobs \ {j} : job'[i].state = job[i].state
          /\ job'[j].state = "completed" /\ sent' = sent /\ sent[j] > 0
      BY <1>0, <2>1, <2>3, <3>1 DEF Complete, Settle, provider
    <3> QED
      BY <3>1, <3>2, DecideStep
  <2>4. CASE Retry(w) /\ job[j].by = w /\ job' = [job EXCEPT ![j] = Retried(job[j], AttemptsOf[j])]
    <3>1. job[j].state = "active" /\ Retried(job[j], AttemptsOf[j]).state \in {"waiting", "failed"}
      BY <1>0, <2>1, <2>4, NoneAssumption DEF Retried, JobOk, Job
    <3>2. /\ \A i \in Jobs \ {j} : job'[i].state = job[i].state
          /\ job'[j].state \in {"waiting", "failed"} /\ sent' = sent
      BY <1>0, <2>1, <2>4, <3>1 DEF Retry, Settle, provider
    <3> QED
      BY <3>1, <3>2, DecideStep
  <2> QED
    BY <1>0, <1>4, <2>1, <2>2, <2>3, <2>4 DEF Complete, Retry, Settle, Settled
<1>5. ASSUME Restart
      PROVE  [Promised!Next]_(Promised!delivery)
  <2>1. sent' = sent
    BY <1>5 DEF Restart
  <2>2. ASSUME NEW i \in Jobs
        PROVE  \/ job'[i].state = job[i].state
               \/ job[i].state \in {"row", "direct"} /\ job'[i].state = "gone"
    BY <1>0, <1>5 DEF Restart, Job
  <2> QED
    BY <2>1, <2>2, StillStep
<1>6. ASSUME NEW w \in Workers,
             \/ load(w) \/ updateRow(w) \/ markContacted(w) \/ failRow(w) \/ loadFails(w)
             \/ updateFails(w) \/ contactFails(w) \/ failRowFails(w)
      PROVE  [Promised!Next]_(Promised!delivery)
  BY <1>6, StillStep DEF load, updateRow, markContacted, failRow, loadFails, updateFails,
     contactFails, failRowFails, provider
<1>7. ASSUME NEW w \in Workers, persist(w) \/ persistFails(w) \/ sendRejected(w)
      PROVE  [Promised!Next]_(Promised!delivery)
  <2>1. PICK j \in Jobs : j = run[w].job /\ JobOk(j) /\ job[j].state \in Running
    BY <1>7 DEF IInv, Shape, RunOk, persist, persistFails, sendRejected
  <2>2. /\ sent' = sent
        /\ \/ job' = job
           \/ FormOf[j] = "direct" /\ job' = [job EXCEPT ![j].state = "gone"]
    BY <1>7, <2>1 DEF persist, persistFails, sendRejected, SendThrows, Close, provider
  <2>3. FormOf[j] = "direct" => job[j].state = "direct"
    BY <2>1 DEF JobOk, Running
  <2> QED
    BY <1>0, <2>1, <2>2, <2>3, StillStep DEF Job
<1>8. ASSUME \/ \E j \in Jobs : \E n \in 1..sent[j], s \in Reports : ProviderReports(j, n, s)
             \/ \E c \in inbox : callbackFind(c) \/ callbackWrite(c)
             \/ UNCHANGED vars
      PROVE  [Promised!Next]_(Promised!delivery)
  BY <1>8, StillStep DEF ProviderReports, callbackFind, callbackWrite, vars, provider
<1> QED
  BY <1>1, <1>2, <1>3, <1>4, <1>5, <1>6, <1>7, <1>8, CopyStep DEF Next, Work, WorkFails

\* Sending implements Delivery: whatever fails, stalls, restarts or overtakes,
\* a message goes out at most once per attempt and once for its stall, never
\* unasked, and what became of a job is decided once and truly.
THEOREM SendingDelivers == Spec => ImplementsDelivery
  BY InitPromised, PromisedStep, Invariance, PTL
  DEF Spec, ImplementsDelivery, Promised!Spec

LEMMA KeptNow == IInv => Promised!Kept
<1> SUFFICES ASSUME IInv PROVE Promised!Kept
  OBVIOUS
<1> SUFFICES ASSUME NEW j \in Jobs
             PROVE  /\ sent[j] <= MaxCopies[j]
                    /\ sent[j] > 0 \/ OutcomeOf(j) # None => job[j].state # "none"
                    /\ OutcomeOf(j) = "sent" => sent[j] > 0
  BY DEF Promised!Kept, OutcomeOf
<1>1. /\ OutcomeOf(j) = "sent" => job[j].state = "completed"
      /\ OutcomeOf(j) # None => job[j].state # "none"
  BY NoneAssumption DEF OutcomeOf
<1>2. AnswerOk(j)
  BY AnswersByJob DEF IInv
<1> QED
  BY <1>1, <1>2, CopyBound, CountsBefore DEF AnswerOk, JobOk

\* What those who ask may rely on: never more copies than attempts and one.
THEOREM DeliveryKept == Spec => []Promised!Kept
  BY Invariance, KeptNow, PTL
-----------------------------------------------------------------------------
(* What the log tells while only providers refuse: one slot has a job at a *)
(* time, which holds its lock.                                             *)

EarlierFailed(j) ==
    \A i \in 1..(Len(log[j]) - 1) : log[j][i].status = "FAILED" /\ log[j][i].ext = None

Last(j) == log[j][Len(log[j])]
Fresh(j) == Len(log[j]) > 0 => Last(j).ext = None
LastFailed(j) == Len(log[j]) > 0 /\ Last(j).status = "FAILED" /\ Last(j).ext = None
LastSent(j) == Len(log[j]) > 0 /\ Last(j).ext # None /\ Last(j).status \in Shown(j, Last(j))
Over(j) == log[j] = <<>> \/ LastFailed(j)

\* A row that a callback has found exists and has an id.
CallbackRows(j) ==
    \A c \in inbox : c.job = j /\ c.row # 0 =>
        c.row \in 1..Len(log[j]) /\ log[j][c.row].ext # None

\* A callback that has found a row found it by the id the row still has.
Found(j) == \A c \in inbox : c.job = j /\ c.row # 0 => log[j][c.row].ext = c.id

Marked(j) == j \in WithCase => j \in contacted

HeldOk(j) ==
    /\ job[j].state = "active" => job[j].by \in Workers /\ run[job[j].by].job = j
    /\ job[j].state = "gone" => FormOf[j] = "direct" /\ (told[j] = "sent" <=> log[j] # <<>>)
    /\ FormOf[j] = "byId" /\ job[j].state # "none" => Len(log[j]) = 1
    /\ FormOf[j] # "direct" => \A w \in Workers :
           run[w].job = j => job[j].state = "active" /\ job[j].by = w

\* The last row of a job that slot w is at.
SlotTells(j, w) ==
    /\ run[w].pc = "load" /\ FormOf[j] = "full" => Over(j)
    /\ run[w].pc \in {"load", "send", "update", "fail"} => Fresh(j)
    /\ run[w].pc \in {"send", "update", "fail"} => run[w].row = Len(log[j])
    /\ run[w].pc \in {"contact", "done"} => LastSent(j)
    /\ run[w].pc = "done" => Marked(j)
    /\ run[w].pc = "throw" => LastFailed(j)

JobTells(j) ==
    /\ EarlierFailed(j) /\ Found(j)
    /\ job[j].state = "waiting" => Fresh(j)
    /\ job[j].state = "waiting" /\ FormOf[j] = "full" => Over(j)
    /\ job[j].state = "completed" => LastSent(j) /\ Marked(j)
    /\ job[j].state = "failed" => LastFailed(j)
    /\ \A w \in Workers : run[w].job = j => SlotTells(j, w)

Tidy(j) == HeldOk(j) /\ (FormOf[j] # "direct" => JobTells(j))

AllTidy == \A j \in Jobs : Tidy(j)

\* A reported status only adds to what a row may show.
LEMMA LastStays ==
  ASSUME NEW i \in Jobs, log'[i] = log[i], reported[i] \subseteq reported'[i]
  PROVE  /\ EarlierFailed(i) => EarlierFailed(i)'
         /\ Fresh(i) => Fresh(i)'
         /\ LastFailed(i) => LastFailed(i)'
         /\ LastSent(i) => LastSent(i)'
         /\ Over(i) => Over(i)'
<1>1. Last(i)' = Last(i)
  BY DEF Last
<1>2. Shown(i, Last(i)) \subseteq Shown(i, Last(i))'
  BY <1>1 DEF Shown
<1>3. LastSent(i) => LastSent(i)'
  BY <1>1, <1>2 DEF LastSent
<1>4. LastFailed(i) => LastFailed(i)'
  BY <1>1 DEF LastFailed
<1> QED
  BY <1>1, <1>3, <1>4 DEF EarlierFailed, Fresh, Over

\* A step that does not concern a job, but for what is reported of it.
LEMMA TidyStays ==
  ASSUME NEW i \in Jobs, Tidy(i), job'[i] = job[i], log'[i] = log[i], told'[i] = told[i],
         reported[i] \subseteq reported'[i], contacted \subseteq contacted',
         \A c \in inbox' : c.job = i /\ c.row # 0 => c \in inbox \/ log[i][c.row].ext = c.id,
         \A v \in Workers : run[v].job = i \/ run'[v].job = i => run'[v] = run[v]
  PROVE  Tidy(i)'
<1>1. HeldOk(i)'
  BY DEF Tidy, HeldOk
<1>2. Found(i) => Found(i)'
  BY DEF Found
<1>3. Marked(i) => Marked(i)'
  BY DEF Marked
<1>4. \A v \in Workers : run'[v].job = i /\ SlotTells(i, v) => SlotTells(i, v)'
  BY <1>3, LastStays DEF SlotTells
<1>5. JobTells(i) => JobTells(i)'
  BY <1>2, <1>3, <1>4, LastStays DEF JobTells
<1> QED
  BY <1>1, <1>5 DEF Tidy

\* A step of slot w, as far as it does not concern a job.
LEMMA TidyOthers ==
  ASSUME AllTidy, NEW w \in Workers, NEW j \in Jobs, NEW i \in Jobs \ {j},
         run[w].job \in {j, None}, run'[w].job \in {j, None},
         \A v \in Workers \ {w} : run'[v] = run[v],
         job'[i] = job[i], log'[i] = log[i], told'[i] = told[i], UNCHANGED <<reported, inbox>>,
         contacted \subseteq contacted'
  PROVE  Tidy(i)'
<1>1. i # None
  BY NoneAssumption
<1>2. \A v \in Workers : run[v].job = i \/ run'[v].job = i => run'[v] = run[v]
  BY <1>1
<1> QED
  BY <1>2, TidyStays DEF AllTidy

\* The first row of a job has no id, and no callback has found a row before it.
LEMMA FirstRow ==
  ASSUME IInv, NEW j \in Jobs, UNCHANGED inbox,
         log[j] \in {<<>>, <<[status |-> "QUEUED", ext |-> None]>>},
         log'[j] \in {<<>>, <<[status |-> "QUEUED", ext |-> None]>>}
  PROVE  EarlierFailed(j)' /\ Fresh(j)' /\ Found(j)'
<1>1. \A i \in 1..Len(log[j]) : log[j][i].ext = None
  OBVIOUS
<1>2. \A c \in inbox : c.job = j => c.row = 0
  BY <1>1 DEF IInv, Shape, CallbackOk
<1>3. Found(j)'
  BY <1>2 DEF Found
<1>4. CASE log'[j] = <<>>
  <2>1. Len(log'[j]) = 0
    BY <1>4
  <2> QED
    BY <1>3, <2>1 DEF EarlierFailed, Fresh
<1>5. CASE log'[j] = <<[status |-> "QUEUED", ext |-> None]>>
  <2>1. Len(log'[j]) = 1 /\ log'[j][1].ext = None
    BY <1>5
  <2> QED
    BY <1>3, <2>1 DEF EarlierFailed, Fresh, Last
<1> QED
  BY <1>4, <1>5

LEMMA TidyProducer ==
  ASSUME IInv, AllTidy, NEW j \in Jobs, importRow(j) \/ addMessageSend(j) \/ addJob(j)
  PROVE  AllTidy'
<1> USE DEF provider
<1>1. /\ job \in [Jobs -> Job] /\ log \in [Jobs -> Seq(Row)] /\ told \in [Jobs -> Answer]
      /\ UNCHANGED <<run, reported, inbox, contacted>>
      /\ JobOk(j) /\ HeldOk(j)
  BY DEF IInv, Shape, TypeOK, AllTidy, Tidy, importRow, addMessageSend, addJob
<1>2. \A i \in Jobs \ {j} : job'[i] = job[i] /\ log'[i] = log[i] /\ told'[i] = told[i]
  BY <1>1 DEF importRow, addMessageSend, addJob, Saved
<1>3. \A i \in Jobs \ {j} : Tidy(i)'
  BY <1>1, <1>2, TidyStays DEF AllTidy
<1>4. job[j].state \in {"none", "row"} /\ FormOf[j] # "direct" /\ \A w \in Workers : run[w].job # j
  BY <1>1 DEF HeldOk, JobOk, importRow, addMessageSend, addJob, Asked
<1>5. CASE importRow(j)
  <2>1. /\ log'[j] = <<[status |-> "QUEUED", ext |-> None]>> /\ job'[j].state = "row"
        /\ FormOf[j] = "byId"
    BY <1>1, <1>5 DEF importRow, Saved, Job, Asked
  <2>2. HeldOk(j)'
    BY <1>1, <1>4, <2>1 DEF HeldOk
  <2>3. JobTells(j)'
    <3>1. log[j] = <<>> \/ log[j] = log'[j]
      BY <1>1, <1>4, <2>1 DEF JobOk
    <3> QED
      BY <1>1, <1>4, <2>1, <3>1, FirstRow DEF JobTells
  <2> QED
    BY <1>3, <2>2, <2>3 DEF AllTidy, Tidy
<1>6. CASE addMessageSend(j)
  <2>1. /\ log'[j] = <<[status |-> "QUEUED", ext |-> None]>> /\ job'[j].state = "waiting"
        /\ FormOf[j] = "byId"
    BY <1>1, <1>6 DEF addMessageSend, Job, JobOk
  <2>2. HeldOk(j)'
    BY <1>1, <1>4, <2>1 DEF HeldOk
  <2>3. JobTells(j)'
    <3>1. log[j] = <<>> \/ log[j] = log'[j]
      BY <1>1, <1>4, <2>1 DEF JobOk
    <3> QED
      BY <1>1, <1>4, <2>1, <3>1, FirstRow DEF JobTells
  <2> QED
    BY <1>3, <2>2, <2>3 DEF AllTidy, Tidy
<1>7. CASE addJob(j)
  <2>1. log'[j] = <<>> /\ job'[j].state = "waiting" /\ FormOf[j] = "full"
    BY <1>1, <1>7 DEF addJob, Job, JobOk, Asked
  <2>2. HeldOk(j)'
    BY <1>1, <1>4, <2>1 DEF HeldOk
  <2>3. JobTells(j)'
    <3>1. log[j] = <<>> \/ log[j] = log'[j]
      BY <1>1, <1>4, <2>1 DEF JobOk
    <3> QED
      BY <1>1, <1>4, <2>1, <3>1, FirstRow DEF JobTells, Over
  <2> QED
    BY <1>3, <2>2, <2>3 DEF AllTidy, Tidy
<1> QED
  BY <1>5, <1>6, <1>7

LEMMA TidyStart ==
  ASSUME IInv, AllTidy, NEW j \in Jobs, NEW w \in Workers, sendDirect(w, j) \/ Take(w, j)
  PROVE  AllTidy'
<1> USE DEF provider
<1>1. /\ job \in [Jobs -> Job] /\ log \in [Jobs -> Seq(Row)] /\ run \in [Workers -> Run]
      /\ UNCHANGED <<log, told, reported, inbox, contacted>>
      /\ JobOk(j) /\ HeldOk(j) /\ run[w].job = None /\ j # None
  <2>1. /\ job \in [Jobs -> Job] /\ log \in [Jobs -> Seq(Row)] /\ run \in [Workers -> Run]
        /\ JobOk(j) /\ RunOk(w) /\ j # None
    BY NoneAssumption DEF IInv, Shape, TypeOK
  <2>2. UNCHANGED <<log, told, reported, inbox, contacted>> /\ run[w].pc = "idle"
    BY DEF sendDirect, Take
  <2>3. HeldOk(j)
    BY DEF AllTidy, Tidy
  <2>4. run[w].job = None
    BY <2>1, <2>2 DEF RunOk, NoRun
  <2> QED
    BY <2>1, <2>2, <2>3, <2>4
<1>2. /\ \A v \in Workers \ {w} : run'[v] = run[v]
      /\ run'[w].job = j
      /\ \A i \in Jobs \ {j} : job'[i] = job[i]
  <2>1. PICK r : run' = [run EXCEPT ![w] = r] /\ r.job = j
    <3>1. \A pc : [NoRun EXCEPT !.pc = pc, !.job = j].job = j
      BY DEF NoRun
    <3> QED
      BY <3>1 DEF sendDirect, Take
  <2>2. PICK q : job' = [job EXCEPT ![j] = q]
    BY DEF sendDirect, Take
  <2> QED
    BY <1>1, <2>1, <2>2
<1>3. \A i \in Jobs \ {j} : Tidy(i)'
  BY <1>1, <1>2, TidyOthers
<1>4. CASE sendDirect(w, j)
  <2>1. FormOf[j] = "direct" /\ job'[j].state = "direct"
    BY <1>1, <1>4 DEF sendDirect, Asked, Job
  <2>2. HeldOk(j)'
    BY <2>1 DEF HeldOk
  <2> QED
    BY <1>3, <2>1, <2>2 DEF AllTidy, Tidy
<1>5. CASE Take(w, j)
  <2>1. /\ job[j].state = "waiting" /\ job'[j].state = "active" /\ job'[j].by = w
        /\ FormOf[j] # "direct" /\ run'[w].pc = "load"
    BY <1>1, <1>5 DEF Take, Taken, Job, JobOk, NoRun
  <2>2. \A v \in Workers : run'[v].job = j => v = w
    BY <1>1, <1>2, <2>1 DEF HeldOk
  <2>3. HeldOk(j)'
    BY <1>1, <1>2, <2>1, <2>2 DEF HeldOk
  <2>4. JobTells(j) => JobTells(j)'
    <3>1. /\ Over(j) => Over(j)'
          /\ Fresh(j) => Fresh(j)'
          /\ EarlierFailed(j) => EarlierFailed(j)'
          /\ Found(j) => Found(j)'
      BY <1>1, LastStays DEF Found
    <3>2. JobTells(j) => SlotTells(j, w)'
      BY <2>1, <3>1 DEF JobTells, SlotTells
    <3> QED
      BY <2>1, <2>2, <3>1, <3>2 DEF JobTells
  <2> QED
    BY <1>3, <2>3, <2>4 DEF AllTidy, Tidy
<1> QED
  BY <1>4, <1>5

\* A slot goes on with its job, which stays as it is.
LEMMA TidyGoesOn ==
  ASSUME IInv, AllTidy, NEW w \in Workers, NEW j \in Jobs, run[w].job = j, FormOf[j] # "direct",
         run'[w].job = j, \A v \in Workers \ {w} : run'[v] = run[v],
         UNCHANGED <<job, told, reported, inbox>>, contacted \subseteq contacted',
         \A i \in Jobs \ {j} : log'[i] = log[i],
         Len(log'[j]) = Len(log[j]) \/ FormOf[j] = "full",
         JobTells(j) => EarlierFailed(j)' /\ Found(j)' /\ SlotTells(j, w)'
  PROVE  AllTidy'
<1>1. \A i \in Jobs \ {j} : Tidy(i)'
  BY TidyOthers
<1>2. HeldOk(j) /\ job[j].state = "active" /\ job[j].by = w
  BY DEF AllTidy, Tidy, HeldOk
<1>3. \A v \in Workers : run'[v].job = j => v = w
  BY <1>2 DEF HeldOk
<1>4. HeldOk(j)'
  BY <1>2, <1>3 DEF HeldOk
<1>5. JobTells(j) => JobTells(j)'
  BY <1>2, <1>3 DEF JobTells
<1> QED
  BY <1>1, <1>4, <1>5 DEF AllTidy, Tidy

LEMMA TidyMove ==
  ASSUME IInv, AllTidy, NEW w \in Workers, NEW j \in Jobs, run[w].job = j, FormOf[j] # "direct",
         load(w) \/ send(w) \/ updateRow(w) \/ markContacted(w) \/ failRow(w)
  PROVE  AllTidy'
<1> USE DEF provider
<1>1. /\ run[w].pc # "idle" /\ j \in Jobs /\ RunOk(w)
      /\ run[w] \in Run /\ log[j] \in Seq(Row) /\ Len(log[j]) \in Nat
      /\ run \in [Workers -> Run] /\ log \in [Jobs -> Seq(Row)]
  BY Busy DEF IInv, TypeOK, Shape, load, send, updateRow, markContacted, failRow
<1>2. /\ run'[w].job = j /\ \A v \in Workers \ {w} : run'[v] = run[v]
      /\ UNCHANGED <<job, told, reported, inbox>> /\ contacted \subseteq contacted'
      /\ \A i \in Jobs \ {j} : log'[i] = log[i]
  BY <1>1 DEF load, send, updateRow, markContacted, failRow, Run
<1>3. j \in Jobs /\ run[w].job = j /\ FormOf[j] # "direct"
  BY <1>1
<1>4. CallbackRows(j)
  BY DEF IInv, Shape, CallbackOk, CallbackRows
<1>5. CASE load(w)
  <2>1. run'[w].pc = "send" /\ run'[w].row = Len(log'[j])
    BY <1>1, <1>5 DEF load, Run
  <2>2. JobTells(j) => Fresh(j) /\ EarlierFailed(j) /\ Found(j)
    BY <1>3, <1>5 DEF JobTells, SlotTells, load
  <2>3. CASE FormOf[j] = "full"
    <3>1. log'[j] = Append(log[j], [status |-> "QUEUED", ext |-> None])
      BY <1>1, <1>5, <2>3 DEF load
    <3>2. /\ Len(log'[j]) - 1 = Len(log[j]) /\ \A i \in 1..Len(log[j]) : log'[j][i] = log[j][i]
          /\ Len(log'[j]) > 0 /\ log'[j][Len(log'[j])].ext = None
      BY <1>1, <3>1, FreshRow
    <3>3. JobTells(j) => EarlierFailed(j)'
      <4>1. JobTells(j) => Over(j) /\ EarlierFailed(j)
        BY <1>3, <1>5, <2>3 DEF JobTells, SlotTells, load
      <4>2. JobTells(j) => \A i \in 1..Len(log[j]) : log[j][i].status = "FAILED" /\ log[j][i].ext = None
        BY <1>1, <4>1 DEF Over, LastFailed, Last, EarlierFailed
      <4> QED
        BY <3>2, <4>2 DEF EarlierFailed
    <3>4. JobTells(j) => Found(j)'
      BY <1>2, <1>4, <2>2, <3>2 DEF Found, CallbackRows
    <3>5. SlotTells(j, w)'
      BY <2>1, <3>2 DEF SlotTells, Fresh, Last
    <3> QED
      BY <1>2, <1>3, <2>3, <3>3, <3>4, <3>5, TidyGoesOn
  <2>4. CASE FormOf[j] # "full"
    <3>1. log'[j] = log[j]
      BY <1>5, <2>4 DEF load
    <3>2. JobTells(j) => EarlierFailed(j)' /\ Found(j)' /\ Fresh(j)'
      BY <1>2, <2>2, <3>1, LastStays DEF Found
    <3>3. JobTells(j) => SlotTells(j, w)'
      BY <2>1, <3>2 DEF SlotTells
    <3> QED
      BY <1>2, <1>3, <3>1, <3>2, <3>3, TidyGoesOn
  <2> QED
    BY <2>3, <2>4
<1>6. CASE send(w) \/ markContacted(w)
  <2>1. log' = log
    BY <1>6 DEF send, markContacted
  <2>2. /\ JobTells(j) => EarlierFailed(j)' /\ Found(j)'
        /\ Fresh(j) => Fresh(j)'
        /\ LastSent(j) => LastSent(j)'
    BY <1>2, <2>1, LastStays DEF JobTells, Found
  <2>3. JobTells(j) => SlotTells(j, w)
    BY <1>1 DEF JobTells
  <2>4. CASE send(w)
    <3>1. run[w].pc = "send" /\ run'[w].pc = "update" /\ run'[w].row = run[w].row
      BY <1>1, <1>3, <2>4 DEF send, Run
    <3>2. JobTells(j) => SlotTells(j, w)'
      BY <2>1, <2>2, <2>3, <3>1 DEF SlotTells
    <3> QED
      BY <1>2, <1>3, <2>1, <2>2, <3>2, TidyGoesOn
  <2>5. CASE markContacted(w)
    <3>1. run[w].pc = "contact" /\ run'[w].pc = "done" /\ j \in contacted'
      BY <1>1, <2>5 DEF markContacted, Run
    <3>2. JobTells(j) => SlotTells(j, w)'
      BY <2>1, <2>2, <2>3, <3>1 DEF SlotTells, Marked
    <3> QED
      BY <1>2, <1>3, <2>1, <2>2, <3>2, TidyGoesOn
  <2> QED
    BY <1>6, <2>4, <2>5
<1>7. CASE updateRow(w) \/ failRow(w)
  <2> DEFINE n == run[w].row
  <2>1. /\ n \in 1..Len(log[j]) /\ log[j][n] \in Row
        /\ JobTells(j) => n = Len(log[j]) /\ EarlierFailed(j) /\ Found(j) /\ log[j][n].ext = None
    <3>1. n \in 1..Len(log[j])
      BY <1>1, <1>3, <1>7 DEF RunOk, updateRow, failRow
    <3>2. JobTells(j) => n = Len(log[j]) /\ EarlierFailed(j) /\ Found(j) /\ Fresh(j)
      BY <1>1, <1>3, <1>7 DEF JobTells, SlotTells, updateRow, failRow
    <3> QED
      BY <1>1, <3>1, <3>2 DEF Fresh, Last
  <2>2. JobTells(j) => \A c \in inbox : c.job = j => c.row = 0
    <3>1. JobTells(j) => \A i \in 1..Len(log[j]) : log[j][i].ext = None
      BY <1>1, <2>1 DEF EarlierFailed
    <3> QED
      BY <1>4, <3>1 DEF CallbackRows
  <2>3. JobTells(j) => Found(j)'
    BY <1>2, <2>2 DEF Found
  <2>4. CASE updateRow(w)
    <3>1. /\ log'[j] = [log[j] EXCEPT ![n] = [status |-> "SENT", ext |-> run[w].ext]]
          /\ run'[w].pc = IF j \in WithCase THEN "contact" ELSE "done"
      BY <1>1, <2>4 DEF updateRow
    <3>2. /\ Len(log'[j]) = Len(log[j])
          /\ log'[j][n].status = "SENT" /\ log'[j][n].ext = run[w].ext
          /\ \A i \in 1..Len(log[j]) : i # n => log'[j][i] = log[j][i]
      BY <1>1, <2>1, <3>1
    <3>3. run[w].ext # None
      BY <1>1, <2>4, NoneAssumption DEF RunOk, updateRow, IInv, TypeOK
    <3>4. JobTells(j) => EarlierFailed(j)' /\ LastSent(j)'
      <4>1. JobTells(j) => LastSent(j)'
        BY <1>1, <2>1, <3>2, <3>3 DEF LastSent, Last, Shown
      <4>2. JobTells(j) => EarlierFailed(j)'
        BY <1>1, <2>1, <3>2 DEF EarlierFailed
      <4> QED
        BY <4>1, <4>2
    <3>5. JobTells(j) => SlotTells(j, w)'
      BY <3>1, <3>4 DEF SlotTells, Marked
    <3> QED
      BY <1>2, <1>3, <2>3, <3>2, <3>4, <3>5, TidyGoesOn
  <2>5. CASE failRow(w)
    <3>1. /\ log'[j] = [log[j] EXCEPT ![n].status = "FAILED"]
          /\ run'[w].pc = "throw"
      BY <1>1, <2>5 DEF failRow
    <3>2. /\ Len(log'[j]) = Len(log[j])
          /\ log'[j][n].status = "FAILED" /\ log'[j][n].ext = log[j][n].ext
          /\ \A i \in 1..Len(log[j]) : i # n => log'[j][i] = log[j][i]
      BY <1>1, <2>1, <3>1 DEF Row
    <3>3. JobTells(j) => EarlierFailed(j)' /\ LastFailed(j)'
      <4>1. JobTells(j) => LastFailed(j)'
        BY <1>1, <2>1, <3>2 DEF LastFailed, Last
      <4>2. JobTells(j) => EarlierFailed(j)'
        BY <1>1, <2>1, <3>2 DEF EarlierFailed
      <4> QED
        BY <4>1, <4>2
    <3>4. JobTells(j) => SlotTells(j, w)'
      BY <3>1, <3>3 DEF SlotTells
    <3> QED
      BY <1>2, <1>3, <2>3, <3>2, <3>3, <3>4, TidyGoesOn
  <2> QED
    BY <1>7, <2>4, <2>5
<1> QED
  BY <1>5, <1>6, <1>7

\* Direct requests leave a row exactly when they are answered as sent.
LEMMA TidyDirect ==
  ASSUME IInv, AllTidy, NEW w \in Workers, NEW j \in Jobs, run[w].job = j, FormOf[j] = "direct",
         send(w) \/ sendRejected(w) \/ persist(w)
  PROVE  AllTidy'
<1> USE DEF provider
<1>1. /\ job \in [Jobs -> Job] /\ told \in [Jobs -> Answer] /\ log \in [Jobs -> Seq(Row)]
      /\ run \in [Workers -> Run] /\ job[j].state = "direct" /\ log[j] = <<>>
      /\ UNCHANGED <<reported, inbox, contacted>>
  BY DEF IInv, TypeOK, Shape, RunOk, JobOk, Running, send, sendRejected, persist
<1>2. CASE send(w)
  <2>1. /\ UNCHANGED <<job, log, told>> /\ run'[w].job = j
        /\ \A v \in Workers \ {w} : run'[v] = run[v]
    BY <1>1, <1>2 DEF send, Run
  <2>2. \A i \in Jobs \ {j} : Tidy(i)'
    BY <1>1, <2>1, TidyOthers
  <2>3. HeldOk(j)'
    BY <1>1, <2>1 DEF HeldOk
  <2> QED
    BY <2>2, <2>3 DEF AllTidy, Tidy
<1>3. CASE sendRejected(w) \/ persist(w)
  <2>1. \/ Close(w, "refused") /\ log' = log
        \/ Close(w, "sent") /\ log' = SentRow(w)
    BY <1>3 DEF sendRejected, SendThrows, persist
  <2>2. /\ run'[w].job = None /\ \A v \in Workers \ {w} : run'[v] = run[v]
        /\ \A i \in Jobs \ {j} : job'[i] = job[i] /\ log'[i] = log[i] /\ told'[i] = told[i]
        /\ job'[j].state = "gone" /\ (told'[j] = "sent" <=> log'[j] # <<>>)
    <3>1. CASE Close(w, "refused") /\ log' = log
      BY <1>1, <3>1 DEF Close, NoRun, Job
    <3>2. CASE Close(w, "sent") /\ log' = SentRow(w)
      <4>1. log'[j] = <<[status |-> "SENT", ext |-> run[w].ext]>>
        BY <1>1, <3>2 DEF SentRow
      <4>2. log'[j] # <<>> /\ \A i \in Jobs \ {j} : log'[i] = log[i]
        BY <1>1, <3>2, <4>1 DEF SentRow
      <4> QED
        BY <1>1, <3>2, <4>2 DEF Close, NoRun, Job
    <3> QED
      BY <2>1, <3>1, <3>2
  <2>3. \A i \in Jobs \ {j} : Tidy(i)'
    BY <1>1, <2>2, TidyOthers
  <2>4. HeldOk(j)'
    BY <2>2 DEF HeldOk
  <2> QED
    BY <2>3, <2>4 DEF AllTidy, Tidy
<1> QED
  BY <1>2, <1>3

\* The provider refuses an attempt of a job.
LEMMA TidyRejected ==
  ASSUME IInv, AllTidy, NEW w \in Workers, NEW j \in Jobs, run[w].job = j, FormOf[j] # "direct",
         sendRejected(w)
  PROVE  AllTidy'
<1> USE DEF provider
<1>1. /\ run \in [Workers -> Run] /\ run[w].pc = "send" /\ run' = [run EXCEPT ![w].pc = "fail"]
      /\ UNCHANGED <<job, log, told, reported, inbox, contacted>>
  BY DEF IInv, TypeOK, sendRejected, SendThrows
<1>2. /\ run'[w].job = j /\ run'[w].pc = "fail" /\ run'[w].row = run[w].row
      /\ \A v \in Workers \ {w} : run'[v] = run[v]
  BY <1>1 DEF Run
<1>3. /\ EarlierFailed(j) => EarlierFailed(j)'
      /\ Found(j) => Found(j)'
      /\ Fresh(j) => Fresh(j)'
  BY <1>1, LastStays DEF Found
<1>4. JobTells(j) => EarlierFailed(j)' /\ Found(j)' /\ SlotTells(j, w)'
  BY <1>1, <1>2, <1>3 DEF JobTells, SlotTells
<1> QED
  BY <1>1, <1>2, <1>4, TidyGoesOn

\* An attempt is over: the slot still holds the lock.
LEMMA TidySettle ==
  ASSUME IInv, AllTidy, NEW w \in Workers, Complete(w) \/ Retry(w)
  PROVE  AllTidy'
<1> USE DEF provider
<1>1. PICK j \in Jobs : j = run[w].job /\ run[w].pc \in {"done", "throw"} /\ FormOf[j] # "direct"
  BY DEF IInv, Shape, RunOk, Complete, Retry
<1>2. /\ run \in [Workers -> Run] /\ job \in [Jobs -> Job]
      /\ UNCHANGED <<log, told, reported, inbox, contacted>>
      /\ run' = [run EXCEPT ![w] = NoRun] /\ HeldOk(j)
  BY <1>1 DEF IInv, TypeOK, AllTidy, Tidy, Complete, Retry, Settle
<1>3. job[j].by = w /\ job[j].state = "active" /\ \A v \in Workers : run[v].job = j => v = w
  BY <1>1, <1>2 DEF HeldOk
<1>4. /\ \A v \in Workers \ {w} : run'[v] = run[v]
      /\ run'[w].job = None /\ j # None
      /\ \A i \in Jobs \ {j} : job'[i] = job[i]
      /\ \/ run[w].pc = "done" /\ job'[j].state = "completed"
         \/ run[w].pc = "throw" /\ job'[j].state \in {"waiting", "failed"}
  <2>1. /\ \A v \in Workers \ {w} : run'[v] = run[v]
        /\ run'[w].job = None /\ j # None
    BY <1>2, NoneAssumption DEF NoRun
  <2>2. job[j] \in Job
    BY <1>2
  <2>3. CASE Complete(w)
    <3>1. job' = [job EXCEPT ![j] = Completed(job[j])] /\ run[w].pc = "done"
      BY <1>1, <1>3, <2>3 DEF Complete, Settle, Settled
    <3> QED
      BY <1>2, <2>1, <2>2, <3>1 DEF Completed, Job
  <2>4. CASE Retry(w)
    <3>1. job' = [job EXCEPT ![j] = Retried(job[j], AttemptsOf[j])] /\ run[w].pc = "throw"
      BY <1>1, <1>3, <2>4 DEF Retry, Settle, Settled
    <3>2. Retried(job[j], AttemptsOf[j]).state \in {"waiting", "failed"}
      BY <2>2 DEF Retried, Job
    <3> QED
      BY <1>2, <2>1, <3>1, <3>2
  <2> QED
    BY <2>3, <2>4
<1>5. \A i \in Jobs \ {j} : Tidy(i)'
  BY <1>1, <1>2, <1>4, TidyOthers
<1>6. \A v \in Workers : run'[v].job # j
  BY <1>3, <1>4
<1>7. HeldOk(j)'
  BY <1>1, <1>2, <1>3, <1>4, <1>6 DEF HeldOk
<1>8. JobTells(j) => JobTells(j)'
  <2>1. /\ EarlierFailed(j) => EarlierFailed(j)'
        /\ Found(j) => Found(j)'
        /\ LastSent(j) => LastSent(j)'
        /\ LastFailed(j) => LastFailed(j)'
    BY <1>1, <1>2, LastStays DEF Found
  <2>2. JobTells(j) => EarlierFailed(j)' /\ Found(j)' /\ SlotTells(j, w)
    BY <1>1, <2>1 DEF JobTells
  <2>3. Marked(j) => Marked(j)'
    BY <1>2 DEF Marked
  <2>4. JobTells(j) /\ run[w].pc = "done" => LastSent(j)' /\ Marked(j)'
    BY <2>1, <2>2, <2>3 DEF SlotTells
  <2>5. JobTells(j) /\ run[w].pc = "throw" => LastFailed(j)' /\ Over(j)' /\ Fresh(j)'
    BY <2>1, <2>2 DEF SlotTells, LastFailed, Over, Fresh
  <2> QED
    BY <1>4, <1>6, <2>2, <2>4, <2>5 DEF JobTells
<1> QED
  BY <1>5, <1>7, <1>8 DEF AllTidy, Tidy

\* A callback writes only to the row of a message that went out, which is the
\* last one, and only what was reported of it.
LEMMA TidyWrite ==
  ASSUME IInv, AllTidy, NEW c \in inbox, callbackWrite(c)
  PROVE  AllTidy'
<1>1. PICK j \in Jobs : j = c.job
  BY DEF IInv, TypeOK, Callback
<1>2. /\ log \in [Jobs -> Seq(Row)] /\ c.row # 0 /\ c.status \in Reports
      /\ c.row \in 1..Len(log[j]) /\ log[j][c.row].ext # None
      /\ <<c.id, c.status>> \in reported[j]
  BY <1>1 DEF IInv, TypeOK, Callback, Shape, CallbackOk, callbackWrite
<1>3. /\ UNCHANGED <<job, run, told, contacted, reported>> /\ inbox' = inbox \ {c}
      /\ log' = [log EXCEPT ![j][c.row].status = nextStatus(c.status)]
  BY <1>1 DEF callbackWrite
<1>4. /\ log'[j] = [log[j] EXCEPT ![c.row].status = nextStatus(c.status)]
      /\ \A i \in Jobs \ {j} : log'[i] = log[i]
  BY <1>2, <1>3
<1>5. ASSUME NEW i \in Jobs \ {j} PROVE Tidy(i)'
  <2>1. /\ job'[i] = job[i] /\ log'[i] = log[i] /\ told'[i] = told[i]
        /\ reported[i] \subseteq reported'[i] /\ contacted \subseteq contacted'
        /\ \A d \in inbox' : d \in inbox
        /\ \A v \in Workers : run'[v] = run[v]
    BY <1>3, <1>4
  <2>2. Tidy(i)
    BY DEF AllTidy
  <2> QED
    BY <2>1, <2>2, TidyStays
<1>6. /\ log[j] \in Seq(Row) /\ log[j][c.row] \in Row /\ Len(log[j]) \in Nat
      /\ Len(log'[j]) = Len(log[j]) /\ Len(log[j]) > 0
      /\ log'[j][c.row].status = nextStatus(c.status) /\ log'[j][c.row].ext = log[j][c.row].ext
      /\ \A i \in 1..Len(log[j]) : i # c.row => log'[j][i] = log[j][i]
  <2>1. \A S, n, q : S \in Seq(Row) /\ n \in 1..Len(S) =>
           LET T == [S EXCEPT ![n].status = q] IN
           /\ S[n] \in Row /\ Len(S) \in Nat /\ Len(T) = Len(S) /\ Len(S) > 0
           /\ T[n].status = q /\ T[n].ext = S[n].ext
           /\ \A i \in 1..Len(S) : i # n => T[i] = S[i]
    <3> TAKE S, n, q
    <3> HAVE S \in Seq(Row) /\ n \in 1..Len(S)
    <3>1. S[n] \in Row
      OBVIOUS
    <3> QED
      BY <3>1 DEF Row
  <2> QED
    BY <1>2, <1>4, <2>1
<1>7. HeldOk(j) /\ HeldOk(j)'
  <2>1. HeldOk(j)
    BY DEF AllTidy, Tidy
  <2>2. log'[j] # <<>> <=> log[j] # <<>>
    BY <1>2, <1>4, <1>6
  <2> QED
    BY <1>3, <1>6, <2>1, <2>2 DEF HeldOk
<1>8. JobTells(j) => JobTells(j)'
  <2> SUFFICES ASSUME JobTells(j) PROVE JobTells(j)'
    OBVIOUS
  <2>1. EarlierFailed(j) /\ Found(j)
    BY DEF JobTells
  <2>2. c.row = Len(log[j])
    BY <1>2, <1>6, <2>1 DEF EarlierFailed
  <2>3. Last(j).ext = c.id /\ Last(j).ext # None
    BY <1>1, <1>2, <2>1, <2>2 DEF Last, Found
  <2>4. ~ Fresh(j) /\ ~ LastFailed(j) /\ ~ Over(j)
    BY <1>6, <2>3 DEF Fresh, LastFailed, Over
  <2>5. EarlierFailed(j)'
    BY <1>6, <2>1, <2>2 DEF EarlierFailed
  <2>6. Found(j)'
    <3>1. \A i \in 1..Len(log[j]) : log'[j][i].ext = log[j][i].ext
      BY <1>6
    <3>2. \A d \in inbox : d.job = j /\ d.row # 0 => log'[j][d.row].ext = log[j][d.row].ext
      BY <3>1 DEF IInv, Shape, CallbackOk
    <3> QED
      BY <1>3, <2>1, <3>2 DEF Found
  <2>7. LastSent(j)'
    <3>1. Last(j)'.ext = c.id /\ Last(j)'.status = nextStatus(c.status) /\ c.id # None
      BY <1>6, <2>2, <2>3 DEF Last
    <3>2. Last(j)'.status \in Shown(j, Last(j))'
      BY <1>2, <1>3, <3>1 DEF Shown
    <3> QED
      BY <1>6, <3>1, <3>2 DEF LastSent
  <2>8. \A w \in Workers : run[w].job = j => SlotTells(j, w)'
    <3> SUFFICES ASSUME NEW w \in Workers, run[w].job = j PROVE SlotTells(j, w)'
      OBVIOUS
    <3>1. SlotTells(j, w)
      BY DEF JobTells
    <3>2. run[w].pc \notin {"load", "send", "update", "fail", "throw"}
      BY <2>4, <3>1 DEF SlotTells
    <3>3. run[w].pc = "done" => Marked(j)'
      BY <1>3, <3>1 DEF SlotTells, Marked
    <3> QED
      BY <1>3, <2>7, <3>2, <3>3 DEF SlotTells
  <2>9. job[j].state \notin {"waiting", "failed"} /\ (job[j].state = "completed" => Marked(j)')
    BY <1>3, <2>4 DEF JobTells, Marked
  <2> QED
    BY <1>3, <2>5, <2>6, <2>7, <2>8, <2>9 DEF JobTells
<1> QED
  BY <1>5, <1>7, <1>8 DEF AllTidy, Tidy

LEMMA TidyCallback ==
  ASSUME IInv, AllTidy,
         \/ \E j \in Jobs : \E n \in 1..sent[j], s \in Reports : ProviderReports(j, n, s)
         \/ \E c \in inbox : callbackFind(c) \/ callbackWrite(c)
  PROVE  AllTidy'
<1>1. ASSUME NEW j \in Jobs, NEW n \in 1..sent[j], NEW s \in Reports, ProviderReports(j, n, s)
      PROVE  AllTidy'
  <2>1. /\ UNCHANGED <<job, run, told, contacted, log>>
        /\ \A i \in Jobs : reported[i] \subseteq reported'[i]
        /\ \A c \in inbox' : c.row # 0 => c \in inbox
    BY <1>1 DEF ProviderReports, IInv, TypeOK
  <2> QED
    BY <2>1, TidyStays DEF AllTidy
<1>2. ASSUME NEW c \in inbox, callbackFind(c) PROVE AllTidy'
  <2>1. UNCHANGED <<job, run, told, contacted, log, reported>>
    BY <1>2 DEF callbackFind
  <2>2. ASSUME NEW d \in inbox', d \notin inbox
        PROVE  log[d.job][d.row].ext = d.id
    <3>1. PICK i \in findByExternalId(c) : d = [c EXCEPT !.row = i]
      BY <1>2, <2>2 DEF callbackFind
    <3>2. d.job = c.job /\ d.row = i /\ d.id = c.id
      BY <3>1 DEF IInv, TypeOK, Callback
    <3> QED
      BY <3>1, <3>2 DEF findByExternalId
  <2> QED
    BY <2>1, <2>2, TidyStays DEF AllTidy
<1> QED
  BY <1>1, <1>2, TidyWrite

\* What is not a fault does not count as one.
LEMMA FaultCounted ==
  ASSUME [Next]_vars, ~ Fault
  PROVE  UNCHANGED faults
<1>1. CASE UNCHANGED vars
  BY <1>1 DEF vars
<1>2. ASSUME NEW j \in Jobs,
             \/ importRow(j) \/ addMessageSend(j) \/ addJob(j)
             \/ importFails(j) \/ importAnswerLost(j)
             \/ StalledFound(j) \/ LockLost(j)
             \/ \E n \in 1..sent[j], s \in Reports : ProviderReports(j, n, s)
             \/ \E w \in Workers : sendDirect(w, j) \/ Take(w, j)
      PROVE  UNCHANGED faults
  BY <1>2 DEF importRow, addMessageSend, addJob, importFails, importAnswerLost, StalledFound,
              LockLost, ProviderReports, sendDirect, Take
<1>3. ASSUME NEW w \in Workers, Work(w) \/ WorkFails(w)
      PROVE  UNCHANGED faults
  BY <1>3 DEF Work, WorkFails, load, send, updateRow, markContacted, failRow, persist, Complete,
              Retry, Settle, loadFails, sendRejected, sendTimesOut, updateFails, contactFails,
              failRowFails, persistFails
<1>4. ASSUME (\E c \in inbox : callbackFind(c) \/ callbackWrite(c)) \/ Restart
      PROVE  UNCHANGED faults
  BY <1>4 DEF callbackFind, callbackWrite, Restart
<1> QED
  BY <1>1, <1>2, <1>3, <1>4 DEF Next

LEMMA TidyStep ==
  ASSUME IInv, IInv', AllTidy, [Next]_vars, ~ Fault
  PROVE  AllTidy'
<1>1. CASE UNCHANGED vars
  BY <1>1, TidyStays DEF AllTidy, vars, provider
<1>2. ASSUME NEW j \in Jobs,
             \/ importRow(j) \/ addMessageSend(j) \/ addJob(j)
             \/ importFails(j) \/ importAnswerLost(j)
             \/ StalledFound(j) \/ LockLost(j)
             \/ \E n \in 1..sent[j], s \in Reports : ProviderReports(j, n, s)
             \/ \E w \in Workers : sendDirect(w, j) \/ Take(w, j)
      PROVE  AllTidy'
  <2>1. ~ importFails(j) /\ ~ importAnswerLost(j) /\ ~ LockLost(j)
    BY DEF importFails, importAnswerLost, LockLost
  <2>2. ~ StalledFound(j)
    BY DEF StalledFound, Orphan, AllTidy, Tidy, HeldOk
  <2> QED
    BY <1>2, <2>1, <2>2, TidyProducer, TidyStart, TidyCallback
<1>3. ASSUME NEW w \in Workers, Work(w) \/ WorkFails(w)
      PROVE  AllTidy'
  <2>1. /\ ~ loadFails(w) /\ ~ sendTimesOut(w) /\ ~ updateFails(w) /\ ~ contactFails(w)
        /\ ~ failRowFails(w) /\ ~ persistFails(w)
    BY DEF loadFails, sendTimesOut, updateFails, contactFails, failRowFails, persistFails
  <2>2. CASE Complete(w) \/ Retry(w)
    BY <2>2, TidySettle
  <2>3. CASE load(w) \/ send(w) \/ updateRow(w) \/ markContacted(w) \/ failRow(w)
             \/ persist(w) \/ sendRejected(w)
    <3>1. PICK j \in Jobs : run[w].job = j
      BY <2>3, Busy DEF load, send, updateRow, markContacted, failRow, persist, sendRejected
    <3>2. CASE FormOf[j] = "direct"
      <4>1. send(w) \/ sendRejected(w) \/ persist(w)
        BY <2>3, <3>1, <3>2 DEF IInv, Shape, RunOk, load, updateRow, markContacted, failRow
      <4> QED
        BY <3>1, <3>2, <4>1, TidyDirect
    <3>3. CASE FormOf[j] # "direct"
      <4>1. ~ persist(w)
        BY <3>1, <3>3 DEF persist
      <4> QED
        BY <2>3, <3>1, <3>3, <4>1, TidyMove, TidyRejected
    <3> QED
      BY <3>2, <3>3
  <2> QED
    BY <1>3, <2>1, <2>2, <2>3 DEF Work, WorkFails
<1>4. ASSUME \E c \in inbox : callbackFind(c) \/ callbackWrite(c)
      PROVE  AllTidy'
  BY <1>4, TidyCallback
<1>5. ~ Restart
  BY DEF Restart
<1> QED
  BY <1>1, <1>2, <1>3, <1>4, <1>5 DEF Next

LEMMA TidyAgrees ==
  ASSUME IInv, AllTidy
  PROVE  LogAgrees
<1> SUFFICES ASSUME NEW j \in Jobs
             PROVE  /\ Ended(job[j]) =>
                        LET last == log[j][Len(log[j])] IN
                        /\ job[j].state = "completed" =>
                               last.ext # None /\ last.status \in Shown(j, last)
                        /\ job[j].state = "failed" => last.ext = None /\ last.status = "FAILED"
                        /\ \A i \in 1..(Len(log[j]) - 1) :
                               log[j][i].ext = None /\ log[j][i].status = "FAILED"
                        /\ job[j].state = "completed" /\ j \in WithCase => j \in contacted
                    /\ job[j].state = "gone" =>
                        FormOf[j] = "direct" /\ (told[j] = "sent" <=> log[j] # <<>>)
  BY DEF LogAgrees
<1>1. HeldOk(j) /\ JobOk(j) /\ (FormOf[j] # "direct" => JobTells(j))
  BY DEF AllTidy, Tidy, IInv, Shape
<1>2. Ended(job[j]) => FormOf[j] # "direct"
  BY <1>1 DEF Ended, JobOk
<1> QED
  BY <1>1, <1>2 DEF Ended, HeldOk, JobTells, LastSent, LastFailed, Last, EarlierFailed, Marked

\* As long as only providers refuse, the last row of a job tells its outcome: the
\* id and a status that was reported of a message that went out, also while its
\* callbacks arrive in any order, and FAILED of one that was given up; the rows of
\* earlier attempts are FAILED, and who was written to was contacted.
THEOREM LogKeepsUp == Spec => []LogAgrees
<1> DEFINE Inv == faults = 0 => AllTidy
<1>1. Init => Inv
  <2> SUFFICES ASSUME Init, NEW j \in Jobs PROVE Tidy(j)
    BY DEF AllTidy
  <2>1. /\ job[j].state = "none" /\ log[j] = <<>> /\ j # None /\ inbox = {}
        /\ \A w \in Workers : run[w].job = None
    BY NoneAssumption DEF Init, Queued, NoRun
  <2> QED
    BY <2>1 DEF Tidy, HeldOk, JobTells, EarlierFailed, Found
<1>2. IInv /\ IInv' /\ Inv /\ [Next]_vars => Inv'
  <2> SUFFICES ASSUME IInv, IInv', Inv, [Next]_vars, faults' = 0 PROVE AllTidy'
    OBVIOUS
  <2>1. faults \in Nat
    BY BoundsAssumption DEF IInv, TypeOK
  <2>2. ~ Fault
    BY <2>1 DEF Fault
  <2>3. faults = 0
    BY <2>2, FaultCounted
  <2> QED
    BY <2>2, <2>3, TidyStep
<1>3. IInv /\ Inv => LogAgrees
  BY TidyAgrees DEF LogAgrees
<1> QED
  BY <1>1, <1>2, <1>3, Invariance, PTL DEF Spec
=============================================================================
