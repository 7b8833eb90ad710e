---------------------------- MODULE InboundProofs ----------------------------
(***************************************************************************)
(* Proofs about Inbound, for any contacts, texts and payloads, any number  *)
(* of requests and slots, and any number of faults.                        *)
(***************************************************************************)
EXTENDS Inbound, FiniteSetTheorems, TLAPS

-----------------------------------------------------------------------------
(* The webhook. *)

\* Requests that have reserved a text and are about to enqueue it.
Adders(t) == {r \in Requests : req[r].pc = "add" /\ TextOf(r) = t}

\* A text was reserved, and is not lost without a reason.
Kept(t) == JobsOf(t) # {} \/ t \in broken \/ Adders(t) # {}

ReqOk(r) ==
    /\ req[r].pc = "idle" => req[r] = NoReq
    /\ req[r].pc # "idle" =>
        /\ req[r].payload \in Payloads /\ req[r].pos \in 1..Len(req[r].payload)
        /\ mail[req[r].payload] # "unsent"
        /\ \A i \in 1..(req[r].pos - 1) : Kept(req[r].payload[i])

\* Each reservation makes one job at most.
KeyOk(t) ==
    Cardinality(JobsOf(t)) + Cardinality(Adders(t)) <=
        (IF t \in keys THEN 1 ELSE 0) + (IF t \in expired THEN 1 ELSE 0)

Hooks ==
    /\ \A r \in Requests : ReqOk(r)
    /\ \A t \in Delivered : KeyOk(t)
    /\ \A t \in keys \cup expired : Kept(t)
    /\ \A p \in Payloads : mail[p] = "answered" => \A t \in TextsIn(p) : Kept(t)
    /\ \A i \in 1..Len(jobs) : jobs[i].text \in Delivered /\ Written(jobs[i].text)
-----------------------------------------------------------------------------
(* The handling of a text. *)

RunOk(w) ==
    LET t == run[w].text IN
    /\ run[w].pc = "idle" => run[w] = NoRun
    /\ run[w].pc # "idle" =>
        /\ t \in Texts
        /\ \/ /\ t \in Direct \ calls /\ run[w].job = 0
              /\ \A v \in Workers : run[v].text = t => v = w
           \/ run[w].job \in 1..Len(jobs) /\ jobs[run[w].job].text = t
        /\ run[w].pc = "mark" => run[w].kase \in Contacts
        /\ run[w].pc = "dnc" => Intent(t) = "BAJA"
        /\ run[w].pc \in {"lookup", "queue"} /\ Intent(t) = "PTP" => ptps[t] > 0

\* Where a slot may still insert the promise, or send the reply, or try again.
BeforePtp == {"find", "mark", "dnc", "ptp", "throw"}
BeforeReply == BeforePtp \cup {"lookup", "queue"}

Slots(t, S) == {w \in Workers : run[w].text = t /\ run[w].pc \in S}
Waiting(t) == {i \in JobsOf(t) : jobs[i].state = "waiting"}

\* A direct call that is still to come, or to come again.
Uncalled(t) ==
    IF t \in Direct \ calls /\ \A w \in Workers : run[w].text # t THEN 1 ELSE 0

\* What was done, with all that may still be done, has its reasons.
Bounded(t, S, n) ==
    n + Cardinality(Slots(t, S)) + Cardinality(Waiting(t)) + Uncalled(t) <= Asked(t) + causes[t]

Effects(t) == Bounded(t, BeforePtp, ptps[t]) /\ Bounded(t, BeforeReply, replies[t])

Handling ==
    /\ \A w \in Workers : RunOk(w)
    /\ \A t \in Texts : Effects(t)

IInv == TypeOK /\ Hooks /\ Handling /\ PromiseIsRecorded /\ SilencedOnRequest
-----------------------------------------------------------------------------
(* Types and sets. *)

LEMMA TextTypes ==
  /\ Delivered \subseteq Texts /\ Direct \subseteq Texts /\ Delivered \cap Direct = {}
  /\ \A p \in Payloads : p \in Seq(Texts) /\ TextsIn(p) \subseteq Delivered
  BY PayloadsAssumption DEF Delivered, Direct, TextsIn

LEMMA JobTypes ==
  ASSUME NEW q \in Job
  PROVE  /\ Completed(q) \in Job /\ Retried(q, Attempts) \in Job /\ Stalled(q) \in Job
         /\ \A w \in Workers : Taken(q, w) \in Job /\ Taken(q, w).text = q.text
         /\ Completed(q).text = q.text /\ Retried(q, Attempts).text = q.text
         /\ Stalled(q).text = q.text
         /\ Completed(q).state # "waiting" /\ \A w \in Workers : Taken(q, w).state # "waiting"
<1>1. /\ Completed(q) \in Job /\ Completed(q).text = q.text /\ Completed(q).state # "waiting"
      /\ \A w \in Workers : /\ Taken(q, w) \in Job /\ Taken(q, w).text = q.text
                            /\ Taken(q, w).state # "waiting"
  BY DEF Job, Completed, Taken
<1>2. q.made + 1 \in Nat /\ q.stalled + 1 \in Nat
  BY DEF Job
<1>3. \/ Retried(q, Attempts) = [q EXCEPT !.made = q.made + 1, !.by = None, !.state = "waiting"]
      \/ Retried(q, Attempts) = [q EXCEPT !.made = q.made + 1, !.by = None, !.state = "failed"]
  BY DEF Retried
<1>4. \/ Stalled(q) = [q EXCEPT !.stalled = q.stalled + 1, !.by = None, !.state = "waiting"]
      \/ Stalled(q) = [q EXCEPT !.stalled = q.stalled + 1, !.by = None, !.state = "failed"]
  BY DEF Stalled
<1> QED
  BY ZenonT(30), <1>1, <1>2, <1>3, <1>4 DEF Job

LEMMA ArrivedType ==
  ASSUME NEW t \in Texts
  PROVE  Arrived(t) \in Job /\ Arrived(t).text = t /\ Arrived(t).state = "waiting"
  BY DEF Arrived, Job

LEMMA NoneTypes == NoReq \in Req /\ NoRun \in Run /\ NoReq.pc = "idle" /\ NoRun.pc = "idle"
                   /\ NoRun.text = None
  BY DEF NoReq, Req, NoRun, Run, Pc

LEMMA Sizes ==
  ASSUME NEW U, IsFiniteSet(U), NEW S \in SUBSET U
  PROVE  IsFiniteSet(S) /\ Cardinality(S) \in Nat
  BY FS_Subset, FS_CardinalityType

LEMMA Fewer ==
  ASSUME NEW U, IsFiniteSet(U), NEW S \in SUBSET U, NEW T \in SUBSET S
  PROVE  Cardinality(T) <= Cardinality(S)
  BY Sizes, FS_Subset

LEMMA OneMore ==
  ASSUME NEW U, IsFiniteSet(U), NEW S \in SUBSET U, NEW T \in SUBSET U, NEW x \in U,
         T \subseteq S \cup {x}
  PROVE  Cardinality(T) <= Cardinality(S) + 1
<1>1. Cardinality(T) <= Cardinality(S \cup {x})
  BY Fewer
<1>2. Cardinality(S \cup {x}) <= Cardinality(S) + 1
  BY Sizes, FS_AddElement
<1> QED
  BY <1>1, <1>2, Sizes

LEMMA OneLess ==
  ASSUME NEW U, IsFiniteSet(U), NEW S \in SUBSET U, NEW x \in S, NEW T \in SUBSET (S \ {x})
  PROVE  Cardinality(T) + 1 <= Cardinality(S)
<1>1. Cardinality(T) <= Cardinality(S \ {x})
  BY Fewer
<1>2. Cardinality(S \ {x}) = Cardinality(S) - 1
  BY Sizes, FS_RemoveElement
<1> QED
  BY <1>1, <1>2, Sizes

LEMMA Intervals ==
  ASSUME NEW n \in Nat
  PROVE  IsFiniteSet(1..n) /\ Cardinality(1..n) = n
  BY FS_Interval

\* The sets of the invariant are finite.
LEMMA Numbers ==
  ASSUME TypeOK, NEW t \in Texts, NEW S
  PROVE  /\ Cardinality(JobsOf(t)) \in Nat /\ Cardinality(Waiting(t)) \in Nat
         /\ Cardinality(Adders(t)) \in Nat /\ Cardinality(Slots(t, S)) \in Nat
         /\ ptps[t] \in Nat /\ replies[t] \in Nat /\ causes[t] \in Nat
         /\ Uncalled(t) \in 0..1 /\ Asked(t) \in Nat
         /\ Waiting(t) \subseteq JobsOf(t) /\ JobsOf(t) \in SUBSET (1..Len(jobs))
         /\ Len(jobs) \in Nat
<1>1. Len(jobs) \in Nat /\ IsFiniteSet(1..Len(jobs))
  BY Intervals DEF TypeOK
<1>2. /\ JobsOf(t) \in SUBSET (1..Len(jobs)) /\ Waiting(t) \in SUBSET (1..Len(jobs))
      /\ Waiting(t) \subseteq JobsOf(t)
  BY DEF JobsOf, Waiting
<1>3. Adders(t) \in SUBSET Requests /\ Slots(t, S) \in SUBSET Workers
  BY DEF Adders, Slots
<1>4. Cardinality(JobsOf(t)) \in Nat /\ Cardinality(Waiting(t)) \in Nat
  BY <1>1, <1>2, Sizes
<1>5. Cardinality(Adders(t)) \in Nat /\ Cardinality(Slots(t, S)) \in Nat
  BY <1>3, Sizes, SlotsAssumption
<1>6. Uncalled(t) \in 0..1 /\ Asked(t) \in Nat
  BY <1>4 DEF Uncalled, Asked
<1> QED
  BY <1>1, <1>2, <1>4, <1>5, <1>6 DEF TypeOK
-----------------------------------------------------------------------------
(* Types. *)

\* What a request in flight is about.
LEMMA Flying ==
  ASSUME TypeOK, Hooks, NEW r \in Requests, req[r].pc # "idle"
  PROVE  /\ req[r].payload \in Payloads /\ req[r].payload \in Seq(Texts)
         /\ req[r].pos \in 1..Len(req[r].payload) /\ Len(req[r].payload) \in Nat
         /\ TextOf(r) \in TextsIn(req[r].payload) /\ TextOf(r) \in Delivered
         /\ TextOf(r) \in Texts /\ Written(TextOf(r)) /\ mail[req[r].payload] # "unsent"
<1>1. /\ req[r].payload \in Payloads /\ req[r].pos \in 1..Len(req[r].payload)
      /\ mail[req[r].payload] # "unsent"
  BY DEF Hooks, ReqOk
<1>2. req[r].payload \in Seq(Texts) /\ Len(req[r].payload) \in Nat
  BY <1>1, TextTypes
<1>3. TextOf(r) \in TextsIn(req[r].payload)
  BY <1>1 DEF TextOf, TextsIn
<1>4. TextOf(r) \in Delivered /\ TextOf(r) \in Texts
  BY <1>1, <1>3, TextTypes
<1> QED
  BY <1>1, <1>2, <1>3, <1>4 DEF Written

LEMMA AdvanceTypes ==
  ASSUME TypeOK, Hooks, NEW r \in Requests, req[r].pc # "idle", Advance(r)
  PROVE  req' \in [Requests -> Req] /\ mail' \in [Payloads -> {"unsent", "pending", "answered"}]
<1> DEFINE q == req[r]
<1>1. q \in Req /\ q.payload \in Payloads /\ q.pos \in 1..Len(q.payload) /\ Len(q.payload) \in Nat
  BY Flying DEF TypeOK
<1>2. q.pos + 1 \in Nat
  BY <1>1
<1>3. CASE q.pos = Len(q.payload)
  BY <1>1, <1>3, NoneTypes DEF Advance, TypeOK
<1>4. CASE q.pos # Len(q.payload)
  <2>1. req' = [req EXCEPT ![r] = [q EXCEPT !.pos = q.pos + 1, !.pc = "reserve"]] /\ mail' = mail
    BY <1>4 DEF Advance, TypeOK
  <2>2. [q EXCEPT !.pos = q.pos + 1, !.pc = "reserve"] \in Req
    BY <1>1, <1>2 DEF Req
  <2> QED
    BY <2>1, <2>2 DEF TypeOK
<1> QED
  BY <1>3, <1>4

LEMMA AppendType ==
  ASSUME TypeOK, NEW t \in Texts
  PROVE  Append(jobs, Arrived(t)) \in Seq(Job)
  BY ArrivedType DEF TypeOK

LEMMA FaultType ==
  ASSUME TypeOK, Fault
  PROVE  faults' \in 0..MaxFaults
  BY SlotsAssumption DEF TypeOK, Fault

LEMMA CauseType ==
  ASSUME TypeOK, NEW t \in Texts, Cause(t)
  PROVE  causes' \in [Texts -> Nat]
<1> PICK n \in Nat : n = causes[t] + 1
  BY DEF TypeOK
<1>1. causes' = [causes EXCEPT ![t] = n]
  BY DEF Cause, TypeOK
<1> QED
  BY <1>1 DEF TypeOK

\* A request whose step changes its pc only.
LEMMA ReservedType ==
  ASSUME TypeOK, NEW r \in Requests, NEW k \in {"idle", "reserve", "add"}
  PROVE  [req EXCEPT ![r].pc = k] \in [Requests -> Req]
<1>1. [req[r] EXCEPT !.pc = k] \in Req
  BY DEF TypeOK, Req
<1> QED
  BY <1>1 DEF TypeOK

LEMMA ReservedTexts ==
  ASSUME TypeOK, Hooks, NEW r \in Requests
  PROVE  Reserved(r) \subseteq Delivered
  BY Flying DEF Reserved

HookStep ==
  \/ \E r \in Requests : \/ \E p \in Payloads : Deliver(r, p)
                         \/ Continue(r) \/ RequestFails(r)
  \/ \E t \in Delivered : KeyExpires(t)

LEMMA HookTypes ==
  ASSUME TypeOK, Hooks, HookStep
  PROVE  TypeOK'
<1>1. ASSUME NEW r \in Requests, NEW p \in Payloads, Deliver(r, p)
      PROVE  TypeOK'
  <2>1. [pc |-> "reserve", payload |-> p, pos |-> 1] \in Req
    BY DEF Req
  <2>2. req' \in [Requests -> Req] /\ mail' \in [Payloads -> {"unsent", "pending", "answered"}]
    BY <1>1, <2>1 DEF Deliver, TypeOK
  <2> QED
    BY <1>1, <2>2 DEF Deliver, TypeOK, cases
<1>2. ASSUME NEW r \in Requests, reserveOnce(r)
      PROVE  TypeOK'
  <2>1. TextOf(r) \in Delivered
    BY <1>2, Flying DEF reserveOnce
  <2>2. /\ req' \in [Requests -> Req] /\ mail' \in [Payloads -> {"unsent", "pending", "answered"}]
        /\ keys' \subseteq Delivered
    <3>1. CASE TextOf(r) \notin keys /\ req' = [req EXCEPT ![r].pc = "add"] /\ mail' = mail
               /\ keys' = keys \cup {TextOf(r)}
      BY <3>1, <2>1, ReservedType DEF TypeOK
    <3>2. CASE Advance(r) /\ keys' = keys
      BY <3>2, <1>2, AdvanceTypes DEF reserveOnce, TypeOK
    <3> QED
      BY <1>2, <3>1, <3>2 DEF reserveOnce
  <2> QED
    BY <1>2, <2>2 DEF reserveOnce, TypeOK, cases
<1>3. ASSUME NEW r \in Requests, addJob(r)
      PROVE  TypeOK'
  <2>1. req' \in [Requests -> Req] /\ mail' \in [Payloads -> {"unsent", "pending", "answered"}]
    BY <1>3, AdvanceTypes DEF addJob
  <2>2. jobs' \in Seq(Job)
    BY <1>3, Flying, AppendType DEF addJob
  <2> QED
    BY <1>3, <2>1, <2>2 DEF addJob, TypeOK, cases
<1>4. ASSUME NEW r \in Requests, RequestFails(r)
      PROVE  TypeOK'
  <2>1. TextOf(r) \in Delivered /\ TextOf(r) \in Texts
    BY <1>4, Flying DEF RequestFails
  <2>2. keys' \subseteq Delivered /\ broken' \subseteq Delivered /\ jobs' \in Seq(Job)
    BY <1>4, <2>1, AppendType, ReservedTexts DEF RequestFails, TypeOK
  <2>3. req' \in [Requests -> Req] /\ faults' \in 0..MaxFaults
    BY <1>4, NoneTypes, FaultType DEF RequestFails, TypeOK
  <2> QED
    BY <1>4, <2>2, <2>3 DEF RequestFails, TypeOK, cases
<1>5. ASSUME NEW t \in Delivered, KeyExpires(t)
      PROVE  TypeOK'
  <2>1. faults' \in 0..MaxFaults
    BY <1>5, FaultType DEF KeyExpires
  <2> QED
    BY <1>5, <2>1 DEF KeyExpires, TypeOK, cases
<1> QED
  BY <1>1, <1>2, <1>3, <1>4, <1>5 DEF HookStep, Continue
-----------------------------------------------------------------------------
(* What the webhook's steps keep. *)

\* What a step of request r has to show, whatever it is.
LEMMA HookFrame ==
  ASSUME TypeOK, Hooks, TypeOK', NEW r \in Requests,
         \A s \in Requests : s # r => req'[s] = req[s],
         \A p \in Payloads : mail[p] # "unsent" => mail'[p] # "unsent",
         \A t \in Delivered : Kept(t) => Kept(t)',
         ReqOk(r)',
         \A t \in Delivered : KeyOk(t)',
         \A t \in Delivered : t \in keys' \cup expired' => t \in keys \cup expired \/ Kept(t)',
         \A p \in Payloads : mail'[p] = "answered" /\ mail[p] # "answered" =>
             \A t \in TextsIn(p) : Kept(t)',
         \A i \in 1..Len(jobs') : \/ i \in 1..Len(jobs) /\ jobs'[i].text = jobs[i].text
                                  \/ jobs'[i].text \in Delivered /\ Written(jobs'[i].text)
  PROVE  Hooks'
<1>1. ASSUME NEW s \in Requests
      PROVE  ReqOk(s)'
  <2>1. CASE s = r
    BY <2>1
  <2>2. CASE s # r /\ req[s].pc = "idle"
    BY <2>2 DEF ReqOk, Hooks
  <2>3. CASE s # r /\ req[s].pc # "idle"
    <3> DEFINE p == req[s].payload
    <3>1. /\ p \in Payloads /\ req[s].pos \in 1..Len(p) /\ mail[p] # "unsent"
          /\ \A i \in 1..(req[s].pos - 1) : Kept(p[i])
      BY <2>3 DEF Hooks, ReqOk
    <3>2. \A i \in 1..(req[s].pos - 1) : p[i] \in Delivered
      <4>1. \A i \in 1..(req[s].pos - 1) : i \in 1..Len(p)
        BY <3>1, TextTypes
      <4> QED
        BY <3>1, <4>1, TextTypes DEF TextsIn
    <3> HIDE DEF p
    <3>3. PICK q, n : q = p /\ n = req[s].pos
      OBVIOUS
    <3>4. \A i \in 1..(n - 1) : Kept(q[i])'
      BY <3>1, <3>2, <3>3
    <3>5. req'[s].payload = q /\ req'[s].pos = n /\ req'[s].pc # "idle"
      BY <2>3, <3>3 DEF p
    <3> QED
      BY <3>1, <3>3, <3>4, <3>5 DEF ReqOk
  <2> QED
    BY <2>1, <2>2, <2>3
<1>2. \A t \in Delivered : t \in keys' \cup expired' => Kept(t)'
  <2>1. \A t \in Delivered : t \in keys \cup expired => Kept(t)
    BY DEF Hooks
  <2> QED
    BY <2>1
<1>3. \A p \in Payloads : mail'[p] = "answered" => \A t \in TextsIn(p) : Kept(t)'
  <2>1. \A p \in Payloads : mail[p] = "answered" =>
            \A t \in TextsIn(p) : t \in Delivered /\ Kept(t)
    BY TextTypes DEF Hooks
  <2> QED
    BY <2>1
<1>4. \A t \in Texts : Written(t) => Written(t)'
  BY DEF Written
<1>5. (\A i \in 1..Len(jobs) : jobs[i].text \in Delivered /\ Written(jobs[i].text))'
  <2>1. \A i \in 1..Len(jobs) : jobs[i].text \in Delivered /\ Written(jobs[i].text)
    BY DEF Hooks
  <2> QED
    BY <2>1, <1>4, TextTypes
<1>6. \A t \in Delivered : KeyOk(t)'
  OBVIOUS
<1> QED
  BY <1>1, <1>2, <1>3, <1>5, <1>6 DEF Hooks, TypeOK

\* On to the next message, once this one is kept.
LEMMA Advanced ==
  ASSUME TypeOK, Hooks, NEW r \in Requests, req[r].pc # "idle", Advance(r),
         NEW x, x = TextOf(r), Kept(x)',
         \A t \in Delivered : Kept(t) => Kept(t)'
  PROVE  /\ \A s \in Requests : s # r => req'[s] = req[s]
         /\ \A p \in Payloads : mail[p] # "unsent" => mail'[p] # "unsent"
         /\ ReqOk(r)' /\ req'[r].pc # "add"
         /\ \A p \in Payloads : mail'[p] = "answered" /\ mail[p] # "answered" =>
                \A t \in TextsIn(p) : Kept(t)'
<1>1. PICK p \in Payloads, n \in Nat : p = req[r].payload /\ n = req[r].pos
  BY Flying
<1>2. /\ n \in 1..Len(p) /\ Len(p) \in Nat /\ mail[p] # "unsent" /\ x = p[n]
      /\ \A i \in 1..(n - 1) : Kept(p[i])
  BY <1>1, Flying DEF Hooks, ReqOk, TextOf
<1>3. \A i \in 1..n : Kept(p[i])'
  <2>1. \A i \in 1..(n - 1) : p[i] \in Delivered
    <3>1. \A i \in 1..(n - 1) : i \in 1..Len(p)
      BY <1>2
    <3> QED
      BY <3>1, TextTypes DEF TextsIn
  <2>2. \A i \in 1..n : i \in 1..(n - 1) \/ i = n
    OBVIOUS
  <2> QED
    BY <1>2, <2>1, <2>2
<1>4. CASE n = Len(p)
  <2>1. req' = [req EXCEPT ![r] = NoReq] /\ mail' = [mail EXCEPT ![p] = "answered"]
    BY <1>1, <1>4 DEF Advance
  <2>2. req'[r] = NoReq /\ \A s \in Requests : s # r => req'[s] = req[s]
    BY <2>1 DEF TypeOK
  <2>3. ReqOk(r)' /\ req'[r].pc # "add"
    BY <2>2, NoneTypes DEF ReqOk
  <2>4. /\ mail'[p] = "answered"
        /\ \A o \in Payloads : o # p => mail'[o] = mail[o]
    BY <2>1 DEF TypeOK
  <2>5. \A t \in TextsIn(p) : Kept(t)'
    BY <1>3, <1>4 DEF TextsIn
  <2> QED
    BY <2>2, <2>3, <2>4, <2>5
<1>5. CASE n # Len(p)
  <2>1. req' = [req EXCEPT ![r] = [req[r] EXCEPT !.pos = n + 1, !.pc = "reserve"]] /\ mail' = mail
    BY <1>1, <1>5 DEF Advance, TypeOK
  <2>2. \A s \in Requests : s # r => req'[s] = req[s]
    BY <2>1 DEF TypeOK
  <2>3. req'[r].payload = p /\ req'[r].pos = n + 1 /\ req'[r].pc = "reserve"
    BY <1>1, <2>1 DEF TypeOK, Req
  <2>4. n + 1 \in 1..Len(p) /\ (n + 1) - 1 = n
    BY <1>2, <1>5
  <2>5. ReqOk(r)' /\ req'[r].pc # "add"
    BY <1>2, <1>3, <2>1, <2>3, <2>4 DEF ReqOk
  <2> QED
    BY <2>1, <2>2, <2>5
<1> QED
  BY <1>4, <1>5

\* The requests about to enqueue a text, when only r has moved.
LEMMA AddersMove ==
  ASSUME TypeOK, NEW r \in Requests, \A s \in Requests : s # r => req'[s] = req[s],
         NEW t \in Texts
  PROVE  /\ Adders(t)' \subseteq Adders(t) \cup {r} /\ Adders(t) \subseteq Adders(t)' \cup {r}
         /\ req'[r].pc # "add" => Adders(t)' = Adders(t) \ {r}
         /\ Cardinality(Adders(t)') \in Nat
         /\ Cardinality(Adders(t)') <= Cardinality(Adders(t)) + 1
         /\ req'[r].pc # "add" => Cardinality(Adders(t)') <= Cardinality(Adders(t))
         /\ req'[r].pc # "add" /\ r \in Adders(t) =>
                Cardinality(Adders(t)') + 1 <= Cardinality(Adders(t))
<1>1. /\ Adders(t)' \subseteq Adders(t) \cup {r} /\ Adders(t) \subseteq Adders(t)' \cup {r}
      /\ req'[r].pc # "add" => Adders(t)' = Adders(t) \ {r}
  BY DEF Adders, TextOf
<1>2. Adders(t) \in SUBSET Requests /\ Adders(t)' \in SUBSET Requests
  BY DEF Adders
<1>3. PICK A \in SUBSET Requests, B \in SUBSET Requests : A = Adders(t) /\ B = Adders(t)'
  BY <1>2
<1>4. IsFiniteSet(Requests)
  BY SlotsAssumption
<1>5. Cardinality(B) \in Nat /\ Cardinality(B) <= Cardinality(A) + 1
  BY <1>1, <1>3, <1>4, OneMore, Sizes
<1>6. req'[r].pc # "add" => Cardinality(B) <= Cardinality(A)
  BY <1>1, <1>3, <1>4, Fewer
<1>7. req'[r].pc # "add" /\ r \in A => Cardinality(B) + 1 <= Cardinality(A)
  BY <1>1, <1>3, <1>4, OneLess
<1> QED
  BY <1>1, <1>3, <1>5, <1>6, <1>7

\* A job more.
LEMMA Appended ==
  ASSUME TypeOK, NEW x \in Texts, jobs' = Append(jobs, Arrived(x))
  PROVE  /\ Len(jobs') = Len(jobs) + 1 /\ jobs'[Len(jobs) + 1] = Arrived(x)
         /\ \A i \in 1..Len(jobs) : i \in 1..Len(jobs') /\ jobs'[i] = jobs[i]
         /\ \A t \in Texts \ {x} : JobsOf(t)' = JobsOf(t) /\ Waiting(t)' = Waiting(t)
         /\ JobsOf(x)' = JobsOf(x) \cup {Len(jobs) + 1}
         /\ Cardinality(JobsOf(x)') = Cardinality(JobsOf(x)) + 1
         /\ Cardinality(Waiting(x)') \in Nat
         /\ Cardinality(Waiting(x)') <= Cardinality(Waiting(x)) + 1
<1>1. PICK n \in Nat : n = Len(jobs)
  BY Intervals DEF TypeOK
<1>2. /\ Len(jobs') = n + 1 /\ jobs'[n + 1] = Arrived(x)
      /\ \A i \in 1..n : i \in 1..(n + 1) /\ jobs'[i] = jobs[i]
  BY <1>1, ArrivedType DEF TypeOK
<1>3. Arrived(x).text = x
  BY ArrivedType
<1>4. \A i : i \in 1..(n + 1) <=> i \in 1..n \/ i = n + 1
  BY <1>1
<1>5. \A t \in Texts \ {x} : JobsOf(t)' = JobsOf(t)
  BY <1>1, <1>2, <1>3, <1>4 DEF JobsOf
<1>6. JobsOf(x)' = JobsOf(x) \cup {n + 1}
  BY <1>1, <1>2, <1>3, <1>4 DEF JobsOf
<1>7. \A t \in Texts \ {x} : Waiting(t)' = Waiting(t)
  BY <1>1, <1>2, <1>5 DEF Waiting, JobsOf
<1>8. Waiting(x)' \subseteq Waiting(x) \cup {n + 1}
  BY <1>1, <1>2, <1>6 DEF Waiting, JobsOf
<1>9. PICK A, B, C, D : A = JobsOf(x) /\ B = JobsOf(x)' /\ C = Waiting(x) /\ D = Waiting(x)'
  OBVIOUS
<1>10. IsFiniteSet(1..(n + 1)) /\ n + 1 \in 1..(n + 1) /\ n + 1 \notin 1..n
  BY <1>1, Intervals
<1>11. /\ A \in SUBSET (1..(n + 1)) /\ B \in SUBSET (1..(n + 1)) /\ n + 1 \notin A
       /\ C \in SUBSET (1..(n + 1)) /\ D \in SUBSET (1..(n + 1))
  <2>1. A \subseteq 1..n /\ C \subseteq 1..n
    BY <1>1, <1>9 DEF JobsOf, Waiting
  <2> QED
    BY <2>1, <1>4, <1>6, <1>8, <1>9, <1>10
<1>12. Cardinality(B) = Cardinality(A) + 1
  <2>1. IsFiniteSet(A)
    BY <1>10, <1>11, Sizes
  <2>2. B = A \cup {n + 1}
    BY <1>6, <1>9
  <2> QED
    BY <1>11, <2>1, <2>2, FS_AddElement
<1>13. Cardinality(D) \in Nat /\ Cardinality(D) <= Cardinality(C) + 1
  BY <1>8, <1>9, <1>10, <1>11, Sizes, OneMore
<1> QED
  BY <1>1, <1>2, <1>5, <1>6, <1>7, <1>9, <1>12, <1>13
-----------------------------------------------------------------------------
(* Each of the webhook's steps. *)

\* The queue is the same.
LEMMA SameJobs ==
  ASSUME jobs' = jobs, NEW t
  PROVE  JobsOf(t)' = JobsOf(t) /\ Waiting(t)' = Waiting(t)
  BY DEF JobsOf, Waiting

LEMMA DeliverHooks ==
  ASSUME TypeOK, Hooks, TypeOK', NEW r \in Requests, NEW p \in Payloads, Deliver(r, p)
  PROVE  Hooks'
<1>1. /\ req[r].pc = "idle" /\ req'[r] = [pc |-> "reserve", payload |-> p, pos |-> 1]
      /\ \A s \in Requests : s # r => req'[s] = req[s]
      /\ mail'[p] = "pending" /\ \A o \in Payloads : o # p => mail'[o] = mail[o]
      /\ jobs' = jobs /\ keys' = keys /\ expired' = expired /\ broken' = broken
  BY DEF Deliver, TypeOK
<1>2. \A t \in Texts : JobsOf(t)' = JobsOf(t) /\ Adders(t)' = Adders(t)
  <2>1. \A t \in Texts : JobsOf(t)' = JobsOf(t)
    BY <1>1, SameJobs
  <2>2. req[r].pc # "add" /\ req'[r].pc # "add"
    BY <1>1
  <2> QED
    BY <1>1, <2>1, <2>2 DEF Adders, TextOf
<1>3. \A t \in Delivered : Kept(t) => Kept(t)'
  BY <1>1, <1>2, TextTypes DEF Kept
<1>4. \A t \in Delivered : KeyOk(t)'
  BY <1>1, <1>2, TextTypes DEF Hooks, KeyOk
<1>5. ReqOk(r)'
  <2>1. p \in Seq(Texts) /\ p # <<>>
    BY PayloadsAssumption
  <2>2. 1 \in 1..Len(p) /\ 1..(1 - 1) = {}
    BY <2>1
  <2>3. \A i \in 1..(1 - 1) : FALSE
    OBVIOUS
  <2>4. req'[r].payload = p /\ req'[r].pos = 1 /\ req'[r].pc = "reserve"
    BY <1>1
  <2> QED
    BY <1>1, <2>2, <2>3, <2>4 DEF ReqOk
<1>6. \A i \in 1..Len(jobs') : i \in 1..Len(jobs) /\ jobs'[i].text = jobs[i].text
  BY <1>1
<1>7. \A o \in Payloads : /\ mail[o] # "unsent" => mail'[o] # "unsent"
                          /\ mail'[o] = "answered" => mail[o] = "answered"
  BY <1>1
<1> QED
  BY <1>1, <1>3, <1>4, <1>5, <1>6, <1>7, HookFrame

LEMMA reserveHooks ==
  ASSUME TypeOK, Hooks, TypeOK', NEW r \in Requests, reserveOnce(r)
  PROVE  Hooks'
<1>1. PICK x \in Delivered : x = TextOf(r)
  BY Flying DEF reserveOnce
<1>2. x \in Texts /\ req[r].pc = "reserve" /\ jobs' = jobs /\ broken' = broken /\ expired' = expired
  BY TextTypes DEF reserveOnce
<1>3. \A t \in Texts : JobsOf(t)' = JobsOf(t) /\ r \notin Adders(t)
  BY <1>2, SameJobs DEF Adders
<1>4. \A i \in 1..Len(jobs') : i \in 1..Len(jobs) /\ jobs'[i].text = jobs[i].text
  BY <1>2
<1>5. CASE /\ x \notin keys /\ keys' = keys \cup {x}
           /\ req' = [req EXCEPT ![r].pc = "add"] /\ mail' = mail
  <2>1. /\ \A s \in Requests : s # r => req'[s] = req[s]
        /\ req'[r].pc = "add" /\ req'[r].payload = req[r].payload /\ req'[r].pos = req[r].pos
    BY <1>5 DEF TypeOK, Req
  <2>2. TextOf(r)' = x
    BY <1>1, <2>1 DEF TextOf
  <2>3. /\ r \in Adders(x)' /\ \A t \in Texts \ {x} : Adders(t)' = Adders(t)
        /\ \A t \in Texts : Adders(t) \subseteq Adders(t)'
    BY <1>3, <2>1, <2>2 DEF Adders, TextOf
  <2>4. \A t \in Delivered : Kept(t) => Kept(t)'
    BY <1>2, <1>3, <2>3, TextTypes DEF Kept
  <2>5. Kept(x)'
    BY <2>3 DEF Kept
  <2>6. KeyOk(x)'
    <3>1. Cardinality(Adders(x)') \in Nat /\ Cardinality(Adders(x)') <= Cardinality(Adders(x)) + 1
      BY <1>2, <2>1, AddersMove
    <3>2. Cardinality(JobsOf(x)) + Cardinality(Adders(x)) <= IF x \in expired THEN 1 ELSE 0
      BY <1>5 DEF Hooks, KeyOk
    <3>3. Cardinality(JobsOf(x)) \in Nat /\ Cardinality(Adders(x)) \in Nat
      BY <1>2, Numbers
    <3>4. Cardinality(JobsOf(x)') + Cardinality(Adders(x)') <= (IF x \in expired THEN 1 ELSE 0) + 1
      BY <1>2, <1>3, <3>1, <3>2, <3>3
    <3>5. x \in keys' /\ expired' = expired
      BY <1>2, <1>5
    <3> QED
      BY <3>4, <3>5 DEF KeyOk
  <2>7. \A t \in Delivered \ {x} : KeyOk(t)'
    BY <1>2, <1>3, <1>5, <2>3, TextTypes DEF Hooks, KeyOk
  <2>8. ReqOk(r)'
    <3>1. PICK p \in Payloads, n \in Nat : p = req[r].payload /\ n = req[r].pos
      BY <1>2, Flying
    <3>2. /\ n \in 1..Len(p) /\ mail[p] # "unsent" /\ p \in Seq(Texts)
          /\ \A i \in 1..(n - 1) : Kept(p[i])
      BY <1>2, <3>1, Flying DEF Hooks, ReqOk
    <3>3. \A i \in 1..(n - 1) : p[i] \in Delivered
      BY <3>2, TextTypes DEF TextsIn
    <3>4. \A i \in 1..(n - 1) : Kept(p[i])'
      BY <2>4, <3>2, <3>3
    <3> QED
      BY <1>5, <2>1, <3>1, <3>2, <3>4 DEF ReqOk
  <2> QED
    BY <1>2, <1>4, <1>5, <2>1, <2>4, <2>5, <2>6, <2>7, <2>8, HookFrame
<1>6. CASE x \in keys /\ Advance(r) /\ keys' = keys
  <2>1. \A s \in Requests : s # r => req'[s] = req[s]
    BY <1>6 DEF Advance, TypeOK
  <2>2. req'[r].pc # "add"
    BY <1>6, NoneTypes DEF Advance, TypeOK, Req
  <2>3. \A t \in Texts : Adders(t)' = Adders(t)
    BY <1>3, <2>1, <2>2 DEF Adders, TextOf
  <2>4. \A t \in Delivered : Kept(t) => Kept(t)'
    BY <1>2, <1>3, <2>3, TextTypes DEF Kept
  <2>5. Kept(x)'
    BY <1>6, <2>4 DEF Hooks
  <2>6. \A t \in Delivered : KeyOk(t)'
    BY <1>2, <1>3, <1>6, <2>3, TextTypes DEF Hooks, KeyOk
  <2>7. /\ \A p \in Payloads : mail[p] # "unsent" => mail'[p] # "unsent"
        /\ ReqOk(r)'
        /\ \A p \in Payloads : mail'[p] = "answered" /\ mail[p] # "answered" =>
                \A t \in TextsIn(p) : Kept(t)'
    BY <1>1, <1>2, <1>6, <2>4, <2>5, Advanced
  <2> QED
    BY <1>2, <1>4, <1>6, <2>1, <2>4, <2>6, <2>7, HookFrame
<1> QED
  BY <1>1, <1>5, <1>6 DEF reserveOnce

\* What enqueuing a text does to its counts, whether or not the request goes on.
LEMMA Enqueued ==
  ASSUME TypeOK, Hooks, NEW r \in Requests, req[r].pc = "add", NEW x, x = TextOf(r),
         jobs' = Append(jobs, Arrived(x)), keys' = keys, expired' = expired, broken' = broken,
         \A s \in Requests : s # r => req'[s] = req[s], req'[r].pc # "add"
  PROVE  /\ \A t \in Delivered : Kept(t) => Kept(t)'
         /\ \A t \in Delivered : KeyOk(t)'
         /\ Kept(x)'
         /\ \A i \in 1..Len(jobs') : \/ i \in 1..Len(jobs) /\ jobs'[i].text = jobs[i].text
                                     \/ jobs'[i].text \in Delivered /\ Written(jobs'[i].text)
<1>1. x \in Delivered /\ x \in Texts /\ Written(x) /\ r \in Adders(x)
  BY Flying DEF Adders
<1>2. JobsOf(x)' # {}
  BY <1>1, Appended
<1>3. \A t \in Texts \ {x} : JobsOf(t)' = JobsOf(t) /\ Adders(t)' = Adders(t)
  <2>1. \A t \in Texts \ {x} : r \notin Adders(t)
    BY DEF Adders
  <2>2. \A t \in Texts \ {x} : Adders(t)' = Adders(t)
    BY <2>1 DEF Adders, TextOf
  <2> QED
    BY <1>1, <2>2, Appended
<1>4. Kept(x)'
  BY <1>2 DEF Kept
<1>5. \A t \in Delivered : Kept(t) => Kept(t)'
  BY <1>3, <1>4, TextTypes DEF Kept
<1>6. KeyOk(x)'
  <2>1. /\ Cardinality(Adders(x)') \in Nat
        /\ Cardinality(Adders(x)') + 1 <= Cardinality(Adders(x))
        /\ Cardinality(JobsOf(x)') = Cardinality(JobsOf(x)) + 1
    BY <1>1, AddersMove, Appended
  <2>2. Cardinality(JobsOf(x)) \in Nat /\ Cardinality(Adders(x)) \in Nat
    BY <1>1, Numbers
  <2>3. Cardinality(JobsOf(x)') + Cardinality(Adders(x)')
            <= Cardinality(JobsOf(x)) + Cardinality(Adders(x))
    BY <2>1, <2>2
  <2>4. PICK k \in Nat : k = (IF x \in keys THEN 1 ELSE 0) + (IF x \in expired THEN 1 ELSE 0)
    OBVIOUS
  <2>5. Cardinality(JobsOf(x)) + Cardinality(Adders(x)) <= k
    BY <1>1, <2>4 DEF Hooks, KeyOk
  <2>6. Cardinality(JobsOf(x)') + Cardinality(Adders(x)') <= k
    BY <2>1, <2>2, <2>3, <2>5
  <2> QED
    BY <2>4, <2>6 DEF KeyOk
<1>7. \A t \in Delivered \ {x} : KeyOk(t)'
  BY <1>3, TextTypes DEF Hooks, KeyOk
<1>8. \A i \in 1..Len(jobs') : \/ i \in 1..Len(jobs) /\ jobs'[i].text = jobs[i].text
                               \/ jobs'[i].text \in Delivered /\ Written(jobs'[i].text)
  <2>1. /\ Len(jobs') = Len(jobs) + 1 /\ jobs'[Len(jobs) + 1] = Arrived(x)
        /\ \A i \in 1..Len(jobs) : jobs'[i] = jobs[i]
        /\ Arrived(x).text = x /\ Len(jobs) \in Nat
    BY <1>1, Appended, ArrivedType, Numbers
  <2>2. \A i \in 1..Len(jobs') : i \in 1..Len(jobs) \/ i = Len(jobs) + 1
    BY <2>1
  <2> QED
    BY <1>1, <2>1, <2>2
<1> QED
  BY <1>4, <1>5, <1>6, <1>7, <1>8

LEMMA addHooks ==
  ASSUME TypeOK, Hooks, TypeOK', NEW r \in Requests, addJob(r)
  PROVE  Hooks'
<1>1. PICK x : x = TextOf(r)
  OBVIOUS
<1>2. /\ req[r].pc = "add" /\ jobs' = Append(jobs, Arrived(x)) /\ Advance(r)
      /\ keys' = keys /\ broken' = broken /\ expired' = expired
  BY <1>1 DEF addJob
<1>3. \A s \in Requests : s # r => req'[s] = req[s]
  BY <1>2 DEF Advance, TypeOK
<1>4. req'[r].pc # "add"
  BY <1>2, NoneTypes DEF Advance, TypeOK, Req
<1>5. /\ \A t \in Delivered : Kept(t) => Kept(t)'
      /\ \A t \in Delivered : KeyOk(t)'
      /\ Kept(x)'
      /\ \A i \in 1..Len(jobs') : \/ i \in 1..Len(jobs) /\ jobs'[i].text = jobs[i].text
                                  \/ jobs'[i].text \in Delivered /\ Written(jobs'[i].text)
  BY <1>1, <1>2, <1>3, <1>4, Enqueued
<1>6. /\ \A p \in Payloads : mail[p] # "unsent" => mail'[p] # "unsent"
      /\ ReqOk(r)'
      /\ \A p \in Payloads : mail'[p] = "answered" /\ mail[p] # "answered" =>
             \A t \in TextsIn(p) : Kept(t)'
  BY <1>1, <1>2, <1>5, Advanced
<1> QED
  BY <1>2, <1>3, <1>5, <1>6, HookFrame

LEMMA RequestFailsHooks ==
  ASSUME TypeOK, Hooks, TypeOK', NEW r \in Requests, RequestFails(r)
  PROVE  Hooks'
<1>1. PICK x \in Delivered : x = TextOf(r)
  BY Flying DEF RequestFails
<1>2. x \in Texts /\ req[r].pc # "idle" /\ mail' = mail /\ expired' = expired
  BY TextTypes DEF RequestFails
<1>3. req'[r] = NoReq /\ req'[r].pc # "add" /\ \A s \in Requests : s # r => req'[s] = req[s]
  BY NoneTypes DEF RequestFails, TypeOK
<1>4. ReqOk(r)'
  BY <1>3, NoneTypes DEF ReqOk
<1>5. /\ \A p \in Payloads : mail[p] # "unsent" => mail'[p] # "unsent"
      /\ \A p \in Payloads : mail'[p] = "answered" => mail[p] = "answered"
  BY <1>2
<1>6. SUFFICES
        /\ \A t \in Delivered : Kept(t) => Kept(t)'
        /\ \A t \in Delivered : KeyOk(t)'
        /\ \A t \in Delivered : t \in keys' \cup expired' => t \in keys \cup expired \/ Kept(t)'
        /\ \A i \in 1..Len(jobs') : \/ i \in 1..Len(jobs) /\ jobs'[i].text = jobs[i].text
                                    \/ jobs'[i].text \in Delivered /\ Written(jobs'[i].text)
  BY <1>3, <1>4, <1>5, HookFrame
<1>7. ASSUME jobs' = jobs, broken \subseteq broken', keys \subseteq keys',
             req[r].pc = "add" => x \in broken'
      PROVE  /\ \A t \in Delivered : Kept(t) => Kept(t)'
             /\ \A t \in Delivered : /\ Cardinality(Adders(t)') <= Cardinality(Adders(t))
                                     /\ Cardinality(Adders(t)') \in Nat
                                     /\ JobsOf(t)' = JobsOf(t)
  <2>1. \A t \in Delivered : JobsOf(t)' = JobsOf(t) /\ Adders(t)' = Adders(t) \ {r}
    BY <1>3, <1>7, TextTypes, SameJobs, AddersMove
  <2>2. \A t \in Delivered : r \in Adders(t) => t = x /\ req[r].pc = "add"
    BY <1>1 DEF Adders
  <2>3. \A t \in Delivered : Kept(t) => Kept(t)'
    BY <1>7, <2>1, <2>2 DEF Kept
  <2>4. \A t \in Delivered : /\ Cardinality(Adders(t)') <= Cardinality(Adders(t))
                             /\ Cardinality(Adders(t)') \in Nat
    BY <1>3, TextTypes, AddersMove
  <2> QED
    BY <2>1, <2>3, <2>4
<1>8. CASE UNCHANGED <<keys, jobs>> /\ broken' = broken \cup Reserved(r)
  <2>1. req[r].pc = "add" => x \in broken'
    BY <1>1, <1>2, <1>8 DEF Reserved
  <2>2. \A t \in Delivered : /\ Kept(t) => Kept(t)'
                             /\ Cardinality(Adders(t)') <= Cardinality(Adders(t))
                             /\ Cardinality(Adders(t)') \in Nat /\ JobsOf(t)' = JobsOf(t)
    BY <1>7, <1>8, <2>1
  <2>3. ASSUME NEW t \in Delivered
        PROVE  KeyOk(t)'
    <3>1. PICK k \in Nat : k = (IF t \in keys THEN 1 ELSE 0) + (IF t \in expired THEN 1 ELSE 0)
      OBVIOUS
    <3>2. /\ Cardinality(JobsOf(t)) + Cardinality(Adders(t)) <= k
          /\ Cardinality(JobsOf(t)) \in Nat /\ Cardinality(Adders(t)) \in Nat
      BY <3>1, TextTypes, Numbers DEF Hooks, KeyOk
    <3>3. Cardinality(JobsOf(t)') + Cardinality(Adders(t)') <= k
      BY <2>2, <3>2
    <3> QED
      BY <1>2, <1>8, <3>1, <3>3 DEF KeyOk
  <2> QED
    BY <1>2, <1>8, <2>2, <2>3
<1>9. CASE /\ req[r].pc = "reserve" /\ keys' = keys \cup {x} /\ jobs' = jobs
           /\ broken' = broken \cup (keys' \ keys)
  <2>1. \A t \in Delivered : /\ Kept(t) => Kept(t)'
                             /\ Cardinality(Adders(t)') <= Cardinality(Adders(t))
                             /\ Cardinality(Adders(t)') \in Nat /\ JobsOf(t)' = JobsOf(t)
    BY <1>7, <1>9
  <2>2. ASSUME NEW t \in Delivered
        PROVE  KeyOk(t)'
    <3>1. PICK k \in Nat, l \in Nat :
              /\ k = (IF t \in keys THEN 1 ELSE 0) + (IF t \in expired THEN 1 ELSE 0)
              /\ l = (IF t \in keys' THEN 1 ELSE 0) + (IF t \in expired' THEN 1 ELSE 0)
      OBVIOUS
    <3>2. k <= l
      BY <1>2, <1>9, <3>1
    <3>3. /\ Cardinality(JobsOf(t)) + Cardinality(Adders(t)) <= k
          /\ Cardinality(JobsOf(t)) \in Nat /\ Cardinality(Adders(t)) \in Nat
      BY <3>1, TextTypes, Numbers DEF Hooks, KeyOk
    <3>4. Cardinality(JobsOf(t)') + Cardinality(Adders(t)') <= l
      BY <2>1, <3>2, <3>3
    <3> QED
      BY <3>1, <3>4 DEF KeyOk
  <2>3. \A t \in Delivered : t \in keys' => t \in keys \/ Kept(t)'
    BY <1>9 DEF Kept
  <2> QED
    BY <1>2, <1>9, <2>1, <2>2, <2>3
<1>10. CASE /\ req[r].pc = "add" /\ jobs' = Append(jobs, Arrived(x))
            /\ UNCHANGED <<keys, broken>>
  <2>1. /\ \A t \in Delivered : Kept(t) => Kept(t)'
        /\ \A t \in Delivered : KeyOk(t)'
        /\ \A i \in 1..Len(jobs') : \/ i \in 1..Len(jobs) /\ jobs'[i].text = jobs[i].text
                                    \/ jobs'[i].text \in Delivered /\ Written(jobs'[i].text)
    BY <1>1, <1>2, <1>3, <1>10, Enqueued
  <2> QED
    BY <1>2, <1>10, <2>1
<1> QED
  BY <1>1, <1>8, <1>9, <1>10 DEF RequestFails

LEMMA KeyExpiresHooks ==
  ASSUME TypeOK, Hooks, TypeOK', NEW x \in Delivered, KeyExpires(x)
  PROVE  Hooks'
<1>1. /\ x \in keys /\ x \notin expired /\ keys' = keys \ {x} /\ expired' = expired \cup {x}
      /\ mail' = mail /\ req' = req /\ jobs' = jobs /\ broken' = broken
  BY DEF KeyExpires
<1>2. \A t \in Texts : JobsOf(t)' = JobsOf(t) /\ Adders(t)' = Adders(t)
  BY <1>1, SameJobs DEF Adders, TextOf
<1>3. \A t \in Texts : Kept(t)' <=> Kept(t)
  BY <1>1, <1>2 DEF Kept
<1>4. \A t \in Delivered : KeyOk(t)'
  BY <1>1, <1>2, TextTypes DEF Hooks, KeyOk
<1>5. ASSUME NEW r \in Requests
      PROVE  ReqOk(r)'
  <2>1. CASE req[r].pc = "idle"
    BY <1>1, <2>1 DEF Hooks, ReqOk
  <2>2. CASE req[r].pc # "idle"
    <3>1. PICK p \in Payloads, n \in Nat : p = req[r].payload /\ n = req[r].pos
      BY <2>2, Flying
    <3>2. /\ n \in 1..Len(p) /\ mail[p] # "unsent" /\ p \in Seq(Texts)
          /\ \A i \in 1..(n - 1) : Kept(p[i])
      BY <2>2, <3>1, Flying DEF Hooks, ReqOk
    <3>3. \A i \in 1..(n - 1) : p[i] \in Texts
      BY <3>2
    <3>4. \A i \in 1..(n - 1) : Kept(p[i])'
      BY <1>3, <3>2, <3>3
    <3> QED
      BY <1>1, <2>2, <3>1, <3>2, <3>4 DEF ReqOk
  <2> QED
    BY <2>1, <2>2
<1>6. \A t \in Delivered : t \in keys' \cup expired' => Kept(t)'
  BY <1>1, <1>3, TextTypes DEF Hooks
<1>7. \A p \in Payloads : mail'[p] = "answered" => \A t \in TextsIn(p) : Kept(t)'
  BY <1>1, <1>3, TextTypes DEF Hooks
<1>8. (\A i \in 1..Len(jobs) : jobs[i].text \in Delivered /\ Written(jobs[i].text))'
  BY <1>1 DEF Hooks, Written
<1> QED
  BY <1>4, <1>5, <1>6, <1>7, <1>8 DEF Hooks, TypeOK

\* The steps that leave the webhook, and the texts of the queue, as they are.
LEMMA HooksStay ==
  ASSUME TypeOK, Hooks, UNCHANGED hookVars, Len(jobs') = Len(jobs),
         \A i \in 1..Len(jobs) : jobs'[i].text = jobs[i].text
  PROVE  Hooks'
<1>1. mail' = mail /\ req' = req /\ keys' = keys /\ broken' = broken /\ expired' = expired
  BY DEF hookVars
<1>2. \A t \in Texts : JobsOf(t)' = JobsOf(t) /\ Adders(t)' = Adders(t)
  BY <1>1 DEF JobsOf, Adders, TextOf
<1>3. \A t \in Texts : Kept(t)' <=> Kept(t)
  BY <1>1, <1>2 DEF Kept
<1>4. \A t \in Delivered : KeyOk(t)'
  BY <1>1, <1>2, TextTypes DEF Hooks, KeyOk
<1>5. ASSUME NEW r \in Requests
      PROVE  ReqOk(r)'
  <2>1. CASE req[r].pc = "idle"
    BY <1>1, <2>1 DEF Hooks, ReqOk
  <2>2. CASE req[r].pc # "idle"
    <3>1. PICK p \in Payloads, n \in Nat : p = req[r].payload /\ n = req[r].pos
      BY <2>2, Flying
    <3>2. /\ n \in 1..Len(p) /\ mail[p] # "unsent" /\ p \in Seq(Texts)
          /\ \A i \in 1..(n - 1) : Kept(p[i])
      BY <2>2, <3>1, Flying DEF Hooks, ReqOk
    <3>3. \A i \in 1..(n - 1) : p[i] \in Texts
      BY <3>2
    <3>4. \A i \in 1..(n - 1) : Kept(p[i])'
      BY <1>3, <3>2, <3>3
    <3> QED
      BY <1>1, <2>2, <3>1, <3>2, <3>4 DEF ReqOk
  <2> QED
    BY <2>1, <2>2
<1>6. \A t \in Delivered : t \in keys' \cup expired' => Kept(t)'
  BY <1>1, <1>3, TextTypes DEF Hooks
<1>7. \A p \in Payloads : mail'[p] = "answered" => \A t \in TextsIn(p) : Kept(t)'
  BY <1>1, <1>3, TextTypes DEF Hooks
<1>8. (\A i \in 1..Len(jobs) : jobs[i].text \in Delivered /\ Written(jobs[i].text))'
  BY <1>1 DEF Hooks, Written
<1>9. (\A t \in keys \cup expired : Kept(t))'
  BY <1>1, <1>3, TextTypes DEF Hooks, TypeOK
<1> QED
  BY <1>4, <1>5, <1>7, <1>8, <1>9 DEF Hooks

\* A restart: what was reserved and not enqueued is known to be broken.
LEMMA RestartHooks ==
  ASSUME TypeOK, Hooks, TypeOK', Restart
  PROVE  Hooks'
<1>1. /\ mail' = mail /\ keys' = keys /\ jobs' = jobs /\ expired' = expired
      /\ req' = [r \in Requests |-> NoReq]
      /\ broken' = broken \cup UNION {Reserved(r) : r \in Requests}
  BY DEF Restart
<1>2. \A r \in Requests : req'[r] = NoReq /\ ReqOk(r)'
  BY <1>1, NoneTypes DEF ReqOk
<1>3. \A t \in Texts : JobsOf(t)' = JobsOf(t) /\ Adders(t)' = {}
  BY <1>1, <1>2, SameJobs, NoneTypes DEF Adders
<1>4. \A t \in Texts : Kept(t) => Kept(t)'
  <2>1. \A t \in Texts : Adders(t) # {} => t \in broken'
    BY <1>1 DEF Adders, Reserved
  <2> QED
    BY <1>1, <1>3, <2>1 DEF Kept
<1>5. ASSUME NEW t \in Delivered
      PROVE  KeyOk(t)'
  <2>1. PICK k \in Nat : k = (IF t \in keys THEN 1 ELSE 0) + (IF t \in expired THEN 1 ELSE 0)
    OBVIOUS
  <2>2. /\ Cardinality(JobsOf(t)) + Cardinality(Adders(t)) <= k
        /\ Cardinality(JobsOf(t)) \in Nat /\ Cardinality(Adders(t)) \in Nat
    BY <2>1, TextTypes, Numbers DEF Hooks, KeyOk
  <2>3. Cardinality(Adders(t)') = 0
    BY <1>3, TextTypes, FS_EmptySet
  <2>4. Cardinality(JobsOf(t)') + Cardinality(Adders(t)') <= k
    BY <1>3, <2>2, <2>3, TextTypes
  <2> QED
    BY <1>1, <2>1, <2>4 DEF KeyOk
<1>6. (\A t \in keys \cup expired : Kept(t))'
  BY <1>1, <1>4, TextTypes DEF Hooks, TypeOK
<1>7. \A p \in Payloads : mail'[p] = "answered" => \A t \in TextsIn(p) : Kept(t)'
  BY <1>1, <1>4, TextTypes DEF Hooks
<1>8. (\A i \in 1..Len(jobs) : jobs[i].text \in Delivered /\ Written(jobs[i].text))'
  BY <1>1 DEF Hooks, Written
<1> QED
  BY <1>2, <1>5, <1>6, <1>7, <1>8 DEF Hooks
-----------------------------------------------------------------------------
(* Types of the handling. *)

LEMMA GotoTypes ==
  ASSUME TypeOK, NEW w \in Workers, NEW k \in Pc, Goto(w, k)
  PROVE  /\ run' \in [Workers -> Run] /\ run'[w].pc = k /\ run'[w].text = run[w].text
         /\ run'[w].job = run[w].job /\ run'[w].kase = run[w].kase
         /\ \A v \in Workers : v # w => run'[v] = run[v]
<1>1. run' = [run EXCEPT ![w] = [run[w] EXCEPT !.pc = k]]
  BY DEF Goto, TypeOK
<1>2. run[w] \in Run
  BY DEF TypeOK
<1>3. [run[w] EXCEPT !.pc = k] \in Run
  BY <1>2 DEF Run
<1> QED
  BY <1>1, <1>2, <1>3 DEF TypeOK, Run

LEMMA handleTypes ==
  ASSUME NEW t \in Texts, NEW i \in Nat
  PROVE  /\ handle(t, i) \in Run /\ handle(t, i).text = t /\ handle(t, i).job = i
         /\ handle(t, i).pc \in {"find", "mark"}
         /\ handle(t, i).pc = "mark" => handle(t, i).kase \in Contacts
<1>1. t \in Direct => CallCase[t] \in Contacts \cup {None}
  BY TextsAssumption
<1>2. PICK k \in {"find", "mark"}, c \in Contacts \cup {None} :
          /\ k = IF t \in Direct /\ CallCase[t] # None THEN "mark" ELSE "find"
          /\ c = IF t \in Direct THEN CallCase[t] ELSE None
  BY <1>1
<1>3. k = "mark" => c \in Contacts
  BY <1>1, <1>2
<1>4. handle(t, i) = [NoRun EXCEPT !.job = i, !.text = t, !.pc = k, !.kase = c]
  BY <1>2, Zenon DEF handle
<1>5. handle(t, i) = [pc |-> k, job |-> i, text |-> t, kase |-> c]
  BY <1>4 DEF NoRun
<1> QED
  BY <1>3, <1>5 DEF Run, Pc

\* One job of the queue becomes another.
LEMMA JobMoves ==
  ASSUME TypeOK, NEW i \in 1..Len(jobs), NEW q \in Job, q.text = jobs[i].text,
         jobs' = [jobs EXCEPT ![i] = q]
  PROVE  /\ jobs' \in Seq(Job) /\ Len(jobs') = Len(jobs) /\ jobs'[i] = q
         /\ \A j \in 1..Len(jobs) : /\ j # i => jobs'[j] = jobs[j]
                                    /\ jobs'[j].text = jobs[j].text
         /\ \A t \in Texts : JobsOf(t)' = JobsOf(t)
<1>1. /\ jobs' \in Seq(Job) /\ Len(jobs') = Len(jobs) /\ jobs'[i] = q
      /\ \A j \in 1..Len(jobs) : j # i => jobs'[j] = jobs[j]
  BY DEF TypeOK
<1>2. \A j \in 1..Len(jobs) : jobs'[j].text = jobs[j].text
  BY <1>1
<1>3. \A t \in Texts : JobsOf(t)' = JobsOf(t)
  BY <1>1, <1>2 DEF JobsOf
<1> QED
  BY <1>1, <1>2, <1>3

\* Settled keeps the type and the text.
LEMMA SettledType ==
  ASSUME NEW q \in Job, NEW w \in Workers, NEW s \in Job, s.text = q.text
  PROVE  Settled(q, w, s) \in Job /\ Settled(q, w, s).text = q.text
  BY DEF Settled

\* A step of a slot that is not idle.
Moves(w) ==
  \/ findOpenCaseIdByAddress(w) \/ markInbound(w) \/ markDnc(w) \/ createPtp(w)
  \/ createPtpLost(w) \/ replyLookup(w) \/ reply(w) \/ replyFails(w) \/ StepFails(w)

LEMMA RunTexts ==
  ASSUME TypeOK, Handling, NEW w \in Workers, run[w].pc # "idle"
  PROVE  run[w].text \in Texts
  BY DEF Handling, RunOk
-----------------------------------------------------------------------------
(* What a step of one slot does to the counts. *)

LEMMA OneMoved ==
  ASSUME NEW U, IsFiniteSet(U), NEW A \in SUBSET U, NEW B \in SUBSET U, NEW x \in U,
         \A y \in U : y # x => (y \in A <=> y \in B)
  PROVE  /\ Cardinality(A) \in Nat /\ Cardinality(B) \in Nat
         /\ Cardinality(B) + (IF x \in A THEN 1 ELSE 0)
                = Cardinality(A) + (IF x \in B THEN 1 ELSE 0)
<1>1. ASSUME NEW C \in SUBSET U
      PROVE  /\ IsFiniteSet(C) /\ Cardinality(C) \in Nat /\ Cardinality(C \ {x}) \in Nat
             /\ Cardinality(C) = Cardinality(C \ {x}) + (IF x \in C THEN 1 ELSE 0)
  <2>1. IsFiniteSet(C) /\ Cardinality(C) \in Nat
    BY Sizes
  <2>2. C \ {x} \in SUBSET U
    OBVIOUS
  <2>3. Cardinality(C \ {x}) \in Nat
    BY <2>2, Sizes
  <2>4. Cardinality(C \ {x}) = IF x \in C THEN Cardinality(C) - 1 ELSE Cardinality(C)
    BY <2>1, FS_RemoveElement
  <2> QED
    BY <2>1, <2>3, <2>4
<1>2. PICK k : k = Cardinality(A \ {x}) /\ k = Cardinality(B \ {x})
  <2>1. A \ {x} = B \ {x}
    OBVIOUS
  <2> QED
    BY <2>1
<1>3. PICK a, b : a = (IF x \in A THEN 1 ELSE 0) /\ b = (IF x \in B THEN 1 ELSE 0)
  OBVIOUS
<1>4. k \in Nat /\ Cardinality(A) = k + a /\ Cardinality(B) = k + b
  BY <1>1, <1>2, <1>3
<1>5. a \in Nat /\ b \in Nat
  BY <1>3
<1>6. Cardinality(A) \in Nat /\ Cardinality(B) \in Nat /\ Cardinality(B) + a = Cardinality(A) + b
  BY <1>4, <1>5
<1> QED
  BY <1>3, <1>6

\* The slots that handle a text, when only w has moved.
LEMMA SlotsMove ==
  ASSUME NEW w \in Workers, \A v \in Workers : v # w => run'[v] = run[v],
         NEW t, NEW S
  PROVE  /\ Cardinality(Slots(t, S)) \in Nat /\ Cardinality(Slots(t, S)') \in Nat
         /\ Cardinality(Slots(t, S)') + (IF w \in Slots(t, S) THEN 1 ELSE 0)
                = Cardinality(Slots(t, S)) + (IF w \in Slots(t, S)' THEN 1 ELSE 0)
<1>1. PICK A \in SUBSET Workers, B \in SUBSET Workers : A = Slots(t, S) /\ B = Slots(t, S)'
  BY DEF Slots
<1>2. \A v \in Workers : v # w => (v \in A <=> v \in B)
  BY <1>1 DEF Slots
<1> QED
  BY <1>1, <1>2, OneMoved, SlotsAssumption

\* A step of w that leaves the queue and the calls alone.
LEMMA MoveBound ==
  ASSUME TypeOK, TypeOK', NEW w \in Workers, run'[w].text = run[w].text,
         \A v \in Workers : v # w => run'[v] = run[v], jobs' = jobs, calls' = calls,
         NEW t \in Texts, NEW S, NEW n \in Nat, NEW m \in Nat, Bounded(t, S, n),
         m + (IF w \in Slots(t, S)' THEN 1 ELSE 0) + causes[t]
             <= n + (IF w \in Slots(t, S) THEN 1 ELSE 0) + causes'[t]
  PROVE  Bounded(t, S, m)'
<1>1. /\ Cardinality(Slots(t, S)) \in Nat /\ Cardinality(Slots(t, S)') \in Nat
      /\ Cardinality(Slots(t, S)') + (IF w \in Slots(t, S) THEN 1 ELSE 0)
                = Cardinality(Slots(t, S)) + (IF w \in Slots(t, S)' THEN 1 ELSE 0)
  BY SlotsMove
<1>2. Waiting(t)' = Waiting(t) /\ JobsOf(t)' = JobsOf(t) /\ Asked(t)' = Asked(t)
  BY SameJobs DEF Asked
<1>3. Uncalled(t)' = Uncalled(t)
  <2>1. \A v \in Workers : run'[v].text = run[v].text
    OBVIOUS
  <2> QED
    BY <2>1 DEF Uncalled
<1>4. /\ Cardinality(Waiting(t)) \in Nat /\ Uncalled(t) \in Nat /\ Asked(t) \in Nat
      /\ causes[t] \in Nat /\ causes'[t] \in Nat
  <2>1. Cardinality(Waiting(t)) \in Nat /\ Uncalled(t) \in 0..1 /\ Asked(t) \in Nat
    BY Numbers
  <2>2. causes[t] \in Nat /\ causes'[t] \in Nat
    BY DEF TypeOK
  <2> QED
    BY <2>1, <2>2
<1>5. n + Cardinality(Slots(t, S)) + Cardinality(Waiting(t)) + Uncalled(t) <= Asked(t) + causes[t]
  BY DEF Bounded
<1>6. PICK a \in Nat, b \in Nat : /\ a = IF w \in Slots(t, S) THEN 1 ELSE 0
                                  /\ b = IF w \in Slots(t, S)' THEN 1 ELSE 0
  OBVIOUS
<1>7. m + Cardinality(Slots(t, S)') + Cardinality(Waiting(t)) + Uncalled(t)
          <= Asked(t) + causes'[t]
  <2>1. PICK s, r, q, u, k, c, d : /\ s = Cardinality(Slots(t, S)) /\ r = Cardinality(Slots(t, S)')
                                   /\ q = Cardinality(Waiting(t)) /\ u = Uncalled(t)
                                   /\ k = Asked(t) /\ c = causes[t] /\ d = causes'[t]
    OBVIOUS
  <2>2. /\ s \in Nat /\ r \in Nat /\ q \in Nat /\ u \in Nat /\ k \in Nat /\ c \in Nat /\ d \in Nat
        /\ r + a = s + b /\ n + s + q + u <= k + c /\ m + b + c <= n + a + d
    BY <1>1, <1>4, <1>5, <1>6, <2>1
  <2>3. m + r + q + u <= k + d
    BY <2>2
  <2> QED
    BY <2>1, <2>3
<1> QED
  BY <1>2, <1>3, <1>7 DEF Bounded

\* Such a step keeps what the handling promises.
LEMMA MoveFrame ==
  ASSUME TypeOK, TypeOK', Handling, PromiseIsRecorded, NEW w \in Workers, NEW x \in Texts,
         run[w].pc # "idle", run'[w].pc # "idle", x = run[w].text,
         run'[w].text = x, run'[w].job = run[w].job,
         \A v \in Workers : v # w => run'[v] = run[v],
         jobs' = jobs, calls' = calls,
         run'[w].pc = "mark" => run'[w].kase \in Contacts,
         run'[w].pc = "dnc" => Intent(x) = "BAJA",
         run'[w].pc \in {"lookup", "queue"} /\ Intent(x) = "PTP" => ptps'[x] > 0,
         ptps'[x] >= ptps[x],
         \A t \in Texts : t # x => /\ ptps'[t] = ptps[t] /\ replies'[t] = replies[t]
                                   /\ causes'[t] = causes[t],
         replies'[x] > 0 => replies[x] > 0 \/ run[w].pc = "queue",
         ptps'[x] + (IF run'[w].pc \in BeforePtp THEN 1 ELSE 0) + causes[x]
             <= ptps[x] + (IF run[w].pc \in BeforePtp THEN 1 ELSE 0) + causes'[x],
         replies'[x] + (IF run'[w].pc \in BeforeReply THEN 1 ELSE 0) + causes[x]
             <= replies[x] + (IF run[w].pc \in BeforeReply THEN 1 ELSE 0) + causes'[x]
  PROVE  Handling' /\ PromiseIsRecorded'
<1>1. ASSUME NEW t \in Texts
      PROVE  ptps[t] > 0 => ptps'[t] > 0
  <2>1. ptps[t] \in Nat /\ ptps'[t] \in Nat
    BY DEF TypeOK
  <2>2. ptps'[t] >= ptps[t]
    <3>1. CASE t = x
      BY <3>1
    <3>2. CASE t # x
      BY <2>1, <3>2
    <3> QED
      BY <3>1, <3>2
  <2> QED
    BY <2>1, <2>2
<1>2. \A S : (w \in Slots(x, S) <=> run[w].pc \in S) /\ (w \in Slots(x, S)' <=> run'[w].pc \in S)
  BY DEF Slots
<1>3. Effects(x)'
  <2>1. PICK n \in Nat, m \in Nat : n = ptps[x] /\ m = ptps'[x]
    BY DEF TypeOK
  <2>2. Bounded(x, BeforePtp, m)'
    <3>1. Bounded(x, BeforePtp, n)
      BY <2>1 DEF Handling, Effects
    <3>2. m + (IF w \in Slots(x, BeforePtp)' THEN 1 ELSE 0) + causes[x]
              <= n + (IF w \in Slots(x, BeforePtp) THEN 1 ELSE 0) + causes'[x]
      BY <1>2, <2>1
    <3> QED
      BY <3>1, <3>2, MoveBound
  <2>3. PICK k \in Nat, l \in Nat : k = replies[x] /\ l = replies'[x]
    BY DEF TypeOK
  <2>4. Bounded(x, BeforeReply, l)'
    <3>1. Bounded(x, BeforeReply, k)
      BY <2>3 DEF Handling, Effects
    <3>2. l + (IF w \in Slots(x, BeforeReply)' THEN 1 ELSE 0) + causes[x]
              <= k + (IF w \in Slots(x, BeforeReply) THEN 1 ELSE 0) + causes'[x]
      BY <1>2, <2>3
    <3> QED
      BY <3>1, <3>2, MoveBound
  <2> QED
    BY <2>1, <2>2, <2>3, <2>4 DEF Effects, Bounded
<1>4. ASSUME NEW t \in Texts, t # x
      PROVE  Effects(t)'
  <2>1. \A S : w \notin Slots(t, S) /\ w \notin Slots(t, S)'
    BY <1>4 DEF Slots
  <2>2. PICK n \in Nat, k \in Nat : n = ptps[t] /\ k = replies[t]
    BY DEF TypeOK
  <2>3. Bounded(t, BeforePtp, n) /\ Bounded(t, BeforeReply, k)
    BY <2>2 DEF Handling, Effects
  <2>4. causes'[t] = causes[t] /\ causes[t] \in Nat
    BY <1>4 DEF TypeOK
  <2>5. ASSUME NEW S, NEW j \in Nat, Bounded(t, S, j)
        PROVE  Bounded(t, S, j)'
    <3>1. j + (IF w \in Slots(t, S)' THEN 1 ELSE 0) + causes[t]
              <= j + (IF w \in Slots(t, S) THEN 1 ELSE 0) + causes'[t]
      BY <2>1, <2>4
    <3>2. run'[w].text = run[w].text
      OBVIOUS
    <3> QED
      BY <2>5, <3>1, <3>2, MoveBound
  <2> QED
    BY <1>4, <2>2, <2>3, <2>5 DEF Effects, Bounded
<1>5. ASSUME NEW v \in Workers
      PROVE  RunOk(v)'
  <2>1. \A u \in Workers : run'[u].text = run[u].text /\ run'[u].job = run[u].job
    OBVIOUS
  <2>2. CASE v = w
    BY <2>1, <2>2 DEF Handling, RunOk
  <2>3. CASE v # w
    BY <1>1, <2>1, <2>3 DEF Handling, RunOk
  <2> QED
    BY <2>2, <2>3
<1>6. PromiseIsRecorded'
  <2>1. run[w].pc = "queue" /\ Intent(x) = "PTP" => ptps[x] > 0
    BY DEF Handling, RunOk
  <2> QED
    BY <1>1, <2>1 DEF PromiseIsRecorded
<1> QED
  BY <1>3, <1>4, <1>5, <1>6 DEF Handling
-----------------------------------------------------------------------------
(* Each step of the handling. *)

\* What findOpenCaseIdByAddress makes of a slot.
LEMMA FindTypes ==
  ASSUME TypeOK, NEW w \in Workers, NEW c \in Contacts,
         run' = [run EXCEPT ![w].pc = "mark", ![w].kase = c]
  PROVE  /\ run' \in [Workers -> Run] /\ run'[w].pc = "mark" /\ run'[w].text = run[w].text
         /\ run'[w].job = run[w].job /\ run'[w].kase = c
         /\ \A v \in Workers : v # w => run'[v] = run[v]
<1>1. run' = [run EXCEPT ![w] = [run[w] EXCEPT !.pc = "mark", !.kase = c]]
  BY DEF TypeOK
<1>2. run[w] \in Run
  BY DEF TypeOK
<1>3. [run[w] EXCEPT !.pc = "mark", !.kase = c] \in Run
  BY <1>2 DEF Run, Pc
<1> QED
  BY <1>1, <1>2, <1>3 DEF TypeOK, Run

LEMMA EffectPc ==
  ASSUME NEW t
  PROVE  /\ EffectOf(t) \in {"dnc", "ptp", "lookup"}
         /\ EffectOf(t) = "dnc" => Intent(t) = "BAJA"
         /\ EffectOf(t) = "lookup" => Intent(t) # "PTP"
  BY DEF EffectOf

LEMMA OneMoreOf ==
  ASSUME NEW f \in [Texts -> Nat], NEW t \in Texts, NEW g, g = [f EXCEPT ![t] = @ + 1]
  PROVE  /\ g \in [Texts -> Nat] /\ g[t] = f[t] + 1 /\ g[t] \in Nat
         /\ \A u \in Texts : u # t => g[u] = f[u]
  OBVIOUS

LEMMA findTypes ==
  ASSUME TypeOK, NEW w \in Workers, findOpenCaseIdByAddress(w)
  PROVE  TypeOK'
<1>1. run' \in [Workers -> Run]
  BY FindTypes, GotoTypes DEF findOpenCaseIdByAddress, Found, Pc
<1> QED
  BY <1>1 DEF findOpenCaseIdByAddress, TypeOK, hookVars, cases

LEMMA markInboundTypes ==
  ASSUME TypeOK, Handling, NEW w \in Workers, markInbound(w)
  PROVE  TypeOK'
<1>1. run[w].kase \in Contacts
  BY DEF markInbound, Handling, RunOk
<1>2. run' \in [Workers -> Run]
  BY GotoTypes, EffectPc DEF markInbound, Pc
<1> QED
  BY <1>1, <1>2 DEF markInbound, TypeOK, hookVars

LEMMA markDncTypes ==
  ASSUME TypeOK, NEW w \in Workers, markDnc(w)
  PROVE  TypeOK'
<1>1. run' \in [Workers -> Run]
  BY GotoTypes DEF markDnc, Pc
<1> QED
  BY <1>1 DEF markDnc, TypeOK, hookVars, OptsOut

LEMMA createPtpTypes ==
  ASSUME TypeOK, Handling, NEW w \in Workers, createPtp(w)
  PROVE  TypeOK'
<1>1. run' \in [Workers -> Run]
  BY GotoTypes DEF createPtp, Pc
<1>2. ptps' \in [Texts -> Nat]
  <2>1. ptps \in [Texts -> Nat] /\ run[w].text \in Texts
    BY RunTexts DEF createPtp, TypeOK
  <2> QED
    BY <2>1, OneMoreOf DEF createPtp, insertPtp
<1> QED
  BY <1>1, <1>2 DEF createPtp, TypeOK, hookVars

LEMMA createPtpLostTypes ==
  ASSUME TypeOK, Handling, NEW w \in Workers, createPtpLost(w)
  PROVE  TypeOK'
<1>1. run[w].text \in Texts
  BY RunTexts DEF createPtpLost
<1>2. run' \in [Workers -> Run]
  BY GotoTypes DEF createPtpLost, Pc
<1>3. ptps' \in [Texts -> Nat]
  BY <1>1, OneMoreOf DEF createPtpLost, insertPtp, TypeOK
<1>4. causes' \in [Texts -> Nat] /\ faults' \in 0..MaxFaults
  BY <1>1, CauseType, FaultType DEF createPtpLost
<1> QED
  BY <1>2, <1>3, <1>4 DEF createPtpLost, TypeOK, hookVars

LEMMA replyLookupTypes ==
  ASSUME TypeOK, NEW w \in Workers, replyLookup(w)
  PROVE  TypeOK'
<1>1. run' \in [Workers -> Run]
  BY GotoTypes DEF replyLookup, Pc
<1> QED
  BY <1>1 DEF replyLookup, TypeOK, hookVars, cases

LEMMA replyTypes ==
  ASSUME TypeOK, Handling, NEW w \in Workers, reply(w)
  PROVE  TypeOK'
<1>1. run[w].text \in Texts
  BY RunTexts DEF reply
<1>2. run' \in [Workers -> Run]
  BY GotoTypes DEF reply, Pc
<1>3. replies' \in [Texts -> Nat]
  BY <1>1, OneMoreOf DEF reply, replyJob, TypeOK
<1> QED
  BY <1>2, <1>3 DEF reply, TypeOK, hookVars

LEMMA replyFailsTypes ==
  ASSUME TypeOK, Handling, NEW w \in Workers, replyFails(w)
  PROVE  TypeOK'
<1>1. run[w].text \in Texts
  BY RunTexts DEF replyFails
<1>2. run' \in [Workers -> Run] /\ faults' \in 0..MaxFaults
  BY GotoTypes, FaultType DEF replyFails, Pc
<1>3. replies' \in [Texts -> Nat]
  BY <1>1, OneMoreOf DEF replyFails, replyJob, TypeOK
<1> QED
  BY <1>2, <1>3 DEF replyFails, TypeOK, hookVars

LEMMA StepFailsTypes ==
  ASSUME TypeOK, Handling, NEW w \in Workers, StepFails(w)
  PROVE  TypeOK'
<1>1. run[w].text \in Texts
  BY RunTexts DEF StepFails
<1>2. run' \in [Workers -> Run] /\ faults' \in 0..MaxFaults /\ causes' \in [Texts -> Nat]
  BY <1>1, GotoTypes, FaultType, CauseType DEF StepFails, Pc
<1> QED
  BY <1>2 DEF StepFails, TypeOK, hookVars, cases

LEMMA MovesTypes ==
  ASSUME TypeOK, Handling, NEW w \in Workers, Moves(w)
  PROVE  TypeOK'
  BY findTypes, markInboundTypes, markDncTypes, createPtpTypes, createPtpLostTypes,
     replyLookupTypes, replyTypes, replyFailsTypes, StepFailsTypes DEF Moves

\* A step after which no more may be done than before, and nothing was done.
LEMMA QuietMove ==
  ASSUME TypeOK, TypeOK', Handling, PromiseIsRecorded, NEW w \in Workers,
         run[w].pc # "idle", run'[w].pc # "idle",
         run'[w].text = run[w].text, run'[w].job = run[w].job,
         \A v \in Workers : v # w => run'[v] = run[v],
         jobs' = jobs, calls' = calls, ptps' = ptps, replies' = replies, causes' = causes,
         run'[w].pc = "mark" => run'[w].kase \in Contacts,
         run'[w].pc = "dnc" => Intent(run[w].text) = "BAJA",
         run'[w].pc \in {"lookup", "queue"} /\ Intent(run[w].text) = "PTP" =>
             run[w].pc \in {"lookup", "queue"},
         run'[w].pc \in BeforePtp => run[w].pc \in BeforePtp,
         run'[w].pc \in BeforeReply => run[w].pc \in BeforeReply
  PROVE  Handling' /\ PromiseIsRecorded'
<1>1. PICK x \in Texts : x = run[w].text
  BY RunTexts
<1>2. ptps[x] \in Nat /\ replies[x] \in Nat /\ causes[x] \in Nat
  BY DEF TypeOK
<1>3. run'[w].pc \in {"lookup", "queue"} /\ Intent(x) = "PTP" => ptps'[x] > 0
  BY <1>1 DEF Handling, RunOk
<1>4. /\ ptps'[x] + (IF run'[w].pc \in BeforePtp THEN 1 ELSE 0) + causes[x]
             <= ptps[x] + (IF run[w].pc \in BeforePtp THEN 1 ELSE 0) + causes'[x]
      /\ replies'[x] + (IF run'[w].pc \in BeforeReply THEN 1 ELSE 0) + causes[x]
             <= replies[x] + (IF run[w].pc \in BeforeReply THEN 1 ELSE 0) + causes'[x]
  BY <1>2
<1>5. /\ \A t \in Texts : t # x => /\ ptps'[t] = ptps[t] /\ replies'[t] = replies[t]
                                   /\ causes'[t] = causes[t]
      /\ ptps'[x] >= ptps[x]
      /\ replies'[x] > 0 => replies[x] > 0
  BY <1>2
<1> QED
  BY <1>1, <1>3, <1>4, <1>5, MoveFrame

LEMMA findKeeps ==
  ASSUME TypeOK, TypeOK', Handling, PromiseIsRecorded, NEW w \in Workers,
         findOpenCaseIdByAddress(w)
  PROVE  Handling' /\ PromiseIsRecorded'
<1>1. /\ run[w].pc = "find" /\ jobs' = jobs /\ calls' = calls /\ ptps' = ptps
      /\ replies' = replies /\ causes' = causes
  BY DEF findOpenCaseIdByAddress, cases
<1>2. /\ run'[w].pc \in {"mark", "done"} /\ run'[w].text = run[w].text /\ run'[w].job = run[w].job
      /\ run'[w].pc = "mark" => run'[w].kase \in Contacts
      /\ \A v \in Workers : v # w => run'[v] = run[v]
  <2>1. CASE \E c \in Found(run[w].text) : run' = [run EXCEPT ![w].pc = "mark", ![w].kase = c]
    BY <2>1, FindTypes DEF Found
  <2>2. CASE Goto(w, "done")
    BY <2>2, GotoTypes DEF Pc
  <2> QED
    BY <2>1, <2>2 DEF findOpenCaseIdByAddress
<1>3. /\ run'[w].pc \in BeforePtp => run[w].pc \in BeforePtp
      /\ run'[w].pc \in BeforeReply => run[w].pc \in BeforeReply
  BY <1>1 DEF BeforePtp, BeforeReply
<1> QED
  BY <1>1, <1>2, <1>3, QuietMove

LEMMA markInboundKeeps ==
  ASSUME TypeOK, TypeOK', Handling, PromiseIsRecorded, NEW w \in Workers, markInbound(w)
  PROVE  Handling' /\ PromiseIsRecorded'
<1>1. /\ run[w].pc = "mark" /\ jobs' = jobs /\ calls' = calls /\ ptps' = ptps
      /\ replies' = replies /\ causes' = causes
  BY DEF markInbound
<1>2. EffectOf(run[w].text) \in Pc
  BY EffectPc DEF Pc
<1>3. /\ run'[w].pc = EffectOf(run[w].text)
      /\ run'[w].text = run[w].text /\ run'[w].job = run[w].job
      /\ \A v \in Workers : v # w => run'[v] = run[v]
  BY <1>2, GotoTypes DEF markInbound
<1>4. /\ run'[w].pc \in BeforePtp => run[w].pc \in BeforePtp
      /\ run'[w].pc \in BeforeReply => run[w].pc \in BeforeReply
  BY <1>1 DEF BeforePtp, BeforeReply
<1>5. /\ run'[w].pc \in {"dnc", "ptp", "lookup"}
      /\ run'[w].pc = "dnc" => Intent(run[w].text) = "BAJA"
      /\ run'[w].pc = "lookup" => Intent(run[w].text) # "PTP"
  BY <1>3, EffectPc
<1> QED
  BY <1>1, <1>3, <1>4, <1>5, QuietMove

LEMMA markDncKeeps ==
  ASSUME TypeOK, TypeOK', Handling, PromiseIsRecorded, NEW w \in Workers, markDnc(w)
  PROVE  Handling' /\ PromiseIsRecorded'
<1>1. /\ run[w].pc = "dnc" /\ jobs' = jobs /\ calls' = calls /\ ptps' = ptps
      /\ replies' = replies /\ causes' = causes
  BY DEF markDnc
<1>2. /\ run'[w].pc = "lookup" /\ run'[w].text = run[w].text /\ run'[w].job = run[w].job
      /\ \A v \in Workers : v # w => run'[v] = run[v]
  BY GotoTypes DEF markDnc, Pc
<1>3. /\ run'[w].pc \in BeforePtp => run[w].pc \in BeforePtp
      /\ run'[w].pc \in BeforeReply => run[w].pc \in BeforeReply
  BY <1>1, <1>2 DEF BeforePtp, BeforeReply
<1>4. Intent(run[w].text) = "BAJA"
  BY <1>1 DEF Handling, RunOk
<1> QED
  BY <1>1, <1>2, <1>3, <1>4, QuietMove

LEMMA replyLookupKeeps ==
  ASSUME TypeOK, TypeOK', Handling, PromiseIsRecorded, NEW w \in Workers, replyLookup(w)
  PROVE  Handling' /\ PromiseIsRecorded'
<1>1. /\ run[w].pc = "lookup" /\ jobs' = jobs /\ calls' = calls /\ ptps' = ptps
      /\ replies' = replies /\ causes' = causes
  BY DEF replyLookup, cases
<1>2. /\ run'[w].pc \in {"queue", "done"} /\ run'[w].text = run[w].text
      /\ run'[w].job = run[w].job /\ \A v \in Workers : v # w => run'[v] = run[v]
  BY GotoTypes DEF replyLookup, Pc
<1>3. /\ run'[w].pc \in BeforePtp => run[w].pc \in BeforePtp
      /\ run'[w].pc \in BeforeReply => run[w].pc \in BeforeReply
  BY <1>1, <1>2 DEF BeforePtp, BeforeReply
<1> QED
  BY <1>1, <1>2, <1>3, QuietMove

LEMMA createPtpKeeps ==
  ASSUME TypeOK, TypeOK', Handling, PromiseIsRecorded, NEW w \in Workers, createPtp(w)
  PROVE  Handling' /\ PromiseIsRecorded'
<1>1. /\ run[w].pc = "ptp" /\ jobs' = jobs /\ calls' = calls
      /\ replies' = replies /\ causes' = causes
  BY DEF createPtp
<1>2. PICK x \in Texts : x = run[w].text
  BY <1>1, RunTexts
<1>3. ptps[x] \in Nat /\ replies[x] \in Nat /\ causes[x] \in Nat
  BY DEF TypeOK
<1>4. CASE insertPtp(x) /\ Goto(w, "lookup")
  <2>1. /\ run'[w].pc = "lookup" /\ run'[w].text = x /\ run'[w].job = run[w].job
        /\ \A v \in Workers : v # w => run'[v] = run[v]
    BY <1>2, <1>4, GotoTypes DEF Pc
  <2>2. /\ ptps'[x] = ptps[x] + 1 /\ ptps'[x] > 0 /\ ptps'[x] >= ptps[x]
        /\ \A t \in Texts : t # x => ptps'[t] = ptps[t]
    BY <1>3, <1>4, OneMoreOf DEF insertPtp, TypeOK
  <2>3. /\ ptps'[x] + (IF run'[w].pc \in BeforePtp THEN 1 ELSE 0) + causes[x]
               <= ptps[x] + (IF run[w].pc \in BeforePtp THEN 1 ELSE 0) + causes'[x]
        /\ replies'[x] + (IF run'[w].pc \in BeforeReply THEN 1 ELSE 0) + causes[x]
               <= replies[x] + (IF run[w].pc \in BeforeReply THEN 1 ELSE 0) + causes'[x]
    BY <1>1, <1>3, <2>1, <2>2 DEF BeforePtp, BeforeReply
  <2> QED
    BY <1>1, <1>2, <2>1, <2>2, <2>3, MoveFrame
<1>5. CASE ptps' = ptps /\ Goto(w, "throw")
  <2>1. /\ run'[w].pc = "throw" /\ run'[w].text = x /\ run'[w].job = run[w].job
        /\ \A v \in Workers : v # w => run'[v] = run[v]
    BY <1>2, <1>5, GotoTypes DEF Pc
  <2>2. /\ run'[w].pc \in BeforePtp => run[w].pc \in BeforePtp
        /\ run'[w].pc \in BeforeReply => run[w].pc \in BeforeReply
    BY <1>1, <2>1 DEF BeforePtp, BeforeReply
  <2> QED
    BY <1>1, <1>2, <1>5, <2>1, <2>2, QuietMove
<1> QED
  BY <1>2, <1>4, <1>5 DEF createPtp

LEMMA createPtpLostKeeps ==
  ASSUME TypeOK, TypeOK', Handling, PromiseIsRecorded, NEW w \in Workers, createPtpLost(w)
  PROVE  Handling' /\ PromiseIsRecorded'
<1>1. run[w].pc = "ptp" /\ jobs' = jobs /\ calls' = calls /\ replies' = replies
  BY DEF createPtpLost
<1>2. PICK x \in Texts : x = run[w].text
  BY <1>1, RunTexts
<1>3. ptps[x] \in Nat /\ replies[x] \in Nat /\ causes[x] \in Nat
  BY DEF TypeOK
<1>4. /\ run'[w].pc = "throw" /\ run'[w].text = x /\ run'[w].job = run[w].job
      /\ \A v \in Workers : v # w => run'[v] = run[v]
  BY <1>2, GotoTypes DEF createPtpLost, Pc
<1>5. /\ ptps'[x] = ptps[x] + 1 /\ ptps'[x] >= ptps[x]
      /\ \A t \in Texts : t # x => ptps'[t] = ptps[t]
  BY <1>2, <1>3, OneMoreOf DEF createPtpLost, insertPtp, TypeOK
<1>6. causes'[x] = causes[x] + 1 /\ \A t \in Texts : t # x => causes'[t] = causes[t]
  BY <1>2, <1>3, OneMoreOf DEF createPtpLost, Cause, TypeOK
<1>7. /\ ptps'[x] + (IF run'[w].pc \in BeforePtp THEN 1 ELSE 0) + causes[x]
             <= ptps[x] + (IF run[w].pc \in BeforePtp THEN 1 ELSE 0) + causes'[x]
      /\ replies'[x] + (IF run'[w].pc \in BeforeReply THEN 1 ELSE 0) + causes[x]
             <= replies[x] + (IF run[w].pc \in BeforeReply THEN 1 ELSE 0) + causes'[x]
  BY <1>1, <1>3, <1>4, <1>5, <1>6 DEF BeforePtp, BeforeReply
<1> QED
  BY <1>1, <1>2, <1>4, <1>5, <1>6, <1>7, MoveFrame

\* reply and replyFails: the job was added, or not.
LEMMA replyKeeps ==
  ASSUME TypeOK, TypeOK', Handling, PromiseIsRecorded, NEW w \in Workers,
         run[w].pc = "queue", Goto(w, "done"), jobs' = jobs, calls' = calls, ptps' = ptps,
         causes' = causes, replyJob(run[w].text) \/ replies' = replies
  PROVE  Handling' /\ PromiseIsRecorded'
<1>1. PICK x \in Texts : x = run[w].text
  BY RunTexts
<1>2. ptps[x] \in Nat /\ replies[x] \in Nat /\ causes[x] \in Nat
  BY DEF TypeOK
<1>3. /\ run'[w].pc = "done" /\ run'[w].text = x /\ run'[w].job = run[w].job
      /\ \A v \in Workers : v # w => run'[v] = run[v]
  BY <1>1, GotoTypes DEF Pc
<1>4. /\ replies'[x] = replies[x] + 1 \/ replies'[x] = replies[x]
      /\ \A t \in Texts : t # x => replies'[t] = replies[t]
  BY <1>1, <1>2, OneMoreOf DEF replyJob, TypeOK
<1>5. /\ ptps'[x] + (IF run'[w].pc \in BeforePtp THEN 1 ELSE 0) + causes[x]
             <= ptps[x] + (IF run[w].pc \in BeforePtp THEN 1 ELSE 0) + causes'[x]
      /\ replies'[x] + (IF run'[w].pc \in BeforeReply THEN 1 ELSE 0) + causes[x]
             <= replies[x] + (IF run[w].pc \in BeforeReply THEN 1 ELSE 0) + causes'[x]
  BY <1>2, <1>3, <1>4 DEF BeforePtp, BeforeReply
<1>6. /\ \A t \in Texts : t # x => /\ ptps'[t] = ptps[t] /\ replies'[t] = replies[t]
                                   /\ causes'[t] = causes[t]
      /\ ptps'[x] >= ptps[x]
  BY <1>2, <1>4
<1> QED
  BY <1>1, <1>3, <1>5, <1>6, MoveFrame

LEMMA StepFailsKeeps ==
  ASSUME TypeOK, TypeOK', Handling, PromiseIsRecorded, NEW w \in Workers, StepFails(w)
  PROVE  Handling' /\ PromiseIsRecorded'
<1>1. /\ run[w].pc # "idle" /\ jobs' = jobs /\ calls' = calls /\ ptps' = ptps
      /\ replies' = replies /\ run[w].pc \in BeforeReply
  BY DEF StepFails, cases, BeforeReply, BeforePtp
<1>2. PICK x \in Texts : x = run[w].text
  BY <1>1, RunTexts
<1>3. ptps[x] \in Nat /\ replies[x] \in Nat /\ causes[x] \in Nat
  BY DEF TypeOK
<1>4. /\ run'[w].pc = "throw" /\ run'[w].text = x /\ run'[w].job = run[w].job
      /\ \A v \in Workers : v # w => run'[v] = run[v]
  BY <1>2, GotoTypes DEF StepFails, Pc
<1>5. causes'[x] = causes[x] + 1 /\ \A t \in Texts : t # x => causes'[t] = causes[t]
  BY <1>2, <1>3, OneMoreOf DEF StepFails, Cause, TypeOK
<1>6. /\ ptps'[x] + (IF run'[w].pc \in BeforePtp THEN 1 ELSE 0) + causes[x]
             <= ptps[x] + (IF run[w].pc \in BeforePtp THEN 1 ELSE 0) + causes'[x]
      /\ replies'[x] + (IF run'[w].pc \in BeforeReply THEN 1 ELSE 0) + causes[x]
             <= replies[x] + (IF run[w].pc \in BeforeReply THEN 1 ELSE 0) + causes'[x]
  BY <1>1, <1>3, <1>5
<1>7. /\ \A t \in Texts : t # x => /\ ptps'[t] = ptps[t] /\ replies'[t] = replies[t]
                                   /\ causes'[t] = causes[t]
      /\ ptps'[x] >= ptps[x]
  BY <1>1, <1>3, <1>5
<1> QED
  BY <1>1, <1>2, <1>4, <1>5, <1>6, <1>7, MoveFrame

LEMMA MovesKeep ==
  ASSUME TypeOK, TypeOK', Handling, PromiseIsRecorded, NEW w \in Workers, Moves(w)
  PROVE  Handling' /\ PromiseIsRecorded'
<1>1. reply(w) \/ replyFails(w) => Handling' /\ PromiseIsRecorded'
  BY replyKeeps DEF reply, replyFails
<1> QED
  BY <1>1, findKeeps, markInboundKeeps, markDncKeeps, replyLookupKeeps, createPtpKeeps,
     createPtpLostKeeps, StepFailsKeeps DEF Moves
-----------------------------------------------------------------------------
(* Starting, ending and losing the handling of a text. *)

\* What may still be done for a text, against its reasons.
Open(t, S) == Cardinality(Slots(t, S)) + Cardinality(Waiting(t)) + Uncalled(t)
Reasons(t) == Asked(t) + causes[t]

LEMMA EffectsFrame ==
  ASSUME TypeOK, TypeOK', ptps' = ptps, replies' = replies, NEW t \in Texts, Effects(t),
         Open(t, BeforePtp)' + Reasons(t) <= Open(t, BeforePtp) + Reasons(t)',
         Open(t, BeforeReply)' + Reasons(t) <= Open(t, BeforeReply) + Reasons(t)'
  PROVE  Effects(t)'
<1>1. ASSUME NEW S
      PROVE  /\ Open(t, S) \in Nat /\ Open(t, S)' \in Nat /\ Reasons(t) \in Nat /\ Reasons(t)' \in Nat
             /\ \A n \in Nat : (Bounded(t, S, n) <=> n + Open(t, S) <= Reasons(t))
             /\ \A n \in Nat : (Bounded(t, S, n)' <=> n + Open(t, S)' <= Reasons(t)')
  <2>1. /\ Cardinality(Slots(t, S)) \in Nat /\ Cardinality(Waiting(t)) \in Nat
        /\ Uncalled(t) \in 0..1 /\ Asked(t) \in Nat /\ causes[t] \in Nat
    BY Numbers
  <2>2. (/\ Cardinality(Slots(t, S)) \in Nat /\ Cardinality(Waiting(t)) \in Nat
         /\ Uncalled(t) \in 0..1 /\ Asked(t) \in Nat /\ causes[t] \in Nat)'
    BY Numbers, PTL
  <2>3. PICK a, b, c, d, e : /\ a = Cardinality(Slots(t, S)) /\ b = Cardinality(Waiting(t))
                             /\ c = Uncalled(t) /\ d = Asked(t) /\ e = causes[t]
    OBVIOUS
  <2>4. PICK f, g, h, i, j : (/\ f = Cardinality(Slots(t, S)) /\ g = Cardinality(Waiting(t))
                              /\ h = Uncalled(t) /\ i = Asked(t) /\ j = causes[t])'
    OBVIOUS
  <2>5. /\ a \in Nat /\ b \in Nat /\ c \in Nat /\ d \in Nat /\ e \in Nat
        /\ f \in Nat /\ g \in Nat /\ h \in Nat /\ i \in Nat /\ j \in Nat
    BY <2>1, <2>2, <2>3, <2>4
  <2>6. \A n \in Nat : /\ (n + a + b + c <= d + e) <=> (n + (a + b + c) <= d + e)
                       /\ (n + f + g + h <= i + j) <=> (n + (f + g + h) <= i + j)
    BY <2>5
  <2>7. Open(t, S) = a + b + c /\ Reasons(t) = d + e
    BY <2>3 DEF Open, Reasons
  <2>8. Open(t, S)' = f + g + h /\ Reasons(t)' = i + j
    BY <2>4 DEF Open, Reasons
  <2>9. \A n \in Nat : Bounded(t, S, n) <=> n + a + b + c <= d + e
    BY <2>3 DEF Bounded
  <2>10. \A n \in Nat : Bounded(t, S, n)' <=> n + f + g + h <= i + j
    BY <2>4 DEF Bounded
  <2>11. a + b + c \in Nat /\ d + e \in Nat /\ f + g + h \in Nat /\ i + j \in Nat
    BY <2>5
  <2> QED
    BY <2>6, <2>7, <2>8, <2>9, <2>10, <2>11
<1>2. ASSUME NEW S, NEW n \in Nat, Bounded(t, S, n),
             Open(t, S)' + Reasons(t) <= Open(t, S) + Reasons(t)'
      PROVE  Bounded(t, S, n)'
  <2>1. PICK a \in Nat, b \in Nat, c \in Nat, d \in Nat :
            a = Open(t, S) /\ b = Open(t, S)' /\ c = Reasons(t) /\ d = Reasons(t)'
    BY <1>1
  <2>2. n + a <= c /\ b + c <= a + d
    BY <1>1, <1>2, <2>1
  <2>3. n + b <= d
    BY <2>2
  <2> QED
    BY <1>1, <2>1, <2>3
<1>3. PICK n \in Nat, m \in Nat : n = ptps[t] /\ m = replies[t]
  BY DEF TypeOK
<1>4. Bounded(t, BeforePtp, n) /\ Bounded(t, BeforeReply, m)
  BY <1>3 DEF Effects
<1>5. Bounded(t, BeforePtp, n)' /\ Bounded(t, BeforeReply, m)'
  BY <1>2, <1>4
<1> QED
  BY <1>3, <1>5 DEF Effects, Bounded

\* The sum is the same if its parts are.
LEMMA SameParts ==
  ASSUME TypeOK, TypeOK', NEW t \in Texts, NEW S,
         Slots(t, S)' = Slots(t, S), Waiting(t)' = Waiting(t), JobsOf(t)' = JobsOf(t),
         Uncalled(t)' = Uncalled(t), causes'[t] = causes[t]
  PROVE  Open(t, S)' + Reasons(t) <= Open(t, S) + Reasons(t)'
<1>1. Open(t, S)' = Open(t, S) /\ Reasons(t)' = Reasons(t)
  BY DEF Open, Reasons, Asked
<1>2. Open(t, S) \in Nat /\ Reasons(t) \in Nat
  BY Numbers DEF Open, Reasons
<1> QED
  BY <1>1, <1>2

\* What a job that changes does to the jobs that wait.
LEMMA WaitingMoves ==
  ASSUME TypeOK, NEW i \in 1..Len(jobs), NEW q \in Job, q.text = jobs[i].text,
         jobs' = [jobs EXCEPT ![i] = q]
  PROVE  /\ \A t \in Texts : t # q.text => Waiting(t)' = Waiting(t)
         /\ Cardinality(Waiting(q.text)) \in Nat /\ Cardinality(Waiting(q.text)') \in Nat
         /\ Cardinality(Waiting(q.text)') + (IF jobs[i].state = "waiting" THEN 1 ELSE 0)
                = Cardinality(Waiting(q.text)) + (IF q.state = "waiting" THEN 1 ELSE 0)
<1>1. /\ Len(jobs') = Len(jobs) /\ jobs'[i] = q
      /\ \A j \in 1..Len(jobs) : j # i => jobs'[j] = jobs[j]
      /\ \A t \in Texts : JobsOf(t)' = JobsOf(t)
  BY JobMoves
<1>2. \A t \in Texts : t # q.text => i \notin JobsOf(t)
  BY DEF JobsOf
<1>3. \A t \in Texts : t # q.text => Waiting(t)' = Waiting(t)
  BY <1>1, <1>2 DEF Waiting, JobsOf
<1>4. PICK x \in Texts : x = q.text
  BY DEF Job
<1>5. PICK U : U = 1..Len(jobs)
  OBVIOUS
<1>6. IsFiniteSet(U) /\ i \in U
  BY <1>5, Intervals DEF TypeOK
<1>7. PICK A \in SUBSET U, B \in SUBSET U : A = Waiting(x) /\ B = Waiting(x)'
  BY <1>1, <1>5 DEF Waiting, JobsOf
<1>8. \A j \in U : j # i => (j \in A <=> j \in B)
  BY <1>1, <1>4, <1>5, <1>7 DEF Waiting, JobsOf
<1>9. (i \in A <=> jobs[i].state = "waiting") /\ (i \in B <=> q.state = "waiting")
  BY <1>1, <1>4, <1>7 DEF Waiting, JobsOf
<1>10. PICK z \in U : z = i
  BY <1>6
<1>11. \A y \in U : y # z => (y \in A <=> y \in B)
  BY <1>8, <1>10
<1>12. /\ Cardinality(A) \in Nat /\ Cardinality(B) \in Nat
      /\ Cardinality(B) + (IF z \in A THEN 1 ELSE 0) = Cardinality(A) + (IF z \in B THEN 1 ELSE 0)
  <2>1. A \in SUBSET U /\ B \in SUBSET U /\ z \in U /\ IsFiniteSet(U)
    BY <1>6
  <2> QED
    BY ONLY <2>1, <1>11, OneMoved
<1>13. /\ Cardinality(Waiting(x)) \in Nat /\ Cardinality(Waiting(x)') \in Nat
       /\ Cardinality(Waiting(x)') + (IF jobs[i].state = "waiting" THEN 1 ELSE 0)
              = Cardinality(Waiting(x)) + (IF q.state = "waiting" THEN 1 ELSE 0)
  BY <1>9, <1>12, <1>7, <1>10
<1>14. Waiting(q.text) = Waiting(x) /\ Waiting(q.text)' = Waiting(x)'
  BY <1>4
<1> QED
  BY <1>3, <1>13, <1>14

\* What is known of the job of a slot.
LEMMA JobKnown ==
  ASSUME TypeOK, Hooks, NEW i \in 1..Len(jobs)
  PROVE  /\ jobs[i] \in Job /\ jobs[i].text \in Delivered /\ jobs[i].text \in Texts
         /\ jobs[i].text \notin Direct /\ Uncalled(jobs[i].text) = 0 /\ i \in Nat /\ i # 0
<1>1. Len(jobs) \in Nat /\ jobs[i] \in Job
  BY DEF TypeOK
<1>2. i \in Nat /\ i # 0
  BY <1>1
<1>3. jobs[i].text \in Delivered /\ jobs[i].text \in Texts /\ jobs[i].text \notin Direct
  BY TextTypes DEF Hooks
<1>4. Uncalled(jobs[i].text) = 0
  BY <1>3 DEF Uncalled
<1> QED
  BY <1>1, <1>2, <1>3, <1>4

\* The reasons are the same, and are a number.
LEMMA SameReasons ==
  ASSUME TypeOK, NEW t \in Texts, JobsOf(t)' = JobsOf(t), causes'[t] = causes[t]
  PROVE  Reasons(t)' = Reasons(t) /\ Reasons(t) \in Nat
<1>1. Asked(t)' = Asked(t)
  BY DEF Asked
<1>2. Asked(t) \in Nat /\ causes[t] \in Nat
  BY Numbers
<1> QED
  BY <1>1, <1>2 DEF Reasons

LEMMA TakeTypes ==
  ASSUME TypeOK, Hooks, NEW w \in Workers, NEW i \in 1..Len(jobs), Take(w, i)
  PROVE  TypeOK'
<1>1. Taken(jobs[i], w) \in Job /\ Taken(jobs[i], w).text = jobs[i].text
  BY JobKnown, JobTypes
<1>2. jobs' \in Seq(Job)
  BY <1>1, JobMoves DEF Take
<1>3. handle(jobs[i].text, i) \in Run
  BY JobKnown, handleTypes
<1>4. run' \in [Workers -> Run]
  BY <1>3 DEF Take, TypeOK
<1> QED
  BY <1>2, <1>4 DEF Take, TypeOK, hookVars, cases

LEMMA webhookTypes ==
  ASSUME TypeOK, NEW w \in Workers, NEW t \in Direct, webhook(w, t)
  PROVE  TypeOK'
<1>1. handle(t, 0) \in Run
  BY TextTypes, handleTypes
<1>2. run' \in [Workers -> Run]
  BY <1>1 DEF webhook, TypeOK
<1> QED
  BY <1>2 DEF webhook, TypeOK, hookVars, cases

\* A slot that was idle handles a text.
LEMMA Started ==
  ASSUME TypeOK, Handling, NEW w \in Workers, run[w].pc = "idle",
         NEW x \in Texts, NEW i \in Nat, run' = [run EXCEPT ![w] = handle(x, i)],
         NEW S, {"find", "mark"} \subseteq S, "idle" \notin S
  PROVE  /\ Cardinality(Slots(x, S)) \in Nat
         /\ Cardinality(Slots(x, S)') = Cardinality(Slots(x, S)) + 1
<1>1. run'[w] = handle(x, i) /\ \A v \in Workers : v # w => run'[v] = run[v]
  BY DEF TypeOK
<1>2. run'[w].text = x /\ run'[w].pc \in S
  BY <1>1, handleTypes
<1>3. w \notin Slots(x, S) /\ w \in Slots(x, S)'
  BY <1>2 DEF Slots
<1>4. /\ Cardinality(Slots(x, S)) \in Nat /\ Cardinality(Slots(x, S)') \in Nat
      /\ Cardinality(Slots(x, S)') + (IF w \in Slots(x, S) THEN 1 ELSE 0)
                = Cardinality(Slots(x, S)) + (IF w \in Slots(x, S)' THEN 1 ELSE 0)
  BY <1>1, SlotsMove
<1> QED
  BY <1>3, <1>4

LEMMA PcSets ==
  /\ {"find", "mark"} \subseteq BeforePtp /\ "idle" \notin BeforePtp
  /\ {"find", "mark"} \subseteq BeforeReply /\ "idle" \notin BeforeReply
  /\ "throw" \in BeforePtp /\ "throw" \in BeforeReply
  /\ "done" \notin BeforePtp /\ "done" \notin BeforeReply
  BY DEF BeforePtp, BeforeReply

LEMMA TakeKeeps ==
  ASSUME TypeOK, TypeOK', Hooks, Handling, NEW w \in Workers, NEW i \in 1..Len(jobs), Take(w, i)
  PROVE  Handling'
<1>1. PICK x \in Texts : x = jobs[i].text /\ x \in Delivered /\ x \notin Direct
  BY JobKnown
<1>2. PICK q \in Job : q = Taken(jobs[i], w) /\ q.text = x /\ q.state # "waiting"
  BY <1>1, JobKnown, JobTypes
<1>3. /\ run[w].pc = "idle" /\ jobs[i].state = "waiting" /\ jobs' = [jobs EXCEPT ![i] = q]
      /\ run' = [run EXCEPT ![w] = handle(x, i)]
      /\ calls' = calls /\ ptps' = ptps /\ replies' = replies /\ causes' = causes
  BY <1>1, <1>2 DEF Take, cases, TypeOK
<1>4. i \in Nat /\ i # 0
  BY JobKnown
<1>5. /\ Len(jobs') = Len(jobs) /\ \A j \in 1..Len(jobs) : jobs'[j].text = jobs[j].text
      /\ \A t \in Texts : JobsOf(t)' = JobsOf(t)
  BY <1>1, <1>2, <1>3, JobMoves
<1>6. /\ \A t \in Texts : t # x => Waiting(t)' = Waiting(t)
      /\ Cardinality(Waiting(x)) \in Nat /\ Cardinality(Waiting(x)') \in Nat
      /\ Cardinality(Waiting(x)') + 1 = Cardinality(Waiting(x))
  <2>1. q.text = jobs[i].text
    BY <1>1, <1>2
  <2>2. /\ \A t \in Texts : t # q.text => Waiting(t)' = Waiting(t)
        /\ Cardinality(Waiting(q.text)) \in Nat /\ Cardinality(Waiting(q.text)') \in Nat
        /\ Cardinality(Waiting(q.text)') + (IF jobs[i].state = "waiting" THEN 1 ELSE 0)
               = Cardinality(Waiting(q.text)) + (IF q.state = "waiting" THEN 1 ELSE 0)
    BY <1>3, <2>1, WaitingMoves
  <2>3. Waiting(q.text) = Waiting(x) /\ Waiting(q.text)' = Waiting(x)'
    BY <1>2
  <2> QED
    BY <1>2, <1>3, <2>2, <2>3
<1>7. run[w].text = None /\ run'[w] = handle(x, i) /\ run'[w].text = x
      /\ \A v \in Workers : v # w => run'[v] = run[v]
  BY <1>3, <1>4, handleTypes, NoneTypes DEF Handling, RunOk, TypeOK
<1>8. None \notin Texts
  BY NoneAssumption
<1>9. \A t \in Texts : Uncalled(t)' = Uncalled(t)
  BY <1>1, <1>3, <1>7, <1>8, TextTypes DEF Uncalled
<1>10. ASSUME NEW t \in Texts, NEW S, {"find", "mark"} \subseteq S, "idle" \notin S
       PROVE  Open(t, S)' + Reasons(t) <= Open(t, S) + Reasons(t)'
  <2>1. CASE t = x
    <3>1. /\ Cardinality(Slots(x, S)) \in Nat
          /\ Cardinality(Slots(x, S)') = Cardinality(Slots(x, S)) + 1
      BY <1>3, <1>4, <1>10, Started
    <3>2. Reasons(x)' = Reasons(x) /\ Reasons(x) \in Nat /\ Uncalled(x) \in 0..1
      BY <1>3, <1>5, SameReasons, Numbers
    <3>3. Open(x, S)' = Open(x, S) /\ Open(x, S) \in Nat
      BY <1>6, <1>9, <3>1, <3>2 DEF Open
    <3> QED
      BY <2>1, <3>2, <3>3
  <2>2. CASE t # x
    <3>1. Slots(t, S)' = Slots(t, S)
      BY <1>7, <1>8, <2>2 DEF Slots
    <3>2. /\ Waiting(t)' = Waiting(t) /\ JobsOf(t)' = JobsOf(t) /\ Uncalled(t)' = Uncalled(t)
          /\ causes'[t] = causes[t]
      BY <1>3, <1>5, <1>6, <1>9, <2>2
    <3> QED
      BY <3>1, <3>2, SameParts
  <2> QED
    BY <2>1, <2>2
<1>11. \A t \in Texts : Effects(t)'
  BY <1>3, <1>10, PcSets, EffectsFrame DEF Handling
<1>12. ASSUME NEW v \in Workers
       PROVE  RunOk(v)'
  <2>1. CASE v = w
    BY <1>1, <1>3, <1>4, <1>5, <1>7, <2>1, handleTypes DEF RunOk
  <2>2. CASE v # w
    BY <1>1, <1>3, <1>5, <1>7, <2>2 DEF Handling, RunOk
  <2> QED
    BY <2>1, <2>2
<1> QED
  BY <1>11, <1>12 DEF Handling

LEMMA webhookKeeps ==
  ASSUME TypeOK, TypeOK', Handling, NEW w \in Workers, NEW x \in Direct, webhook(w, x)
  PROVE  Handling'
<1>1. /\ run[w].pc = "idle" /\ x \notin calls /\ \A v \in Workers : run[v].text # x
      /\ run' = [run EXCEPT ![w] = handle(x, 0)] /\ jobs' = jobs
      /\ calls' = calls /\ ptps' = ptps /\ replies' = replies /\ causes' = causes
  BY DEF webhook, cases
<1>2. x \in Texts /\ None \notin Texts
  BY TextTypes, NoneAssumption
<1>3. run[w].text = None /\ run'[w] = handle(x, 0) /\ run'[w].text = x /\ run'[w].job = 0
      /\ \A v \in Workers : v # w => run'[v] = run[v]
  BY <1>1, <1>2, handleTypes, NoneTypes DEF Handling, RunOk, TypeOK
<1>4. \A t \in Texts : Waiting(t)' = Waiting(t) /\ JobsOf(t)' = JobsOf(t)
  BY <1>1, SameJobs
<1>5. \A t \in Texts : t # x => Uncalled(t)' = Uncalled(t)
  BY <1>1, <1>2, <1>3 DEF Uncalled
<1>6. Uncalled(x) = 1 /\ Uncalled(x)' = 0
  BY <1>1, <1>3 DEF Uncalled
<1>7. ASSUME NEW t \in Texts, NEW S, {"find", "mark"} \subseteq S, "idle" \notin S
      PROVE  Open(t, S)' + Reasons(t) <= Open(t, S) + Reasons(t)'
  <2>1. CASE t = x
    <3>1. /\ Cardinality(Slots(x, S)) \in Nat
          /\ Cardinality(Slots(x, S)') = Cardinality(Slots(x, S)) + 1
      BY <1>1, <1>2, <1>7, Started
    <3>2. Reasons(x)' = Reasons(x) /\ Reasons(x) \in Nat
      BY <1>1, <1>2, <1>4, SameReasons
    <3>3. Cardinality(Waiting(x)) \in Nat /\ Waiting(x)' = Waiting(x)
      BY <1>2, <1>4, Numbers
    <3>4. Open(x, S)' = Open(x, S) /\ Open(x, S) \in Nat
      BY <1>6, <3>1, <3>3 DEF Open
    <3> QED
      BY <2>1, <3>2, <3>4
  <2>2. CASE t # x
    <3>1. Slots(t, S)' = Slots(t, S)
      BY <1>2, <1>3, <2>2 DEF Slots
    <3>2. causes'[t] = causes[t]
      BY <1>1
    <3> QED
      BY <1>4, <1>5, <2>2, <3>1, <3>2, SameParts
  <2> QED
    BY <2>1, <2>2
<1>8. \A t \in Texts : Effects(t)'
  BY <1>1, <1>7, PcSets, EffectsFrame DEF Handling
<1>9. ASSUME NEW v \in Workers
      PROVE  RunOk(v)'
  <2>1. CASE v = w
    <3>1. run'[w].pc \in {"find", "mark"} /\ (run'[w].pc = "mark" => run'[w].kase \in Contacts)
      BY <1>2, <1>3, handleTypes
    <3> QED
      BY <1>1, <1>2, <1>3, <2>1, <3>1 DEF RunOk
  <2>2. CASE v # w
    <3>1. \A t \in Texts : t = run[v].text => t # x
      BY <1>1
    <3> QED
      BY <1>1, <1>3, <2>2, <3>1 DEF Handling, RunOk
  <2> QED
    BY <2>1, <2>2
<1> QED
  BY <1>8, <1>9 DEF Handling

\* The processor of a slot returns or throws.
LEMMA FinishTypes ==
  ASSUME TypeOK, Hooks, Handling, NEW w \in Workers, Return(w) \/ Throw(w)
  PROVE  TypeOK'
<1>1. run[w].pc \in {"done", "throw"}
  BY DEF Return, Throw
<1>2. PICK x \in Texts : x = run[w].text
  BY <1>1, RunTexts
<1>3. /\ run' \in [Workers -> Run]
  BY NoneTypes DEF Return, Throw, Finish, TypeOK
<1>4. CASE run[w].job = 0
  <2>1. jobs' = jobs /\ x \in Direct
    <3>1. run[w].job \notin 1..Len(jobs)
      BY <1>4
    <3> QED
      BY <1>1, <1>2, <1>4, <3>1 DEF Return, Throw, Finish, Handling, RunOk
  <2>2. calls' \subseteq Direct
    BY <1>2, <1>4, <2>1 DEF Return, Throw, Finish, TypeOK
  <2> QED
    BY <1>3, <2>1, <2>2 DEF Return, Throw, Finish, TypeOK, hookVars, cases
<1>5. CASE run[w].job # 0
  <2>1. PICK i \in 1..Len(jobs) : i = run[w].job
    BY <1>1, <1>5 DEF Handling, RunOk
  <2>2. PICK q \in Job : q.text = jobs[i].text /\ jobs' = [jobs EXCEPT ![i] = Settled(jobs[i], w, q)]
    <3>1. jobs[i] \in Job
      BY JobKnown
    <3>2. JobOf(w) = jobs[i]
      BY <1>5, <2>1 DEF JobOf
    <3> QED
      BY <1>5, <2>1, <3>1, <3>2, JobTypes DEF Return, Throw, Finish, TypeOK
  <2>3. jobs' \in Seq(Job)
    <3>1. Settled(jobs[i], w, q) \in Job /\ Settled(jobs[i], w, q).text = jobs[i].text
      BY <2>2, JobKnown, SettledType
    <3> QED
      BY <2>2, <3>1, JobMoves
  <2> QED
    BY <1>3, <1>5, <2>3 DEF Return, Throw, Finish, TypeOK, hookVars, cases
<1> QED
  BY <1>4, <1>5

\* The texts of the queue are the same.
LEMMA FinishedTexts ==
  ASSUME TypeOK, Hooks, Handling, NEW w \in Workers, Return(w) \/ Throw(w)
  PROVE  Len(jobs') = Len(jobs) /\ \A j \in 1..Len(jobs) : jobs'[j].text = jobs[j].text
<1>1. CASE run[w].job = 0
  BY <1>1 DEF Return, Throw, Finish
<1>2. CASE run[w].job # 0
  <2>1. PICK i \in 1..Len(jobs) : i = run[w].job
    BY <1>2 DEF Handling, RunOk, Return, Throw
  <2>2. JobOf(w) = jobs[i] /\ jobs[i] \in Job
    BY <1>2, <2>1, JobKnown DEF JobOf
  <2>3. PICK q \in Job : q.text = jobs[i].text /\ jobs' = [jobs EXCEPT ![i] = Settled(jobs[i], w, q)]
    BY <1>2, <2>1, <2>2, JobTypes DEF Return, Throw, Finish, TypeOK
  <2>4. Settled(jobs[i], w, q) \in Job /\ Settled(jobs[i], w, q).text = jobs[i].text
    BY <2>2, <2>3, SettledType
  <2> QED
    BY <2>3, <2>4, JobMoves
<1> QED
  BY <1>1, <1>2

\* A slot whose processor ended handles nothing.
LEMMA Freed ==
  ASSUME TypeOK, NEW w \in Workers, NEW x \in Texts, x = run[w].text,
         run' = [run EXCEPT ![w] = NoRun], NEW S
  PROVE  /\ run'[w] = NoRun /\ \A v \in Workers : v # w => run'[v] = run[v]
         /\ \A t \in Texts : t # x => Slots(t, S)' = Slots(t, S)
         /\ Cardinality(Slots(x, S)) \in Nat /\ Cardinality(Slots(x, S)') \in Nat
         /\ run[w].pc \in S => Cardinality(Slots(x, S)') + 1 = Cardinality(Slots(x, S))
         /\ run[w].pc \notin S => Cardinality(Slots(x, S)') = Cardinality(Slots(x, S))
<1>1. run'[w] = NoRun /\ \A v \in Workers : v # w => run'[v] = run[v]
  BY DEF TypeOK
<1>2. run'[w].text \notin Texts
  BY <1>1, NoneTypes, NoneAssumption
<1>3. \A t \in Texts : t # x => Slots(t, S)' = Slots(t, S)
  BY <1>1, <1>2 DEF Slots
<1>4. w \notin Slots(x, S)' /\ (w \in Slots(x, S) <=> run[w].pc \in S)
  BY <1>2 DEF Slots
<1>5. /\ Cardinality(Slots(x, S)) \in Nat /\ Cardinality(Slots(x, S)') \in Nat
      /\ Cardinality(Slots(x, S)') + (IF w \in Slots(x, S) THEN 1 ELSE 0)
                = Cardinality(Slots(x, S)) + (IF w \in Slots(x, S)' THEN 1 ELSE 0)
  BY <1>1, SlotsMove
<1>6. /\ run[w].pc \in S => Cardinality(Slots(x, S)') + 1 = Cardinality(Slots(x, S))
      /\ run[w].pc \notin S => Cardinality(Slots(x, S)') = Cardinality(Slots(x, S))
  BY <1>4, <1>5
<1> QED
  BY <1>1, <1>3, <1>5, <1>6

\* A direct call that is answered, or fails.
LEMMA CallEnds ==
  ASSUME TypeOK, TypeOK', Handling, NEW w \in Workers, Return(w) \/ Throw(w), run[w].job = 0
  PROVE  Handling'
<1>1. run[w].pc \in {"done", "throw"} /\ run' = [run EXCEPT ![w] = NoRun] /\ jobs' = jobs
      /\ ptps' = ptps /\ replies' = replies /\ causes' = causes
  BY DEF Return, Throw, Finish, cases
<1>2. PICK x \in Texts : x = run[w].text
  BY <1>1, RunTexts
<1>3. x \in Direct \ calls /\ \A v \in Workers : run[v].text = x => v = w
  <2>1. run[w].job \notin 1..Len(jobs)
    OBVIOUS
  <2> QED
    BY <1>1, <1>2, <2>1 DEF Handling, RunOk
<1>4. IF run[w].pc = "done" THEN calls' = calls \cup {x} ELSE calls' = calls
  BY <1>1, <1>2 DEF Return, Throw, Finish
<1>5. /\ run'[w] = NoRun /\ \A v \in Workers : v # w => run'[v] = run[v]
  BY <1>1, <1>2, Freed
<1>6. run'[w].text = None /\ None \notin Texts
  BY <1>5, NoneTypes, NoneAssumption
<1>7. \A t \in Texts : Waiting(t)' = Waiting(t) /\ JobsOf(t)' = JobsOf(t)
  BY <1>1, SameJobs
<1>8. \A t \in Texts : t # x => Uncalled(t)' = Uncalled(t)
  BY <1>2, <1>4, <1>5, <1>6 DEF Uncalled
<1>9. /\ Uncalled(x) = 0 /\ Uncalled(x)' \in 0..1
      /\ run[w].pc = "done" => Uncalled(x)' = 0
  BY <1>2, <1>4 DEF Uncalled
<1>10. ASSUME NEW t \in Texts, NEW S, "throw" \in S, "done" \notin S
       PROVE  Open(t, S)' + Reasons(t) <= Open(t, S) + Reasons(t)'
  <2>1. CASE t = x
    <3>1. PICK a \in Nat : a = IF run[w].pc \in S THEN 1 ELSE 0
      OBVIOUS
    <3>2. /\ Cardinality(Slots(x, S)) \in Nat /\ Cardinality(Slots(x, S)') \in Nat
          /\ Cardinality(Slots(x, S)') + a = Cardinality(Slots(x, S))
      <4>1. /\ Cardinality(Slots(x, S)) \in Nat /\ Cardinality(Slots(x, S)') \in Nat
            /\ run[w].pc \in S => Cardinality(Slots(x, S)') + 1 = Cardinality(Slots(x, S))
            /\ run[w].pc \notin S => Cardinality(Slots(x, S)') = Cardinality(Slots(x, S))
        BY ZenonT(30), <1>1, <1>2, Freed
      <4>2. CASE run[w].pc \in S
        BY <3>1, <4>1, <4>2
      <4>3. CASE run[w].pc \notin S
        BY <3>1, <4>1, <4>3
      <4> QED
        BY <4>2, <4>3
    <3>3. Uncalled(x)' <= a
      BY <1>1, <1>9, <1>10, <3>1
    <3>4. Reasons(x)' = Reasons(x) /\ Reasons(x) \in Nat
      BY <1>1, <1>2, <1>7, SameReasons
    <3>5. Cardinality(Waiting(x)) \in Nat /\ Waiting(x)' = Waiting(x)
      BY <1>2, <1>7, Numbers
    <3>6. /\ Open(x, S) = Cardinality(Slots(x, S)) + Cardinality(Waiting(x))
          /\ Open(x, S)' = Cardinality(Slots(x, S)') + Cardinality(Waiting(x)) + Uncalled(x)'
      BY <1>9, <3>2, <3>5 DEF Open
    <3>7. Open(x, S)' <= Open(x, S) /\ Open(x, S) \in Nat /\ Open(x, S)' \in Nat
      BY <1>9, <3>2, <3>3, <3>5, <3>6
    <3> QED
      BY <2>1, <3>4, <3>7
  <2>2. CASE t # x
    <3>1. Slots(t, S)' = Slots(t, S)
      BY <1>2, <1>5, <1>6, <2>2 DEF Slots
    <3>2. causes'[t] = causes[t]
      BY <1>1
    <3> QED
      BY <1>7, <1>8, <2>2, <3>1, <3>2, SameParts
  <2> QED
    BY <2>1, <2>2
<1>11. \A t \in Texts : Effects(t)'
  BY <1>1, <1>10, PcSets, EffectsFrame DEF Handling
<1>12. ASSUME NEW v \in Workers
       PROVE  RunOk(v)'
  <2>1. CASE v = w
    BY <1>5, <2>1, NoneTypes DEF RunOk
  <2>2. CASE v # w
    <3>1. run[v].text # x
      BY <1>3, <2>2
    <3>2. run[v].text \in Direct \ calls => run[v].text \in Direct \ calls'
      BY <1>4, <3>1
    <3>3. \A u \in Workers, t \in Texts : run'[u].text = t => run[u].text = t
      BY <1>5, <1>6
    <3> QED
      BY <1>1, <1>5, <2>2, <3>2, <3>3 DEF Handling, RunOk
  <2> QED
    BY <2>1, <2>2
<1> QED
  BY <1>11, <1>12 DEF Handling

\* A job that is completed, or fails.
LEMMA JobEnds ==
  ASSUME TypeOK, TypeOK', Hooks, Handling, NEW w \in Workers, Return(w) \/ Throw(w),
         run[w].job # 0
  PROVE  Handling'
<1>1. run[w].pc \in {"done", "throw"} /\ run' = [run EXCEPT ![w] = NoRun]
      /\ calls' = calls /\ ptps' = ptps /\ replies' = replies /\ causes' = causes
  BY DEF Return, Throw, Finish, cases
<1>2. PICK i \in 1..Len(jobs) : i = run[w].job /\ jobs[i].text = run[w].text
  BY <1>1 DEF Handling, RunOk
<1>3. PICK x \in Texts : x = jobs[i].text /\ x \notin Direct
  BY JobKnown
<1>4. JobOf(w) = jobs[i] /\ jobs[i] \in Job
  BY <1>2, JobKnown DEF JobOf
<1>5. PICK q \in Job : /\ q.text = x /\ jobs' = [jobs EXCEPT ![i] = q]
                       /\ run[w].pc = "done" /\ q.state = "waiting" => jobs[i].state = "waiting"
  <2>1. CASE Return(w)
    <3>1. PICK s \in Job : s = Settled(jobs[i], w, Completed(jobs[i]))
      BY <1>4, JobTypes, SettledType
    <3>2. s.text = x /\ (s.state = "waiting" => jobs[i].state = "waiting")
      BY <1>3, <1>4, <3>1, JobTypes DEF Settled
    <3>3. jobs' = [jobs EXCEPT ![i] = s]
      BY <1>2, <1>4, <2>1, <3>1 DEF Return, Finish, TypeOK
    <3> QED
      BY <3>2, <3>3
  <2>2. CASE Throw(w)
    <3>1. PICK s \in Job : s = Settled(jobs[i], w, Retried(jobs[i], Attempts))
      BY <1>4, JobTypes, SettledType
    <3>2. s.text = x
      BY <1>3, <1>4, <3>1, JobTypes DEF Settled
    <3>3. jobs' = [jobs EXCEPT ![i] = s] /\ run[w].pc # "done"
      BY <1>2, <1>4, <2>2, <3>1 DEF Throw, Finish, TypeOK
    <3> QED
      BY <3>2, <3>3
  <2> QED
    BY <2>1, <2>2
<1>6. /\ Len(jobs') = Len(jobs) /\ \A j \in 1..Len(jobs) : jobs'[j].text = jobs[j].text
      /\ \A t \in Texts : JobsOf(t)' = JobsOf(t)
  BY <1>3, <1>5, JobMoves
<1>7. /\ \A t \in Texts : t # x => Waiting(t)' = Waiting(t)
      /\ Cardinality(Waiting(x)) \in Nat /\ Cardinality(Waiting(x)') \in Nat
      /\ Cardinality(Waiting(x)') <= Cardinality(Waiting(x)) + 1
      /\ run[w].pc = "done" => Cardinality(Waiting(x)') <= Cardinality(Waiting(x))
  <2>1. q.text = jobs[i].text
    BY <1>3, <1>5
  <2>2. /\ \A t \in Texts : t # q.text => Waiting(t)' = Waiting(t)
        /\ Cardinality(Waiting(q.text)) \in Nat /\ Cardinality(Waiting(q.text)') \in Nat
        /\ Cardinality(Waiting(q.text)') + (IF jobs[i].state = "waiting" THEN 1 ELSE 0)
               = Cardinality(Waiting(q.text)) + (IF q.state = "waiting" THEN 1 ELSE 0)
    BY <1>5, <2>1, WaitingMoves
  <2>3. Waiting(q.text) = Waiting(x) /\ Waiting(q.text)' = Waiting(x)'
    BY <1>5
  <2> QED
    BY <1>5, <2>2, <2>3
<1>8. /\ run'[w] = NoRun /\ \A v \in Workers : v # w => run'[v] = run[v]
  BY <1>1, <1>2, <1>3, Freed
<1>9. run'[w].text = None /\ None \notin Texts
  BY <1>8, NoneTypes, NoneAssumption
<1>10. \A t \in Texts : Uncalled(t)' = Uncalled(t)
  BY <1>1, <1>2, <1>3, <1>8, <1>9, TextTypes DEF Uncalled
<1>11. ASSUME NEW t \in Texts, NEW S, "throw" \in S, "done" \notin S
       PROVE  Open(t, S)' + Reasons(t) <= Open(t, S) + Reasons(t)'
  <2>1. CASE t = x
    <3>1. PICK a \in Nat : a = IF run[w].pc \in S THEN 1 ELSE 0
      OBVIOUS
    <3>2. /\ Cardinality(Slots(x, S)) \in Nat /\ Cardinality(Slots(x, S)') \in Nat
          /\ Cardinality(Slots(x, S)') + a = Cardinality(Slots(x, S))
      <4>1. /\ Cardinality(Slots(x, S)) \in Nat /\ Cardinality(Slots(x, S)') \in Nat
            /\ run[w].pc \in S => Cardinality(Slots(x, S)') + 1 = Cardinality(Slots(x, S))
            /\ run[w].pc \notin S => Cardinality(Slots(x, S)') = Cardinality(Slots(x, S))
        <5>1. /\ x = run[w].text /\ x \in Texts /\ w \in Workers /\ TypeOK
              /\ run' = [run EXCEPT ![w] = NoRun]
          BY <1>1, <1>2, <1>3
        <5> QED
          BY ONLY ZenonT(30), <5>1, Freed
      <4>2. CASE run[w].pc \in S
        BY <3>1, <4>1, <4>2
      <4>3. CASE run[w].pc \notin S
        BY <3>1, <4>1, <4>3
      <4> QED
        BY <4>2, <4>3
    <3>3. Cardinality(Waiting(x)') <= Cardinality(Waiting(x)) + a
      BY <1>1, <1>7, <1>11, <3>1
    <3>4. Reasons(x)' = Reasons(x) /\ Reasons(x) \in Nat
      BY <1>1, <1>3, <1>6, SameReasons
    <3>5. Uncalled(x) = 0 /\ Uncalled(x)' = 0
      BY <1>3, <1>10 DEF Uncalled
    <3>6. /\ Open(x, S) = Cardinality(Slots(x, S)) + Cardinality(Waiting(x))
          /\ Open(x, S)' = Cardinality(Slots(x, S)') + Cardinality(Waiting(x)')
      BY <1>7, <3>2, <3>5 DEF Open
    <3>7. Open(x, S)' <= Open(x, S) /\ Open(x, S) \in Nat /\ Open(x, S)' \in Nat
      BY <1>7, <3>2, <3>3, <3>6
    <3> QED
      BY <2>1, <3>4, <3>7
  <2>2. CASE t # x
    <3>1. Slots(t, S)' = Slots(t, S)
      BY <1>2, <1>3, <1>8, <1>9, <2>2 DEF Slots
    <3>2. /\ Waiting(t)' = Waiting(t) /\ JobsOf(t)' = JobsOf(t) /\ Uncalled(t)' = Uncalled(t)
          /\ causes'[t] = causes[t]
      BY <1>1, <1>6, <1>7, <1>10, <2>2
    <3> QED
      BY <3>1, <3>2, SameParts
  <2> QED
    BY <2>1, <2>2
<1>12. \A t \in Texts : Effects(t)'
  BY <1>1, <1>11, PcSets, EffectsFrame DEF Handling
<1>13. ASSUME NEW v \in Workers
       PROVE  RunOk(v)'
  <2>1. CASE v = w
    BY <1>8, <2>1, NoneTypes DEF RunOk
  <2>2. CASE v # w
    <3>1. \A u \in Workers, t \in Texts : run'[u].text = t => run[u].text = t
      BY <1>8, <1>9
    <3> QED
      BY <1>1, <1>6, <1>8, <2>2, <3>1 DEF Handling, RunOk
  <2> QED
    BY <2>1, <2>2
<1> QED
  BY <1>12, <1>13 DEF Handling

LEMMA FinishKeeps ==
  ASSUME TypeOK, TypeOK', Hooks, Handling, NEW w \in Workers, Return(w) \/ Throw(w)
  PROVE  Handling'
  BY CallEnds, JobEnds

\* A job that stalls.
LEMMA StallTypes ==
  ASSUME TypeOK, Hooks, NEW i \in 1..Len(jobs), Stall(i), faults' \in 0..MaxFaults
  PROVE  TypeOK'
<1>1. /\ jobs[i] \in Job /\ jobs[i].text \in Texts
      /\ Stalled(jobs[i]) \in Job /\ Stalled(jobs[i]).text = jobs[i].text
  BY JobKnown, JobTypes
<1>2. jobs' \in Seq(Job)
  BY <1>1, JobMoves DEF Stall
<1>3. causes' \in [Texts -> Nat]
  BY <1>1, CauseType DEF Stall
<1> QED
  BY <1>2, <1>3 DEF Stall, TypeOK, hookVars, cases

LEMMA StallKeeps ==
  ASSUME TypeOK, TypeOK', Hooks, Handling, NEW i \in 1..Len(jobs), Stall(i)
  PROVE  Handling'
<1>1. PICK x \in Texts : x = jobs[i].text
  BY JobKnown
<1>2. PICK q \in Job : q = Stalled(jobs[i]) /\ q.text = x /\ q.text = jobs[i].text
  BY <1>1, JobKnown, JobTypes
<1>3. /\ jobs' = [jobs EXCEPT ![i] = q] /\ run' = run /\ calls' = calls
      /\ ptps' = ptps /\ replies' = replies
  BY <1>2 DEF Stall, cases, TypeOK
<1>4. causes'[x] = causes[x] + 1 /\ \A t \in Texts : t # x => causes'[t] = causes[t]
  BY <1>1, OneMoreOf DEF Stall, Cause, TypeOK
<1>5. /\ Len(jobs') = Len(jobs) /\ \A j \in 1..Len(jobs) : jobs'[j].text = jobs[j].text
      /\ \A t \in Texts : JobsOf(t)' = JobsOf(t)
  BY <1>2, <1>3, JobMoves
<1>6. /\ \A t \in Texts : t # x => Waiting(t)' = Waiting(t)
      /\ Cardinality(Waiting(x)) \in Nat /\ Cardinality(Waiting(x)') \in Nat
      /\ Cardinality(Waiting(x)') <= Cardinality(Waiting(x)) + 1
  <2>1. /\ \A t \in Texts : t # q.text => Waiting(t)' = Waiting(t)
        /\ Cardinality(Waiting(q.text)) \in Nat /\ Cardinality(Waiting(q.text)') \in Nat
        /\ Cardinality(Waiting(q.text)') + (IF jobs[i].state = "waiting" THEN 1 ELSE 0)
               = Cardinality(Waiting(q.text)) + (IF q.state = "waiting" THEN 1 ELSE 0)
    BY <1>2, <1>3, WaitingMoves
  <2>2. Waiting(q.text) = Waiting(x) /\ Waiting(q.text)' = Waiting(x)'
    BY <1>2
  <2> QED
    BY <1>2, <2>1, <2>2
<1>7. \A t \in Texts : \A S : Slots(t, S)' = Slots(t, S)
  BY <1>3 DEF Slots
<1>8. \A t \in Texts : Uncalled(t)' = Uncalled(t)
  BY <1>3 DEF Uncalled
<1>9. ASSUME NEW t \in Texts, NEW S
      PROVE  Open(t, S)' + Reasons(t) <= Open(t, S) + Reasons(t)'
  <2>1. CASE t = x
    <3>1. Asked(x)' = Asked(x) /\ Asked(x) \in Nat /\ causes[x] \in Nat /\ Uncalled(x) \in 0..1
      BY <1>5, Numbers DEF Asked
    <3>2. Cardinality(Slots(x, S)) \in Nat
      BY Numbers
    <3>3. Reasons(x)' = Reasons(x) + 1 /\ Reasons(x) \in Nat
      BY <1>4, <3>1 DEF Reasons
    <3>4. Open(x, S)' <= Open(x, S) + 1 /\ Open(x, S) \in Nat /\ Open(x, S)' \in Nat
      <4>1. PICK k \in Nat, u \in Nat : k = Cardinality(Slots(x, S)) /\ u = Uncalled(x)
        BY <3>1, <3>2
      <4>2. Open(x, S) = k + Cardinality(Waiting(x)) + u
        BY <4>1 DEF Open
      <4>3. Open(x, S)' = k + Cardinality(Waiting(x)') + u
        BY <1>7, <1>8, <4>1 DEF Open
      <4>4. PICK a, b : a = Cardinality(Waiting(x)) /\ b = Cardinality(Waiting(x)')
        OBVIOUS
      <4>5. a \in Nat /\ b \in Nat /\ b <= a + 1
        BY <1>6, <4>4
      <4>6. Open(x, S) = k + a + u /\ Open(x, S)' = k + b + u
        BY <4>2, <4>3, <4>4
      <4>7. k + a + u \in Nat /\ k + b + u \in Nat /\ k + b + u <= k + a + u + 1
        BY <4>5
      <4> QED
        BY ONLY <4>6, <4>7
    <3> QED
      BY <2>1, <3>3, <3>4
  <2>2. CASE t # x
    BY <1>4, <1>5, <1>6, <1>7, <1>8, <2>2, SameParts
  <2> QED
    BY <2>1, <2>2
<1>10. \A t \in Texts : Effects(t)'
  BY <1>3, <1>9, EffectsFrame DEF Handling
<1>11. \A v \in Workers : RunOk(v)'
  BY <1>3, <1>5 DEF Handling, RunOk
<1> QED
  BY <1>10, <1>11 DEF Handling

\* The webhook's steps add a reason with every job.
LEMMA HookKeeps ==
  ASSUME TypeOK, TypeOK', Hooks, Handling, HookStep
  PROVE  Handling'
<1>1. /\ run' = run /\ calls' = calls /\ ptps' = ptps /\ replies' = replies /\ causes' = causes
      /\ dnc' = dnc /\ status' = status
  BY DEF HookStep, Deliver, Continue, reserveOnce, addJob, RequestFails, KeyExpires, cases
<1>2. \/ jobs' = jobs
      \/ \E r \in Requests : req[r].pc # "idle" /\ jobs' = Append(jobs, Arrived(TextOf(r)))
  BY DEF HookStep, Deliver, Continue, reserveOnce, addJob, RequestFails, KeyExpires
<1>3. \A t \in Texts : Uncalled(t)' = Uncalled(t)
  BY <1>1 DEF Uncalled
<1>4. \A t \in Texts : \A S : Slots(t, S)' = Slots(t, S)
  BY <1>1 DEF Slots
<1>5. CASE jobs' = jobs
  <2>1. \A t \in Texts : Waiting(t)' = Waiting(t) /\ JobsOf(t)' = JobsOf(t)
    BY <1>5, SameJobs
  <2>2. \A t \in Texts : \A S : Open(t, S)' + Reasons(t) <= Open(t, S) + Reasons(t)'
    BY <1>1, <1>3, <1>4, <2>1, SameParts
  <2>3. \A t \in Texts : Effects(t)'
    BY <1>1, <2>2, EffectsFrame DEF Handling
  <2>4. \A v \in Workers : RunOk(v)'
    BY <1>1, <1>5 DEF Handling, RunOk
  <2> QED
    BY <2>3, <2>4 DEF Handling
<1>6. ASSUME NEW x \in Delivered, jobs' = Append(jobs, Arrived(x))
      PROVE  Handling'
  <2>1. x \in Texts /\ x \notin Direct
    BY TextTypes
  <2>2. /\ \A i \in 1..Len(jobs) : i \in 1..Len(jobs') /\ jobs'[i] = jobs[i]
        /\ \A t \in Texts \ {x} : JobsOf(t)' = JobsOf(t) /\ Waiting(t)' = Waiting(t)
        /\ Cardinality(JobsOf(x)') = Cardinality(JobsOf(x)) + 1
        /\ Cardinality(Waiting(x)') \in Nat
        /\ Cardinality(Waiting(x)') <= Cardinality(Waiting(x)) + 1
    BY <1>6, <2>1, Appended
  <2>3. ASSUME NEW t \in Texts, NEW S
        PROVE  Open(t, S)' + Reasons(t) <= Open(t, S) + Reasons(t)'
    <3>1. CASE t = x
      <4>1. /\ Cardinality(Slots(x, S)) \in Nat /\ Cardinality(Waiting(x)) \in Nat
            /\ Cardinality(JobsOf(x)) \in Nat /\ causes[x] \in Nat
        BY <2>1, Numbers
      <4>2. Uncalled(x) = 0 /\ Uncalled(x)' = 0
        BY <1>3, <2>1 DEF Uncalled
      <4>3. /\ Reasons(x) = Cardinality(JobsOf(x)) + causes[x]
            /\ Reasons(x)' = Cardinality(JobsOf(x)') + causes[x]
        BY <1>1, <2>1 DEF Reasons, Asked
      <4>4. /\ Open(x, S) = Cardinality(Slots(x, S)) + Cardinality(Waiting(x))
            /\ Open(x, S)' = Cardinality(Slots(x, S)) + Cardinality(Waiting(x)')
        BY <1>4, <2>1, <2>2, <4>1, <4>2 DEF Open
      <4>5. PICK k, a, b, c, d, e : /\ k = Cardinality(Slots(x, S)) /\ a = Cardinality(Waiting(x))
                                    /\ b = Cardinality(Waiting(x)') /\ c = Cardinality(JobsOf(x))
                                    /\ d = Cardinality(JobsOf(x)') /\ e = causes[x]
        OBVIOUS
      <4>6. /\ k \in Nat /\ a \in Nat /\ b \in Nat /\ c \in Nat /\ e \in Nat
            /\ d = c + 1 /\ b <= a + 1
        BY <2>2, <4>1, <4>5
      <4>7. /\ Open(x, S) = k + a /\ Open(x, S)' = k + b
            /\ Reasons(x) = c + e /\ Reasons(x)' = d + e
        BY <4>3, <4>4, <4>5
      <4> QED
        BY <3>1, <4>6, <4>7
    <3>2. CASE t # x
      BY <1>1, <1>3, <1>4, <2>2, <3>2, SameParts
    <3> QED
      BY <3>1, <3>2
  <2>4. \A t \in Texts : Effects(t)'
    BY <1>1, <2>3, EffectsFrame DEF Handling
  <2>5. \A v \in Workers : RunOk(v)'
    BY <1>1, <2>2 DEF Handling, RunOk
  <2> QED
    BY <2>4, <2>5 DEF Handling
<1> QED
  BY <1>2, <1>5, <1>6, Flying

\* A restart loses the slots; a direct call that is lost may be made again.
LEMMA RestartTypes ==
  ASSUME TypeOK, Hooks, Restart
  PROVE  TypeOK'
<1>1. run' \in [Workers -> Run] /\ req' \in [Requests -> Req] /\ faults' \in 0..MaxFaults
  BY NoneTypes, FaultType DEF Restart
<1>2. causes' \in [Texts -> Nat]
  <2> DEFINE lost(t) == Cardinality({w \in Workers : run[w].text = t /\ t \in Direct})
  <2>1. ASSUME NEW t \in Texts
        PROVE  causes[t] + lost(t) \in Nat
    <3>1. {w \in Workers : run[w].text = t /\ t \in Direct} \in SUBSET Workers
      OBVIOUS
    <3>2. lost(t) \in Nat
      BY <3>1, Sizes, SlotsAssumption
    <3>3. causes[t] \in Nat
      BY DEF TypeOK
    <3> HIDE DEF lost
    <3> QED
      BY <3>2, <3>3
  <2>2. causes' = [t \in Texts |-> causes[t] + lost(t)]
    BY DEF Restart
  <2> HIDE DEF lost
  <2> QED
    BY <2>1, <2>2
<1>3. UNION {Reserved(r) : r \in Requests} \subseteq Delivered
  BY ReservedTexts
<1> QED
  BY <1>1, <1>2, <1>3 DEF Restart, TypeOK, cases

LEMMA RestartKeeps ==
  ASSUME TypeOK, TypeOK', Handling, Restart
  PROVE  Handling'
<1>1. /\ run' = [w \in Workers |-> NoRun] /\ jobs' = jobs /\ calls' = calls
      /\ ptps' = ptps /\ replies' = replies
  BY DEF Restart, cases
<1>2. \A w \in Workers : run'[w] = NoRun /\ run'[w].text = None
  BY <1>1, NoneTypes
<1>3. None \notin Texts
  BY NoneAssumption
<1>4. ASSUME NEW t \in Texts, NEW S
      PROVE  Open(t, S)' + Reasons(t) <= Open(t, S) + Reasons(t)'
  <2>1. PICK A \in SUBSET Workers : A = {w \in Workers : run[w].text = t /\ t \in Direct}
    OBVIOUS
  <2>2. Cardinality(A) \in Nat /\ IsFiniteSet(A)
    BY Sizes, SlotsAssumption
  <2>3. causes'[t] = causes[t] + Cardinality(A)
    BY <2>1 DEF Restart
  <2>4. Slots(t, S)' = {} /\ Cardinality(Slots(t, S)') = 0
    <3>1. Slots(t, S)' = {}
      BY <1>2, <1>3 DEF Slots
    <3> QED
      BY <3>1, FS_EmptySet
  <2>5. Uncalled(t)' <= Uncalled(t) + Cardinality(A) /\ Uncalled(t) \in 0..1 /\ Uncalled(t)' \in 0..1
    <3>1. CASE A = {}
      <4>1. Uncalled(t)' = Uncalled(t)
        BY <1>1, <1>2, <1>3, <2>1, <3>1 DEF Uncalled
      <4> QED
        BY <2>2, <4>1 DEF Uncalled
    <3>2. CASE A # {}
      <4>1. Cardinality(A) # 0
        BY <2>2, <3>2, FS_EmptySet
      <4> QED
        BY <2>2, <4>1 DEF Uncalled
    <3> QED
      BY <3>1, <3>2
  <2>6. Waiting(t)' = Waiting(t) /\ JobsOf(t)' = JobsOf(t)
    BY <1>1, SameJobs
  <2>7. /\ Cardinality(Slots(t, S)) \in Nat /\ Cardinality(Waiting(t)) \in Nat
        /\ Asked(t) \in Nat /\ causes[t] \in Nat
    BY Numbers
  <2>8. Open(t, S)' = Cardinality(Waiting(t)) + Uncalled(t)'
    BY <2>4, <2>5, <2>6, <2>7 DEF Open
  <2>9. Reasons(t)' = Asked(t) + (causes[t] + Cardinality(A))
    BY <2>3, <2>6 DEF Reasons, Asked
  <2>10. PICK k, u, v, a, b, c, d : /\ k = Cardinality(Slots(t, S)) /\ u = Uncalled(t)
                                    /\ v = Uncalled(t)' /\ a = Cardinality(Waiting(t))
                                    /\ b = Asked(t) /\ c = causes[t] /\ d = Cardinality(A)
    OBVIOUS
  <2>11. /\ k \in Nat /\ u \in Nat /\ v \in Nat /\ a \in Nat /\ b \in Nat /\ c \in Nat /\ d \in Nat
         /\ v <= u + d
    BY <2>2, <2>5, <2>7, <2>10
  <2>12. /\ Open(t, S) = k + a + u /\ Open(t, S)' = a + v
         /\ Reasons(t) = b + c /\ Reasons(t)' = b + (c + d)
    BY <2>8, <2>9, <2>10 DEF Open, Reasons
  <2>13. (a + v) + (b + c) <= (k + a + u) + (b + (c + d))
    BY <2>11
  <2> QED
    BY <2>12, <2>13
<1>5. \A t \in Texts : Effects(t)'
  BY <1>1, <1>4, EffectsFrame DEF Handling
<1>6. \A v \in Workers : RunOk(v)'
  BY <1>2, NoneTypes DEF RunOk
<1> QED
  BY <1>5, <1>6 DEF Handling
-----------------------------------------------------------------------------
(* The invariant. *)

\* What was written stays written.
LEMMA WrittenStays ==
  ASSUME TypeOK, Hooks, [Next]_vars, NEW t \in Texts, Written(t)
  PROVE  Written(t)'
<1>1. CASE t \in Direct
  BY <1>1 DEF Written
<1>2. ASSUME NEW p \in Payloads, mail[p] # "unsent"
      PROVE  mail'[p] # "unsent"
  <2>1. \/ mail' = mail
        \/ \E q : mail' = [mail EXCEPT ![q] = "pending"]
        \/ \E q : mail' = [mail EXCEPT ![q] = "answered"]
    BY DEF Next, Deliver, Continue, reserveOnce, addJob, RequestFails, KeyExpires, Advance, Take,
       webhook, Work, findOpenCaseIdByAddress, markInbound, markDnc, createPtp, replyLookup, reply,
       Return, Throw, Finish, createPtpLost, replyFails, StepFails, StalledFound, LockLost, Stall,
       closeIfZero, Restart, vars, hookVars
  <2> QED
    BY <1>2, <2>1 DEF TypeOK
<1> QED
  BY <1>1, <1>2 DEF Written

\* An opt-out is registered for a text of the contact.
LEMMA Silencing ==
  ASSUME TypeOK, Hooks, Handling, [Next]_vars, SilencedOnRequest
  PROVE  SilencedOnRequest'
<1>1. \/ dnc' = dnc
      \/ \E w \in Workers : run[w].pc = "dnc" /\ dnc' = dnc \cup OptsOut(run[w].text)
  BY DEF Next, Deliver, Continue, reserveOnce, addJob, RequestFails, KeyExpires, Advance, Take,
     webhook, Work, findOpenCaseIdByAddress, markInbound, markDnc, createPtp, replyLookup, reply,
     Return, Throw, Finish, createPtpLost, replyFails, StepFails, StalledFound, LockLost, Stall,
     closeIfZero, Restart, vars, cases
<1>2. ASSUME NEW w \in Workers, run[w].pc = "dnc", NEW c \in OptsOut(run[w].text)
      PROVE  \E t \in Texts : /\ Written(t) /\ "baja" \in WordsOf[t]
                              /\ FromOf[t] = AddressOf[c] /\ TenantIn(t) = TenantOf[c]
  <2>1. PICK t \in Texts : t = run[w].text /\ Intent(t) = "BAJA"
    BY <1>2 DEF Handling, RunOk
  <2>2. Written(t)
    BY <1>2, <2>1 DEF Handling, RunOk, Hooks, Written
  <2>3. "baja" \in WordsOf[t]
    BY <2>1 DEF Intent, classify, extractText
  <2>4. FromOf[t] = AddressOf[c] /\ TenantIn(t) = TenantOf[c]
    BY <1>2, <2>1 DEF OptsOut
  <2> QED
    BY <2>2, <2>3, <2>4
<1>3. ASSUME NEW c \in dnc'
      PROVE  \E t \in Texts : /\ Written(t) /\ "baja" \in WordsOf[t]
                              /\ FromOf[t] = AddressOf[c] /\ TenantIn(t) = TenantOf[c]
  BY <1>1, <1>2, <1>3 DEF SilencedOnRequest
<1>4. \A t \in Texts : Written(t) => Written(t)'
  BY WrittenStays
<1> QED
  BY <1>3, <1>4 DEF SilencedOnRequest

\* At the start nothing is reserved, queued or handled.
LEMMA InitInv == Init => IInv
<1> SUFFICES ASSUME Init
             PROVE  IInv
  OBVIOUS
<1>1. TypeOK
  BY NoneTypes, SlotsAssumption, ContactsAssumption DEF Init, TypeOK
<1>2. Len(jobs) = 0 /\ 1..Len(jobs) = {}
  BY DEF Init
<1>3. \A t \in Texts : JobsOf(t) = {} /\ Waiting(t) = {} /\ Adders(t) = {}
  BY <1>2, NoneTypes DEF Init, JobsOf, Waiting, Adders
<1>4. \A t \in Texts : /\ Cardinality(JobsOf(t)) = 0 /\ Cardinality(Waiting(t)) = 0
                        /\ Cardinality(Adders(t)) = 0
  BY <1>3, FS_EmptySet
<1>5. Hooks
  <2>1. \A r \in Requests : ReqOk(r)
    BY NoneTypes DEF Init, ReqOk
  <2>2. \A t \in Delivered : KeyOk(t)
    BY <1>4, TextTypes DEF KeyOk, Init
  <2>3. keys \cup expired = {} /\ \A p \in Payloads : mail[p] # "answered"
    BY DEF Init
  <2> QED
    BY <1>2, <2>1, <2>2, <2>3 DEF Hooks
<1>6. Handling
  <2>1. \A w \in Workers : RunOk(w)
    BY NoneTypes DEF Init, RunOk
  <2>2. \A t \in Texts : \A S : Slots(t, S) = {}
    BY NoneTypes, NoneAssumption DEF Init, Slots
  <2>3. ASSUME NEW t \in Texts, NEW S
        PROVE  Bounded(t, S, 0)
    <3>1. Asked(t) + causes[t] = IF t \in Direct THEN 1 ELSE 0
      <4>1. causes[t] = 0
        BY DEF Init
      <4> QED
        BY <1>4, <4>1 DEF Asked
    <3>2. Uncalled(t) = IF t \in Direct THEN 1 ELSE 0
      BY NoneTypes, NoneAssumption DEF Init, Uncalled
    <3>3. Cardinality(Slots(t, S)) = 0
      BY <2>2, FS_EmptySet
    <3> QED
      BY <1>4, <3>1, <3>2, <3>3 DEF Bounded
  <2>4. \A t \in Texts : ptps[t] = 0 /\ replies[t] = 0
    BY DEF Init
  <2>5. \A t \in Texts : Effects(t)
    BY <2>3, <2>4 DEF Effects
  <2> QED
    BY <2>1, <2>5 DEF Handling
<1>7. PromiseIsRecorded
  BY DEF Init, PromiseIsRecorded
<1>8. SilencedOnRequest
  BY DEF Init, SilencedOnRequest
<1> QED
  BY <1>1, <1>5, <1>6, <1>7, <1>8 DEF IInv

\* The steps that are none of the webhook's and start, end or lose a handling.
LEMMA PromiseStays ==
  ASSUME ptps' = ptps, replies' = replies, PromiseIsRecorded
  PROVE  PromiseIsRecorded'
  BY DEF PromiseIsRecorded

LEMMA StepInv == IInv /\ [Next]_vars => IInv'
<1> SUFFICES ASSUME IInv, [Next]_vars
             PROVE  IInv'
  OBVIOUS
<1>1. TypeOK /\ Hooks /\ Handling /\ PromiseIsRecorded /\ SilencedOnRequest
  BY DEF IInv
<1>2. SilencedOnRequest'
  BY <1>1, Silencing
<1>3. CASE HookStep
  <2>1. TypeOK'
    BY <1>1, <1>3, HookTypes
  <2>2. Hooks'
    BY <1>1, <1>3, <2>1, DeliverHooks, reserveHooks, addHooks, RequestFailsHooks,
       KeyExpiresHooks DEF HookStep, Continue
  <2>3. Handling'
    BY <1>1, <1>3, <2>1, HookKeeps
  <2>4. ptps' = ptps /\ replies' = replies
    BY <1>3 DEF HookStep, Deliver, Continue, reserveOnce, addJob, RequestFails, KeyExpires, cases
  <2> QED
    BY <1>1, <1>2, <2>1, <2>2, <2>3, <2>4, PromiseStays DEF IInv
<1>4. ASSUME NEW w \in Workers, Moves(w)
      PROVE  IInv'
  <2>1. TypeOK'
    BY <1>1, <1>4, MovesTypes
  <2>2. Handling' /\ PromiseIsRecorded'
    BY <1>1, <1>4, <2>1, MovesKeep
  <2>3. UNCHANGED hookVars /\ jobs' = jobs
    BY <1>4 DEF Moves, findOpenCaseIdByAddress, markInbound, markDnc, createPtp, createPtpLost,
                replyLookup, reply, replyFails, StepFails
  <2>4. Hooks'
    BY <1>1, <2>3, HooksStay
  <2> QED
    BY <1>2, <2>1, <2>2, <2>4 DEF IInv
<1>5. ASSUME NEW w \in Workers, NEW i \in 1..Len(jobs), Take(w, i)
      PROVE  IInv'
  <2>1. TypeOK'
    BY <1>1, <1>5, TakeTypes
  <2>2. Handling'
    BY <1>1, <1>5, <2>1, TakeKeeps
  <2>3. Hooks'
    <3>1. Taken(jobs[i], w) \in Job /\ Taken(jobs[i], w).text = jobs[i].text
      BY <1>1, JobKnown, JobTypes
    <3>2. jobs' = [jobs EXCEPT ![i] = Taken(jobs[i], w)] /\ UNCHANGED hookVars
      BY <1>5 DEF Take
    <3>3. Len(jobs') = Len(jobs) /\ \A j \in 1..Len(jobs) : jobs'[j].text = jobs[j].text
      BY <1>1, <3>1, <3>2, JobMoves
    <3> QED
      BY <1>1, <3>2, <3>3, HooksStay
  <2> QED
    BY <1>1, <1>2, <1>5, <2>1, <2>2, <2>3, PromiseStays DEF IInv, Take, cases
<1>6. ASSUME NEW w \in Workers, NEW t \in Direct, webhook(w, t)
      PROVE  IInv'
  <2>1. TypeOK'
    BY <1>1, <1>6, webhookTypes
  <2>2. Handling'
    BY <1>1, <1>6, <2>1, webhookKeeps
  <2>3. Hooks'
    BY <1>1, <1>6, HooksStay DEF webhook
  <2> QED
    BY <1>1, <1>2, <1>6, <2>1, <2>2, <2>3, PromiseStays DEF IInv, webhook, cases
<1>7. ASSUME NEW w \in Workers, Return(w) \/ Throw(w)
      PROVE  IInv'
  <2>1. TypeOK'
    BY <1>1, <1>7, FinishTypes
  <2>2. Handling'
    BY <1>1, <1>7, <2>1, FinishKeeps
  <2>3. Hooks'
    BY <1>1, <1>7, FinishedTexts, HooksStay DEF Return, Throw, Finish
  <2> QED
    BY <1>1, <1>2, <1>7, <2>1, <2>2, <2>3, PromiseStays DEF IInv, Return, Throw, Finish, cases
<1>8. ASSUME NEW i \in 1..Len(jobs), StalledFound(i) \/ LockLost(i)
      PROVE  IInv'
  <2>1. Stall(i) /\ faults' \in 0..MaxFaults
    BY <1>1, <1>8, FaultType DEF StalledFound, LockLost, TypeOK
  <2>2. TypeOK'
    BY <1>1, <2>1, StallTypes
  <2>3. Handling'
    BY <1>1, <2>1, <2>2, StallKeeps
  <2>4. Hooks'
    <3>1. Stalled(jobs[i]) \in Job /\ Stalled(jobs[i]).text = jobs[i].text
      BY <1>1, JobKnown, JobTypes
    <3>2. jobs' = [jobs EXCEPT ![i] = Stalled(jobs[i])] /\ UNCHANGED hookVars
      BY <2>1 DEF Stall
    <3>3. Len(jobs') = Len(jobs) /\ \A j \in 1..Len(jobs) : jobs'[j].text = jobs[j].text
      BY <1>1, <3>1, <3>2, JobMoves
    <3> QED
      BY <1>1, <3>2, <3>3, HooksStay
  <2> QED
    BY <1>1, <1>2, <2>1, <2>2, <2>3, <2>4, PromiseStays DEF IInv, Stall, cases
<1>9. ASSUME NEW c \in Contacts, closeIfZero(c)
      PROVE  IInv'
  <2>1. /\ UNCHANGED hookVars /\ jobs' = jobs /\ run' = run /\ calls' = calls /\ ptps' = ptps
        /\ replies' = replies /\ causes' = causes
    BY <1>9 DEF closeIfZero
  <2>2. TypeOK'
    BY <1>1, <1>9 DEF closeIfZero, TypeOK, hookVars, CaseStatus
  <2>3. Hooks'
    BY <1>1, <2>1, HooksStay
  <2>4. Handling'
    BY ZenonT(30), <1>1, <2>1 DEF Handling, RunOk, Effects, Bounded, Slots, Waiting, JobsOf, Uncalled, Asked
  <2> QED
    BY <1>1, <1>2, <2>1, <2>2, <2>3, <2>4, PromiseStays DEF IInv
<1>10. CASE Restart
  <2>1. TypeOK'
    BY <1>1, <1>10, RestartTypes
  <2>2. Handling'
    BY <1>1, <1>10, <2>1, RestartKeeps
  <2>3. Hooks'
    BY <1>1, <1>10, <2>1, RestartHooks
  <2> QED
    BY <1>1, <1>2, <1>10, <2>1, <2>2, <2>3, PromiseStays DEF IInv, Restart, cases
<1>11. CASE UNCHANGED vars
  <2>1. /\ UNCHANGED hookVars /\ jobs' = jobs /\ run' = run /\ calls' = calls /\ ptps' = ptps
        /\ replies' = replies /\ causes' = causes
    BY <1>11 DEF vars, cases
  <2>2. TypeOK'
    BY <1>1, <1>11 DEF vars, cases, hookVars, TypeOK
  <2>3. Hooks'
    BY <1>1, <2>1, HooksStay
  <2>4. Handling'
    BY ZenonT(30), <1>1, <2>1 DEF Handling, RunOk, Effects, Bounded, Slots, Waiting, JobsOf, Uncalled, Asked
  <2> QED
    BY <1>1, <1>2, <2>1, <2>2, <2>3, <2>4, PromiseStays DEF IInv
<1> QED
  BY <1>3, <1>4, <1>5, <1>6, <1>7, <1>8, <1>9, <1>10, <1>11 DEF Next, HookStep, Work, Moves
-----------------------------------------------------------------------------
(* The theorems. *)

\* The invariant holds, whatever fails.
THEOREM Invariance == Spec => []IInv
  BY InitInv, StepInv, PTL DEF Spec

\* Type correctness: every variable of the webhook, the queue and the service
\* keeps the type the code gives it.
THEOREM TypeCorrect == Spec => []TypeOK
<1>1. IInv => TypeOK
  BY DEF IInv
<1> QED
  BY <1>1, Invariance, PTL

\* reserveOnce and addJob: however many requests carry a payload at once, and
\* wherever they fail, each text is enqueued once for each life of its key; and
\* once Meta has its answer it is enqueued, about to be, or known to be broken.
THEOREM QueuedOnce == Spec => []OneJobPerText
<1>1. IInv => OneJobPerText
  <2> SUFFICES ASSUME IInv, NEW t \in Delivered
               PROVE  /\ Cardinality(JobsOf(t)) <= IF t \in expired THEN 2 ELSE 1
                      /\ Answered(t) /\ JobsOf(t) = {} =>
                             t \in broken \/ \E r \in Requests : t \in Reserved(r)
    BY DEF OneJobPerText
  <2>1. Cardinality(JobsOf(t)) \in Nat /\ Cardinality(Adders(t)) \in Nat
    BY TextTypes, Numbers DEF IInv
  <2>2. Cardinality(JobsOf(t)) + Cardinality(Adders(t)) <=
            (IF t \in keys THEN 1 ELSE 0) + (IF t \in expired THEN 1 ELSE 0)
    BY DEF IInv, Hooks, KeyOk
  <2>3. Cardinality(JobsOf(t)) <= IF t \in expired THEN 2 ELSE 1
    BY <2>1, <2>2
  <2>4. Answered(t) => Kept(t)
    <3>1. t \notin calls
      BY TextTypes DEF IInv, TypeOK
    <3> QED
      BY <3>1 DEF Answered, IInv, Hooks
  <2>5. Kept(t) /\ JobsOf(t) = {} => t \in broken \/ \E r \in Requests : t \in Reserved(r)
    BY TextTypes DEF Kept, Adders, Reserved
  <2> QED
    BY <2>3, <2>4, <2>5
<1> QED
  BY <1>1, Invariance, PTL

\* handle: no more promises and no more replies for a text than there were
\* jobs, failures, stalls and restarts that made it be handled again.
THEOREM EffectsCaused == Spec => []EffectsNeedCause
<1>1. IInv => EffectsNeedCause
  <2> SUFFICES ASSUME IInv, NEW t \in Texts
               PROVE  ptps[t] <= Asked(t) + causes[t] /\ replies[t] <= Asked(t) + causes[t]
    BY DEF EffectsNeedCause
  <2>1. ASSUME NEW S, NEW n \in Nat, Bounded(t, S, n)
        PROVE  n <= Asked(t) + causes[t]
    <3>1. /\ Cardinality(Slots(t, S)) \in Nat /\ Cardinality(Waiting(t)) \in Nat
          /\ Uncalled(t) \in 0..1 /\ Asked(t) \in Nat /\ causes[t] \in Nat
      BY Numbers DEF IInv
    <3> QED
      BY <2>1, <3>1 DEF Bounded
  <2>2. PICK n \in Nat, m \in Nat : n = ptps[t] /\ m = replies[t]
    BY DEF IInv, TypeOK
  <2>3. Bounded(t, BeforePtp, n) /\ Bounded(t, BeforeReply, m)
    BY <2>2 DEF IInv, Handling, Effects
  <2> QED
    BY <2>1, <2>2, <2>3
<1> QED
  BY <1>1, Invariance, PTL

\* createPtp and reply: what the debtor is told of a promise is in the table.
THEOREM PromisesRecorded == Spec => []PromiseIsRecorded
<1>1. IInv => PromiseIsRecorded
  BY DEF IInv
<1> QED
  BY <1>1, Invariance, PTL

\* markDnc: nobody is silenced but on a text of opt-out of its own.
THEOREM SilenceRequested == Spec => []SilencedOnRequest
<1>1. IInv => SilencedOnRequest
  BY DEF IInv
<1> QED
  BY <1>1, Invariance, PTL
-----------------------------------------------------------------------------
(* What has become of a text while nothing fails: one slot handles it at a *)
(* time, from the beginning to its one effect and its one reply.           *)

\* A direct call names the case of the contact that writes, if it names one:
\* handle believes it.
OwnCases ==
    \A t \in Direct : CallCase[t] # None =>
        AddressOf[CallCase[t]] = FromOf[t] /\ TenantOf[CallCase[t]] = TenantIn(t)

Wanted(t) == IF Intent(t) = "PTP" /\ IsWhole(t) THEN 1 ELSE 0
Silenced(t) == "baja" \in extractText(t) => Found(t) \cap Verbatim \subseteq dnc
Untouched(t) == ptps[t] = 0 /\ replies[t] = 0

Handled(t) ==
    \A c \in Found(t) :
        /\ c \in heard
        /\ "baja" \in extractText(t) /\ c \in Verbatim => c \in dnc
        /\ ptps[t] = Wanted(t)
        /\ replies[t] = IF c \in Reachable /\ (Intent(t) = "PTP" => IsWhole(t)) THEN 1 ELSE 0

\* What slot w has done of text t.
Doing(t, w) ==
    LET pc == run[w].pc IN
    /\ pc \in BeforeReply => replies[t] = 0
    /\ pc \in BeforePtp => ptps[t] = 0
    /\ pc \in {"mark", "dnc", "ptp", "lookup", "queue", "throw"} => Found(t) \subseteq {run[w].kase}
    /\ pc \in {"dnc", "ptp", "lookup", "queue", "throw"} => Found(t) \subseteq heard
    /\ pc \in {"ptp", "throw"} => Intent(t) = "PTP"
    /\ pc = "throw" => ~ IsWhole(t)
    /\ pc \in {"lookup", "queue"} =>
           ptps[t] = Wanted(t) /\ (Intent(t) = "PTP" => IsWhole(t)) /\ Silenced(t)
    /\ pc = "queue" => run[w].kase \in Reachable
    /\ pc = "done" => Handled(t)

SlotDoes(t, w) ==
    /\ Doing(t, w)
    /\ run[w].job # 0 => jobs[run[w].job].state = "active" /\ jobs[run[w].job].by = w

JobDone(t, i) ==
    /\ jobs[i].state = "waiting" => Untouched(t)
    /\ jobs[i].state = "active" => jobs[i].by \in Workers /\ run[jobs[i].by].job = i
    /\ Ended(jobs[i]) => Handled(t)

TextOk(t) ==
    /\ t \in calls => Handled(t)
    /\ t \in Direct \ calls /\ (\A w \in Workers : run[w].text # t) => Untouched(t)
    /\ t \in Delivered /\ JobsOf(t) = {} => Untouched(t)
    /\ \A i \in JobsOf(t) : JobDone(t, i)
    /\ \A w \in Workers : run[w].text = t => SlotDoes(t, w)

AllHandled == broken = {} /\ expired = {} /\ \A t \in Texts : TextOk(t)

LEMMA OneOwner ==
  ASSUME NEW t, NEW c \in Found(t), NEW d \in Contacts,
         AddressOf[d] = FromOf[t], TenantOf[d] = TenantIn(t)
  PROVE  d = c
  BY ContactsAssumption DEF Found

\* As long as no key expires a text has one job at most, and none while a
\* request is about to enqueue it.
LEMMA OneJob ==
  ASSUME TypeOK, Hooks, expired = {}, NEW t \in Delivered
  PROVE  /\ \A i, k \in JobsOf(t) : i = k
         /\ Adders(t) # {} => JobsOf(t) = {}
<1>1. /\ Cardinality(JobsOf(t)) \in Nat /\ Cardinality(Adders(t)) \in Nat
      /\ JobsOf(t) \in SUBSET (1..Len(jobs)) /\ Len(jobs) \in Nat
  BY TextTypes, Numbers
<1>2. Cardinality(JobsOf(t)) + Cardinality(Adders(t)) <= 1
  <2>1. Cardinality(JobsOf(t)) + Cardinality(Adders(t)) <=
            (IF t \in keys THEN 1 ELSE 0) + (IF t \in expired THEN 1 ELSE 0)
    BY DEF Hooks, KeyOk
  <2> QED
    BY <1>1, <2>1
<1>3. IsFiniteSet(1..Len(jobs)) /\ IsFiniteSet(JobsOf(t))
  BY <1>1, Intervals, Sizes
<1>4. ASSUME NEW i \in JobsOf(t), NEW k \in JobsOf(t), i # k
      PROVE  FALSE
  <2>1. {k} \in SUBSET (JobsOf(t) \ {i}) /\ Cardinality({k}) = 1
    BY <1>4, FS_Singleton
  <2>2. Cardinality({k}) + 1 <= Cardinality(JobsOf(t))
    BY <1>1, <1>3, <2>1, OneLess
  <2> QED
    BY <1>1, <1>2, <2>1, <2>2
<1>5. ASSUME NEW r \in Adders(t)
      PROVE  JobsOf(t) = {}
  <2>1. Adders(t) \in SUBSET Requests /\ {} \in SUBSET (Adders(t) \ {r}) /\ Cardinality({}) = 0
    BY FS_EmptySet DEF Adders
  <2>2. Cardinality({}) + 1 <= Cardinality(Adders(t))
    BY <2>1, OneLess, SlotsAssumption
  <2>3. Cardinality(JobsOf(t)) = 0
    BY <1>1, <1>2, <2>1, <2>2
  <2> QED
    BY <1>3, <2>3, FS_EmptySet
<1> QED
  BY <1>4, <1>5

\* The job that a slot has.
LEMMA SlotJob ==
  ASSUME TypeOK, Hooks, Handling, NEW w \in Workers, NEW t \in Texts, run[w].text = t
  PROVE  /\ run[w].pc # "idle"
         /\ \/ /\ t \in Direct \ calls /\ run[w].job = 0 /\ JobsOf(t) = {}
               /\ \A v \in Workers : run[v].text = t => v = w
            \/ /\ t \in Delivered /\ t \notin calls /\ t \notin Direct
               /\ run[w].job \in JobsOf(t) /\ run[w].job # 0
<1>1. run[w].pc # "idle"
  BY NoneTypes, NoneAssumption DEF Handling, RunOk
<1>2. CASE /\ t \in Direct \ calls /\ run[w].job = 0
           /\ \A v \in Workers : run[v].text = t => v = w
  <2>1. JobsOf(t) = {}
    BY <1>2, JobKnown DEF JobsOf
  <2> QED
    BY <1>1, <1>2, <2>1
<1>3. CASE run[w].job \in 1..Len(jobs) /\ jobs[run[w].job].text = t
  <2>1. t \in Delivered /\ t \notin Direct /\ run[w].job # 0
    BY <1>3, JobKnown
  <2>2. t \notin calls
    BY <2>1 DEF TypeOK
  <2> QED
    BY <1>1, <1>3, <2>1, <2>2 DEF JobsOf
<1> QED
  BY <1>1, <1>2, <1>3 DEF Handling, RunOk

\* The one slot that handles a text has its one job.
LEMMA OneSlot ==
  ASSUME IInv, AllHandled, NEW w \in Workers, NEW t \in Texts, run[w].text = t
  PROVE  /\ \A v \in Workers : run[v].text = t => v = w
         /\ t \notin calls
         /\ t \in Delivered => JobsOf(t) # {}
         /\ \A i \in JobsOf(t) : /\ i = run[w].job /\ i # 0
                                 /\ jobs[i].state = "active" /\ jobs[i].by = w
<1>1. TypeOK /\ Hooks /\ Handling /\ expired = {}
  BY DEF IInv, AllHandled
<1>2. ASSUME NEW v \in Workers, run[v].text = t, t \in Delivered
      PROVE  \A i \in JobsOf(t) : /\ i = run[v].job /\ i # 0
                                  /\ jobs[i].state = "active" /\ jobs[i].by = v
  <2>1. run[v].job \in JobsOf(t) /\ run[v].job # 0
    BY <1>1, <1>2, SlotJob, TextTypes
  <2>2. \A i \in JobsOf(t) : i = run[v].job
    BY <1>1, <1>2, <2>1, OneJob
  <2>3. SlotDoes(t, v)
    BY <1>2 DEF AllHandled, TextOk
  <2> QED
    BY <2>1, <2>2, <2>3 DEF SlotDoes
<1>3. CASE t \in Direct
  BY <1>1, <1>3, SlotJob, TextTypes
<1>4. CASE t \in Delivered
  BY <1>1, <1>2, <1>4, SlotJob, TextTypes
<1> QED
  BY <1>3, <1>4 DEF Direct

LEMMA HandledStays ==
  ASSUME NEW t, Handled(t), ptps'[t] = ptps[t], replies'[t] = replies[t],
         heard \subseteq heard', dnc \subseteq dnc', Found(t)' \subseteq Found(t)
  PROVE  Handled(t)'
  BY DEF Handled, Wanted, IsWhole, Intent

\* A step that is not about text t.
LEMMA TextStays ==
  ASSUME TypeOK, Hooks, Handling, NEW t \in Texts, TextOk(t),
         ptps'[t] = ptps[t], replies'[t] = replies[t],
         heard \subseteq heard', dnc \subseteq dnc', Found(t)' \subseteq Found(t),
         t \in calls' <=> t \in calls, JobsOf(t)' = JobsOf(t),
         \A i \in JobsOf(t) : jobs'[i] = jobs[i],
         \A w \in Workers : run[w].text = t \/ run'[w].text = t => run'[w] = run[w]
  PROVE  TextOk(t)'
<1>1. Handled(t) => Handled(t)'
  BY HandledStays
<1>2. Untouched(t) => Untouched(t)'
  BY DEF Untouched
<1>3. ASSUME NEW i \in JobsOf(t)
      PROVE  JobDone(t, i)'
  <2>1. JobDone(t, i)
    BY DEF TextOk
  <2>2. ASSUME jobs[i].state = "active"
        PROVE  jobs[i].by \in Workers /\ run'[jobs[i].by].job = i
    <3>1. PICK v \in Workers : v = jobs[i].by /\ run[v].job = i
      BY <2>1, <2>2 DEF JobDone
    <3>2. i \in 1..Len(jobs) /\ jobs[i].text = t /\ i # 0
      BY JobKnown DEF JobsOf
    <3>3. run[v].pc # "idle"
      BY <3>1, <3>2 DEF Handling, RunOk, NoRun
    <3>4. run[v].text = t
      BY <3>1, <3>2, <3>3 DEF Handling, RunOk
    <3> QED
      BY <3>1, <3>4
  <2> QED
    BY <1>1, <1>2, <2>1, <2>2 DEF JobDone, Ended
<1>4. ASSUME NEW w \in Workers, run'[w].text = t
      PROVE  SlotDoes(t, w)'
  <2>1. run'[w] = run[w] /\ SlotDoes(t, w)
    BY <1>4 DEF TextOk
  <2>2. run[w].job # 0 => run[w].job \in JobsOf(t)
    BY <1>4, <2>1, SlotJob
  <2>3. Doing(t, w)'
    BY <1>1, <2>1 DEF SlotDoes, Doing, Silenced, Wanted, IsWhole, Intent
  <2> QED
    BY <2>1, <2>2, <2>3 DEF SlotDoes
<1>5. \A w \in Workers : run'[w].text # t => run[w].text # t
  OBVIOUS
<1> QED
  BY <1>1, <1>2, <1>3, <1>4, <1>5 DEF TextOk

LEMMA SameFound ==
  ASSUME NEW t, UNCHANGED status
  PROVE  Found(t)' = Found(t)
  BY DEF Found
-----------------------------------------------------------------------------
(* The webhook, the queue and the case. *)

LEMMA HandledHooks ==
  ASSUME IInv, AllHandled, NEW r \in Requests,
         (\E p \in Payloads : Deliver(r, p)) \/ reserveOnce(r)
  PROVE  AllHandled'
<1>1. UNCHANGED <<jobs, run, calls, cases, broken, expired>>
  BY DEF Deliver, reserveOnce
<1>2. ASSUME NEW t \in Texts PROVE TextOk(t)'
  <2>1. TextOk(t) /\ JobsOf(t)' = JobsOf(t) /\ Found(t)' = Found(t)
    BY <1>1, SameFound DEF AllHandled, JobsOf, cases
  <2> QED
    BY <1>1, <2>1, TextStays DEF IInv, cases
<1> QED
  BY <1>1, <1>2 DEF AllHandled

LEMMA HandledAdd ==
  ASSUME IInv, AllHandled, NEW r \in Requests, addJob(r)
  PROVE  AllHandled'
<1>1. PICK x \in Texts : x = TextOf(r) /\ x \in Delivered /\ r \in Adders(x)
  BY Flying DEF addJob, IInv, Adders
<1>2. JobsOf(x) = {} /\ x \notin Direct /\ x \notin calls
  BY <1>1, OneJob, TextTypes DEF IInv, AllHandled, TypeOK
<1>3. /\ UNCHANGED <<run, calls, cases, broken, expired>> /\ jobs' = Append(jobs, Arrived(x))
  BY <1>1 DEF addJob
<1>4. /\ Len(jobs') = Len(jobs) + 1 /\ jobs'[Len(jobs) + 1] = Arrived(x)
      /\ \A i \in 1..Len(jobs) : jobs'[i] = jobs[i]
      /\ Arrived(x).text = x /\ Arrived(x).state = "waiting" /\ Len(jobs) \in Nat
      /\ \A t \in Texts \ {x} : JobsOf(t)' = JobsOf(t)
  BY <1>1, <1>3, Appended, ArrivedType, Numbers DEF IInv
<1>5. ASSUME NEW t \in Texts \ {x} PROVE TextOk(t)'
  <2>1. TextOk(t) /\ JobsOf(t)' = JobsOf(t) /\ Found(t)' = Found(t)
    BY <1>3, <1>4, SameFound DEF AllHandled, cases
  <2>2. \A i \in JobsOf(t) : jobs'[i] = jobs[i]
    BY <1>4 DEF JobsOf
  <2> QED
    BY <1>3, <2>1, <2>2, TextStays DEF IInv, cases
<1>6. TextOk(x)'
  <2>1. Untouched(x)'
    BY <1>1, <1>2, <1>3 DEF AllHandled, TextOk, Untouched, cases
  <2>2. \A w \in Workers : run'[w].text # x
    BY <1>2, <1>3, SlotJob DEF IInv
  <2>3. PICK n : n = Len(jobs) + 1 /\ JobsOf(x)' = {n}
    <3>1. JobsOf(x)' = {Len(jobs) + 1}
      BY <1>2, <1>4 DEF JobsOf
    <3> QED
      BY <3>1
  <2>4. JobDone(x, n)'
    BY <1>4, <2>1, <2>3 DEF JobDone, Ended
  <2> QED
    BY <1>2, <1>3, <2>1, <2>2, <2>3, <2>4 DEF TextOk
<1> QED
  BY <1>3, <1>5, <1>6 DEF AllHandled

LEMMA HandledClose ==
  ASSUME IInv, AllHandled, NEW c \in Contacts, closeIfZero(c)
  PROVE  AllHandled'
<1>1. /\ UNCHANGED <<jobs, run, calls, heard, dnc, ptps, replies, broken, expired>>
      /\ status' = [status EXCEPT ![c] = "PAID"]
  BY DEF closeIfZero, hookVars
<1>2. ASSUME NEW t \in Texts PROVE TextOk(t)'
  <2>1. TextOk(t) /\ JobsOf(t)' = JobsOf(t)
    BY <1>1 DEF AllHandled, JobsOf
  <2>2. Found(t)' \subseteq Found(t)
    BY <1>1 DEF Found, IInv, TypeOK
  <2> QED
    BY <1>1, <2>1, <2>2, TextStays DEF IInv
<1> QED
  BY <1>1, <1>2 DEF AllHandled

LEMMA HandledTake ==
  ASSUME IInv, AllHandled, NEW w \in Workers, NEW i \in 1..Len(jobs), Take(w, i)
  PROVE  AllHandled'
<1>1. PICK x \in Texts : x = jobs[i].text /\ x \in Delivered /\ x \notin Direct
  BY JobKnown DEF IInv
<1>2. /\ Taken(jobs[i], w) \in Job /\ Taken(jobs[i], w).text = x
      /\ Taken(jobs[i], w).state = "active" /\ Taken(jobs[i], w).by = w
      /\ i # 0 /\ i \in Nat /\ i \in JobsOf(x)
  <2>1. jobs[i] \in Job /\ i # 0 /\ i \in Nat
    BY JobKnown DEF IInv
  <2> QED
    BY <1>1, <2>1, JobTypes DEF Taken, Job, JobsOf
<1>3. /\ UNCHANGED <<hookVars, calls, cases>>
      /\ jobs[i].state = "waiting" /\ run[w].pc = "idle"
      /\ jobs' = [jobs EXCEPT ![i] = Taken(jobs[i], w)]
      /\ run' = [run EXCEPT ![w] = handle(x, i)]
  BY <1>1 DEF Take
<1>4. /\ jobs'[i] = Taken(jobs[i], w) /\ \A k \in 1..Len(jobs) : k # i => jobs'[k] = jobs[k]
      /\ \A t \in Texts : JobsOf(t)' = JobsOf(t)
  BY <1>1, <1>2, <1>3, JobMoves DEF IInv
<1>5. /\ run'[w] = handle(x, i) /\ \A v \in Workers : v # w => run'[v] = run[v]
      /\ handle(x, i).text = x /\ handle(x, i).job = i /\ handle(x, i).pc = "find"
  <2>1. handle(x, i).pc = "find"
    BY <1>1 DEF handle, NoRun
  <2> QED
    BY <1>2, <1>3, <2>1, handleTypes DEF IInv, TypeOK
<1>6. /\ Untouched(x) /\ \A v \in Workers : run[v].text # x
  <2>1. JobDone(x, i)
    BY <1>2 DEF AllHandled, TextOk
  <2> QED
    BY <1>2, <1>3, <2>1, OneSlot DEF JobDone
<1>7. ASSUME NEW t \in Texts \ {x} PROVE TextOk(t)'
  <2>1. TextOk(t) /\ JobsOf(t)' = JobsOf(t) /\ Found(t)' = Found(t)
    BY <1>3, <1>4, SameFound DEF AllHandled, cases
  <2>2. \A k \in JobsOf(t) : jobs'[k] = jobs[k]
    BY <1>1, <1>4 DEF JobsOf
  <2>3. run[w].text # t
    BY <1>3, SlotJob DEF IInv
  <2> QED
    BY <1>3, <1>5, <2>1, <2>2, <2>3, TextStays DEF IInv, cases
<1>8. TextOk(x)'
  <2>1. JobsOf(x)' = {i} /\ x \notin calls'
    <3>1. x \notin calls /\ expired = {}
      BY <1>1 DEF IInv, TypeOK, AllHandled
    <3>2. \A k \in JobsOf(x) : k = i
      BY <1>1, <1>2, <3>1, OneJob DEF IInv
    <3>3. JobsOf(x) = {i}
      BY <1>2, <3>2
    <3> QED
      BY <1>3, <1>4, <3>1, <3>3
  <2>2. JobDone(x, i)'
    BY <1>2, <1>4, <1>5 DEF JobDone, Ended
  <2>3. SlotDoes(x, w)'
    BY <1>2, <1>3, <1>4, <1>5, <1>6 DEF SlotDoes, Doing, Untouched, cases
  <2>4. \A v \in Workers : run'[v].text = x => v = w
    BY <1>5, <1>6
  <2> QED
    BY <1>1, <1>5, <2>1, <2>2, <2>3, <2>4 DEF TextOk
<1> QED
  BY <1>3, <1>7, <1>8 DEF AllHandled, hookVars

LEMMA HandledCall ==
  ASSUME IInv, AllHandled, OwnCases, NEW w \in Workers, NEW x \in Direct, webhook(w, x)
  PROVE  AllHandled'
<1>1. x \in Texts /\ x \notin Delivered /\ x \notin calls /\ \A v \in Workers : run[v].text # x
  BY TextTypes DEF webhook
<1>2. /\ UNCHANGED <<hookVars, jobs, calls, cases>> /\ run[w].pc = "idle"
      /\ run' = [run EXCEPT ![w] = handle(x, 0)]
  BY DEF webhook
<1>3. /\ run'[w] = handle(x, 0) /\ \A v \in Workers : v # w => run'[v] = run[v]
      /\ handle(x, 0).text = x /\ handle(x, 0).job = 0
      /\ handle(x, 0).pc \in {"find", "mark"}
      /\ handle(x, 0).pc = "mark" => CallCase[x] # None /\ handle(x, 0).kase = CallCase[x]
  <2>1. handle(x, 0).pc = "mark" => CallCase[x] # None /\ handle(x, 0).kase = CallCase[x]
    BY DEF handle, NoRun
  <2> QED
    BY <1>1, <1>2, <2>1, handleTypes DEF IInv, TypeOK
<1>4. Untouched(x) /\ JobsOf(x) = {}
  BY <1>1, JobKnown DEF AllHandled, TextOk, JobsOf, IInv
<1>5. ASSUME NEW t \in Texts \ {x} PROVE TextOk(t)'
  <2>1. TextOk(t) /\ JobsOf(t)' = JobsOf(t) /\ Found(t)' = Found(t)
    BY <1>2, SameFound DEF AllHandled, JobsOf, cases
  <2>2. run[w].text # t
    BY <1>2, SlotJob DEF IInv
  <2> QED
    BY <1>2, <1>3, <2>1, <2>2, TextStays DEF IInv, cases
<1>6. TextOk(x)'
  <2>1. CallCase[x] # None => Found(x)' \subseteq {CallCase[x]}
    <3>1. CallCase[x] # None => CallCase[x] \in Contacts
      BY TextsAssumption
    <3> QED
      BY <1>2, <3>1, SameFound, OneOwner DEF OwnCases, cases
  <2>2. Doing(x, w)'
    BY <1>2, <1>3, <1>4, <2>1 DEF Doing, Untouched, cases
  <2>3. JobsOf(x)' = {}
    BY <1>2, <1>4 DEF JobsOf
  <2> QED
    BY <1>1, <1>2, <1>3, <2>2, <2>3 DEF TextOk, SlotDoes
<1> QED
  BY <1>2, <1>5, <1>6 DEF AllHandled, hookVars
-----------------------------------------------------------------------------
(* The handling itself. *)

\* A step of a slot that goes on with its text.
LEMMA HandledMove ==
  ASSUME IInv, AllHandled, NEW w \in Workers, NEW x \in Texts, x = run[w].text,
         run'[w].text = x, run'[w].job = run[w].job,
         \A v \in Workers : v # w => run'[v] = run[v],
         UNCHANGED <<hookVars, jobs, calls, status>>,
         heard \subseteq heard', dnc \subseteq dnc',
         \A t \in Texts : t # x => ptps'[t] = ptps[t] /\ replies'[t] = replies[t],
         Doing(x, w)'
  PROVE  AllHandled'
<1>1. \A t \in Texts : JobsOf(t)' = JobsOf(t) /\ Found(t)' = Found(t)
  BY SameFound DEF JobsOf
<1>2. ASSUME NEW t \in Texts \ {x} PROVE TextOk(t)'
  <2>1. TextOk(t)
    BY DEF AllHandled
  <2> QED
    BY <1>1, <2>1, TextStays DEF IInv
<1>3. TextOk(x)'
  <2>1. /\ \A v \in Workers : run[v].text = x => v = w
        /\ x \notin calls /\ (x \in Delivered => JobsOf(x) # {})
        /\ \A i \in JobsOf(x) : /\ i = run[w].job /\ i # 0
                                /\ jobs[i].state = "active" /\ jobs[i].by = w
    BY OneSlot
  <2>2. \A i \in JobsOf(x) : JobDone(x, i)'
    BY <2>1 DEF JobDone, Ended
  <2>3. SlotDoes(x, w)'
    <3>1. SlotDoes(x, w)
      BY DEF AllHandled, TextOk
    <3> QED
      BY <3>1 DEF SlotDoes
  <2>4. \A v \in Workers : run'[v].text = x => v = w
    BY <2>1
  <2> QED
    BY <1>1, <2>1, <2>2, <2>3, <2>4 DEF TextOk
<1> QED
  BY <1>2, <1>3 DEF AllHandled, hookVars

\* The classification of a text tells its words.
LEMMA Classified ==
  ASSUME NEW t
  PROVE  /\ Intent(t) = "BAJA" <=> "baja" \in extractText(t)
         /\ Intent(t) # "PTP" => Wanted(t) = 0
  BY DEF Intent, classify, Wanted

\* What the slot has done of its text.
LEMMA Does ==
  ASSUME IInv, AllHandled, NEW w \in Workers, run[w].pc # "idle"
  PROVE  /\ run[w].text \in Texts /\ Doing(run[w].text, w)
         /\ run[w].pc = "dnc" => Intent(run[w].text) = "BAJA"
<1>1. run[w].text \in Texts
  BY RunTexts DEF IInv
<1> QED
  BY <1>1 DEF AllHandled, TextOk, SlotDoes, IInv, Handling, RunOk

LEMMA HandledFind ==
  ASSUME IInv, AllHandled, NEW w \in Workers, findOpenCaseIdByAddress(w)
  PROVE  AllHandled'
<1>1. PICK x \in Texts : x = run[w].text /\ Doing(x, w)
  BY Does DEF findOpenCaseIdByAddress
<1>2. UNCHANGED <<hookVars, jobs, calls, cases>> /\ run[w].pc = "find"
  BY DEF findOpenCaseIdByAddress
<1>3. ptps[x] = 0 /\ replies[x] = 0 /\ Found(x)' = Found(x)
  BY <1>1, <1>2, SameFound DEF Doing, BeforePtp, BeforeReply, cases
<1>4. /\ run'[w].text = x /\ run'[w].job = run[w].job
      /\ \A v \in Workers : v # w => run'[v] = run[v]
      /\ \/ run'[w].pc = "mark" /\ run'[w].kase \in Found(x)
         \/ run'[w].pc = "done" /\ Found(x) = {}
  <2>1. CASE \E c \in Found(x) : run' = [run EXCEPT ![w].pc = "mark", ![w].kase = c]
    BY <1>1, <2>1, FindTypes DEF Found, IInv
  <2>2. CASE Found(x) = {} /\ Goto(w, "done")
    BY <1>1, <2>2, GotoTypes DEF IInv, Pc
  <2> QED
    BY <1>1, <2>1, <2>2 DEF findOpenCaseIdByAddress
<1>5. Doing(x, w)'
  <2>1. CASE run'[w].pc = "mark" /\ run'[w].kase \in Found(x)
    <3>1. Found(x) \subseteq {run'[w].kase}
      BY <2>1, OneOwner DEF Found
    <3> QED
      BY <1>2, <1>3, <2>1, <3>1 DEF Doing, cases
  <2>2. CASE run'[w].pc = "done" /\ Found(x) = {}
    BY <1>2, <1>3, <2>2 DEF Doing, Handled, BeforePtp, BeforeReply
  <2> QED
    BY <1>4, <2>1, <2>2
<1> QED
  BY <1>1, <1>2, <1>4, <1>5, HandledMove DEF cases

LEMMA HandledMark ==
  ASSUME IInv, AllHandled, NEW w \in Workers, markInbound(w)
  PROVE  AllHandled'
<1>1. PICK x \in Texts : x = run[w].text /\ Doing(x, w)
  BY Does DEF markInbound
<1>2. /\ UNCHANGED <<hookVars, jobs, calls, status, dnc, ptps, replies>> /\ run[w].pc = "mark"
      /\ heard' = heard \cup {run[w].kase}
  BY DEF markInbound
<1>3. /\ run'[w].text = x /\ run'[w].job = run[w].job /\ run'[w].kase = run[w].kase
      /\ \A v \in Workers : v # w => run'[v] = run[v]
      /\ run'[w].pc = EffectOf(x) /\ EffectOf(x) \in {"dnc", "ptp", "lookup"}
  BY <1>1, EffectPc, GotoTypes DEF markInbound, IInv, Pc
<1>4. /\ ptps[x] = 0 /\ replies[x] = 0 /\ Found(x)' = Found(x) /\ Found(x) \subseteq {run[w].kase}
  BY <1>1, <1>2, SameFound DEF Doing, BeforePtp, BeforeReply
<1>5. Found(x) \subseteq heard'
  BY <1>2, <1>4
<1>6. EffectOf(x) = "ptp" => Intent(x) = "PTP"
  BY DEF EffectOf
<1>7. EffectOf(x) = "lookup" => Intent(x) # "PTP" /\ "baja" \notin extractText(x) /\ Wanted(x) = 0
  BY Classified DEF EffectOf
<1>8. Doing(x, w)'
  BY <1>2, <1>3, <1>4, <1>5, <1>6, <1>7
     DEF Doing, Silenced, Wanted, IsWhole, Intent
<1> QED
  BY <1>1, <1>2, <1>3, <1>8, HandledMove

LEMMA HandledDnc ==
  ASSUME IInv, AllHandled, NEW w \in Workers, markDnc(w)
  PROVE  AllHandled'
<1>1. PICK x \in Texts : x = run[w].text /\ Doing(x, w) /\ (run[w].pc = "dnc" => Intent(x) = "BAJA")
  BY Does DEF markDnc
<1>2. /\ UNCHANGED <<hookVars, jobs, calls, status, heard, ptps, replies>> /\ run[w].pc = "dnc"
      /\ dnc' = dnc \cup OptsOut(x)
  BY <1>1 DEF markDnc
<1>3. /\ run'[w].text = x /\ run'[w].job = run[w].job /\ run'[w].kase = run[w].kase
      /\ \A v \in Workers : v # w => run'[v] = run[v] /\ run'[w].pc = "lookup"
      /\ run'[w].pc = "lookup"
  BY <1>1, GotoTypes DEF markDnc, IInv, Pc
<1>4. /\ ptps[x] = 0 /\ replies[x] = 0 /\ Found(x)' = Found(x)
      /\ Found(x) \subseteq {run[w].kase} /\ Found(x) \subseteq heard
  BY <1>1, <1>2, SameFound DEF Doing, BeforePtp, BeforeReply
<1>5. Found(x) \cap Verbatim \subseteq dnc'
  BY <1>2 DEF Found, OptsOut
<1>6. Intent(x) # "PTP" /\ Wanted(x) = 0
  BY <1>1, <1>2, Classified
<1>7. Doing(x, w)'
  BY <1>2, <1>3, <1>4, <1>5, <1>6 DEF Doing, Silenced, Wanted, IsWhole, Intent
<1> QED
  BY <1>1, <1>2, <1>3, <1>7, HandledMove

LEMMA HandledPtp ==
  ASSUME IInv, AllHandled, NEW w \in Workers, createPtp(w)
  PROVE  AllHandled'
<1>1. PICK x \in Texts : x = run[w].text /\ Doing(x, w)
  BY Does DEF createPtp
<1>2. /\ UNCHANGED <<hookVars, jobs, calls, status, heard, dnc, replies>> /\ run[w].pc = "ptp"
  BY DEF createPtp
<1>3. /\ ptps[x] = 0 /\ replies[x] = 0 /\ Found(x)' = Found(x)
      /\ Found(x) \subseteq {run[w].kase} /\ Found(x) \subseteq heard /\ Intent(x) = "PTP"
      /\ "baja" \notin extractText(x)
  BY <1>1, <1>2, SameFound, Classified DEF Doing, BeforePtp, BeforeReply
<1>4. CASE IsWhole(x) /\ insertPtp(x) /\ Goto(w, "lookup")
  <2>1. /\ run'[w].text = x /\ run'[w].job = run[w].job /\ run'[w].kase = run[w].kase
        /\ \A v \in Workers : v # w => run'[v] = run[v]
        /\ run'[w].pc = "lookup"
    BY <1>1, <1>4, GotoTypes DEF IInv, Pc
  <2>2. ptps'[x] = 1 /\ \A t \in Texts : t # x => ptps'[t] = ptps[t]
    BY <1>3, <1>4 DEF insertPtp, IInv, TypeOK
  <2>3. Wanted(x) = 1
    BY <1>3, <1>4 DEF Wanted
  <2>4. Doing(x, w)'
    BY <1>2, <1>3, <1>4, <2>1, <2>2, <2>3
       DEF Doing, Silenced, Wanted, IsWhole, Intent, BeforePtp, BeforeReply
  <2> QED
    BY <1>1, <1>2, <2>1, <2>2, <2>4, HandledMove
<1>5. CASE ~ IsWhole(x) /\ ptps' = ptps /\ Goto(w, "throw")
  <2>1. /\ run'[w].text = x /\ run'[w].job = run[w].job /\ run'[w].kase = run[w].kase
        /\ \A v \in Workers : v # w => run'[v] = run[v]
        /\ run'[w].pc = "throw"
    BY <1>1, <1>5, GotoTypes DEF IInv, Pc
  <2>2. Doing(x, w)'
    BY <1>2, <1>3, <1>5, <2>1 DEF Doing, IsWhole, Intent
  <2> QED
    BY <1>1, <1>2, <1>5, <2>1, <2>2, HandledMove
<1> QED
  BY <1>1, <1>4, <1>5 DEF createPtp

LEMMA HandledLookup ==
  ASSUME IInv, AllHandled, NEW w \in Workers, replyLookup(w)
  PROVE  AllHandled'
<1>1. PICK x \in Texts : x = run[w].text /\ Doing(x, w)
  BY Does DEF replyLookup
<1>2. UNCHANGED <<hookVars, jobs, calls, cases>> /\ run[w].pc = "lookup"
  BY DEF replyLookup
<1>3. /\ run'[w].text = x /\ run'[w].job = run[w].job /\ run'[w].kase = run[w].kase
      /\ \A v \in Workers : v # w => run'[v] = run[v]
      /\ run'[w].pc = IF run[w].kase \in Reachable THEN "queue" ELSE "done"
  BY <1>1, GotoTypes DEF replyLookup, IInv, Pc
<1>4. /\ ptps[x] = Wanted(x) /\ replies[x] = 0 /\ Found(x)' = Found(x)
      /\ Found(x) \subseteq {run[w].kase} /\ Found(x) \subseteq heard
      /\ (Intent(x) = "PTP" => IsWhole(x)) /\ Silenced(x)
  BY <1>1, <1>2, SameFound DEF Doing, BeforeReply, cases
<1>5. UNCHANGED <<ptps, replies, heard, dnc>>
  BY <1>2 DEF cases
<1>6. Doing(x, w)'
  <2>1. CASE run[w].kase \in Reachable
    BY <1>3, <1>4, <1>5, <2>1 DEF Doing, Silenced, Wanted, IsWhole, Intent, BeforePtp
  <2>2. CASE run[w].kase \notin Reachable
    <3>1. Handled(x)'
      BY <1>4, <1>5, <2>2 DEF Handled, Silenced, Wanted, IsWhole, Intent
    <3> QED
      BY <1>3, <2>2, <3>1 DEF Doing, BeforePtp, BeforeReply
  <2> QED
    BY <2>1, <2>2
<1> QED
  BY <1>1, <1>2, <1>3, <1>6, HandledMove DEF cases

LEMMA HandledReply ==
  ASSUME IInv, AllHandled, NEW w \in Workers, reply(w)
  PROVE  AllHandled'
<1>1. PICK x \in Texts : x = run[w].text /\ Doing(x, w)
  BY Does DEF reply
<1>2. UNCHANGED <<hookVars, jobs, calls, status, heard, dnc, ptps>> /\ run[w].pc = "queue"
  BY DEF reply
<1>3. /\ run'[w].text = x /\ run'[w].job = run[w].job
      /\ \A v \in Workers : v # w => run'[v] = run[v] /\ run'[w].pc = "done"
      /\ run'[w].pc = "done"
  BY <1>1, GotoTypes DEF reply, IInv, Pc
<1>4. /\ ptps[x] = Wanted(x) /\ replies[x] = 0 /\ Found(x)' = Found(x)
      /\ Found(x) \subseteq {run[w].kase} /\ Found(x) \subseteq heard
      /\ (Intent(x) = "PTP" => IsWhole(x)) /\ Silenced(x) /\ run[w].kase \in Reachable
  BY <1>1, <1>2, SameFound DEF Doing, BeforeReply
<1>5. replies'[x] = 1 /\ \A t \in Texts : t # x => replies'[t] = replies[t]
  BY <1>1, <1>4 DEF reply, replyJob, IInv, TypeOK
<1>6. Doing(x, w)'
  <2>1. Handled(x)'
    BY <1>2, <1>4, <1>5 DEF Handled, Silenced, Wanted, IsWhole, Intent
  <2> QED
    BY <1>3, <2>1 DEF Doing, BeforePtp, BeforeReply
<1> QED
  BY <1>1, <1>2, <1>3, <1>5, <1>6, HandledMove

\* The processor returns or throws.
LEMMA HandledFinish ==
  ASSUME IInv, AllHandled, NEW w \in Workers, Return(w) \/ Throw(w)
  PROVE  AllHandled'
<1>1. PICK x \in Texts : x = run[w].text /\ Doing(x, w)
  BY Does DEF Return, Throw
<1>2. /\ UNCHANGED <<hookVars, cases>> /\ run' = [run EXCEPT ![w] = NoRun]
      /\ run'[w] = NoRun /\ \A v \in Workers : v # w => run'[v] = run[v]
  BY DEF Return, Throw, Finish, IInv, TypeOK
<1>3. \A t \in Texts : run'[w].text # t
  BY <1>2, NoneTypes, NoneAssumption
<1>4. /\ \A v \in Workers : run[v].text = x => v = w
      /\ x \notin calls /\ (x \in Delivered => JobsOf(x) # {})
      /\ \A i \in JobsOf(x) : /\ i = run[w].job /\ i # 0
                              /\ jobs[i].state = "active" /\ jobs[i].by = w
  BY <1>1, OneSlot
<1>5. \A v \in Workers : run'[v].text # x
  BY <1>2, <1>3, <1>4
<1>6. \A t \in Texts : Found(t)' = Found(t)
  BY <1>2, SameFound DEF cases
<1>7. Throw(w) => Untouched(x) /\ Handled(x)
  <2>1. SUFFICES ASSUME Throw(w) PROVE Untouched(x) /\ Handled(x)
    OBVIOUS
  <2>2. /\ ptps[x] = 0 /\ replies[x] = 0 /\ Found(x) \subseteq heard
        /\ Intent(x) = "PTP" /\ ~ IsWhole(x)
    BY <1>1, <2>1 DEF Throw, Doing, BeforePtp, BeforeReply
  <2>3. "baja" \notin extractText(x)
    BY <2>2, Classified
  <2> QED
    BY <2>2, <2>3 DEF Untouched, Handled, Wanted
<1>8. Return(w) => Handled(x)
  BY <1>1 DEF Return, Doing
<1>9. Handled(x)' /\ (Throw(w) => Untouched(x)')
  BY <1>2, <1>6, <1>7, <1>8, HandledStays DEF cases, Untouched
<1>10. ASSUME NEW t \in Texts \ {x}, t \in calls' <=> t \in calls, JobsOf(t)' = JobsOf(t),
              \A i \in JobsOf(t) : jobs'[i] = jobs[i]
       PROVE  TextOk(t)'
  <2>1. TextOk(t)
    BY DEF AllHandled
  <2> QED
    BY <1>1, <1>2, <1>3, <1>6, <1>10, <2>1, TextStays DEF IInv, cases
<1>11. CASE run[w].job = 0
  <2>1. x \in Direct /\ JobsOf(x) = {} /\ jobs' = jobs
    BY <1>1, <1>11, SlotJob DEF IInv, Return, Throw, Finish
  <2>2. calls' = IF Return(w) THEN calls \cup {x} ELSE calls
    <3>1. ~ (Return(w) /\ Throw(w))
      BY DEF Return, Throw
    <3> QED
      BY <1>1, <1>11, <3>1 DEF Return, Throw, Finish
  <2>3. \A t \in Texts : JobsOf(t)' = JobsOf(t)
    BY <2>1 DEF JobsOf
  <2>4. TextOk(x)'
    BY <1>5, <1>9, <2>1, <2>2, <2>3, TextTypes DEF TextOk
  <2> QED
    BY <1>2, <1>10, <2>1, <2>2, <2>3, <2>4 DEF AllHandled, hookVars
<1>12. CASE run[w].job # 0
  <2>1. PICK i \in 1..Len(jobs) : i = run[w].job /\ i \in JobsOf(x) /\ x \in Delivered
    BY <1>1, <1>12, SlotJob DEF IInv, JobsOf
  <2>2. jobs[i] \in Job /\ jobs[i].text = x /\ JobOf(w) = jobs[i] /\ jobs[i].by = w
    BY <1>4, <1>12, <2>1, JobKnown DEF IInv, JobOf, JobsOf
  <2>3. PICK q \in Job : /\ q.text = x /\ jobs' = [jobs EXCEPT ![i] = q]
                         /\ q.state # "active"
                         /\ Return(w) => Ended(q)
    <3>1. CASE Return(w)
      <4>1. jobs' = [jobs EXCEPT ![i] = Completed(jobs[i])]
        BY <1>12, <2>1, <2>2, <3>1 DEF Return, Finish, Settled
      <4>2. /\ Completed(jobs[i]) \in Job /\ Completed(jobs[i]).text = x
            /\ Completed(jobs[i]).state = "completed"
        BY <2>2, JobTypes DEF Completed, Job
      <4> QED
        BY <4>1, <4>2 DEF Ended
    <3>2. CASE Throw(w)
      <4>1. jobs' = [jobs EXCEPT ![i] = Retried(jobs[i], Attempts)]
        BY <1>12, <2>1, <2>2, <3>2 DEF Throw, Finish, Settled
      <4>2. /\ Retried(jobs[i], Attempts) \in Job /\ Retried(jobs[i], Attempts).text = x
            /\ Retried(jobs[i], Attempts).state # "active"
        BY ZenonT(30), <2>2, JobTypes DEF Retried, Job
      <4>3. ~ Return(w)
        BY <3>2 DEF Return, Throw
      <4> QED
        BY <4>1, <4>2, <4>3
    <3> QED
      BY <3>1, <3>2
  <2>4. /\ jobs'[i] = q /\ \A k \in 1..Len(jobs) : k # i => jobs'[k] = jobs[k]
        /\ \A t \in Texts : JobsOf(t)' = JobsOf(t)
    BY <2>2, <2>3, JobMoves DEF IInv
  <2>5. calls' = calls
    BY <1>12 DEF Return, Throw, Finish
  <2>6. \A t \in Texts \ {x} : \A k \in JobsOf(t) : jobs'[k] = jobs[k]
    BY <2>2, <2>4 DEF JobsOf
  <2>7. TextOk(x)'
    <3>1. \A k \in JobsOf(x) : k = i
      BY <1>4, <2>1
    <3>2. JobDone(x, i)'
      <4>1. q.state = "waiting" => Throw(w)
        BY <2>3 DEF Ended
      <4> QED
        BY <1>9, <2>3, <2>4, <4>1 DEF JobDone
    <3>3. x \notin calls' /\ JobsOf(x)' # {}
      BY <1>4, <2>1, <2>4, <2>5
    <3>4. x \notin Direct
      BY <2>1, TextTypes
    <3> QED
      BY <1>5, <2>4, <3>1, <3>2, <3>3, <3>4 DEF TextOk
  <2> QED
    BY <1>2, <1>10, <2>4, <2>5, <2>6, <2>7 DEF AllHandled, hookVars
<1> QED
  BY <1>11, <1>12
-----------------------------------------------------------------------------
(* Every step. *)

LEMMA FaultCounted ==
  ASSUME [Next]_vars, ~ Fault
  PROVE  UNCHANGED faults
<1>1. CASE UNCHANGED vars
  BY <1>1 DEF vars
<1>2. ASSUME NEW r \in Requests, Continue(r) \/ RequestFails(r) \/ \E p \in Payloads : Deliver(r, p)
      PROVE  UNCHANGED faults
  BY <1>2 DEF Continue, reserveOnce, addJob, RequestFails, Deliver
<1>3. ASSUME NEW w \in Workers, Work(w) \/ createPtpLost(w) \/ replyFails(w) \/ StepFails(w)
      PROVE  UNCHANGED faults
  BY <1>3 DEF Work, findOpenCaseIdByAddress, markInbound, markDnc, createPtp, replyLookup, reply,
              Return, Throw, Finish, createPtpLost, replyFails, StepFails
<1>4. ASSUME NEW w \in Workers,
             \/ \E i \in 1..Len(jobs) : Take(w, i)
             \/ \E t \in Direct : webhook(w, t)
      PROVE  UNCHANGED faults
  BY <1>4 DEF Take, webhook
<1>5. ASSUME \/ \E i \in 1..Len(jobs) : StalledFound(i) \/ LockLost(i)
             \/ \E c \in Contacts : closeIfZero(c)
             \/ \E t \in Delivered : KeyExpires(t)
             \/ Restart
      PROVE  UNCHANGED faults
  BY <1>5 DEF StalledFound, LockLost, closeIfZero, KeyExpires, Restart
<1> QED
  BY <1>1, <1>2, <1>3, <1>4, <1>5 DEF Next

LEMMA HandledStep ==
  ASSUME IInv, AllHandled, OwnCases, [Next]_vars, ~ Fault
  PROVE  AllHandled'
<1>1. CASE UNCHANGED vars
  <2>1. UNCHANGED <<jobs, run, calls, cases, broken, expired>>
    BY <1>1 DEF vars, hookVars
  <2>2. ASSUME NEW t \in Texts PROVE TextOk(t)'
    <3>1. TextOk(t) /\ JobsOf(t)' = JobsOf(t) /\ Found(t)' = Found(t)
      BY <2>1, SameFound DEF AllHandled, JobsOf, cases
    <3> QED
      BY <2>1, <3>1, TextStays DEF IInv, cases
  <2> QED
    BY <2>1, <2>2 DEF AllHandled
<1>2. ASSUME NEW r \in Requests, Continue(r) \/ RequestFails(r) \/ \E p \in Payloads : Deliver(r, p)
      PROVE  AllHandled'
  <2>1. ~ RequestFails(r)
    BY DEF RequestFails
  <2> QED
    BY <1>2, <2>1, HandledHooks, HandledAdd DEF Continue
<1>3. ASSUME NEW w \in Workers, Work(w) \/ createPtpLost(w) \/ replyFails(w) \/ StepFails(w)
      PROVE  AllHandled'
  <2>1. ~ createPtpLost(w) /\ ~ replyFails(w) /\ ~ StepFails(w)
    BY DEF createPtpLost, replyFails, StepFails
  <2> QED
    BY <1>3, <2>1, HandledFind, HandledMark, HandledDnc, HandledPtp, HandledLookup, HandledReply,
       HandledFinish DEF Work
<1>4. ASSUME NEW w \in Workers,
             \/ \E i \in 1..Len(jobs) : Take(w, i)
             \/ \E t \in Direct : webhook(w, t)
      PROVE  AllHandled'
  BY <1>4, HandledTake, HandledCall
<1>5. ASSUME NEW i \in 1..Len(jobs) PROVE ~ StalledFound(i) /\ ~ LockLost(i)
  <2>1. ~ LockLost(i)
    BY DEF LockLost
  <2>2. JobDone(jobs[i].text, i)
    BY JobKnown DEF IInv, AllHandled, TextOk, JobsOf
  <2> QED
    BY <2>1, <2>2 DEF JobDone, StalledFound, Orphan
<1>6. ~ Restart /\ \A t \in Delivered : ~ KeyExpires(t)
  BY DEF Restart, KeyExpires
<1> QED
  BY <1>1, <1>2, <1>3, <1>4, <1>5, <1>6, HandledClose DEF Next

LEMMA HandledAtRest ==
  ASSUME IInv, AllHandled
  PROVE  RestingIsHandled
<1> SUFFICES ASSUME Resting, NEW t \in Texts, NEW c \in Contacts, Answered(t), c \in Found(t)
             PROVE  /\ c \in heard
                    /\ "baja" \in extractText(t) /\ c \in Verbatim => c \in dnc
                    /\ ptps[t] = IF Intent(t) = "PTP" /\ IsWhole(t) THEN 1 ELSE 0
                    /\ replies[t] = IF c \in Reachable /\ (Intent(t) = "PTP" => IsWhole(t))
                                    THEN 1 ELSE 0
  BY DEF RestingIsHandled
<1>1. Handled(t)
  <2>1. CASE t \in calls
    BY <2>1 DEF AllHandled, TextOk
  <2>2. CASE t \notin calls
    <3>1. Kept(t)
      BY <2>2 DEF Answered, IInv, Hooks
    <3>2. Adders(t) = {} /\ broken = {}
      BY DEF Resting, Adders, AllHandled
    <3>3. PICK i \in JobsOf(t) : TRUE
      BY <3>1, <3>2 DEF Kept
    <3> QED
      BY <3>3 DEF Resting, JobsOf, AllHandled, TextOk, JobDone
  <2> QED
    BY <2>1, <2>2
<1> QED
  BY <1>1 DEF Handled, Wanted

\* handle, while nothing fails and direct calls name the case of the contact that
\* writes: a text is handled once, and has its one effect and its one reply.
THEOREM RestIsHandled ==
  ASSUME OwnCases
  PROVE  Spec => []RestingIsHandled
<1> DEFINE Inv == faults = 0 => AllHandled
<1>1. Init => Inv
  <2> SUFFICES ASSUME Init PROVE AllHandled
    OBVIOUS
  <2>1. \A w \in Workers : run[w].text \notin Texts
    BY NoneTypes, NoneAssumption DEF Init
  <2>2. jobs = <<>> /\ broken = {} /\ expired = {} /\ calls = {}
        /\ \A t \in Texts : Untouched(t)
    BY DEF Init, Untouched
  <2>3. \A t \in Texts : JobsOf(t) = {}
    BY <2>2 DEF JobsOf
  <2> QED
    BY <2>1, <2>2, <2>3 DEF AllHandled, TextOk
<1>2. IInv /\ Inv /\ [Next]_vars => Inv'
  <2> SUFFICES ASSUME IInv, Inv, [Next]_vars, faults' = 0 PROVE AllHandled'
    OBVIOUS
  <2>1. faults \in Nat
    BY SlotsAssumption DEF IInv, TypeOK
  <2>2. ~ Fault
    BY <2>1 DEF Fault
  <2>3. faults = 0
    BY <2>2, FaultCounted
  <2> QED
    BY <2>2, <2>3, HandledStep
<1>3. IInv /\ Inv => RestingIsHandled
  BY HandledAtRest DEF RestingIsHandled
<1> QED
  BY <1>1, <1>2, <1>3, Invariance, PTL DEF Spec
=============================================================================
