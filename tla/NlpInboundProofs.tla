-------------------------- MODULE NlpInboundProofs --------------------------
(***************************************************************************)
(* Proofs about NlpInbound, for any texts, contacts and ids, any number of *)
(* slots and any number of faults.                                         *)
(***************************************************************************)
EXTENDS NlpInbound, FiniteSetTheorems, TLAPS

-----------------------------------------------------------------------------
(* The invariant: rows, and the effects that follow a row. *)

\* Where a slot has yet to file its text, or will try again; where it may still
\* insert the promise; where it may still answer.
Filing == {"dup", "out", "contact", "case", "insert", "orphan", "throw"}
Promising == {"mark", "ptp"}
Answering == {"mark", "dnc", "ptp", "lookup", "queue"}

Slots(t, S) == {w \in Workers : run[w].text = t /\ run[w].pc \in S}

\* A job that is still to be taken.
Room(t) == IF jobs[t].state \in {"none", "waiting"} THEN 1 ELSE 0

\* Each row has an attempt of its own, and each effect a row of its own.
CountOk(t) ==
    /\ (Len(rows[t]) + Room(t)) + Cardinality(Slots(t, Filing)) <= 1 + causes[t]
    /\ ptps[t] + Cardinality(Slots(t, Promising)) <= Len(rows[t])
    /\ answers[t] + Cardinality(Slots(t, Answering)) <= Len(rows[t])

IdOk(t) ==
    IdOf[t] # None /\ rows[t] # <<>> =>
        Len(rows[t]) = 1 /\ \A u \in Same(t) \ {t} : rows[u] = <<>>

\* The text has had its effect.
TookEffect(t) ==
    /\ Intent(t) = "PTP" => ptps[t] > 0
    /\ "baja" \in WordsOf[t] => \A c \in Contacts : PhoneOf[c] = FromOf[t] => c \in dnc

\* What is true of a text whose processor, or whose job, is done.
Over(t) ==
    /\ \E u \in Same(t) : rows[u] # <<>>
    /\ FiledUnder(t) = {} \/ causes[t] > 0 \/ TookEffect(t)

\* Without a failure or a stall a text has one slot, the one that holds its job.
Sole(t) ==
    causes[t] = 0 =>
        \A w \in Workers : run[w].text = t => jobs[t].state = "active" /\ jobs[t].by = w

TextOk(t) == CountOk(t) /\ IdOk(t) /\ Sole(t) /\ (jobs[t].state = "completed" => Over(t))

RunOk(w) ==
    LET t == run[w].text IN
    /\ run[w].pc = "idle" => run[w] = NoRun
    /\ run[w].pc # "idle" => t \in Texts
    /\ run[w].pc \in {"dup", "out", "contact", "orphan"} => run[w].kase = None
    /\ run[w].pc \in {"case", "insert"} \cup Answering => run[w].kase \in Contacts
    /\ run[w].pc \in Answering => FiledUnder(t) # {}
    /\ run[w].pc = "dnc" => Intent(t) = "BAJA"
    /\ run[w].pc = "ptp" => Intent(t) = "PTP"
    /\ run[w].pc \in {"lookup", "queue"} => TookEffect(t)
    /\ run[w].pc \in {"dnc", "ptp", "lookup"} => run[w].kase \in recent \/ t \in slow
    /\ run[w].pc = "queue" => t \in slow
    /\ run[w].pc = "done" => Over(t)
    /\ run[w].pc = "throw" => causes[t] > 0

DncOk ==
    \A c \in dnc : \E t \in Texts :
        "baja" \in WordsOf[t] /\ FromOf[t] = PhoneOf[c] /\ FiledUnder(t) # {}

IInv ==
    /\ TypeOK
    /\ \A w \in Workers : RunOk(w)
    /\ \A t \in Texts : TextOk(t)
    /\ DncOk /\ AnswerNeedsDelay
-----------------------------------------------------------------------------
(* Sets of slots. *)

LEMMA Sizes ==
  ASSUME NEW U, IsFiniteSet(U), NEW S \in SUBSET U
  PROVE  IsFiniteSet(S) /\ Cardinality(S) \in Nat
  BY FS_Subset, FS_CardinalityType

LEMMA OneMoved ==
  ASSUME NEW U, IsFiniteSet(U), NEW A \in SUBSET U, NEW B \in SUBSET U, NEW x \in U,
         \A y \in U : y # x => (y \in A <=> y \in B)
  PROVE  /\ Cardinality(A) \in Nat /\ Cardinality(B) \in Nat
         /\ Cardinality(B) + (IF x \in A THEN 1 ELSE 0)
                = Cardinality(A) + (IF x \in B THEN 1 ELSE 0)
<1>1. ASSUME NEW C \in SUBSET U
      PROVE  /\ IsFiniteSet(C) /\ Cardinality(C) \in Nat /\ Cardinality(C \ {x}) \in Nat
             /\ Cardinality(C) = Cardinality(C \ {x}) + (IF x \in C THEN 1 ELSE 0)
  <2>1. IsFiniteSet(C) /\ Cardinality(C) \in Nat
    BY Sizes
  <2>2. C \ {x} \in SUBSET U
    OBVIOUS
  <2>3. Cardinality(C \ {x}) \in Nat
    BY <2>2, Sizes
  <2>4. Cardinality(C \ {x}) = IF x \in C THEN Cardinality(C) - 1 ELSE Cardinality(C)
    BY <2>1, FS_RemoveElement
  <2> QED
    BY <2>1, <2>3, <2>4
<1>2. PICK k : k = Cardinality(A \ {x}) /\ k = Cardinality(B \ {x})
  <2>1. A \ {x} = B \ {x}
    OBVIOUS
  <2> QED
    BY <2>1
<1>3. PICK a, b : a = (IF x \in A THEN 1 ELSE 0) /\ b = (IF x \in B THEN 1 ELSE 0)
  OBVIOUS
<1>4. k \in Nat /\ Cardinality(A) = k + a /\ Cardinality(B) = k + b
  BY <1>1, <1>2, <1>3
<1>5. a \in Nat /\ b \in Nat
  BY <1>3
<1>6. Cardinality(A) \in Nat /\ Cardinality(B) \in Nat /\ Cardinality(B) + a = Cardinality(A) + b
  BY <1>4, <1>5
<1> QED
  BY <1>3, <1>6

LEMMA SlotsMove ==
  ASSUME NEW w \in Workers, \A v \in Workers : v # w => run'[v] = run[v],
         NEW t, NEW S
  PROVE  /\ Cardinality(Slots(t, S)) \in Nat /\ Cardinality(Slots(t, S)') \in Nat
         /\ Cardinality(Slots(t, S)') + (IF w \in Slots(t, S) THEN 1 ELSE 0)
                = Cardinality(Slots(t, S)) + (IF w \in Slots(t, S)' THEN 1 ELSE 0)
<1>1. PICK A \in SUBSET Workers, B \in SUBSET Workers : A = Slots(t, S) /\ B = Slots(t, S)'
  BY DEF Slots
<1>2. \A v \in Workers : v # w => (v \in A <=> v \in B)
  BY <1>1 DEF Slots
<1> QED
  BY <1>1, <1>2, OneMoved, WorkersAssumption

\* A bound on n and the slots in S is kept when slot w moves from one to the
\* other, or when what bounds them grows.
LEMMA Balance ==
  ASSUME NEW w \in Workers, \A v \in Workers : v # w => run'[v] = run[v],
         NEW t \in Texts, NEW S, NEW n \in Nat, NEW m \in Nat, NEW k \in Nat, NEW l \in Nat,
         n + Cardinality(Slots(t, S)) <= k,
         m + (IF w \in Slots(t, S)' THEN 1 ELSE 0) + k
             <= n + (IF w \in Slots(t, S) THEN 1 ELSE 0) + l
  PROVE  m + Cardinality(Slots(t, S)') <= l
<1>1. /\ Cardinality(Slots(t, S)) \in Nat /\ Cardinality(Slots(t, S)') \in Nat
      /\ Cardinality(Slots(t, S)') + (IF w \in Slots(t, S) THEN 1 ELSE 0)
             = Cardinality(Slots(t, S)) + (IF w \in Slots(t, S)' THEN 1 ELSE 0)
  BY SlotsMove
<1>2. PICK c \in Nat, d \in Nat : c = Cardinality(Slots(t, S)) /\ d = Cardinality(Slots(t, S)')
  BY <1>1
<1>3. PICK a \in Nat, b \in Nat : /\ a = (IF w \in Slots(t, S) THEN 1 ELSE 0)
                                  /\ b = (IF w \in Slots(t, S)' THEN 1 ELSE 0)
  OBVIOUS
<1>4. n + c <= k /\ m + b + k <= n + a + l /\ d + a = c + b
  BY <1>1, <1>2, <1>3
<1>5. m + d <= l
  BY <1>4
<1> QED
  BY <1>2, <1>5
-----------------------------------------------------------------------------
(* Types. *)

LEMMA RunTypes ==
  ASSUME TypeOK, NEW w \in Workers, RunOk(w), run[w].pc # "idle"
  PROVE  /\ run[w] \in Run /\ run[w].text \in Texts /\ run[w].kase \in Contacts \cup {None}
         /\ run[w].pc \in {"case", "insert"} \cup Answering => run[w].kase \in Contacts
  BY DEF TypeOK, RunOk, Run

\* A slot that goes on with its text.
LEMMA GotoTypes ==
  ASSUME TypeOK, NEW w \in Workers, NEW k \in Pc, Goto(w, k)
  PROVE  /\ run' \in [Workers -> Run]
         /\ run'[w].pc = k /\ run'[w].text = run[w].text /\ run'[w].kase = run[w].kase
         /\ \A v \in Workers : v # w => run'[v] = run[v]
<1>1. [run[w] EXCEPT !.pc = k] \in Run
  BY DEF TypeOK, Run
<1>2. run' = [run EXCEPT ![w] = [run[w] EXCEPT !.pc = k]]
  BY DEF Goto, TypeOK
<1>3. run[w] \in Run
  BY DEF TypeOK
<1> QED
  BY <1>1, <1>2, <1>3 DEF TypeOK, Run

LEMMA ChosenTypes ==
  ASSUME TypeOK, NEW w \in Workers, NEW k \in Pc, NEW c \in Contacts \cup {None},
         run' = [run EXCEPT ![w].pc = k, ![w].kase = c]
  PROVE  /\ run' \in [Workers -> Run]
         /\ run'[w].pc = k /\ run'[w].text = run[w].text /\ run'[w].kase = c
         /\ \A v \in Workers : v # w => run'[v] = run[v]
<1>1. [run[w] EXCEPT !.pc = k, !.kase = c] \in Run
  BY DEF TypeOK, Run
<1>2. run' = [run EXCEPT ![w] = [run[w] EXCEPT !.pc = k, !.kase = c]]
  BY DEF TypeOK
<1>3. run[w] \in Run
  BY DEF TypeOK
<1> QED
  BY <1>1, <1>2, <1>3 DEF TypeOK, Run

LEMMA FileTypes ==
  ASSUME TypeOK, NEW t \in Texts, NEW c \in Contacts \cup {None}, File(t, c)
  PROVE  /\ rows' \in [Texts -> Seq(Contacts \cup {None})]
         /\ \A u \in Texts : u # t => rows'[u] = rows[u]
         /\ rows'[t] # <<>> /\ Len(rows'[t]) = Len(rows[t]) + 1 /\ Len(rows[t]) \in Nat
         /\ FiledUnder(t)' = FiledUnder(t) \cup ({c} \ {None})
<1>1. rows[t] \in Seq(Contacts \cup {None})
  BY DEF TypeOK
<1>2. rows'[t] = Append(rows[t], c) /\ rows' = [rows EXCEPT ![t] = Append(rows[t], c)]
  BY DEF File, TypeOK
<1>3. /\ Append(rows[t], c) \in Seq(Contacts \cup {None})
      /\ Len(Append(rows[t], c)) = Len(rows[t]) + 1 /\ Len(rows[t]) \in Nat
      /\ Append(rows[t], c)[Len(rows[t]) + 1] = c
      /\ \A i \in 1..Len(rows[t]) : Append(rows[t], c)[i] = rows[t][i]
  BY <1>1
<1>4. {rows'[t][i] : i \in 1..Len(rows'[t])} = {rows[t][i] : i \in 1..Len(rows[t])} \cup {c}
  <2>1. 1..(Len(rows[t]) + 1) = 1..Len(rows[t]) \cup {Len(rows[t]) + 1}
    BY <1>3
  <2> QED
    BY <1>2, <1>3, <2>1
<1>5. rows'[t] # <<>>
  BY <1>2, <1>3
<1>6. FiledUnder(t)' = FiledUnder(t) \cup ({c} \ {None})
  BY <1>4 DEF FiledUnder
<1>7. \A u \in Texts : u # t => rows'[u] = rows[u]
  BY <1>2 DEF TypeOK
<1>8. rows' \in [Texts -> Seq(Contacts \cup {None})]
  BY <1>2, <1>3 DEF TypeOK
<1> QED
  BY <1>2, <1>3, <1>5, <1>6, <1>7, <1>8

LEMMA CountTypes ==
  ASSUME NEW f \in [Texts -> Nat], NEW t \in Texts
  PROVE  /\ [f EXCEPT ![t] = @ + 1] \in [Texts -> Nat] /\ f[t] \in Nat
         /\ [f EXCEPT ![t] = @ + 1][t] = f[t] + 1
         /\ \A u \in Texts : u # t => [f EXCEPT ![t] = @ + 1][u] = f[u]
<1>1. f[t] + 1 \in Nat
  OBVIOUS
<1> QED
  BY <1>1

LEMMA FaultType ==
  ASSUME TypeOK, Fault
  PROVE  faults' \in 0..MaxFaults
  BY BoundsAssumption DEF TypeOK, Fault

LEMMA JobTypes ==
  ASSUME NEW q \in Job, NEW n
  PROVE  /\ Completed(q) \in Job /\ Retried(q, n) \in Job /\ Stalled(q) \in Job
         /\ \A w \in Workers : Taken(q, w) \in Job /\ Taken(q, w).state = "active"
                               /\ Taken(q, w).by = w
         /\ Completed(q).state = "completed"
         /\ Retried(q, n).state \in {"waiting", "failed"}
         /\ Stalled(q).state \in {"waiting", "failed"}
<1>1. /\ Completed(q) \in Job /\ Completed(q).state = "completed"
      /\ \A w \in Workers : /\ Taken(q, w) \in Job /\ Taken(q, w).state = "active"
                            /\ Taken(q, w).by = w
  BY DEF Job, Completed, Taken
<1>2. q.made + 1 \in Nat /\ q.stalled + 1 \in Nat
  BY DEF Job
<1>3. \/ Retried(q, n) = [q EXCEPT !.made = q.made + 1, !.by = None, !.state = "waiting"]
      \/ Retried(q, n) = [q EXCEPT !.made = q.made + 1, !.by = None, !.state = "failed"]
  BY DEF Retried
<1>4. \/ Stalled(q) = [q EXCEPT !.stalled = q.stalled + 1, !.by = None, !.state = "waiting"]
      \/ Stalled(q) = [q EXCEPT !.stalled = q.stalled + 1, !.by = None, !.state = "failed"]
  BY DEF Stalled
<1>5. Retried(q, n) \in Job /\ Retried(q, n).state \in {"waiting", "failed"}
  BY <1>2, <1>3 DEF Job
<1>6. Stalled(q) \in Job /\ Stalled(q).state \in {"waiting", "failed"}
  BY <1>2, <1>4 DEF Job
<1> QED
  BY <1>1, <1>5, <1>6

LEMMA NoRunType == NoRun \in Run /\ NoRun.pc = "idle" /\ NoRun.text = None /\ NoRun.kase = None
  BY DEF NoRun, Run, Pc
-----------------------------------------------------------------------------
(* What is kept while rows, promises and causes grow. *)

Grows(t) ==
    /\ rows[t] # <<>> => rows'[t] # <<>>
    /\ FiledUnder(t) # {} => FiledUnder(t)' # {}
    /\ ptps[t] <= ptps'[t] /\ causes[t] <= causes'[t]

GrowsAll ==
    /\ \A t \in Texts : Grows(t)
    /\ dnc \subseteq dnc' /\ slow \subseteq slow'

\* A text is filed late only after a failure or a stall.
Settles(t) == FiledUnder(t)' = FiledUnder(t) \/ causes'[t] > 0

LEMMA TookStays ==
  ASSUME TypeOK, TypeOK', GrowsAll, NEW t \in Texts, TookEffect(t)
  PROVE  TookEffect(t)'
<1>1. ptps[t] \in Nat /\ ptps'[t] \in Nat /\ ptps[t] <= ptps'[t] /\ dnc \subseteq dnc'
  BY DEF TypeOK, GrowsAll, Grows
<1>2. ptps[t] > 0 => ptps'[t] > 0
  BY <1>1
<1> QED
  BY <1>1, <1>2 DEF TookEffect

LEMMA OverStays ==
  ASSUME TypeOK, TypeOK', GrowsAll, NEW t \in Texts, Over(t), Settles(t)
  PROVE  Over(t)'
<1>1. Same(t) \subseteq Texts
  BY DEF Same
<1>2. \E u \in Same(t) : rows'[u] # <<>>
  BY <1>1 DEF Over, GrowsAll, Grows
<1>3. causes[t] > 0 => causes'[t] > 0
  <2>1. causes[t] \in Nat /\ causes'[t] \in Nat /\ causes[t] <= causes'[t]
    BY DEF TypeOK, GrowsAll, Grows
  <2> QED
    BY <2>1
<1>4. FiledUnder(t)' = {} \/ causes'[t] > 0 \/ TookEffect(t)'
  BY <1>3, TookStays DEF Over, Settles
<1> QED
  BY <1>2, <1>4 DEF Over

LEMMA RunStays ==
  ASSUME TypeOK, TypeOK', GrowsAll, NEW v \in Workers, RunOk(v), run'[v] = run[v],
         run[v].pc # "idle" => Settles(run[v].text),
         run[v].pc # "idle" /\ run[v].kase \in recent =>
             run[v].kase \in recent' \/ run[v].text \in slow'
  PROVE  RunOk(v)'
<1>1. CASE run[v].pc = "idle"
  BY <1>1, NoRunType DEF RunOk, Answering
<1>2. CASE run[v].pc # "idle"
  <2> DEFINE t == run[v].text
  <2>1. t \in Texts
    BY <1>2 DEF RunOk
  <2>2. causes[t] > 0 => causes'[t] > 0
    <3>1. causes[t] \in Nat /\ causes'[t] \in Nat /\ causes[t] <= causes'[t]
      BY <2>1 DEF TypeOK, GrowsAll, Grows
    <3> QED
      BY <3>1
  <2>3. TookEffect(t) => TookEffect(t)'
    BY <2>1, TookStays
  <2>4. Over(t) => Over(t)'
    BY <1>2, <2>1, OverStays
  <2>5. FiledUnder(t) # {} => FiledUnder(t)' # {}
    BY <2>1 DEF GrowsAll, Grows
  <2>6. slow \subseteq slow'
    BY DEF GrowsAll
  <2>7. /\ run[v].pc \in {"lookup", "queue"} => TookEffect(t)'
        /\ run[v].pc = "done" => Over(t)'
        /\ run[v].pc = "throw" => causes'[t] > 0
        /\ run[v].pc \in Answering => FiledUnder(t)' # {}
    BY <2>2, <2>3, <2>4, <2>5 DEF RunOk
  <2>8. /\ run[v].pc \in {"dnc", "ptp", "lookup"} => run[v].kase \in recent' \/ t \in slow'
        /\ run[v].pc = "queue" => t \in slow'
    BY <1>2, <2>6 DEF RunOk
  <2>9. /\ run[v].pc \in {"contact", "orphan"} => run[v].kase = None
        /\ run[v].pc \in {"case", "insert"} \cup Answering => run[v].kase \in Contacts
        /\ run[v].pc = "dnc" => Intent(t) = "BAJA"
        /\ run[v].pc = "ptp" => Intent(t) = "PTP"
    BY DEF RunOk
  <2> QED
    BY <1>2, <2>1, <2>7, <2>8, <2>9 DEF RunOk
<1> QED
  BY <1>1, <1>2

LEMMA DncStays ==
  ASSUME GrowsAll, DncOk,
         \A c \in dnc' \ dnc : \E t \in Texts :
             "baja" \in WordsOf[t] /\ FromOf[t] = PhoneOf[c] /\ FiledUnder(t) # {}
  PROVE  DncOk'
<1> SUFFICES ASSUME NEW c \in dnc'
             PROVE  \E t \in Texts : "baja" \in WordsOf[t] /\ FromOf[t] = PhoneOf[c] /\ FiledUnder(t)' # {}
  BY DEF DncOk
<1>1. PICK t \in Texts : "baja" \in WordsOf[t] /\ FromOf[t] = PhoneOf[c] /\ FiledUnder(t) # {}
  BY DEF DncOk
<1> QED
  BY <1>1 DEF GrowsAll, Grows

LEMMA DelayStays ==
  ASSUME GrowsAll, AnswerNeedsDelay,
         \A t \in Texts : answers'[t] = answers[t] \/ t \in slow
  PROVE  AnswerNeedsDelay'
  BY DEF AnswerNeedsDelay, GrowsAll
-----------------------------------------------------------------------------
(* A slot that goes on with its text. *)

Onward(w) ==
    /\ run[w].pc # "idle" /\ run'[w].pc # "idle" /\ run'[w].text = run[w].text
    /\ \A v \in Workers : v # w => run'[v] = run[v]
    /\ jobs' = jobs /\ recent \subseteq recent' /\ slow' = slow /\ dnc \subseteq dnc'
    /\ \A t \in Texts : t # run[w].text =>
           rows'[t] = rows[t] /\ ptps'[t] = ptps[t] /\ answers'[t] = answers[t]
           /\ causes'[t] = causes[t]

In(w, S) == IF run[w].pc \in S THEN 1 ELSE 0

\* What slot w may do of what counts.
Affords(w, t) ==
    /\ Len(rows'[t]) + In(w, Filing)' + (1 + causes[t])
           <= Len(rows[t]) + In(w, Filing) + (1 + causes'[t])
    /\ ptps'[t] + In(w, Promising)' + Len(rows[t])
           <= ptps[t] + In(w, Promising) + Len(rows'[t])
    /\ answers'[t] + In(w, Answering)' + Len(rows[t])
           <= answers[t] + In(w, Answering) + Len(rows'[t])

LEMMA Numbers ==
  ASSUME TypeOK, NEW t \in Texts
  PROVE  /\ Len(rows[t]) \in Nat /\ ptps[t] \in Nat /\ answers[t] \in Nat /\ causes[t] \in Nat
         /\ Room(t) \in Nat
  BY DEF TypeOK, Room

LEMMA NextNumbers ==
  ASSUME TypeOK', NEW t \in Texts
  PROVE  /\ Len(rows'[t]) \in Nat /\ ptps'[t] \in Nat /\ answers'[t] \in Nat
         /\ causes'[t] \in Nat /\ Room(t)' \in Nat
  BY DEF TypeOK, Room

LEMMA OnwardCounts ==
  ASSUME TypeOK, TypeOK', NEW w \in Workers, Onward(w), NEW t \in Texts, CountOk(t),
         t = run[w].text => Affords(w, t)
  PROVE  CountOk(t)'
<1>1. \A v \in Workers : v # w => run'[v] = run[v]
  BY DEF Onward
<1>2. /\ Len(rows[t]) \in Nat /\ ptps[t] \in Nat /\ answers[t] \in Nat /\ causes[t] \in Nat
      /\ Room(t) \in Nat
      /\ Len(rows'[t]) \in Nat /\ ptps'[t] \in Nat /\ answers'[t] \in Nat /\ causes'[t] \in Nat
      /\ Room(t)' = Room(t)
  BY Numbers, NextNumbers DEF Onward, Room
<1>3. ASSUME NEW S
      PROVE  (w \in Slots(t, S) <=> t = run[w].text /\ run[w].pc \in S)
             /\ (w \in Slots(t, S)' <=> t = run[w].text /\ run'[w].pc \in S)
  BY DEF Slots, Onward
<1>4. CASE t = run[w].text
  <2>1. ASSUME NEW S
        PROVE  /\ (IF w \in Slots(t, S) THEN 1 ELSE 0) = In(w, S) /\ In(w, S) \in Nat
               /\ (IF w \in Slots(t, S)' THEN 1 ELSE 0) = In(w, S)' /\ In(w, S)' \in Nat
    BY <1>3, <1>4 DEF In
  <2>2. /\ (Len(rows'[t]) + Room(t)) + In(w, Filing)' + (1 + causes[t])
              <= (Len(rows[t]) + Room(t)) + In(w, Filing) + (1 + causes'[t])
        /\ Len(rows[t]) + Room(t) \in Nat /\ Len(rows'[t]) + Room(t) \in Nat
        /\ 1 + causes[t] \in Nat /\ 1 + causes'[t] \in Nat
    <3>1. In(w, Filing) \in Nat /\ In(w, Filing)' \in Nat
      BY <2>1
    <3>2. PICK a, b, c, d, i, j, r :
             /\ a = Len(rows[t]) /\ b = Len(rows'[t]) /\ c = causes[t] /\ d = causes'[t]
             /\ i = In(w, Filing) /\ j = In(w, Filing)' /\ r = Room(t)
      OBVIOUS
    <3>3. /\ a \in Nat /\ b \in Nat /\ c \in Nat /\ d \in Nat /\ i \in Nat /\ j \in Nat /\ r \in Nat
          /\ b + j + (1 + c) <= a + i + (1 + d)
      BY <1>2, <1>4, <3>1, <3>2 DEF Affords
    <3>4. /\ (b + r) + j + (1 + c) <= (a + r) + i + (1 + d)
          /\ a + r \in Nat /\ b + r \in Nat /\ 1 + c \in Nat /\ 1 + d \in Nat
      BY <3>3
    <3> QED
      BY <3>2, <3>4
  <2>3. (Len(rows'[t]) + Room(t)) + Cardinality(Slots(t, Filing)') <= 1 + causes'[t]
    BY <1>1, <2>1, <2>2, Balance DEF CountOk
  <2>4. ptps'[t] + Cardinality(Slots(t, Promising)') <= Len(rows'[t])
    BY ZenonT(30), <1>1, <1>2, <1>4, <2>1, Balance DEF CountOk, Affords
  <2>5. answers'[t] + Cardinality(Slots(t, Answering)') <= Len(rows'[t])
    BY ZenonT(30), <1>1, <1>2, <1>4, <2>1, Balance DEF CountOk, Affords
  <2> QED
    BY <1>2, <2>3, <2>4, <2>5 DEF CountOk
<1>5. CASE t # run[w].text
  <2>1. \A S : Slots(t, S)' = Slots(t, S)
    BY <1>5 DEF Slots, Onward
  <2>2. rows'[t] = rows[t] /\ ptps'[t] = ptps[t] /\ answers'[t] = answers[t] /\ causes'[t] = causes[t]
    BY <1>5 DEF Onward
  <2> QED
    BY <1>2, <2>1, <2>2 DEF CountOk
<1> QED
  BY <1>4, <1>5

LEMMA OnwardKeeps ==
  ASSUME IInv, TypeOK', NEW w \in Workers, Onward(w), NEW x, x = run[w].text,
         rows'[x] = rows[x] \/ (/\ Filable(w) /\ rows'[x] # <<>>
                                /\ Len(rows'[x]) = Len(rows[x]) + 1
                                /\ FiledUnder(x) \subseteq FiledUnder(x)'),
         ptps[x] <= ptps'[x], causes[x] <= causes'[x],
         answers'[x] = answers[x] \/ x \in slow,
         \A c \in dnc' \ dnc :
             "baja" \in WordsOf[x] /\ FromOf[x] = PhoneOf[c] /\ FiledUnder(x) # {},
         Affords(w, x),
         GrowsAll => RunOk(w)'
  PROVE  IInv'
<1>1. x \in Texts /\ TypeOK /\ run[w].pc # "idle" /\ (\A t \in Texts : TextOk(t))
      /\ (\A v \in Workers : RunOk(v))
  BY DEF IInv, RunOk, Onward
<1>2. \A t \in Texts : t # x => rows'[t] = rows[t] /\ ptps'[t] = ptps[t] /\ causes'[t] = causes[t]
                                /\ answers'[t] = answers[t]
  BY DEF Onward
<1>3. \A t \in Texts : t # x => FiledUnder(t)' = FiledUnder(t)
  BY <1>2 DEF FiledUnder
<1>4. GrowsAll
  <2>1. Grows(x)
    <3>1. rows'[x] = rows[x] => FiledUnder(x)' = FiledUnder(x)
      BY DEF FiledUnder
    <3> QED
      BY <3>1 DEF Grows
  <2>2. ASSUME NEW t \in Texts, t # x
        PROVE  Grows(t)
    BY <1>1, <1>2, <1>3, <2>2, Numbers DEF Grows
  <2> QED
    BY <2>1, <2>2 DEF GrowsAll, Onward
<1>5. ASSUME NEW v \in Workers, v # w, run[v].text = x
      PROVE  causes'[x] > 0
  <2>1. causes[x] # 0
    BY <1>1, <1>5 DEF TextOk, Sole
  <2>2. causes[x] \in Nat /\ causes'[x] \in Nat
    BY <1>1, Numbers, NextNumbers
  <2> QED
    BY <2>1, <2>2
<1>6. ASSUME NEW v \in Workers
      PROVE  RunOk(v)'
  <2>1. CASE v = w
    BY <1>4, <2>1
  <2>2. CASE v # w
    <3>1. run'[v] = run[v] /\ RunOk(v)
      BY <1>1, <2>2 DEF Onward
    <3>2. run[v].pc # "idle" => Settles(run[v].text)
      BY <1>1, <1>3, <1>5, <2>2, <3>1 DEF Settles, RunOk
    <3>3. recent \subseteq recent'
      BY DEF Onward
    <3> QED
      BY <1>1, <1>4, <3>1, <3>2, <3>3, RunStays
  <2> QED
    BY <2>1, <2>2
<1>7. ASSUME NEW t \in Texts
      PROVE  TextOk(t)'
  <2>1. CountOk(t)'
    BY <1>1, OnwardCounts DEF TextOk
  <2>2. IdOk(t)'
    <3>1. CASE rows'[x] = rows[x]
      <4>1. \A u \in Texts : rows'[u] = rows[u]
        BY <1>2, <3>1
      <4> QED
        BY <1>1, <4>1 DEF TextOk, IdOk, Same
    <3>2. CASE Filable(w) /\ rows'[x] # <<>> /\ Len(rows'[x]) = Len(rows[x]) + 1
      <4> SUFFICES ASSUME IdOf[t] # None, rows'[t] # <<>>
                   PROVE  Len(rows'[t]) = 1 /\ \A u \in Same(t) \ {t} : rows'[u] = <<>>
        BY DEF IdOk
      <4>1. IdOf[x] # None => \A u \in Same(x) : rows[u] = <<>>
        BY <3>2 DEF Filable, Known
      <4>2. CASE t = x
        <5>1. x \in Same(x) /\ Same(x) \subseteq Texts
          BY <1>1 DEF Same
        <5>2. rows[x] = <<>> /\ \A u \in Same(x) \ {x} : rows'[u] = <<>>
          BY <1>2, <4>1, <4>2, <5>1
        <5> QED
          BY <3>2, <4>2, <5>2
      <4>3. CASE t # x
        <5>1. rows'[t] = rows[t] /\ IdOk(t)
          BY <1>1, <1>2, <4>3 DEF TextOk
        <5>2. x \notin Same(t)
          BY <1>1, <4>1, <4>3, <5>1 DEF Same
        <5> QED
          BY <1>2, <5>1, <5>2 DEF IdOk, Same
      <4> QED
        BY <4>2, <4>3
    <3> QED
      BY <3>1, <3>2
  <2>3. Sole(t)'
    <3>1. causes'[t] = 0 => causes[t] = 0
      <4>1. causes[t] <= causes'[t] /\ causes[t] \in Nat /\ causes'[t] \in Nat
        BY <1>1, <1>4, Numbers, NextNumbers DEF GrowsAll, Grows
      <4> QED
        BY <4>1
    <3>2. \A v \in Workers : run'[v].text = run[v].text
      BY DEF Onward
    <3> QED
      BY <1>1, <3>1, <3>2 DEF TextOk, Sole, Onward
  <2>4. jobs'[t].state = "completed" => Over(t)'
    <3> SUFFICES ASSUME jobs[t].state = "completed"
                 PROVE  Over(t)'
      BY DEF Onward
    <3>1. Over(t)
      BY <1>1 DEF TextOk
    <3>2. Settles(t)
      <4>1. CASE t # x
        BY <1>3, <4>1 DEF Settles
      <4>2. CASE t = x
        <5>1. causes[x] # 0
          BY <1>1, <4>2 DEF TextOk, Sole
        <5>2. causes[x] \in Nat /\ causes'[x] \in Nat
          BY <1>1, Numbers, NextNumbers
        <5> QED
          BY <4>2, <5>1, <5>2 DEF Settles
      <4> QED
        BY <4>1, <4>2
    <3> QED
      BY <1>1, <1>4, <3>1, <3>2, OverStays
  <2> QED
    BY <2>1, <2>2, <2>3, <2>4 DEF TextOk
<1>8. DncOk'
  BY <1>1, <1>4, DncStays DEF IInv
<1>9. AnswerNeedsDelay'
  BY <1>1, <1>2, <1>4, DelayStays DEF IInv
<1> QED
  BY <1>6, <1>7, <1>8, <1>9 DEF IInv
-----------------------------------------------------------------------------
(* The steps that read. *)

LEMMA InTypes ==
  ASSUME NEW w, NEW S
  PROVE  In(w, S) \in 0..1 /\ In(w, S)' \in 0..1
  BY DEF In

LEMMA SameTables ==
  ASSUME rows' = rows, ptps' = ptps, dnc' = dnc, causes' = causes, NEW t
  PROVE  /\ FiledUnder(t)' = FiledUnder(t)
         /\ TookEffect(t)' <=> TookEffect(t)
         /\ Over(t)' <=> Over(t)
<1>1. FiledUnder(t)' = FiledUnder(t)
  BY DEF FiledUnder
<1>2. TookEffect(t)' <=> TookEffect(t)
  BY DEF TookEffect
<1>3. (\E u \in Same(t) : rows'[u] # <<>>) <=> (\E u \in Same(t) : rows[u] # <<>>)
  OBVIOUS
<1>4. Over(t)' <=> Over(t)
  BY <1>1, <1>2, <1>3 DEF Over
<1> QED
  BY <1>1, <1>2, <1>4

LEMMA AffordsStep ==
  ASSUME TypeOK, NEW w, NEW t \in Texts,
         NEW a \in 0..1, NEW p \in 0..1, NEW q \in 0..1, NEW c \in 0..1,
         /\ Len(rows'[t]) = Len(rows[t]) + a /\ ptps'[t] = ptps[t] + p
         /\ answers'[t] = answers[t] + q /\ causes'[t] = causes[t] + c,
         /\ a + In(w, Filing)' <= In(w, Filing) + c
         /\ p + In(w, Promising)' <= In(w, Promising) + a
         /\ q + In(w, Answering)' <= In(w, Answering) + a
  PROVE  Affords(w, t)
<1>1. PICK k \in Nat, l \in Nat, m \in Nat, n \in Nat :
         k = Len(rows[t]) /\ l = ptps[t] /\ m = answers[t] /\ n = causes[t]
  BY Numbers
<1>2. PICK e \in Nat, f \in Nat, g \in Nat, h \in Nat, i \in Nat, j \in Nat :
         /\ e = In(w, Filing) /\ f = In(w, Filing)' /\ g = In(w, Promising)
         /\ h = In(w, Promising)' /\ i = In(w, Answering) /\ j = In(w, Answering)'
  <2>1. \A S : In(w, S) \in 0..1 /\ In(w, S)' \in 0..1
    BY InTypes
  <2>2. \A S : In(w, S) \in Nat /\ In(w, S)' \in Nat
    BY <2>1
  <2> QED
    BY <2>2
<1>3. a + f <= e + c /\ p + h <= g + a /\ q + j <= i + a
  BY <1>2
<1>4. /\ (k + a) + f + (1 + n) <= k + e + (1 + (n + c))
      /\ (l + p) + h + k <= l + g + (k + a)
      /\ (m + q) + j + k <= m + i + (k + a)
  BY <1>3
<1> QED
  BY <1>1, <1>2, <1>4 DEF Affords

LEMMA ReadsKeep ==
  ASSUME IInv, NEW w \in Workers, run[w].pc # "idle", Reads,
         run' \in [Workers -> Run], run'[w].text = run[w].text, run'[w].pc # "idle",
         \A v \in Workers : v # w => run'[v] = run[v],
         \A S \in {Filing, Promising, Answering} : run'[w].pc \in S => run[w].pc \in S,
         RunOk(w)'
  PROVE  IInv'
<1>1. TypeOK /\ run[w].text \in Texts
  BY DEF IInv, RunOk
<1>2. TypeOK'
  BY <1>1 DEF TypeOK, Reads, effects
<1>3. Onward(w)
  BY DEF Onward, Reads, effects
<1>4. Affords(w, run[w].text)
  <2> PICK t \in Texts : t = run[w].text
    BY <1>1
  <2>1. /\ In(w, Filing)' <= In(w, Filing) /\ In(w, Promising)' <= In(w, Promising)
        /\ In(w, Answering)' <= In(w, Answering)
    BY DEF In
  <2>2. /\ Len(rows'[t]) = Len(rows[t]) + 0 /\ ptps'[t] = ptps[t] + 0
        /\ answers'[t] = answers[t] + 0 /\ causes'[t] = causes[t] + 0
    BY <1>1, Numbers DEF Reads, effects
  <2>3. /\ 0 + In(w, Filing)' <= In(w, Filing) + 0 /\ 0 + In(w, Promising)' <= In(w, Promising) + 0
        /\ 0 + In(w, Answering)' <= In(w, Answering) + 0
    BY <2>1, InTypes
  <2> QED
    BY <1>1, <2>2, <2>3, AffordsStep
<1>5. rows' = rows /\ ptps' = ptps /\ causes' = causes /\ answers' = answers /\ dnc' = dnc
  BY DEF Reads, effects
<1>6. ptps[run[w].text] <= ptps'[run[w].text] /\ causes[run[w].text] <= causes'[run[w].text]
  BY <1>1, <1>5, Numbers
<1> QED
  BY <1>2, <1>3, <1>4, <1>5, <1>6, OnwardKeeps

LEMMA findDuplicateKeeps ==
  ASSUME IInv, NEW w \in Workers, findDuplicate(w)
  PROVE  IInv'
<1> PICK t \in Texts : t = run[w].text
  BY DEF IInv, RunOk, findDuplicate
<1>1. TypeOK /\ TextOk(t) /\ Reads /\ run[w].kase = None
  BY DEF IInv, RunOk, findDuplicate
<1>2. PICK k \in {"done", "out"} : Goto(w, k) /\ (k = "done" => Known(t))
  BY DEF findDuplicate
<1>3. /\ run' \in [Workers -> Run] /\ run'[w].pc = k /\ run'[w].text = t
      /\ run'[w].kase = None
      /\ \A v \in Workers : v # w => run'[v] = run[v]
  BY <1>1, <1>2, GotoTypes DEF Pc
<1>4. Known(t) => Over(t)
  <2>1. CASE causes[t] > 0
    BY <2>1 DEF Known, Over
  <2>2. CASE ~(causes[t] > 0)
    <3>1. causes[t] = 0 /\ Len(rows[t]) \in Nat /\ Room(t) \in Nat
      BY <1>1, <2>2, Numbers
    <3>2. Cardinality(Slots(t, Filing)) >= 1 /\ Cardinality(Slots(t, Filing)) \in Nat
      <4>1. w \in Slots(t, Filing) /\ Slots(t, Filing) \in SUBSET Workers
        BY DEF findDuplicate, Slots, Filing
      <4>2. IsFiniteSet(Slots(t, Filing)) /\ Cardinality(Slots(t, Filing)) \in Nat
        BY <4>1, Sizes, WorkersAssumption
      <4>3. Cardinality(Slots(t, Filing)) # 0
        BY <4>1, <4>2, FS_EmptySet
      <4> QED
        BY <4>2, <4>3
    <3>3. Len(rows[t]) = 0
      BY <1>1, <3>1, <3>2 DEF TextOk, CountOk
    <3>4. FiledUnder(t) = {}
      BY <3>3 DEF FiledUnder
    <3> QED
      BY <3>4 DEF Known, Over
  <2> QED
    BY <2>1, <2>2
<1>5. RunOk(w)'
  <2>1. Over(t)' <=> Over(t)
    BY <1>1, SameTables DEF Reads, effects
  <2> QED
    BY <1>1, <1>2, <1>3, <1>4, <2>1 DEF RunOk, Answering
<1> QED
  BY <1>1, <1>2, <1>3, <1>5, ReadsKeep DEF findDuplicate, Filing, Promising, Answering

\* Whatever case is found, what is filed next has a context or is an orphan.
LEMMA InContextKeeps ==
  ASSUME IInv, NEW w \in Workers, run[w].pc \in {"out", "case"}, NEW c \in Contacts,
         InContext(w, c), Reads
  PROVE  IInv'
<1> PICK t \in Texts : t = run[w].text
  BY DEF IInv, RunOk
<1>1. TypeOK
  BY DEF IInv
<1>2. PICK k \in {"insert", "orphan"}, d \in Contacts \cup {None} :
         /\ run' = [run EXCEPT ![w].pc = k, ![w].kase = d]
         /\ k = "insert" => d \in Contacts
         /\ k = "orphan" => d = None
  BY DEF InContext
<1>3. /\ run' \in [Workers -> Run] /\ run'[w].pc = k /\ run'[w].text = t /\ run'[w].kase = d
      /\ \A v \in Workers : v # w => run'[v] = run[v]
  <2>1. k \in Pc
    BY DEF Pc
  <2>2. run' = [run EXCEPT ![w].pc = k, ![w].kase = d]
    BY <1>2
  <2>3. CASE k = "insert"
    BY <1>1, <2>1, <2>2, <2>3, ChosenTypes
  <2>4. CASE k = "orphan"
    BY <1>1, <2>1, <2>2, <2>4, ChosenTypes
  <2> QED
    BY <2>3, <2>4
<1>4. RunOk(w)'
  BY <1>1, <1>2, <1>3 DEF RunOk, Answering
<1> QED
  BY <1>1, <1>2, <1>3, <1>4, ReadsKeep DEF Filing, Promising, Answering

LEMMA lastMessageKeeps ==
  ASSUME IInv, NEW w \in Workers, lastMessage(w)
  PROVE  IInv'
<1> PICK t \in Texts : t = run[w].text
  BY DEF IInv, RunOk, lastMessage
<1>1. TypeOK /\ Reads /\ run[w].pc = "out" /\ run[w].kase = None
  BY DEF IInv, RunOk, lastMessage
<1>2. PICK c \in Contacts \cup {None} : c = lastOut[FromOf[t]]
  BY <1>1 DEF TypeOK, Phones
<1>3. CASE c = None
  <2>1. Goto(w, "contact")
    BY <1>2, <1>3 DEF lastMessage
  <2>2. /\ run' \in [Workers -> Run] /\ run'[w].pc = "contact" /\ run'[w].text = t
        /\ run'[w].kase = None
        /\ \A v \in Workers : v # w => run'[v] = run[v]
    BY <1>1, <2>1, GotoTypes DEF Pc
  <2>3. RunOk(w)'
    BY <1>1, <2>2 DEF RunOk, Answering
  <2> QED
    BY <1>1, <2>2, <2>3, ReadsKeep DEF Filing, Promising, Answering
<1>4. CASE c # None
  <2>1. c \in Contacts /\ InContext(w, c)
    BY <1>2, <1>4 DEF lastMessage
  <2> QED
    BY <1>1, <2>1, InContextKeeps
<1> QED
  BY <1>3, <1>4

LEMMA findContactKeeps ==
  ASSUME IInv, NEW w \in Workers, findContact(w)
  PROVE  IInv'
<1> PICK t \in Texts : t = run[w].text
  BY DEF IInv, RunOk, findContact
<1>1. TypeOK /\ Reads /\ run[w].pc = "contact" /\ run[w].kase = None
  BY DEF IInv, RunOk, findContact
<1>2. CASE \E c \in Contacts : run' = [run EXCEPT ![w].pc = "case", ![w].kase = c]
  <2> PICK c \in Contacts : run' = [run EXCEPT ![w].pc = "case", ![w].kase = c]
    BY <1>2
  <2>1. /\ run' \in [Workers -> Run] /\ run'[w].pc = "case" /\ run'[w].text = t /\ run'[w].kase = c
        /\ \A v \in Workers : v # w => run'[v] = run[v]
    <3>1. "case" \in Pc /\ c \in Contacts \cup {None}
      BY DEF Pc
    <3> QED
      BY <1>1, <3>1, ChosenTypes
  <2>2. RunOk(w)'
    BY <1>1, <2>1 DEF RunOk, Answering
  <2> QED
    BY <1>1, <2>1, <2>2, ReadsKeep DEF Filing, Promising, Answering
<1>3. CASE Goto(w, "orphan")
  <2>1. /\ run' \in [Workers -> Run] /\ run'[w].pc = "orphan" /\ run'[w].text = t /\ run'[w].kase = None
        /\ \A v \in Workers : v # w => run'[v] = run[v]
    BY <1>1, <1>3, GotoTypes DEF Pc
  <2>2. RunOk(w)'
    BY <1>1, <2>1 DEF RunOk, Answering
  <2> QED
    BY <1>1, <2>1, <2>2, ReadsKeep DEF Filing, Promising, Answering
<1> QED
  BY <1>2, <1>3 DEF findContact

LEMMA findCaseKeeps ==
  ASSUME IInv, NEW w \in Workers, findCase(w)
  PROVE  IInv'
<1> PICK t \in Texts : t = run[w].text
  BY DEF IInv, RunOk, findCase
<1>1. TypeOK /\ Reads /\ run[w].pc = "case" /\ run[w].kase \in Contacts
  BY DEF IInv, RunOk, findCase
<1>2. CASE InContext(w, run[w].kase)
  BY <1>1, <1>2, InContextKeeps
<1>3. CASE run' = [run EXCEPT ![w].pc = "orphan", ![w].kase = None]
  <2>1. /\ run' \in [Workers -> Run] /\ run'[w].pc = "orphan" /\ run'[w].text = t /\ run'[w].kase = None
        /\ \A v \in Workers : v # w => run'[v] = run[v]
    <3>1. "orphan" \in Pc /\ None \in Contacts \cup {None}
      BY DEF Pc
    <3> QED
      BY <1>1, <1>3, <3>1, ChosenTypes
  <2>2. RunOk(w)'
    BY <1>1, <2>1 DEF RunOk, Answering
  <2> QED
    BY <1>1, <2>1, <2>2, ReadsKeep DEF Filing, Promising, Answering
<1> QED
  BY <1>2, <1>3 DEF findCase

LEMMA maybeAutoReplyKeeps ==
  ASSUME IInv, NEW w \in Workers, maybeAutoReply(w)
  PROVE  IInv'
<1> PICK t \in Texts : t = run[w].text
  BY DEF IInv, RunOk, maybeAutoReply
<1>1. TypeOK /\ Reads /\ run[w].pc = "lookup" /\ RunOk(w)
  BY DEF IInv, RunOk, maybeAutoReply
<1>2. PICK k \in {"done", "queue"} : Goto(w, k) /\ (k = "queue" => run[w].kase \notin recent)
  BY DEF maybeAutoReply
<1>3. /\ run' \in [Workers -> Run] /\ run'[w].pc = k /\ run'[w].text = t
      /\ run'[w].kase = run[w].kase
      /\ \A v \in Workers : v # w => run'[v] = run[v]
  BY <1>1, <1>2, GotoTypes DEF Pc
<1>4. /\ TookEffect(t) /\ FiledUnder(t) # {} /\ run[w].kase \in Contacts
      /\ (run[w].kase \in recent \/ t \in slow)
  BY <1>1 DEF RunOk, Answering
<1>5. Over(t)
  <2>1. rows[t] # <<>> /\ t \in Same(t)
    BY <1>1, <1>4 DEF FiledUnder, Same
  <2> QED
    BY <1>4, <2>1 DEF Over
<1>6. RunOk(w)'
  <2>1. /\ (Over(t)' <=> Over(t)) /\ (TookEffect(t)' <=> TookEffect(t))
        /\ FiledUnder(t)' = FiledUnder(t)
    BY <1>1, SameTables DEF Reads, effects
  <2>2. slow' = slow /\ (k = "queue" => t \in slow)
    BY <1>1, <1>2, <1>4 DEF Reads
  <2> QED
    BY <1>1, <1>3, <1>4, <1>5, <2>1, <2>2 DEF RunOk, Answering
<1> QED
  BY <1>1, <1>3, <1>6, ReadsKeep DEF Filing, Promising, Answering
-----------------------------------------------------------------------------
(* The steps that write. *)

\* As long as nothing failed, who has yet to file finds nothing filed.
LEMMA Unfiled ==
  ASSUME IInv, NEW w \in Workers, NEW t \in Texts, t = run[w].text, run[w].pc \in Filing,
         causes[t] = 0
  PROVE  FiledUnder(t) = {}
<1>1. TypeOK /\ TextOk(t)
  BY DEF IInv
<1>2. Cardinality(Slots(t, Filing)) >= 1 /\ Cardinality(Slots(t, Filing)) \in Nat
  <2>1. w \in Slots(t, Filing) /\ Slots(t, Filing) \in SUBSET Workers
    BY DEF Slots
  <2>2. IsFiniteSet(Slots(t, Filing)) /\ Cardinality(Slots(t, Filing)) \in Nat
    BY <2>1, Sizes, WorkersAssumption
  <2>3. Cardinality(Slots(t, Filing)) # 0
    BY <2>1, <2>2, FS_EmptySet
  <2> QED
    BY <2>2, <2>3
<1>3. Len(rows[t]) \in Nat /\ Room(t) \in Nat
  BY <1>1, Numbers
<1>4. Len(rows[t]) = 0
  BY <1>1, <1>2, <1>3 DEF TextOk, CountOk
<1> QED
  BY <1>4 DEF FiledUnder

LEMMA insertReplyKeeps ==
  ASSUME IInv, NEW w \in Workers, insertReply(w)
  PROVE  IInv'
<1> PICK t \in Texts : t = run[w].text
  BY DEF IInv, RunOk, insertReply, Filable
<1> PICK k \in {"mark", "done"} : k = IF run[w].pc = "insert" THEN "mark" ELSE "done"
  OBVIOUS
<1>1. /\ TypeOK /\ run[w].pc \in {"insert", "orphan"} /\ RunOk(w) /\ Goto(w, k)
      /\ File(t, run[w].kase) /\ Writes /\ Filable(w)
  BY DEF IInv, insertReply, Filable
<1>2. run[w].kase \in Contacts \cup {None}
  BY <1>1, RunTypes
<1>3. /\ run' \in [Workers -> Run] /\ run'[w].pc = k /\ run'[w].text = t
      /\ run'[w].kase = run[w].kase
      /\ \A v \in Workers : v # w => run'[v] = run[v]
  BY <1>1, GotoTypes DEF Pc
<1>4. /\ rows' \in [Texts -> Seq(Contacts \cup {None})]
      /\ \A u \in Texts : u # t => rows'[u] = rows[u]
      /\ rows'[t] # <<>> /\ Len(rows'[t]) = Len(rows[t]) + 1 /\ Len(rows[t]) \in Nat
      /\ FiledUnder(t)' = FiledUnder(t) \cup ({run[w].kase} \ {None})
      /\ recent' = recent /\ dnc' = dnc /\ ptps' = ptps /\ answers' = answers
  BY <1>1, <1>2, FileTypes DEF File
<1>5. TypeOK'
  BY <1>1, <1>3, <1>4 DEF TypeOK, Writes
<1>6. Onward(w)
  BY <1>1, <1>3, <1>4 DEF Onward, Writes
<1>7. Affords(w, t)
  <2>1. /\ In(w, Filing) = 1 /\ In(w, Filing)' = 0 /\ In(w, Promising) = 0 /\ In(w, Promising)' \in 0..1
        /\ In(w, Answering) = 0 /\ In(w, Answering)' \in 0..1
    BY <1>1, <1>3 DEF In, Filing, Promising, Answering
  <2>2. /\ Len(rows'[t]) = Len(rows[t]) + 1 /\ ptps'[t] = ptps[t] + 0
        /\ answers'[t] = answers[t] + 0 /\ causes'[t] = causes[t] + 0
    BY <1>1, <1>4, Numbers DEF Writes
  <2>3. /\ 1 + In(w, Filing)' <= In(w, Filing) + 0
        /\ 0 + In(w, Promising)' <= In(w, Promising) + 1
        /\ 0 + In(w, Answering)' <= In(w, Answering) + 1
    BY <2>1
  <2>4. TypeOK
    BY <1>1
  <2> QED
    BY <2>2, <2>3, <2>4, AffordsStep
<1>8. RunOk(w)'
  <2>1. CASE run[w].pc = "insert"
    <3>1. run[w].kase \in Contacts /\ k = "mark"
      BY <1>1, <2>1 DEF RunOk
    <3>2. FiledUnder(t)' # {}
      BY <1>4, <3>1, NoneAssumption
    <3> QED
      BY <1>3, <3>1, <3>2 DEF RunOk, Answering
  <2>2. CASE run[w].pc = "orphan"
    <3>1. run[w].kase = None /\ k = "done"
      BY <1>1, <2>2 DEF RunOk
    <3>2. FiledUnder(t)' = FiledUnder(t) /\ causes' = causes /\ causes[t] \in Nat
      BY <1>1, <1>4, <3>1, Numbers DEF Writes
    <3>3. FiledUnder(t)' = {} \/ causes'[t] > 0
      BY <2>2, <3>2, Unfiled DEF Filing
    <3>4. t \in Same(t)
      BY DEF Same
    <3>5. Over(t)'
      BY <1>4, <3>3, <3>4 DEF Over
    <3> QED
      BY <1>3, <3>1, <3>5 DEF RunOk, Answering
  <2> QED
    BY <1>1, <2>1, <2>2
<1>9. /\ ptps[t] <= ptps'[t] /\ causes[t] <= causes'[t] /\ answers'[t] = answers[t]
      /\ FiledUnder(t) \subseteq FiledUnder(t)' /\ dnc' \ dnc = {}
  BY <1>1, <1>4, Numbers DEF Writes
<1>10. /\ Filable(w) /\ rows'[t] # <<>> /\ Len(rows'[t]) = Len(rows[t]) + 1
       /\ t = run[w].text /\ IInv
  BY <1>1, <1>4
<1> QED
  BY <1>5, <1>6, <1>7, <1>8, <1>9, <1>10, OnwardKeeps

LEMMA EffectPc ==
  ASSUME NEW t
  PROVE  /\ EffectOf(t) \in {"dnc", "ptp", "lookup", "done"}
         /\ EffectOf(t) = "dnc" <=> Intent(t) = "BAJA"
         /\ EffectOf(t) = "ptp" <=> Intent(t) = "PTP"
         /\ "baja" \in WordsOf[t] <=> Intent(t) = "BAJA"
  BY DEF EffectOf, Intent, classify

LEMMA markInboundKeeps ==
  ASSUME IInv, NEW w \in Workers, markInbound(w)
  PROVE  IInv'
<1> PICK t \in Texts : t = run[w].text
  BY DEF IInv, RunOk, markInbound
<1> PICK k \in {"dnc", "ptp", "lookup", "done"} : k = EffectOf(t)
  BY EffectPc
<1>1. /\ TypeOK /\ run[w].pc = "mark" /\ RunOk(w) /\ Goto(w, k)
      /\ recent' = recent \cup {run[w].kase}
      /\ rows' = rows /\ dnc' = dnc /\ ptps' = ptps /\ answers' = answers /\ Writes
  BY DEF IInv, markInbound, Touch
<1>2. run[w].kase \in Contacts /\ FiledUnder(t) # {}
  BY <1>1 DEF RunOk, Answering
<1>3. /\ run' \in [Workers -> Run] /\ run'[w].pc = k /\ run'[w].text = t
      /\ run'[w].kase = run[w].kase
      /\ \A v \in Workers : v # w => run'[v] = run[v]
  BY <1>1, GotoTypes DEF Pc
<1>4. TypeOK'
  BY <1>1, <1>2, <1>3 DEF TypeOK, Writes
<1>5. Onward(w)
  BY <1>1, <1>3 DEF Onward, Writes
<1>6. Affords(w, t)
  <2>1. /\ In(w, Filing) = 0 /\ In(w, Filing)' = 0 /\ In(w, Promising) = 1 /\ In(w, Promising)' \in 0..1
        /\ In(w, Answering) = 1 /\ In(w, Answering)' \in 0..1
    BY <1>1, <1>3 DEF In, Filing, Promising, Answering
  <2>2. /\ Len(rows'[t]) = Len(rows[t]) + 0 /\ ptps'[t] = ptps[t] + 0
        /\ answers'[t] = answers[t] + 0 /\ causes'[t] = causes[t] + 0
    BY <1>1, Numbers DEF Writes
  <2>3. /\ 0 + In(w, Filing)' <= In(w, Filing) + 0
        /\ 0 + In(w, Promising)' <= In(w, Promising) + 0
        /\ 0 + In(w, Answering)' <= In(w, Answering) + 0
    BY <2>1
  <2>4. TypeOK
    BY <1>1
  <2> QED
    BY <2>2, <2>3, <2>4, AffordsStep
<1>7. RunOk(w)'
  <2>1. FiledUnder(t)' = FiledUnder(t) /\ (TookEffect(t)' <=> TookEffect(t)) /\ (Over(t)' <=> Over(t))
    BY <1>1, SameTables DEF Writes
  <2>2. /\ k = "dnc" => Intent(t) = "BAJA"
        /\ k = "ptp" => Intent(t) = "PTP"
        /\ k \in {"lookup", "done"} => TookEffect(t)
    BY EffectPc DEF TookEffect
  <2>3. rows[t] # <<>> /\ t \in Same(t)
    BY <1>2 DEF FiledUnder, Same
  <2>4. k = "done" => Over(t)
    BY <2>2, <2>3 DEF Over
  <2>5. run[w].kase \in recent'
    BY <1>1
  <2> QED
    BY <1>2, <1>3, <2>1, <2>2, <2>4, <2>5 DEF RunOk, Answering
<1> QED
  BY <1>1, <1>4, <1>5, <1>6, <1>7, Numbers, OnwardKeeps DEF Writes

LEMMA markDncKeeps ==
  ASSUME IInv, NEW w \in Workers, markDnc(w)
  PROVE  IInv'
<1> PICK t \in Texts : t = run[w].text
  BY DEF IInv, RunOk, markDnc
<1>1. /\ TypeOK /\ run[w].pc = "dnc" /\ RunOk(w) /\ Goto(w, "lookup")
      /\ dnc' = dnc \cup {c \in Contacts : PhoneOf[c] = FromOf[t]}
      /\ rows' = rows /\ recent' = recent /\ ptps' = ptps /\ answers' = answers /\ Writes
  BY DEF IInv, markDnc, Silence
<1>2. run[w].kase \in Contacts /\ FiledUnder(t) # {} /\ Intent(t) = "BAJA" /\ "baja" \in WordsOf[t]
  BY <1>1, EffectPc DEF RunOk, Answering
<1>3. /\ run' \in [Workers -> Run] /\ run'[w].pc = "lookup" /\ run'[w].text = t
      /\ run'[w].kase = run[w].kase
      /\ \A v \in Workers : v # w => run'[v] = run[v]
  BY <1>1, GotoTypes DEF Pc
<1>4. TypeOK'
  BY <1>1, <1>3 DEF TypeOK, Writes
<1>5. Onward(w)
  BY <1>1, <1>3 DEF Onward, Writes
<1>6. Affords(w, t)
  <2>1. /\ In(w, Filing) = 0 /\ In(w, Filing)' = 0 /\ In(w, Promising) = 0 /\ In(w, Promising)' = 0
        /\ In(w, Answering) = 1 /\ In(w, Answering)' = 1
    BY <1>1, <1>3 DEF In, Filing, Promising, Answering
  <2>2. /\ Len(rows'[t]) = Len(rows[t]) + 0 /\ ptps'[t] = ptps[t] + 0
        /\ answers'[t] = answers[t] + 0 /\ causes'[t] = causes[t] + 0
    BY <1>1, Numbers DEF Writes
  <2>3. /\ 0 + In(w, Filing)' <= In(w, Filing) + 0
        /\ 0 + In(w, Promising)' <= In(w, Promising) + 0
        /\ 0 + In(w, Answering)' <= In(w, Answering) + 0
    BY <2>1
  <2>4. TypeOK
    BY <1>1
  <2> QED
    BY <2>2, <2>3, <2>4, AffordsStep
<1>7. RunOk(w)'
  <2>1. TookEffect(t)'
    BY <1>1, <1>2 DEF TookEffect
  <2>2. FiledUnder(t)' # {}
    BY <1>1, <1>2 DEF FiledUnder
  <2>3. run[w].kase \in recent' \/ t \in slow'
    BY <1>1 DEF RunOk, Writes
  <2> QED
    BY <1>2, <1>3, <2>1, <2>2, <2>3 DEF RunOk, Answering
<1>8. \A c \in dnc' \ dnc : "baja" \in WordsOf[t] /\ FromOf[t] = PhoneOf[c] /\ FiledUnder(t) # {}
  BY <1>1, <1>2
<1> QED
  BY <1>1, <1>4, <1>5, <1>6, <1>7, <1>8, Numbers, OnwardKeeps DEF Writes

LEMMA insertPtpKeeps ==
  ASSUME IInv, NEW w \in Workers, insertPtp(w)
  PROVE  IInv'
<1> PICK t \in Texts : t = run[w].text
  BY DEF IInv, RunOk, insertPtp
<1>1. /\ TypeOK /\ run[w].pc = "ptp" /\ RunOk(w) /\ Goto(w, "lookup")
      /\ ptps' = [ptps EXCEPT ![t] = @ + 1]
      /\ rows' = rows /\ recent' = recent /\ dnc' = dnc /\ answers' = answers /\ Writes
  BY DEF IInv, insertPtp, Promise
<1>2. /\ run[w].kase \in Contacts /\ FiledUnder(t) # {} /\ Intent(t) = "PTP"
      /\ "baja" \notin WordsOf[t]
  BY <1>1, EffectPc DEF RunOk, Answering
<1>3. /\ run' \in [Workers -> Run] /\ run'[w].pc = "lookup" /\ run'[w].text = t
      /\ run'[w].kase = run[w].kase
      /\ \A v \in Workers : v # w => run'[v] = run[v]
  BY <1>1, GotoTypes DEF Pc
<1>4. /\ ptps' \in [Texts -> Nat] /\ ptps'[t] = ptps[t] + 1 /\ ptps[t] \in Nat
      /\ \A u \in Texts : u # t => ptps'[u] = ptps[u]
  BY <1>1, CountTypes DEF TypeOK
<1>5. TypeOK'
  BY <1>1, <1>3, <1>4 DEF TypeOK, Writes
<1>6. Onward(w)
  BY <1>1, <1>3, <1>4 DEF Onward, Writes
<1>7. Affords(w, t)
  <2>1. /\ In(w, Filing) = 0 /\ In(w, Filing)' = 0 /\ In(w, Promising) = 1 /\ In(w, Promising)' = 0
        /\ In(w, Answering) = 1 /\ In(w, Answering)' = 1
    BY <1>1, <1>3 DEF In, Filing, Promising, Answering
  <2>2. /\ Len(rows'[t]) = Len(rows[t]) + 0 /\ ptps'[t] = ptps[t] + 1
        /\ answers'[t] = answers[t] + 0 /\ causes'[t] = causes[t] + 0
    BY <1>1, <1>4, Numbers DEF Writes
  <2>3. /\ 0 + In(w, Filing)' <= In(w, Filing) + 0
        /\ 1 + In(w, Promising)' <= In(w, Promising) + 0
        /\ 0 + In(w, Answering)' <= In(w, Answering) + 0
    BY <2>1
  <2>4. TypeOK
    BY <1>1
  <2> QED
    BY <2>2, <2>3, <2>4, AffordsStep
<1>8. RunOk(w)'
  <2>1. ptps'[t] > 0
    BY <1>4
  <2>2. TookEffect(t)'
    BY <1>2, <2>1 DEF TookEffect
  <2>3. FiledUnder(t)' # {}
    BY <1>1, <1>2 DEF FiledUnder
  <2>4. run[w].kase \in recent' \/ t \in slow'
    BY <1>1 DEF RunOk, Writes
  <2> QED
    BY <1>2, <1>3, <2>2, <2>3, <2>4 DEF RunOk, Answering
<1> QED
  BY <1>1, <1>4, <1>5, <1>6, <1>7, <1>8, Numbers, OnwardKeeps DEF Writes

LEMMA addAnswerKeeps ==
  ASSUME IInv, NEW w \in Workers, addAnswer(w)
  PROVE  IInv'
<1> PICK t \in Texts : t = run[w].text
  BY DEF IInv, RunOk, addAnswer
<1>1. /\ TypeOK /\ run[w].pc = "queue" /\ RunOk(w) /\ Goto(w, "done")
      /\ answers' = [answers EXCEPT ![t] = @ + 1]
      /\ rows' = rows /\ recent' = recent /\ dnc' = dnc /\ ptps' = ptps /\ Writes
  BY DEF IInv, addAnswer, Answer
<1>2. FiledUnder(t) # {} /\ TookEffect(t) /\ t \in slow
  BY <1>1 DEF RunOk, Answering
<1>3. /\ run' \in [Workers -> Run] /\ run'[w].pc = "done" /\ run'[w].text = t
      /\ run'[w].kase = run[w].kase
      /\ \A v \in Workers : v # w => run'[v] = run[v]
  BY <1>1, GotoTypes DEF Pc
<1>4. /\ answers' \in [Texts -> Nat] /\ answers'[t] = answers[t] + 1 /\ answers[t] \in Nat
      /\ \A u \in Texts : u # t => answers'[u] = answers[u]
  BY <1>1, CountTypes DEF TypeOK
<1>5. TypeOK'
  BY <1>1, <1>3, <1>4 DEF TypeOK, Writes
<1>6. Onward(w)
  BY <1>1, <1>3, <1>4 DEF Onward, Writes
<1>7. Affords(w, t)
  <2>1. /\ In(w, Filing) = 0 /\ In(w, Filing)' = 0 /\ In(w, Promising) = 0 /\ In(w, Promising)' = 0
        /\ In(w, Answering) = 1 /\ In(w, Answering)' = 0
    BY <1>1, <1>3 DEF In, Filing, Promising, Answering
  <2>2. /\ Len(rows'[t]) = Len(rows[t]) + 0 /\ ptps'[t] = ptps[t] + 0
        /\ answers'[t] = answers[t] + 1 /\ causes'[t] = causes[t] + 0
    BY <1>1, <1>4, Numbers DEF Writes
  <2>3. /\ 0 + In(w, Filing)' <= In(w, Filing) + 0
        /\ 0 + In(w, Promising)' <= In(w, Promising) + 0
        /\ 1 + In(w, Answering)' <= In(w, Answering) + 0
    BY <2>1
  <2>4. TypeOK
    BY <1>1
  <2> QED
    BY <2>2, <2>3, <2>4, AffordsStep
<1>8. RunOk(w)'
  <2>1. rows[t] # <<>> /\ t \in Same(t)
    BY <1>2 DEF FiledUnder, Same
  <2>2. Over(t)
    BY <1>2, <2>1 DEF Over
  <2>3. Over(t)'
    BY <1>1, <2>2, SameTables DEF Writes
  <2> QED
    BY <1>3, <2>3 DEF RunOk, Answering
<1> QED
  BY <1>1, <1>2, <1>4, <1>5, <1>6, <1>7, <1>8, Numbers, OnwardKeeps DEF Writes
-----------------------------------------------------------------------------
(* The steps that fail, with or without their work done. *)

LEMMA ThrowTypes ==
  ASSUME IInv, NEW w \in Workers, NEW t \in Texts, t = run[w].text,
         run[w].pc \notin {"idle", "done", "throw"},
         Cause(t), Goto(w, "throw"), UNCHANGED <<jobs, lastOut, slow>>, faults' \in 0..MaxFaults,
         rows' \in [Texts -> Seq(Contacts \cup {None})], recent' \subseteq Contacts,
         dnc' \subseteq Contacts, ptps' \in [Texts -> Nat], answers' \in [Texts -> Nat]
  PROVE  /\ TypeOK' /\ causes'[t] = causes[t] + 1
         /\ \A u \in Texts : u # t => causes'[u] = causes[u]
         /\ run'[w].pc = "throw" /\ run'[w].text = t
         /\ \A v \in Workers : v # w => run'[v] = run[v]
<1>1. TypeOK
  BY DEF IInv
<1>2. /\ run' \in [Workers -> Run] /\ run'[w].pc = "throw" /\ run'[w].text = t
      /\ \A v \in Workers : v # w => run'[v] = run[v]
  BY <1>1, GotoTypes DEF Pc
<1>3. /\ causes' \in [Texts -> Nat] /\ causes'[t] = causes[t] + 1
      /\ \A u \in Texts : u # t => causes'[u] = causes[u]
  BY <1>1, CountTypes DEF TypeOK, Cause
<1> QED
  BY <1>1, <1>2, <1>3 DEF TypeOK

\* What an attempt that fails may have done.
LEMMA ThrowKeeps ==
  ASSUME IInv, NEW w \in Workers, NEW t \in Texts, t = run[w].text,
         run[w].pc \notin {"idle", "done", "throw"},
         TypeOK', causes'[t] = causes[t] + 1, \A u \in Texts : u # t => causes'[u] = causes[u],
         run'[w].pc = "throw", run'[w].text = t, \A v \in Workers : v # w => run'[v] = run[v],
         jobs' = jobs, slow' = slow, recent \subseteq recent', dnc \subseteq dnc',
         \A u \in Texts : u # t => rows'[u] = rows[u] /\ ptps'[u] = ptps[u] /\ answers'[u] = answers[u],
         NEW a \in 0..1, NEW p \in 0..1, NEW q \in 0..1,
         Len(rows'[t]) = Len(rows[t]) + a, ptps'[t] = ptps[t] + p, answers'[t] = answers[t] + q,
         a = 0 => rows'[t] = rows[t],
         a = 1 => Filable(w) /\ rows'[t] # <<>> /\ FiledUnder(t) \subseteq FiledUnder(t)',
         p = 1 => run[w].pc = "ptp",
         q = 1 => run[w].pc = "queue",
         \A c \in dnc' \ dnc : run[w].pc = "dnc" /\ FromOf[t] = PhoneOf[c]
  PROVE  IInv'
<1>1. TypeOK /\ RunOk(w) /\ ptps[t] \in Nat /\ causes[t] \in Nat /\ answers[t] \in Nat
  BY Numbers DEF IInv
<1>2. Onward(w)
  BY DEF Onward
<1>3. Affords(w, t)
  <2>1. /\ In(w, Filing)' = 1 /\ In(w, Promising)' = 0 /\ In(w, Answering)' = 0
        /\ In(w, Filing) \in 0..1 /\ In(w, Promising) \in 0..1 /\ In(w, Answering) \in 0..1
    BY DEF In, Filing, Promising, Answering
  <2>2. (a = 1 => In(w, Filing) = 1) /\ (p = 1 => In(w, Promising) = 1) /\ (q = 1 => In(w, Answering) = 1)
    BY DEF In, Filing, Promising, Answering, Filable
  <2>3. /\ a + In(w, Filing)' <= In(w, Filing) + 1 /\ p + In(w, Promising)' <= In(w, Promising) + a
        /\ q + In(w, Answering)' <= In(w, Answering) + a
    BY <2>1, <2>2
  <2>4. 1 \in 0..1
    OBVIOUS
  <2> QED
    BY <1>1, <2>3, <2>4, AffordsStep
<1>4. RunOk(w)'
  <2>1. causes'[t] > 0
    BY <1>1
  <2> QED
    BY <2>1 DEF RunOk, Answering
<1>5. \A c \in dnc' \ dnc : "baja" \in WordsOf[t] /\ FromOf[t] = PhoneOf[c] /\ FiledUnder(t) # {}
  BY <1>1, EffectPc DEF RunOk, Answering
<1>6. answers'[t] = answers[t] \/ t \in slow
  <2>1. CASE q = 0
    BY <1>1, <2>1
  <2>2. CASE q = 1
    BY <1>1, <2>2 DEF RunOk
  <2> QED
    BY <2>1, <2>2
<1>7. ptps[t] <= ptps'[t] /\ causes[t] <= causes'[t]
  BY <1>1
<1>8. rows'[t] = rows[t] \/ (/\ Filable(w) /\ rows'[t] # <<>>
                             /\ Len(rows'[t]) = Len(rows[t]) + 1
                             /\ FiledUnder(t) \subseteq FiledUnder(t)')
  <2>1. CASE a = 0
    BY <2>1
  <2>2. CASE a = 1
    BY <2>2
  <2> QED
    BY <2>1, <2>2
<1> QED
  BY <1>2, <1>3, <1>4, <1>5, <1>6, <1>7, <1>8, OnwardKeeps

\* Nothing was done.
LEMMA FailsKeeps ==
  ASSUME IInv, NEW w \in Workers, run[w].pc \notin {"idle", "done", "throw"},
         Cause(run[w].text), Goto(w, "throw"), faults' \in 0..MaxFaults,
         UNCHANGED <<jobs, lastOut, effects, slow>>
  PROVE  IInv'
<1> PICK t \in Texts : t = run[w].text
  BY DEF IInv, RunOk
<1>1. TypeOK /\ Cause(t) /\ UNCHANGED <<jobs, lastOut, slow>>
  BY DEF IInv
<1>2. rows' = rows /\ recent' = recent /\ dnc' = dnc /\ ptps' = ptps /\ answers' = answers
  BY DEF effects
<1>3. /\ TypeOK' /\ causes'[t] = causes[t] + 1
      /\ \A u \in Texts : u # t => causes'[u] = causes[u]
      /\ run'[w].pc = "throw" /\ run'[w].text = t
      /\ \A v \in Workers : v # w => run'[v] = run[v]
  <2>1. /\ rows' \in [Texts -> Seq(Contacts \cup {None})] /\ recent' \subseteq Contacts
        /\ dnc' \subseteq Contacts /\ ptps' \in [Texts -> Nat] /\ answers' \in [Texts -> Nat]
    BY <1>1, <1>2 DEF TypeOK
  <2> QED
    BY <1>1, <2>1, ThrowTypes
<1>4. /\ 0 \in 0..1 /\ rows'[t] = rows[t]
      /\ Len(rows'[t]) = Len(rows[t]) + 0 /\ ptps'[t] = ptps[t] + 0 /\ answers'[t] = answers[t] + 0
  BY <1>1, <1>2, Numbers
<1>5. /\ \A u \in Texts : u # t => rows'[u] = rows[u] /\ ptps'[u] = ptps[u] /\ answers'[u] = answers[u]
      /\ recent \subseteq recent' /\ dnc \subseteq dnc' /\ dnc' \ dnc = {}
  BY <1>2
<1>6. jobs' = jobs /\ slow' = slow /\ 0 # 1
  OBVIOUS
<1> QED
  BY <1>3, <1>4, <1>5, <1>6, ThrowKeeps

LEMMA insertRefusedKeeps ==
  ASSUME IInv, NEW w \in Workers, insertRefused(w)
  PROVE  IInv'
<1>1. faults' \in 0..MaxFaults
  BY DEF IInv, TypeOK, insertRefused
<1> QED
  BY <1>1, FailsKeeps DEF insertRefused, Refused

LEMMA StepFailsKeeps ==
  ASSUME IInv, NEW w \in Workers, StepFails(w)
  PROVE  IInv'
<1>1. faults' \in 0..MaxFaults
  BY FaultType DEF IInv, StepFails
<1> QED
  BY <1>1, FailsKeeps DEF StepFails

LEMMA AnswerLostKeeps ==
  ASSUME IInv, NEW w \in Workers, AnswerLost(w)
  PROVE  IInv'
<1>1. run[w].pc \notin {"idle", "done", "throw"}
  BY DEF AnswerLost, Filable
<1> PICK t \in Texts : t = run[w].text
  BY <1>1 DEF IInv, RunOk
<1>2. /\ TypeOK /\ RunOk(w) /\ Cause(t) /\ Goto(w, "throw") /\ UNCHANGED <<jobs, lastOut, slow>>
      /\ faults' \in 0..MaxFaults /\ jobs' = jobs /\ slow' = slow
      /\ Len(rows[t]) \in Nat /\ ptps[t] \in Nat /\ answers[t] \in Nat
      /\ 0 \in 0..1 /\ 1 \in 0..1 /\ 0 # 1
  BY FaultType, Numbers DEF IInv, AnswerLost
<1>3. CASE Filable(w) /\ File(t, run[w].kase)
  <2>1. run[w].kase \in Contacts \cup {None}
    BY <1>1, <1>2, RunTypes
  <2>2. /\ rows' \in [Texts -> Seq(Contacts \cup {None})]
        /\ \A u \in Texts : u # t => rows'[u] = rows[u]
        /\ rows'[t] # <<>> /\ Len(rows'[t]) = Len(rows[t]) + 1
        /\ FiledUnder(t)' = FiledUnder(t) \cup ({run[w].kase} \ {None})
    BY <1>2, <1>3, <2>1, FileTypes
  <2>3. recent' = recent /\ dnc' = dnc /\ ptps' = ptps /\ answers' = answers
    BY <1>3 DEF File
  <2>4. /\ TypeOK' /\ causes'[t] = causes[t] + 1
        /\ \A u \in Texts : u # t => causes'[u] = causes[u]
        /\ run'[w].pc = "throw" /\ run'[w].text = t
        /\ \A v \in Workers : v # w => run'[v] = run[v]
    <3>1. /\ recent' \subseteq Contacts
          /\ dnc' \subseteq Contacts /\ ptps' \in [Texts -> Nat] /\ answers' \in [Texts -> Nat]
      BY <1>2, <2>3 DEF TypeOK
    <3> QED
      BY <1>1, <1>2, <2>2, <3>1, ThrowTypes
  <2>5. /\ ptps'[t] = ptps[t] + 0 /\ answers'[t] = answers[t] + 0
        /\ FiledUnder(t) \subseteq FiledUnder(t)' /\ dnc' \ dnc = {} /\ dnc \subseteq dnc'
        /\ recent \subseteq recent'
        /\ \A u \in Texts : u # t => rows'[u] = rows[u] /\ ptps'[u] = ptps[u] /\ answers'[u] = answers[u]
    BY <1>2, <2>2, <2>3
  <2> QED
    BY <1>1, <1>2, <1>3, <2>2, <2>4, <2>5, ThrowKeeps
<1>4. ASSUME rows' = rows, recent \subseteq recent', recent' \subseteq Contacts,
             dnc \subseteq dnc', dnc' \subseteq Contacts,
             \A c \in dnc' \ dnc : run[w].pc = "dnc" /\ FromOf[t] = PhoneOf[c],
             ptps' \in [Texts -> Nat], answers' \in [Texts -> Nat],
             \A u \in Texts : u # t => ptps'[u] = ptps[u] /\ answers'[u] = answers[u],
             NEW p \in 0..1, NEW q \in 0..1,
             ptps'[t] = ptps[t] + p, answers'[t] = answers[t] + q,
             p = 1 => run[w].pc = "ptp", q = 1 => run[w].pc = "queue"
      PROVE  IInv'
  <2>1. /\ rows' \in [Texts -> Seq(Contacts \cup {None})] /\ rows'[t] = rows[t]
        /\ \A u \in Texts : u # t => rows'[u] = rows[u] /\ ptps'[u] = ptps[u] /\ answers'[u] = answers[u]
    BY <1>2, <1>4 DEF TypeOK
  <2>2. Len(rows'[t]) = Len(rows[t]) + 0
    BY <1>2, <2>1
  <2>3. /\ TypeOK' /\ causes'[t] = causes[t] + 1
        /\ \A u \in Texts : u # t => causes'[u] = causes[u]
        /\ run'[w].pc = "throw" /\ run'[w].text = t
        /\ \A v \in Workers : v # w => run'[v] = run[v]
    BY ZenonT(30), <1>1, <1>2, <1>4, <2>1, ThrowTypes
  <2> QED
    BY ZenonT(30), <1>1, <1>2, <1>4, <2>1, <2>2, <2>3, ThrowKeeps
<1>5. recent \subseteq Contacts /\ dnc \subseteq Contacts /\ ptps \in [Texts -> Nat] /\ answers \in [Texts -> Nat]
      /\ ptps[t] = ptps[t] + 0 /\ answers[t] = answers[t] + 0
  BY <1>2 DEF TypeOK
<1>6. CASE run[w].pc = "mark" /\ Touch(run[w].kase)
  <2>1. run[w].kase \in Contacts
    BY <1>2, <1>6 DEF RunOk, Answering
  <2>2. /\ rows' = rows /\ recent \subseteq recent' /\ recent' \subseteq Contacts
        /\ dnc' = dnc /\ ptps' = ptps /\ answers' = answers
    BY <1>5, <1>6, <2>1 DEF Touch
  <2>3. dnc \subseteq dnc' /\ dnc' \subseteq Contacts /\ dnc' \ dnc = {}
    BY <1>5, <2>2
  <2> QED
    BY <1>2, <1>4, <1>5, <2>2, <2>3
<1>7. CASE run[w].pc = "dnc" /\ Silence(w)
  <2>1. /\ rows' = rows /\ recent' = recent /\ ptps' = ptps /\ answers' = answers
        /\ dnc' = dnc \cup {c \in Contacts : PhoneOf[c] = FromOf[t]}
    BY <1>7 DEF Silence
  <2>2. /\ dnc \subseteq dnc' /\ dnc' \subseteq Contacts
        /\ \A c \in dnc' \ dnc : run[w].pc = "dnc" /\ FromOf[t] = PhoneOf[c]
        /\ recent \subseteq recent' /\ recent' \subseteq Contacts
    BY <1>5, <1>7, <2>1
  <2> QED
    BY <1>2, <1>4, <1>5, <2>1, <2>2
<1>8. CASE run[w].pc = "ptp" /\ Promise(t)
  <2>1. /\ rows' = rows /\ recent' = recent /\ dnc' = dnc /\ answers' = answers
        /\ ptps' \in [Texts -> Nat] /\ ptps'[t] = ptps[t] + 1
        /\ \A u \in Texts : u # t => ptps'[u] = ptps[u] /\ answers'[u] = answers[u]
    BY <1>5, <1>8, CountTypes DEF Promise
  <2>2. /\ dnc \subseteq dnc' /\ dnc' \subseteq Contacts /\ dnc' \ dnc = {}
        /\ recent \subseteq recent' /\ recent' \subseteq Contacts
    BY <1>5, <2>1
  <2> QED
    BY <1>2, <1>4, <1>5, <1>8, <2>1, <2>2
<1>9. CASE run[w].pc = "queue" /\ Answer(t)
  <2>1. /\ rows' = rows /\ recent' = recent /\ dnc' = dnc /\ ptps' = ptps
        /\ answers' \in [Texts -> Nat] /\ answers'[t] = answers[t] + 1
        /\ \A u \in Texts : u # t => ptps'[u] = ptps[u] /\ answers'[u] = answers[u]
    BY <1>5, <1>9, CountTypes DEF Answer
  <2>2. /\ dnc \subseteq dnc' /\ dnc' \subseteq Contacts /\ dnc' \ dnc = {}
        /\ recent \subseteq recent' /\ recent' \subseteq Contacts
    BY <1>5, <2>1
  <2> QED
    BY <1>2, <1>4, <1>5, <1>9, <2>1, <2>2
<1> QED
  BY <1>3, <1>6, <1>7, <1>8, <1>9 DEF AnswerLost
-----------------------------------------------------------------------------
(* The queue. *)

\* A step of the queue has to show what it does to slots and jobs.
LEMMA QueueKeeps ==
  ASSUME IInv, TypeOK', UNCHANGED <<effects, slow>>,
         \A t \in Texts : causes[t] <= causes'[t],
         \A v \in Workers : run'[v] = run[v] \/ RunOk(v)',
         \A t \in Texts : CountOk(t)' /\ Sole(t)' /\ (jobs'[t].state = "completed" => Over(t))
  PROVE  IInv'
<1>1. TypeOK /\ (\A v \in Workers : RunOk(v)) /\ (\A t \in Texts : TextOk(t))
  BY DEF IInv
<1>2. /\ rows' = rows /\ recent' = recent /\ dnc' = dnc /\ ptps' = ptps /\ answers' = answers
      /\ slow' = slow
  BY DEF effects
<1>3. \A t : FiledUnder(t)' = FiledUnder(t)
  BY <1>2 DEF FiledUnder
<1>4. GrowsAll
  <2>1. ASSUME NEW t \in Texts
        PROVE  Grows(t)
    BY <1>1, <1>2, <1>3, Numbers DEF Grows
  <2> QED
    BY <1>2, <2>1 DEF GrowsAll
<1>5. \A t : Settles(t)
  BY <1>3 DEF Settles
<1>6. ASSUME NEW v \in Workers
      PROVE  RunOk(v)'
  <2>1. CASE run'[v] = run[v]
    BY <1>1, <1>2, <1>4, <1>5, <2>1, RunStays
  <2> QED
    BY <2>1
<1>7. ASSUME NEW t \in Texts
      PROVE  TextOk(t)'
  <2>1. IdOk(t)'
    BY <1>1, <1>2 DEF TextOk, IdOk
  <2>2. jobs'[t].state = "completed" => Over(t)'
    BY <1>1, <1>4, <1>5, OverStays
  <2> QED
    BY <2>1, <2>2 DEF TextOk
<1>8. DncOk' /\ AnswerNeedsDelay'
  BY <1>2, <1>4, DncStays, DelayStays DEF IInv
<1> QED
  BY <1>6, <1>7, <1>8 DEF IInv

LEMMA addJobKeeps ==
  ASSUME IInv, NEW t \in Texts, addJob(t)
  PROVE  IInv'
<1>1. TypeOK /\ (\A u \in Texts : TextOk(u)) /\ jobs[t].state = "none"
  BY DEF IInv, addJob
<1>2. /\ jobs' = [jobs EXCEPT ![t] = [jobs[t] EXCEPT !.state = "waiting"]]
      /\ [jobs[t] EXCEPT !.state = "waiting"] \in Job
      /\ [jobs[t] EXCEPT !.state = "waiting"].state = "waiting"
  BY <1>1 DEF addJob, TypeOK, Job
<1>3. /\ jobs' \in [Texts -> Job] /\ jobs'[t].state = "waiting"
      /\ \A u \in Texts : u # t => jobs'[u] = jobs[u]
  BY <1>1, <1>2 DEF TypeOK
<1>4. run' = run /\ UNCHANGED <<lastOut, effects, causes, slow, faults>>
  BY DEF addJob
<1>5. TypeOK'
  BY <1>1, <1>3, <1>4 DEF TypeOK, effects
<1>6. ASSUME NEW u \in Texts
      PROVE  CountOk(u)' /\ Sole(u)' /\ (jobs'[u].state = "completed" => Over(u))
  <2>1. Room(u)' = Room(u)
    BY <1>1, <1>3 DEF Room
  <2>2. \A S : Slots(u, S)' = Slots(u, S)
    BY <1>4 DEF Slots
  <2>3. CountOk(u)'
    BY <1>1, <1>4, <2>1, <2>2 DEF TextOk, CountOk, effects
  <2>4. Sole(u)'
    BY <1>1, <1>3, <1>4 DEF TextOk, Sole
  <2> QED
    BY <1>1, <1>3, <2>3, <2>4 DEF TextOk
<1>7. \A u \in Texts : causes[u] <= causes'[u]
  BY <1>1, <1>4, Numbers
<1> QED
  BY <1>4, <1>5, <1>6, <1>7, QueueKeeps

LEMMA TakeKeeps ==
  ASSUME IInv, NEW w \in Workers, NEW t \in Texts, Take(w, t)
  PROVE  IInv'
<1>1. /\ TypeOK /\ (\A u \in Texts : TextOk(u)) /\ jobs[t].state = "waiting"
      /\ run[w] = NoRun
  BY DEF IInv, Take, RunOk
<1> PICK k \in {"dup", "out"} : k = IF IdOf[t] = None THEN "out" ELSE "dup"
  OBVIOUS
<1>2. /\ jobs' \in [Texts -> Job] /\ jobs'[t].state = "active" /\ jobs'[t].by = w
      /\ \A u \in Texts : u # t => jobs'[u] = jobs[u]
  BY <1>1, JobTypes DEF Take, TypeOK
<1>3. /\ run' \in [Workers -> Run] /\ run'[w].pc = k /\ run'[w].text = t
      /\ run'[w].kase = None
      /\ \A v \in Workers : v # w => run'[v] = run[v]
  <2>1. run' = [run EXCEPT ![w] = [NoRun EXCEPT !.text = t, !.pc = k]]
    BY DEF Take
  <2>2. /\ [NoRun EXCEPT !.text = t, !.pc = k] \in Run
        /\ [NoRun EXCEPT !.text = t, !.pc = k].pc = k
        /\ [NoRun EXCEPT !.text = t, !.pc = k].text = t
        /\ [NoRun EXCEPT !.text = t, !.pc = k].kase = None
    BY DEF NoRun, Run, Pc
  <2> QED
    BY <1>1, <2>1, <2>2 DEF TypeOK
<1>4. UNCHANGED <<lastOut, effects, causes, slow, faults>>
  BY DEF Take
<1>5. TypeOK'
  BY <1>1, <1>2, <1>3, <1>4 DEF TypeOK, effects
<1>6. ASSUME NEW u \in Texts
      PROVE  CountOk(u)' /\ Sole(u)' /\ (jobs'[u].state = "completed" => Over(u))
  <2>1. /\ Len(rows[u]) \in Nat /\ ptps[u] \in Nat /\ answers[u] \in Nat /\ causes[u] \in Nat
        /\ rows' = rows /\ ptps' = ptps /\ answers' = answers /\ causes' = causes
    BY <1>1, <1>4, Numbers DEF effects
  <2>2. CASE u = t
    <3>1. \A S : w \notin Slots(u, S)
      BY <1>1, NoRunType, NoneAssumption DEF Slots
    <3>2. w \in Slots(u, Filing)' /\ w \notin Slots(u, Promising)' /\ w \notin Slots(u, Answering)'
      BY <1>3, <2>2 DEF Slots, Filing, Promising, Answering
    <3>3. Room(u) = 1 /\ Room(u)' = 0
      BY <1>1, <1>2, <2>2 DEF Room
    <3>4. CountOk(u)
      BY <1>1 DEF TextOk
    <3>5. (Len(rows[u]) + 0) + Cardinality(Slots(u, Filing)') <= 1 + causes[u]
      <4>1. (Len(rows[u]) + 1) + Cardinality(Slots(u, Filing)) <= 1 + causes[u]
        BY <3>3, <3>4 DEF CountOk
      <4>2. (Len(rows[u]) + 0) + 1 + (1 + causes[u]) <= (Len(rows[u]) + 1) + 0 + (1 + causes[u])
            /\ Len(rows[u]) + 0 \in Nat /\ Len(rows[u]) + 1 \in Nat /\ 1 + causes[u] \in Nat
        BY <2>1
      <4>3. (IF w \in Slots(u, Filing)' THEN 1 ELSE 0) = 1 /\ (IF w \in Slots(u, Filing) THEN 1 ELSE 0) = 0
        BY <3>1, <3>2
      <4> QED
        BY <1>3, <4>1, <4>2, <4>3, Balance
    <3>6. ASSUME NEW S, w \notin Slots(u, S)'
          PROVE  Cardinality(Slots(u, S)') = Cardinality(Slots(u, S))
      <4>1. Slots(u, S)' = Slots(u, S)
        BY <1>3, <3>1, <3>6 DEF Slots
      <4> QED
        BY <4>1
    <3>7. CountOk(u)'
      <4>1. /\ Cardinality(Slots(u, Promising)') = Cardinality(Slots(u, Promising))
            /\ Cardinality(Slots(u, Answering)') = Cardinality(Slots(u, Answering))
        BY <3>2, <3>6
      <4>2. /\ ptps[u] + Cardinality(Slots(u, Promising)') <= Len(rows[u])
            /\ answers[u] + Cardinality(Slots(u, Answering)') <= Len(rows[u])
        BY <3>4, <4>1 DEF CountOk
      <4> QED
        BY <2>1, <3>3, <3>5, <4>2 DEF CountOk
    <3>8. Sole(u)'
      BY <1>1, <1>2, <1>3, <1>4, <2>2 DEF TextOk, Sole
    <3> QED
      BY <1>2, <2>2, <3>7, <3>8
  <2>3. CASE u # t
    <3>1. \A S : Slots(u, S)' = Slots(u, S)
      BY <1>1, <1>3, <2>3, NoRunType, NoneAssumption DEF Slots
    <3>2. jobs'[u] = jobs[u] /\ Room(u)' = Room(u)
      BY <1>2, <2>3 DEF Room
    <3>3. CountOk(u)'
      BY <1>1, <2>1, <3>1, <3>2 DEF TextOk, CountOk
    <3>4. Sole(u)'
      BY <1>1, <1>3, <2>1, <2>3, <3>2 DEF TextOk, Sole
    <3> QED
      BY <1>1, <3>2, <3>3, <3>4 DEF TextOk
  <2> QED
    BY <2>2, <2>3
<1>7. RunOk(w)'
  BY <1>3 DEF RunOk, Answering
<1>8. \A v \in Workers : run'[v] = run[v] \/ RunOk(v)'
  BY <1>3, <1>7
<1>9. \A u \in Texts : causes[u] <= causes'[u]
  BY <1>1, <1>4, Numbers
<1> QED
  BY <1>4, <1>5, <1>6, <1>8, <1>9, QueueKeeps

\* Complete and Retry: the slot is free; the job changes if the slot still has it.
LEMMA SettleKeeps ==
  ASSUME IInv, NEW w \in Workers, run[w].pc \in {"done", "throw"}, NEW q, Settle(w, q),
         q \in Job,
         run[w].pc = "done" => q.state = "completed",
         run[w].pc = "throw" => q.state \in {"waiting", "failed"}
  PROVE  IInv'
<1> PICK t \in Texts : t = run[w].text
  BY DEF IInv, RunOk
<1>1. TypeOK /\ (\A u \in Texts : TextOk(u)) /\ RunOk(w)
  BY DEF IInv
<1>2. /\ jobs' \in [Texts -> Job]
      /\ jobs'[t] = IF jobs[t].by = w THEN q ELSE jobs[t]
      /\ \A u \in Texts : u # t => jobs'[u] = jobs[u]
  BY <1>1 DEF Settle, Settled, TypeOK
<1>3. /\ run' \in [Workers -> Run] /\ run'[w] = NoRun
      /\ \A v \in Workers : v # w => run'[v] = run[v]
  BY <1>1, NoRunType DEF Settle, TypeOK
<1>4. UNCHANGED <<lastOut, effects, causes, slow, faults>>
  BY DEF Settle
<1>5. TypeOK'
  BY <1>1, <1>2, <1>3, <1>4 DEF TypeOK, effects
<1>6. ASSUME NEW u \in Texts
      PROVE  CountOk(u)' /\ Sole(u)' /\ (jobs'[u].state = "completed" => Over(u))
  <2>1. /\ Len(rows[u]) \in Nat /\ ptps[u] \in Nat /\ answers[u] \in Nat /\ causes[u] \in Nat
        /\ rows' = rows /\ ptps' = ptps /\ answers' = answers /\ causes' = causes
    BY <1>1, <1>4, Numbers DEF effects
  <2>2. \A S : w \notin Slots(u, S)'
    BY <1>3, NoRunType, NoneAssumption DEF Slots
  <2>3. CASE u = t
    <3>1. CountOk(u) /\ Room(u) \in 0..1 /\ Room(u)' \in 0..1
      BY <1>1 DEF TextOk, Room
    <3>2. PICK a \in 0..1 : a = IF w \in Slots(u, Filing) THEN 1 ELSE 0
      OBVIOUS
    <3>3. Room(u)' <= Room(u) + a
      <4>1. CASE jobs'[u] = jobs[u]
        BY <3>1, <4>1 DEF Room
      <4>2. CASE run[w].pc = "done" /\ jobs'[u] = q
        BY <3>1, <4>2 DEF Room
      <4>3. CASE run[w].pc = "throw"
        <5>1. a = 1
          BY <2>3, <3>2, <4>3 DEF Slots, Filing
        <5> QED
          BY <3>1, <5>1
      <4> QED
        BY <1>2, <2>3, <4>1, <4>2, <4>3
    <3>4. (Len(rows[u]) + Room(u)') + Cardinality(Slots(u, Filing)') <= 1 + causes[u]
      <4>1. PICK n \in Nat, m \in Nat, k \in Nat :
              n = Len(rows[u]) + Room(u) /\ m = Len(rows[u]) + Room(u)' /\ k = 1 + causes[u]
        <5>1. PICK l \in Nat, e \in 0..1, f \in 0..1, g \in Nat :
                l = Len(rows[u]) /\ e = Room(u) /\ f = Room(u)' /\ g = causes[u]
          BY <2>1, <3>1
        <5>2. l + e \in Nat /\ l + f \in Nat /\ 1 + g \in Nat
          OBVIOUS
        <5> QED
          BY <5>1, <5>2
      <4>2. n + Cardinality(Slots(u, Filing)) <= k
        BY <3>1, <4>1 DEF CountOk
      <4>3. m + 0 + k <= n + a + k
        BY <2>1, <3>1, <3>3, <4>1
      <4>4. (IF w \in Slots(u, Filing)' THEN 1 ELSE 0) = 0
        BY <2>2
      <4>5. m + Cardinality(Slots(u, Filing)') <= k
        BY <1>3, <3>2, <4>2, <4>3, <4>4, Balance
      <4> QED
        BY <4>1, <4>5
    <3>5. ASSUME NEW S, NEW n \in Nat, n + Cardinality(Slots(u, S)) <= Len(rows[u])
          PROVE  n + Cardinality(Slots(u, S)') <= Len(rows[u])
      <4>1. PICK b \in 0..1 : b = IF w \in Slots(u, S) THEN 1 ELSE 0
        OBVIOUS
      <4>2. n + 0 + Len(rows[u]) <= n + b + Len(rows[u])
        BY <2>1
      <4>3. (IF w \in Slots(u, S)' THEN 1 ELSE 0) = 0
        BY <2>2
      <4> QED
        BY <1>3, <2>1, <3>5, <4>1, <4>2, <4>3, Balance
    <3>6. CountOk(u)'
      <4>1. /\ ptps[u] + Cardinality(Slots(u, Promising)') <= Len(rows[u])
            /\ answers[u] + Cardinality(Slots(u, Answering)') <= Len(rows[u])
        BY <2>1, <3>1, <3>5 DEF CountOk
      <4> QED
        BY <2>1, <3>4, <4>1 DEF CountOk
    <3>7. Sole(u)'
      <4>1. causes[u] = 0 => \A v \in Workers : run'[v].text # u
        BY <1>1, <1>3, <2>3, NoRunType, NoneAssumption DEF TextOk, Sole
      <4> QED
        BY <2>1, <4>1 DEF Sole
    <3>8. jobs'[u].state = "completed" => Over(u)
      <4>1. run[w].pc = "done" => Over(u)
        BY <1>1, <2>3 DEF RunOk
      <4> QED
        BY <1>1, <1>2, <2>3, <4>1 DEF TextOk
    <3> QED
      BY <3>6, <3>7, <3>8
  <2>4. CASE u # t
    <3>1. \A S : Slots(u, S)' = Slots(u, S)
      BY <1>3, <2>4, NoRunType, NoneAssumption DEF Slots
    <3>2. jobs'[u] = jobs[u] /\ Room(u)' = Room(u)
      BY <1>2, <2>4 DEF Room
    <3>3. CountOk(u)'
      BY <1>1, <2>1, <3>1, <3>2 DEF TextOk, CountOk
    <3>4. Sole(u)'
      BY <1>1, <1>3, <2>1, <3>2, NoRunType, NoneAssumption DEF TextOk, Sole
    <3> QED
      BY <1>1, <3>2, <3>3, <3>4 DEF TextOk
  <2> QED
    BY <2>3, <2>4
<1>7. RunOk(w)'
  BY <1>3, NoRunType DEF RunOk, Answering
<1>8. \A v \in Workers : run'[v] = run[v] \/ RunOk(v)'
  BY <1>3, <1>7
<1>9. \A u \in Texts : causes[u] <= causes'[u]
  BY <1>1, <1>4, Numbers
<1> QED
  BY <1>4, <1>5, <1>6, <1>8, <1>9, QueueKeeps

LEMMA CompleteKeeps ==
  ASSUME IInv, NEW w \in Workers, Complete(w)
  PROVE  IInv'
<1> PICK t \in Texts : t = run[w].text
  BY DEF IInv, RunOk, Complete
<1> PICK q : q = Completed(jobs[t])
  OBVIOUS
<1>1. q \in Job /\ q.state = "completed"
  BY JobTypes DEF IInv, TypeOK
<1> QED
  BY <1>1, SettleKeeps DEF Complete

LEMMA RetryKeeps ==
  ASSUME IInv, NEW w \in Workers, Retry(w)
  PROVE  IInv'
<1> PICK t \in Texts : t = run[w].text
  BY DEF IInv, RunOk, Retry
<1> PICK q : q = Retried(jobs[t], AttemptsOf[t])
  OBVIOUS
<1>1. q \in Job /\ q.state \in {"waiting", "failed"}
  BY JobTypes DEF IInv, TypeOK
<1> QED
  BY <1>1, SettleKeeps DEF Retry

LEMMA StallKeeps ==
  ASSUME IInv, NEW t \in Texts, jobs[t].state = "active", Stall(t), faults' \in 0..MaxFaults
  PROVE  IInv'
<1>1. TypeOK /\ (\A u \in Texts : TextOk(u))
  BY DEF IInv
<1>2. /\ jobs' \in [Texts -> Job] /\ jobs'[t].state \in {"waiting", "failed"}
      /\ \A u \in Texts : u # t => jobs'[u] = jobs[u]
  BY <1>1, JobTypes DEF Stall, TypeOK
<1>3. /\ causes' \in [Texts -> Nat] /\ causes'[t] = causes[t] + 1 /\ causes[t] \in Nat
      /\ \A u \in Texts : u # t => causes'[u] = causes[u]
  BY <1>1, CountTypes DEF Stall, Cause, TypeOK
<1>4. run' = run /\ UNCHANGED <<lastOut, effects, slow>>
  BY DEF Stall
<1>5. TypeOK'
  BY <1>1, <1>2, <1>3, <1>4 DEF TypeOK, effects
<1>6. ASSUME NEW u \in Texts
      PROVE  CountOk(u)' /\ Sole(u)' /\ (jobs'[u].state = "completed" => Over(u))
  <2>1. /\ rows' = rows /\ ptps' = ptps /\ answers' = answers
        /\ \A S : Slots(u, S)' = Slots(u, S)
    BY <1>4 DEF effects, Slots
  <2>2. CASE u = t
    <3>1. Room(u) = 0 /\ Room(u)' \in 0..1 /\ CountOk(u)
      BY <1>1, <2>2 DEF Room, TextOk
    <3>2. /\ Len(rows[u]) \in Nat /\ causes[u] \in Nat /\ causes'[u] = causes[u] + 1
          /\ Cardinality(Slots(u, Filing)) \in Nat
      <4>1. Slots(u, Filing) \in SUBSET Workers
        BY DEF Slots
      <4> QED
        BY <1>1, <1>3, <2>2, <4>1, Numbers, Sizes, WorkersAssumption
    <3>3. (Len(rows[u]) + Room(u)') + Cardinality(Slots(u, Filing)) <= 1 + causes'[u]
      <4>1. PICK a \in Nat, b \in Nat, c \in Nat, d \in 0..1 :
              /\ a = Len(rows[u]) /\ b = Cardinality(Slots(u, Filing)) /\ c = causes[u]
              /\ d = Room(u)'
        BY <3>1, <3>2
      <4>2. (a + 0) + b <= 1 + c
        BY <3>1, <4>1 DEF CountOk
      <4>3. (a + d) + b <= 1 + (c + 1)
        BY <4>2
      <4> QED
        BY <3>2, <4>1, <4>3
    <3>4. CountOk(u)'
      BY <2>1, <3>1, <3>3 DEF CountOk
    <3>5. causes'[u] # 0
      BY <3>2
    <3> QED
      BY <1>2, <2>2, <3>4, <3>5 DEF Sole
  <2>3. CASE u # t
    <3>1. jobs'[u] = jobs[u] /\ Room(u)' = Room(u) /\ causes'[u] = causes[u]
      BY <1>2, <1>3, <2>3 DEF Room
    <3>2. CountOk(u)'
      BY <1>1, <2>1, <3>1 DEF TextOk, CountOk
    <3>3. Sole(u)'
      BY ZenonT(30), <1>1, <1>4, <3>1 DEF TextOk, Sole
    <3> QED
      BY <1>1, <3>1, <3>2, <3>3 DEF TextOk
  <2> QED
    BY <2>2, <2>3
<1>7. \A u \in Texts : causes[u] <= causes'[u]
  BY <1>1, <1>3, Numbers
<1> QED
  BY <1>4, <1>5, <1>6, <1>7, QueueKeeps

LEMMA RestartKeeps ==
  ASSUME IInv, Restart
  PROVE  IInv'
<1>1. TypeOK /\ (\A u \in Texts : TextOk(u)) /\ faults' \in 0..MaxFaults
  BY FaultType DEF IInv, Restart
<1>2. /\ run' \in [Workers -> Run] /\ \A v \in Workers : run'[v] = NoRun
  BY NoRunType DEF Restart
<1>3. UNCHANGED <<jobs, lastOut, effects, causes, slow>>
  BY DEF Restart
<1>4. TypeOK'
  BY <1>1, <1>2, <1>3 DEF TypeOK, effects
<1>5. ASSUME NEW u \in Texts
      PROVE  CountOk(u)' /\ Sole(u)' /\ (jobs'[u].state = "completed" => Over(u))
  <2>1. /\ rows' = rows /\ ptps' = ptps /\ answers' = answers /\ causes' = causes /\ jobs' = jobs
        /\ Room(u)' = Room(u)
    BY <1>3 DEF effects, Room
  <2>2. \A v \in Workers : run'[v].text # u
    BY <1>2, NoRunType, NoneAssumption
  <2>3. ASSUME NEW S, NEW n \in Nat, NEW k \in Nat, n + Cardinality(Slots(u, S)) <= k
        PROVE  n + Cardinality(Slots(u, S)') <= k
    <3>1. Slots(u, S)' = {} /\ Slots(u, S) \in SUBSET Workers
      BY <2>2 DEF Slots
    <3>2. Cardinality(Slots(u, S)') = 0 /\ Cardinality(Slots(u, S)) \in Nat
      BY <3>1, FS_EmptySet, Sizes, WorkersAssumption
    <3> QED
      BY <2>3, <3>2
  <2>4. CountOk(u) /\ Len(rows[u]) \in Nat /\ ptps[u] \in Nat /\ answers[u] \in Nat
        /\ Len(rows[u]) + Room(u) \in Nat /\ 1 + causes[u] \in Nat
    BY <1>1, Numbers DEF TextOk
  <2>5. CountOk(u)'
    BY <2>1, <2>3, <2>4 DEF CountOk
  <2> QED
    BY <1>1, <2>1, <2>2, <2>5 DEF Sole, TextOk
<1>6. \A v \in Workers : RunOk(v)'
  BY <1>2, NoRunType DEF RunOk, Answering
<1>7. \A u \in Texts : causes[u] <= causes'[u]
  BY <1>1, <1>3, Numbers
<1> QED
  BY <1>3, <1>4, <1>5, <1>6, <1>7, QueueKeeps

LEMMA HoursPassKeeps ==
  ASSUME IInv, NEW c \in Contacts, HoursPass(c)
  PROVE  IInv'
<1>1. TypeOK /\ (\A v \in Workers : RunOk(v)) /\ (\A t \in Texts : TextOk(t))
  BY DEF IInv
<1>2. /\ UNCHANGED <<jobs, run, lastOut, rows, dnc, ptps, answers, causes, faults>>
      /\ recent' = recent \ {c}
      /\ slow' = slow \cup {run[w].text : w \in {v \in Workers : run[v].kase = c}}
  BY DEF HoursPass
<1>3. \A v \in Workers : run[v].kase = c => run[v].text \in Texts
  BY <1>1, NoRunType, NoneAssumption DEF RunOk
<1>4. TypeOK'
  BY <1>1, <1>2, <1>3 DEF TypeOK
<1>5. GrowsAll
  <2>1. ASSUME NEW t \in Texts
        PROVE  Grows(t)
    BY <1>1, <1>2, Numbers DEF Grows, FiledUnder
  <2> QED
    BY <1>2, <2>1 DEF GrowsAll
<1>6. \A t : Settles(t)
  BY <1>2 DEF Settles, FiledUnder
<1>7. ASSUME NEW v \in Workers
      PROVE  RunOk(v)'
  <2>1. run[v].kase \in recent => run[v].kase \in recent' \/ run[v].text \in slow'
    BY <1>2
  <2> QED
    BY <1>1, <1>2, <1>4, <1>5, <1>6, <2>1, RunStays
<1>8. ASSUME NEW t \in Texts
      PROVE  TextOk(t)'
  <2>1. CountOk(t)' /\ IdOk(t)' /\ Sole(t)'
    BY <1>1, <1>2 DEF TextOk, CountOk, IdOk, Sole, Room, Slots
  <2>2. Over(t)' <=> Over(t)
    BY <1>2, SameTables
  <2> QED
    BY <1>1, <1>2, <2>1, <2>2 DEF TextOk
<1>9. DncOk' /\ AnswerNeedsDelay'
  BY <1>2, <1>5, DncStays, DelayStays DEF IInv
<1> QED
  BY <1>4, <1>7, <1>8, <1>9 DEF IInv
-----------------------------------------------------------------------------
(* The theorems. *)

LEMMA InitInv == Init => IInv
<1> SUFFICES ASSUME Init
             PROVE  IInv
  OBVIOUS
<1>1. [Queued EXCEPT !.state = "none"] \in Job /\ [Queued EXCEPT !.state = "none"].state = "none"
  BY DEF Queued, Job
<1>2. TypeOK
  <2>1. jobs \in [Texts -> Job] /\ run \in [Workers -> Run]
    BY <1>1, NoRunType DEF Init
  <2>2. /\ rows \in [Texts -> Seq(Contacts \cup {None})] /\ ptps \in [Texts -> Nat]
        /\ answers \in [Texts -> Nat] /\ causes \in [Texts -> Nat] /\ faults \in 0..MaxFaults
    BY BoundsAssumption DEF Init
  <2> QED
    BY <2>1, <2>2 DEF Init, TypeOK
<1>3. ASSUME NEW w \in Workers
      PROVE  run[w] = NoRun /\ RunOk(w)
  BY NoRunType DEF Init, RunOk, Answering
<1>4. ASSUME NEW t \in Texts
      PROVE  TextOk(t)
  <2>1. \A S : Slots(t, S) = {}
    BY <1>3, NoRunType, NoneAssumption DEF Slots
  <2>2. \A S : Cardinality(Slots(t, S)) = 0
    BY <2>1, FS_EmptySet
  <2>3. jobs[t].state = "none" /\ rows[t] = <<>> /\ ptps[t] = 0 /\ answers[t] = 0 /\ causes[t] = 0
    BY <1>1 DEF Init
  <2>4. Room(t) = 1 /\ Len(rows[t]) = 0
    BY <2>3 DEF Room
  <2>5. CountOk(t)
    BY <2>2, <2>3, <2>4 DEF CountOk
  <2>6. Sole(t)
    BY <1>3, NoRunType, NoneAssumption DEF Sole
  <2> QED
    BY <2>3, <2>5, <2>6 DEF TextOk, IdOk
<1>5. DncOk /\ AnswerNeedsDelay
  BY DEF Init, DncOk, AnswerNeedsDelay
<1> QED
  BY <1>2, <1>3, <1>4, <1>5 DEF IInv

LEMMA StepInv == IInv /\ [Next]_vars => IInv'
<1> SUFFICES ASSUME IInv, [Next]_vars
             PROVE  IInv'
  OBVIOUS
<1>1. ASSUME NEW t \in Texts, addJob(t)
      PROVE  IInv'
  BY <1>1, addJobKeeps
<1>2. ASSUME NEW t \in Texts, StalledFound(t)
      PROVE  IInv'
  <2>1. faults' \in 0..MaxFaults
    BY <1>2 DEF StalledFound, IInv, TypeOK
  <2> QED
    BY <1>2, <2>1, StallKeeps DEF StalledFound
<1>3. ASSUME NEW t \in Texts, LockLost(t)
      PROVE  IInv'
  <2>1. faults' \in 0..MaxFaults
    BY <1>3, FaultType DEF LockLost, IInv
  <2> QED
    BY <1>3, <2>1, StallKeeps DEF LockLost
<1>4. ASSUME NEW c \in Contacts, HoursPass(c)
      PROVE  IInv'
  BY <1>4, HoursPassKeeps
<1>5. ASSUME NEW w \in Workers, NEW t \in Texts, Take(w, t)
      PROVE  IInv'
  BY <1>5, TakeKeeps
<1>6. ASSUME NEW w \in Workers,
             findDuplicate(w) \/ lastMessage(w) \/ findContact(w) \/ findCase(w) \/ maybeAutoReply(w)
      PROVE  IInv'
  BY <1>6, findDuplicateKeeps, lastMessageKeeps, findContactKeeps, findCaseKeeps,
     maybeAutoReplyKeeps
<1>7. ASSUME NEW w \in Workers,
             \/ insertReply(w) \/ markInbound(w) \/ markDnc(w) \/ insertPtp(w) \/ addAnswer(w)
             \/ insertRefused(w) \/ StepFails(w) \/ AnswerLost(w)
      PROVE  IInv'
  BY <1>7, insertReplyKeeps, markInboundKeeps, markDncKeeps, insertPtpKeeps, addAnswerKeeps,
     insertRefusedKeeps, StepFailsKeeps, AnswerLostKeeps
<1>8. ASSUME NEW w \in Workers, Complete(w) \/ Retry(w)
      PROVE  IInv'
  BY <1>8, CompleteKeeps, RetryKeeps
<1>9. CASE Restart
  BY <1>9, RestartKeeps
<1>10. CASE UNCHANGED vars
  <2>1. /\ UNCHANGED <<jobs, run, lastOut, rows, recent, dnc, ptps, answers, causes, slow, faults>>
    BY <1>10 DEF vars, effects
  <2>2. TypeOK'
    BY <2>1 DEF IInv, TypeOK
  <2>3. UNCHANGED <<effects, slow>> /\ \A t \in Texts : causes[t] <= causes'[t]
    BY <2>1, Numbers DEF IInv, effects
  <2>4. ASSUME NEW t \in Texts
        PROVE  CountOk(t)' /\ Sole(t)' /\ (jobs'[t].state = "completed" => Over(t))
    <3>1. Room(t)' = Room(t) /\ \A S : Slots(t, S)' = Slots(t, S)
      BY <2>1 DEF Room, Slots
    <3>2. TextOk(t)
      BY DEF IInv
    <3>3. CountOk(t)'
      BY <2>1, <3>1, <3>2 DEF TextOk, CountOk
    <3> QED
      BY <2>1, <3>2, <3>3 DEF TextOk, Sole
  <2> QED
    BY <2>1, <2>2, <2>3, <2>4, QueueKeeps
<1> QED
  BY <1>1, <1>2, <1>3, <1>4, <1>5, <1>6, <1>7, <1>8, <1>9, <1>10 DEF Next, Work

\* The invariant holds, whatever fails.
THEOREM Invariance == Spec => []IInv
  BY InitInv, StepInv, PTL DEF Spec

\* Type correctness: every variable of the queue, the processors and the tables
\* keeps the type the code gives it.
THEOREM TypeCorrect == Spec => []TypeOK
<1>1. IInv => TypeOK
  BY DEF IInv
<1> QED
  BY <1>1, Invariance, PTL

\* The processor and the unique externalId: one row for each attempt with a cause
\* of its own, one row in all under an id, and no more effects than rows.
THEOREM FiledOnce == Spec => []OnceOrForCause
<1>1. ASSUME IInv, NEW t \in Texts
      PROVE  /\ Len(rows[t]) <= 1 + causes[t] /\ ptps[t] <= 1 + causes[t]
             /\ answers[t] <= 1 + causes[t]
             /\ IdOf[t] # None =>
                 /\ Len(rows[t]) <= 1 /\ ptps[t] <= 1 /\ answers[t] <= 1
                 /\ ptps[t] + answers[t] > 0 => rows[t] # <<>>
                 /\ rows[t] # <<>> => \A u \in Same(t) \ {t} : rows[u] = <<>>
  <2>1. TypeOK /\ CountOk(t) /\ IdOk(t)
    BY <1>1 DEF IInv, TextOk
  <2>2. /\ Len(rows[t]) \in Nat /\ ptps[t] \in Nat /\ answers[t] \in Nat /\ causes[t] \in Nat
        /\ Room(t) \in Nat
    BY <2>1, Numbers
  <2>3. \A S : Cardinality(Slots(t, S)) \in Nat
    <3>1. \A S : Slots(t, S) \in SUBSET Workers
      BY DEF Slots
    <3> QED
      BY <3>1, Sizes, WorkersAssumption
  <2>4. PICK a \in Nat, b \in Nat, c \in Nat :
          /\ a = Cardinality(Slots(t, Filing)) /\ b = Cardinality(Slots(t, Promising))
          /\ c = Cardinality(Slots(t, Answering))
    BY <2>3
  <2>5. /\ (Len(rows[t]) + Room(t)) + a <= 1 + causes[t]
        /\ ptps[t] + b <= Len(rows[t]) /\ answers[t] + c <= Len(rows[t])
    BY <2>1, <2>4 DEF CountOk
  <2>6. /\ Len(rows[t]) <= 1 + causes[t] /\ ptps[t] <= Len(rows[t]) /\ answers[t] <= Len(rows[t])
        /\ ptps[t] <= 1 + causes[t] /\ answers[t] <= 1 + causes[t]
    <3>1. PICK l \in Nat, p \in Nat, q \in Nat, d \in Nat, e \in Nat :
            /\ l = Len(rows[t]) /\ p = ptps[t] /\ q = answers[t] /\ d = causes[t] /\ e = Room(t)
      BY <2>2
    <3>2. (l + e) + a <= 1 + d /\ p + b <= l /\ q + c <= l
      BY <2>5, <3>1
    <3>3. l <= 1 + d /\ p <= l /\ q <= l /\ p <= 1 + d /\ q <= 1 + d
      BY <3>2
    <3> QED
      BY <3>1, <3>3
  <2>7. rows[t] = <<>> => Len(rows[t]) = 0
    OBVIOUS
  <2>8. IdOf[t] # None => Len(rows[t]) <= 1
    <3>1. IdOf[t] # None => Len(rows[t]) = 1 \/ rows[t] = <<>>
      BY <2>1 DEF IdOk
    <3>2. PICK l \in Nat : l = Len(rows[t])
      BY <2>2
    <3>3. IdOf[t] # None => l = 1 \/ l = 0
      BY <2>7, <3>1, <3>2
    <3>4. IdOf[t] # None => l <= 1
      BY <3>3
    <3> QED
      BY <3>2, <3>4
  <2>9. IdOf[t] # None => ptps[t] <= 1 /\ answers[t] <= 1
    BY <2>2, <2>6, <2>8
  <2>10. ptps[t] + answers[t] > 0 => rows[t] # <<>>
    BY <2>2, <2>6, <2>7
  <2>11. IdOf[t] # None /\ rows[t] # <<>> => \A u \in Same(t) \ {t} : rows[u] = <<>>
    BY <2>1 DEF IdOk
  <2> QED
    BY <2>6, <2>8, <2>9, <2>10, <2>11
<1>2. IInv => OnceOrForCause
  BY <1>1 DEF OnceOrForCause
<1> QED
  BY <1>2, Invariance, PTL

\* The fence before the effects: a text that is done is in the table and had its
\* effect unless something failed; and nobody is silenced on the word of another.
THEOREM EffectsFollow == Spec => []EffectOrCause
<1>1. ASSUME IInv, NEW t \in Texts, jobs[t].state = "completed"
      PROVE  /\ \E u \in Same(t) : rows[u] # <<>>
             /\ FiledUnder(t) # {} /\ causes[t] = 0 =>
                 /\ Intent(t) = "PTP" => ptps[t] = 1
                 /\ "baja" \in WordsOf[t] =>
                     \A c \in Contacts : PhoneOf[c] = FromOf[t] => c \in dnc
  <2>1. TypeOK /\ Over(t) /\ CountOk(t)
    BY <1>1 DEF IInv, TextOk
  <2>2. causes[t] = 0 /\ ptps[t] > 0 => ptps[t] = 1
    <3>1. /\ Len(rows[t]) \in Nat /\ ptps[t] \in Nat /\ Room(t) \in Nat
      BY <2>1, Numbers
    <3>2. /\ Slots(t, Filing) \in SUBSET Workers /\ Slots(t, Promising) \in SUBSET Workers
      BY DEF Slots
    <3>3. PICK a \in Nat, b \in Nat :
            a = Cardinality(Slots(t, Filing)) /\ b = Cardinality(Slots(t, Promising))
      BY <3>2, Sizes, WorkersAssumption
    <3>4. (Len(rows[t]) + Room(t)) + a <= 1 + causes[t] /\ ptps[t] + b <= Len(rows[t])
      BY <2>1, <3>3 DEF CountOk
    <3> QED
      BY <3>1, <3>4
  <2>3. FiledUnder(t) # {} /\ causes[t] = 0 => TookEffect(t)
    BY <2>1 DEF Over
  <2> QED
    BY <2>1, <2>2, <2>3 DEF Over, TookEffect
<1>2. IInv => EffectOrCause
  BY <1>1 DEF EffectOrCause, IInv, DncOk
<1> QED
  BY <1>2, Invariance, PTL

\* maybeAutoReply: the cooldown that the text itself starts is over before an
\* answer goes out.
THEOREM AnswersWait == Spec => []AnswerNeedsDelay
<1>1. IInv => AnswerNeedsDelay
  BY DEF IInv
<1> QED
  BY <1>1, Invariance, PTL
=============================================================================
