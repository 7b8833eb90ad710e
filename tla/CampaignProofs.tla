--------------------------- MODULE CampaignProofs ---------------------------
(***************************************************************************)
(* Proofs about Campaign, for every set of cases, schedules and caps, any  *)
(* number of days and slots, and any number of dispatches, edits, faults.  *)
(***************************************************************************)
EXTENDS Campaign, FiniteSetTheorems, TLAPS

\* What a dispatch may rely on: its cap is a number, its slice has been guarded.
CallOk(r) ==
    /\ call[r].pc = "select" => call[r].cap \in Caps
    /\ \A h \in call[r].rest : h[1] \in Own
    /\ call[r].pc # "add" => call[r].rest = {}

\* What a processor may rely on: its case was guarded; when it is done, the
\* message was added or there was no way to send one.
RunOk(w) ==
    /\ run[w].pc = "idle" => run[w] = NoRun
    /\ run[w].pc # "idle" => run[w].id \in Id /\ run[w].id[1] \in Own
    /\ run[w].pc = "done" /\ run[w].id[1] \in WithChannel => messages[run[w].id] > 0

\* Only an active job is held.  A case that was asked for has its job until it
\* has its message.
IdOk(id) ==
    /\ InUse(jobs[id]) \/ jobs[id] = Free
    /\ jobs[id].by # None => jobs[id].state = "active"
    /\ InUse(jobs[id]) \/ messages[id] > 0 => id[1] \in Own
    /\ asked[id] > 0 /\ id[1] \in WithChannel => messages[id] > 0 \/ InUse(jobs[id])

\* The rows for which dispatches are about to ask for an id, and the processors
\* that are about to add its message or may have to try again.
Coming(id) == {s \in Calls \X Hits : /\ call[s[1]].pc = "add" /\ call[s[1]].day = id[2]
                                    /\ s[2][1] = id[1] /\ s[2] \in call[s[1]].rest}
InHand(id) == {w \in Workers : run[w].id = id /\ run[w].pc \in {"read", "add", "throw"}}

Waiting(id) == IF jobs[id].state = "waiting" THEN 1 ELSE 0

AskedOk(id) == asked[id] + Cardinality(Coming(id)) <= picked[id]
SentOk(id) == messages[id] + Cardinality(InHand(id)) + Waiting(id) <= asked[id] + causes[id]

\* An edit of the row has read the row that there still is, but for a race.
UpdateOk ==
    /\ \A e \in Editors : editor[e].pc = "write" => row # None /\ editor[e].row \in Row
    /\ row # None /\ "update" \notin raced =>
           /\ row.status = wish.status
           /\ \A e \in Editors : editor[e].pc = "write" =>
                  /\ editor[e].row.status = row.status
                  /\ \A f \in Editors : editor[f].pc = "write" => f = e

\* The same of an edit of the segment.
SegmentOk ==
    "segment" \notin raced =>
        /\ filter = wish.filter
        /\ \A e \in Editors : editor[e].pc = "save" =>
               /\ editor[e].filter = filter
               /\ \A f \in Editors : editor[f].pc = "save" => f = e

\* Whoever schedules has found all there is, and adds when nothing is left.
EnsureOk ==
    /\ \A e \in Editors : editor[e].pc \in Ensures => editor[e].cron \in Crons
    /\ "ensure" \notin raced =>
           /\ schedules = {} \/ \E c \in Crons : schedules = {c}
           /\ \A e \in Editors :
                  /\ editor[e].pc = "remove" => editor[e].found = schedules
                  /\ editor[e].pc = "add" => schedules = {}
                  /\ \A f \in Editors :
                         editor[e].pc \in Ensures /\ editor[f].pc \in Ensures => f = e

EditsOk == UpdateOk /\ SegmentOk /\ EnsureOk

CallsOk == \A r \in Calls : CallOk(r)
RunsOk == \A w \in Workers : RunOk(w)
IdsOk == \A id \in Id : IdOk(id)
Counts == \A id \in Id : AskedOk(id) /\ SentOk(id)

IInv == TypeOK /\ CallsOk /\ RunsOk /\ IdsOk /\ Counts /\ EditsOk
-----------------------------------------------------------------------------
(* Types, one part of the state at a time. *)

DispatchTypes ==
    /\ call \in [Calls -> Call] /\ picked \in [Id -> Nat] /\ asked \in [Id -> Nat]
    /\ allowed \in [1..Days -> Nat]
QueueTypes ==
    /\ jobs \in [Id -> Job] /\ run \in [Workers -> Run]
    /\ messages \in [Id -> Nat] /\ causes \in [Id -> Nat]
EditTypes ==
    /\ row \in Row \cup {None} /\ filter \in Filter
    /\ editor \in [Editors -> Editor] /\ schedules \subseteq Crons
    /\ wish \in [status : Status, filter : Filter]
    /\ raced \subseteq {"update", "ensure", "segment"}

LEMMA TypeParts ==
  TypeOK <=> DispatchTypes /\ QueueTypes /\ EditTypes /\ today \in 1..Days
  BY DEF TypeOK, DispatchTypes, QueueTypes, EditTypes

LEMMA JobTypes ==
  ASSUME NEW q \in Job
  PROVE  /\ Queued \in Job /\ Free \in Job /\ Stalled(q) \in Job
         /\ \A w \in Workers : Taken(q, w) \in Job
         /\ Retried(q, Attempts) \in Job
<1>1. Queued \in Job /\ Free \in Job /\ \A w \in Workers : Taken(q, w) \in Job
  BY DEF Job, Queued, Free, Taken
<1>2. q.made + 1 \in Nat /\ q.stalled + 1 \in Nat
  BY DEF Job
<1>3. \/ Retried(q, Attempts) = [q EXCEPT !.made = q.made + 1, !.by = None, !.state = "waiting"]
      \/ Retried(q, Attempts) = [q EXCEPT !.made = q.made + 1, !.by = None, !.state = "failed"]
  BY DEF Retried
<1>4. \/ Stalled(q) = [q EXCEPT !.stalled = q.stalled + 1, !.by = None, !.state = "waiting"]
      \/ Stalled(q) = [q EXCEPT !.stalled = q.stalled + 1, !.by = None, !.state = "failed"]
  BY DEF Stalled
<1> QED
  BY <1>1, <1>2, <1>3, <1>4 DEF Job

LEMMA NoneTypes == NoCall \in Call /\ NoRun \in Run /\ NoEdit \in Editor
  BY BoundsAssumption DEF NoCall, Call, NoRun, Run, NoEdit, Editor, NoFilter, Filter

LEMMA SliceOf ==
  ASSUME NEW S, NEW n, NEW rows \in Slices(S, n)
  PROVE  rows \subseteq S
  BY DEF Slices, kSubset
-----------------------------------------------------------------------------
(* Finite sets of slots. *)

LEMMA Sizes ==
  ASSUME NEW U, IsFiniteSet(U), NEW S \in SUBSET U
  PROVE  IsFiniteSet(S) /\ Cardinality(S) \in Nat
  BY FS_Subset, FS_CardinalityType

LEMMA Fewer ==
  ASSUME NEW U, IsFiniteSet(U), NEW S \in SUBSET U, NEW T \in SUBSET S
  PROVE  Cardinality(T) <= Cardinality(S)
  BY Sizes, FS_Subset

LEMMA OneMore ==
  ASSUME NEW U, IsFiniteSet(U), NEW S \in SUBSET U, NEW T \in SUBSET U, NEW x \in U,
         T \subseteq S \cup {x}
  PROVE  Cardinality(T) <= Cardinality(S) + 1
<1>1. Cardinality(T) <= Cardinality(S \cup {x})
  BY Fewer
<1>2. Cardinality(S \cup {x}) <= Cardinality(S) + 1
  BY Sizes, FS_AddElement
<1> QED
  BY <1>1, <1>2, Sizes

LEMMA OneLess ==
  ASSUME NEW U, IsFiniteSet(U), NEW S \in SUBSET U, NEW x \in S, NEW T \in SUBSET (S \ {x})
  PROVE  Cardinality(T) + 1 <= Cardinality(S)
<1>1. Cardinality(T) <= Cardinality(S \ {x})
  BY Fewer
<1>2. Cardinality(S \ {x}) = Cardinality(S) - 1
  BY Sizes, FS_RemoveElement
<1> QED
  BY <1>1, <1>2, Sizes

LEMMA Together ==
  ASSUME NEW U, IsFiniteSet(U), NEW S \in SUBSET U, NEW A \in SUBSET U, NEW T \in SUBSET (S \cup A)
  PROVE  Cardinality(T) <= Cardinality(S) + Cardinality(A)
<1>1. IsFiniteSet(S) /\ IsFiniteSet(A) /\ Cardinality(S) \in Nat /\ Cardinality(A) \in Nat
  BY Sizes
<1>2. /\ IsFiniteSet(S \cup A) /\ IsFiniteSet(S \cap A)
      /\ Cardinality(S \cup A) = Cardinality(S) + Cardinality(A) - Cardinality(S \cap A)
  BY <1>1, FS_Union, FS_Intersection
<1>3. Cardinality(S \cap A) \in Nat /\ Cardinality(S \cup A) \in Nat /\ Cardinality(T) \in Nat
  BY <1>2, FS_CardinalityType, FS_Subset
<1>4. Cardinality(T) <= Cardinality(S \cup A)
  BY <1>2, FS_Subset
<1> QED
  BY <1>1, <1>2, <1>3, <1>4

\* The rows that all dispatches together may have left to do.
LEMMA Pairs ==
  /\ IsFiniteSet(Calls \X Hits)
  /\ \A id \in Id : Coming(id) \in SUBSET (Calls \X Hits) /\ Coming(id)' \in SUBSET (Calls \X Hits)
<1>1. IsFiniteSet(Calls \X Hits)
  BY FS_Product, SlotsAssumption, HitsAssumption
<1>2. \A id \in Id : Coming(id) \in SUBSET (Calls \X Hits) /\ Coming(id)' \in SUBSET (Calls \X Hits)
  BY DEF Coming
<1> QED
  BY <1>1, <1>2

LEMMA PairsOf ==
  ASSUME NEW r \in Calls, NEW hits \in SUBSET Hits
  PROVE  /\ {r} \X hits \in SUBSET (Calls \X Hits)
         /\ Cardinality({r} \X hits) = Cardinality(hits) /\ Cardinality(hits) \in Nat
<1>1. IsFiniteSet(hits) /\ Cardinality(hits) \in Nat
  BY Sizes, HitsAssumption
<1>2. IsFiniteSet({r}) /\ Cardinality({r}) = 1
  BY FS_Singleton
<1>3. Cardinality({r} \X hits) = Cardinality({r}) * Cardinality(hits)
  BY <1>1, <1>2, FS_Product
<1> QED
  BY <1>1, <1>2, <1>3

LEMMA Numbers ==
  ASSUME IInv, NEW id \in Id
  PROVE  /\ Cardinality(Coming(id)) \in Nat /\ Cardinality(InHand(id)) \in Nat
         /\ messages[id] \in Nat /\ asked[id] \in Nat /\ picked[id] \in Nat
         /\ causes[id] \in Nat
<1>1. Cardinality(Coming(id)) \in Nat
  BY Pairs, Sizes
<1>2. InHand(id) \in SUBSET Workers
  BY DEF InHand
<1>3. Cardinality(InHand(id)) \in Nat
  BY <1>2, Sizes, SlotsAssumption
<1> QED
  BY <1>1, <1>3 DEF IInv, TypeOK

\* What the counts need of a step, one id at a time.
LEMMA AskedStays ==
  ASSUME IInv, NEW id \in Id, asked'[id] = asked[id], picked'[id] \in Nat,
         picked'[id] >= picked[id], Coming(id)' \subseteq Coming(id)
  PROVE  AskedOk(id)'
<1>1. Cardinality(Coming(id)') <= Cardinality(Coming(id)) /\ Cardinality(Coming(id)') \in Nat
  BY Pairs, Fewer, Sizes
<1> QED
  BY <1>1, Numbers DEF IInv, Counts, AskedOk

LEMMA SentStays ==
  ASSUME IInv, NEW id \in Id, messages'[id] = messages[id], asked'[id] \in Nat,
         asked'[id] >= asked[id], causes'[id] = causes[id], jobs'[id] = jobs[id],
         InHand(id)' \subseteq InHand(id)
  PROVE  SentOk(id)'
<1>1. InHand(id) \in SUBSET Workers /\ InHand(id)' \in SUBSET Workers
  BY DEF InHand
<1>2. Cardinality(InHand(id)') <= Cardinality(InHand(id)) /\ Cardinality(InHand(id)') \in Nat
  BY <1>1, Fewer, Sizes, SlotsAssumption
<1>3. Waiting(id)' = Waiting(id) /\ Waiting(id) \in 0..1
  BY DEF Waiting
<1> QED
  BY <1>2, <1>3, Numbers DEF IInv, Counts, SentOk
-----------------------------------------------------------------------------
(* Dispatches. *)

\* The part of the invariant that speaks of dispatches, jobs and messages.
Flow == DispatchTypes /\ QueueTypes /\ CallsOk /\ RunsOk /\ IdsOk /\ Counts

\* A dispatch begins, or ends without asking for another job.
LEMMA CallMoves ==
  ASSUME IInv, NEW r \in Calls, NEW k \in Call, call' = [call EXCEPT ![r] = k],
         k.pc # "add", k.rest = {}, k.pc = "select" => k.cap \in Caps,
         UNCHANGED <<queueVars, picked, asked, allowed>>
  PROVE  Flow'
<1> USE DEF queueVars
<1>1. DispatchTypes' /\ QueueTypes'
  BY DEF IInv, TypeOK, DispatchTypes, QueueTypes
<1>2. call'[r] = k /\ \A q \in Calls \ {r} : call'[q] = call[q]
  BY DEF IInv, TypeOK
<1>3. CallsOk'
  BY <1>2 DEF IInv, CallsOk, CallOk
<1>4. RunsOk' /\ IdsOk'
  BY DEF IInv, RunsOk, RunOk, IdsOk, IdOk
<1>5. \A id \in Id : Coming(id)' \subseteq Coming(id) /\ InHand(id)' = InHand(id)
  BY <1>2 DEF Coming, InHand
<1>6. Counts'
  BY <1>5, AskedStays, SentStays, Numbers DEF Counts
<1> QED
  BY <1>1, <1>3, <1>4, <1>6 DEF Flow

LEMMA DispatchFlow ==
  ASSUME IInv, NEW r \in Calls, dispatch(r) \/ segmentMissing(r) \/ enqueueRefused(r)
  PROVE  Flow'
<1>0. CASE enqueueRefused(r)
  BY <1>0, CallMoves, NoneTypes DEF enqueueRefused, NoCall
<1>1. CASE segmentMissing(r)
  BY <1>1, CallMoves, NoneTypes DEF segmentMissing, NoCall
<1>2. CASE dispatch(r)
  <2>1. PICK cap \in Caps \cup {row.cap} :
            call' = [call EXCEPT ![r] = [NoCall EXCEPT !.pc = "select", !.cap = cap]]
    BY <1>2 DEF dispatch
  <2>2. row \in Row /\ cap \in Caps
    BY <1>2, <2>1 DEF dispatch, IInv, TypeOK, Row
  <2>3. PICK k : k = [NoCall EXCEPT !.pc = "select", !.cap = cap]
    OBVIOUS
  <2>4. k \in Call /\ k.pc = "select" /\ k.rest = {} /\ k.cap = cap
    BY <2>2, <2>3, NoneTypes DEF NoCall, Call
  <2> QED
    BY <1>2, <2>1, <2>2, <2>3, <2>4, CallMoves DEF dispatch
<1> QED
  BY <1>0, <1>1, <1>2

LEMMA ChosenFlow ==
  ASSUME IInv, NEW r \in Calls, selectCases(r)
  PROVE  Flow'
<1>1. PICK hits \in Slices(HitsOf(filter \cap Own), call[r].cap) : Chosen(r, hits)
  BY DEF selectCases
<1>2. hits \subseteq Hits /\ \A h \in hits : h[1] \in Own
  <2>1. hits \subseteq HitsOf(filter \cap Own)
    BY SliceOf
  <2> QED
    BY <2>1 DEF HitsOf
<1>3. call[r].pc = "select" /\ call[r] \in Call /\ call[r].cap \in Nat /\ today \in 1..Days
  BY BoundsAssumption DEF selectCases, IInv, TypeOK, CallsOk, CallOk
<1>4. PICK k \in Call : /\ call' = [call EXCEPT ![r] = k]
                        /\ \/ k.rest = {} /\ k.pc = "idle"
                           \/ k.rest = hits /\ k.pc = "add" /\ k.day = today
  <2>1. CASE hits = {}
    <3>1. call' = [call EXCEPT ![r] = NoCall]
      BY <1>1, <2>1 DEF Chosen
    <3>2. NoCall \in Call /\ NoCall.rest = {} /\ NoCall.pc = "idle"
      BY NoneTypes DEF NoCall
    <3> QED
      BY <3>1, <3>2
  <2>2. CASE hits # {}
    <3> DEFINE k == [pc |-> "add", cap |-> call[r].cap, rest |-> hits, day |-> today]
    <3>1. call' = [call EXCEPT ![r] = k]
      BY <1>1, <2>2 DEF Chosen
    <3>2. k \in Call
      BY <1>2, <1>3 DEF Call
    <3> QED
      BY <3>1, <3>2
  <2> QED
    BY <2>1, <2>2
<1>5. call'[r] = k /\ \A q \in Calls \ {r} : call'[q] = call[q]
  BY <1>4 DEF IInv, TypeOK
<1>6. UNCHANGED <<jobs, run, messages, causes, asked>>
  BY <1>1 DEF Chosen, queueVars
<1>7. /\ picked' = [id \in Id |-> IF id[2] = today
                                  THEN picked[id] + Cardinality(RowsFor(id[1], hits))
                                  ELSE picked[id]]
      /\ \A id \in Id : RowsFor(id[1], hits) \in SUBSET Hits
      /\ \A id \in Id : Cardinality(RowsFor(id[1], hits)) \in Nat
  <2>1. \A id \in Id : RowsFor(id[1], hits) \in SUBSET Hits
    BY <1>2 DEF RowsFor
  <2>2. \A id \in Id : Cardinality(RowsFor(id[1], hits)) \in Nat
    BY <2>1, Sizes, HitsAssumption
  <2> QED
    BY <1>1, <2>1, <2>2 DEF Chosen
<1>8. allowed' \in [1..Days -> Nat]
  <2>1. allowed' = [allowed EXCEPT ![today] = allowed[today] + call[r].cap]
    BY <1>1 DEF Chosen
  <2>2. allowed \in [1..Days -> Nat] /\ allowed[today] + call[r].cap \in Nat
    <3>1. allowed \in [1..Days -> Nat]
      BY DEF IInv, TypeOK
    <3>2. allowed[today] \in Nat
      BY <1>3, <3>1
    <3> QED
      BY <1>3, <3>1, <3>2
  <2> QED
    BY <2>1, <2>2
<1>9. picked' \in [Id -> Nat] /\ \A id \in Id : picked'[id] \in Nat /\ picked'[id] >= picked[id]
  BY <1>7 DEF IInv, TypeOK
<1>10. DispatchTypes' /\ QueueTypes'
  BY <1>4, <1>6, <1>8, <1>9 DEF IInv, TypeOK, DispatchTypes, QueueTypes
<1>11. CallsOk' /\ RunsOk' /\ IdsOk'
  <2>1. CallsOk'
    BY <1>2, <1>4, <1>5 DEF IInv, CallsOk, CallOk
  <2>2. RunsOk' /\ IdsOk'
    BY <1>6 DEF IInv, RunsOk, RunOk, IdsOk, IdOk
  <2> QED
    BY <2>1, <2>2
<1>12. ASSUME NEW id \in Id PROVE AskedOk(id)'
  <2> DEFINE mine == RowsFor(id[1], hits)
  <2>1. CASE id[2] = today
    <3>1. mine \in SUBSET Hits /\ mine = {h \in hits : h[1] = id[1]}
      BY <1>7 DEF RowsFor
    <3>2. Coming(id)' \subseteq Coming(id) \cup ({r} \X mine)
      BY <1>4, <1>5, <3>1 DEF Coming
    <3>3. /\ Cardinality(Coming(id)') <= Cardinality(Coming(id)) + Cardinality({r} \X mine)
          /\ Cardinality(Coming(id)') \in Nat
      <4>1. {r} \X mine \in SUBSET (Calls \X Hits)
        BY <3>1, PairsOf
      <4> HIDE DEF mine
      <4> QED
        BY <3>2, <4>1, Pairs, Together, Sizes
    <3>4. Cardinality({r} \X mine) = Cardinality(mine) /\ Cardinality(mine) \in Nat
      BY <3>1, PairsOf
    <3>5. picked'[id] = picked[id] + Cardinality(mine)
      BY <1>7, <2>1
    <3>6. AskedOk(id)
      BY DEF IInv, Counts
    <3> HIDE DEF mine
    <3> QED
      BY <1>6, <3>3, <3>4, <3>5, <3>6, Numbers DEF AskedOk
  <2>2. CASE id[2] # today
    <3>1. Coming(id)' \subseteq Coming(id)
      BY <1>4, <1>5, <2>2 DEF Coming
    <3> QED
      BY <1>6, <1>9, <3>1, AskedStays
  <2> QED
    BY <2>1, <2>2
<1>13. ASSUME NEW id \in Id PROVE SentOk(id)'
  <2>1. InHand(id)' = InHand(id)
    BY <1>6 DEF InHand
  <2> QED
    BY <1>6, <2>1, SentStays, Numbers
<1> QED
  BY <1>10, <1>11, <1>12, <1>13 DEF Flow, Counts

\* A job is asked for, whether or not the dispatch goes on.
LEMMA AskFlow ==
  ASSUME IInv, NEW r \in Calls, NEW h \in call[r].rest, NEW k \in Call,
         NEW i, i = <<h[1], call[r].day>>,
         addJob(i), asked' = [asked EXCEPT ![i] = @ + 1],
         call' = [call EXCEPT ![r] = k],
         k.rest \subseteq call[r].rest \ {h}, k.pc # "select", k.pc # "add" => k.rest = {},
         k.pc = "add" => k.day = call[r].day,
         UNCHANGED <<run, messages, causes, picked, allowed>>
  PROVE  Flow'
<1>1. /\ call[r] \in Call /\ call[r].pc = "add" /\ h \in Hits /\ h[1] \in Own /\ h[1] \in Cases
      /\ \A x \in call[r].rest : x[1] \in Own
  BY HitsAssumption DEF IInv, TypeOK, CallsOk, CallOk, Call
<1>2. i \in Id /\ i[1] = h[1] /\ i[2] = call[r].day
  BY <1>1 DEF Call, Id
<1>3. call'[r] = k /\ \A q \in Calls \ {r} : call'[q] = call[q]
  BY DEF IInv, TypeOK
<1>4. /\ asked' \in [Id -> Nat] /\ asked'[i] = asked[i] + 1
      /\ \A id \in Id \ {i} : asked'[id] = asked[id]
  <2>1. asked \in [Id -> Nat] /\ asked[i] + 1 \in Nat
    BY <1>2 DEF IInv, TypeOK
  <2> QED
    BY <1>2, <2>1
<1>5. /\ jobs' \in [Id -> Job] /\ \A id \in Id \ {i} : jobs'[id] = jobs[id]
      /\ \/ jobs[i] # Free /\ jobs'[i] = jobs[i]
         \/ jobs'[i] = Queued
  <2>1. jobs \in [Id -> Job] /\ jobs[i] \in Job
    BY <1>2 DEF IInv, TypeOK
  <2>2. Queued \in Job
    BY <2>1, JobTypes
  <2>3. PICK q : q = IF jobs[i] = Free THEN Queued ELSE jobs[i]
    OBVIOUS
  <2>4. jobs' = [jobs EXCEPT ![i] = q] /\ q \in Job
    BY <2>1, <2>2, <2>3 DEF addJob
  <2> QED
    BY <1>2, <2>1, <2>3, <2>4
<1>6. DispatchTypes' /\ QueueTypes'
  BY <1>4, <1>5 DEF IInv, TypeOK, DispatchTypes, QueueTypes
<1>7. CallsOk' /\ RunsOk'
  <2>1. CallsOk'
    BY <1>1, <1>3 DEF IInv, CallsOk, CallOk
  <2>2. RunsOk'
    BY DEF IInv, RunsOk, RunOk
  <2> QED
    BY <2>1, <2>2
<1>8. IdsOk'
  <2>1. IdOk(i)'
    <3>1. jobs'[i].state # "none"
      <4>1. jobs[i] # Free => jobs[i].state # "none"
        BY <1>2 DEF IInv, IdsOk, IdOk, InUse
      <4> QED
        BY <1>5, <4>1 DEF Queued
    <3>2. jobs'[i].by # None => jobs'[i].state = "active"
      <4>1. jobs[i].by # None => jobs[i].state = "active"
        BY <1>2 DEF IInv, IdsOk, IdOk
      <4> QED
        BY <1>5, <4>1 DEF Queued
    <3> QED
      BY <1>1, <1>2, <3>1, <3>2 DEF IdOk, InUse
  <2>2. \A id \in Id \ {i} : IdOk(id)'
    BY <1>4, <1>5 DEF IInv, IdsOk, IdOk
  <2> QED
    BY <2>1, <2>2 DEF IdsOk
<1>9. ASSUME NEW id \in Id \ {i} PROVE AskedOk(id)' /\ SentOk(id)'
  <2>1. Coming(id)' \subseteq Coming(id) /\ InHand(id)' = InHand(id)
    BY <1>1, <1>3 DEF Coming, InHand
  <2> QED
    BY <1>4, <1>5, <2>1, AskedStays, SentStays, Numbers
<1>10. AskedOk(i)'
  <2>1. <<r, h>> \in Coming(i)
    BY <1>1, <1>2 DEF Coming
  <2>2. Coming(i)' \subseteq Coming(i) \ {<<r, h>>}
    BY <1>1, <1>2, <1>3 DEF Coming
  <2>3. Cardinality(Coming(i)') + 1 <= Cardinality(Coming(i)) /\ Cardinality(Coming(i)') \in Nat
    BY <1>2, <2>1, <2>2, Pairs, OneLess, Sizes
  <2>4. AskedOk(i)
    BY <1>2 DEF IInv, Counts
  <2> QED
    BY <1>2, <1>4, <2>3, <2>4, Numbers DEF AskedOk
<1>11. SentOk(i)'
  <2>1. InHand(i)' = InHand(i)
    BY DEF InHand
  <2>2. Waiting(i) \in 0..1 /\ Waiting(i)' <= Waiting(i) + 1 /\ Waiting(i)' \in 0..1
    BY DEF Waiting
  <2>3. SentOk(i)
    BY <1>2 DEF IInv, Counts
  <2> QED
    BY <1>2, <1>4, <2>1, <2>2, <2>3, Numbers DEF SentOk
<1> QED
  BY <1>2, <1>6, <1>7, <1>8, <1>9, <1>10, <1>11 DEF Flow, Counts

LEMMA EnqueueFlow ==
  ASSUME IInv, NEW r \in Calls, enqueue(r)
  PROVE  Flow'
<1>1. PICK h \in call[r].rest : /\ addJob(<<h[1], call[r].day>>)
                                /\ asked' = [asked EXCEPT ![<<h[1], call[r].day>>] = @ + 1]
                                /\ NextCase(r, h)
  BY DEF enqueue
<1>2. call[r] \in Call /\ call[r].pc = "add"
  BY DEF enqueue, IInv, TypeOK
<1>3. UNCHANGED <<run, messages, causes, picked, allowed>>
  BY DEF enqueue
<1>4. CASE call[r].rest = {h}
  BY <1>1, <1>3, <1>4, AskFlow, NoneTypes DEF NextCase, NoCall
<1>5. CASE call[r].rest # {h}
  <2>1. call' = [call EXCEPT ![r] = [call[r] EXCEPT !.rest = @ \ {h}]]
    BY <1>1, <1>5 DEF NextCase
  <2>2. [call[r] EXCEPT !.rest = @ \ {h}] \in Call
    BY <1>2 DEF Call
  <2> QED
    BY <1>1, <1>2, <1>3, <2>1, <2>2, AskFlow DEF Call
<1> QED
  BY <1>4, <1>5

LEMMA DispatchFailsFlow ==
  ASSUME IInv, NEW r \in Calls, dispatchFails(r)
  PROVE  Flow'
<1>1. CASE UNCHANGED <<jobs, asked>>
  BY <1>1, CallMoves, NoneTypes DEF dispatchFails, NoCall, queueVars
<1>2. CASE ~UNCHANGED <<jobs, asked>>
  <2>1. PICK h \in call[r].rest : /\ addJob(<<h[1], call[r].day>>)
                                  /\ asked' = [asked EXCEPT ![<<h[1], call[r].day>>] = @ + 1]
    BY <1>2 DEF dispatchFails
  <2> QED
    BY ZenonT(30), <2>1, AskFlow, NoneTypes DEF dispatchFails, NoCall
<1> QED
  BY <1>1, <1>2
-----------------------------------------------------------------------------
(* The queue and its processors. *)

\* Which slots have an id in hand after one of them moved.
LEMMA InHandAfter ==
  ASSUME IInv, NEW w \in Workers, NEW k \in Run, run' = [run EXCEPT ![w] = k], NEW id \in Id
  PROVE  /\ run' \in [Workers -> Run] /\ run'[w] = k
         /\ \A v \in Workers \ {w} : run'[v] = run[v]
         /\ InHand(id)' \subseteq InHand(id) \cup {w}
         /\ k.id # id \/ k.pc \notin {"read", "add", "throw"} => InHand(id)' \subseteq InHand(id) \ {w}
         /\ InHand(id) \in SUBSET Workers /\ InHand(id)' \in SUBSET Workers
         /\ Cardinality(InHand(id)') \in Nat
         /\ Cardinality(InHand(id)') <= Cardinality(InHand(id)) + 1
<1>1. run' \in [Workers -> Run] /\ run'[w] = k /\ \A v \in Workers \ {w} : run'[v] = run[v]
  BY DEF IInv, TypeOK
<1>2. /\ InHand(id)' \subseteq InHand(id) \cup {w}
      /\ k.id # id \/ k.pc \notin {"read", "add", "throw"} => InHand(id)' \subseteq InHand(id) \ {w}
  BY <1>1 DEF InHand
<1>3. InHand(id) \in SUBSET Workers /\ InHand(id)' \in SUBSET Workers
  BY DEF InHand
<1>4. Cardinality(InHand(id)') \in Nat /\ Cardinality(InHand(id)') <= Cardinality(InHand(id)) + 1
  BY <1>2, <1>3, OneMore, Sizes, SlotsAssumption
<1> QED
  BY <1>1, <1>2, <1>3, <1>4

\* The slot that moved had the id in hand: one less, if it lets go of it.
LEMMA InHandLess ==
  ASSUME IInv, NEW w \in Workers, NEW id \in Id, w \in InHand(id),
         InHand(id)' \in SUBSET (InHand(id) \ {w})
  PROVE  Cardinality(InHand(id)') + 1 <= Cardinality(InHand(id))
<1>1. InHand(id) \in SUBSET Workers
  BY DEF InHand
<1> QED
  BY <1>1, OneLess, SlotsAssumption

LEMMA DispatchesStay ==
  ASSUME IInv, UNCHANGED <<dispatchVars, today>>
  PROVE  DispatchTypes' /\ CallsOk' /\ \A id \in Id : AskedOk(id)'
<1> USE DEF dispatchVars
<1>1. DispatchTypes' /\ CallsOk'
  BY DEF IInv, TypeOK, DispatchTypes, CallsOk, CallOk
<1>2. \A id \in Id : Coming(id)' = Coming(id)
  BY DEF Coming
<1> QED
  BY <1>1, <1>2, AskedStays, Numbers

LEMMA TakeFlow ==
  ASSUME IInv, NEW w \in Workers, NEW i \in Id, Take(w, i)
  PROVE  Flow'
<1> DEFINE k == [pc |-> "read", id |-> i]
<1>1. jobs[i] \in Job /\ Taken(jobs[i], w) \in Job /\ jobs[i].state = "waiting"
  BY JobTypes DEF IInv, TypeOK, Take
<1>2. /\ jobs' \in [Id -> Job] /\ jobs'[i] = Taken(jobs[i], w)
      /\ \A id \in Id \ {i} : jobs'[id] = jobs[id]
  BY <1>1 DEF IInv, TypeOK, Take
<1>3. jobs'[i].state = "active"
  BY <1>1, <1>2 DEF Taken, Job
<1>4. k \in Run /\ run' = [run EXCEPT ![w] = k] /\ run[w].pc = "idle"
  BY DEF Run, Take
<1>5. run' \in [Workers -> Run] /\ run'[w] = k /\ \A v \in Workers \ {w} : run'[v] = run[v]
  BY <1>4 DEF IInv, TypeOK
<1>6. UNCHANGED <<messages, causes, asked>> /\ UNCHANGED <<dispatchVars, today>>
  BY DEF Take, Others, dispatchVars
<1>7. QueueTypes'
  BY <1>2, <1>5, <1>6 DEF IInv, TypeOK, QueueTypes
<1>8. RunsOk'
  <2>1. i[1] \in Own
    BY <1>1 DEF IInv, IdsOk, IdOk, InUse
  <2> QED
    BY <1>5, <1>6, <2>1 DEF IInv, RunsOk, RunOk, NoRun
<1>9. IdsOk'
  <2>1. IdOk(i)'
    BY <1>1, <1>3, <1>6 DEF IInv, IdsOk, IdOk, InUse
  <2>2. \A id \in Id \ {i} : IdOk(id)'
    BY <1>2, <1>6 DEF IInv, IdsOk, IdOk
  <2> QED
    BY <2>1, <2>2 DEF IdsOk
<1>10. SentOk(i)'
  <2>1. /\ Cardinality(InHand(i)') \in Nat
        /\ Cardinality(InHand(i)') <= Cardinality(InHand(i)) + 1
    BY <1>4, InHandAfter
  <2>2. Waiting(i) = 1 /\ Waiting(i)' = 0
    BY <1>1, <1>3 DEF Waiting
  <2>3. SentOk(i)
    BY DEF IInv, Counts
  <2> QED
    BY <1>6, <2>1, <2>2, <2>3, Numbers DEF SentOk
<1>11. ASSUME NEW id \in Id \ {i} PROVE SentOk(id)'
  <2>1. InHand(id)' \subseteq InHand(id)
    BY <1>5 DEF InHand
  <2> QED
    BY <1>2, <1>6, <2>1, SentStays, Numbers
<1> QED
  BY <1>6, <1>7, <1>8, <1>9, <1>10, <1>11, DispatchesStay DEF Flow, Counts

\* An await of the processor: a message may be added, a cause be counted.
LEMMA MoveFlow ==
  ASSUME IInv, NEW w \in Workers, NEW i \in Id, run[w].id = i, NEW p,
         p \in {"add", "done", "throw"}, run[w].pc \in {"read", "add"},
         run' = [run EXCEPT ![w].pc = p],
         \/ UNCHANGED <<messages, causes>> /\ (p = "done" => i[1] \notin WithChannel)
         \/ addMessage(i) /\ UNCHANGED causes /\ p = "done"
         \/ addMessage(i) /\ Cause(i),
         UNCHANGED <<jobs, dispatchVars, today>>
  PROVE  Flow'
<1>1. PICK k : k = [run[w] EXCEPT !.pc = p]
  OBVIOUS
<1>2. run[w] \in Run /\ k \in Run /\ k.pc = p /\ k.id = i
  BY <1>1 DEF IInv, TypeOK, Run
<1>3. run' = [run EXCEPT ![w] = k]
  BY <1>1
<1>4. run' \in [Workers -> Run] /\ run'[w] = k /\ \A v \in Workers \ {w} : run'[v] = run[v]
  BY <1>2, <1>3 DEF IInv, TypeOK
<1>5. /\ messages' \in [Id -> Nat] /\ causes' \in [Id -> Nat]
      /\ \A id \in Id \ {i} : messages'[id] = messages[id] /\ causes'[id] = causes[id]
      /\ \A id \in Id : messages'[id] >= messages[id]
      /\ \/ messages'[i] = messages[i] /\ causes'[i] = causes[i] /\ (p = "done" => i[1] \notin WithChannel)
         \/ messages'[i] = messages[i] + 1 /\ causes'[i] = causes[i] /\ p = "done"
         \/ messages'[i] = messages[i] + 1 /\ causes'[i] = causes[i] + 1
  <2>1. messages \in [Id -> Nat] /\ causes \in [Id -> Nat]
    BY DEF IInv, TypeOK
  <2>2. messages[i] + 1 \in Nat /\ causes[i] + 1 \in Nat
    BY <2>1
  <2> QED
    BY <2>1, <2>2 DEF addMessage, Cause
<1>6. QueueTypes'
  BY <1>4, <1>5 DEF IInv, TypeOK, QueueTypes
<1>7. i[1] \in Own
  BY DEF IInv, RunsOk, RunOk
<1>8. RunsOk'
  <2>1. RunOk(w)'
    <3>1. p = "done" /\ i[1] \in WithChannel => messages'[i] > 0
      BY <1>5, Numbers
    <3> QED
      BY <1>2, <1>4, <1>7, <3>1 DEF RunOk
  <2>2. ASSUME NEW v \in Workers \ {w} PROVE RunOk(v)'
    <3>1. RunOk(v)
      BY DEF IInv, RunsOk
    <3> QED
      BY <1>4, <1>5, <3>1, Numbers DEF RunOk
  <2> QED
    BY <2>1, <2>2 DEF RunsOk
<1>9. IdsOk'
  <2>1. ASSUME NEW id \in Id PROVE IdOk(id)'
    <3>1. IdOk(id) /\ asked'[id] = asked[id] /\ jobs'[id] = jobs[id]
      BY DEF IInv, IdsOk, dispatchVars
    <3>2. messages[id] > 0 => messages'[id] > 0
      BY <1>5, Numbers
    <3> QED
      BY <1>5, <1>7, <3>1, <3>2 DEF IdOk
  <2> QED
    BY <2>1 DEF IdsOk
<1>10. SentOk(i)'
  <2>1. w \in InHand(i)
    BY DEF InHand
  <2>2. Cardinality(InHand(i)') \in Nat
    BY <1>2, <1>3, InHandAfter
  <2>3. p # "done" => Cardinality(InHand(i)') <= Cardinality(InHand(i))
    <3>1. InHand(i)' \subseteq InHand(i) /\ InHand(i) \in SUBSET Workers
      BY <1>4, <2>1 DEF InHand
    <3> QED
      BY <3>1, Fewer, SlotsAssumption
  <2>4. p = "done" => Cardinality(InHand(i)') + 1 <= Cardinality(InHand(i))
    <3>1. p = "done" => InHand(i)' \subseteq InHand(i) \ {w}
      BY <1>2, <1>3, InHandAfter
    <3> QED
      BY <2>1, <3>1, InHandLess
  <2>5. SentOk(i) /\ Waiting(i)' = Waiting(i) /\ Waiting(i) \in 0..1 /\ asked'[i] = asked[i]
    BY DEF IInv, Counts, Waiting, dispatchVars
  <2> QED
    BY <1>5, <2>2, <2>3, <2>4, <2>5, Numbers DEF SentOk
<1>11. ASSUME NEW id \in Id \ {i} PROVE SentOk(id)'
  <2>1. InHand(id)' \subseteq InHand(id)
    BY <1>2, <1>4 DEF InHand
  <2> QED
    BY <1>5, <2>1, SentStays, Numbers DEF dispatchVars
<1> QED
  BY <1>6, <1>8, <1>9, <1>10, <1>11, DispatchesStay DEF Flow, Counts

LEMMA ProcessorFlow ==
  ASSUME IInv, NEW w \in Workers,
         readCase(w) \/ readFails(w) \/ queueMessage(w) \/ queueFails(w)
  PROVE  Flow'
<1> USE DEF Others, Goto
<1>1. PICK i \in Id : run[w].id = i
  BY DEF IInv, RunsOk, RunOk, readCase, readFails, queueMessage, queueFails
<1>2. CASE readCase(w)
  <2>1. CASE i[1] \in WithChannel
    <3>1. run' = [run EXCEPT ![w].pc = "add"]
      BY <1>1, <1>2, <2>1 DEF readCase
    <3> QED
      BY <1>1, <1>2, <3>1, MoveFlow DEF readCase
  <2>2. CASE i[1] \notin WithChannel
    <3>1. run' = [run EXCEPT ![w].pc = "done"]
      BY <1>1, <1>2, <2>2 DEF readCase
    <3> QED
      BY <1>1, <1>2, <2>2, <3>1, MoveFlow DEF readCase
  <2> QED
    BY <2>1, <2>2
<1>3. CASE readFails(w)
  BY <1>1, <1>3, MoveFlow DEF readFails
<1>4. CASE queueMessage(w)
  BY <1>1, <1>4, MoveFlow DEF queueMessage
<1>5. CASE queueFails(w)
  BY <1>1, <1>5, MoveFlow DEF queueFails
<1> QED
  BY <1>2, <1>3, <1>4, <1>5

\* A slot lets go of its job: it completes, it waits again, or it has failed.
LEMMA SettleFlow ==
  ASSUME IInv, NEW w \in Workers, Complete(w) \/ Retry(w)
  PROVE  Flow'
<1>1. PICK i \in Id : run[w].id = i /\ run[w].pc \in {"done", "throw"}
  BY DEF IInv, RunsOk, RunOk, Complete, Retry
<1>2. jobs[i] \in Job /\ Free \in Job /\ Retried(jobs[i], Attempts) \in Job
  BY JobTypes DEF IInv, TypeOK
<1>3. PICK q \in Job : /\ jobs' = [jobs EXCEPT ![i] = q]
                       /\ \/ q = jobs[i]
                          \/ q = Free /\ run[w].pc = "done"
                          \/ /\ q.state \in {"waiting", "failed"} /\ q.by = None
                             /\ run[w].pc = "throw"
  <2>1. CASE Complete(w)
    <3>1. PICK q : q = Settled(jobs[i], w, Free)
      OBVIOUS
    <3>2. jobs' = [jobs EXCEPT ![i] = q]
      BY <1>1, <2>1, <3>1 DEF Complete, Settle
    <3>3. q = jobs[i] \/ q = Free
      BY <3>1 DEF Settled
    <3> QED
      BY <1>2, <2>1, <3>2, <3>3 DEF Complete
  <2>2. CASE Retry(w)
    <3>1. PICK q : q = Settled(jobs[i], w, Retried(jobs[i], Attempts))
      OBVIOUS
    <3>2. jobs' = [jobs EXCEPT ![i] = q]
      BY <1>1, <2>2, <3>1 DEF Retry, Settle
    <3>3. q = jobs[i] \/ q = Retried(jobs[i], Attempts)
      BY <3>1 DEF Settled
    <3>4. /\ Retried(jobs[i], Attempts).state \in {"waiting", "failed"}
          /\ Retried(jobs[i], Attempts).by = None
      BY <1>2 DEF Retried, Job
    <3> QED
      BY <1>2, <2>2, <3>2, <3>3, <3>4 DEF Retry
  <2> QED
    BY <2>1, <2>2
<1>4. /\ jobs' \in [Id -> Job] /\ jobs'[i] = q
      /\ \A id \in Id \ {i} : jobs'[id] = jobs[id]
  BY <1>3 DEF IInv, TypeOK
<1>5. run' = [run EXCEPT ![w] = NoRun] /\ NoRun \in Run /\ NoRun.id = None /\ NoRun.pc = "idle"
  BY NoneTypes DEF Complete, Retry, Settle, NoRun
<1>6. /\ UNCHANGED <<messages, causes, asked>> /\ UNCHANGED <<dispatchVars, today>>
  BY DEF Complete, Retry, Settle, Others, dispatchVars
<1>7. run' \in [Workers -> Run] /\ run'[w] = NoRun /\ \A v \in Workers \ {w} : run'[v] = run[v]
  BY <1>5 DEF IInv, TypeOK
<1>8. QueueTypes'
  BY <1>4, <1>6, <1>7 DEF IInv, TypeOK, QueueTypes
<1>9. RunsOk'
  BY <1>5, <1>6, <1>7 DEF IInv, RunsOk, RunOk
<1>10. IdsOk'
  <2>1. IdOk(i)'
    <3>1. IdOk(i) /\ RunOk(w)
      BY DEF IInv, IdsOk, RunsOk
    <3>2. i[1] \in Own /\ (run[w].pc = "done" /\ i[1] \in WithChannel => messages[i] > 0)
      BY <1>1, <3>1 DEF RunOk
    <3>3. Free.state = "none" /\ Free.by = None
      BY DEF Free, Queued
    <3> QED
      BY <1>3, <1>4, <1>6, <3>1, <3>2, <3>3 DEF IdOk, InUse
  <2>2. \A id \in Id \ {i} : IdOk(id)'
    BY <1>4, <1>6 DEF IInv, IdsOk, IdOk
  <2> QED
    BY <2>1, <2>2 DEF IdsOk
<1>11. SentOk(i)'
  <2>1. InHand(i)' \subseteq InHand(i) \ {w} /\ Cardinality(InHand(i)') \in Nat
    BY <1>5, InHandAfter
  <2>2. Cardinality(InHand(i)') <= Cardinality(InHand(i))
    <3>1. InHand(i) \in SUBSET Workers
      BY DEF InHand
    <3> QED
      BY <2>1, <3>1, Fewer, SlotsAssumption
  <2>3. run[w].pc = "throw" => Cardinality(InHand(i)') + 1 <= Cardinality(InHand(i))
    <3>1. run[w].pc = "throw" => w \in InHand(i)
      BY <1>1 DEF InHand
    <3> QED
      BY <2>1, <3>1, InHandLess
  <2>4. /\ Waiting(i) \in 0..1 /\ Waiting(i)' \in 0..1
        /\ run[w].pc = "done" => Waiting(i)' <= Waiting(i)
    <3>1. Free.state = "none"
      BY DEF Free, Queued
    <3> QED
      BY <1>3, <1>4, <3>1 DEF Waiting
  <2>5. SentOk(i)
    BY DEF IInv, Counts
  <2> QED
    BY <1>1, <1>6, <2>1, <2>2, <2>3, <2>4, <2>5, Numbers DEF SentOk
<1>12. ASSUME NEW id \in Id \ {i} PROVE SentOk(id)'
  <2>1. InHand(id)' \subseteq InHand(id)
    BY <1>7, <1>5 DEF InHand
  <2> QED
    BY <1>4, <1>6, <2>1, SentStays, Numbers
<1> QED
  BY <1>6, <1>8, <1>9, <1>10, <1>11, <1>12, DispatchesStay DEF Flow, Counts

LEMMA StallFlow ==
  ASSUME IInv, NEW i \in Id, StalledFound(i) \/ LockLost(i)
  PROVE  Flow'
<1>1. Stall(i) /\ jobs[i].state = "active"
  BY DEF StalledFound, LockLost
<1>2. jobs[i] \in Job /\ Stalled(jobs[i]) \in Job
  BY JobTypes DEF IInv, TypeOK
<1>3. /\ jobs' \in [Id -> Job] /\ jobs'[i] = Stalled(jobs[i])
      /\ \A id \in Id \ {i} : jobs'[id] = jobs[id]
  BY <1>1, <1>2 DEF IInv, TypeOK, Stall
<1>4. jobs'[i].state \in {"waiting", "failed"} /\ jobs'[i].by = None
  BY <1>2, <1>3 DEF Stalled, Job
<1>5. /\ causes' \in [Id -> Nat] /\ causes'[i] = causes[i] + 1
      /\ \A id \in Id \ {i} : causes'[id] = causes[id]
  BY <1>1 DEF IInv, TypeOK, Stall, Cause
<1>6. UNCHANGED <<run, messages, asked>> /\ UNCHANGED <<dispatchVars, today>>
  BY <1>1 DEF Stall, Others, dispatchVars
<1>7. QueueTypes' /\ RunsOk'
  <2>1. QueueTypes'
    BY <1>3, <1>5, <1>6 DEF IInv, TypeOK, QueueTypes
  <2>2. RunsOk'
    BY <1>6 DEF IInv, RunsOk, RunOk
  <2> QED
    BY <2>1, <2>2
<1>8. IdsOk'
  <2>1. IdOk(i)'
    BY <1>1, <1>4, <1>6 DEF IInv, IdsOk, IdOk, InUse
  <2>2. \A id \in Id \ {i} : IdOk(id)'
    BY <1>3, <1>6 DEF IInv, IdsOk, IdOk
  <2> QED
    BY <2>1, <2>2 DEF IdsOk
<1>9. SentOk(i)'
  <2>1. InHand(i)' = InHand(i)
    BY <1>6 DEF InHand
  <2>2. Waiting(i) = 0 /\ Waiting(i)' \in 0..1
    BY <1>1 DEF Waiting
  <2>3. SentOk(i)
    BY DEF IInv, Counts
  <2> QED
    BY <1>5, <1>6, <2>1, <2>2, <2>3, Numbers DEF SentOk
<1>10. ASSUME NEW id \in Id \ {i} PROVE SentOk(id)'
  <2>1. InHand(id)' = InHand(id)
    BY <1>6 DEF InHand
  <2> QED
    BY <1>3, <1>5, <1>6, <2>1, SentStays, Numbers
<1> QED
  BY <1>6, <1>7, <1>8, <1>9, <1>10, DispatchesStay DEF Flow, Counts

LEMMA RestartFlow ==
  ASSUME IInv, Restart
  PROVE  Flow'
<1>1. /\ call' = [r \in Calls |-> NoCall] /\ run' = [w \in Workers |-> NoRun]
      /\ UNCHANGED <<jobs, messages, causes, picked, asked, allowed>>
  BY DEF Restart
<1>2. /\ NoCall.pc = "idle" /\ NoCall.rest = {} /\ NoRun.pc = "idle"
  BY DEF NoCall, NoRun
<1>3. DispatchTypes' /\ QueueTypes'
  BY <1>1, NoneTypes DEF IInv, TypeOK, DispatchTypes, QueueTypes
<1>4. CallsOk' /\ RunsOk' /\ IdsOk'
  <2>1. CallsOk' /\ RunsOk'
    BY <1>1, <1>2 DEF CallsOk, CallOk, RunsOk, RunOk
  <2>2. IdsOk'
    BY <1>1 DEF IInv, IdsOk, IdOk
  <2> QED
    BY <2>1, <2>2
<1>5. \A id \in Id : Coming(id)' \subseteq Coming(id) /\ InHand(id)' \subseteq InHand(id)
  BY <1>1, <1>2 DEF Coming, InHand
<1>6. Counts'
  BY <1>1, <1>5, AskedStays, SentStays, Numbers DEF Counts
<1> QED
  BY <1>3, <1>4, <1>6 DEF Flow

\* An edit, or midnight, touches neither dispatches nor jobs.
LEMMA FlowStays ==
  ASSUME IInv, UNCHANGED <<queueVars, dispatchVars>>
  PROVE  Flow'
<1> USE DEF queueVars, dispatchVars
<1>1. DispatchTypes' /\ QueueTypes'
  BY DEF IInv, TypeOK, DispatchTypes, QueueTypes
<1>2. CallsOk' /\ RunsOk' /\ IdsOk'
  BY DEF IInv, CallsOk, CallOk, RunsOk, RunOk, IdsOk, IdOk
<1>3. \A id \in Id : Coming(id)' = Coming(id) /\ InHand(id)' = InHand(id)
  BY DEF Coming, InHand
<1>4. Counts'
  BY <1>3, AskedStays, SentStays, Numbers DEF Counts
<1> QED
  BY <1>1, <1>2, <1>4 DEF Flow
-----------------------------------------------------------------------------
(* Edits. *)

Edits == EditTypes /\ EditsOk

LEMMA EditsStay ==
  ASSUME IInv, UNCHANGED editVars
  PROVE  Edits'
  BY DEF IInv, TypeOK, Edits, EditTypes, EditsOk, UpdateOk, SegmentOk, EnsureOk, editVars

\* An edit is over, done or not.
LEMMA EditorGone ==
  ASSUME IInv, NEW e \in Editors, editor' = [editor EXCEPT ![e] = NoEdit]
  PROVE  /\ editor' \in [Editors -> Editor] /\ editor'[e].pc = "idle"
         /\ \A f \in Editors \ {e} : editor'[f] = editor[f]
  BY NoneTypes DEF IInv, TypeOK, NoEdit

\* An edit goes on with another record.
LEMMA EditorWritten ==
  ASSUME IInv, NEW e \in Editors, NEW k \in Editor, editor' = [editor EXCEPT ![e] = k]
  PROVE  /\ editor' \in [Editors -> Editor] /\ editor'[e] = k
         /\ \A f \in Editors \ {e} : editor'[f] = editor[f]
  BY DEF IInv, TypeOK

\* A second edit of a kind is noted.
LEMMA NotedOk ==
  ASSUME IInv, NEW e \in Editors, NEW kind \in {"update", "ensure", "segment"}, Noted(e, kind)
  PROVE  /\ raced' \subseteq {"update", "ensure", "segment"} /\ raced \subseteq raced'
         /\ kind \notin raced' => \A f \in Editors \ {e} : editor[f].pc \notin Kind[kind]
  BY DEF IInv, TypeOK, Noted, Busy

LEMMA UpdateGetEdits ==
  ASSUME IInv, NEW e \in Editors, NEW s \in Status \cup {None}, NEW c \in Crons \cup {None},
         updateGet(e, s, c)
  PROVE  Edits'
<1>1. PICK k : k = [NoEdit EXCEPT !.pc = "write", !.row = row, !.status = s, !.cron = c]
  OBVIOUS
<1>2. k \in Editor /\ k.pc = "write" /\ k.row = row /\ row # None /\ row \in Row
  BY <1>1, NoneTypes DEF NoEdit, Editor, IInv, TypeOK, updateGet
<1>3. editor' = [editor EXCEPT ![e] = k] /\ UNCHANGED <<row, filter, schedules, wish>>
  BY <1>1 DEF updateGet
<1>4. /\ raced' \subseteq {"update", "ensure", "segment"} /\ raced \subseteq raced'
      /\ "update" \notin raced' => \A f \in Editors \ {e} : editor[f].pc # "write"
  BY NotedOk DEF updateGet, Kind
<1>5. /\ editor' \in [Editors -> Editor] /\ editor'[e] = k
      /\ \A f \in Editors \ {e} : editor'[f] = editor[f]
  BY <1>2, <1>3, EditorWritten
<1>6. EditTypes'
  BY <1>3, <1>4, <1>5 DEF IInv, TypeOK, EditTypes
<1>7. UpdateOk'
  BY <1>2, <1>3, <1>4, <1>5 DEF IInv, EditsOk, UpdateOk
<1>8. SegmentOk'
  BY <1>2, <1>3, <1>4, <1>5 DEF IInv, EditsOk, SegmentOk
<1>9. EnsureOk'
  BY <1>2, <1>3, <1>4, <1>5 DEF IInv, EditsOk, EnsureOk, Ensures
<1> QED
  BY <1>6, <1>7, <1>8, <1>9 DEF Edits, EditsOk

LEMMA SegmentGetEdits ==
  ASSUME IInv, NEW e \in Editors, NEW new \in Filter, segmentGet(e, new)
  PROVE  Edits'
<1>1. PICK k : k = [NoEdit EXCEPT !.pc = "save", !.filter = filter, !.newFilter = new]
  OBVIOUS
<1>2. k \in Editor /\ k.pc = "save" /\ k.filter = filter
  BY <1>1, NoneTypes DEF NoEdit, Editor, IInv, TypeOK, segmentGet, Filter
<1>3. editor' = [editor EXCEPT ![e] = k] /\ UNCHANGED <<row, filter, schedules, wish>>
  BY <1>1 DEF segmentGet
<1>4. /\ raced' \subseteq {"update", "ensure", "segment"} /\ raced \subseteq raced'
      /\ "segment" \notin raced' => \A f \in Editors \ {e} : editor[f].pc # "save"
  BY NotedOk DEF segmentGet, Kind
<1>5. /\ editor' \in [Editors -> Editor] /\ editor'[e] = k
      /\ \A f \in Editors \ {e} : editor'[f] = editor[f]
  BY <1>2, <1>3, EditorWritten
<1>6. EditTypes'
  BY <1>3, <1>4, <1>5 DEF IInv, TypeOK, EditTypes
<1>7. UpdateOk'
  BY <1>2, <1>3, <1>4, <1>5 DEF IInv, EditsOk, UpdateOk
<1>8. SegmentOk'
  BY <1>2, <1>3, <1>4, <1>5 DEF IInv, EditsOk, SegmentOk
<1>9. EnsureOk'
  BY <1>2, <1>3, <1>4, <1>5 DEF IInv, EditsOk, EnsureOk, Ensures
<1> QED
  BY <1>6, <1>7, <1>8, <1>9 DEF Edits, EditsOk

LEMMA EnsureEdits ==
  ASSUME IInv, NEW e \in Editors, ensureRepeatable(e)
  PROVE  Edits'
<1>1. PICK k : k = [NoEdit EXCEPT !.pc = "list", !.cron = row.cron]
  OBVIOUS
<1>2. row.cron \in Crons
  BY DEF ensureRepeatable, IInv, TypeOK, Row
<1>3. k \in Editor /\ k.pc = "list" /\ k.cron \in Crons
  BY <1>1, <1>2, NoneTypes DEF NoEdit, Editor
<1>4. editor' = [editor EXCEPT ![e] = k] /\ UNCHANGED <<row, filter, schedules, wish>>
  BY <1>1 DEF ensureRepeatable
<1>5. /\ raced' \subseteq {"update", "ensure", "segment"} /\ raced \subseteq raced'
      /\ "ensure" \notin raced' => \A f \in Editors \ {e} : editor[f].pc \notin Ensures
  BY NotedOk DEF ensureRepeatable, Kind
<1>6. /\ editor' \in [Editors -> Editor] /\ editor'[e] = k
      /\ \A f \in Editors \ {e} : editor'[f] = editor[f]
  BY <1>3, <1>4, EditorWritten
<1>7. EditTypes'
  BY <1>4, <1>5, <1>6 DEF IInv, TypeOK, EditTypes
<1>8. UpdateOk'
  BY <1>3, <1>4, <1>5, <1>6 DEF IInv, EditsOk, UpdateOk
<1>9. SegmentOk'
  BY <1>3, <1>4, <1>5, <1>6 DEF IInv, EditsOk, SegmentOk
<1>10. EnsureOk'
  BY <1>3, <1>4, <1>5, <1>6 DEF IInv, EditsOk, EnsureOk
<1> QED
  BY <1>7, <1>8, <1>9, <1>10 DEF Edits, EditsOk

LEMMA MergedTypes ==
  ASSUME NEW k \in Editor, k.row \in Row
  PROVE  /\ Merged(k) \in Row
         /\ Merged(k).status = IF k.status # None THEN k.status ELSE k.row.status
<1>1. PICK s : s = IF k.status # None THEN k.status ELSE k.row.status
  OBVIOUS
<1>2. PICK c : c = IF k.row.cron # None THEN k.row.cron ELSE k.cron
  OBVIOUS
<1>3. s \in Status /\ c \in Crons \cup {None}
  BY <1>1, <1>2 DEF Editor, Row
<1>4. Merged(k) = [k.row EXCEPT !.status = s, !.cron = c]
  BY <1>1, <1>2 DEF Merged
<1> QED
  BY <1>1, <1>3, <1>4 DEF Row

LEMMA UpdateWriteEdits ==
  ASSUME IInv, NEW e \in Editors, updateWrite(e)
  PROVE  Edits'
<1>1. editor[e] \in Editor /\ editor[e].pc = "write" /\ editor[e].row \in Row /\ row # None
  BY DEF IInv, TypeOK, EditsOk, UpdateOk, updateWrite
<1>2. /\ row' \in Row
      /\ row'.status = IF editor[e].status # None THEN editor[e].status ELSE editor[e].row.status
  BY <1>1, MergedTypes DEF updateWrite
<1>3. PICK s : s = IF editor[e].status # None THEN editor[e].status ELSE wish.status
  OBVIOUS
<1>4. s \in Status /\ wish' = [wish EXCEPT !.status = s]
  BY <1>1, <1>3 DEF IInv, TypeOK, Editor, updateWrite
<1>5. wish' \in [status : Status, filter : Filter] /\ wish'.status = s /\ wish'.filter = wish.filter
  BY <1>4 DEF IInv, TypeOK
<1>6. UNCHANGED <<filter, schedules, raced>>
  BY DEF updateWrite
<1>7. /\ editor' \in [Editors -> Editor] /\ editor'[e].pc = "idle"
      /\ \A f \in Editors \ {e} : editor'[f] = editor[f]
  BY EditorGone DEF updateWrite
<1>8. EditTypes'
  BY <1>2, <1>5, <1>6, <1>7 DEF IInv, TypeOK, EditTypes
<1>9. UpdateOk'
  <2>1. row' # None
    BY <1>2, NoneAssumption
  <2>2. ASSUME "update" \notin raced
        PROVE  row'.status = wish'.status /\ \A f \in Editors : editor'[f].pc # "write"
    BY <1>1, <1>2, <1>3, <1>5, <1>7, <2>2 DEF IInv, EditsOk, UpdateOk
  <2>3. \A f \in Editors : editor'[f].pc = "write" => editor'[f].row \in Row
    BY <1>7 DEF IInv, EditsOk, UpdateOk
  <2> QED
    BY <1>6, <2>1, <2>2, <2>3 DEF UpdateOk
<1>10. SegmentOk'
  BY <1>5, <1>6, <1>7 DEF IInv, EditsOk, SegmentOk
<1>11. EnsureOk'
  BY <1>6, <1>7 DEF IInv, EditsOk, EnsureOk, Ensures
<1> QED
  BY <1>8, <1>9, <1>10, <1>11 DEF Edits, EditsOk

LEMMA SegmentSaveEdits ==
  ASSUME IInv, NEW e \in Editors, segmentSave(e)
  PROVE  Edits'
<1>1. editor[e] \in Editor /\ editor[e].pc = "save"
  BY DEF IInv, TypeOK, segmentSave
<1>2. PICK n : n = IF editor[e].newFilter # NoFilter THEN editor[e].newFilter ELSE wish.filter
  OBVIOUS
<1>3. n \in Filter /\ wish' = [wish EXCEPT !.filter = n]
  BY <1>1, <1>2 DEF IInv, TypeOK, Editor, segmentSave
<1>4. wish' \in [status : Status, filter : Filter] /\ wish'.status = wish.status /\ wish'.filter = n
  BY <1>3 DEF IInv, TypeOK
<1>5. filter' = IF editor[e].newFilter # NoFilter THEN editor[e].newFilter ELSE editor[e].filter
  BY DEF segmentSave
<1>6. filter' \in Filter /\ UNCHANGED <<row, schedules, raced>>
  BY <1>1, <1>5 DEF Editor, Filter, segmentSave
<1>7. /\ editor' \in [Editors -> Editor] /\ editor'[e].pc = "idle"
      /\ \A f \in Editors \ {e} : editor'[f] = editor[f]
  BY EditorGone DEF segmentSave
<1>8. EditTypes'
  BY <1>4, <1>6, <1>7 DEF IInv, TypeOK, EditTypes
<1>9. UpdateOk'
  BY <1>4, <1>6, <1>7 DEF IInv, EditsOk, UpdateOk
<1>10. SegmentOk'
  <2>1. ASSUME "segment" \notin raced
        PROVE  filter' = wish'.filter /\ \A f \in Editors : editor'[f].pc # "save"
    BY <1>1, <1>2, <1>4, <1>5, <1>7, <2>1 DEF IInv, EditsOk, SegmentOk
  <2> QED
    BY <1>6, <2>1 DEF SegmentOk
<1>11. EnsureOk'
  BY <1>6, <1>7 DEF IInv, EditsOk, EnsureOk, Ensures
<1> QED
  BY <1>8, <1>9, <1>10, <1>11 DEF Edits, EditsOk

LEMMA ScheduleEdits ==
  ASSUME IInv, NEW e \in Editors, listRepeatables(e) \/ removeRepeatables(e) \/ addRepeatable(e)
  PROVE  Edits'
<1>1. /\ editor[e] \in Editor /\ editor[e].pc \in Ensures /\ editor[e].cron \in Crons
      /\ schedules \subseteq Crons
  BY DEF IInv, TypeOK, EditsOk, EnsureOk, Ensures, listRepeatables, removeRepeatables, addRepeatable
<1>2. UNCHANGED <<row, filter, wish, raced>>
  BY DEF listRepeatables, removeRepeatables, addRepeatable
<1>3. PICK k \in Editor : /\ editor' = [editor EXCEPT ![e] = k]
                          /\ k.pc \in {"remove", "add", "idle"}
                          /\ k.pc # "idle" => k.cron = editor[e].cron
                          /\ k.pc = "remove" => k.found = schedules
                          /\ \/ listRepeatables(e) /\ k.pc = "remove"
                             \/ removeRepeatables(e) /\ k.pc = "add"
                             \/ addRepeatable(e) /\ k.pc = "idle"
  <2>1. CASE listRepeatables(e)
    <3>1. PICK k : k = [editor[e] EXCEPT !.pc = "remove", !.found = schedules]
      OBVIOUS
    <3>2. editor' = [editor EXCEPT ![e] = k]
      BY <2>1, <3>1 DEF listRepeatables
    <3>3. k \in Editor /\ k.pc = "remove" /\ k.found = schedules /\ k.cron = editor[e].cron
      BY <1>1, <3>1 DEF Editor
    <3> QED
      BY <2>1, <3>2, <3>3
  <2>2. CASE removeRepeatables(e)
    <3>1. PICK k : k = [editor[e] EXCEPT !.pc = "add"]
      OBVIOUS
    <3>2. editor' = [editor EXCEPT ![e] = k]
      BY <2>2, <3>1 DEF removeRepeatables
    <3>3. k \in Editor /\ k.pc = "add" /\ k.cron = editor[e].cron
      BY <1>1, <3>1 DEF Editor
    <3> QED
      BY <2>2, <3>2, <3>3
  <2>3. CASE addRepeatable(e)
    <3>1. NoEdit \in Editor /\ NoEdit.pc = "idle"
      BY NoneTypes DEF NoEdit
    <3> QED
      BY <2>3, <3>1 DEF addRepeatable
  <2> QED
    BY <2>1, <2>2, <2>3
<1>4. /\ editor' \in [Editors -> Editor] /\ editor'[e] = k
      /\ \A f \in Editors \ {e} : editor'[f] = editor[f]
  BY <1>3, EditorWritten
<1>5. schedules' \subseteq Crons
  BY <1>1 DEF listRepeatables, removeRepeatables, addRepeatable
<1>6. EditTypes'
  BY <1>2, <1>4, <1>5 DEF IInv, TypeOK, EditTypes
<1>7. UpdateOk' /\ SegmentOk'
  <2>1. UpdateOk'
    BY <1>2, <1>3, <1>4 DEF IInv, EditsOk, UpdateOk
  <2>2. SegmentOk'
    BY <1>2, <1>3, <1>4 DEF IInv, EditsOk, SegmentOk
  <2> QED
    BY <2>1, <2>2
<1>8. \A f \in Editors : editor'[f].pc \in Ensures => editor'[f].cron \in Crons
  BY <1>1, <1>3, <1>4 DEF IInv, EditsOk, EnsureOk, Ensures
<1>9. ASSUME "ensure" \notin raced
      PROVE  /\ schedules' = {} \/ \E c \in Crons : schedules' = {c}
             /\ \A f \in Editors :
                    /\ editor'[f].pc = "remove" => editor'[f].found = schedules'
                    /\ editor'[f].pc = "add" => schedules' = {}
                    /\ \A g \in Editors :
                           editor'[f].pc \in Ensures /\ editor'[g].pc \in Ensures => g = f
  <2>1. \A f \in Editors : editor[f].pc \in Ensures => f = e
    BY <1>1, <1>9 DEF IInv, EditsOk, EnsureOk
  <2>2. \A f \in Editors : editor'[f].pc \in Ensures => f = e
    BY <1>4, <2>1
  <2>3. CASE listRepeatables(e)
    <3>1. schedules' = schedules /\ k.pc = "remove"
      BY <1>3, <2>3 DEF listRepeatables, removeRepeatables, addRepeatable
    <3> QED
      BY <1>3, <1>4, <1>9, <2>2, <3>1 DEF IInv, EditsOk, EnsureOk, Ensures
  <2>4. CASE removeRepeatables(e)
    <3>1. schedules' = {} /\ k.pc = "add"
      BY <1>3, <1>9, <2>4 DEF listRepeatables, removeRepeatables, addRepeatable, IInv, EditsOk, EnsureOk
    <3> QED
      BY <1>4, <2>2, <3>1 DEF Ensures
  <2>5. CASE addRepeatable(e)
    <3>1. schedules = {} /\ k.pc = "idle"
      BY <1>3, <1>9, <2>5 DEF listRepeatables, removeRepeatables, addRepeatable, IInv, EditsOk, EnsureOk
    <3>2. schedules' = {editor[e].cron}
      BY <2>5, <3>1 DEF addRepeatable
    <3> QED
      BY <1>1, <1>4, <2>2, <3>1, <3>2 DEF Ensures
  <2> QED
    BY <2>3, <2>4, <2>5
<1>10. EnsureOk'
  BY <1>2, <1>8, <1>9 DEF EnsureOk
<1> QED
  BY <1>6, <1>7, <1>10 DEF Edits, EditsOk

LEMMA EditFailsEdits ==
  ASSUME IInv, NEW e \in Editors, editFails(e)
  PROVE  Edits'
<1>1. /\ editor' \in [Editors -> Editor] /\ editor'[e].pc = "idle"
      /\ \A f \in Editors \ {e} : editor'[f] = editor[f]
  BY EditorGone DEF editFails
<1>2. UNCHANGED <<row, filter, schedules, wish, raced>>
  BY DEF editFails
<1>3. EditTypes'
  BY <1>1, <1>2 DEF IInv, TypeOK, EditTypes
<1>4. UpdateOk' /\ SegmentOk'
  <2>1. UpdateOk'
    BY <1>1, <1>2 DEF IInv, EditsOk, UpdateOk
  <2>2. SegmentOk'
    BY <1>1, <1>2 DEF IInv, EditsOk, SegmentOk
  <2> QED
    BY <2>1, <2>2
<1>5. EnsureOk'
  BY <1>1, <1>2 DEF IInv, EditsOk, EnsureOk, Ensures
<1> QED
  BY <1>3, <1>4, <1>5 DEF Edits, EditsOk

LEMMA RestartEdits ==
  ASSUME IInv, Restart
  PROVE  Edits'
<1>1. /\ editor' = [e \in Editors |-> NoEdit] /\ NoEdit.pc = "idle"
      /\ UNCHANGED <<row, filter, schedules, wish, raced>>
  BY DEF Restart, NoEdit
<1>2. EditTypes'
  BY <1>1, NoneTypes DEF IInv, TypeOK, EditTypes
<1>3. UpdateOk' /\ SegmentOk' /\ EnsureOk'
  <2>1. UpdateOk'
    BY <1>1 DEF IInv, EditsOk, UpdateOk
  <2>2. SegmentOk'
    BY <1>1 DEF IInv, EditsOk, SegmentOk
  <2>3. EnsureOk'
    BY <1>1 DEF IInv, EditsOk, EnsureOk, Ensures
  <2> QED
    BY <2>1, <2>2, <2>3
<1> QED
  BY <1>2, <1>3 DEF Edits, EditsOk

LEMMA RowEdits ==
  ASSUME IInv, (\E new \in Created : create(new)) \/ (\E s \in Status : setStatus(s))
  PROVE  Edits'
<1>1. PICK s \in Status : /\ wish' = [wish EXCEPT !.status = s]
                          /\ row' \in Row /\ row'.status = s
                          /\ \/ \E new \in Created : create(new)
                             \/ setStatus(s)
  <2>1. CASE \E new \in Created : create(new)
    <3>1. PICK new \in Created : create(new)
      BY <2>1
    <3> QED
      BY <2>1, <3>1, CreatedAssumption DEF create, Row
  <2>2. CASE \E s \in Status : setStatus(s)
    <3>1. PICK s \in Status : setStatus(s)
      BY <2>2
    <3>2. row \in Row
      BY <3>1 DEF setStatus, IInv, TypeOK
    <3> QED
      BY <3>1, <3>2 DEF setStatus, Row
  <2> QED
    BY <2>1, <2>2
<1>2. wish' \in [status : Status, filter : Filter] /\ wish'.status = s /\ wish'.filter = wish.filter
  BY <1>1 DEF IInv, TypeOK
<1>3. /\ UNCHANGED <<filter, editor, schedules>> /\ raced \subseteq raced'
      /\ raced' \subseteq {"update", "ensure", "segment"}
  BY <1>1 DEF IInv, TypeOK, create, setStatus
<1>4. EditTypes'
  BY <1>1, <1>2, <1>3 DEF IInv, TypeOK, EditTypes
<1>5. UpdateOk'
  <2>1. row' # None
    BY <1>1, NoneAssumption
  <2>2. "update" \notin raced' => \A e \in Editors : editor[e].pc # "write"
    BY <1>1 DEF IInv, EditsOk, UpdateOk, create, setStatus
  <2> QED
    BY <1>1, <1>2, <1>3, <2>1, <2>2 DEF IInv, EditsOk, UpdateOk
<1>6. SegmentOk'
  BY <1>2, <1>3 DEF IInv, EditsOk, SegmentOk
<1>7. EnsureOk'
  BY <1>3 DEF IInv, EditsOk, EnsureOk
<1> QED
  BY <1>4, <1>5, <1>6, <1>7 DEF Edits, EditsOk

LEMMA SegmentRemoveEdits ==
  ASSUME IInv, segmentRemove
  PROVE  Edits'
<1>1. filter' = NoFilter /\ NoFilter \in Filter /\ UNCHANGED <<row, editor, schedules>>
  BY DEF segmentRemove, Filter
<1>2. /\ wish' \in [status : Status, filter : Filter]
      /\ wish'.status = wish.status /\ wish'.filter = NoFilter
  BY <1>1 DEF IInv, TypeOK, segmentRemove
<1>3. /\ raced \subseteq raced' /\ raced' \subseteq {"update", "ensure", "segment"}
      /\ "segment" \notin raced' => \A e \in Editors : editor[e].pc # "save"
  BY DEF IInv, TypeOK, segmentRemove
<1>4. EditTypes'
  BY <1>1, <1>2, <1>3 DEF IInv, TypeOK, EditTypes
<1>5. UpdateOk' /\ SegmentOk' /\ EnsureOk'
  <2>1. UpdateOk'
    BY <1>1, <1>2, <1>3 DEF IInv, EditsOk, UpdateOk
  <2>2. SegmentOk'
    BY <1>1, <1>2, <1>3 DEF IInv, EditsOk, SegmentOk
  <2>3. EnsureOk'
    BY <1>1, <1>3 DEF IInv, EditsOk, EnsureOk
  <2> QED
    BY <2>1, <2>2, <2>3
<1> QED
  BY <1>4, <1>5 DEF Edits, EditsOk
-----------------------------------------------------------------------------
LEMMA InitInv == Init => IInv
<1> SUFFICES ASSUME Init PROVE IInv
  OBVIOUS
<1>1. /\ NoCall.pc = "idle" /\ NoCall.rest = {} /\ NoRun.pc = "idle" /\ NoEdit.pc = "idle"
      /\ Free.state = "none" /\ Free.by = None
  BY DEF NoCall, NoRun, NoEdit, Free, Queued
<1>2. Free \in Job
  BY DEF Free, Queued, Job
<1>3. TypeOK
  BY <1>2, NoneTypes, BoundsAssumption DEF Init, TypeOK, Filter, Status
<1>4. CallsOk /\ RunsOk /\ IdsOk
  BY <1>1 DEF Init, CallsOk, CallOk, RunsOk, RunOk, IdsOk, IdOk, InUse
<1>5. Counts
  <2>1. ASSUME NEW id \in Id PROVE Coming(id) = {} /\ InHand(id) = {} /\ Waiting(id) = 0
    BY <1>1 DEF Init, Coming, InHand, Waiting
  <2> QED
    BY SMTT(30), <2>1, FS_EmptySet DEF Init, Counts, AskedOk, SentOk
<1>6. EditsOk
  BY <1>1 DEF Init, EditsOk, UpdateOk, SegmentOk, EnsureOk, Ensures
<1> QED
  BY <1>3, <1>4, <1>5, <1>6 DEF IInv

LEMMA StepInv == IInv /\ [Next]_vars => IInv'
<1> SUFFICES ASSUME IInv, [Next]_vars PROVE IInv'
  OBVIOUS
<1>0. today \in 1..Days /\ (today' = today => today' \in 1..Days)
  BY DEF IInv, TypeOK
<1>1. ASSUME Flow', Edits', today' \in 1..Days PROVE IInv'
  BY <1>1 DEF Flow, Edits, IInv, TypeOK, DispatchTypes, QueueTypes, EditTypes
<1>2. CASE UNCHANGED vars
  BY <1>0, <1>1, <1>2, FlowStays, EditsStay DEF vars
<1>3. CASE Midnight
  <2>1. today' \in 1..Days
    BY <1>0, <1>3, BoundsAssumption DEF Midnight
  <2> QED
    BY <1>1, <1>3, <2>1, FlowStays, EditsStay DEF Midnight
<1>4. ASSUME NEW r \in Calls, dispatch(r) \/ Dispatching(r) \/ dispatchFails(r) PROVE IInv'
  <2>1. UNCHANGED <<editVars, today>>
    BY <1>4 DEF dispatch, Dispatching, selectCases, Chosen, segmentMissing, enqueue,
       enqueueRefused, dispatchFails
  <2>2. Flow'
    BY <1>4, DispatchFlow, ChosenFlow, EnqueueFlow, DispatchFailsFlow DEF Dispatching
  <2> QED
    BY <1>0, <1>1, <2>1, <2>2, EditsStay
<1>5. ASSUME NEW w \in Workers,
             \/ \E id \in Id : Take(w, id)
             \/ Work(w) \/ readFails(w) \/ queueFails(w)
      PROVE  IInv'
  <2>1. UNCHANGED <<editVars, today>>
    BY <1>5 DEF Take, Work, readFails, queueFails, readCase, queueMessage, Complete, Retry, Settle,
       Others
  <2>2. Flow'
    BY <1>5, TakeFlow, ProcessorFlow, SettleFlow DEF Work
  <2> QED
    BY <1>0, <1>1, <2>1, <2>2, EditsStay
<1>6. ASSUME NEW id \in Id, StalledFound(id) \/ LockLost(id) PROVE IInv'
  <2>1. UNCHANGED <<editVars, today>>
    BY <1>6 DEF StalledFound, LockLost, Stall, Others
  <2> QED
    BY <1>0, <1>1, <1>6, <2>1, StallFlow, EditsStay
<1>7. ASSUME NEW e \in Editors,
             \/ \E s \in Status \cup {None}, c \in Crons \cup {None} : updateGet(e, s, c)
             \/ \E f \in Filter : segmentGet(e, f)
             \/ ensureRepeatable(e) \/ Edit(e) \/ editFails(e)
      PROVE  IInv'
  <2>1. UNCHANGED <<queueVars, dispatchVars, today>>
    BY <1>7 DEF updateGet, segmentGet, ensureRepeatable, Edit, updateWrite, listRepeatables,
       removeRepeatables, addRepeatable, segmentSave, editFails, NotEdits
  <2>2. Edits'
    BY <1>7, UpdateGetEdits, SegmentGetEdits, EnsureEdits, UpdateWriteEdits, ScheduleEdits,
       SegmentSaveEdits, EditFailsEdits DEF Edit
  <2> QED
    BY <1>0, <1>1, <2>1, <2>2, FlowStays
<1>8. CASE \/ \E new \in Created : create(new)
           \/ \E s \in Status : setStatus(s)
           \/ segmentRemove
  <2>1. UNCHANGED <<queueVars, dispatchVars, today>>
    BY <1>8 DEF create, setStatus, segmentRemove, NotEdits
  <2>2. Edits'
    BY <1>8, RowEdits, SegmentRemoveEdits
  <2> QED
    BY <1>0, <1>1, <2>1, <2>2, FlowStays
<1>9. CASE Restart
  <2>1. today' = today
    BY <1>9 DEF Restart
  <2> QED
    BY <1>0, <1>1, <1>9, <2>1, RestartFlow, RestartEdits
<1> QED
  BY <1>2, <1>3, <1>4, <1>5, <1>6, <1>7, <1>8, <1>9 DEF Next

\* What the processors, dispatches and edits rely on holds at every step.
THEOREM Invariance == Spec => []IInv
  BY InitInv, StepInv, PTL DEF Spec

\* Every variable keeps to its type.
THEOREM TypeCorrect == Spec => []TypeOK
<1>1. IInv => TypeOK
  BY DEF IInv
<1> QED
  BY <1>1, Invariance, PTL

LEMMA NeedDispatch ==
  ASSUME IInv
  PROVE  MessagesNeedDispatch
<1> SUFFICES ASSUME NEW id \in Id
             PROVE  messages[id] <= asked[id] + causes[id] /\ asked[id] <= picked[id]
  BY DEF MessagesNeedDispatch
<1>1. Waiting(id) \in 0..1
  BY DEF Waiting
<1>2. AskedOk(id) /\ SentOk(id)
  BY DEF IInv, Counts
<1> QED
  BY <1>1, <1>2, Numbers DEF AskedOk, SentOk

\* The messages of a case and day are within the rows in which dispatches found
\* it, whatever was retried, overlapped or restarted (the ids of the jobs).
THEOREM MessagesDispatched == Spec => []MessagesNeedDispatch
  BY NeedDispatch, Invariance, PTL

\* No message goes to a debtor of another tenant.
THEOREM TenantsKeptApart == Spec => []OwnTenantOnly
<1>1. IInv => OwnTenantOnly
  BY DEF IInv, IdsOk, IdOk, OwnTenantOnly
<1> QED
  BY <1>1, Invariance, PTL

\* What was given to the queue is sent or has failed.
THEOREM ChosenSent == Spec => []ChosenIsSent
<1>1. IInv => ChosenIsSent
  BY DEF IInv, IdsOk, IdOk, ChosenIsSent, Resting, InUse
<1> QED
  BY <1>1, Invariance, PTL

\* Edits that do not overlap are kept.
THEOREM EditsKept == Spec => []EditsAreKept
<1>1. IInv => EditsAreKept
  BY DEF IInv, EditsOk, UpdateOk, SegmentOk, EditsAreKept
<1> QED
  BY <1>1, Invariance, PTL

\* Calls of ensureRepeatable that do not overlap leave one repeatable job.
THEOREM OneScheduleKept == Spec => []OneSchedule
<1>1. ASSUME IInv, "ensure" \notin raced PROVE Cardinality(schedules) <= 1
  <2>1. schedules = {} \/ \E c \in Crons : schedules = {c}
    BY <1>1 DEF IInv, EditsOk, EnsureOk
  <2>2. CASE schedules = {}
    BY <2>2, FS_EmptySet
  <2>3. ASSUME NEW c \in Crons, schedules = {c} PROVE Cardinality(schedules) <= 1
    BY <2>3, FS_Singleton
  <2> QED
    BY <2>1, <2>2, <2>3
<1>2. IInv => OneSchedule
  BY <1>1 DEF OneSchedule
<1> QED
  BY <1>2, Invariance, PTL
-----------------------------------------------------------------------------
(* No job is renewed. *)

Renewed(q, n) ==
    /\ InUse(q) /\ InUse(n)
    /\ \/ n.made + n.stalled < q.made + q.stalled
       \/ q.state = "failed" /\ n # q

\* What the queue does with a job that is not renewed.
LEMMA NotRenewed ==
  ASSUME NEW q \in Job
  PROVE  /\ ~Renewed(q, q) /\ ~Renewed(q, Free)
         /\ q = Free => ~Renewed(q, Queued)
         /\ \A w \in Workers : q.state = "waiting" => ~Renewed(q, Taken(q, w))
         /\ q.state = "active" => ~Renewed(q, Stalled(q)) /\ ~Renewed(q, Retried(q, Attempts))
<1>1. q.made \in Nat /\ q.stalled \in Nat
  BY DEF Job
<1>2. /\ ~Renewed(q, q) /\ ~Renewed(q, Free)
      /\ q = Free => ~Renewed(q, Queued)
      /\ \A w \in Workers : q.state = "waiting" => ~Renewed(q, Taken(q, w))
  <2>1. ~Renewed(q, q)
    BY <1>1 DEF Renewed
  <2>2. ~Renewed(q, Free) /\ (q = Free => ~Renewed(q, Queued))
    BY DEF Renewed, InUse, Free, Queued
  <2>3. ASSUME NEW w \in Workers, q.state = "waiting" PROVE ~Renewed(q, Taken(q, w))
    <3>1. Taken(q, w).made = q.made /\ Taken(q, w).stalled = q.stalled
      BY DEF Taken, Job
    <3> QED
      BY <1>1, <2>3, <3>1 DEF Renewed
  <2> QED
    BY <2>1, <2>2, <2>3
<1>3. Stalled(q).made + Stalled(q).stalled >= q.made + q.stalled
  BY <1>1 DEF Stalled, Job
<1>4. Retried(q, Attempts).made + Retried(q, Attempts).stalled >= q.made + q.stalled
  BY <1>1 DEF Retried, Job
<1>5. ASSUME q.state = "active", NEW n \in Job, n.made + n.stalled >= q.made + q.stalled
      PROVE  ~Renewed(q, n)
  BY <1>1, <1>5 DEF Renewed, Job
<1>6. Stalled(q) \in Job /\ Retried(q, Attempts) \in Job
  BY JobTypes
<1> QED
  BY <1>2, <1>3, <1>4, <1>5, <1>6

\* A processor decides about a job only while it holds it, and a held job is active.
LEMMA RenewedStep ==
  ASSUME IInv, [Next]_vars, NEW i \in Id
  PROVE  ~Renewed(jobs[i], jobs'[i])
<1>0. jobs \in [Id -> Job] /\ jobs[i] \in Job
  BY DEF IInv, TypeOK
<1>1. CASE jobs' = jobs
  BY <1>0, <1>1, NotRenewed
<1>2. ASSUME NEW id \in Id, addJob(id) PROVE ~Renewed(jobs[i], jobs'[i])
  <2>1. PICK q : q = IF jobs[id] = Free THEN Queued ELSE jobs[id]
    OBVIOUS
  <2>2. jobs' = [jobs EXCEPT ![id] = q]
    BY <1>2, <2>1 DEF addJob
  <2> QED
    BY <1>0, <2>1, <2>2, NotRenewed
<1>3. ASSUME NEW w \in Workers, NEW id \in Id, Take(w, id) PROVE ~Renewed(jobs[i], jobs'[i])
  <2>1. jobs' = [jobs EXCEPT ![id] = Taken(jobs[id], w)] /\ jobs[id].state = "waiting"
    BY <1>3 DEF Take
  <2> QED
    BY <1>0, <2>1, NotRenewed
<1>4. ASSUME NEW w \in Workers, Complete(w) \/ Retry(w) PROVE ~Renewed(jobs[i], jobs'[i])
  <2>1. PICK id \in Id : run[w].id = id
    BY <1>4 DEF IInv, RunsOk, RunOk, Complete, Retry
  <2>2. PICK r : /\ r = Settled(jobs[id], w, Free) \/ r = Settled(jobs[id], w, Retried(jobs[id], Attempts))
                 /\ jobs' = [jobs EXCEPT ![id] = r]
    BY <1>4, <2>1 DEF Complete, Retry, Settle
  <2>3. jobs[id].by = w => jobs[id].state = "active"
    BY NoneAssumption DEF IInv, IdsOk, IdOk
  <2>4. \/ r = jobs[id]
        \/ r = Free
        \/ r = Retried(jobs[id], Attempts) /\ jobs[id].state = "active"
    BY <2>2, <2>3 DEF Settled
  <2> QED
    BY <1>0, <2>2, <2>4, NotRenewed
<1>5. ASSUME NEW id \in Id, StalledFound(id) \/ LockLost(id) PROVE ~Renewed(jobs[i], jobs'[i])
  <2>1. jobs' = [jobs EXCEPT ![id] = Stalled(jobs[id])] /\ jobs[id].state = "active"
    BY <1>5 DEF StalledFound, LockLost, Stall
  <2> QED
    BY <1>0, <2>1, NotRenewed
<1>6. ASSUME NEW r \in Calls, dispatch(r) \/ Dispatching(r) \/ dispatchFails(r)
      PROVE  ~Renewed(jobs[i], jobs'[i])
  <2>1. CASE jobs' = jobs
    BY <1>1, <2>1
  <2>2. CASE jobs' # jobs
    <3>1. PICK h \in call[r].rest : addJob(<<h[1], call[r].day>>)
      BY <1>6, <2>2 DEF dispatch, Dispatching, selectCases, Chosen, segmentMissing, enqueue,
         enqueueRefused, dispatchFails, queueVars
    <3>2. call[r] \in Call /\ h \in Hits /\ h[1] \in Cases
      BY HitsAssumption DEF IInv, TypeOK, Call
    <3>3. <<h[1], call[r].day>> \in Id
      BY <3>2 DEF Call, Id
    <3> QED
      BY <1>2, <3>1, <3>3
  <2> QED
    BY <2>1, <2>2
<1>7. ASSUME NEW w \in Workers, readCase(w) \/ queueMessage(w) \/ readFails(w) \/ queueFails(w)
      PROVE  jobs' = jobs
  BY <1>7 DEF readCase, queueMessage, readFails, queueFails
<1>8. ASSUME NEW e \in Editors,
             \/ \E s \in Status \cup {None}, c \in Crons \cup {None} : updateGet(e, s, c)
             \/ \E f \in Filter : segmentGet(e, f)
             \/ ensureRepeatable(e) \/ Edit(e) \/ editFails(e)
      PROVE  jobs' = jobs
  BY <1>8 DEF updateGet, segmentGet, ensureRepeatable, Edit, updateWrite, listRepeatables,
     removeRepeatables, addRepeatable, segmentSave, editFails, NotEdits, queueVars
<1>9. CASE \/ \E new \in Created : create(new)
           \/ \E s \in Status : setStatus(s)
           \/ segmentRemove \/ Midnight \/ Restart \/ UNCHANGED vars
  <2>1. jobs' = jobs
    BY <1>9 DEF create, setStatus, segmentRemove, Midnight, Restart, NotEdits, queueVars, vars
  <2> QED
    BY <1>1, <2>1
<1> QED
  BY <1>1, <1>3, <1>4, <1>5, <1>6, <1>7, <1>8, <1>9 DEF Next, Work

\* The attempts of a job are not renewed, and one that has failed stays so.
THEOREM NoJobRenewed == Spec => JobsAreNotRenewed
<1>1. ASSUME IInv, [Next]_vars,  NEW id \in Id, InUse(jobs[id]), InUse(jobs'[id])
      PROVE  /\ jobs'[id].made + jobs'[id].stalled >= jobs[id].made + jobs[id].stalled
             /\ jobs[id].state = "failed" => jobs'[id] = jobs[id]
  <2>1. jobs[id] \in Job /\ jobs'[id] \in Job
    BY <1>1, StepInv DEF IInv, TypeOK
  <2>2. ~Renewed(jobs[id], jobs'[id])
    BY <1>1, RenewedStep
  <2> QED
    BY <1>1, <2>1, <2>2 DEF Renewed, Job
<1>2. IInv /\ [Next]_vars =>
          [\A id \in Id : InUse(jobs[id]) /\ InUse(jobs'[id]) =>
              /\ jobs'[id].made + jobs'[id].stalled >= jobs[id].made + jobs[id].stalled
              /\ jobs[id].state = "failed" => jobs'[id] = jobs[id]]_vars
  BY <1>1
<1> QED
  BY <1>2, Invariance, PTL DEF Spec, JobsAreNotRenewed
=============================================================================
