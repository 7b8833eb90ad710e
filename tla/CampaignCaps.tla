---------------------------- MODULE CampaignCaps ----------------------------
(***************************************************************************)
(* The proof that the messages of a day stay within the caps.              *)
(*                                                                         *)
(* Sent adds up a function over the cases of a day.  The theorems that a   *)
(* library may offer about such a sum take the summand as an operator, so  *)
(* what is needed of it is proved here for functions on Id, by induction   *)
(* on sets of numbers and on sets of sets of cases.                        *)
(***************************************************************************)
EXTENDS CampaignProofs, WellFoundedInduction

\* Induction, with a set in the place of a predicate.
LEMMA NumbersInduction ==
  ASSUME NEW T, 0 \in T, \A n \in Nat : n \in T => n + 1 \in T
  PROVE  Nat \subseteq T
<1> SUFFICES ASSUME Nat \ T # {} PROVE FALSE
  OBVIOUS
<1> DEFINE Below == OpToRel(<, Nat)
           Missing == Nat \ T
<1>a. IsWellFoundedOn(Below, Nat)
  BY NatLessThanWellFounded
<1>b. \A n \in Nat, k \in Nat : n < k => <<n, k>> \in Below
  BY DEF OpToRel
<1>c. Missing \subseteq Nat /\ Missing # {}
  OBVIOUS
<1> HIDE DEF Below
<1>1. PICK m \in Missing : \A n \in Missing : ~ (<<n, m>> \in Below)
  <2> HIDE DEF Missing
  <2> QED
    BY <1>a, <1>c, WFMin
<1>2. m \in Nat /\ m # 0 /\ m - 1 \in Nat /\ m - 1 < m /\ m = (m - 1) + 1
  BY <1>1
<1>3. <<m - 1, m>> \in Below
  BY <1>2, <1>b
<1>4. m - 1 \notin T
  <2> SUFFICES ASSUME m - 1 \in T PROVE FALSE
    OBVIOUS
  <2>1. (m - 1) + 1 \in T
    BY <1>2
  <2> QED
    BY <2>1, <1>1, <1>2
<1> QED
  BY <1>1, <1>2, <1>3, <1>4

\* The case that a sum over s adds next.
First(s) == CHOOSE c \in s : TRUE
Rest(s) == s \ {First(s)}

LEMMA RestOf ==
  ASSUME NEW s \in SUBSET Cases, s # {}
  PROVE  /\ First(s) \in s /\ First(s) \in Cases /\ Rest(s) \in SUBSET Cases
         /\ IsFiniteSet(s) /\ IsFiniteSet(Rest(s))
         /\ Cardinality(s) \in Nat /\ Cardinality(Rest(s)) = Cardinality(s) - 1
         /\ Cardinality(Rest(s)) \in Nat
<1>1. First(s) \in s
  BY DEF First
<1>2. Rest(s) \in SUBSET Cases
  BY DEF Rest
<1>3. IsFiniteSet(s) /\ IsFiniteSet(Rest(s)) /\ Cardinality(s) \in Nat /\ Cardinality(Rest(s)) \in Nat
  BY <1>2, CasesAssumption, Sizes
<1>4. Cardinality(Rest(s)) = Cardinality(s) - 1
  BY <1>1, <1>3, FS_RemoveElement DEF Rest
<1> QED
  BY <1>1, <1>2, <1>3, <1>4

LEMMA CasesInduction ==
  ASSUME NEW T, {} \in T, \A s \in SUBSET Cases : s # {} /\ Rest(s) \in T => s \in T
  PROVE  SUBSET Cases \subseteq T
<1> DEFINE N == {n \in Nat : \A s \in SUBSET Cases : Cardinality(s) = n => s \in T}
<1>1. \A s \in SUBSET Cases : IsFiniteSet(s) /\ Cardinality(s) \in Nat
  BY CasesAssumption, Sizes
<1>2. 0 \in N
  BY <1>1, FS_EmptySet
<1>3. ASSUME NEW n \in Nat, n \in N PROVE n + 1 \in N
  <2> SUFFICES ASSUME NEW s \in SUBSET Cases, Cardinality(s) = n + 1 PROVE s \in T
    OBVIOUS
  <2>1. s # {}
    BY FS_EmptySet
  <2>2. Rest(s) \in SUBSET Cases /\ Cardinality(Rest(s)) = n
    BY <2>1, RestOf
  <2> QED
    BY <2>1, <2>2, <1>3
<1> HIDE DEF N
<1>4. Nat \subseteq N
  BY <1>2, <1>3, NumbersInduction
<1> QED
  BY <1>1, <1>4 DEF N
-----------------------------------------------------------------------------
(* The sum over the cases of a day. *)

\* What the sum over s is, given the sums over what is smaller.
Step(f, d, g, s) == IF s = {} THEN 0 ELSE f[<<First(s), d>>] + g[Rest(s)]

Sums(f, d) == CHOOSE g : g = [s \in SUBSET Cases |-> Step(f, d, g, s)]

LEMMA SentIsSum ==
  ASSUME NEW f, NEW d
  PROVE  Sent(f, d) = Sums(f, d)[Cases]
  BY DEF Sent, MapThenSumSet, MapThenFoldSet, Sums, Step, First, Rest

\* There are such sums, for sets of n cases at most and so for all.
LEMMA SumsDefined ==
  ASSUME NEW f, NEW d
  PROVE  \A s \in SUBSET Cases : Sums(f, d)[s] = Step(f, d, Sums(f, d), s)
<1> DEFINE Small(n) == {s \in SUBSET Cases : Cardinality(s) <= n}
           Good(g, n) == g = [s \in Small(n) |-> Step(f, d, g, s)]
           N == {n \in Nat : \E g : Good(g, n)}
<1>1. \A s \in SUBSET Cases : IsFiniteSet(s) /\ Cardinality(s) \in Nat
  BY CasesAssumption, Sizes
<1>2. 0 \in N
  <2>1. \A s \in Small(0) : s = {}
    BY <1>1, FS_EmptySet
  <2>2. Good([s \in Small(0) |-> 0], 0)
    BY <2>1 DEF Step
  <2> QED
    BY <2>2
<1>3. ASSUME NEW n \in Nat, n \in N PROVE n + 1 \in N
  <2>1. PICK g : Good(g, n)
    BY <1>3
  <2> DEFINE h == [s \in Small(n + 1) |-> Step(f, d, g, s)]
  <2>2. \A s \in Small(n + 1) : s # {} => Rest(s) \in Small(n) /\ Rest(s) \in Small(n + 1)
    BY <1>1, RestOf
  <2>3. \A s \in Small(n) : s \in Small(n + 1) /\ h[s] = g[s]
    <3> TAKE s \in Small(n)
    <3>1. s \in Small(n + 1)
      BY <1>1
    <3>2. g[s] = Step(f, d, g, s)
      BY <2>1
    <3> QED
      BY <3>1, <3>2
  <2>4. \A s \in Small(n + 1) : Step(f, d, h, s) = Step(f, d, g, s)
    <3> HIDE DEF h, Small
    <3> QED
      BY <2>2, <2>3 DEF Step
  <2>5. Good(h, n + 1)
    <3> HIDE DEF Small
    <3> QED
      BY <2>4
  <2>6. \E k : Good(k, n + 1)
    <3> HIDE DEF Good, h
    <3> QED
      BY <2>5
  <2> HIDE DEF Good
  <2> QED
    BY <2>6
<1>4. Nat \subseteq N
  <2> HIDE DEF N
  <2> QED
    BY <1>2, <1>3, NumbersInduction
<1>5. PICK g : Good(g, Cardinality(Cases))
  BY <1>1, <1>4
<1>6. Small(Cardinality(Cases)) = SUBSET Cases
  BY <1>1, CasesAssumption, FS_Subset
<1>7. g = [s \in SUBSET Cases |-> Step(f, d, g, s)]
  BY <1>5, <1>6
<1>8. Sums(f, d) = [s \in SUBSET Cases |-> Step(f, d, Sums(f, d), s)]
  BY <1>7 DEF Sums
<1> QED
  BY <1>8

LEMMA SumOfNone ==
  ASSUME NEW f, NEW d
  PROVE  Sums(f, d)[{}] = 0
<1>1. {} \in SUBSET Cases
  OBVIOUS
<1> QED
  BY <1>1, SumsDefined DEF Step

LEMMA SumOfMore ==
  ASSUME NEW f, NEW d, NEW s \in SUBSET Cases, s # {}
  PROVE  Sums(f, d)[s] = f[<<First(s), d>>] + Sums(f, d)[Rest(s)]
  BY SumsDefined DEF Step

Counting == [Id -> Nat]

LEMMA SumType ==
  ASSUME NEW f \in Counting, NEW d \in 1..Days
  PROVE  \A s \in SUBSET Cases : Sums(f, d)[s] \in Nat
<1> DEFINE T == {s \in SUBSET Cases : Sums(f, d)[s] \in Nat}
<1>1. {} \in T
  BY SumOfNone
<1>2. ASSUME NEW s \in SUBSET Cases, s # {}, Rest(s) \in T PROVE s \in T
  <2>1. <<First(s), d>> \in Id
    BY <1>2, RestOf DEF Id
  <2>2. f[<<First(s), d>>] \in Nat
    BY <2>1 DEF Counting
  <2> QED
    BY <1>2, <2>2, SumOfMore
<1> HIDE DEF T
<1>3. SUBSET Cases \subseteq T
  BY <1>1, <1>2, CasesInduction
<1> QED
  BY <1>3 DEF T

\* A sum is monotonic, and additive.
LEMMA SumBelow ==
  ASSUME NEW f \in Counting, NEW g \in Counting, NEW h \in Counting, NEW d \in 1..Days,
         \A c \in Cases : f[<<c, d>>] <= g[<<c, d>>] + h[<<c, d>>]
  PROVE  \A s \in SUBSET Cases : Sums(f, d)[s] <= Sums(g, d)[s] + Sums(h, d)[s]
<1> DEFINE T == {s \in SUBSET Cases : Sums(f, d)[s] <= Sums(g, d)[s] + Sums(h, d)[s]}
<1>1. {} \in T
  BY SumOfNone
<1>2. ASSUME NEW s \in SUBSET Cases, s # {}, Rest(s) \in T PROVE s \in T
  <2>1. First(s) \in Cases /\ Rest(s) \in SUBSET Cases /\ <<First(s), d>> \in Id
    BY <1>2, RestOf DEF Id
  <2>2. /\ f[<<First(s), d>>] \in Nat /\ g[<<First(s), d>>] \in Nat
        /\ h[<<First(s), d>>] \in Nat
    BY <2>1 DEF Counting
  <2>3. /\ Sums(f, d)[Rest(s)] \in Nat /\ Sums(g, d)[Rest(s)] \in Nat
        /\ Sums(h, d)[Rest(s)] \in Nat
    BY <2>1, SumType
  <2>4. /\ Sums(f, d)[s] = f[<<First(s), d>>] + Sums(f, d)[Rest(s)]
        /\ Sums(g, d)[s] = g[<<First(s), d>>] + Sums(g, d)[Rest(s)]
        /\ Sums(h, d)[s] = h[<<First(s), d>>] + Sums(h, d)[Rest(s)]
    BY <1>2, SumOfMore
  <2>5. f[<<First(s), d>>] <= g[<<First(s), d>>] + h[<<First(s), d>>]
    BY <2>1
  <2>6. Sums(f, d)[Rest(s)] <= Sums(g, d)[Rest(s)] + Sums(h, d)[Rest(s)]
    BY <1>2
  <2> QED
    BY <2>2, <2>3, <2>4, <2>5, <2>6
<1> HIDE DEF T
<1>3. SUBSET Cases \subseteq T
  BY <1>1, <1>2, CasesInduction
<1> QED
  BY <1>3 DEF T

\* The rows of the cases in s.
Of(s, hits) == {h \in hits : h[1] \in s}

\* One more for each row of a case adds the number of rows.
OneMoreFor(hits, f, g, d) ==
    \A c \in Cases : g[<<c, d>>] = f[<<c, d>>] + Cardinality(RowsFor(c, hits))

LEMMA RowsApart ==
  ASSUME NEW hits \in SUBSET Hits, NEW s \in SUBSET Cases, s # {}
  PROVE  /\ Cardinality(Of(s, hits)) =
               Cardinality(RowsFor(First(s), hits)) + Cardinality(Of(Rest(s), hits))
         /\ Cardinality(Of(s, hits)) \in Nat /\ Cardinality(Of(Rest(s), hits)) \in Nat
         /\ Cardinality(RowsFor(First(s), hits)) \in Nat
<1> DEFINE A == RowsFor(First(s), hits)
           B == Of(Rest(s), hits)
<1>1. A \in SUBSET Hits /\ B \in SUBSET Hits /\ A \cap B = {} /\ Of(s, hits) = A \cup B
  BY RestOf DEF RowsFor, Of, Rest
<1> HIDE DEF A, B
<1>2. /\ IsFiniteSet(A) /\ IsFiniteSet(B)
      /\ Cardinality(A) \in Nat /\ Cardinality(B) \in Nat
  BY <1>1, Sizes, HitsAssumption
<1>3. Cardinality(A \cup B) = Cardinality(A) + Cardinality(B) - Cardinality(A \cap B)
  BY <1>2, FS_Union
<1>4. Cardinality(A \cap B) = 0
  BY <1>1, FS_EmptySet
<1>5. Cardinality(Of(s, hits)) = Cardinality(A) + Cardinality(B)
  BY <1>1, <1>2, <1>3, <1>4
<1> QED
  BY <1>2, <1>5 DEF A, B

LEMMA SumAdds ==
  ASSUME NEW f \in Counting, NEW g \in Counting, NEW d \in 1..Days, NEW hits \in SUBSET Hits,
         OneMoreFor(hits, f, g, d)
  PROVE  \A s \in SUBSET Cases :
             Sums(g, d)[s] = Sums(f, d)[s] + Cardinality(Of(s, hits))
<1> DEFINE T == {s \in SUBSET Cases : Sums(g, d)[s] = Sums(f, d)[s] + Cardinality(Of(s, hits))}
<1>1. {} \in T
  <2>1. Of({}, hits) = {}
    BY DEF Of
  <2> QED
    BY <2>1, SumOfNone, FS_EmptySet
<1>2. ASSUME NEW s \in SUBSET Cases, s # {}, Rest(s) \in T PROVE s \in T
  <2>1. First(s) \in Cases /\ Rest(s) \in SUBSET Cases /\ <<First(s), d>> \in Id
    BY <1>2, RestOf DEF Id
  <2>2. f[<<First(s), d>>] \in Nat /\ g[<<First(s), d>>] \in Nat
    BY <2>1 DEF Counting
  <2>3. Sums(f, d)[Rest(s)] \in Nat /\ Sums(g, d)[Rest(s)] \in Nat
    BY <2>1, SumType
  <2>4. /\ Sums(f, d)[s] = f[<<First(s), d>>] + Sums(f, d)[Rest(s)]
        /\ Sums(g, d)[s] = g[<<First(s), d>>] + Sums(g, d)[Rest(s)]
    BY <1>2, SumOfMore
  <2>5. /\ Cardinality(Of(s, hits)) =
              Cardinality(RowsFor(First(s), hits)) + Cardinality(Of(Rest(s), hits))
        /\ Cardinality(Of(s, hits)) \in Nat /\ Cardinality(Of(Rest(s), hits)) \in Nat
        /\ Cardinality(RowsFor(First(s), hits)) \in Nat
    BY <1>2, RowsApart
  <2>6. Sums(g, d)[Rest(s)] = Sums(f, d)[Rest(s)] + Cardinality(Of(Rest(s), hits))
    BY <1>2
  <2>7. g[<<First(s), d>>] = f[<<First(s), d>>] + Cardinality(RowsFor(First(s), hits))
    BY <2>1 DEF OneMoreFor
  <2> HIDE DEF T
  <2>8. Sums(g, d)[s] = Sums(f, d)[s] + Cardinality(Of(s, hits))
    BY <2>2, <2>3, <2>4, <2>5, <2>6, <2>7
  <2> QED
    BY <2>8 DEF T
<1> HIDE DEF T
<1>3. SUBSET Cases \subseteq T
  BY <1>1, <1>2, CasesInduction
<1> QED
  BY <1>3 DEF T

LEMMA SumOfZeros ==
  ASSUME NEW d \in 1..Days
  PROVE  Sent([id \in Id |-> 0], d) = 0
<1> DEFINE f == [id \in Id |-> 0]
           T == {s \in SUBSET Cases : Sums(f, d)[s] = 0}
<1>1. {} \in T
  BY SumOfNone
<1>2. ASSUME NEW s \in SUBSET Cases, s # {}, Rest(s) \in T PROVE s \in T
  <2>1. <<First(s), d>> \in Id
    BY <1>2, RestOf DEF Id
  <2>2. f[<<First(s), d>>] = 0
    BY <2>1
  <2> HIDE DEF f
  <2> QED
    BY <1>2, <2>2, SumOfMore
<1> HIDE DEF T
<1>3. SUBSET Cases \subseteq T
  BY <1>1, <1>2, CasesInduction
<1> QED
  BY <1>3, SentIsSum DEF T
-----------------------------------------------------------------------------
(* The rows that dispatches have found on a day stay within their caps. *)

Within == \A d \in 1..Days : Sent(picked, d) <= allowed[d]

LEMMA SliceSize ==
  ASSUME NEW S \in SUBSET Hits, NEW n \in Nat, NEW hits \in Slices(S, n)
  PROVE  hits \in SUBSET S /\ Cardinality(hits) \in Nat /\ Cardinality(hits) <= n
<1>1. Cardinality(S) \in Nat
  BY HitsAssumption, Sizes
<1>2. PICK k \in 0..Smaller(n, Cardinality(S)) : hits \in kSubset(k, S)
  BY DEF Slices
<1> QED
  BY <1>1, <1>2 DEF Smaller, kSubset

LEMMA ChosenWithin ==
  ASSUME IInv, IInv', Within, NEW r \in Calls, NEW hits \in SUBSET Hits,
         Cardinality(hits) \in Nat, call[r].cap \in Nat, Cardinality(hits) <= call[r].cap,
         Chosen(r, hits)
  PROVE  Within'
<1>1. /\ picked \in Counting /\ picked' \in Counting /\ allowed \in [1..Days -> Nat]
      /\ today \in 1..Days
  BY DEF IInv, TypeOK, Counting
<1>2. /\ picked' = [id \in Id |-> IF id[2] = today
                                  THEN picked[id] + Cardinality(RowsFor(id[1], hits))
                                  ELSE picked[id]]
      /\ allowed' = [allowed EXCEPT ![today] = @ + call[r].cap]
  BY DEF Chosen
<1> SUFFICES ASSUME NEW d \in 1..Days PROVE Sent(picked', d) <= allowed'[d]
  BY DEF Within
<1>3. Sums(picked, d)[Cases] \in Nat /\ Sums(picked, d)[Cases] <= allowed[d]
  BY <1>1, SumType, SentIsSum DEF Within
<1> DEFINE added == IF d = today THEN hits ELSE {}
<1>4. OneMoreFor(added, picked, picked', d)
  <2> SUFFICES ASSUME NEW c \in Cases
               PROVE  picked'[<<c, d>>] = picked[<<c, d>>] + Cardinality(RowsFor(c, added))
    BY DEF OneMoreFor
  <2>1. <<c, d>> \in Id /\ <<c, d>>[1] = c /\ <<c, d>>[2] = d
    BY DEF Id
  <2>2. picked[<<c, d>>] \in Nat
    BY <1>1, <2>1 DEF Counting
  <2>3. CASE d = today
    <3>1. picked'[<<c, d>>] = picked[<<c, d>>] + Cardinality(RowsFor(c, hits))
      BY <1>2, <2>1, <2>3
    <3> QED
      BY <2>3, <3>1
  <2>4. CASE d # today
    <3>1. picked'[<<c, d>>] = picked[<<c, d>>]
      BY <1>2, <2>1, <2>4
    <3>2. Cardinality(RowsFor(c, added)) = 0
      BY <2>4, FS_EmptySet DEF RowsFor
    <3> HIDE DEF added
    <3> QED
      BY <2>2, <3>1, <3>2
  <2> QED
    BY <2>3, <2>4
<1>5. added \in SUBSET Hits /\ Of(Cases, added) = added
  BY HitsAssumption DEF Of
<1>6. Sums(picked', d)[Cases] = Sums(picked, d)[Cases] + Cardinality(added)
  <2> HIDE DEF added
  <2>1. \A s \in SUBSET Cases :
            Sums(picked', d)[s] = Sums(picked, d)[s] + Cardinality(Of(s, added))
    BY <1>1, <1>4, <1>5, SumAdds
  <2> QED
    BY <1>5, <2>1
<1>7. CASE d = today
  <2>1. Cardinality(added) <= call[r].cap /\ Cardinality(added) \in Nat
    BY <1>7
  <2>2. allowed'[d] = allowed[d] + call[r].cap
    BY <1>1, <1>2, <1>7
  <2>3. allowed[d] \in Nat
    BY <1>1
  <2> HIDE DEF added
  <2> QED
    BY <2>1, <2>2, <2>3, <1>3, <1>6, SentIsSum
<1>8. CASE d # today
  <2>1. Cardinality(added) = 0
    BY <1>8, FS_EmptySet
  <2>2. allowed'[d] = allowed[d]
    BY <1>1, <1>2, <1>8
  <2> HIDE DEF added
  <2> QED
    BY <2>1, <2>2, <1>3, <1>6, SentIsSum
<1> QED
  BY <1>7, <1>8

LEMMA SelectWithin ==
  ASSUME IInv, IInv', Within, NEW r \in Calls, selectCases(r)
  PROVE  Within'
<1>1. PICK hits \in Slices(HitsOf(filter \cap Own), call[r].cap) : Chosen(r, hits)
  BY DEF selectCases
<1>2. call[r].cap \in Nat
  BY BoundsAssumption DEF IInv, CallsOk, CallOk, selectCases
<1> DEFINE S == HitsOf(filter \cap Own)
<1>3. S \in SUBSET Hits /\ hits \in Slices(S, call[r].cap)
  BY DEF HitsOf
<1> HIDE DEF S
<1>4. hits \in SUBSET S /\ Cardinality(hits) \in Nat /\ Cardinality(hits) <= call[r].cap
  BY <1>2, <1>3, SliceSize
<1>5. hits \in SUBSET Hits
  BY <1>3, <1>4
<1> QED
  BY <1>1, <1>2, <1>4, <1>5, ChosenWithin

LEMMA WithinStays ==
  ASSUME Within, UNCHANGED <<picked, allowed>>
  PROVE  Within'
  BY DEF Within

LEMMA StepWithin ==
  ASSUME IInv, IInv', Within, [Next]_vars
  PROVE  Within'
<1> USE DEF vars, queueVars, dispatchVars, editVars, NotEdits, Others
<1>1. ASSUME NEW r \in Calls, dispatch(r) \/ Dispatching(r) \/ dispatchFails(r)
      PROVE  Within'
  <2>1. CASE selectCases(r)
    BY <2>1, SelectWithin
  <2>2. CASE \/ dispatch(r) \/ segmentMissing(r) \/ enqueue(r) \/ enqueueRefused(r)
             \/ dispatchFails(r)
    BY <2>2, WithinStays DEF dispatch, segmentMissing, enqueue, enqueueRefused, dispatchFails
  <2> QED
    BY <1>1, <2>1, <2>2 DEF Dispatching
<1>2. ASSUME NEW w \in Workers,
             \/ \E id \in Id : Take(w, id)
             \/ Work(w) \/ readFails(w) \/ queueFails(w)
      PROVE  Within'
  BY <1>2, WithinStays DEF Take, Work, readCase, queueMessage, Complete, Retry, Settle,
                           readFails, queueFails
<1>3. ASSUME NEW id \in Id, StalledFound(id) \/ LockLost(id)
      PROVE  Within'
  BY <1>3, WithinStays DEF StalledFound, LockLost, Stall
<1>4. ASSUME NEW e \in Editors,
             \/ \E s \in Status \cup {None}, c \in Crons \cup {None} : updateGet(e, s, c)
             \/ \E f \in Filter : segmentGet(e, f)
             \/ ensureRepeatable(e) \/ Edit(e) \/ editFails(e)
      PROVE  Within'
  BY <1>4, WithinStays DEF updateGet, segmentGet, ensureRepeatable, Edit, updateWrite,
         listRepeatables, removeRepeatables, addRepeatable, segmentSave, editFails
<1>5. ASSUME Midnight \/ segmentRemove \/ Restart \/ (\E new \in Created : create(new))
             \/ (\E s \in Status : setStatus(s)) \/ UNCHANGED vars
      PROVE  Within'
  BY <1>5, WithinStays DEF Midnight, segmentRemove, Restart, create, setStatus
<1> QED
  BY <1>1, <1>2, <1>3, <1>4, <1>5 DEF Next

LEMMA CapsFollow ==
  ASSUME IInv, Within
  PROVE  CapsHold
<1>1. /\ messages \in Counting /\ picked \in Counting /\ causes \in Counting
      /\ asked \in Counting /\ allowed \in [1..Days -> Nat]
  BY DEF IInv, TypeOK, Counting
<1> SUFFICES ASSUME NEW d \in 1..Days PROVE Sent(messages, d) <= allowed[d] + Sent(causes, d)
  BY DEF CapsHold
<1>2. \A c \in Cases : messages[<<c, d>>] <= picked[<<c, d>>] + causes[<<c, d>>]
  <2> TAKE c \in Cases
  <2>1. <<c, d>> \in Id
    BY DEF Id
  <2>2. MessagesNeedDispatch
    BY NeedDispatch
  <2> QED
    BY <1>1, <2>1, <2>2 DEF MessagesNeedDispatch, Counting
<1>3. Sums(messages, d)[Cases] <= Sums(picked, d)[Cases] + Sums(causes, d)[Cases]
  BY <1>1, <1>2, SumBelow
<1>4. /\ Sums(messages, d)[Cases] \in Nat /\ Sums(picked, d)[Cases] \in Nat
      /\ Sums(causes, d)[Cases] \in Nat /\ allowed[d] \in Nat
  BY <1>1, SumType
<1>5. Sums(picked, d)[Cases] <= allowed[d]
  BY SentIsSum DEF Within
<1> QED
  BY <1>3, <1>4, <1>5, SentIsSum

\* The messages of a day stay within the caps of the dispatches of that day, but
\* for stalls and lost answers (the slice of dispatchCampaign, the ids of jobs).
THEOREM CapsAreHeld == Spec => []CapsHold
<1>1. Init => Within
  <2> SUFFICES ASSUME Init, NEW d \in 1..Days PROVE Sent(picked, d) <= allowed[d]
    BY DEF Within
  <2>1. picked = [id \in Id |-> 0] /\ allowed[d] = 0
    BY DEF Init
  <2>2. Sent(picked, d) = 0
    BY <2>1, SumOfZeros
  <2> QED
    BY <2>1, <2>2
<1>2. IInv /\ IInv' /\ Within /\ [Next]_vars => Within'
  BY StepWithin
<1>3. IInv /\ Within => CapsHold
  BY CapsFollow
<1> QED
  BY <1>1, <1>2, <1>3, Invariance, PTL DEF Spec
=============================================================================
