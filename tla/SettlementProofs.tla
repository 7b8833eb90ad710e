-------------------------- MODULE SettlementProofs --------------------------
(***************************************************************************)
(* Proofs about Settlement, for every value of its constants.              *)
(***************************************************************************)
EXTENDS Settlement, FiniteSetTheorems, TLAPS

\* A payment that has been notified: its present status is one it has had.
Notified(p) == mp[p] \in seen[p]

(***************************************************************************)
(* What a request knows.  Everything it holds was true once: the status it *)
(* fetched was reported, the debt it read was owed, the payments it counts *)
(* were approved; and from the hooks on its payment is approved and saved. *)
(***************************************************************************)
Sound(r) ==
    /\ r.pc # "idle" => r.note \in Note /\ Notified(r.note.pid)
    /\ r.pc \in {"find", "save", "notify", "close", "reopen"} =>
          r.raw \in seen[r.note.pid]
    /\ r.pc \in {"notify", "close", "reopen"} =>
          RunsHooks(r) /\ pay[r.note.pid] # None
    /\ r.debt # None =>
          r.pc \in {"close", "reopen"} /\ r.debt \in owedSeen[CaseOf[r.note.pid]]
    /\ r.paid # None =>
          /\ r.pc \in {"close", "reopen"}
          /\ r.paid \subseteq {p \in PaymentsOf(CaseOf[r.note.pid]) : WasApproved(p)}

\* The sum a case owes is among those it has owed; notifications are of
\* payments that Mercado Pago has reported.
Histories ==
    /\ \A p \in Payments : mp[p] \in RawStatus => Notified(p)
    /\ \A n \in notes : Notified(n.pid)
    /\ \A c \in Cases : sumDebts(owed[c]) \in owedSeen[c]

\* A request in flight holds its key.
KeysHeld == \A h \in InFlight : KeyOf(req[h].note) \in keys \cup {Clock}

\* The inductive invariant.
IInv ==
    /\ TypeOK
    /\ Histories
    /\ \A h \in Requests : Sound(req[h])
    /\ RecordedWasReported
    /\ ConfirmedWasApproved
    /\ PaidIsSettled
-----------------------------------------------------------------------------
\* The helpers stay in their types.
LEMMA MapType == \A s \in RawStatus : mapMpStatus(s) \in PaymentStatus
  BY DEF RawStatus, PaymentStatus, mapMpStatus

LEMMA SumDebtsType == \A d \in Debts : sumDebts(d) \in Nat
  BY DEF Debts, sumDebts

LEMMA KeyType == \A n \in Note : KeyOf(n) \in Keys \cup {Clock}
  BY DEF Note, KeyOf, paymentsKey, webhooksKey, Keys

LEMMA EntityType ==
  ASSUME NEW r, r.raw \in RawStatus, r.existing \in Row \cup {None}
  PROVE  Entity(r) \in Row
  BY MapType DEF Entity, Row

\* A status that counts as paid, or that runs the hooks, is "approved"; and it
\* is what "approved" and "accredited" are mapped to, and nothing else.
LEMMA MapApproved ==
  \A s \in RawStatus :
      mapMpStatus(s) \in Counted \cup HookStatus <=> s \in {"approved", "accredited"}
  BY DEF RawStatus, mapMpStatus, Counted, HookStatus
-----------------------------------------------------------------------------
\* The initial states satisfy the inductive invariant.
LEMMA InitIInv == Init => IInv
<1> SUFFICES ASSUME Init PROVE IInv
  OBVIOUS
<1> USE DEF Init
<1>1. TypeOK
  <2>1. overlapped \in BOOLEAN
    OBVIOUS
  <2> QED
    BY <2>1, SumDebtsType, CasesAssumption, BoundsAssumption
    DEF TypeOK, Request, Pc, Idle, CaseStatus
<1>2. Histories
  BY CasesAssumption DEF Histories, RawStatus
<1>3. \A h \in Requests : Sound(req[h])
  BY DEF Sound, Idle
<1>4. RecordedWasReported /\ ConfirmedWasApproved /\ PaidIsSettled
  BY CasesAssumption DEF RecordedWasReported, ConfirmedWasApproved, PaidIsSettled
<1> QED
  BY <1>1, <1>2, <1>3, <1>4 DEF IInv

\* While the tables and the histories only grow, a request that does not move
\* keeps what it knows.
LEMMA OthersStaySound ==
  ASSUME IInv, NEW g \in Requests, req'[g] = req[g],
         \A p \in Payments : seen[p] \subseteq seen'[p],
         \A p \in Payments : Notified(p) => Notified(p)',
         \A p \in Payments : pay[p] # None => pay'[p] # None,
         \A c \in Cases : owedSeen[c] \subseteq owedSeen'[c]
  PROVE  Sound(req[g])'
<1>1. req[g] \in Request /\ Sound(req[g])
  BY DEF IInv, TypeOK
<1> QED
  BY <1>1, CaseOfAssumption
  DEF Sound, Request, RunsHooks, Note, PaymentsOf, WasApproved

\* What a running request may rely on.
LEMMA Running ==
  ASSUME IInv, NEW h \in Requests, req[h].pc # "idle"
  PROVE  /\ req[h] \in Request /\ Sound(req[h])
         /\ req[h].note \in Note /\ Pid(h) \in Payments
         /\ mp[Pid(h)] \in seen[Pid(h)] /\ mp[Pid(h)] \in RawStatus
         /\ req[h].pc \in {"notify", "close", "reopen"} =>
               CaseOf[Pid(h)] \in Cases /\ WasApproved(Pid(h))
<1>1. req[h] \in Request /\ Sound(req[h])
  BY DEF IInv, TypeOK
<1>2. req[h].note \in Note /\ Pid(h) \in Payments /\ mp[Pid(h)] \in seen[Pid(h)]
  BY <1>1 DEF Sound, Notified, Note, Pid
<1>3. mp[Pid(h)] \in RawStatus
  BY <1>2 DEF IInv, TypeOK
<1>4. ASSUME req[h].pc \in {"notify", "close", "reopen"}
      PROVE  CaseOf[Pid(h)] \in Cases /\ WasApproved(Pid(h))
  <2>1. RunsHooks(req[h]) /\ req[h].raw \in seen[Pid(h)]
    BY <1>1, <1>4 DEF Sound, Pid
  <2>2. req[h].raw \in {"approved", "accredited"}
    BY <2>1, <1>2, MapApproved DEF RunsHooks, IInv, TypeOK
  <2> QED
    BY <2>1, <2>2, <1>2, CaseOfAssumption DEF RunsHooks, WasApproved, Pid
<1> QED
  BY <1>1, <1>2, <1>3, <1>4

\* A step that moves one request and touches neither table nor history.
LEMMA RequestMoves ==
  ASSUME IInv, NEW h \in Requests,
         req' \in [Requests -> Request],
         \A g \in Requests \ {h} : req'[g] = req[g],
         Sound(req[h])',
         notes' \subseteq notes, keys' \subseteq Keys,
         overlapped' \in BOOLEAN, faults' \in 0..MaxFaults,
         UNCHANGED <<mpVars, pay, caseVars, debtVars, confirmed, edits, expiries>>
  PROVE  IInv'
<1> USE DEF mpVars, caseVars, debtVars
<1>1. TypeOK'
  BY DEF IInv, TypeOK
<1>2. Histories' /\ RecordedWasReported' /\ ConfirmedWasApproved' /\ PaidIsSettled'
  BY DEF IInv, Histories, Notified, RecordedWasReported, ConfirmedWasApproved,
         PaidIsSettled, Settled, WasApproved
<1>3. \A g \in Requests \ {h} : Sound(req[g])'
  BY OthersStaySound DEF Notified
<1> QED
  BY <1>1, <1>2, <1>3 DEF IInv
-----------------------------------------------------------------------------
LEMMA ReserveStep ==
  ASSUME IInv, NEW h \in Requests, NEW n \in Note, Reserve(h, n)
  PROVE  IInv'
<1> USE DEF Reserve, Processed
<1>1. Notified(n.pid) /\ keys' \subseteq Keys
  BY KeyType DEF IInv, Histories, TypeOK
<1>2. /\ req' \in [Requests -> Request]
      /\ \A g \in Requests \ {h} : req'[g] = req[g]
      /\ req'[h].note = n /\ req'[h].pc \in {"get", "reply"}
      /\ req'[h].debt = None /\ req'[h].paid = None
  BY DEF IInv, TypeOK, Request, Pc, Idle
<1>3. Sound(req[h])'
  BY <1>1, <1>2 DEF Sound, Notified, mpVars
<1>4. overlapped' \in BOOLEAN
  BY DEF IInv, TypeOK
<1> QED
  BY <1>1, <1>2, <1>3, <1>4, RequestMoves DEF bounds, IInv, TypeOK

LEMMA DeduplicateStep ==
  ASSUME IInv, NEW h \in Requests, NEW n \in Note, Deduplicate(h, n)
  PROVE  IInv'
<1> USE DEF Deduplicate
<1>1. Notified(n.pid)
  BY DEF IInv, Histories
<1>2. /\ req' \in [Requests -> Request]
      /\ \A g \in Requests \ {h} : req'[g] = req[g]
      /\ req'[h].note = n /\ req'[h].pc = "reply"
      /\ req'[h].debt = None /\ req'[h].paid = None
  BY DEF IInv, TypeOK, Request, Pc, Idle
<1>3. Sound(req[h])'
  BY <1>1, <1>2 DEF Sound, Notified, mpVars
<1> QED
  BY <1>2, <1>3, RequestMoves DEF bounds, IInv, TypeOK

\* A request that has not read any sum yet relies only on its raw status.
LEMMA StillReading ==
  ASSUME IInv, NEW h \in Requests, req[h].pc \in {"get", "find"},
         req'[h].pc \in {"find", "save"}, req'[h].note = req[h].note,
         req'[h].raw \in seen[Pid(h)],
         req'[h].debt = req[h].debt, req'[h].paid = req[h].paid,
         UNCHANGED mpVars
  PROVE  Sound(req[h])'
<1>1. req[h].debt = None /\ req[h].paid = None
  BY Running DEF Sound
<1>2. req[h].note \in Note /\ Notified(req[h].note.pid)
  BY Running DEF Sound
<1>3. /\ req'[h].note \in Note
      /\ Notified(req[h].note.pid)'
      /\ req'[h].raw \in seen'[req'[h].note.pid]
  BY <1>2 DEF mpVars, Notified, Pid
<1> QED
  BY <1>1, <1>3 DEF Sound

LEMMA getPaymentStep ==
  ASSUME IInv, NEW h \in Requests, getPayment(h)
  PROVE  IInv'
<1> USE DEF getPayment
<1> DEFINE r == [req[h] EXCEPT !.pc = "find", !.raw = mp[Pid(h)]]
<1>1. r \in Request
  BY ZenonT(60), Running DEF Request, Pc, IInv, TypeOK
<1>2. req' = [req EXCEPT ![h] = r]
  BY DEF IInv, TypeOK, Request
<1>3. /\ req' \in [Requests -> Request]
      /\ \A g \in Requests \ {h} : req'[g] = req[g]
      /\ req'[h] = r
  BY <1>1, <1>2 DEF IInv, TypeOK
<1>4. Sound(req[h])'
  <2>1. /\ req'[h].pc = "find" /\ req'[h].raw = mp[Pid(h)]
        /\ req'[h].note = req[h].note
        /\ req'[h].debt = req[h].debt /\ req'[h].paid = req[h].paid
    BY <1>3, Running DEF Request
  <2>2. mp[Pid(h)] \in seen[Pid(h)]
    BY Running
  <2> QED
    BY <2>1, <2>2, StillReading
<1> QED
  BY <1>3, <1>4, RequestMoves DEF bounds, IInv, TypeOK

LEMMA findExistingStep ==
  ASSUME IInv, NEW h \in Requests, findExisting(h)
  PROVE  IInv'
<1> USE DEF findExisting
<1> DEFINE r == [req[h] EXCEPT !.pc = "save", !.existing = pay[Pid(h)]]
<1>1. r \in Request
  BY ZenonT(60), Running DEF Request, Pc, IInv, TypeOK
<1>2. req' = [req EXCEPT ![h] = r]
  BY DEF IInv, TypeOK, Request
<1>3. /\ req' \in [Requests -> Request]
      /\ \A g \in Requests \ {h} : req'[g] = req[g]
      /\ req'[h] = r
  BY <1>1, <1>2 DEF IInv, TypeOK
<1>4. Sound(req[h])'
  <2>1. /\ req'[h].pc = "save" /\ req'[h].raw = req[h].raw
        /\ req'[h].note = req[h].note
        /\ req'[h].debt = req[h].debt /\ req'[h].paid = req[h].paid
    BY <1>3, Running DEF Request
  <2>2. req[h].raw \in seen[Pid(h)]
    BY Running DEF Sound, Pid
  <2> QED
    BY <2>1, <2>2, StillReading
<1> QED
  BY <1>3, <1>4, RequestMoves DEF bounds, IInv, TypeOK

LEMMA duplicateInsertStep ==
  ASSUME IInv, NEW h \in Requests, duplicateInsert(h)
  PROVE  IInv'
<1> USE DEF duplicateInsert
<1>1. /\ req' \in [Requests -> Request]
      /\ \A g \in Requests \ {h} : req'[g] = req[g]
      /\ req'[h] = Idle
  BY DEF IInv, TypeOK, Request, Pc, Idle
<1>2. Sound(req[h])'
  BY <1>1 DEF Sound, Idle
<1> QED
  BY <1>1, <1>2, RequestMoves DEF bounds, IInv, TypeOK

LEMMA DebtRead ==
  ASSUME NEW r \in Request, NEW d \in Nat
  PROVE  [r EXCEPT !.debt = d] \in Request
  BY DEF Request

LEMMA readDebtsStep ==
  ASSUME IInv, NEW h \in Requests, readDebts(h)
  PROVE  IInv'
<1> USE DEF readDebts
<1>1. PICK d \in Nat : /\ d = sumDebts(owed[CaseOf[Pid(h)]])
                      /\ d \in owedSeen[CaseOf[Pid(h)]]
  BY Running, SumDebtsType DEF IInv, TypeOK, Histories
<1> DEFINE r == [req[h] EXCEPT !.debt = d]
<1>2. r \in Request
  BY Running, DebtRead
<1>3. /\ req' \in [Requests -> Request]
      /\ \A g \in Requests \ {h} : req'[g] = req[g]
      /\ req'[h] = r
  BY <1>1, <1>2 DEF IInv, TypeOK
<1>4. /\ r.pc = req[h].pc /\ r.note = req[h].note /\ r.raw = req[h].raw
      /\ r.debt = d /\ r.paid = req[h].paid
  BY Running DEF Request
<1>5. /\ Sound(req[h]) /\ req[h].pc \in {"close", "reopen"}
      /\ UNCHANGED <<mp, seen, pay, owedSeen>>
  BY Running DEF mpVars, debtVars
<1>6. RunsHooks(r) = RunsHooks(req[h])
  BY <1>4 DEF RunsHooks
<1> HIDE DEF r
<1>7. Sound(req[h])'
  BY <1>1, <1>3, <1>4, <1>5, <1>6 DEF Sound, Notified, RunsHooks, WasApproved, Pid
<1> QED
  BY <1>3, <1>7, RequestMoves DEF bounds, IInv, TypeOK

\* The payments that count are approved, so they were approved once.
LEMMA CountedWereApproved ==
  ASSUME IInv, NEW c \in Cases
  PROVE  sumApprovedPayments(c) \subseteq {p \in PaymentsOf(c) : WasApproved(p)}
<1> SUFFICES ASSUME NEW p \in PaymentsOf(c), pay[p] # None, pay[p].status \in Counted
             PROVE  WasApproved(p)
  BY DEF sumApprovedPayments
<1>1. p \in Payments
  BY DEF PaymentsOf
<1>2. PICK s \in seen[p] : pay[p].status = mapMpStatus(s)
  BY <1>1 DEF IInv, RecordedWasReported
<1> QED
  BY <1>1, <1>2, MapApproved DEF WasApproved, IInv, TypeOK

LEMMA PaidRead ==
  ASSUME NEW r \in Request, NEW S \in SUBSET Payments
  PROVE  [r EXCEPT !.paid = S] \in Request
  BY DEF Request

LEMMA readPaymentsStep ==
  ASSUME IInv, NEW h \in Requests, readPayments(h)
  PROVE  IInv'
<1> USE DEF readPayments
<1> DEFINE S == sumApprovedPayments(CaseOf[Pid(h)])
<1>0. S \subseteq {p \in PaymentsOf(CaseOf[Pid(h)]) : WasApproved(p)} /\ S \subseteq Payments
  BY Running, CountedWereApproved DEF PaymentsOf
<1> DEFINE r == [req[h] EXCEPT !.paid = S]
<1>1. r \in Request
  BY <1>0, Running, PaidRead
<1>2. req' = [req EXCEPT ![h] = r]
  BY DEF IInv, TypeOK
<1>3. /\ req' \in [Requests -> Request]
      /\ \A g \in Requests \ {h} : req'[g] = req[g]
      /\ req'[h] = r
  BY <1>1, <1>2 DEF IInv, TypeOK
<1>4. /\ r.pc = req[h].pc /\ r.note = req[h].note /\ r.raw = req[h].raw
      /\ r.paid = S /\ r.debt = req[h].debt
  BY Running DEF Request
<1>5. /\ Sound(req[h]) /\ req[h].pc \in {"close", "reopen"}
      /\ UNCHANGED <<mp, seen, pay, owedSeen>>
  BY Running DEF mpVars, debtVars
<1>6. RunsHooks(r) = RunsHooks(req[h])
  BY <1>4 DEF RunsHooks
<1> HIDE DEF r, S
<1>7. Sound(req[h])'
  BY <1>0, <1>3, <1>4, <1>5, <1>6 DEF Sound, Notified, RunsHooks, WasApproved, Pid
<1> QED
  BY <1>3, <1>7, RequestMoves DEF bounds, IInv, TypeOK

LEMMA replyStep ==
  ASSUME IInv, NEW h \in Requests, reply(h)
  PROVE  IInv'
<1> USE DEF reply
<1>1. /\ req' \in [Requests -> Request]
      /\ \A g \in Requests \ {h} : req'[g] = req[g]
      /\ req'[h] = Idle
  BY DEF IInv, TypeOK, Request, Pc, Idle
<1>2. Sound(req[h])'
  BY <1>1 DEF Sound, Idle
<1> QED
  BY <1>1, <1>2, RequestMoves DEF bounds, IInv, TypeOK

LEMMA RequestFailsStep ==
  ASSUME IInv, NEW h \in Requests, RequestFails(h)
  PROVE  IInv'
<1> USE DEF RequestFails, Fault
<1>1. /\ req' \in [Requests -> Request]
      /\ \A g \in Requests \ {h} : req'[g] = req[g]
      /\ req'[h] = Idle
  BY DEF IInv, TypeOK, Request, Pc, Idle
<1>2. Sound(req[h])'
  BY <1>1 DEF Sound, Idle
<1>3. faults' \in 0..MaxFaults
  BY BoundsAssumption DEF IInv, TypeOK
<1> QED
  BY <1>1, <1>2, <1>3, RequestMoves DEF IInv, TypeOK

LEMMA HookFailsStep ==
  ASSUME IInv, NEW h \in Requests, HookFails(h)
  PROVE  IInv'
<1> USE DEF HookFails, Fault
<1> DEFINE r == [req[h] EXCEPT !.pc = "reply", !.debt = None, !.paid = None]
<1>1. r \in Request
  BY ZenonT(60), Running DEF Request, Pc, IInv, TypeOK
<1>2. req' = [req EXCEPT ![h] = r]
  BY DEF IInv, TypeOK, Request
<1>3. /\ req' \in [Requests -> Request]
      /\ \A g \in Requests \ {h} : req'[g] = req[g]
      /\ req'[h] = r
  BY <1>1, <1>2 DEF IInv, TypeOK
<1>4. Sound(req[h])'
  BY SMTT(30), <1>3, Running DEF Sound, Notified, Request, mpVars, debtVars
<1>5. faults' \in 0..MaxFaults
  BY BoundsAssumption DEF IInv, TypeOK
<1> QED
  BY <1>3, <1>4, <1>5, RequestMoves DEF IInv, TypeOK

\* The row that is written carries a status that was reported.
LEMMA savePaymentStep ==
  ASSUME IInv, NEW h \in Requests, savePayment(h)
  PROVE  IInv'
<1> USE DEF savePayment
<1> DEFINE p == Pid(h)
           next == IF RunsHooks(req[h]) THEN "notify" ELSE "reply"
           r == [req[h] EXCEPT !.pc = next]
<1>1. /\ req[h] \in Request /\ p \in Payments
      /\ req[h].raw \in seen[p] /\ req[h].raw \in RawStatus
  BY Running DEF Sound, Pid, IInv, TypeOK
<1>2. Entity(req[h]) \in Row /\ Entity(req[h]) # None
  BY <1>1, EntityType, NoneAssumption DEF Request, Row
<1>3. r \in Request
  BY <1>1 DEF Request, Pc
<1>4. /\ req' \in [Requests -> Request]
      /\ \A g \in Requests \ {h} : req'[g] = req[g]
      /\ req'[h] = r
  BY <1>3 DEF IInv, TypeOK
<1>5. /\ pay' \in [Payments -> Row \cup {None}]
      /\ \A q \in Payments : pay[q] # None => pay'[q] # None
      /\ pay'[p] = Entity(req[h])
      /\ \A q \in Payments \ {p} : pay'[q] = pay[q]
  BY <1>1, <1>2 DEF IInv, TypeOK
<1>6. TypeOK'
  BY <1>4, <1>5 DEF IInv, TypeOK, mpVars, caseVars, debtVars, bounds
<1>7. Histories' /\ ConfirmedWasApproved' /\ PaidIsSettled'
  BY DEF IInv, Histories, Notified, ConfirmedWasApproved, PaidIsSettled,
         Settled, WasApproved, mpVars, caseVars, debtVars
<1>8. RecordedWasReported'
  <2>1. Entity(req[h]).status = mapMpStatus(req[h].raw)
    BY DEF Entity
  <2>2. Entity(req[h]).status = "approved" => Entity(req[h]).accredited
    BY DEF Entity, HookStatus
  <2> QED
    BY <1>1, <1>5, <2>1, <2>2 DEF IInv, RecordedWasReported, mpVars
<1>9. Sound(req[h])'
  <2>1. r.note = req[h].note /\ r.raw = req[h].raw /\ r.pc = next
        /\ r.debt = req[h].debt /\ r.paid = req[h].paid
    BY <1>1 DEF Request
  <2>2. req[h].debt = None /\ req[h].paid = None /\ req[h].note \in Note
    BY Running DEF Sound
  <2>3. RunsHooks(r) <=> RunsHooks(req[h])
    BY <2>1 DEF RunsHooks
  <2>4. Notified(req[h].note.pid)
    BY Running DEF Sound
  <2> HIDE DEF r
  <2>5. /\ req'[h].note \in Note
        /\ Notified(req[h].note.pid)'
        /\ req'[h].raw \in seen'[req'[h].note.pid]
    BY <1>1, <1>4, <2>1, <2>2, <2>4 DEF Notified, Pid, mpVars
  <2>6. pay'[req'[h].note.pid] # None
    BY <1>2, <1>4, <1>5, <2>1 DEF Pid
  <2>7. req'[h].pc \in {"notify", "reply"} /\ (req'[h].pc = "notify" => RunsHooks(req'[h]))
    BY <1>4, <2>1, <2>3
  <2> QED
    BY <1>4, <2>1, <2>2, <2>5, <2>6, <2>7 DEF Sound, RunsHooks
<1>10. \A g \in Requests \ {h} : Sound(req[g])'
  BY <1>4, <1>5, OthersStaySound DEF Notified, mpVars, debtVars
<1> QED
  BY <1>6, <1>7, <1>8, <1>9, <1>10 DEF IInv

LEMMA notifyPaymentApprovedStep ==
  ASSUME IInv, NEW h \in Requests, notifyPaymentApproved(h)
  PROVE  IInv'
<1> USE DEF notifyPaymentApproved
<1> DEFINE r == [req[h] EXCEPT !.pc = "close"]
<1>1. req[h] \in Request /\ Pid(h) \in Payments /\ WasApproved(Pid(h)) /\ Sound(req[h])
  BY Running
<1>2. r \in Request
  BY <1>1 DEF Request, Pc
<1>3. /\ req' \in [Requests -> Request]
      /\ \A g \in Requests \ {h} : req'[g] = req[g]
      /\ req'[h] = r
  BY <1>2 DEF IInv, TypeOK
<1>4. /\ confirmed' \in [Payments -> Nat]
      /\ \A q \in Payments \ {Pid(h)} : confirmed'[q] = confirmed[q]
  BY <1>1 DEF IInv, TypeOK
<1>5. TypeOK'
  BY <1>3, <1>4 DEF IInv, TypeOK, mpVars, caseVars, debtVars, bounds
<1>6. Histories' /\ RecordedWasReported' /\ PaidIsSettled'
  BY DEF IInv, Histories, Notified, RecordedWasReported, PaidIsSettled,
         Settled, WasApproved, mpVars, caseVars, debtVars
<1>7. ConfirmedWasApproved'
  BY <1>1, <1>4 DEF IInv, ConfirmedWasApproved, WasApproved, mpVars
<1>8. Sound(req[h])'
  BY <1>1, <1>3 DEF Sound, Notified, RunsHooks, Request, mpVars, debtVars
<1>9. \A g \in Requests \ {h} : Sound(req[g])'
  BY <1>3, OthersStaySound DEF Notified, mpVars, debtVars
<1> QED
  BY <1>5, <1>6, <1>7, <1>8, <1>9 DEF IInv

\* A step of a hook that writes the case and goes on to "next".
LEMMA HookMoves ==
  ASSUME IInv, NEW h \in Requests, NEW next \in {"reopen", "reply"},
         req[h].pc \in {"close", "reopen"}, HookDone(h, next),
         kase' \in [Cases -> [status : CaseStatus, closed : BOOLEAN]],
         PaidIsSettled',
         UNCHANGED <<mpVars, notes, keys, pay, byHand, debtVars, confirmed, bounds>>
  PROVE  IInv'
<1> DEFINE r == [req[h] EXCEPT !.pc = next, !.debt = None, !.paid = None]
<1>1. req[h] \in Request /\ Sound(req[h])
  BY Running
<1>2. r \in Request
  BY <1>1 DEF Request, Pc
<1>3. req' = [req EXCEPT ![h] = r]
  BY <1>1 DEF HookDone, IInv, TypeOK, Request
<1>4. /\ req' \in [Requests -> Request]
      /\ \A g \in Requests \ {h} : req'[g] = req[g]
      /\ req'[h] = r
  BY <1>2, <1>3 DEF IInv, TypeOK
<1>5. TypeOK'
  BY <1>4 DEF IInv, TypeOK, mpVars, debtVars, bounds
<1>6. Histories' /\ RecordedWasReported' /\ ConfirmedWasApproved'
  BY DEF IInv, Histories, Notified, RecordedWasReported, ConfirmedWasApproved,
         WasApproved, mpVars, debtVars
<1>7. Sound(req[h])'
  <2>1. r.note = req[h].note /\ r.raw = req[h].raw /\ r.pc = next
        /\ r.debt = None /\ r.paid = None
    BY <1>1 DEF Request
  <2> QED
    BY <1>1, <1>4, <2>1 DEF Sound, Notified, RunsHooks, mpVars, debtVars
<1>8. \A g \in Requests \ {h} : Sound(req[g])'
  BY <1>4, OthersStaySound DEF Notified, mpVars, debtVars
<1> QED
  BY <1>5, <1>6, <1>7, <1>8 DEF IInv

\* A case is closed on a debt it owed and on payments that were approved.
LEMMA closeIfZeroStep ==
  ASSUME IInv, NEW h \in Requests, closeIfZero(h)
  PROVE  IInv'
<1> USE DEF closeIfZero
<1> DEFINE c == CaseOf[Pid(h)]
<1>1. c \in Cases /\ Sound(req[h])
  BY Running
<1>2. kase' \in [Cases -> [status : CaseStatus, closed : BOOLEAN]]
  BY <1>1 DEF IInv, TypeOK, CaseStatus
<1>3. PaidIsSettled'
  <2>1. IsZero(req[h].debt, req[h].paid) => Settled(c)
    BY <1>1 DEF Sound, Settled, BalanceRead, Pid
  <2>2. \A e \in Cases : Settled(e)' <=> Settled(e)
    BY DEF Settled, WasApproved, mpVars, debtVars
  <2>3. ASSUME NEW e \in Cases, byHand[e] = 0, kase'[e].status = "PAID"
        PROVE  kase'[e].closed /\ Settled(e)
    <3>1. CASE kase'[e] = kase[e]
      BY <2>3, <3>1 DEF IInv, PaidIsSettled
    <3>2. CASE kase'[e] # kase[e]
      <4>1. e = c /\ IsZero(req[h].debt, req[h].paid)
            /\ kase' = [kase EXCEPT ![c] = [status |-> "PAID", closed |-> TRUE]]
        BY <3>2, <1>1 DEF IInv, TypeOK
      <4>2. kase'[e] = [status |-> "PAID", closed |-> TRUE]
        BY <4>1, <1>1 DEF IInv, TypeOK
      <4> QED
        BY <4>1, <4>2, <2>1
    <3> QED
      BY <3>1, <3>2
  <2> QED
    BY <2>2, <2>3 DEF PaidIsSettled
<1> QED
  BY <1>2, <1>3, HookMoves

LEMMA reopenIfPositiveStep ==
  ASSUME IInv, NEW h \in Requests, reopenIfPositive(h)
  PROVE  IInv'
<1> USE DEF reopenIfPositive
<1> DEFINE c == CaseOf[Pid(h)]
<1>1. c \in Cases
  BY Running
<1>2. kase' \in [Cases -> [status : CaseStatus, closed : BOOLEAN]]
  BY <1>1 DEF IInv, TypeOK, CaseStatus
<1>3. \A e \in Cases : kase'[e] = kase[e] \/ kase'[e].status = "OPEN"
  BY <1>1 DEF IInv, TypeOK
<1>4. PaidIsSettled'
  BY <1>3 DEF IInv, PaidIsSettled, Settled, WasApproved, mpVars, debtVars
<1> QED
  BY <1>2, <1>4, HookMoves

LEMMA RestartStep ==
  ASSUME IInv, Restart
  PROVE  IInv'
<1> USE DEF Restart, Fault, mpVars, caseVars, debtVars
<1>1. TypeOK'
  BY BoundsAssumption DEF IInv, TypeOK, Request, Pc, Idle
<1>2. Histories' /\ RecordedWasReported' /\ ConfirmedWasApproved' /\ PaidIsSettled'
  BY DEF IInv, Histories, Notified, RecordedWasReported, ConfirmedWasApproved,
         PaidIsSettled, Settled, WasApproved
<1>3. \A g \in Requests : Sound(req[g])'
  BY DEF Sound, Idle
<1> QED
  BY <1>1, <1>2, <1>3 DEF IInv
-----------------------------------------------------------------------------
\* A payment without a notification has no request: a link changes nothing
\* that a request knows.
LEMMA createPaymentLinkStep ==
  ASSUME IInv, NEW p \in Payments, createPaymentLink(p)
  PROVE  IInv'
<1> USE DEF createPaymentLink
<1>1. ~Notified(p)
  BY DEF IInv, TypeOK, Notified, RawStatus
<1>2. \A q \in Payments : Notified(q) => Notified(q)'
  BY <1>1 DEF IInv, TypeOK, Notified
<1>3. TypeOK'
  BY DEF IInv, TypeOK, caseVars, debtVars, bounds
<1>4. Histories'
  <2>1. \A q \in Payments : mp'[q] \in RawStatus => mp[q] \in RawStatus
    BY DEF IInv, TypeOK, RawStatus
  <2> QED
    BY <1>2, <2>1 DEF IInv, TypeOK, Histories, Note, debtVars
<1>5. RecordedWasReported' /\ ConfirmedWasApproved' /\ PaidIsSettled'
  BY DEF IInv, RecordedWasReported, ConfirmedWasApproved, PaidIsSettled,
         Settled, WasApproved, caseVars, debtVars
<1>6. \A g \in Requests : Sound(req[g])'
  BY <1>2, OthersStaySound DEF debtVars
<1> QED
  BY <1>3, <1>4, <1>5, <1>6 DEF IInv

\* Histories grow: what was approved stays approved once.
LEMMA MpChangesStep ==
  ASSUME IInv, NEW p \in Payments, NEW s \in RawStatus, MpChanges(p, s)
  PROVE  IInv'
<1> USE DEF MpChanges
<1>1. \A q \in Payments : seen[q] \subseteq seen'[q] /\ (Notified(q) => Notified(q)')
  BY DEF IInv, TypeOK, Notified
<1>2. Notified(p)'
  BY DEF IInv, TypeOK, Notified
<1>3. PICK sent \in SUBSET Envelopes :
         notes' = notes \cup {[pid |-> p, raw |-> s, env |-> e] : e \in sent}
  OBVIOUS
<1>4. \A n \in notes' : n \in Note /\ (n \in notes \/ n.pid = p)
  BY <1>3 DEF IInv, TypeOK, Note
<1>5. TypeOK'
  BY <1>4 DEF IInv, TypeOK, caseVars, debtVars, bounds
<1>6. Histories'
  BY <1>1, <1>2, <1>4 DEF IInv, TypeOK, Histories, Note, Notified, debtVars
<1>7. \A q \in Payments : WasApproved(q) => WasApproved(q)'
  BY <1>1 DEF WasApproved
<1>8. RecordedWasReported' /\ ConfirmedWasApproved'
  BY <1>1, <1>7 DEF IInv, RecordedWasReported, ConfirmedWasApproved
<1>9. \A c \in Cases : Settled(c) => Settled(c)'
  BY <1>7 DEF Settled, PaymentsOf, debtVars
<1>10. PaidIsSettled'
  BY <1>9 DEF IInv, PaidIsSettled, caseVars
<1>11. \A g \in Requests : Sound(req[g])'
  BY <1>1, OthersStaySound DEF debtVars
<1> QED
  BY <1>5, <1>6, <1>8, <1>10, <1>11 DEF IInv

LEMMA KeyExpiresStep ==
  ASSUME IInv, NEW k \in Keys, KeyExpires(k)
  PROVE  IInv'
<1> USE DEF KeyExpires, mpVars, caseVars, debtVars
<1>1. TypeOK'
  BY BoundsAssumption DEF IInv, TypeOK
<1>2. Histories' /\ RecordedWasReported' /\ ConfirmedWasApproved' /\ PaidIsSettled'
  BY DEF IInv, Histories, Notified, RecordedWasReported, ConfirmedWasApproved,
         PaidIsSettled, Settled, WasApproved
<1>3. \A g \in Requests : Sound(req[g])'
  BY OthersStaySound DEF Notified
<1> QED
  BY <1>1, <1>2, <1>3 DEF IInv

LEMMA DebtImportedStep ==
  ASSUME IInv, NEW c \in Cases, NEW a \in Imported, DebtImported(c, a)
  PROVE  IInv'
<1> USE DEF DebtImported
<1>1. owed' \in [Cases -> Debts]
  BY SMTT(30), CasesAssumption DEF IInv, TypeOK, Debts
<1>2. sumDebts(owed'[c]) \in Nat
  BY <1>1, SumDebtsType
<1>3. /\ owedSeen' \in [Cases -> SUBSET Nat]
      /\ \A e \in Cases : owedSeen[e] \subseteq owedSeen'[e]
      /\ sumDebts(owed'[c]) \in owedSeen'[c]
      /\ \A e \in Cases \ {c} : owed'[e] = owed[e]
  BY <1>2 DEF IInv, TypeOK
<1>4. edits' \in 0..MaxEdits
  BY BoundsAssumption DEF IInv, TypeOK
<1>5. TypeOK'
  BY <1>1, <1>3, <1>4 DEF IInv, TypeOK, mpVars, caseVars
<1>6. Histories'
  BY <1>3 DEF IInv, Histories, Notified, mpVars
<1>7. RecordedWasReported' /\ ConfirmedWasApproved'
  BY DEF IInv, RecordedWasReported, ConfirmedWasApproved, WasApproved, mpVars
<1>8. PaidIsSettled'
  BY <1>3 DEF IInv, PaidIsSettled, Settled, WasApproved, mpVars, caseVars
<1>9. \A g \in Requests : Sound(req[g])'
  BY <1>3, OthersStaySound DEF Notified, mpVars
<1> QED
  BY <1>5, <1>6, <1>7, <1>8, <1>9 DEF IInv

LEMMA setStatusStep ==
  ASSUME IInv, NEW c \in Cases, NEW s \in CaseStatus, setStatus(c, s)
  PROVE  IInv'
<1> USE DEF setStatus, mpVars, debtVars
<1>1. /\ kase' \in [Cases -> [status : CaseStatus, closed : BOOLEAN]]
      /\ \A e \in Cases \ {c} : kase'[e] = kase[e]
  BY DEF IInv, TypeOK
<1>2. edits' \in 0..MaxEdits
  BY BoundsAssumption DEF IInv, TypeOK
<1>3. TypeOK'
  BY <1>1, <1>2 DEF IInv, TypeOK
<1>4. Histories' /\ RecordedWasReported' /\ ConfirmedWasApproved'
  BY DEF IInv, Histories, Notified, RecordedWasReported, ConfirmedWasApproved, WasApproved
<1>5. PaidIsSettled'
  <2>1. byHand'[c] # 0 /\ \A e \in Cases \ {c} : byHand'[e] = byHand[e]
    BY DEF IInv, TypeOK
  <2> QED
    BY ZenonT(60), <1>1, <2>1 DEF IInv, PaidIsSettled, Settled, WasApproved
<1>6. \A g \in Requests : Sound(req[g])'
  BY OthersStaySound DEF Notified
<1> QED
  BY <1>3, <1>4, <1>5, <1>6 DEF IInv
-----------------------------------------------------------------------------
LEMMA NextIInv == IInv /\ [Next]_vars => IInv'
<1> SUFFICES ASSUME IInv, [Next]_vars PROVE IInv'
  OBVIOUS
<1>1. CASE Environment
  BY <1>1, createPaymentLinkStep, MpChangesStep, KeyExpiresStep, DebtImportedStep,
     setStatusStep DEF Environment
<1>2. ASSUME NEW n \in Note, Deliver(n) PROVE IInv'
  BY <1>2, ReserveStep, DeduplicateStep DEF Deliver
<1>3. ASSUME NEW h \in Requests, Continue(h) PROVE IInv'
  BY <1>3, getPaymentStep, findExistingStep, savePaymentStep, duplicateInsertStep,
     notifyPaymentApprovedStep, readDebtsStep, readPaymentsStep, closeIfZeroStep,
     reopenIfPositiveStep, replyStep DEF Continue
<1>4. ASSUME NEW h \in Requests, RequestFails(h) \/ HookFails(h) PROVE IInv'
  BY <1>4, RequestFailsStep, HookFailsStep
<1>5. CASE Restart
  BY <1>5, RestartStep
<1>6. CASE UNCHANGED vars
  <2>1. TypeOK'
    BY <1>6 DEF IInv, TypeOK, vars, mpVars, caseVars, debtVars, bounds
  <2>2. Histories' /\ RecordedWasReported' /\ ConfirmedWasApproved' /\ PaidIsSettled'
    BY <1>6 DEF IInv, Histories, Notified, RecordedWasReported, ConfirmedWasApproved,
           PaidIsSettled, Settled, WasApproved, vars, mpVars, caseVars, debtVars
  <2>3. \A g \in Requests : Sound(req[g])'
    BY <1>6, OthersStaySound DEF Notified, vars, mpVars, debtVars
  <2> QED
    BY <2>1, <2>2, <2>3 DEF IInv
<1> QED
  BY <1>1, <1>2, <1>3, <1>4, <1>5, <1>6 DEF Next

\* The inductive invariant holds in every state.
THEOREM Invariance == Spec => []IInv
<1>1. Init => IInv
  BY InitIInv
<1>2. IInv /\ [Next]_vars => IInv'
  BY NextIInv
<1> QED
  BY <1>1, <1>2, PTL DEF Spec

\* Every variable of the webhooks, tables, keys and requests keeps its type.
THEOREM TypeCorrect == Spec => []TypeOK
<1>1. IInv => TypeOK
  BY DEF IInv
<1> QED
  BY <1>1, Invariance, PTL

\* notifyPaymentApproved only tells debtors of payments that were approved.
THEOREM NoFalseConfirmation == Spec => []ConfirmedWasApproved
<1>1. IInv => ConfirmedWasApproved
  BY DEF IInv
<1> QED
  BY <1>1, Invariance, PTL

\* savePayment only writes statuses that Mercado Pago reported, and an
\* approved row has its accreditation date.
THEOREM TableIsReported == Spec => []RecordedWasReported
<1>1. IInv => RecordedWasReported
  BY DEF IInv
<1> QED
  BY <1>1, Invariance, PTL

\* closeIfZero only closes cases that approved payments once settled.
THEOREM ClosedIsSettled == Spec => []PaidIsSettled
<1>1. IInv => PaidIsSettled
  BY DEF IInv
<1> QED
  BY <1>1, Invariance, PTL
-----------------------------------------------------------------------------
(***************************************************************************)
(* The reservation.  A request in flight holds its key, so SET NX cannot   *)
(* give the key to another one; this needs Histories only for the types.   *)
(***************************************************************************)
KeyInv == KeysHeld /\ OneRequestPerKey

\* Requests that go on or end, and keys that stay, break nothing.
LEMMA KeysKept ==
  ASSUME KeyInv, keys \subseteq keys',
         \A g \in InFlight' : g \in InFlight /\ req'[g].note = req[g].note
  PROVE  KeyInv'
<1>1. \A g \in InFlight' : KeyOf(req'[g].note) = KeyOf(req[g].note)
  OBVIOUS
<1>2. KeysHeld'
  BY <1>1 DEF KeyInv, KeysHeld
<1>3. OneRequestPerKey'
  BY <1>1 DEF KeyInv, OneRequestPerKey
<1> QED
  BY <1>2, <1>3 DEF KeyInv

\* A continuing request stays the same request, or stops being in flight.
LEMMA ContinueKeeps ==
  ASSUME TypeOK, NEW h \in Requests, Continue(h) \/ RequestFails(h) \/ HookFails(h)
  PROVE  /\ keys' = keys
         /\ \A g \in InFlight' : g \in InFlight /\ req'[g].note = req[g].note
<1>1. keys' = keys
  BY DEF Continue, getPayment, findExisting, savePayment, duplicateInsert,
         notifyPaymentApproved, readDebts, readPayments, closeIfZero,
         reopenIfPositive, reply, RequestFails, HookFails, Fault
<1>2. /\ \A g \in Requests \ {h} : req'[g] = req[g]
      /\ \/ req'[h] = Idle
         \/ req'[h].note = req[h].note /\ req[h].pc \notin {"idle", "reply"}
  <2>1. req \in [Requests -> Request]
    BY DEF TypeOK
  <2>2. CASE getPayment(h) \/ findExisting(h) \/ savePayment(h) \/ duplicateInsert(h)
    BY <2>1, <2>2 DEF Request, getPayment, findExisting, savePayment, duplicateInsert
  <2>3. CASE notifyPaymentApproved(h) \/ readDebts(h) \/ readPayments(h) \/ reply(h)
    BY <2>1, <2>3 DEF Request, notifyPaymentApproved, readDebts, readPayments, reply
  <2>4. CASE closeIfZero(h) \/ reopenIfPositive(h)
    BY <2>1, <2>4 DEF Request, closeIfZero, reopenIfPositive, HookDone
  <2>5. CASE RequestFails(h) \/ HookFails(h)
    BY <2>1, <2>5 DEF Request, RequestFails, HookFails
  <2> QED
    BY <2>2, <2>3, <2>4, <2>5 DEF Continue
<1> QED
  BY <1>1, <1>2 DEF InFlight, Idle

LEMMA NextKeyInv == TypeOK /\ KeyInv /\ [Next]_vars => KeyInv'
<1> SUFFICES ASSUME TypeOK, KeyInv, [Next]_vars PROVE KeyInv'
  OBVIOUS
<1>1. ASSUME keys' = keys, req' = req PROVE KeyInv'
  BY <1>1, KeysKept DEF InFlight
<1>2. ASSUME NEW k \in Keys, KeyExpires(k) PROVE KeyInv'
  <2> USE <1>2 DEF KeyExpires
  <2>1. InFlight' = InFlight
    BY DEF InFlight
  <2>2. \A g \in InFlight : KeyOf(req[g].note) # k
    BY DEF InFlight
  <2> QED
    BY <2>1, <2>2 DEF KeyInv, KeysHeld, OneRequestPerKey
<1>3. CASE Environment
  <2>1. CASE \E k \in Keys : KeyExpires(k)
    BY <2>1, <1>2
  <2>2. CASE keys' = keys /\ req' = req
    BY <2>2, <1>1
  <2> QED
    BY <1>3, <2>1, <2>2
    DEF Environment, createPaymentLink, MpChanges, DebtImported, setStatus
<1>4. ASSUME NEW n \in Note, NEW h \in Requests, Reserve(h, n) PROVE KeyInv'
  <2> USE <1>4 DEF Reserve, Processed
  <2>1. /\ req'[h].note = n /\ KeyOf(n) \notin keys
        /\ \A g \in Requests \ {h} : req'[g] = req[g]
    BY DEF TypeOK, Idle, Request
  <2>2. \A g \in InFlight' \ {h} : g \in InFlight /\ KeyOf(req'[g].note) = KeyOf(req[g].note)
    BY <2>1 DEF InFlight
  <2>3. \A g \in InFlight' : KeyOf(req'[g].note) \in keys' \cup {Clock}
    BY <2>1, <2>2 DEF KeyInv, KeysHeld
  <2>4. \A g \in InFlight' \ {h} :
           KeyOf(req'[g].note) # KeyOf(n) \/ KeyOf(n) = Clock
    BY <2>1, <2>2 DEF KeyInv, KeysHeld
  <2>5. OneRequestPerKey'
    BY <2>1, <2>2, <2>4 DEF KeyInv, OneRequestPerKey
  <2> QED
    BY <2>3, <2>5 DEF KeyInv, KeysHeld
<1>5. ASSUME NEW n \in Note, NEW h \in Requests, Deduplicate(h, n) PROVE KeyInv'
  <2>1. \A g \in InFlight' : g \in InFlight /\ req'[g] = req[g]
    BY <1>5 DEF Deduplicate, InFlight, TypeOK, Idle
  <2> QED
    BY <1>5, <2>1, KeysKept DEF Deduplicate
<1>6. ASSUME NEW h \in Requests, Continue(h) \/ RequestFails(h) \/ HookFails(h)
      PROVE  KeyInv'
  BY <1>6, ContinueKeeps, KeysKept
<1>7. CASE Restart
  <2>1. InFlight' = {}
    BY <1>7 DEF Restart, InFlight, Idle
  <2> QED
    BY <2>1 DEF KeyInv, KeysHeld, OneRequestPerKey
<1>8. CASE UNCHANGED vars
  BY <1>8, <1>1 DEF vars
<1> QED
  BY <1>3, <1>4, <1>5, <1>6, <1>7, <1>8 DEF Next, Deliver

\* Two requests with one key are never processed at the same time, whichever
\* controller each came through.
THEOREM KeyIsExclusive == Spec => []OneRequestPerKey
<1>1. Init => KeyInv
  BY DEF Init, KeyInv, KeysHeld, OneRequestPerKey, InFlight, Idle
<1>2. TypeOK /\ KeyInv /\ [Next]_vars => KeyInv'
  BY NextKeyInv
<1>3. KeyInv => OneRequestPerKey
  BY DEF KeyInv
<1> QED
  BY <1>1, <1>2, <1>3, TypeCorrect, PTL DEF Spec
-----------------------------------------------------------------------------
(***************************************************************************)
(* Confirmations are paid for by keys: every key that was reserved gives   *)
(* one, and every key that expired one more.  A request that has its key   *)
(* and has not confirmed yet counts as if it had.                          *)
(***************************************************************************)
Early == {"get", "find", "save", "notify"}

Confirming(p) == {h \in Requests : req[h].pc \in Early /\ req[h].note.pid = p}

Reserved(p) == keys \cap KeysOf(p)

OnceOk(p) ==
    Clock \notin KeysOf(p) =>
        confirmed[p] + Cardinality(Confirming(p)) <= Cardinality(Reserved(p)) + expiries

OnceInv == \A p \in Payments : OnceOk(p)

LEMMA Sizes ==
  ASSUME NEW U, IsFiniteSet(U), NEW S \in SUBSET U
  PROVE  IsFiniteSet(S) /\ Cardinality(S) \in Nat /\ Cardinality(S) <= Cardinality(U)
  BY FS_Subset, FS_CardinalityType

LEMMA FewStatuses == IsFiniteSet(RawStatus \cup {"id"})
<1>1. ASSUME NEW S, IsFiniteSet(S), NEW a, NEW b, NEW c
      PROVE  IsFiniteSet(S \cup {a, b, c})
  <2>1. IsFiniteSet(((S \cup {a}) \cup {b}) \cup {c})
    BY <1>1, FS_AddElement
  <2>2. S \cup {a, b, c} = ((S \cup {a}) \cup {b}) \cup {c}
    OBVIOUS
  <2> QED
    BY <2>1, <2>2
<1>2. PICK A : A = {} \cup {"", "pending", "authorized"} /\ IsFiniteSet(A)
  BY <1>1, FS_EmptySet
<1>3. PICK B : B = A \cup {"in_process", "approved", "accredited"} /\ IsFiniteSet(B)
  BY <1>1, <1>2
<1>4. PICK C : C = B \cup {"rejected", "refunded", "charged_back"} /\ IsFiniteSet(C)
  BY <1>1, <1>3
<1>5. IsFiniteSet(C \cup {"id"}) /\ C = RawStatus
  BY <1>2, <1>3, <1>4, FS_AddElement DEF RawStatus
<1> QED
  BY <1>5

\* A payment has a key for its id and one for each of its statuses.
LEMMA FewKeys ==
  ASSUME NEW p \in Payments, Clock \notin KeysOf(p)
  PROVE  IsFiniteSet(KeysOf(p))
<1>1. \A n \in Note : KeyOf(n) = Clock \/ KeyOf(n) \in {n.pid} \X (RawStatus \cup {"id"})
  BY DEF Note, KeyOf, paymentsKey, webhooksKey
<1>2. KeysOf(p) \in SUBSET ({p} \X (RawStatus \cup {"id"}))
  BY <1>1 DEF KeysOf
<1>3. IsFiniteSet({p} \X (RawStatus \cup {"id"}))
  BY FewStatuses, FS_Singleton, FS_Product
<1> QED
  BY <1>2, <1>3, FS_Subset

LEMMA Sets ==
  ASSUME NEW p \in Payments, Clock \notin KeysOf(p)
  PROVE  /\ IsFiniteSet(Confirming(p)) /\ Cardinality(Confirming(p)) \in Nat
         /\ IsFiniteSet(Reserved(p)) /\ Cardinality(Reserved(p)) \in Nat
         /\ Cardinality(Reserved(p)) <= Cardinality(KeysOf(p))
<1>1. Confirming(p) \in SUBSET Requests /\ Reserved(p) \in SUBSET KeysOf(p)
  BY DEF Confirming, Reserved
<1> QED
  BY <1>1, FewKeys, Sizes, RequestsAssumption

\* Keys that stay or come, and no request more: nothing to be paid for.
LEMMA NothingConfirmed ==
  ASSUME TypeOK, TypeOK', NEW p \in Payments, OnceOk(p),
         confirmed'[p] = confirmed[p], expiries' = expiries, keys \subseteq keys',
         Confirming(p)' \subseteq Confirming(p)
  PROVE  OnceOk(p)'
<1> SUFFICES ASSUME Clock \notin KeysOf(p)
             PROVE  confirmed'[p] + Cardinality(Confirming(p)')
                        <= Cardinality(Reserved(p)') + expiries'
  BY DEF OnceOk
<1>1. /\ IsFiniteSet(Confirming(p)) /\ Cardinality(Confirming(p)) \in Nat
      /\ Cardinality(Reserved(p)) \in Nat
  BY Sets
<1>2. Cardinality(Confirming(p)') \in Nat /\ Cardinality(Confirming(p)') <= Cardinality(Confirming(p))
  BY <1>1, Sizes
<1>3. /\ Cardinality(Reserved(p)') \in Nat /\ Cardinality(Reserved(p)) <= Cardinality(Reserved(p)')
  <2>1. Reserved(p)' \in SUBSET KeysOf(p) /\ Reserved(p) \in SUBSET Reserved(p)'
    BY DEF Reserved
  <2> QED
    BY <2>1, FewKeys, Sizes
<1>4. confirmed[p] \in Nat /\ expiries \in Nat
  BY BoundsAssumption DEF TypeOK
<1>5. confirmed[p] + Cardinality(Confirming(p)) <= Cardinality(Reserved(p)) + expiries
  BY DEF OnceOk
<1> QED
  BY <1>1, <1>2, <1>3, <1>4, <1>5

\* A step of one request that keeps what it is about confirms nothing, if it does
\* not go back before the confirmation.
LEMMA OneGoesOn ==
  ASSUME TypeOK, NEW h \in Requests, \A g \in Requests \ {h} : req'[g] = req[g],
         req'[h].pc \in Early => req[h].pc \in Early /\ req'[h].note = req[h].note,
         NEW p \in Payments
  PROVE  Confirming(p)' \subseteq Confirming(p)
  BY DEF Confirming

\* The key that is taken pays for the confirmation that may follow.
LEMMA ReserveOnce ==
  ASSUME TypeOK, TypeOK', NEW h \in Requests, NEW n \in Note, Reserve(h, n),
         NEW p \in Payments, OnceOk(p)
  PROVE  OnceOk(p)'
<1> USE DEF Reserve, Processed
<1>1. /\ req'[h].note = n /\ KeyOf(n) \notin keys /\ keys \subseteq keys'
      /\ \A g \in Requests \ {h} : req'[g] = req[g]
      /\ UNCHANGED <<confirmed, expiries>>
  BY DEF TypeOK, Idle, Request
<1>2. CASE n.pid # p
  <2>1. Confirming(p)' \subseteq Confirming(p)
    BY <1>1, <1>2 DEF Confirming
  <2> QED
    BY <1>1, <2>1, NothingConfirmed
<1>3. CASE n.pid = p
  <2> SUFFICES ASSUME Clock \notin KeysOf(p)
               PROVE  confirmed'[p] + Cardinality(Confirming(p)')
                          <= Cardinality(Reserved(p)') + expiries'
    BY DEF OnceOk
  <2>1. KeyOf(n) \in KeysOf(p) /\ KeyOf(n) # Clock
    BY <1>3 DEF KeysOf
  <2>2. Reserved(p)' = Reserved(p) \cup {KeyOf(n)} /\ KeyOf(n) \notin Reserved(p)
    BY <1>1, <2>1 DEF Reserved
  <2>3. /\ IsFiniteSet(Confirming(p)) /\ Cardinality(Confirming(p)) \in Nat
        /\ IsFiniteSet(Reserved(p)) /\ Cardinality(Reserved(p)) \in Nat
    BY Sets
  <2>4. Cardinality(Reserved(p)') = Cardinality(Reserved(p)) + 1
    BY <2>2, <2>3, FS_AddElement
  <2>5. Confirming(p)' \in SUBSET (Confirming(p) \cup {h})
    BY <1>1 DEF Confirming
  <2>6. /\ IsFiniteSet(Confirming(p) \cup {h})
        /\ Cardinality(Confirming(p) \cup {h}) <= Cardinality(Confirming(p)) + 1
    <3>1. /\ IsFiniteSet(Confirming(p) \cup {h})
          /\ Cardinality(Confirming(p) \cup {h}) = IF h \in Confirming(p) THEN Cardinality(Confirming(p))
                                                   ELSE Cardinality(Confirming(p)) + 1
      BY <2>3, FS_AddElement
    <3> QED
      BY <2>3, <3>1
  <2>7. /\ Cardinality(Confirming(p)') \in Nat
        /\ Cardinality(Confirming(p)') <= Cardinality(Confirming(p) \cup {h})
    BY <2>5, <2>6, Sizes
  <2>8. Cardinality(Confirming(p) \cup {h}) \in Nat
    BY <2>6, FS_CardinalityType
  <2>9. confirmed[p] + Cardinality(Confirming(p)) <= Cardinality(Reserved(p)) + expiries
    BY DEF OnceOk
  <2>10. confirmed[p] \in Nat /\ expiries \in Nat
    BY BoundsAssumption DEF TypeOK
  <2> QED
    BY <1>1, <2>3, <2>4, <2>6, <2>7, <2>8, <2>9, <2>10
<1> QED
  BY <1>2, <1>3

\* A key that expires is counted among the expiries.
LEMMA ExpiryOnce ==
  ASSUME TypeOK, TypeOK', NEW k \in Keys, KeyExpires(k), NEW p \in Payments, OnceOk(p)
  PROVE  OnceOk(p)'
<1> USE DEF KeyExpires
<1> SUFFICES ASSUME Clock \notin KeysOf(p)
             PROVE  confirmed'[p] + Cardinality(Confirming(p)')
                        <= Cardinality(Reserved(p)') + expiries'
  BY DEF OnceOk
<1>1. Confirming(p)' = Confirming(p) /\ Reserved(p)' = Reserved(p) \ {k}
  BY DEF Confirming, Reserved
<1>2. /\ Cardinality(Confirming(p)) \in Nat
      /\ IsFiniteSet(Reserved(p)) /\ Cardinality(Reserved(p)) \in Nat
  BY Sets
<1>3. PICK m \in Nat : m = Cardinality(Reserved(p)') /\ Cardinality(Reserved(p)) <= m + 1
  <2>1. /\ IsFiniteSet(Reserved(p) \ {k})
        /\ Cardinality(Reserved(p) \ {k}) = IF k \in Reserved(p) THEN Cardinality(Reserved(p)) - 1
                                            ELSE Cardinality(Reserved(p))
    BY <1>2, FS_RemoveElement
  <2>2. Cardinality(Reserved(p) \ {k}) \in Nat
    BY <2>1, FS_CardinalityType
  <2> QED
    BY <1>1, <1>2, <2>1, <2>2
<1>4. confirmed[p] + Cardinality(Confirming(p)) <= Cardinality(Reserved(p)) + expiries
  BY DEF OnceOk
<1>5. confirmed[p] \in Nat /\ expiries \in Nat
  BY BoundsAssumption DEF TypeOK
<1> QED
  BY <1>1, <1>2, <1>3, <1>4, <1>5

\* The request that confirms has counted before.
LEMMA NotifyOnce ==
  ASSUME TypeOK, TypeOK', NEW h \in Requests, notifyPaymentApproved(h),
         NEW p \in Payments, OnceOk(p)
  PROVE  OnceOk(p)'
<1> USE DEF notifyPaymentApproved
<1>1. /\ req'[h].pc = "close" /\ \A g \in Requests \ {h} : req'[g] = req[g]
      /\ UNCHANGED <<keys, expiries>>
  BY DEF TypeOK, Request, bounds
<1>2. Confirming(p)' \subseteq Confirming(p)
  BY <1>1, OneGoesOn DEF Early
<1>3. CASE confirmed'[p] = confirmed[p]
  BY <1>1, <1>2, <1>3, NothingConfirmed
<1>4. CASE confirmed'[p] # confirmed[p]
  <2>1. p = Pid(h) /\ confirmed'[p] = confirmed[p] + 1
    BY <1>4 DEF TypeOK
  <2> SUFFICES ASSUME Clock \notin KeysOf(p)
               PROVE  confirmed'[p] + Cardinality(Confirming(p)')
                          <= Cardinality(Reserved(p)') + expiries'
    BY DEF OnceOk
  <2>2. Confirming(p)' \in SUBSET (Confirming(p) \ {h}) /\ h \in Confirming(p)
    BY <1>1, <1>2, <2>1 DEF Confirming, Early, Pid
  <2>3. /\ IsFiniteSet(Confirming(p)) /\ Cardinality(Confirming(p)) \in Nat
        /\ Cardinality(Reserved(p)) \in Nat
    BY Sets
  <2>4. /\ IsFiniteSet(Confirming(p) \ {h})
        /\ Cardinality(Confirming(p) \ {h}) = Cardinality(Confirming(p)) - 1
    BY <2>2, <2>3, FS_RemoveElement
  <2>5. /\ Cardinality(Confirming(p)') \in Nat
        /\ Cardinality(Confirming(p)') <= Cardinality(Confirming(p) \ {h})
    BY <2>2, <2>4, Sizes
  <2>6. Reserved(p)' = Reserved(p)
    BY <1>1 DEF Reserved
  <2>7. confirmed[p] + Cardinality(Confirming(p)) <= Cardinality(Reserved(p)) + expiries
    BY DEF OnceOk
  <2>8. confirmed[p] \in Nat /\ expiries \in Nat
    BY BoundsAssumption DEF TypeOK
  <2> QED
    BY <1>1, <2>1, <2>3, <2>4, <2>5, <2>6, <2>7, <2>8
<1> QED
  BY <1>3, <1>4

\* No other step of a request, and none that fails, goes back before the
\* confirmation.
LEMMA ContinueOnce ==
  ASSUME TypeOK, TypeOK', NEW h \in Requests, Continue(h) \/ RequestFails(h) \/ HookFails(h),
         NEW p \in Payments, OnceOk(p)
  PROVE  OnceOk(p)'
<1>0. req \in [Requests -> Request]
  BY DEF TypeOK
<1>1. CASE notifyPaymentApproved(h)
  BY <1>1, NotifyOnce
<1> DEFINE Moves ==
        /\ \A g \in Requests \ {h} : req'[g] = req[g]
        /\ req'[h].pc \in Early => req[h].pc \in Early /\ req'[h].note = req[h].note
        /\ UNCHANGED <<keys, confirmed, expiries>>
<1>2. ASSUME Moves PROVE OnceOk(p)'
  <2>1. Confirming(p)' \subseteq Confirming(p)
    BY <1>2, OneGoesOn
  <2> QED
    BY <1>2, <2>1, NothingConfirmed
<1>3. CASE getPayment(h) \/ findExisting(h)
  BY <1>0, <1>2, <1>3 DEF Request, getPayment, findExisting, Early, bounds
<1>4. CASE savePayment(h) \/ duplicateInsert(h)
  BY <1>0, <1>2, <1>4 DEF Request, savePayment, duplicateInsert, Early, Idle, bounds
<1>5. CASE readDebts(h) \/ readPayments(h)
  BY <1>0, <1>2, <1>5 DEF Request, readDebts, readPayments, Early, bounds
<1>6. CASE closeIfZero(h) \/ reopenIfPositive(h)
  BY <1>0, <1>2, <1>6 DEF Request, closeIfZero, reopenIfPositive, HookDone, Early, bounds
<1>7. CASE reply(h) \/ RequestFails(h) \/ HookFails(h)
  BY <1>0, <1>2, <1>7 DEF Request, reply, RequestFails, HookFails, Fault, Early, Idle, bounds
<1> QED
  BY <1>1, <1>3, <1>4, <1>5, <1>6, <1>7 DEF Continue

LEMMA NextOnce == TypeOK /\ TypeOK' /\ OnceInv /\ [Next]_vars => OnceInv'
<1> SUFFICES ASSUME TypeOK, TypeOK', OnceInv, [Next]_vars, NEW p \in Payments
             PROVE  OnceOk(p)'
  BY DEF OnceInv
<1>0. OnceOk(p)
  BY DEF OnceInv
<1>1. ASSUME UNCHANGED <<keys, req, confirmed, expiries>> PROVE OnceOk(p)'
  BY <1>0, <1>1, NothingConfirmed DEF Confirming
<1>2. CASE Environment
  <2>1. CASE \E k \in Keys : KeyExpires(k)
    BY <1>0, <2>1, ExpiryOnce
  <2> QED
    BY <1>1, <1>2, <2>1
    DEF Environment, createPaymentLink, MpChanges, DebtImported, setStatus, bounds
<1>3. ASSUME NEW n \in Note, NEW h \in Requests, Reserve(h, n) PROVE OnceOk(p)'
  BY <1>0, <1>3, ReserveOnce
<1>4. ASSUME NEW n \in Note, NEW h \in Requests, Deduplicate(h, n) PROVE OnceOk(p)'
  <2>1. /\ req'[h].pc = "reply" /\ \A g \in Requests \ {h} : req'[g] = req[g]
        /\ UNCHANGED <<keys, confirmed, expiries>>
    BY <1>4 DEF Deduplicate, TypeOK, Idle, bounds
  <2>2. Confirming(p)' \subseteq Confirming(p)
    BY <2>1, OneGoesOn DEF Early
  <2> QED
    BY <1>0, <2>1, <2>2, NothingConfirmed
<1>5. ASSUME NEW h \in Requests, Continue(h) \/ RequestFails(h) \/ HookFails(h)
      PROVE  OnceOk(p)'
  BY <1>0, <1>5, ContinueOnce
<1>6. CASE Restart
  <2>1. Confirming(p)' = {} /\ UNCHANGED <<keys, confirmed, expiries>>
    BY <1>6 DEF Restart, Fault, Confirming, Early, Idle
  <2> QED
    BY <1>0, <2>1, NothingConfirmed
<1>7. CASE UNCHANGED vars
  BY <1>1, <1>7 DEF vars, bounds
<1> QED
  BY <1>2, <1>3, <1>4, <1>5, <1>6, <1>7 DEF Next, Deliver

\* A debtor gets at most one confirmation of a payment per key of the payment,
\* and one per key that expired.
THEOREM ConfirmedPerKey == Spec => []ConfirmedOncePerKey
<1>1. Init => OnceInv
  <2> SUFFICES ASSUME Init, NEW p \in Payments PROVE OnceOk(p)
    BY DEF OnceInv
  <2>1. Confirming(p) = {} /\ Reserved(p) = {} /\ confirmed[p] = 0 /\ expiries = 0
    BY DEF Init, Confirming, Reserved, Early, Idle
  <2> QED
    BY <2>1, FS_EmptySet DEF OnceOk
<1>2. TypeOK /\ TypeOK' /\ OnceInv /\ [Next]_vars => OnceInv'
  BY NextOnce
<1>3. TypeOK /\ OnceInv => ConfirmedOncePerKey
  <2> SUFFICES ASSUME TypeOK, OnceInv, NEW p \in Payments, Clock \notin KeysOf(p)
               PROVE  confirmed[p] <= Cardinality(KeysOf(p)) + expiries
    BY DEF ConfirmedOncePerKey
  <2>1. confirmed[p] + Cardinality(Confirming(p)) <= Cardinality(Reserved(p)) + expiries
    BY DEF OnceInv, OnceOk
  <2>2. /\ Cardinality(Confirming(p)) \in Nat /\ Cardinality(Reserved(p)) \in Nat
        /\ Cardinality(Reserved(p)) <= Cardinality(KeysOf(p)) /\ Cardinality(KeysOf(p)) \in Nat
    BY Sets, FewKeys, FS_CardinalityType
  <2>3. confirmed[p] \in Nat /\ expiries \in Nat
    BY BoundsAssumption DEF TypeOK
  <2> QED
    BY <2>1, <2>2, <2>3
<1> QED
  BY <1>1, <1>2, <1>3, TypeCorrect, PTL DEF Spec
-----------------------------------------------------------------------------
(***************************************************************************)
(* As long as requests come one at a time and nothing fails: what the      *)
(* table says once every notification is answered.                         *)
(***************************************************************************)

\* The reservation tells the statuses of a payment apart, or lets every
\* notification through; and every notification is about a payment.
KeyTellsStatus ==
    \A e \in Envelopes :
        e.type = "payment" /\ (e.header \/ (e.via = "webhooks" /\ e.shape = "resource"))

\* Mercado Pago gives no payment a status it has had before.
Ranks(rank) == \A m \in MpMoves : rank[m[1]] < rank[m[2]]
NoReturn == \E rank \in [RawStatus \cup {"linked"} -> Nat] : Ranks(rank)

\* What was approved stays approved or is refunded.
ApprovedStatus == {"approved", "accredited"}
FinalApproval ==
    \A m \in MpMoves : m[1] \in ApprovedStatus => m[2] \in ApprovedStatus \cup {"refunded"}

\* One request at a time is processed: what it has read of the table is so still.
Single ==
    /\ \A g, h \in InFlight : g = h
    /\ \A h \in Requests : req[h].pc = "save" => req[h].existing = pay[Pid(h)]

\* A step of which none is a failure, an edit or an import.
SerialNext ==
    \/ \E p \in Payments : createPaymentLink(p) \/ \E s \in RawStatus : MpChanges(p, s)
    \/ \E k \in Keys : KeyExpires(k)
    \/ \E n \in Note : Deliver(n)
    \/ \E h \in Requests : Continue(h)
    \/ UNCHANGED vars

LEMMA SerialStep ==
  ASSUME IInv, [Next]_vars, Serial'
  PROVE  Serial /\ SerialNext
<1>0. faults \in Nat /\ edits \in Nat /\ overlapped \in BOOLEAN
  BY BoundsAssumption DEF IInv, TypeOK
<1>1. ASSUME NEW h \in Requests PROVE ~ RequestFails(h) /\ ~ HookFails(h) /\ ~ Restart
  <2>1. ~ Fault
    BY <1>0 DEF Fault, Serial
  <2> QED
    BY <2>1 DEF RequestFails, HookFails, Restart
<1>2. ~ Restart
  BY <1>0 DEF Fault, Serial, Restart
<1>3. ASSUME NEW c \in Cases
      PROVE  (\A a \in Imported : ~ DebtImported(c, a)) /\ (\A s \in CaseStatus : ~ setStatus(c, s))
  BY <1>0 DEF DebtImported, setStatus, Serial
<1>4. SerialNext
  BY <1>1, <1>2, <1>3 DEF Next, Environment, SerialNext
<1>5. faults' = faults /\ edits' = edits /\ (overlapped => overlapped')
  <2>1. ASSUME NEW h \in Requests, Continue(h) PROVE UNCHANGED bounds
    BY <2>1 DEF Continue, getPayment, findExisting, savePayment, duplicateInsert,
            notifyPaymentApproved, readDebts, readPayments, closeIfZero, reopenIfPositive, reply
  <2>2. ASSUME NEW n \in Note, Deliver(n)
        PROVE  faults' = faults /\ edits' = edits /\ (overlapped => overlapped')
    <3>1. PICK h \in Requests : Reserve(h, n) \/ Deduplicate(h, n)
      BY <2>2, ZenonT(10) DEF Deliver
    <3>2. CASE Reserve(h, n)
      <4>1. Processed(h, n)
        BY <3>2, ZenonT(10) DEF Reserve
      <4>2. UNCHANGED <<faults, edits, expiries>> /\ overlapped' = (overlapped \/ InFlight # {})
        BY <4>1, ZenonT(10) DEF Processed
      <4> QED
        BY <4>2, ZenonT(10)
    <3>3. CASE Deduplicate(h, n)
      <4>1. UNCHANGED <<overlapped, faults, edits, expiries>>
        BY <3>3, ZenonT(10) DEF Deduplicate, bounds
      <4> QED
        BY <4>1, ZenonT(10)
    <3> QED
      BY <3>1, <3>2, <3>3
  <2>3. ASSUME NEW p \in Payments, createPaymentLink(p) \/ \E s \in RawStatus : MpChanges(p, s)
        PROVE  UNCHANGED bounds
    BY <2>3 DEF createPaymentLink, MpChanges
  <2>4. ASSUME NEW k \in Keys, KeyExpires(k) PROVE UNCHANGED <<faults, edits, overlapped>>
    BY <2>4 DEF KeyExpires
  <2> QED
    BY <1>4, <2>1, <2>2, <2>3, <2>4 DEF SerialNext, vars, bounds
<1> QED
  BY <1>0, <1>4, <1>5 DEF Serial
-----------------------------------------------------------------------------
(* What the steps of a request do to it. *)

LEMMA Others ==
  ASSUME IInv, NEW h \in Requests, Continue(h)
  PROVE  \A g \in Requests \ {h} : req'[g] = req[g]
  BY DEF IInv, TypeOK, Continue, getPayment, findExisting, savePayment, duplicateInsert, HookDone,
         notifyPaymentApproved, readDebts, readPayments, closeIfZero, reopenIfPositive, reply

LEMMA FetchMoves ==
  ASSUME IInv, NEW h \in Requests
  PROVE  /\ getPayment(h) => /\ req'[h].pc = "find" /\ req'[h].note = req[h].note
                             /\ req'[h].raw = mp[Pid(h)]
         /\ findExisting(h) => /\ req'[h].pc = "save" /\ req'[h].note = req[h].note
                               /\ req'[h].raw = req[h].raw /\ req'[h].existing = pay[Pid(h)]
         /\ savePayment(h) =>
               /\ req'[h].pc = IF RunsHooks(req[h]) THEN "notify" ELSE "reply"
               /\ req'[h].note = req[h].note
               /\ req'[h].debt = req[h].debt /\ req'[h].paid = req[h].paid
  BY DEF IInv, TypeOK, Request, getPayment, findExisting, savePayment

LEMMA HooksMove ==
  ASSUME IInv, NEW h \in Requests
  PROVE  /\ notifyPaymentApproved(h) => /\ req'[h].pc = "close" /\ req'[h].note = req[h].note
                                        /\ req'[h].debt = req[h].debt /\ req'[h].paid = req[h].paid
         /\ readDebts(h) => /\ req'[h].pc = req[h].pc /\ req'[h].note = req[h].note
                            /\ req'[h].debt = sumDebts(owed[CaseOf[Pid(h)]])
                            /\ req'[h].paid = req[h].paid
         /\ readPayments(h) => /\ req'[h].pc = req[h].pc /\ req'[h].note = req[h].note
                               /\ req'[h].paid = sumApprovedPayments(CaseOf[Pid(h)])
                               /\ req'[h].debt = req[h].debt
         /\ closeIfZero(h) => /\ req'[h].pc = "reopen" /\ req'[h].note = req[h].note
                              /\ req'[h].debt = None /\ req'[h].paid = None
         /\ reopenIfPositive(h) => /\ req'[h].pc = "reply" /\ req'[h].note = req[h].note
                                   /\ req'[h].debt = None /\ req'[h].paid = None
<1>1. req[h] \in Request /\ req \in [Requests -> Request]
  BY DEF IInv, TypeOK
<1>2. readDebts(h) => /\ req'[h].pc = req[h].pc /\ req'[h].note = req[h].note
                      /\ req'[h].debt = sumDebts(owed[CaseOf[Pid(h)]])
                      /\ req'[h].paid = req[h].paid
  BY <1>1 DEF Request, readDebts
<1>3. readPayments(h) => /\ req'[h].pc = req[h].pc /\ req'[h].note = req[h].note
                         /\ req'[h].paid = sumApprovedPayments(CaseOf[Pid(h)])
                         /\ req'[h].debt = req[h].debt
  BY <1>1 DEF Request, readPayments
<1> QED
  BY <1>1, <1>2, <1>3 DEF Request, notifyPaymentApproved, closeIfZero, reopenIfPositive, HookDone

LEMMA Taken ==
  ASSUME IInv, NEW h \in Requests, NEW n \in Note
  PROVE  /\ Reserve(h, n) \/ Deduplicate(h, n) =>
               /\ req[h].pc = "idle" /\ req'[h].note = n
               /\ \A g \in Requests \ {h} : req'[g] = req[g]
         /\ Reserve(h, n) => req'[h].pc = IF Reconcilable(n) THEN "get" ELSE "reply"
         /\ Deduplicate(h, n) => req'[h].pc = "reply"
<1>1. req \in [Requests -> Request]
  BY DEF IInv, TypeOK
<1>2. ASSUME NEW x \in Pc, req' = [req EXCEPT ![h] = [Idle EXCEPT !.note = n, !.pc = x]]
      PROVE  req'[h].note = n /\ req'[h].pc = x /\ \A g \in Requests \ {h} : req'[g] = req[g]
  BY <1>1, <1>2 DEF Idle
<1>3. Reserve(h, n) =>
          req' = [req EXCEPT ![h] =
              [Idle EXCEPT !.note = n, !.pc = IF Reconcilable(n) THEN "get" ELSE "reply"]]
  BY DEF Reserve, Processed
<1>4. Deduplicate(h, n) => req' = [req EXCEPT ![h] = [Idle EXCEPT !.note = n, !.pc = "reply"]]
  BY DEF Deduplicate
<1>5. Reserve(h, n) \/ Deduplicate(h, n) => req[h].pc = "idle"
  BY DEF Reserve, Deduplicate
<1>6. (IF Reconcilable(n) THEN "get" ELSE "reply") \in Pc /\ "reply" \in Pc
  BY DEF Pc
<1>7. Reserve(h, n) =>
          /\ req'[h].note = n /\ req'[h].pc = IF Reconcilable(n) THEN "get" ELSE "reply"
          /\ \A g \in Requests \ {h} : req'[g] = req[g]
  BY <1>2, <1>3, <1>6
<1>8. Deduplicate(h, n) =>
          /\ req'[h].note = n /\ req'[h].pc = "reply"
          /\ \A g \in Requests \ {h} : req'[g] = req[g]
  BY <1>2, <1>4, <1>6
<1> QED
  BY <1>5, <1>7, <1>8

LEMMA SingleStays ==
  ASSUME IInv, Single, Serial', SerialNext
  PROVE  Single'
<1>1. ASSUME UNCHANGED <<req, pay>> PROVE Single'
  BY <1>1 DEF Single, InFlight, Pid
<1>2. ASSUME NEW n \in Note, NEW h \in Requests, Reserve(h, n) PROVE Single'
  <2>1. InFlight = {} /\ UNCHANGED pay
    BY <1>2 DEF Reserve, Processed, Serial
  <2>2. \A g \in Requests \ {h} : req'[g].pc \in {"idle", "reply"}
    BY <1>2, <2>1, Taken DEF InFlight
  <2>3. req'[h].pc # "save"
    BY <1>2, Taken
  <2> QED
    BY <2>2, <2>3 DEF Single, InFlight
<1>3. ASSUME NEW n \in Note, NEW h \in Requests, Deduplicate(h, n) PROVE Single'
  <2>1. /\ req'[h].pc = "reply" /\ UNCHANGED pay
        /\ \A g \in Requests \ {h} : req'[g] = req[g]
    BY <1>3, Taken DEF Deduplicate
  <2>2. InFlight' \subseteq InFlight
    BY <2>1 DEF InFlight
  <2> QED
    BY <2>1, <2>2 DEF Single, Pid
<1>4. ASSUME NEW h \in Requests, Continue(h) PROVE Single'
  <2>1. \A g \in Requests \ {h} : req'[g] = req[g]
    BY <1>4, Others
  <2>2. CASE reply(h) \/ duplicateInsert(h)
    <3>1. req'[h] = Idle /\ UNCHANGED pay
      BY <2>2 DEF reply, duplicateInsert, IInv, TypeOK
    <3>2. InFlight' \subseteq InFlight /\ req'[h].pc # "save"
      BY <2>1, <3>1 DEF InFlight, Idle
    <3> QED
      BY <2>1, <3>1, <3>2 DEF Single, Pid
  <2>3. CASE ~ (reply(h) \/ duplicateInsert(h))
    <3>1. req[h].pc \notin {"idle", "reply"}
      BY <1>4, <2>3 DEF Continue, getPayment, findExisting, savePayment, notifyPaymentApproved,
                        readDebts, readPayments, closeIfZero, reopenIfPositive
    <3>2. InFlight' \subseteq InFlight /\ h \in InFlight
      BY <2>1, <3>1 DEF InFlight
    <3>3. \A g \in Requests \ {h} : req'[g].pc # "save"
      BY <2>1, <3>2 DEF Single, InFlight
    <3>4. req'[h].pc = "save" => req'[h].existing = pay'[req'[h].note.pid]
      <4>1. req'[h].pc = "save" => findExisting(h)
        BY <1>4, <2>3, FetchMoves, HooksMove DEF Continue, readDebts, readPayments
      <4>2. findExisting(h) => UNCHANGED pay
        BY DEF findExisting
      <4> QED
        BY <4>1, <4>2, FetchMoves DEF Pid
    <3> QED
      BY <3>2, <3>3, <3>4 DEF Single, Pid
  <2> QED
    BY <2>2, <2>3
<1> QED
  BY <1>1, <1>2, <1>3, <1>4 DEF SerialNext, Deliver, createPaymentLink, MpChanges, KeyExpires, vars
-----------------------------------------------------------------------------
(* The table agrees with Mercado Pago. *)

\* Notifications and keys are of statuses the payment has had; no key is Clock's.
Past ==
    /\ \A n \in notes : n.raw \in seen[n.pid]
    /\ \A h \in Requests : req[h].pc # "idle" => req[h].note.raw \in seen[req[h].note.pid]
    /\ \A p \in Payments, s \in RawStatus : <<p, s>> \in keys => s \in seen[p]
    /\ Clock \notin keys
    /\ \A p \in Payments : mp[p] # "absent" => HasToken

Ranked(rank) ==
    \A p \in Payments : \A s \in seen[p] : mp[p] \in RawStatus /\ rank[s] <= rank[mp[p]]

\* A notification of the present status of p that no request has and no key keeps out.
Uncollected(p) ==
    \E n \in notes :
        /\ n.pid = p /\ n.raw = mp[p] /\ KeyOf(n) \notin keys
        /\ \A h \in Requests : req[h].pc # "idle" => req[h].note # n

Fetching(h) == req[h].pc \in {"get", "find", "save"}

\* The table agrees with Mercado Pago, or somebody is going to ask.
CollectedAt(p) ==
    mp[p] \in RawStatus =>
        \/ Recorded(p) \/ Uncollected(p)
        \/ \E h \in Requests : Fetching(h) /\ Pid(h) = p

RawIsCurrent(h) ==
    req[h].pc \in {"find", "save"} => req[h].raw = mp[Pid(h)] \/ Uncollected(Pid(h))

Collected == (\A p \in Payments : CollectedAt(p)) /\ (\A h \in Requests : RawIsCurrent(h))

LEMMA LinkedIsNone == "linked" \notin RawStatus /\ "absent" \notin RawStatus
  BY DEF RawStatus

LEMMA RankedStep ==
  ASSUME IInv, NEW rank \in [RawStatus \cup {"linked"} -> Nat], Ranks(rank), Ranked(rank), [Next]_vars
  PROVE  /\ Ranked(rank)'
         /\ \A p \in Payments, s \in RawStatus : MpChanges(p, s) => s \notin seen[p]
<1>1. ASSUME NEW p \in Payments, NEW s \in RawStatus, MpChanges(p, s)
      PROVE  s \notin seen[p] /\ Ranked(rank)'
  <2>1. /\ <<mp[p], s>> \in MpMoves /\ mp' = [mp EXCEPT ![p] = s]
        /\ seen' = [seen EXCEPT ![p] = @ \cup {s}]
    BY <1>1 DEF MpChanges
  <2>2. rank[mp[p]] < rank[s] /\ mp[p] \in RawStatus \cup {"linked"}
    BY <2>1, MovesAssumption DEF Ranks
  <2>3. rank[mp[p]] \in Nat /\ rank[s] \in Nat /\ \A q \in RawStatus : rank[q] \in Nat
    BY <2>2
  <2>4. \A q \in seen[p] : q \in RawStatus /\ rank[q] <= rank[mp[p]]
    BY DEF Ranked, IInv, TypeOK
  <2>5. s \notin seen[p]
    BY <2>2, <2>3, <2>4
  <2>6. /\ mp'[p] = s /\ seen'[p] = seen[p] \cup {s}
        /\ \A q \in Payments \ {p} : mp'[q] = mp[q] /\ seen'[q] = seen[q]
    BY <2>1 DEF IInv, TypeOK
  <2>7. \A q \in seen'[p] : rank[q] <= rank[s]
    BY <2>2, <2>3, <2>4, <2>6
  <2> QED
    BY <2>5, <2>6, <2>7 DEF Ranked
<1>2. ASSUME NEW p \in Payments, createPaymentLink(p) PROVE Ranked(rank)'
  <2>1. mp[p] = "absent" /\ mp' = [mp EXCEPT ![p] = "linked"] /\ seen' = seen
    BY <1>2 DEF createPaymentLink
  <2>2. seen[p] = {}
    BY <2>1, LinkedIsNone DEF Ranked
  <2> QED
    BY <2>1, <2>2 DEF Ranked, IInv, TypeOK
<1>3. ASSUME UNCHANGED mpVars PROVE Ranked(rank)'
  BY <1>3 DEF Ranked, mpVars
<1>4. ASSUME NEW h \in Requests, Continue(h) PROVE UNCHANGED mpVars
  BY <1>4 DEF Continue, getPayment, findExisting, savePayment, duplicateInsert,
          notifyPaymentApproved, readDebts, readPayments, closeIfZero, reopenIfPositive, reply
<1>5. CASE Environment
  BY <1>1, <1>2, <1>3, <1>5 DEF Environment, KeyExpires, DebtImported, setStatus
<1> QED
  BY <1>1, <1>3, <1>4, <1>5 DEF Next, Deliver, Reserve, Deduplicate, RequestFails, HookFails, Fault,
                               Restart, vars

LEMMA KeyTells ==
  ASSUME KeyTellsStatus, NEW n \in Note
  PROVE  /\ KeyOf(n) = <<n.pid, n.raw>> \/ KeyOf(n) = Clock
         /\ n.env.type = "payment"
<1>1. n.env \in Envelopes
  BY DEF Note
<1> QED
  BY <1>1, EnvelopesAssumption DEF KeyTellsStatus, Envelope, KeyOf, paymentsKey, webhooksKey

LEMMA KeyPast ==
  ASSUME NEW n \in Note, NEW p \in Payments, NEW s \in RawStatus, KeyOf(n) = <<p, s>>, KeyOf(n) # Clock
  PROVE  n.pid = p /\ n.raw = s
<1>1. "id" \notin RawStatus
  BY DEF RawStatus
<1> QED
  BY <1>1 DEF KeyOf, paymentsKey, webhooksKey

LEMMA PastStep ==
  ASSUME IInv, Past, [Next]_vars
  PROVE  Past'
<1>1. ASSUME NEW p \in Payments, NEW s \in RawStatus, MpChanges(p, s) PROVE Past'
  <2>1. /\ seen' = [seen EXCEPT ![p] = @ \cup {s}] /\ UNCHANGED <<req, keys>>
        /\ \A n \in notes' : n \in notes \/ (n.pid = p /\ n.raw = s)
    BY <1>1 DEF MpChanges
  <2>2. s \in seen'[p] /\ \A q \in Payments : seen[q] \subseteq seen'[q]
    BY <2>1 DEF IInv, TypeOK
  <2>3. \A n \in notes : n.pid \in Payments
    BY DEF IInv, TypeOK, Note
  <2>4. \A h \in Requests : req[h].pc # "idle" => req[h].note.pid \in Payments
    BY Running DEF Pid
  <2>5. \A n \in notes' : n.raw \in seen'[n.pid]
    BY <2>1, <2>2, <2>3 DEF Past
  <2>6. \A h \in Requests : req'[h].pc # "idle" => req'[h].note.raw \in seen'[req'[h].note.pid]
    BY <2>1, <2>2, <2>4 DEF Past
  <2>7. \A q \in Payments, x \in RawStatus : <<q, x>> \in keys' => x \in seen'[q]
    BY <2>1, <2>2 DEF Past
  <2>8. Clock \notin keys'
    BY <2>1 DEF Past, Clock
  <2>9. mp[p] # "absent" /\ mp' = [mp EXCEPT ![p] = s]
    BY <1>1, MovesAssumption, LinkedIsNone DEF MpChanges
  <2>10. \A q \in Payments : mp'[q] # "absent" => HasToken
    BY <2>9 DEF Past, IInv, TypeOK
  <2> QED
    BY <2>5, <2>6, <2>7, <2>8, <2>10 DEF Past, Clock
<1>2. ASSUME seen' = seen, mp' = mp \/ HasToken, notes' \subseteq notes, keys' \subseteq keys,
             \A h \in Requests : req'[h].pc # "idle" => req[h].pc # "idle" /\ req'[h].note = req[h].note
      PROVE  Past'
  BY <1>2 DEF Past, Clock
<1>3. ASSUME NEW h \in Requests, NEW n \in Note, Reserve(h, n) PROVE Past'
  <2>1. /\ n \in notes /\ keys' = keys \cup ({KeyOf(n)} \ {Clock}) /\ seen' = seen /\ notes' = notes
         /\ mp' = mp
    BY <1>3 DEF Reserve, mpVars
  <2>2. n.raw \in seen[n.pid]
    BY <2>1 DEF Past
  <2>3. \A p \in Payments, s \in RawStatus : <<p, s>> \in keys' => s \in seen[p]
    BY <2>1, <2>2, KeyPast DEF Past
  <2>4. \A g \in Requests : req'[g].pc # "idle" => req'[g].note.raw \in seen[req'[g].note.pid]
    BY <1>3, <2>2, Taken DEF Past
  <2> QED
    BY <2>1, <2>3, <2>4 DEF Past, Clock
<1>4. ASSUME NEW h \in Requests, NEW n \in Note, Deduplicate(h, n) PROVE Past'
  <2>1. n \in notes /\ seen' = seen /\ notes' = notes /\ keys' = keys /\ mp' = mp
    BY <1>4 DEF Deduplicate, mpVars
  <2>2. n.raw \in seen[n.pid]
    BY <2>1 DEF Past
  <2>3. \A g \in Requests : req'[g].pc # "idle" => req'[g].note.raw \in seen[req'[g].note.pid]
    BY <1>4, <2>2, Taken DEF Past
  <2> QED
    BY <2>1, <2>3 DEF Past, Clock
<1>5. ASSUME NEW h \in Requests, Continue(h) PROVE Past'
  <2>1. \A g \in Requests \ {h} : req'[g] = req[g]
    BY <1>5, Others
  <2>2. seen' = seen /\ mp' = mp /\ notes' \subseteq notes /\ keys' = keys
    BY <1>5 DEF Continue, getPayment, findExisting, savePayment, duplicateInsert, mpVars,
            notifyPaymentApproved, readDebts, readPayments, closeIfZero, reopenIfPositive, reply
  <2>3. req'[h].pc # "idle" => req[h].pc # "idle" /\ req'[h].note = req[h].note
    <3>1. CASE reply(h) \/ duplicateInsert(h)
      BY <3>1 DEF reply, duplicateInsert, IInv, TypeOK, Idle
    <3>2. CASE ~ (reply(h) \/ duplicateInsert(h))
      <4>1. req[h].pc # "idle"
        BY <1>5, <3>2 DEF Continue, getPayment, findExisting, savePayment, notifyPaymentApproved,
                          readDebts, readPayments, closeIfZero, reopenIfPositive
      <4> QED
        BY <1>5, <3>2, <4>1, FetchMoves, HooksMove DEF Continue
    <3> QED
      BY <3>1, <3>2
  <2> QED
    BY <1>2, <2>1, <2>2, <2>3
<1>6. ASSUME NEW h \in Requests, RequestFails(h) \/ HookFails(h) PROVE Past'
  <2>1. UNCHANGED <<mp, seen, notes, keys>>
    BY <1>6 DEF RequestFails, HookFails, Fault, mpVars
  <2>2. req \in [Requests -> Request]
    BY DEF IInv, TypeOK
  <2>3. CASE RequestFails(h)
    <3>1. req' = [req EXCEPT ![h] = Idle] /\ Idle.pc = "idle"
      BY <2>3 DEF RequestFails, Idle
    <3>2. \A g \in Requests : req'[g].pc # "idle" => req[g].pc # "idle" /\ req'[g].note = req[g].note
      BY <2>2, <3>1
    <3> QED
      BY <1>2, <2>1, <3>2
  <2>4. CASE HookFails(h)
    <3>1. /\ req' = [req EXCEPT ![h].pc = "reply", ![h].debt = None, ![h].paid = None]
          /\ req[h].pc # "idle"
      BY <2>4 DEF HookFails
    <3>2. req'[h].note = req[h].note /\ \A g \in Requests \ {h} : req'[g] = req[g]
      BY <2>2, <3>1 DEF Request
    <3>3. \A g \in Requests : req'[g].pc # "idle" => req[g].pc # "idle" /\ req'[g].note = req[g].note
      BY <3>1, <3>2
    <3> QED
      BY <1>2, <2>1, <3>3
  <2> QED
    BY <1>6, <2>3, <2>4
<1>7. CASE Restart
  BY <1>2, <1>7 DEF Restart, Fault, mpVars, Idle
<1>8. CASE Environment
  <2>1. ASSUME UNCHANGED <<seen, notes, req>>, keys' \subseteq keys, mp' = mp \/ HasToken
        PROVE  Past'
    BY <1>2, <2>1
  <2> QED
    BY <1>1, <1>8, <2>1
       DEF Environment, createPaymentLink, KeyExpires, DebtImported, setStatus, mpVars
<1>9. CASE UNCHANGED vars
  BY <1>2, <1>9 DEF vars, mpVars
<1> QED
  BY <1>3, <1>4, <1>5, <1>6, <1>7, <1>8, <1>9 DEF Next, Deliver

\* What leaves a notification as it is.
LEMMA UncollectedStays ==
  ASSUME NEW p, Uncollected(p), mp'[p] = mp[p], keys' \subseteq keys,
         \A n \in notes : n \in notes' \/ \E h \in Requests : req[h].pc # "idle" /\ req[h].note = n,
         \A h \in Requests : req'[h].pc # "idle" => req[h].pc # "idle" /\ req'[h].note = req[h].note
  PROVE  Uncollected(p)'
<1>1. PICK n \in notes : /\ n.pid = p /\ n.raw = mp[p] /\ KeyOf(n) \notin keys
                         /\ \A h \in Requests : req[h].pc # "idle" => req[h].note # n
  BY DEF Uncollected
<1>2. n \in notes' /\ n.raw = mp'[p] /\ KeyOf(n) \notin keys'
      /\ \A h \in Requests : req'[h].pc # "idle" => req'[h].note # n
  BY <1>1
<1> QED
  BY <1>1, <1>2 DEF Uncollected

\* A step that leaves the requests and the table as they are.
LEMMA CollectedStays ==
  ASSUME Collected, UNCHANGED <<req, pay>>,
         \A p \in Payments : mp'[p] = mp[p] \/ mp'[p] \notin RawStatus \/ Uncollected(p)',
         \A p \in Payments : mp'[p] = mp[p] /\ Uncollected(p) => Uncollected(p)',
         \A h \in Requests : req[h].pc # "idle" => Pid(h) \in Payments /\ mp'[Pid(h)] \in RawStatus
  PROVE  Collected'
<1>1. ASSUME NEW p \in Payments PROVE CollectedAt(p)'
  <2>1. CollectedAt(p) /\ (mp'[p] = mp[p] => (Recorded(p)' <=> Recorded(p)))
    BY DEF Collected, Recorded
  <2>2. (\E h \in Requests : Fetching(h) /\ Pid(h) = p) =>
            (\E h \in Requests : Fetching(h) /\ Pid(h) = p)'
    BY DEF Fetching, Pid
  <2> QED
    BY <2>1, <2>2 DEF CollectedAt
<1>2. ASSUME NEW h \in Requests PROVE RawIsCurrent(h)'
  <2>1. RawIsCurrent(h) /\ Pid(h)' = Pid(h)
    BY DEF Collected, Pid
  <2>2. CASE req[h].pc \in {"find", "save"}
    <3>1. PICK p \in Payments : p = Pid(h) /\ mp'[p] \in RawStatus
      BY <2>2
    <3>2. req[h].raw = mp[p] \/ Uncollected(p)
      BY <2>1, <2>2, <3>1 DEF RawIsCurrent
    <3>3. req[h].raw = mp'[p] \/ Uncollected(p)'
      BY <3>1, <3>2
    <3> QED
      BY <2>1, <3>1, <3>3 DEF RawIsCurrent
  <2>3. CASE req[h].pc \notin {"find", "save"}
    BY <2>3 DEF RawIsCurrent
  <2> QED
    BY <2>2, <2>3
<1> QED
  BY <1>1, <1>2 DEF Collected

LEMMA CollectedWorld ==
  ASSUME KeyTellsStatus, IInv, IInv', Past, Collected,
         \A p \in Payments, s \in RawStatus : MpChanges(p, s) => s \notin seen[p],
         \/ \E p \in Payments : createPaymentLink(p) \/ \E s \in RawStatus : MpChanges(p, s)
         \/ \E k \in Keys : KeyExpires(k)
         \/ UNCHANGED vars
  PROVE  Collected'
<1>1. /\ UNCHANGED <<req, pay>> /\ keys' \subseteq keys /\ notes \subseteq notes'
      /\ \A h \in Requests : req[h].pc # "idle" => Pid(h) \in Payments /\ mp'[Pid(h)] \in RawStatus
  <2>1. UNCHANGED <<req, pay>> /\ keys' \subseteq keys /\ notes \subseteq notes'
    BY DEF createPaymentLink, MpChanges, KeyExpires, vars
  <2>2. \A h \in Requests : req[h].pc # "idle" => Pid(h) \in Payments /\ mp'[Pid(h)] \in RawStatus
    <3> SUFFICES ASSUME NEW h \in Requests, req[h].pc # "idle"
                 PROVE  Pid(h) \in Payments /\ mp'[Pid(h)] \in RawStatus
      OBVIOUS
    <3>1. Sound(req[h])' /\ req'[h] = req[h] /\ Pid(h) \in Payments
      BY <2>1, Running DEF IInv
    <3> QED
      BY <3>1 DEF Sound, Notified, IInv, TypeOK, Pid
  <2> QED
    BY <2>1, <2>2
<1>2. \A p \in Payments : mp'[p] = mp[p] /\ Uncollected(p) => Uncollected(p)'
  BY <1>1, UncollectedStays
<1>3. ASSUME NEW p \in Payments PROVE mp'[p] = mp[p] \/ mp'[p] \notin RawStatus \/ Uncollected(p)'
  <2>1. CASE UNCHANGED mpVars
    BY <2>1 DEF mpVars
  <2>2. ASSUME NEW q \in Payments, createPaymentLink(q)
        PROVE  mp'[p] = mp[p] \/ mp'[p] \notin RawStatus
    BY <2>2, LinkedIsNone DEF createPaymentLink, IInv, TypeOK
  <2>3. ASSUME NEW q \in Payments, NEW s \in RawStatus, MpChanges(q, s)
        PROVE  mp'[p] = mp[p] \/ Uncollected(p)'
    <3>1. CASE p # q
      BY <2>3, <3>1 DEF MpChanges, IInv, TypeOK
    <3>2. CASE p = q
      <4>1. PICK sent \in (SUBSET Envelopes) \ {{}} :
                notes' = notes \cup {[pid |-> q, raw |-> s, env |-> e] : e \in sent}
        BY <2>3 DEF MpChanges
      <4>2. PICK e \in Envelopes : e \in sent
        <5>1. sent \subseteq Envelopes /\ sent # {}
          BY <4>1
        <5>2. \E e \in Envelopes : e \in sent
          BY <5>1
        <5> QED
          BY <5>2
      <4>3. PICK n : n = [pid |-> q, raw |-> s, env |-> e] /\ n \in notes'
        BY <4>1, <4>2
      <4>4. n \in Note /\ n.pid = p /\ n.raw = s /\ mp'[p] = s /\ s \notin seen[p]
        BY <2>3, <3>2, <4>3 DEF Note, MpChanges, IInv, TypeOK
      <4>5. KeyOf(n) \notin keys
        BY <4>4, KeyTells DEF Past
      <4>6. \A h \in Requests : req[h].pc # "idle" => req[h].note # n
        BY <4>4 DEF Past
      <4> QED
        BY <1>1, <4>3, <4>4, <4>5, <4>6 DEF Uncollected
    <3> QED
      BY <3>1, <3>2
  <2> QED
    BY <2>1, <2>2, <2>3 DEF KeyExpires, vars
<1> QED
  BY <1>1, <1>2, <1>3, CollectedStays

LEMMA CollectedReserve ==
  ASSUME KeyTellsStatus, IInv, Past, Collected, Serial',
         NEW h \in Requests, NEW n \in Note, Reserve(h, n)
  PROVE  Collected'
<1>1. /\ InFlight = {} /\ UNCHANGED <<mp, pay, notes>> /\ n \in notes
      /\ keys' = keys \cup ({KeyOf(n)} \ {Clock})
  BY DEF Reserve, Processed, Serial, mpVars
<1>2. /\ req'[h].note = n /\ \A g \in Requests \ {h} : req'[g] = req[g]
      /\ req'[h].pc = IF Reconcilable(n) THEN "get" ELSE "reply"
  BY Taken
<1>3. \A g \in Requests : ~ Fetching(g)
  BY <1>1 DEF InFlight, Fetching
<1>4. ASSUME NEW p \in Payments, mp[p] \in RawStatus, Uncollected(p)
      PROVE  Uncollected(p)' \/ (Fetching(h) /\ Pid(h) = p)'
  <2>1. PICK m \in notes : /\ m.pid = p /\ m.raw = mp[p] /\ KeyOf(m) \notin keys
                           /\ \A g \in Requests : req[g].pc # "idle" => req[g].note # m
    BY <1>4 DEF Uncollected
  <2>2. m \in Note
    BY DEF IInv, TypeOK
  <2>3. CASE n.pid = p
    <3>1. Reconcilable(n)
      BY <1>4, <2>3, KeyTells, LinkedIsNone DEF Past, Reconcilable
    <3> QED
      BY <1>2, <2>3, <3>1 DEF Fetching, Pid
  <2>4. CASE n.pid # p
    <3>1. m # n /\ KeyOf(m) \notin keys'
      BY <1>1, <2>1, <2>2, <2>4, KeyTells
    <3>2. \A g \in Requests : req'[g].pc # "idle" => req'[g].note # m
      BY <1>2, <2>1, <3>1
    <3> QED
      BY <1>1, <2>1, <3>1, <3>2 DEF Uncollected
  <2> QED
    BY <2>3, <2>4
<1>5. ASSUME NEW p \in Payments PROVE CollectedAt(p)'
  <2>1. mp[p] \in RawStatus => Recorded(p) \/ Uncollected(p)
    BY <1>3 DEF Collected, CollectedAt
  <2>2. Recorded(p) => Recorded(p)'
    BY <1>1 DEF Recorded
  <2> QED
    BY <1>1, <1>4, <2>1, <2>2 DEF CollectedAt
<1>6. ASSUME NEW g \in Requests PROVE RawIsCurrent(g)'
  BY <1>2, <1>3 DEF RawIsCurrent, Fetching
<1> QED
  BY <1>5, <1>6 DEF Collected

LEMMA CollectedDeduplicate ==
  ASSUME Collected, IInv, NEW h \in Requests, NEW n \in Note, Deduplicate(h, n)
  PROVE  Collected'
<1>1. /\ UNCHANGED <<mp, pay, notes, keys>> /\ KeyOf(n) \in keys /\ req[h].pc = "idle"
      /\ req'[h].note = n /\ \A g \in Requests \ {h} : req'[g] = req[g]
      /\ req'[h].pc = "reply"
  BY Taken DEF Deduplicate, mpVars
<1>2. ASSUME NEW p, Uncollected(p) PROVE Uncollected(p)'
  <2>1. PICK m \in notes : /\ m.pid = p /\ m.raw = mp[p] /\ KeyOf(m) \notin keys
                           /\ \A g \in Requests : req[g].pc # "idle" => req[g].note # m
    BY <1>2 DEF Uncollected
  <2>2. \A g \in Requests : req'[g].pc # "idle" => req'[g].note # m
    BY <1>1, <2>1
  <2> QED
    BY <1>1, <2>1, <2>2 DEF Uncollected
<1>3. ASSUME NEW p \in Payments PROVE CollectedAt(p)'
  <2>1. CollectedAt(p) /\ (Recorded(p) => Recorded(p)')
    BY <1>1 DEF Collected, Recorded
  <2>2. ASSUME NEW g \in Requests, Fetching(g), Pid(g) = p PROVE (Fetching(g) /\ Pid(g) = p)'
    BY <1>1, <2>2 DEF Fetching, Pid
  <2> QED
    BY <1>1, <1>2, <2>1, <2>2 DEF CollectedAt
<1>4. ASSUME NEW g \in Requests PROVE RawIsCurrent(g)'
  <2>1. CASE g = h
    BY <1>1, <2>1 DEF RawIsCurrent
  <2>2. CASE g # h
    <3>1. RawIsCurrent(g) /\ req'[g] = req[g]
      BY <1>1, <2>2 DEF Collected
    <3>2. PICK p : p = Pid(g) /\ p = Pid(g)'
      BY <3>1 DEF Pid
    <3>3. req[g].pc \in {"find", "save"} => req[g].raw = mp[p] \/ Uncollected(p)
      BY <3>1, <3>2 DEF RawIsCurrent
    <3> QED
      BY <1>1, <1>2, <3>1, <3>2, <3>3 DEF RawIsCurrent
  <2> QED
    BY <2>1, <2>2
<1> QED
  BY <1>3, <1>4 DEF Collected

\* A step of request h: what it fetched is current, or will be fetched again.
LEMMA CollectedMove ==
  ASSUME Collected, NEW h \in Requests, \A g \in Requests \ {h} : req'[g] = req[g],
         UNCHANGED <<mp, keys>>, req[h].pc # "idle",
         notes' = notes \/ notes' = notes \ {req[h].note},
         req'[h].pc # "idle" => req'[h].note = req[h].note,
         NEW p \in Payments, p = Pid(h),
         \A q \in Payments \ {p} : pay'[q] = pay[q],
         Recorded(p) => Recorded(p)' \/ Uncollected(p),
         Fetching(h) => Fetching(h)' \/ Recorded(p)' \/ Uncollected(p),
         req'[h].pc \in {"find", "save"} => req'[h].raw = mp[p] \/ Uncollected(p)
  PROVE  Collected'
<1>1. ASSUME NEW q, Uncollected(q) PROVE Uncollected(q)'
  BY <1>1, UncollectedStays
<1>2. ASSUME NEW q \in Payments PROVE CollectedAt(q)'
  <2>1. CollectedAt(q) /\ (Recorded(q) => Recorded(q)' \/ Uncollected(q))
    BY DEF Collected, Recorded
  <2>2. ASSUME NEW g \in Requests, Fetching(g), Pid(g) = q
        PROVE  (Fetching(g) /\ Pid(g) = q)' \/ Recorded(q)' \/ Uncollected(q)
    <3>1. CASE g = h
      <4>1. Fetching(h)' => Pid(h)' = p
        BY DEF Fetching, Pid
      <4> QED
        BY <2>2, <3>1, <4>1
    <3>2. CASE g # h
      BY <2>2, <3>2 DEF Fetching, Pid
    <3> QED
      BY <3>1, <3>2
  <2> QED
    BY <1>1, <2>1, <2>2 DEF CollectedAt
<1>3. ASSUME NEW g \in Requests PROVE RawIsCurrent(g)'
  <2>1. CASE g = h
    <3>1. req'[h].pc \in {"find", "save"} => Pid(h)' = p
      BY DEF Pid
    <3> QED
      BY <1>1, <2>1, <3>1 DEF RawIsCurrent
  <2>2. CASE g # h
    <3>1. RawIsCurrent(g) /\ req'[g] = req[g]
      BY <2>2 DEF Collected
    <3>2. PICK q : q = Pid(g) /\ q = Pid(g)'
      BY <3>1 DEF Pid
    <3>3. req[g].pc \in {"find", "save"} => req[g].raw = mp[q] \/ Uncollected(q)
      BY <3>1, <3>2 DEF RawIsCurrent
    <3> QED
      BY <1>1, <3>1, <3>2, <3>3 DEF RawIsCurrent
  <2> QED
    BY <2>1, <2>2
<1> QED
  BY <1>2, <1>3 DEF Collected

LEMMA CollectedContinue ==
  ASSUME IInv, Single, Collected, NEW h \in Requests, Continue(h)
  PROVE  Collected'
<1>1. \A g \in Requests \ {h} : req'[g] = req[g]
  BY Others
<1>2. req[h].pc # "idle" /\ UNCHANGED <<mp, keys>>
  BY DEF Continue, getPayment, findExisting, savePayment, duplicateInsert, mpVars,
         notifyPaymentApproved, readDebts, readPayments, closeIfZero, reopenIfPositive, reply
<1>3. PICK p \in Payments : p = Pid(h)
  BY <1>2, Running
<1>4. RawIsCurrent(h)
  BY DEF Collected
<1>5. CASE getPayment(h)
  <2>1. UNCHANGED <<pay, notes>>
    BY <1>5 DEF getPayment
  <2>2. Recorded(p) => Recorded(p)'
    BY <1>2, <2>1 DEF Recorded
  <2> QED
    BY <1>1, <1>2, <1>3, <1>5, <2>1, <2>2, FetchMoves, CollectedMove DEF Fetching
<1>6. CASE findExisting(h)
  <2>1. UNCHANGED <<pay, notes>> /\ req[h].pc = "find"
    BY <1>6 DEF findExisting
  <2>2. Recorded(p) => Recorded(p)'
    BY <1>2, <2>1 DEF Recorded
  <2>3. req[h].raw = mp[p] \/ Uncollected(p)
    BY <1>3, <1>4, <2>1 DEF RawIsCurrent
  <2> QED
    BY <1>1, <1>2, <1>3, <1>6, <2>1, <2>2, <2>3, FetchMoves, CollectedMove DEF Fetching
<1>7. CASE savePayment(h)
  <2>1. req[h].pc = "save" /\ notes' = notes /\ pay' = [pay EXCEPT ![p] = Entity(req[h])]
    BY <1>3, <1>7 DEF savePayment
  <2>2. req[h].raw = mp[p] \/ Uncollected(p)
    BY <1>3, <1>4, <2>1 DEF RawIsCurrent
  <2>3. Entity(req[h]) \in Row /\ Entity(req[h]) # None
    <3>1. req[h].raw \in RawStatus /\ req[h].existing \in Row \cup {None}
      BY <1>2, <1>3, <2>1, Running DEF Sound, Pid, IInv, TypeOK, Request
    <3> QED
      BY <3>1, EntityType, NoneAssumption DEF Row
  <2>4. pay'[p] = Entity(req[h]) /\ \A q \in Payments \ {p} : pay'[q] = pay[q]
    BY <2>1 DEF IInv, TypeOK
  <2>5. Recorded(p)' \/ Uncollected(p)
    <3>1. Entity(req[h]).status = mapMpStatus(req[h].raw)
      BY DEF Entity
    <3> QED
      BY <1>2, <2>2, <2>3, <2>4, <3>1 DEF Recorded
  <2>6. req'[h].note = req[h].note /\ req'[h].pc \notin {"find", "save"}
    BY <1>7, FetchMoves
  <2> QED
    BY <1>1, <1>2, <1>3, <2>1, <2>4, <2>5, <2>6, CollectedMove
<1>8. ~ duplicateInsert(h)
  BY DEF duplicateInsert, Single
<1>9. CASE \/ notifyPaymentApproved(h) \/ readDebts(h) \/ readPayments(h)
           \/ closeIfZero(h) \/ reopenIfPositive(h)
  <2>1. UNCHANGED <<pay, notes>> /\ ~ Fetching(h)
    BY <1>9 DEF notifyPaymentApproved, readDebts, readPayments, closeIfZero, reopenIfPositive, Fetching
  <2>2. req'[h].note = req[h].note /\ req'[h].pc \notin {"find", "save"}
    BY <1>9, <2>1, HooksMove DEF Fetching
  <2>3. Recorded(p) => Recorded(p)'
    BY <1>2, <2>1 DEF Recorded
  <2> QED
    BY <1>1, <1>2, <1>3, <2>1, <2>2, <2>3, CollectedMove
<1>10. CASE reply(h)
  <2>1. UNCHANGED pay /\ notes' = notes \ {req[h].note} /\ ~ Fetching(h) /\ req'[h].pc = "idle"
    BY <1>10 DEF reply, Fetching, Idle, IInv, TypeOK
  <2>2. Recorded(p) => Recorded(p)'
    BY <1>2, <2>1 DEF Recorded
  <2> QED
    BY <1>1, <1>2, <1>3, <2>1, <2>2, CollectedMove
<1> QED
  BY <1>5, <1>6, <1>7, <1>8, <1>9, <1>10 DEF Continue

\* Mercado Pago and the table agree once every notification is answered, if the key
\* of a notification tells its status and no status comes back.
THEOREM RecordedWhenQuiet ==
  ASSUME KeyTellsStatus, NoReturn
  PROVE  Spec => []QuietIsRecorded
<1> PICK rank \in [RawStatus \cup {"linked"} -> Nat] : Ranks(rank)
  BY DEF NoReturn
<1> DEFINE Inv == Ranked(rank) /\ Past /\ (Serial => Single /\ Collected)
<1>1. Init => Inv
  BY LinkedIsNone DEF Init, Ranked, Past, Single, InFlight, Idle, Collected, CollectedAt, RawIsCurrent
<1>2. IInv /\ IInv' /\ Inv /\ [Next]_vars => Inv'
  <2> SUFFICES ASSUME IInv, IInv', Inv, [Next]_vars PROVE Inv'
    OBVIOUS
  <2>1. /\ Ranked(rank)' /\ Past'
        /\ \A p \in Payments, s \in RawStatus : MpChanges(p, s) => s \notin seen[p]
    BY RankedStep, PastStep
  <2>2. ASSUME Serial' PROVE Single' /\ Collected'
    <3>1. Serial /\ SerialNext
      BY <2>2, SerialStep
    <3>2. Single'
      BY <2>2, <3>1, SingleStays
    <3>3. Collected'
      BY <2>1, <2>2, <3>1, CollectedWorld, CollectedReserve, CollectedDeduplicate, CollectedContinue
         DEF SerialNext, Deliver
    <3> QED
      BY <3>2, <3>3
  <2> QED
    BY <2>1, <2>2
<1>3. IInv /\ Inv => QuietIsRecorded
  BY DEF QuietIsRecorded, Quiet, Collected, CollectedAt, Uncollected, Fetching
<1> QED
  BY <1>1, <1>2, <1>3, Invariance, PTL DEF Spec
-----------------------------------------------------------------------------
(* The status of a case agrees with the table. *)

\* An approval lasts until a refund.
Lasting ==
    \A p \in Payments :
        WasApproved(p) /\ "refunded" \notin seen[p] => mp[p] \in ApprovedStatus

Hooking(h) == req[h].pc \in {"notify", "close", "reopen"}

\* No request takes an approval back that was not refunded.
RawStands(h) ==
    req[h].pc \in {"find", "save"} =>
        LET p == Pid(h) IN
        pay[p] # None /\ pay[p].status \in Counted /\ "refunded" \notin seen[p] =>
            req[h].raw \in ApprovedStatus

\* What the hooks have read is so still, and the first of them closed the case.
HookReads(h) ==
    Hooking(h) =>
        LET c == CaseOf[Pid(h)] IN
        /\ req[h].debt # None => req[h].debt = sumDebts(owed[c])
        /\ req[h].paid # None => req[h].paid = sumApprovedPayments(c)
        /\ req[h].pc = "reopen" /\ BalanceIsZero(c) => kase[c].status = "PAID"

\* A case that no hook is busy with has the status that the table gives it.
CaseStands(c) ==
    /\ Unrefunded(c) /\ sumApprovedPayments(c) # {}
    /\ \A h \in Requests : Hooking(h) => CaseOf[Pid(h)] # c
    => (kase[c].status = "PAID" <=> BalanceIsZero(c))

Settles ==
    /\ \A h \in Requests : RawStands(h) /\ HookReads(h)
    /\ \A c \in Cases : CaseStands(c)

LEMMA LastingStep ==
  ASSUME FinalApproval, IInv, Lasting, [Next]_vars
  PROVE  Lasting'
<1>1. ASSUME NEW p \in Payments, NEW s \in RawStatus, MpChanges(p, s) PROVE Lasting'
  <2>1. /\ <<mp[p], s>> \in MpMoves /\ mp' = [mp EXCEPT ![p] = s]
        /\ seen' = [seen EXCEPT ![p] = @ \cup {s}]
    BY <1>1 DEF MpChanges
  <2>2. /\ mp'[p] = s /\ seen'[p] = seen[p] \cup {s}
        /\ \A q \in Payments \ {p} : mp'[q] = mp[q] /\ seen'[q] = seen[q]
    BY <2>1 DEF IInv, TypeOK
  <2>3. mp[p] \in ApprovedStatus => s \in ApprovedStatus \cup {"refunded"}
    BY <2>1 DEF FinalApproval
  <2>4. ASSUME WasApproved(p)', "refunded" \notin seen'[p] PROVE s \in ApprovedStatus
    <3>1. WasApproved(p) \/ s \in ApprovedStatus
      BY <2>2, <2>4 DEF WasApproved, ApprovedStatus
    <3> QED
      BY <2>2, <2>3, <2>4, <3>1 DEF Lasting
  <2>5. \A q \in Payments \ {p} : WasApproved(q)' => WasApproved(q)
    BY <2>2 DEF WasApproved
  <2> QED
    BY <2>2, <2>4, <2>5 DEF Lasting
<1>2. ASSUME NEW p \in Payments, createPaymentLink(p) PROVE Lasting'
  <2>1. mp[p] = "absent" /\ mp' = [mp EXCEPT ![p] = "linked"] /\ seen' = seen
    BY <1>2 DEF createPaymentLink
  <2>2. ~ (WasApproved(p) /\ "refunded" \notin seen[p])
    BY <2>1 DEF Lasting, ApprovedStatus
  <2> QED
    BY <2>1, <2>2 DEF Lasting, WasApproved, IInv, TypeOK
<1>3. ASSUME UNCHANGED mpVars PROVE Lasting'
  BY <1>3 DEF Lasting, WasApproved, mpVars
<1>4. ASSUME NEW h \in Requests, Continue(h) PROVE UNCHANGED mpVars
  BY <1>4 DEF Continue, getPayment, findExisting, savePayment, duplicateInsert,
          notifyPaymentApproved, readDebts, readPayments, closeIfZero, reopenIfPositive, reply
<1>5. CASE Environment
  BY <1>1, <1>2, <1>3, <1>5 DEF Environment, KeyExpires, DebtImported, setStatus
<1> QED
  BY <1>1, <1>3, <1>4, <1>5 DEF Next, Deliver, Reserve, Deduplicate, RequestFails, HookFails, Fault,
                               Restart, vars

\* A payment that counts and was not refunded is approved now.
LEMMA CountedLasts ==
  ASSUME IInv, Lasting, NEW p \in Payments, pay[p] # None, pay[p].status \in Counted,
         "refunded" \notin seen[p]
  PROVE  mp[p] \in ApprovedStatus
<1>1. PICK s \in seen[p] : pay[p].status = mapMpStatus(s)
  BY DEF IInv, RecordedWasReported
<1>2. s \in RawStatus
  BY DEF IInv, TypeOK
<1> QED
  BY <1>1, <1>2, MapApproved DEF Lasting, WasApproved

\* A step that leaves the tables alone, and every request that is at the hooks.
LEMMA SettlesStay ==
  ASSUME IInv, Settles, UNCHANGED <<pay, kase, owed>>,
         \A p \in Payments : seen[p] \subseteq seen'[p],
         \A g \in Requests : \/ req'[g] = req[g]
                             \/ ~ Hooking(g) /\ ~ Hooking(g)' /\ RawStands(g)'
  PROVE  Settles'
<1>1. \A c \in Cases : /\ sumApprovedPayments(c)' = sumApprovedPayments(c)
                       /\ BalanceIsZero(c)' <=> BalanceIsZero(c)
  BY DEF sumApprovedPayments, BalanceIsZero
<1>2. \A c \in Cases : Unrefunded(c)' => Unrefunded(c)
  BY DEF Unrefunded, PaymentsOf
<1>3. ASSUME NEW g \in Requests, req'[g] = req[g]
      PROVE  RawStands(g)' /\ HookReads(g)' /\ (Hooking(g)' <=> Hooking(g)) /\ Pid(g)' = Pid(g)
  <2>1. (Hooking(g)' <=> Hooking(g)) /\ Pid(g)' = Pid(g)
    BY <1>3 DEF Hooking, Pid
  <2>2. RawStands(g)'
    <3>1. req[g].pc \in {"find", "save"} => Pid(g) \in Payments
      BY Running
    <3> QED
      BY <1>3, <2>1, <3>1 DEF Settles, RawStands
  <2>3. HookReads(g)'
    <3>1. ASSUME Hooking(g) PROVE CaseOf[Pid(g)] \in Cases
      BY <3>1, Running DEF Hooking
    <3>2. HookReads(g)
      BY DEF Settles
    <3> QED
      BY <1>1, <1>3, <2>1, <3>1, <3>2 DEF HookReads
  <2> QED
    BY <2>1, <2>2, <2>3
<1>4. ASSUME NEW g \in Requests, ~ Hooking(g)' PROVE HookReads(g)'
  BY <1>4 DEF HookReads
<1>5. \A g \in Requests : Hooking(g) => Hooking(g)' /\ Pid(g)' = Pid(g)
  BY <1>3
<1>6. ASSUME NEW c \in Cases PROVE CaseStands(c)'
  BY <1>1, <1>2, <1>5 DEF Settles, CaseStands
<1> QED
  BY <1>3, <1>4, <1>6 DEF Settles

\* While a request is at work no other is at the hooks or about to save.
LEMMA Alone ==
  ASSUME Single, NEW h \in InFlight, \A g \in Requests \ {h} : req'[g] = req[g]
  PROVE  \A g \in Requests \ {h} :
             ~ Hooking(g) /\ ~ Hooking(g)' /\ RawStands(g)' /\ HookReads(g)'
<1> SUFFICES ASSUME NEW g \in Requests \ {h}
             PROVE  ~ Hooking(g) /\ ~ Hooking(g)' /\ RawStands(g)' /\ HookReads(g)'
  OBVIOUS
<1>1. req[g].pc \in {"idle", "reply"} /\ req'[g] = req[g]
  BY DEF Single, InFlight
<1>2. ~ Hooking(g) /\ ~ Hooking(g)'
  BY <1>1 DEF Hooking
<1>3. RawStands(g)'
  BY <1>1 DEF RawStands
<1> QED
  BY <1>2, <1>3 DEF HookReads

\* A payment that changes what the payments of its case come to runs the hooks.
LEMMA SettlesSave ==
  ASSUME IInv, Single, Settles, NEW h \in Requests, savePayment(h)
  PROVE  Settles'
<1>1. /\ req[h].pc = "save" /\ \A g \in Requests \ {h} : req'[g] = req[g]
      /\ h \in InFlight /\ UNCHANGED <<kase, owed, seen>>
  BY DEF savePayment, InFlight, IInv, TypeOK, caseVars, debtVars, mpVars
<1>2. PICK p \in Payments : p = Pid(h)
  BY <1>1, Running
<1>3. /\ req[h].raw \in RawStatus /\ req[h].existing \in Row \cup {None}
      /\ req[h].debt = None /\ req[h].paid = None
  BY <1>1, Running DEF Sound, Pid, IInv, TypeOK, Request
<1>4. /\ pay'[p] # None /\ pay'[p].status = mapMpStatus(req[h].raw)
      /\ \A q \in Payments \ {p} : pay'[q] = pay[q]
  <2>1. Entity(req[h]) # None /\ Entity(req[h]).status = mapMpStatus(req[h].raw)
    BY <1>3, EntityType, NoneAssumption DEF Entity, Row
  <2> QED
    BY <1>2, <2>1 DEF savePayment, IInv, TypeOK
<1>5. RawStands(h)
  BY DEF Settles
<1>6. \A g \in Requests \ {h} : ~ Hooking(g) /\ ~ Hooking(g)' /\ RawStands(g)' /\ HookReads(g)'
  BY <1>1, Alone
<1>7. /\ req'[h].pc = IF RunsHooks(req[h]) THEN "notify" ELSE "reply"
      /\ req'[h].note = req[h].note /\ req'[h].debt = None /\ req'[h].paid = None
  BY <1>3, FetchMoves
<1>8. RawStands(h)' /\ HookReads(h)' /\ ~ Hooking(h)
  BY <1>1, <1>7 DEF RawStands, HookReads, Hooking
<1>9. ASSUME NEW c \in Cases PROVE CaseStands(c)'
  <2> SUFFICES ASSUME Unrefunded(c)', sumApprovedPayments(c)' # {},
                      \A g \in Requests : Hooking(g)' => (CaseOf[Pid(g)] # c)'
               PROVE  (kase[c].status = "PAID" <=> BalanceIsZero(c))'
    BY DEF CaseStands
  <2>1. Unrefunded(c) /\ \A g \in Requests : ~ Hooking(g)
    BY <1>1, <1>6, <1>8 DEF Unrefunded
  <2>2. ASSUME p \in PaymentsOf(c)
        PROVE  /\ mapMpStatus(req[h].raw) \notin Counted
               /\ ~ (pay[p] # None /\ pay[p].status \in Counted)
    <3>1. CaseOf[p] = c /\ c # NoCase
      BY <2>2, NoCaseAssumption DEF PaymentsOf
    <3>2. ~ RunsHooks(req[h])
      <4>1. SUFFICES ASSUME RunsHooks(req[h]) PROVE FALSE
        OBVIOUS
      <4>2. Hooking(h)' /\ Pid(h)' = p
        BY <1>2, <1>7, <4>1 DEF Hooking, Pid
      <4> QED
        BY <3>1, <4>2
    <3>3. mapMpStatus(req[h].raw) \notin HookStatus
      BY <1>2, <3>1, <3>2 DEF RunsHooks, Pid
    <3>4. mapMpStatus(req[h].raw) \notin Counted /\ req[h].raw \notin ApprovedStatus
      BY <1>3, <3>3, MapApproved DEF Counted, HookStatus, ApprovedStatus, RawStatus, mapMpStatus
    <3>5. "refunded" \notin seen[p]
      BY <2>1, <2>2 DEF Unrefunded
    <3> QED
      BY <1>1, <1>2, <1>5, <3>4, <3>5 DEF RawStands
  <2>3. sumApprovedPayments(c)' = sumApprovedPayments(c)
    <3>1. ASSUME NEW q \in PaymentsOf(c)
          PROVE  (pay[q] # None /\ pay[q].status \in Counted)' <=> pay[q] # None /\ pay[q].status \in Counted
      <4>1. CASE q = p
        BY <1>4, <2>2, <3>1, <4>1
      <4>2. CASE q # p
        BY <1>4, <3>1, <4>2 DEF PaymentsOf
      <4> QED
        BY <4>1, <4>2
    <3> QED
      BY <3>1 DEF sumApprovedPayments
  <2>4. (BalanceIsZero(c)' <=> BalanceIsZero(c)) /\ kase'[c] = kase[c]
    BY <1>1, <2>3 DEF BalanceIsZero
  <2>5. CaseStands(c)
    BY DEF Settles
  <2> QED
    BY <2>1, <2>3, <2>4, <2>5 DEF CaseStands
<1> QED
  BY <1>6, <1>8, <1>9 DEF Settles

\* A step at the hooks disturbs the case of the request only, and when the
\* hooks are through the case has the status it should have.
LEMMA SettlesHook ==
  ASSUME IInv, Single, Settles, NEW h \in Requests, Hooking(h),
         \A g \in Requests \ {h} : req'[g] = req[g],
         UNCHANGED <<pay, owed, seen>>,
         req'[h].note = req[h].note, req'[h].pc \notin {"find", "save"},
         NEW c \in Cases, c = CaseOf[Pid(h)],
         \A e \in Cases \ {c} : kase'[e] = kase[e],
         Hooking(h)' =>
             /\ req'[h].debt # None => req'[h].debt = sumDebts(owed[c])
             /\ req'[h].paid # None => req'[h].paid = sumApprovedPayments(c)
             /\ req'[h].pc = "reopen" /\ BalanceIsZero(c) => kase'[c].status = "PAID",
         ~ Hooking(h)' => (kase'[c].status = "PAID" <=> BalanceIsZero(c))
  PROVE  Settles'
<1>1. h \in InFlight
  BY DEF Hooking, InFlight
<1>2. \A g \in Requests \ {h} : ~ Hooking(g) /\ ~ Hooking(g)' /\ RawStands(g)' /\ HookReads(g)'
  BY <1>1, Alone
<1>3. \A e \in Cases : /\ sumApprovedPayments(e)' = sumApprovedPayments(e)
                       /\ BalanceIsZero(e)' <=> BalanceIsZero(e)
                       /\ Unrefunded(e)' <=> Unrefunded(e)
  BY DEF sumApprovedPayments, BalanceIsZero, Unrefunded
<1>4. (CaseOf[Pid(h)])' = c
  BY DEF Pid
<1>5. RawStands(h)'
  BY DEF RawStands
<1>6. HookReads(h)'
  BY <1>3, <1>4 DEF HookReads
<1>7. ASSUME NEW e \in Cases PROVE CaseStands(e)'
  <2>1. CASE e = c
    BY <1>3, <1>4, <2>1 DEF CaseStands
  <2>2. CASE e # c
    <3>1. \A g \in Requests : Hooking(g) => CaseOf[Pid(g)] # e
      BY <1>2, <2>2
    <3>2. CaseStands(e) /\ kase'[e] = kase[e]
      BY <2>2 DEF Settles
    <3> QED
      BY <1>3, <3>1, <3>2 DEF CaseStands
  <2> QED
    BY <2>1, <2>2
<1> QED
  BY <1>2, <1>5, <1>6, <1>7 DEF Settles

LEMMA SettlesHooks ==
  ASSUME IInv, Single, Settles, NEW h \in Requests,
         \/ notifyPaymentApproved(h) \/ readDebts(h) \/ readPayments(h)
         \/ closeIfZero(h) \/ reopenIfPositive(h)
  PROVE  Settles'
<1>1. Hooking(h) /\ UNCHANGED <<pay, owed, seen>>
  BY DEF Hooking, notifyPaymentApproved, readDebts, readPayments, closeIfZero, reopenIfPositive,
         debtVars, mpVars
<1>2. \A g \in Requests \ {h} : req'[g] = req[g]
  BY Others DEF Continue
<1>3. PICK c \in Cases : c = CaseOf[Pid(h)]
  BY <1>1, Running DEF Hooking
<1>4. /\ req[h].debt # None => req[h].debt = sumDebts(owed[c])
      /\ req[h].paid # None => req[h].paid = sumApprovedPayments(c)
      /\ req[h].pc = "reopen" /\ BalanceIsZero(c) => kase[c].status = "PAID"
  BY <1>1, <1>3 DEF Settles, HookReads
<1>5. kase \in [Cases -> [status : CaseStatus, closed : BOOLEAN]]
  BY DEF IInv, TypeOK
<1>6. CASE notifyPaymentApproved(h)
  <2>1. UNCHANGED kase
    BY <1>6 DEF notifyPaymentApproved, caseVars
  <2> QED
    BY <1>1, <1>2, <1>3, <1>4, <1>6, <2>1, HooksMove, SettlesHook DEF Hooking
<1>7. CASE readDebts(h)
  <2>1. UNCHANGED kase
    BY <1>7 DEF readDebts, caseVars
  <2> QED
    BY <1>1, <1>2, <1>3, <1>4, <1>7, <2>1, HooksMove, SettlesHook DEF Hooking
<1>8. CASE readPayments(h)
  <2>1. UNCHANGED kase
    BY <1>8 DEF readPayments, caseVars
  <2> QED
    BY <1>1, <1>2, <1>3, <1>4, <1>8, <2>1, HooksMove, SettlesHook DEF Hooking
<1>9. CASE closeIfZero(h)
  <2>1. IsZero(req[h].debt, req[h].paid) <=> BalanceIsZero(c)
    BY <1>4, <1>9 DEF closeIfZero, BalanceRead, BalanceIsZero
  <2>2. kase' = IF BalanceIsZero(c) /\ kase[c].status # "PAID"
                THEN [kase EXCEPT ![c] = [status |-> "PAID", closed |-> TRUE]] ELSE kase
    BY <1>3, <1>9, <2>1 DEF closeIfZero
  <2>3. /\ BalanceIsZero(c) => kase'[c].status = "PAID"
        /\ \A e \in Cases \ {c} : kase'[e] = kase[e]
    BY <1>5, <2>2
  <2> QED
    BY <1>1, <1>2, <1>3, <1>9, <2>3, HooksMove, SettlesHook DEF Hooking
<1>10. CASE reopenIfPositive(h)
  <2>1. IsZero(req[h].debt, req[h].paid) <=> BalanceIsZero(c)
    BY <1>4, <1>10 DEF reopenIfPositive, BalanceRead, BalanceIsZero
  <2>2. /\ req[h].pc = "reopen"
        /\ kase' = IF ~ BalanceIsZero(c) /\ kase[c].status = "PAID"
                   THEN [kase EXCEPT ![c].status = "OPEN"] ELSE kase
    BY <1>3, <1>10, <2>1 DEF reopenIfPositive
  <2>3. /\ kase'[c].status = "PAID" <=> BalanceIsZero(c)
        /\ \A e \in Cases \ {c} : kase'[e] = kase[e]
    BY <1>4, <1>5, <2>2
  <2> QED
    BY <1>1, <1>2, <1>3, <1>10, <2>3, HooksMove, SettlesHook DEF Hooking
<1> QED
  BY <1>6, <1>7, <1>8, <1>9, <1>10

LEMMA SettlesContinue ==
  ASSUME IInv, Lasting, Single, Settles, NEW h \in Requests, Continue(h)
  PROVE  Settles'
<1>1. \A g \in Requests \ {h} : req'[g] = req[g]
  BY Others
<1>2. CASE getPayment(h)
  <2>1. UNCHANGED <<pay, kase, owed, seen>> /\ ~ Hooking(h) /\ req[h].pc # "idle"
    BY <1>2 DEF getPayment, caseVars, debtVars, mpVars, Hooking
  <2>2. req'[h].pc = "find" /\ req'[h].note = req[h].note /\ req'[h].raw = mp[Pid(h)]
    BY <1>2, FetchMoves
  <2>3. PICK p \in Payments : p = Pid(h) /\ p = Pid(h)'
    BY <2>1, <2>2, Running DEF Pid
  <2>4. RawStands(h)' /\ ~ Hooking(h)'
    BY <2>1, <2>2, <2>3, CountedLasts DEF RawStands, Hooking
  <2> QED
    BY <1>1, <2>1, <2>4, SettlesStay
<1>3. CASE findExisting(h)
  <2>1. UNCHANGED <<pay, kase, owed, seen>> /\ ~ Hooking(h) /\ req[h].pc = "find"
    BY <1>3 DEF findExisting, caseVars, debtVars, mpVars, Hooking
  <2>2. req'[h].pc = "save" /\ req'[h].note = req[h].note /\ req'[h].raw = req[h].raw
    BY <1>3, FetchMoves
  <2>3. RawStands(h)
    BY DEF Settles
  <2>4. RawStands(h)' /\ ~ Hooking(h)'
    BY <2>1, <2>2, <2>3 DEF RawStands, Hooking, Pid
  <2> QED
    BY <1>1, <2>1, <2>4, SettlesStay
<1>4. ~ duplicateInsert(h)
  BY DEF duplicateInsert, Single
<1>5. CASE reply(h)
  <2>1. UNCHANGED <<pay, kase, owed, seen>> /\ ~ Hooking(h) /\ req'[h].pc = "idle"
    BY <1>5 DEF reply, caseVars, debtVars, mpVars, Hooking, Idle, IInv, TypeOK
  <2>2. RawStands(h)' /\ ~ Hooking(h)'
    BY <2>1 DEF RawStands, Hooking
  <2> QED
    BY <1>1, <2>1, <2>2, SettlesStay
<1> QED
  BY <1>2, <1>3, <1>4, <1>5, SettlesSave, SettlesHooks DEF Continue

LEMMA SettlesTaken ==
  ASSUME IInv, Settles, NEW h \in Requests, NEW n \in Note, Reserve(h, n) \/ Deduplicate(h, n)
  PROVE  Settles'
<1>1. UNCHANGED <<pay, kase, owed, seen>>
  BY DEF Reserve, Deduplicate, caseVars, debtVars, mpVars
<1>2. /\ req[h].pc = "idle" /\ req'[h].pc \in {"get", "reply"}
      /\ \A g \in Requests \ {h} : req'[g] = req[g]
  BY Taken
<1>3. ~ Hooking(h) /\ ~ Hooking(h)' /\ RawStands(h)'
  BY <1>2 DEF Hooking, RawStands
<1> QED
  BY <1>1, <1>2, <1>3, SettlesStay

LEMMA SettlesWorld ==
  ASSUME IInv, Settles, UNCHANGED <<pay, kase, owed, req>>,
         \A p \in Payments : seen[p] \subseteq seen'[p]
  PROVE  Settles'
  BY SettlesStay

\* Once every notification is answered a case is PAID exactly if the payments the
\* table counts cover its debt, if Mercado Pago takes back an approval by a refund only.
THEOREM ClosedWhenQuiet ==
  ASSUME FinalApproval
  PROVE  Spec => []QuietIsClosed
<1> DEFINE Inv == Lasting /\ (Serial => Single /\ Settles)
<1>1. Init => Inv
  <2> SUFFICES ASSUME Init PROVE Inv
    OBVIOUS
  <2>1. Lasting
    BY DEF Init, Lasting, WasApproved
  <2>2. Single
    BY DEF Init, Single, InFlight, Idle
  <2>3. \A h \in Requests : RawStands(h) /\ HookReads(h)
    BY DEF Init, RawStands, HookReads, Hooking, Idle
  <2>4. \A c \in Cases : sumApprovedPayments(c) = {}
    BY DEF Init, sumApprovedPayments, PaymentsOf
  <2> QED
    BY <2>1, <2>2, <2>3, <2>4 DEF Settles, CaseStands
<1>2. IInv /\ IInv' /\ Inv /\ [Next]_vars => Inv'
  <2> SUFFICES ASSUME IInv, IInv', Inv, [Next]_vars PROVE Inv'
    OBVIOUS
  <2>1. Lasting'
    BY LastingStep
  <2>2. ASSUME Serial' PROVE Single' /\ Settles'
    <3>1. Serial /\ SerialNext
      BY <2>2, SerialStep
    <3>2. Single'
      BY <2>2, <3>1, SingleStays
    <3>3. ASSUME NEW p \in Payments, createPaymentLink(p) \/ \E s \in RawStatus : MpChanges(p, s)
          PROVE  Settles'
      <4>1. UNCHANGED <<pay, kase, owed, req>>
        BY <3>3 DEF createPaymentLink, MpChanges, caseVars, debtVars
      <4>2. seen' = seen \/ \E s \in RawStatus : seen' = [seen EXCEPT ![p] = @ \cup {s}]
        BY <3>3 DEF createPaymentLink, MpChanges
      <4>3. \A q \in Payments : seen[q] \subseteq seen'[q]
        BY SMTT(30), <4>2 DEF IInv, TypeOK
      <4> QED
        BY <3>1, <4>1, <4>3, SettlesWorld
    <3>4. ASSUME NEW k \in Keys, KeyExpires(k) PROVE Settles'
      BY <3>1, <3>4, SettlesWorld DEF KeyExpires, caseVars, debtVars, mpVars
    <3>5. ASSUME UNCHANGED vars PROVE Settles'
      BY <3>1, <3>5, SettlesWorld DEF vars, caseVars, debtVars, mpVars
    <3>6. ASSUME NEW n \in Note, Deliver(n) PROVE Settles'
      BY <3>1, <3>6, SettlesTaken DEF Deliver
    <3>7. ASSUME NEW h \in Requests, Continue(h) PROVE Settles'
      BY <3>1, <3>7, SettlesContinue
    <3> QED
      BY <3>1, <3>2, <3>3, <3>4, <3>5, <3>6, <3>7 DEF SerialNext
  <2> QED
    BY <2>1, <2>2
<1>3. IInv /\ Inv => QuietIsClosed
  BY DEF QuietIsClosed, Quiet, Settles, CaseStands, Hooking, BalanceIsZero
<1> QED
  BY <1>1, <1>2, <1>3, Invariance, PTL DEF Spec
=============================================================================
