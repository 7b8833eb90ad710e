------------------------ MODULE SettlementRefinement ------------------------
(***************************************************************************)
(* Settlement implements Ledger, for every value of the constants.         *)
(***************************************************************************)
EXTENDS SettlementProofs

\* A step that leaves the tables, the queue and the histories alone is a
\* stuttering step of the ledger.
LEMMA Hidden ==
  ASSUME UNCHANGED <<seen, owedSeen, pay, confirmed, kase, byHand>>
  PROVE  UNCHANGED Promise!ledger
  BY DEF Promise!ledger

LEMMA InitLedger == Init => Promise!Init
  BY DEF Init, Promise!Init

\* What a hook has read is evidence: payments approved once, a sum owed once.
LEMMA HookHasEvidence ==
  ASSUME IInv, NEW h \in Requests, req[h].pc \in {"close", "reopen"}, BalanceRead(h)
  PROVE  <<req[h].paid, req[h].debt>> \in Promise!Evidence(CaseOf[Pid(h)])
  BY Running DEF Sound, BalanceRead, Promise!Evidence, Promise!Approved, WasApproved, Pid

LEMMA ReportStep ==
  ASSUME NEW p \in Payments, NEW s \in RawStatus, MpChanges(p, s)
  PROVE  Promise!Report(p, s)
  BY DEF MpChanges, Promise!Report, caseVars, debtVars

LEMMA OweStep ==
  ASSUME IInv, NEW c \in Cases, NEW a \in Imported, DebtImported(c, a)
  PROVE  Promise!Owe(c)
<1>1. sumDebts(owed'[c]) \in owedSeen'[c]
  BY DEF DebtImported, IInv, TypeOK
<1> QED
  BY <1>1 DEF DebtImported, Promise!Owe, mpVars, caseVars

\* A new status in case c, in terms of the ledger.
LEMMA StatusChanged ==
  ASSUME IInv, NEW c \in Cases, NEW s \in CaseStatus,
         kase' = [kase EXCEPT ![c].status = s]
  PROVE  [e \in Cases |-> kase'[e].status]
         = [[e \in Cases |-> kase[e].status] EXCEPT ![c] = s]
  BY DEF IInv, TypeOK

LEMMA DecideStep ==
  ASSUME IInv, NEW c \in Cases, NEW s \in CaseStatus, setStatus(c, s)
  PROVE  Promise!Decide(c, s)
<1>1. [e \in Cases |-> kase'[e].status] = [[e \in Cases |-> kase[e].status] EXCEPT ![c] = s]
  BY StatusChanged DEF setStatus
<1> QED
  BY <1>1 DEF setStatus, Promise!Decide, mpVars, debtVars

LEMMA RecordStep ==
  ASSUME IInv, NEW h \in Requests, savePayment(h)
  PROVE  \E p \in Payments, s \in RawStatus : Promise!Record(p, s)
<1> USE DEF savePayment
<1>1. PICK p \in Payments, s \in RawStatus :
         p = Pid(h) /\ s = req[h].raw /\ s \in seen[p] /\ req[h] \in Request
  BY Running DEF Sound, Pid, IInv, TypeOK
<1>2. Entity(req[h]) # None /\ Entity(req[h]).status = mapMpStatus(s)
  <2>1. Entity(req[h]) \in Row
    BY <1>1, EntityType DEF Request
  <2> QED
    BY <1>1, <2>1, NoneAssumption DEF Row, Entity
<1>3. [q \in Payments |-> IF pay'[q] = None THEN None ELSE pay'[q].status]
      = [[q \in Payments |-> IF pay[q] = None THEN None ELSE pay[q].status]
            EXCEPT ![p] = mapMpStatus(s)]
  BY <1>1, <1>2 DEF IInv, TypeOK
<1> QED
  BY <1>1, <1>3 DEF Promise!Record, mpVars, caseVars, debtVars

LEMMA TellStep ==
  ASSUME IInv, NEW h \in Requests, notifyPaymentApproved(h)
  PROVE  UNCHANGED Promise!ledger \/ \E p \in Payments : Promise!Tell(p)
<1> USE DEF notifyPaymentApproved
<1>1. PICK p \in Payments : p = Pid(h) /\ WasApproved(p) /\ pay[p] # None
  BY Running DEF Sound, Pid
<1>2. pay[p].status # None
  BY <1>1, NoneAssumption DEF IInv, TypeOK, Row
<1>3. CASE CaseOf[Pid(h)] \in Reachable
  <2>1. Promise!Tell(p)
    BY <1>1, <1>2, <1>3
    DEF Promise!Tell, Promise!Approved, WasApproved, mpVars, caseVars, debtVars
  <2> QED
    BY <2>1
<1>4. CASE CaseOf[Pid(h)] \notin Reachable
  <2>1. UNCHANGED <<seen, owedSeen, pay, confirmed, kase, byHand>>
    BY <1>4 DEF mpVars, caseVars, debtVars
  <2> QED
    BY <2>1, Hidden
<1> QED
  BY <1>3, <1>4

\* A hook that writes status s into case c, in terms of the ledger.
LEMMA StatusWritten ==
  ASSUME IInv, NEW c \in Cases, NEW row \in [status : CaseStatus, closed : BOOLEAN],
         kase' = [kase EXCEPT ![c] = row]
  PROVE  [b \in Cases |-> kase'[b].status]
         = [[b \in Cases |-> kase[b].status] EXCEPT ![c] = row.status]
  BY DEF IInv, TypeOK

LEMMA CloseStep ==
  ASSUME IInv, NEW h \in Requests, closeIfZero(h)
  PROVE  UNCHANGED Promise!ledger \/ \E c \in Cases : Promise!Close(c)
<1> USE DEF closeIfZero
<1>1. PICK c \in Cases :
         c = CaseOf[Pid(h)] /\ <<req[h].paid, req[h].debt>> \in Promise!Evidence(c)
  BY Running, HookHasEvidence
<1>2. CASE kase' = kase
  <2>1. UNCHANGED <<seen, owedSeen, pay, confirmed, kase, byHand>>
    BY <1>2 DEF mpVars, caseVars, debtVars
  <2> QED
    BY <2>1, Hidden
<1>3. CASE kase' # kase
  <2>1. /\ IsZero(req[h].debt, req[h].paid)
        /\ kase' = [kase EXCEPT ![c] = [status |-> "PAID", closed |-> TRUE]]
    BY <1>1, <1>3
  <2>2. [b \in Cases |-> kase'[b].status]
        = [[b \in Cases |-> kase[b].status] EXCEPT ![c] = "PAID"]
    <3>1. [status |-> "PAID", closed |-> TRUE] \in [status : CaseStatus, closed : BOOLEAN]
      BY DEF CaseStatus
    <3> QED
      BY <2>1, <3>1, StatusWritten
  <2>3. Promise!Close(c)
    BY <1>1, <2>1, <2>2 DEF Promise!Close, mpVars, debtVars
  <2> QED
    BY <2>3
<1> QED
  BY <1>2, <1>3

LEMMA ReopenStep ==
  ASSUME IInv, NEW h \in Requests, reopenIfPositive(h)
  PROVE  UNCHANGED Promise!ledger \/ \E c \in Cases : Promise!Reopen(c)
<1> USE DEF reopenIfPositive
<1>1. PICK c \in Cases :
         /\ c = CaseOf[Pid(h)] /\ <<req[h].paid, req[h].debt>> \in Promise!Evidence(c)
         /\ Pid(h) \in PaymentsOf(c) /\ WasApproved(Pid(h))
  BY Running, HookHasEvidence DEF PaymentsOf
<1>2. CASE kase' = kase
  <2>1. UNCHANGED <<seen, owedSeen, pay, confirmed, kase, byHand>>
    BY <1>2 DEF mpVars, caseVars, debtVars
  <2> QED
    BY <2>1, Hidden
<1>3. CASE kase' # kase
  <2>1. /\ ~IsZero(req[h].debt, req[h].paid) /\ kase[c].status = "PAID"
        /\ kase' = [kase EXCEPT ![c].status = "OPEN"]
    BY <1>1, <1>3
  <2>2. [b \in Cases |-> kase'[b].status]
        = [[b \in Cases |-> kase[b].status] EXCEPT ![c] = "OPEN"]
    <3>1. "OPEN" \in CaseStatus
      BY DEF CaseStatus
    <3> QED
      BY <2>1, <3>1, StatusChanged
  <2>3. /\ <<req[h].paid, req[h].debt>> \in Promise!Evidence(c)
        /\ ~IsZero(req[h].debt, req[h].paid) /\ kase[c].status = "PAID"
        /\ \E p \in PaymentsOf(c) : Promise!Approved(p)
    BY <1>1, <2>1 DEF Promise!Approved, WasApproved
  <2>4. Promise!Reopen(c)
    BY <1>1, <2>2, <2>3 DEF Promise!Reopen, mpVars, debtVars
  <2> QED
    BY <2>4
<1> QED
  BY <1>2, <1>3

\* Every step of Settlement is a step of Ledger or leaves it unchanged.
LEMMA NextLedger == IInv /\ [Next]_vars => [Promise!Next]_Promise!ledger
<1> SUFFICES ASSUME IInv, [Next]_vars
             PROVE  Promise!Next \/ UNCHANGED Promise!ledger
  OBVIOUS
<1> USE DEF mpVars, caseVars, debtVars
<1>1. CASE Environment
  <2>1. CASE \E p \in Payments, s \in RawStatus : MpChanges(p, s)
    BY <2>1, ReportStep DEF Promise!Next
  <2>2. CASE \E c \in Cases, a \in Imported : DebtImported(c, a)
    BY <2>2, OweStep DEF Promise!Next
  <2>3. ASSUME NEW c \in Cases, NEW s \in CaseStatus, setStatus(c, s)
        PROVE  Promise!Next
    BY <2>3, DecideStep DEF setStatus, Promise!Next
  <2>4. CASE UNCHANGED <<seen, owedSeen, pay, confirmed, kase, byHand>>
    BY <2>4, Hidden
  <2> QED
    BY <1>1, <2>1, <2>2, <2>3, <2>4 DEF Environment, createPaymentLink, KeyExpires
<1>2. ASSUME NEW n \in Note, Deliver(n) PROVE UNCHANGED Promise!ledger
  BY <1>2, Hidden DEF Deliver, Reserve, Deduplicate
<1>3. ASSUME NEW h \in Requests, Continue(h)
      PROVE  Promise!Next \/ UNCHANGED Promise!ledger
  <2>1. CASE savePayment(h)
    BY <2>1, RecordStep DEF Promise!Next
  <2>2. CASE notifyPaymentApproved(h)
    BY <2>2, TellStep DEF Promise!Next
  <2>3. CASE closeIfZero(h)
    BY <2>3, CloseStep DEF Promise!Next
  <2>4. CASE reopenIfPositive(h)
    BY <2>4, ReopenStep DEF Promise!Next
  <2>5. CASE UNCHANGED <<seen, owedSeen, pay, confirmed, kase, byHand>>
    BY <2>5, Hidden
  <2> QED
    BY <1>3, <2>1, <2>2, <2>3, <2>4, <2>5
    DEF Continue, getPayment, findExisting, duplicateInsert, readDebts, readPayments, reply
<1>4. ASSUME NEW h \in Requests, RequestFails(h) \/ HookFails(h)
      PROVE  UNCHANGED Promise!ledger
  BY <1>4, Hidden DEF RequestFails, HookFails, Fault
<1>5. CASE Restart
  BY <1>5, Hidden DEF Restart, Fault
<1>6. CASE UNCHANGED vars
  BY <1>6, Hidden DEF vars
<1> QED
  BY <1>1, <1>2, <1>3, <1>4, <1>5, <1>6 DEF Next

\* The webhooks, the keys, the retries and the failures implement the ledger:
\* the tables and the message queue change only on evidence.
THEOREM LedgerIsImplemented == Spec => ImplementsLedger
<1>1. Init => Promise!Init
  BY InitLedger
<1>2. IInv /\ [Next]_vars => [Promise!Next]_Promise!ledger
  BY NextLedger
<1> QED
  BY <1>1, <1>2, Invariance, PTL DEF Spec, ImplementsLedger, Promise!Spec
=============================================================================
