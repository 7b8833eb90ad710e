----------------------------- MODULE Settlement -----------------------------
(***************************************************************************)
(* Settlement of payments: the two Mercado Pago webhooks, the Redis        *)
(* reservation that makes them idempotent, the reconciliation of a payment *)
(* and the hooks that confirm it, close its case or reopen it.             *)
(*                                                                         *)
(* A request is a record whose "pc" is the await it stands at; requests    *)
(* interleave at every await, as they do in the Node event loop.           *)
(***************************************************************************)
EXTENDS Balance, FiniteSets

CONSTANTS
    Requests,     \* slots for webhook requests in flight at the same time
    Envelopes,    \* the forms in which Mercado Pago sends a notification
    MpMoves,      \* the status changes Mercado Pago may make
    HasToken,     \* MP_ACCESS_TOKEN is set
    HasSecret,    \* MP_WEBHOOK_SECRET is set
    Reachable,    \* cases whose contact has a phone or an email
    NewCase,      \* the status a case row is created with
    InitialDebt,  \* what each case owes at first
    Imported,     \* amounts that a debt import may write
    None,         \* no value
    MaxFaults,    \* bound: failed calls, lost answers and restarts
    MaxEdits,     \* bound: operator edits and debt imports
    MaxExpiries   \* bound: Redis keys that expire

Envelope == [via    : {"payments", "webhooks"},  \* which controller gets it
             shape  : {"data", "resource"},      \* { data: { id } } or { resource }
             type   : {"payment", "other"},
             header : BOOLEAN,                   \* carries x-idempotency-key
             signed : BOOLEAN]

ASSUME EnvelopesAssumption == Envelopes \subseteq Envelope
ASSUME MovesAssumption ==
    MpMoves \subseteq ((RawStatus \cup {"linked"}) \X RawStatus)
ASSUME RequestsAssumption == IsFiniteSet(Requests)
ASSUME FlagsAssumption == HasToken \in BOOLEAN /\ HasSecret \in BOOLEAN
ASSUME CasesAssumption ==
    /\ Reachable \subseteq Cases
    /\ NewCase \in {"OPEN", "ABIERTO"}
    /\ InitialDebt \in [Cases -> Debts]
    /\ Imported \subseteq Nat \ {0}
ASSUME NoneAssumption ==
    /\ None \notin Nat /\ None \notin PaymentStatus
    /\ \A S \in SUBSET Payments : None # S
    /\ None \notin [status : PaymentStatus, accredited : BOOLEAN]
ASSUME BoundsAssumption ==
    MaxFaults \in Nat /\ MaxEdits \in Nat /\ MaxExpiries \in Nat

VARIABLES
    mp,         \* Mercado Pago: the status of each payment now
    seen,       \* Mercado Pago: the statuses each payment has had
    notes,      \* notifications sent and not answered with 200 yet
    keys,       \* Redis: reserved mp:webhook: keys
    pay,        \* the payments table
    kase,       \* the cases table
    owed,       \* the debts of each case
    owedSeen,   \* history: the sums each case has owed
    byHand,     \* history: how often an operator has set each case's status
    req,        \* the webhook requests in flight
    confirmed,  \* PAYMENT_CONFIRMED jobs queued for each payment
    overlapped, \* history: whether two requests were processed at once
    faults, edits, expiries   \* what the environment has used of its bounds

mpVars == <<mp, seen>>
caseVars == <<kase, byHand>>
debtVars == <<owed, owedSeen>>
bounds == <<overlapped, faults, edits, expiries>>
vars == <<mpVars, notes, keys, pay, caseVars, debtVars, req, confirmed, bounds>>
-----------------------------------------------------------------------------
Note == [pid : Payments, raw : RawStatus, env : Envelopes]

Row == [status : PaymentStatus, accredited : BOOLEAN]

Pc == {"idle", "get", "find", "save", "notify", "close", "reopen", "reply"}

Request == [pc : Pc, note : Note \cup {None}, raw : RawStatus \cup {None},
            existing : Row \cup {None}, debt : Nat \cup {None},
            paid : (SUBSET Payments) \cup {None}]

Idle == [pc |-> "idle", note |-> None, raw |-> None,
         existing |-> None, debt |-> None, paid |-> None]

CaseStatus == {"ABIERTO", "OPEN", "PAID", "CANCELLED"}

\* A request with a fresh Date.now() key: it is never found reserved.
Clock == None

\* xIdem || paymentId: every shape of payload yields a payment id here.
paymentsKey(n) == IF n.env.header THEN <<n.pid, n.raw>> ELSE <<n.pid, "id">>

\* idemKey || data.id || id || Date.now(): a { resource } payload has no key.
webhooksKey(n) ==
    IF n.env.header \/ n.env.shape = "data" THEN paymentsKey(n) ELSE Clock

KeyOf(n) == IF n.env.via = "payments" THEN paymentsKey(n) ELSE webhooksKey(n)

Keys == Payments \X (RawStatus \cup {"id"})

\* Only the first controller signs the id of a { resource } payload.
verifyMpSignature(n) ==
    n.env.signed /\ (n.env.via = "payments" \/ n.env.shape = "data")

Authorized(n) == HasSecret => verifyMpSignature(n)
-----------------------------------------------------------------------------
Init ==
    /\ mp = [p \in Payments |-> "absent"]
    /\ seen = [p \in Payments |-> {}]
    /\ notes = {}
    /\ keys = {}
    /\ pay = [p \in Payments |-> None]
    /\ kase = [c \in Cases |-> [status |-> NewCase, closed |-> FALSE]]
    /\ owed = InitialDebt
    /\ owedSeen = [c \in Cases |-> {sumDebts(InitialDebt[c])}]
    /\ byHand = [c \in Cases |-> 0]
    /\ req = [h \in Requests |-> Idle]
    /\ confirmed = [p \in Payments |-> 0]
    /\ overlapped = FALSE /\ faults = 0 /\ edits = 0 /\ expiries = 0

(***************************************************************************)
(* The environment: Mercado Pago, the debtor, the operator and the clock.  *)
(***************************************************************************)

\* A payment can only come to be through a preference; without a token the
\* link is simulated and Mercado Pago never hears of it.
createPaymentLink(p) ==
    /\ HasToken
    /\ mp[p] = "absent"
    /\ mp' = [mp EXCEPT ![p] = "linked"]
    /\ UNCHANGED <<seen, notes, keys, pay, caseVars, debtVars, req, confirmed, bounds>>

\* Mercado Pago changes a payment and notifies: to the preference's
\* notification_url, to the account's webhook, or to both.
MpChanges(p, s) ==
    /\ <<mp[p], s>> \in MpMoves
    /\ mp' = [mp EXCEPT ![p] = s]
    /\ seen' = [seen EXCEPT ![p] = @ \cup {s}]
    /\ \E sent \in (SUBSET Envelopes) \ {{}} :
          notes' = notes \cup {[pid |-> p, raw |-> s, env |-> e] : e \in sent}
    /\ UNCHANGED <<keys, pay, caseVars, debtVars, req, confirmed, bounds>>

\* A key lives an hour: no request that reserved it is still running.
KeyExpires(k) ==
    /\ expiries < MaxExpiries
    /\ k \in keys
    /\ \A h \in Requests : req[h].pc # "idle" => KeyOf(req[h].note) # k
    /\ keys' = keys \ {k}
    /\ expiries' = expiries + 1
    /\ UNCHANGED <<mpVars, notes, pay, caseVars, debtVars, req, confirmed, overlapped, faults, edits>>

\* importCsv finds the debt by its reference and overwrites its amount.
DebtImported(c, a) ==
    /\ edits < MaxEdits
    /\ owed' = [owed EXCEPT ![c].byDebtId = a]
    /\ owedSeen' = [owedSeen EXCEPT ![c] = @ \cup {sumDebts(owed'[c])}]
    /\ edits' = edits + 1
    /\ UNCHANGED <<mpVars, notes, keys, pay, caseVars, req, confirmed, overlapped, faults, expiries>>

setStatus(c, s) ==
    /\ edits < MaxEdits
    /\ s \in {"OPEN", "PAID", "CANCELLED"}
    /\ kase' = [kase EXCEPT ![c].status = s]
    /\ byHand' = [byHand EXCEPT ![c] = @ + 1]
    /\ edits' = edits + 1
    /\ UNCHANGED <<mpVars, notes, keys, pay, debtVars, req, confirmed, overlapped, faults, expiries>>
-----------------------------------------------------------------------------
(***************************************************************************)
(* The webhook: reserve the key, then handleMpNotification up to its first *)
(* await.  The answer 200 is a step of its own, "reply".                   *)
(***************************************************************************)

\* handleMpNotification does nothing without a token or for another topic.
Reconcilable(n) == HasToken /\ n.env.type = "payment"

InFlight == {h \in Requests : req[h].pc \notin {"idle", "reply"}}

Processed(h, n) ==
    /\ req' = [req EXCEPT ![h] =
           [Idle EXCEPT !.note = n, !.pc = IF Reconcilable(n) THEN "get" ELSE "reply"]]
    /\ overlapped' = (overlapped \/ InFlight # {})
    /\ UNCHANGED <<faults, edits, expiries>>

\* Faulty variant: a plain SET, without NX.
ReserveWithoutNX(h, n) ==
    /\ req[h].pc = "idle" /\ n \in notes
    /\ Authorized(n)
    /\ keys' = keys \cup ({KeyOf(n)} \ {Clock})
    /\ Processed(h, n)
    /\ UNCHANGED <<mpVars, notes, pay, caseVars, debtVars, confirmed>>

\* Faulty variant: the key is looked up and never written.
ReserveForgets(h, n) ==
    /\ req[h].pc = "idle" /\ n \in notes
    /\ Authorized(n)
    /\ KeyOf(n) \notin keys
    /\ Processed(h, n)
    /\ UNCHANGED <<mpVars, notes, keys, pay, caseVars, debtVars, confirmed>>

\* SET key NX answers OK: the key is taken before anything is processed.
Reserve(h, n) ==
    /\ req[h].pc = "idle" /\ n \in notes
    /\ Authorized(n)
    /\ KeyOf(n) \notin keys
    /\ keys' = keys \cup ({KeyOf(n)} \ {Clock})
    /\ Processed(h, n)
    /\ UNCHANGED <<mpVars, notes, pay, caseVars, debtVars, confirmed>>

\* Faulty variant: a repeated notification is refused with an error status.
DeduplicateRefuses(h, n) ==
    /\ req[h].pc = "idle" /\ n \in notes
    /\ Authorized(n)
    /\ KeyOf(n) \in keys
    /\ UNCHANGED vars

\* SET key NX finds the key: the request is answered without processing.
Deduplicate(h, n) ==
    /\ req[h].pc = "idle" /\ n \in notes
    /\ Authorized(n)
    /\ KeyOf(n) \in keys
    /\ req' = [req EXCEPT ![h] = [Idle EXCEPT !.note = n, !.pc = "reply"]]
    /\ UNCHANGED <<mpVars, notes, keys, pay, caseVars, debtVars, confirmed, bounds>>

(***************************************************************************)
(* reconcilePaymentById.                                                   *)
(***************************************************************************)
Pid(h) == req[h].note.pid

getPayment(h) ==
    /\ req[h].pc = "get"
    /\ req' = [req EXCEPT ![h].pc = "find", ![h].raw = mp[Pid(h)]]
    /\ UNCHANGED <<mpVars, notes, keys, pay, caseVars, debtVars, confirmed, bounds>>

findExisting(h) ==
    /\ req[h].pc = "find"
    /\ req' = [req EXCEPT ![h].pc = "save", ![h].existing = pay[Pid(h)]]
    /\ UNCHANGED <<mpVars, notes, keys, pay, caseVars, debtVars, confirmed, bounds>>

\* Faulty variant: the accreditation date is set on insert only.
EntityOnInsert(r) ==
    [status     |-> mapMpStatus(r.raw),
     accredited |-> \/ r.existing = None /\ mapMpStatus(r.raw) \in HookStatus
                    \/ r.existing # None /\ r.existing.accredited]

\* The whole row is written from the copy that was read.
Entity(r) ==
    [status     |-> mapMpStatus(r.raw),
     accredited |-> \/ mapMpStatus(r.raw) \in HookStatus
                    \/ r.existing # None /\ r.existing.accredited]

\* Faulty variant: hooks for every payment of a case.
RunsHooksAlways(r) == CaseOf[r.note.pid] # NoCase

RunsHooks(r) == mapMpStatus(r.raw) \in HookStatus /\ CaseOf[r.note.pid] # NoCase

\* Faulty variant: a payment that is already in the table is left as it is.
savePaymentOnce(h) ==
    /\ req[h].pc = "save"
    /\ pay' = IF pay[Pid(h)] = None THEN [pay EXCEPT ![Pid(h)] = Entity(req[h])] ELSE pay
    /\ req' = [req EXCEPT ![h].pc = IF RunsHooks(req[h]) THEN "notify" ELSE "reply"]
    /\ UNCHANGED <<mpVars, notes, keys, caseVars, debtVars, confirmed, bounds>>

savePayment(h) ==
    /\ req[h].pc = "save"
    /\ req[h].existing = None => pay[Pid(h)] = None
    /\ pay' = [pay EXCEPT ![Pid(h)] = Entity(req[h])]
    /\ req' = [req EXCEPT ![h].pc = IF RunsHooks(req[h]) THEN "notify" ELSE "reply"]
    /\ UNCHANGED <<mpVars, notes, keys, caseVars, debtVars, confirmed, bounds>>

\* A second insert of the same paymentId breaks the unique index: 500.
duplicateInsert(h) ==
    /\ req[h].pc = "save"
    /\ req[h].existing = None /\ pay[Pid(h)] # None
    /\ req' = [req EXCEPT ![h] = Idle]
    /\ UNCHANGED <<mpVars, notes, keys, pay, caseVars, debtVars, confirmed, bounds>>

(***************************************************************************)
(* The hooks: confirm to the debtor, close the case, reopen the case.      *)
(***************************************************************************)
notifyPaymentApproved(h) ==
    /\ req[h].pc = "notify"
    /\ confirmed' = IF CaseOf[Pid(h)] \in Reachable
                    THEN [confirmed EXCEPT ![Pid(h)] = @ + 1] ELSE confirmed
    /\ req' = [req EXCEPT ![h].pc = "close"]
    /\ UNCHANGED <<mpVars, notes, keys, pay, caseVars, debtVars, bounds>>

sumApprovedPayments(c) ==
    {p \in PaymentsOf(c) : pay[p] # None /\ pay[p].status \in Counted}

\* getBalance awaits both sums at once: they are read in either order.
readDebts(h) ==
    /\ req[h].pc \in {"close", "reopen"} /\ req[h].debt = None
    /\ req' = [req EXCEPT ![h].debt = sumDebts(owed[CaseOf[Pid(h)]])]
    /\ UNCHANGED <<mpVars, notes, keys, pay, caseVars, debtVars, confirmed, bounds>>

readPayments(h) ==
    /\ req[h].pc \in {"close", "reopen"} /\ req[h].paid = None
    /\ req' = [req EXCEPT ![h].paid = sumApprovedPayments(CaseOf[Pid(h)])]
    /\ UNCHANGED <<mpVars, notes, keys, pay, caseVars, debtVars, confirmed, bounds>>

BalanceRead(h) == req[h].debt # None /\ req[h].paid # None

HookDone(h, next) ==
    req' = [req EXCEPT ![h].pc = next, ![h].debt = None, ![h].paid = None]

\* Faulty variant: any approved payment closes the case.
closeIfPaid(h) ==
    LET c == CaseOf[Pid(h)] IN
    /\ req[h].pc = "close" /\ BalanceRead(h)
    /\ kase' = IF req[h].paid # {}
               THEN [kase EXCEPT ![c] = [status |-> "PAID", closed |-> TRUE]] ELSE kase
    /\ HookDone(h, "reopen")
    /\ UNCHANGED <<mpVars, notes, keys, pay, byHand, debtVars, confirmed, bounds>>

\* Faulty variant: the case is closed without a closing date.
closeUndated(h) ==
    LET c == CaseOf[Pid(h)] IN
    /\ req[h].pc = "close" /\ BalanceRead(h)
    /\ kase' = IF IsZero(req[h].debt, req[h].paid)
               THEN [kase EXCEPT ![c].status = "PAID"] ELSE kase
    /\ HookDone(h, "reopen")
    /\ UNCHANGED <<mpVars, notes, keys, pay, byHand, debtVars, confirmed, bounds>>

\* Writes the status PAID whatever other status the case has.
closeIfZero(h) ==
    LET c == CaseOf[Pid(h)] IN
    /\ req[h].pc = "close" /\ BalanceRead(h)
    /\ kase' = IF IsZero(req[h].debt, req[h].paid) /\ kase[c].status # "PAID"
               THEN [kase EXCEPT ![c] = [status |-> "PAID", closed |-> TRUE]] ELSE kase
    /\ HookDone(h, "reopen")
    /\ UNCHANGED <<mpVars, notes, keys, pay, byHand, debtVars, confirmed, bounds>>

\* Faulty variant: the comparison is the wrong way round.
reopenIfZero(h) ==
    LET c == CaseOf[Pid(h)] IN
    /\ req[h].pc = "reopen" /\ BalanceRead(h)
    /\ kase' = IF IsZero(req[h].debt, req[h].paid) /\ kase[c].status = "PAID"
               THEN [kase EXCEPT ![c].status = "OPEN"] ELSE kase
    /\ HookDone(h, "reply")
    /\ UNCHANGED <<mpVars, notes, keys, pay, byHand, debtVars, confirmed, bounds>>

reopenIfPositive(h) ==
    LET c == CaseOf[Pid(h)] IN
    /\ req[h].pc = "reopen" /\ BalanceRead(h)
    /\ kase' = IF ~IsZero(req[h].debt, req[h].paid) /\ kase[c].status = "PAID"
               THEN [kase EXCEPT ![c].status = "OPEN"] ELSE kase
    /\ HookDone(h, "reply")
    /\ UNCHANGED <<mpVars, notes, keys, pay, byHand, debtVars, confirmed, bounds>>

\* Mercado Pago gets its 200 and stops sending the notification.
reply(h) ==
    /\ req[h].pc = "reply"
    /\ notes' = notes \ {req[h].note}
    /\ req' = [req EXCEPT ![h] = Idle]
    /\ UNCHANGED <<mpVars, keys, pay, caseVars, debtVars, confirmed, bounds>>

(***************************************************************************)
(* Failures.                                                               *)
(***************************************************************************)
Fault ==
    /\ faults < MaxFaults
    /\ faults' = faults + 1
    /\ UNCHANGED <<mpVars, notes, keys, pay, caseVars, debtVars, confirmed, overlapped, edits, expiries>>

\* A call to Mercado Pago or to the database throws before the hooks: 500.
\* So does a request whose answer is lost: Mercado Pago sees no 200.
RequestFails(h) ==
    /\ Fault
    /\ req[h].pc \in {"get", "find", "save", "reply"}
    /\ req' = [req EXCEPT ![h] = Idle]

\* An exception of a hook is caught: the others are skipped, the answer is 200.
HookFails(h) ==
    /\ Fault
    /\ req[h].pc \in {"notify", "close", "reopen"}
    /\ req' = [req EXCEPT ![h].pc = "reply", ![h].debt = None, ![h].paid = None]

\* The process stops: every request is lost, Redis and the database stay.
Restart ==
    /\ Fault
    /\ \E h \in Requests : req[h].pc # "idle"
    /\ req' = [h \in Requests |-> Idle]
-----------------------------------------------------------------------------
Deliver(n) == \E h \in Requests : Reserve(h, n) \/ Deduplicate(h, n)

Continue(h) ==
    \/ getPayment(h) \/ findExisting(h) \/ savePayment(h) \/ duplicateInsert(h)
    \/ notifyPaymentApproved(h) \/ readDebts(h) \/ readPayments(h)
    \/ closeIfZero(h) \/ reopenIfPositive(h) \/ reply(h)

Environment ==
    \/ \E p \in Payments : createPaymentLink(p) \/ \E s \in RawStatus : MpChanges(p, s)
    \/ \E k \in Keys : KeyExpires(k)
    \/ \E c \in Cases : \/ \E a \in Imported : DebtImported(c, a)
                        \/ \E s \in CaseStatus : setStatus(c, s)

Next ==
    \/ Environment
    \/ \E n \in Note : Deliver(n)
    \/ \E h \in Requests : Continue(h) \/ RequestFails(h) \/ HookFails(h)
    \/ Restart

Spec == Init /\ [][Next]_vars

\* Mercado Pago sends an unanswered notification again; the event loop runs
\* every promise that is settled.  Payments are made or not: no fairness.
Fairness ==
    /\ \A n \in Note : WF_vars(Deliver(n))
    /\ \A h \in Requests : WF_vars(Continue(h))

FairSpec == Spec /\ Fairness
-----------------------------------------------------------------------------
(***************************************************************************)
(* What every interleaving and every failure leaves true.                  *)
(***************************************************************************)
\* Every variable holds a value of the program's types.
TypeOK ==
    /\ mp \in [Payments -> RawStatus \cup {"absent", "linked"}]
    /\ seen \in [Payments -> SUBSET RawStatus]
    /\ notes \subseteq Note
    /\ keys \subseteq Keys
    /\ pay \in [Payments -> Row \cup {None}]
    /\ kase \in [Cases -> [status : CaseStatus, closed : BOOLEAN]]
    /\ owed \in [Cases -> Debts]
    /\ owedSeen \in [Cases -> SUBSET Nat]
    /\ byHand \in [Cases -> Nat]
    /\ req \in [Requests -> Request]
    /\ confirmed \in [Payments -> Nat]
    /\ overlapped \in BOOLEAN
    /\ faults \in 0..MaxFaults /\ edits \in 0..MaxEdits /\ expiries \in 0..MaxExpiries

\* SET NX serialises what it can: two requests with one key are never
\* processed at once, whichever of the two controllers each came through.
OneRequestPerKey ==
    \A g, h \in InFlight :
        g # h => \/ KeyOf(req[g].note) # KeyOf(req[h].note)
                 \/ KeyOf(req[g].note) = Clock

\* A status Mercado Pago gave to payment p that makes it approved.
WasApproved(p) == seen[p] \cap {"approved", "accredited"} # {}

\* No debtor is told that a payment was approved unless Mercado Pago approved
\* it at some time, however late, doubled or stale the notifications are.
ConfirmedWasApproved ==
    \A p \in Payments : confirmed[p] > 0 => WasApproved(p)

\* The payments table holds only what Mercado Pago said, and a row that is
\* approved carries its accreditation date, also when a request overwrites a
\* row that a request for another status of the payment saved in the meantime.
RecordedWasReported ==
    \A p \in Payments : pay[p] # None =>
        /\ \E s \in seen[p] : pay[p].status = mapMpStatus(s)
        /\ pay[p].status = "approved" => pay[p].accredited

\* A set of payments of case c, each approved at some time, settles one of
\* the sums that c has owed.
Settled(c) ==
    \E S \in SUBSET {p \in PaymentsOf(c) : WasApproved(p)} :
        \E d \in owedSeen[c] : IsZero(d, S)

\* A case that no operator touched is PAID only if payments approved by
\* Mercado Pago once settled it; and then it has its closing date.
PaidIsSettled ==
    \A c \in Cases :
        byHand[c] = 0 /\ kase[c].status = "PAID" => kase[c].closed /\ Settled(c)

\* The keys under which a notification of p may be reserved.
KeysOf(p) == {KeyOf(n) : n \in {m \in Note : m.pid = p}}

\* The reservation does what it is there for: a debtor gets one confirmation
\* of a payment per key of the payment, and one more per key that expired,
\* whatever is sent again, and through whichever controller.
ConfirmedOncePerKey ==
    \A p \in Payments :
        Clock \notin KeysOf(p) => confirmed[p] <= Cardinality(KeysOf(p)) + expiries

(***************************************************************************)
(* What holds as long as requests come one at a time and nothing fails.    *)
(***************************************************************************)
Quiet == notes = {} /\ \A h \in Requests : req[h].pc = "idle"

Serial == ~overlapped /\ faults = 0 /\ edits = 0

Recorded(p) == pay[p] # None /\ pay[p].status = mapMpStatus(mp[p])

\* Once the notifications are answered, the table agrees with Mercado Pago.
QuietIsRecorded ==
    Serial /\ Quiet => \A p \in Payments : mp[p] \in RawStatus => Recorded(p)

\* No payment of the case was taken back: a refund runs no hook.
Unrefunded(c) == \A p \in PaymentsOf(c) : "refunded" \notin seen[p]

\* Once the notifications are answered, a case with an approved payment is
\* PAID exactly if its approved payments cover its debt.
QuietIsClosed ==
    Serial /\ Quiet => \A c \in Cases :
        LET S == sumApprovedPayments(c) IN
        Unrefunded(c) /\ S # {} =>
            (kase[c].status = "PAID" <=> IsZero(sumDebts(owed[c]), S))

(***************************************************************************)
(* Liveness, under Fairness.                                               *)
(***************************************************************************)

\* Mercado Pago does not repeat a notification for ever: after any finite
\* number of failures every notification of a payment is answered with 200.
EveryNoteAnswered == \A p \in Payments : []<>(\A n \in notes : n.pid # p)

(***************************************************************************)
(* Settlement implements Ledger: the webhooks, keys, requests and failures *)
(* are hidden, and the tables and the queue change only on evidence.       *)
(***************************************************************************)
Promise == INSTANCE Ledger WITH
    InitialOwed <- [c \in Cases |-> sumDebts(InitialDebt[c])],
    reported    <- seen,
    owes        <- owedSeen,
    recorded    <- [p \in Payments |-> IF pay[p] = None THEN None ELSE pay[p].status],
    told        <- confirmed,
    decided     <- byHand,
    status      <- [c \in Cases |-> kase[c].status]

\* Every write to payments and cases, and every confirmation, is one step of
\* the abstract specification: what a request read before other requests wrote
\* may be old, but it is never something that did not happen.
ImplementsLedger == Promise!Spec

(***************************************************************************)
(* What comments of the code say and the code does not do.                 *)
(***************************************************************************)

\* "Idempotencia (1h)": it is for a notification that comes twice, so that one
\* processing of each notification leaves the last status in the table.
AnsweredIsCurrent ==
    Quiet => \A p \in Payments :
        mp[p] \in RawStatus /\ pay[p] # None => Recorded(p)

\* "Reabre si el saldo volvio a ser positivo y estaba PAID": a case that a
\* hook reopens has a positive balance.
BalanceIsZero(c) == IsZero(sumDebts(owed[c]), sumApprovedPayments(c))

ReopensOnlyPositive ==
    [][\A c \in Cases : kase[c].status = "PAID" /\ kase'[c].status = "OPEN"
                        /\ byHand' = byHand => ~BalanceIsZero(c)]_vars
=============================================================================
