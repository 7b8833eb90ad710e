------------------------------ MODULE Balance ------------------------------
(***************************************************************************)
(* Money and payment status: the pure part of cases.service.ts and         *)
(* payments.service.ts.  Amounts are whole cents: every amount the code    *)
(* compares has been rounded to two decimals (::numeric(18,2), toFixed(2)).*)
(***************************************************************************)
EXTENDS Integers, FiniteSetsExt

CONSTANTS
    Payments,   \* payments that Mercado Pago may report
    Cases,      \* rows of the cases table
    NoCase,     \* the answer of Mercado Pago names no case
    Amount,     \* transaction_amount of each payment, in cents
    CaseOf      \* the case a payment's metadata or external_reference names

ASSUME NoCaseAssumption == NoCase \notin Cases
ASSUME AmountAssumption == Amount \in [Payments -> Nat]
ASSUME CaseOfAssumption == CaseOf \in [Payments -> Cases \cup {NoCase}]

\* What Mercado Pago may answer as the status of a payment ("" when the
\* answer has none).
RawStatus == {"", "pending", "authorized", "in_process", "approved",
              "accredited", "rejected", "refunded", "charged_back"}

\* Faulty variant: "accredited" is not mapped.
mapMpStatusRaw(s) == IF s = "" THEN "unknown" ELSE s

mapMpStatus(s) ==
    IF s \in {"approved", "accredited"} THEN "approved"
    ELSE IF s = "" THEN "unknown" ELSE s

PaymentStatus == (RawStatus \ {"", "accredited"}) \cup {"unknown"}

\* The statuses sumApprovedPayments counts, and those that run the hooks.
Counted == {"approved", "paid", "accredited"}
HookStatus == {"approved", "accredited"}

\* The three places a debt is looked for; the first that is not zero wins.
Debts == [byDebtId : Nat, byCaseId : Nat, cents : Nat]

sumDebts(d) ==
    IF d.byDebtId # 0 THEN d.byDebtId
    ELSE IF d.byCaseId # 0 THEN d.byCaseId ELSE d.cents

PaymentsOf(c) == {p \in Payments : CaseOf[p] = c}

Total(S) == MapThenSumSet(LAMBDA p : Amount[p], S)

\* The balance left of a debt of d cents once the payments in S are counted.
balance(d, S) == d - Total(S)

\* One cent: the tolerance under which a balance counts as zero.
EPS == 1

IsZero(d, S) == balance(d, S) <= EPS
=============================================================================
