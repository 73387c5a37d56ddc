----------------------------- MODULE FraudAlerts -----------------------------
(***************************************************************************)
(* Fraud alerts of one card account, and what they do to its money: model  *)
(* alerts raised by flagged authorizations, customers' reports, the triage *)
(* that releases a hold or credits a charge, agents' resolutions, and the  *)
(* sweep that expires alerts nobody answered.  Composed with CardAccount,  *)
(* whose calls run beside these.                                           *)
(*                                                                         *)
(* A triage disputes one item, standing for several that are handled one   *)
(* after the other in one transaction, or none (recognized).  As in        *)
(* CardAccount, a call is split where another one can get in: at a read    *)
(* before the account lock, and where it commits midway.                   *)
(***************************************************************************)
EXTENDS CardAccount

CONSTANT
    MaxAlerts       \* bound: alerts ever raised

ASSUME AlertAssumption == MaxAlerts \in Nat

VARIABLES
    alerts          \* operations.fraud_alerts, each with its successful case actions

fraudVars == <<vars, alerts>>
-----------------------------------------------------------------------------
(* Items under suspicion or dispute: a hold or a posted line.              *)

Nothing == [kind |-> "NONE", at |-> 0]
HoldItem(i) == [kind |-> "HOLD", at |-> i]
LineItem(l) == [kind |-> "LINE", at |-> l]

Items == {HoldItem(i) : i \in DOMAIN holds} \cup {LineItem(l) : l \in DOMAIN journal}

FraudInit == Init /\ alerts = <<>>

\* create_alert
Alert(source, items) ==
    [source |-> source, status |-> "OPEN", items |-> items, answers |-> {}]

OpenAlerts == {a \in DOMAIN alerts : alerts[a].status = "OPEN"}

\* get_latest_customer_reported_alert_for_account, as a set of at most one.
Reported ==
    LET live == {a \in DOMAIN alerts : /\ alerts[a].source = "CUSTOMER"
                                       /\ alerts[a].status \in {"OPEN", "TRIAGED"}}
    IN  {a \in live : \A b \in live : b <= a}

\* The account and its neighbours are left alone.
Moneyless == UNCHANGED <<account, holds, journal, deposit>>

Start(c, record) == Begin(c, record) /\ UNCHANGED alerts
-----------------------------------------------------------------------------
(* Alerts raised by the model.                                             *)

Flaggable(c) == calls[c].op = "AUTHORIZE" /\ calls[c].amount <= account.available

\* The alert that is open takes the flagged hold, in the transaction of the hold.
AuthorizeOnAlert(c) ==
    /\ Flaggable(c)
    /\ holds' = Append(holds, Hold(c, "FLAGGED"))
    /\ \E a \in OpenAlerts :
          alerts' = [alerts EXCEPT ![a].items = @ \cup {HoldItem(Len(holds'))}]
    /\ account' = Recalculated(account, holds')
    /\ Return(c)
    /\ UNCHANGED <<journal, deposit>>

\* The secure message of a new alert commits the transaction, and with it ends the account
\* lock, before the available credit is recalculated.
RaiseAlert(c) ==
    /\ Flaggable(c) /\ OpenAlerts = {} /\ Len(alerts) < MaxAlerts
    /\ holds' = Append(holds, Hold(c, "FLAGGED"))
    /\ alerts' = Append(alerts, Alert("MODEL", {HoldItem(Len(holds'))}))
    /\ Continue(c, [op |-> "RAISED"])
    /\ UNCHANGED <<account, journal, deposit>>

\* The commit has expired the account object: it is read again, without the lock.
Reload(c) ==
    /\ calls[c].op = "RAISED"
    /\ Continue(c, [op |-> "RELOADED", seen |-> account,
                    available |-> Recalculated(account, holds).available])
    /\ Moneyless /\ UNCHANGED alerts

\* Only a column whose value differs from the one read is written.
Written(new, seen, current) == IF new = seen THEN current ELSE new

\* No call but one with a fresh alert recalculates without the account's lock.
RewriteAvailable(c) ==
    /\ calls[c].op = "RELOADED"
    /\ account' = [account EXCEPT
          !.available = Written(calls[c].available, calls[c].seen.available, @)]
    /\ Return(c)
    /\ UNCHANGED <<holds, journal, deposit, alerts>>
-----------------------------------------------------------------------------
(* Answers.                                                                *)

Disputable_always(item) == TRUE                 \* mutation: what became of the item is ignored
\* A hold still open, a charge not yet credited.
Disputable(item) ==
    CASE item.kind = "HOLD" -> holds[item.at].status \in Held
      [] item.kind = "LINE" -> /\ journal[item.at].kind = "CHARGE"
                               /\ KeyFree("CREDIT", journal[item.at].ref)

\* Ids must be among the alert's; authorization ids only where the alert names any.
Allowed(a, item) ==
    \/ item = Nothing
    \/ item \in alerts[a].items
    \/ item.kind = "HOLD" /\ \A other \in alerts[a].items : other.kind # "HOLD"

\* A triage reads the alert and the account, without a lock.  One with the workflow key of
\* an earlier one is answered from the case; other options make another key.
BeginTriage(c, a, item) ==
    /\ Allowed(a, item)
    /\ Start(c, [op |-> "TRIAGE", alert |-> a, item |-> item, was |-> alerts[a].status,
                 seen |-> account])

Answer(a, item, was, status) ==
    alerts' = [alerts EXCEPT ![a].answers = @ \cup {item},
                             ![a].status = Written(status, was, @)]

\* Recognized activity: no lock on the account.
Recognize(c) ==
    LET in == calls[c]
    IN  /\ in.op = "TRIAGE" /\ in.item = Nothing
        /\ Answer(in.alert, in.item, in.was, "RECOGNIZED")
        /\ Return(c)
        /\ Moneyless

Credit(line) == Post("CREDIT", line.ref, line.amount)

\* What is left of the account when a dispute has worked on the object it had read.
Repaid(seen, amount, hs) ==
    LET new == Recalculated([seen EXCEPT !.balance = @ - amount], hs)
    IN  [account EXCEPT !.balance = Written(new.balance, seen.balance, @),
                        !.available = Written(new.available, seen.available, @)]

\* void_fraud_authorization_hold and apply_fraud_provisional_credit, under the account lock,
\* which does not refresh the account object; the hold and the credits are read under it.
Remedy(item, seen) ==
    \/ /\ item.kind = "HOLD"
       /\ holds' = [holds EXCEPT ![item.at].status = "REVERSED"]
       /\ account' = Repaid(seen, 0, holds')
       /\ UNCHANGED <<journal, deposit>>
    \/ /\ item.kind = "LINE"
       /\ Credit(journal[item.at])
       /\ account' = Repaid(seen, journal[item.at].amount, holds)
       /\ UNCHANGED <<holds, deposit>>

\* The whole triage or nothing: a remedy that is refused rolls the case back.  What this
\* alert has remedied before is answered from its case actions.
Dispute(c) ==
    LET in == calls[c]
    IN  /\ in.op = "TRIAGE" /\ in.item # Nothing
        /\ \/ in.item \in alerts[in.alert].answers /\ Moneyless
           \/ /\ in.item \notin alerts[in.alert].answers
              /\ Disputable(in.item)
              /\ Remedy(in.item, in.seen)
        /\ Answer(in.alert, in.item, in.was, "TRIAGED")
        /\ Return(c)
-----------------------------------------------------------------------------
(* Customers' reports.                                                     *)

\* The account is found before it is locked.
BeginReport(c, item) == Start(c, [op |-> "REPORT", item |-> item, seen |-> account])

NoCase_noneReported == Reported = {}            \* mutation: the model's alerts overlooked
\* No alert is open, and no reported case under review.
NoCase == OpenAlerts = {} /\ Reported = {}

\* A report names pending (not flagged) holds or charges.
Reportable(item) ==
    CASE item.kind = "HOLD" -> holds[item.at].status = "PENDING"
      [] item.kind = "LINE" -> journal[item.at].kind = "CHARGE"

\* Under the account lock: with no alert open and no case reported, the alert is made and
\* committed, and the triage is a transaction of its own.
Report(c) ==
    LET item == calls[c].item
    IN  /\ calls[c].op = "REPORT" /\ Len(alerts) < MaxAlerts
        /\ NoCase /\ Reportable(item)
        /\ alerts' = Append(alerts, Alert("CUSTOMER", {item}))
        /\ Continue(c, [op |-> "REPORTED", alert |-> Len(alerts'), item |-> item])
        /\ Moneyless

TriageReport(c) ==
    LET in == calls[c]
    IN  /\ in.op = "REPORTED"
        /\ Continue(c, [op |-> "TRIAGE", alert |-> in.alert, item |-> in.item,
                        was |-> alerts[in.alert].status, seen |-> account])
        /\ Moneyless /\ UNCHANGED alerts

\* The same selection, reported again after its alert was left without a triage: remedied
\* at once, under the lock taken for the report.
ResumeReport(c) ==
    LET in == calls[c]
    IN  /\ in.op = "REPORT"
        /\ \E a \in Reported :
              /\ OpenAlerts = {a} /\ alerts[a].items = {in.item}
              /\ Reportable(in.item) /\ Disputable(in.item)
              /\ Remedy(in.item, in.seen)
              /\ Answer(a, in.item, "OPEN", "TRIAGED")
        /\ Return(c)
-----------------------------------------------------------------------------
(* Resolutions and the sweep read which alerts are open and then close     *)
(* them, whatever they have become.                                        *)

BeginResolve(c, a) ==
    /\ a \in OpenAlerts
    /\ Start(c, [op |-> "RESOLVE", alerts |-> {a}])

BeginSweep(c) ==
    LET due == {a \in OpenAlerts : alerts[a].source = "MODEL"}
    IN  due # {} /\ Start(c, [op |-> "SWEEP", alerts |-> due])

Close(c) ==
    LET closed == [RESOLVE |-> "RESOLVED", SWEEP |-> "EXPIRED"]
    IN  /\ calls[c].op \in DOMAIN closed
        /\ alerts' = [a \in DOMAIN alerts |->
              IF a \in calls[c].alerts THEN [alerts[a] EXCEPT !.status = closed[calls[c].op]]
                                       ELSE alerts[a]]
        /\ Return(c)
        /\ Moneyless
-----------------------------------------------------------------------------
Fraud(c) ==
    \/ AuthorizeOnAlert(c) \/ RaiseAlert(c) \/ Reload(c) \/ RewriteAvailable(c)
    \/ \E a \in DOMAIN alerts :
        BeginResolve(c, a) \/ \E item \in Items \cup {Nothing} : BeginTriage(c, a, item)
    \/ \E item \in Items : BeginReport(c, item)
    \/ Recognize(c) \/ Dispute(c) \/ Report(c) \/ TriageReport(c) \/ ResumeReport(c)
    \/ BeginSweep(c) \/ Close(c)

FraudNext == (Next /\ UNCHANGED alerts) \/ \E c \in Call : Fraud(c)

FraudSpec == FraudInit /\ [][FraudNext]_fraudVars
-----------------------------------------------------------------------------
AlertStatus == {"OPEN", "TRIAGED", "RECOGNIZED", "RESOLVED", "EXPIRED"}

Item == [kind: {"NONE", "HOLD", "LINE"}, at: Nat]

FraudCalls ==
    [op: {"RAISED"}] \cup [op: {"RELOADED"}, seen: Balances, available: Nat]
        \cup [op: {"TRIAGE"}, alert: Nat, item: Item, was: AlertStatus, seen: Balances]
        \cup [op: {"REPORT"}, item: Item, seen: Balances]
        \cup [op: {"REPORTED"}, alert: Nat, item: Item]
        \cup [op: {"RESOLVE", "SWEEP"}, alerts: SUBSET Nat]

\* Every variable stays in its domain.
TypeOK ==
    /\ MoneyTypeOK
    /\ calls \in [Call -> Requested \cup FraudCalls]
    /\ \A a \in DOMAIN alerts :
        /\ alerts[a].source \in {"MODEL", "CUSTOMER"}
        /\ alerts[a].status \in AlertStatus
        /\ alerts[a].items \subseteq Items /\ alerts[a].answers \subseteq Items \cup {Nothing}

\* Flagged authorizations and customers' reports race, and yet "one open fraud alert per
\* credit account": both look and create under the account lock.
OneOpenAlert == Cardinality(OpenAlerts) <= 1

\* A hold is released to the customer through one alert, however many triages of however
\* many alerts, retried or stale, dispute it (void_fraud_authorization_hold).
ReleasedOnce ==
    \A a, b \in DOMAIN alerts :
        \A i \in DOMAIN holds : HoldItem(i) \in alerts[a].answers \cap alerts[b].answers => a = b

\* The unlocked recalculation after a new alert, when something has moved since.
LateRewrite ==
    \E c \in Call : /\ calls[c].op = "RELOADED" /\ calls'[c] = Idle
                   /\ calls[c].available # Recalculated(account, holds).available

\* A new alert commits its hold before the available credit is recalculated.
EarlyCommit == \E c \in Call : calls[c].op = "AUTHORIZE" /\ calls'[c].op = "RAISED"

Used == account.balance + Total(holds)

\* A raised limit or a reversed fee adds to an available credit that a clamp keeps from
\* showing how much is used beyond the limit, or owed to the customer.
PastClamp ==
    /\ account'.limit # account.limit \/ \E c \in Call : calls[c].op = "FEE" /\ calls'[c] = Idle
    /\ Used > account.limit \/ Used' < 0

Overstated == account.available > Recalculated(account, holds).available

\* Whatever interleaves, the customer is left neither less credit than the limit, the
\* balance and the holds allow, nor more, unless a step works on an account object older
\* than its lock, or without one, or past a clamp (recalculate_available_credit).
CreditIsTrue ==
    [][/\ ~Withheld /\ Withheld' => StaleEnd \/ LateRewrite
       /\ ~Overstated /\ Overstated' => StaleEnd \/ LateRewrite \/ EarlyCommit \/ PastClamp
      ]_fraudVars

\* What this step approves fits what the limit, the balance and the holds leave.
ApprovalsFit ==
    \A i \in DOMAIN holds' \ DOMAIN holds :
        holds'[i].status \in Held => holds'[i].amount <= Recalculated(account, holds).available
-----------------------------------------------------------------------------
(* What the documentation says and the code does not do.                   *)

\* "Lookup Credit Account with pessimistic row locking to prevent limit overruns"
\* (process_authorization): an authorization is approved only if it fits what the limit,
\* the balance and the holds already placed leave.
ApprovedWithinLimit == [][ApprovalsFit]_fraudVars
=============================================================================
