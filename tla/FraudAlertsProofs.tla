-------------------------- MODULE FraudAlertsProofs --------------------------
(***************************************************************************)
(* Proofs about a card account and its fraud alerts: nothing is posted     *)
(* twice, no hold is released twice, one alert at most is open, the        *)
(* balance moves with the journal, and the available credit stays true.    *)
(*                                                                         *)
(* First the rows, of which Inv speaks; then sums over sequences, what     *)
(* holds and lines add up to; then the types and what a step does to the   *)
(* money.                                                                  *)
(***************************************************************************)
EXTENDS FraudAlerts, FiniteSetTheorems, TLAPS

Sources == {"MODEL", "CUSTOMER"}
Closing == {"TRIAGED", "RECOGNIZED", "RESOLVED", "EXPIRED"}

HoldRow == [rrn: Rrn, amount: Amount, status: Held \cup {"SETTLED", "REVERSED", "DECLINED"}]
Line == [kind: {"CHARGE", "REVERSAL", "PAYMENT", "CREDIT"}, ref: Rrn \cup PayKey,
         amount: Amount \cup Clearing]
AlertRow == [source: Sources, status: AlertStatus, items: SUBSET Item, answers: SUBSET Item]

Rows ==
    /\ holds \in Seq(HoldRow) /\ journal \in Seq(Line) /\ alerts \in Seq(AlertRow)

\* What a call has read names rows that are there.
Fits(in) ==
    /\ in.op = "AUTHORIZE" => in.rrn \in Rrn /\ in.amount \in Amount
    /\ in.op = "SETTLE" => in.hold \in DOMAIN holds /\ in.amount \in Clearing
    /\ in.op = "REVERSE" => in.hold \in DOMAIN holds
    /\ in.op = "FEE" => in.line \in DOMAIN journal
    /\ in.op = "PAY" => in.key \in PayKey /\ in.amount \in Amount
    /\ in.op = "TRIAGE" => in.alert \in DOMAIN alerts /\ in.item \in Items \cup {Nothing}
    /\ in.op = "REPORT" => in.item \in Items
    /\ in.op = "REPORTED" => in.alert \in DOMAIN alerts /\ in.item \in Items

\* A hold that an alert has released is not held any more.
ReleasedIsGone ==
    \A a \in DOMAIN alerts : \A i \in Nat :
        HoldItem(i) \in alerts[a].answers => i \in DOMAIN holds /\ holds[i].status \notin Held

\* Alerts and their case actions name holds and lines that are there.
AlertsName ==
    \A a \in DOMAIN alerts :
        alerts[a].items \subseteq Items /\ alerts[a].answers \subseteq Items \cup {Nothing}

OneIsOpen == \A a, b \in OpenAlerts : a = b

Inv ==
    /\ Rows /\ PostedOnce /\ AlertsName /\ ReleasedIsGone /\ ReleasedOnce /\ OneIsOpen
    /\ DOMAIN calls = Call /\ calls = [c \in Call |-> calls[c]]
    /\ \A c \in Call : Fits(calls[c])
-----------------------------------------------------------------------------
(* What a step may do to the rows.                                         *)

\* A hold is recorded, or ends.
HoldsMove ==
    \/ holds' = holds
    \/ \E row \in HoldRow : holds' = Append(holds, row)
    \/ \E i \in DOMAIN holds, s \in {"SETTLED", "REVERSED"} :
            holds' = [holds EXCEPT ![i].status = s]

\* A line is posted under a fresh key.
JournalMoves ==
    \/ journal' = journal
    \/ \E l \in Line : KeyFree(l.kind, l.ref) /\ journal' = Append(journal, l)

\* The item is answered already, or this step ends the hold.
Releases(a, item) ==
    \/ item \in alerts[a].answers
    \/ item.kind # "HOLD"
    \/ /\ item.at \in DOMAIN holds /\ holds[item.at].status \in Held
       /\ item.at \in DOMAIN holds' /\ holds'[item.at].status \notin Held

\* An alert is raised while none is open, takes an item, is answered or is closed.
AlertsMove ==
    \/ alerts' = alerts
    \/ \E source \in Sources, items \in SUBSET Items' :
            OpenAlerts = {} /\ alerts' = Append(alerts, Alert(source, items))
    \/ \E a \in DOMAIN alerts, item \in Items' :
            alerts' = [alerts EXCEPT ![a].items = @ \cup {item}]
    \/ \E a \in DOMAIN alerts, item \in Items' \cup {Nothing}, status \in Closing :
            (\E was : Answer(a, item, was, status)) /\ Releases(a, item)
    \/ \E status \in Closing : \E due :
            alerts' = [a \in DOMAIN alerts |->
                IF a \in due THEN [alerts[a] EXCEPT !.status = status] ELSE alerts[a]]

Move == HoldsMove /\ JournalMoves /\ AlertsMove

\* Holds stay, and none is held again.
LEMMA HoldsStay ==
    ASSUME Rows, HoldsMove
    PROVE  /\ holds' \in Seq(HoldRow) /\ DOMAIN holds \subseteq DOMAIN holds'
           /\ \A i \in DOMAIN holds : holds'[i].status \in Held => holds[i].status \in Held
<1>1. holds \in Seq(HoldRow)
    BY DEF Rows
<1>2. ASSUME NEW row \in HoldRow, holds' = Append(holds, row)
      PROVE  /\ holds' \in Seq(HoldRow) /\ DOMAIN holds \subseteq DOMAIN holds'
             /\ \A i \in DOMAIN holds : holds'[i] = holds[i]
    BY <1>1, <1>2
<1>3. ASSUME NEW i \in DOMAIN holds, NEW s \in {"SETTLED", "REVERSED"},
             holds' = [holds EXCEPT ![i].status = s]
      PROVE  /\ holds' \in Seq(HoldRow) /\ DOMAIN holds \subseteq DOMAIN holds'
             /\ \A j \in DOMAIN holds : holds'[j].status \in Held => holds[j].status \in Held
  <2>1. holds[i] \in HoldRow
      BY <1>1
  <2>2. [holds[i] EXCEPT !.status = s] \in HoldRow
      BY <2>1 DEF HoldRow
  <2>3. [holds[i] EXCEPT !.status = s].status \notin Held
      BY <2>1 DEF HoldRow, Held
  <2>4. holds' = [holds EXCEPT ![i] = [holds[i] EXCEPT !.status = s]]
      BY <1>3
  <2> QED BY <1>1, <2>2, <2>3, <2>4
<1> QED BY <1>1, <1>2, <1>3 DEF HoldsMove

\* Lines stay, and no key is posted twice.
LEMMA LinesStay ==
    ASSUME Rows, PostedOnce, JournalMoves
    PROVE  journal' \in Seq(Line) /\ DOMAIN journal \subseteq DOMAIN journal' /\ PostedOnce'
<1>1. journal \in Seq(Line)
    BY DEF Rows
<1>2. CASE journal' = journal
    BY <1>1, <1>2 DEF PostedOnce
<1>3. ASSUME NEW l \in Line, KeyFree(l.kind, l.ref), journal' = Append(journal, l)
      PROVE  journal' \in Seq(Line) /\ DOMAIN journal \subseteq DOMAIN journal' /\ PostedOnce'
  <2>1. /\ journal' \in Seq(Line) /\ DOMAIN journal' = 1..(Len(journal) + 1)
        /\ DOMAIN journal = 1..Len(journal) /\ Len(journal) \in Nat
        /\ journal'[Len(journal) + 1] = l
        /\ \A i \in DOMAIN journal : journal'[i] = journal[i]
      BY <1>1, <1>3
  <2>2. \A i \in DOMAIN journal' : i \in DOMAIN journal \/ i = Len(journal) + 1
      BY <2>1
  <2>3. PostedOnce'
      BY <1>3, <2>1, <2>2 DEF PostedOnce, KeyFree
  <2> QED BY <2>1, <2>3
<1> QED BY <1>2, <1>3 DEF JournalMoves

\* What happens to an alert that is there: it may be closed, take items and be answered.
AlertGoes(a) ==
    /\ alerts'[a] \in AlertRow
    /\ alerts'[a].status = "OPEN" => alerts[a].status = "OPEN"
    /\ \A i : HoldItem(i) \in alerts'[a].answers \ alerts[a].answers => Releases(a, HoldItem(i))

\* Alerts stay, only a raised one is open anew, and only a released hold is answered anew,
\* by one alert.
LEMMA AlertsStay ==
    ASSUME Rows, AlertsMove, Items' \cup {Nothing} \subseteq Item
    PROVE  /\ alerts' \in Seq(AlertRow) /\ DOMAIN alerts \subseteq DOMAIN alerts'
           /\ \A a \in DOMAIN alerts : AlertGoes(a)
           /\ \A a \in DOMAIN alerts' \ DOMAIN alerts :
                OpenAlerts = {} /\ alerts'[a].answers = {} /\ DOMAIN alerts' = DOMAIN alerts \cup {a}
           /\ \E one : \A a \in DOMAIN alerts : a # one => alerts'[a].answers = alerts[a].answers
<1>1. /\ alerts \in Seq(AlertRow) /\ DOMAIN alerts = 1..Len(alerts) /\ Len(alerts) \in Nat
      /\ \A a \in DOMAIN alerts : alerts[a] \in AlertRow
    BY DEF Rows
<1>2. CASE alerts' = alerts
    BY <1>1, <1>2 DEF AlertGoes
<1>3. ASSUME NEW source \in Sources, NEW items \in SUBSET Item, OpenAlerts = {},
             alerts' = Append(alerts, Alert(source, items))
      PROVE  /\ alerts' \in Seq(AlertRow) /\ DOMAIN alerts \subseteq DOMAIN alerts'
             /\ \A a \in DOMAIN alerts : AlertGoes(a) /\ alerts'[a].answers = alerts[a].answers
             /\ \A a \in DOMAIN alerts' \ DOMAIN alerts :
                    /\ alerts'[a].answers = {} /\ DOMAIN alerts' = DOMAIN alerts \cup {a}
  <2>1. Alert(source, items) \in AlertRow /\ Alert(source, items).answers = {}
      BY DEF Alert, AlertRow, AlertStatus
  <2>2. /\ alerts' \in Seq(AlertRow) /\ DOMAIN alerts' = 1..(Len(alerts) + 1)
        /\ alerts'[Len(alerts) + 1] = Alert(source, items)
        /\ \A a \in DOMAIN alerts : alerts'[a] = alerts[a]
      BY <1>1, <1>3, <2>1
  <2>3. \A a \in DOMAIN alerts : AlertGoes(a) /\ alerts'[a].answers = alerts[a].answers
      BY <1>1, <2>2 DEF AlertGoes
  <2>4. \A a \in DOMAIN alerts' \ DOMAIN alerts : a = Len(alerts) + 1
      BY <1>1, <2>2
  <2>5. DOMAIN alerts' = DOMAIN alerts \cup {Len(alerts) + 1}
      BY <1>1, <2>2
  <2> QED BY <2>1, <2>2, <2>3, <2>4, <2>5
<1>4. ASSUME NEW b \in DOMAIN alerts, NEW new \in AlertRow,
             alerts' = [alerts EXCEPT ![b] = new],
             new.status = "OPEN" => alerts[b].status = "OPEN",
             \A i : HoldItem(i) \in new.answers \ alerts[b].answers => Releases(b, HoldItem(i))
      PROVE  /\ alerts' \in Seq(AlertRow) /\ DOMAIN alerts' = DOMAIN alerts
             /\ \A a \in DOMAIN alerts :
                    AlertGoes(a) /\ (a # b => alerts'[a].answers = alerts[a].answers)
  <2>1. /\ alerts' \in Seq(AlertRow) /\ DOMAIN alerts' = DOMAIN alerts /\ alerts'[b] = new
        /\ \A a \in DOMAIN alerts : a # b => alerts'[a] = alerts[a]
      BY <1>1, <1>4
  <2>2. AlertGoes(b)
      BY <1>4, <2>1 DEF AlertGoes
  <2>3. \A a \in DOMAIN alerts : a # b => AlertGoes(a)
      BY <1>1, <2>1 DEF AlertGoes
  <2> QED BY <2>1, <2>2, <2>3
<1>5. ASSUME NEW b \in DOMAIN alerts, NEW item \in Item,
             alerts' = [alerts EXCEPT ![b].items = @ \cup {item}]
      PROVE  /\ alerts' \in Seq(AlertRow) /\ DOMAIN alerts' = DOMAIN alerts
             /\ \A a \in DOMAIN alerts :
                    AlertGoes(a) /\ (a # b => alerts'[a].answers = alerts[a].answers)
  <2> DEFINE new == [alerts[b] EXCEPT !.items = @ \cup {item}]
  <2>1. new \in AlertRow /\ new.status = alerts[b].status /\ new.answers = alerts[b].answers
      BY <1>1 DEF AlertRow
  <2>2. alerts' = [alerts EXCEPT ![b] = new]
      BY <1>5
  <2> HIDE DEF new
  <2> QED BY <1>4, <2>1, <2>2
<1>6. ASSUME NEW b \in DOMAIN alerts, NEW item \in Item, NEW was, NEW status \in Closing,
             Answer(b, item, was, status), Releases(b, item)
      PROVE  /\ alerts' \in Seq(AlertRow) /\ DOMAIN alerts' = DOMAIN alerts
             /\ \A a \in DOMAIN alerts :
                    AlertGoes(a) /\ (a # b => alerts'[a].answers = alerts[a].answers)
  <2> DEFINE s == Written(status, was, alerts[b].status)
             new == [alerts[b] EXCEPT !.answers = @ \cup {item}, !.status = s]
  <2>1. s \in AlertStatus /\ (s = "OPEN" => alerts[b].status = "OPEN")
    <3>1. alerts[b].status \in AlertStatus
        BY <1>1 DEF AlertRow
    <3> QED BY <3>1 DEF Written, AlertStatus, Closing
  <2> HIDE DEF s
  <2>2. new \in AlertRow /\ new.status = s /\ new.answers = alerts[b].answers \cup {item}
      BY <1>1, <2>1 DEF AlertRow
  <2>3. alerts' = [alerts EXCEPT ![b] = new]
      BY <1>1, <1>6 DEF Answer, s
  <2>4. \A i : HoldItem(i) \in new.answers \ alerts[b].answers => Releases(b, HoldItem(i))
      BY <1>6, <2>2
  <2> HIDE DEF new
  <2> QED BY <1>4, <2>1, <2>2, <2>3, <2>4
<1>7. ASSUME NEW due, NEW status \in Closing,
             alerts' = [a \in DOMAIN alerts |->
                 IF a \in due THEN [alerts[a] EXCEPT !.status = status] ELSE alerts[a]]
      PROVE  /\ alerts' \in Seq(AlertRow) /\ DOMAIN alerts' = DOMAIN alerts
             /\ \A a \in DOMAIN alerts : AlertGoes(a) /\ alerts'[a].answers = alerts[a].answers
  <2>1. \A x \in AlertRow :
            /\ [x EXCEPT !.status = status] \in AlertRow
            /\ [x EXCEPT !.status = status].status = status
            /\ [x EXCEPT !.status = status].answers = x.answers
      BY DEF AlertRow, AlertStatus, Closing
  <2>2. \A a \in DOMAIN alerts : alerts'[a] \in AlertRow
      BY <1>1, <1>7, <2>1
  <2>3. alerts' \in Seq(AlertRow) /\ DOMAIN alerts' = DOMAIN alerts
    <3>1. alerts' \in [1..Len(alerts) -> AlertRow]
        BY <1>1, <1>7, <2>2
    <3> QED BY <1>1, <3>1
  <2>4. \A a \in DOMAIN alerts : AlertGoes(a) /\ alerts'[a].answers = alerts[a].answers
      BY <1>1, <1>7, <2>1, <2>2 DEF AlertGoes, Closing
  <2> QED BY <2>3, <2>4
<1> QED BY <1>2, <1>3, <1>5, <1>6, <1>7 DEF AlertsMove

\* Holds and lines are items, and stay.
LEMMA ItemsStay ==
    ASSUME Inv, HoldsMove, JournalMoves
    PROVE  Items \subseteq Items' /\ Items' \cup {Nothing} \subseteq Item
<1>1. /\ DOMAIN holds \subseteq DOMAIN holds' /\ DOMAIN holds' \subseteq Nat
      /\ DOMAIN journal \subseteq DOMAIN journal' /\ DOMAIN journal' \subseteq Nat
    BY HoldsStay, LinesStay DEF Inv
<1> QED BY <1>1 DEF Items, HoldItem, LineItem, Nothing, Item

\* Alerts go on naming items.
LEMMA NamesStay ==
    ASSUME Inv, Move
    PROVE  AlertsName'
<1>1. Items \subseteq Items' /\ Items' \cup {Nothing} \subseteq Item
    BY ItemsStay DEF Move
<1>2. /\ alerts \in Seq(AlertRow) /\ DOMAIN alerts = 1..Len(alerts) /\ Len(alerts) \in Nat
      /\ \A a \in DOMAIN alerts :
            /\ alerts[a] \in AlertRow /\ alerts[a].items \subseteq Items'
            /\ alerts[a].answers \subseteq Items' \cup {Nothing}
    BY <1>1 DEF Inv, Rows, AlertsName
<1> SUFFICES ASSUME NEW a \in DOMAIN alerts'
             PROVE  /\ alerts'[a].items \subseteq Items'
                    /\ alerts'[a].answers \subseteq Items' \cup {Nothing}
    BY DEF AlertsName, Nothing
<1>3. CASE alerts' = alerts
    BY <1>2, <1>3
<1>4. ASSUME NEW source \in Sources, NEW items \in SUBSET Items',
             alerts' = Append(alerts, Alert(source, items))
      PROVE  alerts'[a].items \subseteq Items' /\ alerts'[a].answers \subseteq Items' \cup {Nothing}
  <2>1. (a \in DOMAIN alerts /\ alerts'[a] = alerts[a]) \/ alerts'[a] = Alert(source, items)
      BY <1>2, <1>4
  <2> QED BY <1>2, <2>1 DEF Alert
<1>5. ASSUME NEW b \in DOMAIN alerts, NEW item \in Items',
             alerts' = [alerts EXCEPT ![b].items = @ \cup {item}]
      PROVE  alerts'[a].items \subseteq Items' /\ alerts'[a].answers \subseteq Items' \cup {Nothing}
  <2>1. /\ a \in DOMAIN alerts
        /\ alerts'[a].items \subseteq alerts[a].items \cup {item}
        /\ alerts'[a].answers = alerts[a].answers
      BY <1>2, <1>5 DEF AlertRow
  <2> QED BY <1>2, <2>1
<1>6. ASSUME NEW b \in DOMAIN alerts, NEW item \in Items' \cup {Nothing}, NEW was,
             NEW status \in Closing, Answer(b, item, was, status)
      PROVE  alerts'[a].items \subseteq Items' /\ alerts'[a].answers \subseteq Items' \cup {Nothing}
  <2>1. /\ a \in DOMAIN alerts
        /\ alerts'[a].items = alerts[a].items
        /\ alerts'[a].answers \subseteq alerts[a].answers \cup {item}
      BY <1>2, <1>6 DEF Answer, AlertRow
  <2> QED BY <1>2, <2>1
<1>7. ASSUME NEW due, NEW status \in Closing,
             alerts' = [x \in DOMAIN alerts |->
                 IF x \in due THEN [alerts[x] EXCEPT !.status = status] ELSE alerts[x]]
      PROVE  alerts'[a].items \subseteq Items' /\ alerts'[a].answers \subseteq Items' \cup {Nothing}
  <2>1. a \in DOMAIN alerts /\ alerts'[a].items = alerts[a].items
        /\ alerts'[a].answers = alerts[a].answers
      BY <1>2, <1>7 DEF AlertRow
  <2> QED BY <1>2, <2>1
<1> QED BY <1>3, <1>4, <1>5, <1>6, <1>7 DEF Move, AlertsMove

\* A step of the rows keeps what is said of them.
LEMMA MoveKeeps ==
    ASSUME Inv, Move
    PROVE  /\ Rows' /\ PostedOnce' /\ AlertsName'
           /\ ReleasedIsGone' /\ ReleasedOnce' /\ OneIsOpen'
           /\ DOMAIN holds \subseteq DOMAIN holds' /\ DOMAIN journal \subseteq DOMAIN journal'
           /\ DOMAIN alerts \subseteq DOMAIN alerts'
<1>1. /\ Rows' /\ PostedOnce' /\ DOMAIN holds \subseteq DOMAIN holds'
      /\ DOMAIN journal \subseteq DOMAIN journal' /\ DOMAIN alerts \subseteq DOMAIN alerts'
      /\ \A i \in DOMAIN holds : holds'[i].status \in Held => holds[i].status \in Held
    BY HoldsStay, LinesStay, AlertsStay, ItemsStay DEF Inv, Move, Rows
<1>2. /\ \A a \in DOMAIN alerts : AlertGoes(a)
      /\ \A a \in DOMAIN alerts' \ DOMAIN alerts :
            OpenAlerts = {} /\ alerts'[a].answers = {} /\ DOMAIN alerts' = DOMAIN alerts \cup {a}
    BY AlertsStay, ItemsStay DEF Inv, Move
<1>3. PICK one : \A a \in DOMAIN alerts : a # one => alerts'[a].answers = alerts[a].answers
    BY AlertsStay, ItemsStay DEF Inv, Move
<1>4. ASSUME NEW a \in DOMAIN alerts', NEW i \in Nat, HoldItem(i) \in alerts'[a].answers
      PROVE  /\ a \in DOMAIN alerts
             /\ \/ HoldItem(i) \in alerts[a].answers
                \/ /\ a = one /\ i \in DOMAIN holds /\ holds[i].status \in Held
                   /\ i \in DOMAIN holds' /\ holds'[i].status \notin Held
  <2>1. a \in DOMAIN alerts
      BY <1>2, <1>4
  <2>2. CASE HoldItem(i) \notin alerts[a].answers
    <3>1. Releases(a, HoldItem(i)) /\ a = one
        BY <1>2, <1>3, <1>4, <2>1, <2>2 DEF AlertGoes
    <3> QED BY <2>1, <2>2, <3>1 DEF Releases, HoldItem
  <2> QED BY <2>1, <2>2
<1>5. ReleasedIsGone'
  <2> SUFFICES ASSUME NEW a \in DOMAIN alerts', NEW i \in Nat, HoldItem(i) \in alerts'[a].answers
               PROVE  i \in DOMAIN holds' /\ holds'[i].status \notin Held
      BY DEF ReleasedIsGone, HoldItem
  <2> QED BY <1>1, <1>4 DEF Inv, ReleasedIsGone
<1>6. ReleasedOnce'
  <2> SUFFICES ASSUME NEW a \in DOMAIN alerts', NEW b \in DOMAIN alerts', NEW i \in DOMAIN holds',
                      HoldItem(i) \in alerts'[a].answers, HoldItem(i) \in alerts'[b].answers
               PROVE  a = b
      BY DEF ReleasedOnce, HoldItem
  <2>1. i \in Nat
      BY <1>1 DEF Rows
  <2>2. CASE HoldItem(i) \in alerts[a].answers /\ HoldItem(i) \in alerts[b].answers
    <3>1. a \in DOMAIN alerts /\ b \in DOMAIN alerts /\ i \in DOMAIN holds
        BY <1>4, <2>1, <2>2 DEF Inv, ReleasedIsGone
    <3> QED BY <2>2, <3>1 DEF Inv, ReleasedOnce
  <2>3. CASE HoldItem(i) \notin alerts[a].answers /\ HoldItem(i) \notin alerts[b].answers
      BY <1>4, <2>1, <2>3
  <2>4. ASSUME NEW x \in DOMAIN alerts', NEW y \in DOMAIN alerts',
               HoldItem(i) \in alerts'[x].answers, HoldItem(i) \in alerts'[y].answers,
               HoldItem(i) \in alerts[x].answers, HoldItem(i) \notin alerts[y].answers
        PROVE  FALSE
      BY <1>4, <2>1, <2>4 DEF Inv, ReleasedIsGone
  <2> QED BY <2>2, <2>3, <2>4
<1>7. OneIsOpen'
  <2> SUFFICES ASSUME NEW a \in DOMAIN alerts', NEW b \in DOMAIN alerts',
                      alerts'[a].status = "OPEN", alerts'[b].status = "OPEN"
               PROVE  a = b
      BY DEF OneIsOpen, OpenAlerts
  <2>1. \A x \in DOMAIN alerts : alerts'[x].status = "OPEN" => x \in OpenAlerts
      BY <1>2 DEF AlertGoes, OpenAlerts
  <2>2. CASE a \in DOMAIN alerts /\ b \in DOMAIN alerts
      BY <2>1, <2>2 DEF Inv, OneIsOpen
  <2>3. CASE a \notin DOMAIN alerts
      BY <1>2, <2>1, <2>3
  <2>4. CASE b \notin DOMAIN alerts
      BY <1>2, <2>1, <2>4
  <2> QED BY <2>2, <2>3, <2>4
<1> QED BY <1>1, <1>5, <1>6, <1>7, NamesStay
-----------------------------------------------------------------------------
(* Every action is such a step.                                            *)

\* The call c moves the rows and goes on with what it has read, or returns.
Effect(c) ==
    Move /\ \E in : calls' = [calls EXCEPT ![c] = in] /\ Fits(in)'

\* Rows that only grow keep what calls have read.
LEMMA EffectKeeps ==
    ASSUME Inv, NEW c \in Call, Effect(c)
    PROVE  Inv'
<1>1. /\ Rows' /\ PostedOnce' /\ AlertsName'
      /\ ReleasedIsGone' /\ ReleasedOnce' /\ OneIsOpen'
      /\ DOMAIN holds \subseteq DOMAIN holds' /\ DOMAIN journal \subseteq DOMAIN journal'
      /\ DOMAIN alerts \subseteq DOMAIN alerts'
    BY MoveKeeps DEF Effect
<1>2. PICK in : calls' = [calls EXCEPT ![c] = in] /\ Fits(in)'
    BY DEF Effect
<1>3. DOMAIN calls' = Call /\ calls' = [d \in Call |-> calls'[d]]
    BY <1>2 DEF Inv
<1>4. calls'[c] = in /\ \A d \in Call : d # c => calls'[d] = calls[d]
    BY <1>2 DEF Inv
<1>5. Items \subseteq Items'
    BY <1>1 DEF Items
<1>6. \A x : Fits(x) => Fits(x)'
    BY <1>1, <1>5 DEF Fits
<1>7. ASSUME NEW d \in Call PROVE Fits(calls[d])'
  <2>1. Fits(calls[d])
      BY DEF Inv
  <2> QED BY <1>2, <1>4, <1>6, <2>1 DEF Fits
<1> QED BY <1>1, <1>3, <1>7 DEF Inv, Fits

\* What a call in progress names.
LEMMA CallFits ==
    ASSUME Inv, NEW c \in Call
    PROVE  /\ Fits(calls[c])
           /\ \A i \in DOMAIN holds : holds[i] \in HoldRow /\ i \in Nat
           /\ \A i \in DOMAIN journal : journal[i] \in Line /\ i \in Nat
           /\ \A a \in DOMAIN alerts : alerts[a] \in AlertRow /\ a \in Nat
BY DEF Inv, Rows

\* A call that leaves the rows alone.
LEMMA QuietEffect ==
    ASSUME Inv, NEW c \in Call, UNCHANGED <<holds, journal, alerts>>,
           NEW in, calls' = [calls EXCEPT ![c] = in], Fits(in)
    PROVE  Effect(c)
<1>1. Move
    BY DEF Move, HoldsMove, JournalMoves, AlertsMove
<1>2. Items' = Items
    BY DEF Items
<1>3. Fits(in)'
    BY <1>2 DEF Fits
<1> QED BY <1>1, <1>3 DEF Effect

\* A call that returns to its caller.
LEMMA ReturnEffect ==
    ASSUME NEW c \in Call, Move, Return(c)
    PROVE  Effect(c)
<1>1. Fits(Idle)'
    BY DEF Fits, Idle
<1> QED BY <1>1 DEF Effect, Return, Continue, Idle

\* The calls of the card network.
LEMMA NetworkEffect ==
    ASSUME Inv, NEW c \in Call, UNCHANGED alerts,
           \/ \E rrn \in Rrn, a \in Amount : BeginAuthorize(c, rrn, a)
           \/ \E i \in DOMAIN holds : BeginReverse(c, i) \/ \E a \in Clearing : BeginSettle(c, i, a)
           \/ Authorize(c) \/ Settle(c) \/ ReverseHold(c)
    PROVE  Effect(c)
<1>1. CASE \E rrn \in Rrn, a \in Amount : BeginAuthorize(c, rrn, a)
  <2>1. PICK rrn \in Rrn, a \in Amount : BeginAuthorize(c, rrn, a)
      BY <1>1
  <2> QED BY <2>1, QuietEffect DEF BeginAuthorize, Begin, Fits
<1>2. ASSUME NEW i \in DOMAIN holds, BeginReverse(c, i) PROVE Effect(c)
    BY <1>2, QuietEffect DEF BeginReverse, Begin, Fits
<1>3. ASSUME NEW i \in DOMAIN holds, NEW a \in Clearing, BeginSettle(c, i, a) PROVE Effect(c)
    BY <1>3, QuietEffect DEF BeginSettle, Begin, Fits
<1>4. CASE Authorize(c)
  <2>1. \A s \in Held \cup {"DECLINED"} : Hold(c, s) \in HoldRow
    <3>1. calls[c].rrn \in Rrn /\ calls[c].amount \in Amount
        BY <1>4, CallFits DEF Authorize, Fits
    <3> QED BY <3>1 DEF Hold, HoldRow
  <2>2. Move
      BY <1>4, <2>1 DEF Authorize, Move, HoldsMove, JournalMoves, AlertsMove
  <2> QED BY <1>4, <2>2, ReturnEffect DEF Authorize
<1>5. CASE Settle(c)
  <2> DEFINE i == calls[c].hold
             l == [kind |-> "CHARGE", ref |-> holds[i].rrn, amount |-> calls[c].amount]
  <2>1. i \in DOMAIN holds /\ calls[c].amount \in Clearing /\ holds[i] \in HoldRow
      BY <1>5, CallFits DEF Settle, Fits
  <2>2. l \in Line /\ KeyFree(l.kind, l.ref)
      BY <1>5, <2>1 DEF Settle, Line, HoldRow
  <2>3. holds' = [holds EXCEPT ![i].status = "SETTLED"] /\ journal' = Append(journal, l)
      BY <1>5 DEF Settle, Post
  <2> HIDE DEF l
  <2>4. Move
      BY <2>1, <2>2, <2>3 DEF Move, HoldsMove, JournalMoves, AlertsMove
  <2> QED BY <1>5, <2>4, ReturnEffect DEF Settle
<1>6. CASE ReverseHold(c)
  <2>1. calls[c].hold \in DOMAIN holds
      BY <1>6, CallFits DEF ReverseHold, Fits
  <2>2. Move
      BY <1>6, <2>1 DEF ReverseHold, Move, HoldsMove, JournalMoves, AlertsMove
  <2> QED BY <1>6, <2>2, ReturnEffect DEF ReverseHold
<1> QED BY <1>1, <1>2, <1>3, <1>4, <1>5, <1>6

\* The calls of the servicing of the account.
LEMMA ServicingEffect ==
    ASSUME Inv, NEW c \in Call, UNCHANGED alerts,
           \/ \E i \in DOMAIN journal : BeginFeeReversal(c, i)
           \/ \E k \in PayKey, a \in Amount : BeginPayment(c, k, a)
           \/ FeeReversal(c) \/ Payment(c) \/ Abort(c)
    PROVE  Effect(c)
<1>1. ASSUME NEW i \in DOMAIN journal, BeginFeeReversal(c, i) PROVE Effect(c)
    BY <1>1, QuietEffect DEF BeginFeeReversal, Begin, Fits
<1>2. ASSUME NEW k \in PayKey, NEW a \in Amount, BeginPayment(c, k, a) PROVE Effect(c)
    BY <1>2, QuietEffect DEF BeginPayment, Begin, Fits
<1>3. CASE FeeReversal(c)
  <2> DEFINE line == journal[calls[c].line]
             l == [kind |-> "REVERSAL", ref |-> line.ref, amount |-> line.amount]
  <2>1. line \in Line
      BY <1>3, CallFits DEF FeeReversal, Fits
  <2>2. l \in Line /\ KeyFree(l.kind, l.ref) /\ journal' = Append(journal, l)
      BY <1>3, <2>1 DEF FeeReversal, Post, Line
  <2> HIDE DEF l
  <2>3. Move
      BY <1>3, <2>2 DEF FeeReversal, Move, HoldsMove, JournalMoves, AlertsMove
  <2> QED BY <1>3, <2>3, ReturnEffect DEF FeeReversal
<1>4. CASE Payment(c)
  <2> DEFINE l == [kind |-> "PAYMENT", ref |-> calls[c].key, amount |-> calls[c].amount]
  <2>1. calls[c].key \in PayKey /\ calls[c].amount \in Amount
      BY <1>4, CallFits DEF Payment, Fits
  <2>2. l \in Line /\ KeyFree(l.kind, l.ref) /\ journal' = Append(journal, l)
      BY <1>4, <2>1 DEF Payment, Post, Line
  <2> HIDE DEF l
  <2>3. Move
      BY <1>4, <2>2 DEF Payment, Move, HoldsMove, JournalMoves, AlertsMove
  <2> QED BY <1>4, <2>3, ReturnEffect DEF Payment
<1>5. CASE Abort(c)
  <2>1. Move
      BY <1>5 DEF Abort, Move, HoldsMove, JournalMoves, AlertsMove
  <2> QED BY <1>5, <2>1, ReturnEffect DEF Abort
<1> QED BY <1>1, <1>2, <1>3, <1>4, <1>5

\* What an item is about.
LEMMA ItemsAre ==
    ASSUME Inv, NEW item \in Items \cup {Nothing}
    PROVE  /\ item \in Item
           /\ item.kind = "HOLD" => item.at \in DOMAIN holds
           /\ item.kind = "LINE" => item.at \in DOMAIN journal
<1>1. /\ \A i \in DOMAIN holds : i \in Nat
      /\ \A i \in DOMAIN journal : i \in Nat
    BY DEF Inv, Rows
<1> QED BY <1>1 DEF Items, HoldItem, LineItem, Nothing, Item

\* A remedy ends the disputed hold or credits the disputed charge for the first time.
LEMMA RemedyMoves ==
    ASSUME Inv, NEW item \in Items, NEW seen, Disputable(item), Remedy(item, seen)
    PROVE  HoldsMove /\ JournalMoves /\ \A a : Releases(a, item)
<1>1. CASE item.kind = "HOLD"
  <2>1. /\ item.at \in DOMAIN holds /\ holds[item.at].status \in Held
        /\ holds[item.at] \in HoldRow
      BY <1>1, ItemsAre DEF Disputable, Inv, Rows
  <2>2. holds' = [holds EXCEPT ![item.at].status = "REVERSED"] /\ UNCHANGED journal
      BY <1>1 DEF Remedy
  <2>3. DOMAIN holds' = DOMAIN holds /\ holds'[item.at].status = "REVERSED"
      BY <2>1, <2>2 DEF HoldRow
  <2> QED BY <2>1, <2>2, <2>3 DEF HoldsMove, JournalMoves, Releases, Held
<1>2. CASE item.kind = "LINE"
  <2> DEFINE line == journal[item.at]
             l == [kind |-> "CREDIT", ref |-> line.ref, amount |-> line.amount]
  <2>1. line \in Line /\ KeyFree("CREDIT", line.ref)
      BY <1>2, ItemsAre DEF Disputable, Inv, Rows
  <2>2. l \in Line /\ KeyFree(l.kind, l.ref)
      BY <2>1 DEF Line
  <2>3. UNCHANGED holds /\ journal' = Append(journal, l)
      BY <1>2 DEF Remedy, Credit, Post
  <2> HIDE DEF l
  <2> QED BY <1>2, <2>2, <2>3 DEF HoldsMove, JournalMoves, Releases
<1> QED BY <1>1, <1>2 DEF Remedy

\* The alerts of flagged authorizations.
LEMMA RaiseEffect ==
    ASSUME Inv, NEW c \in Call,
           AuthorizeOnAlert(c) \/ RaiseAlert(c) \/ Reload(c) \/ RewriteAvailable(c)
    PROVE  Effect(c)
<1>1. ASSUME Flaggable(c), holds' = Append(holds, Hold(c, "FLAGGED"))
      PROVE  HoldsMove /\ HoldItem(Len(holds')) \in Items'
  <2>1. calls[c].rrn \in Rrn /\ calls[c].amount \in Amount
      BY <1>1, CallFits DEF Flaggable, Fits
  <2>2. Hold(c, "FLAGGED") \in HoldRow
      BY <2>1 DEF Hold, HoldRow, Held
  <2>3. PICK n : n = Len(holds')
      OBVIOUS
  <2>4. n \in DOMAIN holds'
      BY <1>1, <2>2, <2>3 DEF Inv, Rows
  <2>5. HoldItem(n) \in Items'
      BY <2>4 DEF Items, HoldItem
  <2> QED BY <1>1, <2>2, <2>3, <2>5 DEF HoldsMove
<1>2. CASE AuthorizeOnAlert(c)
  <2>1. AlertsMove /\ HoldsMove
      BY <1>1, <1>2 DEF AuthorizeOnAlert, AlertsMove, OpenAlerts
  <2>2. Move
      BY <1>2, <2>1 DEF AuthorizeOnAlert, Move, JournalMoves
  <2> QED BY <1>2, <2>2, ReturnEffect DEF AuthorizeOnAlert
<1>3. CASE RaiseAlert(c)
  <2>1. HoldsMove /\ {HoldItem(Len(holds'))} \in SUBSET Items'
      BY <1>1, <1>3 DEF RaiseAlert
  <2>2. AlertsMove
      BY <1>3, <2>1 DEF RaiseAlert, AlertsMove, Sources
  <2>3. Move
      BY <1>3, <2>1, <2>2 DEF RaiseAlert, Move, JournalMoves
  <2>4. Fits([op |-> "RAISED"])'
      BY DEF Fits
  <2> QED BY <1>3, <2>3, <2>4 DEF RaiseAlert, Continue, Effect
<1>4. CASE Reload(c)
    BY <1>4, QuietEffect DEF Reload, Moneyless, Continue, Fits
<1>5. CASE RewriteAvailable(c)
  <2>1. Move
      BY <1>5 DEF RewriteAvailable, Move, HoldsMove, JournalMoves, AlertsMove
  <2> QED BY <1>5, <2>1, ReturnEffect DEF RewriteAvailable
<1> QED BY <1>2, <1>3, <1>4, <1>5

\* An answer is a step of the alerts, whatever the status the alert had when it was read.
LEMMA AnswerMoves ==
    ASSUME NEW a \in DOMAIN alerts, NEW item \in Items' \cup {Nothing}, NEW was,
           NEW status \in Closing, Answer(a, item, was, status), Releases(a, item)
    PROVE  AlertsMove
<1>1. \E w : Answer(a, item, w, status)
    OBVIOUS
<1> QED BY <1>1 DEF AlertsMove

\* The answers of a triage.
LEMMA TriageEffect ==
    ASSUME Inv, NEW c \in Call,
           \/ \E a \in DOMAIN alerts, item \in Items \cup {Nothing} : BeginTriage(c, a, item)
           \/ Recognize(c) \/ Dispute(c)
    PROVE  Effect(c)
<1> DEFINE in == calls[c]
<1>1. ASSUME NEW a \in DOMAIN alerts, NEW item \in Items \cup {Nothing}, BeginTriage(c, a, item)
      PROVE  Effect(c)
    BY <1>1, QuietEffect DEF BeginTriage, Start, Begin, Fits
<1>2. in.op = "TRIAGE" =>
        /\ in.alert \in DOMAIN alerts /\ in.item \in Items \cup {Nothing} /\ in.item \in Item
    BY CallFits, ItemsAre DEF Fits
<1>3. CASE Recognize(c)
  <2>1. Releases(in.alert, in.item)
      BY <1>3 DEF Recognize, Releases, Nothing
  <2>2. AlertsMove
    <3>1. Answer(in.alert, in.item, in.was, "RECOGNIZED") /\ "RECOGNIZED" \in Closing
        BY <1>3 DEF Recognize, Closing
    <3>2. in.alert \in DOMAIN alerts /\ in.item \in Items' \cup {Nothing}
        BY <1>2, <1>3 DEF Recognize
    <3> HIDE DEF in
    <3> QED BY <2>1, <3>1, <3>2, AnswerMoves
  <2>3. Move
      BY <1>3, <2>2 DEF Recognize, Moneyless, Move, HoldsMove, JournalMoves
  <2> QED BY <1>3, <2>3, ReturnEffect DEF Recognize
<1>4. CASE Dispute(c)
  <2>1. in.op = "TRIAGE" /\ in.item \in Items
      BY <1>2, <1>4 DEF Dispute
  <2>2. HoldsMove /\ JournalMoves /\ Releases(in.alert, in.item)
    <3>1. CASE in.item \in alerts[in.alert].answers /\ Moneyless
        BY <3>1 DEF Moneyless, HoldsMove, JournalMoves, Releases
    <3>2. CASE Disputable(in.item) /\ Remedy(in.item, in.seen)
        BY <2>1, <3>2, RemedyMoves
    <3> QED BY <1>4, <3>1, <3>2 DEF Dispute
  <2>3. AlertsMove
    <3>1. Answer(in.alert, in.item, in.was, "TRIAGED") /\ "TRIAGED" \in Closing
        BY <1>4 DEF Dispute, Closing
    <3>2. in.item \in Items' \cup {Nothing}
        BY <2>1, <2>2, ItemsStay
    <3> QED BY <1>2, <3>2, <2>1, <2>2, <3>1, AnswerMoves
  <2> QED BY <1>4, <2>2, <2>3, ReturnEffect DEF Dispute, Move
<1> QED BY <1>1, <1>3, <1>4

\* Customers' reports.
LEMMA ReportEffect ==
    ASSUME Inv, NEW c \in Call,
           \/ \E item \in Items : BeginReport(c, item)
           \/ Report(c) \/ TriageReport(c) \/ ResumeReport(c)
    PROVE  Effect(c)
<1> DEFINE in == calls[c]
<1>1. ASSUME NEW item \in Items, BeginReport(c, item) PROVE Effect(c)
    BY <1>1, QuietEffect DEF BeginReport, Start, Begin, Fits
<1>2. in.op \in {"REPORT", "REPORTED"} => in.item \in Items /\ in.item \in Item
    BY CallFits, ItemsAre DEF Fits
<1>3. CASE Report(c)
  <2>1. in.item \in Items /\ {in.item} \in SUBSET Item /\ OpenAlerts = {}
      BY <1>2, <1>3 DEF Report, NoCase
  <2>2. /\ alerts' = Append(alerts, Alert("CUSTOMER", {in.item})) /\ UNCHANGED <<holds, journal>>
        /\ calls' = [calls EXCEPT ![c] =
                [op |-> "REPORTED", alert |-> Len(alerts'), item |-> in.item]]
      BY <1>3 DEF Report, Moneyless, Continue
  <2>3. Move
    <3>1. {in.item} \in SUBSET Items'
        BY <2>1, <2>2 DEF Items
    <3> QED BY <2>1, <2>2, <3>1 DEF Move, HoldsMove, JournalMoves, AlertsMove, Sources
  <2>4. PICK n : n = Len(alerts')
      OBVIOUS
  <2>5. PICK x : x = in.item
      OBVIOUS
  <2>6. n \in DOMAIN alerts' /\ x \in Items'
    <3>1. alerts' \in Seq(AlertRow) /\ alerts' # <<>>
      <4>1. Alert("CUSTOMER", {in.item}) \in AlertRow
          BY <2>1 DEF Alert, AlertRow, Sources, AlertStatus
      <4> QED BY <2>2, <4>1 DEF Inv, Rows
    <3> QED BY <2>1, <2>2, <2>4, <2>5, <3>1 DEF Items
  <2>7. Fits([op |-> "REPORTED", alert |-> n, item |-> x])'
      BY <2>6 DEF Fits
  <2> QED BY <2>2, <2>3, <2>4, <2>5, <2>7 DEF Effect
<1>4. CASE TriageReport(c)
  <2>1. in.alert \in DOMAIN alerts /\ in.item \in Items
      BY <1>4, CallFits DEF TriageReport, Fits
  <2> QED BY <1>4, <2>1, QuietEffect DEF TriageReport, Moneyless, Continue, Fits
<1>5. CASE ResumeReport(c)
  <2>1. in.item \in Items /\ in.item \in Item
      BY <1>2, <1>5 DEF ResumeReport
  <2>2. PICK a \in Reported :
            /\ Disputable(in.item) /\ Remedy(in.item, in.seen)
            /\ Answer(a, in.item, "OPEN", "TRIAGED")
      BY <1>5 DEF ResumeReport
  <2>3. HoldsMove /\ JournalMoves /\ Releases(a, in.item) /\ a \in DOMAIN alerts
      BY <2>1, <2>2, RemedyMoves DEF Reported
  <2>4. AlertsMove
    <3>1. "TRIAGED" \in Closing /\ in.item \in Items' \cup {Nothing}
        BY <2>1, <2>3, ItemsStay DEF Closing
    <3> QED BY <2>1, <2>2, <2>3, <3>1, AnswerMoves
  <2> QED BY <1>5, <2>3, <2>4, ReturnEffect DEF ResumeReport, Move
<1> QED BY <1>1, <1>3, <1>4, <1>5

\* Resolutions and the sweep.
LEMMA CloseEffect ==
    ASSUME Inv, NEW c \in Call,
           (\E a \in DOMAIN alerts : BeginResolve(c, a)) \/ BeginSweep(c) \/ Close(c)
    PROVE  Effect(c)
<1>1. ASSUME NEW a \in DOMAIN alerts, BeginResolve(c, a) PROVE Effect(c)
    BY <1>1, QuietEffect DEF BeginResolve, Start, Begin, Fits
<1>2. CASE BeginSweep(c)
    BY <1>2, QuietEffect DEF BeginSweep, Start, Begin, Fits
<1>3. CASE Close(c)
  <2> DEFINE closed == [RESOLVE |-> "RESOLVED", SWEEP |-> "EXPIRED"]
  <2>1. closed[calls[c].op] \in Closing
      BY <1>3 DEF Close, Closing
  <2>2. \E due : alerts' = [a \in DOMAIN alerts |->
            IF a \in due THEN [alerts[a] EXCEPT !.status = closed[calls[c].op]] ELSE alerts[a]]
      BY <1>3 DEF Close
  <2> HIDE DEF closed
  <2>3. AlertsMove
      BY <2>1, <2>2 DEF AlertsMove
  <2>4. Move
      BY <1>3, <2>3 DEF Close, Moneyless, Move, HoldsMove, JournalMoves
  <2> QED BY <1>3, <2>4, ReturnEffect DEF Close
<1> QED BY <1>1, <1>2, <1>3

\* Every step keeps the invariant.
LEMMA InvNext == Inv /\ [FraudNext]_fraudVars => Inv'
<1> SUFFICES ASSUME Inv, [FraudNext]_fraudVars PROVE Inv'
    OBVIOUS
<1>1. ASSUME UNCHANGED <<holds, journal, alerts, calls>> PROVE Inv'
  <2>1. Rows' /\ PostedOnce' /\ ReleasedIsGone' /\ ReleasedOnce' /\ OneIsOpen'
      BY <1>1 DEF Inv, Rows, PostedOnce, ReleasedIsGone, ReleasedOnce, OneIsOpen, OpenAlerts
  <2>3. AlertsName'
      BY <1>1 DEF Inv, AlertsName, Items
  <2>2. \A c \in Call : Fits(calls[c])'
    <3>1. Items' = Items
        BY <1>1 DEF Items
    <3> QED BY <1>1, <3>1 DEF Inv, Fits
  <2> QED BY <1>1, <2>1, <2>2, <2>3 DEF Inv
<1>2. ASSUME NEW l \in Raised, IncreaseLimit(l), UNCHANGED alerts PROVE Inv'
    BY <1>1, <1>2 DEF IncreaseLimit
<1>3. ASSUME NEW c \in Call, Fraud(c) PROVE Inv'
  <2>1. Effect(c)
      BY <1>3, RaiseEffect, TriageEffect, ReportEffect, CloseEffect DEF Fraud
  <2> QED BY <2>1, EffectKeeps
<1>4. ASSUME Next, UNCHANGED alerts PROVE Inv'
  <2>1. (\E l \in Raised : IncreaseLimit(l)) \/ \E c \in Call : Effect(c)
      BY <1>4, NetworkEffect, ServicingEffect DEF Next
  <2> QED BY <1>2, <1>4, <2>1, EffectKeeps
<1>5. CASE UNCHANGED fraudVars
    BY <1>1, <1>5 DEF fraudVars, vars
<1> QED BY <1>3, <1>4, <1>5 DEF FraudNext

\* At first there is nothing.
LEMMA InvInit == FraudInit => Inv
<1> SUFFICES ASSUME FraudInit PROVE Inv
    OBVIOUS
<1>1. Rows /\ DOMAIN holds = {} /\ DOMAIN journal = {} /\ DOMAIN alerts = {}
    BY DEF FraudInit, Init, Rows
<1>2. PostedOnce /\ AlertsName /\ ReleasedIsGone /\ ReleasedOnce /\ OneIsOpen
    BY <1>1 DEF PostedOnce, AlertsName, ReleasedIsGone, ReleasedOnce, OneIsOpen, OpenAlerts
<1>3. DOMAIN calls = Call /\ calls = [c \in Call |-> calls[c]] /\ \A c \in Call : Fits(calls[c])
    BY DEF FraudInit, Init, Idle, Fits
<1> QED BY <1>1, <1>2, <1>3 DEF Inv

\* The invariant holds of every behaviour.
LEMMA Invariance == FraudSpec => []Inv
BY InvInit, InvNext, PTL DEF FraudSpec

\* No settlement, fee reversal, payment or provisional credit posts twice, for any number
\* of calls that found the hold pending, the charge unreversed or the key unused before
\* they waited for the account (the unique idempotency keys of the journal).
THEOREM NothingPostsTwice == FraudSpec => []PostedOnce
<1>1. Inv => PostedOnce
    BY DEF Inv
<1> QED BY Invariance, <1>1, PTL

\* A hold is released through one alert, for any number of triages, reports, resolutions
\* and sweeps that overlap (void_fraud_authorization_hold under the account lock).
THEOREM NothingReleasedTwice == FraudSpec => []ReleasedOnce
<1>1. Inv => ReleasedOnce
    BY DEF Inv
<1> QED BY Invariance, <1>1, PTL

\* Flagged authorizations and customers' reports never leave two open alerts, though a
\* triage, a resolution and the sweep write over what an alert has become.
THEOREM OneAlertAtATime == FraudSpec => []OneOpenAlert
<1>1. ASSUME Inv PROVE OneOpenAlert
  <2>1. CASE OpenAlerts = {}
      BY <2>1, FS_EmptySet DEF OneOpenAlert
  <2>2. ASSUME NEW a \in OpenAlerts PROVE OneOpenAlert
    <3>1. OpenAlerts = {a}
        BY <1>1, <2>2 DEF Inv, OneIsOpen
    <3>2. Cardinality(OpenAlerts) = 1
        BY <3>1, FS_Singleton
    <3> QED BY <3>2 DEF OneOpenAlert
  <2> QED BY <2>1, <2>2
<1> QED BY Invariance, <1>1, PTL
-----------------------------------------------------------------------------
(* Sums.                                                                   *)

\* A set of naturals that starts at 0 and goes on has them all.
LEMMA CountsUp ==
    ASSUME NEW S \in SUBSET Nat, 0 \in S, \A n \in S : n + 1 \in S
    PROVE  S = Nat
<1> SUFFICES ASSUME Nat \ S # {} PROVE FALSE
    OBVIOUS
<1>1. IsWellFoundedOn(OpToRel(<, Nat), Nat)
    BY NatLessThanWellFounded
<1>2. \E x \in Nat \ S : \A y \in Nat \ S : ~(<<y, x>> \in OpToRel(<, Nat))
    BY <1>1, WFMin
<1>3. PICK x \in Nat \ S : \A y \in Nat \ S : ~(y < x)
    BY <1>2 DEF OpToRel
<1>4. x - 1 \in S
    BY <1>3
<1> QED BY <1>3, <1>4

\* The sums of the first amounts, as SumOf computes them.
SumsUp(up, amounts) ==
    up = [n \in 0..Len(amounts) |-> IF n = 0 THEN 0 ELSE up[n - 1] + amounts[n]]

IntSums(up, amounts) == up \in [0..Len(amounts) -> Int] /\ SumsUp(up, amounts)

\* From one to the next.
LEMMA SumStep ==
    ASSUME NEW amounts \in Seq(Int), NEW up, SumsUp(up, amounts),
           NEW n \in Nat, n + 1 <= Len(amounts)
    PROVE  up[n + 1] = up[n] + amounts[n + 1] /\ amounts[n + 1] \in Int
<1>1. n + 1 \in 1..Len(amounts) /\ n + 1 \in 0..Len(amounts)
    OBVIOUS
<1> DEFINE next(i) == IF i = 0 THEN 0 ELSE up[i - 1] + amounts[i]
<1>2. up = [i \in 0..Len(amounts) |-> next(i)]
    BY DEF SumsUp
<1>3. up[n + 1] = next(n + 1)
  <2> HIDE DEF next
  <2> QED BY <1>1, <1>2
<1>4. n + 1 # 0 /\ n + 1 - 1 = n /\ amounts[n + 1] \in Int
    BY <1>1
<1> QED BY <1>3, <1>4

\* There are such sums.
LEMMA SumsExist ==
    ASSUME NEW amounts \in Seq(Int)
    PROVE  \E up : IntSums(up, amounts)
<1> DEFINE Sums(up, n) == /\ up \in [0..n -> Int] /\ up[0] = 0
                          /\ \A i \in 1..n : up[i] = up[i - 1] + amounts[i]
           S == {n \in Nat : n <= Len(amounts) => \E up : Sums(up, n)}
<1>1. Len(amounts) \in Nat /\ \A i \in 1..Len(amounts) : amounts[i] \in Int
    OBVIOUS
<1>2. 0 \in S
  <2>1. Sums([i \in 0..0 |-> 0], 0)
      OBVIOUS
  <2> QED BY <2>1
<1>3. ASSUME NEW n \in S PROVE n + 1 \in S
  <2>1. n \in Nat /\ n + 1 \in Nat /\ (n + 1 <= Len(amounts) => \E up : Sums(up, n))
    <3> HIDE DEF Sums
    <3> QED BY <1>1
  <2>2. ASSUME n + 1 <= Len(amounts), NEW up, Sums(up, n) PROVE \E g : Sums(g, n + 1)
    <3> DEFINE next == [i \in 0..(n + 1) |->
                            IF i = n + 1 THEN up[n] + amounts[n + 1] ELSE up[i]]
    <3>1. up[n] \in Int /\ amounts[n + 1] \in Int
        BY <1>1, <2>1, <2>2
    <3>2. next \in [0..(n + 1) -> Int] /\ next[0] = 0
        BY <2>1, <2>2, <3>1
    <3>3. ASSUME NEW i \in 1..(n + 1) PROVE next[i] = next[i - 1] + amounts[i]
      <4>1. CASE i = n + 1
          BY <2>1, <3>1, <4>1
      <4>2. CASE i # n + 1
          BY <2>1, <2>2, <3>1, <4>2
      <4> QED BY <4>1, <4>2
    <3>4. Sums(next, n + 1)
        BY <3>2, <3>3
    <3> QED BY <3>4
  <2> HIDE DEF Sums
  <2> QED BY <2>1, <2>2
<1> HIDE DEF S
<1>4. S = Nat
    BY <1>2, <1>3, CountsUp DEF S
<1>5. PICK up : Sums(up, Len(amounts))
    BY <1>1, <1>4 DEF S
<1>6. IntSums(up, amounts)
    BY <1>1, <1>5 DEF IntSums, SumsUp
<1> QED BY <1>6

\* SumOf is the last of them.
LEMMA SumOfSums ==
    ASSUME NEW amounts \in Seq(Int)
    PROVE  \E up : IntSums(up, amounts) /\ SumOf(amounts) = up[Len(amounts)]
<1> DEFINE up == CHOOSE g : SumsUp(g, amounts)
<1>1. PICK g : IntSums(g, amounts)
    BY SumsExist
<1>2. SumsUp(up, amounts)
    BY <1>1 DEF IntSums
<1>3. SumOf(amounts) = up[Len(amounts)]
    BY DEF SumOf, SumsUp
<1> HIDE DEF up
<1> DEFINE S == {n \in Nat : n <= Len(amounts) => up[n] = g[n]}
<1>4. 0 \in S
    BY <1>1, <1>2 DEF IntSums, SumsUp
<1>5. ASSUME NEW n \in S PROVE n + 1 \in S
  <2>1. n \in Nat /\ SumsUp(g, amounts) /\ (n + 1 <= Len(amounts) => up[n] = g[n])
      BY <1>1 DEF IntSums
  <2>2. n + 1 <= Len(amounts) => up[n + 1] = g[n + 1]
    <3> HIDE DEF S
    <3> QED BY <1>2, <2>1, SumStep
  <2> QED BY <2>1, <2>2
<1> HIDE DEF S
<1>6. S = Nat
    BY <1>4, <1>5, CountsUp DEF S
<1>7. \A n \in 0..Len(amounts) : up[n] = g[n]
    BY <1>6 DEF S
<1>8. IntSums(up, amounts)
    BY <1>1, <1>2, <1>7 DEF IntSums, SumsUp
<1> QED BY <1>3, <1>8

\* The amounts of ys are those of xs, but the k-th, which is d more; others may follow.
Differ(xs, ys, k, d) ==
    Len(xs) <= Len(ys) /\ \A i \in 1..Len(xs) : ys[i] = xs[i] + (IF i = k THEN d ELSE 0)

\* From the k-th on, their sums are d more too.
LEMMA SumsDiffer ==
    ASSUME NEW xs \in Seq(Int), NEW ys \in Seq(Int),
           NEW k \in Nat \ {0}, NEW d \in Int, Differ(xs, ys, k, d),
           NEW up, IntSums(up, xs), NEW vp, IntSums(vp, ys)
    PROVE  vp[Len(xs)] = up[Len(xs)] + (IF k <= Len(xs) THEN d ELSE 0)
<1> DEFINE S == {n \in Nat : n <= Len(xs) => vp[n] = up[n] + (IF k <= n THEN d ELSE 0)}
<1>1. 0 \in S
    BY DEF IntSums, SumsUp
<1>2. ASSUME NEW n \in S PROVE n + 1 \in S
  <2> SUFFICES ASSUME n + 1 <= Len(xs)
               PROVE  vp[n + 1] = up[n + 1] + (IF k <= n + 1 THEN d ELSE 0)
      OBVIOUS
  <2>1. n \in Nat /\ n + 1 <= Len(ys) /\ vp[n] = up[n] + (IF k <= n THEN d ELSE 0)
      BY DEF Differ
  <2>2. /\ up[n + 1] = up[n] + xs[n + 1] /\ up[n] \in Int /\ xs[n + 1] \in Int
        /\ vp[n + 1] = vp[n] + ys[n + 1]
    <3> HIDE DEF S
    <3>1. SumsUp(up, xs) /\ SumsUp(vp, ys) /\ up[n] \in Int
        BY <2>1 DEF IntSums
    <3> QED BY <2>1, <3>1, SumStep
  <2>3. ys[n + 1] = xs[n + 1] + (IF n + 1 = k THEN d ELSE 0)
      BY <2>1 DEF Differ
  <2> HIDE DEF S
  <2> QED BY <2>1, <2>2, <2>3
<1> HIDE DEF S
<1>3. S = Nat
    BY <1>1, <1>2, CountsUp DEF S
<1>4. Len(xs) \in S
    BY <1>3
<1> QED BY <1>4 DEF S

\* Sums are integers.
LEMMA SumType ==
    ASSUME NEW amounts \in Seq(Int)
    PROVE  SumOf(amounts) \in Int
BY SumOfSums DEF IntSums

\* One more amount adds to the sum.
LEMMA SumOfAppend ==
    ASSUME NEW xs \in Seq(Int), NEW ys \in Seq(Int), Len(ys) = Len(xs) + 1,
           \A i \in 1..Len(xs) : ys[i] = xs[i]
    PROVE  SumOf(ys) = SumOf(xs) + ys[Len(ys)]
<1>1. PICK up : IntSums(up, xs) /\ SumOf(xs) = up[Len(xs)]
    BY SumOfSums
<1>2. PICK vp : IntSums(vp, ys) /\ SumOf(ys) = vp[Len(ys)]
    BY SumOfSums
<1>3. Len(xs) + 1 \in Nat \ {0} /\ Differ(xs, ys, Len(xs) + 1, 0)
    BY DEF Differ
<1>4. vp[Len(xs)] = up[Len(xs)] + (IF Len(xs) + 1 <= Len(xs) THEN 0 ELSE 0)
    BY <1>1, <1>2, <1>3, SumsDiffer
<1>5. vp[Len(ys)] = vp[Len(xs)] + ys[Len(ys)]
  <2>1. Len(xs) \in Nat /\ SumsUp(vp, ys)
      BY <1>2 DEF IntSums
  <2> QED BY <2>1, SumStep
<1>6. up[Len(xs)] \in Int
    BY <1>1 DEF IntSums
<1> QED BY <1>1, <1>2, <1>4, <1>5, <1>6

\* Another amount changes the sum by the difference.
LEMMA SumOfExcept ==
    ASSUME NEW xs \in Seq(Int), NEW ys \in Seq(Int), Len(ys) = Len(xs), NEW k \in 1..Len(xs),
           \A i \in 1..Len(xs) : i # k => ys[i] = xs[i]
    PROVE  SumOf(ys) = SumOf(xs) + ys[k] - xs[k]
<1>1. PICK up : IntSums(up, xs) /\ SumOf(xs) = up[Len(xs)]
    BY SumOfSums
<1>2. PICK vp : IntSums(vp, ys) /\ SumOf(ys) = vp[Len(ys)]
    BY SumOfSums
<1>3. PICK d \in Int : d = ys[k] - xs[k]
    OBVIOUS
<1>4. k \in Nat \ {0} /\ Differ(xs, ys, k, d)
    BY <1>3 DEF Differ
<1>5. vp[Len(xs)] = up[Len(xs)] + (IF k <= Len(xs) THEN d ELSE 0)
    BY <1>1, <1>2, <1>4, SumsDiffer
<1>6. vp[Len(xs)] = up[Len(xs)] + d /\ up[Len(xs)] \in Int
    BY <1>1, <1>5 DEF IntSums
<1>7. xs[k] \in Int /\ ys[k] \in Int
    OBVIOUS
<1> QED BY <1>1, <1>2, <1>3, <1>6, <1>7
-----------------------------------------------------------------------------
(* What the holds take, and what is owed.                                  *)

\* The amounts of rows are natural numbers.
LEMMA AmountTypes ==
    /\ Amount \subseteq Nat \ {0} /\ Clearing \subseteq Nat \ {0}
    /\ \A h \in HoldRow : h.amount \in Nat /\ Blocked(h) \in Nat
    /\ \A l \in Line : l.amount \in Nat /\ Signed(l) \in Int
<1>1. Amount \subseteq Nat \ {0} /\ Clearing \subseteq Nat \ {0}
    BY AccountAssumption
<1>2. /\ \A h \in HoldRow : h.amount \in Nat
      /\ \A l \in Line : l.amount \in Nat
    BY <1>1 DEF HoldRow, Line
<1>3. \A n \in Nat : -n \in Int
    OBVIOUS
<1> QED BY <1>1, <1>2, <1>3 DEF Blocked, Signed

\* They make sequences of integers.
LEMMA BlockedAmounts ==
    ASSUME NEW hs \in Seq(HoldRow)
    PROVE  /\ [i \in DOMAIN hs |-> Blocked(hs[i])] \in Seq(Int)
           /\ Len([i \in DOMAIN hs |-> Blocked(hs[i])]) = Len(hs)
<1>1. DOMAIN hs = 1..Len(hs) /\ Len(hs) \in Nat /\ \A i \in 1..Len(hs) : Blocked(hs[i]) \in Int
    BY AmountTypes
<1>2. [i \in DOMAIN hs |-> Blocked(hs[i])] \in [1..Len(hs) -> Int]
    BY <1>1
<1> QED BY <1>1, <1>2

LEMMA SignedAmounts ==
    ASSUME NEW ls \in Seq(Line)
    PROVE  /\ [i \in DOMAIN ls |-> Signed(ls[i])] \in Seq(Int)
           /\ Len([i \in DOMAIN ls |-> Signed(ls[i])]) = Len(ls)
<1>1. DOMAIN ls = 1..Len(ls) /\ Len(ls) \in Nat /\ \A i \in 1..Len(ls) : Signed(ls[i]) \in Int
    BY AmountTypes
<1>2. [i \in DOMAIN ls |-> Signed(ls[i])] \in [1..Len(ls) -> Int]
    BY <1>1
<1> QED BY <1>1, <1>2

\* Total and Owed are integers.
LEMMA TotalType == \A hs \in Seq(HoldRow) : Total(hs) \in Int
BY BlockedAmounts, SumType DEF Total

LEMMA OwedType == \A ls \in Seq(Line) : Owed(ls) \in Int
BY SignedAmounts, SumType DEF Owed

\* A new hold takes what it blocks.
LEMMA TotalOfAppend ==
    ASSUME NEW hs \in Seq(HoldRow), NEW row \in HoldRow
    PROVE  Total(Append(hs, row)) = Total(hs) + Blocked(row)
<1> DEFINE gs == Append(hs, row)
           xs == [i \in DOMAIN hs |-> Blocked(hs[i])]
           ys == [i \in DOMAIN gs |-> Blocked(gs[i])]
<1>1. gs \in Seq(HoldRow) /\ Len(gs) = Len(hs) + 1 /\ gs[Len(gs)] = row
    OBVIOUS
<1>2. xs \in Seq(Int) /\ ys \in Seq(Int) /\ Len(xs) = Len(hs) /\ Len(ys) = Len(gs)
    BY <1>1, BlockedAmounts
<1>3. \A i \in 1..Len(hs) : ys[i] = xs[i]
    BY <1>1
<1>4. ys[Len(gs)] = Blocked(row)
    BY <1>1
<1>5. Total(hs) = SumOf(xs) /\ Total(gs) = SumOf(ys)
    BY DEF Total
<1> HIDE DEF xs, ys, gs
<1>6. SumOf(ys) = SumOf(xs) + ys[Len(ys)]
    BY <1>1, <1>2, <1>3, SumOfAppend
<1>7. Total(gs) = Total(hs) + Blocked(row)
    BY <1>1, <1>2, <1>4, <1>5, <1>6
<1> QED BY <1>7 DEF gs

\* A hold that ends gives back what it blocked.
LEMMA TotalOfEnd ==
    ASSUME NEW hs \in Seq(HoldRow), NEW k \in DOMAIN hs, NEW s \in {"SETTLED", "REVERSED"}
    PROVE  Total([hs EXCEPT ![k].status = s]) = Total(hs) - Blocked(hs[k])
<1> DEFINE row == [hs[k] EXCEPT !.status = s]
           gs == [hs EXCEPT ![k].status = s]
           xs == [i \in DOMAIN hs |-> Blocked(hs[i])]
           ys == [i \in DOMAIN gs |-> Blocked(gs[i])]
<1>1. row \in HoldRow /\ Blocked(row) = 0
  <2>1. hs[k] \in HoldRow
      OBVIOUS
  <2>2. row \in HoldRow /\ row.status = s
      BY <2>1 DEF HoldRow
  <2> QED BY <2>2 DEF Blocked, Held
<1>2. /\ gs \in Seq(HoldRow) /\ Len(gs) = Len(hs) /\ gs[k] = row /\ k \in 1..Len(hs)
      /\ \A i \in 1..Len(hs) : i # k => gs[i] = hs[i]
  <2>1. gs = [hs EXCEPT ![k] = row]
      OBVIOUS
  <2> HIDE DEF row, gs
  <2> QED BY <1>1, <2>1
<1>3. xs \in Seq(Int) /\ ys \in Seq(Int) /\ Len(xs) = Len(hs) /\ Len(ys) = Len(gs)
    BY <1>2, BlockedAmounts
<1>4. \A i \in 1..Len(hs) : i # k => ys[i] = xs[i]
  <2> HIDE DEF gs
  <2> QED BY <1>2
<1>5. ys[k] = 0 /\ xs[k] = Blocked(hs[k])
  <2> HIDE DEF gs, row
  <2> QED BY <1>1, <1>2
<1>6. Total(hs) = SumOf(xs) /\ Total(gs) = SumOf(ys)
    BY DEF Total
<1> HIDE DEF xs, ys, gs, row
<1>7. SumOf(ys) = SumOf(xs) + ys[k] - xs[k]
    BY <1>2, <1>3, <1>4, SumOfExcept
<1>8. SumOf(xs) \in Int /\ Blocked(hs[k]) \in Int
    BY <1>3, SumType, AmountTypes
<1>9. Total(gs) = Total(hs) - Blocked(hs[k])
    BY <1>5, <1>6, <1>7, <1>8
<1> QED BY <1>9 DEF gs

\* A new line adds to the debt.
LEMMA OwedOfAppend ==
    ASSUME NEW ls \in Seq(Line), NEW l \in Line
    PROVE  Owed(Append(ls, l)) = Owed(ls) + Signed(l)
<1> DEFINE ms == Append(ls, l)
           xs == [i \in DOMAIN ls |-> Signed(ls[i])]
           ys == [i \in DOMAIN ms |-> Signed(ms[i])]
<1>1. ms \in Seq(Line) /\ Len(ms) = Len(ls) + 1 /\ ms[Len(ms)] = l
    OBVIOUS
<1>2. xs \in Seq(Int) /\ ys \in Seq(Int) /\ Len(xs) = Len(ls) /\ Len(ys) = Len(ms)
    BY <1>1, SignedAmounts
<1>3. \A i \in 1..Len(ls) : ys[i] = xs[i]
    BY <1>1
<1>4. ys[Len(ms)] = Signed(l)
    BY <1>1
<1>5. Owed(ls) = SumOf(xs) /\ Owed(ms) = SumOf(ys)
    BY DEF Owed
<1> HIDE DEF xs, ys, ms
<1>6. SumOf(ys) = SumOf(xs) + ys[Len(ys)]
    BY <1>1, <1>2, <1>3, SumOfAppend
<1>7. Owed(ms) = Owed(ls) + Signed(l)
    BY <1>1, <1>2, <1>4, <1>5, <1>6
<1> QED BY <1>7 DEF ms
-----------------------------------------------------------------------------
(* Types.                                                                  *)

Typed ==
    /\ account \in Balances /\ deposit \in Nat /\ begun \in 0..MaxCalls
    /\ calls \in [Call -> Requested \cup FraudCalls]

\* A call that has seen the account.
LEMMA CallSaw ==
    ASSUME Typed, NEW c \in Call, calls[c].op \in {"FEE", "TRIAGE", "REPORT", "RELOADED"}
    PROVE  "seen" \in DOMAIN calls[c] /\ calls[c].seen \in Balances /\ calls[c] # Idle
<1>1. calls[c] \in Requested \cup FraudCalls
    BY DEF Typed
<1>2. calls[c] # Idle
    BY DEF Idle
<1>3. \/ calls[c] \in [op: {"FEE"}, line: Nat, seen: Balances]
      \/ calls[c] \in [op: {"RELOADED"}, seen: Balances, available: Nat]
      \/ calls[c] \in [op: {"TRIAGE"}, alert: Nat, item: Item, was: AlertStatus, seen: Balances]
      \/ calls[c] \in [op: {"REPORT"}, item: Item, seen: Balances]
    BY <1>1 DEF Requested, FraudCalls
<1> QED BY <1>2, <1>3

LEMMA CallRecalculated ==
    ASSUME Typed, NEW c \in Call, calls[c].op = "RELOADED"
    PROVE  calls[c].available \in Nat
<1>1. calls[c] \in Requested \cup FraudCalls
    BY DEF Typed
<1>2. calls[c] \in [op: {"RELOADED"}, seen: Balances, available: Nat]
    BY <1>1 DEF Requested, FraudCalls
<1> QED BY <1>2

-----------------------------------------------------------------------------
(* The available credit.                                                   *)

\* What the limit, the balance and the holds leave.
Headroom(limit, balance, taken) ==
    LET raw == limit - balance - taken
    IN  IF raw < 0 THEN 0 ELSE IF raw > limit THEN limit ELSE raw

LEMMA HeadroomType ==
    ASSUME NEW limit \in Nat, NEW balance \in Int, NEW taken \in Int
    PROVE  Headroom(limit, balance, taken) \in Nat
BY DEF Headroom

\* More holds leave no more.
LEMMA HeadroomOfHolds ==
    ASSUME NEW limit \in Nat, NEW balance \in Int, NEW taken \in Int, NEW d \in Nat
    PROVE  Headroom(limit, balance, taken + d) <= Headroom(limit, balance, taken)
BY DEF Headroom

\* A payment or a raised limit leaves at most its amount more.
LEMMA HeadroomOfPayment ==
    ASSUME NEW limit \in Nat, NEW balance \in Int, NEW taken \in Int, NEW d \in Nat
    PROVE  Headroom(limit, balance - d, taken) <= Headroom(limit, balance, taken) + d
BY DEF Headroom

LEMMA HeadroomOfLimit ==
    ASSUME NEW limit \in Nat, NEW balance \in Int, NEW taken \in Int, NEW d \in Nat
    PROVE  Headroom(limit + d, balance, taken) <= Headroom(limit, balance, taken) + d
BY DEF Headroom

\* Short of the clamps they leave all of it.
LEMMA HeadroomShortOfClamps ==
    ASSUME NEW limit \in Nat, NEW balance \in Int, NEW taken \in Int, NEW d \in Nat,
           balance + taken <= limit
    PROVE  /\ balance - d + taken >= 0 =>
                Headroom(limit, balance, taken) + d <= Headroom(limit, balance - d, taken)
           /\ Headroom(limit, balance, taken) + d <= Headroom(limit + d, balance, taken)
BY DEF Headroom

\* recalculate_available_credit sets it, and nothing else.
LEMMA RecalculatedIs ==
    ASSUME NEW a \in Balances, NEW hs \in Seq(HoldRow)
    PROVE  /\ Recalculated(a, hs) \in Balances
           /\ Recalculated(a, hs).limit = a.limit /\ Recalculated(a, hs).balance = a.balance
           /\ Recalculated(a, hs).available = Headroom(a.limit, a.balance, Total(hs))
<1> DEFINE room == Headroom(a.limit, a.balance, Total(hs))
<1>1. a.limit \in Nat /\ a.balance \in Int /\ Total(hs) \in Int
    BY TotalType DEF Balances
<1>2. room \in Nat
    BY <1>1, HeadroomType
<1>3. Recalculated(a, hs) = [a EXCEPT !.available = room]
    BY DEF Recalculated, Headroom
<1> HIDE DEF room
<1>4. [a EXCEPT !.available = room] \in Balances
    BY <1>2 DEF Balances
<1>5. /\ [a EXCEPT !.available = room].limit = a.limit
      /\ [a EXCEPT !.available = room].balance = a.balance
      /\ [a EXCEPT !.available = room].available = room
    BY DEF Balances
<1> QED BY <1>3, <1>4, <1>5 DEF room

\* No credit is withheld, and no more is available than is left.
Enough(a, hs) == a.available >= Headroom(a.limit, a.balance, Total(hs))
NoMore(a, hs) == a.available <= Headroom(a.limit, a.balance, Total(hs))

LEMMA EnoughIs ==
    ASSUME account \in Balances, Rows
    PROVE  (~Withheld <=> Enough(account, holds)) /\ (~Overstated <=> NoMore(account, holds))
<1>1. Recalculated(account, holds).available = Headroom(account.limit, account.balance, Total(holds))
    BY RecalculatedIs DEF Rows
<1>2. Recalculated(account, holds).available \in Nat /\ account.available \in Nat
    BY RecalculatedIs DEF Rows, Balances
<1> QED BY <1>1, <1>2 DEF Withheld, Overstated, Enough, NoMore

LEMMA EnoughIsNext ==
    ASSUME account' \in Balances, Rows'
    PROVE  /\ ~Withheld' <=> Enough(account', holds')
           /\ ~Overstated' <=> NoMore(account', holds')
<1>1. Recalculated(account', holds').available
            = Headroom(account'.limit, account'.balance, Total(holds'))
    BY RecalculatedIs DEF Rows
<1>2. Recalculated(account', holds').available \in Nat /\ account'.available \in Nat
    BY RecalculatedIs DEF Rows, Balances
<1> QED BY <1>1, <1>2 DEF Withheld, Overstated, Enough, NoMore

LEMMA RecalculatedIsTrue ==
    ASSUME NEW a \in Balances, NEW hs \in Seq(HoldRow)
    PROVE  Enough(Recalculated(a, hs), hs) /\ NoMore(Recalculated(a, hs), hs)
<1>1. Recalculated(a, hs).available \in Nat
    BY RecalculatedIs DEF Balances
<1> QED BY <1>1, RecalculatedIs DEF Enough, NoMore
-----------------------------------------------------------------------------
(* What a step does to the money.                                          *)

\* The amounts stay in their domain, the balance moves with the lines, and the available
\* credit stays true, but for the exceptions.
MoneyMoves ==
    /\ account' \in Balances /\ deposit' \in Nat
    /\ Drift' = Drift \/ StaleEnd
    /\ ~Withheld /\ Withheld' => StaleEnd \/ LateRewrite
    /\ ~Overstated /\ Overstated' => StaleEnd \/ LateRewrite \/ EarlyCommit \/ PastClamp

\* The call goes on with a record of its kind, or returns; one more may have begun.
CallMoves(c) ==
    /\ \E in \in Requested \cup FraudCalls : calls' = [calls EXCEPT ![c] = in]
    /\ begun' = begun \/ (begun' = begun + 1 /\ begun < MaxCalls)

LEMMA ReturnMoves == ASSUME NEW c, Return(c) PROVE CallMoves(c)
<1>1. Idle \in Requested \cup FraudCalls
    BY DEF Idle, Requested
<1> QED BY <1>1 DEF Return, Continue, CallMoves

\* Money left alone.
LEMMA MoneyStays ==
    ASSUME Typed, UNCHANGED <<account, holds, journal, deposit>>
    PROVE  MoneyMoves
BY DEF Typed, MoneyMoves, Drift, Withheld, Overstated

\* A new available credit, recalculated from the account as it is or as it should be.
LEMMA MoneyRecalculated ==
    ASSUME Rows', deposit' \in Nat, NEW a \in Balances, account' = Recalculated(a, holds'),
           a.balance - Owed(journal') = Drift
    PROVE  MoneyMoves
<1>1. account' \in Balances /\ account'.balance = a.balance
    BY RecalculatedIs DEF Rows
<1>2. Drift' = Drift
    BY <1>1 DEF Drift
<1>3. ~Withheld' /\ ~Overstated'
  <2>1. Enough(account', holds') /\ NoMore(account', holds')
      BY RecalculatedIsTrue DEF Rows
  <2> QED BY <1>1, <2>1, EnoughIsNext
<1> QED BY <1>1, <1>2, <1>3 DEF MoneyMoves

\* The same holds of an account of which enough is left, and no more.
LEMMA MoneyEnough ==
    ASSUME Rows, Rows', Typed, deposit' \in Nat, account' \in Balances, Drift' = Drift,
           Enough(account, holds) => Enough(account', holds'),
           NoMore(account, holds) => NoMore(account', holds') \/ EarlyCommit \/ PastClamp
    PROVE  MoneyMoves
<1>1. ~Withheld <=> Enough(account, holds)
    BY EnoughIs DEF Typed
<1>2. ~Overstated <=> NoMore(account, holds)
    BY EnoughIs DEF Typed
<1>3. ~Withheld' <=> Enough(account', holds')
    BY EnoughIsNext
<1>4. ~Overstated' <=> NoMore(account', holds')
    BY EnoughIsNext
<1> QED BY <1>1, <1>2, <1>3, <1>4 DEF MoneyMoves

\* A call that ends with an account it saw before that changed.
LEMMA StaleCall ==
    ASSUME Typed, NEW c \in Call, calls[c].op \in {"FEE", "TRIAGE", "REPORT"},
           calls[c].seen # account, Return(c)
    PROVE  StaleEnd
<1>1. "seen" \in DOMAIN calls[c] /\ calls[c] # Idle
    BY CallSaw
<1>2. calls'[c] = Idle
    BY DEF Return, Continue, Typed
<1> QED BY <1>1, <1>2 DEF StaleEnd

\* Lines posted to an account that is otherwise left alone.
LEMMA OwedMoves ==
    ASSUME Rows, NEW l \in Line, journal' = Append(journal, l)
    PROVE  Owed(journal') = Owed(journal) + Signed(l) /\ Owed(journal) \in Int
BY OwedOfAppend, OwedType DEF Rows

\* The card network.
LEMMA NetworkMoney ==
    ASSUME Inv, Inv', Typed, NEW c \in Call, UNCHANGED alerts,
           Authorize(c) \/ Settle(c) \/ ReverseHold(c)
    PROVE  MoneyMoves /\ CallMoves(c)
<1>1. Rows /\ Rows' /\ account \in Balances /\ deposit \in Nat
    BY DEF Inv, Typed
<1>2. /\ account.balance \in Int /\ account.limit \in Nat /\ account.available \in Nat
      /\ Owed(journal) \in Int
    BY <1>1, OwedType DEF Balances, Rows
<1>3. CASE Authorize(c)
  <2>1. UNCHANGED <<journal, deposit>> /\ Return(c)
      BY <1>3 DEF Authorize
  <2> account.balance - Owed(journal') = Drift /\ deposit' \in Nat
      BY <1>1, <2>1 DEF Drift
  <2>2. ASSUME account' = Recalculated(account, holds') PROVE MoneyMoves
      BY <1>1, <2>2, MoneyRecalculated
  <2>3. ASSUME account' = account, holds' = Append(holds, Hold(c, "DECLINED")) PROVE MoneyMoves
    <3>1. Hold(c, "DECLINED") \in HoldRow /\ Blocked(Hold(c, "DECLINED")) = 0
      <4>1. calls[c].rrn \in Rrn /\ calls[c].amount \in Amount
          BY <1>3, CallFits DEF Authorize, Fits
      <4> QED BY <4>1 DEF Hold, HoldRow, Blocked, Held
    <3>2. Total(holds') = Total(holds)
        BY <1>1, <2>3, <3>1, TotalOfAppend, TotalType DEF Rows
    <3>3. /\ Enough(account, holds) => Enough(account', holds')
          /\ NoMore(account, holds) => NoMore(account', holds')
        BY <2>3, <3>2 DEF Enough, NoMore
    <3>4. account' \in Balances /\ Drift' = Drift
        BY <1>1, <2>1, <2>3 DEF Drift
    <3> QED BY <1>1, <3>3, <3>4, MoneyEnough
  <2> QED BY <1>3, <2>1, <2>2, <2>3, ReturnMoves DEF Authorize
<1>4. CASE Settle(c)
  <2> DEFINE l == [kind |-> "CHARGE", ref |-> holds[calls[c].hold].rrn, amount |-> calls[c].amount]
             charged == [account EXCEPT !.balance = @ + Captured(c)]
  <2>1. /\ journal' = Append(journal, l) /\ account' = Recalculated(charged, holds')
        /\ UNCHANGED deposit /\ Return(c)
      BY <1>4 DEF Settle, Post
  <2>2. calls[c].hold \in DOMAIN holds /\ calls[c].amount \in Clearing
      BY <1>4, CallFits DEF Settle, Fits
  <2>3. l \in Line /\ Signed(l) = calls[c].amount /\ calls[c].amount \in Nat
    <3>1. holds[calls[c].hold].rrn \in Rrn
        BY <2>2, CallFits DEF HoldRow
    <3> QED BY <2>2, <3>1, AmountTypes DEF Line, Signed
  <2>4. charged \in Balances /\ charged.balance = account.balance + calls[c].amount
      BY <1>1, <1>2, <2>3 DEF Balances, Captured
  <2> HIDE DEF l, charged
  <2>5. charged.balance - Owed(journal') = Drift
    <3>1. Owed(journal') = Owed(journal) + calls[c].amount
        BY <1>1, <2>1, <2>3, OwedMoves
    <3> QED BY <1>2, <2>3, <2>4, <3>1 DEF Drift
  <2>6. MoneyMoves
      BY <1>1, <2>1, <2>4, <2>5, MoneyRecalculated
  <2> QED BY <2>1, <2>6, ReturnMoves
<1>5. CASE ReverseHold(c)
  <2>1. /\ account' = Recalculated(account, holds') /\ UNCHANGED <<journal, deposit>>
        /\ Return(c)
      BY <1>5 DEF ReverseHold
  <2>2. MoneyMoves
      BY <1>1, <2>1, MoneyRecalculated DEF Drift
  <2> QED BY <2>1, <2>2, ReturnMoves
<1> QED BY <1>3, <1>4, <1>5

\* The servicing of the account.
LEMMA PaymentMoney ==
    ASSUME Inv, Inv', Typed, NEW c \in Call, UNCHANGED alerts, Payment(c)
    PROVE  MoneyMoves /\ CallMoves(c)
<1>1. Rows /\ Rows' /\ account \in Balances /\ deposit \in Nat
    BY DEF Inv, Typed
<1>2. /\ account.balance \in Int /\ account.limit \in Nat /\ account.available \in Nat
      /\ Owed(journal) \in Int
    BY <1>1, OwedType DEF Balances, Rows
<1> DEFINE n == calls[c].amount
           l == [kind |-> "PAYMENT", ref |-> calls[c].key, amount |-> n]
           paid == [account EXCEPT !.balance = @ - n]
<1>3. /\ journal' = Append(journal, l) /\ account' = Recalculated(paid, holds')
      /\ deposit' = deposit - n /\ deposit >= n /\ Return(c)
    BY DEF Payment, Post, Affordable
<1>4. calls[c].key \in PayKey /\ n \in Amount /\ n \in Nat
    BY CallFits, AmountTypes DEF Payment, Fits
<1>5. l \in Line /\ Signed(l) = -n
    BY <1>4 DEF Line, Signed
<1>6. paid \in Balances /\ paid.balance = account.balance - n
    BY <1>1, <1>2, <1>4 DEF Balances
<1>7. deposit' \in Nat
    BY <1>1, <1>3, <1>4
<1> HIDE DEF l, paid, n
<1>8. paid.balance - Owed(journal') = Drift
  <2>1. Owed(journal') = Owed(journal) + (-n)
      BY <1>1, <1>3, <1>5, OwedMoves
  <2> QED BY <1>2, <1>4, <1>6, <2>1 DEF Drift
<1>9. MoneyMoves
    BY <1>1, <1>3, <1>6, <1>7, <1>8, MoneyRecalculated
<1> QED BY <1>3, <1>9, ReturnMoves

LEMMA FeeReversalMoney ==
    ASSUME Inv, Inv', Typed, NEW c \in Call, UNCHANGED alerts, FeeReversal(c)
    PROVE  MoneyMoves /\ CallMoves(c)
<1>1. Rows /\ Rows' /\ account \in Balances /\ deposit \in Nat
    BY DEF Inv, Typed
<1>2. /\ account.balance \in Int /\ account.limit \in Nat /\ account.available \in Nat
      /\ Owed(journal) \in Int /\ Total(holds) \in Int
    BY <1>1, OwedType, TotalType DEF Balances, Rows
<1>3. /\ calls[c].op = "FEE" /\ calls[c].line \in DOMAIN journal /\ calls[c].seen \in Balances
      /\ journal[calls[c].line] \in Line
    BY CallFits, CallSaw DEF FeeReversal, Fits
<1> DEFINE line == journal[calls[c].line]
           seen == calls[c].seen
           n == line.amount
           l == [kind |-> "REVERSAL", ref |-> line.ref, amount |-> n]
<1>4. /\ journal' = Append(journal, l) /\ UNCHANGED <<holds, deposit>> /\ Return(c)
      /\ account' = [account EXCEPT !.balance = seen.balance - n, !.available = seen.available + n]
    BY DEF FeeReversal, Post
<1>5. l \in Line /\ n \in Nat /\ Signed(l) = -n
    BY <1>3, AmountTypes DEF Line, Signed
<1>6. seen.balance \in Int /\ seen.available \in Nat
    BY <1>3 DEF Balances
<1> HIDE DEF l, n, seen
<1>7. /\ account' \in Balances /\ account'.limit = account.limit
      /\ account'.balance = seen.balance - n /\ account'.available = seen.available + n
  <2>1. seen.balance - n \in Int /\ seen.available + n \in Nat
      BY <1>5, <1>6
  <2> QED BY <1>1, <1>4, <2>1 DEF Balances
<1>8. ASSUME seen # account PROVE MoneyMoves
  <2>1. StaleEnd
      BY <1>3, <1>4, <1>8, StaleCall DEF seen
  <2>2. deposit' \in Nat
      BY <1>1, <1>4
  <2> QED BY <1>7, <2>1, <2>2 DEF MoneyMoves
<1>9. ASSUME seen = account PROVE MoneyMoves
  <2>1. Owed(journal') = Owed(journal) + (-n)
      BY <1>1, <1>4, <1>5, OwedMoves
  <2>2. Drift' = Drift
      BY <1>2, <1>5, <1>7, <1>9, <2>1 DEF Drift
  <2>3. Enough(account, holds) => Enough(account', holds')
    <3>1. Headroom(account.limit, account.balance - n, Total(holds))
              <= Headroom(account.limit, account.balance, Total(holds)) + n
        BY <1>2, <1>5, HeadroomOfPayment
    <3>2. /\ Headroom(account.limit, account.balance - n, Total(holds)) \in Nat
          /\ Headroom(account.limit, account.balance, Total(holds)) \in Nat
      <4>1. account.balance - n \in Int
          BY <1>2, <1>5
      <4> QED BY <1>2, <4>1, HeadroomType
    <3> QED BY <1>2, <1>4, <1>5, <1>7, <1>9, <3>1, <3>2 DEF Enough
  <2>5. NoMore(account, holds) => NoMore(account', holds') \/ PastClamp
    <3>1. \/ Used > account.limit \/ Used' < 0
          \/ /\ account.balance + Total(holds) <= account.limit
             /\ account.balance - n + Total(holds) >= 0
      <4>1. Used = account.balance + Total(holds) /\ Used' = account.balance - n + Total(holds)
          BY <1>4, <1>7, <1>9 DEF Used
      <4> QED BY <1>2, <1>5, <4>1
    <3>2. CASE Used > account.limit \/ Used' < 0
      <4>1. calls'[c] = Idle
          BY <1>4 DEF Return, Continue, Typed
      <4> QED BY <1>3, <3>2, <4>1 DEF PastClamp
    <3>3. CASE /\ account.balance + Total(holds) <= account.limit
               /\ account.balance - n + Total(holds) >= 0
      <4>1. Headroom(account.limit, account.balance, Total(holds)) + n
                <= Headroom(account.limit, account.balance - n, Total(holds))
          BY <1>2, <1>5, <3>3, HeadroomShortOfClamps
      <4>2. /\ Headroom(account.limit, account.balance - n, Total(holds)) \in Nat
            /\ Headroom(account.limit, account.balance, Total(holds)) \in Nat
        <5>1. account.balance - n \in Int
            BY <1>2, <1>5
        <5> QED BY <1>2, <5>1, HeadroomType
      <4> QED BY <1>2, <1>4, <1>5, <1>7, <1>9, <4>1, <4>2 DEF NoMore
    <3> QED BY <3>1, <3>2, <3>3
  <2>4. deposit' \in Nat
      BY <1>1, <1>4
  <2> QED BY <1>1, <1>7, <2>2, <2>3, <2>4, <2>5, MoneyEnough
<1> QED BY <1>4, <1>8, <1>9, ReturnMoves

\* A raised limit.
LEMMA LimitMoney ==
    ASSUME Inv, Inv', Typed, NEW limit \in Raised, IncreaseLimit(limit), UNCHANGED alerts
    PROVE  MoneyMoves
<1>1. Rows /\ Rows' /\ account \in Balances /\ deposit \in Nat /\ limit \in Nat
    BY AccountAssumption DEF Inv, Typed
<1>2. /\ account.balance \in Int /\ account.limit \in Nat /\ account.available \in Nat
      /\ Total(holds) \in Int
    BY <1>1, TotalType DEF Balances, Rows
<1> DEFINE d == limit - account.limit
<1>3. d \in Nat /\ account.limit + d = limit
    BY <1>1, <1>2 DEF IncreaseLimit
<1>4. /\ account' \in Balances /\ account'.limit = limit
      /\ account'.balance = account.balance /\ account'.available = account.available + d
  <2>1. account.available + d \in Nat
      BY <1>2, <1>3
  <2>2. account' = [account EXCEPT !.limit = limit, !.available = account.available + d]
      BY DEF IncreaseLimit
  <2> HIDE DEF d
  <2> QED BY <1>1, <2>1, <2>2 DEF Balances
<1>5. UNCHANGED <<holds, journal, deposit>>
    BY DEF IncreaseLimit
<1> HIDE DEF d
<1>6. Drift' = Drift
    BY <1>4, <1>5 DEF Drift
<1>7. Enough(account, holds) => Enough(account', holds')
  <2>1. Headroom(limit, account.balance, Total(holds))
            <= Headroom(account.limit, account.balance, Total(holds)) + d
      BY <1>2, <1>3, HeadroomOfLimit
  <2>2. /\ Headroom(limit, account.balance, Total(holds)) \in Nat
        /\ Headroom(account.limit, account.balance, Total(holds)) \in Nat
      BY <1>1, <1>2, HeadroomType
  <2> QED BY <1>2, <1>3, <1>4, <1>5, <2>1, <2>2 DEF Enough
<1>8. NoMore(account, holds) => NoMore(account', holds') \/ PastClamp
  <2>1. CASE Used > account.limit
    <3>1. account'.limit # account.limit
        BY <1>1, <1>2, <1>4 DEF IncreaseLimit
    <3> QED BY <2>1, <3>1 DEF PastClamp
  <2>2. CASE ~(Used > account.limit)
    <3>1. account.balance + Total(holds) <= account.limit
        BY <1>2, <2>2 DEF Used
    <3>2. Headroom(account.limit, account.balance, Total(holds)) + d
              <= Headroom(limit, account.balance, Total(holds))
        BY <1>2, <1>3, <3>1, HeadroomShortOfClamps
    <3>3. /\ Headroom(limit, account.balance, Total(holds)) \in Nat
          /\ Headroom(account.limit, account.balance, Total(holds)) \in Nat
        BY <1>1, <1>2, HeadroomType
    <3> QED BY <1>2, <1>3, <1>4, <1>5, <3>2, <3>3 DEF NoMore
  <2> QED BY <2>1, <2>2
<1>9. deposit' \in Nat
    BY <1>1, <1>5
<1> QED BY <1>1, <1>4, <1>6, <1>7, <1>8, <1>9, MoneyEnough

\* Alerts of flagged authorizations.
LEMMA RaiseMoney ==
    ASSUME Inv, Inv', Typed, NEW c \in Call,
           AuthorizeOnAlert(c) \/ RaiseAlert(c) \/ Reload(c) \/ RewriteAvailable(c)
    PROVE  MoneyMoves /\ CallMoves(c)
<1>1. Rows /\ Rows' /\ account \in Balances /\ deposit \in Nat
    BY DEF Inv, Typed
<1>2. CASE AuthorizeOnAlert(c)
  <2>1. /\ account' = Recalculated(account, holds') /\ UNCHANGED <<journal, deposit>>
        /\ Return(c)
      BY <1>2 DEF AuthorizeOnAlert
  <2>2. MoneyMoves
      BY <1>1, <2>1, MoneyRecalculated DEF Drift
  <2> QED BY <2>1, <2>2, ReturnMoves
<1>3. CASE RaiseAlert(c)
  <2> DEFINE row == Hold(c, "FLAGGED")
  <2>1. /\ holds' = Append(holds, row) /\ UNCHANGED <<account, journal, deposit, begun>>
        /\ calls' = [calls EXCEPT ![c] = [op |-> "RAISED"]]
      BY <1>3 DEF RaiseAlert, Continue
  <2>2. row \in HoldRow
    <3>1. calls[c].rrn \in Rrn /\ calls[c].amount \in Amount
        BY <1>3, CallFits DEF RaiseAlert, Flaggable, Fits
    <3> QED BY <3>1 DEF Hold, HoldRow, Held
  <2> HIDE DEF row
  <2>3. Total(holds') = Total(holds) + Blocked(row) /\ Blocked(row) \in Nat /\ Total(holds) \in Int
      BY <1>1, <2>1, <2>2, TotalOfAppend, TotalType, AmountTypes DEF Rows
  <2>4. Enough(account, holds) => Enough(account', holds')
    <3>1. account.limit \in Nat /\ account.balance \in Int /\ account.available \in Nat
        BY <1>1 DEF Balances
    <3>2. Headroom(account.limit, account.balance, Total(holds) + Blocked(row))
              <= Headroom(account.limit, account.balance, Total(holds))
        BY <2>3, <3>1, HeadroomOfHolds
    <3>3. /\ Headroom(account.limit, account.balance, Total(holds)) \in Nat
          /\ Headroom(account.limit, account.balance, Total(holds) + Blocked(row)) \in Nat
      <4>1. Total(holds) + Blocked(row) \in Int
          BY <2>3
      <4> QED BY <2>3, <3>1, <4>1, HeadroomType
    <3> QED BY <2>1, <2>3, <3>1, <3>2, <3>3 DEF Enough
  <2>5. Drift' = Drift /\ account' \in Balances /\ deposit' \in Nat
      BY <1>1, <2>1 DEF Drift
  <2>6. [op |-> "RAISED"] \in Requested \cup FraudCalls
      BY DEF FraudCalls
  <2>7. EarlyCommit
    <3>1. calls[c].op = "AUTHORIZE"
        BY <1>3 DEF RaiseAlert, Flaggable
    <3>2. calls'[c] = [op |-> "RAISED"]
        BY <2>1 DEF Typed
    <3> QED BY <3>1, <3>2 DEF EarlyCommit
  <2>8. MoneyMoves
      BY <1>1, <2>4, <2>5, <2>7, MoneyEnough
  <2> QED BY <2>1, <2>6, <2>8 DEF CallMoves
<1>4. CASE Reload(c)
  <2> DEFINE in == [op |-> "RELOADED", seen |-> account,
                    available |-> Recalculated(account, holds).available]
  <2>1. /\ UNCHANGED <<account, holds, journal, deposit, begun>>
        /\ calls' = [calls EXCEPT ![c] = in]
      BY <1>4 DEF Reload, Continue, Moneyless
  <2>2. Recalculated(account, holds).available \in Nat
      BY <1>1, RecalculatedIs DEF Rows, Balances
  <2>3. in \in [op: {"RELOADED"}, seen: Balances, available: Nat]
      BY <1>1, <2>2
  <2>4. in \in Requested \cup FraudCalls
      BY <2>3 DEF FraudCalls
  <2> QED BY <2>1, <2>4, MoneyStays DEF CallMoves
<1>5. CASE RewriteAvailable(c)
  <2> DEFINE saw == calls[c].seen.available
             new == calls[c].available
  <2>1. /\ UNCHANGED <<holds, journal, deposit>> /\ Return(c) /\ calls[c].op = "RELOADED"
        /\ account' = [account EXCEPT !.available = Written(new, saw, account.available)]
      BY <1>5 DEF RewriteAvailable
  <2>2. new \in Nat
      BY <2>1, CallRecalculated
  <2> HIDE DEF new, saw
  <2>3. Written(new, saw, account.available) \in Nat
      BY <1>1, <2>2 DEF Written, Balances
  <2>4. /\ account' \in Balances /\ account'.limit = account.limit
        /\ account'.balance = account.balance
        /\ account'.available = Written(new, saw, account.available)
      BY <1>1, <2>1, <2>3 DEF Balances
  <2>5. Drift' = Drift /\ deposit' \in Nat
      BY <1>1, <2>1, <2>4 DEF Drift
  <2>6. ASSUME new = Recalculated(account, holds).available PROVE MoneyMoves
    <3>1. new = Headroom(account.limit, account.balance, Total(holds))
        BY <1>1, <2>6, RecalculatedIs DEF Rows
    <3>2. /\ Enough(account, holds) => Enough(account', holds')
          /\ NoMore(account, holds) => NoMore(account', holds')
        BY <2>1, <2>2, <2>4, <3>1 DEF Enough, NoMore, Written
    <3> QED BY <1>1, <2>4, <2>5, <3>2, MoneyEnough
  <2>7. ASSUME new # Recalculated(account, holds).available PROVE MoneyMoves
    <3>1. calls'[c] = Idle
        BY <2>1 DEF Return, Continue, Typed
    <3>2. LateRewrite
        BY <2>1, <2>7, <3>1 DEF LateRewrite, new
    <3> QED BY <2>4, <2>5, <3>2 DEF MoneyMoves
  <2> QED BY <2>1, <2>6, <2>7, ReturnMoves
<1> QED BY <1>2, <1>3, <1>4, <1>5

\* What a dispute on the account it has seen does.
LEMMA RepaidIs ==
    ASSUME account \in Balances, NEW seen \in Balances, NEW n \in Nat, NEW hs \in Seq(HoldRow)
    PROVE  /\ Repaid(seen, n, hs) \in Balances
           /\ seen = account => \E a \in Balances :
                /\ a.balance = account.balance - n /\ Repaid(seen, n, hs) = Recalculated(a, hs)
<1> DEFINE a == [seen EXCEPT !.balance = @ - n]
           new == Recalculated(a, hs)
           balance == Written(new.balance, seen.balance, account.balance)
           available == Written(new.available, seen.available, account.available)
<1>1. a \in Balances /\ a.balance = seen.balance - n /\ a.limit = seen.limit
    BY DEF Balances
<1> HIDE DEF a
<1>2. new \in Balances /\ new.limit = a.limit
    BY <1>1, RecalculatedIs
<1> HIDE DEF new
<1>3. Repaid(seen, n, hs) = [account EXCEPT !.balance = balance, !.available = available]
    BY DEF Repaid, new, a
<1>4. balance \in Int /\ available \in Nat
    BY <1>2 DEF Written, Balances
<1>5. seen = account => balance = new.balance /\ available = new.available
    BY DEF Written
<1> HIDE DEF balance, available
<1>6. Repaid(seen, n, hs) \in Balances
    BY <1>3, <1>4 DEF Balances
<1>7. ASSUME seen = account PROVE Repaid(seen, n, hs) = new
    BY <1>1, <1>2, <1>3, <1>5, <1>7 DEF Balances
<1> QED BY <1>1, <1>6, <1>7 DEF new

\* A remedy.
LEMMA RemedyMoney ==
    ASSUME Inv, Inv', Typed, NEW c \in Call, calls[c].op \in {"TRIAGE", "REPORT"},
           calls[c].item \in Items, Remedy(calls[c].item, calls[c].seen), Return(c)
    PROVE  MoneyMoves
<1> DEFINE item == calls[c].item
           seen == calls[c].seen
           line == journal[item.at]
           l == [kind |-> "CREDIT", ref |-> line.ref, amount |-> line.amount]
<1>1. Rows /\ Rows' /\ account \in Balances /\ deposit \in Nat /\ seen \in Balances
    BY CallSaw DEF Inv, Typed
<1>2. /\ account.balance \in Int /\ Owed(journal) \in Int /\ holds' \in Seq(HoldRow)
    BY <1>1, OwedType DEF Balances, Rows
<1>3. \/ account' = Repaid(seen, 0, holds') /\ UNCHANGED <<journal, deposit>>
      \/ /\ item.kind = "LINE" /\ journal' = Append(journal, l)
         /\ account' = Repaid(seen, line.amount, holds') /\ UNCHANGED <<holds, deposit>>
    BY DEF Remedy, Credit, Post
<1>4. item.kind = "LINE" => l \in Line /\ line.amount \in Nat /\ Signed(l) = -line.amount
  <2>1. item.kind = "LINE" => line \in Line
      BY <1>1, ItemsAre DEF Rows
  <2>2. line \in Line => l \in Line /\ line.amount \in Nat
      BY AmountTypes DEF Line
  <2> QED BY <2>1, <2>2 DEF Signed
<1> HIDE DEF item, line, l
<1>5. PICK n \in Nat : /\ account' = Repaid(seen, n, holds') /\ deposit' = deposit
                       /\ account.balance - n - Owed(journal') = Drift
  <2>1. CASE account' = Repaid(seen, 0, holds') /\ UNCHANGED <<journal, deposit>>
      BY <1>2, <2>1 DEF Drift
  <2>2. CASE /\ item.kind = "LINE" /\ journal' = Append(journal, l)
             /\ account' = Repaid(seen, line.amount, holds') /\ UNCHANGED <<holds, deposit>>
    <3>1. Owed(journal') = Owed(journal) + (-line.amount)
        BY <1>1, <1>4, <2>2, OwedMoves
    <3> QED BY <1>2, <1>4, <2>2, <3>1 DEF Drift
  <2> QED BY <1>3, <2>1, <2>2
<1>6. ASSUME seen # account PROVE MoneyMoves
  <2>1. StaleEnd
      BY <1>6, StaleCall
  <2>2. account' \in Balances /\ deposit' \in Nat
      BY <1>1, <1>2, <1>5, RepaidIs
  <2> QED BY <2>1, <2>2 DEF MoneyMoves
<1>7. ASSUME seen = account PROVE MoneyMoves
  <2>1. PICK a \in Balances :
            a.balance = account.balance - n /\ Repaid(seen, n, holds') = Recalculated(a, holds')
      BY <1>1, <1>2, <1>7, RepaidIs
  <2>2. a.balance - Owed(journal') = Drift /\ deposit' \in Nat
      BY <1>1, <1>5, <2>1
  <2> QED BY <1>1, <1>5, <2>1, <2>2, MoneyRecalculated
<1> QED BY <1>6, <1>7

\* What a triage has read.
LEMMA TriageRecord ==
    ASSUME Inv, Typed, NEW c \in Call, NEW a \in DOMAIN alerts,
           NEW item \in Items \cup {Nothing}
    PROVE  [op |-> "TRIAGE", alert |-> a, item |-> item, was |-> alerts[a].status, seen |-> account]
                \in Requested \cup FraudCalls
<1>1. a \in Nat /\ alerts[a].status \in AlertStatus
  <2>1. a \in Nat /\ alerts[a] \in AlertRow
      BY CallFits
  <2> QED BY <2>1 DEF AlertRow
<1>2. [op |-> "TRIAGE", alert |-> a, item |-> item, was |-> alerts[a].status, seen |-> account]
        \in [op: {"TRIAGE"}, alert: Nat, item: Item, was: AlertStatus, seen: Balances]
    BY <1>1, ItemsAre DEF Typed
<1> QED BY <1>2 DEF FraudCalls

\* Triages.
LEMMA TriageMoney ==
    ASSUME Inv, Inv', Typed, NEW c \in Call,
           \/ \E a \in DOMAIN alerts, item \in Items \cup {Nothing} : BeginTriage(c, a, item)
           \/ Recognize(c) \/ Dispute(c)
    PROVE  MoneyMoves /\ CallMoves(c)
<1>1. ASSUME NEW a \in DOMAIN alerts, NEW item \in Items \cup {Nothing}, BeginTriage(c, a, item)
      PROVE  MoneyMoves /\ CallMoves(c)
  <2> DEFINE in == [op |-> "TRIAGE", alert |-> a, item |-> item, was |-> alerts[a].status,
                    seen |-> account]
  <2>1. /\ UNCHANGED <<account, holds, journal, deposit>>
        /\ calls' = [calls EXCEPT ![c] = in] /\ begun < MaxCalls /\ begun' = begun + 1
      BY <1>1 DEF BeginTriage, Start, Begin
  <2>2. in \in Requested \cup FraudCalls
      BY <1>1, TriageRecord
  <2> QED BY <2>1, <2>2, MoneyStays DEF CallMoves
<1>2. CASE Recognize(c)
  <2>1. UNCHANGED <<account, holds, journal, deposit>> /\ Return(c)
      BY <1>2 DEF Recognize, Moneyless
  <2> QED BY <2>1, MoneyStays, ReturnMoves
<1>3. CASE Dispute(c)
  <2>1. Return(c) /\ calls[c].op = "TRIAGE" /\ calls[c].item \in Items
      BY <1>3, CallFits DEF Dispute, Fits
  <2>2. ASSUME Moneyless PROVE MoneyMoves
      BY <2>2, MoneyStays DEF Moneyless
  <2>3. ASSUME Remedy(calls[c].item, calls[c].seen) PROVE MoneyMoves
      BY <2>1, <2>3, RemedyMoney
  <2> QED BY <1>3, <2>1, <2>2, <2>3, ReturnMoves DEF Dispute
<1> QED BY <1>1, <1>2, <1>3

\* Reports.
LEMMA ReportMoney ==
    ASSUME Inv, Inv', Typed, NEW c \in Call,
           \/ \E item \in Items : BeginReport(c, item)
           \/ Report(c) \/ TriageReport(c) \/ ResumeReport(c)
    PROVE  MoneyMoves /\ CallMoves(c)
<1>1. ASSUME NEW item \in Items, BeginReport(c, item) PROVE MoneyMoves /\ CallMoves(c)
  <2>1. /\ UNCHANGED <<account, holds, journal, deposit>> /\ begun < MaxCalls /\ begun' = begun + 1
        /\ calls' = [calls EXCEPT ![c] = [op |-> "REPORT", item |-> item, seen |-> account]]
      BY <1>1 DEF BeginReport, Start, Begin
  <2>2. [op |-> "REPORT", item |-> item, seen |-> account]
            \in [op: {"REPORT"}, item: Item, seen: Balances]
      BY ItemsAre DEF Typed
  <2>3. [op |-> "REPORT", item |-> item, seen |-> account] \in Requested \cup FraudCalls
      BY <2>2 DEF FraudCalls
  <2> QED BY <2>1, <2>3, MoneyStays DEF CallMoves
<1>2. CASE Report(c)
  <2>1. PICK n : n = Len(alerts')
      OBVIOUS
  <2> DEFINE in == [op |-> "REPORTED", alert |-> n, item |-> calls[c].item]
  <2>2. /\ UNCHANGED <<account, holds, journal, deposit, begun>>
        /\ calls' = [calls EXCEPT ![c] = in]
      BY <1>2, <2>1 DEF Report, Moneyless, Continue
  <2>3. n \in Nat
      BY <2>1 DEF Inv, Rows
  <2>4. calls[c].item \in Item
      BY <1>2, CallFits, ItemsAre DEF Report, Fits
  <2>5. in \in [op: {"REPORTED"}, alert: Nat, item: Item]
      BY <2>3, <2>4
  <2>6. in \in Requested \cup FraudCalls
      BY <2>5 DEF FraudCalls
  <2> QED BY <2>2, <2>6, MoneyStays DEF CallMoves
<1>3. CASE TriageReport(c)
  <2> DEFINE in == [op |-> "TRIAGE", alert |-> calls[c].alert, item |-> calls[c].item,
                    was |-> alerts[calls[c].alert].status, seen |-> account]
  <2>1. /\ UNCHANGED <<account, holds, journal, deposit, begun>>
        /\ calls' = [calls EXCEPT ![c] = in]
      BY <1>3 DEF TriageReport, Moneyless, Continue
  <2>2. calls[c].alert \in DOMAIN alerts /\ calls[c].item \in Items
      BY <1>3, CallFits DEF TriageReport, Fits
  <2>3. in \in Requested \cup FraudCalls
      BY <2>2, TriageRecord
  <2> QED BY <2>1, <2>3, MoneyStays DEF CallMoves
<1>4. CASE ResumeReport(c)
  <2>1. /\ Return(c) /\ calls[c].op = "REPORT" /\ calls[c].item \in Items
        /\ Remedy(calls[c].item, calls[c].seen)
      BY <1>4, CallFits DEF ResumeReport, Fits
  <2> QED BY <2>1, RemedyMoney, ReturnMoves
<1> QED BY <1>1, <1>2, <1>3, <1>4

\* Resolutions and the sweep.
LEMMA CloseMoney ==
    ASSUME Inv, Inv', Typed, NEW c \in Call,
           (\E a \in DOMAIN alerts : BeginResolve(c, a)) \/ BeginSweep(c) \/ Close(c)
    PROVE  MoneyMoves /\ CallMoves(c)
<1>1. OpenAlerts \subseteq Nat
    BY DEF Inv, Rows, OpenAlerts
<1>2. ASSUME NEW op \in {"RESOLVE", "SWEEP"}, NEW due \in SUBSET OpenAlerts,
             Begin(c, [op |-> op, alerts |-> due])
      PROVE  MoneyMoves /\ CallMoves(c)
  <2>1. [op |-> op, alerts |-> due] \in [op: {"RESOLVE", "SWEEP"}, alerts: SUBSET Nat]
      BY <1>1
  <2>2. [op |-> op, alerts |-> due] \in Requested \cup FraudCalls
      BY <2>1 DEF FraudCalls
  <2> QED BY <1>2, <2>2, MoneyStays DEF Begin, CallMoves
<1>3. ASSUME NEW a \in DOMAIN alerts, BeginResolve(c, a) PROVE MoneyMoves /\ CallMoves(c)
  <2>1. {a} \in SUBSET OpenAlerts
      BY <1>3 DEF BeginResolve
  <2> QED BY <1>2, <1>3, <2>1 DEF BeginResolve, Start
<1>4. CASE BeginSweep(c)
  <2>1. {a \in OpenAlerts : alerts[a].source = "MODEL"} \in SUBSET OpenAlerts
      OBVIOUS
  <2> QED BY <1>2, <1>4, <2>1 DEF BeginSweep, Start
<1>5. CASE Close(c)
  <2>1. UNCHANGED <<account, holds, journal, deposit>> /\ Return(c)
      BY <1>5 DEF Close, Moneyless
  <2> QED BY <2>1, MoneyStays, ReturnMoves
<1> QED BY <1>3, <1>4, <1>5

\* Calls that begin and calls that are refused.
LEMMA BeginMoney ==
    ASSUME Inv, Typed, NEW c \in Call,
           \/ \E rrn \in Rrn, a \in Amount : BeginAuthorize(c, rrn, a)
           \/ \E i \in DOMAIN holds : BeginReverse(c, i) \/ \E a \in Clearing : BeginSettle(c, i, a)
           \/ \E i \in DOMAIN journal : BeginFeeReversal(c, i)
           \/ \E k \in PayKey, a \in Amount : BeginPayment(c, k, a)
           \/ Abort(c)
    PROVE  MoneyMoves /\ CallMoves(c)
<1>1. ASSUME NEW in \in Requested, Begin(c, in) PROVE MoneyMoves /\ CallMoves(c)
    BY <1>1, MoneyStays DEF Begin, CallMoves
<1>2. ASSUME NEW rrn \in Rrn, NEW a \in Amount, BeginAuthorize(c, rrn, a)
      PROVE  MoneyMoves /\ CallMoves(c)
  <2>1. [op |-> "AUTHORIZE", rrn |-> rrn, amount |-> a]
            \in [op: {"AUTHORIZE"}, rrn: Rrn, amount: Amount]
      OBVIOUS
  <2> QED BY <1>1, <1>2, <2>1 DEF BeginAuthorize, Requested
<1>3. \A i : (i \in DOMAIN holds \/ i \in DOMAIN journal) => i \in Nat
    BY CallFits
<1>4. ASSUME NEW i \in DOMAIN holds, BeginReverse(c, i) PROVE MoneyMoves /\ CallMoves(c)
  <2>1. [op |-> "REVERSE", hold |-> i] \in [op: {"REVERSE"}, hold: Nat]
      BY <1>3
  <2> QED BY <1>1, <1>4, <2>1 DEF BeginReverse, Requested
<1>5. ASSUME NEW i \in DOMAIN holds, NEW a \in Clearing, BeginSettle(c, i, a)
      PROVE  MoneyMoves /\ CallMoves(c)
  <2>1. [op |-> "SETTLE", hold |-> i, amount |-> a]
            \in [op: {"SETTLE"}, hold: Nat, amount: Clearing]
      BY <1>3
  <2> QED BY <1>1, <1>5, <2>1 DEF BeginSettle, Requested
<1>6. ASSUME NEW i \in DOMAIN journal, BeginFeeReversal(c, i) PROVE MoneyMoves /\ CallMoves(c)
  <2>1. [op |-> "FEE", line |-> i, seen |-> account] \in [op: {"FEE"}, line: Nat, seen: Balances]
      BY <1>3 DEF Typed
  <2> QED BY <1>1, <1>6, <2>1 DEF BeginFeeReversal, Requested
<1>7. ASSUME NEW k \in PayKey, NEW a \in Amount, BeginPayment(c, k, a)
      PROVE  MoneyMoves /\ CallMoves(c)
  <2>1. [op |-> "PAY", key |-> k, amount |-> a] \in [op: {"PAY"}, key: PayKey, amount: Amount]
      OBVIOUS
  <2> QED BY <1>1, <1>7, <2>1 DEF BeginPayment, Requested
<1>8. CASE Abort(c)
    BY <1>8, MoneyStays, ReturnMoves DEF Abort
<1> QED BY <1>2, <1>4, <1>5, <1>6, <1>7, <1>8
-----------------------------------------------------------------------------
(* Theorems about the money.                                               *)

\* A call's records stay of their kinds.
LEMMA CallMovesTyped ==
    ASSUME Typed, NEW c \in Call, CallMoves(c)
    PROVE  begun' \in 0..MaxCalls /\ calls' \in [Call -> Requested \cup FraudCalls]
<1>1. begun' \in 0..MaxCalls
    BY AccountAssumption DEF Typed, CallMoves
<1>2. PICK in \in Requested \cup FraudCalls : calls' = [calls EXCEPT ![c] = in]
    BY DEF CallMoves
<1>3. calls' \in [Call -> Requested \cup FraudCalls]
    BY <1>2 DEF Typed
<1> QED BY <1>1, <1>3

\* What every step does to the money.
LEMMA StepMoney ==
    ASSUME Inv, Typed, [FraudNext]_fraudVars
    PROVE  MoneyMoves /\ Typed'
<1>1. Inv'
    BY InvNext
<1>2. ASSUME NEW c \in Call, MoneyMoves, CallMoves(c) PROVE MoneyMoves /\ Typed'
    BY <1>2, CallMovesTyped DEF MoneyMoves, Typed
<1>3. ASSUME NEW l \in Raised, IncreaseLimit(l), UNCHANGED alerts PROVE MoneyMoves /\ Typed'
  <2>1. MoneyMoves
      BY <1>1, <1>3, LimitMoney
  <2>2. UNCHANGED <<calls, begun>>
      BY <1>3 DEF IncreaseLimit
  <2> QED BY <2>1, <2>2 DEF MoneyMoves, Typed
<1>4. ASSUME NEW c \in Call, Fraud(c) PROVE MoneyMoves /\ Typed'
  <2>1. MoneyMoves /\ CallMoves(c)
      BY <1>1, <1>4, RaiseMoney, TriageMoney, ReportMoney, CloseMoney DEF Fraud
  <2> QED BY <1>2, <2>1
<1>5. ASSUME Next, UNCHANGED alerts PROVE MoneyMoves /\ Typed'
  <2>1. (\E l \in Raised : IncreaseLimit(l)) \/ \E c \in Call : MoneyMoves /\ CallMoves(c)
      BY <1>1, <1>5, NetworkMoney, PaymentMoney, FeeReversalMoney, BeginMoney DEF Next
  <2> QED BY <1>2, <1>3, <1>5, <2>1
<1>6. CASE UNCHANGED fraudVars
  <2>1. UNCHANGED <<account, holds, journal, deposit, calls, begun>>
      BY <1>6 DEF fraudVars, vars
  <2> QED BY <2>1, MoneyStays DEF MoneyMoves, Typed
<1> QED BY <1>4, <1>5, <1>6 DEF FraudNext

\* At first every amount is in its domain.
LEMMA TypedInit == FraudInit => Typed
<1> SUFFICES ASSUME FraudInit PROVE Typed
    OBVIOUS
<1>1. /\ account = [limit |-> InitialLimit, balance |-> 0, available |-> InitialLimit]
      /\ deposit = InitialDeposit /\ calls = [c \in Call |-> Idle] /\ begun = 0
    BY DEF FraudInit, Init
<1>2. account \in Balances /\ deposit \in Nat /\ begun \in 0..MaxCalls
    BY <1>1, AccountAssumption DEF Balances
<1>3. Idle \in Requested \cup FraudCalls
    BY DEF Idle, Requested
<1> QED BY <1>1, <1>2, <1>3 DEF Typed

LEMMA MoneyInvariance == FraudSpec => [](Inv /\ Typed)
<1>1. Inv /\ Typed /\ [FraudNext]_fraudVars => (Inv /\ Typed)'
    BY InvNext, StepMoney
<1> QED BY InvInit, TypedInit, <1>1, PTL DEF FraudSpec

\* Whatever runs beside what, the available credit is never negative, the checking account
\* never overdrawn, and no row, alert or call in progress names what is not there.
THEOREM TypeCorrect == FraudSpec => []TypeOK
<1>1. ASSUME Inv, Typed PROVE TypeOK
  <2>1. MoneyTypeOK
      BY <1>1 DEF Inv, Rows, Typed, MoneyTypeOK, HoldRow, Line
  <2>2. ASSUME NEW a \in DOMAIN alerts
        PROVE  /\ alerts[a].source \in {"MODEL", "CUSTOMER"} /\ alerts[a].status \in AlertStatus
               /\ alerts[a].items \subseteq Items /\ alerts[a].answers \subseteq Items \cup {Nothing}
    <3>1. alerts[a] \in AlertRow
        BY <1>1 DEF Inv, Rows
    <3> QED BY <1>1, <3>1 DEF Inv, AlertsName, AlertRow, Sources
  <2> QED BY <1>1, <2>1, <2>2 DEF Typed, TypeOK
<1> QED BY MoneyInvariance, <1>1, PTL

\* For any amounts and any number of calls, the cleared balance moves with the posted lines:
\* a settlement adds what cleared, not what was held; a payment, a reversal and a credit
\* lower it by what they post.  Only a call that ends with an account object read before it
\* had the lock can make the two part (reverse_posted_fee, apply_fraud_provisional_credit).
THEOREM BalanceFollowsJournal == FraudSpec => BalanceMovesWithJournal
<1>1. ASSUME Inv, Typed, [FraudNext]_fraudVars PROVE [Drift' = Drift \/ StaleEnd]_vars
  <2>1. MoneyMoves
      BY <1>1, StepMoney
  <2> QED BY <2>1 DEF MoneyMoves
<1> QED BY MoneyInvariance, <1>1, PTL DEF FraudSpec, BalanceMovesWithJournal

\* No step leaves the customer less credit than the limit, the balance and the holds allow,
\* unless it works on an older account object or rewrites an older recalculation; and none
\* leaves more, unless besides a new alert has committed its hold early, or a raised limit
\* or a reversed fee was added past a clamp.
THEOREM CreditStaysTrue == FraudSpec => CreditIsTrue
<1>1. ASSUME Inv, Typed, [FraudNext]_fraudVars
      PROVE  [/\ ~Withheld /\ Withheld' => StaleEnd \/ LateRewrite
              /\ ~Overstated /\ Overstated' =>
                    StaleEnd \/ LateRewrite \/ EarlyCommit \/ PastClamp]_fraudVars
  <2>1. MoneyMoves
      BY <1>1, StepMoney
  <2> QED BY <2>1 DEF MoneyMoves
<1> QED BY MoneyInvariance, <1>1, PTL DEF FraudSpec, CreditIsTrue

\* A call approves what fits the available credit, or approves nothing.
Approves(c) ==
    /\ calls[c].op = "AUTHORIZE"
    /\ \E status \in Held \cup {"DECLINED"} :
          /\ holds' = Append(holds, Hold(c, status))
          /\ status \in Held => calls[c].amount <= account.available

LEMMA OnlyAuthorizationsApprove ==
    ASSUME [FraudNext]_fraudVars
    PROVE  DOMAIN holds' = DOMAIN holds \/ \E c \in Call : Approves(c)
<1>1. ASSUME NEW c \in Call, Authorize(c) \/ AuthorizeOnAlert(c) \/ RaiseAlert(c)
      PROVE  Approves(c)
    BY <1>1 DEF Approves, Authorize, AuthorizeOnAlert, RaiseAlert, Flaggable, Held
<1>2. ASSUME NEW c \in Call, Settle(c) \/ ReverseHold(c) \/ FeeReversal(c) \/ Payment(c) \/ Abort(c)
      PROVE  DOMAIN holds' = DOMAIN holds
    BY <1>2 DEF Settle, ReverseHold, FeeReversal, Payment, Abort
<1>3. ASSUME NEW c \in Call,
             \/ \E rrn \in Rrn, a \in Amount : BeginAuthorize(c, rrn, a)
             \/ \E i \in DOMAIN holds : BeginReverse(c, i) \/ \E a \in Clearing : BeginSettle(c, i, a)
             \/ \E i \in DOMAIN journal : BeginFeeReversal(c, i)
             \/ \E k \in PayKey, a \in Amount : BeginPayment(c, k, a)
      PROVE  holds' = holds
    BY <1>3 DEF BeginAuthorize, BeginReverse, BeginSettle, BeginFeeReversal, BeginPayment, Begin
<1>4. ASSUME NEW l \in Raised, IncreaseLimit(l) PROVE holds' = holds
    BY <1>4 DEF IncreaseLimit
<1>5. ASSUME NEW item, NEW seen, Remedy(item, seen) PROVE DOMAIN holds' = DOMAIN holds
    BY <1>5 DEF Remedy
<1>6. ASSUME NEW c \in Call, Dispute(c) \/ ResumeReport(c)
      PROVE  DOMAIN holds' = DOMAIN holds
  <2>1. holds' = holds \/ \E item, seen : Remedy(item, seen)
      BY <1>6 DEF Dispute, ResumeReport, Moneyless
  <2> QED BY <1>5, <2>1
<1>7. ASSUME NEW c \in Call,
             \/ Reload(c) \/ RewriteAvailable(c) \/ Recognize(c) \/ Report(c) \/ TriageReport(c)
             \/ BeginSweep(c) \/ Close(c) \/ \E item \in Items : BeginReport(c, item)
             \/ \E a \in DOMAIN alerts :
                    BeginResolve(c, a) \/ \E item \in Items \cup {Nothing} : BeginTriage(c, a, item)
      PROVE  holds' = holds
    BY <1>7 DEF Reload, RewriteAvailable, Recognize, Report, TriageReport, BeginSweep, Close,
        BeginReport, BeginResolve, BeginTriage, Start, Begin, Moneyless
<1>8. CASE UNCHANGED fraudVars
    BY <1>8 DEF fraudVars, vars
<1>9. ASSUME NEW c \in Call, Fraud(c) PROVE DOMAIN holds' = DOMAIN holds \/ Approves(c)
    BY <1>1, <1>6, <1>7, <1>9 DEF Fraud
<1>10. ASSUME Next PROVE DOMAIN holds' = DOMAIN holds \/ \E c \in Call : Approves(c)
    BY <1>1, <1>2, <1>3, <1>4, <1>10 DEF Next
<1> QED BY <1>8, <1>9, <1>10 DEF FraudNext

\* As long as the available credit is not overstated, every authorization that is approved
\* fits what the limit, the balance and the holds leave: with CreditStaysTrue, the limit is
\* overrun only after one of the exceptions named there.
THEOREM OverrunsAreExplained == FraudSpec => [][~Overstated => ApprovalsFit]_fraudVars
<1>1. ASSUME Inv, Typed, [FraudNext]_fraudVars PROVE ~Overstated => ApprovalsFit
  <2>1. CASE DOMAIN holds' = DOMAIN holds
      BY <2>1 DEF ApprovalsFit
  <2>2. ASSUME NEW c \in Call, Approves(c), ~Overstated PROVE ApprovalsFit
    <3>1. PICK status \in Held \cup {"DECLINED"} :
              /\ holds' = Append(holds, Hold(c, status))
              /\ status \in Held => calls[c].amount <= account.available
        BY <2>2 DEF Approves
    <3>2. Hold(c, status).status = status /\ Hold(c, status).amount = calls[c].amount
        BY DEF Hold
    <3>3. holds \in Seq(HoldRow) /\ calls[c].amount \in Nat /\ Hold(c, status) \in HoldRow
      <4>1. calls[c].rrn \in Rrn /\ calls[c].amount \in Amount
          BY <1>1, <2>2, CallFits DEF Approves, Fits
      <4> QED BY <1>1, <4>1, AmountTypes DEF Inv, Rows, Hold, HoldRow
    <3>4. \A i \in DOMAIN holds' \ DOMAIN holds : holds'[i] = Hold(c, status)
        BY <3>1, <3>3
    <3>5. /\ account.available \in Nat /\ Recalculated(account, holds).available \in Nat
          /\ account.available <= Recalculated(account, holds).available
      <4>1. account \in Balances /\ Recalculated(account, holds) \in Balances
          BY <1>1, <3>3, RecalculatedIs DEF Typed
      <4>2. account.available \in Nat /\ Recalculated(account, holds).available \in Nat
          BY <4>1 DEF Balances
      <4> QED BY <2>2, <4>2 DEF Overstated
    <3>6. status \in Held => calls[c].amount <= Recalculated(account, holds).available
        BY <3>1, <3>3, <3>5
    <3> QED BY <3>2, <3>4, <3>6 DEF ApprovalsFit
  <2> QED BY <1>1, <2>1, <2>2, OnlyAuthorizationsApprove
<1> QED BY MoneyInvariance, <1>1, PTL DEF FraudSpec
=============================================================================
