------------------------ MODULE EventSchedulerProofs ------------------------
(***************************************************************************)
(* Proofs about the event scheduler, for every set of schedules, any       *)
(* number of concurrent dispatches, attempts, deaths and requests.         *)
(***************************************************************************)
EXTENDS EventScheduler, SequenceTheorems, TLAPS

Runs == Dispatching \cup {Idle}

\* Dispatch d is under way for event e, or its request is.
Serves(d, e) == run[d].phase # "NONE" /\ run[d].event = e

\* An authorization that completed names the hold that was made for it.
Named == \A i \in DOMAIN completed : result[completed[i]].rrn \in Event

Typed == TypeOK /\ Named

\* A dispatch of an authorization is about itself; one that found a hold to settle or
\* reverse has not found a declined one.
Aimed(d) ==
    /\ run[d].phase # "NONE" /\ plan[run[d].event].kind = "AUTHORIZE" => run[d].rrn = run[d].event
    /\ run[d].phase = "FOUND" /\ plan[run[d].event].kind \in {"SETTLE", "REVERSE"} =>
          run[d].hold \in DOMAIN holds /\ holds[run[d].hold].status # "DECLINED"

\* A success that was answered was carried out.
Truthful(d) == run[d].phase = "ANSWERED" /\ run[d].ok => <<run[d].event, run[d].rrn>> \in carried

\* A hold that was approved was asked for by the event whose number it bears.
HoldsCarried ==
    \A i \in DOMAIN holds :
        holds[i].status # "DECLINED" => <<holds[i].rrn, holds[i].rrn>> \in carried

RecordsTrue == HoldsCarried /\ SucceededMeansDone /\ \A d \in Delivery : Aimed(d) /\ Truthful(d)

\* What the row of an event with no lost answer and no overlap tells of it.
Calm(e) ==
    /\ \A c, d \in Delivery : Serves(c, e) /\ Serves(d, e) => c = d
    /\ \A d \in Delivery : Serves(d, e) =>
          /\ run[d].waiting /\ status[e] = "DISPATCHING"
          /\ DoneBy(e) # {} => run[d].phase = "ANSWERED" /\ run[d].ok
    /\ DoneBy(e) # {} => status[e] = "SUCCEEDED" \/ Running(e)

Inv == Typed /\ RecordsTrue /\ \A e \in Event \ disturbed : Calm(e)
-----------------------------------------------------------------------------
(* Steps of one dispatch.                                                  *)

\* A dispatch under way is a record of its own shape.
LEMMA UnderWay ==
    ASSUME TypeOK, NEW d \in Delivery, run[d].phase # "NONE"
    PROVE  /\ run[d] \in Dispatching /\ run[d].event \in Event /\ run[d].rrn \in Event
           /\ run[d].phase \in {"SENT", "FOUND", "ANSWERED"}
           /\ run[d].byTask \in BOOLEAN /\ run[d].waiting \in BOOLEAN
BY DEF TypeOK, Dispatching, Idle

\* The answer reaches a dispatch that waits; the request of one that is gone ends.
LEMMA Answered ==
    ASSUME TypeOK, NEW d \in Delivery, run[d].phase # "NONE",
           NEW ok \in BOOLEAN, NEW alert \in BOOLEAN, AnswerWith(d, ok, alert)
    PROVE  /\ run' \in [Delivery -> Runs]
           /\ \A c \in Delivery : c # d => run'[c] = run[c]
           /\ run[d].waiting => /\ run'[d] \in Dispatching
                                /\ run'[d].phase = "ANSWERED" /\ run'[d].ok = ok
                                /\ run'[d].event = run[d].event /\ run'[d].rrn = run[d].rrn
                                /\ run'[d].waiting
           /\ ~run[d].waiting => run'[d] = Idle
<1>1. run \in [Delivery -> Runs] /\ run[d] \in Dispatching
    BY UnderWay DEF TypeOK, Runs
<1>2. [run[d] EXCEPT !.phase = "ANSWERED", !.ok = ok, !.alert = alert] \in Dispatching
    BY <1>1 DEF Dispatching
<1> QED BY <1>1, <1>2 DEF AnswerWith, Runs, Dispatching

\* The lookup found hold i, or needs none (0).
LEMMA Found ==
    ASSUME TypeOK, NEW d \in Delivery, run[d].phase # "NONE", NEW i \in Nat, Find(d, i)
    PROVE  /\ run' \in [Delivery -> Runs]
           /\ \A c \in Delivery : c # d => run'[c] = run[c]
           /\ run'[d] \in Dispatching /\ run'[d].phase = "FOUND" /\ run'[d].hold = i
           /\ run'[d].event = run[d].event /\ run'[d].rrn = run[d].rrn
           /\ run'[d].waiting = run[d].waiting
<1>1. run \in [Delivery -> Runs] /\ run[d] \in Dispatching
    BY UnderWay DEF TypeOK, Runs
<1>2. [run[d] EXCEPT !.phase = "FOUND", !.hold = i] \in Dispatching
    BY <1>1 DEF Dispatching
<1>3. run' = [run EXCEPT ![d] = [run[d] EXCEPT !.phase = "FOUND", !.hold = i]]
    BY DEF Find
<1> QED BY <1>1, <1>2, <1>3 DEF Runs, Dispatching

\* A dispatch that gives up leaves its request, or nothing.
LEMMA Abandoned ==
    ASSUME TypeOK, NEW d \in Delivery, run[d].phase # "NONE", run' = Abandon(d)
    PROVE  /\ run' \in [Delivery -> Runs]
           /\ \A c \in Delivery : c # d => run'[c] = run[c]
           /\ \/ run'[d] = Idle
              \/ /\ run'[d] \in Dispatching /\ run'[d].phase = run[d].phase
                 /\ run'[d].event = run[d].event /\ run'[d].rrn = run[d].rrn
                 /\ run'[d].hold = run[d].hold /\ run'[d].phase # "ANSWERED"
<1>1. run \in [Delivery -> Runs] /\ run[d] \in Dispatching
    BY UnderWay DEF TypeOK, Runs
<1>2. [run[d] EXCEPT !.waiting = FALSE] \in Dispatching
    BY <1>1 DEF Dispatching
<1> QED BY <1>1, <1>2 DEF Abandon, Runs, Dispatching
-----------------------------------------------------------------------------
(* Types.                                                                  *)

\* The subject of a dispatch is the number of an event.
LEMMA SubjectsAreEvents ==
    ASSUME Typed, NEW e \in Event
    PROVE  Subjects(e) \subseteq Event
<1>1. \A i \in DOMAIN completed : result[completed[i]].rrn \in Event
    BY DEF Typed, Named
<1>2. \A a \in Latest(e) : result[a].rrn \in Event
    BY <1>1 DEF Latest
<1> QED BY <1>2 DEF Subjects

\* Initially every variable is in its domain.
LEMMA TypedInit ==
    Init => Typed
<1> SUFFICES ASSUME Init PROVE Typed
    OBVIOUS
<1>1. plan \in Schedules /\ Len(plan) \in Nat
    BY SchedulerAssumption DEF Init
<1>2. completed \in Seq(Event) /\ holds \in Seq([rrn: Event, status: {"PENDING", "FLAGGED",
            "DECLINED", "SETTLED", "REVERSED"}]) /\ DOMAIN completed = {}
    BY DEF Init
<1> QED BY <1>1, <1>2, SchedulerAssumption DEF Init, Typed, Named, TypeOK, NoResult

\* The rows of the schedule never change.
LEMMA PlanIsFixed ==
    ASSUME [Next]_vars
    PROVE  plan' = plan
BY DEF Next, vars, generator, Enqueue, Cancel, FallDue, Delivered, Answer, Refuse, Dispatch,
       Bank, LookUp, Authorize, FailAfterAlert, Settle, ReverseHold, Act, Reject, Carry,
       Finish, TimeOut, Die, Vanish

\* An operator's steps on the schedule keep every variable in its domain.
LEMMA TypedSchedule ==
    ASSUME Typed, Enqueue \/ Cancel \/ FallDue
    PROVE  Typed'
<1>1. ASSUME Enqueue PROVE Typed'
    BY <1>1, SchedulerAssumption
    DEF Enqueue, Operator, Typed, TypeOK, Named, Event, bank, Dispatching, Idle
<1>2. ASSUME Cancel PROVE Typed'
    BY <1>2, SchedulerAssumption
    DEF Cancel, Operator, Typed, TypeOK, Named, Event, bank, Dispatching, Idle
<1>3. ASSUME FallDue PROVE Typed'
    <2>1. Len(plan) \in Nat
        BY SchedulerAssumption DEF Typed, TypeOK
    <2> QED BY <1>3, <2>1
        DEF FallDue, Typed, TypeOK, Named, Event, bank, counters, Dispatching, Idle
<1> QED BY <1>1, <1>2, <1>3

\* So does a dispatch that starts, or ends at once.
LEMMA TypedStart ==
    ASSUME Typed, NEW e \in Event, NEW byTask \in BOOLEAN,
           \/ Answer(e) \/ Refuse(e, byTask)
           \/ \E d \in Delivery : Dispatch(d, e, byTask)
    PROVE  Typed'
<1> USE SchedulerAssumption DEF Typed, TypeOK
<1>1. ASSUME Answer(e) PROVE Typed'
    BY <1>1 DEF Answer, Requested, Acknowledge, Operator, Named, Event, bank, Dispatching, Idle
<1>2. ASSUME Refuse(e, byTask) PROVE Typed'
    <2>1. disturbed' \subseteq Event /\ requests' \in 0..MaxRequests
        BY <1>2 DEF Refuse, Overlapped, Requested, Operator
    <2> QED BY <1>2, <2>1 DEF Refuse, Acknowledge, Named, Event, bank, Dispatching, Idle
<1>3. ASSUME NEW d \in Delivery, Dispatch(d, e, byTask) PROVE Typed'
    <2>1. disturbed' \subseteq Event /\ requests' \in 0..MaxRequests
        BY <1>3 DEF Dispatch, Overlapped, Requested, Operator
    <2>2. run' \in [Delivery -> Dispatching \cup {Idle}]
        BY <1>3, SubjectsAreEvents DEF Dispatch, Dispatching
    <2> QED BY <1>3, <2>1, <2>2 DEF Dispatch, Named, Event, bank, Dispatching, Idle
<1> QED BY <1>1, <1>2, <1>3

\* So does the end of a dispatch.
LEMMA TypedEnd ==
    ASSUME Typed, NEW d \in Delivery, Finish(d) \/ TimeOut(d) \/ Die(d) \/ Vanish(d)
    PROVE  Typed'
<1> USE SchedulerAssumption
<1>1. ASSUME Finish(d) PROVE Typed'
    <2>0. run[d].phase # "NONE" /\ run[d].event \in Event /\ run[d].rrn \in Event
          /\ run[d].alert \in BOOLEAN
        BY <1>1 DEF Finish, Typed, TypeOK, Dispatching, Idle
    <2>1. CASE Accepted(d)
        <3>1. completed' \in Seq(Event) /\ result' \in [Event -> [rrn: Event \cup {0}, alert: BOOLEAN]]
              /\ status' = [status EXCEPT ![run[d].event] = "SUCCEEDED"]
            <4>1. result' = [result EXCEPT ![run[d].event] =
                                [rrn |-> run[d].rrn, alert |-> run[d].alert]]
                BY <1>1, <2>1 DEF Finish, MarkSucceeded
            <4>2. completed' \in {completed, Append(completed, run[d].event)}
                BY <1>1, <2>1 DEF Finish, MarkSucceeded
            <4>3. completed' \in Seq(Event)
                <5>1. completed \in Seq(Event)
                    BY DEF Typed, TypeOK
                <5>2. Append(completed, run[d].event) \in Seq(Event)
                    BY <5>1, <2>0, AppendProperties
                <5> QED BY <4>2, <5>1, <5>2
            <4> QED BY <1>1, <2>0, <2>1, <4>1, <4>3 DEF Finish, MarkSucceeded, Typed, TypeOK
        <3>2. Named'
            <4>1. \A x \in Event : result[x].rrn \in Event \/ x = run[d].event => result'[x].rrn \in Event
                BY <1>1, <2>0, <2>1 DEF Finish, MarkSucceeded, Typed, TypeOK
            <4>2. \A i \in DOMAIN completed : completed[i] \in Event /\ result[completed[i]].rrn \in Event
                BY ElementOfSeq DEF Typed, TypeOK, Named
            <4>3. \A i \in DOMAIN completed' :
                     \/ i \in DOMAIN completed /\ completed'[i] = completed[i]
                     \/ completed'[i] = run[d].event
                <5>1. completed \in Seq(Event)
                    BY DEF Typed, TypeOK
                <5>2. completed' \in {completed, Append(completed, run[d].event)}
                    BY <1>1, <2>1 DEF Finish, MarkSucceeded
                <5> QED BY <5>1, <5>2, <2>0, AppendProperties
            <4> QED BY <4>1, <4>2, <4>3, <2>0, <1>1 DEF Named, Event, Finish
        <3>3. task' \in [Event -> 0..MaxAttempts]
            BY <1>1, <2>0 DEF Finish, Acknowledge, Typed, TypeOK
        <3>4. run' \in [Delivery -> Dispatching \cup {Idle}]
            BY <1>1, <2>0 DEF Finish, Typed, TypeOK
        <3> QED BY <1>1, <2>0, <3>1, <3>2, <3>3, <3>4
            DEF Finish, Typed, TypeOK, Event, bank, counters, Dispatching, Idle
    <2>2. CASE ~Accepted(d)
        <3>1. task' \in [Event -> 0..MaxAttempts]
            BY <1>1, <2>0 DEF Finish, Acknowledge, Typed, TypeOK
        <3>2. run' \in [Delivery -> Dispatching \cup {Idle}]
            BY <1>1, <2>0 DEF Finish, Typed, TypeOK
        <3> QED BY <1>1, <2>0, <2>2, <3>1, <3>2
            DEF Finish, MarkFailed, Typed, TypeOK, Named, Event, bank, counters, Dispatching
    <2> QED BY <2>1, <2>2
<1>2. ASSUME TimeOut(d) PROVE Typed'
    <2>1. run' \in [Delivery -> Runs] /\ run[d].event \in Event
        BY <1>2, Abandoned, UnderWay DEF TimeOut, Typed
    <2> QED BY <1>2, <2>1
        DEF TimeOut, MarkFailed, Acknowledge, Typed, TypeOK, Named, Event, bank, Dispatching, Runs
<1>3. ASSUME Die(d) PROVE Typed'
    <2>1. run' \in [Delivery -> Runs] /\ run[d].event \in Event
        BY <1>3, Abandoned, UnderWay DEF Die, Typed
    <2>2. task' \in [Event -> 0..MaxAttempts]
        BY <1>3, <2>1 DEF Die, Typed, TypeOK
    <2> QED BY <1>3, <2>1, <2>2 DEF Die, Typed, TypeOK, Named, Event, bank, Dispatching, Runs
<1>4. ASSUME Vanish(d) PROVE Typed'
    BY <1>4
    DEF Vanish, generator, bank, counters, Typed, TypeOK, Named, Event, Dispatching, Idle
<1> QED BY <1>1, <1>2, <1>3, <1>4

HoldRow == [rrn: Event, status: {"PENDING", "FLAGGED", "DECLINED", "SETTLED", "REVERSED"}]

\* The holds after a step that closes one of them ...
LEMMA Resolved ==
    ASSUME Typed, NEW i \in DOMAIN holds, NEW to \in {"SETTLED", "REVERSED"}, Resolve(i, to)
    PROVE  /\ holds' \in Seq(HoldRow) /\ DOMAIN holds' = DOMAIN holds
           /\ \A j \in DOMAIN holds : /\ holds'[j].rrn = holds[j].rrn
                                      /\ holds'[j].status = IF j = i THEN to ELSE holds[j].status
<1>1. holds \in Seq(HoldRow)
    BY DEF Typed, TypeOK, HoldRow
<1>2. holds[i] \in HoldRow
    BY <1>1, ElementOfSeq
<1>3. holds' = [holds EXCEPT ![i] = [holds[i] EXCEPT !.status = to]]
    BY DEF Resolve
<1>4. [holds[i] EXCEPT !.status = to] \in HoldRow
    BY <1>2 DEF HoldRow
<1>5. \A j \in DOMAIN holds : holds[j] \in HoldRow
    BY <1>1, ElementOfSeq
<1>6. holds' \in Seq(HoldRow)
    BY <1>1, <1>3, <1>4, ExceptSeq
<1> QED BY <1>3, <1>5, <1>6 DEF HoldRow

\* ... or appends one.
LEMMA Placed ==
    ASSUME Typed, NEW h \in HoldRow, holds' = Append(holds, h)
    PROVE  /\ holds' \in Seq(HoldRow)
           /\ \A j \in DOMAIN holds' : (j \in DOMAIN holds /\ holds'[j] = holds[j]) \/ holds'[j] = h
           /\ \A j \in DOMAIN holds : j \in DOMAIN holds' /\ holds'[j] = holds[j]
<1>1. holds \in Seq(HoldRow)
    BY DEF Typed, TypeOK, HoldRow
<1> QED BY <1>1, AppendProperties

\* The bank answers what was asked, or looks for the hold; nothing of the generator moves.
LEMMA TypedBank ==
    ASSUME Typed, NEW d \in Delivery, Bank(d)
    PROVE  Typed'
<1>0. run[d].phase # "NONE" /\ run[d].event \in Event /\ run[d].rrn \in Event
    BY UnderWay DEF Bank, LookUp, Authorize, FailAfterAlert, Settle, ReverseHold, Act, Reject, Typed
<1>1. UNCHANGED generator /\ Event' = Event /\ UNCHANGED <<deaths, requests>>
    BY DEF Bank, LookUp, Authorize, FailAfterAlert, Settle, ReverseHold, Act, Reject, Carry,
           counters, generator, Event
<1>2. run' \in [Delivery -> Runs]
    <2>1. ASSUME NEW ok \in BOOLEAN, NEW alert \in BOOLEAN, AnswerWith(d, ok, alert)
          PROVE  run' \in [Delivery -> Runs]
        BY <2>1, <1>0, Answered DEF Typed
    <2>2. ASSUME NEW i \in Nat, Find(d, i) PROVE run' \in [Delivery -> Runs]
        BY <2>2, <1>0, Found DEF Typed
    <2>3. Open(d) \subseteq Nat
        <3>1. DOMAIN holds \subseteq Nat
            BY LenProperties DEF Typed, TypeOK
        <3> QED BY <3>1 DEF Open, Matching
    <2>4. CASE LookUp(d)
        BY <2>1, <2>2, <2>3, <2>4 DEF LookUp
    <2>5. CASE Authorize(d)
        <3>1. PICK s \in {"PENDING", "FLAGGED", "DECLINED"}, alert \in BOOLEAN :
                 AnswerWith(d, s \in Approved, alert)
            BY <2>5 DEF Authorize, Carry
        <3>2. (s \in Approved) \in BOOLEAN
            OBVIOUS
        <3> QED BY <2>1, <3>1, <3>2
    <2>6. CASE FailAfterAlert(d) \/ Settle(d) \/ ReverseHold(d) \/ Act(d) \/ Reject(d)
        BY <2>1, <2>6 DEF FailAfterAlert, Settle, ReverseHold, Act, Reject, Carry
    <2> QED BY <2>4, <2>5, <2>6 DEF Bank
<1>3. holds' \in Seq(HoldRow)
    <2>0. holds \in Seq(HoldRow)
        BY DEF Typed, TypeOK, HoldRow
    <2>1. CASE Authorize(d) \/ FailAfterAlert(d)
        <3>1. \E s \in {"PENDING", "FLAGGED", "DECLINED"} :
                 holds' = Append(holds, [rrn |-> run[d].rrn, status |-> s])
            BY <2>1 DEF Authorize, FailAfterAlert
        <3> QED BY <3>1, <1>0, Placed DEF HoldRow
    <2>2. CASE \E i \in DOMAIN holds, to \in {"SETTLED", "REVERSED"} : Resolve(i, to)
        BY <2>2, Resolved
    <2>3. CASE Settle(d) \/ ReverseHold(d)
        <3>1. run[d].hold \in Nat
            BY <1>0, UnderWay DEF Typed, Dispatching
        <3>2. holds' \in {[holds EXCEPT ![run[d].hold].status = "SETTLED"],
                         [holds EXCEPT ![run[d].hold].status = "REVERSED"]}
            BY <2>3 DEF Settle, ReverseHold, Resolve
        <3>3. CASE run[d].hold \in DOMAIN holds
            BY <3>3, <2>3, Resolved DEF Settle, ReverseHold
        <3>4. CASE run[d].hold \notin DOMAIN holds
            <4>1. holds' = holds
                BY <3>2, <3>4, <2>0
            <4> QED BY <4>1, <2>0
        <3> QED BY <3>3, <3>4
    <2>4. CASE Act(d)
        BY <2>0, <2>2, <2>4 DEF Act, Open, Matching
    <2>5. CASE LookUp(d) \/ Reject(d)
        BY <2>0, <2>5 DEF LookUp, Reject, bank
    <2> QED BY <2>1, <2>3, <2>4, <2>5 DEF Bank
<1>4. charges' \in [Event -> Nat]
    <2>1. charges' = charges \/ charges' = [charges EXCEPT ![run[d].rrn] = @ + 1]
        BY DEF Bank, LookUp, Authorize, FailAfterAlert, Settle, ReverseHold, Act, Reject, bank
    <2>2. charges \in [Event -> Nat]
        BY DEF Typed, TypeOK
    <2> QED BY <1>0, <2>1, <2>2
<1>5. carried' \subseteq Event \X Event /\ disturbed' \subseteq Event
    <2>1. carried' = carried \/ carried' = carried \cup {<<run[d].event, run[d].rrn>>}
        BY DEF Bank, LookUp, Authorize, FailAfterAlert, Settle, ReverseHold, Act, Reject, Carry, bank
    <2>2. disturbed' = disturbed \/ disturbed' = disturbed \cup {run[d].event}
        BY DEF Bank, LookUp, Authorize, FailAfterAlert, Settle, ReverseHold, Act, Reject, Carry,
               counters
    <2> QED BY <1>0, <2>1, <2>2 DEF Typed, TypeOK
<1> QED BY <1>1, <1>2, <1>3, <1>4, <1>5
    DEF generator, Typed, TypeOK, Named, HoldRow, Runs, Dispatching

\* Every step keeps every variable in its domain.
LEMMA TypedStep ==
    Typed /\ [Next]_vars => Typed'
<1> SUFFICES ASSUME Typed, [Next]_vars PROVE Typed'
    OBVIOUS
<1>1. CASE Enqueue \/ Cancel \/ FallDue
    BY <1>1, TypedSchedule
<1>2. ASSUME NEW e \in Event, NEW byTask \in BOOLEAN,
             Answer(e) \/ Refuse(e, byTask) \/ \E d \in Delivery : Dispatch(d, e, byTask)
      PROVE  Typed'
    BY <1>2, TypedStart
<1>3. ASSUME NEW d \in Delivery, Finish(d) \/ TimeOut(d) \/ Die(d) \/ Vanish(d)
      PROVE  Typed'
    BY <1>3, TypedEnd
<1>4. ASSUME NEW d \in Delivery, Bank(d) PROVE Typed'
    BY <1>4, TypedBank
<1>5. CASE UNCHANGED vars
    BY <1>5 DEF vars, generator, bank, counters, Typed, TypeOK, Named, Event, Dispatching
<1> QED BY <1>1, <1>2, <1>3, <1>4, <1>5 DEF Next, Delivered

\* Every variable stays in its domain, whatever interleaves.
THEOREM SchedulerTypeCorrect ==
    Spec => []TypeOK
<1>1. Typed /\ [Next]_vars => Typed'
    BY TypedStep
<1>2. Typed => TypeOK
    BY DEF Typed
<1> QED BY TypedInit, <1>1, <1>2, PTL DEF Spec
-----------------------------------------------------------------------------
(* A success is true.                                                      *)

\* A step of dispatch d that leaves the bank alone only has to account for d.
LEMMA OthersStayTrue ==
    ASSUME Typed, RecordsTrue, NEW d \in Delivery,
           plan' = plan, UNCHANGED bank, SucceededMeansDone',
           \A c \in Delivery : c # d => run'[c] = run[c], (Aimed(d) /\ Truthful(d))'
    PROVE  RecordsTrue'
BY DEF RecordsTrue, HoldsCarried, Aimed, Truthful, bank

\* Operators, the clock, and dispatches that start or end without a call.
LEMMA TrueSchedule ==
    ASSUME Typed, RecordsTrue, NEW e \in Event, NEW byTask \in BOOLEAN,
           \/ Enqueue \/ Cancel \/ FallDue \/ Answer(e) \/ Refuse(e, byTask)
           \/ \E d \in Delivery : Dispatch(d, e, byTask)
    PROVE  RecordsTrue'
<1>1. plan' = plan /\ Event' = Event /\ UNCHANGED <<result, bank>>
    BY DEF Enqueue, Cancel, FallDue, Answer, Refuse, Dispatch, Event
<1>2. \A x \in Event : status'[x] = "SUCCEEDED" => status[x] = "SUCCEEDED"
    BY DEF Enqueue, Cancel, FallDue, Answer, Refuse, Dispatch, Typed, TypeOK
<1>3. SucceededMeansDone'
    BY <1>1, <1>2 DEF SucceededMeansDone, RecordsTrue, bank
<1>4. CASE run' = run
    BY <1>1, <1>3, <1>4 DEF RecordsTrue, HoldsCarried, Aimed, Truthful, bank
<1>5. ASSUME NEW d \in Delivery, Dispatch(d, e, byTask)
      PROVE  RecordsTrue'
    <2>1. PICK rrn \in Subjects(e) :
             run' = [run EXCEPT ![d] = [phase |-> "SENT", event |-> e, rrn |-> rrn,
                                        byTask |-> byTask, waiting |-> TRUE,
                                        hold |-> 0, ok |-> FALSE, alert |-> FALSE]]
        BY <1>5 DEF Dispatch
    <2>2. plan[e].kind = "AUTHORIZE" => rrn = e
        BY <2>1 DEF Subjects
    <2>3. run \in [Delivery -> Runs]
        BY DEF Typed, TypeOK, Runs
    <2>4. (Aimed(d) /\ Truthful(d))'
        BY <1>1, <2>1, <2>2, <2>3 DEF Aimed, Truthful
    <2> QED BY <1>1, <1>3, <2>1, <2>3, <2>4, OthersStayTrue
<1> QED BY <1>4, <1>5 DEF Enqueue, Cancel, FallDue, Answer, Refuse

\* The end of a dispatch: what is marked SUCCEEDED was answered with success.
LEMMA TrueEnd ==
    ASSUME Typed, RecordsTrue, NEW d \in Delivery,
           Finish(d) \/ TimeOut(d) \/ Die(d) \/ Vanish(d)
    PROVE  RecordsTrue'
<1>0. run \in [Delivery -> Runs] /\ run[d].phase # "NONE"
    BY DEF Finish, TimeOut, Die, Vanish, Typed, TypeOK, Runs
<1>1. plan' = plan /\ Event' = Event /\ UNCHANGED bank /\ run[d].event \in Event
    BY <1>0, UnderWay DEF Finish, TimeOut, Die, Vanish, Event, generator, Typed
<1>2. SucceededMeansDone'
    <2>1. CASE Finish(d) /\ Accepted(d)
        <3>1. <<run[d].event, run[d].rrn>> \in carried
            BY <2>1 DEF Finish, Accepted, RecordsTrue, Truthful
        <3>2. status' = [status EXCEPT ![run[d].event] = "SUCCEEDED"]
              /\ result' = [result EXCEPT ![run[d].event] =
                                [rrn |-> run[d].rrn, alert |-> run[d].alert]]
            BY <2>1 DEF Finish, MarkSucceeded
        <3> QED BY <1>1, <3>1, <3>2 DEF SucceededMeansDone, RecordsTrue, bank, Typed, TypeOK
    <2>2. CASE ~(Finish(d) /\ Accepted(d))
        <3>1. result' = result /\ \A x \in Event : status'[x] = "SUCCEEDED" => status[x] = "SUCCEEDED"
            BY <1>1, <2>2 DEF Finish, TimeOut, Die, Vanish, MarkFailed, generator, Typed, TypeOK
        <3> QED BY <1>1, <3>1 DEF SucceededMeansDone, RecordsTrue, bank
    <2> QED BY <2>1, <2>2
<1>3. (Aimed(d) /\ Truthful(d))' /\ \A c \in Delivery : c # d => run'[c] = run[c]
    <2>1. CASE Finish(d) \/ Vanish(d)
        BY <1>0, <2>1 DEF Finish, Vanish, Aimed, Truthful, Idle
    <2>2. CASE TimeOut(d) \/ Die(d)
        <3>1. run' = Abandon(d)
            BY <2>2 DEF TimeOut, Die
        <3> QED BY <1>0, <1>1, <3>1, Abandoned DEF Aimed, Truthful, Idle, bank, RecordsTrue, Typed
    <2> QED BY <2>1, <2>2
<1> QED BY <1>1, <1>2, <1>3, OthersStayTrue

\* What a step of the bank does to the others: holds keep their numbers, are not declined
\* later, and nothing carried out is forgotten.
LEMMA TrueBankOthers ==
    ASSUME Typed, RecordsTrue, NEW d \in Delivery,
           UNCHANGED generator, carried \subseteq carried', HoldsCarried',
           \A i \in DOMAIN holds : i \in DOMAIN holds'
                                   /\ (holds[i].status # "DECLINED" => holds'[i].status # "DECLINED"),
           \A c \in Delivery : c # d => run'[c] = run[c], (Aimed(d) /\ Truthful(d))'
    PROVE  RecordsTrue'
<1>1. SucceededMeansDone'
    BY DEF SucceededMeansDone, RecordsTrue, generator, Event
<1>2. \A c \in Delivery : c # d => (Aimed(c) /\ Truthful(c))'
    BY DEF RecordsTrue, Aimed, Truthful, generator
<1> QED BY <1>1, <1>2 DEF RecordsTrue

\* The bank's answer of success comes with what was asked.
LEMMA TrueBank ==
    ASSUME Typed, RecordsTrue, NEW d \in Delivery, Bank(d)
    PROVE  RecordsTrue'
<1>0. run[d].phase # "NONE" /\ run[d].event \in Event /\ run[d].rrn \in Event
    BY UnderWay DEF Bank, LookUp, Authorize, FailAfterAlert, Settle, ReverseHold, Act, Reject, Typed
<1>1. UNCHANGED generator
    BY DEF Bank, LookUp, Authorize, FailAfterAlert, Settle, ReverseHold, Act, Reject, Carry, generator
<1>2. Aimed(d) /\ HoldsCarried
    BY DEF RecordsTrue
<1>3. ASSUME NEW ok \in BOOLEAN, NEW alert \in BOOLEAN, AnswerWith(d, ok, alert),
             ok => <<run[d].event, run[d].rrn>> \in carried'
      PROVE  (Aimed(d) /\ Truthful(d))' /\ \A c \in Delivery : c # d => run'[c] = run[c]
    BY <1>0, <1>1, <1>2, <1>3, Answered DEF Aimed, Truthful, Idle, generator, Typed
<1>4. CASE LookUp(d)
    <2>1. UNCHANGED bank
        BY <1>4 DEF LookUp
    <2>2. HoldsCarried' /\ carried \subseteq carried' /\ holds' = holds
        BY <1>2, <2>1 DEF bank, HoldsCarried
    <2>3. (Aimed(d) /\ Truthful(d))' /\ \A c \in Delivery : c # d => run'[c] = run[c]
        <3>1. CASE \E ok \in BOOLEAN : /\ AnswerWith(d, ok, FALSE)
                                       /\ ok => /\ plan[run[d].event].kind = "AUTHORIZE"
                                                /\ Matching(d, {"PENDING"}) # {}
            <4>1. PICK ok \in BOOLEAN : /\ AnswerWith(d, ok, FALSE)
                                        /\ ok => /\ plan[run[d].event].kind = "AUTHORIZE"
                                                 /\ Matching(d, {"PENDING"}) # {}
                BY <3>1
            <4>2. ok => <<run[d].event, run[d].rrn>> \in carried
                BY <4>1, <1>0, <1>2 DEF Matching, HoldsCarried, Aimed
            <4> QED BY <4>1, <4>2, <2>2, <1>3
        <3>2. CASE \E i \in Nat : /\ Find(d, i)
                                  /\ plan[run[d].event].kind \in {"SETTLE", "REVERSE"} => i \in Open(d)
            <4>1. PICK i \in Nat : /\ Find(d, i)
                                   /\ plan[run[d].event].kind \in {"SETTLE", "REVERSE"} => i \in Open(d)
                BY <3>2
            <4> QED BY <4>1, <2>2, <1>0, <1>1, <1>2, Found
                DEF Aimed, Truthful, Open, Matching, generator, Typed
        <3>3. DOMAIN holds \subseteq Nat
            BY LenProperties DEF Typed, TypeOK
        <3> QED BY <1>4, <3>1, <3>2, <3>3 DEF LookUp, Open, Matching
    <2> QED BY <1>1, <2>2, <2>3, TrueBankOthers
<1>5. CASE Authorize(d) \/ FailAfterAlert(d)
    <2>1. PICK s \in {"PENDING", "FLAGGED", "DECLINED"}, ok \in BOOLEAN, alert \in BOOLEAN :
             /\ holds' = Append(holds, [rrn |-> run[d].rrn, status |-> s])
             /\ AnswerWith(d, ok, alert)
             /\ ok => s # "DECLINED"
             /\ s # "DECLINED" => carried' = carried \cup {<<run[d].event, run[d].rrn>>}
             /\ carried \subseteq carried'
        <3>1. CASE Authorize(d)
            <4>1. PICK s \in {"PENDING", "FLAGGED", "DECLINED"}, alert \in BOOLEAN :
                     /\ holds' = Append(holds, [rrn |-> run[d].rrn, status |-> s])
                     /\ Carry(d, s # "DECLINED", s \in Approved, alert)
                BY <3>1 DEF Authorize
            <4>2. (s \in Approved) \in BOOLEAN /\ (s \in Approved => s # "DECLINED")
                BY DEF Approved
            <4> QED BY <4>1, <4>2 DEF Carry
        <3>2. CASE FailAfterAlert(d)
            BY <3>2 DEF FailAfterAlert
        <3> QED BY <1>5, <3>1, <3>2
    <2>2. [rrn |-> run[d].rrn, status |-> s] \in HoldRow
        BY <1>0, <2>1 DEF HoldRow
    <2>3. run[d].rrn = run[d].event
        BY <1>0, <1>2, <1>5 DEF Aimed, Authorize, FailAfterAlert
    <2>4. HoldsCarried'
        BY <1>2, <2>1, <2>2, <2>3, Placed DEF HoldsCarried
    <2>5. \A i \in DOMAIN holds : i \in DOMAIN holds' /\ holds'[i] = holds[i]
        BY <2>1, <2>2, Placed
    <2>6. ok => <<run[d].event, run[d].rrn>> \in carried'
        BY <2>1
    <2> QED BY <1>1, <1>3, <2>1, <2>4, <2>5, <2>6, TrueBankOthers
<1>6. CASE Settle(d) \/ ReverseHold(d) \/ Act(d) \/ Reject(d)
    <2>1. PICK ok \in BOOLEAN, alert \in BOOLEAN :
             /\ AnswerWith(d, ok, alert)
             /\ ok => <<run[d].event, run[d].rrn>> \in carried'
             /\ carried \subseteq carried'
        BY <1>6 DEF Settle, ReverseHold, Act, Reject, Carry
    <2>2. \/ holds' = holds
          \/ \E i \in DOMAIN holds, to \in {"SETTLED", "REVERSED"} :
                 Resolve(i, to) /\ holds[i].status # "DECLINED"
        BY <1>2, <1>6 DEF Settle, ReverseHold, Act, Reject, Aimed, Open, Matching
    <2>3. /\ HoldsCarried'
          /\ \A i \in DOMAIN holds : i \in DOMAIN holds'
                /\ (holds[i].status # "DECLINED" => holds'[i].status # "DECLINED")
        <3>1. CASE holds' = holds
            BY <3>1, <1>2, <2>1 DEF HoldsCarried
        <3>2. ASSUME NEW i \in DOMAIN holds, NEW to \in {"SETTLED", "REVERSED"},
                     Resolve(i, to), holds[i].status # "DECLINED"
              PROVE  /\ HoldsCarried'
                     /\ \A j \in DOMAIN holds : j \in DOMAIN holds'
                           /\ (holds[j].status # "DECLINED" => holds'[j].status # "DECLINED")
            BY <3>2, <1>2, <2>1, Resolved DEF HoldsCarried
        <3> QED BY <2>2, <3>1, <3>2
    <2> QED BY <1>1, <1>3, <2>1, <2>3, TrueBankOthers
<1> QED BY <1>4, <1>5, <1>6 DEF Bank

\* All steps keep the records true.
LEMMA TrueStep ==
    Typed /\ RecordsTrue /\ [Next]_vars => RecordsTrue'
<1> SUFFICES ASSUME Typed, RecordsTrue, [Next]_vars PROVE RecordsTrue'
    OBVIOUS
<1>1. ASSUME NEW e \in Event, NEW byTask \in BOOLEAN,
             \/ Enqueue \/ Cancel \/ FallDue \/ Answer(e) \/ Refuse(e, byTask)
             \/ \E d \in Delivery : Dispatch(d, e, byTask)
      PROVE  RecordsTrue'
    BY <1>1, TrueSchedule
<1>2. CASE (Enqueue \/ Cancel \/ FallDue) /\ Event = {}
    <2>1. \A d \in Delivery : run[d] = Idle
        BY <1>2 DEF Typed, TypeOK, Dispatching
    <2> QED BY <1>2, <2>1 DEF Enqueue, Cancel, FallDue, Event, RecordsTrue, HoldsCarried,
            SucceededMeansDone, Aimed, Truthful, bank, Idle
<1>3. ASSUME NEW d \in Delivery, Finish(d) \/ TimeOut(d) \/ Die(d) \/ Vanish(d)
      PROVE  RecordsTrue'
    BY <1>3, TrueEnd
<1>4. ASSUME NEW d \in Delivery, Bank(d) PROVE RecordsTrue'
    BY <1>4, TrueBank
<1>5. CASE UNCHANGED vars
    BY <1>5 DEF vars, generator, bank, counters, RecordsTrue, HoldsCarried, SucceededMeansDone,
            Aimed, Truthful, Event
<1> QED BY <1>1, <1>2, <1>3, <1>4, <1>5 DEF Next, Delivered

\* Initially nothing was asked for.
LEMMA TrueInit ==
    Init => RecordsTrue
BY DEF Init, RecordsTrue, HoldsCarried, SucceededMeansDone, Aimed, Truthful, Idle, Event

\* Retries, late answers and overlapping deliveries never report a success that did not
\* take place (mark_succeeded).
THEOREM SuccessIsTrue ==
    Spec => []SucceededMeansDone
<1>1. Typed /\ RecordsTrue /\ [Next]_vars => (Typed /\ RecordsTrue)'
    BY TypedStep, TrueStep
<1>2. Typed /\ RecordsTrue => SucceededMeansDone
    BY DEF RecordsTrue
<1>3. Init => Typed /\ RecordsTrue
    BY TypedInit, TrueInit
<1> QED BY <1>1, <1>2, <1>3, PTL DEF Spec
-----------------------------------------------------------------------------
(* A charge is made once.                                                  *)

\* A settlement posts only what is not posted.
LEMMA ChargedOnceStep ==
    Typed /\ ChargedOnce /\ [Next]_vars => ChargedOnce'
<1> SUFFICES ASSUME Typed, ChargedOnce, [Next]_vars PROVE ChargedOnce'
    OBVIOUS
<1>1. Event' = Event
    BY PlanIsFixed DEF Event
<1>2. \/ charges' = charges
      \/ \E d \in Delivery : Settle(d)
    BY DEF Next, vars, generator, bank, counters, Enqueue, Cancel, FallDue, Delivered, Answer,
           Refuse, Dispatch, Bank, LookUp, Authorize, FailAfterAlert, ReverseHold, Act, Reject,
           Carry, Finish, TimeOut, Die, Vanish
<1>3. ASSUME NEW d \in Delivery, Settle(d) PROVE ChargedOnce'
    <2>1. run[d].rrn \in Event /\ charges \in [Event -> Nat]
        BY <1>3, UnderWay DEF Settle, Typed, TypeOK
    <2>2. charges' = [charges EXCEPT ![run[d].rrn] = @ + 1] /\ ~(charges[run[d].rrn] > 0)
        BY <1>3 DEF Settle, Posted
    <2> QED BY <1>1, <2>1, <2>2 DEF ChargedOnce
<1> QED BY <1>1, <1>2, <1>3 DEF ChargedOnce

\* However often a settlement is dispatched, it is charged once (process_settlement).
THEOREM SettledOnce ==
    Spec => []ChargedOnce
<1>1. Typed /\ ChargedOnce /\ [Next]_vars => (Typed /\ ChargedOnce)'
    BY TypedStep, ChargedOnceStep
<1>2. Init => Typed /\ ChargedOnce
    BY TypedInit DEF Init, ChargedOnce, Event
<1> QED BY <1>1, <1>2, PTL DEF Spec
-----------------------------------------------------------------------------
(* Canceled events rest.                                                   *)

Rests ==
    \A e \in Event : status[e] = "CANCELED" /\ ~Running(e) =>
        status'[e] = "CANCELED" /\ DoneBy(e)' = DoneBy(e)

\* Only a dispatch under way touches a canceled event.
LEMMA CanceledStep ==
    Typed /\ [Next]_vars => Rests
<1> SUFFICES ASSUME Typed, [Next]_vars, NEW x \in Event, status[x] = "CANCELED", ~Running(x)
             PROVE  status'[x] = "CANCELED" /\ DoneBy(x)' = DoneBy(x)
    BY DEF Rests
<1>0. status \in [Event -> {"ABSENT", "SCHEDULED", "DISPATCHING", "SUCCEEDED", "FAILED", "CANCELED"}]
    BY DEF Typed, TypeOK
<1>1. CASE Enqueue \/ Cancel \/ FallDue \/ UNCHANGED vars
    BY <1>0, <1>1 DEF Enqueue, Cancel, FallDue, vars, generator, bank, DoneBy
<1>2. ASSUME NEW e \in Event, NEW byTask \in BOOLEAN,
             Answer(e) \/ Refuse(e, byTask) \/ \E d \in Delivery : Dispatch(d, e, byTask)
      PROVE  status'[x] = "CANCELED" /\ DoneBy(x)' = DoneBy(x)
    BY <1>0, <1>2 DEF Answer, Refuse, Dispatch, Finished, bank, DoneBy
<1>3. ASSUME NEW d \in Delivery, Finish(d) \/ TimeOut(d) \/ Die(d) \/ Vanish(d)
      PROVE  status'[x] = "CANCELED" /\ DoneBy(x)' = DoneBy(x)
    BY <1>0, <1>3 DEF Finish, TimeOut, Die, Vanish, MarkSucceeded, MarkFailed, Running, generator,
            bank, DoneBy
<1>4. ASSUME NEW d \in Delivery, Bank(d)
      PROVE  status'[x] = "CANCELED" /\ DoneBy(x)' = DoneBy(x)
    <2>1. UNCHANGED generator
        BY <1>4 DEF Bank, LookUp, Authorize, FailAfterAlert, Settle, ReverseHold, Act, Reject, Carry,
                generator
    <2>2. run[d].event # x
        BY <1>4 DEF Running, Bank, LookUp, Authorize, FailAfterAlert, Settle, ReverseHold, Act, Reject
    <2>3. carried' = carried \/ carried' = carried \cup {<<run[d].event, run[d].rrn>>}
        BY <1>4 DEF Bank, LookUp, Authorize, FailAfterAlert, Settle, ReverseHold, Act, Reject, Carry,
                bank
    <2> QED BY <2>1, <2>2, <2>3 DEF generator, DoneBy
<1> QED BY <1>1, <1>2, <1>3, <1>4 DEF Next, Delivered

\* Canceled events whose dispatch is not under way stay canceled and do nothing.
THEOREM CanceledStaysCanceled ==
    Spec => CanceledIsFinal
<1>1. Typed /\ [Next]_vars => Typed'
    BY TypedStep
<1>2. Typed /\ [Next]_vars => [Rests]_vars
    BY CanceledStep
<1> QED BY TypedInit, <1>1, <1>2, PTL DEF Spec, CanceledIsFinal, Rests
-----------------------------------------------------------------------------
(* What failed was not done, unless it was disturbed.                      *)

\* An event is calm as long as its row, its dispatches and what was done for it stay.
LEMMA CalmKept ==
    ASSUME NEW e \in Event, Calm(e), status'[e] = status[e], DoneBy(e)' = DoneBy(e),
           \A c \in Delivery : Serves(c, e) \/ Serves(c, e)' => run'[c] = run[c]
    PROVE  Calm(e)'
<1>1. \A c \in Delivery : Serves(c, e)' <=> Serves(c, e)
    BY DEF Serves
<1>2. Running(e)' <=> Running(e)
    BY <1>1 DEF Running, Serves
<1> QED BY <1>1, <1>2 DEF Calm

\* An event that nobody serves and that has not succeeded was not carried out.
LEMMA NothingDone ==
    ASSUME NEW e \in Event, Calm(e), ~Running(e), status[e] # "SUCCEEDED"
    PROVE  DoneBy(e) = {} /\ \A c \in Delivery : ~Serves(c, e)
BY DEF Calm, Running, Serves

\* Operators' steps and the clock do not touch what is under way.
LEMMA CalmSchedule ==
    ASSUME Typed, NEW e \in Event, Calm(e), Enqueue \/ Cancel \/ FallDue
    PROVE  Calm(e)'
<1>0. run' = run /\ DoneBy(e)' = DoneBy(e)
    BY DEF Enqueue, Cancel, FallDue, bank, DoneBy
<1>1. CASE status'[e] = status[e]
    BY <1>0, <1>1, CalmKept
<1>2. CASE status'[e] # status[e]
    <2>1. status[e] \in {"ABSENT", "SCHEDULED", "FAILED"}
        BY <1>2 DEF Enqueue, Cancel, FallDue, Typed, TypeOK
    <2>2. ~Running(e)
        BY <2>1 DEF Calm, Running, Serves
    <2>3. DoneBy(e) = {} /\ \A c \in Delivery : ~Serves(c, e)
        BY <2>1, <2>2, NothingDone
    <2> QED BY <1>0, <2>3 DEF Calm, Serves
<1> QED BY <1>1, <1>2

\* A dispatch that starts, or ends at once, is alone or disturbs the event.
LEMMA CalmStart ==
    ASSUME Typed, NEW e \in Event, Calm(e), NEW f \in Event, NEW byTask \in BOOLEAN,
           \/ Answer(f) \/ Refuse(f, byTask)
           \/ \E d \in Delivery : Dispatch(d, f, byTask),
           e \notin disturbed'
    PROVE  Calm(e)'
<1>0. run \in [Delivery -> Runs] /\ DoneBy(e)' = DoneBy(e)
    BY DEF Answer, Refuse, Dispatch, bank, DoneBy, Typed, TypeOK, Runs
<1>1. CASE Answer(f)
    BY <1>0, <1>1, CalmKept DEF Answer
<1>2. CASE Refuse(f, byTask)
    <2>1. CASE e # f
        <3>1. status'[e] = status[e] /\ run' = run
            BY <1>2, <2>1 DEF Refuse, Typed, TypeOK
        <3> QED BY <1>0, <3>1, CalmKept
    <2>2. CASE e = f
        <3>1. ~Running(e) /\ status[e] # "SUCCEEDED" /\ run' = run
            BY <1>2, <2>2 DEF Refuse, Overlapped, Finished
        <3>2. DoneBy(e) = {} /\ \A c \in Delivery : ~Serves(c, e)
            BY <3>1, NothingDone
        <3> QED BY <1>0, <3>1, <3>2 DEF Calm, Serves
    <2> QED BY <2>1, <2>2
<1>3. ASSUME NEW d \in Delivery, Dispatch(d, f, byTask)
      PROVE  Calm(e)'
    <2>1. /\ run[d] = Idle
          /\ run'[d].phase = "SENT" /\ run'[d].event = f /\ run'[d].waiting
          /\ \A c \in Delivery : c # d => run'[c] = run[c]
        BY <1>0, <1>3 DEF Dispatch
    <2>2. status' = [status EXCEPT ![f] = "DISPATCHING"]
        BY <1>3 DEF Dispatch
    <2>3. CASE e # f
        <3>1. status'[e] = status[e]
            BY <2>2, <2>3 DEF Typed, TypeOK
        <3>2. ~Serves(d, e) /\ ~Serves(d, e)'
            BY <2>1, <2>3 DEF Serves, Idle
        <3> QED BY <1>0, <2>1, <3>1, <3>2, CalmKept
    <2>4. CASE e = f
        <3>1. ~Running(e) /\ status[e] # "SUCCEEDED"
            BY <1>3, <2>4 DEF Dispatch, Overlapped, Finished
        <3>2. DoneBy(e) = {} /\ \A c \in Delivery : ~Serves(c, e)
            BY <3>1, NothingDone
        <3>3. status'[e] = "DISPATCHING"
            BY <2>2, <2>4 DEF Typed, TypeOK
        <3>4. \A c \in Delivery : c # d => ~Serves(c, e)'
            BY <2>1, <3>2 DEF Serves
        <3> QED BY <1>0, <2>1, <3>2, <3>3, <3>4 DEF Calm, Serves
    <2> QED BY <2>3, <2>4
<1> QED BY <1>1, <1>2, <1>3

\* A dispatch that marks its outcome marks what the bank did; one that loses its answer
\* disturbs the event.
LEMMA CalmEnd ==
    ASSUME Typed, NEW e \in Event, Calm(e), NEW d \in Delivery,
           Finish(d) \/ TimeOut(d) \/ Die(d) \/ Vanish(d), e \notin disturbed'
    PROVE  Calm(e)'
<1>0. run \in [Delivery -> Runs] /\ run[d].phase # "NONE" /\ run[d].event \in Event
      /\ DoneBy(e)' = DoneBy(e)
    BY UnderWay DEF Finish, TimeOut, Die, Vanish, bank, DoneBy, Typed, TypeOK, Runs
<1>1. /\ \A c \in Delivery : c # d => run'[c] = run[c]
      /\ run'[d] = Idle \/ run'[d].event = run[d].event
    <2>1. CASE Finish(d) \/ Vanish(d)
        BY <1>0, <2>1 DEF Finish, Vanish
    <2>2. CASE TimeOut(d) \/ Die(d)
        <3>1. run' = Abandon(d)
            BY <2>2 DEF TimeOut, Die
        <3> QED BY <1>0, <3>1, Abandoned DEF Typed
    <2> QED BY <2>1, <2>2
<1>2. CASE e # run[d].event
    <2>1. status'[e] = status[e]
        BY <1>0, <1>2 DEF Finish, TimeOut, Die, Vanish, MarkSucceeded, MarkFailed, generator, Typed,
                TypeOK
    <2>2. ~Serves(d, e) /\ ~Serves(d, e)'
        BY <1>1, <1>2 DEF Serves, Idle
    <2> QED BY <1>0, <1>1, <2>1, <2>2, CalmKept
<1>3. CASE e = run[d].event
    <2>1. Finish(d)
        <3>1. ~TimeOut(d) /\ ~Die(d)
            BY <1>3 DEF TimeOut, Die
        <3>2. ~Vanish(d)
            BY <1>0, <1>3 DEF Vanish, Calm, Serves
        <3> QED BY <3>1, <3>2
    <2>2. run'[d] = Idle
        BY <1>0, <2>1 DEF Finish
    <2>3. \A c \in Delivery : ~Serves(c, e)'
        BY <1>0, <1>1, <1>3, <2>2 DEF Calm, Serves, Idle
    <2>4. DoneBy(e) # {} => status'[e] = "SUCCEEDED"
        BY <1>0, <1>3, <2>1 DEF Finish, Accepted, MarkSucceeded, Calm, Serves, Typed, TypeOK
    <2> QED BY <1>0, <2>3, <2>4 DEF Calm, Running, Serves
<1> QED BY <1>2, <1>3

\* What the bank does for an event it answers as done.
LEMMA CalmBank ==
    ASSUME Typed, NEW e \in Event, Calm(e), NEW d \in Delivery, Bank(d), e \notin disturbed'
    PROVE  Calm(e)'
<1>0. run[d].phase # "NONE" /\ run[d].event \in Event /\ run[d].phase # "ANSWERED"
    BY UnderWay DEF Bank, LookUp, Authorize, FailAfterAlert, Settle, ReverseHold, Act, Reject, Typed
<1>1. status' = status
    BY DEF Bank, LookUp, Authorize, FailAfterAlert, Settle, ReverseHold, Act, Reject, Carry, generator
<1> DEFINE Told(ok, alert) == AnswerWith(d, ok, alert) /\ (~ok => carried' = carried)
<1>2. \/ \E ok, alert \in BOOLEAN : Told(ok, alert)
      \/ \E i \in Nat : Find(d, i) /\ carried' = carried
      \/ FailAfterAlert(d)
    <2>1. CASE LookUp(d)
        <3>1. DOMAIN holds \subseteq Nat
            BY LenProperties DEF Typed, TypeOK
        <3>2. carried' = carried
            BY <2>1 DEF LookUp, bank
        <3>3. \/ \E ok, alert \in BOOLEAN : AnswerWith(d, ok, alert)
              \/ \E i \in Nat : Find(d, i)
            BY <2>1, <3>1 DEF LookUp, Open, Matching
        <3> QED BY <3>2, <3>3
    <2>2. CASE Authorize(d)
        <3>1. PICK s \in {"PENDING", "FLAGGED", "DECLINED"}, alert \in BOOLEAN :
                 Carry(d, s # "DECLINED", s \in Approved, alert)
            BY <2>2 DEF Authorize
        <3>2. (s \in Approved) \in BOOLEAN /\ (s \notin Approved => s = "DECLINED")
            BY DEF Approved
        <3>3. Told(s \in Approved, alert)
            BY <3>1, <3>2 DEF Carry
        <3> HIDE DEF Told
        <3> QED BY <3>1, <3>2, <3>3
    <2>3. CASE Settle(d) \/ ReverseHold(d) \/ Act(d)
        <3>1. Told(TRUE, TRUE) \/ Told(TRUE, FALSE)
            BY <2>3 DEF Settle, ReverseHold, Act, Carry
        <3> HIDE DEF Told
        <3> QED BY <3>1
    <2>4. CASE Reject(d)
        <3>1. Told(FALSE, FALSE)
            BY <2>4 DEF Reject, Carry
        <3> HIDE DEF Told
        <3> QED BY <3>1
    <2> QED BY <2>1, <2>2, <2>3, <2>4 DEF Bank
<1>6. carried' = carried \/ carried' = carried \cup {<<run[d].event, run[d].rrn>>}
    BY DEF Bank, LookUp, Authorize, FailAfterAlert, Settle, ReverseHold, Act, Reject, Carry, bank
<1>3. /\ \A c \in Delivery : c # d => run'[c] = run[c]
      /\ run'[d] = Idle \/ run'[d].event = run[d].event
    <2>1. CASE FailAfterAlert(d)
        BY <1>0, <2>1, Answered DEF FailAfterAlert, Typed
    <2> QED BY <1>0, <1>2, <2>1, Answered, Found DEF Typed
<1>4. CASE e # run[d].event
    <2>1. ~Serves(d, e) /\ ~Serves(d, e)'
        BY <1>3, <1>4 DEF Serves, Idle
    <2>2. DoneBy(e)' = DoneBy(e)
        BY <1>4, <1>6 DEF DoneBy
    <2> QED BY <1>1, <1>3, <2>1, <2>2, CalmKept
<1>5. CASE e = run[d].event
    <2>1. /\ run[d].waiting /\ status[e] = "DISPATCHING" /\ DoneBy(e) = {}
          /\ \A c \in Delivery : c # d => ~Serves(c, e)
        BY <1>0, <1>5 DEF Calm, Serves
    <2>2. ~FailAfterAlert(d)
        BY <1>5 DEF FailAfterAlert
    <2>3. \A c \in Delivery : c # d => ~Serves(c, e)'
        BY <1>3, <2>1 DEF Serves
    <2>4. /\ run'[d].event = e /\ run'[d].phase # "NONE" /\ run'[d].waiting
          /\ DoneBy(e)' # {} => run'[d].phase = "ANSWERED" /\ run'[d].ok
        BY <1>0, <1>2, <1>5, <2>1, <2>2, Answered, Found DEF DoneBy, Typed
    <2> QED BY <1>1, <2>1, <2>3, <2>4 DEF Calm, Running, Serves
<1> QED BY <1>4, <1>5

\* All steps keep calm what they do not disturb.
LEMMA CalmStep ==
    Typed /\ (\A e \in Event \ disturbed : Calm(e)) /\ [Next]_vars
        => (\A e \in Event \ disturbed : Calm(e))'
<1> SUFFICES ASSUME Typed, \A e \in Event \ disturbed : Calm(e), [Next]_vars,
                    NEW e \in Event, e \notin disturbed'
             PROVE  Calm(e)'
    BY PlanIsFixed DEF Event
<1>1. disturbed \subseteq disturbed'
    BY DEF Next, vars, generator, bank, counters, Enqueue, Cancel, FallDue, Delivered, Answer, Refuse,
           Dispatch, Overlapped, Bank, LookUp, Authorize, FailAfterAlert, Settle, ReverseHold, Act,
           Reject, Carry, Finish, TimeOut, Die, Vanish
<1>2. Calm(e)
    BY <1>1
<1>3. ASSUME NEW f \in Event, NEW byTask \in BOOLEAN,
             Answer(f) \/ Refuse(f, byTask) \/ \E d \in Delivery : Dispatch(d, f, byTask)
      PROVE  Calm(e)'
    BY <1>2, <1>3, CalmStart
<1>4. CASE UNCHANGED vars
    BY <1>2, <1>4, CalmKept DEF vars, generator, bank, DoneBy
<1> QED BY <1>2, <1>3, <1>4, CalmSchedule, CalmEnd, CalmBank DEF Next, Delivered

\* An event is FAILED after the bank did what it asked only if an answer was lost, two
\* dispatches of it overlapped, or its authorization failed after the alert was committed
\* (dispatch_scheduled_event).
THEOREM FailedInVainIsExplained ==
    Spec => []FailedInVainOnlyWhenDisturbed
<1>1. Inv /\ [Next]_vars => Inv'
    BY TypedStep, TrueStep, CalmStep DEF Inv
<1>2. Init => Inv
    BY TypedInit, TrueInit DEF Inv, Init, Calm, Serves, Running, DoneBy, Idle, Event
<1>3. Inv => FailedInVainOnlyWhenDisturbed
    BY DEF Inv, FailedInVainOnlyWhenDisturbed, Calm, Running, Serves
<1> QED BY <1>1, <1>2, <1>3, PTL DEF Spec
=============================================================================
