--------------------------- MODULE EventScheduler ---------------------------
(***************************************************************************)
(* The synthetic event scheduler of the data generator: scheduled events,  *)
(* the Cloud Tasks that deliver them, dispatches, and the calls these make *)
(* to the bank.                                                            *)
(*                                                                         *)
(* The generator is one asyncio process: between two awaited HTTP answers  *)
(* a dispatch runs alone, so reading an event, marking it DISPATCHING and  *)
(* reading the context is one step, and marking the outcome another.  The  *)
(* bank answers in steps of its own, to callers that may be gone by then.  *)
(***************************************************************************)
EXTENDS Integers, Sequences, SequencesExt

CONSTANTS
    Schedules,      \* schedules: sequences of events, in the order of scheduled_for
    Personas,       \* personas of the events
    Delivery,       \* dispatches that may be under way together
    MaxAttempts,    \* deliveries Cloud Tasks makes of one task (scheduler.tf: 5)
    MaxDeaths,      \* bound: dispatches that die without marking an outcome
    MaxRequests     \* bound: requests of operators

Kinds == {"AUTHORIZE", "SETTLE", "REVERSE", "ACTION"}

ASSUME SchedulerAssumption ==
    /\ Schedules \subseteq Seq([kind: Kinds, persona: Personas])
    /\ MaxAttempts \in Nat \ {0} /\ MaxDeaths \in Nat /\ MaxRequests \in Nat

VARIABLES
    plan,           \* the schedule; its rows never change
    status,         \* status of operations.synthetic_scheduled_events
    result,         \* authorization named in result_payload, and whether with an alert
    completed,      \* authorization events in the order of their completed_at; the last
                    \* entry of one that completed twice counts
    task,           \* deliveries a Cloud Task still has, 0 when there is none
    due,            \* events whose time has come, the first ones of the plan
    run,            \* dispatches, and the bank requests they sent
    holds,          \* the bank's authorizations, by retrieval reference number
    charges,        \* settlements posted to the journal for an authorization
    carried,        \* what the bank did: <<event, authorization>>
    disturbed,      \* history: events with a lost answer, overlapping dispatches or half an
                    \* authorization
    deaths,         \* counts dispatches that died
    requests        \* counts requests of operators

generator == <<plan, status, result, completed, task, due>>
bank == <<holds, charges, carried>>
counters == <<disturbed, deaths, requests>>
vars == <<generator, run, bank, counters>>
-----------------------------------------------------------------------------
Event == DOMAIN plan
Idle == [phase |-> "NONE"]
NoResult == [rrn |-> 0, alert |-> FALSE]

Init ==
    /\ plan \in Schedules
    /\ status = [e \in Event |-> "ABSENT"]
    /\ result = [e \in Event |-> NoResult]
    /\ completed = <<>>
    /\ task = [e \in Event |-> 0]
    /\ due = 0
    /\ run = [d \in Delivery |-> Idle]
    /\ holds = <<>>
    /\ charges = [e \in Event |-> 0]
    /\ carried = {}
    /\ disturbed = {} /\ deaths = 0 /\ requests = 0

Operator == requests < MaxRequests /\ requests' = requests + 1

\* enqueue_scenario_schedule runs without awaiting: an event is created unless its
\* idempotency key exists, then a Cloud Task is made for it, or not (enqueue_cloud_task_for_
\* event).  A repeated request makes tasks of the events again.
Enqueue ==
    /\ Operator
    /\ status' = [e \in Event |-> IF status[e] = "ABSENT" THEN "SCHEDULED" ELSE status[e]]
    /\ \E made \in SUBSET Event :
          task' = [e \in Event |-> IF e \in made THEN MaxAttempts ELSE task[e]]
    /\ UNCHANGED <<plan, result, completed, due, run, bank, disturbed, deaths>>

FallDue ==
    /\ due < Len(plan)
    /\ due' = due + 1
    /\ UNCHANGED <<plan, status, result, completed, task, run, bank, counters>>

\* cancel_future_events: tasks are not withdrawn.
Cancel ==
    /\ Operator
    /\ status' = [e \in Event |-> IF status[e] \in {"SCHEDULED", "FAILED"} /\ e > due
                                  THEN "CANCELED" ELSE status[e]]
    /\ UNCHANGED <<plan, result, completed, task, due, run, bank, disturbed, deaths>>
-----------------------------------------------------------------------------
(* Dispatch.                                                               *)

\* get_context and _latest_auth_context: of the persona's authorizations that succeeded the
\* last to complete is taken, not the parent of the event.
Latest(e) ==
    LET candidates == {i \in DOMAIN completed : /\ plan[completed[i]].persona = plan[e].persona
                                                /\ status[completed[i]] = "SUCCEEDED"}
    IN  {completed[i] : i \in {k \in candidates : \A l \in candidates : l <= k}}

\* What a dispatch is about: none without the authorization, or alert, that it needs.
Subjects(e) ==
    IF plan[e].kind = "AUTHORIZE" THEN {e}
    ELSE {result[a].rrn : a \in {b \in Latest(e) : plan[e].kind = "ACTION" => result[b].alert}}

Finished_succeededOnly == {"SUCCEEDED"}         \* mutation: canceled events run
Finished_dispatchingToo ==                      \* mutation: a claim is never taken over
    {"SUCCEEDED", "CANCELED", "DISPATCHING"}
Finished == {"SUCCEEDED", "CANCELED"}

Acknowledge_countsDown(e, byTask) ==            \* mutation: as if the answer were an error
    task' = IF byTask THEN [task EXCEPT ![e] = @ - 1] ELSE task
\* The task is gone once the route has answered with 200.
Acknowledge(e, byTask) == task' = IF byTask THEN [task EXCEPT ![e] = 0] ELSE task

\* Who asks: a task that is due, or an operator.
Requested(e, byTask) ==
    IF byTask THEN task[e] > 0 /\ e <= due /\ UNCHANGED requests
              ELSE status[e] # "ABSENT" /\ Operator

Running(e) == \E d \in Delivery : run[d].phase # "NONE" /\ run[d].event = e

Overlapped(e) == IF Running(e) THEN disturbed \cup {e} ELSE disturbed

\* Delivered again after completion or cancellation: answered from the row.
Answer(e) ==
    /\ Requested(e, TRUE) /\ status[e] \in Finished
    /\ Acknowledge(e, TRUE)
    /\ UNCHANGED <<plan, status, result, completed, due, run, bank, disturbed, deaths>>

\* Without a subject, a dispatch fails before any call.
Refuse(e, byTask) ==
    /\ Requested(e, byTask) /\ status[e] \notin Finished
    /\ Subjects(e) = {}
    /\ status' = [status EXCEPT ![e] = "FAILED"]
    /\ Acknowledge(e, byTask)
    /\ disturbed' = Overlapped(e)
    /\ UNCHANGED <<plan, result, completed, due, run, bank, deaths>>

\* mark_dispatching and the request to the bank; byTask says who asked, a task or an operator.
Dispatch(d, e, byTask) ==
    /\ run[d] = Idle
    /\ Requested(e, byTask) /\ status[e] \notin Finished
    /\ status' = [status EXCEPT ![e] = "DISPATCHING"]
    /\ \E rrn \in Subjects(e) :
          run' = [run EXCEPT ![d] = [phase |-> "SENT", event |-> e, rrn |-> rrn,
                                     byTask |-> byTask, waiting |-> TRUE,
                                     hold |-> 0, ok |-> FALSE, alert |-> FALSE]]
    /\ disturbed' = Overlapped(e)
    /\ UNCHANGED <<plan, result, completed, task, due, bank, deaths>>

MarkSucceeded(d) ==
    LET e == run[d].event
    IN  /\ status' = [status EXCEPT ![e] = "SUCCEEDED"]
        /\ result' = [result EXCEPT ![e] = [rrn |-> run[d].rrn, alert |-> run[d].alert]]
        /\ completed' = IF plan[e].kind = "AUTHORIZE"
                        THEN Append(completed, e)
                        ELSE completed

MarkFailed(d) ==
    /\ status' = [status EXCEPT ![run[d].event] = "FAILED"]
    /\ UNCHANGED <<result, completed>>

Accepted_anyAnswer(d) == TRUE                   \* mutation: any answer is a success
\* A call counts only with status 200, and an authorization only with action code "00".
Accepted(d) == run[d].ok

\* The answer arrives; the outcome is marked whatever the status has become meanwhile.
Finish(d) ==
    /\ run[d].phase = "ANSWERED" /\ run[d].waiting
    /\ IF Accepted(d) THEN MarkSucceeded(d) ELSE MarkFailed(d)
    /\ Acknowledge(run[d].event, run[d].byTask)
    /\ run' = [run EXCEPT ![d] = Idle]
    /\ UNCHANGED <<plan, due, bank, counters>>

\* The request is left to the bank; an answer already given is lost.
Abandon(d) ==
    [run EXCEPT ![d] = IF @.phase = "ANSWERED" THEN Idle ELSE [@ EXCEPT !.waiting = FALSE]]

\* No answer within the timeout: the event is marked FAILED while the bank may go on.
TimeOut(d) ==
    /\ run[d].phase # "NONE" /\ run[d].waiting
    /\ MarkFailed(d)
    /\ Acknowledge(run[d].event, run[d].byTask)
    /\ run' = Abandon(d)
    /\ disturbed' = disturbed \cup {run[d].event}
    /\ UNCHANGED <<plan, due, bank, deaths, requests>>

\* The process dies, or the outcome cannot be written: the event stays DISPATCHING and
\* Cloud Tasks delivers again while it has attempts left.
Die(d) ==
    LET e == run[d].event
    IN  /\ deaths < MaxDeaths
        /\ run[d].phase # "NONE" /\ run[d].waiting
        /\ run' = Abandon(d)
        /\ task' = IF run[d].byTask /\ task[e] > 0 THEN [task EXCEPT ![e] = @ - 1] ELSE task
        /\ disturbed' = disturbed \cup {e}
        /\ deaths' = deaths + 1
        /\ UNCHANGED <<plan, status, result, completed, due, bank, requests>>
-----------------------------------------------------------------------------
(* The bank (card_network.py, fraud_alerts.py), one request of a dispatch. *)

\* An answer is dropped when the dispatch is gone.
AnswerWith(d, ok, alert) ==
    run' = [run EXCEPT ![d] =
        IF @.waiting THEN [@ EXCEPT !.phase = "ANSWERED", !.ok = ok, !.alert = alert] ELSE Idle]

Find(d, i) == run' = [run EXCEPT ![d].phase = "FOUND", ![d].hold = i]

Matching(d, statuses) ==
    {i \in DOMAIN holds : holds[i].rrn = run[d].rrn /\ holds[i].status \in statuses}

Posted_never(d) == FALSE                        \* mutation: no idempotency key
\* card-settlement:<rrn>, unique in the journal.
Posted(d) == charges[run[d].rrn] > 0

Known(d) == Matching(d, {"PENDING", "FLAGGED", "DECLINED", "SETTLED", "REVERSED"})

Open(d) == Matching(d, {"PENDING", "FLAGGED"})

\* The unlocked lookup: a known reference number is answered from its hold, in a message
\* that names no fraud alert; one with no open hold is not settled or reversed.
LookUp(d) ==
    LET kind == plan[run[d].event].kind
    IN  /\ run[d].phase = "SENT"
        /\ \/ /\ kind = "AUTHORIZE" /\ Known(d) # {}
              /\ AnswerWith(d, Matching(d, {"PENDING"}) # {}, FALSE)
           \/ /\ kind = "AUTHORIZE" /\ Known(d) = {}
              /\ Find(d, 0)
           \/ /\ kind \in {"SETTLE", "REVERSE"} /\ Open(d) = {}
              /\ AnswerWith(d, FALSE, FALSE)
           \/ /\ kind \in {"SETTLE", "REVERSE"}
              /\ \E i \in Open(d) : Find(d, i)
           \/ /\ kind = "ACTION"
              /\ Find(d, 0)
        /\ UNCHANGED <<generator, bank, counters>>

Carry(d, done, ok, alert) ==
    /\ carried' = IF done THEN carried \cup {<<run[d].event, run[d].rrn>>} ELSE carried
    /\ AnswerWith(d, ok, alert)
    /\ UNCHANGED <<generator, counters>>

Approved_pendingOnly == {"PENDING"}             \* mutation: a flagged hold is answered "51"
Approved == {"PENDING", "FLAGGED"}

\* process_authorization under the account lock: approved, flagged (perhaps with an alert)
\* or declined for want of credit.
Authorize(d) ==
    /\ run[d].phase = "FOUND" /\ plan[run[d].event].kind = "AUTHORIZE"
    /\ \E s \in {"PENDING", "FLAGGED", "DECLINED"}, alert \in BOOLEAN :
          /\ alert => s = "FLAGGED"
          /\ holds' = Append(holds, [rrn |-> run[d].rrn, status |-> s])
          /\ UNCHANGED charges
          /\ Carry(d, s # "DECLINED", s \in Approved, alert)

\* The secure message of a new alert commits the flagged hold; an error after it is answered
\* as a failure and undoes no more than what came after.
FailAfterAlert(d) ==
    /\ run[d].phase = "FOUND" /\ plan[run[d].event].kind = "AUTHORIZE"
    /\ holds' = Append(holds, [rrn |-> run[d].rrn, status |-> "FLAGGED"])
    /\ carried' = carried \cup {<<run[d].event, run[d].rrn>>}
    /\ disturbed' = disturbed \cup {run[d].event}
    /\ AnswerWith(d, FALSE, FALSE)
    /\ UNCHANGED <<generator, charges, deaths, requests>>

Resolve(i, to) == holds' = [holds EXCEPT ![i].status = to]

\* process_settlement and process_reversal do not look at the hold again.
Settle(d) ==
    /\ run[d].phase = "FOUND" /\ plan[run[d].event].kind = "SETTLE"
    /\ ~Posted(d)
    /\ Resolve(run[d].hold, "SETTLED")
    /\ charges' = [charges EXCEPT ![run[d].rrn] = @ + 1]
    /\ Carry(d, TRUE, TRUE, FALSE)

ReverseHold(d) ==
    /\ run[d].phase = "FOUND" /\ plan[run[d].event].kind = "REVERSE"
    /\ Resolve(run[d].hold, "REVERSED")
    /\ UNCHANGED charges
    /\ Carry(d, TRUE, TRUE, FALSE)

\* execute_scenario_customer_action: replayed by its key, recognized, or disputed, which
\* voids the hold.
Act(d) ==
    /\ run[d].phase = "FOUND" /\ plan[run[d].event].kind = "ACTION"
    /\ \/ UNCHANGED holds
       \/ /\ <<run[d].event, run[d].rrn>> \notin carried
          /\ \E i \in Open(d) : Resolve(i, "REVERSED")
    /\ UNCHANGED charges
    /\ Carry(d, TRUE, TRUE, TRUE)

\* Refused, or rolled back by an error.
Reject(d) ==
    /\ run[d].phase = "FOUND"
    /\ UNCHANGED <<holds, charges>>
    /\ Carry(d, FALSE, FALSE, FALSE)

\* A request whose sender is gone was never received.
Vanish(d) ==
    /\ run[d].phase = "SENT" /\ ~run[d].waiting
    /\ run' = [run EXCEPT ![d] = Idle]
    /\ UNCHANGED <<generator, bank, counters>>

Bank(d) ==
    \/ LookUp(d) \/ Authorize(d) \/ FailAfterAlert(d) \/ Settle(d) \/ ReverseHold(d)
    \/ Act(d) \/ Reject(d)
-----------------------------------------------------------------------------
Delivered(e) ==
    Answer(e) \/ Refuse(e, TRUE) \/ \E d \in Delivery : Dispatch(d, e, TRUE)

Next ==
    \/ Enqueue \/ Cancel \/ FallDue
    \/ \E e \in Event : \/ Delivered(e) \/ Refuse(e, FALSE)
                        \/ \E d \in Delivery : Dispatch(d, e, FALSE)
    \/ \E d \in Delivery : Bank(d) \/ Finish(d) \/ TimeOut(d) \/ Die(d) \/ Vanish(d)

Spec == Init /\ [][Next]_vars

\* Cloud Tasks delivers what is due, the bank and the network answer or time out, and
\* requests end.  Operators, cancellations and deaths need not happen.
Longest == Max({Len(p) : p \in Schedules})

Fairness ==
    /\ WF_vars(FallDue) /\ \A e \in 1..Longest : SF_vars(e \in Event /\ Delivered(e))
    /\ \A d \in Delivery : WF_vars(Bank(d)) /\ WF_vars(Finish(d) \/ TimeOut(d))

FairSpec == Spec /\ Fairness
-----------------------------------------------------------------------------
Dispatching ==
    [phase: {"SENT", "FOUND", "ANSWERED"}, event: Event, rrn: Event, hold: Nat,
     byTask: BOOLEAN, waiting: BOOLEAN, ok: BOOLEAN, alert: BOOLEAN]

\* Every variable stays in its domain.
TypeOK ==
    /\ status \in [Event -> {"ABSENT", "SCHEDULED", "DISPATCHING", "SUCCEEDED", "FAILED",
                             "CANCELED"}]
    /\ result \in [Event -> [rrn: Event \cup {0}, alert: BOOLEAN]]
    /\ completed \in Seq(Event)
    /\ plan \in Schedules
    /\ task \in [Event -> 0..MaxAttempts] /\ due \in 0..Len(plan)
    /\ run \in [Delivery -> Dispatching \cup {Idle}]
    /\ holds \in Seq([rrn: Event, status: {"PENDING", "FLAGGED", "DECLINED", "SETTLED",
                                           "REVERSED"}])
    /\ charges \in [Event -> Nat] /\ carried \subseteq Event \X Event /\ disturbed \subseteq Event
    /\ deaths \in 0..MaxDeaths /\ requests \in 0..MaxRequests

\* Retries, late answers and overlapping deliveries never report a success that did not
\* take place: a SUCCEEDED event was carried out by the bank, on the authorization its
\* result names (mark_succeeded).
SucceededMeansDone ==
    \A e \in Event : status[e] = "SUCCEEDED" => <<e, result[e].rrn>> \in carried

DoneBy(e) == {c \in carried : c[1] = e}

\* The converse fails only for want of an answer: an event is FAILED after the bank did
\* what it asked only if an answer was lost, two dispatches of it overlapped, so that
\* the repeated request was refused (dispatch_scheduled_event), or the authorization
\* failed after its alert was committed.
FailedInVainOnlyWhenDisturbed ==
    \A e \in Event : status[e] = "FAILED" /\ DoneBy(e) # {} => e \in disturbed

\* However often a settlement is dispatched - again after a lost answer, overlapping, or for
\* two events that take the same authorization - it is charged once (process_settlement).
ChargedOnce == \A e \in Event : charges[e] <= 1

\* Canceled events whose dispatch is not under way stay canceled and do nothing, whatever
\* their tasks deliver: "canceled events no-op".
CanceledIsFinal ==
    [][\A e \in Event : status[e] = "CANCELED" /\ ~Running(e) =>
          status'[e] = "CANCELED" /\ DoneBy(e)' = DoneBy(e)]_vars

\* While dispatches die less often than Cloud Tasks tries, every event that got its task
\* comes to an end, whatever state a dead dispatch left it in.
EveryTaskEnds ==
    \A e \in 1..Longest : (e \in Event /\ task[e] > 0) ~>
        status[e] \in {"SUCCEEDED", "FAILED", "CANCELED"}
=============================================================================
