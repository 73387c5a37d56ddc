----------------------------- MODULE AuditRelay -----------------------------
(***************************************************************************)
(* The transactional audit outbox, the scheduled relay that publishes it    *)
(* in bounded batches behind a durable (created_at, event_id) cursor, and   *)
(* the pruning of rows behind that cursor.                                  *)
(*                                                                          *)
(* A business transaction stamps its event when it inserts it and commits   *)
(* later.  Cloud Scheduler starts a job every minute; jobs may overlap.     *)
(***************************************************************************)
EXTENDS Integers, Sequences, SequencesExt

CONSTANTS
    NEvents,        \* bound: events ever recorded, named in event_id order
    Evidence,       \* events of type PROPOSAL_EVIDENCE_SNAPSHOT
    Job,            \* relay executions that may overlap
    Nobody,         \* the holder of the free advisory lock
    BatchSize,      \* AUDIT_RELAY_BATCH_SIZE
    Retention,      \* retention_days, in ticks
    MaxTime,        \* bound: clock ticks
    MaxFailures     \* bound: failed or crashed batches

ASSUME RelayAssumption ==
    /\ NEvents \in Nat /\ Evidence \subseteq 1..NEvents /\ Nobody \notin Job
    /\ BatchSize \in Nat \ {0} /\ Retention \in Nat
    /\ MaxTime \in Nat /\ MaxFailures \in Nat

VARIABLES
    outbox,         \* audit.audit_outbox: state and created_at of each event
    cursor,         \* committed checkpoint: <<last_created_at, last_event_id>>
    singleton,      \* holder of the advisory transaction lock
    job,            \* the batch a job has read and how much of it is published
    published,      \* deliveries of each event to the topic
    now,            \* the clock
    failures,       \* batches that failed so far
    late            \* history: events committed behind a cursor already chosen

vars == <<outbox, cursor, singleton, job, published, now, failures, late>>

Event == 1..NEvents
Start == <<0, 0>>       \* no checkpoint yet: before every event
IdleJob == [active |-> FALSE, batch |-> <<>>, sent |-> 0]

Init ==
    /\ outbox = [e \in Event |-> [state |-> "none", at |-> 0]]
    /\ cursor = Start
    /\ singleton = Nobody
    /\ job = [j \in Job |-> IdleJob]
    /\ published = [e \in Event |-> 0]
    /\ now = 1
    /\ failures = 0
    /\ late = {}

Key(e) == <<outbox[e].at, e>>
After(k, l) == k[1] > l[1] \/ (k[1] = l[1] /\ k[2] > l[2])

\* Where the cursor will be when the running batch commits.
Chosen(j) == IF job[j].batch = <<>> THEN cursor ELSE Key(Last(job[j].batch))
-----------------------------------------------------------------------------
Record_unstamped(e) ==                          \* mutation: no created_at
    /\ outbox[e].state = "none"
    /\ outbox' = [outbox EXCEPT ![e] = [state |-> "open", at |-> -1]]
    /\ UNCHANGED <<cursor, singleton, job, published, now, failures, late>>

\* record_audit_event: inserted, stamped and flushed, not yet committed.
Record(e) ==
    /\ outbox[e].state = "none"
    /\ outbox' = [outbox EXCEPT ![e] = [state |-> "open", at |-> now]]
    /\ UNCHANGED <<cursor, singleton, job, published, now, failures, late>>

\* The business transaction commits, with its event, or rolls back.
Commit(e) ==
    /\ outbox[e].state = "open"
    /\ outbox' = [outbox EXCEPT ![e].state = "committed"]
    /\ late' = IF \E k \in {cursor} \cup {Chosen(j) : j \in Job} : ~After(Key(e), k)
               THEN late \cup {e} ELSE late
    /\ UNCHANGED <<cursor, singleton, job, published, now, failures>>

RollbackEvent(e) ==
    /\ outbox[e].state = "open"
    /\ outbox' = [outbox EXCEPT ![e] = [state |-> "rolledback", at |-> 0]]
    /\ UNCHANGED <<cursor, singleton, job, published, now, failures, late>>

Tick == now < MaxTime /\ now' = now + 1
        /\ UNCHANGED <<outbox, cursor, singleton, job, published, failures, late>>

PendingRows_inclusive ==                        \* mutation: >= on the cursor
    {e \in Event : outbox[e].state = "committed" /\ ~After(cursor, Key(e))}

PendingRows_byTimeOnly ==                       \* mutation: event_id tie-break dropped
    {e \in Event : outbox[e].state = "committed" /\ outbox[e].at > cursor[1]}

\* The committed rows after the cursor.
PendingRows == {e \in Event : outbox[e].state = "committed" /\ After(Key(e), cursor)}

\* ORDER BY created_at, event_id LIMIT batch_size: the first of them, in cursor order.
FirstOf(rows) ==
    {b \in UNION {[1..n -> rows] : n \in 0..BatchSize} :
        /\ \A i, k \in DOMAIN b : i < k => After(Key(b[k]), Key(b[i]))
        /\ \A e \in rows \ Range(b) :
              Len(b) = BatchSize /\ \A i \in DOMAIN b : After(Key(e), Key(b[i]))}

StartBatch_unlocked(j) ==                       \* mutation: no advisory lock
    /\ ~job[j].active
    /\ \E b \in FirstOf(PendingRows) :
          job' = [job EXCEPT ![j] = [active |-> TRUE, batch |-> b, sent |-> 0]]
    /\ UNCHANGED <<outbox, cursor, singleton, published, now, failures, late>>

\* A job that does not get the advisory lock returns at once.
StartBatch(j) ==
    /\ ~job[j].active /\ singleton = Nobody
    /\ singleton' = j
    /\ \E b \in FirstOf(PendingRows) :
          job' = [job EXCEPT ![j] = [active |-> TRUE, batch |-> b, sent |-> 0]]
    /\ UNCHANGED <<outbox, cursor, published, now, failures, late>>

Sending(j) == job[j].active /\ job[j].sent < Len(job[j].batch)

\* publish and future.result for the next row.
Publish(j) ==
    /\ Sending(j)
    /\ published' = [published EXCEPT ![job[j].batch[job[j].sent + 1]] = @ + 1]
    /\ job' = [job EXCEPT ![j].sent = @ + 1]
    /\ UNCHANGED <<outbox, cursor, singleton, now, failures, late>>

Release(j) ==
    /\ job' = [job EXCEPT ![j] = IdleJob]
    /\ singleton' = IF singleton = j THEN Nobody ELSE singleton

\* A publish error, a timeout whose message was or was not delivered, a failed
\* COMMIT or a crash: the transaction and with it the cursor roll back.
FailBatch(j) ==
    /\ job[j].active /\ failures < MaxFailures
    /\ failures' = failures + 1
    /\ \/ published' = published
       \/ /\ Sending(j)
          /\ published' = [published EXCEPT ![job[j].batch[job[j].sent + 1]] = @ + 1]
    /\ Release(j)
    /\ UNCHANGED <<outbox, cursor, now, late>>

\* The whole batch was acknowledged: the cursor moves past it and is committed.
FinishBatch(j) ==
    /\ job[j].active /\ ~Sending(j)
    /\ cursor' = Chosen(j)
    /\ Release(j)
    /\ UNCHANGED <<outbox, published, now, failures, late>>

Prunable_byAge(e) ==                            \* mutation: cursor ignored
    /\ outbox[e].state = "committed" /\ e \notin Evidence
    /\ outbox[e].at < now - Retention

\* Behind both the retention cutoff and the cursor; evidence stays.
Prunable(e) ==
    /\ outbox[e].state = "committed" /\ e \notin Evidence
    /\ cursor # Start /\ outbox[e].at < now - Retention /\ outbox[e].at < cursor[1]

\* prune_historical_audit_events deletes all of them in one statement.
Prune ==
    /\ \E e \in Event : Prunable(e)
    /\ outbox' = [e \in Event |->
            IF Prunable(e) THEN [outbox[e] EXCEPT !.state = "pruned"] ELSE outbox[e]]
    /\ UNCHANGED <<cursor, singleton, job, published, now, failures, late>>
-----------------------------------------------------------------------------
Next ==
    \/ Tick \/ Prune
    \/ \E e \in Event : Record(e) \/ Commit(e) \/ RollbackEvent(e)
    \/ \E j \in Job : StartBatch(j) \/ Publish(j) \/ FinishBatch(j) \/ FailBatch(j)

\* The scheduler keeps starting jobs and a running job goes on until it ends; that
\* Pub/Sub fails only MaxFailures times is the assumption delivery rests on.
Fairness ==
    /\ WF_vars(\E j \in Job : StartBatch(j))
    /\ \A j \in Job : WF_vars(Publish(j)) /\ WF_vars(FinishBatch(j))

Spec == Init /\ [][Next]_vars
FairSpec == Spec /\ Fairness
-----------------------------------------------------------------------------
RowState == {"none", "open", "committed", "rolledback", "pruned"}

\* Every variable stays in its domain.
TypeOK ==
    /\ outbox \in [Event -> [state: RowState, at: Nat]]
    /\ cursor \in Nat \X (Event \cup {0})
    /\ singleton \in Job \cup {Nobody}
    /\ job \in [Job -> [active: BOOLEAN, batch: Seq(Event), sent: Nat]]
    /\ published \in [Event -> Nat]
    /\ now \in Nat /\ failures \in Nat /\ late \subseteq Event

\* No event that was visible when its batch was chosen is skipped: whatever the
\* cursor has passed, or pruning deleted, has been published.
PassedEventsWerePublished ==
    \A e \in Event \ late :
        \/ outbox[e].state = "committed" /\ ~After(Key(e), cursor)
        \/ outbox[e].state = "pruned"
        => published[e] > 0

\* The cursor commits with the batch and one job runs at a time, so an event is
\* delivered again only by the retry of a batch that failed.
RedeliveryOnlyAfterFailure == \A e \in Event : published[e] <= 1 + failures

\* Overlapping jobs never take the cursor back.
CursorNeverMovesBack == [][cursor' = cursor \/ After(cursor', cursor)]_vars

\* "delivery is intentionally at-least-once": every event committed ahead of the
\* cursor is published, through failed batches, retries and overlapping jobs.
VisibleEventsArePublished ==
    \A e \in Event :
        outbox[e].state = "committed" /\ e \notin late ~> published[e] > 0
-----------------------------------------------------------------------------
\* "unrelayed rows are never eligible for deletion" (prune_historical_audit_events).
PrunedEventsWerePublished ==
    \A e \in Event : outbox[e].state = "pruned" => published[e] > 0
=============================================================================
