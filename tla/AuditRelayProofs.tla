-------------------------- MODULE AuditRelayProofs --------------------------
(***************************************************************************)
(* Proofs about the audit relay, for any number of events, jobs, ticks and *)
(* failures and every batch size and retention.                            *)
(***************************************************************************)
EXTENDS AuditRelay, SequenceTheorems, TLAPS

\* A job that runs holds the advisory lock; the others have no batch.
OneRuns == \A j \in Job : IF job[j].active THEN singleton = j ELSE job[j] = IdleJob

\* A batch is a run of committed rows ahead of the cursor, in its order.
Ordered(j) ==
    LET b == job[j].batch IN
    /\ \A i \in DOMAIN b : outbox[b[i]].state = "committed" /\ After(Key(b[i]), cursor)
    /\ \A i, k \in DOMAIN b : i < k => After(Key(b[k]), Key(b[i]))

\* No row before the end of a batch is left out but those committed late.
Complete(j) ==
    \A e \in Event \ late :
        outbox[e].state = "committed" /\ ~After(Key(e), Chosen(j)) =>
            ~After(Key(e), cursor) \/ \E i \in DOMAIN job[j].batch : job[j].batch[i] = e

\* What a job has sent was delivered.
Progress(j) ==
    /\ job[j].sent <= Len(job[j].batch)
    /\ \A i \in 1..job[j].sent : published[job[j].batch[i]] > 0

BatchesTrue == \A j \in Job : job[j].active => Ordered(j) /\ Complete(j) /\ Progress(j)

Passed(e) == outbox[e].state \in {"committed", "pruned"} /\ ~After(Key(e), cursor)

SentNow(e) ==
    \E j \in Job : job[j].active /\ \E i \in 1..job[j].sent : job[j].batch[i] = e

\* An event delivered more often than batches failed is behind the cursor or sent by the
\* batch under way.
DeliveriesCounted ==
    \A e \in Event :
        /\ published[e] <= 1 + failures
        /\ published[e] <= failures \/ Passed(e) \/ SentNow(e)

Inv ==
    TypeOK /\ OneRuns /\ BatchesTrue /\ PassedEventsWerePublished /\ DeliveriesCounted
-----------------------------------------------------------------------------
(* Cursors.                                                                *)

\* Cursors are ordered.
LEMMA Order ==
    ASSUME NEW k \in Nat \X Nat, NEW l \in Nat \X Nat, NEW m \in Nat \X Nat
    PROVE  /\ ~After(k, k)
           /\ After(k, l) => ~After(l, k)
           /\ After(k, l) /\ After(l, m) => After(k, m)
           /\ k # l => After(k, l) \/ After(l, k)
BY DEF After

\* The order on an outbox row's cursor.
LEMMA KeyType ==
    ASSUME TypeOK, NEW e \in Event
    PROVE  Key(e) \in Nat \X Nat /\ cursor \in Nat \X Nat
BY RelayAssumption DEF TypeOK, Key, Event

\* A running batch is a sequence of events that ends where the cursor will be.
LEMMA ChosenIs ==
    ASSUME TypeOK, NEW j \in Job
    PROVE  /\ job[j].batch \in Seq(Event)
           /\ job[j].sent \in Nat
           /\ job[j].batch = <<>> => Chosen(j) = cursor
           /\ job[j].batch # <<>> =>
                /\ Len(job[j].batch) \in DOMAIN job[j].batch
                /\ Chosen(j) = Key(job[j].batch[Len(job[j].batch)])
           /\ Chosen(j) \in Nat \X (Event \cup {0})
<1> DEFINE b == job[j].batch
<1>1. b \in Seq(Event) /\ job[j].sent \in Nat
    BY DEF TypeOK
<1>2. b # <<>> => Len(b) \in DOMAIN b /\ b[Len(b)] \in Event
    BY <1>1
<1>3. cursor \in Nat \X (Event \cup {0}) /\ \A e \in Event : Key(e) \in Nat \X Event
    BY DEF TypeOK, Key
<1> QED BY <1>1, <1>2, <1>3 DEF Chosen, Last

\* The first rows are rows, in order, and no row before the last of them is missing.
LEMMA FirstRows ==
    ASSUME TypeOK, NEW rows \in SUBSET Event, NEW b \in FirstOf(rows)
    PROVE  /\ b \in Seq(rows)
           /\ \A i, k \in DOMAIN b : i < k => After(Key(b[k]), Key(b[i]))
           /\ \A e \in rows : (\E i \in DOMAIN b : b[i] = e)
                 \/ (b # <<>> /\ After(Key(e), Key(b[Len(b)])))
<1>1. b \in Seq(rows)
  <2>1. PICK n \in 0..BatchSize : b \in [1..n -> rows]
      BY DEF FirstOf
  <2> QED BY <2>1, RelayAssumption
<1>2. ASSUME NEW e \in rows, ~ \E i \in DOMAIN b : b[i] = e
      PROVE  b # <<>> /\ After(Key(e), Key(b[Len(b)]))
  <2>1. Len(b) = BatchSize /\ \A i \in DOMAIN b : After(Key(e), Key(b[i]))
      BY <1>2 DEF FirstOf, Range
  <2>2. b # <<>> /\ Len(b) \in DOMAIN b
      BY <2>1, <1>1, RelayAssumption
  <2> QED BY <2>1, <2>2
<1>3. \A i, k \in DOMAIN b : i < k => After(Key(b[k]), Key(b[i]))
    BY DEF FirstOf
<1> QED BY <1>1, <1>2, <1>3
-----------------------------------------------------------------------------
(* Types.                                                                  *)

\* Initially every variable is in its domain.
LEMMA TypedInit == Init => TypeOK
BY RelayAssumption DEF Init, TypeOK, Event, Start, IdleJob, RowState

\* Every step keeps every variable in its domain.
LEMMA TypedStep == TypeOK /\ [Next]_vars => TypeOK'
<1> SUFFICES ASSUME TypeOK, [Next]_vars PROVE TypeOK'
    OBVIOUS
<1> DEFINE Jobs == [active: BOOLEAN, batch: Seq(Event), sent: Nat]
<1>1. ASSUME Tick PROVE TypeOK'
    BY <1>1 DEF TypeOK, Tick
<1>2. ASSUME Prune PROVE TypeOK'
    BY <1>2 DEF TypeOK, Prune, RowState
<1>3. ASSUME NEW e \in Event, Record(e) \/ Commit(e) \/ RollbackEvent(e) PROVE TypeOK'
  <2>1. CASE Record(e)
      BY <2>1 DEF TypeOK, Record, RowState
  <2>2. CASE Commit(e)
    <3>1. outbox' \in [Event -> [state: RowState, at: Nat]] /\ late' \subseteq Event
        BY <2>2 DEF TypeOK, Commit, RowState
    <3> QED BY <3>1, <2>2 DEF TypeOK, Commit
  <2>3. CASE RollbackEvent(e)
      BY <2>3 DEF TypeOK, RollbackEvent, RowState
  <2> QED BY <1>3, <2>1, <2>2, <2>3
<1>4. ASSUME NEW j \in Job, StartBatch(j) PROVE TypeOK'
  <2>1. PICK b \in FirstOf(PendingRows) :
            job' = [job EXCEPT ![j] = [active |-> TRUE, batch |-> b, sent |-> 0]]
      BY <1>4 DEF StartBatch
  <2>2. b \in Seq(Event)
      BY <2>1, FirstRows DEF PendingRows
  <2>3. job' \in [Job -> Jobs]
      BY <2>1, <2>2 DEF TypeOK
  <2> QED BY <1>4, <2>3 DEF StartBatch, TypeOK
<1>5. ASSUME NEW j \in Job, Publish(j) PROVE TypeOK'
  <2>1. job[j].batch[job[j].sent + 1] \in Event
      BY <1>5, ChosenIs DEF Publish, Sending
  <2>2. job' \in [Job -> Jobs]
    <3>1. job' = [job EXCEPT ![j] = [job[j] EXCEPT !.sent = job[j].sent + 1]]
        BY <1>5 DEF Publish
    <3>2. job[j] \in Jobs
        BY DEF TypeOK
    <3>3. [job[j] EXCEPT !.sent = job[j].sent + 1] \in Jobs
        BY <3>2
    <3> QED BY <3>1, <3>3 DEF TypeOK
  <2>3. published' \in [Event -> Nat]
      BY <1>5, <2>1 DEF TypeOK, Publish
  <2> QED BY <1>5, <2>2, <2>3 DEF TypeOK, Publish
<1>8. ASSUME NEW j \in Job, FailBatch(j) PROVE TypeOK'
  <2>1. Sending(j) => job[j].batch[job[j].sent + 1] \in Event
      BY <1>8, ChosenIs DEF Sending
  <2>2. published' \in [Event -> Nat]
    <3>1. CASE published' = published
        BY <3>1 DEF TypeOK
    <3>2. CASE Sending(j) /\ published' =
                  [published EXCEPT ![job[j].batch[job[j].sent + 1]] = @ + 1]
        BY <2>1, <3>2 DEF TypeOK
    <3> QED BY <1>8, <3>1, <3>2 DEF FailBatch
  <2>3. job' \in [Job -> Jobs] /\ singleton' \in Job \cup {Nobody}
      BY <1>8 DEF TypeOK, FailBatch, Release, IdleJob
  <2> QED BY <1>8, <2>2, <2>3 DEF TypeOK, FailBatch
<1>6. ASSUME NEW j \in Job, FinishBatch(j) PROVE TypeOK'
  <2>1. job' \in [Job -> Jobs] /\ singleton' \in Job \cup {Nobody}
      BY <1>6 DEF TypeOK, FinishBatch, Release, IdleJob
  <2> QED BY <1>6, <2>1, ChosenIs DEF TypeOK, FinishBatch
<1>7. CASE UNCHANGED vars
    BY <1>7 DEF TypeOK, vars
<1> QED BY <1>1, <1>2, <1>3, <1>4, <1>5, <1>6, <1>7, <1>8 DEF Next

\* Every variable stays in its domain.
THEOREM RelayTypeCorrect == Spec => []TypeOK
BY TypedInit, TypedStep, PTL DEF Spec
-----------------------------------------------------------------------------
(* Business transactions and pruning.                                      *)

Kept == {"committed", "pruned"}

\* What a step that moves rows may do: a row that was kept stays or, behind the cursor,
\* is pruned; a row that is committed is late, or ahead of the cursor and of every batch.
Moves(e) ==
    /\ e \in late => e \in late'
    /\ outbox[e].state \in Kept =>
          /\ Key(e)' = Key(e)
          /\ \/ outbox'[e].state = outbox[e].state
             \/ outbox'[e].state = "pruned" /\ ~After(Key(e), cursor)
    /\ outbox'[e].state \in Kept /\ outbox[e].state \notin Kept =>
          /\ outbox'[e].state = "committed"
          /\ e \in late' \/ (After(Key(e)', cursor) /\ \A j \in Job : After(Key(e)', Chosen(j)))

\* Such a step preserves the invariant.
LEMMA RowsMove ==
    ASSUME Inv, TypeOK', UNCHANGED <<cursor, singleton, job, published, failures>>,
           \A e \in Event : Moves(e)
    PROVE  Inv'
<1>1. \A j \in Job : Chosen(j)' = Chosen(j) \/ job[j].batch # <<>>
    BY DEF Chosen
<1>2. OneRuns'
    BY DEF Inv, OneRuns
<1>3. ASSUME NEW j \in Job, job[j].active PROVE Ordered(j)' /\ Complete(j)' /\ Progress(j)'
  <2>1. Ordered(j) /\ Complete(j) /\ Progress(j)
      BY <1>3 DEF Inv, BatchesTrue
  <2>2. job[j].batch \in Seq(Event)
      BY DEF Inv, TypeOK
  <2>3. ASSUME NEW i \in DOMAIN job[j].batch
        PROVE  /\ job[j].batch[i] \in Event
               /\ outbox'[job[j].batch[i]].state = "committed"
               /\ Key(job[j].batch[i])' = Key(job[j].batch[i])
      BY <2>1, <2>2 DEF Ordered, Moves, Kept
  <2>4. Ordered(j)'
      BY <2>1, <2>3 DEF Ordered, After
  <2>5. Chosen(j)' = Chosen(j)
      BY <2>2, <2>3 DEF Chosen, Last
  <2>6. Complete(j)'
    <3> SUFFICES ASSUME NEW e \in Event \ late', outbox'[e].state = "committed",
                        ~After(Key(e)', Chosen(j))
                 PROVE  ~After(Key(e)', cursor) \/ \E i \in DOMAIN job[j].batch : job[j].batch[i] = e
        BY <2>5 DEF Complete, After
    <3>1. outbox[e].state = "committed" /\ Key(e)' = Key(e) /\ e \notin late
        BY DEF Moves, Kept
    <3> QED BY <2>1, <3>1 DEF Complete
  <2>7. Progress(j)'
      BY <2>1 DEF Progress
  <2> QED BY <2>4, <2>6, <2>7
<1>4. BatchesTrue'
    BY <1>3 DEF BatchesTrue
<1>5. ASSUME NEW e \in Event PROVE Passed(e) => Passed(e)'
    BY DEF Passed, Moves, Kept, After
<1>6. PassedEventsWerePublished'
  <2> SUFFICES ASSUME NEW e \in Event \ late',
                      \/ outbox'[e].state = "committed" /\ ~After(Key(e)', cursor)
                      \/ outbox'[e].state = "pruned"
               PROVE  published[e] > 0
      BY DEF PassedEventsWerePublished, After
  <2>1. e \in Event \ late /\ outbox[e].state \in Kept /\ Key(e)' = Key(e)
      BY DEF Moves, Kept
  <2>2. outbox[e].state = "pruned" \/ (outbox[e].state = "committed" /\ ~After(Key(e), cursor))
      BY <2>1 DEF Moves, Kept
  <2> QED BY <2>1, <2>2 DEF Inv, PassedEventsWerePublished
<1>7. DeliveriesCounted'
    BY <1>5 DEF Inv, DeliveriesCounted, SentNow
<1> QED BY <1>2, <1>4, <1>6, <1>7 DEF Inv

\* Business transactions and pruning are such steps.
LEMMA OutboxSteps ==
    ASSUME Inv, TypeOK'
    PROVE  /\ \A e \in Event : Record(e) \/ Commit(e) \/ RollbackEvent(e) => Inv'
           /\ Prune => Inv'
<1>1. ASSUME NEW d \in Event, Record(d) \/ RollbackEvent(d) PROVE Inv'
  <2>1. UNCHANGED <<cursor, singleton, job, published, failures>>
      BY <1>1 DEF Record, RollbackEvent
  <2>2. ASSUME NEW e \in Event PROVE Moves(e)
    <3>1. outbox[d].state \notin Kept /\ outbox'[d].state \notin Kept
        BY <1>1 DEF Inv, TypeOK, Record, RollbackEvent, Kept
    <3>2. late' = late /\ (e # d => outbox'[e] = outbox[e])
        BY <1>1 DEF Inv, TypeOK, Record, RollbackEvent
    <3> QED BY <3>1, <3>2 DEF Moves, Key
  <2> QED BY <2>1, <2>2, RowsMove
<1>2. ASSUME NEW d \in Event, Commit(d) PROVE Inv'
  <2>1. UNCHANGED <<cursor, singleton, job, published, failures>>
      BY <1>2 DEF Commit
  <2>2. ASSUME NEW e \in Event PROVE Moves(e)
    <3>1. Key(e)' = Key(e) /\ late \subseteq late' /\ (e # d => outbox'[e] = outbox[e])
        BY <1>2 DEF Inv, TypeOK, Commit, Key
    <3>2. outbox[d].state = "open" /\ outbox'[d].state = "committed"
        BY <1>2 DEF Inv, TypeOK, Commit
    <3>3. d \in late' \/ \A k \in {cursor} \cup {Chosen(j) : j \in Job} : After(Key(d), k)
        BY <1>2 DEF Commit
    <3> QED BY <3>1, <3>2, <3>3 DEF Moves, Kept
  <2> QED BY <2>1, <2>2, RowsMove
<1>3. ASSUME Prune PROVE Inv'
  <2>1. UNCHANGED <<cursor, singleton, job, published, failures>>
      BY <1>3 DEF Prune
  <2>2. ASSUME NEW e \in Event PROVE Moves(e)
    <3>1. CASE Prunable(e)
      <4>1. outbox'[e].state = "pruned" /\ Key(e)' = Key(e) /\ outbox[e].state = "committed"
          BY <1>3, <3>1 DEF Inv, TypeOK, Prune, Key, Prunable
      <4>2. ~After(Key(e), cursor)
        <5>1. outbox[e].at \in Nat /\ cursor[1] \in Nat /\ outbox[e].at < cursor[1]
            BY <3>1 DEF Inv, TypeOK, Prunable
        <5> QED BY <5>1 DEF Key, After
      <4> QED BY <1>3, <4>1, <4>2 DEF Moves, Kept, Prune
    <3>2. CASE ~Prunable(e)
      <4>1. outbox'[e] = outbox[e]
          BY <1>3, <3>2 DEF Prune
      <4> QED BY <1>3, <4>1 DEF Moves, Kept, Key, Prune
    <3> QED BY <3>1, <3>2
  <2> QED BY <2>1, <2>2, RowsMove
<1> QED BY <1>1, <1>2, <1>3
-----------------------------------------------------------------------------
(* The relay.                                                              *)

\* While a job runs, no other does.
LEMMA Alone ==
    ASSUME Inv, NEW j \in Job, job[j].active
    PROVE  /\ singleton = j
           /\ \A k \in Job \ {j} : ~job[k].active /\ job[k] = IdleJob
BY DEF Inv, OneRuns

\* The next row to send was not delivered more often than batches failed.
LEMMA NextRow ==
    ASSUME Inv, NEW j \in Job, Sending(j)
    PROVE  /\ job[j].sent + 1 \in DOMAIN job[j].batch
           /\ job[j].batch[job[j].sent + 1] \in Event
           /\ published[job[j].batch[job[j].sent + 1]] <= failures
<1> DEFINE b == job[j].batch
           x == b[job[j].sent + 1]
<1>1. job[j].active /\ b \in Seq(Event) /\ job[j].sent \in Nat /\ job[j].sent < Len(b)
    BY DEF Sending, Inv, TypeOK
<1>2. job[j].sent + 1 \in DOMAIN b /\ x \in Event
    BY <1>1
<1>3. Ordered(j)
    BY <1>1 DEF Inv, BatchesTrue
<1>4. ~Passed(x)
    BY <1>2, <1>3 DEF Ordered, Passed
<1>5. ~SentNow(x)
  <2> SUFFICES ASSUME NEW i \in 1..job[j].sent, b[i] = x PROVE FALSE
      BY <1>1, Alone DEF SentNow
  <2>1. i \in DOMAIN b /\ i < job[j].sent + 1
      BY <1>1
  <2>2. After(Key(x), Key(x))
      BY <1>2, <1>3, <2>1 DEF Ordered
  <2> QED BY <1>2, <2>2, KeyType, Order DEF Inv
<1> QED BY <1>2, <1>4, <1>5 DEF Inv, DeliveriesCounted

\* A job starts only when none runs, with the first rows ahead of the cursor.
LEMMA StartStep ==
    ASSUME Inv, TypeOK', NEW j \in Job, StartBatch(j)
    PROVE  Inv'
<1> PICK b \in FirstOf(PendingRows) :
        job' = [job EXCEPT ![j] = [active |-> TRUE, batch |-> b, sent |-> 0]]
    BY DEF StartBatch
<1>1. job'[j] = [active |-> TRUE, batch |-> b, sent |-> 0] /\ \A k \in Job \ {j} : job'[k] = job[k]
    BY DEF Inv, TypeOK
<1>2. \A k \in Job : ~job[k].active
    BY RelayAssumption DEF Inv, OneRuns, StartBatch
<1>3. OneRuns'
    BY <1>1, <1>2 DEF Inv, OneRuns, StartBatch
<1>4. PendingRows \in SUBSET Event
    BY DEF PendingRows
<1>5. /\ b \in Seq(PendingRows)
      /\ \A i, k \in DOMAIN b : i < k => After(Key(b[k]), Key(b[i]))
      /\ \A e \in PendingRows : (\E i \in DOMAIN b : b[i] = e)
            \/ (b # <<>> /\ After(Key(e), Key(b[Len(b)])))
    BY <1>4, FirstRows DEF Inv
<1>6. UNCHANGED <<outbox, cursor, published, failures, late>>
    BY DEF StartBatch
<1>7. Ordered(j)'
  <2>1. \A i \in DOMAIN b : b[i] \in PendingRows
      BY <1>5
  <2> QED BY <1>1, <1>5, <1>6, <2>1 DEF Ordered, PendingRows, Key, After
<1>8. Complete(j)'
  <2> SUFFICES ASSUME NEW e \in Event \ late, outbox[e].state = "committed",
                      ~After(Key(e), Chosen(j)'), After(Key(e), cursor)
               PROVE  \E i \in DOMAIN b : b[i] = e
      BY <1>1, <1>6 DEF Complete, Key, After
  <2>1. e \in PendingRows
      BY DEF PendingRows
  <2>2. b # <<>> => Chosen(j)' = Key(b[Len(b)])
      BY <1>1, <1>6 DEF Chosen, Last, Key
  <2> QED BY <1>5, <2>1, <2>2
<1>9. Progress(j)'
    BY <1>1, <1>5 DEF Progress
<1>10. BatchesTrue'
    BY <1>1, <1>2, <1>7, <1>8, <1>9 DEF BatchesTrue
<1>11. PassedEventsWerePublished'
    BY <1>6 DEF Inv, PassedEventsWerePublished, Key, After
<1>12. DeliveriesCounted'
    BY <1>2, <1>6 DEF Inv, DeliveriesCounted, Passed, SentNow, Key, After
<1> QED BY <1>3, <1>10, <1>11, <1>12 DEF Inv

\* A row that is sent was delivered at most once per batch.
LEMMA PublishStep ==
    ASSUME Inv, TypeOK', NEW j \in Job, Publish(j)
    PROVE  Inv'
<1> DEFINE b == job[j].batch
           x == b[job[j].sent + 1]
<1>1. /\ Sending(j) /\ job[j].active /\ job[j].sent + 1 \in DOMAIN b /\ x \in Event
      /\ published[x] <= failures
    BY NextRow DEF Publish, Sending
<1>2. /\ job'[j].active /\ job'[j].batch = b /\ job'[j].sent = job[j].sent + 1
      /\ \A k \in Job \ {j} : job'[k] = job[k]
    BY <1>1 DEF Inv, TypeOK, Publish
<1>3. /\ published'[x] = published[x] + 1
      /\ \A e \in Event \ {x} : published'[e] = published[e]
      /\ \A e \in Event : published[e] \in Nat /\ published'[e] >= published[e]
  <2>1. published \in [Event -> Nat] /\ published' = [published EXCEPT ![x] = @ + 1]
      BY DEF Inv, TypeOK, Publish
  <2> QED BY <1>1, <2>1
<1>4. UNCHANGED <<outbox, cursor, singleton, failures, late>>
    BY DEF Publish
<1>5. /\ singleton = j
      /\ \A k \in Job \ {j} : ~job[k].active /\ job[k] = IdleJob
    BY <1>1, Alone
<1>6. OneRuns'
    BY <1>2, <1>4, <1>5 DEF OneRuns
<1>7. /\ Ordered(j) /\ Complete(j) /\ Progress(j)
      /\ job[j].batch \in Seq(Event) /\ job[j].sent \in Nat
    BY <1>1 DEF Inv, BatchesTrue, TypeOK
<1>8. Ordered(j)'
    BY <1>2, <1>4, <1>7 DEF Ordered, Key, After
<1>9. Complete(j)'
  <2>1. Chosen(j)' = Chosen(j)
      BY <1>2, <1>4 DEF Chosen, Key
  <2> QED BY <1>2, <1>4, <1>7, <2>1 DEF Complete, Key, After
<1>10. Progress(j)'
  <2>1. job[j].sent + 1 <= Len(b)
      BY <1>1, <1>7
  <2>2. ASSUME NEW i \in 1..(job[j].sent + 1) PROVE published'[b[i]] > 0
    <3>1. CASE i = job[j].sent + 1
        BY <1>3, <3>1, <1>1
    <3>2. CASE i # job[j].sent + 1
      <4>1. i \in 1..job[j].sent /\ i \in DOMAIN b
          BY <3>2, <1>7, <2>1
      <4>2. published[b[i]] > 0 /\ b[i] \in Event
          BY <4>1, <1>7 DEF Progress
      <4> QED BY <1>3, <4>2
    <3> QED BY <3>1, <3>2
  <2> QED BY <1>2, <2>1, <2>2 DEF Progress
<1>11. BatchesTrue'
    BY <1>2, <1>5, <1>8, <1>9, <1>10 DEF BatchesTrue
<1>12. PassedEventsWerePublished'
  <2> SUFFICES ASSUME NEW e \in Event \ late, published[e] > 0 PROVE published'[e] > 0
      BY <1>4 DEF Inv, PassedEventsWerePublished, Key, After
  <2> QED BY <1>3
<1>13. DeliveriesCounted'
  <2> SUFFICES ASSUME NEW e \in Event
               PROVE  /\ published'[e] <= 1 + failures
                      /\ published'[e] <= failures \/ Passed(e) \/ SentNow(e)'
      BY <1>4 DEF DeliveriesCounted, Passed, Key, After
  <2>1. CASE e = x
    <3>1. SentNow(e)'
      <4>1. job[j].sent + 1 \in 1..job'[j].sent /\ job'[j].batch[job[j].sent + 1] = e
          BY <1>2, <1>7, <2>1
      <4> QED BY <1>2, <4>1 DEF SentNow
    <3>2. failures \in Nat /\ published[x] \in Nat
        BY <1>1 DEF Inv, TypeOK
    <3> QED BY <1>1, <1>3, <2>1, <3>1, <3>2
  <2>2. CASE e # x
    <3>1. SentNow(e) => SentNow(e)'
        BY <1>2, <1>5, <1>7 DEF SentNow
    <3> QED BY <1>3, <2>2, <3>1 DEF Inv, DeliveriesCounted
  <2> QED BY <2>1, <2>2
<1> QED BY <1>6, <1>11, <1>12, <1>13 DEF Inv

\* A batch that ends leaves no job running.
LEMMA Ended ==
    ASSUME Inv, NEW j \in Job, job[j].active, Release(j)
    PROVE  /\ \A k \in Job : job'[k] = IdleJob
           /\ OneRuns' /\ BatchesTrue'
           /\ \A e \in Event : ~SentNow(e)'
<1>1. \A k \in Job : job'[k] = IdleJob
    BY Alone DEF Inv, TypeOK, Release
<1>2. \A k \in Job : ~job'[k].active
    BY <1>1 DEF IdleJob
<1> QED BY <1>1, <1>2 DEF OneRuns, BatchesTrue, SentNow

\* A batch that fails leaves the cursor, and what it sent may be delivered once more.
LEMMA FailStep ==
    ASSUME Inv, TypeOK', NEW j \in Job, FailBatch(j)
    PROVE  Inv'
<1>1. job[j].active /\ Release(j) /\ failures' = failures + 1 /\ UNCHANGED <<outbox, cursor, late>>
    BY DEF FailBatch
<1>2. OneRuns' /\ BatchesTrue'
    BY <1>1, Ended
<1>3. ASSUME NEW e \in Event
      PROVE  published'[e] >= published[e] /\ published'[e] <= failures + 1
  <2>1. published[e] \in Nat /\ failures \in Nat /\ published[e] <= 1 + failures
      BY DEF Inv, TypeOK, DeliveriesCounted
  <2>2. CASE published' = published
      BY <2>1, <2>2
  <2>3. CASE /\ Sending(j)
             /\ published' = [published EXCEPT ![job[j].batch[job[j].sent + 1]] = @ + 1]
    <3> DEFINE x == job[j].batch[job[j].sent + 1]
    <3>1. x \in Event /\ published[x] <= failures
        BY <2>3, NextRow
    <3>2. published \in [Event -> Nat]
        BY DEF Inv, TypeOK
    <3> HIDE DEF x
    <3> QED BY <2>1, <2>3, <3>1, <3>2 DEF x
  <2> QED BY <2>2, <2>3 DEF FailBatch
<1>4. PassedEventsWerePublished'
  <2> SUFFICES ASSUME NEW e \in Event \ late, published[e] > 0 PROVE published'[e] > 0
      BY <1>1 DEF Inv, PassedEventsWerePublished, Key, After
  <2>1. published[e] \in Nat /\ published'[e] \in Nat
      BY DEF Inv, TypeOK
  <2> QED BY <1>3, <2>1
<1>5. DeliveriesCounted'
  <2>1. \A e \in Event : published'[e] \in Nat /\ failures' \in Nat
      BY DEF TypeOK
  <2> QED BY <1>1, <1>3, <2>1 DEF DeliveriesCounted
<1> QED BY <1>2, <1>4, <1>5 DEF Inv

\* The cursor moves to the last row of a batch that was sent.
LEMMA FinishStep ==
    ASSUME Inv, TypeOK', NEW j \in Job, FinishBatch(j)
    PROVE  Inv' /\ (cursor' = cursor \/ After(cursor', cursor))
<1> DEFINE b == job[j].batch
<1>1. /\ job[j].active /\ Release(j) /\ ~Sending(j) /\ cursor' = Chosen(j)
      /\ UNCHANGED <<outbox, published, failures, late>>
    BY DEF FinishBatch
<1>2. OneRuns' /\ BatchesTrue' /\ \A e \in Event : ~SentNow(e)'
    BY <1>1, Ended
<1>3. Ordered(j) /\ Complete(j) /\ Progress(j)
    BY <1>1 DEF Inv, BatchesTrue
<1>4. b \in Seq(Event) /\ job[j].sent = Len(b)
    BY <1>1, <1>3 DEF Inv, TypeOK, Sending, Progress
<1>5. cursor' = cursor \/ After(cursor', cursor)
    BY <1>1, <1>3, ChosenIs DEF Inv, Ordered
<1>6. ASSUME NEW e \in Event, ~After(Key(e), cursor) PROVE ~After(Key(e), cursor')
  <2>1. Key(e) \in Nat \X Nat /\ cursor \in Nat \X Nat
      BY KeyType DEF Inv
  <2>2. cursor' \in Nat \X (Event \cup {0})
      BY DEF TypeOK
  <2>3. cursor' \in Nat \X Nat
      BY <2>2, RelayAssumption DEF Event
  <2> QED BY <1>5, <1>6, <2>1, <2>3, Order
<1>7. \A i \in DOMAIN b : published[b[i]] > 0
    BY <1>3, <1>4 DEF Progress
<1>8. PassedEventsWerePublished'
  <2> SUFFICES ASSUME NEW e \in Event \ late,
                      \/ outbox[e].state = "committed" /\ ~After(Key(e), cursor')
                      \/ outbox[e].state = "pruned"
               PROVE  published[e] > 0
      BY <1>1 DEF PassedEventsWerePublished, Key, After
  <2>1. CASE outbox[e].state = "pruned"
      BY <2>1 DEF Inv, PassedEventsWerePublished
  <2>2. CASE outbox[e].state = "committed" /\ ~After(Key(e), cursor')
    <3>1. ~After(Key(e), cursor) \/ \E i \in DOMAIN b : b[i] = e
        BY <1>1, <1>3, <2>2 DEF Complete
    <3> QED BY <1>7, <2>2, <3>1 DEF Inv, PassedEventsWerePublished
  <2> QED BY <2>1, <2>2
<1>9. ASSUME NEW e \in Event, SentNow(e) PROVE Passed(e)'
  <2>1. PICK i \in 1..job[j].sent : b[i] = e
      BY <1>1, <1>9, Alone DEF SentNow
  <2>2. i \in DOMAIN b /\ Len(b) \in DOMAIN b /\ b # <<>> /\ b[Len(b)] \in Event
      BY <1>4, <2>1
  <2>3. cursor' = Key(b[Len(b)])
      BY <1>1, <2>2, ChosenIs DEF Inv
  <2>4. outbox[e].state = "committed"
      BY <1>3, <2>1, <2>2 DEF Ordered
  <2>5. i = Len(b) \/ After(Key(b[Len(b)]), Key(e))
      BY <1>3, <1>4, <2>1, <2>2 DEF Ordered
  <2>6. ~After(Key(e), cursor')
      BY <2>1, <2>2, <2>3, <2>5, KeyType, Order DEF Inv
  <2> QED BY <1>1, <2>4, <2>6 DEF Passed, Key, After
<1>10. DeliveriesCounted'
  <2>1. \A e \in Event : Passed(e) => Passed(e)'
      BY <1>1, <1>6 DEF Passed, Key, After
  <2> QED BY <1>1, <1>9, <2>1 DEF Inv, DeliveriesCounted
<1> QED BY <1>2, <1>5, <1>8, <1>10 DEF Inv

\* The clock moves nothing else.
LEMMA QuietStep ==
    ASSUME Inv, TypeOK', UNCHANGED <<outbox, cursor, singleton, job, published, failures, late>>
    PROVE  Inv'
BY RowsMove DEF Moves, Key

\* Every step preserves the invariant.
LEMMA InvStep == Inv /\ [Next]_vars => Inv'
<1> SUFFICES ASSUME Inv, [Next]_vars PROVE Inv'
    OBVIOUS
<1>1. TypeOK'
    BY TypedStep DEF Inv
<1>2. CASE Tick \/ UNCHANGED vars
    BY <1>1, <1>2, QuietStep DEF Tick, vars
<1>3. CASE Prune \/ \E e \in Event : Record(e) \/ Commit(e) \/ RollbackEvent(e)
    BY <1>1, <1>3, OutboxSteps
<1>4. ASSUME NEW j \in Job, StartBatch(j) \/ Publish(j) \/ FinishBatch(j) \/ FailBatch(j)
      PROVE  Inv'
    BY <1>1, <1>4, StartStep, PublishStep, FinishStep, FailStep
<1> QED BY <1>2, <1>3, <1>4 DEF Next

\* Initially no job runs and nothing is delivered.
LEMMA InvInit == Init => Inv
<1> SUFFICES ASSUME Init PROVE Inv
    OBVIOUS
<1>1. TypeOK
    BY TypedInit
<1>2. \A j \in Job : job[j] = IdleJob /\ ~job[j].active
    BY DEF Init, IdleJob
<1>3. \A e \in Event : outbox[e].state = "none" /\ published[e] = 0 /\ failures = 0
    BY DEF Init
<1> QED BY <1>1, <1>2, <1>3 DEF Inv, OneRuns, BatchesTrue, PassedEventsWerePublished, DeliveriesCounted

\* The invariant holds of every behaviour.
LEMMA Invariance == Spec => []Inv
BY InvInit, InvStep, PTL DEF Spec

\* Whatever the cursor has passed, or pruning deleted, was published, unless it was
\* committed behind a cursor already chosen (run, prune_historical_audit_events).
THEOREM NothingSkipped == Spec => []PassedEventsWerePublished
<1>1. Inv => PassedEventsWerePublished
    BY DEF Inv
<1> QED BY Invariance, <1>1, PTL

\* Each failed batch costs at most one more delivery of an event (run).
THEOREM OneDeliveryPerFailure == Spec => []RedeliveryOnlyAfterFailure
<1>1. Inv => RedeliveryOnlyAfterFailure
    BY DEF Inv, DeliveriesCounted, RedeliveryOnlyAfterFailure
<1> QED BY Invariance, <1>1, PTL

\* Only the end of a batch moves the cursor, forwards (run).
THEOREM CursorOnlyAdvances == Spec => CursorNeverMovesBack
<1>1. ASSUME Inv, [Next]_vars PROVE cursor' = cursor \/ After(cursor', cursor)
  <2>1. TypeOK'
      BY <1>1, TypedStep DEF Inv
  <2>2. CASE \E j \in Job : FinishBatch(j)
      BY <1>1, <2>1, <2>2, FinishStep
  <2>3. CASE ~ \E j \in Job : FinishBatch(j)
      BY <1>1, <2>3 DEF Next, vars, Tick, Prune, Record, Commit, RollbackEvent, StartBatch,
                        Publish, FailBatch
  <2> QED BY <2>2, <2>3
<1>2. Inv /\ [Next]_vars => [cursor' = cursor \/ After(cursor', cursor)]_vars
    BY <1>1
<1> QED BY Invariance, <1>2, PTL DEF Spec, CursorNeverMovesBack
=============================================================================
