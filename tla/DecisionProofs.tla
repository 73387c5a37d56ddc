--------------------------- MODULE DecisionProofs ---------------------------
(***************************************************************************)
(* Proofs about the decisions on the offers of the action-proposal         *)
(* protocol: when an executed offer was presented, decided and claimed, by *)
(* whom, and what an execution finds on the account.                       *)
(***************************************************************************)
EXTENDS OfferProofs

\* An offer that a decision carries on with, not one that is only looked up again.
Carries(r) == tx[r].pc \in HoldingPC /\ (tx[r].pc # "claim" \/ tx[r].row.status = "CONFIRMED")

\* The decision came after the offer, and after its presentation.
OnTime(row) == row.decided > row.origin /\ row.presented \in 1..(row.decided - 1)

\* What a decision carries was presented and claimed in time.
GoodCopy(r) ==
    /\ Carries(r) => OnTime(tx[r].row)
    /\ tx[r].pc \in {"signals", "lock", "execute"} => tx[r].row.claimed < tx[r].row.expires

\* A call was made in its session's past; a decision after its offer was prepared, and
\* what it carries was presented on an earlier turn and claimed in time.
DecisionInv(r) ==
    LET t == tx[r]
        p == t.in.proposal
    IN  /\ t.pc # "idle" => t.in.turn <= turn[t.in.session]
        /\ t.pc \in DecisionPC =>
              /\ t.in.shown <= t.in.turn
              /\ Present(p) /\ proposals[p].session = t.in.session =>
                    proposals[p].origin <= t.in.turn
        /\ GoodCopy(r)

\* Offers were prepared on turns that have begun.
OffersArePast ==
    \A p \in Proposal : Present(p) => proposals[p].origin <= turn[proposals[p].session]

TimeInv ==
    /\ OfferInv /\ OffersArePast /\ CommittedOnLaterTurnInTime
    /\ \A r \in Request : DecisionInv(r)
-----------------------------------------------------------------------------
(* Steps.                                                                  *)

\* A call keeps its input until it ends.
LEMMA InputKept ==
    ASSUME TypeOK, NEW r \in Request, Step(r) \/ Abort(r)
    PROVE  tx'[r].pc = "idle" \/ (tx'[r].in = tx[r].in /\ tx[r].pc # "idle")
<1> DEFINE Kept == tx'[r].pc = "idle" \/ tx'[r].in = tx[r].in
<1>1. tx[r].pc # "idle"
  <2>1. PrepareStep(r) \/ Abort(r) => tx[r].pc # "idle"
      BY DEF PrepareStep, PrepareReplay, PrepareLookup, PrepareFacts, PrepareCustomer,
             PrepareScan, PrepareInsert, Abort
  <2>2. DecisionStep(r) => tx[r].pc # "idle"
      BY DEF DecisionStep, CommitAttest, CommitClaim, CommitSignals, CommitLock, CommitExecute,
             DecidePresent, DecideApply, RejectExpired
  <2> QED BY <2>1, <2>2 DEF Step
<1>2. Finish(r) \/ RollbackExpired(r) => Kept
    BY TxAfter DEF Idle
<1>3. ASSUME NEW pc, NEW row, NEW stages, Goto(r, pc, row, stages) PROVE Kept
    BY <1>3, TxAfter
<1>4. PrepareScan(r) => Kept
  <2>1. tx \in [Request -> Tx] /\ tx[r] \in Tx
      BY DEF TypeOK, Tx
  <2>2. \A l : tx' = [tx EXCEPT ![r] = [@ EXCEPT !.pc = "insert", !.lapsed = l]] => Kept
      BY <2>1 DEF Tx
  <2> QED BY <1>2, <2>2 DEF PrepareScan, Rollback
<1>5. PrepareStep(r) \/ Abort(r) => Kept
    BY <1>2, <1>3, <1>4
    DEF PrepareStep, PrepareReplay, PrepareLookup, PrepareFacts, PrepareCustomer, PrepareInsert,
        Abort, Rollback
<1>6. CommitAttest(r) \/ CommitClaim(r) \/ CommitSignals(r) \/ CommitLock(r) \/ CommitExecute(r)
        => Kept
    BY <1>2, <1>3
    DEF CommitAttest, CommitClaim, CommitSignals, CommitLock, CommitExecute, Rollback, Dispose
<1>7. DecidePresent(r) \/ DecideApply(r) \/ RejectExpired(r) => Kept
    BY <1>2, <1>3 DEF DecidePresent, DecideApply, RejectExpired, Rollback, Dispose
<1> QED BY <1>1, <1>5, <1>6, <1>7 DEF Step, DecisionStep

\* What a beginning call starts from.
LEMMA Begun ==
    ASSUME TypeOK, NEW r \in Request, Begin(r)
    PROVE  /\ UNCHANGED <<tables, locks, world>>
           /\ \A q \in Request : q # r => tx'[q] = tx[q]
           /\ tx'[r].in.session \in Session /\ tx'[r].in.turn = turn[tx'[r].in.session]
           /\ tx'[r].pc = "lookup" \/ (tx'[r].pc \in {"attest", "decide"}
                /\ tx'[r].in.shown <= tx'[r].in.turn /\ tx'[r].in.proposal \in Proposal)
<1>0. tx \in [Request -> Tx]
    BY DEF TypeOK, Tx
<1>1. ASSUME NEW s \in Session, NEW d \in Playbook, NEW rev \in 1..MaxRevision, NEW k \in Target,
             BeginPrepare(r, s, d, rev, k)
      PROVE  /\ tx'[r].pc = "lookup" /\ tx'[r].in.session = s /\ tx'[r].in.turn = turn[s]
             /\ UNCHANGED <<tables, locks, world>>
             /\ \A q \in Request : q # r => tx'[q] = tx[q]
  <2> DEFINE in == [NoInput EXCEPT !.session = s, !.turn = turn[s], !.gen = token[s],
                      !.playbook = d, !.revision = rev, !.target = k]
             x == [Idle EXCEPT !.pc = "lookup", !.in = in]
  <2>1. tx' = [tx EXCEPT ![r] = x] /\ UNCHANGED <<tables, locks, world>>
      BY <1>1 DEF BeginPrepare
  <2>2. in.session = s /\ in.turn = turn[s]
      BY DEF NoInput
  <2>3. x.pc = "lookup" /\ x.in = in
      BY DEF Idle
  <2> HIDE DEF in, x
  <2> QED BY <1>0, <2>1, <2>2, <2>3
<1>2. ASSUME NEW op \in Operation \ {"PREPARE"}, NEW s \in Session, NEW p \in Proposal,
             NEW shown \in 0..MaxTurn, BeginDecision(r, op, s, p, shown)
      PROVE  /\ tx'[r].pc \in {"attest", "decide"} /\ tx'[r].in.session = s
             /\ tx'[r].in.turn = turn[s] /\ tx'[r].in.shown = shown /\ shown <= turn[s]
             /\ tx'[r].in.proposal = p /\ UNCHANGED <<tables, locks, world>>
             /\ \A q \in Request : q # r => tx'[q] = tx[q]
  <2> DEFINE in == [NoInput EXCEPT !.op = op, !.session = s, !.turn = turn[s],
                      !.gen = token[s], !.shown = shown, !.proposal = p]
             pc == IF op = "COMMIT" THEN "attest" ELSE "decide"
             x == [Idle EXCEPT !.pc = pc, !.in = in]
  <2>1. tx' = [tx EXCEPT ![r] = x] /\ UNCHANGED <<tables, locks, world>> /\ shown <= turn[s]
      BY <1>2 DEF BeginDecision
  <2>2. in.session = s /\ in.turn = turn[s] /\ in.shown = shown /\ in.proposal = p
      BY DEF NoInput
  <2>3. x.pc \in {"attest", "decide"} /\ x.in = in
      BY DEF Idle
  <2> HIDE DEF in, x
  <2> QED BY <1>0, <2>1, <2>2, <2>3
<1>3. CASE \E s \in Session, d \in Playbook, rev \in 1..MaxRevision, k \in Target :
                BeginPrepare(r, s, d, rev, k)
    BY <1>1, <1>3
<1>4. CASE \E op \in Operation \ {"PREPARE"}, s \in Session, p \in Proposal, shown \in 0..MaxTurn :
                BeginDecision(r, op, s, p, shown)
    BY <1>2, <1>4
<1> QED BY <1>3, <1>4 DEF Begin

\* Turns only go on.
LEMMA TurnsGoOn ==
    ASSUME TypeOK, [Next]_vars, NEW s \in Session
    PROVE  turn[s] \in Nat /\ turn'[s] \in Nat /\ turn[s] <= turn'[s]
<1>1. turn \in [Session -> Nat]
    BY DEF TypeOK
<1>2. CASE \E z \in Session : NextTurn(z)
    BY <1>1, <1>2 DEF NextTurn
<1>3. CASE UNCHANGED turn
    BY <1>1, <1>3
<1>4. Environment => UNCHANGED turn \/ \E z \in Session : NextTurn(z)
    BY DEF Environment, Tick, Settle, ResetData, BumpGeneration, Resume, Publish, world
<1>5. ASSUME NEW r \in Request, Begin(r) \/ Step(r) \/ Abort(r) PROVE UNCHANGED turn
    BY <1>5, CallsKeepWorld DEF world
<1> QED BY <1>2, <1>3, <1>4, <1>5 DEF Next, vars, world

\* Only an execution runs a banking action.
LEMMA OnlyExecutionsRun ==
    ASSUME [Next]_vars, effects' # effects
    PROVE  \E r \in Request : CommitExecute(r)
<1>1. ~(Environment \/ UNCHANGED vars)
    BY DEF Environment, Tick, Settle, ResetData, BumpGeneration, NextTurn, Resume, Publish,
           tables, vars
<1>2. ASSUME NEW r \in Request PROVE ~(Begin(r) \/ Abort(r) \/ PrepareStep(r))
    BY DEF Begin, BeginPrepare, BeginDecision, Abort, PrepareStep, PrepareReplay, PrepareLookup,
           PrepareFacts, PrepareCustomer, PrepareScan, PrepareInsert, Rollback, tables
<1>3. ASSUME NEW r \in Request, DecisionStep(r) PROVE CommitExecute(r)
    BY <1>3
    DEF DecisionStep, CommitAttest, CommitClaim, CommitSignals, CommitLock, DecidePresent,
        DecideApply, RejectExpired, Dispose, Rollback, RollbackExpired, tables
<1> QED BY <1>1, <1>2, <1>3 DEF Next, Step

\* Only an execution makes an offer COMMITTED.
LEMMA OnlyExecutionCommits ==
    ASSUME SafeInv, [Next]_vars, NEW p \in Proposal,
           proposals'[p].status = "COMMITTED", proposals[p].status # "COMMITTED"
    PROVE  \E r \in Request : CommitExecute(r)
<1>1. StepGoal
    BY SafeInvNext
<1>2. CASE \E r \in Request : PrepareInsert(r)
  <2>1. PICK r \in Request : PrepareInsert(r)
      BY <1>2
  <2>2. p \in tx[r].lapsed => proposals'[p].status = "EXPIRED"
      BY <2>1, Inserted, ExpiredRow DEF SafeInv, TypeInv, TypeOK
  <2> QED BY <2>1, <2>2, Inserted
<1>3. CASE \A r \in Request : ~PrepareInsert(r)
  <2>1. Present(p)
      BY <1>3, AbsentStays
  <2>2. effects[p] # 1 /\ effects'[p] = 1
      BY <1>1, <2>1 DEF StepGoal, SafeInv, TableInv, Present
  <2> QED BY <2>2, OnlyExecutionsRun
<1> QED BY <1>2, <1>3

\* Rows that were there keep their content, whatever the step.
LEMMA RowKept ==
    ASSUME SafeInv, [Next]_vars, NEW p \in Proposal, p # nextProposal,
           proposals'[p].status # "ABSENT"
    PROVE  Present(p) /\ Business(proposals'[p]) = Business(proposals[p])
<1>1. CASE \E r \in Request : PrepareInsert(r)
  <2>1. PICK r \in Request : PrepareInsert(r)
      BY <1>1
  <2>2. CASE p \in tx[r].lapsed
    <3>1. /\ proposals[p].status = "PROPOSED" /\ proposals[p] \in Row
          /\ proposals'[p] = Expired(proposals[p])
        BY <2>1, <2>2, Inserted DEF SafeInv, TypeInv, TypeOK
    <3> QED BY <3>1, ExpiredRow DEF Present
  <2>3. CASE p \notin tx[r].lapsed
      BY <2>1, <2>3, Inserted DEF Present
  <2> QED BY <2>2, <2>3
<1>2. CASE \A r \in Request : ~PrepareInsert(r)
    BY <1>2, RowsOnlyGo DEF RowsGo
<1> QED BY <1>1, <1>2
-----------------------------------------------------------------------------
(* When offers are decided.                                                *)

\* A decision's offer was inserted before.
LEMMA DecidesOld ==
    ASSUME SafeInv, NEW r \in Request, tx[r].pc \in DecisionPC
    PROVE  tx[r].in.proposal \in Proposal /\ tx[r].in.proposal # nextProposal
BY DEF SafeInv, TypeInv, TypeOK, DecisionsNameRows, Proposal

\* A call that does not move stays in its session's past.
LEMMA OthersKeepDecision ==
    ASSUME TimeInv, [Next]_vars, NEW q \in Request, tx'[q] = tx[q]
    PROVE  DecisionInv(q)'
<1> DEFINE t == tx[q]
           p == t.in.proposal
<1>1. SafeInv /\ TypeOK /\ DecisionInv(q) /\ t.in \in Input
    BY DEF TimeInv, OfferInv, SafeInv, TypeInv, TypeOK
<1>2. /\ t.in.session \in Session /\ t.in.turn \in Nat
      /\ turn[t.in.session] \in Nat /\ turn'[t.in.session] \in Nat
      /\ turn[t.in.session] <= turn'[t.in.session]
    BY <1>1, TurnsGoOn DEF Input
<1>3. t.pc # "idle" => t.in.turn <= turn'[t.in.session]
    BY <1>1, <1>2 DEF DecisionInv
<1>4. ASSUME t.pc \in DecisionPC, proposals'[p].status # "ABSENT",
             proposals'[p].session = t.in.session
      PROVE  proposals'[p].origin <= t.in.turn
  <2>1. Present(p) /\ Business(proposals'[p]) = Business(proposals[p])
      BY <1>1, <1>4, DecidesOld, RowKept
  <2> QED BY <1>1, <1>4, <2>1 DEF DecisionInv, Business
<1> QED BY <1>1, <1>3, <1>4 DEF DecisionInv, GoodCopy, Carries, Present

\* A call that begins is in its session's present.
LEMMA BegunDecision ==
    ASSUME TimeInv, [Next]_vars, NEW r \in Request, Begin(r)
    PROVE  DecisionInv(r)'
<1>1. TypeOK /\ turn \in [Session -> Nat] /\ OffersArePast
    BY DEF TimeInv, OfferInv, SafeInv, TypeInv, TypeOK
<1>2. UNCHANGED <<proposals, turn>>
    BY <1>1, Begun DEF tables, world
<1>3. /\ tx'[r].in.session \in Session /\ tx'[r].in.turn = turn[tx'[r].in.session]
      /\ tx'[r].pc = "lookup" \/ (tx'[r].pc \in {"attest", "decide"}
            /\ tx'[r].in.shown <= tx'[r].in.turn /\ tx'[r].in.proposal \in Proposal)
    BY <1>1, Begun
<1>4. tx'[r].in.turn <= turn'[tx'[r].in.session]
    BY <1>1, <1>2, <1>3
<1>5. tx'[r].pc \notin HoldingPC /\ ("lookup" \notin DecisionPC)
    BY <1>3 DEF HoldingPC, DecisionPC
<1>6. tx'[r].pc \in DecisionPC /\ Present(tx'[r].in.proposal)
        /\ proposals[tx'[r].in.proposal].session = tx'[r].in.session
        => proposals[tx'[r].in.proposal].origin <= tx'[r].in.turn
    BY <1>1, <1>3, <1>5 DEF OffersArePast
<1> QED BY <1>2, <1>3, <1>4, <1>5, <1>6 DEF DecisionInv, GoodCopy, Carries, Present, HoldingPC

\* What an admitted decision writes into its copy of the offer.
LEMMA Decided ==
    ASSUME TimeInv, NEW r \in Request, tx[r].pc \in DecisionPC, NEW x,
           Admitted(proposals[tx[r].in.proposal], tx[r].in),
           LaterTurn(proposals[tx[r].in.proposal], tx[r].in)
    PROVE  LET row == [proposals[tx[r].in.proposal] EXCEPT !.status = x,
                          !.presented = tx[r].in.shown, !.decided = tx[r].in.turn]
           IN  row.status = x /\ OnTime(row)
<1> DEFINE in == tx[r].in
           p == in.proposal
           row == [proposals[p] EXCEPT !.status = x, !.presented = in.shown, !.decided = in.turn]
<1>1. SafeInv /\ TypeOK /\ DecisionInv(r) /\ in \in Input
    BY DEF TimeInv, OfferInv, SafeInv, TypeInv, TypeOK
<1>2. p \in Proposal /\ proposals[p] \in Row
    BY <1>1, DecidesOld DEF TypeOK
<1>3. /\ row.status = x /\ row.decided = in.turn /\ row.presented = in.shown
      /\ row.origin = proposals[p].origin
    BY <1>2 DEF Row
<1>4. in.turn \in Nat /\ in.shown \in Nat /\ proposals[p].origin \in Nat
    BY <1>1, <1>2 DEF Input, Row
<1>5. Present(p) /\ proposals[p].session = in.session /\ in.shown # 0 /\ in.shown # in.turn
    BY DEF Admitted, InScope, EvidenceHolds, Present
<1>6. proposals[p].origin <= in.turn /\ in.shown <= in.turn /\ in.turn # proposals[p].origin
    BY <1>1, <1>5 DEF DecisionInv, LaterTurn
<1> QED BY <1>3, <1>4, <1>5, <1>6 DEF OnTime

\* The decision that takes the step.
LEMMA OwnDecision ==
    ASSUME TimeInv, [Next]_vars, NEW r \in Request, Step(r) \/ Abort(r)
    PROVE  DecisionInv(r)'
<1> DEFINE t == tx[r]
           p == t.in.proposal
<1>1. /\ SafeInv /\ TypeOK /\ DecisionInv(r) /\ t.in \in Input /\ t.row \in Row /\ now \in Nat
      /\ t.stages \in SUBSET Stage
    BY DEF TimeInv, OfferInv, SafeInv, TypeInv, TypeOK
<1>2. tx'[r].pc # "idle" => tx'[r].in.turn <= turn'[tx'[r].in.session]
  <2>1. /\ t.in.session \in Session /\ t.in.turn \in Nat
        /\ turn[t.in.session] \in Nat /\ turn'[t.in.session] \in Nat
        /\ turn[t.in.session] <= turn'[t.in.session]
      BY <1>1, TurnsGoOn DEF Input
  <2> QED BY <1>1, <2>1, InputKept DEF DecisionInv
<1>3. ASSUME tx'[r].pc \in DecisionPC
      PROVE  /\ tx'[r].in.shown <= tx'[r].in.turn
             /\ proposals'[tx'[r].in.proposal].status # "ABSENT"
                  /\ proposals'[tx'[r].in.proposal].session = tx'[r].in.session
                => proposals'[tx'[r].in.proposal].origin <= tx'[r].in.turn
  <2>1. t.pc \in DecisionPC /\ tx'[r].in = t.in
      BY <1>1, <1>3, StepKeepsInput
  <2>2. ASSUME proposals'[p].status # "ABSENT"
        PROVE  Present(p) /\ Business(proposals'[p]) = Business(proposals[p])
      BY <1>1, <2>1, <2>2, DecidesOld, RowKept
  <2> QED BY <1>1, <2>1, <2>2 DEF DecisionInv, Business
<1>4. ASSUME tx'[r].pc \notin HoldingPC PROVE GoodCopy(r)'
    BY <1>4 DEF GoodCopy, Carries, HoldingPC
<1>12. ASSUME tx'[r].pc = "claim", tx'[r].row.status \in TERMINAL_STATUSES PROVE GoodCopy(r)'
    BY <1>12 DEF GoodCopy, Carries, TERMINAL_STATUSES
<1>13. ASSUME OnTime(tx'[r].row),
              tx'[r].pc \in {"signals", "lock", "execute"} =>
                  tx'[r].row.claimed < tx'[r].row.expires
       PROVE  GoodCopy(r)'
    BY <1>13 DEF GoodCopy
<1>5. ASSUME Finish(r) \/ RollbackExpired(r)
      PROVE  GoodCopy(r)'
  <2>1. tx'[r].pc \notin HoldingPC
      BY <1>1, <1>5, TxAfter DEF Idle, HoldingPC
  <2> QED BY <1>4, <2>1
<1>6. ASSUME PrepareStep(r) \/ RejectExpired(r)
      PROVE  GoodCopy(r)'
  <2>1. tx'[r].pc \in HoldingPC => t.pc \in DecisionPC
      BY <1>1, StepKeepsInput DEF DecisionPC
  <2>2. PrepareStep(r) => t.pc \notin DecisionPC
      BY DEF PrepareStep, PrepareReplay, PrepareLookup, PrepareFacts, PrepareCustomer,
             PrepareScan, PrepareInsert, DecisionPC, HoldingPC
  <2>3. RejectExpired(r) => Finish(r)
      BY DEF RejectExpired, Rollback, Dispose
  <2> QED BY <1>4, <1>5, <1>6, <2>1, <2>2, <2>3
<1>7. ASSUME (CommitAttest(r) \/ DecidePresent(r)) /\ ~Finish(r) /\ ~RollbackExpired(r)
      PROVE  GoodCopy(r)'
  <2>1. t.pc \in DecisionPC
      BY <1>7 DEF CommitAttest, DecidePresent, DecisionPC
  <2>2. ASSUME NEW pc \in {"claim", "apply"}, NEW x, NEW stages,
               Goto(r, pc, [proposals[p] EXCEPT !.status = x, !.presented = t.in.shown,
                                               !.decided = t.in.turn], stages),
               Admitted(proposals[p], t.in), LaterTurn(proposals[p], t.in)
        PROVE  GoodCopy(r)'
    <3> DEFINE row == [proposals[p] EXCEPT !.status = x, !.presented = t.in.shown,
                                           !.decided = t.in.turn]
    <3>1. OnTime(row)
        BY <2>1, <2>2, Decided
    <3>2. tx'[r].pc = pc /\ tx'[r].row = row
        BY <1>1, <2>2, TxAfter
    <3> QED BY <1>13, <3>1, <3>2
  <2>3. ASSUME Goto(r, "claim", proposals[p], {}), proposals[p].status \in TERMINAL_STATUSES
        PROVE  GoodCopy(r)'
      BY <1>1, <1>12, <2>3, TxAfter
  <2> QED BY <1>7, <2>2, <2>3 DEF CommitAttest, DecidePresent, Rollback, Dispose
<1>8. ASSUME CommitClaim(r) /\ ~Finish(r)
      PROVE  GoodCopy(r)'
  <2> DEFINE row == [t.row EXCEPT !.status = "COMMITTING", !.claimed = now]
  <2>1. /\ Goto(r, "signals", row, t.stages \cup {"COMMIT_STARTED"})
        /\ ~Lapsed(t.row, now) /\ t.pc = "claim" /\ t.row.status = "CONFIRMED"
      BY <1>8 DEF CommitClaim, Rollback, Dispose
  <2>2. /\ row.claimed = now /\ row.expires = t.row.expires /\ row.decided = t.row.decided
        /\ row.origin = t.row.origin /\ row.presented = t.row.presented
      BY <1>1 DEF Row
  <2>3. OnTime(t.row) /\ now < t.row.expires
      BY <1>1, <2>1 DEF DecisionInv, GoodCopy, Carries, HoldingPC, Lapsed, Row
  <2>4. tx'[r].pc = "signals" /\ tx'[r].row = row
      BY <1>1, <2>1, TxAfter
  <2> HIDE DEF row
  <2> QED BY <1>13, <2>2, <2>3, <2>4 DEF OnTime
<1>9. ASSUME (CommitSignals(r) \/ CommitLock(r)) /\ ~Finish(r)
      PROVE  GoodCopy(r)'
  <2>1. t.pc \in {"signals", "lock"} /\ tx'[r].pc \in {"lock", "execute"} /\ tx'[r].row = t.row
      BY <1>1, <1>9, TxAfter DEF CommitSignals, CommitLock, Dispose
  <2>2. Carries(r)
      BY <2>1 DEF Carries, HoldingPC
  <2>3. OnTime(t.row) /\ t.row.claimed < t.row.expires
      BY <1>1, <2>1, <2>2 DEF DecisionInv, GoodCopy
  <2> QED BY <1>13, <2>1, <2>3
<1>10. CommitExecute(r) \/ DecideApply(r) \/ Abort(r) => Finish(r) \/ RollbackExpired(r)
    BY DEF CommitExecute, DecideApply, Abort, Rollback, Dispose
<1>11. GoodCopy(r)'
    BY <1>5, <1>6, <1>7, <1>8, <1>9, <1>10 DEF Step, DecisionStep
<1> QED BY <1>2, <1>3, <1>11 DEF DecisionInv, Present

\* An offer is inserted on the turn its preparation was called on, which has begun.
LEMMA InsertsArePast ==
    ASSUME TimeInv, [Next]_vars
    PROVE  OffersArePast'
<1> SUFFICES ASSUME NEW p \in Proposal, proposals'[p].status # "ABSENT"
             PROVE  proposals'[p].origin <= turn'[proposals'[p].session]
    BY DEF OffersArePast, Present
<1>1. SafeInv /\ TypeOK
    BY DEF TimeInv, OfferInv, SafeInv, TypeInv
<1>2. CASE \E r \in Request : PrepareInsert(r) /\ p = nextProposal
  <2>1. PICK r \in Request : PrepareInsert(r) /\ p = nextProposal
      BY <1>2
  <2>2. tx[r].in \in Input /\ PrepInv(r) /\ DecisionInv(r)
      BY <1>1 DEF TimeInv, OfferInv, TypeOK
  <2>3. tx[r].pc = "insert" /\ proposals'[p] = tx[r].row
      BY <1>1, <2>1, Inserted
  <2>4. tx[r].row.session = tx[r].in.session /\ tx[r].row.origin = tx[r].in.turn
      BY <2>2, <2>3 DEF PrepInv, OfferPC, KeyOf, KeyIn
  <2>5. tx[r].in.turn \in Nat /\ tx[r].in.turn <= turn[tx[r].in.session]
      BY <2>2, <2>3 DEF DecisionInv, Input
  <2> QED BY <1>1, <2>2, <2>3, <2>4, <2>5, TurnsGoOn DEF Input
<1>3. CASE ~(\E r \in Request : PrepareInsert(r) /\ p = nextProposal)
  <2>1. Present(p) /\ Business(proposals'[p]) = Business(proposals[p])
    <3>1. CASE p # nextProposal
        BY <1>1, <3>1, RowKept
    <3>2. CASE p = nextProposal
        BY <1>1, <1>3, <3>2, RowsOnlyGo DEF RowsGo
    <3> QED BY <3>1, <3>2
  <2>2. proposals[p] \in Row /\ proposals[p].origin <= turn[proposals[p].session]
      BY <1>1, <2>1 DEF TimeInv, OffersArePast, TypeOK
  <2>3. /\ proposals'[p].origin = proposals[p].origin
        /\ proposals'[p].session = proposals[p].session
      BY <2>1 DEF Business
  <2> QED BY <1>1, <2>2, <2>3, TurnsGoOn DEF Row
<1> QED BY <1>2, <1>3

\* What an execution commits is the copy its decision carried.
LEMMA CommitsOnTime ==
    ASSUME TimeInv, [Next]_vars
    PROVE  CommittedOnLaterTurnInTime'
<1> SUFFICES ASSUME NEW p \in Proposal, proposals'[p].status = "COMMITTED"
             PROVE  OnTime(proposals'[p]) /\ proposals'[p].claimed < proposals'[p].expires
    BY DEF CommittedOnLaterTurnInTime, OnTime
<1>1. SafeInv /\ TypeOK /\ CommittedOnLaterTurnInTime
    BY DEF TimeInv, OfferInv, SafeInv, TypeInv
<1>2. CASE proposals[p].status = "COMMITTED"
  <2>1. proposals'[p] = proposals[p]
      BY <1>1, <1>2, SafeInvNext DEF StepGoal, Immutable, TERMINAL_STATUSES
  <2> QED BY <1>1, <1>2, <2>1 DEF CommittedOnLaterTurnInTime, OnTime
<1>3. CASE proposals[p].status # "COMMITTED"
  <2>1. PICK r \in Request : CommitExecute(r)
      BY <1>1, <1>3, OnlyExecutionCommits
  <2>2. /\ tx[r].pc = "execute" /\ p = tx[r].in.proposal
        /\ proposals'[p] = [tx[r].row EXCEPT !.status = "COMMITTED"]
      BY <1>1, <1>3, <2>1 DEF CommitExecute, Save, TypeOK
  <2>3. OnTime(tx[r].row) /\ tx[r].row.claimed < tx[r].row.expires /\ tx[r].row \in Row
      BY <1>1, <2>2 DEF TimeInv, DecisionInv, GoodCopy, Carries, HoldingPC, TypeOK
  <2> QED BY <2>2, <2>3 DEF OnTime, Row
<1> QED BY <1>2, <1>3

\* Every step keeps the invariant.
LEMMA TimeInvNext == TimeInv /\ [Next]_vars => TimeInv'
<1> SUFFICES ASSUME TimeInv, [Next]_vars PROVE TimeInv'
    OBVIOUS
<1>1. OfferInv' /\ OffersArePast' /\ CommittedOnLaterTurnInTime'
    BY OfferInvNext, InsertsArePast, CommitsOnTime DEF TimeInv
<1>2. ASSUME NEW q \in Request PROVE DecisionInv(q)'
  <2>0. TypeOK
      BY DEF TimeInv, OfferInv, SafeInv, TypeInv
  <2>1. CASE Environment \/ UNCHANGED vars
    <3>1. tx' = tx
        BY <2>1
        DEF Environment, Tick, Settle, ResetData, BumpGeneration, NextTurn, Resume, Publish, vars
    <3> QED BY <3>1, OthersKeepDecision
  <2>2. ASSUME NEW r \in Request, Begin(r) \/ Step(r) \/ Abort(r), r # q PROVE DecisionInv(q)'
      BY <2>0, <2>2, OthersKept, OthersKeepDecision DEF Keeps
  <2>3. ASSUME Begin(q) \/ Step(q) \/ Abort(q) PROVE DecisionInv(q)'
      BY <2>3, BegunDecision, OwnDecision
  <2> QED BY <2>1, <2>2, <2>3 DEF Next
<1> QED BY <1>1, <1>2 DEF TimeInv

\* Nothing is under way at first.
LEMMA TimeInvInit == Init => TimeInv
<1> SUFFICES ASSUME Init PROVE TimeInv
    OBVIOUS
<1>1. OfferInv
    BY OfferInvInit
<1>2. OffersArePast /\ CommittedOnLaterTurnInTime
    BY DEF Init, OffersArePast, CommittedOnLaterTurnInTime, Present, NoRow
<1>3. \A r \in Request : DecisionInv(r)
    BY DEF Init, DecisionInv, GoodCopy, Carries, HoldingPC, DecisionPC, Idle
<1> QED BY <1>1, <1>2, <1>3 DEF TimeInv

\* execute_registered_commit: an executed offer was decided on a later customer turn than
\* it was prepared on, presented on an earlier turn than the decision, and claimed before
\* it expired, however the clock, the turns and the other calls moved meanwhile.
THEOREM ExecutedOnLaterTurnInTime == Spec => []CommittedOnLaterTurnInTime
<1>1. TimeInv => CommittedOnLaterTurnInTime
    BY DEF TimeInv
<1> QED BY <1>1, TimeInvInit, TimeInvNext, PTL DEF Spec
-----------------------------------------------------------------------------
(* Who decides, and what an execution finds.                               *)

CommitPC == {"attest", "claim", "signals", "lock", "execute"}

\* A decision works on an offer of its own session; past the claim, of its own reset
\* generation; and at its execution the account is locked and as the offer saw it.
ScopeInv(r) ==
    LET t == tx[r] IN
    /\ t.pc \in CommitPC => t.in.op = "COMMIT"
    /\ t.pc \in HoldingPC => t.row.session = t.in.session
    /\ t.pc \in {"signals", "lock", "execute"} => t.row.gen = t.in.gen
    /\ t.pc = "execute" => accountLock[t.row.account] = r /\ FactsHold(t.row)

\* Accounts are opened in order.
FutureAccounts == \A a \in Account : a > openAccount => accounts[a].status = "NONE"

ExecInv == SafeInv /\ FutureAccounts /\ \A r \in Request : ScopeInv(r)

\* A call begins as what it is.
LEMMA BegunScope ==
    ASSUME TypeOK, NEW r \in Request, Begin(r)
    PROVE  ScopeInv(r)'
<1>0. tx \in [Request -> Tx]
    BY DEF TypeOK, Tx
<1>1. ASSUME NEW in, NEW pc, pc \in {"lookup", "decide"} \/ (pc = "attest" /\ in.op = "COMMIT"),
             tx' = [tx EXCEPT ![r] = [Idle EXCEPT !.pc = pc, !.in = in]]
      PROVE  ScopeInv(r)'
  <2>1. tx'[r].pc = pc /\ tx'[r].in = in
      BY <1>0, <1>1 DEF Idle
  <2> QED BY <1>1, <2>1 DEF ScopeInv, CommitPC, HoldingPC
<1>2. ASSUME NEW s \in Session, NEW d \in Playbook, NEW rev \in 1..MaxRevision, NEW k \in Target,
             BeginPrepare(r, s, d, rev, k)
      PROVE  ScopeInv(r)'
    BY <1>1, <1>2 DEF BeginPrepare
<1>3. ASSUME NEW op \in Operation \ {"PREPARE"}, NEW s \in Session, NEW p \in Proposal,
             NEW shown \in 0..MaxTurn, BeginDecision(r, op, s, p, shown)
      PROVE  ScopeInv(r)'
  <2> DEFINE in == [NoInput EXCEPT !.op = op, !.session = s, !.turn = turn[s],
                      !.gen = token[s], !.shown = shown, !.proposal = p]
             pc == IF op = "COMMIT" THEN "attest" ELSE "decide"
  <2>1. tx' = [tx EXCEPT ![r] = [Idle EXCEPT !.pc = pc, !.in = in]]
      BY <1>3 DEF BeginDecision
  <2>2. in.op = op
      BY DEF NoInput
  <2>3. pc \in {"lookup", "decide"} \/ (pc = "attest" /\ in.op = "COMMIT")
      BY <2>2
  <2> HIDE DEF in, pc
  <2> QED BY <1>1, <2>1, <2>3
<1> QED BY <1>2, <1>3 DEF Begin

\* The decision that takes the step compares session, generation and facts.
LEMMA OwnScope ==
    ASSUME ExecInv, NEW r \in Request, Step(r) \/ Abort(r)
    PROVE  ScopeInv(r)'
<1> DEFINE t == tx[r]
           p == t.in.proposal
<1>1. /\ SafeInv /\ TypeOK /\ ScopeInv(r) /\ t.in \in Input /\ t.row \in Row
      /\ t.pc \in DecisionPC => p \in Proposal /\ proposals[p] \in Row
    BY DEF ExecInv, SafeInv, TypeInv, TypeOK, DecisionsNameRows
<1>2. ASSUME tx'[r].pc \notin CommitPC \cup HoldingPC PROVE ScopeInv(r)'
    BY <1>2 DEF ScopeInv, CommitPC, HoldingPC
<1>3. Finish(r) \/ RollbackExpired(r) => ScopeInv(r)'
    BY <1>1, <1>2, TxAfter DEF Idle, CommitPC, HoldingPC
<1>4. ASSUME NEW pc, NEW row, NEW stages, Goto(r, pc, row, stages)
      PROVE  tx'[r].pc = pc /\ tx'[r].row = row /\ tx'[r].in = t.in
    BY <1>1, <1>4, TxAfter
<1>5. PrepareStep(r) \/ Abort(r) => ScopeInv(r)'
  <2>1. PrepareStep(r) => tx'[r].pc \notin DecisionPC
    <3>1. PrepareStep(r) => t.pc \notin DecisionPC
        BY DEF PrepareStep, PrepareReplay, PrepareLookup, PrepareFacts, PrepareCustomer,
               PrepareScan, PrepareInsert, DecisionPC, HoldingPC
    <3> QED BY <1>1, <3>1, StepKeepsInput
  <2>2. CommitPC \cup HoldingPC \subseteq DecisionPC
      BY DEF CommitPC, HoldingPC, DecisionPC
  <2> QED BY <1>2, <1>3, <2>1, <2>2 DEF Abort, Rollback
<1>6. CommitAttest(r) => ScopeInv(r)'
  <2>1. ASSUME NEW row, NEW stages, Goto(r, "claim", row, stages), t.pc = "attest",
               row.session = t.in.session
        PROVE  ScopeInv(r)'
      BY <1>1, <1>4, <2>1 DEF ScopeInv, CommitPC
  <2>2. Admitted(proposals[p], t.in) => proposals[p].session = t.in.session
      BY DEF Admitted, InScope
  <2>3. t.pc = "attest" => [proposals[p] EXCEPT !.status = "CONFIRMED",
                !.presented = t.in.shown, !.decided = t.in.turn].session = proposals[p].session
      BY <1>1 DEF Row, DecisionPC
  <2> QED BY <1>3, <2>1, <2>2, <2>3 DEF CommitAttest, Rollback
<1>7. CommitClaim(r) => ScopeInv(r)'
  <2> DEFINE row == [t.row EXCEPT !.status = "COMMITTING", !.claimed = now]
  <2>1. ASSUME Goto(r, "signals", row, t.stages \cup {"COMMIT_STARTED"}), t.pc = "claim",
               t.row.gen = t.in.gen
        PROVE  ScopeInv(r)'
    <3>1. row.session = t.row.session /\ row.gen = t.row.gen
        BY <1>1 DEF Row
    <3>2. t.in.op = "COMMIT" /\ t.row.session = t.in.session
        BY <1>1, <2>1 DEF ScopeInv, CommitPC, HoldingPC
    <3>3. tx'[r].pc = "signals" /\ tx'[r].row = row /\ tx'[r].in = t.in
        BY <1>4, <2>1
    <3> HIDE DEF row
    <3> QED BY <2>1, <3>1, <3>2, <3>3 DEF ScopeInv
  <2> QED BY <1>3, <2>1 DEF CommitClaim, SameGeneration, Rollback, Dispose
<1>8. CommitSignals(r) => ScopeInv(r)'
  <2>1. ASSUME Goto(r, "lock", t.row, t.stages), t.pc = "signals" PROVE ScopeInv(r)'
      BY <1>1, <1>4, <2>1 DEF ScopeInv, CommitPC, HoldingPC
  <2> QED BY <1>3, <2>1 DEF CommitSignals, Dispose
<1>9. CommitLock(r) => ScopeInv(r)'
  <2>1. ASSUME Goto(r, "execute", t.row, t.stages), t.pc = "lock", FactsHold(t.row),
               accountLock' = [accountLock EXCEPT ![t.row.account] = r], UNCHANGED tables
        PROVE  ScopeInv(r)'
    <3>1. accountLock'[t.row.account] = r
        BY <1>1, <2>1 DEF TypeOK, Row
    <3>2. tx'[r].pc = "execute" /\ tx'[r].row = t.row /\ tx'[r].in = t.in
        BY <1>4, <2>1
    <3>3. t.in.op = "COMMIT" /\ t.row.session = t.in.session /\ t.row.gen = t.in.gen
        BY <1>1, <2>1 DEF ScopeInv, CommitPC, HoldingPC
    <3> QED BY <2>1, <3>1, <3>2, <3>3 DEF ScopeInv, FactsHold, tables
  <2> QED BY <1>3, <2>1 DEF CommitLock, Dispose
<1>10. DecidePresent(r) => ScopeInv(r)'
  <2>1. ASSUME NEW row, NEW stages, Goto(r, "apply", row, stages),
               row.session = t.in.session
        PROVE  ScopeInv(r)'
      BY <1>1, <1>4, <2>1 DEF ScopeInv, CommitPC
  <2>2. Admitted(proposals[p], t.in) => proposals[p].session = t.in.session
      BY DEF Admitted, InScope
  <2>3. t.pc = "decide" => [proposals[p] EXCEPT !.status = "PRESENTED",
                !.presented = t.in.shown, !.decided = t.in.turn].session = proposals[p].session
      BY <1>1 DEF Row, DecisionPC
  <2> QED BY <1>3, <2>1, <2>2, <2>3 DEF DecidePresent, Rollback, Dispose
<1>11. CommitExecute(r) \/ DecideApply(r) \/ RejectExpired(r) => ScopeInv(r)'
    BY <1>3 DEF CommitExecute, DecideApply, RejectExpired, Rollback, Dispose
<1> QED BY <1>5, <1>6, <1>7, <1>8, <1>9, <1>10, <1>11 DEF Step, DecisionStep

\* Nobody else touches the account that an execution has locked.
LEMMA OthersKeepScope ==
    ASSUME ExecInv, [Next]_vars, NEW q \in Request, tx'[q] = tx[q],
           \A r \in Request : r = q => ~(Begin(r) \/ Step(r) \/ Abort(r))
    PROVE  ScopeInv(q)'
<1> DEFINE a == tx[q].row.account
<1>1. /\ TypeOK /\ ScopeInv(q) /\ FutureAccounts /\ a \in Account
    BY DEF ExecInv, SafeInv, TypeInv, TypeOK, Row
<1>2. ASSUME tx[q].pc = "execute"
      PROVE  /\ accountLock'[a] = q
             /\ accounts[a].status = "ACTIVE" =>
                    accounts'[a].limit = accounts[a].limit /\ accounts'[a].status = "ACTIVE"
  <2>1. accountLock[a] = q /\ q # Nobody
      BY <1>1, <1>2, NobodyIsNoRequest DEF ScopeInv
  <2>2. CASE UNCHANGED <<accounts, accountLock>>
      BY <2>1, <2>2
  <2>3. CASE ResetData
    <3>1. accountLock[openAccount] = Nobody /\ UNCHANGED accountLock
          /\ accounts' = [accounts EXCEPT ![openAccount].status = "CLOSED",
                                          ![openAccount + 1] = FreshAccount]
        BY <2>3 DEF ResetData, locks
    <3>2. a # openAccount
        BY <2>1, <3>1
    <3>3. a = openAccount + 1 => accounts[a].status = "NONE"
        BY <1>1 DEF FutureAccounts, TypeOK, Account
    <3> QED BY <1>1, <2>1, <3>1, <3>2, <3>3 DEF TypeOK
  <2>4. CASE Settle
    <3>1. accountLock[openAccount] = Nobody /\ UNCHANGED accountLock
          /\ accounts' = [accounts EXCEPT ![openAccount].balance = @ + 1]
        BY <2>4 DEF Settle, locks
    <3> QED BY <1>1, <2>1, <3>1 DEF TypeOK
  <2>5. ASSUME NEW r \in Request, Begin(r) \/ Step(r) \/ Abort(r)
        PROVE  accountLock'[a] = q /\ accounts'[a] = accounts[a]
    <3>0. r # q
        BY <2>5
    <3>1. accountLock'[a] = q
      <4>1. Unlock(r) => accountLock'[a] = q
          BY <1>1, <2>1, <3>0 DEF Unlock, Free, TypeOK
      <4>2. CommitLock(r) /\ ~Unlock(r) => accountLock'[a] = q
          BY <1>1, <2>1 DEF CommitLock, Dispose, Finish, TypeOK
      <4>3. Begin(r) \/ Abort(r) \/ PrepareStep(r) => Unlock(r) \/ UNCHANGED accountLock
          BY DEF Begin, BeginPrepare, BeginDecision, Abort, PrepareStep, PrepareReplay,
                 PrepareLookup, PrepareFacts, PrepareCustomer, PrepareScan, PrepareInsert,
                 Rollback, Finish, locks
      <4>4. DecisionStep(r) /\ ~CommitLock(r) => Unlock(r) \/ UNCHANGED accountLock
          BY DEF DecisionStep, CommitAttest, CommitClaim, CommitSignals, CommitExecute,
                 DecidePresent, DecideApply, RejectExpired, Dispose, Rollback, RollbackExpired,
                 Finish, locks
      <4> QED BY <2>1, <2>5, <4>1, <4>2, <4>3, <4>4 DEF Step
    <3>2. accounts'[a] = accounts[a]
      <4>1. CASE CommitExecute(r)
        <5>1. accountLock[tx[r].row.account] = r
              /\ accounts' = [accounts EXCEPT ![tx[r].row.account] = Apply(tx[r].row, @)]
            BY <4>1 DEF CommitExecute, ExecInv, ScopeInv
        <5> QED BY <1>1, <2>1, <3>0, <5>1 DEF TypeOK
      <4>2. CASE ~CommitExecute(r)
        <5>1. Begin(r) \/ Abort(r) \/ PrepareStep(r) => UNCHANGED accounts
            BY DEF Begin, BeginPrepare, BeginDecision, Abort, PrepareStep, PrepareReplay,
                   PrepareLookup, PrepareFacts, PrepareCustomer, PrepareScan, PrepareInsert,
                   Rollback, tables
        <5>2. DecisionStep(r) => UNCHANGED accounts
            BY <4>2
            DEF DecisionStep, CommitAttest, CommitClaim, CommitSignals, CommitLock,
                DecidePresent, DecideApply, RejectExpired, Dispose, Rollback, RollbackExpired,
                tables
        <5> QED BY <2>5, <5>1, <5>2 DEF Step
      <4> QED BY <4>1, <4>2
    <3> QED BY <3>1, <3>2
  <2>6. Environment \/ UNCHANGED vars =>
            ResetData \/ Settle \/ UNCHANGED <<accounts, accountLock>>
      BY DEF Environment, Tick, BumpGeneration, NextTurn, Resume, Publish, tables, locks, vars
  <2> QED BY <2>2, <2>3, <2>4, <2>5, <2>6 DEF Next
<1>3. tx[q].pc = "execute" => FactsHold(tx[q].row)'
    BY <1>1, <1>2 DEF ScopeInv, FactsHold
<1> QED BY <1>1, <1>2, <1>3 DEF ScopeInv, FactsHold

\* No account opens ahead of its reset.
LEMMA FutureAccountsStay ==
    ASSUME ExecInv, [Next]_vars
    PROVE  FutureAccounts'
<1>1. TypeOK /\ FutureAccounts /\ openAccount \in Account
    BY DEF ExecInv, SafeInv, TypeInv, TypeOK
<1>2. CASE ResetData
  <2> SUFFICES ASSUME NEW a \in Account, a > openAccount' PROVE accounts'[a].status = "NONE"
      BY DEF FutureAccounts
  <2>1. /\ openAccount' = openAccount + 1
        /\ accounts' = [accounts EXCEPT ![openAccount].status = "CLOSED",
                                        ![openAccount + 1] = FreshAccount]
      BY <1>2 DEF ResetData
  <2>2. openAccount \in Int /\ a \in Int
      BY <1>1 DEF Account
  <2>3. a > openAccount /\ a # openAccount /\ a # openAccount + 1
      BY <2>1, <2>2
  <2> QED BY <1>1, <2>1, <2>3 DEF FutureAccounts, TypeOK
<1>3. CASE ~ResetData
  <2>1. ASSUME UNCHANGED openAccount,
               \A a \in Account : accounts'[a].status = accounts[a].status
        PROVE  FutureAccounts'
      BY <1>1, <2>1 DEF FutureAccounts
  <2>2. CASE Settle
      BY <1>1, <2>1, <2>2 DEF Settle, TypeOK, CreditAccount
  <2>3. ASSUME NEW r \in Request, CommitExecute(r) PROVE FutureAccounts'
    <3>1. \A a \in Account : accounts[a] \in CreditAccount
        BY <1>1 DEF TypeOK
    <3>2. \A c \in CreditAccount : Apply(tx[r].row, c).status = c.status
        BY DEF Apply, CreditAccount
    <3>3. /\ UNCHANGED openAccount
          /\ accounts' = [accounts EXCEPT ![tx[r].row.account] = Apply(tx[r].row, @)]
        BY <2>3 DEF CommitExecute
    <3> QED BY <1>1, <2>1, <3>1, <3>2, <3>3 DEF TypeOK
  <2>4. ASSUME UNCHANGED <<accounts, openAccount>> PROVE FutureAccounts'
      BY <2>1, <2>4
  <2>5. CASE (Environment /\ ~Settle) \/ UNCHANGED vars \/ \E r \in Request : Begin(r) \/ Abort(r)
      BY <1>3, <2>4, <2>5
      DEF Environment, Tick, BumpGeneration, NextTurn, Resume, Publish, Begin, BeginPrepare,
          BeginDecision, Abort, Rollback, tables, vars
  <2>6. ASSUME NEW r \in Request, PrepareStep(r) PROVE FutureAccounts'
      BY <2>4, <2>6
      DEF PrepareStep, PrepareReplay, PrepareLookup, PrepareFacts, PrepareCustomer, PrepareScan,
          PrepareInsert, Rollback, tables
  <2>7. ASSUME NEW r \in Request, DecisionStep(r) PROVE FutureAccounts'
      BY <2>3, <2>4, <2>7
      DEF DecisionStep, CommitAttest, CommitClaim, CommitSignals, CommitLock, DecidePresent,
          DecideApply, RejectExpired, Dispose, Rollback, RollbackExpired, tables
  <2> QED BY <2>2, <2>5, <2>6, <2>7 DEF Next, Step
<1> QED BY <1>2, <1>3

\* Every step keeps the invariant.
LEMMA ExecInvNext == ExecInv /\ [Next]_vars => ExecInv'
<1> SUFFICES ASSUME ExecInv, [Next]_vars PROVE ExecInv'
    OBVIOUS
<1>1. TypeOK /\ SafeInv'
    BY SafeInvNext DEF StepGoal, ExecInv, SafeInv, TypeInv
<1>2. ASSUME NEW q \in Request PROVE ScopeInv(q)'
  <2>1. CASE Begin(q) \/ Step(q) \/ Abort(q)
      BY <1>1, <2>1, BegunScope, OwnScope
  <2>2. CASE ~(Begin(q) \/ Step(q) \/ Abort(q))
    <3>1. tx'[q] = tx[q]
      <4>1. CASE Environment \/ UNCHANGED vars
          BY <4>1
          DEF Environment, Tick, Settle, ResetData, BumpGeneration, NextTurn, Resume, Publish,
              vars
      <4>2. ASSUME NEW r \in Request, Begin(r) \/ Step(r) \/ Abort(r) PROVE tx'[q] = tx[q]
          BY <1>1, <2>2, <4>2, OthersKept DEF Keeps
      <4> QED BY <4>1, <4>2 DEF Next
    <3> QED BY <2>2, <3>1, OthersKeepScope
  <2> QED BY <2>1, <2>2
<1> QED BY <1>1, <1>2, FutureAccountsStay DEF ExecInv

\* At first nothing is under way and one account is open.
LEMMA ExecInvInit == Init => ExecInv
<1> SUFFICES ASSUME Init PROVE ExecInv
    OBVIOUS
<1>1. FutureAccounts
    BY DEF Init, FutureAccounts, NoAccount, Account
<1>2. \A r \in Request : ScopeInv(r)
    BY DEF Init, ScopeInv, Idle, CommitPC, HoldingPC
<1> QED BY <1>1, <1>2, SafeInvInit DEF ExecInv

\* An offer executes under the reset generation and the session it was made in
\* (_validate_scope at the attestation, reset_generation at the claim).
THEOREM ExecutesInScope == Spec => ExecutedInItsOwnScope
<1> DEFINE Scoped ==
        \A p \in Proposal : effects'[p] # effects[p] =>
            \E r \in Request :
                /\ tx[r].in.proposal = p /\ tx[r].in.op = "COMMIT"
                /\ tx[r].in.session = proposals[p].session
                /\ tx[r].in.gen = proposals[p].gen
<1>1. ASSUME ExecInv, [Next]_vars PROVE Scoped
  <2> SUFFICES ASSUME NEW p \in Proposal, effects'[p] # effects[p]
               PROVE  \E r \in Request :
                        /\ tx[r].in.proposal = p /\ tx[r].in.op = "COMMIT"
                        /\ tx[r].in.session = proposals[p].session
                        /\ tx[r].in.gen = proposals[p].gen
      OBVIOUS
  <2>1. PICK r \in Request : CommitExecute(r)
      BY <1>1, OnlyExecutionsRun
  <2>2. tx[r].pc = "execute" /\ p = tx[r].in.proposal
      BY <1>1, <2>1 DEF CommitExecute, ExecInv, SafeInv, TypeInv, TypeOK
  <2>3. ScopeInv(r) /\ Business(tx[r].row) = Business(proposals[p])
      BY <1>1, <2>2 DEF ExecInv, SafeInv, TxInv, HoldingPC
  <2> QED BY <2>2, <2>3 DEF ScopeInv, CommitPC, HoldingPC, Business
<1>2. ExecInv /\ [Next]_vars => [Scoped]_vars
    BY <1>1
<1> QED BY ExecInvInit, ExecInvNext, <1>2, PTL DEF Spec, ExecutedInItsOwnScope

\* A credit limit moves only by an offer made for that account and for the limit it still
\* has (validate_credit_limit under the account lock), for any number of accounts, racing
\* commits, charges and resets.
THEOREM LimitsMoveAsPinned == Spec => LimitMovesByPinnedOffer
<1> DEFINE Moved(a, p) ==
                /\ effects'[p] = effects[p] + 1
                /\ proposals[p].account = a /\ proposals[p].limit = accounts[a].limit
                /\ accounts'[a].limit = proposals[p].target
                /\ accounts[a].status = "ACTIVE"
           Pinned == \A a \in Account :
                accounts[a].status # "NONE" /\ accounts'[a].limit # accounts[a].limit =>
                    \E p \in Proposal : Moved(a, p)
<1>1. ASSUME ExecInv, [Next]_vars PROVE Pinned
  <2> SUFFICES ASSUME NEW a \in Account, accounts[a].status # "NONE",
                      accounts'[a].limit # accounts[a].limit
               PROVE  \E p \in Proposal : Moved(a, p)
      OBVIOUS
  <2>0. TypeOK /\ FutureAccounts /\ openAccount \in Account /\ accounts[a] \in CreditAccount
      BY <1>1 DEF ExecInv, SafeInv, TypeInv, TypeOK
  <2>1. ~Settle /\ ~ResetData
    <3>1. ~Settle
        BY <2>0 DEF Settle, TypeOK, CreditAccount
    <3>2. ASSUME ResetData PROVE FALSE
      <4>1. accounts' = [accounts EXCEPT ![openAccount].status = "CLOSED",
                                         ![openAccount + 1] = FreshAccount]
          BY <3>2 DEF ResetData
      <4>2. a # openAccount + 1
          BY <2>0 DEF FutureAccounts, Account
      <4> QED BY <2>0, <4>1, <4>2 DEF TypeOK, CreditAccount
    <3> QED BY <3>1, <3>2
  <2>2. PICK r \in Request : CommitExecute(r)
    <3>1. ~(Environment \/ UNCHANGED vars)
        BY <2>1 DEF Environment, Tick, BumpGeneration, NextTurn, Resume, Publish, tables, vars
    <3>2. ASSUME NEW r \in Request PROVE ~(Begin(r) \/ Abort(r) \/ PrepareStep(r))
        BY DEF Begin, BeginPrepare, BeginDecision, Abort, PrepareStep, PrepareReplay,
               PrepareLookup, PrepareFacts, PrepareCustomer, PrepareScan, PrepareInsert,
               Rollback, tables
    <3>3. ASSUME NEW r \in Request, DecisionStep(r) PROVE CommitExecute(r)
        BY <3>3
        DEF DecisionStep, CommitAttest, CommitClaim, CommitSignals, CommitLock, DecidePresent,
            DecideApply, RejectExpired, Dispose, Rollback, RollbackExpired, tables
    <3> QED BY <1>1, <3>1, <3>2, <3>3 DEF Next, Step
  <2> DEFINE row == tx[r].row
             p == tx[r].in.proposal
  <2>3. /\ tx[r].pc = "execute"
        /\ accounts' = [accounts EXCEPT ![row.account] = Apply(row, @)]
        /\ effects' = [effects EXCEPT ![p] = @ + 1]
      BY <2>2 DEF CommitExecute
  <2>4. /\ ScopeInv(r) /\ Business(row) = Business(proposals[p]) /\ p \in Proposal
        /\ row \in Row
      BY <1>1, <2>3 DEF ExecInv, SafeInv, TypeInv, TypeOK, TxInv, DecisionsNameRows,
                        HoldingPC, DecisionPC
  <2>5. a = row.account /\ accounts'[a] = Apply(row, accounts[a])
      BY <2>0, <2>3 DEF TypeOK
  <2>6. row.playbook \in Revalidated /\ accounts'[a].limit = row.target
      BY <2>0, <2>5 DEF Apply, CreditAccount
  <2>7. accounts[a].limit = row.limit /\ accounts[a].status = "ACTIVE"
      BY <2>3, <2>4, <2>5, <2>6 DEF ScopeInv, FactsHold
  <2>8. effects'[p] = effects[p] + 1
      BY <2>0, <2>3, <2>4 DEF TypeOK
  <2> QED BY <2>4, <2>5, <2>6, <2>7, <2>8 DEF Business
<1>2. ExecInv /\ [Next]_vars => [Pinned]_vars
    BY <1>1
<1> QED BY ExecInvInit, ExecInvNext, <1>2, PTL DEF Spec, LimitMovesByPinnedOffer
=============================================================================
