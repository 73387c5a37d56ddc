--------------------------- MODULE ContractProofs ---------------------------
(***************************************************************************)
(* Proofs about what the action-proposal protocol shows outside: the audit *)
(* trail of an offer, and the contract of ProposalContract.                *)
(***************************************************************************)
EXTENDS OfferProofs

\* The trail e tells what became of an offer of the given status.
Tells(e, status) ==
    /\ \A x, y \in e \cap TERMINAL_STATUSES : x = y
    /\ e # {} => "PROPOSED" \in e
    /\ "CONFIRMED" \in e => "PRESENTED" \in e
    /\ "COMMIT_STARTED" \in e => "CONFIRMED" \in e
    /\ "COMMITTED" \in e => "COMMIT_STARTED" \in e
    /\ "DECLINED" \in e => "PRESENTED" \in e
    /\ status \in TERMINAL_STATUSES => status \in e
    /\ status = "PROPOSED" => e = {"PROPOSED"}

\* A decision under way has recorded just the stages of the steps it took.
StageInv(r) ==
    LET t == tx[r] IN
    /\ t.pc = "claim" /\ t.row.status = "CONFIRMED" => t.stages = {"PRESENTED", "CONFIRMED"}
    /\ t.pc \in {"signals", "lock", "execute"} =>
            t.stages = {"PRESENTED", "CONFIRMED", "COMMIT_STARTED"}
    /\ t.pc = "apply" => t.stages = {"PRESENTED"}

Told(p) ==
    /\ Tells(Stages(p), proposals[p].status)
    /\ p >= nextProposal => Stages(p) = {}

TrailInv == SafeInv /\ (\A p \in Proposal : Told(p)) /\ \A r \in Request : StageInv(r)
-----------------------------------------------------------------------------
(* What a COMMIT adds to the trails.                                       *)

\* One transition of one open offer, with the stages it went through.
LEMMA SaveTells ==
    ASSUME TrailInv, NEW r \in Request, tx[r].in.proposal \in Proposal,
           proposals[tx[r].in.proposal].status = "PROPOSED",
           NEW row, NEW stages \in SUBSET Stage, Save(r, row, stages), UNCHANGED nextProposal,
           Tells({"PROPOSED"} \cup stages, row.status)
    PROVE  \A p \in Proposal : Told(p)'
<1>0. PICK d \in Proposal : d = tx[r].in.proposal
    OBVIOUS
<1>1. TypeOK /\ \A p \in Proposal : Told(p) /\ TableInv(p)
    BY DEF TrailInv, SafeInv, TypeInv
<1>2. proposals'[d] = row /\ \A p \in Proposal : p # d => proposals'[p] = proposals[p]
    BY <1>0, <1>1 DEF Save, TypeOK
<1>3. Stages(d)' = Stages(d) \cup stages /\ \A p \in Proposal : p # d => Stages(p)' = Stages(p)
    BY <1>0 DEF Save, Stages
<1>4. Stages(d) = {"PROPOSED"} /\ ~(d >= nextProposal)
    BY <1>0, <1>1 DEF Told, Tells, TableInv
<1>5. Told(d)'
    BY <1>2, <1>3, <1>4 DEF Told
<1>6. ASSUME NEW p \in Proposal, p # d PROVE Told(p)'
    BY <1>1, <1>2, <1>3, <1>6 DEF Told
<1> QED BY <1>5, <1>6

\* The trails that an outcome of a decision leaves.
LEMMA OutcomesTell ==
    /\ Tells({"PROPOSED"} \cup {"EXPIRED"}, "EXPIRED")
    /\ Tells({"PROPOSED"} \cup {"INVALIDATED"}, "INVALIDATED")
    /\ \A x \in {"EXPIRED", "INVALIDATED", "DECLINED"} :
          Tells({"PROPOSED"} \cup ({"PRESENTED"} \cup {x}), x)
    /\ \A x \in {"EXPIRED", "INVALIDATED"} :
          Tells({"PROPOSED"} \cup ({"PRESENTED", "CONFIRMED"} \cup {x}), x)
    /\ \A x \in {"INVALIDATED", "COMMITTED"} :
          Tells({"PROPOSED"} \cup ({"PRESENTED", "CONFIRMED", "COMMIT_STARTED"} \cup {x}), x)
BY DEF Tells, TERMINAL_STATUSES

\* A decision ends an open offer, and its trail tells how.
Outcome(r) ==
    \E row, stages :
        /\ tx[r].in.proposal \in Proposal /\ proposals[tx[r].in.proposal].status = "PROPOSED"
        /\ stages \in SUBSET Stage /\ Save(r, row, stages) /\ UNCHANGED nextProposal
        /\ row.status \in TERMINAL_STATUSES /\ Tells({"PROPOSED"} \cup stages, row.status)

\* What a decision writes, if anything, is the outcome of an open offer.
LEMMA DecisionSaves ==
    ASSUME TrailInv, NEW r \in Request, DecisionStep(r)
    PROVE  UNCHANGED tables \/ Outcome(r)
<1> DEFINE t == tx[r]
           d == t.in.proposal
           Ends == UNCHANGED tables \/ Outcome(r)
<1>1. /\ TypeOK /\ TxInv(r) /\ StageInv(r) /\ t.row \in Row
      /\ t.pc \in DecisionPC => d \in Proposal /\ proposals[d] \in Row
    BY DEF TrailInv, SafeInv, TypeInv, TypeOK, DecisionsNameRows
<1>2. ASSUME UNCHANGED tables PROVE Ends
    BY <1>2
<1>3. ASSUME NEW row, NEW stages \in SUBSET Stage, Save(r, row, stages), UNCHANGED nextProposal,
             proposals[d].status = "PROPOSED", t.pc \in DecisionPC,
             row.status \in {"EXPIRED", "INVALIDATED", "DECLINED", "COMMITTED"},
             Tells({"PROPOSED"} \cup stages, row.status)
      PROVE  Ends
    BY <1>1, <1>3 DEF Outcome, TERMINAL_STATUSES
<1>4. \A row \in Row : \A x \in Reason :
          Expired(row).status = "EXPIRED" /\ Invalidated(row, x).status = "INVALIDATED"
    BY DEF Row, Expired, Invalidated
<1>5. /\ t.pc \in {"signals", "lock", "execute", "apply"} =>
            t.pc \in DecisionPC /\ proposals[d].status = "PROPOSED"
      /\ t.pc = "claim" /\ t.row.status = "CONFIRMED" =>
            t.pc \in DecisionPC /\ proposals[d].status = "PROPOSED"
      /\ {"attest", "decide", "reject"} \subseteq DecisionPC
    BY <1>1 DEF TxInv, HoldingPC, DecisionPC
<1> HIDE DEF Ends
<1>6. CommitAttest(r) => Ends
    BY <1>2 DEF CommitAttest, Rollback, RollbackExpired
<1>7. CommitClaim(r) => Ends
  <2>1. ASSUME NEW x \in {"EXPIRED", "INVALIDATED"}, NEW row, row.status = x,
               t.pc = "claim", t.row.status = "CONFIRMED",
               Dispose(r, row, t.stages \cup {x})
        PROVE  Ends
    <3>1. t.stages = {"PRESENTED", "CONFIRMED"}
        BY <1>1, <2>1 DEF StageInv
    <3> QED BY <1>3, <1>5, <2>1, <3>1, OutcomesTell, StagesType DEF Dispose
  <2> QED BY <1>1, <1>2, <1>4, <2>1, StagesType DEF CommitClaim, Rollback
<1>8. CommitSignals(r) \/ CommitLock(r) => Ends
  <2>1. ASSUME NEW row, row.status = "INVALIDATED", t.pc \in {"signals", "lock"},
               Dispose(r, row, t.stages \cup {"INVALIDATED"})
        PROVE  Ends
    <3>1. t.stages = {"PRESENTED", "CONFIRMED", "COMMIT_STARTED"}
        BY <1>1, <2>1 DEF StageInv
    <3> QED BY <1>3, <1>5, <2>1, <3>1, OutcomesTell, StagesType DEF Dispose
  <2> QED BY <1>1, <1>2, <1>4, <2>1, StagesType DEF CommitSignals, CommitLock
<1>9. CommitExecute(r) => Ends
  <2>1. ASSUME CommitExecute(r) PROVE Ends
    <3> DEFINE row == [t.row EXCEPT !.status = "COMMITTED"]
    <3>1. /\ Save(r, row, t.stages \cup {"COMMITTED"}) /\ UNCHANGED nextProposal
          /\ t.pc = "execute"
        BY <2>1 DEF CommitExecute
    <3>2. row.status = "COMMITTED" /\ t.stages = {"PRESENTED", "CONFIRMED", "COMMIT_STARTED"}
        BY <1>1, <3>1 DEF StageInv, Row
    <3> HIDE DEF row
    <3> QED BY <1>3, <1>5, <3>1, <3>2, OutcomesTell, StagesType
  <2> QED BY <2>1
<1>10. DecidePresent(r) => Ends
  <2>1. ASSUME NEW row, row.status = "INVALIDATED", t.pc = "decide",
               proposals[d].status = "PROPOSED", Dispose(r, row, {"INVALIDATED"})
        PROVE  Ends
      BY <1>3, <1>5, <2>1, OutcomesTell, StagesType DEF Dispose
  <2> QED BY <1>1, <1>2, <1>4, <1>5, <2>1, StagesType
          DEF DecidePresent, Rollback, RollbackExpired
<1>11. DecideApply(r) => Ends
  <2>1. ASSUME NEW x \in {"INVALIDATED", "DECLINED"}, NEW row, row.status = x,
               t.pc = "apply", Dispose(r, row, t.stages \cup {x})
        PROVE  Ends
    <3>1. t.stages = {"PRESENTED"}
        BY <1>1, <2>1 DEF StageInv
    <3> QED BY <1>3, <1>5, <2>1, <3>1, OutcomesTell, StagesType DEF Dispose
  <2>2. [t.row EXCEPT !.status = "DECLINED", !.reason = "CUSTOMER_DECLINED"].status = "DECLINED"
      BY <1>1 DEF Row
  <2> QED BY <1>1, <1>2, <1>4, <2>1, <2>2, StagesType DEF DecideApply, RollbackExpired
<1>12. RejectExpired(r) => Ends
  <2>1. ASSUME NEW row, row.status = "EXPIRED", t.pc = "reject",
               proposals[d].status = "PROPOSED", Dispose(r, row, {"EXPIRED"})
        PROVE  Ends
      BY <1>3, <1>5, <2>1, OutcomesTell, StagesType DEF Dispose
  <2> QED BY <1>1, <1>2, <1>4, <1>5, <2>1, StagesType DEF RejectExpired, Rollback
<1> USE DEF Ends
<1> QED BY <1>6, <1>7, <1>8, <1>9, <1>10, <1>11, <1>12 DEF DecisionStep

\* An insertion tells of its own offer and of those it found lapsed.
LEMMA InsertTells ==
    ASSUME TrailInv, NEW r \in Request, PrepareInsert(r)
    PROVE  \A p \in Proposal : Told(p)'
<1> DEFINE lapsed == tx[r].lapsed
<1>0. PICK np \in Proposal : np = nextProposal
    BY Inserted DEF TrailInv
<1>1. np \in Nat /\ \A p \in Proposal : Told(p) /\ proposals[p] \in Row
  <2>1. np \in Nat
      BY DEF Proposal
  <2>2. TypeOK /\ \A p \in Proposal : Told(p)
      BY DEF TrailInv, SafeInv, TypeInv
  <2> QED BY <2>1, <2>2 DEF TypeOK
<1>2. nextProposal' = np + 1
    BY <1>0 DEF PrepareInsert
<1>3. \A p \in Proposal : Stages(p)' =
        Stages(p) \cup (IF p = np THEN {"PROPOSED"} ELSE {})
                  \cup (IF p \in lapsed THEN {"EXPIRED"} ELSE {})
    BY <1>0 DEF PrepareInsert, Stages, Stage, TERMINAL_STATUSES
<1>4. np \notin lapsed
    BY <1>0, Inserted DEF TrailInv
<1>5. Told(np)'
  <2>1. proposals'[np].status = "PROPOSED" /\ np \in Proposal
      BY <1>0, Inserted DEF TrailInv
  <2>2. Stages(np)' = {"PROPOSED"}
      BY <1>0, <1>1, <1>3, <1>4, <2>1 DEF Told
  <2>3. Tells({"PROPOSED"}, "PROPOSED")
      BY DEF Tells, TERMINAL_STATUSES
  <2> QED BY <1>1, <1>2, <2>1, <2>2, <2>3 DEF Told
<1>6. ASSUME NEW p \in lapsed PROVE Told(p)'
  <2>1. /\ p \in Proposal /\ p # np /\ proposals[p].status = "PROPOSED"
        /\ proposals'[p] = Expired(proposals[p])
      BY <1>0, Inserted DEF TrailInv
  <2>2. proposals'[p].status = "EXPIRED"
      BY <1>1, <2>1, ExpiredRow
  <2>3. Stages(p)' = {"PROPOSED"} \cup {"EXPIRED"}
      BY <1>1, <1>3, <2>1 DEF Told, Tells
  <2>4. ~(p >= np) /\ p \in Nat
      BY <1>0, <1>1, <2>1 DEF Told, Tells, Proposal
  <2> QED BY <1>1, <1>2, <2>2, <2>3, <2>4, OutcomesTell DEF Told
<1>7. ASSUME NEW p \in Proposal, p # np, p \notin lapsed PROVE Told(p)'
  <2>1. proposals'[p] = proposals[p] /\ Stages(p)' = Stages(p)
      BY <1>0, <1>3, <1>7, Inserted DEF TrailInv
  <2> QED BY <1>0, <1>1, <1>2, <1>7, <2>1 DEF Told, Proposal
<1> QED BY <1>5, <1>6, <1>7
-----------------------------------------------------------------------------
(* What a decision has recorded.                                           *)

\* The call that takes the step records the stages it goes through.
LEMMA OwnStages ==
    ASSUME TrailInv, NEW r \in Request, Begin(r) \/ Step(r) \/ Abort(r)
    PROVE  StageInv(r)'
<1> DEFINE t == tx[r]
           Before == {"idle", "lookup", "facts", "customer", "scan", "insert",
                      "attest", "decide", "reject"}
<1>1. TypeOK /\ StageInv(r) /\ tx \in [Request -> Tx] /\ t.row \in Row
    BY DEF TrailInv, SafeInv, TypeInv, TypeOK, Tx
<1>2. ASSUME tx'[r].pc \in Before PROVE StageInv(r)'
    BY <1>2 DEF StageInv
<1>3. Finish(r) \/ RollbackExpired(r) => StageInv(r)'
    BY <1>1, <1>2, TxAfter DEF Idle
<1>4. ASSUME NEW pc, NEW row, NEW stages, Goto(r, pc, row, stages)
      PROVE  tx'[r].pc = pc /\ tx'[r].row = row /\ tx'[r].stages = stages
    BY <1>1, <1>4, TxAfter
<1>5. Begin(r) => StageInv(r)'
  <2>1. \A in : \A pc \in {"lookup", "attest", "decide"} :
            tx' = [tx EXCEPT ![r] = [Idle EXCEPT !.pc = pc, !.in = in]] => tx'[r].pc \in Before
      BY <1>1 DEF Idle
  <2> QED BY <1>2, <2>1 DEF Begin, BeginPrepare, BeginDecision
<1>6. PrepareStep(r) \/ Abort(r) => StageInv(r)'
  <2>1. PrepareScan(r) => StageInv(r)'
    <3>1. \A l : tx' = [tx EXCEPT ![r] = [@ EXCEPT !.pc = "insert", !.lapsed = l]]
                    => tx'[r].pc \in Before
        BY <1>1 DEF Tx
    <3> QED BY <1>2, <1>3, <3>1 DEF PrepareScan, Rollback
  <2> QED BY <1>2, <1>3, <1>4, <2>1
          DEF PrepareStep, PrepareReplay, PrepareLookup, PrepareFacts, PrepareCustomer,
              PrepareInsert, Abort, Rollback
<1>7. CommitAttest(r) => StageInv(r)'
  <2> DEFINE row == proposals[t.in.proposal]
  <2>1. ASSUME NEW x, Goto(r, "claim", x, {"PRESENTED", "CONFIRMED"}) PROVE StageInv(r)'
      BY <1>4, <2>1 DEF StageInv
  <2>2. ASSUME Goto(r, "claim", row, {}), row.status \in TERMINAL_STATUSES PROVE StageInv(r)'
      BY <1>4, <2>2 DEF StageInv, TERMINAL_STATUSES
  <2> QED BY <1>3, <2>1, <2>2 DEF CommitAttest, Rollback
<1>8. CommitClaim(r) => StageInv(r)'
  <2>1. ASSUME NEW x, Goto(r, "signals", x, t.stages \cup {"COMMIT_STARTED"}),
               t.pc = "claim", t.row.status = "CONFIRMED"
        PROVE  StageInv(r)'
      BY <1>1, <1>4, <2>1 DEF StageInv
  <2> QED BY <1>3, <2>1 DEF CommitClaim, Rollback, Dispose
<1>9. CommitSignals(r) \/ CommitLock(r) => StageInv(r)'
  <2>1. ASSUME NEW pc \in {"lock", "execute"}, Goto(r, pc, t.row, t.stages),
               t.pc \in {"signals", "lock"}
        PROVE  StageInv(r)'
      BY <1>1, <1>4, <2>1 DEF StageInv
  <2> QED BY <1>3, <2>1 DEF CommitSignals, CommitLock, Dispose
<1>10. DecidePresent(r) => StageInv(r)'
  <2>1. ASSUME NEW x, Goto(r, "apply", x, {"PRESENTED"}) PROVE StageInv(r)'
      BY <1>4, <2>1 DEF StageInv
  <2> QED BY <1>3, <2>1 DEF DecidePresent, Rollback, Dispose
<1>11. CommitExecute(r) \/ DecideApply(r) \/ RejectExpired(r) => StageInv(r)'
    BY <1>3 DEF CommitExecute, DecideApply, RejectExpired, Rollback, Dispose
<1> QED BY <1>5, <1>6, <1>7, <1>8, <1>9, <1>10, <1>11 DEF Step, DecisionStep
-----------------------------------------------------------------------------
\* Every step keeps the trails true.
LEMMA TrailInvNext == TrailInv /\ [Next]_vars => TrailInv'
<1> SUFFICES ASSUME TrailInv, [Next]_vars PROVE TrailInv'
    OBVIOUS
<1>1. SafeInv' /\ SafeInv /\ TypeOK
    BY SafeInvNext DEF StepGoal, TrailInv, SafeInv, TypeInv
<1>2. ASSUME NEW q \in Request, tx'[q] = tx[q] PROVE StageInv(q)'
    BY <1>2 DEF TrailInv, StageInv
<1>3. ASSUME UNCHANGED <<proposals, audit, nextProposal>> PROVE \A p \in Proposal : Told(p)'
    BY <1>3 DEF TrailInv, Told, Stages
<1>4. CASE ResetData
  <2>1. UNCHANGED <<audit, nextProposal, tx>>
      BY <1>4 DEF ResetData
  <2>2. \A p \in Proposal : proposals'[p].status = "ABSENT"
      BY <1>4 DEF ResetData, NoRow
  <2>3. \A p \in Proposal : Told(p)'
      BY <2>1, <2>2 DEF TrailInv, Told, Tells, Stages, TERMINAL_STATUSES
  <2> QED BY <1>1, <1>2, <2>1, <2>3 DEF TrailInv
<1>5. CASE (Environment /\ ~ResetData) \/ UNCHANGED vars
  <2>1. UNCHANGED <<proposals, audit, nextProposal, tx>>
      BY <1>5
      DEF Environment, Tick, Settle, BumpGeneration, NextTurn, Resume, Publish, tables, vars
  <2> QED BY <1>1, <1>2, <1>3, <2>1 DEF TrailInv
<1>6. ASSUME NEW r \in Request, Begin(r) \/ Step(r) \/ Abort(r) PROVE TrailInv'
  <2>1. \A q \in Request : StageInv(q)'
      BY <1>1, <1>2, <1>6, OwnStages, OthersKept DEF Keeps
  <2>2. CASE PrepareInsert(r)
      BY <1>1, <2>1, <2>2, InsertTells DEF TrailInv
  <2>3. CASE DecisionStep(r)
    <3>1. \A p \in Proposal : Told(p)'
        BY <1>3, <2>3, DecisionSaves, SaveTells DEF Outcome, tables
    <3> QED BY <1>1, <2>1, <3>1 DEF TrailInv
  <2>4. CASE Begin(r) \/ Abort(r) \/ (PrepareStep(r) /\ ~PrepareInsert(r))
    <3>1. UNCHANGED <<proposals, audit, nextProposal>>
        BY <2>4
        DEF Begin, BeginPrepare, BeginDecision, Abort, PrepareStep, PrepareReplay,
            PrepareLookup, PrepareFacts, PrepareCustomer, PrepareScan, Rollback, tables
    <3> QED BY <1>1, <1>3, <2>1, <3>1 DEF TrailInv
  <2> QED BY <1>6, <2>2, <2>3, <2>4 DEF Step
<1> QED BY <1>4, <1>5, <1>6 DEF Next

\* The trails are empty at first.
LEMMA TrailInvInit == Init => TrailInv
<1> SUFFICES ASSUME Init PROVE TrailInv
    OBVIOUS
<1>1. \A p \in Proposal : Stages(p) = {} /\ proposals[p].status = "ABSENT"
    BY DEF Init, Stages, NoRow
<1>2. \A r \in Request : StageInv(r)
    BY DEF Init, StageInv, Idle
<1> QED BY <1>1, <1>2, SafeInvInit DEF TrailInv, Told, Tells, TERMINAL_STATUSES

\* The lifecycle events of one offer (record_action_event in one COMMIT with the row) have
\* at most one disposition and no gap, and agree with the row, for any number of sessions,
\* retries, aborts and resets.
THEOREM TrailTellsTheFate == Spec => []AuditTrailMatches
<1>1. TrailInv => AuditTrailMatches
    BY DEF TrailInv, Told, Tells, AuditTrailMatches
<1> QED BY <1>1, TrailInvInit, TrailInvNext, PTL DEF Spec
-----------------------------------------------------------------------------
(* The contract.                                                           *)

ContractInv == OfferInv /\ TrailInv

\* The only member of a set is the one that is chosen.
LEMMA OnlyOne ==
    ASSUME NEW A, NEW p \in A, \A q \in A : q = p
    PROVE  (IF A = {} THEN 0 ELSE CHOOSE x \in A : TRUE) = p
<1>1. (CHOOSE x \in A : TRUE) \in A
    OBVIOUS
<1> QED BY <1>1

\* The fate of an offer, and that 0 is no offer.
LEMMA FateOf ==
    ASSUME SafeInv, NEW p \in Proposal
    PROVE  /\ p \in Nat \ {0} /\ nextProposal \in Nat
           /\ p >= nextProposal => Fate(p) = "unmade" /\ proposals[p].status = "ABSENT"
           /\ p < nextProposal /\ proposals[p].status = "ABSENT" => Fate(p) = "erased"
           /\ proposals[p].status = "PROPOSED" => Fate(p) = "open"
           /\ proposals[p].status \in TERMINAL_STATUSES =>
                Fate(p) = IF proposals[p].status = "COMMITTED" THEN "executed" ELSE "closed"
<1>1. p \in Nat \ {0} /\ nextProposal \in Nat /\ (p < nextProposal <=> ~(p >= nextProposal))
    BY DEF SafeInv, TypeInv, TypeOK, Proposal
<1>2. TableInv(p)
    BY DEF SafeInv
<1> QED BY <1>1, <1>2 DEF TableInv, Fate, TERMINAL_STATUSES, ACTIVE_PROPOSAL_STATUSES

\* The same offers have the same fate.
LEMMA NothingHappens ==
    ASSUME UNCHANGED <<proposals, nextProposal, effects>>
    PROVE  UNCHANGED Contract!contractVars
<1>1. \A p : Fate(p)' = Fate(p)
    BY DEF Fate
<1>2. \A s : Current(s)' = Current(s)
    BY DEF Current, Active
<1> QED BY <1>1, <1>2 DEF Contract!contractVars

\* A demo reset erases what was made.
LEMMA ResetErases ==
    ASSUME SafeInv, SafeInv', ResetData
    PROVE  Contract!Erase
<1>1. UNCHANGED <<nextProposal, effects>> /\ \A p \in Proposal : proposals'[p].status = "ABSENT"
    BY DEF ResetData, NoRow
<1>2. ASSUME NEW p \in Proposal
      PROVE  Fate(p)' = IF Fate(p) = "unmade" THEN "unmade" ELSE "erased"
  <2>1. /\ p >= nextProposal => Fate(p) = "unmade"
        /\ p \in Nat /\ nextProposal \in Nat
      BY FateOf
  <2>2. p < nextProposal => Fate(p) # "unmade"
      BY FateOf DEF SafeInv, TableInv
  <2>3. Fate(p)' = IF p >= nextProposal THEN "unmade" ELSE "erased"
      BY <1>1, <2>1 DEF Fate, ACTIVE_PROPOSAL_STATUSES
  <2> QED BY <2>1, <2>2, <2>3
<1>3. \A s \in Session : Current(s)' = 0
  <2>1. \A s : Active(proposals', s) = {}
      BY <1>1 DEF Active, ACTIVE_PROPOSAL_STATUSES
  <2> QED BY <2>1 DEF Current
<1> QED BY <1>1, <1>2, <1>3 DEF Contract!Erase

\* An insertion makes an offer in place of the lapsed one.
LEMMA InsertMakes ==
    ASSUME ContractInv, ContractInv', NEW r \in Request, PrepareInsert(r)
    PROVE  \E p \in Proposal, s \in Session : Contract!Make(p, s)
<1> DEFINE t == tx[r]
<1>1. /\ SafeInv /\ PrepInv(r) /\ t.in \in Input /\ OneActiveProposal /\ OneActiveProposal'
      /\ SafeInv' /\ \A p \in Proposal : proposals[p] \in Row
    BY DEF ContractInv, OfferInv, SafeInv, TypeInv, TypeOK
<1>2. PICK np \in Proposal : np = nextProposal
    BY <1>1, Inserted
<1>3. PICK s \in Session : s = t.in.session
    BY <1>1 DEF Input
<1>4. /\ nextProposal' = np + 1 /\ UNCHANGED effects
      /\ t.pc = "insert" /\ proposals'[np] = t.row /\ t.row.status = "PROPOSED"
      /\ \A p \in t.lapsed :
            p \in Proposal /\ p # np /\ proposals[p].status = "PROPOSED"
            /\ proposals'[p] = Expired(proposals[p])
      /\ \A p \in Proposal : p # np /\ p \notin t.lapsed => proposals'[p] = proposals[p]
    BY <1>1, <1>2, Inserted DEF PrepareInsert
<1>5. t.row.session = s /\ t.lapsed = Active(proposals, s)
  <2>1. t.row.session = s
      BY <1>1, <1>3, <1>4 DEF PrepInv, OfferPC, KeyOf, KeyIn
  <2>2. Active(proposals, s) \subseteq t.lapsed
      BY <1>1, <1>3, <1>4 DEF PrepInv
  <2>3. \A p \in t.lapsed : p \in Proposal /\ proposals[p].session = s
                            /\ proposals[p].status = "PROPOSED"
      BY <1>1, <1>3, <1>4 DEF PrepInv, Present
  <2> QED BY <2>1, <2>2, <2>3 DEF Active, ACTIVE_PROPOSAL_STATUSES
<1>6. \A p \in Proposal : p \in t.lapsed <=> p = Current(s)
  <2>1. CASE t.lapsed = {}
    <3>1. Current(s) = 0
        BY <1>5, <2>1 DEF Current
    <3> QED BY <1>1, <2>1, <3>1, FateOf
  <2>2. ASSUME NEW p \in t.lapsed PROVE p = Current(s) /\ \A q \in t.lapsed : q = p
    <3>1. \A q \in t.lapsed : q = p
        BY <1>1, <1>5, <2>2 DEF OneActiveProposal
    <3> QED BY <1>5, <2>2, <3>1, OnlyOne DEF Current
  <2> QED BY <2>1, <2>2
<1>7. Fate(np) = "unmade" /\ Fate(np)' = "open"
  <2>1. np \in Nat /\ np >= nextProposal
      BY <1>1, <1>2, FateOf
  <2>2. Fate(np) = "unmade"
      BY <1>1, <2>1, FateOf
  <2>3. ~(np >= nextProposal')
      BY <1>4, <2>1
  <2> QED BY <1>4, <2>2, <2>3 DEF Fate, ACTIVE_PROPOSAL_STATUSES
<1>8. ASSUME NEW p \in Proposal, p # np
      PROVE  Fate(p)' = IF p \in t.lapsed THEN "closed" ELSE Fate(p)
  <2>1. p \in Nat /\ np \in Nat /\ (p >= np <=> p >= np + 1) /\ (p < np <=> p < np + 1)
      BY <1>1, <1>2, <1>8, FateOf
  <2>2. CASE p \in t.lapsed
    <3>1. proposals'[p].status = "EXPIRED" /\ p < np
      <4>1. proposals'[p].status = "EXPIRED"
          BY <1>1, <1>4, <2>2, ExpiredRow
      <4>2. ~(p >= np)
          BY <1>1, <1>2, <1>4, <2>2, FateOf
      <4> QED BY <2>1, <4>1, <4>2
    <3> QED BY <1>4, <2>1, <2>2, <3>1 DEF Fate, ACTIVE_PROPOSAL_STATUSES
  <2>3. CASE p \notin t.lapsed
      BY <1>2, <1>4, <1>8, <2>1, <2>3 DEF Fate
  <2> QED BY <2>2, <2>3
<1>9. Current(s)' = np
  <2>1. np \in Active(proposals', s)
      BY <1>4, <1>5 DEF Active, ACTIVE_PROPOSAL_STATUSES
  <2>2. \A q \in Active(proposals', s) : q = np
      BY <1>1, <2>1 DEF OneActiveProposal
  <2> QED BY <2>1, <2>2, OnlyOne DEF Current
<1>10. ASSUME NEW z \in Session, z # s PROVE Current(z)' = Current(z)
  <2>1. ASSUME NEW p \in Proposal
        PROVE  p \in Active(proposals', z) <=> p \in Active(proposals, z)
    <3>1. CASE p = np
      <4>1. proposals[np].status = "ABSENT"
          BY <1>1, <1>2, Inserted DEF Present
      <4> QED BY <1>4, <1>5, <1>10, <3>1, <4>1 DEF Active, ACTIVE_PROPOSAL_STATUSES
    <3>2. CASE p \in t.lapsed
      <4>1. proposals'[p].status = "EXPIRED" /\ proposals[p].session = s
          BY <1>1, <1>4, <1>5, <3>2, ExpiredRow DEF Active
      <4> QED BY <1>10, <4>1 DEF Active, ACTIVE_PROPOSAL_STATUSES
    <3>3. CASE p # np /\ p \notin t.lapsed
        BY <1>4, <3>3 DEF Active
    <3> QED BY <3>1, <3>2, <3>3
  <2>2. Active(proposals', z) = Active(proposals, z)
      BY <2>1 DEF Active
  <2> QED BY <2>2 DEF Current
<1>11. Contract!Make(np, s)
  <2>1. [p \in Proposal |-> Fate(p)]' =
            [q \in Proposal |-> CASE q = np -> "open"
                                  [] q = [z \in Session |-> Current(z)][s] -> "closed"
                                  [] OTHER -> [p \in Proposal |-> Fate(p)][q]]
    <3> DEFINE old == [z \in Session |-> Current(z)][s]
               new(q) == CASE q = np -> "open"
                           [] q = old -> "closed"
                           [] OTHER -> [p \in Proposal |-> Fate(p)][q]
    <3>1. old = Current(s) /\ np \notin t.lapsed
        BY <1>4
    <3>2. ASSUME NEW q \in Proposal PROVE Fate(q)' = new(q)
      <4>1. CASE q = np
        <5>1. Fate(q)' = "open"
            BY <1>7, <4>1
        <5>2. q # old
            BY <1>6, <3>1, <4>1
        <5> QED BY <4>1, <5>1, <5>2
      <4>2. CASE q # np /\ q = old
        <5>1. Fate(q)' = "closed"
            BY <1>6, <1>8, <3>1, <4>2
        <5> QED BY <4>2, <5>1
      <4>3. CASE q # np /\ q # old
        <5>1. Fate(q)' = Fate(q)
            BY <1>6, <1>8, <3>1, <4>3
        <5> QED BY <4>3, <5>1
      <4> QED BY <4>1, <4>2, <4>3
    <3> QED BY <3>2
  <2>2. [z \in Session |-> Current(z)]' = [[z \in Session |-> Current(z)] EXCEPT ![s] = np]
      BY <1>9, <1>10
  <2> QED BY <1>4, <1>7, <2>1, <2>2 DEF Contract!Make
<1> QED BY <1>11

\* The outcome of a decision ends the open offer, executing it or not.
LEMMA OutcomeResolves ==
    ASSUME ContractInv, ContractInv', [Next]_vars, NEW r \in Request, Outcome(r)
    PROVE  \E p \in Proposal, s \in Session : Contract!Execute(p, s) \/ Contract!Close(p, s)
<1>1. /\ SafeInv /\ SafeInv' /\ TypeOK /\ TypeOK' /\ OneActiveProposal
      /\ \A p \in Proposal : proposals[p] \in Row /\ TableInv(p) /\ TableInv(p)'
    BY DEF ContractInv, OfferInv, SafeInv, TypeInv, TypeOK
<1>0. PICK d \in Proposal : d = tx[r].in.proposal
    BY DEF Outcome
<1>2. PICK row, stages :
        /\ d = tx[r].in.proposal /\ proposals[d].status = "PROPOSED"
        /\ stages \in SUBSET Stage /\ Save(r, row, stages) /\ UNCHANGED nextProposal
        /\ row.status \in TERMINAL_STATUSES
    BY <1>0 DEF Outcome
<1>3. /\ proposals'[d] = row
      /\ \A p \in Proposal : p # d => proposals'[p] = proposals[p]
      /\ \A p \in Proposal : p # d => (<<p, "COMMITTED">> \in audit' <=> <<p, "COMMITTED">> \in audit)
    BY <1>1, <1>2 DEF Save, TypeOK
<1>4. PICK s \in Session : s = proposals[d].session
    BY <1>1 DEF Row
<1> DEFINE outcome == IF row.status = "COMMITTED" THEN "executed" ELSE "closed"
<1>5. \A p \in Proposal : Fate(p)' = IF p = d THEN outcome ELSE Fate(p)
  <2>1. Fate(d)' = outcome
    <3>1. ~(d >= nextProposal)
        BY <1>1, <1>2 DEF TableInv
    <3> QED BY <1>1, <1>2, <1>3, <3>1
            DEF Fate, TableInv, TERMINAL_STATUSES, ACTIVE_PROPOSAL_STATUSES
  <2>2. ASSUME NEW p \in Proposal, p # d PROVE Fate(p)' = Fate(p)
      BY <1>2, <1>3, <2>2 DEF Fate
  <2> QED BY <2>1, <2>2
<1>6. Current(s) = d
  <2>1. d \in Active(proposals, s)
      BY <1>2, <1>4 DEF Active, ACTIVE_PROPOSAL_STATUSES
  <2>2. \A q \in Active(proposals, s) : q = d
      BY <1>1, <2>1 DEF OneActiveProposal
  <2> QED BY <2>1, <2>2, OnlyOne DEF Current
<1>7. Current(s)' = 0
  <2>1. ASSUME NEW q \in Active(proposals', s) PROVE FALSE
    <3>1. q \in Proposal /\ proposals'[q].status \in ACTIVE_PROPOSAL_STATUSES
          /\ proposals'[q].session = s
        BY <2>1 DEF Active
    <3>2. q # d
        BY <1>2, <1>3, <3>1 DEF TERMINAL_STATUSES, ACTIVE_PROPOSAL_STATUSES
    <3>3. q \in Active(proposals, s) /\ d \in Active(proposals, s)
        BY <1>2, <1>3, <1>4, <3>1, <3>2 DEF Active, ACTIVE_PROPOSAL_STATUSES
    <3> QED BY <1>1, <3>2, <3>3 DEF OneActiveProposal
  <2>2. Active(proposals', s) = {}
      BY <2>1
  <2> QED BY <2>2 DEF Current
<1>8. ASSUME NEW z \in Session, z # s PROVE Current(z)' = Current(z)
  <2>1. \A p \in Proposal : proposals'[p].session = z /\ proposals'[p].status \in ACTIVE_PROPOSAL_STATUSES
            <=> proposals[p].session = z /\ proposals[p].status \in ACTIVE_PROPOSAL_STATUSES
      BY <1>2, <1>3, <1>4, <1>8 DEF TERMINAL_STATUSES, ACTIVE_PROPOSAL_STATUSES
  <2>2. Active(proposals', z) = Active(proposals, z)
      BY <2>1 DEF Active
  <2> QED BY <2>2 DEF Current
<1>9. effects' = [effects EXCEPT ![d] = @ + (IF row.status = "COMMITTED" THEN 1 ELSE 0)]
  <2>1. effects \in [Proposal -> Nat] /\ effects' \in [Proposal -> Nat]
      BY <1>1 DEF TypeOK
  <2>2. ASSUME NEW p \in Proposal, p # d PROVE effects'[p] = effects[p]
    <3>1. <<p, "COMMITTED">> \in audit' <=> <<p, "COMMITTED">> \in audit
        BY <1>3, <2>2
    <3>2. TableInv(p) /\ TableInv(p)'
        BY <1>1
    <3> QED BY <3>1, <3>2 DEF TableInv
  <2>3. effects[d] = 0 /\ effects'[d] = IF row.status = "COMMITTED" THEN 1 ELSE 0
      BY <1>1, <1>2, <1>3 DEF TableInv, TERMINAL_STATUSES
  <2> QED BY <2>1, <2>2, <2>3
<1>10. Contract!Resolve(d, s, outcome)
  <2>1. [p \in Proposal |-> Fate(p)]' = [[p \in Proposal |-> Fate(p)] EXCEPT ![d] = outcome]
      BY <1>5
  <2>2. [z \in Session |-> Current(z)]' = [[z \in Session |-> Current(z)] EXCEPT ![s] = 0]
      BY <1>7, <1>8
  <2> QED BY <1>6, <2>1, <2>2 DEF Contract!Resolve
<1>11. CASE row.status = "COMMITTED"
    BY <1>9, <1>10, <1>11 DEF Contract!Execute
<1>12. CASE row.status # "COMMITTED"
  <2>1. effects' = effects
      BY <1>1, <1>9, <1>12 DEF TypeOK
  <2> QED BY <1>10, <1>12, <2>1 DEF Contract!Close
<1> QED BY <1>11, <1>12

\* Every step is a step of the contract, or leaves it as it is.
LEMMA ContractNext ==
    ASSUME ContractInv, ContractInv', [Next]_vars
    PROVE  [Contract!Next]_Contract!contractVars
<1>1. SafeInv /\ SafeInv' /\ TrailInv
    BY DEF ContractInv, OfferInv
<1>2. CASE ResetData
    BY <1>1, <1>2, ResetErases DEF Contract!Next
<1>3. CASE (Environment /\ ~ResetData) \/ UNCHANGED vars
  <2>1. UNCHANGED <<proposals, nextProposal, effects>>
      BY <1>3
      DEF Environment, Tick, Settle, BumpGeneration, NextTurn, Resume, Publish, tables, vars
  <2> QED BY <2>1, NothingHappens
<1>4. ASSUME NEW r \in Request, PrepareInsert(r) PROVE Contract!Next
    BY <1>4, InsertMakes DEF Contract!Next
<1>5. ASSUME NEW r \in Request, DecisionStep(r)
      PROVE  Contract!Next \/ UNCHANGED Contract!contractVars
    BY <1>1, <1>5, DecisionSaves, OutcomeResolves, NothingHappens DEF Contract!Next, tables
<1>6. ASSUME NEW r \in Request, Begin(r) \/ Abort(r) \/ (PrepareStep(r) /\ ~PrepareInsert(r))
      PROVE  UNCHANGED Contract!contractVars
  <2>1. UNCHANGED <<proposals, nextProposal, effects>>
      BY <1>6
      DEF Begin, BeginPrepare, BeginDecision, Abort, PrepareStep, PrepareReplay, PrepareLookup,
          PrepareFacts, PrepareCustomer, PrepareScan, Rollback, tables
  <2> QED BY <2>1, NothingHappens
<1> QED BY <1>2, <1>3, <1>4, <1>5, <1>6 DEF Next, Step

\* At first no offer is made.
LEMMA ContractInit ==
    ASSUME Init, SafeInv
    PROVE  Contract!Init
<1>1. \A p \in Proposal : Fate(p) = "unmade"
  <2>1. \A p \in Proposal : p >= nextProposal
      BY DEF Init, Proposal
  <2> QED BY <2>1, FateOf
<1>2. \A s : Active(proposals, s) = {}
    BY DEF Init, Active, NoRow, ACTIVE_PROPOSAL_STATUSES
<1>3. \A s \in Session : Current(s) = 0
    BY <1>2 DEF Current
<1> QED BY <1>1, <1>3 DEF Init, Contract!Init

\* The whole protocol, with its transactions, crashes and retries, keeps the contract: one
\* open offer per session, executed at most once and only while open, final until a reset.
THEOREM KeepsTheContract == Spec => RefinesContract
<1>1. Init => ContractInv /\ Contract!Init
    BY OfferInvInit, TrailInvInit, ContractInit DEF ContractInv, OfferInv
<1>2. ContractInv /\ [Next]_vars => ContractInv'
    BY OfferInvNext, TrailInvNext DEF ContractInv
<1>3. ContractInv /\ ContractInv' /\ [Next]_vars => [Contract!Next]_Contract!contractVars
    BY ContractNext
<1> QED BY <1>1, <1>2, <1>3, PTL DEF Spec, RefinesContract, Contract!Spec
=============================================================================
