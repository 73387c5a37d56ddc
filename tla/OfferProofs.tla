----------------------------- MODULE OfferProofs -----------------------------
(***************************************************************************)
(* Proofs about the offers of the action-proposal protocol: one open offer *)
(* per session, and one per idempotency key.                               *)
(***************************************************************************)
EXTENDS ActionProposalProofs

\* A call in one of these steps has locked the head of its playbook and pinned its offer.
OfferPC == {"customer", "scan", "insert"}

KeyOf(row) == <<row.session, row.origin, row.playbook, row.revision, row.target>>
KeyIn(in) == <<in.session, in.turn, in.playbook, in.revision, in.target>>

Present(p) == proposals[p].status # "ABSENT"

\* A preparation past the head lock still finds its revision published and no offer with
\* its key; past the customer lock nobody else can insert, and what it found open has
\* lapsed.
PrepInv(r) ==
    LET t == tx[r] IN
    /\ t.pc \in OfferPC =>
          /\ headLock[t.in.playbook] = r
          /\ KeyOf(t.row) = KeyIn(t.in) /\ t.in.revision = head[t.in.playbook]
          /\ \A p \in Proposal : Present(p) => KeyOf(proposals[p]) # KeyIn(t.in)
    /\ t.pc \in {"scan", "insert"} => customerLock = r
    /\ t.pc = "insert" =>
          /\ Active(proposals, t.in.session) \subseteq t.lapsed
          /\ \A q \in t.lapsed : Present(q) => proposals[q].session = t.in.session

KeysDiffer ==
    \A p, q \in Proposal :
        Present(p) /\ Present(q) /\ KeyOf(proposals[p]) = KeyOf(proposals[q]) => p = q

OfferInv == SafeInv /\ OneActiveProposal /\ KeysDiffer /\ \A r \in Request : PrepInv(r)
-----------------------------------------------------------------------------
(* Rows.                                                                   *)

\* No row appears, none is reopened, and none changes its content.
RowsGo ==
    \A p \in Proposal : proposals'[p].status # "ABSENT" =>
        /\ Present(p)
        /\ Business(proposals'[p]) = Business(proposals[p])
        /\ proposals'[p].status \in ACTIVE_PROPOSAL_STATUSES =>
              proposals[p].status \in ACTIVE_PROPOSAL_STATUSES

\* Saving a row that is there leaves the absent ones absent.
LEMMA SaveAbsent ==
    ASSUME TypeOK, NEW r \in Request, NEW row, NEW stages, Save(r, row, stages),
           Present(tx[r].in.proposal), NEW p \in Proposal, ~Present(p)
    PROVE  proposals'[p].status = "ABSENT"
BY DEF Save, TypeOK, Present

\* Only an insertion makes a row.
LEMMA AbsentStays ==
    ASSUME SafeInv, [Next]_vars, \A r \in Request : ~PrepareInsert(r),
           NEW p \in Proposal, ~Present(p)
    PROVE  proposals'[p].status = "ABSENT"
<1>0. TypeOK /\ \A r \in Request : TxInv(r)
    BY DEF SafeInv, TypeInv
<1>1. ASSUME UNCHANGED proposals PROVE proposals'[p].status = "ABSENT"
    BY <1>1 DEF Present
<1>2. CASE ResetData
    BY <1>2 DEF ResetData, NoRow
<1>3. CASE (Environment /\ ~ResetData) \/ UNCHANGED vars \/ \E r \in Request : Begin(r) \/ Abort(r)
    BY <1>1, <1>3
    DEF Environment, Tick, Settle, BumpGeneration, NextTurn, Resume, Publish, Begin,
        BeginPrepare, BeginDecision, Abort, Rollback, tables, vars
<1>4. ASSUME NEW r \in Request, PrepareStep(r) PROVE proposals'[p].status = "ABSENT"
    BY <1>1, <1>4
    DEF PrepareStep, PrepareReplay, PrepareLookup, PrepareFacts, PrepareCustomer, PrepareScan,
        Rollback, tables
<1>5. ASSUME NEW r \in Request, DecisionStep(r) PROVE proposals'[p].status = "ABSENT"
  <2> DEFINE d == tx[r].in.proposal
  <2>1. ASSUME NEW row, NEW stages, Dispose(r, row, stages), Present(d)
        PROVE  proposals'[p].status = "ABSENT"
      BY <1>0, <2>1, SaveAbsent DEF Dispose
  <2>2. tx[r].pc \in HoldingPC => Present(d)
      BY <1>0 DEF TxInv, Present
  <2>3. CommitAttest(r) => UNCHANGED proposals
      BY DEF CommitAttest, Rollback, RollbackExpired, tables
  <2>4. CommitClaim(r) => proposals'[p].status = "ABSENT"
      BY <1>1, <2>1, <2>2 DEF CommitClaim, HoldingPC, Rollback, tables
  <2>5. CommitSignals(r) => proposals'[p].status = "ABSENT"
      BY <1>1, <2>1, <2>2 DEF CommitSignals, HoldingPC, tables
  <2>6. CommitLock(r) => proposals'[p].status = "ABSENT"
      BY <1>1, <2>1, <2>2 DEF CommitLock, HoldingPC, tables
  <2>7. CommitExecute(r) => proposals'[p].status = "ABSENT"
      BY <1>0, <2>2, SaveAbsent DEF CommitExecute, HoldingPC
  <2>8. DecidePresent(r) => proposals'[p].status = "ABSENT"
    <3>1. Admitted(proposals[d], tx[r].in) => Present(d)
        BY DEF Admitted, Present
    <3> QED BY <1>1, <2>1, <3>1 DEF DecidePresent, Rollback, RollbackExpired, tables
  <2>9. DecideApply(r) => proposals'[p].status = "ABSENT"
      BY <1>1, <2>1, <2>2 DEF DecideApply, HoldingPC, RollbackExpired, tables
  <2>10. RejectExpired(r) => proposals'[p].status = "ABSENT"
      BY <1>1, <2>1 DEF RejectExpired, Present, Rollback, tables
  <2> QED BY <1>1, <1>5, <2>3, <2>4, <2>5, <2>6, <2>7, <2>8, <2>9, <2>10 DEF DecisionStep
<1> QED BY <1>2, <1>3, <1>4, <1>5 DEF Next, Step

\* Every other step only resolves offers, or deletes them.
LEMMA RowsOnlyGo ==
    ASSUME SafeInv, [Next]_vars, \A r \in Request : ~PrepareInsert(r)
    PROVE  RowsGo
<1> SUFFICES ASSUME NEW p \in Proposal, proposals'[p].status # "ABSENT"
             PROVE  /\ Present(p)
                    /\ Business(proposals'[p]) = Business(proposals[p])
                    /\ proposals'[p].status \in ACTIVE_PROPOSAL_STATUSES =>
                          proposals[p].status \in ACTIVE_PROPOSAL_STATUSES
    BY DEF RowsGo
<1>1. Present(p)
    BY AbsentStays
<1>2. Immutable(p) /\ TableInv(p)
    BY SafeInvNext DEF StepGoal, SafeInv
<1> QED BY <1>1, <1>2
        DEF Immutable, TableInv, Present, ACTIVE_PROPOSAL_STATUSES, TERMINAL_STATUSES

\* What an insertion does to the rows.
LEMMA Inserted ==
    ASSUME SafeInv, NEW r \in Request, PrepareInsert(r)
    PROVE  /\ nextProposal \in Proposal /\ ~Present(nextProposal)
           /\ tx[r].pc = "insert" /\ tx[r].row.status = "PROPOSED"
           /\ proposals'[nextProposal] = tx[r].row
           /\ \A p \in tx[r].lapsed :
                /\ p \in Proposal /\ p # nextProposal
                /\ proposals[p].status = "PROPOSED" /\ proposals'[p] = Expired(proposals[p])
           /\ \A p \in Proposal :
                p # nextProposal /\ p \notin tx[r].lapsed => proposals'[p] = proposals[p]
<1> DEFINE np == nextProposal
<1>1. TypeOK /\ TxInv(r)
    BY DEF SafeInv, TypeInv
<1>2. np \in Proposal
    BY <1>1 DEF PrepareInsert, TypeOK, Proposal
<1>3. ~Present(np)
  <2>1. TableInv(np) /\ np >= np
      BY <1>1, <1>2 DEF SafeInv, TypeOK
  <2> QED BY <2>1 DEF TableInv, Present
<1>4. /\ tx[r].pc = "insert" /\ tx[r].row.status = "PROPOSED" /\ tx[r].lapsed \in SUBSET Proposal
      /\ \A p \in tx[r].lapsed : proposals[p].status = "PROPOSED"
    BY <1>1 DEF PrepareInsert, TxInv, TypeOK
<1>5. \A p \in tx[r].lapsed : p \in Proposal /\ p # np
    BY <1>3, <1>4 DEF Present
<1>6. proposals' = [p \in Proposal |->
            CASE p = np -> tx[r].row
              [] p \in tx[r].lapsed -> Expired(proposals[p])
              [] OTHER -> proposals[p]]
    BY DEF PrepareInsert
<1>7. proposals'[np] = tx[r].row
    BY <1>2, <1>5, <1>6
<1>8. \A p \in tx[r].lapsed : proposals'[p] = Expired(proposals[p])
    BY <1>5, <1>6
<1>9. \A p \in Proposal : p # np /\ p \notin tx[r].lapsed => proposals'[p] = proposals[p]
    BY <1>6
<1> QED BY <1>2, <1>3, <1>4, <1>5, <1>7, <1>8, <1>9
-----------------------------------------------------------------------------
(* Locks.                                                                  *)

\* The offer locks of another call.
Keeps(q) ==
    /\ tx'[q] = tx[q]
    /\ \A d \in Playbook : headLock[d] = q => headLock'[d] = q /\ head'[d] = head[d]
    /\ customerLock = q => customerLock' = q

\* The end of a transaction frees only its own locks.
LEMMA UnlockKeeps ==
    ASSUME TypeOK, NEW r \in Request, NEW q \in Request \ {r}, Finish(r) \/ RollbackExpired(r),
           UNCHANGED world
    PROVE  Keeps(q)
<1>1. tx'[q] = tx[q] /\ Unlock(r)
    BY TxAfter DEF Finish, RollbackExpired
<1> QED BY <1>1 DEF Keeps, Unlock, Free, TypeOK, world

\* Calls change the tables only.
LEMMA CallsKeepWorld ==
    ASSUME NEW r \in Request, Begin(r) \/ Step(r) \/ Abort(r)
    PROVE  UNCHANGED world
<1>1. Begin(r) \/ Abort(r) \/ PrepareStep(r) => UNCHANGED world
    BY DEF Begin, BeginPrepare, BeginDecision, Abort, PrepareStep, PrepareReplay, PrepareLookup,
           PrepareFacts, PrepareCustomer, PrepareScan, PrepareInsert
<1>2. DecisionStep(r) => UNCHANGED world
    BY DEF DecisionStep, CommitAttest, CommitClaim, CommitSignals, CommitLock, CommitExecute,
           DecidePresent, DecideApply, RejectExpired
<1> QED BY <1>1, <1>2 DEF Step

\* A step of one call leaves the offer locks of the others.
LEMMA OthersKept ==
    ASSUME TypeOK, NEW r \in Request, NEW q \in Request \ {r}, Begin(r) \/ Step(r) \/ Abort(r)
    PROVE  Keeps(q)
<1>0. UNCHANGED world /\ UNCHANGED head
    BY CallsKeepWorld DEF world
<1>1. tx'[q] = tx[q]
  <2>1. CASE Begin(r)
    <3>1. tx \in [Request -> Tx]
        BY DEF TypeOK, Tx
    <3>2. \A x : tx' = [tx EXCEPT ![r] = x] => tx'[q] = tx[q]
        BY <3>1
    <3> QED BY <2>1, <3>2 DEF Begin, BeginPrepare, BeginDecision
  <2>2. CASE Step(r) \/ Abort(r)
      BY <2>2, StepKeepsInput
  <2> QED BY <2>1, <2>2
<1>2. CASE Begin(r)
    BY <1>0, <1>1, <1>2 DEF Begin, BeginPrepare, BeginDecision, locks, Keeps
<1>3. CASE Finish(r) \/ RollbackExpired(r)
    BY <1>0, <1>3, UnlockKeeps
<1>4. CASE PrepareFacts(r) /\ ~Finish(r)
  <2>1. /\ headLock[tx[r].in.playbook] = Nobody
        /\ headLock' = [headLock EXCEPT ![tx[r].in.playbook] = r]
        /\ customerLock' = customerLock
      BY <1>4 DEF PrepareFacts, Rollback
  <2> QED BY <1>0, <1>1, <2>1, NobodyIsNoRequest DEF Keeps, TypeOK
<1>5. CASE PrepareCustomer(r)
    BY <1>0, <1>1, <1>5, NobodyIsNoRequest DEF PrepareCustomer, Keeps
<1>6. CASE UNCHANGED <<headLock, customerLock>>
    BY <1>0, <1>1, <1>6 DEF Keeps
<1>7. Step(r) \/ Abort(r) =>
        \/ Finish(r) \/ RollbackExpired(r) \/ PrepareFacts(r) \/ PrepareCustomer(r)
        \/ UNCHANGED <<headLock, customerLock>>
  <2>1. PrepareStep(r) \/ Abort(r) =>
            \/ Finish(r) \/ PrepareFacts(r) \/ PrepareCustomer(r)
            \/ UNCHANGED <<headLock, customerLock>>
      BY DEF PrepareStep, PrepareReplay, PrepareLookup, PrepareScan, PrepareInsert, Abort,
             Rollback, locks
  <2>2. CommitAttest(r) \/ CommitClaim(r) \/ CommitSignals(r) \/ CommitLock(r) \/ CommitExecute(r)
            => Finish(r) \/ RollbackExpired(r) \/ UNCHANGED <<headLock, customerLock>>
      BY DEF CommitAttest, CommitClaim, CommitSignals, CommitLock, CommitExecute, Rollback,
             Dispose, locks
  <2>3. DecidePresent(r) \/ DecideApply(r) \/ RejectExpired(r)
            => Finish(r) \/ RollbackExpired(r) \/ UNCHANGED <<headLock, customerLock>>
      BY DEF DecidePresent, DecideApply, RejectExpired, Rollback, Dispose
  <2> QED BY <2>1, <2>2, <2>3 DEF Step, DecisionStep
<1> QED BY <1>2, <1>3, <1>4, <1>5, <1>6, <1>7
-----------------------------------------------------------------------------
(* One open offer, one offer per key.                                      *)

\* Rows that only go leave at most one of each kind.
LEMMA GoneKeepsOne ==
    ASSUME OfferInv, RowsGo
    PROVE  OneActiveProposal' /\ KeysDiffer'
<1>1. \A s \in Session : Active(proposals', s) \subseteq Active(proposals, s)
    BY DEF RowsGo, Active, Business, ACTIVE_PROPOSAL_STATUSES
<1>2. OneActiveProposal'
    BY <1>1 DEF OfferInv, OneActiveProposal, Active
<1>3. \A p \in Proposal : proposals'[p].status # "ABSENT" =>
            Present(p) /\ KeyOf(proposals'[p]) = KeyOf(proposals[p])
    BY DEF RowsGo, Business, KeyOf
<1>4. KeysDiffer'
    BY <1>3 DEF OfferInv, KeysDiffer, Present, KeyOf
<1> QED BY <1>2, <1>4

\* A preparation under way elsewhere is not disturbed by rows that only go.
LEMMA GoneKeepsPrep ==
    ASSUME OfferInv, RowsGo, NEW q \in Request, Keeps(q)
    PROVE  PrepInv(q)'
<1> DEFINE t == tx[q]
<1>1. PrepInv(q) /\ tx[q].in \in Input
    BY DEF OfferInv, SafeInv, TypeInv, TypeOK
<1>2. \A p \in Proposal : proposals'[p].status # "ABSENT" =>
            Present(p) /\ KeyOf(proposals'[p]) = KeyOf(proposals[p])
    BY DEF RowsGo, Business, KeyOf
<1>3. Active(proposals', tx[q].in.session) \subseteq Active(proposals, tx[q].in.session)
    BY DEF RowsGo, Active, Business, ACTIVE_PROPOSAL_STATUSES
<1>4. /\ tx'[q] = tx[q]
      /\ headLock[tx[q].in.playbook] = q =>
            headLock'[tx[q].in.playbook] = q /\ head'[tx[q].in.playbook] = head[tx[q].in.playbook]
      /\ customerLock = q => customerLock' = q
    BY <1>1 DEF Keeps, Input
<1>5. t.pc = "insert" => \A p \in t.lapsed : proposals'[p].status # "ABSENT" =>
            proposals'[p].session = t.in.session
  <2>1. t.lapsed \in SUBSET Proposal
      BY DEF OfferInv, SafeInv, TypeInv, TypeOK
  <2> QED BY <1>1, <2>1 DEF PrepInv, RowsGo, Business
<1> QED BY <1>1, <1>2, <1>3, <1>4, <1>5 DEF PrepInv, Present, KeyOf, KeyIn

\* The offer carries the key it was looked up by.
LEMMA OfferKey ==
    ASSUME TypeOK, NEW in \in Input
    PROVE  /\ KeyOf(Offer(in)) = KeyIn(in)
           /\ Idempotent(proposals, in) = {} =>
                \A p \in Proposal : Present(p) => KeyOf(proposals[p]) # KeyIn(in)
<1>1. KeyOf(Offer(in)) = KeyIn(in)
    BY DefaultsType DEF Offer, KeyOf, KeyIn, Row
<1>2. Idempotent(proposals, in) = {} =>
                \A p \in Proposal : Present(p) => KeyOf(proposals[p]) # KeyIn(in)
    BY DEF Idempotent, Present, KeyOf, KeyIn
<1> QED BY <1>1, <1>2

\* The preparation that takes the step: it looks under the head lock, then under the
\* customer lock.
LEMMA OwnPrep ==
    ASSUME OfferInv, NEW r \in Request, Begin(r) \/ Step(r) \/ Abort(r), ~PrepareInsert(r)
    PROVE  PrepInv(r)'
<1> DEFINE t == tx[r]
<1>0. /\ TypeOK /\ PrepInv(r) /\ t \in Tx /\ t.in \in Input /\ t.in.playbook \in Playbook
      /\ tx \in [Request -> Tx]
    BY DEF OfferInv, SafeInv, TypeInv, TypeOK, Tx, Input
<1>1. ASSUME tx'[r].pc \notin OfferPC PROVE PrepInv(r)'
    BY <1>1 DEF PrepInv, OfferPC
<1>2. CASE Finish(r) \/ RollbackExpired(r)
    BY <1>0, <1>1, <1>2, TxAfter DEF Idle, OfferPC
<1>3. CASE Begin(r)
  <2>1. ASSUME NEW in, NEW pc \in {"lookup", "attest", "decide"},
               tx' = [tx EXCEPT ![r] = [Idle EXCEPT !.pc = pc, !.in = in]]
        PROVE  tx'[r].pc \notin OfferPC
      BY <1>0, <2>1 DEF Idle, OfferPC
  <2> QED BY <1>1, <1>3, <2>1 DEF Begin, BeginPrepare, BeginDecision
<1>4. CASE PrepareLookup(r)
    BY <1>0, <1>1, <1>4, TxAfter DEF PrepareLookup, OfferPC
<1>5. CASE PrepareFacts(r) /\ ~Finish(r)
  <2>1. /\ Idempotent(proposals, t.in) = {} /\ UNCHANGED <<proposals, head>>
        /\ t.in.revision = head[t.in.playbook]
        /\ headLock' = [headLock EXCEPT ![t.in.playbook] = r]
        /\ Goto(r, "customer", Offer(t.in), {"PROPOSED"})
      BY <1>5 DEF PrepareFacts, Rollback, tables, world
  <2>2. /\ tx'[r].pc = "customer" /\ tx'[r].in = t.in /\ tx'[r].row = Offer(t.in)
        /\ headLock'[t.in.playbook] = r
      BY <1>0, <2>1, TxAfter DEF TypeOK
  <2> QED BY <1>0, <2>1, <2>2, OfferKey DEF PrepInv, Present, KeyOf, KeyIn
<1>6. CASE PrepareCustomer(r)
  <2>1. /\ tx'[r].pc = "scan" /\ tx'[r].in = t.in /\ tx'[r].row = t.row
        /\ t.pc = "customer" /\ customerLock' = r /\ UNCHANGED <<proposals, headLock, head>>
      BY <1>0, <1>6, TxAfter DEF PrepareCustomer, tables, world
  <2> QED BY <1>0, <2>1 DEF PrepInv, OfferPC, Present, KeyOf, KeyIn
<1>7. CASE PrepareScan(r) /\ ~Finish(r)
  <2> DEFINE active == Active(proposals, t.in.session)
  <2>1. /\ t.pc = "scan" /\ UNCHANGED <<proposals, headLock, customerLock, head>>
        /\ tx' = [tx EXCEPT ![r] = [@ EXCEPT !.pc = "insert", !.lapsed = active]]
      BY <1>7 DEF PrepareScan, Rollback, tables, world
  <2>2. /\ tx'[r].pc = "insert" /\ tx'[r].in = t.in /\ tx'[r].row = t.row
        /\ tx'[r].lapsed = active
      BY <1>0, <2>1 DEF Tx
  <2>3. \A p \in active : proposals[p].session = t.in.session
      BY DEF Active
  <2> HIDE DEF active
  <2>4. active = Active(proposals, t.in.session)
      BY DEF active
  <2> QED BY <1>0, <2>1, <2>2, <2>3, <2>4 DEF PrepInv, OfferPC, Present, KeyOf, KeyIn
<1>8. CASE DecisionStep(r) /\ ~Finish(r) /\ ~RollbackExpired(r)
  <2>1. ASSUME NEW pc \in HoldingPC, NEW row, NEW stages, Goto(r, pc, row, stages)
        PROVE  tx'[r].pc \notin OfferPC
      BY <1>0, <2>1, TxAfter DEF HoldingPC, OfferPC
  <2>2. CommitAttest(r) \/ DecidePresent(r) => tx'[r].pc \notin OfferPC
      BY <1>8, <2>1 DEF CommitAttest, DecidePresent, Rollback, Dispose, HoldingPC
  <2>3. CommitClaim(r) \/ CommitSignals(r) \/ CommitLock(r) => tx'[r].pc \notin OfferPC
      BY <1>8, <2>1 DEF CommitClaim, CommitSignals, CommitLock, Rollback, Dispose, HoldingPC
  <2>4. ~CommitExecute(r) /\ ~DecideApply(r) /\ ~RejectExpired(r)
      BY <1>8 DEF CommitExecute, DecideApply, RejectExpired, Rollback, Dispose
  <2> QED BY <1>1, <1>8, <2>2, <2>3, <2>4 DEF DecisionStep
<1>9. PrepareReplay(r) \/ Abort(r) => Finish(r)
    BY DEF PrepareReplay, Abort, Rollback
<1> QED BY <1>2, <1>3, <1>4, <1>5, <1>6, <1>7, <1>8, <1>9 DEF Step, PrepareStep

\* An insertion finds its session without an open offer and its key unused, and no other
\* preparation for that session or playbook can be past its locks.
LEMMA InsertKeepsOne ==
    ASSUME OfferInv, NEW r \in Request, PrepareInsert(r), SafeInv'
    PROVE  OfferInv'
<1> DEFINE np == nextProposal
           t == tx[r]
<1>0. /\ TypeOK /\ PrepInv(r) /\ t.in \in Input /\ t.row \in Row
      /\ proposals \in [Proposal -> Row]
    BY DEF OfferInv, SafeInv, TypeInv, TypeOK
<1>1. /\ np \in Proposal /\ ~Present(np) /\ t.pc = "insert" /\ t.row.status = "PROPOSED"
      /\ proposals'[np] = t.row
    BY Inserted DEF OfferInv
<1>2. ASSUME NEW p \in Proposal, p # np, proposals'[p].status # "ABSENT"
      PROVE  /\ Present(p) /\ Business(proposals'[p]) = Business(proposals[p])
             /\ proposals'[p].status \in ACTIVE_PROPOSAL_STATUSES =>
                    p \notin t.lapsed /\ proposals'[p] = proposals[p]
  <2>1. CASE p \in t.lapsed
    <3>1. proposals[p].status = "PROPOSED" /\ proposals'[p] = Expired(proposals[p])
        BY <2>1, Inserted DEF OfferInv
    <3>2. /\ proposals'[p].status = "EXPIRED"
          /\ Business(proposals'[p]) = Business(proposals[p])
        BY <1>0, <3>1, ExpiredRow
    <3> QED BY <3>1, <3>2 DEF Present, ACTIVE_PROPOSAL_STATUSES
  <2>2. CASE p \notin t.lapsed
    <3>1. proposals'[p] = proposals[p]
        BY <1>2, <2>2, Inserted DEF OfferInv
    <3> QED BY <1>2, <2>2, <3>1 DEF Present
  <2> QED BY <2>1, <2>2
<1>3. /\ KeyOf(t.row) = KeyIn(t.in) /\ t.row.session = t.in.session
      /\ t.row.playbook = t.in.playbook
      /\ \A p \in Proposal : Present(p) => KeyOf(proposals[p]) # KeyIn(t.in)
      /\ Active(proposals, t.in.session) \subseteq t.lapsed
      /\ customerLock = r /\ headLock[t.in.playbook] = r
    BY <1>0, <1>1 DEF PrepInv, OfferPC, KeyOf, KeyIn
<1>4. \A p \in Proposal : p # np /\ proposals'[p].status # "ABSENT" =>
            KeyOf(proposals'[p]) = KeyOf(proposals[p])
    BY <1>2 DEF Business, KeyOf
<1>5. OneActiveProposal'
  <2> SUFFICES ASSUME NEW s \in Session, NEW p \in Active(proposals', s),
                      NEW q \in Active(proposals', s), p # q
               PROVE  FALSE
      BY DEF OneActiveProposal
  <2>1. ASSUME NEW x \in Active(proposals', s), x # np
        PROVE  x \in Active(proposals, s) /\ x \notin t.lapsed
    <3>1. x \in Proposal /\ proposals'[x].status \in ACTIVE_PROPOSAL_STATUSES
          /\ proposals'[x].session = s
        BY DEF Active
    <3>2. proposals'[x] = proposals[x] /\ x \notin t.lapsed
        BY <1>2, <2>1, <3>1 DEF ACTIVE_PROPOSAL_STATUSES
    <3> QED BY <3>1, <3>2 DEF Active
  <2>2. CASE p = np \/ q = np
    <3>1. s = t.in.session
        BY <1>1, <1>3, <2>2 DEF Active
    <3> QED BY <1>3, <2>1, <2>2, <3>1
  <2>3. CASE p # np /\ q # np
      BY <2>1, <2>3 DEF OfferInv, OneActiveProposal
  <2> QED BY <2>2, <2>3
<1>6. KeysDiffer'
  <2> SUFFICES ASSUME NEW p \in Proposal, NEW q \in Proposal,
                      proposals'[p].status # "ABSENT", proposals'[q].status # "ABSENT",
                      KeyOf(proposals'[p]) = KeyOf(proposals'[q]), p # q
               PROVE  FALSE
      BY DEF KeysDiffer, Present, KeyOf
  <2>1. CASE p = np \/ q = np
      BY <1>1, <1>2, <1>3, <1>4, <2>1
  <2>2. CASE p # np /\ q # np
      BY <1>2, <1>4, <2>2 DEF OfferInv, KeysDiffer
  <2> QED BY <2>1, <2>2
<1>7. ASSUME NEW q \in Request PROVE PrepInv(q)'
  <2>1. CASE q = r
    <3>1. tx'[q].pc = "idle"
        BY <1>0, <2>1, TxAfter DEF PrepareInsert, Idle
    <3> QED BY <3>1 DEF PrepInv, OfferPC
  <2>2. CASE q # r
    <3>1. Keeps(q)
        BY <1>0, <2>2, OthersKept DEF Step, PrepareStep
    <3>2. PrepInv(q) /\ tx[q].in \in Input /\ tx[q].in.playbook \in Playbook
        BY DEF OfferInv, SafeInv, TypeInv, TypeOK, Input
    <3>3. tx'[q] = tx[q] /\ tx[q].pc \notin {"scan", "insert"}
        BY <1>3, <2>2, <3>1, <3>2 DEF Keeps, PrepInv
    <3>4. CASE tx[q].pc \in OfferPC
      <4>1. /\ headLock[tx[q].in.playbook] = q /\ headLock'[tx[q].in.playbook] = q
            /\ head'[tx[q].in.playbook] = head[tx[q].in.playbook]
          BY <3>1, <3>2, <3>4 DEF PrepInv, Keeps
      <4>2. KeyOf(t.row) # KeyIn(tx[q].in)
          BY <1>3, <2>2, <4>1 DEF KeyOf, KeyIn
      <4>3. ASSUME NEW p \in Proposal, proposals'[p].status # "ABSENT"
            PROVE  KeyOf(proposals'[p]) # KeyIn(tx[q].in)
          BY <1>1, <1>2, <1>4, <3>2, <3>4, <4>2, <4>3 DEF PrepInv
      <4> QED BY <3>2, <3>3, <3>4, <4>1, <4>3 DEF PrepInv, Present, KeyOf, KeyIn
    <3>5. CASE tx[q].pc \notin OfferPC
        BY <3>3, <3>5 DEF PrepInv, OfferPC
    <3> QED BY <3>4, <3>5
  <2> QED BY <2>1, <2>2
<1> QED BY <1>5, <1>6, <1>7 DEF OfferInv

\* Every step preserves the invariant of offers.
LEMMA OfferInvNext == OfferInv /\ [Next]_vars => OfferInv'
<1> SUFFICES ASSUME OfferInv, [Next]_vars PROVE OfferInv'
    OBVIOUS
<1>1. SafeInv' /\ TypeOK
    BY SafeInvNext DEF StepGoal, OfferInv, SafeInv, TypeInv
<1>2. CASE \E r \in Request : PrepareInsert(r)
    BY <1>1, <1>2, InsertKeepsOne
<1>3. CASE \A r \in Request : ~PrepareInsert(r)
  <2>1. RowsGo
      BY <1>3, RowsOnlyGo DEF OfferInv
  <2>2. OneActiveProposal' /\ KeysDiffer'
      BY <2>1, GoneKeepsOne
  <2>3. ASSUME NEW q \in Request PROVE PrepInv(q)'
    <3>1. CASE Environment \/ UNCHANGED vars
      <4>1. Keeps(q)
          BY <1>1, <3>1, NobodyIsNoRequest
          DEF Environment, Tick, Settle, ResetData, BumpGeneration, NextTurn, Resume, Publish,
              locks, world, vars, Keeps, TypeOK
      <4> QED BY <2>1, <4>1, GoneKeepsPrep
    <3>2. ASSUME NEW r \in Request, Begin(r) \/ Step(r) \/ Abort(r) PROVE PrepInv(q)'
      <4>1. CASE q = r
          BY <1>3, <3>2, <4>1, OwnPrep
      <4>2. CASE q # r
          BY <1>1, <2>1, <3>2, <4>2, OthersKept, GoneKeepsPrep
      <4> QED BY <4>1, <4>2
    <3> QED BY <3>1, <3>2 DEF Next
  <2> QED BY <1>1, <2>2, <2>3 DEF OfferInv
<1> QED BY <1>2, <1>3

\* Initially there is no offer.
LEMMA OfferInvInit == Init => OfferInv
<1> SUFFICES ASSUME Init PROVE OfferInv
    OBVIOUS
<1>1. \A p \in Proposal : proposals[p].status = "ABSENT"
    BY DEF Init, NoRow
<1>2. OneActiveProposal /\ KeysDiffer
    BY <1>1 DEF OneActiveProposal, KeysDiffer, Active, Present, ACTIVE_PROPOSAL_STATUSES
<1>3. \A r \in Request : tx[r].pc = "idle"
    BY DEF Init, Idle
<1> QED BY <1>2, <1>3, SafeInvInit DEF OfferInv, PrepInv, OfferPC

\* The invariant of offers holds of every behaviour.
LEMMA OfferInvariance == Spec => []OfferInv
BY OfferInvInit, OfferInvNext, PTL DEF Spec

\* A support session never has two unresolved offers, for any number of racing, repeated
\* and aborted preparations (_lock_and_find_active_proposal).
THEOREM OneOpenOffer == Spec => []OneActiveProposal
<1>1. OfferInv => OneActiveProposal
    BY DEF OfferInv
<1> QED BY OfferInvariance, <1>1, PTL

\* No two offers carry one idempotency key, though the lookup takes no lock on what it
\* does not find (_find_idempotent_proposal).
THEOREM KeysAreUnique == Spec => []OneOfferPerKey
<1>1. ASSUME OfferInv PROVE OneOfferPerKey
  <2> SUFFICES ASSUME NEW p \in Proposal, NEW q \in Proposal,
                      proposals[p].status # "ABSENT", proposals[q].status # "ABSENT",
                      \A f \in {"session", "origin", "playbook", "revision", "target"} :
                          proposals[p][f] = proposals[q][f]
               PROVE  p = q
      BY DEF OneOfferPerKey
  <2>1. KeyOf(proposals[p]) = KeyOf(proposals[q])
      BY DEF KeyOf
  <2> QED BY <1>1, <2>1 DEF OfferInv, KeysDiffer, Present
<1> QED BY OfferInvariance, <1>1, PTL

\* Only an insertion moves the next id.
LEMMA OnlyInsertionsCount ==
    ASSUME [Next]_vars, \A r \in Request : ~PrepareInsert(r)
    PROVE  UNCHANGED nextProposal
<1>1. CASE Environment \/ UNCHANGED vars \/ \E r \in Request : Begin(r) \/ Abort(r)
    BY <1>1
    DEF Environment, Tick, Settle, ResetData, BumpGeneration, NextTurn, Resume, Publish,
        Begin, BeginPrepare, BeginDecision, Abort, Rollback, tables, vars
<1>2. ASSUME NEW r \in Request, PrepareStep(r) PROVE UNCHANGED nextProposal
    BY <1>2
    DEF PrepareStep, PrepareReplay, PrepareLookup, PrepareFacts, PrepareCustomer, PrepareScan,
        Rollback, tables
<1>3. ASSUME NEW r \in Request, DecisionStep(r) PROVE UNCHANGED nextProposal
    BY <1>3
    DEF DecisionStep, CommitAttest, CommitClaim, CommitSignals, CommitLock, CommitExecute,
        DecidePresent, DecideApply, RejectExpired, Dispose, Rollback, RollbackExpired, tables
<1> QED BY <1>1, <1>2, <1>3 DEF Next, Step

\* A fresh offer pins the revision that is published when it commits (lock_published
\* keeps the head locked from the comparison to COMMIT).
THEOREM OffersPinTheHead == Spec => FreshOffersPinThePublishedRevision
<1> DEFINE Pinned == nextProposal' # nextProposal =>
                LET row == proposals'[nextProposal] IN row.revision = head[row.playbook]
<1>1. ASSUME OfferInv, [Next]_vars PROVE Pinned
  <2> SUFFICES ASSUME nextProposal' # nextProposal
               PROVE  LET row == proposals'[nextProposal] IN row.revision = head[row.playbook]
      OBVIOUS
  <2>1. PICK r \in Request : PrepareInsert(r)
      BY <1>1, OnlyInsertionsCount
  <2>2. tx[r].pc = "insert" /\ proposals'[nextProposal] = tx[r].row
      BY <1>1, <2>1, Inserted DEF OfferInv
  <2>3. KeyOf(tx[r].row) = KeyIn(tx[r].in) /\ tx[r].in.revision = head[tx[r].in.playbook]
      BY <1>1, <2>2 DEF OfferInv, PrepInv, OfferPC
  <2> QED BY <2>2, <2>3 DEF KeyOf, KeyIn
<1>2. OfferInv /\ [Next]_vars => [Pinned]_vars
    BY <1>1
<1> QED BY OfferInvInit, OfferInvNext, <1>2, PTL
        DEF Spec, FreshOffersPinThePublishedRevision
=============================================================================
