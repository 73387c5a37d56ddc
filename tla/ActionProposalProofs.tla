------------------------ MODULE ActionProposalProofs ------------------------
(***************************************************************************)
(* Proofs about the action-proposal protocol, for every number of calls,   *)
(* sessions, playbooks, rows, resets and charges.                          *)
(***************************************************************************)
EXTENDS ActionProposal, TLAPS

\* A call in one of these steps holds the lock of the row it decides on.
HoldingPC == {"claim", "signals", "lock", "execute", "apply"}
DecisionPC == HoldingPC \cup {"attest", "decide", "reject"}

Tx == [pc: PC, in: Input, row: Row, stages: SUBSET Stage, lapsed: SUBSET Proposal]

\* A decision names a row that was inserted before the call began.
DecisionsNameRows ==
    \A r \in Request : tx[r].pc \in DecisionPC =>
        tx[r].in.proposal \in Proposal /\ tx[r].in.proposal < nextProposal

TypeInv == TypeOK /\ DecisionsNameRows
-----------------------------------------------------------------------------
(* Typing of rows, inputs and transactions.                                *)

\* The default row, the default input and an idle transaction are well typed.
LEMMA DefaultsType ==
    NoRow \in Row /\ NoInput \in Input /\ Idle \in Tx
<1>1. (CHOOSE s \in Session : TRUE) \in Session /\ (CHOOSE d \in Playbook : TRUE) \in Playbook
    BY ConstantsAssumption
<1>2. NoRow \in Row
    BY <1>1, ConstantsAssumption
    DEF NoRow, Row, Status, ACTIVE_PROPOSAL_STATUSES, TERMINAL_STATUSES, Reason, Account
<1>3. NoRow.session \in Session /\ NoRow.playbook \in Playbook
    BY <1>1 DEF NoRow
<1>4. NoInput \in Input
    BY <1>3 DEF NoInput, Input, Operation
<1>5. Idle \in Tx
    BY <1>2, <1>4 DEF Idle, Tx, PC
<1> QED BY <1>2, <1>4, <1>5

\* Every transition of a row that the code makes keeps it well typed.
LEMMA RowEdits ==
    ASSUME NEW row \in Row
    PROVE  /\ \A n, m \in Nat :
                /\ [row EXCEPT !.status = "CONFIRMED", !.presented = n, !.decided = m] \in Row
                /\ [row EXCEPT !.status = "PRESENTED", !.presented = n, !.decided = m] \in Row
                /\ [row EXCEPT !.status = "COMMITTING", !.claimed = n] \in Row
           /\ [row EXCEPT !.status = "COMMITTED"] \in Row
           /\ [row EXCEPT !.status = "DECLINED", !.reason = "CUSTOMER_DECLINED"] \in Row
           /\ Expired(row) \in Row
           /\ \A x \in Reason : Invalidated(row, x) \in Row
<1>1. {"CONFIRMED", "PRESENTED", "COMMITTING", "COMMITTED", "DECLINED", "EXPIRED", "INVALIDATED"}
         \subseteq Status
    BY DEF Status, ACTIVE_PROPOSAL_STATUSES, TERMINAL_STATUSES
<1>2. "CUSTOMER_DECLINED" \in Reason /\ "PROPOSAL_EXPIRED" \in Reason
    BY DEF Reason
<1>3. ASSUME NEW n \in Nat, NEW m \in Nat
      PROVE  /\ [row EXCEPT !.status = "CONFIRMED", !.presented = n, !.decided = m] \in Row
             /\ [row EXCEPT !.status = "PRESENTED", !.presented = n, !.decided = m] \in Row
             /\ [row EXCEPT !.status = "COMMITTING", !.claimed = n] \in Row
    BY <1>1 DEF Row
<1>4. [row EXCEPT !.status = "COMMITTED"] \in Row
    BY <1>1 DEF Row
<1>5. [row EXCEPT !.status = "DECLINED", !.reason = "CUSTOMER_DECLINED"] \in Row
    BY <1>1, <1>2 DEF Row
<1>6. Expired(row) \in Row
    BY <1>1, <1>2 DEF Row, Expired
<1>7. ASSUME NEW x \in Reason PROVE Invalidated(row, x) \in Row
    BY <1>1 DEF Row, Invalidated
<1> QED BY <1>3, <1>4, <1>5, <1>6, <1>7

\* Expiry leaves the offer's content alone.
LEMMA ExpiredRow ==
    ASSUME NEW row \in Row
    PROVE  Expired(row).status = "EXPIRED" /\ Business(Expired(row)) = Business(row)
BY DEF Row, Expired, Business

\* The four lock variables.
LockType ==
    /\ rowLock \in [Proposal -> Request \cup {Nobody}]
    /\ headLock \in [Playbook -> Request \cup {Nobody}]
    /\ customerLock \in Request \cup {Nobody}
    /\ accountLock \in [Account -> Request \cup {Nobody}]

\* Ending a transaction leaves it idle and its locks free.
LEMMA FinishType ==
    ASSUME TypeOK, NEW r \in Request, Finish(r)
    PROVE  tx' \in [Request -> Tx] /\ LockType'
<1>1. tx \in [Request -> Tx]
    BY DEF TypeOK, Tx
<1>2. tx' \in [Request -> Tx]
    BY <1>1, DefaultsType DEF Finish
<1>3. LockType'
    BY DEF TypeOK, Finish, Unlock, Free, LockType
<1> QED BY <1>2, <1>3

LEMMA RollbackExpiredType ==
    ASSUME TypeOK, NEW r \in Request, RollbackExpired(r)
    PROVE  tx' \in [Request -> Tx] /\ LockType'
<1>1. tx[r].in \in Input
    BY DEF TypeOK
<1>2. [Idle EXCEPT !.pc = "reject", !.in = tx[r].in] \in Tx
    BY <1>1, DefaultsType DEF Tx, PC
<1>3. tx' \in [Request -> Tx]
    BY <1>2 DEF TypeOK, Tx, RollbackExpired
<1>4. LockType'
    BY DEF TypeOK, RollbackExpired, Unlock, Free, LockType
<1> QED BY <1>3, <1>4

LEMMA GotoType ==
    ASSUME TypeOK, NEW r \in Request, NEW pc \in PC, NEW row \in Row,
           NEW stages \in SUBSET Stage, Goto(r, pc, row, stages)
    PROVE  tx' \in [Request -> Tx]
BY DEF TypeOK, Goto, Tx

LEMMA SaveType ==
    ASSUME TypeOK, NEW r \in Request, NEW row \in Row, NEW stages \in SUBSET Stage,
           tx[r].in.proposal \in Proposal, Save(r, row, stages)
    PROVE  proposals' \in [Proposal -> Row] /\ audit' \subseteq Proposal \X Stage
BY DEF TypeOK, Save

\* A claim that fails saves a well-typed row and ends the transaction.
LEMMA DisposeType ==
    ASSUME TypeOK, NEW r \in Request, NEW row \in Row, NEW stages \in SUBSET Stage,
           tx[r].in.proposal \in Proposal, Dispose(r, row, stages), UNCHANGED world
    PROVE  TypeOK'
<1>1. tx' \in [Request -> Tx] /\ LockType'
    BY FinishType DEF Dispose
<1>2. proposals' \in [Proposal -> Row] /\ audit' \subseteq Proposal \X Stage
    BY SaveType DEF Dispose
<1> QED BY <1>1, <1>2 DEF TypeOK, LockType, Tx, Dispose, world

\* Rolling back changes nothing but the transaction.
LEMMA RollbackType ==
    ASSUME TypeOK, NEW r \in Request, UNCHANGED world,
           Rollback(r) \/ RollbackExpired(r)
    PROVE  TypeOK'
<1>1. tx' \in [Request -> Tx] /\ LockType'
    BY FinishType, RollbackExpiredType DEF Rollback
<1>2. UNCHANGED tables
    BY DEF Rollback, RollbackExpired
<1> QED BY <1>1, <1>2 DEF TypeOK, LockType, Tx, tables, world

\* A step that only moves its transaction on, and may take a lock.
LEMMA GotoKeepsType ==
    ASSUME TypeOK, NEW r \in Request, NEW pc \in PC, NEW row \in Row,
           NEW stages \in SUBSET Stage, Goto(r, pc, row, stages),
           UNCHANGED <<tables, world>>, LockType'
    PROVE  TypeOK'
<1>1. tx' \in [Request -> Tx]
    BY GotoType
<1> QED BY <1>1 DEF TypeOK, LockType, Tx, tables, world
-----------------------------------------------------------------------------
(* Every step keeps the types.                                             *)

LEMMA BeginKeepsType ==
    ASSUME TypeOK, NEW r \in Request, Begin(r)
    PROVE  TypeOK'
<1>1. ASSUME NEW s \in Session, NEW d \in Playbook, NEW rev \in 1..MaxRevision,
             NEW t \in Target, BeginPrepare(r, s, d, rev, t)
      PROVE  TypeOK'
    <2> DEFINE in == [NoInput EXCEPT !.session = s, !.turn = turn[s], !.gen = token[s],
                        !.playbook = d, !.revision = rev, !.target = t]
    <2>0. rev \in Nat /\ t \in Nat /\ turn[s] \in Nat /\ token[s] \in Nat
        BY ConstantsAssumption DEF TypeOK
    <2>1. in \in Input
        BY <2>0, DefaultsType DEF Input
    <2>2. [Idle EXCEPT !.pc = "lookup", !.in = in] \in Tx
        BY <2>1, DefaultsType DEF Tx, PC
    <2>3. tx' \in [Request -> Tx]
        BY <1>1, <2>2 DEF TypeOK, Tx, BeginPrepare
    <2> QED BY <1>1, <2>3 DEF TypeOK, Tx, BeginPrepare, tables, locks, world
<1>2. ASSUME NEW op \in Operation \ {"PREPARE"}, NEW s \in Session, NEW p \in Proposal,
             NEW shown \in 0..MaxTurn, BeginDecision(r, op, s, p, shown)
      PROVE  TypeOK'
    <2> DEFINE in == [NoInput EXCEPT !.op = op, !.session = s, !.turn = turn[s],
                        !.gen = token[s], !.shown = shown, !.proposal = p]
               pc == IF op = "COMMIT" THEN "attest" ELSE "decide"
    <2>0. shown \in Nat /\ p \in Nat /\ turn[s] \in Nat /\ token[s] \in Nat
        BY ConstantsAssumption DEF TypeOK, Proposal
    <2>1. in \in Input
        BY <2>0, DefaultsType DEF Input
    <2>2. [Idle EXCEPT !.pc = pc, !.in = in] \in Tx
        BY <2>1, DefaultsType DEF Tx, PC
    <2>3. tx' \in [Request -> Tx]
        BY <1>2, <2>2 DEF TypeOK, Tx, BeginDecision
    <2> QED BY <1>2, <2>3 DEF TypeOK, Tx, BeginDecision, tables, locks, world
<1> QED BY <1>1, <1>2 DEF Begin

\* The offer pins what was read from well-typed tables.
LEMMA OfferType ==
    ASSUME TypeOK, NEW in \in Input
    PROVE  Offer(in) \in Row
<1>1. accounts[openAccount] \in CreditAccount /\ openAccount \in Account /\ now + Ttl \in Nat
    BY ConstantsAssumption DEF TypeOK
<1> QED BY <1>1, DefaultsType
        DEF Offer, Row, Input, CreditAccount, Status, ACTIVE_PROPOSAL_STATUSES

LEMMA PrepareKeepsType ==
    ASSUME TypeOK, NEW r \in Request, PrepareStep(r)
    PROVE  TypeOK'
<1> DEFINE t == tx[r]
<1>0. /\ t.in \in Input /\ t.row \in Row /\ t.stages \in SUBSET Stage
      /\ t.lapsed \in SUBSET Proposal /\ tx \in [Request -> Tx] /\ t \in Tx
    BY DEF TypeOK, Tx
<1>1. CASE PrepareReplay(r)
    BY <1>1, RollbackType DEF PrepareReplay
<1>2. CASE PrepareLookup(r)
    <2>1. LockType'
        BY <1>2 DEF PrepareLookup, locks, LockType, TypeOK
    <2> QED BY <1>2, <2>1, GotoKeepsType, DefaultsType DEF PrepareLookup, PC, Stage
<1>3. CASE PrepareFacts(r)
    <2>1. CASE Rollback(r)
        BY <1>3, <2>1, RollbackType DEF PrepareFacts
    <2>2. CASE /\ headLock' = [headLock EXCEPT ![t.in.playbook] = r]
               /\ Goto(r, "customer", Offer(t.in), {"PROPOSED"})
               /\ UNCHANGED <<tables, rowLock, customerLock, accountLock>>
        <3>1. LockType'
            BY <2>2 DEF LockType, TypeOK
        <3>2. Offer(t.in) \in Row /\ {"PROPOSED"} \in SUBSET Stage /\ "customer" \in PC
            BY <1>0, OfferType DEF Stage, PC
        <3> QED BY <1>3, <2>2, <3>1, <3>2, GotoKeepsType DEF PrepareFacts
    <2> QED BY <1>3, <2>1, <2>2 DEF PrepareFacts
<1>4. CASE PrepareCustomer(r)
    <2>1. LockType'
        BY <1>4 DEF PrepareCustomer, LockType, TypeOK
    <2> QED BY <1>0, <1>4, <2>1, GotoKeepsType DEF PrepareCustomer, PC
<1>5. CASE PrepareScan(r)
    <2> DEFINE active == Active(proposals, t.in.session)
    <2>1. CASE Rollback(r)
        BY <1>5, <2>1, RollbackType DEF PrepareScan
    <2>2. CASE /\ rowLock' = [p \in Proposal |-> IF p \in active THEN r ELSE rowLock[p]]
               /\ \E l \in SUBSET Proposal :
                    tx' = [tx EXCEPT ![r] = [@ EXCEPT !.pc = "insert", !.lapsed = l]]
               /\ UNCHANGED <<tables, headLock, customerLock, accountLock>>
        <3>0. PICK l \in SUBSET Proposal :
                tx' = [tx EXCEPT ![r] = [@ EXCEPT !.pc = "insert", !.lapsed = l]]
            BY <2>2
        <3>a. [t EXCEPT !.pc = "insert", !.lapsed = l] \in Tx
            BY <1>0 DEF Tx, PC
        <3>1. tx' \in [Request -> Tx]
            BY <1>0, <3>0, <3>a
        <3>2. rowLock' \in [Proposal -> Request \cup {Nobody}]
            BY <2>2 DEF TypeOK
        <3> QED BY <1>5, <2>2, <3>1, <3>2 DEF TypeOK, Tx, PrepareScan, tables, world
    <2>3. active \in SUBSET Proposal
        BY DEF Active
    <2> QED BY <1>5, <2>1, <2>2, <2>3 DEF PrepareScan
<1>6. CASE PrepareInsert(r)
    <2>1. tx' \in [Request -> Tx] /\ LockType'
        BY <1>6, FinishType DEF PrepareInsert
    <2>2. \A p \in Proposal : Expired(proposals[p]) \in Row
        BY RowEdits DEF TypeOK
    <2>3. proposals' \in [Proposal -> Row]
        BY <1>0, <1>6, <2>2 DEF PrepareInsert, TypeOK
    <2>4. nextProposal \in Proposal
        BY <1>6 DEF PrepareInsert, TypeOK, Proposal
    <2>5. audit' \subseteq Proposal \X Stage
        BY <1>0, <1>6, <2>4 DEF PrepareInsert, TypeOK, Stage, TERMINAL_STATUSES
    <2>6. nextProposal' \in 1..MaxProposals + 1
        BY <1>6, ConstantsAssumption DEF PrepareInsert, TypeOK
    <2> QED BY <1>6, <2>1, <2>3, <2>5, <2>6 DEF TypeOK, LockType, Tx, PrepareInsert, world
<1> QED BY <1>1, <1>2, <1>3, <1>4, <1>5, <1>6 DEF PrepareStep

\* All stages the code records are stages.
LEMMA StagesType ==
    /\ TERMINAL_STATUSES \subseteq Stage
    /\ {"PRESENTED", "CONFIRMED", "COMMIT_STARTED", "INVALIDATED", "EXPIRED",
        "DECLINED", "COMMITTED"} \subseteq Stage
    /\ {"CUSTOMER_REVISED", "CUSTOMER_CANCELLED", "RESET_GENERATION_CHANGED",
        "CREDIT_SIGNALS_CHANGED", "CREDIT_LIMIT_POLICY_CHANGED"} \subseteq Reason
BY DEF Stage, TERMINAL_STATUSES, Reason

LEMMA CommitKeepsType ==
    ASSUME TypeInv, NEW r \in Request,
           CommitAttest(r) \/ CommitClaim(r) \/ CommitSignals(r) \/ CommitLock(r)
               \/ CommitExecute(r)
    PROVE  TypeOK'
<1> DEFINE t == tx[r]
           p == tx[r].in.proposal
           row == tx[r].row
<1> USE DEF TypeInv
<1>0. /\ t.in \in Input /\ row \in Row /\ t.stages \in SUBSET Stage
      /\ t.pc \in PC /\ now \in Nat /\ t.in.shown \in Nat /\ t.in.turn \in Nat
    BY DEF TypeOK, Input
<1>1. CASE CommitAttest(r)
    <2>1. p \in Proposal /\ proposals[p] \in Row
        BY <1>1 DEF CommitAttest, DecisionsNameRows, DecisionPC, TypeOK
    <2>2. CASE Rollback(r) \/ RollbackExpired(r)
        BY <1>1, <2>2, RollbackType DEF CommitAttest
    <2>3. CASE /\ Lock(r, p)
               /\ \/ Goto(r, "claim", [proposals[p] EXCEPT !.status = "CONFIRMED",
                            !.presented = t.in.shown, !.decided = t.in.turn],
                          {"PRESENTED", "CONFIRMED"})
                  \/ Goto(r, "claim", proposals[p], {})
               /\ UNCHANGED <<tables, headLock, customerLock, accountLock>>
        <3>1. LockType'
            BY <2>3 DEF LockType, TypeOK, Lock
        <3>2. /\ "claim" \in PC
              /\ {"PRESENTED", "CONFIRMED"} \in SUBSET Stage /\ {} \in SUBSET Stage
            BY StagesType DEF PC
        <3>3. [proposals[p] EXCEPT !.status = "CONFIRMED", !.presented = t.in.shown,
                                   !.decided = t.in.turn] \in Row
            BY <1>0, <2>1, RowEdits
        <3> QED BY <1>1, <2>1, <2>3, <3>1, <3>2, <3>3, GotoKeepsType DEF CommitAttest
    <2> QED BY <1>1, <2>2, <2>3 DEF CommitAttest
<1>2. CASE CommitClaim(r)
    <2>1. p \in Proposal
        BY <1>2 DEF CommitClaim, DecisionsNameRows, DecisionPC, HoldingPC
    <2>2. CASE Rollback(r)
        BY <1>2, <2>2, RollbackType DEF CommitClaim
    <2>3. CASE Dispose(r, Expired(row), t.stages \cup {"EXPIRED"})
        <3>1. Expired(row) \in Row /\ t.stages \cup {"EXPIRED"} \in SUBSET Stage
            BY <1>0, RowEdits, StagesType
        <3>2. UNCHANGED world
            BY <1>2 DEF CommitClaim
        <3> HIDE DEF TypeInv
        <3>3. TypeOK
            BY DEF TypeInv
        <3> QED BY <2>1, <2>3, <3>1, <3>2, <3>3, DisposeType
    <2>4. CASE Dispose(r, Invalidated(row, "RESET_GENERATION_CHANGED"),
                       t.stages \cup {"INVALIDATED"})
        <3>1. Invalidated(row, "RESET_GENERATION_CHANGED") \in Row /\ t.stages \cup {"INVALIDATED"} \in SUBSET Stage
            BY <1>0, RowEdits, StagesType
        <3>2. UNCHANGED world
            BY <1>2 DEF CommitClaim
        <3> HIDE DEF TypeInv
        <3>3. TypeOK
            BY DEF TypeInv
        <3> QED BY <2>1, <2>4, <3>1, <3>2, <3>3, DisposeType
    <2>5. CASE /\ Goto(r, "signals", [row EXCEPT !.status = "COMMITTING", !.claimed = now],
                       t.stages \cup {"COMMIT_STARTED"})
               /\ UNCHANGED <<tables, locks>>
        <3>1. LockType'
            BY <2>5 DEF LockType, TypeOK, locks
        <3>2. "signals" \in PC /\ t.stages \cup {"COMMIT_STARTED"} \in SUBSET Stage
            BY <1>0, StagesType DEF PC
        <3>3. [row EXCEPT !.status = "COMMITTING", !.claimed = now] \in Row
            BY <1>0, RowEdits
        <3> QED BY <1>2, <2>5, <3>1, <3>2, <3>3, GotoKeepsType DEF CommitClaim
    <2> QED BY <1>2, <2>2, <2>3, <2>4, <2>5 DEF CommitClaim
<1>3. CASE CommitSignals(r)
    <2>1. p \in Proposal
        BY <1>3 DEF CommitSignals, DecisionsNameRows, DecisionPC, HoldingPC
    <2>2. CASE Dispose(r, Invalidated(row, "CREDIT_SIGNALS_CHANGED"),
                       t.stages \cup {"INVALIDATED"})
        <3>1. Invalidated(row, "CREDIT_SIGNALS_CHANGED") \in Row /\ t.stages \cup {"INVALIDATED"} \in SUBSET Stage
            BY <1>0, RowEdits, StagesType
        <3>2. UNCHANGED world
            BY <1>3 DEF CommitSignals
        <3> HIDE DEF TypeInv
        <3>3. TypeOK
            BY DEF TypeInv
        <3> QED BY <2>1, <2>2, <3>1, <3>2, <3>3, DisposeType
    <2>3. CASE Goto(r, "lock", row, t.stages) /\ UNCHANGED <<tables, locks>>
        <3>1. LockType'
            BY <2>3 DEF LockType, TypeOK, locks
        <3> QED BY <1>0, <1>3, <2>3, <3>1, GotoKeepsType DEF CommitSignals, PC
    <2> QED BY <1>3, <2>2, <2>3 DEF CommitSignals
<1>4. CASE CommitLock(r)
    <2>1. p \in Proposal
        BY <1>4 DEF CommitLock, DecisionsNameRows, DecisionPC, HoldingPC
    <2>2. CASE Dispose(r, Invalidated(row, "CREDIT_LIMIT_POLICY_CHANGED"),
                       t.stages \cup {"INVALIDATED"})
        <3>1. Invalidated(row, "CREDIT_LIMIT_POLICY_CHANGED") \in Row /\ t.stages \cup {"INVALIDATED"} \in SUBSET Stage
            BY <1>0, RowEdits, StagesType
        <3>2. UNCHANGED world
            BY <1>4 DEF CommitLock
        <3> HIDE DEF TypeInv
        <3>3. TypeOK
            BY DEF TypeInv
        <3> QED BY <2>1, <2>2, <3>1, <3>2, <3>3, DisposeType
    <2>3. CASE /\ accountLock' = [accountLock EXCEPT ![row.account] = r]
               /\ Goto(r, "execute", row, t.stages)
               /\ UNCHANGED <<tables, rowLock, headLock, customerLock>>
        <3>1. LockType'
            BY <2>3 DEF LockType, TypeOK
        <3> QED BY <1>0, <1>4, <2>3, <3>1, GotoKeepsType DEF CommitLock, PC
    <2> QED BY <1>4, <2>2, <2>3 DEF CommitLock
<1>5. CASE CommitExecute(r)
    <2>1. p \in Proposal
        BY <1>5 DEF CommitExecute, DecisionsNameRows, DecisionPC, HoldingPC
    <2>2. tx' \in [Request -> Tx] /\ LockType'
        BY <1>5, FinishType DEF CommitExecute
    <2>a. /\ [row EXCEPT !.status = "COMMITTED"] \in Row
          /\ t.stages \cup {"COMMITTED"} \in SUBSET Stage
        BY <1>0, RowEdits, StagesType
    <2>3. proposals' \in [Proposal -> Row] /\ audit' \subseteq Proposal \X Stage
        BY <1>5, <2>1, <2>a, SaveType DEF CommitExecute
    <2>4. row.target \in Nat
        BY <1>0 DEF Row
    <2>5. ASSUME NEW a \in CreditAccount PROVE Apply(row, a) \in CreditAccount
        BY <2>4 DEF Apply, CreditAccount
    <2>6. accounts' \in [Account -> CreditAccount]
        BY <1>5, <2>5 DEF CommitExecute, TypeOK
    <2>7. effects' \in [Proposal -> Nat]
        BY <1>5, <2>1 DEF CommitExecute, TypeOK
    <2> QED BY <1>5, <2>2, <2>3, <2>6, <2>7 DEF CommitExecute, TypeOK, LockType, Tx, world
<1> QED BY <1>1, <1>2, <1>3, <1>4, <1>5

LEMMA DecideKeepsType ==
    ASSUME TypeInv, NEW r \in Request,
           DecidePresent(r) \/ DecideApply(r) \/ RejectExpired(r) \/ Abort(r)
    PROVE  TypeOK'
<1> DEFINE t == tx[r]
           p == tx[r].in.proposal
           row == tx[r].row
<1> USE DEF TypeInv
<1>0. /\ t.in \in Input /\ row \in Row /\ t.stages \in SUBSET Stage
      /\ t.pc \in PC /\ now \in Nat /\ t.in.shown \in Nat /\ t.in.turn \in Nat
    BY DEF TypeOK, Input
<1>1. CASE DecidePresent(r)
    <2>1. p \in Proposal /\ proposals[p] \in Row
        BY <1>1 DEF DecidePresent, DecisionsNameRows, DecisionPC, TypeOK
    <2>2. CASE Rollback(r) \/ RollbackExpired(r)
        BY <1>1, <2>2, RollbackType DEF DecidePresent
    <2>3. CASE Dispose(r, Invalidated(proposals[p], "RESET_GENERATION_CHANGED"),
                       {"INVALIDATED"})
        BY <1>1, <2>1, <2>3, DisposeType, RowEdits, StagesType DEF DecidePresent
    <2>4. CASE /\ Lock(r, p)
               /\ Goto(r, "apply", [proposals[p] EXCEPT !.status = "PRESENTED",
                            !.presented = t.in.shown, !.decided = t.in.turn],
                       {"PRESENTED"})
               /\ UNCHANGED <<tables, headLock, customerLock, accountLock>>
        <3>1. LockType'
            BY <2>4 DEF LockType, TypeOK, Lock
        <3>2. "apply" \in PC /\ {"PRESENTED"} \in SUBSET Stage
            BY StagesType DEF PC
        <3>3. [proposals[p] EXCEPT !.status = "PRESENTED", !.presented = t.in.shown,
                                   !.decided = t.in.turn] \in Row
            BY <1>0, <2>1, RowEdits
        <3> QED BY <1>1, <2>4, <3>1, <3>2, <3>3, GotoKeepsType DEF DecidePresent
    <2> QED BY <1>1, <2>2, <2>3, <2>4 DEF DecidePresent
<1>2. CASE DecideApply(r)
    <2>1. p \in Proposal
        BY <1>2 DEF DecideApply, DecisionsNameRows, DecisionPC, HoldingPC
    <2>2. CASE RollbackExpired(r)
        BY <1>2, <2>2, RollbackType DEF DecideApply
    <2>3. CASE Dispose(r, [row EXCEPT !.status = "DECLINED", !.reason = "CUSTOMER_DECLINED"],
                       t.stages \cup {"DECLINED"})
        <3>1. /\ [row EXCEPT !.status = "DECLINED", !.reason = "CUSTOMER_DECLINED"] \in Row
              /\ t.stages \cup {"DECLINED"} \in SUBSET Stage
            BY <1>0, RowEdits, StagesType
        <3> QED BY <1>2, <2>1, <2>3, <3>1, DisposeType DEF DecideApply
    <2>4. ASSUME NEW why \in {"CUSTOMER_REVISED", "CUSTOMER_CANCELLED"},
                 Dispose(r, Invalidated(row, why), t.stages \cup {"INVALIDATED"})
          PROVE  TypeOK'
        <3>1. Invalidated(row, why) \in Row /\ t.stages \cup {"INVALIDATED"} \in SUBSET Stage
            BY <1>0, RowEdits, StagesType
        <3>2. UNCHANGED world
            BY <1>2 DEF DecideApply
        <3> HIDE DEF TypeInv
        <3>3. TypeOK
            BY DEF TypeInv
        <3> QED BY <2>1, <2>4, <3>1, <3>2, <3>3, DisposeType
    <2> QED BY <1>2, <2>2, <2>3, <2>4 DEF DecideApply
<1>3. CASE RejectExpired(r)
    <2>1. p \in Proposal /\ proposals[p] \in Row
        BY <1>3 DEF RejectExpired, DecisionsNameRows, DecisionPC, TypeOK
    <2>2. CASE Rollback(r)
        BY <1>3, <2>2, RollbackType DEF RejectExpired
    <2>3. CASE Dispose(r, Expired(proposals[p]), {"EXPIRED"})
        <3>1. Expired(proposals[p]) \in Row /\ {"EXPIRED"} \in SUBSET Stage
            BY <2>1, RowEdits, StagesType
        <3>2. UNCHANGED world
            BY <1>3 DEF RejectExpired
        <3> HIDE DEF TypeInv
        <3>3. TypeOK
            BY DEF TypeInv
        <3> QED BY <2>1, <2>3, <3>1, <3>2, <3>3, DisposeType
    <2> QED BY <1>3, <2>2, <2>3 DEF RejectExpired
<1>4. CASE Abort(r)
    BY <1>4, RollbackType DEF Abort
<1> QED BY <1>1, <1>2, <1>3, <1>4

LEMMA EnvironmentKeepsType ==
    ASSUME TypeOK, Environment
    PROVE  TypeOK'
<1> USE ConstantsAssumption
<1>1. CASE Tick
    BY <1>1 DEF TypeOK, Tick, tables, locks
<1>2. CASE Settle
    <2>1. accounts' \in [Account -> CreditAccount]
        BY <1>2 DEF Settle, TypeOK, CreditAccount
    <2> QED BY <1>2, <2>1 DEF TypeOK, Settle, locks, world
<1>3. CASE ResetData
    <2>1. openAccount + 1 \in Account
        BY <1>3 DEF ResetData, TypeOK, Account
    <2>2. FreshAccount \in CreditAccount
        BY DEF FreshAccount, CreditAccount
    <2>3. [accounts[openAccount] EXCEPT !.status = "CLOSED"] \in CreditAccount
        BY DEF TypeOK, CreditAccount
    <2>4. accounts' \in [Account -> CreditAccount]
        BY <1>3, <2>1, <2>2, <2>3 DEF ResetData, TypeOK
    <2>5. proposals' \in [Proposal -> Row]
        BY <1>3, DefaultsType DEF ResetData
    <2> QED BY <1>3, <2>1, <2>4, <2>5 DEF TypeOK, ResetData, locks
<1>4. CASE BumpGeneration
    BY <1>4 DEF TypeOK, BumpGeneration, tables, locks
<1>5. ASSUME NEW s \in Session, NextTurn(s) \/ Resume(s)
      PROVE  TypeOK'
    BY <1>5 DEF TypeOK, NextTurn, Resume, tables, locks
<1>6. ASSUME NEW d \in Playbook, Publish(d)
      PROVE  TypeOK'
    BY <1>6 DEF TypeOK, Publish, tables, locks
<1> QED BY <1>1, <1>2, <1>3, <1>4, <1>5, <1>6 DEF Environment

\* What the three ways to move on leave in tx[r] and in the other transactions.
LEMMA TxAfter ==
    ASSUME TypeOK, NEW r \in Request
    PROVE  /\ Finish(r) => /\ tx'[r] = Idle
                           /\ \A q \in Request : q # r => tx'[q] = tx[q]
           /\ RollbackExpired(r) =>
                /\ tx'[r].pc = "reject" /\ tx'[r].in = tx[r].in /\ tx'[r].stages = {}
                /\ \A q \in Request : q # r => tx'[q] = tx[q]
           /\ \A pc, row, stages : Goto(r, pc, row, stages) =>
                /\ tx'[r].pc = pc /\ tx'[r].in = tx[r].in
                /\ tx'[r].row = row /\ tx'[r].stages = stages
                /\ \A q \in Request : q # r => tx'[q] = tx[q]
<1>1. tx \in [Request -> Tx]
    BY DEF TypeOK, Tx
<1>2. tx[r] \in Tx /\ Idle \in Tx
    BY <1>1, DefaultsType
<1>3. ASSUME NEW x \in Tx, tx' = [tx EXCEPT ![r] = x]
      PROVE  tx'[r] = x /\ \A q \in Request : q # r => tx'[q] = tx[q]
    BY <1>1, <1>3
<1>4. ASSUME Finish(r)
      PROVE  tx'[r] = Idle /\ \A q \in Request : q # r => tx'[q] = tx[q]
    BY <1>2, <1>3, <1>4 DEF Finish
<1>5. ASSUME RollbackExpired(r)
      PROVE  /\ tx'[r].pc = "reject" /\ tx'[r].in = tx[r].in /\ tx'[r].stages = {}
             /\ \A q \in Request : q # r => tx'[q] = tx[q]
    BY <1>1, <1>2, <1>5 DEF RollbackExpired, Idle, Tx
<1>6. ASSUME NEW pc, NEW row, NEW stages, Goto(r, pc, row, stages)
      PROVE  /\ tx'[r].pc = pc /\ tx'[r].in = tx[r].in
             /\ tx'[r].row = row /\ tx'[r].stages = stages
             /\ \A q \in Request : q # r => tx'[q] = tx[q]
    BY <1>1, <1>2, <1>6 DEF Goto, Tx
<1> QED BY <1>4, <1>5, <1>6

\* A step of r leaves the other transactions alone, and r's own stays a decision on
\* the same row if it is one afterwards.
LEMMA StepKeepsInput ==
    ASSUME TypeOK, NEW r \in Request, Step(r) \/ Abort(r)
    PROVE  /\ \A q \in Request : q # r => tx'[q] = tx[q]
           /\ tx'[r].pc \in DecisionPC =>
                  tx[r].pc \in DecisionPC /\ tx'[r].in = tx[r].in
<1> DEFINE Others == \A q \in Request : q # r => tx'[q] = tx[q]
           Kept == Others /\ (tx'[r].pc \in DecisionPC =>
                                tx[r].pc \in DecisionPC /\ tx'[r].in = tx[r].in)
<1>0. Idle.pc = "idle" /\ "idle" \notin DecisionPC
    BY DEF Idle, DecisionPC, HoldingPC
<1>1. ASSUME Finish(r) PROVE Kept
    BY <1>0, <1>1, TxAfter
<1>2. ASSUME RollbackExpired(r), tx[r].pc \in DecisionPC PROVE Kept
    BY <1>2, TxAfter
<1>3. ASSUME NEW pc, NEW row, NEW stages, Goto(r, pc, row, stages),
             tx[r].pc \in DecisionPC \/ pc \notin DecisionPC
      PROVE  Kept
    BY <1>3, TxAfter
<1>4. CASE PrepareReplay(r) \/ PrepareLookup(r) \/ PrepareFacts(r) \/ PrepareCustomer(r)
    BY <1>1, <1>3, <1>4
    DEF PrepareReplay, PrepareLookup, PrepareFacts, PrepareCustomer, Rollback, DecisionPC,
        HoldingPC
<1>5. CASE PrepareScan(r)
    <2>1. CASE Finish(r)
        BY <1>1, <2>1
    <2>2. ASSUME NEW l, tx' = [tx EXCEPT ![r] = [@ EXCEPT !.pc = "insert", !.lapsed = l]]
          PROVE  Kept
        <3>1. tx \in [Request -> Tx] /\ tx[r] \in Tx
            BY DEF TypeOK, Tx
        <3>2. tx'[r].pc = "insert" /\ Others
            BY <2>2, <3>1 DEF Tx
        <3> QED BY <3>2 DEF DecisionPC, HoldingPC
    <2> QED BY <1>5, <2>1, <2>2 DEF PrepareScan, Rollback
<1>6. CASE PrepareInsert(r)
    BY <1>1, <1>6 DEF PrepareInsert
<1>7. CASE DecisionStep(r) \/ Abort(r)
    <2>1. Abort(r) => Kept
        BY <1>1 DEF Abort, Rollback
    <2>2. CommitAttest(r) => Kept
        BY <1>1, <1>2, <1>3 DEF CommitAttest, Rollback, DecisionPC, HoldingPC
    <2>3. CommitClaim(r) => Kept
        BY <1>1, <1>3 DEF CommitClaim, Rollback, Dispose, DecisionPC, HoldingPC
    <2>4. CommitSignals(r) \/ CommitLock(r) => Kept
        BY <1>1, <1>3 DEF CommitSignals, CommitLock, Dispose, DecisionPC, HoldingPC
    <2>5. CommitExecute(r) => Kept
        BY <1>1 DEF CommitExecute
    <2>6. DecidePresent(r) => Kept
        BY <1>1, <1>2, <1>3 DEF DecidePresent, Rollback, Dispose, DecisionPC, HoldingPC
    <2>7. DecideApply(r) => Kept
        BY <1>1, <1>2 DEF DecideApply, Dispose, DecisionPC, HoldingPC
    <2>8. RejectExpired(r) => Kept
        BY <1>1 DEF RejectExpired, Rollback, Dispose
    <2> QED BY <1>7, <2>1, <2>2, <2>3, <2>4, <2>5, <2>6, <2>7, <2>8 DEF DecisionStep
<1> QED BY <1>4, <1>5, <1>6, <1>7 DEF Step, PrepareStep

\* Ids are never reused.
LEMMA IdsGrow ==
    ASSUME TypeOK, [Next]_vars
    PROVE  nextProposal' \in {nextProposal, nextProposal + 1}
<1>1. CASE Environment
    BY <1>1
    DEF Environment, Tick, Settle, ResetData, BumpGeneration, NextTurn,
        Resume, Publish, tables
<1>2. ASSUME NEW r \in Request, Begin(r)
      PROVE  nextProposal' = nextProposal
    BY <1>2 DEF Begin, BeginPrepare, BeginDecision, tables
<1>3. ASSUME NEW r \in Request, PrepareStep(r)
      PROVE  nextProposal' \in {nextProposal, nextProposal + 1}
    BY <1>3
    DEF PrepareStep, PrepareReplay, PrepareLookup, PrepareFacts, PrepareCustomer, PrepareScan,
        PrepareInsert, Rollback, tables
<1>4. ASSUME NEW r \in Request, DecisionStep(r) \/ Abort(r)
      PROVE  nextProposal' = nextProposal
    BY <1>4
    DEF DecisionStep, CommitAttest, CommitClaim, CommitSignals, CommitLock, CommitExecute,
        DecidePresent, DecideApply, RejectExpired, Abort, Rollback, RollbackExpired, Dispose,
        tables
<1> QED BY <1>1, <1>2, <1>3, <1>4 DEF Next, Step, vars, tables

\* A decision's row was there when it began and ids never go back.
LEMMA DecisionsKeepTheirRows ==
    ASSUME TypeInv, [Next]_vars
    PROVE  DecisionsNameRows'
<1> USE DEF TypeInv
<1>0. nextProposal \in Nat /\ nextProposal' \in {nextProposal, nextProposal + 1}
    BY IdsGrow, ConstantsAssumption DEF TypeOK
<1>1. CASE Environment \/ UNCHANGED vars
    <2>1. tx' = tx
        BY <1>1
        DEF Environment, Tick, Settle, ResetData, BumpGeneration, NextTurn,
            Resume, Publish, vars
    <2> QED BY <1>0, <2>1 DEF DecisionsNameRows, Proposal
<1>2. ASSUME NEW r \in Request, Begin(r)
      PROVE  DecisionsNameRows'
    <2>1. ASSUME NEW s \in Session, NEW d \in Playbook, NEW rev \in 1..MaxRevision,
                 NEW t \in Target, BeginPrepare(r, s, d, rev, t)
          PROVE  DecisionsNameRows'
        <3>1. /\ tx'[r].pc = "lookup"
              /\ \A q \in Request : q # r => tx'[q] = tx[q]
            BY <2>1 DEF BeginPrepare, TypeOK, Idle
        <3> QED BY <1>0, <3>1 DEF DecisionsNameRows, DecisionPC, HoldingPC, Proposal
    <2>2. ASSUME NEW op \in Operation \ {"PREPARE"}, NEW s \in Session, NEW p \in Proposal,
                 NEW shown \in 0..MaxTurn, BeginDecision(r, op, s, p, shown)
          PROVE  DecisionsNameRows'
        <3>1. /\ tx'[r].in.proposal = p
              /\ \A q \in Request : q # r => tx'[q] = tx[q]
            BY <2>2 DEF BeginDecision, TypeOK, Idle, NoInput
        <3>2. p < nextProposal
            BY <2>2 DEF BeginDecision
        <3> QED BY <1>0, <3>1, <3>2 DEF DecisionsNameRows, Proposal
    <2> QED BY <1>2, <2>1, <2>2 DEF Begin
<1>3. ASSUME NEW r \in Request, Step(r) \/ Abort(r)
      PROVE  DecisionsNameRows'
    <2>1. /\ \A q \in Request : q # r => tx'[q] = tx[q]
          /\ tx'[r].pc \in DecisionPC => tx[r].pc \in DecisionPC /\ tx'[r].in = tx[r].in
        BY <1>3, StepKeepsInput
    <2> QED BY <1>0, <2>1 DEF DecisionsNameRows, Proposal
<1> QED BY <1>1, <1>2, <1>3 DEF Next

LEMMA TypeInvInit == Init => TypeInv
<1> SUFFICES ASSUME Init PROVE TypeInv
    OBVIOUS
<1> USE ConstantsAssumption, DefaultsType
<1>1. FreshAccount \in CreditAccount /\ NoAccount \in CreditAccount
    BY DEF FreshAccount, NoAccount, CreditAccount
<1>2. accounts \in [Account -> CreditAccount] /\ openAccount \in Account
    BY <1>1 DEF Init, Account
<1>3. tx \in [Request -> Tx]
    BY DEF Init
<1>4. TypeOK
    BY <1>2, <1>3 DEF Init, TypeOK, Tx
<1>5. DecisionsNameRows
    BY DEF Init, DecisionsNameRows, DecisionPC, HoldingPC, Idle
<1> QED BY <1>4, <1>5 DEF TypeInv

LEMMA TypeInvNext == TypeInv /\ [Next]_vars => TypeInv'
<1> SUFFICES ASSUME TypeInv, [Next]_vars PROVE TypeInv'
    OBVIOUS
<1>1. DecisionsNameRows'
    BY DecisionsKeepTheirRows
<1>2. TypeOK'
    <2> USE DEF TypeInv
    <2>1. CASE Environment
        BY <2>1, EnvironmentKeepsType
    <2>2. ASSUME NEW r \in Request, Begin(r) \/ Step(r) \/ Abort(r)
          PROVE  TypeOK'
        BY <2>2, BeginKeepsType, PrepareKeepsType, CommitKeepsType, DecideKeepsType
        DEF Step, DecisionStep
    <2>3. CASE UNCHANGED vars
        BY <2>3 DEF TypeOK, vars, tables, locks, world
    <2> QED BY <2>1, <2>2, <2>3 DEF Next
<1> QED BY <1>1, <1>2 DEF TypeInv

\* In every run every variable stays in its domain.
THEOREM TypeCorrect == Spec => []TypeOK
<1>1. TypeInv => TypeOK
    BY DEF TypeInv
<1> QED BY <1>1, TypeInvInit, TypeInvNext, PTL DEF Spec
-----------------------------------------------------------------------------
(* An offer executes at most once.  The inductive invariant ties what a      *)
(* transaction carries to the committed row it has locked.                   *)

\* A call past the row lock works on a locked row that exists and whose offer it
\* copied; unless it only replays a resolved one, the committed row is PROPOSED.
\* A preparation about to insert has locked the lapsed offers it will expire.
TxInv(r) ==
    LET t == tx[r]
        p == t.in.proposal
    IN  /\ "COMMITTED" \notin t.stages
        /\ t.pc \in {"customer", "scan", "insert"} => t.row.status = "PROPOSED"
        /\ t.pc = "insert" => \A q \in t.lapsed :
                rowLock[q] = r /\ proposals[q].status = "PROPOSED"
        /\ t.pc \in HoldingPC =>
                /\ rowLock[p] = r
                /\ proposals[p].status # "ABSENT"
                /\ Business(t.row) = Business(proposals[p])
                /\ t.pc # "claim" \/ t.row.status = "CONFIRMED" =>
                        proposals[p].status = "PROPOSED"

\* The committed tables agree about offer p.
TableInv(p) ==
    /\ proposals[p].status \in {"ABSENT", "PROPOSED"} \cup TERMINAL_STATUSES
    /\ effects[p] = (IF <<p, "COMMITTED">> \in audit THEN 1 ELSE 0)
    /\ proposals[p].status # "ABSENT" => (effects[p] = 1 <=> proposals[p].status = "COMMITTED")
    /\ p >= nextProposal => proposals[p].status = "ABSENT" /\ effects[p] = 0

SafeInv ==
    /\ TypeInv
    /\ \A r \in Request : TxInv(r)
    /\ \A p \in Proposal : TableInv(p)

StepGoal == SafeInv' /\ \A p \in Proposal : Immutable(p)

\* Nobody is no caller, so a held lock tells its holder.
LEMMA NobodyIsNoRequest == \A r \in Request : r # Nobody
BY ConstantsAssumption

\* A step by r that respects the others' locks keeps their part of the invariant.
LEMMA OthersKeepTxInv ==
    ASSUME SafeInv, NEW q \in Request, tx'[q] = tx[q],
           \A p \in Proposal : rowLock[p] = q /\ proposals[p].status # "ABSENT" =>
                rowLock'[p] = q /\ proposals'[p] = proposals[p]
    PROVE  TxInv(q)'
<1>1. TxInv(q) /\ tx[q].lapsed \in SUBSET Proposal
    BY DEF SafeInv, TypeInv, TypeOK
<1>2. tx[q].pc \in HoldingPC => tx[q].in.proposal \in Proposal
    BY DEF SafeInv, TypeInv, DecisionsNameRows, DecisionPC
<1> QED BY <1>1, <1>2 DEF TxInv

\* Steps that leave the tables alone.
LEMMA QuietStep ==
    ASSUME SafeInv, TypeInv', NEW r \in Request, TxInv(r)',
           \A q \in Request : q # r => tx'[q] = tx[q],
           UNCHANGED tables,
           \A p \in Proposal : rowLock[p] \notin {r, Nobody} => rowLock'[p] = rowLock[p]
    PROVE  StepGoal
<1>1. ASSUME NEW q \in Request PROVE TxInv(q)'
    BY <1>1, OthersKeepTxInv, NobodyIsNoRequest DEF tables
<1>2. ASSUME NEW p \in Proposal PROVE TableInv(p)' /\ Immutable(p)
    BY DEF SafeInv, TableInv, Immutable, tables
<1> QED BY <1>1, <1>2 DEF SafeInv, StepGoal

\* What ending a transaction does to the row locks.
LEMMA UnlockRows ==
    ASSUME TypeOK, NEW r \in Request, Unlock(r), NEW p \in Proposal
    PROVE  rowLock'[p] = IF rowLock[p] = r THEN Nobody ELSE rowLock[p]
BY DEF TypeOK, Unlock, Free

LEMMA RollbackIsSafe ==
    ASSUME SafeInv, TypeInv', NEW r \in Request, Rollback(r) \/ RollbackExpired(r)
    PROVE  StepGoal
<1>1. /\ \A q \in Request : q # r => tx'[q] = tx[q]
      /\ tx'[r].pc \in {"idle", "reject"} /\ tx'[r].stages = {}
    BY TxAfter DEF SafeInv, TypeInv, Rollback, Idle
<1>2. TxInv(r)'
    BY <1>1 DEF TxInv, HoldingPC
<1>3. UNCHANGED tables /\ Unlock(r)
    BY DEF Rollback, RollbackExpired, Finish
<1> QED BY <1>1, <1>2, <1>3, QuietStep, UnlockRows DEF SafeInv, TypeInv

\* Ending in a failed claim: a PROPOSED row nobody else has locked is resolved.
LEMMA DisposeIsSafe ==
    ASSUME SafeInv, TypeInv', NEW r \in Request, NEW row, NEW stages,
           Dispose(r, row, stages), tx[r].pc \in DecisionPC,
           rowLock[tx[r].in.proposal] \in {r, Nobody},
           proposals[tx[r].in.proposal].status = "PROPOSED",
           Business(row) = Business(proposals[tx[r].in.proposal]),
           row.status \in TERMINAL_STATUSES \ {"COMMITTED"}, "COMMITTED" \notin stages
    PROVE  StepGoal
<1> DEFINE p == tx[r].in.proposal
<1>0. TypeOK /\ p \in Proposal /\ p < nextProposal
    BY DEF SafeInv, TypeInv, DecisionsNameRows
<1>1. /\ \A q \in Request : q # r => tx'[q] = tx[q]
      /\ tx'[r] = Idle
    BY <1>0, TxAfter DEF Dispose
<1>2. TxInv(r)'
    BY <1>1 DEF TxInv, HoldingPC, Idle
<1>3. /\ proposals'[p] = row
      /\ \A q \in Proposal : q # p => proposals'[q] = proposals[q]
    BY <1>0 DEF Dispose, Save, TypeOK
<1>4. ASSUME NEW q \in Request PROVE TxInv(q)'
    <2>1. CASE q # r
        <3>1. \A x \in Proposal : rowLock[x] = q => rowLock'[x] = q /\ proposals'[x] = proposals[x]
            BY <1>0, <1>3, <2>1, UnlockRows, NobodyIsNoRequest DEF Dispose, Finish
        <3> QED BY <1>1, <2>1, <3>1, OthersKeepTxInv
    <2> QED BY <1>2, <2>1
<1>5. \A q \in Proposal : <<q, "COMMITTED">> \in audit' <=> <<q, "COMMITTED">> \in audit
    BY DEF Dispose, Save
<1>6. ASSUME NEW q \in Proposal PROVE TableInv(q)' /\ Immutable(q)
    <2>1. UNCHANGED <<effects, nextProposal>>
        BY DEF Dispose
    <2>2. TableInv(q)
        BY DEF SafeInv
    <2>3. CASE q = p
        BY <1>0, <1>3, <1>5, <2>1, <2>2, <2>3
        DEF TableInv, Immutable, TERMINAL_STATUSES, TypeOK, Proposal
    <2>4. CASE q # p
        BY <1>3, <1>5, <2>1, <2>2, <2>4 DEF TableInv, Immutable
    <2> QED BY <2>3, <2>4
<1> QED BY <1>4, <1>6 DEF SafeInv, StepGoal

LEMMA BusinessKept ==
    ASSUME NEW row \in Row
    PROVE  /\ \A n, m, x :
                /\ Business([row EXCEPT !.status = x, !.presented = n, !.decided = m])
                        = Business(row)
                /\ Business([row EXCEPT !.status = x, !.claimed = n]) = Business(row)
                /\ Business([row EXCEPT !.status = x, !.reason = n]) = Business(row)
                /\ Business([row EXCEPT !.status = x]) = Business(row)
BY DEF Business, Row

\* A step that moves r on, holding r's locks and perhaps taking a free one.
LEMMA GotoIsSafe ==
    ASSUME SafeInv, TypeInv', NEW r \in Request, NEW pc, NEW row, NEW stages,
           Goto(r, pc, row, stages), UNCHANGED tables, TxInv(r)',
           \A p \in Proposal : rowLock[p] # Nobody => rowLock'[p] = rowLock[p]
    PROVE  StepGoal
BY QuietStep, TxAfter DEF SafeInv, TypeInv

LEMMA PrepareIsSafe ==
    ASSUME SafeInv, TypeInv', NEW r \in Request, PrepareStep(r)
    PROVE  StepGoal
<1> DEFINE t == tx[r]
<1>0. TypeOK /\ TxInv(r) /\ t \in Tx /\ tx \in [Request -> Tx] /\ r # Nobody
    BY NobodyIsNoRequest DEF SafeInv, TypeInv, TypeOK, Tx
<1>1. CASE Rollback(r)
    BY <1>1, RollbackIsSafe
<1>2. CASE PrepareLookup(r)
    <2>1. tx'[r].pc = "facts" /\ tx'[r].stages = {}
        BY <1>0, <1>2, TxAfter DEF PrepareLookup
    <2>2. TxInv(r)'
        BY <2>1 DEF TxInv, HoldingPC
    <2> QED BY <1>2, <2>2, GotoIsSafe DEF PrepareLookup, locks
<1>3. CASE PrepareFacts(r) /\ ~Rollback(r)
    <2>1. Goto(r, "customer", Offer(t.in), {"PROPOSED"})
        BY <1>3 DEF PrepareFacts
    <2>2. /\ tx'[r].pc = "customer" /\ tx'[r].row = Offer(t.in)
          /\ tx'[r].stages = {"PROPOSED"}
        BY <1>0, <2>1, TxAfter
    <2>3. Offer(t.in).status = "PROPOSED"
        BY DefaultsType DEF Offer, Row
    <2>4. TxInv(r)'
        BY <2>2, <2>3 DEF TxInv, HoldingPC
    <2> QED BY <1>3, <2>1, <2>4, GotoIsSafe DEF PrepareFacts
<1>4. CASE PrepareCustomer(r)
    <2>1. tx'[r].pc = "scan" /\ tx'[r].row = t.row /\ tx'[r].stages = t.stages
        BY <1>0, <1>4, TxAfter DEF PrepareCustomer
    <2>2. TxInv(r)'
        BY <1>0, <1>4, <2>1 DEF TxInv, HoldingPC, PrepareCustomer
    <2> QED BY <1>4, <2>2, GotoIsSafe DEF PrepareCustomer
<1>5. CASE PrepareScan(r) /\ ~Rollback(r)
    <2> DEFINE active == Active(proposals, t.in.session)
    <2>1. PICK lapsed \in SUBSET Proposal :
            /\ active = lapsed
            /\ rowLock' = [p \in Proposal |-> IF p \in active THEN r ELSE rowLock[p]]
            /\ tx' = [tx EXCEPT ![r] = [@ EXCEPT !.pc = "insert", !.lapsed = lapsed]]
            /\ UNCHANGED <<tables, headLock, customerLock, accountLock>>
            /\ t.pc = "scan" /\ \A p \in active : rowLock[p] = Nobody
        BY <1>5 DEF PrepareScan, Active
    <2>2. /\ tx'[r].pc = "insert" /\ tx'[r].row = t.row /\ tx'[r].stages = t.stages
          /\ tx'[r].lapsed = lapsed
          /\ \A q \in Request : q # r => tx'[q] = tx[q]
        BY <1>0, <2>1 DEF Tx
    <2>3. ASSUME NEW q \in lapsed PROVE rowLock'[q] = r /\ proposals'[q].status = "PROPOSED"
        <3>1. TableInv(q) /\ proposals[q].status \in ACTIVE_PROPOSAL_STATUSES
            BY <2>1 DEF SafeInv, Active
        <3>2. proposals[q].status = "PROPOSED"
            BY <3>1 DEF TableInv, ACTIVE_PROPOSAL_STATUSES, TERMINAL_STATUSES
        <3> QED BY <2>1, <3>2 DEF tables
    <2>4. TxInv(r)'
        BY <1>0, <2>1, <2>2, <2>3 DEF TxInv, HoldingPC
    <2>5. \A p \in Proposal : rowLock[p] # Nobody => rowLock'[p] = rowLock[p]
        BY <2>1
    <2> QED BY <2>1, <2>2, <2>4, <2>5, QuietStep
<1>6. CASE PrepareInsert(r)
    <2> DEFINE np == nextProposal
    <2>1. /\ t.pc = "insert" /\ np \in Proposal /\ nextProposal' = np + 1
          /\ t.row.status = "PROPOSED" /\ t.lapsed \in SUBSET Proposal
          /\ \A q \in t.lapsed : rowLock[q] = r /\ proposals[q].status = "PROPOSED"
        BY <1>0, <1>6 DEF PrepareInsert, TxInv, TypeOK, Proposal, Tx
    <2>2. proposals[np].status = "ABSENT" /\ effects[np] = 0
        <3>1. TableInv(np)
            BY <2>1 DEF SafeInv
        <3>2. np >= np
            BY <1>0 DEF TypeOK
        <3> QED BY <3>1, <3>2 DEF TableInv
    <2>3. /\ tx'[r] = Idle
          /\ \A q \in Request : q # r => tx'[q] = tx[q]
        BY <1>0, <1>6, TxAfter DEF PrepareInsert
    <2>4. TxInv(r)'
        BY <2>3 DEF TxInv, Idle, HoldingPC
    <2>5. /\ proposals'[np] = t.row
          /\ \A q \in Proposal : q # np /\ q \in t.lapsed => proposals'[q] = Expired(proposals[q])
          /\ \A q \in Proposal : q # np /\ q \notin t.lapsed => proposals'[q] = proposals[q]
        <3>1. proposals' = [q \in Proposal |->
                    CASE q = np -> t.row
                      [] q \in t.lapsed -> Expired(proposals[q])
                      [] OTHER -> proposals[q]]
            BY <1>6 DEF PrepareInsert
        <3>2. np \in t.lapsed => FALSE
            BY <2>1, <2>2
        <3>3. proposals'[np] = t.row
            BY <2>1, <3>1, <3>2
        <3>4. ASSUME NEW q \in Proposal, q # np, q \in t.lapsed
              PROVE  proposals'[q] = Expired(proposals[q])
            BY <3>1, <3>4
        <3>5. ASSUME NEW q \in Proposal, q # np, q \notin t.lapsed
              PROVE  proposals'[q] = proposals[q]
            BY <3>1, <3>5
        <3> QED BY <3>3, <3>4, <3>5
    <2>6. ASSUME NEW q \in Request PROVE TxInv(q)'
        <3>1. CASE q # r
            <4>1. \A x \in Proposal : rowLock[x] = q /\ proposals[x].status # "ABSENT" =>
                    rowLock'[x] = q /\ proposals'[x] = proposals[x]
                BY <1>0, <1>6, <2>1, <2>2, <2>5, <3>1, UnlockRows, NobodyIsNoRequest
                DEF PrepareInsert, Finish
            <4> QED BY <2>3, <3>1, <4>1, OthersKeepTxInv
        <3> QED BY <2>4, <3>1
    <2>7. \A q \in Proposal : <<q, "COMMITTED">> \in audit' <=> <<q, "COMMITTED">> \in audit
        BY <1>6 DEF PrepareInsert
    <2>8. ASSUME NEW q \in Proposal PROVE TableInv(q)' /\ Immutable(q)
        <3>1. effects' = effects /\ TableInv(q)
            BY <1>6 DEF PrepareInsert, SafeInv
        <3>2. CASE q = np
            BY <2>1, <2>2, <2>5, <2>7, <3>1, <3>2 DEF TableInv, Immutable, Proposal
        <3>3. CASE q # np /\ q \in t.lapsed
            <4>1. proposals[q] \in Row /\ proposals[q].status = "PROPOSED"
                BY <1>0, <2>1, <3>3 DEF TypeOK
            <4>2. /\ proposals'[q].status = "EXPIRED"
                  /\ Business(proposals'[q]) = Business(proposals[q])
                BY <2>5, <3>3, <4>1, ExpiredRow
            <4>3. q < np + 1
                BY <2>1, <3>1, <4>1 DEF TableInv, Proposal
            <4>4. TableInv(q)'
                BY <2>1, <2>7, <3>1, <4>1, <4>2, <4>3 DEF TableInv, Proposal, TERMINAL_STATUSES
            <4>5. Immutable(q)
                BY <4>1, <4>2 DEF Immutable, TERMINAL_STATUSES
            <4> QED BY <4>4, <4>5
        <3>4. CASE q # np /\ q \notin t.lapsed
            BY <2>1, <2>5, <2>7, <3>1, <3>4 DEF TableInv, Immutable, Proposal
        <3> QED BY <3>2, <3>3, <3>4
    <2> QED BY <2>6, <2>8 DEF SafeInv, StepGoal
<1> QED BY <1>1, <1>2, <1>3, <1>4, <1>5, <1>6 DEF PrepareStep, PrepareReplay

LEMMA CommitIsSafe ==
    ASSUME SafeInv, TypeInv', NEW r \in Request,
           CommitAttest(r) \/ CommitClaim(r) \/ CommitSignals(r) \/ CommitLock(r)
    PROVE  StepGoal
<1> DEFINE t == tx[r]
           p == t.in.proposal
           row == t.row
<1>0. /\ TypeOK /\ TxInv(r) /\ r # Nobody /\ row \in Row
      /\ t.pc \in DecisionPC => p \in Proposal /\ proposals[p] \in Row /\ TableInv(p)
    BY NobodyIsNoRequest DEF SafeInv, TypeInv, TypeOK, DecisionsNameRows
<1>1. CASE Rollback(r) \/ RollbackExpired(r)
    BY <1>1, RollbackIsSafe
<1>2. CASE CommitAttest(r) /\ ~(Rollback(r) \/ RollbackExpired(r))
    <2>0. p \in Proposal /\ proposals[p] \in Row /\ t.pc = "attest" /\ rowLock[p] = Nobody
        BY <1>0, <1>2 DEF CommitAttest, DecisionPC
    <2> DEFINE attested == [proposals[p] EXCEPT !.status = "CONFIRMED",
                                !.presented = t.in.shown, !.decided = t.in.turn]
    <2>1. /\ Lock(r, p) /\ UNCHANGED tables
          /\ \/ /\ proposals[p].status = "PROPOSED"
                /\ Goto(r, "claim", attested, {"PRESENTED", "CONFIRMED"})
             \/ /\ proposals[p].status \in TERMINAL_STATUSES
                /\ Goto(r, "claim", proposals[p], {})
        BY <1>2 DEF CommitAttest
    <2>2. /\ rowLock'[p] = r
          /\ \A q \in Proposal : rowLock[q] # Nobody => rowLock'[q] = rowLock[q]
        BY <1>0, <2>0, <2>1 DEF Lock, TypeOK
    <2>3. /\ tx'[r].pc = "claim" /\ tx'[r].in = t.in
          /\ \/ /\ tx'[r].row = attested /\ tx'[r].stages = {"PRESENTED", "CONFIRMED"}
                /\ proposals[p].status = "PROPOSED"
             \/ /\ tx'[r].row = proposals[p] /\ tx'[r].stages = {}
                /\ proposals[p].status \in TERMINAL_STATUSES
        BY <1>0, <2>1, TxAfter
    <2>4. Business(attested) = Business(proposals[p])
        BY <2>0 DEF Business, Row
    <2>5. proposals' = proposals
        BY <2>1 DEF tables
    <2>6. TxInv(r)'
        <3>1. /\ tx'[r].in.proposal = p /\ rowLock'[p] = r /\ "COMMITTED" \notin tx'[r].stages
              /\ proposals'[p].status = proposals[p].status /\ proposals[p].status # "ABSENT"
            BY <2>2, <2>3, <2>5 DEF TERMINAL_STATUSES
        <3>2. Business(tx'[r].row) = Business(proposals'[p])
            BY <2>3, <2>4, <2>5
        <3>3. tx'[r].row.status = "CONFIRMED" => proposals'[p].status = "PROPOSED"
            BY <2>3, <2>5 DEF TERMINAL_STATUSES
        <3>4. Business(tx[r].row)' = Business(tx'[r].row) /\ Business(proposals[p])' = Business(proposals'[p])
            BY <3>1 DEF Business
        <3> QED BY <2>3, <3>1, <3>2, <3>3, <3>4 DEF TxInv
    <2> QED BY <2>1, <2>2, <2>6, GotoIsSafe
<1>3. CASE CommitClaim(r) /\ ~Rollback(r)
    <2>1. /\ t.pc = "claim" /\ row.status = "CONFIRMED" /\ t.pc \in DecisionPC
          /\ rowLock[p] = r /\ proposals[p].status = "PROPOSED" /\ p \in Proposal
          /\ Business(row) = Business(proposals[p]) /\ "COMMITTED" \notin t.stages
        BY <1>0, <1>3 DEF CommitClaim, TxInv, HoldingPC, DecisionPC
    <2>2. CASE Dispose(r, Expired(row), t.stages \cup {"EXPIRED"})
        <3>1. Expired(row).status = "EXPIRED" /\ Business(Expired(row)) = Business(row)
            BY <1>0, BusinessKept DEF Expired, Row
        <3> QED BY <2>1, <2>2, <3>1, DisposeIsSafe DEF TERMINAL_STATUSES
    <2>3. CASE Dispose(r, Invalidated(row, "RESET_GENERATION_CHANGED"),
                       t.stages \cup {"INVALIDATED"})
        <3> DEFINE gone == Invalidated(row, "RESET_GENERATION_CHANGED")
        <3>1. gone.status = "INVALIDATED" /\ Business(gone) = Business(row)
            BY <1>0, BusinessKept DEF Invalidated, Row
        <3> QED BY <2>1, <2>3, <3>1, DisposeIsSafe DEF TERMINAL_STATUSES
    <2>4. CASE /\ Goto(r, "signals", [row EXCEPT !.status = "COMMITTING", !.claimed = now],
                       t.stages \cup {"COMMIT_STARTED"})
               /\ UNCHANGED <<tables, locks>>
        <3> DEFINE claimed == [row EXCEPT !.status = "COMMITTING", !.claimed = now]
        <3>1. Business(claimed) = Business(row)
            BY <1>0, BusinessKept
        <3>2. /\ tx'[r].pc = "signals" /\ tx'[r].in = t.in /\ tx'[r].row = claimed
              /\ tx'[r].stages = t.stages \cup {"COMMIT_STARTED"}
            BY <1>0, <2>4, TxAfter
        <3>3. TxInv(r)'
            BY <2>1, <2>4, <3>1, <3>2 DEF TxInv, tables, locks
        <3> QED BY <2>4, <3>3, GotoIsSafe DEF locks
    <2> QED BY <1>3, <2>1, <2>2, <2>3, <2>4 DEF CommitClaim, TERMINAL_STATUSES
<1>4. CASE CommitSignals(r) \/ CommitLock(r)
    <2>1. /\ t.pc \in {"signals", "lock"} /\ t.pc \in DecisionPC
          /\ rowLock[p] = r /\ proposals[p].status = "PROPOSED" /\ p \in Proposal
          /\ Business(row) = Business(proposals[p]) /\ "COMMITTED" \notin t.stages
        BY <1>0, <1>4 DEF CommitSignals, CommitLock, TxInv, HoldingPC, DecisionPC
    <2>2. ASSUME NEW why, Dispose(r, Invalidated(row, why), t.stages \cup {"INVALIDATED"})
          PROVE  StepGoal
        <3>1. /\ Invalidated(row, why).status = "INVALIDATED"
              /\ Business(Invalidated(row, why)) = Business(row)
            BY <1>0, BusinessKept DEF Invalidated, Row
        <3> QED BY <2>1, <2>2, <3>1, DisposeIsSafe DEF TERMINAL_STATUSES
    <2>3. ASSUME NEW pc \in {"lock", "execute"}, Goto(r, pc, row, t.stages),
                 UNCHANGED <<tables, rowLock>>
          PROVE  StepGoal
        <3>1. /\ tx'[r].pc = pc /\ tx'[r].in = t.in /\ tx'[r].row = row
              /\ tx'[r].stages = t.stages
            BY <1>0, <2>3, TxAfter
        <3>2. TxInv(r)'
            BY <2>1, <2>3, <3>1 DEF TxInv, tables
        <3> QED BY <2>3, <3>2, GotoIsSafe
    <2> QED BY <1>4, <2>2, <2>3 DEF CommitSignals, CommitLock, locks
<1> QED BY <1>1, <1>2, <1>3, <1>4

LEMMA ExecuteIsSafe ==
    ASSUME SafeInv, TypeInv', NEW r \in Request, CommitExecute(r)
    PROVE  StepGoal
<1> DEFINE t == tx[r]
           p == t.in.proposal
           done == [t.row EXCEPT !.status = "COMMITTED"]
<1>0. TypeOK /\ TxInv(r) /\ t.row \in Row
    BY DEF SafeInv, TypeInv, TypeOK
<1>1. /\ p \in Proposal /\ p < nextProposal /\ TableInv(p) /\ rowLock[p] = r
      /\ proposals[p].status = "PROPOSED" /\ Business(t.row) = Business(proposals[p])
    BY <1>0 DEF CommitExecute, TxInv, SafeInv, TypeInv, DecisionsNameRows, DecisionPC, HoldingPC
<1>2. tx'[r] = Idle /\ \A q \in Request : q # r => tx'[q] = tx[q]
    BY <1>0, TxAfter DEF CommitExecute
<1>3. done.status = "COMMITTED" /\ Business(done) = Business(t.row)
    BY <1>0, BusinessKept DEF Row
<1>4. /\ proposals'[p] = done
      /\ \A q \in Proposal : q # p => proposals'[q] = proposals[q]
      /\ effects'[p] = effects[p] + 1
      /\ \A q \in Proposal : q # p => effects'[q] = effects[q]
    BY <1>0, <1>1 DEF CommitExecute, Save, TypeOK
<1>5. /\ <<p, "COMMITTED">> \in audit'
      /\ \A q \in Proposal : q # p =>
            (<<q, "COMMITTED">> \in audit' <=> <<q, "COMMITTED">> \in audit)
    BY DEF CommitExecute, Save
<1>6. ASSUME NEW q \in Request PROVE TxInv(q)'
    <2>1. CASE q = r
        BY <1>2, <2>1 DEF TxInv, HoldingPC, Idle
    <2>2. CASE q # r
        <3>1. \A x \in Proposal : rowLock[x] = q => rowLock'[x] = q /\ proposals'[x] = proposals[x]
            BY <1>0, <1>1, <1>4, <2>2, UnlockRows DEF CommitExecute, Finish
        <3> QED BY <1>2, <2>2, <3>1, OthersKeepTxInv
    <2> QED BY <2>1, <2>2
<1>7. ASSUME NEW q \in Proposal PROVE TableInv(q)' /\ Immutable(q)
    <2>1. UNCHANGED nextProposal /\ TableInv(q)
        BY DEF CommitExecute, SafeInv
    <2>2. CASE q = p
        <3>1. effects[p] = 0
            BY <1>1 DEF TableInv
        <3>2. ~(p >= nextProposal)
            BY <1>0, <1>1 DEF Proposal, TypeOK
        <3>a. proposals'[q].status = "COMMITTED"
            BY <1>3, <1>4, <2>2
        <3>b. effects'[q] = 0 + 1
            BY <1>4, <2>2, <3>1
        <3>3. effects'[q] = 1 /\ proposals'[q].status = "COMMITTED"
            BY <3>a, <3>b
        <3>4. ~(q >= nextProposal') /\ <<q, "COMMITTED">> \in audit'
            BY <1>5, <2>1, <2>2, <3>2
        <3>5. TableInv(q)'
            BY <3>3, <3>4 DEF TableInv, TERMINAL_STATUSES
        <3>6. Immutable(q)
            BY <1>1, <1>3, <1>4, <2>2 DEF Immutable, TERMINAL_STATUSES
        <3> QED BY <3>5, <3>6
    <2>3. CASE q # p
        BY <1>4, <1>5, <2>1, <2>3 DEF TableInv, Immutable
    <2> QED BY <2>2, <2>3
<1> QED BY <1>6, <1>7 DEF SafeInv, StepGoal

LEMMA DecideIsSafe ==
    ASSUME SafeInv, TypeInv', NEW r \in Request,
           DecidePresent(r) \/ DecideApply(r) \/ RejectExpired(r) \/ Abort(r)
    PROVE  StepGoal
<1> DEFINE t == tx[r]
           p == t.in.proposal
           row == t.row
<1>0. /\ TypeOK /\ TxInv(r) /\ r # Nobody /\ row \in Row
      /\ t.pc \in DecisionPC => p \in Proposal /\ proposals[p] \in Row /\ TableInv(p)
    BY NobodyIsNoRequest DEF SafeInv, TypeInv, TypeOK, DecisionsNameRows
<1>1. CASE Rollback(r) \/ RollbackExpired(r)
    BY <1>1, RollbackIsSafe
<1>2. CASE DecidePresent(r) /\ ~(Rollback(r) \/ RollbackExpired(r))
    <2>1. /\ t.pc \in DecisionPC /\ p \in Proposal /\ proposals[p] \in Row
          /\ rowLock[p] = Nobody /\ proposals[p].status = "PROPOSED"
        BY <1>0, <1>2 DEF DecidePresent, DecisionPC
    <2>2. CASE Dispose(r, Invalidated(proposals[p], "RESET_GENERATION_CHANGED"),
                       {"INVALIDATED"})
        <3> DEFINE gone == Invalidated(proposals[p], "RESET_GENERATION_CHANGED")
        <3>1. gone.status = "INVALIDATED" /\ Business(gone) = Business(proposals[p])
            BY <2>1, BusinessKept DEF Invalidated, Row
        <3> QED BY <2>1, <2>2, <3>1, DisposeIsSafe DEF TERMINAL_STATUSES
    <2> DEFINE shown == [proposals[p] EXCEPT !.status = "PRESENTED",
                            !.presented = t.in.shown, !.decided = t.in.turn]
    <2>3. CASE /\ Lock(r, p) /\ UNCHANGED tables
               /\ Goto(r, "apply", shown, {"PRESENTED"})
        <3>1. /\ rowLock'[p] = r
              /\ \A q \in Proposal : rowLock[q] # Nobody => rowLock'[q] = rowLock[q]
            BY <1>0, <2>1, <2>3 DEF Lock, TypeOK
        <3>2. Business(shown) = Business(proposals[p])
            BY <2>1 DEF Business, Row
        <3>3. /\ tx'[r].pc = "apply" /\ tx'[r].in = t.in /\ tx'[r].row = shown
              /\ tx'[r].stages = {"PRESENTED"}
            BY <1>0, <2>3, TxAfter
        <3>4. proposals' = proposals
            BY <2>3 DEF tables
        <3>5. TxInv(r)'
            BY <2>1, <3>1, <3>2, <3>3, <3>4 DEF TxInv
        <3> QED BY <2>3, <3>1, <3>5, GotoIsSafe
    <2> QED BY <1>2, <2>2, <2>3 DEF DecidePresent
<1>3. CASE DecideApply(r) /\ ~RollbackExpired(r)
    <2>1. /\ t.pc \in DecisionPC /\ p \in Proposal
          /\ rowLock[p] = r /\ proposals[p].status = "PROPOSED"
          /\ Business(row) = Business(proposals[p]) /\ "COMMITTED" \notin t.stages
        BY <1>0, <1>3 DEF DecideApply, TxInv, HoldingPC, DecisionPC
    <2>2. ASSUME NEW why, NEW x \in {"DECLINED", "INVALIDATED"},
                 Dispose(r, [row EXCEPT !.status = x, !.reason = why], t.stages \cup {x})
          PROVE  StepGoal
        <3> DEFINE gone == [row EXCEPT !.status = x, !.reason = why]
        <3>1. gone.status = x /\ Business(gone) = Business(row)
            BY <1>0, BusinessKept DEF Row
        <3>2. x \in TERMINAL_STATUSES \ {"COMMITTED"} /\ "COMMITTED" \notin t.stages \cup {x}
            BY <2>1 DEF TERMINAL_STATUSES
        <3> QED BY <2>1, <2>2, <3>1, <3>2, DisposeIsSafe
    <2> QED BY <1>3, <2>2 DEF DecideApply, Invalidated
<1>4. CASE RejectExpired(r) /\ ~Rollback(r)
    <2>1. /\ t.pc \in DecisionPC /\ p \in Proposal /\ proposals[p] \in Row
          /\ rowLock[p] = Nobody /\ proposals[p].status = "PROPOSED"
          /\ Dispose(r, Expired(proposals[p]), {"EXPIRED"})
        BY <1>0, <1>4 DEF RejectExpired, DecisionPC
    <2>2. /\ Expired(proposals[p]).status = "EXPIRED"
          /\ Business(Expired(proposals[p])) = Business(proposals[p])
        BY <2>1, BusinessKept DEF Expired, Row
    <2> QED BY <2>1, <2>2, DisposeIsSafe DEF TERMINAL_STATUSES
<1> QED BY <1>1, <1>2, <1>3, <1>4 DEF Abort

LEMMA BeginIsSafe ==
    ASSUME SafeInv, TypeInv', NEW r \in Request, Begin(r)
    PROVE  StepGoal
<1>1. /\ UNCHANGED <<tables, locks>>
      /\ \A q \in Request : q # r => tx'[q] = tx[q]
      /\ tx'[r].pc \in {"lookup", "attest", "decide"} /\ tx'[r].stages = {}
    <2>1. tx \in [Request -> Tx]
        BY DEF SafeInv, TypeInv, TypeOK, Tx
    <2>2. ASSUME NEW in, NEW pc \in {"lookup", "attest", "decide"},
                 tx' = [tx EXCEPT ![r] = [Idle EXCEPT !.pc = pc, !.in = in]]
          PROVE  /\ \A q \in Request : q # r => tx'[q] = tx[q]
                 /\ tx'[r].pc = pc /\ tx'[r].stages = {}
        BY <2>1, <2>2 DEF Idle
    <2>3. CASE \E s \in Session, d \in Playbook, rev \in 1..MaxRevision, t \in Target :
                    BeginPrepare(r, s, d, rev, t)
        BY <2>2, <2>3 DEF BeginPrepare
    <2>4. CASE \E op \in Operation \ {"PREPARE"}, s \in Session, p \in Proposal,
                  shown \in 0..MaxTurn : BeginDecision(r, op, s, p, shown)
        BY <2>2, <2>4 DEF BeginDecision
    <2> QED BY <2>3, <2>4 DEF Begin
<1>2. TxInv(r)'
    BY <1>1 DEF TxInv, HoldingPC
<1> QED BY <1>1, <1>2, QuietStep DEF locks

LEMMA EnvironmentIsSafe ==
    ASSUME SafeInv, TypeInv', Environment \/ UNCHANGED vars
    PROVE  StepGoal
<1>1. CASE ResetData
    <2>1. UNCHANGED <<tx, locks, effects, audit, nextProposal>>
        BY <1>1 DEF ResetData
    <2>2. \A p \in Proposal : proposals'[p] = NoRow /\ NoRow.status = "ABSENT"
        BY <1>1 DEF ResetData, NoRow
    <2>3. ASSUME NEW q \in Request PROVE TxInv(q)'
        <3>1. \A p \in Proposal : ~(rowLock[p] = q /\ proposals[p].status # "ABSENT")
            BY <1>1, NobodyIsNoRequest DEF ResetData
        <3> QED BY <2>1, <3>1, OthersKeepTxInv
    <2>4. ASSUME NEW p \in Proposal PROVE TableInv(p)' /\ Immutable(p)
        BY <2>1, <2>2 DEF SafeInv, TableInv, Immutable
    <2> QED BY <2>3, <2>4 DEF SafeInv, StepGoal
<1>2. CASE UNCHANGED <<proposals, nextProposal, audit, effects, rowLock, tx>>
    <2>1. ASSUME NEW q \in Request PROVE TxInv(q)'
        BY <1>2, OthersKeepTxInv
    <2>2. ASSUME NEW p \in Proposal PROVE TableInv(p)' /\ Immutable(p)
        BY <1>2 DEF SafeInv, TableInv, Immutable
    <2> QED BY <2>1, <2>2 DEF SafeInv, StepGoal
<1> QED BY <1>1, <1>2
        DEF Environment, Tick, Settle, BumpGeneration, NextTurn, Resume,
            Publish, tables, locks, vars

LEMMA SafeInvInit == Init => SafeInv
<1> SUFFICES ASSUME Init PROVE SafeInv
    OBVIOUS
<1>1. TypeInv
    BY TypeInvInit
<1>2. ASSUME NEW r \in Request PROVE TxInv(r)
    BY DEF Init, TxInv, Idle, HoldingPC
<1>3. ASSUME NEW p \in Proposal PROVE TableInv(p)
    BY DEF Init, TableInv, NoRow
<1> QED BY <1>1, <1>2, <1>3 DEF SafeInv

LEMMA SafeInvNext == SafeInv /\ [Next]_vars => StepGoal
<1> SUFFICES ASSUME SafeInv, [Next]_vars PROVE StepGoal
    OBVIOUS
<1>1. TypeInv'
    BY TypeInvNext DEF SafeInv
<1>2. CASE Environment \/ UNCHANGED vars
    BY <1>1, <1>2, EnvironmentIsSafe
<1>3. ASSUME NEW r \in Request, Begin(r) \/ Step(r) \/ Abort(r)
      PROVE  StepGoal
    BY <1>1, <1>3, BeginIsSafe, PrepareIsSafe, CommitIsSafe, ExecuteIsSafe, DecideIsSafe
    DEF Step, DecisionStep
<1> QED BY <1>2, <1>3 DEF Next

\* The banking action of an offer ran exactly once if the audit trail calls the offer
\* committed, and never otherwise: for any number of concurrent, repeated or aborted
\* calls and resets.
THEOREM ExecutedOnce == Spec => []ExecutedOnceIffCommitted
<1>1. SafeInv /\ [Next]_vars => SafeInv'
    BY SafeInvNext DEF StepGoal
<1>2. SafeInv => ExecutedOnceIffCommitted
    BY DEF SafeInv, TableInv, ExecutedOnceIffCommitted
<1> QED BY <1>1, <1>2, SafeInvInit, PTL DEF Spec

\* No committed row is ever left PRESENTED, CONFIRMED or COMMITTING.
THEOREM TentativeStatusesAreNeverDurable == Spec => []OnlySettledStatusesAreDurable
<1>1. SafeInv /\ [Next]_vars => SafeInv'
    BY SafeInvNext DEF StepGoal
<1>2. SafeInv => OnlySettledStatusesAreDurable
    BY DEF SafeInv, TableInv, OnlySettledStatusesAreDurable
<1> QED BY <1>1, <1>2, SafeInvInit, PTL DEF Spec

\* The content of an offer never changes and a resolved offer never changes at all.
THEOREM OffersStayAsMade == Spec => OffersAreImmutable
<1>1. SafeInv /\ [Next]_vars => SafeInv' /\ \A p \in Proposal : Immutable(p)
    BY SafeInvNext DEF StepGoal
<1> QED BY <1>1, SafeInvInit, PTL DEF Spec, OffersAreImmutable
=============================================================================
