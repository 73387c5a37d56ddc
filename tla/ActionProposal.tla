--------------------------- MODULE ActionProposal ---------------------------
(***************************************************************************)
(* The action-proposal protocol of the banking service: an agent prepares  *)
(* an immutable offer (a proposal row), the customer decides on a later    *)
(* turn, and the bank executes the action at most once.                    *)
(*                                                                         *)
(* A Request is one call of the MCP tools in its own database session.     *)
(* Its steps are the points between which other sessions run: a statement  *)
(* that may wait for a row lock, a read that takes no lock, and COMMIT.    *)
(* What a transaction changed and has not committed lives in tx[r];        *)
(* proposals, accounts, audit and effects are the committed tables         *)
(* (PostgreSQL, READ COMMITTED).  One customer is modelled, with several   *)
(* support sessions.  Abort stands for a crash of the process, a lost      *)
(* connection, a deadlock victim and any exception: all roll back.         *)
(***************************************************************************)
EXTENDS Integers, FiniteSets

CONSTANTS
    Request,        \* concurrent calls, each with its own database session
    Nobody,         \* the holder of a free lock
    Session,        \* support sessions of the customer
    Playbook,       \* published actions
    Revalidated,    \* those whose operation pins and rechecks account facts
    Target,         \* credit limits an offer may propose
    InitialLimit,   \* the credit limit of a fresh account
    Ttl,            \* DEFAULT_PROPOSAL_TTL_SECONDS, in ticks
    MaxProposals,   \* bound: rows ever inserted
    MaxTime,        \* bound: clock ticks
    MaxTurn,        \* bound: customer turns of a session
    MaxRevision,    \* bound: revisions published of a playbook
    MaxResets,      \* bound: demo resets
    MaxCharges      \* bound: cleared balance of an account

ASSUME ConstantsAssumption ==
    /\ Nobody \notin Request
    /\ Session # {} /\ Playbook # {} /\ Revalidated \subseteq Playbook
    /\ Target \subseteq Nat
    /\ InitialLimit \in Nat /\ Ttl \in Nat \ {0}
    /\ MaxProposals \in Nat /\ MaxTime \in Nat /\ MaxTurn \in Nat
    /\ MaxRevision \in Nat /\ MaxResets \in Nat /\ MaxCharges \in Nat

VARIABLES
    proposals,      \* operations.action_proposals, committed rows by id
    nextProposal,   \* the next unused id
    accounts,       \* cards.credit_accounts, one per demo life of the customer
    openAccount,    \* the account that is not CLOSED
    audit,          \* <<proposal, stage>> lifecycle events in the audit outbox
    effects,        \* domain events (CREDIT_LIMIT_INCREASED, ...) per proposal
    head,           \* published revision of each playbook
    rowLock, headLock, customerLock, accountLock,   \* FOR UPDATE holders
    tx,             \* the transaction of each request
    now,            \* the database clock
    turn,           \* current customer turn of a session
    token,          \* reset generation a session was opened with
    epoch,          \* current reset generation
    reset           \* progress of a demo reset

tables == <<proposals, nextProposal, accounts, openAccount, audit, effects>>
locks == <<rowLock, headLock, customerLock, accountLock>>
world == <<head, now, turn, token, epoch, reset>>
vars == <<tables, locks, tx, world>>
-----------------------------------------------------------------------------
Proposal == 1..MaxProposals
Account == 0..MaxResets

ACTIVE_PROPOSAL_STATUSES == {"PROPOSED", "PRESENTED", "CONFIRMED", "COMMITTING"}
TERMINAL_STATUSES == {"COMMITTED", "DECLINED", "INVALIDATED", "EXPIRED"}
Status == {"ABSENT"} \cup ACTIVE_PROPOSAL_STATUSES \cup TERMINAL_STATUSES
Stage == {"PROPOSED", "PRESENTED", "CONFIRMED", "COMMIT_STARTED"} \cup TERMINAL_STATUSES
Reason == {"NONE", "CUSTOMER_DECLINED", "CUSTOMER_REVISED", "CUSTOMER_CANCELLED",
           "PROPOSAL_EXPIRED", "RESET_GENERATION_CHANGED",
           "CREDIT_SIGNALS_CHANGED", "CREDIT_LIMIT_POLICY_CHANGED"}
NON_COMMIT_DECISIONS == {"DECLINE", "REVISE", "CANCEL"}
Operation == {"PREPARE", "COMMIT"} \cup NON_COMMIT_DECISIONS

\* ABSENT: no such row (never inserted, or deleted by a reset).
Row == [status: Status, session: Session, playbook: Playbook,
        revision: Nat, origin: Nat, gen: Nat, target: Nat, account: Account,
        limit: Nat, balance: Nat, expires: Nat, presented: Nat, decided: Nat,
        claimed: Nat, reason: Reason]

NoRow == [status |-> "ABSENT", session |-> CHOOSE s \in Session : TRUE,
          playbook |-> CHOOSE d \in Playbook : TRUE,
          revision |-> 0, origin |-> 0, gen |-> 0, target |-> 0, account |-> 0,
          limit |-> 0, balance |-> 0, expires |-> 0, presented |-> 0,
          decided |-> 0, claimed |-> 0, reason |-> "NONE"]

\* What the trusted headers and the tool arguments carry (ProposalRuntimeContext).
\* shown is the assistant turn the runtime attests as the presentation, 0 if none.
Input == [op: Operation, session: Session, turn: Nat, gen: Nat, shown: Nat,
          proposal: Nat, playbook: Playbook, revision: Nat, target: Nat]

NoInput == [op |-> "PREPARE", session |-> NoRow.session, turn |-> 0, gen |-> 0,
            shown |-> 0, proposal |-> 0, playbook |-> NoRow.playbook,
            revision |-> 0, target |-> 0]

PC == {"idle", "lookup", "facts", "customer", "scan", "insert",
       "attest", "claim", "signals", "lock", "execute",
       "decide", "apply", "reject"}

Idle == [pc |-> "idle", in |-> NoInput, row |-> NoRow, stages |-> {}, lapsed |-> {}]

\* Available credit, holds and the journal are in CardAccount.
CreditAccount == [limit: Nat, balance: Nat, status: {"NONE", "ACTIVE", "CLOSED"}]

FreshAccount == [limit |-> InitialLimit, balance |-> 0, status |-> "ACTIVE"]
NoAccount == [limit |-> 0, balance |-> 0, status |-> "NONE"]

Init ==
    /\ proposals = [p \in Proposal |-> NoRow]
    /\ nextProposal = 1
    /\ accounts = [a \in Account |-> IF a = 0 THEN FreshAccount ELSE NoAccount]
    /\ openAccount = 0
    /\ audit = {}
    /\ effects = [p \in Proposal |-> 0]
    /\ head = [d \in Playbook |-> 1]
    /\ rowLock = [p \in Proposal |-> Nobody]
    /\ headLock = [d \in Playbook |-> Nobody]
    /\ customerLock = Nobody
    /\ accountLock = [a \in Account |-> Nobody]
    /\ tx = [r \in Request |-> Idle]
    /\ now = 0
    /\ turn = [s \in Session |-> 1]
    /\ token = [s \in Session |-> 0]
    /\ epoch = 0
    /\ reset = "none"
-----------------------------------------------------------------------------
(* Transactions and locks.                                                 *)

Free(lock, r) == [x \in DOMAIN lock |-> IF lock[x] = r THEN Nobody ELSE lock[x]]

Unlock(r) ==
    /\ rowLock' = Free(rowLock, r)
    /\ headLock' = Free(headLock, r)
    /\ customerLock' = IF customerLock = r THEN Nobody ELSE customerLock
    /\ accountLock' = Free(accountLock, r)

\* The transaction of r ends, by commit or rollback, and the call returns.
Finish(r) == tx' = [tx EXCEPT ![r] = Idle] /\ Unlock(r)
Rollback(r) == Finish(r) /\ UNCHANGED tables

RollbackExpired_stillOpen(r) ==                 \* mutation: no rollback before the
    /\ tx' = [tx EXCEPT ![r].pc = "reject"]     \* rejection transaction
    /\ UNCHANGED <<tables, locks>>
\* audited_request: the failed call goes on to its rejection transaction.
RollbackExpired(r) ==
    /\ tx' = [tx EXCEPT ![r] = [Idle EXCEPT !.pc = "reject", !.in = tx[r].in]]
    /\ Unlock(r)
    /\ UNCHANGED tables

Goto(r, pc, row, stages) ==
    tx' = [tx EXCEPT ![r] = [@ EXCEPT !.pc = pc, !.row = row, !.stages = stages]]

Save_lastStageOnly(r, row, stages) ==           \* mutation: one event per COMMIT
    /\ proposals' = [proposals EXCEPT ![tx[r].in.proposal] = row]
    /\ audit' = audit \cup {<<tx[r].in.proposal, row.status>>}
\* COMMIT of one proposal row with the transition events it recorded.
Save(r, row, stages) ==
    /\ proposals' = [proposals EXCEPT ![tx[r].in.proposal] = row]
    /\ audit' = audit \cup ({tx[r].in.proposal} \X stages)

Active(rows, s) ==
    {p \in Proposal : rows[p].session = s /\ rows[p].status \in ACTIVE_PROPOSAL_STATUSES}

Lapsed(row, time) == row.expires <= time

Expired(row) == [row EXCEPT !.status = "EXPIRED", !.reason = "PROPOSAL_EXPIRED"]
Invalidated_swapped(row, reason) ==             \* mutation: fields swapped
    [row EXCEPT !.status = reason, !.reason = "INVALIDATED"]
Invalidated_reasonOnly(row, reason) ==          \* mutation: status forgotten
    [row EXCEPT !.reason = reason]
Invalidated(row, reason) ==
    [row EXCEPT !.status = "INVALIDATED", !.reason = reason]

\* _validate_scope, on the part of the scope that varies here.
InScope(row, in) == row.session = in.session

\* RuntimeEvidenceValidator.validate_decision: the decision turn is the current
\* turn, and the attested presentation exists and is another turn.
EvidenceHolds(in) == in.shown # 0 /\ in.shown # in.turn
-----------------------------------------------------------------------------
(* Preparation of an offer.                                                *)

\* The runtime's reset guard (and the capability check of CES callers) compares
\* the session's token with the current generation before it lets a tool run.
RuntimeAdmits(s) == token[s] = epoch

Preparing == {r \in Request : tx[r].pc # "idle" /\ tx[r].in.op = "PREPARE"}

BeginPrepare(r, s, d, rev, t) ==
    /\ tx[r].pc = "idle"
    /\ RuntimeAdmits(s)
    /\ nextProposal + Cardinality(Preparing) <= MaxProposals
    /\ rev <= head[d]
    /\ tx' = [tx EXCEPT ![r] = [Idle EXCEPT !.pc = "lookup",
              !.in = [NoInput EXCEPT !.session = s, !.turn = turn[s],
                      !.gen = token[s], !.playbook = d, !.revision = rev,
                      !.target = t]]]
    /\ UNCHANGED <<tables, locks, world>>

Idempotent_activeOnly(rows, in) ==              \* mutation: resolved offers ignored
    {p \in Active(rows, in.session) :
        /\ rows[p].origin = in.turn /\ rows[p].target = in.target
        /\ rows[p].playbook = in.playbook /\ rows[p].revision = in.revision}

\* _find_idempotent_proposal.  The key is built from the session, the customer
\* turn, the playbook revision and the inputs.
Idempotent(rows, in) ==
    {p \in Proposal :
        /\ rows[p].status # "ABSENT"
        /\ rows[p].session = in.session /\ rows[p].origin = in.turn
        /\ rows[p].playbook = in.playbook /\ rows[p].revision = in.revision
        /\ rows[p].target = in.target}

\* A retry returns the existing offer (or is refused as a conflict when its
\* reset generation differs): either way nothing changes.
PrepareReplay(r) ==
    /\ tx[r].pc = "lookup"
    /\ Idempotent(proposals, tx[r].in) # {}
    /\ Rollback(r)
    /\ UNCHANGED world

PrepareLookup(r) ==
    /\ tx[r].pc = "lookup"
    /\ Idempotent(proposals, tx[r].in) = {}
    /\ Goto(r, "facts", NoRow, {})
    /\ UNCHANGED <<tables, locks, world>>

\* prepare_credit_limit reads the open account and pins what it saw.
Offer(in) ==
    LET a == accounts[openAccount]
    IN  [NoRow EXCEPT !.status = "PROPOSED", !.session = in.session,
            !.playbook = in.playbook, !.revision = in.revision,
            !.origin = in.turn, !.gen = in.gen, !.target = in.target,
            !.account = openAccount, !.limit = a.limit, !.balance = a.balance,
            !.expires = now + Ttl]

Eligible(in) == in.playbook \in Revalidated => in.target > accounts[openAccount].limit

\* lock_published, the second lookup, then handler.prepare.
PrepareFacts(r) ==
    LET in == tx[r].in
    IN  /\ tx[r].pc = "facts"
        /\ headLock[in.playbook] = Nobody
        /\ \/ /\ in.revision = head[in.playbook]
              /\ Idempotent(proposals, in) = {}
              /\ Eligible(in)
              /\ headLock' = [headLock EXCEPT ![in.playbook] = r]
              /\ Goto(r, "customer", Offer(in), {"PROPOSED"})
              /\ UNCHANGED <<tables, rowLock, customerLock, accountLock>>
           \/ /\ \/ in.revision # head[in.playbook]
                 \/ Idempotent(proposals, in) # {}
                 \/ ~Eligible(in)
              /\ Rollback(r)
        /\ UNCHANGED world

PrepareCustomer_unlocked(r) ==                  \* mutation: no FOR UPDATE on users
    /\ tx[r].pc = "customer"
    /\ Goto(r, "scan", tx[r].row, tx[r].stages)
    /\ UNCHANGED <<tables, locks, world>>

PrepareCustomer(r) ==
    /\ tx[r].pc = "customer"
    /\ customerLock = Nobody
    /\ customerLock' = r
    /\ Goto(r, "scan", tx[r].row, tx[r].stages)
    /\ UNCHANGED <<tables, rowLock, headLock, accountLock, world>>

\* _lock_and_find_active_proposal.  Its clock was read before it waited for the
\* customer row, together with the offer's expires_at.
PrepareScan(r) ==
    LET active == Active(proposals, tx[r].in.session)
        lapsed == {p \in active : Lapsed(proposals[p], tx[r].row.expires - Ttl)}
    IN  /\ tx[r].pc = "scan"
        /\ \A p \in active : rowLock[p] = Nobody
        /\ \/ /\ active = lapsed
              /\ rowLock' = [p \in Proposal |-> IF p \in active THEN r ELSE rowLock[p]]
              /\ tx' = [tx EXCEPT ![r] = [@ EXCEPT !.pc = "insert", !.lapsed = lapsed]]
              /\ UNCHANGED <<tables, headLock, customerLock, accountLock>>
           \/ /\ active # lapsed            \* ActiveProposalExistsError
              /\ Rollback(r)
        /\ UNCHANGED world

PrepareInsert(r) ==
    /\ tx[r].pc = "insert"
    /\ nextProposal <= MaxProposals
    /\ proposals' = [p \in Proposal |->
            CASE p = nextProposal -> tx[r].row
              [] p \in tx[r].lapsed -> Expired(proposals[p])
              [] OTHER -> proposals[p]]
    /\ nextProposal' = nextProposal + 1
    /\ audit' = audit \cup {<<nextProposal, "PROPOSED">>}
                      \cup (tx[r].lapsed \X {"EXPIRED"})
    /\ Finish(r)
    /\ UNCHANGED <<accounts, openAccount, effects, world>>
-----------------------------------------------------------------------------
(* A decision on an offer: commit, or decline, revise, cancel.             *)

BeginDecision(r, op, s, p, shown) ==
    /\ tx[r].pc = "idle"
    /\ RuntimeAdmits(s)
    /\ p < nextProposal
    /\ shown <= turn[s]
    /\ tx' = [tx EXCEPT ![r] = [Idle EXCEPT
              !.pc = IF op = "COMMIT" THEN "attest" ELSE "decide",
              !.in = [NoInput EXCEPT !.op = op, !.session = s, !.turn = turn[s],
                      !.gen = token[s], !.shown = shown, !.proposal = p]]]
    /\ UNCHANGED <<tables, locks, world>>

Lock_none(r, p) == UNCHANGED rowLock            \* mutation: no FOR UPDATE
Lock(r, p) == rowLock' = [rowLock EXCEPT ![p] = r]

\* _get_locked, _validate_scope and the evidence checks, common to all decisions.
Admitted(row, in) == row.status # "ABSENT" /\ InScope(row, in) /\ EvidenceHolds(in)

LaterTurn_unchecked(row, in) == TRUE            \* mutation: same turn may decide

\* A later real customer turn than the one the offer was prepared on.
LaterTurn(row, in) == in.turn # row.origin

\* attest_decision: mark_presented then confirm, both under the row lock.
CommitAttest(r) ==
    LET in == tx[r].in
        p == in.proposal
        row == proposals[p]
    IN  /\ tx[r].pc = "attest"
        /\ rowLock[p] = Nobody
        /\ \/ /\ Admitted(row, in)
              /\ row.status = "PROPOSED" /\ ~Lapsed(row, now)
              /\ LaterTurn(row, in)
              /\ Lock(r, p)
              /\ Goto(r, "claim",
                      [row EXCEPT !.status = "CONFIRMED", !.presented = in.shown,
                                  !.decided = in.turn],
                      {"PRESENTED", "CONFIRMED"})
              /\ UNCHANGED <<tables, headLock, customerLock, accountLock>>
           \/ /\ Admitted(row, in)
              /\ row.status \in TERMINAL_STATUSES
              /\ Lock(r, p)
              /\ Goto(r, "claim", row, {})
              /\ UNCHANGED <<tables, headLock, customerLock, accountLock>>
           \/ /\ Admitted(row, in)
              /\ row.status = "PROPOSED" /\ Lapsed(row, now)
              /\ RollbackExpired(r)
           \/ /\ \/ ~Admitted(row, in)
                 \/ row.status = "PROPOSED" /\ ~Lapsed(row, now) /\ ~LaterTurn(row, in)
              /\ Rollback(r)
        /\ UNCHANGED world

SameGeneration_unchecked(row, in) == TRUE       \* mutation: reset ignored

\* The offer belongs to the reset generation the caller's session was opened in.
SameGeneration(row, in) == row.gen = in.gen

\* A claim that fails leaves its disposition behind: execute_registered_commit
\* commits an expiry or a reset mismatch that claim_commit discovered.
Dispose(r, row, stages) ==
    /\ Save(r, row, stages)
    /\ Finish(r)
    /\ UNCHANGED <<nextProposal, accounts, openAccount, effects>>

CommitClaim(r) ==
    LET row == tx[r].row
    IN  /\ tx[r].pc = "claim"
        /\ \/ /\ row.status \in TERMINAL_STATUSES   \* replay of the result, or refusal
              /\ Rollback(r)
           \/ /\ row.status = "CONFIRMED" /\ Lapsed(row, now)
              /\ Dispose(r, Expired(row), tx[r].stages \cup {"EXPIRED"})
           \/ /\ row.status = "CONFIRMED" /\ ~Lapsed(row, now)
              /\ ~SameGeneration(row, tx[r].in)
              /\ Dispose(r, Invalidated(row, "RESET_GENERATION_CHANGED"),
                         tx[r].stages \cup {"INVALIDATED"})
           \/ /\ row.status = "CONFIRMED" /\ ~Lapsed(row, now)
              /\ SameGeneration(row, tx[r].in)
              /\ Goto(r, "signals",
                      [row EXCEPT !.status = "COMMITTING", !.claimed = now],
                      tx[r].stages \cup {"COMMIT_STARTED"})
              /\ UNCHANGED <<tables, locks>>
        /\ UNCHANGED world

\* The part of credit_signals that moves here: the cleared balance, and the
\* last_limit_increase_at anchor, which changes exactly when the limit does.
Signals(a) == <<a.balance, a.limit>>

\* validate_credit_limit first compares the signals, without a lock.
CommitSignals(r) ==
    LET row == tx[r].row
        changed == /\ row.playbook \in Revalidated
                   /\ Signals(accounts[row.account]) # <<row.balance, row.limit>>
    IN  /\ tx[r].pc = "signals"
        /\ \/ /\ changed
              /\ Dispose(r, Invalidated(row, "CREDIT_SIGNALS_CHANGED"),
                         tx[r].stages \cup {"INVALIDATED"})
           \/ /\ ~changed
              /\ Goto(r, "lock", row, tx[r].stages)
              /\ UNCHANGED <<tables, locks>>
        /\ UNCHANGED world

FactsHold_unchecked(row) == TRUE                \* mutation: signals check only

\* ... then locks the account and compares the facts the offer was pinned to.
FactsHold(row) ==
    row.playbook \in Revalidated =>
        /\ accounts[row.account].limit = row.limit
        /\ accounts[row.account].status = "ACTIVE"

CommitLock(r) ==
    LET row == tx[r].row
    IN  /\ tx[r].pc = "lock"
        /\ accountLock[row.account] = Nobody
        /\ \/ /\ FactsHold(row)
              /\ accountLock' = [accountLock EXCEPT ![row.account] = r]
              /\ Goto(r, "execute", row, tx[r].stages)
              /\ UNCHANGED <<tables, rowLock, headLock, customerLock>>
           \/ /\ ~FactsHold(row)
              /\ Dispose(r, Invalidated(row, "CREDIT_LIMIT_POLICY_CHANGED"),
                         tx[r].stages \cup {"INVALIDATED"})
        /\ UNCHANGED world

\* apply_limit_increase, on the part of the account that offers look at; the other
\* operations leave it alone.
Apply(row, a) ==
    IF row.playbook \in Revalidated THEN [a EXCEPT !.limit = row.target] ELSE a

\* handler.execute, mark_committed and the single COMMIT of the pipeline.
CommitExecute(r) ==
    LET row == tx[r].row
    IN  /\ tx[r].pc = "execute"
        /\ accounts' = [accounts EXCEPT ![row.account] = Apply(row, @)]
        /\ effects' = [effects EXCEPT ![tx[r].in.proposal] = @ + 1]
        /\ Save(r, [row EXCEPT !.status = "COMMITTED"], tx[r].stages \cup {"COMMITTED"})
        /\ Finish(r)
        /\ UNCHANGED <<nextProposal, openAccount, world>>

\* decide_for_identity up to the decision itself.
DecidePresent(r) ==
    LET in == tx[r].in
        p == in.proposal
        row == proposals[p]
        open == Admitted(row, in) /\ row.status = "PROPOSED"
    IN  /\ tx[r].pc = "decide"
        /\ rowLock[p] = Nobody
        /\ \/ /\ open /\ ~SameGeneration(row, in)
              /\ Dispose(r, Invalidated(row, "RESET_GENERATION_CHANGED"), {"INVALIDATED"})
           \/ /\ open /\ SameGeneration(row, in) /\ Lapsed(row, now)
              /\ RollbackExpired(r)
           \/ /\ open /\ SameGeneration(row, in) /\ ~Lapsed(row, now) /\ LaterTurn(row, in)
              /\ Lock(r, p)
              /\ Goto(r, "apply",
                      [row EXCEPT !.status = "PRESENTED", !.presented = in.shown,
                                  !.decided = in.turn],
                      {"PRESENTED"})
              /\ UNCHANGED <<tables, headLock, customerLock, accountLock>>
           \/ /\ \/ ~open                   \* out of scope, or a replay
                 \/ SameGeneration(row, in) /\ ~Lapsed(row, now) /\ ~LaterTurn(row, in)
              /\ Rollback(r)
        /\ UNCHANGED world

\* decline checks the expiry again; invalidate, for the other two, does not.
DecideApply(r) ==
    LET row == tx[r].row
        op == tx[r].in.op
    IN  /\ tx[r].pc = "apply"
        /\ \/ /\ op = "DECLINE" /\ Lapsed(row, now)
              /\ RollbackExpired(r)
           \/ /\ op = "DECLINE" /\ ~Lapsed(row, now)
              /\ Dispose(r, [row EXCEPT !.status = "DECLINED",
                                        !.reason = "CUSTOMER_DECLINED"],
                         tx[r].stages \cup {"DECLINED"})
           \/ /\ op = "REVISE"
              /\ Dispose(r, Invalidated(row, "CUSTOMER_REVISED"),
                         tx[r].stages \cup {"INVALIDATED"})
           \/ /\ op = "CANCEL"
              /\ Dispose(r, Invalidated(row, "CUSTOMER_CANCELLED"),
                         tx[r].stages \cup {"INVALIDATED"})
        /\ UNCHANGED world

\* record_request_rejection: a new transaction that keeps a real expiry.
RejectExpired(r) ==
    LET p == tx[r].in.proposal
        row == proposals[p]
        stale == row.status = "PROPOSED" /\ InScope(row, tx[r].in) /\ Lapsed(row, now)
    IN  /\ tx[r].pc = "reject"
        /\ rowLock[p] = Nobody
        /\ \/ stale /\ Dispose(r, Expired(row), {"EXPIRED"})
           \/ ~stale /\ Rollback(r)
        /\ UNCHANGED world

Abort(r) ==
    /\ tx[r].pc # "idle"
    /\ Rollback(r)
    /\ UNCHANGED world
-----------------------------------------------------------------------------
(* The rest of the system.                                                 *)

Tick ==
    /\ now < MaxTime /\ now' = now + 1
    /\ UNCHANGED <<tables, locks, tx, head, turn, token, epoch, reset>>

NextTurn(s) ==
    /\ turn[s] < MaxTurn /\ turn' = [turn EXCEPT ![s] = @ + 1]
    /\ UNCHANGED <<tables, locks, tx, head, now, token, epoch, reset>>

Publish_unlocked(d) ==                          \* mutation: head not locked
    /\ head[d] < MaxRevision /\ head' = [head EXCEPT ![d] = @ + 1]
    /\ UNCHANGED <<tables, locks, tx, now, turn, token, epoch, reset>>

\* publish: the administrator moves the locked head to a new revision.
Publish(d) ==
    /\ headLock[d] = Nobody
    /\ head[d] < MaxRevision /\ head' = [head EXCEPT ![d] = @ + 1]
    /\ UNCHANGED <<tables, locks, tx, now, turn, token, epoch, reset>>

\* process_settlement posts a charge to the cleared balance of the locked account.
Settle ==
    /\ accountLock[openAccount] = Nobody
    /\ accounts[openAccount].balance < MaxCharges
    /\ accounts' = [accounts EXCEPT ![openAccount].balance = @ + 1]
    /\ UNCHANGED <<proposals, nextProposal, openAccount, audit, effects, locks, tx, world>>

\* open_or_resume_session: a session whose token is stale is created anew, under
\* the same id, with the current generation.
Resume(s) ==
    /\ token[s] # epoch /\ token' = [token EXCEPT ![s] = epoch]
    /\ UNCHANGED <<tables, locks, tx, head, now, turn, epoch, reset>>

\* The presenter's reset deletes the customer's proposals, closes the account and
\* opens a fresh one, then bumps the generation; the full reset bumps it first.
ResetData ==
    /\ reset \in {"none", "announced"} /\ openAccount < MaxResets
    /\ \A p \in Proposal : proposals[p].status # "ABSENT" => rowLock[p] = Nobody
    /\ accountLock[openAccount] = Nobody
    /\ proposals' = [p \in Proposal |-> NoRow]
    /\ accounts' = [accounts EXCEPT ![openAccount].status = "CLOSED",
                                    ![openAccount + 1] = FreshAccount]
    /\ openAccount' = openAccount + 1
    /\ reset' = IF reset = "none" THEN "cleared" ELSE "none"
    /\ UNCHANGED <<nextProposal, audit, effects, locks, tx, head, now, turn, token, epoch>>

BumpGeneration ==
    /\ reset \in {"none", "cleared"}
    /\ reset = "none" => openAccount < MaxResets
    /\ epoch' = epoch + 1
    /\ reset' = IF reset = "none" THEN "announced" ELSE "none"
    /\ UNCHANGED <<tables, locks, tx, head, now, turn, token>>
-----------------------------------------------------------------------------
Begin(r) ==
    \/ \E s \in Session, d \in Playbook, rev \in 1..MaxRevision, t \in Target :
            BeginPrepare(r, s, d, rev, t)
    \/ \E op \in Operation \ {"PREPARE"}, s \in Session, p \in Proposal, shown \in 0..MaxTurn :
            BeginDecision(r, op, s, p, shown)

PrepareStep(r) ==
    PrepareReplay(r) \/ PrepareLookup(r) \/ PrepareFacts(r) \/ PrepareCustomer(r)
        \/ PrepareScan(r) \/ PrepareInsert(r)

DecisionStep(r) ==
    CommitAttest(r) \/ CommitClaim(r) \/ CommitSignals(r) \/ CommitLock(r)
        \/ CommitExecute(r) \/ DecidePresent(r) \/ DecideApply(r) \/ RejectExpired(r)

Step(r) == PrepareStep(r) \/ DecisionStep(r)

Environment ==
    \/ Tick \/ Settle \/ ResetData \/ BumpGeneration
    \/ \E s \in Session : NextTurn(s) \/ Resume(s)
    \/ \E d \in Playbook : Publish(d)

Next == Environment \/ \E r \in Request : Begin(r) \/ Step(r) \/ Abort(r)

\* A statement that can run does run, and PostgreSQL grants a row lock in the
\* order of the waiters: a step enabled again and again is taken.
Fairness == \A r \in Request : SF_vars(Step(r))

Spec == Init /\ [][Next]_vars
FairSpec == Spec /\ Fairness
-----------------------------------------------------------------------------
(* Properties.                                                             *)

\* Every variable stays in its domain; a committed row or a transaction's copy of
\* one never holds a value the ORM model does not allow.
TypeOK ==
    /\ proposals \in [Proposal -> Row]
    /\ nextProposal \in 1..MaxProposals + 1
    /\ accounts \in [Account -> CreditAccount]
    /\ openAccount \in Account
    /\ audit \subseteq Proposal \X Stage
    /\ effects \in [Proposal -> Nat]
    /\ head \in [Playbook -> Nat]
    /\ rowLock \in [Proposal -> Request \cup {Nobody}]
    /\ headLock \in [Playbook -> Request \cup {Nobody}]
    /\ customerLock \in Request \cup {Nobody}
    /\ accountLock \in [Account -> Request \cup {Nobody}]
    /\ tx \in [Request -> [pc: PC, in: Input, row: Row, stages: SUBSET Stage,
                           lapsed: SUBSET Proposal]]
    /\ now \in Nat /\ turn \in [Session -> Nat]
    /\ token \in [Session -> Nat] /\ epoch \in Nat
    /\ reset \in {"none", "cleared", "announced"}

\* A support session never has two unresolved offers, although create looks for
\* one and inserts another in different statements.
OneActiveProposal ==
    \A s \in Session : \A p, q \in Active(proposals, s) : p = q

\* Two rows never carry one idempotency key, although the lookup takes no lock:
\* a duplicated or retried prepare call makes one offer.
OneOfferPerKey ==
    \A p, q \in Proposal :
        /\ proposals[p].status # "ABSENT" /\ proposals[q].status # "ABSENT"
        /\ \A f \in {"session", "origin", "playbook", "revision", "target"} :
                proposals[p][f] = proposals[q][f]
        => p = q

\* The banking action ran once for each offer the audit trail calls committed and
\* never for another, whatever was retried, raced, aborted or reset since.
ExecutedOnceIffCommitted ==
    \A p \in Proposal :
        /\ effects[p] = (IF <<p, "COMMITTED">> \in audit THEN 1 ELSE 0)
        /\ proposals[p].status # "ABSENT" =>
                (effects[p] = 1 <=> proposals[p].status = "COMMITTED")

\* PRESENTED, CONFIRMED and COMMITTING are tentative: no other session, and no
\* later request, ever finds a row left in them.
OnlySettledStatusesAreDurable ==
    \A p \in Proposal :
        proposals[p].status \in {"ABSENT", "PROPOSED"} \cup TERMINAL_STATUSES

Stages(p) == {e \in Stage : <<p, e>> \in audit}

\* The audit trail alone tells what became of an offer: it has one disposition at
\* most, no stage without the stages before it, and it agrees with the row.
AuditTrailMatches ==
    \A p \in Proposal :
        LET e == Stages(p)
        IN  /\ \A x, y \in e \cap TERMINAL_STATUSES : x = y
            /\ e # {} => "PROPOSED" \in e
            /\ "CONFIRMED" \in e => "PRESENTED" \in e
            /\ "COMMIT_STARTED" \in e => "CONFIRMED" \in e
            /\ "COMMITTED" \in e => "COMMIT_STARTED" \in e
            /\ "DECLINED" \in e => "PRESENTED" \in e
            /\ proposals[p].status \in TERMINAL_STATUSES => proposals[p].status \in e
            /\ proposals[p].status = "PROPOSED" => e = {"PROPOSED"}

\* An executed offer was decided on a later customer turn than the one it was
\* prepared on, presented on another turn than the decision, and claimed in time.
CommittedOnLaterTurnInTime ==
    \A p \in Proposal :
        proposals[p].status = "COMMITTED" =>
            /\ proposals[p].decided > proposals[p].origin
            /\ proposals[p].presented \in 1..(proposals[p].decided - 1)
            /\ proposals[p].claimed < proposals[p].expires

Business(row) ==
    <<row.session, row.playbook, row.revision, row.origin, row.gen, row.target,
      row.account, row.limit, row.balance, row.expires>>

Immutable(p) ==
    proposals[p].status # "ABSENT" /\ proposals'[p].status # "ABSENT" =>
        /\ Business(proposals'[p]) = Business(proposals[p])
        /\ proposals[p].status \in TERMINAL_STATUSES => proposals'[p] = proposals[p]

\* An offer's content never changes, a resolved row never changes at all; only a
\* reset takes rows away.
OffersAreImmutable == [][\A p \in Proposal : Immutable(p)]_vars

\* A credit limit moves only by an offer made for that account and for the limit
\* it still has, however long ago the offer was prepared.
LimitMovesByPinnedOffer ==
    [][\A a \in Account :
          accounts[a].status # "NONE" /\ accounts'[a].limit # accounts[a].limit =>
            \E p \in Proposal :
                /\ effects'[p] = effects[p] + 1
                /\ proposals[p].account = a /\ proposals[p].limit = accounts[a].limit
                /\ accounts'[a].limit = proposals[p].target
                /\ accounts[a].status = "ACTIVE"
      ]_vars

\* A fresh offer pins the revision that is published at the moment it commits.
FreshOffersPinThePublishedRevision ==
    [][nextProposal' # nextProposal =>
          LET row == proposals'[nextProposal] IN row.revision = head[row.playbook]
      ]_vars

\* An offer executes under the reset generation and the session it was made in.
ExecutedInItsOwnScope ==
    [][\A p \in Proposal :
          effects'[p] # effects[p] =>
            \E r \in Request :
                /\ tx[r].in.proposal = p /\ tx[r].in.op = "COMMIT"
                /\ tx[r].in.session = proposals[p].session
                /\ tx[r].in.gen = proposals[p].gen
      ]_vars

\* No call waits for ever: the lock order is acyclic and every path unlocks.
RequestsFinish == \A r \in Request : tx[r].pc # "idle" ~> tx[r].pc = "idle"

\* The service keeps the contract of ProposalContract.
Current(s) ==
    IF Active(proposals, s) = {} THEN 0 ELSE CHOOSE p \in Active(proposals, s) : TRUE

Fate(p) ==
    CASE p >= nextProposal -> "unmade"
      [] p < nextProposal /\ proposals[p].status = "ABSENT" -> "erased"
      [] proposals[p].status \in ACTIVE_PROPOSAL_STATUSES -> "open"
      [] proposals[p].status = "COMMITTED" -> "executed"
      [] OTHER -> "closed"

Contract == INSTANCE ProposalContract
    WITH fate <- [p \in Proposal |-> Fate(p)],
         current <- [s \in Session |-> Current(s)],
         executions <- effects

RefinesContract == Contract!Spec
=============================================================================
