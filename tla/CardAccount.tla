---------------------------- MODULE CardAccount ----------------------------
(***************************************************************************)
(* One credit-card account and everything that moves its money: the card   *)
(* network's authorizations, settlements and reversals, bill payments, fee *)
(* reversals and limit increases, each call in its own database session.   *)
(*                                                                         *)
(* A call reads without a lock (Begin...), then waits for the account row  *)
(* and does the rest under its lock up to COMMIT (one action).  Only such  *)
(* actions write, so the lock itself needs no variable.  Abort stands for  *)
(* a refusal, a NOWAIT conflict, a violated unique key or a crash.         *)
(***************************************************************************)
EXTENDS Integers, FiniteSets, Sequences

CONSTANTS
    Call,           \* concurrent calls
    Rrn,            \* retrieval reference numbers of the network
    PayKey,         \* idempotency keys of bill payments
    Amount,         \* amounts of authorizations and payments
    Clearing,       \* amounts of settlements, which need not be those held
    InitialLimit,   \* the credit limit of a fresh account
    Raised,         \* limits it may be raised to
    InitialDeposit, \* cleared balance of the checking account that pays
    MaxHolds,       \* bound: authorizations ever recorded
    MaxCalls        \* bound: calls ever begun

ASSUME AccountAssumption ==
    /\ Amount \subseteq Nat \ {0} /\ Clearing \subseteq Nat \ {0} /\ Raised \subseteq Nat
    /\ InitialLimit \in Nat /\ InitialDeposit \in Nat /\ MaxHolds \in Nat /\ MaxCalls \in Nat

VARIABLES
    account,        \* cards.credit_accounts: limit, cleared balance, available credit
    holds,          \* cards.transaction_authorization, in insertion order
    journal,        \* posted transactions with their journal entries, in order
    deposit,        \* cleared balance of the customer's checking account
    calls,          \* what each call has read so far
    begun           \* counts calls

vars == <<account, holds, journal, deposit, calls, begun>>
-----------------------------------------------------------------------------
Idle == [op |-> "NONE"]

Init ==
    /\ account = [limit |-> InitialLimit, balance |-> 0, available |-> InitialLimit]
    /\ holds = <<>>
    /\ journal = <<>>
    /\ deposit = InitialDeposit
    /\ calls = [c \in Call |-> Idle]
    /\ begun = 0

\* A flagged hold is settled, reversed and counted like a pending one.
Held == {"PENDING", "FLAGGED"}

SumOf(amounts) ==
    LET upTo[n \in 0..Len(amounts)] == IF n = 0 THEN 0 ELSE upTo[n - 1] + amounts[n]
    IN  upTo[Len(amounts)]

\* What a hold takes off the available credit.
Blocked(h) == IF h.status \in Held THEN h.amount ELSE 0

Total(hs) == SumOf([i \in DOMAIN hs |-> Blocked(hs[i])])

Recalculated_unclamped(a, hs) ==                    \* mutation: max(0, ...) forgotten
    LET raw == a.limit - a.balance - Total(hs)
    IN  [a EXCEPT !.available = IF raw > a.limit THEN a.limit ELSE raw]

\* recalculate_available_credit, from the holds flushed so far.
Recalculated(a, hs) ==
    LET raw == a.limit - a.balance - Total(hs)
    IN  [a EXCEPT !.available =
            IF raw < 0 THEN 0 ELSE IF raw > a.limit THEN a.limit ELSE raw]

KeyFree_unchecked(kind, ref) == TRUE            \* mutation: no idempotency key
\* The unique idempotency keys of the journal (card-settlement, card-reversal, bill-payment)
\* and the unique journal transaction of a statement line: a posting found again is reused,
\* and the second statement line of it is refused.
KeyFree(kind, ref) ==
    \A i \in DOMAIN journal : ~(journal[i].kind = kind /\ journal[i].ref = ref)

Post(kind, ref, amount) ==
    journal' = Append(journal, [kind |-> kind, ref |-> ref, amount |-> amount])

Begin(c, record) ==
    /\ calls[c] = Idle /\ begun < MaxCalls
    /\ calls' = [calls EXCEPT ![c] = record]
    /\ begun' = begun + 1
    /\ UNCHANGED <<account, holds, journal, deposit>>

Continue(c, record) == calls' = [calls EXCEPT ![c] = record] /\ UNCHANGED begun

Return(c) == Continue(c, Idle)

Abort(c) ==
    /\ calls[c] # Idle
    /\ Return(c)
    /\ UNCHANGED <<account, holds, journal, deposit>>
-----------------------------------------------------------------------------
(* The card network.                                                       *)

Authorizing == {c \in Call : calls[c].op = "AUTHORIZE"}

\* A known RRN is answered from the recorded authorization: nothing changes.
BeginAuthorize(c, rrn, amount) ==
    /\ Len(holds) + Cardinality(Authorizing) < MaxHolds
    /\ \A i \in DOMAIN holds : holds[i].rrn # rrn
    /\ Begin(c, [op |-> "AUTHORIZE", rrn |-> rrn, amount |-> amount])

Hold(c, status) == [rrn |-> calls[c].rrn, amount |-> calls[c].amount, status |-> status]

\* Declined for want of credit, or held; flagged or not by the fraud score.
Authorize(c) ==
    /\ calls[c].op = "AUTHORIZE"
    /\ \/ /\ calls[c].amount > account.available
          /\ holds' = Append(holds, Hold(c, "DECLINED"))
          /\ account' = account
       \/ /\ calls[c].amount <= account.available
          /\ \E status \in Held : holds' = Append(holds, Hold(c, status))
          /\ account' = Recalculated(account, holds')
    /\ Return(c)
    /\ UNCHANGED <<journal, deposit>>

\* Settlement and reversal look the hold up by RRN and status, without a lock,
\* and do not look again once they hold the account's.
BeginSettle(c, i, amount) ==
    /\ holds[i].status \in Held
    /\ Begin(c, [op |-> "SETTLE", hold |-> i, amount |-> amount])

BeginReverse(c, i) ==
    /\ holds[i].status \in Held
    /\ Begin(c, [op |-> "REVERSE", hold |-> i])

Captured_asHeld(c) == holds[calls[c].hold].amount     \* mutation: hold, not clearing
\* The amount that clears need not be the amount held.
Captured(c) == calls[c].amount

Settle(c) ==
    LET i == calls[c].hold
        charged == [account EXCEPT !.balance = @ + Captured(c)]
    IN  /\ calls[c].op = "SETTLE"
        /\ KeyFree("CHARGE", holds[i].rrn)
        /\ holds' = [holds EXCEPT ![i].status = "SETTLED"]
        /\ Post("CHARGE", holds[i].rrn, calls[c].amount)
        /\ account' = Recalculated(charged, holds')
        /\ Return(c)
        /\ UNCHANGED deposit

ReverseHold_unflushed(c) ==                         \* mutation: sum query before the flush
    /\ calls[c].op = "REVERSE"
    /\ holds' = [holds EXCEPT ![calls[c].hold].status = "REVERSED"]
    /\ account' = Recalculated(account, holds)
    /\ Return(c)
    /\ UNCHANGED <<journal, deposit>>

ReverseHold(c) ==
    /\ calls[c].op = "REVERSE"
    /\ holds' = [holds EXCEPT ![calls[c].hold].status = "REVERSED"]
    /\ account' = Recalculated(account, holds')
    /\ Return(c)
    /\ UNCHANGED <<journal, deposit>>
-----------------------------------------------------------------------------
(* Servicing.                                                              *)

\* The route finds the customer's account first; the locking read of
\* reverse_posted_fee then returns that same object with the values it had.
BeginFeeReversal(c, i) ==
    /\ journal[i].kind = "CHARGE"
    /\ Begin(c, [op |-> "FEE", line |-> i, seen |-> account])

FeeReversal(c) ==
    LET line == journal[calls[c].line]
        seen == calls[c].seen
    IN  /\ calls[c].op = "FEE"
        /\ KeyFree("REVERSAL", line.ref)
        /\ Post("REVERSAL", line.ref, line.amount)
        /\ account' = [account EXCEPT !.balance = seen.balance - line.amount,
                                      !.available = seen.available + line.amount]
        /\ Return(c)
        /\ UNCHANGED <<holds, deposit>>

Affordable(amount) == deposit >= amount /\ account.balance >= amount

\* execute_bill_payment looks for its key before and again under the locks.
BeginPayment(c, key, amount) ==
    /\ KeyFree("PAYMENT", key)
    /\ Begin(c, [op |-> "PAY", key |-> key, amount |-> amount])

Payment(c) ==
    LET in == calls[c]
    IN  /\ in.op = "PAY"
        /\ KeyFree("PAYMENT", in.key)
        /\ Affordable(in.amount)
        /\ deposit' = deposit - in.amount
        /\ Post("PAYMENT", in.key, in.amount)
        /\ account' = Recalculated([account EXCEPT !.balance = @ - in.amount], holds)
        /\ Return(c)
        /\ UNCHANGED holds

\* apply_limit_increase refreshes the row it locks and moves both amounts by the delta.
IncreaseLimit(limit) ==
    /\ limit > account.limit
    /\ account' = [account EXCEPT !.limit = limit, !.available = @ + (limit - account.limit)]
    /\ UNCHANGED <<holds, journal, deposit, calls, begun>>
-----------------------------------------------------------------------------
Next ==
    \/ \E c \in Call :
        \/ \E rrn \in Rrn, a \in Amount : BeginAuthorize(c, rrn, a)
        \/ \E i \in DOMAIN holds : BeginReverse(c, i) \/ \E a \in Clearing : BeginSettle(c, i, a)
        \/ \E i \in DOMAIN journal : BeginFeeReversal(c, i)
        \/ \E k \in PayKey, a \in Amount : BeginPayment(c, k, a)
        \/ Authorize(c) \/ Settle(c) \/ ReverseHold(c) \/ FeeReversal(c) \/ Payment(c)
        \/ Abort(c)
    \/ \E l \in Raised : IncreaseLimit(l)

Spec == Init /\ [][Next]_vars
-----------------------------------------------------------------------------
Balances == [limit: Nat, balance: Int, available: Nat]
Requested ==
    [op: {"NONE"}] \cup [op: {"AUTHORIZE"}, rrn: Rrn, amount: Amount]
        \cup [op: {"SETTLE"}, hold: Nat, amount: Clearing] \cup [op: {"REVERSE"}, hold: Nat]
        \cup [op: {"FEE"}, line: Nat, seen: Balances]
        \cup [op: {"PAY"}, key: PayKey, amount: Amount]

\* The tables stay in their domain; the checking account is never overdrawn, and an
\* over-limit account has no negative credit.
MoneyTypeOK ==
    /\ account \in Balances
    /\ holds \in Seq([rrn: Rrn, amount: Amount,
                      status: Held \cup {"SETTLED", "REVERSED", "DECLINED"}])
    /\ journal \in Seq([kind: {"CHARGE", "REVERSAL", "PAYMENT", "CREDIT"},
                        ref: Rrn \cup PayKey, amount: Amount \cup Clearing])
    /\ deposit \in Nat /\ begun \in 0..MaxCalls

\* A duplicated settlement, fee reversal, payment or provisional credit posts once: two
\* calls that both found the hold pending, the charge unreversed or the key unused do
\* not both post.
PostedOnce ==
    \A i, j \in DOMAIN journal :
        journal[i].kind = journal[j].kind /\ journal[i].ref = journal[j].ref => i = j

\* Statement total: charges add to the debt, all others lower it.
Signed(l) == IF l.kind = "CHARGE" THEN l.amount ELSE -l.amount
Owed(lines) == SumOf([i \in DOMAIN lines |-> Signed(lines[i])])

Drift == account.balance - Owed(journal)

\* A call that ends with an account object that went stale while it waited for the lock.
StaleEnd ==
    \E c \in Call :
        /\ calls[c] # Idle /\ calls'[c] = Idle
        /\ "seen" \in DOMAIN calls[c] /\ calls[c].seen # account

\* Whatever interleaves, the cleared balance moves with the posted lines, by the
\* amount that cleared; only a call with a stale account object can make the two part.
BalanceMovesWithJournal == [][Drift' = Drift \/ StaleEnd]_vars

Withheld == account.available < Recalculated(account, holds).available
-----------------------------------------------------------------------------
(* What the documentation says and the code does not do.                   *)

\* "Pessimistic Row Locking to guarantee ledger consistency" (reverse_posted_fee):
\* the cleared balance is always the total of the posted lines.
BalanceMatchesJournal == Drift = 0

\* "Enforce Idempotency check via RRN" (process_authorization): a request that is
\* sent twice holds credit once.
OneHoldPerRrn ==
    \A i, j \in DOMAIN holds : holds[i].rrn = holds[j].rrn => i = j
=============================================================================
