-------------------------- MODULE ProposalContract --------------------------
(***************************************************************************)
(* What the action-proposal service promises, without its transactions:    *)
(* a session has at most one open offer, an offer executes at most once    *)
(* and only while it is the open one, and what became of it is final until *)
(* a demo reset erases it.                                                 *)
(***************************************************************************)
EXTENDS Integers

CONSTANTS Proposal, Session

VARIABLES
    fate,           \* what became of each offer
    current,        \* the open offer of each session, 0 if it has none
    executions      \* how often the banking action of an offer ran

contractVars == <<fate, current, executions>>

Init ==
    /\ fate = [p \in Proposal |-> "unmade"]
    /\ current = [s \in Session |-> 0]
    /\ executions = [p \in Proposal |-> 0]

\* A new offer takes the place of a lapsed one.
Make(p, s) ==
    /\ fate[p] = "unmade"
    /\ fate' = [q \in Proposal |-> CASE q = p -> "open"
                                     [] q = current[s] -> "closed"
                                     [] OTHER -> fate[q]]
    /\ current' = [current EXCEPT ![s] = p]
    /\ UNCHANGED executions

Resolve(p, s, outcome) ==
    /\ current[s] = p
    /\ fate' = [fate EXCEPT ![p] = outcome]
    /\ current' = [current EXCEPT ![s] = 0]

Execute(p, s) ==
    /\ Resolve(p, s, "executed")
    /\ executions' = [executions EXCEPT ![p] = @ + 1]

Close(p, s) == Resolve(p, s, "closed") /\ UNCHANGED executions

Erase ==
    /\ fate' = [p \in Proposal |-> IF fate[p] = "unmade" THEN "unmade" ELSE "erased"]
    /\ current' = [s \in Session |-> 0]
    /\ UNCHANGED executions

Next ==
    \/ \E p \in Proposal, s \in Session : Make(p, s) \/ Execute(p, s) \/ Close(p, s)
    \/ Erase

Spec == Init /\ [][Next]_contractVars
=============================================================================
