-------------------------- MODULE MCEventScheduler --------------------------
(* Small instances of EventScheduler for TLC. *)
EXTENDS EventScheduler

Row(kind) == [kind |-> kind, persona |-> "p"]

\* A purchase and its reversal, one and the customer's answer to its alert, and a
\* purchase with its settlement.
Scenarios == {<<Row("AUTHORIZE"), Row("REVERSE")>>, <<Row("AUTHORIZE"), Row("ACTION")>>,
              <<Row("AUTHORIZE"), Row("SETTLE")>>}
=============================================================================
