--------------------------- MODULE UsageDelivery ---------------------------
(***************************************************************************)
(* What the usage dispatcher of sdk/cliproxy/usage/manager.go promises the *)
(* code that publishes records: an open channel accepts records, delivers  *)
(* each of them once and in order, and closing it stops acceptance but not *)
(* delivery.  Threads, locks and wakeups do not appear here.               *)
(***************************************************************************)
EXTENDS Naturals, Sequences

CONSTANT MaxRecords   \* bound: records accepted in a behaviour

VARIABLES
    open,        \* records are still accepted
    accepted,    \* how many have been
    delivered    \* the records delivered, in order

vars == <<open, accepted, delivered>>

Init ==
    /\ open = TRUE
    /\ accepted = 0
    /\ delivered = <<>>

Accept ==
    /\ open
    /\ accepted < MaxRecords
    /\ accepted' = accepted + 1
    /\ UNCHANGED <<open, delivered>>

Deliver ==
    /\ Len(delivered) < accepted
    /\ delivered' = Append(delivered, Len(delivered) + 1)
    /\ UNCHANGED <<open, accepted>>

Close ==
    /\ open
    /\ open' = FALSE
    /\ UNCHANGED <<accepted, delivered>>

Next == Accept \/ Deliver \/ Close

SafeSpec == Init /\ [][Next]_vars

Spec == SafeSpec /\ WF_vars(Deliver)
=============================================================================
