------------------------------ MODULE PagedRead -----------------------------
(***************************************************************************)
(* What reading a collection from a Microsoft API promises its caller:     *)
(* the pages up to the page budget, in order, with a flag that says        *)
(* whether the service had more; or an exception and nothing at all.       *)
(***************************************************************************)
EXTENDS Naturals, Sequences

CONSTANTS PageCounts,  \* how many pages a collection may have
          MaxPages     \* page budget of a read

VARIABLES total,      \* pages of the collection being read
          status,     \* "idle", "reading", "done" or "failed"
          delivered,  \* pages handed to the caller
          truncated   \* GraphListResult.truncated

vars == <<total, status, delivered, truncated>>

FirstPages(n) == [i \in 1 .. n |-> i]

Init == /\ total \in PageCounts
        /\ status = "idle"
        /\ delivered = <<>>
        /\ truncated = FALSE

Begin == /\ status # "reading"
         /\ status' = "reading"
         /\ total' \in PageCounts
         /\ delivered' = <<>>
         /\ truncated' = FALSE

Deliver == /\ status = "reading"
           /\ status' = "done"
           /\ delivered' = FirstPages(IF total > MaxPages THEN MaxPages ELSE total)
           /\ truncated' = (total > MaxPages)
           /\ UNCHANGED total

Fail == /\ status = "reading"
        /\ status' = "failed"
        /\ UNCHANGED <<total, delivered, truncated>>

Next == Begin \/ Deliver \/ Fail

Spec == Init /\ [][Next]_vars
=============================================================================
