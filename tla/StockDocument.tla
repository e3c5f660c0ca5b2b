--------------------------- MODULE StockDocument ----------------------------
(***************************************************************************)
(* What every document that moves stock promises (docs/architecture.md,    *)
(* section 5): it is posted at most once, reversed at most once, and only  *)
(* a posted document is reversed.  Sales, transfers and orders are checked *)
(* to implement it with their own statuses mapped to the phases below.     *)
(*                                                                         *)
(* `posted` and `reversed` count the stock movements done in the name of   *)
(* the document.                                                           *)
(***************************************************************************)
EXTENDS Naturals

CONSTANT Doc

VARIABLES phase, posted, reversed

docVars == <<phase, posted, reversed>>

Phases == {"open", "posted", "reversed", "closed"}

Init ==
    /\ phase = [d \in Doc |-> "open"]
    /\ posted = [d \in Doc |-> 0]
    /\ reversed = [d \in Doc |-> 0]

\* Paying a sale, sending a transfer, completing an order.
Post(d) ==
    /\ phase[d] = "open"
    /\ phase' = [phase EXCEPT ![d] = "posted"]
    /\ posted' = [posted EXCEPT ![d] = @ + 1]
    /\ UNCHANGED reversed

\* Cancelling a posted document: the stock comes back.
Reverse(d) ==
    /\ phase[d] = "posted"
    /\ phase' = [phase EXCEPT ![d] = "reversed"]
    /\ reversed' = [reversed EXCEPT ![d] = @ + 1]
    /\ UNCHANGED posted

\* Giving up documents that never moved stock, finishing posted ones, or deleting
\* their rows (a sweep deletes several): nothing is posted or reversed in their
\* name any more.
Close(D) ==
    /\ \A d \in D : phase[d] # "closed"
    /\ phase' = [d \in Doc |-> IF d \in D THEN "closed" ELSE phase[d]]
    /\ UNCHANGED <<posted, reversed>>

Next ==
    \/ \E d \in Doc : Post(d) \/ Reverse(d)
    \/ \E D \in SUBSET Doc : Close(D)

Spec == Init /\ [][Next]_docVars

=============================================================================
