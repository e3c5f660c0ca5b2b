----------------------------- MODULE MCSalesPos -----------------------------
(***************************************************************************)
(* Small instances of SalesPos: every item costs one unit of money.        *)
(***************************************************************************)
EXTENDS SalesPos, TLC

ModelPrice == [i \in Item |-> 1]

\* Tills are interchangeable, and so are sales (invariants only).
Tills == Permutations(Request) \cup Permutations(Sale)

\* A step that opens, parks or sweeps a cancelled sale by its id; SalesPos_recancel
\* shows what comes of it.
Reopens == \E s \in Sale : status[s] = "cancelled" /\ status'[s] \in {"open", "draft", "parked"}

DocumentsNext == Next /\ ~Reopens

DocumentsSpec == Init /\ [][DocumentsNext]_vars

=============================================================================
