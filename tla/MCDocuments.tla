----------------------------- MODULE MCDocuments -----------------------------
(***************************************************************************)
(* Two documents of a shop that share no table but the stock: a transfer   *)
(* from shop s1 to shop s2 and an order of a client.  Each behaviour is    *)
(* about one of them, chosen at the start; the other stays as it is.       *)
(***************************************************************************)
EXTENDS Transfers, Orders, TLC

CONSTANTS s1, s2, k1, k2, r1, r2, w1, w2

VARIABLE kind

documentVars == <<kind, vars, orderVars>>

DocumentsInit == kind \in {"transfer", "order"} /\ Init /\ OrderInit

DocumentsNext ==
    \/ kind = "transfer" /\ Next /\ UNCHANGED <<kind, orderVars>>
    \/ kind = "order" /\ OrderNext /\ UNCHANGED <<kind, vars>>

DocumentsSpec == DocumentsInit /\ [][DocumentsNext]_documentVars

DocumentsTypeOK == TypeOK /\ OrderTypeOK

ModelFrom == [t \in Transfer |-> s1]
ModelTo == [t \in Transfer |-> s2]
ModelItemOf == [w \in Place |-> CHOOSE i \in Item : TRUE]

\* The clerks are interchangeable, and so are two requests for transfers and the
\* products of an order.
Swap(S, all) == [x \in S |-> IF all THEN CHOOSE y \in S : y # x ELSE x]
DocumentsSymmetry ==
    {Swap({k1, k2}, all) @@ Swap({r1, r2}, all) : all \in BOOLEAN}
        \cup Permutations(OrderProduct)

=============================================================================
