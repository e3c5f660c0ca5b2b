---------------------------- MODULE MCSalesDesk ----------------------------
(***************************************************************************)
(* The sales desk: the till while a sale is open (SalesPos), what covers   *)
(* its price (Payments), and the papers, dates and reports once it is paid *)
(* (Reports).  They see a sale at different grains and share no variable:  *)
(* each behaviour is about one of them, chosen at the start.  Of papers, a *)
(* behaviour has either two clerks and changes of dates, or one clerk,     *)
(* sales without lines, deliveries and reports; of a payment, one request  *)
(* for the receipt, and at the larger price only plain requests that race. *)
(***************************************************************************)
EXTENDS MCSalesPos, Payments, Reports

CONSTANTS g1, g2, z1, z2

VARIABLE part

salesDeskVars == <<part, vars, paymentVars, reportVars>>

ModelRetail == [g \in Good |-> IF g = g1 THEN 3 ELSE 2]
ModelSupply == [g \in Good |-> 1]
ModelSupplier == [g \in Good |-> IF g = g1 THEN z1 ELSE z2]
ModelSeller == [i \in Ids |-> IF i = 1 THEN z1 ELSE z2]
Load(a, b) == [g \in Good |-> IF g = g1 THEN a ELSE b]
ModelBaskets == {Load(0, 0), Load(2, 1)}
ModelReturned == {Load(1, 0), Load(2, 1)}
ModelDeliveries ==
    {[type |-> "PURCHASE", good |-> g1, way |-> "in"],
     [type |-> "TRANSFER", good |-> g2, way |-> "in"],
     [type |-> "TRANSFER", good |-> g1, way |-> "out"],
     [type |-> "ADJUSTMENT", good |-> g2, way |-> "out"]}
ModelPeriods == {<<0, 1>>}

OneClerkAtATime == Cardinality({c \in Clerk : desk'[c] # Waiting}) <= 1

\* One request for the receipt at a time; of drafts, at one price and unsplit.
FewReceipts ==
    LET asked == {counter'[c] : c \in {d \in Cashier : counter'[d].step = "receipt"}}
    IN  /\ Cardinality(asked) <= 1
        /\ \A r \in asked : ~r.snapshot.paid =>
               r.snapshot.total = Most /\ r.snapshot.came[DefaultMethod] = Most
                  /\ \A m \in Method \ {DefaultMethod} : r.snapshot.came[m] = 0

\* Neither bonus nor debt, and of the splits one: what may race at the larger price.
PlainRequest(r) ==
    LET shared(split) == split # NoSplit => split[DefaultMethod] = 1
    IN  /\ r.step = "pay" => r.bonus = 0 /\ r.debt = 0 /\ shared(r.rows.split)
        /\ r.step = "change" => r.promised = 0 /\ shared(r.split)

FewRaces ==
    LET busy == {c \in Cashier : counter'[c] # AtCounter}
    IN  bill'.payable = Most /\ Cardinality(busy) > 1 =>
            \A c \in busy : PlainRequest(counter'[c])

SalesDeskInit ==
    /\ part \in {"till", "payment", "dates", "reports"}
    /\ Init /\ PaymentsInit /\ ReportsInit

SalesDeskNext ==
    \/ /\ part = "till" /\ Next
       /\ UNCHANGED <<part, paymentVars, reportVars>>
    \/ /\ part = "payment" /\ PaymentsNext
       /\ FewReceipts /\ FewRaces
       /\ UNCHANGED <<part, vars, reportVars>>
    \/ /\ part = "dates" /\ AdjustmentsNext
       /\ moves' = <<>> /\ Bare' = {}
       /\ UNCHANGED <<part, vars, paymentVars, report>>
    \/ /\ part = "reports" /\ ReportsNext
       /\ redates' = 0 /\ OneClerkAtATime
       /\ UNCHANGED <<part, vars, paymentVars>>

SalesDeskSpec == SalesDeskInit /\ [][SalesDeskNext]_salesDeskVars

\* Tills, cashiers and clerks are interchangeable, and so are sales (invariants only).
\* A behaviour is about one part, so the pairs of all are swapped at once.
Swap(S, all) == [x \in S |-> IF all THEN CHOOSE y \in S : y # x ELSE x]
Desks ==
    {Swap(Request, all) @@ Swap(Cashier, all) @@ Swap(Clerk, all) :
        all \in BOOLEAN} \cup Permutations(Sale)

SalesDeskTypeOK == TypeOK /\ PaymentsTypeOK /\ ReportsTypeOK

=============================================================================
